-------------------------- MODULE AuthorizerProofs --------------------------
(***************************************************************************)
(* What holds of the authorizer for any number of threads, services and    *)
(* permissions, any defaults and any edits of an administrator: types, and *)
(* that a grant and a refusal are justified although the comparisons they  *)
(* rest on are made one by one, with edits of the hierarchy in between.    *)
(***************************************************************************)
EXTENDS Authorizer, TLAPS

USE AuthorizerAssumption, QueryAssumption DEF AuthorizerAssumption

-----------------------------------------------------------------------------
(* The hierarchy.                                                          *)

\* A set of roles that is not empty has a first element.
LEMMA FirstIsElement ==
    ASSUME NEW S \in SUBSET Roles, S # {}
    PROVE  FirstOf(S) \in S
<1>1. \E r \in S : \A x \in S : Rank[r] <= Rank[x]
  <2>1. CASE "ADMIN" \in S
    BY <2>1 DEF Rank, Roles
  <2>2. CASE "ADMIN" \notin S /\ "OPERATOR" \in S
    BY <2>2 DEF Rank, Roles
  <2>3. CASE "ADMIN" \notin S /\ "OPERATOR" \notin S
    <3>1. S = {"VIEWER"}
      BY <2>3 DEF Roles
    <3> QED
      BY <3>1 DEF Rank
  <2> QED
    BY <2>1, <2>2, <2>3
<1> QED
  BY <1>1 DEF FirstOf

\* A role that is above another stays above it when edges are added.
LEMMA AboveGrows ==
    ASSUME NEW h, NEW g, \A r \in Roles : h[r] \subseteq g[r],
           NEW a \in Roles, NEW b \in Roles, AtLeast(h, a, b)
    PROVE  AtLeast(g, a, b)
<1>1. CASE a = b
  BY <1>1 DEF AtLeast
<1>2. CASE b \in Below(h, a)
  <2>1. ASSUME NEW S \in SUBSET Roles, g[a] \subseteq S, \A x \in S : g[x] \subseteq S
        PROVE  b \in S
    <3>1. h[a] \subseteq S /\ \A x \in S : h[x] \subseteq S
      BY <2>1
    <3> QED
      BY <1>2, <3>1 DEF Below
  <2> QED
    BY <2>1 DEF AtLeast, Below
<1> QED
  BY <1>1, <1>2 DEF AtLeast

\* A role that has no subordinates is above itself only.
LEMMA AboveNone ==
    ASSUME NEW h, NEW a \in Roles, NEW b \in Roles, h[a] = {}, a # b
    PROVE  ~AtLeast(h, a, b)
BY DEF AtLeast, Below

\* A direct subordinate is below its superior.
LEMMA AboveDirect ==
    ASSUME NEW h, NEW a \in Roles, NEW b \in Roles, b \in h[a]
    PROVE  AtLeast(h, a, b)
BY DEF AtLeast, Below

\* The answers of is_role_superior: "yes" is right by the hierarchy as it is,
\* and "no" by any hierarchy with no more edges.
LEMMA SuperiorIsRight ==
    ASSUME NEW a \in Roles, NEW b \in Roles, m_role_hierarchy \in [Roles -> SUBSET Roles]
    PROVE  /\ Superior(a, b) = "yes" => AtLeast(m_role_hierarchy, a, b)
           /\ Superior(a, b) = "no" =>
                 \A h : h[a] \subseteq m_role_hierarchy[a] => ~AtLeast(h, a, b)
<1>1. CASE a = b
  BY <1>1 DEF Superior, AtLeast
<1>2. CASE a # b /\ m_role_hierarchy[a] = {}
  BY <1>2, AboveNone DEF Superior
<1>3. CASE a # b /\ m_role_hierarchy[a] # {}
  BY <1>3, FirstIsElement, AboveDirect DEF Superior
<1> QED
  BY <1>1, <1>2, <1>3

-----------------------------------------------------------------------------
(* Types.                                                                  *)

\* What a query of each kind asks.
LEMMA QueryTyped ==
    ASSUME NEW q \in Query
    PROVE  /\ q.role \in Roles
           /\ q.op = "has_permission" => q.of \in Permissions
           /\ q.op = "is_role_superior" => q.of \in Roles
BY DEF Query

\* A caller that is not idle is in a query, and one that judges services holds
\* their mutex, so that those it has left are in the table.
Asks(c) ==
    /\ pc[c] # "idle" => query[c] \in Query
    /\ pc[c] \in {"judging", "comparing"} =>
          /\ m_services_mutex = c
          /\ JudgesServices(c)
          /\ left[c] \subseteq DOMAIN m_services

TypeInv == TypeOK /\ \A c \in Callers : Asks(c)

\* Every step gives every variable a value of its type.
LEMMA TypeStep ==
    ASSUME TypeInv, [Next]_vars
    PROVE  TypeInv'
<1> USE DEF TypeInv, TypeOK, Asks, JudgesServices, tables, mutexes, judging, callerVars, Goto
<1>1. ASSUME NEW c \in Callers, NEW q \in Query, Call(c, q)
      PROVE  TypeInv'
  BY <1>1 DEF Call
<1>2. ASSUME NEW c \in Callers, Leave(c)
      PROVE  TypeInv'
  BY <1>2 DEF Leave
<1>3. ASSUME NEW c \in Callers, LockServices(c)
      PROVE  TypeInv'
  BY <1>3 DEF LockServices
<1>4. ASSUME NEW c \in Callers, DenyService(c)
      PROVE  TypeInv'
  BY <1>4 DEF DenyService, Judged
<1>5. ASSUME NEW c \in Callers, UnlockServices(c)
      PROVE  TypeInv'
  BY <1>5 DEF UnlockServices
<1>6. ASSUME NEW c \in Callers, NEW s \in Services, JudgeNamed(c, s)
      PROVE  TypeInv'
  BY <1>6 DEF JudgeNamed
<1>7. ASSUME NEW c \in Callers, NEW s \in Services, JudgeByHierarchy(c, s)
      PROVE  TypeInv'
  BY <1>7 DEF JudgeByHierarchy
<1>8. ASSUME NEW c \in Callers, NEW r \in Roles, CompareRole(c, r)
      PROVE  TypeInv'
  <2>1. CASE Superior(query[c].role, r) = "yes"
    <3>1. /\ left' = [left EXCEPT ![c] = @ \ {service[c]}]
          /\ service' = [service EXCEPT ![c] = NoService]
          /\ todo' = [todo EXCEPT ![c] = {}]
          /\ answer' = [answer EXCEPT ![c] = @ \cup {service[c]}]
          /\ pc' = [pc EXCEPT ![c] = "judging"]
          /\ pc[c] = "comparing"
          /\ UNCHANGED <<tables, mutexes, query, known>>
      BY <1>8, <2>1 DEF CompareRole, Judged
    <3>2. service[c] \in Services
      BY <3>1
    <3> QED
      BY <3>1, <3>2
  <2>2. CASE Superior(query[c].role, r) = "no"
    <3>1. /\ todo' = [todo EXCEPT ![c] = @ \ {r}]
          /\ UNCHANGED <<tables, mutexes, pc, query, left, service, answer, known>>
      BY <1>8, <2>2 DEF CompareRole
    <3> QED
      BY <3>1
  <2>3. CASE Superior(query[c].role, r) = "relocks"
    BY <1>8, <2>3 DEF CompareRole
  <2> HIDE DEF TypeInv
  <2> QED
    BY <1>8, <2>1, <2>2, <2>3 DEF CompareRole
<1>9. ASSUME NEW c \in Callers, LookUpPermission(c)
      PROVE  TypeInv'
  BY <1>9, QueryTyped DEF LookUpPermission
<1>10. ASSUME NEW c \in Callers, InheritPermission(c)
       PROVE  TypeInv'
  BY <1>10, QueryTyped DEF InheritPermission
<1>11. ASSUME NEW c \in Callers, IsRoleSuperior(c)
       PROVE  TypeInv'
  BY <1>11, QueryTyped DEF IsRoleSuperior
<1>12. CASE Administer
  <2>1. ASSUME NEW s \in Services, NEW allowed \in AllowedRoles, AddService(s, allowed)
        PROVE  TypeInv'
    BY <2>1 DEF AddService
  <2>2. ASSUME NEW s \in Services, NEW allowed \in AllowedRoles, UpdateService(s, allowed)
        PROVE  TypeInv'
    BY <2>2 DEF UpdateService
  <2>3. ASSUME NEW s \in Services, RemoveService(s)
        PROVE  TypeInv'
    BY <2>3 DEF RemoveService
  <2>4. ASSUME NEW r \in Roles, NEW p \in Permissions, AddPermissionToRole(r, p)
        PROVE  TypeInv'
    BY <2>4 DEF AddPermissionToRole
  <2>5. ASSUME NEW r \in Roles, NEW p \in Permissions, RemovePermissionFromRole(r, p)
        PROVE  TypeInv'
    BY <2>5 DEF RemovePermissionFromRole
  <2>6. ASSUME NEW r \in Roles, NEW b \in Roles, SetRoleHierarchy(r, b)
        PROVE  TypeInv'
    BY <2>6 DEF SetRoleHierarchy
  <2> QED
    BY <1>12, <2>1, <2>2, <2>3, <2>4, <2>5, <2>6 DEF Administer
<1>13. CASE UNCHANGED vars
  BY <1>13 DEF vars
<1> QED
  BY <1>1, <1>2, <1>3, <1>4, <1>5, <1>6, <1>7, <1>8, <1>9, <1>10, <1>11, <1>12, <1>13
     DEF Next, Step

\* Nobody asks anything at first.
LEMMA InitTypeInv == Init => TypeInv
BY DEF Init, TypeInv, TypeOK, Asks, Roles

\* Every state the authorizer reaches has values of the right types, and the
\* service a query compares is one it has not judged yet.
THEOREM TypeCorrect == Spec => []TypeOK
<1>1. TypeInv => TypeOK
  BY DEF TypeInv
<1> QED
  BY InitTypeInv, TypeStep, <1>1, PTL DEF Spec

-----------------------------------------------------------------------------
(* Judgements.                                                             *)

\* The two answers on a service: it is allowed by the tables as they are, or
\* it was not asked about or is refused by the hierarchy the query began with.
Allowed(c, s) ==
    /\ s \in DOMAIN m_services
    /\ \E r \in m_services[s] : AtLeast(m_role_hierarchy, query[c].role, r)
Refused(c, s) ==
    \/ query[c].op = "can_access_service" /\ s # query[c].of
    \/ \A r \in m_services[s] : ~AtLeast(known[c], query[c].role, r)

\* While services are judged, those in the answer are allowed, and those that
\* are neither in the answer nor left are refused; of the one that is compared,
\* the roles that are not to do are not below the caller's.
Judgement(c) ==
    pc[c] \in {"judging", "comparing"} =>
       /\ \A s \in answer[c] : Allowed(c, s)
       /\ \A s \in DOMAIN m_services : s \in left[c] \cup answer[c] \/ Refused(c, s)
       /\ pc[c] = "comparing" =>
             /\ todo[c] \subseteq m_services[service[c]]
             /\ \A r \in m_services[service[c]] :
                    r \in todo[c] \/ ~AtLeast(known[c], query[c].role, r)

\* Edges are only added while a query lasts.  A query that has not judged has
\* no answer.  One that waits for the roles above its own keeps the
\* permissions locked, and its own role has not the permission.
Waits(c) ==
    /\ \A r \in Roles : known[c][r] \subseteq m_role_hierarchy[r]
    /\ pc[c] \in {"idle", "called"} => answer[c] = {}
    /\ pc[c] = "inheriting" =>
          /\ m_permissions_mutex = c
          /\ query[c].op = "has_permission"
          /\ query[c].of \notin m_role_permissions[query[c].role]

IInv == TypeInv /\ \A c \in Callers : Waits(c) /\ Judgement(c)

\* A query that a step leaves alone is judged as before: the tables it depends
\* on are locked, or grow.
LEMMA Frame ==
    ASSUME IInv, TypeInv', NEW e \in Callers,
           pc'[e] = pc[e], query'[e] = query[e], left'[e] = left[e],
           service'[e] = service[e], todo'[e] = todo[e], answer'[e] = answer[e],
           known'[e] = known[e],
           \A r \in Roles : m_role_hierarchy[r] \subseteq m_role_hierarchy'[r],
           m_services' = m_services \/ m_services_mutex # e,
           m_role_permissions' = m_role_permissions \/ m_permissions_mutex # e,
           m_permissions_mutex' = m_permissions_mutex \/ m_permissions_mutex # e
    PROVE  (Waits(e) /\ Judgement(e))'
<1>1. Waits(e) /\ Judgement(e) /\ Asks(e)
  BY DEF IInv, TypeInv
<1>2. Waits(e)'
  BY <1>1 DEF Waits, IInv, TypeInv, TypeOK
<1>3. Judgement(e)'
  <2> SUFFICES ASSUME pc[e] \in {"judging", "comparing"}
               PROVE  Judgement(e)'
    BY DEF Judgement
  <2>1. m_services' = m_services
    BY <1>1 DEF Asks
  <2>2. query[e].role \in Roles
    BY <1>1, QueryTyped DEF Asks
  <2>3. ASSUME NEW s \in answer[e]
        PROVE  Allowed(e, s)'
    <3>1. PICK r \in m_services[s] : AtLeast(m_role_hierarchy, query[e].role, r)
      BY <1>1 DEF Judgement, Allowed
    <3>2. s \in DOMAIN m_services /\ r \in Roles
      BY <1>1 DEF Judgement, Allowed, IInv, TypeInv, TypeOK
    <3>3. AtLeast(m_role_hierarchy', query[e].role, r)
      BY <2>2, <3>1, <3>2, AboveGrows
    <3> QED
      BY <2>1, <3>1, <3>2, <3>3 DEF Allowed
  <2>4. ASSUME NEW s \in DOMAIN m_services, s \notin left[e] \cup answer[e]
        PROVE  Refused(e, s)'
    BY <1>1, <2>1, <2>4 DEF Judgement, Refused
  <2>5. ASSUME pc[e] = "comparing", NEW r \in m_services[service[e]], r \notin todo[e]
        PROVE  ~AtLeast(known'[e], query'[e].role, r)
    BY <1>1, <2>5 DEF Judgement
  <2>6. pc[e] = "comparing" => todo[e] \subseteq m_services[service[e]]
    BY <1>1 DEF Judgement
  <2> QED
    BY <2>1, <2>3, <2>4, <2>5, <2>6 DEF Judgement
<1> QED
  BY <1>2, <1>3

\* A caller's step leaves the judgements of the others alone.
LEMMA OthersStep ==
    ASSUME IInv, TypeInv', NEW c \in Callers,
           Step(c) \/ Leave(c) \/ \E q \in Query : Call(c, q),
           NEW e \in Callers, e # c
    PROVE  (Waits(e) /\ Judgement(e))'
<1> DEFINE Alone ==
          /\ pc'[e] = pc[e] /\ query'[e] = query[e] /\ left'[e] = left[e]
          /\ service'[e] = service[e] /\ todo'[e] = todo[e] /\ answer'[e] = answer[e]
          /\ known'[e] = known[e]
          /\ UNCHANGED tables
          /\ m_permissions_mutex' = m_permissions_mutex \/ m_permissions_mutex # e
<1>1. Alone
  <2> USE DEF IInv, TypeInv, TypeOK, Waits, mutexes, judging, Goto
  <2>1. ASSUME LockServices(c)
        PROVE  Alone
    BY <2>1 DEF LockServices
  <2>2. ASSUME DenyService(c)
        PROVE  Alone
    BY <2>2 DEF DenyService, Judged
  <2>3. ASSUME UnlockServices(c)
        PROVE  Alone
    BY <2>3 DEF UnlockServices
  <2>4. ASSUME NEW s \in Services, JudgeNamed(c, s)
        PROVE  Alone
    BY <2>4 DEF JudgeNamed
  <2>5. ASSUME NEW s \in Services, JudgeByHierarchy(c, s)
        PROVE  Alone
    BY <2>5 DEF JudgeByHierarchy
  <2>6. ASSUME NEW r \in Roles, CompareRole(c, r)
        PROVE  Alone
    BY <2>6 DEF CompareRole, Judged
  <2>7. ASSUME LookUpPermission(c)
        PROVE  Alone
    BY <2>7 DEF LookUpPermission
  <2>8. ASSUME InheritPermission(c)
        PROVE  Alone
    BY <2>8 DEF InheritPermission
  <2>9. ASSUME IsRoleSuperior(c)
        PROVE  Alone
    BY <2>9 DEF IsRoleSuperior
  <2>10. ASSUME Leave(c)
        PROVE  Alone
    BY <2>10 DEF Leave
  <2>11. ASSUME NEW q \in Query, Call(c, q)
        PROVE  Alone
    BY <2>11 DEF Call
  <2> HIDE DEF IInv, Alone
  <2> QED
    BY <2>1, <2>2, <2>3, <2>4, <2>5, <2>6, <2>7, <2>8, <2>9, <2>10, <2>11 DEF Step
<1> QED
  BY <1>1, Frame DEF tables

\* Edits of the administrator leave every judgement alone.
LEMMA AdministerStep ==
    ASSUME IInv, TypeInv', Administer, NEW e \in Callers
    PROVE  (Waits(e) /\ Judgement(e))'
<1> DEFINE Alone ==
          /\ UNCHANGED callerVars
          /\ \A r \in Roles : m_role_hierarchy[r] \subseteq m_role_hierarchy'[r]
          /\ m_services' = m_services \/ m_services_mutex = NoCaller
          /\ m_role_permissions' = m_role_permissions \/ m_permissions_mutex = NoCaller
<1>1. Alone
  <2> USE DEF callerVars
  <2>1. ASSUME NEW s \in Services, NEW allowed \in AllowedRoles, AddService(s, allowed)
        PROVE  Alone
    BY <2>1 DEF AddService
  <2>2. ASSUME NEW s \in Services, NEW allowed \in AllowedRoles, UpdateService(s, allowed)
        PROVE  Alone
    BY <2>2 DEF UpdateService
  <2>3. ASSUME NEW s \in Services, RemoveService(s)
        PROVE  Alone
    BY <2>3 DEF RemoveService
  <2>4. ASSUME NEW r \in Roles, NEW p \in Permissions, AddPermissionToRole(r, p)
        PROVE  Alone
    BY <2>4 DEF AddPermissionToRole
  <2>5. ASSUME NEW r \in Roles, NEW p \in Permissions, RemovePermissionFromRole(r, p)
        PROVE  Alone
    BY <2>5 DEF RemovePermissionFromRole
  <2>6. ASSUME NEW r \in Roles, NEW b \in Roles, SetRoleHierarchy(r, b)
        PROVE  Alone
    BY <2>6 DEF SetRoleHierarchy, IInv, TypeInv, TypeOK
  <2> HIDE DEF Alone
  <2> QED
    BY <2>1, <2>2, <2>3, <2>4, <2>5, <2>6 DEF Administer
<1> QED
  BY <1>1, Frame DEF callerVars, mutexes, judging

\* A caller's own step keeps its judgement right.
LEMMA OwnStep ==
    ASSUME IInv, TypeInv', NEW c \in Callers,
           Step(c) \/ Leave(c) \/ \E q \in Query : Call(c, q)
    PROVE  (Waits(c) /\ Judgement(c))'
<1> USE DEF tables, mutexes, judging, Goto
<1>0. /\ Waits(c) /\ Judgement(c) /\ Asks(c)
      /\ TypeOK
  BY DEF IInv, TypeInv
<1>1. ASSUME NEW q \in Query, Call(c, q)
      PROVE  (Waits(c) /\ Judgement(c))'
  BY <1>0, <1>1 DEF Call, Waits, Judgement, TypeOK
<1>2. CASE Leave(c)
  BY <1>0, <1>2 DEF Leave, Waits, Judgement, TypeOK
<1>3. CASE LockServices(c)
  <2>1. /\ pc[c] = "called" /\ pc' = [pc EXCEPT ![c] = "judging"]
        /\ left' = [left EXCEPT ![c] = {s \in DOMAIN m_services :
              query[c].op = "can_access_service" => s = query[c].of}]
        /\ UNCHANGED <<tables, query, answer, known>>
    BY <1>3 DEF LockServices
  <2>2. answer'[c] = {}
    BY <1>0, <2>1 DEF Waits
  <2>3. ASSUME NEW s \in DOMAIN m_services, s \notin left'[c]
        PROVE  Refused(c, s)'
    BY <1>0, <2>1, <2>3 DEF Refused, TypeOK
  <2> QED
    BY <1>0, <2>1, <2>2, <2>3 DEF Waits, Judgement, TypeOK
<1>4. CASE UnlockServices(c)
  BY <1>0, <1>4 DEF UnlockServices, Waits, Judgement, TypeOK
<1>5. ASSUME NEW s \in Services, JudgeNamed(c, s)
      PROVE  (Waits(c) /\ Judgement(c))'
  <2>1. Allowed(c, s)
    BY <1>0, <1>5 DEF JudgeNamed, Allowed, AtLeast, Asks
  <2>2. /\ pc[c] = "judging"
        /\ left'[c] = left[c] \ {s} /\ answer'[c] = answer[c] \cup {s}
        /\ UNCHANGED <<tables, pc, query, known>>
    BY <1>0, <1>5 DEF JudgeNamed, TypeOK
  <2>3. \A t : (Allowed(c, t)' <=> Allowed(c, t)) /\ (Refused(c, t)' <=> Refused(c, t))
    BY <2>2 DEF Allowed, Refused
  <2> QED
    BY <1>0, <2>1, <2>2, <2>3 DEF Waits, Judgement
<1>6. ASSUME NEW s \in Services, JudgeByHierarchy(c, s)
      PROVE  (Waits(c) /\ Judgement(c))'
  <2>1. /\ pc[c] = "judging" /\ pc'[c] = "comparing"
        /\ service'[c] = s /\ todo'[c] = m_services[s]
        /\ UNCHANGED <<tables, query, left, answer, known>>
    BY <1>0, <1>6 DEF JudgeByHierarchy, TypeOK
  <2>2. \A t : (Allowed(c, t)' <=> Allowed(c, t)) /\ (Refused(c, t)' <=> Refused(c, t))
    BY <2>1 DEF Allowed, Refused
  <2> QED
    BY <1>0, <2>1, <2>2 DEF Waits, Judgement
<1>7. CASE DenyService(c)
  <2>1. /\ pc[c] = "comparing" /\ todo[c] = {} /\ pc'[c] = "judging"
        /\ left'[c] = left[c] \ {service[c]}
        /\ UNCHANGED <<tables, query, answer, known>>
    BY <1>0, <1>7 DEF DenyService, Judged, TypeOK
  <2>2. \A t : (Allowed(c, t)' <=> Allowed(c, t)) /\ (Refused(c, t)' <=> Refused(c, t))
    BY <2>1 DEF Allowed, Refused
  <2>3. Refused(c, service[c])
    BY <1>0, <2>1 DEF Judgement, Refused
  <2> QED
    BY <1>0, <2>1, <2>2, <2>3 DEF Waits, Judgement
<1>8. ASSUME NEW r \in Roles, CompareRole(c, r)
      PROVE  (Waits(c) /\ Judgement(c))'
  <2>1. /\ pc[c] = "comparing" /\ r \in todo[c] /\ UNCHANGED <<tables, query, known>>
    BY <1>8 DEF CompareRole
  <2>2. query[c].role \in Roles
    BY <1>0, <2>1, QueryTyped DEF Asks
  <2>3. \A t : (Allowed(c, t)' <=> Allowed(c, t)) /\ (Refused(c, t)' <=> Refused(c, t))
    BY <2>1 DEF Allowed, Refused
  <2>4. CASE Superior(query[c].role, r) = "yes"
    <3>1. /\ pc'[c] = "judging" /\ left'[c] = left[c] \ {service[c]}
          /\ answer'[c] = answer[c] \cup {service[c]}
      BY <1>0, <1>8, <2>4 DEF CompareRole, Judged, TypeOK
    <3>2. AtLeast(m_role_hierarchy, query[c].role, r)
      BY <1>0, <2>2, <2>4, SuperiorIsRight DEF TypeOK
    <3> QED
      BY <1>0, <2>1, <2>3, <3>1, <3>2 DEF Waits, Judgement, Asks, TypeOK, Allowed
  <2>5. CASE Superior(query[c].role, r) = "no"
    <3>1. /\ todo'[c] = todo[c] \ {r} /\ UNCHANGED <<pc, left, service, answer>>
      BY <1>0, <1>8, <2>5 DEF CompareRole, TypeOK
    <3>2. ~AtLeast(known[c], query[c].role, r)
      BY <1>0, <2>2, <2>5, SuperiorIsRight DEF TypeOK, Waits
    <3> QED
      BY <1>0, <2>1, <2>3, <3>1, <3>2 DEF Waits, Judgement
  <2>6. CASE Superior(query[c].role, r) = "relocks"
    BY <1>0, <1>8, <2>6 DEF CompareRole, Waits, Judgement, TypeOK
  <2> QED
    BY <1>8, <2>4, <2>5, <2>6 DEF CompareRole
<1>9. CASE LookUpPermission(c)
  BY <1>0, <1>9 DEF LookUpPermission, Waits, Judgement, TypeOK
<1>10. CASE InheritPermission(c)
  BY <1>0, <1>10 DEF InheritPermission, Waits, Judgement, TypeOK
<1>11. CASE IsRoleSuperior(c)
  BY <1>0, <1>11 DEF IsRoleSuperior, Waits, Judgement, TypeOK
<1> QED
  BY <1>1, <1>2, <1>3, <1>4, <1>5, <1>6, <1>7, <1>8, <1>9, <1>10, <1>11 DEF Step

\* Nothing is judged at first.
LEMMA InitIInv == Init => IInv
<1> SUFFICES ASSUME Init
             PROVE  IInv
  OBVIOUS
<1>1. TypeInv
  BY InitTypeInv
<1>2. ASSUME NEW c \in Callers
      PROVE  Waits(c) /\ Judgement(c)
  BY DEF Init, Waits, Judgement
<1> QED
  BY <1>1, <1>2 DEF IInv

\* Every step keeps every judgement right.
LEMMA IInvStep ==
    ASSUME IInv, [Next]_vars
    PROVE  IInv'
<1>1. TypeInv'
  BY TypeStep DEF IInv
<1>2. ASSUME NEW e \in Callers
      PROVE  (Waits(e) /\ Judgement(e))'
  <2>1. ASSUME NEW c \in Callers, Step(c) \/ Leave(c) \/ \E q \in Query : Call(c, q)
        PROVE  (Waits(e) /\ Judgement(e))'
    <3>1. CASE e = c
      BY <1>1, <2>1, <3>1, OwnStep
    <3>2. CASE e # c
      BY <1>1, <2>1, <3>2, OthersStep
    <3> QED
      BY <3>1, <3>2
  <2>2. CASE Administer
    BY <1>1, <2>2, AdministerStep
  <2>3. CASE UNCHANGED vars
    BY <1>1, <2>3, Frame DEF vars, tables, mutexes, judging
  <2> QED
    BY <2>1, <2>2, <2>3 DEF Next
<1> QED
  BY <1>1, <1>2 DEF IInv

-----------------------------------------------------------------------------
(* What a query answers.                                                   *)

\* A query returns from one of four steps.
LEMMA ReturningSteps ==
    ASSUME TypeInv, [Next]_vars, NEW c \in Callers, Returns(c)
    PROVE  \/ UnlockServices(c)
           \/ LookUpPermission(c)
           \/ InheritPermission(c)
           \/ IsRoleSuperior(c)
<1> USE DEF TypeInv, TypeOK, Returns, tables, mutexes, judging, callerVars, Goto
<1>1. ASSUME NEW d \in Callers, NEW q \in Query, Call(d, q)
      PROVE  FALSE
  BY <1>1 DEF Call
<1>2. ASSUME NEW d \in Callers, Leave(d)
      PROVE  FALSE
  BY <1>2 DEF Leave
<1>3. ASSUME NEW d \in Callers, LockServices(d)
      PROVE  FALSE
  BY <1>3 DEF LockServices
<1>4. ASSUME NEW d \in Callers, DenyService(d)
      PROVE  FALSE
  BY <1>4 DEF DenyService, Judged
<1>5. ASSUME NEW d \in Callers, NEW s \in Services, JudgeNamed(d, s)
      PROVE  FALSE
  BY <1>5 DEF JudgeNamed
<1>6. ASSUME NEW d \in Callers, NEW s \in Services, JudgeByHierarchy(d, s)
      PROVE  FALSE
  BY <1>6 DEF JudgeByHierarchy
<1>7. ASSUME NEW d \in Callers, NEW r \in Roles, CompareRole(d, r)
      PROVE  FALSE
  BY <1>7 DEF CompareRole, Judged
<1>8. ASSUME NEW d \in Callers, UnlockServices(d)
      PROVE  d = c
  BY <1>8 DEF UnlockServices
<1>9. ASSUME NEW d \in Callers, LookUpPermission(d)
      PROVE  d = c
  BY <1>9 DEF LookUpPermission
<1>10. ASSUME NEW d \in Callers, InheritPermission(d)
       PROVE  d = c
  BY <1>10 DEF InheritPermission
<1>11. ASSUME NEW d \in Callers, IsRoleSuperior(d)
       PROVE  d = c
  BY <1>11 DEF IsRoleSuperior
<1>12. CASE Administer
  BY <1>12 DEF Administer, AddService, UpdateService, RemoveService, AddPermissionToRole,
               RemovePermissionFromRole, SetRoleHierarchy
<1>13. CASE UNCHANGED vars
  BY <1>13 DEF vars
<1> HIDE DEF TypeInv, Returns
<1> QED
  BY <1>1, <1>2, <1>3, <1>4, <1>5, <1>6, <1>7, <1>8, <1>9, <1>10, <1>11, <1>12, <1>13
     DEF Next, Step

\* The three things that may be wrong with an answer, of one query.
GrantJustified(c) ==
    /\ JudgesServices(c) => \A s \in answer'[c] :
          /\ s \in DOMAIN m_services
          /\ \E r \in m_services[s] : AtLeast(m_role_hierarchy, query[c].role, r)
    /\ query[c].op = "is_role_superior" /\ answer'[c] # {} =>
          AtLeast(m_role_hierarchy, query[c].role, query[c].of)
DenialJustified(c) ==
    /\ JudgesServices(c) => \A s \in DOMAIN m_services \ answer'[c] :
          \/ query[c].op = "can_access_service" /\ s # query[c].of
          \/ \A r \in m_services[s] : ~AtLeast(known[c], query[c].role, r)
    /\ query[c].op = "is_role_superior" /\ answer'[c] = {} =>
          ~AtLeast(known[c], query[c].role, query[c].of)
PermissionJustified(c) ==
    query[c].op = "has_permission" /\ answer'[c] = {} =>
        query[c].of \notin m_role_permissions[query[c].role]

\* A query that returns gives an answer that is justified.
LEMMA AnswerIsJustified ==
    ASSUME IInv, [Next]_vars, NEW c \in Callers, Returns(c)
    PROVE  GrantJustified(c) /\ DenialJustified(c) /\ PermissionJustified(c)
<1> USE DEF tables, mutexes, judging, Goto
<1>0. TypeOK /\ Asks(c) /\ Waits(c) /\ Judgement(c)
  BY DEF IInv, TypeInv
<1>1. CASE UnlockServices(c)
  <2>1. /\ pc[c] = "judging" /\ left[c] = {} /\ answer' = answer
    BY <1>1 DEF UnlockServices
  <2>2. /\ JudgesServices(c)
        /\ \A s \in answer[c] : Allowed(c, s)
        /\ \A s \in DOMAIN m_services : s \in answer[c] \/ Refused(c, s)
    BY <1>0, <2>1 DEF Asks, Judgement
  <2>3. query[c].op # "is_role_superior" /\ query[c].op # "has_permission"
    BY <2>2 DEF JudgesServices
  <2> QED
    BY <2>1, <2>2, <2>3
       DEF GrantJustified, DenialJustified, PermissionJustified, Allowed, Refused
<1>2. CASE LookUpPermission(c)
  BY <1>0, <1>2 DEF LookUpPermission, GrantJustified, DenialJustified,
     PermissionJustified, JudgesServices, TypeOK, Returns
<1>3. CASE InheritPermission(c)
  BY <1>0, <1>3 DEF InheritPermission, GrantJustified, DenialJustified,
     PermissionJustified, JudgesServices, TypeOK, Waits
<1>4. CASE IsRoleSuperior(c)
  <2>1. /\ query[c].op = "is_role_superior"
        /\ query[c].role \in Roles /\ query[c].of \in Roles
    BY <1>0, <1>4, QueryTyped DEF IsRoleSuperior, Asks
  <2>2. /\ answer'[c] # {} => Superior(query[c].role, query[c].of) = "yes"
        /\ answer'[c] = {} => Superior(query[c].role, query[c].of) \in {"no", "relocks"}
        /\ Superior(query[c].role, query[c].of) # "relocks"
    BY <1>0, <1>4 DEF IsRoleSuperior, TypeOK, Returns, Superior
  <2>3. \A r \in Roles : known[c][r] \subseteq m_role_hierarchy[r]
    BY <1>0 DEF Waits
  <2> QED
    BY <1>0, <2>1, <2>2, <2>3, SuperiorIsRight
       DEF GrantJustified, DenialJustified, PermissionJustified, JudgesServices, TypeOK
<1> QED
  BY <1>1, <1>2, <1>3, <1>4, ReturningSteps DEF IInv

\* The invariant holds in every state: every judgement that has been made is
\* right by the tables as they are now.
LEMMA IInvHolds == Spec => []IInv
BY InitIInv, IInvStep, PTL DEF Spec

\* A service is granted only to a role that it allows or that is above one it
\* allows, by the tables as they are when can_access_service or
\* get_allowed_services returns, whatever was edited in between, and however
\* many levels, cycles included, the hierarchy has.
THEOREM GrantHolds == Spec => GrantIsJustified
<1>1. IInv /\ [Next]_vars =>
        [\A c \in Callers : Returns(c) =>
            /\ JudgesServices(c) => \A s \in answer'[c] :
                  /\ s \in DOMAIN m_services
                  /\ \E r \in m_services[s] : AtLeast(m_role_hierarchy, query[c].role, r)
            /\ query[c].op = "is_role_superior" /\ answer'[c] # {} =>
                  AtLeast(m_role_hierarchy, query[c].role, query[c].of)]_vars
  BY AnswerIsJustified DEF GrantJustified
<1> QED
  BY IInvHolds, <1>1, PTL DEF Spec, GrantIsJustified

\* A service is refused only to a role that was above none of the roles the
\* service allows when the query began.
THEOREM DenialHolds == Spec => DenialIsJustified
<1>1. IInv /\ [Next]_vars =>
        [\A c \in Callers : Returns(c) =>
            /\ JudgesServices(c) => \A s \in DOMAIN m_services \ answer'[c] :
                  \/ query[c].op = "can_access_service" /\ s # query[c].of
                  \/ \A r \in m_services[s] : ~AtLeast(known[c], query[c].role, r)
            /\ query[c].op = "is_role_superior" /\ answer'[c] = {} =>
                  ~AtLeast(known[c], query[c].role, query[c].of)]_vars
  BY AnswerIsJustified DEF DenialJustified
<1> QED
  BY IInvHolds, <1>1, PTL DEF Spec, DenialIsJustified

\* A permission is refused only to a role that does not have it when
\* has_permission returns: m_permissions_mutex is held while the roles above
\* are waited for.
THEOREM PermissionDenialHolds == Spec => PermissionDenialIsCurrent
<1>1. IInv /\ [Next]_vars =>
        [\A c \in Callers :
            Returns(c) /\ query[c].op = "has_permission" /\ answer'[c] = {} =>
               query[c].of \notin m_role_permissions[query[c].role]]_vars
  BY AnswerIsJustified DEF PermissionJustified
<1> QED
  BY IInvHolds, <1>1, PTL DEF Spec, PermissionDenialIsCurrent
=============================================================================

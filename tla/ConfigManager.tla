---------------------------- MODULE ConfigManager ----------------------------
(***************************************************************************)
(* zerossg::ConfigManager as handle_start_command uses it: a new manager   *)
(* for every start, and one load_config, which reads a JSON document into  *)
(* typed settings and validates those.  The accessors that the server is   *)
(* configured with do not read the settings but the document.             *)
(*                                                                         *)
(* A document is a function from the sections it has to functions from the *)
(* fields they have to values, the services being a sequence.  Of every    *)
(* section the fields that are validated are kept.  What a rejected load   *)
(* leaves in the manager is not modelled: its only caller destroys it.     *)
(***************************************************************************)
EXTENDS Integers, SequencesExt

CONSTANTS
    IllTyped,    \* a value of a type the field does not have: value() throws
    JsonTrue     \* "true" for a number: taken as 1 by value() and as no number
                 \*   by stoi, like a number too large for an int

\* The empty text.
NoText == ""

\* The settings of a new manager.  The JWT secret and the database have none.
Defaults ==
    [server   |-> [listen_address |-> "127.0.0.1", listen_port |-> 8080],
     security |-> [jwt_secret |-> NoText, token_expiry_hours |-> 1],
     session  |-> [timeout_seconds |-> 3600, max_concurrent_sessions |-> 5],
     logging  |-> [level |-> "info", max_file_size_mb |-> 10, max_files |-> 5],
     database |-> [host |-> NoText, port |-> 5432, name |-> NoText]]

Sections == DOMAIN Defaults

ASSUME ConfigManagerAssumption ==
    /\ {IllTyped, JsonTrue} \cap Int = {}
    /\ \A s \in Sections : \A f \in DOMAIN Defaults[s] :
          Defaults[s][f] \notin {IllTyped, JsonTrue}

PortFields == {<<"server", "listen_port">>, <<"database", "port">>}
MaxPort == 65535
PortNumbers == 1..MaxPort
Roles == {"admin", "operator", "viewer"}

Given(doc, s, f) == s \in DOMAIN doc /\ f \in DOMAIN doc[s]

WellTyped(doc) ==
    \A s \in Sections : \A f \in DOMAIN Defaults[s] :
        Given(doc, s, f) => doc[s][f] # IllTyped

\* json::value for a number: ports are cut to 16 bits.
Converted(s, f, v) ==
    IF v = JsonTrue THEN 1 ELSE IF <<s, f>> \in PortFields THEN v % 65536 ELSE v

\* The sections in the order parse_server_config .. parse_database_config: a
\* field that is not given keeps its default.
Settings(doc) ==
    [s \in Sections |-> [f \in DOMAIN Defaults[s] |->
        IF Given(doc, s, f) THEN Converted(s, f, doc[s][f]) ELSE Defaults[s][f]]]

\* string_to_role: what is not the name of a role is the role viewer.
StringToRole(name) == IF name \in Roles THEN name ELSE "viewer"

\* The services a document lists, whole or not.
ListedServices(doc) ==
    IF "target_services" \in DOMAIN doc THEN doc["target_services"] ELSE << >>

\* What a list of services is made of.
Services == [name : STRING, host : STRING, port : Int, roles : SUBSET STRING]

\* parse_target_service: a service without a host, or with a port that is
\* missing, zero or out of range, is dropped without a word to the caller.
IsComplete(service) == service.host # NoText /\ service.port \in PortNumbers

\* The places in the list of the services that stay.
ParsedServices(doc) ==
    {i \in DOMAIN ListedServices(doc) : IsComplete(ListedServices(doc)[i])}

\* The last service of a name stays.
LastNamed(doc, n) ==
    CHOOSE i \in ParsedServices(doc) :
        /\ ListedServices(doc)[i].name = n
        /\ \A j \in ParsedServices(doc) : ListedServices(doc)[j].name = n => j <= i

ParseTargetServices(doc) ==
    [n \in {ListedServices(doc)[i].name : i \in ParsedServices(doc)} |->
        LET last == ListedServices(doc)[LastNamed(doc, n)]
        IN  [host |-> last.host, port |-> last.port,
             roles |-> {StringToRole(r) : r \in last.roles}]]

\* The validations.  An address or a level of another name stands for all that
\* the tests of the text refuse; a secret is empty or long enough.
ValidateServerConfig(c) ==
    c.listen_address # "not_an_address" /\ c.listen_port \in PortNumbers

ValidateSecurityConfig(c) == c.jwt_secret # NoText /\ c.token_expiry_hours \in 1..168

ValidateSessionConfig(c) ==
    c.timeout_seconds \in 60..86400 /\ c.max_concurrent_sessions \in 1..1000

ValidateLoggingConfig(c) ==
    /\ c.level \in {"trace", "debug", "info", "warn", "error", "critical"}
    /\ c.max_file_size_mb \in 1..1000 /\ c.max_files \in 1..100

ValidateDatabaseConfig(c) == c.host # NoText /\ c.port \in PortNumbers /\ c.name # NoText

\* The tests of host and port too, which every service kept has passed.
ValidateTargetServices(services) ==
    \A n \in DOMAIN services : n # NoText /\ services[n].roles # {}

ValidateConfig(c, services) ==
    /\ ValidateServerConfig(c.server)
    /\ ValidateSecurityConfig(c.security)
    /\ ValidateSessionConfig(c.session)
    /\ ValidateLoggingConfig(c.logging)
    /\ ValidateDatabaseConfig(c.database)
    /\ ValidateTargetServices(services)

\* load_config accepts the document once it is read.
Accepts(doc) ==
    WellTyped(doc) /\ ValidateConfig(Settings(doc), ParseTargetServices(doc))

\* A new manager after a load that succeeded.
Loaded(doc) ==
    [m_config_json |-> doc, settings |-> Settings(doc), services |-> ParseTargetServices(doc)]

\* get_int: through the text of the value.
GetInt(doc, s, f, default) ==
    IF Given(doc, s, f) /\ doc[s][f] \notin {JsonTrue, IllTyped} THEN doc[s][f] ELSE default

\* Faulty: a service is written without its roles.
SaveConfig_NoRoles(manager) ==
    [k \in Sections \cup {"target_services"} |->
        IF k \in Sections THEN manager.settings[k]
        ELSE [i \in 1..Cardinality(DOMAIN manager.services) |->
                LET n == SetToSeq(DOMAIN manager.services)[i]
                IN  [name |-> n, host |-> manager.services[n].host,
                     port |-> manager.services[n].port, roles |-> {}]]]

\* The document save_config writes: settings and services, and nothing of the
\* document that became neither.
SaveConfig(manager) ==
    [k \in Sections \cup {"target_services"} |->
        IF k \in Sections THEN manager.settings[k]
        ELSE [i \in 1..Cardinality(DOMAIN manager.services) |->
                LET n == SetToSeq(DOMAIN manager.services)[i]
                IN  [name |-> n, host |-> manager.services[n].host,
                     port |-> manager.services[n].port, roles |-> manager.services[n].roles]]]

=============================================================================

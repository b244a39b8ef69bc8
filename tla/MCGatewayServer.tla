--------------------------- MODULE MCGatewayServer ---------------------------
(* Instances of GatewayServer for TLC. *)
EXTENDS GatewayServer

Service(name, host, port, roles) == [name |-> name, host |-> host, port |-> port, roles |-> roles]

\* A document with what it must have to be accepted.
Sound ==
    [server |-> << >>, security |-> [jwt_secret |-> "secret"],
     database |-> [host |-> "db", name |-> "zerossg"]]

\* The sound document with one field of one section set, or with services.
With(s, f, v) == [Sound EXCEPT ![s] = (f :> v) @@ @]
WithServices(list) == Sound @@ ("target_services" :> list)

MCDocs ==
    {Sound, << >>, [Sound EXCEPT !["security"] = << >>]}
    \cup {With("server", "listen_port", p) :
             p \in {0, 443, 65535, 65536, 65979, -65093, JsonTrue, IllTyped}}
    \cup {With("server", "listen_address", "not_an_address")}
    \cup {With("server", "thread_count", n) : n \in {-1, 0, 1}}
    \cup {With("security", "token_expiry_hours", h) : h \in {0, 168, 169}}
    \cup {With("database", "port", 65536 + 5432)}
    \cup {Sound @@ ("session" :> ("timeout_seconds" :> n)) : n \in {59, 60, 86401}}
    \cup {Sound @@ ("logging" :> ("level" :> l)) : l \in {"warn", "loud"}}
    \cup {WithServices(<<Service("web", "a", 443, {"admn"}), Service("web", "b", 80, {"admin"}),
                         Service("db", "c", 0, {"admin"}), Service("ssh", "d", 22, {"operator"})>>),
          WithServices(<<Service("web", "a", 443, {})>>),
          WithServices(<<Service("", "a", 443, {"admin"})>>)}

MCFiles ==
    [format : {"json"}, doc : MCDocs] \cup [format : {"yaml", "toml"}, doc : {Sound}]
=============================================================================

------------------------------- MODULE MCLinks -------------------------------
(***************************************************************************)
(* Every inbound that the forms can store, with its links: each of them is *)
(* tried with the options below, of which at most two at a time are not    *)
(* the usual one.                                                          *)
(***************************************************************************)
EXTENDS InboundForm, ShareLink

\* The options of a new inbound.
Usual ==
    [listen |-> "any", header |-> "none", paths |-> <<"/">>, path |-> "/", host |-> "",
     multi |-> FALSE, mode |-> "auto", padding |-> "default", sni |-> "", alpn |-> "h2,http/1.1",
     fp |-> "chrome", ech |-> "", spx |-> "", pqv |-> "", encryption |-> "none",
     method |-> "legacy", obfs |-> "", names |-> <<"name">>, ids |-> <<"id">>, proxies |-> {}]

Proxy(force) == [address |-> "proxy", force |-> force]

\* For each option, the other values that it may have.
Unusual ==
    [listen |-> {"own", "::0"}, header |-> {"http"}, paths |-> {<<"/", "/p">>}, path |-> {"/p"},
     host |-> {"front"}, multi |-> {TRUE}, mode |-> {"packet-up"}, padding |-> {"custom"},
     sni |-> {"server"}, alpn |-> {""}, fp |-> {""}, ech |-> {"ech"}, spx |-> {"/s"},
     pqv |-> {"pqv"}, encryption |-> {"pq"}, method |-> {"2022"}, obfs |-> {"obfs"},
     names |-> {<<"name", "other">>}, ids |-> {<<"id", "other">>},
     proxies |-> {{Proxy("same")}, {Proxy("tls")}, {Proxy("none")}, {Proxy("same"), Proxy("none")}}]

Options ==
    {Usual} \cup
    UNION {{[Usual EXCEPT ![a] = x, ![b] = y] : x \in Unusual[a], y \in Unusual[b]} :
           a \in DOMAIN Usual, b \in DOMAIN Usual}

\* The links are made from what is stored, when the forms are closed: nothing else of the
\* state has a part in them.
Linked == stored # Nothing /\ form = Closed /\ client = Closed /\ CanEnableStream(stored)

\* The panel reads every link of its own as an outbound that connects to the inbound the
\* link was made for, but where ShareLink!Unreadable says that it does not: genLink
\* (inbound.js) and fromLink (outbound.js) agree on every key and every default.
PanelReadsItsLinks ==
    Linked => \A o \in Options : Unreadable(stored, o) \/ ReadBack(stored, o)

\* For each endpoint of an inbound the subscription has a link for the same outbound as
\* the panel's, but where ShareLink!Different says that it has not: the generators of
\* subService.go and of inbound.js are kept in step.
SubscriptionInSync ==
    Linked => \A o \in Options : \A ep \in Endpoints(o) :
                  Different(stored, o, ep) \/ SameAsPanel(stored, o, ep)
=============================================================================

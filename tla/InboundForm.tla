----------------------------- MODULE InboundForm -----------------------------
(***************************************************************************)
(* The panel's forms of an inbound and of its clients (web/html/modals/    *)
(* inbound_modal.html, client_modal.html, web/html/form, and the class     *)
(* Inbound of web/assets/js/model/inbound.js): which protocol, transport,  *)
(* security and flow they let an administrator put together, and what is   *)
(* stored when two administrators use them at once.                        *)
(*                                                                         *)
(* One inbound, one client of it.  The other fields of the forms, which no *)
(* step depends on, are the options of ShareLink.                          *)
(***************************************************************************)
EXTENDS Naturals

CONSTANTS
    Flows,      \* TLS_FLOW_CONTROL
    NoFlow      \* the empty flow

ASSUME FlowsAssumption == NoFlow \notin Flows

VARIABLES
    stored,     \* the inbound in the database, or Nothing
    form,       \* the form of the inbound: its mode and what it shows
    client,     \* the form of the client: the inbound as it was when it was opened
    overtaken   \* history: a flow was saved from a client form whose inbound had changed
                \* since it was opened

vars == <<stored, form, client, overtaken>>

Transports == {"vmess", "vless", "trojan", "shadowsocks", "hysteria"}

\* "other" are the protocols without a stream: http, mixed, wireguard, tunnel.
Protocols == Transports \cup {"other"}

\* The options of the field; hysteria has its own.
Choices == {"tcp", "kcp", "ws", "grpc", "httpupgrade", "xhttp"}

Networks == Choices \cup {"hysteria"}

Securities == {"none", "tls", "reality"}

Inbound == [protocol : Protocols, network : Networks, security : Securities, flow : Flows \cup {NoFlow}]

Nothing == [protocol |-> "nothing"]

CanEnableStream(ib) == ib.protocol \in Transports

CanEnableTls(ib) ==
    \/ ib.protocol = "hysteria"
    \/ /\ ib.protocol \in {"vmess", "vless", "trojan", "shadowsocks"}
       /\ ib.network \in {"tcp", "ws", "grpc", "httpupgrade", "xhttp"}

CanEnableTlsFlow(ib) ==
    ib.security \in {"tls", "reality"} /\ ib.network = "tcp" /\ ib.protocol = "vless"

CanEnableReality(ib) ==
    ib.protocol \in {"vless", "trojan"} /\ ib.network \in {"tcp", "grpc", "xhttp"}

\* Mutant: the stream of another protocol is kept.
BlankKeepingNetwork(protocol) ==
    [protocol |-> protocol, network |-> "tcp", security |-> "none", flow |-> NoFlow]

\* The setter of protocol: new settings and a new stream.
Blank(protocol) ==
    [protocol |-> protocol,
     network |-> IF protocol = "hysteria" THEN "hysteria" ELSE "tcp",
     security |-> IF protocol = "hysteria" THEN "tls" ELSE "none",
     flow |-> NoFlow]

\* Mutant: the flow stays when the transport or the security changes.
FlowKept(ib) == ib

\* What streamNetworkChange and the watcher of the security do about the flow.
FlowChecked(ib) ==
    IF ib.protocol = "vless" /\ ~CanEnableTlsFlow(ib) THEN [ib EXCEPT !.flow = NoFlow] ELSE ib

\* Mutant: streamNetworkChange looks at the transport alone.
NetworkChangedOnly(ib, network) == FlowChecked([ib EXCEPT !.network = network])

\* The field of the transport and streamNetworkChange.  (Of Reality it resets a field
\* that nothing reads.)
NetworkChanged(ib, network) ==
    LET moved == [ib EXCEPT !.network = network]
    IN  FlowChecked(IF CanEnableTls(moved) THEN moved ELSE [moved EXCEPT !.security = "none"])

-----------------------------------------------------------------------------

Closed == [mode |-> "closed", shown |-> Nothing]

Init ==
    /\ stored = Nothing
    /\ form = Closed
    /\ client = Closed
    /\ overtaken = FALSE

\* openAddInbound: new Inbound().
OpenAdd ==
    /\ form.mode = "closed" /\ stored = Nothing
    /\ form' = [mode |-> "add", shown |-> Blank("vless")]
    /\ UNCHANGED <<stored, client, overtaken>>

\* autoReality: the form comes with what the server suggests.
AutoReality ==
    /\ form.mode = "closed" /\ stored = Nothing
    /\ \E flow \in Flows :
           form' = [mode |-> "add", shown |-> [protocol |-> "vless", network |-> "tcp",
                                               security |-> "reality", flow |-> flow]]
    /\ UNCHANGED <<stored, client, overtaken>>

\* openEditInbound: a copy of the inbound.  The watcher of the security runs when the form
\* showed another security before, of another inbound even.
OpenEdit ==
    /\ form.mode = "closed" /\ stored # Nothing
    /\ \E shown \in {stored, FlowChecked(stored)} : form' = [mode |-> "edit", shown |-> shown]
    /\ UNCHANGED <<stored, client, overtaken>>

\* The field of the protocol, disabled in an edit.
SetProtocol(protocol) ==
    /\ form.mode = "add"
    /\ form' = [form EXCEPT !.shown = Blank(protocol)]
    /\ UNCHANGED <<stored, client, overtaken>>

SetNetwork(network) ==
    /\ form.mode # "closed"
    /\ CanEnableStream(form.shown) /\ form.shown.protocol # "hysteria"
    /\ form' = [form EXCEPT !.shown = NetworkChanged(@, network)]
    /\ UNCHANGED <<stored, client, overtaken>>

\* The buttons of the security, and the watcher.
SetSecurity(security) ==
    /\ form.mode # "closed"
    /\ CanEnableTls(form.shown) /\ form.shown.protocol # "hysteria"
    /\ security = "reality" => CanEnableReality(form.shown)
    /\ form' = [form EXCEPT !.shown = FlowChecked([@ EXCEPT !.security = security])]
    /\ UNCHANGED <<stored, client, overtaken>>

\* The form of a new inbound has that of its first client in it.
SetFlow(flow) ==
    /\ form.mode = "add"
    /\ CanEnableTlsFlow(form.shown)
    /\ form' = [form EXCEPT !.shown.flow = flow]
    /\ UNCHANGED <<stored, client, overtaken>>

\* addInbound or updateInbound: the stream is what the transport and security in force
\* have, and the clients are those of the form.
Save ==
    /\ form.mode # "closed"
    /\ stored' = form.shown
    /\ form' = Closed
    /\ UNCHANGED <<client, overtaken>>

\* The form is closed, or the request refused and the form then closed.
CloseForm ==
    /\ form.mode # "closed"
    /\ form' = Closed
    /\ UNCHANGED <<stored, client, overtaken>>

\* clientModal.show, and the like for several clients: a copy of the inbound.
OpenClient ==
    /\ client.mode = "closed" /\ stored # Nothing /\ CanEnableStream(stored)
    /\ client' = [mode |-> "edit", shown |-> stored]
    /\ UNCHANGED <<stored, form, overtaken>>

SetClientFlow(flow) ==
    /\ client.mode = "edit"
    /\ CanEnableTlsFlow(client.shown)
    /\ client' = [client EXCEPT !.shown.flow = flow]
    /\ UNCHANGED <<stored, form, overtaken>>

\* updateClient: the client of the form in the settings of the inbound.
SaveClient ==
    /\ client.mode = "edit"
    /\ stored' = [stored EXCEPT !.flow = client.shown.flow]
    /\ overtaken' = (\/ overtaken
                     \/ /\ client.shown.flow # NoFlow
                        /\ <<stored.network, stored.security>>
                               # <<client.shown.network, client.shown.security>>)
    /\ client' = Closed
    /\ UNCHANGED form

CloseClient ==
    /\ client.mode = "edit"
    /\ client' = Closed
    /\ UNCHANGED <<stored, form, overtaken>>

Next ==
    \/ OpenAdd \/ AutoReality \/ OpenEdit \/ Save \/ CloseForm
    \/ \E protocol \in Protocols : SetProtocol(protocol)
    \/ \E network \in Choices : SetNetwork(network)
    \/ \E security \in Securities : SetSecurity(security)
    \/ \E flow \in Flows \cup {NoFlow} : SetFlow(flow) \/ SetClientFlow(flow)
    \/ OpenClient \/ SaveClient \/ CloseClient

Spec == Init /\ [][Next]_vars

-----------------------------------------------------------------------------
(* Properties.                                                             *)

\* The transport of hysteria goes with its protocol.
WellFormed(ib) == ib.network = "hysteria" <=> ib.protocol = "hysteria"

\* The types; and what is stored or shown is well formed, for the setter of the protocol
\* (inbound.js) makes the stream anew and the form then offers no transport of another.
TypeOK ==
    /\ stored \in Inbound \cup {Nothing}
    /\ stored # Nothing => WellFormed(stored)
    /\ form = Closed \/ \E mode \in {"add", "edit"}, ib \in Inbound :
                            form = [mode |-> mode, shown |-> ib] /\ WellFormed(ib)
    /\ client = Closed \/ \E ib \in Inbound : client = [mode |-> "edit", shown |-> ib] /\ WellFormed(ib)
    /\ overtaken \in BOOLEAN

\* The transports to which Reality can be carried: streamNetworkChange clears the security
\* when the transport has no TLS either, and for the rest of those without Reality it
\* resets inbound.reality, which nothing reads (inbound_modal.html 210-212).
CarriesReality(ib) == ib.protocol \in {"vless", "trojan"} /\ ib.network \in {"ws", "httpupgrade"}

\* TLS is stored only for an inbound that can have it, and Reality only for one that can
\* have it or that CarriesReality: whatever the order in which the two forms set and save
\* protocol, transport and security, that slip of streamNetworkChange is the only one.
\* The inbounds that it lets through are refused by xray.
SecurityOffered ==
    stored # Nothing =>
        /\ stored.security = "tls" => CanEnableTls(stored)
        /\ stored.security = "reality" => CanEnableReality(stored) \/ CarriesReality(stored)

\* A stored flow is one that xray serves (VLESS over TCP with TLS or Reality), however the
\* forms of the inbound and of its client interleave, unless a client form was saved over
\* an inbound that had changed since it was opened: UpdateInboundClient takes the flow of
\* the form and does not look at the stream.
FlowServed ==
    stored # Nothing /\ stored.flow # NoFlow => CanEnableTlsFlow(stored) \/ overtaken
=============================================================================

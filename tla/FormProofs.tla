----------------------------- MODULE FormProofs ------------------------------
(***************************************************************************)
(* The invariants of InboundForm for any set of flows, and those of its    *)
(* links.  The form of the inbound keeps what it shows consistent at every *)
(* field, so that what is saved is; the form of the client shows a copy of *)
(* the inbound, and the argument for the flow is that the two still agree  *)
(* on the stream when it is saved, or that the history variable says       *)
(* otherwise.                                                              *)
(*                                                                         *)
(* A link is shown to be read as the inbound was meant, or as its twin is, *)
(* by what is looked up in it: the parts it is joined from have keys of    *)
(* their own, so that a key is looked up in one part, and the outbound     *)
(* that is read depends on these values alone.  This is done for every     *)
(* option that is Sane, not only for those that the runs try.              *)
(***************************************************************************)
EXTENDS MCLinks, TLAPS

Modes == {"add", "edit"}

FormShown(mode, ib) == [mode |-> mode, shown |-> ib]

\* TypeOK in the form in which the steps use it; a client form is that of an inbound.
Typed ==
    /\ \/ stored = Nothing
       \/ stored \in Inbound /\ WellFormed(stored)
    /\ \/ form = Closed
       \/ \E mode \in Modes, ib \in Inbound : form = FormShown(mode, ib) /\ WellFormed(ib)
    /\ \/ client = Closed
       \/ \E ib \in Inbound : client = FormShown("edit", ib) /\ WellFormed(ib)
    /\ client # Closed => stored # Nothing
    /\ overtaken \in BOOLEAN

\* An inbound is something.
LEMMA InboundIsSomething == Nothing \notin Inbound
BY DEF Nothing, Inbound, Protocols, Transports

\* An open form has a mode and a well-formed inbound.
LEMMA FormOpen ==
    ASSUME Typed, form.mode # "closed"
    PROVE  /\ form.mode \in Modes
           /\ form.shown \in Inbound
           /\ WellFormed(form.shown)
           /\ form = FormShown(form.mode, form.shown)
BY DEF Typed, Closed, FormShown, Modes

\* So has an open client form.
LEMMA ClientOpen ==
    ASSUME Typed, client.mode # "closed"
    PROVE  /\ client.mode = "edit"
           /\ client.shown \in Inbound
           /\ WellFormed(client.shown)
           /\ client = FormShown("edit", client.shown)
           /\ stored # Nothing
BY DEF Typed, Closed, FormShown

\* What is stored, when something is.
LEMMA StoredTyped ==
    ASSUME Typed, stored # Nothing
    PROVE  stored \in Inbound /\ WellFormed(stored)
BY DEF Typed

\* A new inbound is well formed, has no flow, and no security but that of hysteria.
LEMMA BlankFormed ==
    ASSUME NEW protocol \in Protocols
    PROVE  /\ Blank(protocol) \in Inbound
           /\ WellFormed(Blank(protocol))
           /\ Blank(protocol).flow = NoFlow
           /\ Blank(protocol).security # "none" => CanEnableTls(Blank(protocol))
           /\ Blank(protocol).security # "reality"
BY DEF Blank, Inbound, Protocols, Transports, Networks, Choices, Securities, WellFormed, CanEnableTls

\* Clearing the flow changes nothing else.
LEMMA FlowCheckedKeeps ==
    ASSUME NEW ib \in Inbound
    PROVE  /\ FlowChecked(ib) \in Inbound
           /\ FlowChecked(ib).protocol = ib.protocol
           /\ FlowChecked(ib).network = ib.network
           /\ FlowChecked(ib).security = ib.security
           /\ FlowChecked(ib).flow \in {ib.flow, NoFlow}
           /\ ib.protocol = "vless" /\ ~CanEnableTlsFlow(ib) => FlowChecked(ib).flow = NoFlow
BY DEF FlowChecked, Inbound

\* What a change of the transport gives: nothing but the flow and the security are touched.
LEMMA NetworkChangedKeeps ==
    ASSUME NEW ib \in Inbound, NEW network \in Choices
    PROVE  /\ NetworkChanged(ib, network) \in Inbound
           /\ NetworkChanged(ib, network).protocol = ib.protocol
           /\ NetworkChanged(ib, network).network = network
           /\ NetworkChanged(ib, network).flow \in {ib.flow, NoFlow}
           /\ NetworkChanged(ib, network).security \in {ib.security, "none"}
           /\ NetworkChanged(ib, network).security # "none" => CanEnableTls(NetworkChanged(ib, network))
           /\ ib.protocol = "vless" /\ ~CanEnableTlsFlow(NetworkChanged(ib, network))
                  => NetworkChanged(ib, network).flow = NoFlow
<1> DEFINE moved == [ib EXCEPT !.network = network]
           safe == IF CanEnableTls(moved) THEN moved ELSE [moved EXCEPT !.security = "none"]
<1>1. /\ moved \in Inbound
      /\ moved.protocol = ib.protocol /\ moved.network = network /\ moved.flow = ib.flow
  BY DEF Inbound, Networks
<1>2. /\ safe \in Inbound
      /\ safe.protocol = ib.protocol /\ safe.network = network /\ safe.flow = ib.flow
      /\ safe.security \in {ib.security, "none"}
      /\ safe.security # "none" => CanEnableTls(safe)
  BY <1>1 DEF Inbound, Securities, CanEnableTls
<1>3. NetworkChanged(ib, network) = FlowChecked(safe)
  BY DEF NetworkChanged
<1>. HIDE DEF safe
<1>4. QED
  BY <1>2, <1>3, FlowCheckedKeeps DEF CanEnableTls, CanEnableTlsFlow

-----------------------------------------------------------------------------
(* Types.                                                                  *)

LEMMA TypedInit == Init => Typed
BY DEF Init, Typed

\* Every step keeps the types and the place of hysteria's transport.
LEMMA TypedStep == Typed /\ [Next]_vars => Typed'
<1> SUFFICES ASSUME Typed, [Next]_vars PROVE Typed'
  OBVIOUS
<1>. USE DEF FormShown, Modes
<1>1. CASE OpenAdd
  <2>1. "vless" \in Protocols
    BY DEF Protocols, Transports
  <2>2. Blank("vless") \in Inbound /\ WellFormed(Blank("vless"))
    BY <2>1, BlankFormed
  <2>3. QED
    BY <1>1, <2>2 DEF OpenAdd, Typed
<1>2. CASE AutoReality
  <2>1. PICK flow \in Flows : form' = FormShown("add", [protocol |-> "vless", network |-> "tcp",
                                                         security |-> "reality", flow |-> flow])
    BY <1>2 DEF AutoReality
  <2> DEFINE ib == [protocol |-> "vless", network |-> "tcp", security |-> "reality", flow |-> flow]
  <2>2. ib \in Inbound /\ WellFormed(ib)
    BY DEF Inbound, Protocols, Transports, Networks, Choices, Securities, WellFormed
  <2>3. QED
    BY <1>2, <2>1, <2>2 DEF AutoReality, Typed
<1>3. CASE OpenEdit
  <2>1. stored \in Inbound /\ WellFormed(stored)
    BY <1>3, StoredTyped DEF OpenEdit
  <2>2. FlowChecked(stored) \in Inbound /\ WellFormed(FlowChecked(stored))
    BY <2>1, FlowCheckedKeeps DEF WellFormed
  <2>3. QED
    BY <1>3, <2>1, <2>2 DEF OpenEdit, Typed
<1>4. ASSUME NEW protocol \in Protocols, SetProtocol(protocol) PROVE Typed'
  <2>1. Blank(protocol) \in Inbound /\ WellFormed(Blank(protocol))
    BY BlankFormed
  <2>2. form' = FormShown("add", Blank(protocol))
    BY <1>4, FormOpen DEF SetProtocol
  <2>3. QED
    BY <1>4, <2>1, <2>2 DEF SetProtocol, Typed
<1>5. ASSUME NEW network \in Choices, SetNetwork(network) PROVE Typed'
  <2>1. /\ form.mode \in Modes /\ form.shown \in Inbound
        /\ form' = FormShown(form.mode, NetworkChanged(form.shown, network))
    BY <1>5, FormOpen DEF SetNetwork
  <2>2. /\ NetworkChanged(form.shown, network) \in Inbound
        /\ NetworkChanged(form.shown, network).protocol # "hysteria"
        /\ NetworkChanged(form.shown, network).network # "hysteria"
    BY <1>5, <2>1, NetworkChangedKeeps DEF SetNetwork, Choices
  <2>3. QED
    BY <1>5, <2>1, <2>2 DEF SetNetwork, Typed, WellFormed
<1>6. ASSUME NEW security \in Securities, SetSecurity(security) PROVE Typed'
  <2> DEFINE ib == [form.shown EXCEPT !.security = security]
  <2>1. /\ form.mode \in Modes /\ form.shown \in Inbound /\ WellFormed(form.shown)
        /\ form' = FormShown(form.mode, FlowChecked(ib))
    BY <1>6, FormOpen DEF SetSecurity
  <2>2. /\ ib \in Inbound /\ ib.protocol = form.shown.protocol /\ ib.network = form.shown.network
    BY <2>1 DEF Inbound
  <2>3. FlowChecked(ib) \in Inbound /\ WellFormed(FlowChecked(ib))
    BY <2>1, <2>2, FlowCheckedKeeps DEF WellFormed
  <2>4. QED
    BY <1>6, <2>1, <2>3 DEF SetSecurity, Typed
<1>7. ASSUME NEW flow \in Flows \cup {NoFlow}, SetFlow(flow) PROVE Typed'
  <2> DEFINE ib == [form.shown EXCEPT !.flow = flow]
  <2>1. /\ form.shown \in Inbound /\ WellFormed(form.shown)
        /\ form' = FormShown("add", ib)
    BY <1>7, FormOpen DEF SetFlow
  <2>2. ib \in Inbound /\ WellFormed(ib)
    BY <2>1 DEF Inbound, WellFormed
  <2>3. QED
    BY <1>7, <2>1, <2>2 DEF SetFlow, Typed
<1>8. CASE Save
  BY <1>8, FormOpen, InboundIsSomething DEF Save, Typed
<1>9. CASE CloseForm
  BY <1>9 DEF CloseForm, Typed
<1>10. CASE OpenClient
  BY <1>10, StoredTyped DEF OpenClient, Typed
<1>11. ASSUME NEW flow \in Flows \cup {NoFlow}, SetClientFlow(flow) PROVE Typed'
  <2> DEFINE ib == [client.shown EXCEPT !.flow = flow]
  <2>1. /\ client.shown \in Inbound /\ WellFormed(client.shown) /\ stored # Nothing
        /\ client' = FormShown("edit", ib)
    BY <1>11, ClientOpen DEF SetClientFlow
  <2>2. ib \in Inbound /\ WellFormed(ib)
    BY <2>1 DEF Inbound, WellFormed
  <2>3. QED
    BY <1>11, <2>1, <2>2 DEF SetClientFlow, Typed
<1>12. CASE SaveClient
  <2>1. client.shown.flow \in Flows \cup {NoFlow}
    BY <1>12, ClientOpen DEF SaveClient, Inbound
  <2>2. overtaken' \in BOOLEAN
    BY <1>12 DEF SaveClient, Typed
  <2>3. stored' \in Inbound /\ WellFormed(stored')
    <3>1. stored \in Inbound /\ WellFormed(stored)
      BY <1>12, ClientOpen, StoredTyped DEF SaveClient
    <3>2. QED
      BY <1>12, <2>1, <3>1 DEF SaveClient, Inbound, WellFormed
  <2>4. QED
    BY <1>12, <2>2, <2>3, InboundIsSomething DEF SaveClient, Typed
<1>13. CASE CloseClient
  BY <1>13 DEF CloseClient, Typed
<1>14. CASE UNCHANGED vars
  BY <1>14 DEF vars, Typed
<1>15. QED
  BY <1>1, <1>2, <1>3, <1>4, <1>5, <1>6, <1>7, <1>8, <1>9, <1>10, <1>11, <1>12, <1>13, <1>14
     DEF Next

LEMMA TypedAlways == Spec => []Typed
BY TypedInit, TypedStep, PTL DEF Spec

\* The types of the forms and of what is stored, and hysteria's transport with its
\* protocol alone.
THEOREM TypeCorrect == Spec => []TypeOK
<1>1. Typed => TypeOK
  BY DEF Typed, TypeOK, FormShown, Modes
<1>2. QED
  BY <1>1, TypedAlways, PTL

-----------------------------------------------------------------------------
(* Security.                                                               *)

\* Of Reality alone, that it is of two protocols.
Offered(ib) ==
    /\ ib.security # "none" => CanEnableTls(ib)
    /\ ib.security = "reality" => ib.protocol \in {"vless", "trojan"}

\* What is stored, and what the form of the inbound shows.
SecurityInv ==
    /\ stored # Nothing => Offered(stored)
    /\ form.mode # "closed" => Offered(form.shown)

LEMMA SecurityInit == Init => SecurityInv
BY DEF Init, SecurityInv, Closed, Nothing

LEMMA SecurityStep == Typed /\ SecurityInv /\ [Next]_vars => SecurityInv'
<1> SUFFICES ASSUME Typed, SecurityInv, [Next]_vars PROVE SecurityInv'
  OBVIOUS
<1>1. CASE OpenAdd
  <2>1. "vless" \in Protocols
    BY DEF Protocols, Transports
  <2>2. Offered(Blank("vless"))
    BY <2>1, BlankFormed DEF Offered
  <2>3. QED
    BY <1>1, <2>2 DEF OpenAdd, SecurityInv
<1>2. CASE AutoReality
  <2>1. PICK flow \in Flows : form' = [mode |-> "add", shown |-> [protocol |-> "vless", network |-> "tcp",
                                                       security |-> "reality", flow |-> flow]]
    BY <1>2 DEF AutoReality
  <2>2. QED
    BY <1>2, <2>1 DEF AutoReality, SecurityInv, Offered, CanEnableTls
<1>3. CASE OpenEdit
  <2>1. stored \in Inbound /\ Offered(stored)
    BY <1>3, StoredTyped DEF OpenEdit, SecurityInv
  <2>2. Offered(FlowChecked(stored))
    BY <2>1, FlowCheckedKeeps DEF Offered, CanEnableTls
  <2>3. QED
    BY <1>3, <2>1, <2>2 DEF OpenEdit, SecurityInv
<1>4. ASSUME NEW protocol \in Protocols, SetProtocol(protocol) PROVE SecurityInv'
  <2>1. form' = FormShown("add", Blank(protocol))
    BY <1>4, FormOpen DEF SetProtocol, FormShown
  <2>2. QED
    BY <1>4, <2>1, BlankFormed DEF SetProtocol, SecurityInv, FormShown, Offered
<1>5. ASSUME NEW network \in Choices, SetNetwork(network) PROVE SecurityInv'
  <2>1. /\ form.shown \in Inbound
        /\ form' = FormShown(form.mode, NetworkChanged(form.shown, network))
    BY <1>5, FormOpen DEF SetNetwork, FormShown
  <2>2. QED
    BY <1>5, <2>1, NetworkChangedKeeps DEF SetNetwork, SecurityInv, FormShown, Offered
<1>6. ASSUME NEW security \in Securities, SetSecurity(security) PROVE SecurityInv'
  <2> DEFINE ib == [form.shown EXCEPT !.security = security]
  <2>1. /\ form.shown \in Inbound
        /\ form' = FormShown(form.mode, FlowChecked(ib))
    BY <1>6, FormOpen DEF SetSecurity, FormShown
  <2>2. /\ ib \in Inbound /\ ib.protocol = form.shown.protocol /\ ib.network = form.shown.network
    BY <2>1 DEF Inbound
  <2>3. /\ CanEnableTls(ib)
        /\ ib.security = "reality" => ib.protocol \in {"vless", "trojan"}
    BY <1>6, <2>1, <2>2 DEF SetSecurity, CanEnableTls, CanEnableReality, Inbound
  <2>4. Offered(FlowChecked(ib))
    BY <2>2, <2>3, FlowCheckedKeeps DEF Offered, CanEnableTls
  <2>5. QED
    BY <1>6, <2>1, <2>4 DEF SetSecurity, SecurityInv, FormShown
<1>7. ASSUME NEW flow \in Flows \cup {NoFlow}, SetFlow(flow) PROVE SecurityInv'
  <2> DEFINE ib == [form.shown EXCEPT !.flow = flow]
  <2>1. form.shown \in Inbound /\ Offered(form.shown) /\ form' = FormShown("add", ib)
    BY <1>7, FormOpen DEF SetFlow, FormShown, SecurityInv
  <2>2. Offered(ib)
    BY <2>1 DEF Inbound, Offered, CanEnableTls
  <2>3. QED
    BY <1>7, <2>1, <2>2 DEF SetFlow, SecurityInv, FormShown
<1>8. CASE Save
  BY <1>8 DEF Save, SecurityInv, Closed
<1>9. CASE CloseForm
  BY <1>9 DEF CloseForm, SecurityInv, Closed
<1>10. CASE OpenClient
  BY <1>10 DEF OpenClient, SecurityInv
<1>11. ASSUME NEW flow \in Flows \cup {NoFlow}, SetClientFlow(flow) PROVE SecurityInv'
  BY <1>11 DEF SetClientFlow, SecurityInv
<1>12. CASE SaveClient
  <2>1. stored \in Inbound /\ Offered(stored)
    BY <1>12, ClientOpen, StoredTyped DEF SaveClient, SecurityInv
  <2>2. Offered(stored')
    BY <1>12, <2>1 DEF SaveClient, Inbound, Offered, CanEnableTls
  <2>3. QED
    BY <1>12, <2>2 DEF SaveClient, SecurityInv
<1>13. CASE CloseClient
  BY <1>13 DEF CloseClient, SecurityInv
<1>14. CASE UNCHANGED vars
  BY <1>14 DEF vars, SecurityInv
<1>15. QED
  BY <1>1, <1>2, <1>3, <1>4, <1>5, <1>6, <1>7, <1>8, <1>9, <1>10, <1>11, <1>12, <1>13, <1>14
     DEF Next

\* TLS is stored only for what can have it, and Reality only for what can have it or for
\* VLESS and Trojan over ws or httpupgrade.
THEOREM SecurityIsOffered == Spec => []SecurityOffered
<1>1. Typed /\ SecurityInv => SecurityOffered
  <2> SUFFICES ASSUME Typed, SecurityInv, stored # Nothing
               PROVE  /\ stored.security = "tls" => CanEnableTls(stored)
                      /\ stored.security = "reality" =>
                             CanEnableReality(stored) \/ CarriesReality(stored)
    BY DEF SecurityOffered
  <2>1. stored \in Inbound /\ Offered(stored)
    BY StoredTyped DEF SecurityInv
  <2>2. QED
    BY <2>1 DEF Offered, CanEnableTls, CanEnableReality, CarriesReality
<1>2. QED
  BY <1>1, TypedAlways, SecurityInit, SecurityStep, PTL DEF Spec

-----------------------------------------------------------------------------
(* Flows.                                                                  *)

FlowFits(ib) == ib.flow # NoFlow => CanEnableTlsFlow(ib)

\* The client form is for the protocol that is stored, which no edit changes; and as long
\* as no client form was saved too late, whatever is stored or shown has a fitting flow.
FlowInv ==
    /\ form.mode = "add" => stored = Nothing
    /\ form.mode = "edit" => stored # Nothing /\ form.shown.protocol = stored.protocol
    /\ client.mode = "edit" => client.shown.protocol = stored.protocol
    /\ ~overtaken => /\ stored # Nothing => FlowFits(stored)
                     /\ form.mode # "closed" => FlowFits(form.shown)
                     /\ client.mode = "edit" => FlowFits(client.shown)

LEMMA FlowInit == Init => FlowInv
BY DEF Init, FlowInv, Closed

\* The check of the flow leaves one that fits, of an inbound that had none but for VLESS.
LEMMA FlowCheckedFits ==
    ASSUME NEW ib \in Inbound, ib.protocol # "vless" => ib.flow = NoFlow
    PROVE  FlowFits(FlowChecked(ib))
BY FlowCheckedKeeps DEF FlowFits, CanEnableTlsFlow

LEMMA FlowStep == Typed /\ FlowInv /\ [Next]_vars => FlowInv'
<1> SUFFICES ASSUME Typed, FlowInv, [Next]_vars PROVE FlowInv'
  OBVIOUS
<1>0. ASSUME NEW ib, FlowFits(ib) PROVE ib.protocol # "vless" => ib.flow = NoFlow
  BY <1>0 DEF FlowFits, CanEnableTlsFlow
<1>1. CASE OpenAdd
  <2>1. "vless" \in Protocols
    BY DEF Protocols, Transports
  <2>2. FlowFits(Blank("vless"))
    BY <2>1, BlankFormed DEF FlowFits
  <2>3. QED
    BY <1>1, <2>2 DEF OpenAdd, FlowInv
<1>2. CASE AutoReality
  <2>1. PICK flow \in Flows : form' = [mode |-> "add", shown |-> [protocol |-> "vless", network |-> "tcp",
                                                       security |-> "reality", flow |-> flow]]
    BY <1>2 DEF AutoReality
  <2>2. QED
    BY <1>2, <2>1 DEF AutoReality, FlowInv, FlowFits, CanEnableTlsFlow
<1>3. CASE OpenEdit
  <2>1. stored \in Inbound /\ (~overtaken => FlowFits(stored))
    BY <1>3, StoredTyped DEF OpenEdit, FlowInv
  <2>2. /\ FlowChecked(stored).protocol = stored.protocol
        /\ ~overtaken => FlowFits(FlowChecked(stored))
    BY <1>0, <2>1, FlowCheckedKeeps, FlowCheckedFits
  <2>3. QED
    BY <1>3, <2>1, <2>2 DEF OpenEdit, FlowInv
<1>4. ASSUME NEW protocol \in Protocols, SetProtocol(protocol) PROVE FlowInv'
  <2>1. form' = FormShown("add", Blank(protocol))
    BY <1>4, FormOpen DEF SetProtocol, FormShown
  <2>2. FlowFits(Blank(protocol))
    BY BlankFormed DEF FlowFits
  <2>3. QED
    BY <1>4, <2>1, <2>2 DEF SetProtocol, FlowInv, FormShown
<1>5. ASSUME NEW network \in Choices, SetNetwork(network) PROVE FlowInv'
  <2> DEFINE ib == NetworkChanged(form.shown, network)
  <2>1. /\ form.shown \in Inbound /\ (~overtaken => FlowFits(form.shown))
        /\ form' = FormShown(form.mode, ib)
    BY <1>5, FormOpen DEF SetNetwork, FormShown, FlowInv
  <2>2. /\ ib.protocol = form.shown.protocol
        /\ ib.flow \in {form.shown.flow, NoFlow}
        /\ ib.protocol = "vless" /\ ~CanEnableTlsFlow(ib) => ib.flow = NoFlow
    BY <2>1, NetworkChangedKeeps
  <2>. HIDE DEF ib
  <2>3. ~overtaken => FlowFits(ib)
    BY <1>0, <2>1, <2>2 DEF FlowFits
  <2>4. QED
    BY <1>5, <2>1, <2>2, <2>3 DEF SetNetwork, FlowInv, FormShown
<1>6. ASSUME NEW security \in Securities, SetSecurity(security) PROVE FlowInv'
  <2> DEFINE ib == [form.shown EXCEPT !.security = security]
  <2>1. /\ form.shown \in Inbound /\ (~overtaken => FlowFits(form.shown))
        /\ form' = FormShown(form.mode, FlowChecked(ib))
    BY <1>6, FormOpen DEF SetSecurity, FormShown, FlowInv
  <2>2. /\ ib \in Inbound /\ ib.protocol = form.shown.protocol /\ ib.flow = form.shown.flow
    BY <2>1 DEF Inbound
  <2>. HIDE DEF ib
  <2>3. ~overtaken => FlowFits(FlowChecked(ib))
    BY <1>0, <2>1, <2>2, FlowCheckedFits
  <2>4. FlowChecked(ib).protocol = form.shown.protocol
    BY <2>2, FlowCheckedKeeps
  <2>5. QED
    BY <1>6, <2>1, <2>3, <2>4 DEF SetSecurity, FlowInv, FormShown
<1>7. ASSUME NEW flow \in Flows \cup {NoFlow}, SetFlow(flow) PROVE FlowInv'
  <2> DEFINE ib == [form.shown EXCEPT !.flow = flow]
  <2>1. form.shown \in Inbound /\ CanEnableTlsFlow(form.shown) /\ form' = FormShown("add", ib)
    BY <1>7, FormOpen DEF SetFlow, FormShown
  <2>2. FlowFits(ib)
    BY <2>1 DEF Inbound, FlowFits, CanEnableTlsFlow
  <2>3. QED
    BY <1>7, <2>1, <2>2 DEF SetFlow, FlowInv, FormShown
<1>8. CASE Save
  <2>1. form.mode \in Modes /\ form.shown \in Inbound
    BY <1>8, FormOpen DEF Save
  <2>2. client.mode = "edit" => stored # Nothing
    BY ClientOpen
  <2>3. client.mode = "edit" => form.shown.protocol = stored.protocol
    BY <2>1, <2>2 DEF FlowInv, Modes
  <2>4. QED
    BY <1>8, <2>3 DEF Save, FlowInv, Closed
<1>9. CASE CloseForm
  BY <1>9 DEF CloseForm, FlowInv, Closed
<1>10. CASE OpenClient
  BY <1>10 DEF OpenClient, FlowInv
<1>11. ASSUME NEW flow \in Flows \cup {NoFlow}, SetClientFlow(flow) PROVE FlowInv'
  <2> DEFINE ib == [client.shown EXCEPT !.flow = flow]
  <2>1. /\ client.shown \in Inbound /\ CanEnableTlsFlow(client.shown)
        /\ client' = FormShown("edit", ib)
    BY <1>11, ClientOpen DEF SetClientFlow, FormShown
  <2>2. FlowFits(ib) /\ ib.protocol = client.shown.protocol
    BY <2>1 DEF Inbound, FlowFits, CanEnableTlsFlow
  <2>3. QED
    BY <1>11, <2>1, <2>2 DEF SetClientFlow, FlowInv, FormShown
<1>12. CASE SaveClient
  <2>1. /\ stored \in Inbound /\ client.shown \in Inbound /\ stored # Nothing
        /\ client.shown.protocol = stored.protocol
    BY <1>12, ClientOpen, StoredTyped DEF SaveClient, FlowInv
  <2>2. /\ stored'.protocol = stored.protocol /\ stored'.network = stored.network
        /\ stored'.security = stored.security /\ stored'.flow = client.shown.flow
        /\ stored' \in Inbound
    BY <1>12, <2>1 DEF SaveClient, Inbound
  <2>3. ASSUME ~overtaken' PROVE FlowFits(stored')
    <3>1. ~overtaken /\ FlowFits(client.shown)
      BY <1>12, <2>3 DEF SaveClient, FlowInv
    <3>2. CASE client.shown.flow = NoFlow
      BY <2>2, <3>2 DEF FlowFits
    <3>3. CASE client.shown.flow # NoFlow
      <4>1. stored.network = client.shown.network /\ stored.security = client.shown.security
        BY <1>12, <2>3, <3>3 DEF SaveClient
      <4>2. QED
        BY <2>1, <2>2, <3>1, <4>1 DEF FlowFits, CanEnableTlsFlow
    <3>4. QED
      BY <3>2, <3>3
  <2>4. ~overtaken' => ~overtaken
    BY <1>12 DEF SaveClient
  <2>5. stored' # Nothing
    BY <2>2, InboundIsSomething
  <2>6. form' = form /\ client' = Closed
    BY <1>12 DEF SaveClient
  <2>7. QED
    BY <2>1, <2>2, <2>3, <2>4, <2>5, <2>6 DEF FlowInv, Closed
<1>13. CASE CloseClient
  BY <1>13 DEF CloseClient, FlowInv, Closed
<1>14. CASE UNCHANGED vars
  BY <1>14 DEF vars, FlowInv
<1>15. QED
  BY <1>1, <1>2, <1>3, <1>4, <1>5, <1>6, <1>7, <1>8, <1>9, <1>10, <1>11, <1>12, <1>13, <1>14
     DEF Next

\* A stored flow is one that xray serves, unless a client form was saved too late.
THEOREM FlowIsServed == Spec => []FlowServed
<1>1. FlowInv => FlowServed
  BY DEF FlowInv, FlowServed, FlowFits
<1>2. QED
  BY <1>1, TypedAlways, FlowInit, FlowStep, PTL DEF Spec

-----------------------------------------------------------------------------
(* Reality and hysteria.                                                   *)

\* Reality is of VLESS and Trojan alone, and hysteria always has TLS.
Apt(ib) ==
    /\ ib.security = "reality" => ib.protocol \in {"vless", "trojan"}
    /\ ib.protocol = "hysteria" => ib.security = "tls"

\* What is stored, and what the form of the inbound shows.
AptInv ==
    /\ stored # Nothing => Apt(stored)
    /\ form.mode # "closed" => Apt(form.shown)

LEMMA AptStart == Init => AptInv
BY DEF Init, AptInv, Closed, Nothing

LEMMA AptStep == Typed /\ AptInv /\ [Next]_vars => AptInv'
<1> SUFFICES ASSUME Typed, AptInv, [Next]_vars PROVE AptInv'
  OBVIOUS
<1>1. CASE OpenAdd
  BY <1>1 DEF OpenAdd, AptInv, Apt, Blank
<1>2. CASE AutoReality
  <2>1. PICK flow \in Flows : form' = [mode |-> "add", shown |-> [protocol |-> "vless", network |-> "tcp",
                                                       security |-> "reality", flow |-> flow]]
    BY <1>2 DEF AutoReality
  <2>2. QED
    BY <1>2, <2>1 DEF AutoReality, AptInv, Apt
<1>3. CASE OpenEdit
  <2>1. stored \in Inbound /\ Apt(stored)
    BY <1>3, StoredTyped DEF OpenEdit, AptInv
  <2>2. Apt(FlowChecked(stored))
    BY <2>1, FlowCheckedKeeps DEF Apt
  <2>3. QED
    BY <1>3, <2>1, <2>2 DEF OpenEdit, AptInv
<1>4. ASSUME NEW protocol \in Protocols, SetProtocol(protocol) PROVE AptInv'
  <2>1. form' = FormShown("add", Blank(protocol))
    BY <1>4, FormOpen DEF SetProtocol, FormShown
  <2>2. Apt(Blank(protocol))
    BY DEF Apt, Blank
  <2>3. QED
    BY <1>4, <2>1, <2>2 DEF SetProtocol, AptInv, FormShown
<1>5. ASSUME NEW network \in Choices, SetNetwork(network) PROVE AptInv'
  <2>1. /\ form.shown \in Inbound /\ form.shown.protocol # "hysteria" /\ Apt(form.shown)
        /\ form' = FormShown(form.mode, NetworkChanged(form.shown, network))
    BY <1>5, FormOpen DEF SetNetwork, FormShown, AptInv
  <2>2. Apt(NetworkChanged(form.shown, network))
    BY <2>1, NetworkChangedKeeps DEF Apt
  <2>3. QED
    BY <1>5, <2>1, <2>2 DEF SetNetwork, AptInv, FormShown
<1>6. ASSUME NEW security \in Securities, SetSecurity(security) PROVE AptInv'
  <2> DEFINE ib == [form.shown EXCEPT !.security = security]
  <2>1. /\ form.shown \in Inbound
        /\ form' = FormShown(form.mode, FlowChecked(ib))
    BY <1>6, FormOpen DEF SetSecurity, FormShown
  <2>2. ib \in Inbound /\ ib.protocol = form.shown.protocol /\ ib.security = security
    BY <2>1 DEF Inbound
  <2>3. Apt(ib)
    BY <1>6, <2>2 DEF SetSecurity, CanEnableReality, Apt
  <2> HIDE DEF ib
  <2>4. Apt(FlowChecked(ib))
    BY <2>2, <2>3, FlowCheckedKeeps DEF Apt
  <2>5. QED
    BY <1>6, <2>1, <2>4 DEF SetSecurity, AptInv, FormShown
<1>7. ASSUME NEW flow \in Flows \cup {NoFlow}, SetFlow(flow) PROVE AptInv'
  <2> DEFINE ib == [form.shown EXCEPT !.flow = flow]
  <2>1. form.shown \in Inbound /\ Apt(form.shown) /\ form' = FormShown("add", ib)
    BY <1>7, FormOpen DEF SetFlow, FormShown, AptInv
  <2>2. Apt(ib)
    BY <2>1 DEF Inbound, Apt
  <2>3. QED
    BY <1>7, <2>1, <2>2 DEF SetFlow, AptInv, FormShown
<1>8. CASE Save
  BY <1>8 DEF Save, AptInv, Closed
<1>9. CASE CloseForm
  BY <1>9 DEF CloseForm, AptInv, Closed
<1>10. CASE SaveClient
  <2>1. stored \in Inbound /\ Apt(stored)
    BY <1>10, ClientOpen, StoredTyped DEF SaveClient, AptInv
  <2>2. Apt(stored')
    BY <1>10, <2>1 DEF SaveClient, Inbound, Apt
  <2>3. QED
    BY <1>10, <2>2 DEF SaveClient, AptInv
<1>11. CASE OpenClient \/ CloseClient \/ (\E flow \in Flows \cup {NoFlow} : SetClientFlow(flow))
  BY <1>11 DEF OpenClient, CloseClient, SetClientFlow, AptInv
<1>12. CASE UNCHANGED vars
  BY <1>12 DEF vars, AptInv
<1>13. QED
  BY <1>1, <1>2, <1>3, <1>4, <1>5, <1>6, <1>7, <1>8, <1>9, <1>10, <1>11, <1>12 DEF Next

LEMMA AptAlways == Spec => []AptInv
BY TypedAlways, AptStart, AptStep, PTL DEF Spec

-----------------------------------------------------------------------------
(* Parameters, and the looking up of one.                                  *)

\* The options that a form can have: two kinds of headers, and never an empty list.
Sane(o) ==
    /\ o.header \in {"none", "http"} /\ o.multi \in BOOLEAN
    /\ o.paths \in Seq({"/", "/p"}) /\ o.paths # << >>
    /\ 1 \in DOMAIN o.names /\ 1 \in DOMAIN o.ids
    /\ \A proxy \in o.proxies : proxy.force \in {"same", "tls", "none"}

\* The value of a key, as Param takes it from a link.
Look(f, key, default) == IF key \in DOMAIN f THEN f[key] ELSE default

TransportKeys == {"path", "host", "headerType", "serviceName", "authority", "mode", "extra"}

SecretKeys == {"security", "fp", "alpn", "sni", "ech", "pbk", "sid", "spx", "pqv", "flow"}

\* What is looked up in joined parameters is in the first that has the key.
LEMMA LookJoined ==
    ASSUME NEW f, NEW g, NEW key, NEW default
    PROVE  Look(f ++ g, key, default) = Look(f, key, Look(g, key, default))
BY DEF Look, ++

-----------------------------------------------------------------------------
(* The panel's links of VLESS, Trojan and shadowsocks.                     *)

\* The parts of a link have keys of their own.
LEMMA PanelTransportKeys ==
    ASSUME NEW ib \in Inbound, NEW o
    PROVE  DOMAIN PanelTransport(ib, o) \subseteq TransportKeys
BY DEF PanelTransport, TransportKeys, When, NoParams, ++

LEMMA PanelSecretKeys ==
    ASSUME NEW ib \in Inbound, NEW o, NEW force
    PROVE  DOMAIN PanelSecret(ib, o, force) \subseteq SecretKeys
<1>1. DOMAIN PanelTls(o) \subseteq SecretKeys
  BY DEF PanelTls, SecretKeys, Given, Only, NoParams, ++
<1>2. DOMAIN PanelReality(o) \subseteq SecretKeys
  BY DEF PanelReality, SecretKeys, Given, Only, NoParams, ++
<1>3. DOMAIN Given("flow", ib.flow) \subseteq SecretKeys
  BY DEF SecretKeys, Given, Only, NoParams
<1>4. QED
  BY <1>1, <1>2, <1>3 DEF PanelSecret, SecretKeys, When, NoParams, ++

\* A key is looked up in the part of the link that has keys of its kind.
LEMMA PanelLook ==
    ASSUME NEW ib \in Inbound, NEW o, NEW force, NEW key, NEW default
    PROVE  LET params == PanelParams(ib, o, force) IN
           /\ Look(params, "type", default) = ib.network
           /\ Look(params, "encryption", default) = IF ib.protocol = "vless" THEN o.encryption ELSE default
           /\ key \in TransportKeys => Look(params, key, default) = Look(PanelTransport(ib, o), key, default)
           /\ key \in SecretKeys => Look(params, key, default) = Look(PanelSecret(ib, o, force), key, default)
<1> DEFINE a == [type |-> ib.network]
           b == When(ib.protocol = "vless", [encryption |-> o.encryption])
           c == PanelTransport(ib, o)
           d == PanelSecret(ib, o, force)
<1>1. PanelParams(ib, o, force) = a ++ b ++ c ++ d
  BY DEF PanelParams, PanelSecret
<1>2. DOMAIN a = {"type"} /\ a["type"] = ib.network /\ DOMAIN b \subseteq {"encryption"}
  BY DEF When, NoParams
<1>3. \A default2 : Look(b, "encryption", default2) = IF ib.protocol = "vless" THEN o.encryption ELSE default2
  BY DEF When, NoParams, Look
<1>4. DOMAIN c \subseteq TransportKeys /\ DOMAIN d \subseteq SecretKeys
  BY PanelTransportKeys, PanelSecretKeys
<1> HIDE DEF a, b, c, d
<1>5. \A k : Look(a ++ b ++ c ++ d, k, default)
                = Look(a, k, Look(b, k, Look(c, k, Look(d, k, default))))
  BY LookJoined
<1>6. key \in TransportKeys => key \notin DOMAIN a /\ key \notin DOMAIN b /\ key \notin DOMAIN d
  BY <1>2, <1>4 DEF TransportKeys, SecretKeys
<1>7. key \in SecretKeys => key \notin DOMAIN a /\ key \notin DOMAIN b /\ key \notin DOMAIN c
  BY <1>2, <1>4 DEF TransportKeys, SecretKeys
<1>8. "encryption" \notin DOMAIN a /\ "encryption" \notin DOMAIN c /\ "encryption" \notin DOMAIN d
  BY <1>2, <1>4 DEF TransportKeys, SecretKeys
<1>9. Look(a, "type", Look(b, "type", Look(c, "type", Look(d, "type", default)))) = ib.network
  BY <1>2 DEF Look
<1>10. Look(a ++ b ++ c ++ d, "encryption", default) = IF ib.protocol = "vless" THEN o.encryption ELSE default
  BY <1>3, <1>5, <1>8 DEF Look
<1>11. key \in TransportKeys => Look(a ++ b ++ c ++ d, key, default) = Look(c, key, default)
  BY <1>5, <1>6 DEF Look
<1>12. key \in SecretKeys => Look(a ++ b ++ c ++ d, key, default) = Look(d, key, default)
  BY <1>5, <1>7 DEF Look
<1>13. QED
  BY <1>1, <1>5, <1>9, <1>10, <1>11, <1>12 DEF c, d

\* The fields of the links of VLESS, Trojan and shadowsocks inbounds, and of the outbounds
\* that are read from them.
TransportOf(params, network) ==
    CASE network = "tcp" -> Tcp(Look(params, "headerType", "none"), Look(params, "path", ""),
                                Look(params, "host", ""))
      [] network \in {"ws", "httpupgrade"} ->
             [path |-> Look(params, "path", ""), host |-> Look(params, "host", "")]
      [] network = "grpc" ->
             [path |-> Look(params, "serviceName", ""), host |-> Look(params, "authority", ""),
              multi |-> Look(params, "mode", "") = "multi"]
      [] network = "xhttp" ->
             Xhttp(Look(params, "path", ""), Look(params, "host", ""), Look(params, "mode", ""),
                   Look(params, "extra", "default"))
      [] OTHER -> NoParams

SecretOf(params, security) ==
    CASE security = "tls" ->
             [sni |-> Look(params, "sni", ""), alpn |-> Look(params, "alpn", ""),
              fp |-> Look(params, "fp", "none"), ech |-> Look(params, "ech", "")]
      [] security = "reality" ->
             [pbk |-> Look(params, "pbk", ""), fp |-> Look(params, "fp", ""),
              sni |-> Look(params, "sni", ""), sid |-> Look(params, "sid", ""),
              spx |-> Look(params, "spx", ""), pqv |-> Look(params, "pqv", "")]
      [] OTHER -> NoParams

LEMMA ImportedParams ==
    ASSUME NEW link
    PROVE  ImportParams(link) =
             LET params == link.params
                 network == Look(params, "type", "tcp")
                 security == Look(params, "security", "none")
             IN  [protocol |-> link.scheme, user |-> link.user, address |-> link.address,
                  network |-> network, security |-> security,
                  flow |-> IF link.scheme = "vless" THEN Look(params, "flow", "") ELSE "",
                  encryption |-> IF link.scheme = "vless" THEN Look(params, "encryption", "none") ELSE "",
                  transport |-> TransportOf(params, network),
                  secret |-> SecretOf(params, security)]
BY DEF ImportParams, Param, ModeOf, TransportOf, SecretOf, Reality, Look

\* The transport of an outbound depends on the keys of the transport alone.
LEMMA TransportFrom ==
    ASSUME NEW f, NEW g, NEW network,
           \A key \in TransportKeys : \A default : Look(f, key, default) = Look(g, key, default)
    PROVE  TransportOf(f, network) = TransportOf(g, network)
BY DEF TransportOf, TransportKeys

LEMMA SecretFrom ==
    ASSUME NEW f, NEW g, NEW security,
           \A key \in SecretKeys \ {"security"} : \A default : Look(f, key, default) = Look(g, key, default)
    PROVE  SecretOf(f, security) = SecretOf(g, security)
BY DEF SecretOf, SecretKeys

\* Of the transport and of the security, what is read is what the inbound has.
LEMMA PanelTransportRead ==
    ASSUME NEW ib \in Inbound, NEW o, Sane(o)
    PROVE  TransportOf(PanelTransport(ib, o), ib.network) = WantedTransport(ib, o)
<1> DEFINE f == PanelTransport(ib, o)
<1>1. CASE ib.network = "tcp"
  <2>1. CASE o.header = "http"
    <3>1. f = [path |-> o.paths, host |-> o.host, headerType |-> "http"]
      BY <1>1, <2>1 DEF PanelTransport, When
    <3>2. QED
      BY <1>1, <2>1, <3>1 DEF TransportOf, WantedTransport, Tcp, Look
  <2>2. CASE o.header = "none"
    <3>1. f = NoParams
      BY <1>1, <2>2 DEF PanelTransport, When
    <3>2. QED
      BY <1>1, <2>2, <3>1 DEF TransportOf, WantedTransport, Tcp, Look, NoParams
  <2>3. QED
    BY <2>1, <2>2 DEF Sane
<1>2. CASE ib.network \in {"ws", "httpupgrade"}
  <2>1. f = [path |-> o.path, host |-> o.host]
    BY <1>2 DEF PanelTransport
  <2>2. QED
    BY <1>2, <2>1 DEF TransportOf, WantedTransport, Look
<1>3. CASE ib.network = "grpc"
  <2>1. f = [serviceName |-> o.path, authority |-> o.host] ++ When(o.multi, [mode |-> "multi"])
    BY <1>3 DEF PanelTransport
  <2>2. /\ Look(f, "serviceName", "") = o.path /\ Look(f, "authority", "") = o.host
        /\ (Look(f, "mode", "") = "multi") = o.multi
    <3>1. CASE o.multi
      <4>1. f = [serviceName |-> o.path, authority |-> o.host] ++ [mode |-> "multi"]
        BY <2>1, <3>1 DEF When
      <4> HIDE DEF f
      <4>2. Look(f, "serviceName", "") = o.path /\ Look(f, "authority", "") = o.host
        BY <4>1 DEF Look, ++
      <4>3. Look(f, "mode", "") = "multi"
        BY <4>1 DEF Look, ++
      <4>4. QED
        BY <3>1, <4>2, <4>3
    <3>2. CASE ~o.multi
      <4>1. f = [serviceName |-> o.path, authority |-> o.host] ++ NoParams
        BY <2>1, <3>2 DEF When
      <4> HIDE DEF f
      <4>2. Look(f, "serviceName", "") = o.path /\ Look(f, "authority", "") = o.host
        BY <4>1 DEF Look, ++, NoParams
      <4>3. Look(f, "mode", "") = ""
        BY <4>1 DEF Look, ++, NoParams
      <4>4. QED
        BY <3>2, <4>2, <4>3 DEF Sane
    <3>3. QED
      BY <3>1, <3>2 DEF Sane
  <2>3. QED
    BY <1>3, <2>2 DEF TransportOf, WantedTransport
<1>4. CASE ib.network = "xhttp"
  <2>1. f = [path |-> o.path, host |-> o.host, mode |-> o.mode, extra |-> o.padding]
    BY <1>4 DEF PanelTransport
  <2>2. QED
    BY <1>4, <2>1 DEF TransportOf, WantedTransport, Look
<1>5. CASE ib.network \notin {"tcp", "ws", "httpupgrade", "grpc", "xhttp"}
  BY <1>5 DEF TransportOf, WantedTransport
<1>6. QED
  BY <1>1, <1>2, <1>3, <1>4, <1>5

LEMMA PanelTlsLook ==
    ASSUME NEW o, NEW default
    PROVE  /\ Look(PanelTls(o), "fp", default) = o.fp /\ Look(PanelTls(o), "alpn", default) = o.alpn
           /\ Look(PanelTls(o), "sni", "") = o.sni /\ Look(PanelTls(o), "ech", "") = o.ech
           /\ \A key \in {"security", "flow"} : Look(PanelTls(o), key, default) = default
BY DEF PanelTls, Look, Given, Only, NoParams, ++

LEMMA PanelRealityLook ==
    ASSUME NEW o, NEW default
    PROVE  LET f == PanelReality(o) IN
           /\ Look(f, "pbk", default) = "key" /\ Look(f, "fp", default) = o.fp
           /\ Look(f, "sni", default) = o.names[1] /\ Look(f, "sid", default) = o.ids[1]
           /\ Look(f, "spx", "") = o.spx /\ Look(f, "pqv", "") = o.pqv
           /\ \A key \in {"security", "flow"} : Look(f, key, default) = default
BY DEF PanelReality, Look, Given, Only, NoParams, ++

LEMMA PanelSecretRead ==
    ASSUME NEW ib \in Inbound, NEW o, Apt(ib)
    PROVE  LET f == PanelSecret(ib, o, "same") IN
           /\ Look(f, "security", "none") = ib.security
           /\ SecretOf(f, ib.security) = WantedSecret(ib, o)
           /\ ib.protocol = "vless" =>
                Look(f, "flow", "") = IF ib.network = "tcp" /\ ib.security # "none" THEN ib.flow ELSE ""
<1> DEFINE f == PanelSecret(ib, o, "same")
           flow == When(ib.protocol = "vless" /\ ib.network = "tcp", Given("flow", ib.flow))
<1>1. /\ \A key, default : key # "flow" => Look(flow, key, default) = default
      /\ ib.protocol = "vless" => Look(flow, "flow", "") = IF ib.network = "tcp" THEN ib.flow ELSE ""
  BY DEF When, Look, Given, Only, NoParams
<1>2. Forced(ib, "same") = ib.security
  BY DEF Forced
<1>3. CASE ib.security = "tls"
  <2>1. f = [security |-> "tls"] ++ (PanelTls(o) ++ flow)
    BY <1>2, <1>3 DEF PanelSecret, When
  <2> HIDE DEF f, flow
  <2>2. \A key, default : Look(f, key, default)
             = Look([security |-> "tls"], key, Look(PanelTls(o), key, Look(flow, key, default)))
    BY <2>1, LookJoined
  <2>3. Look(f, "security", "none") = "tls"
    BY <2>2 DEF Look
  <2>4. \A key, default : key # "security" =>
            Look(f, key, default) = Look(PanelTls(o), key, Look(flow, key, default))
    BY <2>2 DEF Look
  <2>8. \A key \in {"sni", "alpn", "fp", "ech"} : \A default : Look(flow, key, default) = default
    BY <1>1
  <2>9. \A key \in {"sni", "alpn", "fp", "ech"} : \A default : Look(f, key, default) = Look(PanelTls(o), key, default)
    <3> TAKE key \in {"sni", "alpn", "fp", "ech"}
    <3> TAKE default
    <3>1. Look(f, key, default) = Look(PanelTls(o), key, Look(flow, key, default))
      BY <2>4
    <3>2. Look(flow, key, default) = default
      BY <2>8
    <3>3. QED
      BY <3>1, <3>2
  <2>10. Look(f, "flow", "") = Look(flow, "flow", "")
    <3>1. Look(f, "flow", "") = Look(PanelTls(o), "flow", Look(flow, "flow", ""))
      BY <2>4
    <3>2. \A default : Look(PanelTls(o), "flow", default) = default
      BY PanelTlsLook
    <3>3. QED
      BY <3>1, <3>2
  <2>5. /\ Look(f, "sni", "") = o.sni /\ Look(f, "alpn", "") = o.alpn /\ Look(f, "fp", "none") = o.fp
        /\ Look(f, "ech", "") = o.ech /\ Look(f, "flow", "") = Look(flow, "flow", "")
    BY <2>9, <2>10, PanelTlsLook
  <2>6. QED
    BY <1>1, <1>3, <2>3, <2>5 DEF SecretOf, WantedSecret, f
<1>4. CASE ib.security = "reality"
  <2>1. ib.protocol # "shadowsocks"
    BY <1>4 DEF Apt
  <2>2. f = [security |-> "reality"] ++ PanelReality(o) ++ flow
    BY <1>2, <1>4, <2>1 DEF PanelSecret
  <2> HIDE DEF f, flow
  <2>3. \A key, default : Look(f, key, default)
             = Look([security |-> "reality"], key, Look(PanelReality(o), key, Look(flow, key, default)))
    BY <2>2, LookJoined
  <2>4. Look(f, "security", "none") = "reality"
    BY <2>3 DEF Look
  <2>5. \A key, default : key # "security" =>
            Look(f, key, default) = Look(PanelReality(o), key, Look(flow, key, default))
    BY <2>3 DEF Look
  <2>8. \A key \in {"pbk", "fp", "sni", "sid", "spx", "pqv"} : Look(flow, key, "") = ""
    BY <1>1
  <2>9. \A key \in {"pbk", "fp", "sni", "sid", "spx", "pqv"} : Look(f, key, "") = Look(PanelReality(o), key, "")
    <3> TAKE key \in {"pbk", "fp", "sni", "sid", "spx", "pqv"}
    <3>1. Look(f, key, "") = Look(PanelReality(o), key, Look(flow, key, ""))
      BY <2>5
    <3>2. Look(flow, key, "") = ""
      BY <2>8
    <3>3. QED
      BY <3>1, <3>2
  <2>10. Look(f, "flow", "") = Look(flow, "flow", "")
    <3>1. Look(f, "flow", "") = Look(PanelReality(o), "flow", Look(flow, "flow", ""))
      BY <2>5
    <3>2. \A default : Look(PanelReality(o), "flow", default) = default
      BY PanelRealityLook
    <3>3. QED
      BY <3>1, <3>2
  <2>6. /\ Look(f, "pbk", "") = "key" /\ Look(f, "fp", "") = o.fp /\ Look(f, "sni", "") = o.names[1]
        /\ Look(f, "sid", "") = o.ids[1] /\ Look(f, "spx", "") = o.spx /\ Look(f, "pqv", "") = o.pqv
        /\ Look(f, "flow", "") = Look(flow, "flow", "")
    <3>1. LET g == PanelReality(o) IN
          /\ Look(g, "pbk", "") = "key" /\ Look(g, "fp", "") = o.fp /\ Look(g, "sni", "") = o.names[1]
          /\ Look(g, "sid", "") = o.ids[1] /\ Look(g, "spx", "") = o.spx /\ Look(g, "pqv", "") = o.pqv
      BY PanelRealityLook
    <3>2. QED
      BY <2>9, <2>10, <3>1
  <2>7. QED
    BY <1>1, <1>4, <2>4, <2>6 DEF SecretOf, WantedSecret, f
<1>5. CASE ib.security = "none"
  <2>1. f = When(ib.protocol # "shadowsocks", [security |-> "none"])
    BY <1>2, <1>5 DEF PanelSecret
  <2> HIDE DEF f
  <2>2. Look(f, "security", "none") = "none" /\ Look(f, "flow", "") = ""
    <3>1. CASE ib.protocol = "shadowsocks"
      BY <2>1, <3>1 DEF When, NoParams, Look
    <3>2. CASE ib.protocol # "shadowsocks"
      BY <2>1, <3>2 DEF When, Look
    <3>3. QED
      BY <3>1, <3>2
  <2>3. QED
    BY <1>5, <2>2 DEF SecretOf, WantedSecret, f
<1>6. QED
  BY <1>3, <1>4, <1>5 DEF Inbound, Securities

\* The endpoint of an inbound without external proxies.
OwnEndpoint(o) == [address |-> ServerAddress(o), force |-> "same"]

\* Nothing is lost of an outbound with the usual padding when it is written.
LEMMA WantedWritten ==
    ASSUME NEW ib \in Inbound, NEW o, ib.network = "xhttp" => o.padding = "default"
    PROVE  Written(Wanted(ib, o)) = Wanted(ib, o)
<1>1. Wanted(ib, o).network = ib.network
  BY DEF Wanted
<1>2. CASE ib.network = "xhttp"
  <2>1. \E mode : Wanted(ib, o).transport
                     = [path |-> o.path, host |-> o.host, mode |-> mode, padding |-> "default"]
    <3>1. Wanted(ib, o).transport = WantedTransport(ib, o)
      BY DEF Wanted
    <3>2. WantedTransport(ib, o) = Xhttp(o.path, o.host, o.mode, o.padding)
      BY <1>2 DEF WantedTransport
    <3>3. QED
      BY <1>2, <3>1, <3>2 DEF Xhttp
  <2>2. [Wanted(ib, o).transport EXCEPT !.padding = "default"] = Wanted(ib, o).transport
    BY <2>1
  <2> DEFINE w == Wanted(ib, o)
  <2>3. Written(w) = [w EXCEPT !.transport = [w.transport EXCEPT !.padding = "default"]]
    BY <1>1, <1>2 DEF Written
  <2>4. w = [protocol |-> w.protocol, user |-> w.user, address |-> w.address, network |-> w.network,
             security |-> w.security, flow |-> w.flow, encryption |-> w.encryption,
             transport |-> w.transport, secret |-> w.secret]
    BY DEF Wanted
  <2> HIDE DEF w
  <2>5. [w EXCEPT !.transport = w.transport] = w
    BY <2>4
  <2>6. QED
    BY <2>2, <2>3, <2>5 DEF w
<1>3. CASE ib.network # "xhttp"
  BY <1>1, <1>3 DEF Written
<1>4. QED
  BY <1>2, <1>3

\* fromParamLink reads what genVLESSLink, genTrojanLink and genSSLink write.
LEMMA ParamsRead ==
    ASSUME NEW ib \in Inbound, NEW o, Apt(ib), Sane(o), ib.protocol \notin {"vmess", "hysteria"},
           o.listen # "::0"
    PROVE  Import(PanelLink(ib, o, OwnEndpoint(o))) = Wanted(ib, o)
<1> DEFINE link == PanelLink(ib, o, OwnEndpoint(o))
           params == PanelParams(ib, o, "same")
<1>1. link = [scheme |-> ib.protocol, user |-> PanelUser(ib, o), address |-> ServerAddress(o),
              params |-> params]
  BY DEF PanelLink, OwnEndpoint
<1>2. /\ \A default : Look(params, "type", default) = ib.network
      /\ \A default : Look(params, "encryption", default)
                        = IF ib.protocol = "vless" THEN o.encryption ELSE default
  BY PanelLook
<1>3. \A key \in TransportKeys : \A default : Look(params, key, default) = Look(PanelTransport(ib, o), key, default)
  <2> TAKE key \in TransportKeys
  <2> TAKE default
  <2> QED
    BY PanelLook
<1>4. \A key \in SecretKeys : \A default : Look(params, key, default) = Look(PanelSecret(ib, o, "same"), key, default)
  <2> TAKE key \in SecretKeys
  <2> TAKE default
  <2> QED
    BY PanelLook
<1>5. Look(params, "security", "none") = Look(PanelSecret(ib, o, "same"), "security", "none")
  BY <1>4 DEF SecretKeys
<1>6. Look(params, "flow", "") = Look(PanelSecret(ib, o, "same"), "flow", "")
  BY <1>4 DEF SecretKeys
<1> HIDE DEF params, link
<1>7. TransportOf(params, ib.network) = WantedTransport(ib, o)
  <2>1. TransportOf(params, ib.network) = TransportOf(PanelTransport(ib, o), ib.network)
    BY <1>3, TransportFrom
  <2>2. QED
    BY <2>1, PanelTransportRead
<1>8. SecretOf(params, ib.security) = WantedSecret(ib, o)
  <2>1. SecretOf(params, ib.security) = SecretOf(PanelSecret(ib, o, "same"), ib.security)
    BY <1>4, SecretFrom
  <2>2. QED
    BY <2>1, PanelSecretRead
<1>9. Look(params, "security", "none") = ib.security
  BY <1>5, PanelSecretRead
<1>10. ib.protocol = "vless" =>
         Look(params, "flow", "") = IF ib.network = "tcp" /\ ib.security # "none" THEN ib.flow ELSE ""
  BY <1>6, PanelSecretRead
<1>11. Import(link) = ImportParams(link)
  BY <1>1 DEF Import
<1>12. ImportParams(link) =
         [protocol |-> ib.protocol, user |-> PanelUser(ib, o), address |-> ServerAddress(o),
          network |-> Look(params, "type", "tcp"), security |-> Look(params, "security", "none"),
          flow |-> IF ib.protocol = "vless" THEN Look(params, "flow", "") ELSE "",
          encryption |-> IF ib.protocol = "vless" THEN Look(params, "encryption", "none") ELSE "",
          transport |-> TransportOf(params, Look(params, "type", "tcp")),
          secret |-> SecretOf(params, Look(params, "security", "none"))]
  BY <1>1, ImportedParams
<1>13. Look(params, "type", "tcp") = ib.network
  BY <1>2
<1>14. (IF ib.protocol = "vless" THEN Look(params, "encryption", "none") ELSE "")
         = IF ib.protocol = "vless" THEN o.encryption ELSE ""
  BY <1>2
<1>15. (IF ib.protocol = "vless" THEN Look(params, "flow", "") ELSE "")
         = IF ib.protocol = "vless" /\ ib.network = "tcp" /\ ib.security # "none" THEN ib.flow ELSE ""
  BY <1>10
<1>16. Import(link) =
         [protocol |-> ib.protocol, user |-> PanelUser(ib, o), address |-> ServerAddress(o),
          network |-> ib.network, security |-> ib.security,
          flow |-> IF ib.protocol = "vless" /\ ib.network = "tcp" /\ ib.security # "none" THEN ib.flow ELSE "",
          encryption |-> IF ib.protocol = "vless" THEN o.encryption ELSE "",
          transport |-> WantedTransport(ib, o), secret |-> WantedSecret(ib, o)]
  BY <1>7, <1>8, <1>9, <1>11, <1>12, <1>13, <1>14, <1>15
<1>17. QED
  BY <1>16 DEF Wanted, ServerAddress, Reached, link

-----------------------------------------------------------------------------
(* The panel's links of VMess.                                             *)

VmessTransportKeys == {"type", "path", "host", "authority", "mode", "x_padding_bytes"}

VmessSecretKeys == {"sni", "fp", "alpn"}

LEMMA VmessTransportDomain ==
    ASSUME NEW ib \in Inbound, NEW o
    PROVE  DOMAIN VmessTransport(ib, o) \subseteq VmessTransportKeys
BY DEF VmessTransport, VmessTransportKeys, When, Given, Only, NoParams, ++

LEMMA VmessSecretDomain ==
    ASSUME NEW ib \in Inbound, NEW o, NEW force
    PROVE  DOMAIN VmessSecret(ib, o, force) \subseteq VmessSecretKeys
BY DEF VmessSecret, VmessSecretKeys, Given, Only, NoParams, ++

LEMMA VmessLook ==
    ASSUME NEW ib \in Inbound, NEW o, NEW force, NEW key, NEW default
    PROVE  LET params == PanelVmess(ib, o, force) IN
           /\ Look(params, "net", default) = ib.network
           /\ Look(params, "tls", default) = Forced(ib, force)
           /\ key \in VmessTransportKeys => Look(params, key, default) = Look(VmessTransport(ib, o), key, default)
           /\ key \in VmessSecretKeys => Look(params, key, default) = Look(VmessSecret(ib, o, force), key, default)
<1> DEFINE a == [net |-> ib.network, tls |-> Forced(ib, force)]
           b == VmessTransport(ib, o)
           c == VmessSecret(ib, o, force)
<1>1. PanelVmess(ib, o, force) = a ++ b ++ c
  BY DEF PanelVmess, VmessTransport, VmessSecret
<1>2. DOMAIN a = {"net", "tls"} /\ a["net"] = ib.network /\ a["tls"] = Forced(ib, force)
  OBVIOUS
<1>3. DOMAIN b \subseteq VmessTransportKeys /\ DOMAIN c \subseteq VmessSecretKeys
  BY VmessTransportDomain, VmessSecretDomain
<1> HIDE DEF a, b, c
<1>4. \A k : Look(a ++ b ++ c, k, default) = Look(a, k, Look(b, k, Look(c, k, default)))
  BY LookJoined
<1>5. key \in VmessTransportKeys => key \notin DOMAIN a /\ key \notin DOMAIN c
  BY <1>2, <1>3 DEF VmessTransportKeys, VmessSecretKeys
<1>6. key \in VmessSecretKeys => key \notin DOMAIN a /\ key \notin DOMAIN b
  BY <1>2, <1>3 DEF VmessTransportKeys, VmessSecretKeys
<1>7. /\ Look(a ++ b ++ c, "net", default) = ib.network
      /\ Look(a ++ b ++ c, "tls", default) = Forced(ib, force)
  BY <1>2, <1>4 DEF Look
<1>8. key \in VmessTransportKeys => Look(a ++ b ++ c, key, default) = Look(b, key, default)
  BY <1>4, <1>5 DEF Look
<1>9. key \in VmessSecretKeys => Look(a ++ b ++ c, key, default) = Look(c, key, default)
  BY <1>4, <1>6 DEF Look
<1>10. QED
  BY <1>1, <1>7, <1>8, <1>9 DEF b, c

\* The outbound that is read, field by field.
TransportOfVmess(params, network) ==
    CASE network = "tcp" -> Tcp(Look(params, "type", ""), Look(params, "path", ""), Look(params, "host", ""))
      [] network \in {"ws", "httpupgrade"} ->
             [path |-> Look(params, "path", ""), host |-> Look(params, "host", "")]
      [] network = "grpc" ->
             [path |-> Look(params, "path", ""), host |-> Look(params, "authority", ""),
              multi |-> Look(params, "type", "") = "multi"]
      [] network = "xhttp" ->
             Xhttp(Look(params, "path", ""), Look(params, "host", ""), Look(params, "mode", ""), "default")
      [] OTHER -> NoParams

SecretOfVmess(params, tls) ==
    IF tls = "tls"
    THEN [sni |-> Look(params, "sni", ""), alpn |-> Look(params, "alpn", ""),
          fp |-> Look(params, "fp", ""), ech |-> ""]
    ELSE NoParams

LEMMA ImportedVmess ==
    ASSUME NEW link
    PROVE  ImportVmess(link) =
             LET params == link.params
                 network == Look(params, "net", "")
                 tls == Look(params, "tls", "")
             IN  [protocol |-> "vmess", user |-> link.user, address |-> link.address,
                  network |-> network, security |-> tls, flow |-> "", encryption |-> "",
                  transport |-> TransportOfVmess(params, network),
                  secret |-> SecretOfVmess(params, tls)]
BY DEF ImportVmess, Param, ModeOf, TransportOfVmess, SecretOfVmess, Look

LEMMA VmessTransportFrom ==
    ASSUME NEW f, NEW g, NEW network,
           \A key \in VmessTransportKeys : \A default : Look(f, key, default) = Look(g, key, default)
    PROVE  TransportOfVmess(f, network) = TransportOfVmess(g, network)
BY DEF TransportOfVmess, VmessTransportKeys

LEMMA VmessSecretFrom ==
    ASSUME NEW f, NEW g, NEW tls,
           \A key \in VmessSecretKeys : \A default : Look(f, key, default) = Look(g, key, default)
    PROVE  SecretOfVmess(f, tls) = SecretOfVmess(g, tls)
BY DEF SecretOfVmess, VmessSecretKeys

\* What is read of the transport: of xhttp neither the mode nor the padding.
VmessTransportSeen(ib, o) ==
    IF ib.network = "xhttp" THEN Xhttp(o.path, o.host, "auto", "default") ELSE WantedTransport(ib, o)

LEMMA VmessTransportRead ==
    ASSUME NEW ib \in Inbound, NEW o, Sane(o)
    PROVE  TransportOfVmess(VmessTransport(ib, o), ib.network) = VmessTransportSeen(ib, o)
<1> DEFINE f == VmessTransport(ib, o)
<1>1. CASE ib.network = "tcp"
  <2>1. CASE o.header = "http"
    <3>1. f = [type |-> o.header] ++ ([path |-> o.paths] ++ Given("host", o.host))
      BY <1>1, <2>1 DEF VmessTransport, When
    <3> HIDE DEF f
    <3>2. Look(f, "type", "") = "http" /\ Look(f, "path", "") = o.paths
      BY <2>1, <3>1 DEF Look, ++
    <3>3. Look(f, "host", "") = o.host
      BY <3>1 DEF Look, Given, Only, NoParams, ++
    <3>4. QED
      BY <1>1, <2>1, <3>2, <3>3 DEF TransportOfVmess, WantedTransport, VmessTransportSeen, Tcp, f
  <2>2. CASE o.header = "none"
    <3>1. f = [type |-> "none"] ++ NoParams
      BY <1>1, <2>2 DEF VmessTransport, When
    <3> HIDE DEF f
    <3>2. Look(f, "type", "") = "none"
      BY <3>1 DEF Look, ++, NoParams
    <3>3. QED
      BY <1>1, <2>2, <3>2 DEF TransportOfVmess, WantedTransport, VmessTransportSeen, Tcp, f
  <2>3. QED
    BY <2>1, <2>2 DEF Sane
<1>2. CASE ib.network \in {"ws", "httpupgrade"}
  <2>1. f = [path |-> o.path, host |-> o.host]
    BY <1>2 DEF VmessTransport
  <2>2. QED
    BY <1>2, <2>1 DEF TransportOfVmess, WantedTransport, VmessTransportSeen, Look
<1>3. CASE ib.network = "grpc"
  <2>1. CASE o.multi
    <3>1. f = [path |-> o.path, authority |-> o.host] ++ [type |-> "multi"]
      BY <1>3, <2>1 DEF VmessTransport, When
    <3> HIDE DEF f
    <3>2. Look(f, "path", "") = o.path /\ Look(f, "authority", "") = o.host
      BY <3>1 DEF Look, ++
    <3>3. Look(f, "type", "") = "multi"
      BY <3>1 DEF Look, ++
    <3>4. QED
      BY <1>3, <2>1, <3>2, <3>3 DEF TransportOfVmess, WantedTransport, VmessTransportSeen, f, Sane
  <2>2. CASE ~o.multi
    <3>1. f = [path |-> o.path, authority |-> o.host] ++ NoParams
      BY <1>3, <2>2 DEF VmessTransport, When
    <3> HIDE DEF f
    <3>2. Look(f, "path", "") = o.path /\ Look(f, "authority", "") = o.host
      BY <3>1 DEF Look, ++, NoParams
    <3>3. Look(f, "type", "") = ""
      BY <3>1 DEF Look, ++, NoParams
    <3>4. QED
      BY <1>3, <2>2, <3>2, <3>3 DEF TransportOfVmess, WantedTransport, VmessTransportSeen, f, Sane
  <2>3. QED
    BY <2>1, <2>2
<1>4. CASE ib.network = "xhttp"
  <2>1. f = [path |-> o.path, host |-> o.host, type |-> o.mode, x_padding_bytes |-> o.padding]
    BY <1>4 DEF VmessTransport
  <2> HIDE DEF f
  <2>2. Look(f, "path", "") = o.path /\ Look(f, "host", "") = o.host /\ Look(f, "mode", "") = ""
    BY <2>1 DEF Look
  <2>3. TransportOfVmess(f, "xhttp") = Xhttp(o.path, o.host, "", "default")
    BY <2>2 DEF TransportOfVmess
  <2>4. VmessTransportSeen(ib, o) = Xhttp(o.path, o.host, "auto", "default")
    BY <1>4 DEF VmessTransportSeen
  <2>5. QED
    BY <1>4, <2>3, <2>4 DEF Xhttp, f
<1>5. CASE ib.network \notin {"tcp", "ws", "httpupgrade", "grpc", "xhttp"}
  BY <1>5 DEF TransportOfVmess, WantedTransport, VmessTransportSeen
<1>6. QED
  BY <1>1, <1>2, <1>3, <1>4, <1>5

LEMMA VmessTlsLook ==
    ASSUME NEW o
    PROVE  LET f == Given("sni", o.sni) ++ Given("fp", o.fp) ++ Given("alpn", o.alpn) IN
           Look(f, "sni", "") = o.sni /\ Look(f, "fp", "") = o.fp /\ Look(f, "alpn", "") = o.alpn
<1> DEFINE f == Given("sni", o.sni) ++ Given("fp", o.fp) ++ Given("alpn", o.alpn)
<1>1. Look(f, "sni", "") = o.sni
  BY DEF Look, Given, Only, NoParams, ++
<1>2. Look(f, "fp", "") = o.fp
  BY DEF Look, Given, Only, NoParams, ++
<1>3. Look(f, "alpn", "") = o.alpn
  BY DEF Look, Given, Only, NoParams, ++
<1>4. QED
  BY <1>1, <1>2, <1>3

LEMMA VmessSecretRead ==
    ASSUME NEW ib \in Inbound, NEW o, ib.security # "reality", ib.security = "tls" => o.ech = ""
    PROVE  SecretOfVmess(VmessSecret(ib, o, "same"), ib.security) = WantedSecret(ib, o)
<1> DEFINE f == VmessSecret(ib, o, "same")
<1>1. CASE ib.security = "tls"
  <2>1. f = Given("sni", o.sni) ++ Given("fp", o.fp) ++ Given("alpn", o.alpn)
    BY <1>1 DEF VmessSecret, Forced
  <2>5. Look(f, "sni", "") = o.sni /\ Look(f, "fp", "") = o.fp /\ Look(f, "alpn", "") = o.alpn
    BY <2>1, VmessTlsLook
  <2> HIDE DEF f
  <2>6. QED
    BY <1>1, <2>5 DEF SecretOfVmess, WantedSecret, f
<1>2. CASE ib.security # "tls"
  BY <1>2 DEF SecretOfVmess, WantedSecret
<1>3. QED
  BY <1>1, <1>2

\* fromVmessLink reads what genVmessLink writes.
LEMMA VmessRead ==
    ASSUME NEW ib \in Inbound, NEW o, Apt(ib), Sane(o), ib.protocol = "vmess", ~Unreadable(ib, o)
    PROVE  Import(PanelLink(ib, o, OwnEndpoint(o))) = Wanted(ib, o)
<1> DEFINE link == PanelLink(ib, o, OwnEndpoint(o))
           params == PanelVmess(ib, o, "same")
<1>1. link = [scheme |-> "vmess", user |-> PanelUser(ib, o), address |-> ServerAddress(o),
              params |-> params]
  BY DEF PanelLink, OwnEndpoint
<1>2. Look(params, "net", "") = ib.network /\ Look(params, "tls", "") = ib.security
  <2>1. \A default : Look(params, "net", default) = ib.network
    BY VmessLook
  <2>2. \A default : Look(params, "tls", default) = Forced(ib, "same")
    BY VmessLook
  <2>3. QED
    BY <2>1, <2>2 DEF Forced
<1>3. \A key \in VmessTransportKeys : \A default : Look(params, key, default) = Look(VmessTransport(ib, o), key, default)
  <2> TAKE key \in VmessTransportKeys
  <2> TAKE default
  <2> QED
    BY VmessLook
<1>4. \A key \in VmessSecretKeys : \A default : Look(params, key, default) = Look(VmessSecret(ib, o, "same"), key, default)
  <2> TAKE key \in VmessSecretKeys
  <2> TAKE default
  <2> QED
    BY VmessLook
<1>5. /\ ib.security # "reality" /\ (ib.security = "tls" => o.ech = "")
      /\ ib.network = "xhttp" => o.mode = "auto" /\ o.padding = "default"
  BY DEF Apt, Unreadable
<1> HIDE DEF params, link
<1>6. TransportOfVmess(params, ib.network) = WantedTransport(ib, o)
  <2>1. TransportOfVmess(params, ib.network) = TransportOfVmess(VmessTransport(ib, o), ib.network)
    BY <1>3, VmessTransportFrom
  <2>2. VmessTransportSeen(ib, o) = WantedTransport(ib, o)
    <3>1. CASE ib.network = "xhttp"
      BY <1>5, <3>1 DEF VmessTransportSeen, WantedTransport
    <3>2. CASE ib.network # "xhttp"
      BY <3>2 DEF VmessTransportSeen
    <3>3. QED
      BY <3>1, <3>2
  <2>3. QED
    BY <2>1, <2>2, VmessTransportRead
<1>7. SecretOfVmess(params, ib.security) = WantedSecret(ib, o)
  <2>1. SecretOfVmess(params, ib.security) = SecretOfVmess(VmessSecret(ib, o, "same"), ib.security)
    BY <1>4, VmessSecretFrom
  <2>2. QED
    BY <1>5, <2>1, VmessSecretRead
<1>8. Import(link) = ImportVmess(link)
  BY <1>1 DEF Import
<1>9. Import(link) =
        [protocol |-> "vmess", user |-> PanelUser(ib, o), address |-> ServerAddress(o),
         network |-> ib.network, security |-> ib.security, flow |-> "", encryption |-> "",
         transport |-> WantedTransport(ib, o), secret |-> WantedSecret(ib, o)]
  BY <1>1, <1>2, <1>6, <1>7, <1>8, ImportedVmess
<1>10. QED
  BY <1>9 DEF Wanted, ServerAddress, Reached, Unreadable, link

\* The panel reads its own links.
LEMMA PanelLinkRead ==
    ASSUME NEW ib \in Inbound, NEW o, Apt(ib), Sane(o), ~Unreadable(ib, o)
    PROVE  ReadBack(ib, o)
<1>1. Import(PanelLink(ib, o, OwnEndpoint(o))) = Wanted(ib, o)
  <2>1. CASE ib.protocol = "vmess"
    BY <2>1, VmessRead
  <2>2. CASE ib.protocol \notin {"vmess", "hysteria"}
    BY <2>2, ParamsRead DEF Unreadable
  <2>3. QED
    BY <2>1, <2>2 DEF Unreadable
<1>2. Written(Wanted(ib, o)) = Wanted(ib, o)
  BY WantedWritten DEF Unreadable
<1>3. o.proxies = {} => Endpoints(o) = {OwnEndpoint(o)}
  BY DEF Endpoints, OwnEndpoint
<1>4. QED
  BY <1>1, <1>2, <1>3 DEF ReadBack

-----------------------------------------------------------------------------
(* The options that the runs try are ones that a form can have.            *)

OptionNames ==
    {"listen", "header", "paths", "path", "host", "multi", "mode", "padding", "sni", "alpn", "fp", "ech",
     "spx", "pqv", "encryption", "method", "obfs", "names", "ids", "proxies"}

\* What Sane says of one option.
SaneValue(name, value) ==
    /\ name = "header" => value \in {"none", "http"}
    /\ name = "multi" => value \in BOOLEAN
    /\ name = "paths" => value \in Seq({"/", "/p"}) /\ value # << >>
    /\ name \in {"names", "ids"} => 1 \in DOMAIN value
    /\ name = "proxies" => \A proxy \in value : proxy.force \in {"same", "tls", "none"}

LEMMA SaneFields ==
    ASSUME NEW o, DOMAIN o = OptionNames, \A name \in OptionNames : SaneValue(name, o[name])
    PROVE  Sane(o)
<1>1. SaneValue("header", o.header)
  BY DEF OptionNames
<1>2. SaneValue("multi", o.multi)
  BY DEF OptionNames
<1>3. SaneValue("paths", o.paths)
  BY DEF OptionNames
<1>4. SaneValue("names", o.names) /\ SaneValue("ids", o.ids)
  BY DEF OptionNames
<1>5. SaneValue("proxies", o.proxies)
  BY DEF OptionNames
<1>6. o.header \in {"none", "http"} /\ o.multi \in BOOLEAN
  BY <1>1, <1>2 DEF SaneValue
<1>7. o.paths \in Seq({"/", "/p"}) /\ o.paths # << >>
  BY <1>3 DEF SaneValue
<1>8. 1 \in DOMAIN o.names /\ 1 \in DOMAIN o.ids
  BY <1>4 DEF SaneValue
<1>9. \A proxy \in o.proxies : proxy.force \in {"same", "tls", "none"}
  BY <1>5 DEF SaneValue
<1>10. QED
  BY <1>6, <1>7, <1>8, <1>9 DEF Sane

LEMMA UsualSane ==
    /\ Usual = [name \in OptionNames |-> Usual[name]]
    /\ \A name \in OptionNames : SaneValue(name, Usual[name])
<1>1. Usual = [name \in OptionNames |-> Usual[name]]
  BY DEF Usual, OptionNames
<1>2. Usual.header = "none" /\ Usual.multi = FALSE /\ Usual.paths = <<"/">> /\ Usual.names = <<"name">>
      /\ Usual.ids = <<"id">> /\ Usual.proxies = {}
  BY DEF Usual
<1>3. SaneValue("header", Usual["header"])
  BY <1>2 DEF SaneValue
<1>4. SaneValue("multi", Usual["multi"])
  BY <1>2 DEF SaneValue
<1>5. SaneValue("paths", Usual["paths"])
  <2>1. <<"/">> \in Seq({"/", "/p"}) /\ <<"/">> # << >>
    OBVIOUS
  <2>2. QED
    BY <1>2, <2>1 DEF SaneValue
<1>6. SaneValue("names", Usual["names"]) /\ SaneValue("ids", Usual["ids"])
  BY <1>2 DEF SaneValue
<1>7. SaneValue("proxies", Usual["proxies"])
  BY <1>2 DEF SaneValue
<1>8. \A name \in OptionNames \ {"header", "multi", "paths", "names", "ids", "proxies"} : SaneValue(name, Usual[name])
  BY DEF SaneValue
<1>9. QED
  BY <1>1, <1>3, <1>4, <1>5, <1>6, <1>7, <1>8

LEMMA UnusualSane == \A name \in OptionNames : \A value \in Unusual[name] : SaneValue(name, value)
<1>1. /\ Unusual.header = {"http"} /\ Unusual.multi = {TRUE} /\ Unusual.paths = {<<"/", "/p">>}
      /\ Unusual.names = {<<"name", "other">>} /\ Unusual.ids = {<<"id", "other">>}
  BY DEF Unusual
<1>2. Unusual.proxies = {{Proxy("same")}, {Proxy("tls")}, {Proxy("none")}, {Proxy("same"), Proxy("none")}}
  BY DEF Unusual
<1>3. \A value \in Unusual["header"] : SaneValue("header", value)
  BY <1>1 DEF SaneValue
<1>4. \A value \in Unusual["multi"] : SaneValue("multi", value)
  BY <1>1 DEF SaneValue
<1>5. \A value \in Unusual["paths"] : SaneValue("paths", value)
  <2>1. <<"/", "/p">> \in Seq({"/", "/p"}) /\ <<"/", "/p">> # << >>
    OBVIOUS
  <2>2. QED
    BY <1>1, <2>1 DEF SaneValue
<1>6. \A value \in Unusual["names"] : SaneValue("names", value)
  BY <1>1 DEF SaneValue
<1>7. \A value \in Unusual["ids"] : SaneValue("ids", value)
  BY <1>1 DEF SaneValue
<1>8. \A value \in Unusual["proxies"] : SaneValue("proxies", value)
  <2>1. \A force : Proxy(force).force = force
    BY DEF Proxy
  <2>2. QED
    BY <1>2, <2>1 DEF SaneValue
<1>9. \A name \in OptionNames \ {"header", "multi", "paths", "names", "ids", "proxies"} :
          \A value : SaneValue(name, value)
  BY DEF SaneValue
<1>10. QED
  BY <1>3, <1>4, <1>5, <1>6, <1>7, <1>8, <1>9

LEMMA OptionsSane == \A o \in Options : Sane(o)
<1>1. SUFFICES ASSUME NEW o \in Options
               PROVE  DOMAIN o = OptionNames /\ \A name \in OptionNames : SaneValue(name, o[name])
  BY SaneFields
<1>2. DOMAIN Usual = OptionNames
  BY UsualSane
<1>3. CASE o = Usual
  BY <1>2, <1>3, UsualSane
<1>4. CASE o # Usual
  <2>1. PICK a \in OptionNames, b \in OptionNames :
            o \in {[Usual EXCEPT ![a] = x, ![b] = y] : x \in Unusual[a], y \in Unusual[b]}
    BY <1>2, <1>4 DEF Options
  <2>2. PICK x \in Unusual[a], y \in Unusual[b] : o = [Usual EXCEPT ![a] = x, ![b] = y]
    BY <2>1
  <2>3. SaneValue(a, x) /\ SaneValue(b, y)
    BY UnusualSane
  <2>4. \A name \in OptionNames : o[name] = IF name = b THEN y ELSE IF name = a THEN x ELSE Usual[name]
    BY <1>2, <2>2
  <2>5. DOMAIN o = OptionNames
    BY <1>2, <2>2
  <2>6. QED
    BY <2>3, <2>4, <2>5, UsualSane
<1>5. QED
  BY <1>3, <1>4

-----------------------------------------------------------------------------
(* The panel reads its own links.                                          *)

LEMMA LinkedApt == Typed /\ AptInv /\ Linked => stored \in Inbound /\ Apt(stored) /\ stored.protocol \in Transports
BY StoredTyped DEF AptInv, Linked, CanEnableStream

\* The panel reads what it writes: whatever the options are, the link of an inbound that the
\* forms can store is read as an outbound that connects to it.
THEOREM EveryLinkRead ==
    Spec => [](Linked => \A o : Sane(o) => Unreadable(stored, o) \/ ReadBack(stored, o))
<1>1. Typed /\ AptInv => (Linked => \A o : Sane(o) => Unreadable(stored, o) \/ ReadBack(stored, o))
  BY LinkedApt, PanelLinkRead
<1>2. QED
  BY <1>1, TypedAlways, AptAlways, PTL

\* In particular for the options that the run tries: genLink (inbound.js) and fromLink
\* (outbound.js) agree on every key and every default.
THEOREM LinksAreRead == Spec => []PanelReadsItsLinks
<1>1. (Linked => \A o : Sane(o) => Unreadable(stored, o) \/ ReadBack(stored, o)) => PanelReadsItsLinks
  BY OptionsSane DEF PanelReadsItsLinks
<1>2. QED
  BY <1>1, EveryLinkRead, PTL

-----------------------------------------------------------------------------
(* The subscription's links of VLESS, Trojan and shadowsocks.              *)

LEMMA SubTransportKeys ==
    ASSUME NEW ib \in Inbound, NEW o
    PROVE  DOMAIN SubTransport(ib, o) \subseteq TransportKeys
BY DEF SubTransport, TransportKeys, When, NoParams, ++

LEMMA SubSecretKeys ==
    ASSUME NEW ib \in Inbound, NEW o, NEW name, NEW id
    PROVE  DOMAIN SubSecret(ib, o, name, id) \subseteq SecretKeys \ {"security"}
<1>1. DOMAIN SubTls(o) \subseteq SecretKeys \ {"security"}
  BY DEF SubTls, SecretKeys, Given, Only, NoParams, ++
<1>2. DOMAIN SubReality(o, name, id) \subseteq SecretKeys \ {"security"}
  BY DEF SubReality, SecretKeys, Given, Only, NoParams, ++
<1>3. DOMAIN Given("flow", ib.flow) \subseteq SecretKeys \ {"security"}
  BY DEF SecretKeys, Given, Only, NoParams
<1>4. QED
  BY <1>1, <1>2, <1>3 DEF SubSecret, SecretKeys, When, NoParams, ++

LEMMA LookStripped ==
    ASSUME NEW f, NEW force, NEW key, NEW default
    PROVE  Look(Stripped(f, force), key, default)
             = IF force = "none" /\ key \in {"alpn", "sni", "fp"} THEN default ELSE Look(f, key, default)
BY DEF Look, Stripped

LEMMA SubLook ==
    ASSUME NEW ib \in Inbound, NEW o, NEW force, NEW name, NEW id, NEW key, NEW default
    PROVE  LET params == SubParams(ib, o, force, name, id) IN
           /\ Look(params, "type", default) = ib.network
           /\ Look(params, "security", default) = Forced(ib, force)
           /\ Look(params, "encryption", default) = IF ib.protocol = "vless" THEN o.encryption ELSE default
           /\ key \in TransportKeys => Look(params, key, default) = Look(SubTransport(ib, o), key, default)
           /\ key \in SecretKeys \ {"security"} =>
                Look(params, key, default)
                  = IF force = "none" /\ key \in {"alpn", "sni", "fp"} THEN default
                    ELSE Look(SubSecret(ib, o, name, id), key, default)
<1> DEFINE s == [security |-> Forced(ib, force)]
           a == [type |-> ib.network]
           b == When(ib.protocol = "vless", [encryption |-> o.encryption])
           c == SubTransport(ib, o)
           d == SubSecret(ib, o, name, id)
           p == a ++ b ++ c ++ d
<1>1. SubParams(ib, o, force, name, id) = s ++ Stripped(p, force)
  BY DEF SubParams, SubSecret
<1>2. /\ DOMAIN a = {"type"} /\ a["type"] = ib.network /\ DOMAIN b \subseteq {"encryption"}
      /\ DOMAIN s = {"security"} /\ s["security"] = Forced(ib, force)
  BY DEF When, NoParams
<1>3. \A default2 : Look(b, "encryption", default2) = IF ib.protocol = "vless" THEN o.encryption ELSE default2
  BY DEF When, NoParams, Look
<1>4. DOMAIN c \subseteq TransportKeys /\ DOMAIN d \subseteq SecretKeys \ {"security"}
  BY SubTransportKeys, SubSecretKeys
<1> HIDE DEF a, b, c, d, s
<1>5. \A k : Look(p, k, default) = Look(a, k, Look(b, k, Look(c, k, Look(d, k, default))))
  BY LookJoined
<1> HIDE DEF p
<1>6. \A k : Look(s ++ Stripped(p, force), k, default)
               = IF k = "security" THEN Forced(ib, force)
                 ELSE IF force = "none" /\ k \in {"alpn", "sni", "fp"} THEN default ELSE Look(p, k, default)
  <2> TAKE k
  <2>1. Look(s ++ Stripped(p, force), k, default) = Look(s, k, Look(Stripped(p, force), k, default))
    BY LookJoined
  <2>2. \A v : Look(s, k, v) = IF k = "security" THEN Forced(ib, force) ELSE v
    BY <1>2 DEF Look
  <2>3. Look(Stripped(p, force), k, default)
          = IF force = "none" /\ k \in {"alpn", "sni", "fp"} THEN default ELSE Look(p, k, default)
    BY LookStripped
  <2>4. QED
    BY <2>1, <2>2, <2>3
<1>7. Look(p, "type", default) = ib.network
  BY <1>2, <1>5 DEF Look
<1>8. Look(p, "encryption", default) = IF ib.protocol = "vless" THEN o.encryption ELSE default
  <2>1. "encryption" \notin DOMAIN a /\ "encryption" \notin DOMAIN c /\ "encryption" \notin DOMAIN d
    BY <1>2, <1>4 DEF TransportKeys, SecretKeys
  <2>2. QED
    BY <1>3, <1>5, <2>1 DEF Look
<1>9. key \in TransportKeys => Look(p, key, default) = Look(c, key, default)
  <2>1. key \in TransportKeys => key \notin DOMAIN a /\ key \notin DOMAIN b /\ key \notin DOMAIN d
    BY <1>2, <1>4 DEF TransportKeys, SecretKeys
  <2>2. QED
    BY <1>5, <2>1 DEF Look
<1>10. key \in SecretKeys => Look(p, key, default) = Look(d, key, default)
  <2>1. key \in SecretKeys => key \notin DOMAIN a /\ key \notin DOMAIN b /\ key \notin DOMAIN c
    BY <1>2, <1>4 DEF TransportKeys, SecretKeys
  <2>2. QED
    BY <1>5, <2>1 DEF Look
<1> DEFINE q == SubParams(ib, o, force, name, id)
<1>11. Look(q, "type", default) = ib.network
  BY <1>1, <1>6, <1>7
<1>12. Look(q, "security", default) = Forced(ib, force)
  BY <1>1, <1>6
<1>13. Look(q, "encryption", default) = IF ib.protocol = "vless" THEN o.encryption ELSE default
  BY <1>1, <1>6, <1>8
<1>14. key \in TransportKeys => Look(q, key, default) = Look(c, key, default)
  <2>1. key \in TransportKeys => key \notin {"security", "alpn", "sni", "fp"}
    BY DEF TransportKeys
  <2>2. QED
    BY <1>1, <1>6, <1>9, <2>1
<1>15. key \in SecretKeys \ {"security"} =>
         Look(q, key, default) = IF force = "none" /\ key \in {"alpn", "sni", "fp"} THEN default
                                 ELSE Look(d, key, default)
  BY <1>1, <1>6, <1>10
<1>16. QED
  BY <1>11, <1>12, <1>13, <1>14, <1>15 DEF c, d

LEMMA OnePath ==
    ASSUME NEW o, Sane(o), ~(Len(o.paths) > 1)
    PROVE  <<o.paths[1]>> = o.paths
<1> DEFINE S == {"/", "/p"}
           s == o.paths
<1>1. s \in Seq(S) /\ s # << >> /\ ~(Len(s) > 1)
  BY DEF Sane
<1> HIDE DEF S, s
<1>2. Len(s) \in Nat /\ Len(s) > 0
  BY <1>1
<1>3. \A n \in Nat : n > 0 /\ ~(n > 1) => n = 1
  OBVIOUS
<1>4. ~(Len(s) > 1)
  BY <1>1
<1>5. Len(s) = 1
  BY <1>2, <1>3, <1>4
<1>6. <<s[1]>> = s
  BY <1>1, <1>5
<1>7. QED
  BY <1>6 DEF s

\* The two agree on the transport, when there is one path.
LEMMA SubTransportSame ==
    ASSUME NEW ib \in Inbound, NEW o, Sane(o),
           ~(ib.network = "tcp" /\ o.header = "http" /\ Len(o.paths) > 1)
    PROVE  SubTransport(ib, o) = PanelTransport(ib, o)
<1>1. CASE ib.network = "tcp" /\ o.header = "http"
  <2>1. ~(Len(o.paths) > 1)
    BY <1>1
  <2>2. <<o.paths[1]>> = o.paths
    BY <2>1, OnePath
  <2>3. QED
    BY <1>1, <2>2 DEF SubTransport, PanelTransport
<1>2. CASE ib.network = "tcp" /\ o.header # "http"
  BY <1>2 DEF SubTransport, PanelTransport, When
<1>3. CASE ib.network # "tcp"
  BY <1>3 DEF SubTransport, PanelTransport
<1>4. QED
  BY <1>1, <1>2, <1>3

\* SameLink leaves spiderX out.
Unspx(secret) == [k \in DOMAIN secret \ {"spx"} |-> secret[k]]

LEMMA UnspxReality ==
    ASSUME NEW fp, NEW sni, NEW sid, NEW spx, NEW pqv
    PROVE  Unspx([pbk |-> "key", fp |-> fp, sni |-> sni, sid |-> sid, spx |-> spx, pqv |-> pqv])
             = [pbk |-> "key", fp |-> fp, sni |-> sni, sid |-> sid, pqv |-> pqv]
BY DEF Unspx

\* ECH, which the subscription leaves out, is not used.
NoEch(ib, o) == ib.security = "tls" => o.ech = ""

LEMMA SubTlsLook ==
    ASSUME NEW o, NEW default
    PROVE  /\ Look(SubTls(o), "fp", default) = o.fp /\ Look(SubTls(o), "sni", default) = o.sni
           /\ Look(SubTls(o), "alpn", "") = o.alpn
           /\ \A key \in {"ech", "flow"} : Look(SubTls(o), key, default) = default
BY DEF SubTls, Look, Given, Only, NoParams, ++

LEMMA SubRealityLook ==
    ASSUME NEW o, NEW default
    PROVE  LET f == SubReality(o, o.names[1], o.ids[1]) IN
           /\ Look(f, "pbk", default) = "key" /\ Look(f, "sni", default) = o.names[1]
           /\ Look(f, "sid", default) = o.ids[1]
           /\ Look(f, "fp", "") = o.fp /\ Look(f, "pqv", "") = o.pqv
           /\ Look(f, "flow", default) = default
BY DEF SubReality, Look, Given, Only, NoParams, ++

\* The security part of the subscription's link is read as the inbound's.
LEMMA SubSecretRead ==
    ASSUME NEW ib \in Inbound, NEW o, Apt(ib), NoEch(ib, o)
    PROVE  LET f == SubSecret(ib, o, o.names[1], o.ids[1]) IN
           /\ Unspx(SecretOf(f, ib.security)) = Unspx(WantedSecret(ib, o))
           /\ ib.protocol = "vless" =>
                Look(f, "flow", "") = IF ib.network = "tcp" /\ ib.security # "none" THEN ib.flow ELSE ""
<1> DEFINE f == SubSecret(ib, o, o.names[1], o.ids[1])
           flow == When(ib.network = "tcp", Given("flow", ib.flow))
<1>1. /\ \A key, default : key # "flow" => Look(flow, key, default) = default
      /\ Look(flow, "flow", "") = IF ib.network = "tcp" THEN ib.flow ELSE ""
  BY DEF When, Look, Given, Only, NoParams
<1>3. CASE ib.security = "tls"
  <2> DEFINE e == When(ib.protocol = "vless", flow)
  <2>1. f = SubTls(o) ++ e
    BY <1>3 DEF SubSecret
  <2>2. \A key, default : key # "flow" => Look(e, key, default) = default
    <3>1. CASE ib.protocol = "vless"
      BY <1>1, <3>1 DEF When
    <3>2. CASE ib.protocol # "vless"
      BY <3>2 DEF When, NoParams, Look
    <3>3. QED
      BY <3>1, <3>2
  <2>3. ib.protocol = "vless" => e = flow
    BY DEF When
  <2> HIDE DEF f, flow, e
  <2>4. \A key, default : Look(f, key, default) = Look(SubTls(o), key, Look(e, key, default))
    BY <2>1, LookJoined
  <2>5. \A key \in {"sni", "alpn", "fp", "ech"} : \A default : Look(f, key, default) = Look(SubTls(o), key, default)
    <3> TAKE key \in {"sni", "alpn", "fp", "ech"}
    <3> TAKE default
    <3>1. Look(f, key, default) = Look(SubTls(o), key, Look(e, key, default))
      BY <2>4
    <3>2. Look(e, key, default) = default
      BY <2>2
    <3>3. QED
      BY <3>1, <3>2
  <2>6. Look(f, "flow", "") = Look(e, "flow", "")
    <3>1. \A default : Look(f, "flow", default) = Look(SubTls(o), "flow", Look(e, "flow", default))
      BY <2>4
    <3>2. \A default : Look(SubTls(o), "flow", default) = default
      BY SubTlsLook
    <3>3. QED
      BY <3>1, <3>2
  <2>7. /\ Look(f, "sni", "") = o.sni /\ Look(f, "alpn", "") = o.alpn /\ Look(f, "fp", "none") = o.fp
        /\ Look(f, "ech", "") = ""
    <3>1. \A default : /\ Look(SubTls(o), "sni", default) = o.sni /\ Look(SubTls(o), "fp", default) = o.fp
                       /\ Look(SubTls(o), "ech", default) = default
      BY SubTlsLook
    <3>2. Look(SubTls(o), "alpn", "") = o.alpn
      BY SubTlsLook
    <3>3. QED
      BY <2>5, <3>1, <3>2
  <2>8. SecretOf(f, ib.security) = WantedSecret(ib, o)
    <3>1. o.ech = ""
      BY <1>3 DEF NoEch
    <3>2. QED
      BY <1>3, <2>7, <3>1 DEF SecretOf, WantedSecret
  <2>9. ib.protocol = "vless" =>
          Look(f, "flow", "") = IF ib.network = "tcp" /\ ib.security # "none" THEN ib.flow ELSE ""
    BY <1>1, <1>3, <2>3, <2>6
  <2>10. QED
    BY <2>8, <2>9 DEF f
<1>4. CASE ib.security = "reality"
  <2> DEFINE r == SubReality(o, o.names[1], o.ids[1])
  <2>1. ib.protocol # "shadowsocks"
    BY <1>4 DEF Apt
  <2>2. f = r ++ flow
    BY <1>4, <2>1 DEF SubSecret
  <2>3. /\ Look(r, "pbk", "") = "key" /\ Look(r, "fp", "") = o.fp /\ Look(r, "sni", "") = o.names[1]
        /\ Look(r, "sid", "") = o.ids[1] /\ Look(r, "pqv", "") = o.pqv
    BY SubRealityLook
  <2>4. \A default : Look(r, "flow", default) = default
    BY SubRealityLook
  <2> HIDE DEF f, flow, r
  <2>5. \A key, default : Look(f, key, default) = Look(r, key, Look(flow, key, default))
    BY <2>2, LookJoined
  <2>6. \A key \in {"pbk", "fp", "sni", "sid", "pqv"} : \A default : Look(f, key, default) = Look(r, key, default)
    <3> TAKE key \in {"pbk", "fp", "sni", "sid", "pqv"}
    <3> TAKE default
    <3>1. Look(f, key, default) = Look(r, key, Look(flow, key, default))
      BY <2>5
    <3>2. Look(flow, key, default) = default
      BY <1>1
    <3>3. QED
      BY <3>1, <3>2
  <2>7. Look(f, "flow", "") = Look(flow, "flow", "")
    <3>1. \A default : Look(f, "flow", default) = Look(r, "flow", Look(flow, "flow", default))
      BY <2>5
    <3>2. QED
      BY <2>4, <3>1
  <2>8. /\ Look(f, "pbk", "") = "key" /\ Look(f, "fp", "") = o.fp /\ Look(f, "sni", "") = o.names[1]
        /\ Look(f, "sid", "") = o.ids[1] /\ Look(f, "pqv", "") = o.pqv
    BY <2>3, <2>6
  <2>9. SecretOf(f, ib.security) = [pbk |-> "key", fp |-> o.fp, sni |-> o.names[1], sid |-> o.ids[1],
                                    spx |-> Look(f, "spx", ""), pqv |-> o.pqv]
    BY <1>4, <2>8 DEF SecretOf
  <2>10. WantedSecret(ib, o) = [pbk |-> "key", fp |-> o.fp, sni |-> o.names[1], sid |-> o.ids[1],
                                spx |-> o.spx, pqv |-> o.pqv]
    BY <1>4 DEF WantedSecret
  <2>11. Unspx(SecretOf(f, ib.security)) = Unspx(WantedSecret(ib, o))
    <3>1. \A spx : Unspx([pbk |-> "key", fp |-> o.fp, sni |-> o.names[1], sid |-> o.ids[1],
                          spx |-> spx, pqv |-> o.pqv])
                    = [pbk |-> "key", fp |-> o.fp, sni |-> o.names[1], sid |-> o.ids[1], pqv |-> o.pqv]
      BY UnspxReality
    <3>2. QED
      BY <2>9, <2>10, <3>1
  <2>12. Look(f, "flow", "") = IF ib.network = "tcp" /\ ib.security # "none" THEN ib.flow ELSE ""
    BY <1>1, <1>4, <2>7
  <2>13. QED
    BY <2>11, <2>12 DEF f
<1>5. CASE ib.security = "none"
  <2>1. f = NoParams
    BY <1>5 DEF SubSecret
  <2> HIDE DEF f
  <2>2. Look(f, "flow", "") = ""
    BY <2>1 DEF NoParams, Look
  <2>3. SecretOf(f, ib.security) = WantedSecret(ib, o)
    BY <1>5 DEF SecretOf, WantedSecret
  <2>4. QED
    BY <1>5, <2>2, <2>3 DEF f
<1>6. QED
  BY <1>3, <1>4, <1>5 DEF Inbound, Securities

\* What Different leaves for an endpoint with this override of the security.
InStep(ib, o, force) ==
    /\ force \in {"same", "tls", "none"}
    /\ ib.network = "kcp" => ib.protocol = "vmess"
    /\ ib.protocol # "vmess" => NoEch(ib, o)
    /\ ~(ib.network = "tcp" /\ o.header = "http" /\ Len(o.paths) > 1)
    /\ ib.protocol = "vmess" /\ ib.network = "xhttp" => o.mode = "auto"
    /\ force = "none" => ib.flow = ""
    /\ force = "tls" => ib.security # "reality"
    /\ force = "tls" /\ ib.protocol = "vmess" => ib.security # "none"

\* What both generators make of the security and the flow is read alike.
SecretsAgree(ib, o, force) ==
    LET a == PanelSecret(ib, o, force)
        b == SubParams(ib, o, force, o.names[1], o.ids[1])
    IN  /\ Look(a, "security", "none") = Forced(ib, force)
        /\ Unspx(SecretOf(a, Forced(ib, force))) = Unspx(SecretOf(b, Forced(ib, force)))
        /\ ib.protocol = "vless" => Look(a, "flow", "") = Look(b, "flow", "")

LEMMA SubFlow ==
    ASSUME NEW ib \in Inbound, NEW o, NEW force
    PROVE  Look(SubParams(ib, o, force, o.names[1], o.ids[1]), "flow", "")
             = Look(SubSecret(ib, o, o.names[1], o.ids[1]), "flow", "")
<1> DEFINE b == SubParams(ib, o, force, o.names[1], o.ids[1])
           d == SubSecret(ib, o, o.names[1], o.ids[1])
<1>1. \A key \in SecretKeys \ {"security"} : \A default :
          Look(b, key, default) = IF force = "none" /\ key \in {"alpn", "sni", "fp"} THEN default
                                  ELSE Look(d, key, default)
  <2> TAKE key \in SecretKeys \ {"security"}
  <2> TAKE default
  <2> QED
    BY SubLook
<1> HIDE DEF b, d
<1>2. \A default : Look(b, "flow", default) = Look(d, "flow", default)
  BY <1>1 DEF SecretKeys
<1>3. QED
  BY <1>2 DEF b, d

LEMMA SubSecretKept ==
    ASSUME NEW ib \in Inbound, NEW o, NEW force, force # "none"
    PROVE  \A key \in SecretKeys \ {"security"} : \A default :
               Look(SubParams(ib, o, force, o.names[1], o.ids[1]), key, default)
                 = Look(SubSecret(ib, o, o.names[1], o.ids[1]), key, default)
<1> TAKE key \in SecretKeys \ {"security"}
<1> TAKE default
<1> QED
  BY SubLook

\* No override, or one that changes nothing.
LEMMA SecretsSame ==
    ASSUME NEW ib \in Inbound, NEW o, NEW force, Apt(ib), NoEch(ib, o), Forced(ib, force) = ib.security
    PROVE  SecretsAgree(ib, o, force)
<1> DEFINE a == PanelSecret(ib, o, force)
           b == SubParams(ib, o, force, o.names[1], o.ids[1])
           d == SubSecret(ib, o, o.names[1], o.ids[1])
<1>1. a = PanelSecret(ib, o, "same")
  BY DEF PanelSecret, Forced
<1>2. /\ Look(a, "security", "none") = ib.security
      /\ SecretOf(a, ib.security) = WantedSecret(ib, o)
      /\ ib.protocol = "vless" =>
           Look(a, "flow", "") = IF ib.network = "tcp" /\ ib.security # "none" THEN ib.flow ELSE ""
  BY <1>1, PanelSecretRead
<1>3. /\ Unspx(SecretOf(d, ib.security)) = Unspx(WantedSecret(ib, o))
      /\ ib.protocol = "vless" =>
           Look(d, "flow", "") = IF ib.network = "tcp" /\ ib.security # "none" THEN ib.flow ELSE ""
  BY SubSecretRead
<1>4. Look(b, "flow", "") = Look(d, "flow", "")
  BY SubFlow
<1>5. SecretOf(b, ib.security) = SecretOf(d, ib.security)
  <2>1. CASE force # "none"
    <3>1. \A key \in SecretKeys \ {"security"} : \A default : Look(b, key, default) = Look(d, key, default)
      <4> TAKE key \in SecretKeys \ {"security"}
      <4> TAKE default
      <4> HIDE DEF a
      <4> QED
        BY <2>1, SubLook
    <3> HIDE DEF b, d
    <3>2. QED
      BY <3>1, SecretFrom
  <2>2. CASE force = "none"
    <3>1. ib.security = "none"
      BY <2>2 DEF Forced
    <3>2. QED
      BY <3>1 DEF SecretOf
  <2>3. QED
    BY <2>1, <2>2
<1> HIDE DEF a, b, d
<1>6. QED
  BY <1>2, <1>3, <1>4, <1>5 DEF SecretsAgree, a, b

\* An external proxy without TLS before an inbound with it.
LEMMA SecretsStripped ==
    ASSUME NEW ib \in Inbound, NEW o, Apt(ib), NoEch(ib, o), ib.flow = ""
    PROVE  SecretsAgree(ib, o, "none")
<1> DEFINE a == PanelSecret(ib, o, "none")
           b == SubParams(ib, o, "none", o.names[1], o.ids[1])
           d == SubSecret(ib, o, o.names[1], o.ids[1])
<1>1. Forced(ib, "none") = "none"
  BY DEF Forced
<1>2. a = When(ib.protocol # "shadowsocks", [security |-> "none"])
  BY <1>1 DEF PanelSecret
<1>3. Look(a, "security", "none") = "none" /\ Look(a, "flow", "") = ""
  <2>1. CASE ib.protocol = "shadowsocks"
    BY <1>2, <2>1 DEF When, NoParams, Look
  <2>2. CASE ib.protocol # "shadowsocks"
    <3>1. a = [security |-> "none"]
      BY <1>2, <2>2 DEF When
    <3> HIDE DEF a
    <3>2. Look(a, "security", "none") = "none"
      BY <3>1 DEF Look
    <3>3. Look(a, "flow", "") = ""
      BY <3>1 DEF Look
    <3>4. QED
      BY <3>2, <3>3
  <2>3. QED
    BY <2>1, <2>2
<1>4. ib.protocol = "vless" =>
        Look(d, "flow", "") = IF ib.network = "tcp" /\ ib.security # "none" THEN ib.flow ELSE ""
  BY SubSecretRead
<1>5. Look(b, "flow", "") = Look(d, "flow", "")
  BY SubFlow
<1>6. SecretOf(a, "none") = NoParams /\ SecretOf(b, "none") = NoParams
  BY DEF SecretOf
<1> HIDE DEF a, b, d
<1>7. ib.protocol = "vless" => Look(d, "flow", "") = ""
  BY <1>4
<1>8. QED
  BY <1>1, <1>3, <1>5, <1>6, <1>7 DEF SecretsAgree, a, b

\* An external proxy with TLS before an inbound without it.
LEMMA SecretsForced ==
    ASSUME NEW ib \in Inbound, NEW o, ib.security = "none"
    PROVE  SecretsAgree(ib, o, "tls")
<1> DEFINE a == PanelSecret(ib, o, "tls")
           b == SubParams(ib, o, "tls", o.names[1], o.ids[1])
           d == SubSecret(ib, o, o.names[1], o.ids[1])
<1>1. Forced(ib, "tls") = "tls"
  BY DEF Forced
<1>2. a = [security |-> "tls"] ++ NoParams
  BY <1>1 DEF PanelSecret, When
<1>3. d = NoParams
  BY DEF SubSecret
<1> HIDE DEF a, d
<1>4. Look(a, "security", "none") = "tls"
  BY <1>2 DEF ++, Look
<1>5. \A key \in SecretKeys \ {"security"} : \A default : Look(a, key, default) = Look(d, key, default)
  BY <1>2, <1>3 DEF ++, Look, NoParams
<1>6. \A key \in SecretKeys \ {"security"} : \A default : Look(b, key, default) = Look(d, key, default)
  BY SubSecretKept DEF d
<1>7. Look(b, "flow", "") = Look(d, "flow", "")
  BY SubFlow DEF d
<1>8. Look(a, "flow", "") = Look(d, "flow", "")
  <2>1. \A default : Look(a, "flow", default) = Look(d, "flow", default)
    BY <1>5 DEF SecretKeys
  <2>2. QED
    BY <2>1
<1>9. SecretOf(a, "tls") = SecretOf(d, "tls")
  BY <1>5, SecretFrom
<1> HIDE DEF b
<1>10. SecretOf(b, "tls") = SecretOf(d, "tls")
  BY <1>6, SecretFrom
<1>11. QED
  BY <1>1, <1>4, <1>7, <1>8, <1>9, <1>10 DEF SecretsAgree, a, b

LEMMA SecretsInStep ==
    ASSUME NEW ib \in Inbound, NEW o, NEW force, Apt(ib), InStep(ib, o, force), ib.protocol # "vmess"
    PROVE  SecretsAgree(ib, o, force)
<1>1. NoEch(ib, o)
  BY DEF InStep
<1>2. CASE Forced(ib, force) = ib.security
  BY <1>1, <1>2, SecretsSame
<1>3. CASE force = "none"
  <2>1. ib.flow = ""
    BY <1>3 DEF InStep
  <2>2. QED
    BY <1>1, <1>3, <2>1, SecretsStripped
<1>4. CASE force = "tls" /\ ib.security = "none"
  BY <1>4, SecretsForced
<1>5. Forced(ib, force) = ib.security \/ force = "none" \/ (force = "tls" /\ ib.security = "none")
  BY DEF InStep, Forced, Inbound, Securities
<1>6. QED
  BY <1>2, <1>3, <1>4, <1>5

\* An outbound with a given secret.
LEMMA SameOutbound ==
    ASSUME NEW a, NEW b, a.scheme # "hysteria",
           NEW protocol, NEW user, NEW address, NEW network, NEW security, NEW flow, NEW encryption,
           NEW transport, NEW s, NEW t, Unspx(s) = Unspx(t),
           Import(a) = [protocol |-> protocol, user |-> user, address |-> address, network |-> network,
                        security |-> security, flow |-> flow, encryption |-> encryption,
                        transport |-> transport, secret |-> s],
           Import(b) = [protocol |-> protocol, user |-> user, address |-> address, network |-> network,
                        security |-> security, flow |-> flow, encryption |-> encryption,
                        transport |-> transport, secret |-> t]
    PROVE  SameLink(a, b)
<1>1. [Import(a) EXCEPT !.secret = Unspx(s)] = [Import(b) EXCEPT !.secret = Unspx(t)]
  OBVIOUS
<1>2. Import(a).secret = s /\ Import(b).secret = t
  OBVIOUS
<1>3. [Import(a) EXCEPT !.secret = [k \in DOMAIN @ \ {"spx"} |-> @[k]]] = [Import(a) EXCEPT !.secret = Unspx(s)]
  BY <1>2 DEF Unspx
<1>4. [Import(b) EXCEPT !.secret = [k \in DOMAIN @ \ {"spx"} |-> @[k]]] = [Import(b) EXCEPT !.secret = Unspx(t)]
  BY <1>2 DEF Unspx
<1>5. QED
  BY <1>1, <1>3, <1>4 DEF SameLink

\* genLink and getLink for VLESS, Trojan and shadowsocks.
LEMMA ParamsSynced ==
    ASSUME NEW ib \in Inbound, NEW o, NEW ep, Apt(ib), Sane(o), InStep(ib, o, ep.force),
           ib.protocol \notin {"vmess", "hysteria"}, o.proxies = {} => o.listen # "::0"
    PROVE  SameLink(PanelLink(ib, o, ep), SubLink(ib, o, ep, o.names[1], o.ids[1]))
<1> DEFINE force == ep.force
           a == PanelLink(ib, o, ep)
           b == SubLink(ib, o, ep, o.names[1], o.ids[1])
           p == PanelParams(ib, o, force)
           q == SubParams(ib, o, force, o.names[1], o.ids[1])
           n == ib.network
           z == Forced(ib, force)
           user == PanelUser(ib, o)
<1>1. a = [scheme |-> ib.protocol, user |-> user, address |-> ep.address, params |-> p]
  BY DEF PanelLink
<1>2. b = [scheme |-> ib.protocol, user |-> user, address |-> ep.address, params |-> q]
  BY DEF SubLink, SubAddress, InStep
<1>3. \A default : /\ Look(p, "type", default) = n
                   /\ Look(p, "encryption", default) = IF ib.protocol = "vless" THEN o.encryption ELSE default
  BY PanelLook
<1>4. \A default : /\ Look(q, "type", default) = n /\ Look(q, "security", default) = z
                   /\ Look(q, "encryption", default) = IF ib.protocol = "vless" THEN o.encryption ELSE default
  BY SubLook
<1>5. \A key \in SecretKeys : \A default : Look(p, key, default) = Look(PanelSecret(ib, o, force), key, default)
  <2> TAKE key \in SecretKeys
  <2> TAKE default
  <2> QED
    BY PanelLook
<1>6. TransportOf(p, n) = TransportOf(q, n)
  <2>1. SubTransport(ib, o) = PanelTransport(ib, o)
    BY SubTransportSame DEF InStep
  <2>2. \A key \in TransportKeys : \A default : Look(p, key, default) = Look(PanelTransport(ib, o), key, default)
    <3> TAKE key \in TransportKeys
    <3> TAKE default
    <3> QED
      BY PanelLook
  <2>3. \A key \in TransportKeys : \A default : Look(q, key, default) = Look(SubTransport(ib, o), key, default)
    <3> TAKE key \in TransportKeys
    <3> TAKE default
    <3> QED
      BY SubLook
  <2> HIDE DEF p, q
  <2>4. \A key \in TransportKeys : \A default : Look(p, key, default) = Look(q, key, default)
    BY <2>1, <2>2, <2>3
  <2>5. QED
    BY <2>4, TransportFrom
<1>7. SecretsAgree(ib, o, force)
  BY SecretsInStep
<1>8. /\ Look(PanelSecret(ib, o, force), "security", "none") = z
      /\ Unspx(SecretOf(PanelSecret(ib, o, force), z)) = Unspx(SecretOf(q, z))
      /\ ib.protocol = "vless" => Look(PanelSecret(ib, o, force), "flow", "") = Look(q, "flow", "")
  BY <1>7 DEF SecretsAgree
<1> DEFINE c == PanelSecret(ib, o, force)
<1> HIDE DEF a, b, c, p, q, n, z, user
<1>9. SecretOf(p, z) = SecretOf(c, z)
  BY <1>5, SecretFrom DEF c
<1>10. Look(p, "security", "none") = z
  <2>1. \A default : Look(p, "security", default) = Look(c, "security", default)
    BY <1>5 DEF SecretKeys, c
  <2>2. QED
    BY <1>8, <2>1 DEF c
<1>11. ib.protocol = "vless" => Look(p, "flow", "") = Look(q, "flow", "")
  <2>1. \A default : Look(p, "flow", default) = Look(c, "flow", default)
    BY <1>5 DEF SecretKeys, c
  <2>2. QED
    BY <1>8, <2>1 DEF c
<1>12. Import(a) = ImportParams(a) /\ Import(b) = ImportParams(b)
  BY <1>1, <1>2 DEF Import
<1> DEFINE flow == IF ib.protocol = "vless" THEN Look(q, "flow", "") ELSE ""
           encryption == IF ib.protocol = "vless" THEN o.encryption ELSE ""
<1>13. Import(a) =
         [protocol |-> ib.protocol, user |-> user, address |-> ep.address, network |-> n,
          security |-> z, flow |-> flow, encryption |-> encryption,
          transport |-> TransportOf(q, n), secret |-> SecretOf(p, z)]
  <2>1. ImportParams(a) =
          [protocol |-> ib.protocol, user |-> user, address |-> ep.address,
           network |-> Look(p, "type", "tcp"), security |-> Look(p, "security", "none"),
           flow |-> IF ib.protocol = "vless" THEN Look(p, "flow", "") ELSE "",
           encryption |-> IF ib.protocol = "vless" THEN Look(p, "encryption", "none") ELSE "",
           transport |-> TransportOf(p, Look(p, "type", "tcp")),
           secret |-> SecretOf(p, Look(p, "security", "none"))]
    BY <1>1, ImportedParams
  <2>2. Look(p, "type", "tcp") = n
    BY <1>3
  <2>3. (IF ib.protocol = "vless" THEN Look(p, "encryption", "none") ELSE "") = encryption
    BY <1>3
  <2>4. (IF ib.protocol = "vless" THEN Look(p, "flow", "") ELSE "") = flow
    BY <1>11
  <2>5. QED
    BY <1>6, <1>10, <1>12, <2>1, <2>2, <2>3, <2>4
<1>14. Import(b) =
         [protocol |-> ib.protocol, user |-> user, address |-> ep.address, network |-> n,
          security |-> z, flow |-> flow, encryption |-> encryption,
          transport |-> TransportOf(q, n), secret |-> SecretOf(q, z)]
  <2>1. ImportParams(b) =
          [protocol |-> ib.protocol, user |-> user, address |-> ep.address,
           network |-> Look(q, "type", "tcp"), security |-> Look(q, "security", "none"),
           flow |-> IF ib.protocol = "vless" THEN Look(q, "flow", "") ELSE "",
           encryption |-> IF ib.protocol = "vless" THEN Look(q, "encryption", "none") ELSE "",
           transport |-> TransportOf(q, Look(q, "type", "tcp")),
           secret |-> SecretOf(q, Look(q, "security", "none"))]
    BY <1>2, ImportedParams
  <2>2. Look(q, "type", "tcp") = n /\ Look(q, "security", "none") = z
    BY <1>4
  <2>3. (IF ib.protocol = "vless" THEN Look(q, "encryption", "none") ELSE "") = encryption
    BY <1>4
  <2>4. QED
    BY <1>12, <2>1, <2>2, <2>3
<1>15. a.scheme # "hysteria"
  BY <1>1
<1>16. Unspx(SecretOf(p, z)) = Unspx(SecretOf(q, z))
  BY <1>8, <1>9 DEF c
<1> HIDE DEF flow, encryption
<1>17. SameLink(a, b)
  BY <1>13, <1>14, <1>15, <1>16, SameOutbound
<1>18. QED
  BY <1>17 DEF a, b

-----------------------------------------------------------------------------
(* The subscription's links of VMess and hysteria.                         *)

LEMMA SubVmessTransportDomain ==
    ASSUME NEW ib \in Inbound, NEW o
    PROVE  DOMAIN SubVmessTransport(ib, o) \subseteq VmessTransportKeys
BY DEF SubVmessTransport, VmessTransportKeys, When, NoParams, ++

LEMMA SubVmessLook ==
    ASSUME NEW ib \in Inbound, NEW o, NEW force, NEW key, NEW default
    PROVE  LET params == SubVmess(ib, o, force) IN
           /\ Look(params, "net", default) = ib.network
           /\ Look(params, "tls", default) = Forced(ib, force)
           /\ key \in VmessTransportKeys => Look(params, key, default) = Look(SubVmessTransport(ib, o), key, default)
           /\ key \in VmessSecretKeys =>
                Look(params, key, default)
                  = IF force = "none" THEN default
                    ELSE Look(When(ib.security = "tls", SubTls(o)), key, default)
<1> DEFINE a == [net |-> ib.network, tls |-> Forced(ib, force)]
           b == SubVmessTransport(ib, o)
           c == When(ib.security = "tls", SubTls(o))
           p == b ++ c
<1>1. SubVmess(ib, o, force) = a ++ Stripped(p, force)
  BY DEF SubVmess, SubVmessTransport
<1>2. DOMAIN a = {"net", "tls"} /\ a["net"] = ib.network /\ a["tls"] = Forced(ib, force)
  OBVIOUS
<1>3. DOMAIN b \subseteq VmessTransportKeys
  BY SubVmessTransportDomain
<1>4. DOMAIN c \subseteq VmessSecretKeys
  BY DEF When, SubTls, Given, Only, NoParams, ++, VmessSecretKeys
<1> HIDE DEF a, b, c
<1>5. \A k : Look(p, k, default) = Look(b, k, Look(c, k, default))
  BY LookJoined
<1> HIDE DEF p
<1>6. \A k : Look(a ++ Stripped(p, force), k, default) = Look(a, k, Look(Stripped(p, force), k, default))
  BY LookJoined
<1>7. \A k : Look(Stripped(p, force), k, default)
               = IF force = "none" /\ k \in {"alpn", "sni", "fp"} THEN default ELSE Look(p, k, default)
  BY LookStripped
<1> DEFINE q == SubVmess(ib, o, force)
<1>8. Look(q, "net", default) = ib.network /\ Look(q, "tls", default) = Forced(ib, force)
  BY <1>1, <1>2, <1>6 DEF Look
<1>9. key \in VmessTransportKeys => Look(q, key, default) = Look(b, key, default)
  <2>1. key \in VmessTransportKeys =>
            key \notin DOMAIN a /\ key \notin DOMAIN c /\ key \notin {"alpn", "sni", "fp"}
    BY <1>2, <1>4 DEF VmessTransportKeys, VmessSecretKeys
  <2>2. key \in VmessTransportKeys => Look(p, key, default) = Look(b, key, default)
    BY <1>5, <2>1 DEF Look
  <2>3. key \in VmessTransportKeys => Look(q, key, default) = Look(Stripped(p, force), key, default)
    BY <1>1, <1>6, <2>1 DEF Look
  <2>4. QED
    BY <1>7, <2>1, <2>2, <2>3
<1>10. key \in VmessSecretKeys =>
         Look(q, key, default) = IF force = "none" THEN default ELSE Look(c, key, default)
  <2>1. key \in VmessSecretKeys =>
            key \notin DOMAIN a /\ key \notin DOMAIN b /\ key \in {"alpn", "sni", "fp"}
    BY <1>2, <1>3 DEF VmessTransportKeys, VmessSecretKeys
  <2>2. key \in VmessSecretKeys => Look(p, key, default) = Look(c, key, default)
    BY <1>5, <2>1 DEF Look
  <2>3. key \in VmessSecretKeys => Look(q, key, default) = Look(Stripped(p, force), key, default)
    BY <1>1, <1>6, <2>1 DEF Look
  <2>4. QED
    BY <1>7, <2>1, <2>2, <2>3
<1>11. QED
  BY <1>8, <1>9, <1>10 DEF b, c

LEMMA SubVmessTransportRead ==
    ASSUME NEW ib \in Inbound, NEW o, NEW force, Sane(o), InStep(ib, o, force), ib.protocol = "vmess"
    PROVE  TransportOfVmess(SubVmessTransport(ib, o), ib.network) = VmessTransportSeen(ib, o)
<1> DEFINE f == SubVmessTransport(ib, o)
<1>1. CASE ib.network = "tcp"
  <2>1. CASE o.header = "http"
    <3>1. f = [type |-> o.header] ++ [path |-> <<o.paths[1]>>, host |-> o.host]
      BY <1>1, <2>1 DEF SubVmessTransport, When
    <3>2. <<o.paths[1]>> = o.paths
      <4>1. ~(Len(o.paths) > 1)
        BY <1>1, <2>1 DEF InStep
      <4>2. QED
        BY <4>1, OnePath
    <3> HIDE DEF f
    <3>3. Look(f, "type", "") = "http" /\ Look(f, "path", "") = <<o.paths[1]>>
      BY <2>1, <3>1 DEF Look, ++
    <3>4. Look(f, "host", "") = o.host
      BY <3>1 DEF Look, ++
    <3>5. QED
      BY <1>1, <2>1, <3>2, <3>3, <3>4 DEF TransportOfVmess, WantedTransport, VmessTransportSeen, Tcp, f
  <2>2. CASE o.header = "none"
    <3>1. f = [type |-> "none"] ++ NoParams
      BY <1>1, <2>2 DEF SubVmessTransport, When
    <3> HIDE DEF f
    <3>2. Look(f, "type", "") = "none"
      BY <3>1 DEF Look, ++, NoParams
    <3>3. QED
      BY <1>1, <2>2, <3>2 DEF TransportOfVmess, WantedTransport, VmessTransportSeen, Tcp, f
  <2>3. QED
    BY <2>1, <2>2 DEF Sane
<1>2. CASE ib.network \in {"ws", "httpupgrade"}
  <2>1. f = [path |-> o.path, host |-> o.host, type |-> "none"]
    BY <1>2 DEF SubVmessTransport
  <2> HIDE DEF f
  <2>2. Look(f, "path", "") = o.path /\ Look(f, "host", "") = o.host
    BY <2>1 DEF Look
  <2>3. QED
    BY <1>2, <2>2 DEF TransportOfVmess, WantedTransport, VmessTransportSeen, f
<1>3. CASE ib.network = "grpc"
  <2>1. f = [path |-> o.path, authority |-> o.host, type |-> IF o.multi THEN "multi" ELSE "none"]
    BY <1>3 DEF SubVmessTransport
  <2>2. ((IF o.multi THEN "multi" ELSE "none") = "multi") = o.multi
    BY DEF Sane
  <2> HIDE DEF f
  <2>3. Look(f, "path", "") = o.path /\ Look(f, "authority", "") = o.host
    BY <2>1 DEF Look
  <2>4. (Look(f, "type", "") = "multi") = o.multi
    BY <2>1, <2>2 DEF Look
  <2>5. QED
    BY <1>3, <2>3, <2>4 DEF TransportOfVmess, WantedTransport, VmessTransportSeen, f
<1>4. CASE ib.network = "xhttp"
  <2>1. f = [path |-> o.path, host |-> o.host, mode |-> o.mode, type |-> "none",
             x_padding_bytes |-> o.padding]
    BY <1>4 DEF SubVmessTransport
  <2> HIDE DEF f
  <2>2. o.mode = "auto"
    BY <1>4 DEF InStep
  <2>3. Look(f, "path", "") = o.path /\ Look(f, "host", "") = o.host /\ Look(f, "mode", "") = o.mode
    BY <2>1 DEF Look
  <2>4. TransportOfVmess(f, "xhttp") = Xhttp(o.path, o.host, "auto", "default")
    BY <2>2, <2>3 DEF TransportOfVmess
  <2>5. QED
    BY <1>4, <2>4 DEF VmessTransportSeen, f
<1>5. CASE ib.network \notin {"tcp", "ws", "httpupgrade", "grpc", "xhttp"}
  BY <1>5 DEF TransportOfVmess, WantedTransport, VmessTransportSeen
<1>6. QED
  BY <1>1, <1>2, <1>3, <1>4, <1>5

LEMMA VmessSecretsAgree ==
    ASSUME NEW ib \in Inbound, NEW o, NEW force, Apt(ib), InStep(ib, o, force), ib.protocol = "vmess",
           Forced(ib, force) = "tls"
    PROVE  \A key \in VmessSecretKeys :
               Look(PanelVmess(ib, o, force), key, "") = Look(SubVmess(ib, o, force), key, "")
<1>1. ib.security = "tls" /\ force # "none"
  BY DEF InStep, Forced, Apt, Inbound, Securities
<1> DEFINE p == PanelVmess(ib, o, force)
           q == SubVmess(ib, o, force)
           c == Given("sni", o.sni) ++ Given("fp", o.fp) ++ Given("alpn", o.alpn)
           d == SubTls(o)
<1>2. VmessSecret(ib, o, force) = c /\ When(ib.security = "tls", SubTls(o)) = d
  BY <1>1 DEF VmessSecret, When
<1>3. \A key \in VmessSecretKeys : \A default : Look(p, key, default) = Look(c, key, default)
  <2> TAKE key \in VmessSecretKeys
  <2> TAKE default
  <2> QED
    BY <1>2, VmessLook
<1>4. \A key \in VmessSecretKeys : \A default : Look(q, key, default) = Look(d, key, default)
  <2> TAKE key \in VmessSecretKeys
  <2> TAKE default
  <2> HIDE DEF c, d
  <2>1. Look(q, key, default) = Look(When(ib.security = "tls", SubTls(o)), key, default)
    BY <1>1, SubVmessLook
  <2> QED
    BY <1>2, <2>1
<1>5. Look(c, "sni", "") = o.sni /\ Look(c, "fp", "") = o.fp /\ Look(c, "alpn", "") = o.alpn
  BY VmessTlsLook
<1>6. Look(d, "sni", "") = o.sni /\ Look(d, "fp", "") = o.fp /\ Look(d, "alpn", "") = o.alpn
  <2>1. \A default : Look(d, "fp", default) = o.fp /\ Look(d, "sni", default) = o.sni
    BY SubTlsLook
  <2>2. Look(d, "alpn", "") = o.alpn
    BY SubTlsLook
  <2>3. QED
    BY <2>1, <2>2
<1> HIDE DEF p, q, c, d
<1>7. \A key \in VmessSecretKeys : Look(c, key, "") = Look(d, key, "")
  BY <1>5, <1>6 DEF VmessSecretKeys
<1>8. QED
  BY <1>3, <1>4, <1>7 DEF p, q

\* genVmessLink of the panel and of the subscription.
LEMMA VmessSynced ==
    ASSUME NEW ib \in Inbound, NEW o, NEW ep, Apt(ib), Sane(o), InStep(ib, o, ep.force),
           ib.protocol = "vmess", o.proxies = {} => o.listen # "::0"
    PROVE  SameLink(PanelLink(ib, o, ep), SubLink(ib, o, ep, o.names[1], o.ids[1]))
<1> DEFINE force == ep.force
           a == PanelLink(ib, o, ep)
           b == SubLink(ib, o, ep, o.names[1], o.ids[1])
           p == PanelVmess(ib, o, force)
           q == SubVmess(ib, o, force)
           n == ib.network
           z == Forced(ib, force)
           user == PanelUser(ib, o)
           seen == VmessTransportSeen(ib, o)
<1>1. a = [scheme |-> "vmess", user |-> user, address |-> ep.address, params |-> p]
  BY DEF PanelLink
<1>2. b = [scheme |-> "vmess", user |-> user, address |-> ep.address, params |-> q]
  BY DEF SubLink, SubAddress
<1>3. \A default : Look(p, "net", default) = n /\ Look(p, "tls", default) = z
  BY VmessLook
<1>4. \A default : Look(q, "net", default) = n /\ Look(q, "tls", default) = z
  BY SubVmessLook
<1>5. TransportOfVmess(p, n) = seen
  <2>1. \A key \in VmessTransportKeys : \A default : Look(p, key, default) = Look(VmessTransport(ib, o), key, default)
    <3> TAKE key \in VmessTransportKeys
    <3> TAKE default
    <3> QED
      BY VmessLook
  <2> HIDE DEF p
  <2>2. TransportOfVmess(p, n) = TransportOfVmess(VmessTransport(ib, o), n)
    BY <2>1, VmessTransportFrom
  <2>3. QED
    BY <2>2, VmessTransportRead
<1>6. TransportOfVmess(q, n) = seen
  <2>1. \A key \in VmessTransportKeys : \A default : Look(q, key, default) = Look(SubVmessTransport(ib, o), key, default)
    <3> TAKE key \in VmessTransportKeys
    <3> TAKE default
    <3> QED
      BY SubVmessLook
  <2> HIDE DEF q
  <2>2. TransportOfVmess(q, n) = TransportOfVmess(SubVmessTransport(ib, o), n)
    BY <2>1, VmessTransportFrom
  <2>3. QED
    BY <2>2, SubVmessTransportRead
<1>7. SecretOfVmess(p, z) = SecretOfVmess(q, z)
  <2>1. CASE z = "tls"
    <3>1. \A key \in VmessSecretKeys : Look(p, key, "") = Look(q, key, "")
      BY <2>1, VmessSecretsAgree
    <3> HIDE DEF p, q
    <3>2. Look(p, "sni", "") = Look(q, "sni", "")
      BY <3>1 DEF VmessSecretKeys
    <3>3. Look(p, "alpn", "") = Look(q, "alpn", "")
      BY <3>1 DEF VmessSecretKeys
    <3>4. Look(p, "fp", "") = Look(q, "fp", "")
      BY <3>1 DEF VmessSecretKeys
    <3>5. QED
      BY <3>2, <3>3, <3>4 DEF SecretOfVmess
  <2>2. CASE z # "tls"
    BY <2>2 DEF SecretOfVmess
  <2>3. QED
    BY <2>1, <2>2
<1> HIDE DEF a, b, p, q, n, z, user, seen
<1>8. Import(a) = ImportVmess(a) /\ Import(b) = ImportVmess(b)
  BY <1>1, <1>2 DEF Import
<1>9. Import(a) = [protocol |-> "vmess", user |-> user, address |-> ep.address, network |-> n,
                   security |-> z, flow |-> "", encryption |-> "", transport |-> seen,
                   secret |-> SecretOfVmess(p, z)]
  <2>1. Look(p, "net", "") = n /\ Look(p, "tls", "") = z
    BY <1>3
  <2>2. QED
    BY <1>1, <1>5, <1>8, <2>1, ImportedVmess
<1>10. Import(b) = [protocol |-> "vmess", user |-> user, address |-> ep.address, network |-> n,
                    security |-> z, flow |-> "", encryption |-> "", transport |-> seen,
                    secret |-> SecretOfVmess(p, z)]
  <2>1. Look(q, "net", "") = n /\ Look(q, "tls", "") = z
    BY <1>4
  <2>2. QED
    BY <1>2, <1>6, <1>7, <1>8, <2>1, ImportedVmess
<1>11. Import(a) = Import(b) /\ a.scheme = "vmess"
  BY <1>1, <1>9, <1>10
<1>12. SameLink(a, b)
  BY <1>11 DEF SameLink
<1>13. QED
  BY <1>12 DEF a, b

\* genHysteriaLink of the panel and of the subscription.
LEMMA HysteriaParams ==
    ASSUME NEW o, o.ech = "", NEW key
    PROVE  Look(PanelHysteria(o), key, "") = Look(SubHysteria(o), key, "")
<1> DEFINE obfs == When(o.obfs # "", Only("obfs", "salamander") ++ Only("obfs-password", o.obfs))
           p == [security |-> "tls"] ++ Given("fp", o.fp) ++ Given("alpn", o.alpn)
                ++ Given("ech", o.ech) ++ Given("sni", o.sni)
           q == [security |-> "tls", sni |-> o.sni, fp |-> o.fp] ++ Given("alpn", o.alpn)
<1>1. PanelHysteria(o) = p ++ obfs /\ SubHysteria(o) = q ++ obfs
  BY DEF PanelHysteria, SubHysteria
<1>2. Look(p, "fp", "") = o.fp /\ Look(q, "fp", "") = o.fp
  BY DEF Look, Given, Only, NoParams, ++
<1>3. Look(p, "alpn", "") = o.alpn /\ Look(q, "alpn", "") = o.alpn
  BY DEF Look, Given, Only, NoParams, ++
<1>4. Look(p, "sni", "") = o.sni /\ Look(q, "sni", "") = o.sni
  BY DEF Look, Given, Only, NoParams, ++
<1>5. Look(p, "security", "") = "tls" /\ Look(q, "security", "") = "tls"
  BY DEF Look, ++
<1>6. DOMAIN p \subseteq {"security", "fp", "alpn", "sni"} /\ DOMAIN q \subseteq {"security", "fp", "alpn", "sni"}
  BY DEF Given, Only, NoParams, ++
<1>7. DOMAIN obfs \subseteq {"obfs", "obfs-password"}
  BY DEF When, Only, NoParams, ++
<1> HIDE DEF p, q, obfs
<1>8. CASE key \in {"security", "fp", "alpn", "sni"}
  <2>1. Look(p ++ obfs, key, "") = Look(p, key, "") /\ Look(q ++ obfs, key, "") = Look(q, key, "")
    BY <1>7, <1>8 DEF Look, ++
  <2>2. QED
    BY <1>1, <1>2, <1>3, <1>4, <1>5, <1>8, <2>1
<1>9. CASE key \notin {"security", "fp", "alpn", "sni"}
  <2>1. Look(p ++ obfs, key, "") = Look(obfs, key, "") /\ Look(q ++ obfs, key, "") = Look(obfs, key, "")
    BY <1>6, <1>9 DEF Look, ++
  <2>2. QED
    BY <1>1, <2>1
<1>10. QED
  BY <1>8, <1>9

LEMMA HysteriaSynced ==
    ASSUME NEW ib \in Inbound, NEW o, NEW ep \in Endpoints(o), Apt(ib), ib.protocol = "hysteria",
           NoEch(ib, o), ib.network # "kcp", o.proxies = {} => o.listen = "any"
    PROVE  SameLink(PanelLink(ib, o, ep), SubLink(ib, o, ep, o.names[1], o.ids[1]))
<1> DEFINE a == PanelLink(ib, o, ep)
           b == SubLink(ib, o, ep, o.names[1], o.ids[1])
<1>1. o.ech = ""
  BY DEF Apt, NoEch
<1>2. SubAddress(ib, o, ep) = ep.address
  <2>1. CASE o.proxies = {}
    BY <2>1 DEF SubAddress, Endpoints, ServerAddress
  <2>2. CASE o.proxies # {}
    BY <2>2 DEF SubAddress
  <2>3. QED
    BY <2>1, <2>2
<1>3. a = [scheme |-> "hysteria", user |-> PanelUser(ib, o), address |-> ep.address,
           params |-> PanelHysteria(o)]
  BY DEF PanelLink
<1>4. b = [scheme |-> "hysteria", user |-> PanelUser(ib, o), address |-> ep.address,
           params |-> SubHysteria(o)]
  BY <1>2 DEF SubLink
<1>5. \A key : Look(PanelHysteria(o), key, "") = Look(SubHysteria(o), key, "")
  BY <1>1, HysteriaParams
<1> HIDE DEF a, b
<1>6. SameParams(a, b)
  BY <1>3, <1>4, <1>5 DEF SameParams, Param, Look
<1>7. SameLink(a, b)
  BY <1>3, <1>4, <1>6 DEF SameLink
<1>8. QED
  BY <1>7 DEF a, b

\* Where the two do not differ by design, they are in step.
LEMMA DifferentOrInStep ==
    ASSUME NEW ib \in Inbound, NEW o, NEW ep \in Endpoints(o), Apt(ib), Sane(o), ~Different(ib, o, ep)
    PROVE  /\ InStep(ib, o, ep.force)
           /\ ib.protocol = "hysteria" => ib.network # "kcp" /\ (o.proxies = {} => o.listen = "any")
           /\ o.proxies = {} => o.listen # "::0"
<1>1. ep.force \in {"same", "tls", "none"}
  <2>1. CASE o.proxies = {}
    BY <2>1 DEF Endpoints
  <2>2. CASE o.proxies # {}
    BY <2>2 DEF Endpoints, Sane
  <2>3. QED
    BY <2>1, <2>2
<1>2. ib.network = "kcp" => ib.protocol = "vmess"
  BY DEF Different
<1>3. ib.protocol # "vmess" => NoEch(ib, o)
  BY DEF Different, NoEch
<1>4. ~(ib.network = "tcp" /\ o.header = "http" /\ Len(o.paths) > 1)
  BY DEF Different
<1>5. ib.protocol = "vmess" /\ ib.network = "xhttp" => o.mode = "auto"
  BY DEF Different
<1>6. /\ ep.force = "none" => ib.flow = ""
      /\ ep.force = "tls" => ib.security # "reality"
      /\ ep.force = "tls" /\ ib.protocol = "vmess" => ib.security # "none"
  BY DEF Different
<1>7. ib.protocol = "hysteria" => ib.network # "kcp" /\ (o.proxies = {} => o.listen = "any")
  BY DEF Different
<1>8. o.proxies = {} => o.listen # "::0"
  BY DEF Different
<1>9. QED
  BY <1>1, <1>2, <1>3, <1>4, <1>5, <1>6, <1>7, <1>8 DEF InStep

LEMMA SubscriptionSynced ==
    ASSUME NEW ib \in Inbound, NEW o, NEW ep \in Endpoints(o), Apt(ib), Sane(o),
           ib.protocol \in Transports, ~Different(ib, o, ep)
    PROVE  SameAsPanel(ib, o, ep)
<1> DEFINE link == SubLink(ib, o, ep, o.names[1], o.ids[1])
<1>1. /\ InStep(ib, o, ep.force)
      /\ ib.protocol = "hysteria" => ib.network # "kcp" /\ (o.proxies = {} => o.listen = "any")
      /\ o.proxies = {} => o.listen # "::0"
  BY DifferentOrInStep
<1>2. SameLink(PanelLink(ib, o, ep), link)
  <2>1. CASE ib.protocol = "hysteria"
    <3>1. NoEch(ib, o)
      BY <1>1, <2>1 DEF InStep
    <3>2. QED
      BY <1>1, <2>1, <3>1, HysteriaSynced
  <2>2. CASE ib.protocol = "vmess"
    BY <1>1, <2>2, VmessSynced
  <2>3. CASE ib.protocol \notin {"vmess", "hysteria"}
    BY <1>1, <2>3, ParamsSynced
  <2>4. QED
    BY <2>1, <2>2, <2>3
<1>3. link # NoLink
  <2>1. link.scheme = ib.protocol
    BY <1>1 DEF SubLink, InStep
  <2>2. NoLink.scheme = "none" /\ ib.protocol # "none"
    BY DEF NoLink, Transports
  <2> HIDE DEF link
  <2>3. QED
    BY <2>1, <2>2
<1>4. o.names[1] \in {o.names[i] : i \in DOMAIN o.names} /\ o.ids[1] \in {o.ids[i] : i \in DOMAIN o.ids}
  BY DEF Sane
<1>5. QED
  BY <1>2, <1>3, <1>4 DEF SameAsPanel

\* The subscription is in step with the panel, whatever the options are: for each endpoint
\* of an inbound that the forms can store it has a link for the same outbound.
THEOREM EveryLinkInSync ==
    Spec => [](Linked => \A o : Sane(o) => \A ep \in Endpoints(o) :
                             Different(stored, o, ep) \/ SameAsPanel(stored, o, ep))
<1>1. Typed /\ AptInv => (Linked => \A o : Sane(o) => \A ep \in Endpoints(o) :
                             Different(stored, o, ep) \/ SameAsPanel(stored, o, ep))
  BY LinkedApt, SubscriptionSynced
<1>2. QED
  BY <1>1, TypedAlways, AptAlways, PTL

\* In particular for the options that the run tries: the generators of subService.go and of
\* inbound.js are in step but for the listed differences.
THEOREM LinksInSync == Spec => []SubscriptionInSync
<1>1. (Linked => \A o : Sane(o) => \A ep \in Endpoints(o) :
                    Different(stored, o, ep) \/ SameAsPanel(stored, o, ep)) => SubscriptionInSync
  BY OptionsSane DEF SubscriptionInSync
<1>2. QED
  BY <1>1, EveryLinkInSync, PTL
==============================================================================

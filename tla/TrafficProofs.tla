---------------------------- MODULE TrafficProofs ----------------------------
(***************************************************************************)
(* Theorems about TrafficReset, for any inbounds, any calendar and any     *)
(* number of requests.                                                     *)
(***************************************************************************)
EXTENDS TrafficReset, TLAPS

-----------------------------------------------------------------------------
(* Types.                                                                  *)

Task == [id : Inbounds, up : Nat, due : Nat]

FormType == [step : {"closed", "open", "read"}, id : Inbounds \cup {Nobody}, up : Nat, old : Row]

EditType == [step : {"idle", "read", "dropped"}, id : Inbounds \cup {Nobody}, old : Row]

\* A step of one of the handlers, one at a time.
Handlers ==
    \/ \E i \in Inbounds, up \in {0, 1}, last \in {0, 1, Now} : AddInbound(i, up, last)
    \/ \E i \in Inbounds : ResetClientTraffic(i) \/ OpenForm(i) \/ ReadInbound(i)
    \/ \E S \in SUBSET Inbounds : ResetTraffics(S) \/ ResetAllClientTraffics(S)
    \/ \E method \in Requested, d \in ResetDays : ApplyTrafficResetToAll(method, d) \/ SaveOld(method, d)
    \/ ReadOld \/ CloseForm
    \/ DelClientStat \/ SaveClients \/ EditFails

Jobs ==
    \/ NextDay
    \/ \E i \in Inbounds : AddTraffic(i)
    \/ \E p \in Periods : List(p) \/ \E x \in todo[p] : Handle(p, x)

LEMMA NextCases ==
  ASSUME Next
  PROVE  Handlers \/ Jobs
  BY DEF Next, Handlers, Jobs

LEMMA RowMethod ==
  ASSUME NEW r \in Row, NEW method \in Methods, NEW d \in Int
  PROVE  [r EXCEPT !.method = method, !.day = d] \in Row
  BY DEF Row

LEMMA EmptyRowType ==
  /\ EmptyRow \in Row
  /\ \A d \in Int : [EmptyRow EXCEPT !.method = "custom_date", !.day = d] \in Row
  /\ ClosedForm \in FormType /\ ClosedForm.step = "closed"
  /\ NoEdit \in EditType /\ NoEdit.step = "idle"
  <1>1. "never" \in Methods /\ "custom_date" \in Methods
    BY DEF Methods, Periods
  <1>2. EmptyRow \in Row
    BY <1>1 DEF EmptyRow, Row
  <1>3. ASSUME NEW d \in Int
        PROVE  [EmptyRow EXCEPT !.method = "custom_date", !.day = d] \in Row
    BY <1>1, <1>2, RowMethod
  <1>4. /\ ClosedForm \in FormType /\ ClosedForm.step = "closed"
        /\ NoEdit \in EditType /\ NoEdit.step = "idle"
    BY <1>2 DEF ClosedForm, NoEdit, FormType, EditType
  <1>. QED
    BY <1>2, <1>3, <1>4

\* The changes that are made to a row.
LEMMA RowEdit ==
  ASSUME NEW r \in Row, NEW n \in Nat
  PROVE  [r EXCEPT !.up = n] \in Row /\ [r EXCEPT !.last = n] \in Row
  BY DEF Row

LEMMA RowReset ==
  ASSUME NEW r \in Row, NEW n \in Nat, NEW m \in Nat
  PROVE  [r EXCEPT !.up = n, !.last = m] \in Row /\ [r EXCEPT !.up = n, !.allTime = m] \in Row
  BY DEF Row

LEMMA RowPolicy ==
  ASSUME NEW r \in Row, NEW n \in Nat, NEW method \in Methods, NEW d \in Int
  PROVE  [r EXCEPT !.method = method, !.day = d, !.last = n] \in Row
  BY DEF Row

\* And to what was counted.
LEMMA CountsEdit ==
  ASSUME NEW c \in Counts, NEW n \in Nat
  PROVE  [c EXCEPT !.inbound = @ + n] \in Counts /\ [c EXCEPT !.client = @ + n] \in Counts
  BY DEF Counts

LEMMA NormalizedType ==
  ASSUME NEW method \in Methods, NEW d \in Int
  PROVE  Normalized(method, d) \in Policy
  BY DEF Normalized, Policy

LEMMA OrDefaultType ==
  ASSUME NEW method \in Requested, NEW d \in Int, OrDefault(method, d).method \in Methods
  PROVE  /\ OrDefault(method, d) \in Policy
         /\ Normalized(OrDefault(method, d).method, OrDefault(method, d).day) \in Policy
  <1>1. OrDefault(method, d).day \in Int /\ OrDefault(method, d) \in Policy
    BY TrafficAssumption DEF OrDefault, Policy
  <1>. QED
    BY <1>1, NormalizedType

LEMMA MergedType ==
  ASSUME NEW method \in Requested, NEW d \in Int, NEW old \in Row
  PROVE  Merged(method, d, old) \in Policy
  <1>. DEFINE wanted == IF method = "unset" THEN old.method ELSE method
  <1>1. old.day \in Int
    BY DEF Row
  <1>2. CASE wanted \in Methods
    BY <1>1, <1>2, NormalizedType DEF Merged
  <1>3. CASE wanted \notin Methods
    BY <1>3, TrafficAssumption DEF Merged
  <1>. QED
    BY <1>2, <1>3

LEMMA TimeTypes ==
  ASSUME day \in Nat
  PROVE  Now \in Nat /\ TruncatedNow \subseteq Nat
  BY DEF Now, TruncatedNow

LEMMA RequestType ==
  ASSUME TypeOK, Request
  PROVE  requests' \in Nat
  BY DEF TypeOK, Request

\* What the actions do to the clients' counters.
LEMMA DropTypes ==
  ASSUME TypeOK, NEW i \in Inbounds, NEW gone \in 0 .. clientUp[i], DropClientTraffic(i, gone)
  PROVE  clientUp' \in [Inbounds -> Nat] /\ discarded' \in [Inbounds -> Counts]
  <1>1. /\ clientUp \in [Inbounds -> Nat] /\ discarded \in [Inbounds -> Counts]
        /\ gone \in Nat /\ clientUp[i] - gone \in Nat
    BY DEF TypeOK
  <1>2. [discarded[i] EXCEPT !.client = @ + gone] \in Counts
    BY <1>1, CountsEdit
  <1>3. discarded' = [discarded EXCEPT ![i] = [discarded[i] EXCEPT !.client = @ + gone]]
    BY <1>1 DEF DropClientTraffic
  <1>. QED
    BY <1>1, <1>2, <1>3 DEF DropClientTraffic

\* And what the save of a whole row does.
LEMMA SaveTypes ==
  ASSUME TypeOK, NEW i \in Inbounds, NEW new \in Row, SaveInbound(i, new)
  PROVE  /\ row' \in [Inbounds -> Row] /\ held' \in [Inbounds -> Nat]
         /\ overwritten' \in [Inbounds -> Losses] /\ rewound' \subseteq Inbounds
  <1>1. /\ row \in [Inbounds -> Row] /\ held \in [Inbounds -> Nat] /\ day \in Nat
        /\ overwritten \in [Inbounds -> Losses] /\ rewound \subseteq Inbounds
    BY DEF TypeOK
  <1>2. [up |-> overwritten[i].up + row[i].up - new.up,
         allTime |-> overwritten[i].allTime + row[i].allTime - new.allTime] \in Losses
    BY <1>1 DEF Losses, Row
  <1>3. overwritten' = [overwritten EXCEPT ![i] =
           [up |-> overwritten[i].up + row[i].up - new.up,
            allTime |-> overwritten[i].allTime + row[i].allTime - new.allTime]]
    BY <1>1 DEF SaveInbound
  <1>. QED
    BY <1>1, <1>2, <1>3 DEF SaveInbound

\* What a form saves is a row.
LEMMA SavedRow ==
  ASSUME TypeOK, NEW method \in Requested, NEW d \in ResetDays, SaveOld(method, d)
  PROVE  \E new \in Row : SaveInbound(form.id, new)
  <1>. DEFINE n == Merged(method, d, form.old)
              changed == n.method # form.old.method \/ n.day # form.old.day
              saved == [up |-> form.up, allTime |-> form.old.allTime,
                        method |-> n.method, day |-> n.day,
                        last |-> IF changed THEN Now ELSE form.old.last]
  <1>1. form.old \in Row /\ form.up \in Nat /\ day \in Nat
    BY DEF SaveOld, TypeOK
  <1>2. n \in Policy
    BY <1>1, MergedType, TrafficAssumption
  <1>3. SaveInbound(form.id, saved)
    BY DEF SaveOld
  <1>4. saved \in Row
    <2>1. /\ n.method \in Methods /\ n.day \in Int
          /\ form.old.last \in Nat /\ form.old.allTime \in Nat
      BY <1>1, <1>2 DEF Policy, Row
    <2>2. (IF changed THEN Now ELSE form.old.last) \in Nat
      BY <1>1, <2>1, TimeTypes
    <2>. HIDE DEF n, changed
    <2>. QED
      BY <1>1, <2>1, <2>2 DEF Row
  <1>. HIDE DEF saved
  <1>. QED
    BY <1>3, <1>4

LEMMA HandlerTypes ==
  ASSUME TypeOK, Handlers
  PROVE  TypeOK'
  <1>. USE DEF tables, forms, books, resets
  <1>0. /\ day \in Nat /\ Now \in Nat /\ TruncatedNow \subseteq Nat
        /\ row \in [Inbounds -> Row] /\ clientUp \in [Inbounds -> Nat]
        /\ \A i \in Inbounds : row[i] \in Row /\ row[i].up \in Nat
    BY TimeTypes DEF TypeOK, Row
  <1>1. ASSUME NEW i \in Inbounds, NEW up \in {0, 1}, NEW last \in {0, 1, Now},
               AddInbound(i, up, last)
        PROVE  TypeOK'
    <2>1. PICK method \in Requested, d \in ResetDays :
             LET policy == OrDefault(method, d)
                 n == Normalized(policy.method, policy.day)
             IN  /\ policy.method \in Methods
                 /\ row' = [row EXCEPT ![i] = [up |-> up, allTime |-> up, method |-> n.method, day |-> n.day,
                                               last |-> IF last <= 0 THEN Now ELSE last]]
      BY <1>1 DEF AddInbound
    <2>. DEFINE policy == OrDefault(method, d)
                n == Normalized(policy.method, policy.day)
    <2>3. n \in Policy
      BY <2>1, OrDefaultType, TrafficAssumption
    <2>. HIDE DEF n
    <2>4. n.method \in Methods /\ n.day \in Int
      BY <2>3 DEF Policy
    <2>5. (IF last <= 0 THEN Now ELSE last) \in Nat
      BY <1>0
    <2>6. [up |-> up, allTime |-> up, method |-> n.method, day |-> n.day,
           last |-> IF last <= 0 THEN Now ELSE last] \in Row
      BY <2>4, <2>5 DEF Row
    <2>7. row' \in [Inbounds -> Row]
      BY <1>0, <2>1, <2>6 DEF n
    <2>8. /\ clientUp' \in [Inbounds -> Nat] /\ metered' \in [Inbounds -> Counts]
          /\ held' \in [Inbounds -> Nat] /\ exists' \in [Inbounds -> BOOLEAN]
      BY <1>1 DEF AddInbound, TypeOK, Counts
    <2>9. requests' \in Nat
      BY <1>1, RequestType DEF AddInbound
    <2>. QED
      BY <1>1, <2>7, <2>8, <2>9 DEF AddInbound, TypeOK
  <1>2. ASSUME NEW i \in Inbounds, ResetClientTraffic(i)
        PROVE  TypeOK'
    <2>1. /\ clientUp' \in [Inbounds -> Nat] /\ discarded' \in [Inbounds -> Counts]
      BY <1>0, <1>2, DropTypes DEF ResetClientTraffic
    <2>2. requests' \in Nat
      BY <1>2, RequestType DEF ResetClientTraffic
    <2>. QED
      BY <1>2, <2>1, <2>2 DEF ResetClientTraffic, TypeOK, DropClientTraffic
  <1>3. ASSUME NEW i \in Inbounds, OpenForm(i)
        PROVE  TypeOK'
    <2>2. /\ form' \in FormType
          /\ form'.id \in Inbounds
      BY <1>0, <1>3, EmptyRowType DEF OpenForm, FormType
    <2>3. requests' \in Nat
      BY <1>3, RequestType DEF OpenForm
    <2>. QED
      BY <1>3, <2>2, <2>3 DEF OpenForm, TypeOK, FormType
  <1>4. ASSUME NEW S \in SUBSET Inbounds, ResetTraffics(S)
        PROVE  TypeOK'
    <2>0. \A i \in Inbounds : [row[i] EXCEPT !.up = 0] \in Row
      BY <1>0, RowEdit
    <2>1. row' \in [Inbounds -> Row]
      BY <1>0, <1>4, <2>0 DEF ResetTraffics
    <2>3. discarded' \in [Inbounds -> Counts]
      <3>1. \A i \in Inbounds : /\ discarded[i] \in Counts
                                /\ [discarded[i] EXCEPT !.inbound = @ + row[i].up] \in Counts
        BY <1>0, CountsEdit DEF TypeOK
      <3>. QED
        BY <1>4, <3>1 DEF ResetTraffics
    <2>2. requests' \in Nat
      BY <1>4, RequestType DEF ResetTraffics
    <2>. QED
      BY <1>4, <2>1, <2>2, <2>3 DEF ResetTraffics, TypeOK
  <1>5. ASSUME NEW S \in SUBSET Inbounds, ResetAllClientTraffics(S)
        PROVE  TypeOK'
    <2>1. PICK truncated \in TruncatedNow :
             row' = [i \in Inbounds |-> IF i \in S THEN [row[i] EXCEPT !.last = truncated] ELSE row[i]]
      BY <1>5 DEF ResetAllClientTraffics
    <2>2. row' \in [Inbounds -> Row]
      <3>1. \A i \in Inbounds : [row[i] EXCEPT !.last = truncated] \in Row
        BY <1>0, RowEdit
      <3>. QED
        BY <1>0, <2>1, <3>1
    <2>3. /\ clientUp' \in [Inbounds -> Nat] /\ discarded' \in [Inbounds -> Counts]
      <3>1. \A i \in Inbounds : /\ discarded[i] \in Counts
                                /\ [discarded[i] EXCEPT !.client = @ + clientUp[i]] \in Counts
        BY <1>0, CountsEdit DEF TypeOK
      <3>. QED
        BY <1>0, <1>5, <3>1 DEF ResetAllClientTraffics
    <2>4. requests' \in Nat
      BY <1>5, RequestType DEF ResetAllClientTraffics
    <2>. QED
      BY <1>5, <2>2, <2>3, <2>4 DEF ResetAllClientTraffics, TypeOK
  <1>6. ASSUME NEW method \in Requested, NEW d \in ResetDays, ApplyTrafficResetToAll(method, d)
        PROVE  TypeOK'
    <2>. DEFINE n == Normalized(OrDefault(method, d).method, OrDefault(method, d).day)
    <2>1. n \in Policy
      BY <1>6, OrDefaultType, TrafficAssumption DEF ApplyTrafficResetToAll
    <2>2. row' = [i \in Inbounds |-> IF exists[i]
                                     THEN [row[i] EXCEPT !.method = n.method, !.day = n.day, !.last = Now]
                                     ELSE row[i]]
      BY <1>6 DEF ApplyTrafficResetToAll
    <2>. HIDE DEF n
    <2>3. row' \in [Inbounds -> Row]
      <3>1. n.method \in Methods /\ n.day \in Int
        BY <2>1 DEF Policy
      <3>2. \A i \in Inbounds : [row[i] EXCEPT !.method = n.method, !.day = n.day, !.last = Now] \in Row
        BY <1>0, <3>1, RowPolicy
      <3>. QED
        BY <1>0, <2>2, <3>2
    <2>4. held' \in [Inbounds -> Nat]
      BY <1>6 DEF ApplyTrafficResetToAll, TypeOK
    <2>5. requests' \in Nat
      BY <1>6, RequestType DEF ApplyTrafficResetToAll
    <2>. QED
      BY <1>6, <2>3, <2>4, <2>5 DEF ApplyTrafficResetToAll, TypeOK
  <1>7. CASE ReadOld
    <2>1. form.id \in Inbounds /\ row[form.id] \in Row
      BY <1>0, <1>7 DEF ReadOld, TypeOK
    <2>2. /\ form' \in FormType
          /\ form'.id \in Inbounds
      BY <1>7, <2>1 DEF ReadOld, TypeOK, FormType
    <2>. QED
      BY <1>7, <2>2 DEF ReadOld, TypeOK, FormType
  <1>8. CASE CloseForm
    BY <1>8, EmptyRowType DEF CloseForm, TypeOK, FormType
  <1>9. ASSUME NEW method \in Requested, NEW d \in ResetDays, SaveOld(method, d)
        PROVE  TypeOK'
    <2>1. form.id \in Inbounds
      BY <1>9 DEF SaveOld, TypeOK
    <2>2. PICK new \in Row : SaveInbound(form.id, new)
      BY <1>9, SavedRow
    <2>3. /\ row' \in [Inbounds -> Row] /\ held' \in [Inbounds -> Nat]
          /\ overwritten' \in [Inbounds -> Losses] /\ rewound' \subseteq Inbounds
      BY <2>1, <2>2, SaveTypes
    <2>4. clientUp' \in [Inbounds -> Nat] /\ discarded' \in [Inbounds -> Counts]
      BY <1>9, <2>1, DropTypes DEF SaveOld
    <2>. QED
      BY <1>9, <2>3, <2>4, EmptyRowType DEF SaveOld, TypeOK, FormType
  <1>10. ASSUME NEW i \in Inbounds, ReadInbound(i)
         PROVE  TypeOK'
    <2>1. edit' \in EditType /\ edit'.id \in Inbounds
      BY <1>0, <1>10 DEF ReadInbound, EditType
    <2>2. requests' \in Nat
      BY <1>10, RequestType DEF ReadInbound
    <2>. QED
      BY <1>10, <2>1, <2>2 DEF ReadInbound, TypeOK, EditType
  <1>11. CASE DelClientStat
    <2>1. edit \in EditType /\ edit.id \in Inbounds
      BY <1>11 DEF DelClientStat, TypeOK, EditType
    <2>2. clientUp' \in [Inbounds -> Nat] /\ discarded' \in [Inbounds -> Counts]
      BY <1>11, <2>1, DropTypes DEF DelClientStat
    <2>3. edit' \in EditType /\ edit'.id \in Inbounds
      BY <1>11, <2>1 DEF DelClientStat, EditType
    <2>. QED
      BY <1>11, <2>2, <2>3 DEF DelClientStat, TypeOK, EditType
  <1>12. CASE SaveClients
    <2>1. edit.old \in Row /\ edit.id \in Inbounds /\ clientUp[edit.id] \in Nat
      BY <1>0, <1>12 DEF SaveClients, TypeOK
    <2>2. clientUp' \in [Inbounds -> Nat] /\ discarded' \in [Inbounds -> Counts]
      <3>1. \E gone \in 0 .. clientUp[edit.id] : DropClientTraffic(edit.id, gone)
        BY <1>12, <2>1 DEF SaveClients
      <3>. QED
        BY <2>1, <3>1, DropTypes
    <2>3. /\ row' \in [Inbounds -> Row] /\ held' \in [Inbounds -> Nat]
          /\ overwritten' \in [Inbounds -> Losses] /\ rewound' \subseteq Inbounds
      BY <1>12, <2>1, SaveTypes DEF SaveClients
    <2>. QED
      BY <1>12, <2>2, <2>3, EmptyRowType DEF SaveClients, TypeOK, EditType
  <1>13. CASE EditFails
    BY <1>13, EmptyRowType DEF EditFails, TypeOK, EditType
  <1>. QED
    BY <1>1, <1>2, <1>3, <1>4, <1>5, <1>6, <1>7, <1>8, <1>9, <1>10, <1>11, <1>12, <1>13 DEF Handlers

LEMMA JobTypes ==
  ASSUME TypeOK, Jobs
  PROVE  TypeOK'
  <1>. USE DEF tables, forms, books, resets
  <1>0. /\ day \in Nat /\ Now \in Nat /\ TruncatedNow \subseteq Nat
        /\ row \in [Inbounds -> Row] /\ clientUp \in [Inbounds -> Nat]
        /\ \A i \in Inbounds : /\ row[i] \in Row
                               /\ row[i].up \in Nat /\ row[i].allTime \in Nat
    BY TimeTypes DEF TypeOK, Row
  <1>1. CASE NextDay
    BY <1>1 DEF NextDay, TypeOK
  <1>2. ASSUME NEW i \in Inbounds, AddTraffic(i)
        PROVE  TypeOK'
    <2>1. row' \in [Inbounds -> Row]
      <3>1. [row[i] EXCEPT !.up = @ + 1, !.allTime = @ + 1] \in Row
        <4>1. row[i].up + 1 \in Nat /\ row[i].allTime + 1 \in Nat
          BY <1>0
        <4>. QED
          BY <1>0, <4>1, RowReset
      <3>2. row' = [row EXCEPT ![i] = [row[i] EXCEPT !.up = @ + 1, !.allTime = @ + 1]]
        BY <1>0, <1>2 DEF AddTraffic
      <3>. QED
        BY <1>0, <3>1, <3>2
    <2>2. clientUp' \in [Inbounds -> Nat] /\ metered' \in [Inbounds -> Counts]
      BY <1>0, <1>2 DEF AddTraffic, TypeOK, Counts
    <2>. QED
      BY <1>2, <2>1, <2>2 DEF AddTraffic, TypeOK
  <1>3. ASSUME NEW p \in Periods, List(p)
        PROVE  TypeOK'
    <2>1. \A x \in DueNow(p) : x[1] \in Inbounds /\ x[2] \in Nat
      BY <1>0 DEF DueNow
    <2>2. {[id |-> x[1], up |-> row[x[1]].up, due |-> x[2]] : x \in DueNow(p)}
             \subseteq [id : Inbounds, up : Nat, due : Nat]
      BY <1>0, <2>1
    <2>3. todo' \in [Periods -> SUBSET [id : Inbounds, up : Nat, due : Nat]]
      BY <1>3, <2>2 DEF List, TypeOK
    <2>. QED
      BY <1>3, <2>3 DEF List, TypeOK
  <1>4. ASSUME NEW p \in Periods, NEW x \in todo[p], Handle(p, x)
        PROVE  TypeOK'
    <2>1. x.id \in Inbounds /\ x.due \in Nat /\ x.up \in Nat
      BY DEF TypeOK
    <2>2. todo' \in [Periods -> SUBSET [id : Inbounds, up : Nat, due : Nat]]
      <3>1. todo' = [todo EXCEPT ![p] = @ \ {x}]
        BY <1>4 DEF Handle, Mark, Reset, HandleFails, Handled
      <3>2. todo \in [Periods -> SUBSET [id : Inbounds, up : Nat, due : Nat]]
        BY DEF TypeOK
      <3>. QED
        BY <3>1, <3>2
    <2>3. CASE Mark(p, x)
      <3>0. [row[x.id] EXCEPT !.last = Now] \in Row
        BY <1>0, <2>1, RowEdit
      <3>1. row' \in [Inbounds -> Row] /\ handled' \in [Inbounds -> Nat]
        <4>1. row' = [row EXCEPT ![x.id] = [row[x.id] EXCEPT !.last = Now]]
          BY <1>0, <2>1, <2>3 DEF Mark
        <4>2. handled \in [Inbounds -> Nat] /\ handled' = [handled EXCEPT ![x.id] = x.due]
          BY <2>3 DEF Mark, Handled, TypeOK
        <4>. QED
          BY <1>0, <2>1, <3>0, <4>1, <4>2
      <3>. QED
        BY <2>2, <2>3, <3>1 DEF Mark, Handled, TypeOK
    <2>4. CASE Reset(p, x)
      <3>1. row' \in [Inbounds -> Row]
        <4>1. PICK truncated \in TruncatedNow :
                 row' = [row EXCEPT ![x.id].up = 0, ![x.id].last = truncated]
          BY <2>4 DEF Reset
        <4>2. row' = [row EXCEPT ![x.id] = [row[x.id] EXCEPT !.up = 0, !.last = truncated]]
          BY <1>0, <2>1, <4>1
        <4>3. [row[x.id] EXCEPT !.up = 0, !.last = truncated] \in Row
          BY <1>0, <2>1, RowReset
        <4>. QED
          BY <1>0, <2>1, <4>2, <4>3
      <3>2. /\ handled' \in [Inbounds -> Nat] /\ clientUp' \in [Inbounds -> Nat]
            /\ filed' \in [Inbounds -> [inbound : Nat, client : Nat, until : Nat]]
        BY <1>0, <2>1, <2>4 DEF Reset, Handled, TypeOK
      <3>. QED
        BY <2>2, <2>4, <3>1, <3>2 DEF Reset, Handled, TypeOK
    <2>5. CASE HandleFails(p, x)
      BY <2>2, <2>5 DEF HandleFails, TypeOK
    <2>. QED
      BY <1>4, <2>3, <2>4, <2>5 DEF Handle
  <1>. QED
    BY <1>1, <1>2, <1>3, <1>4 DEF Jobs

LEMMA TypeInduction ==
  /\ Init => TypeOK
  /\ TypeOK /\ [Next]_vars => TypeOK'
  <1>1. ASSUME Init PROVE TypeOK
    <2>2. row \in [Inbounds -> Row]
      <3>1. PICK d \in ResetDays :
               row = [i \in Inbounds |-> IF exists[i]
                                         THEN [EmptyRow EXCEPT !.method = "custom_date", !.day = d]
                                         ELSE EmptyRow]
        BY <1>1 DEF Init
      <3>2. d \in Int
        BY TrafficAssumption
      <3>. QED
        BY <3>1, <3>2, EmptyRowType
    <2>3. /\ form \in FormType /\ form.step = "closed"
          /\ edit \in EditType /\ edit.step = "idle"
      BY <1>1, EmptyRowType DEF Init
    <2>4. /\ metered \in [Inbounds -> Counts] /\ discarded \in [Inbounds -> Counts]
          /\ overwritten \in [Inbounds -> Losses]
      BY <1>1 DEF Init, Counts, Zero, Losses
    <2>. QED
      BY <1>1, <2>2, <2>3, <2>4 DEF Init, TypeOK, FormType, EditType
  <1>2. ASSUME TypeOK, [Next]_vars PROVE TypeOK'
    <2>1. CASE UNCHANGED vars
      BY <1>2, <2>1 DEF vars, tables, forms, books, resets, TypeOK
    <2>. QED
      BY <1>2, <2>1, NextCases, HandlerTypes, JobTypes
  <1>. QED
    BY <1>1, <1>2

\* Every variable has its type.
THEOREM TypeCorrect == Spec => []TypeOK
  BY TypeInduction, PTL DEF Spec

-----------------------------------------------------------------------------
(* The books.  An inbound that does not exist has nothing on them, and only *)
(* inbounds that exist are listed or being edited.                          *)

Nothing(i) ==
    /\ row[i].up = 0 /\ row[i].allTime = 0 /\ clientUp[i] = 0
    /\ filed[i].inbound = 0 /\ filed[i].client = 0 /\ filed[i].until = 0
    /\ metered[i].inbound = 0 /\ metered[i].client = 0
    /\ discarded[i].inbound = 0 /\ discarded[i].client = 0
    /\ overwritten[i].up = 0 /\ overwritten[i].allTime = 0
    /\ handled[i] = 0

InUse ==
    /\ \A i \in Inbounds : exists[i] \/ Nothing(i)
    /\ form.step # "closed" => exists[form.id]
    /\ edit.step # "idle" => exists[edit.id]
    /\ \A p \in Periods : \A x \in todo[p] : exists[x.id]

ClientBooks(i) == filed[i].client + clientUp[i] + discarded[i].client = metered[i].client

InboundBooks(i) ==
    /\ filed[i].inbound + row[i].up + discarded[i].inbound + overwritten[i].up = metered[i].inbound
    /\ row[i].allTime + overwritten[i].allTime = metered[i].inbound

Period(i) ==
    /\ filed[i].until <= Now
    /\ i \in rewound \/ filed[i].until <= row[i].last + 1

Books(i) == ClientBooks(i) /\ InboundBooks(i) /\ Period(i)

BookInv == TypeOK /\ InUse /\ \A i \in Inbounds : Books(i)

\* What the types say of the numbers of one inbound.
LEMMA Numbers ==
  ASSUME TypeOK, NEW i \in Inbounds
  PROVE  /\ day \in Nat /\ Now = 2 * day + 1
         /\ \A t \in TruncatedNow : t \in Nat /\ Now <= t + 1 /\ 2 * day <= t
         /\ row[i] \in Row
         /\ row[i].up \in Nat /\ row[i].allTime \in Nat /\ row[i].last \in Nat
         /\ clientUp[i] \in Nat
         /\ filed[i].inbound \in Nat /\ filed[i].client \in Nat /\ filed[i].until \in Nat
         /\ metered[i].inbound \in Nat /\ metered[i].client \in Nat
         /\ discarded[i].inbound \in Nat /\ discarded[i].client \in Nat
         /\ overwritten[i].up \in Int /\ overwritten[i].allTime \in Int
         /\ handled[i] \in Nat /\ held[i] \in Nat
  BY DEF TypeOK, Row, Counts, Losses, Now, TruncatedNow

\* Books of an inbound none of whose numbers changed.
LEMMA BooksKept ==
  ASSUME NEW i \in Inbounds, Books(i), UNCHANGED day,
         row'[i] = row[i], clientUp'[i] = clientUp[i], filed'[i] = filed[i],
         metered'[i] = metered[i], discarded'[i] = discarded[i],
         overwritten'[i] = overwritten[i], i \in rewound => i \in rewound'
  PROVE  Books(i)'
  BY DEF Books, ClientBooks, InboundBooks, Period, Now

LEMMA NothingKept ==
  ASSUME NEW i \in Inbounds, Nothing(i),
         row'[i] = row[i], clientUp'[i] = clientUp[i], filed'[i] = filed[i],
         metered'[i] = metered[i], discarded'[i] = discarded[i],
         overwritten'[i] = overwritten[i], handled'[i] = handled[i]
  PROVE  Nothing(i)'
  BY DEF Nothing

LEMMA AddInboundBooks ==
  ASSUME BookInv, TypeOK', NEW i \in Inbounds, NEW up \in {0, 1}, NEW last \in {0, 1, Now},
         AddInbound(i, up, last)
  PROVE  BookInv'
  <1>1. /\ row \in [Inbounds -> Row] /\ exists \in [Inbounds -> BOOLEAN]
        /\ clientUp \in [Inbounds -> Nat] /\ metered \in [Inbounds -> Counts]
    BY DEF BookInv, TypeOK
  <1>2. PICK r : row' = [row EXCEPT ![i] = r] /\ r.up = up /\ r.allTime = up
    <2>1. PICK method \in Requested, d \in ResetDays :
             LET policy == OrDefault(method, d)
                 n == Normalized(policy.method, policy.day)
             IN  row' = [row EXCEPT ![i] = [up |-> up, allTime |-> up, method |-> n.method, day |-> n.day,
                                            last |-> IF last <= 0 THEN Now ELSE last]]
      BY DEF AddInbound
    <2>. DEFINE n == Normalized(OrDefault(method, d).method, OrDefault(method, d).day)
                r == [up |-> up, allTime |-> up, method |-> n.method, day |-> n.day,
                      last |-> IF last <= 0 THEN Now ELSE last]
    <2>2. r.up = up /\ r.allTime = up
      OBVIOUS
    <2>. HIDE DEF r
    <2>. QED
      BY <2>1, <2>2 DEF r
  <1>3. /\ row'[i].up = up /\ row'[i].allTime = up
        /\ exists'[i] /\ clientUp'[i] = up
        /\ metered'[i] = [inbound |-> up, client |-> up]
        /\ UNCHANGED <<day, filed, pending, todo, form, edit, discarded, overwritten, handled, rewound>>
        /\ Nothing(i)
    BY <1>1, <1>2 DEF AddInbound, BookInv, InUse, forms
  <1>4. \A j \in Inbounds \ {i} : /\ row'[j] = row[j] /\ exists'[j] = exists[j]
                                  /\ clientUp'[j] = clientUp[j] /\ metered'[j] = metered[j]
    BY <1>1, <1>2 DEF AddInbound
  <1>5. Books(i)'
    <2>1. row'[i].last \in Nat /\ Now \in Nat /\ Now' = Now
      BY <1>3 DEF BookInv, TypeOK, Row, Now
    <2>. QED
      BY <1>3, <2>1 DEF Books, ClientBooks, InboundBooks, Period, Nothing
  <1>6. \A j \in Inbounds \ {i} : Books(j)'
    BY <1>3, <1>4, BooksKept DEF BookInv
  <1>7. InUse'
    <2>1. \A j \in Inbounds : exists[j] => exists'[j]
      BY <1>3, <1>4
    <2>2. \A j \in Inbounds : exists'[j] \/ Nothing(j)'
      BY <1>3, <1>4, NothingKept DEF BookInv, InUse
    <2>3. /\ form.step # "closed" => form.id \in Inbounds
          /\ edit.step # "idle" => edit.id \in Inbounds
          /\ \A p \in Periods : \A x \in todo[p] : x.id \in Inbounds
      BY DEF BookInv, TypeOK
    <2>. QED
      BY <1>3, <2>1, <2>2, <2>3 DEF BookInv, InUse
  <1>. QED
    BY <1>5, <1>6, <1>7 DEF BookInv

LEMMA ByHandBooks ==
  ASSUME BookInv, TypeOK', NEW S \in SUBSET Inbounds,
         ResetTraffics(S) \/ ResetAllClientTraffics(S)
  PROVE  BookInv'
  <1>. TypeOK /\ InUse /\ row \in [Inbounds -> Row] /\ clientUp \in [Inbounds -> Nat]
       /\ discarded \in [Inbounds -> Counts]
    BY DEF BookInv, TypeOK
  <1>1. UNCHANGED <<day, exists, filed, pending, todo, form, edit, metered, overwritten,
                    handled, held, rewound>>
    BY DEF ResetTraffics, ResetAllClientTraffics, forms, resets
  <1>2. ASSUME NEW i \in Inbounds
        PROVE  /\ row'[i].allTime = row[i].allTime
               /\ \/ row'[i].last = row[i].last
                  \/ row'[i].last \in TruncatedNow
               /\ \/ row'[i].up = row[i].up /\ discarded'[i].inbound = discarded[i].inbound
                  \/ row'[i].up = 0 /\ discarded'[i].inbound = discarded[i].inbound + row[i].up
               /\ \/ clientUp'[i] = clientUp[i] /\ discarded'[i].client = discarded[i].client
                  \/ clientUp'[i] = 0 /\ discarded'[i].client = discarded[i].client + clientUp[i]
    <2>0. row[i] \in Row /\ discarded[i] \in Counts
      OBVIOUS
    <2>1. CASE ResetTraffics(S)
      BY <2>0, <2>1 DEF ResetTraffics, Row, Counts
    <2>2. CASE ResetAllClientTraffics(S)
      <3>1. /\ row'[i] = row[i] \/ \E t \in TruncatedNow : row'[i] = [row[i] EXCEPT !.last = t]
        BY <2>2 DEF ResetAllClientTraffics
      <3>2. /\ row'[i].allTime = row[i].allTime /\ row'[i].up = row[i].up
            /\ row'[i].last = row[i].last \/ row'[i].last \in TruncatedNow
        BY <2>0, <3>1 DEF Row
      <3>. QED
        BY <2>0, <2>2, <3>2 DEF ResetAllClientTraffics, Counts
    <2>. QED
      BY <2>1, <2>2
  <1>3. ASSUME NEW i \in Inbounds PROVE Books(i)'
    <2>1. Books(i)
      BY DEF BookInv
    <2>2. ClientBooks(i)' /\ InboundBooks(i)'
      BY <1>1, <1>2, <2>1, Numbers DEF Books, ClientBooks, InboundBooks
    <2>3. Period(i)'
      BY <1>1, <1>2, <2>1, Numbers DEF Books, Period, Now
    <2>. QED
      BY <2>2, <2>3 DEF Books
  <1>4. \A i \in Inbounds : exists'[i] \/ Nothing(i)'
    BY <1>1, <1>2, Numbers DEF InUse, Nothing
  <1>. QED
    BY <1>1, <1>3, <1>4 DEF BookInv, InUse

LEMMA PolicyBooks ==
  ASSUME BookInv, TypeOK', NEW method \in Requested, NEW d \in ResetDays,
         ApplyTrafficResetToAll(method, d)
  PROVE  BookInv'
  <1>. TypeOK /\ InUse /\ row \in [Inbounds -> Row]
    BY DEF BookInv, TypeOK
  <1>1. UNCHANGED <<day, exists, clientUp, filed, todo, form, edit, metered, discarded, overwritten,
                    handled, rewound>>
    BY DEF ApplyTrafficResetToAll, forms, books
  <1>2. ASSUME NEW i \in Inbounds
        PROVE  /\ row'[i].up = row[i].up /\ row'[i].allTime = row[i].allTime
               /\ row'[i].last = row[i].last \/ row'[i].last = Now
               /\ exists[i] \/ row'[i] = row[i]
    <2>. DEFINE n == Normalized(OrDefault(method, d).method, OrDefault(method, d).day)
    <2>1. row'[i] = IF exists[i]
                    THEN [row[i] EXCEPT !.method = n.method, !.day = n.day, !.last = Now]
                    ELSE row[i]
      BY DEF ApplyTrafficResetToAll
    <2>. HIDE DEF n
    <2>. QED
      BY <2>1 DEF Row
  <1>3. ASSUME NEW i \in Inbounds PROVE Books(i)'
    BY <1>1, <1>2, Numbers DEF BookInv, Books, ClientBooks, InboundBooks, Period, Now
  <1>4. \A i \in Inbounds : exists'[i] \/ Nothing(i)'
    BY <1>1, <1>2 DEF InUse, Nothing
  <1>. QED
    BY <1>1, <1>3, <1>4 DEF BookInv, InUse

\* The save of a whole row, and the times of the last reset and the policies after it.
LEMMA SaveWrites ==
  ASSUME TypeOK, NEW i \in Inbounds, NEW new \in Row, SaveInbound(i, new)
  PROVE  /\ \A j \in Inbounds \ {i} : /\ row'[j] = row[j] /\ held'[j] = held[j]
                                      /\ overwritten'[j] = overwritten[j]
         /\ rewound \subseteq rewound'
         /\ row'[i] = new
         /\ overwritten'[i] = [up |-> overwritten[i].up + row[i].up - new.up,
                               allTime |-> overwritten[i].allTime + row[i].allTime - new.allTime]
         /\ i \in rewound' \/ row[i].last <= row'[i].last
         /\ held'[i] = held[i] \/ held'[i] = day
         /\ row'[i].method = row[i].method \/ held'[i] = day
  <1>1. /\ row \in [Inbounds -> Row] /\ held \in [Inbounds -> Nat]
        /\ overwritten \in [Inbounds -> Losses]
        /\ row[i].last \in Nat /\ new.last \in Nat
    BY DEF TypeOK, Row
  <1>2. /\ row' = [row EXCEPT ![i] = new]
        /\ held' = [held EXCEPT ![i] = IF new.method = row[i].method /\ new.day = row[i].day
                                       THEN @ ELSE day]
        /\ overwritten' = [overwritten EXCEPT ![i] =
               [up |-> @.up + row[i].up - new.up, allTime |-> @.allTime + row[i].allTime - new.allTime]]
        /\ rewound' = IF new.last < row[i].last THEN rewound \cup {i} ELSE rewound
    BY DEF SaveInbound
  <1>. QED
    BY <1>1, <1>2

\* What a form or a handler of clients does to the books: whatever a save of the
\* row overwrites is on them.
LEMMA WriteBooks ==
  ASSUME BookInv, NEW i \in Inbounds, exists[i],
         UNCHANGED <<day, exists, filed, metered, handled>>,
         \E gone \in 0 .. clientUp[i] : DropClientTraffic(i, gone),
         \/ UNCHANGED <<row, overwritten, rewound>>
         \/ \E new \in Row : SaveInbound(i, new)
  PROVE  \A j \in Inbounds : Books(j)' /\ (exists'[j] \/ Nothing(j)')
  <1>. TypeOK /\ InUse
    BY DEF BookInv
  <1>1. PICK gone \in 0 .. clientUp[i] : DropClientTraffic(i, gone)
    OBVIOUS
  <1>2. /\ \A j \in Inbounds \ {i} : clientUp'[j] = clientUp[j] /\ discarded'[j] = discarded[j]
        /\ clientUp'[i] = clientUp[i] - gone
        /\ discarded'[i].client = discarded[i].client + gone
        /\ discarded'[i].inbound = discarded[i].inbound
    BY <1>1 DEF DropClientTraffic, TypeOK, Counts
  <1>3. /\ \A j \in Inbounds \ {i} : row'[j] = row[j] /\ overwritten'[j] = overwritten[j]
        /\ rewound \subseteq rewound'
        /\ i \in rewound' \/ row[i].last <= row'[i].last
        /\ row'[i].up + overwritten'[i].up = row[i].up + overwritten[i].up
        /\ row'[i].allTime + overwritten'[i].allTime = row[i].allTime + overwritten[i].allTime
    <2>0. /\ row[i].up \in Nat /\ row[i].allTime \in Nat /\ row[i].last \in Nat
          /\ overwritten[i].up \in Int /\ overwritten[i].allTime \in Int
      BY Numbers
    <2>1. CASE UNCHANGED <<row, overwritten, rewound>>
      BY <2>0, <2>1
    <2>2. ASSUME NEW new \in Row, SaveInbound(i, new)
          PROVE  /\ \A j \in Inbounds \ {i} : row'[j] = row[j] /\ overwritten'[j] = overwritten[j]
                 /\ rewound \subseteq rewound'
                 /\ i \in rewound' \/ row[i].last <= row'[i].last
                 /\ row'[i].up + overwritten'[i].up = row[i].up + overwritten[i].up
                 /\ row'[i].allTime + overwritten'[i].allTime = row[i].allTime + overwritten[i].allTime
      <3>1. new.up \in Nat /\ new.allTime \in Nat
        BY DEF Row
      <3>2. /\ \A j \in Inbounds \ {i} : row'[j] = row[j] /\ overwritten'[j] = overwritten[j]
            /\ rewound \subseteq rewound'
            /\ i \in rewound' \/ row[i].last <= row'[i].last
            /\ row'[i] = new
            /\ overwritten'[i] = [up |-> overwritten[i].up + row[i].up - new.up,
                                  allTime |-> overwritten[i].allTime + row[i].allTime - new.allTime]
        BY <2>2, SaveWrites
      <3>. QED
        BY <2>0, <3>1, <3>2
    <2>. QED
      BY <2>1, <2>2
  <1>4. \A j \in Inbounds \ {i} : Books(j)' /\ (exists'[j] \/ Nothing(j)')
    BY <1>2, <1>3, BooksKept, NothingKept DEF BookInv, InUse
  <1>5. Books(i)'
    <2>1. Books(i) /\ Now' = Now /\ filed' = filed /\ metered' = metered
      BY DEF BookInv, Now
    <2>2. /\ clientUp[i] \in Nat /\ gone \in Nat
          /\ filed[i].inbound \in Nat /\ filed[i].client \in Nat /\ filed[i].until \in Nat
          /\ discarded[i].inbound \in Nat /\ discarded[i].client \in Nat
          /\ row[i].last \in Nat /\ row[i].up \in Nat /\ row[i].allTime \in Nat
          /\ overwritten[i].up \in Int /\ overwritten[i].allTime \in Int
      BY Numbers
    <2>3. ClientBooks(i)'
      BY <1>2, <2>1, <2>2 DEF Books, ClientBooks
    <2>4. row'[i].up \in Int /\ row'[i].allTime \in Int /\ row'[i].last \in Int
          /\ overwritten'[i].up \in Int /\ overwritten'[i].allTime \in Int
      <3>1. CASE UNCHANGED <<row, overwritten, rewound>>
        BY <2>2, <3>1
      <3>2. ASSUME NEW new \in Row, SaveInbound(i, new)
            PROVE  /\ row'[i].up \in Int /\ row'[i].allTime \in Int /\ row'[i].last \in Int
                   /\ overwritten'[i].up \in Int /\ overwritten'[i].allTime \in Int
        <4>1. new.up \in Nat /\ new.allTime \in Nat /\ new.last \in Nat
          BY DEF Row
        <4>2. /\ row'[i] = new
              /\ overwritten'[i] = [up |-> overwritten[i].up + row[i].up - new.up,
                                    allTime |-> overwritten[i].allTime + row[i].allTime - new.allTime]
          BY <3>2, SaveWrites
        <4>. QED
          BY <2>2, <4>1, <4>2
      <3>. QED
        BY <3>1, <3>2
    <2>5. InboundBooks(i)'
      BY <1>2, <1>3, <2>1, <2>2, <2>4 DEF Books, InboundBooks
    <2>6. Period(i)'
      BY <1>3, <2>1, <2>2, <2>4 DEF Books, Period
    <2>. QED
      BY <2>3, <2>5, <2>6 DEF Books
  <1>. QED
    BY <1>4, <1>5

\* Everything that reads an inbound, saves one or deletes its client rows.
Edits ==
    \/ \E i \in Inbounds : ResetClientTraffic(i) \/ OpenForm(i) \/ ReadInbound(i)
    \/ \E method \in Requested, d \in ResetDays : SaveOld(method, d)
    \/ ReadOld \/ CloseForm
    \/ DelClientStat \/ SaveClients \/ EditFails

\* An edit changes nothing of an inbound, or writes to one that exists: it saves a
\* row, deletes client rows, or both.
LEMMA EditWrites ==
  ASSUME TypeOK, InUse, Edits
  PROVE  /\ UNCHANGED <<day, exists, filed, pending, todo, metered, handled>>
         /\ \/ UNCHANGED <<row, clientUp, discarded, overwritten, held, rewound>>
            \/ \E i \in Inbounds :
                 /\ exists[i]
                 /\ \E gone \in 0 .. clientUp[i] : DropClientTraffic(i, gone)
                 /\ \/ UNCHANGED <<row, overwritten, held, rewound>>
                    \/ \E new \in Row : SaveInbound(i, new)
  <1>. USE DEF tables, forms, books, resets
  <1>. DEFINE Writes(i) ==
                 /\ exists[i]
                 /\ \E gone \in 0 .. clientUp[i] : DropClientTraffic(i, gone)
                 /\ \/ UNCHANGED <<row, overwritten, held, rewound>>
                    \/ \E new \in Row : SaveInbound(i, new)
              Same == UNCHANGED <<day, exists, filed, pending, todo, metered, handled>>
  <1>1. CASE \/ \E i \in Inbounds : OpenForm(i) \/ ReadInbound(i)
             \/ ReadOld \/ CloseForm \/ EditFails
    BY <1>1 DEF OpenForm, ReadInbound, ReadOld, CloseForm, EditFails
  <1>2. ASSUME NEW i \in Inbounds, ResetClientTraffic(i) PROVE Same /\ Writes(i)
    <2>1. clientUp[i] \in 0 .. clientUp[i]
      BY Numbers
    <2>. QED
      BY <1>2, <2>1 DEF ResetClientTraffic
  <1>3. ASSUME NEW method \in Requested, NEW d \in ResetDays, SaveOld(method, d)
        PROVE  Same /\ form.id \in Inbounds /\ Writes(form.id)
    <2>1. form.id \in Inbounds /\ exists[form.id]
      BY <1>3 DEF SaveOld, TypeOK, InUse
    <2>2. \E new \in Row : SaveInbound(form.id, new)
      BY <1>3, SavedRow DEF SaveOld
    <2>3. /\ Same /\ \E gone \in 0 .. clientUp[form.id] : DropClientTraffic(form.id, gone)
      BY <1>3 DEF SaveOld
    <2>. QED
      BY <2>1, <2>2, <2>3
  <1>4. CASE DelClientStat
    <2>1. /\ edit.id \in Inbounds /\ exists[edit.id] /\ Same
          /\ UNCHANGED <<row, overwritten, held, rewound>>
          /\ \E gone \in 0 .. clientUp[edit.id] : DropClientTraffic(edit.id, gone)
      BY <1>4 DEF DelClientStat, TypeOK, InUse
    <2>. QED
      BY <2>1
  <1>5. CASE SaveClients
    <2>1. /\ edit.id \in Inbounds /\ exists[edit.id] /\ Same
          /\ edit.old \in Row /\ SaveInbound(edit.id, edit.old)
      BY <1>5 DEF SaveClients, TypeOK, InUse
    <2>2. clientUp[edit.id] \in Nat
      BY <2>1, Numbers
    <2>3. \E gone \in 0 .. clientUp[edit.id] : DropClientTraffic(edit.id, gone)
      BY <1>5, <2>2 DEF SaveClients
    <2>. QED
      BY <2>1, <2>3
  <1>. QED
    BY <1>1, <1>2, <1>3, <1>4, <1>5 DEF Edits

LEMMA EditBooks ==
  ASSUME BookInv, TypeOK', Edits
  PROVE  BookInv'
  <1>. TypeOK /\ InUse
    BY DEF BookInv
  <1>1. UNCHANGED <<day, exists, filed, todo, metered, handled>>
    BY EditWrites
  <1>2. form'.step # "closed" => exists'[form'.id]
    <2>1. CASE form' = form \/ form' = ClosedForm
      BY <1>1, <2>1, EmptyRowType DEF InUse
    <2>2. CASE \E i \in Inbounds : OpenForm(i)
      <3>1. PICK i \in Inbounds : OpenForm(i)
        BY <2>2
      <3>2. exists[i] /\ form'.id = i
        BY <3>1 DEF OpenForm
      <3>. QED
        BY <1>1, <3>2
    <2>3. CASE ReadOld
      <3>1. form.step = "open" /\ form' = [form EXCEPT !.step = "read", !.old = row[form.id]]
            /\ form \in FormType
        BY <2>3 DEF ReadOld, TypeOK, FormType
      <3>2. form'.id = form.id
        BY <3>1 DEF FormType
      <3>. QED
        BY <1>1, <3>1, <3>2 DEF InUse
    <2>. QED
      BY <2>1, <2>2, <2>3 DEF Edits, ResetClientTraffic, ReadInbound, SaveOld, CloseForm,
                             DelClientStat, SaveClients, EditFails, forms
  <1>3. edit'.step # "idle" => exists'[edit'.id]
    <2>1. CASE edit' = edit \/ edit' = NoEdit
      BY <1>1, <2>1, EmptyRowType DEF InUse
    <2>2. CASE \E i \in Inbounds : ReadInbound(i)
      <3>1. PICK i \in Inbounds : ReadInbound(i)
        BY <2>2
      <3>2. exists[i] /\ edit'.id = i
        BY <3>1 DEF ReadInbound
      <3>. QED
        BY <1>1, <3>2
    <2>3. CASE DelClientStat
      <3>1. edit.step = "read" /\ edit' = [edit EXCEPT !.step = "dropped"] /\ edit \in EditType
        BY <2>3 DEF DelClientStat, TypeOK, EditType
      <3>2. edit'.id = edit.id
        BY <3>1 DEF EditType
      <3>. QED
        BY <1>1, <3>1, <3>2 DEF InUse
    <2>. QED
      BY <2>1, <2>2, <2>3 DEF Edits, ResetClientTraffic, OpenForm, ReadOld, SaveOld, CloseForm,
                             SaveClients, EditFails, forms
  <1>4. \A i \in Inbounds : Books(i)' /\ (exists'[i] \/ Nothing(i)')
    <2>1. CASE UNCHANGED <<row, clientUp, discarded, overwritten, held, rewound>>
      BY <1>1, <2>1, BooksKept, NothingKept DEF BookInv, InUse
    <2>2. ASSUME NEW i \in Inbounds, exists[i],
                 \E gone \in 0 .. clientUp[i] : DropClientTraffic(i, gone),
                 \/ UNCHANGED <<row, overwritten, held, rewound>>
                 \/ \E new \in Row : SaveInbound(i, new)
          PROVE  \A j \in Inbounds : Books(j)' /\ (exists'[j] \/ Nothing(j)')
      BY <1>1, <2>2, WriteBooks
    <2>. QED
      BY <2>1, <2>2, EditWrites
  <1>. QED
    BY <1>1, <1>2, <1>3, <1>4 DEF BookInv, InUse

LEMMA JobBooks ==
  ASSUME BookInv, TypeOK', Jobs
  PROVE  BookInv'
  <1>. TypeOK /\ InUse /\ row \in [Inbounds -> Row] /\ clientUp \in [Inbounds -> Nat]
    BY DEF BookInv, TypeOK
  <1>1. CASE NextDay
    <2>1. UNCHANGED <<exists, row, clientUp, filed, todo, form, edit, metered, discarded, overwritten,
                    handled, rewound>>
          /\ day' = day + 1
      BY <1>1 DEF NextDay, tables, forms, books, resets
    <2>2. \A i \in Inbounds : Books(i)'
      BY <2>1, Numbers DEF BookInv, Books, ClientBooks, InboundBooks, Period, Now
    <2>3. \A i \in Inbounds : exists'[i] \/ Nothing(i)'
      BY <2>1, NothingKept DEF InUse
    <2>. QED
      BY <2>1, <2>2, <2>3 DEF BookInv, InUse
  <1>2. ASSUME NEW i \in Inbounds, AddTraffic(i) PROVE BookInv'
    <2>1. /\ row' = [row EXCEPT ![i].up = @ + 1, ![i].allTime = @ + 1]
          /\ clientUp' = [clientUp EXCEPT ![i] = @ + 1]
          /\ metered' = [metered EXCEPT ![i] = [inbound |-> @.inbound + 1, client |-> @.client + 1]]
          /\ UNCHANGED <<day, exists, filed, todo, form, edit, discarded, overwritten, handled, rewound>>
          /\ exists[i] /\ metered \in [Inbounds -> Counts]
      BY <1>2 DEF AddTraffic, TypeOK, forms, resets
    <2>2. \A j \in Inbounds \ {i} : row'[j] = row[j] /\ clientUp'[j] = clientUp[j] /\ metered'[j] = metered[j]
      BY <2>1
    <2>3. /\ row'[i].up = row[i].up + 1 /\ row'[i].allTime = row[i].allTime + 1
          /\ row'[i].last = row[i].last /\ clientUp'[i] = clientUp[i] + 1
          /\ metered'[i].inbound = metered[i].inbound + 1
          /\ metered'[i].client = metered[i].client + 1
      <3>1. row[i] \in Row
        OBVIOUS
      <3>. QED
        BY <2>1, <3>1 DEF Row
    <2>4. Books(i)'
      <3>1. Books(i) /\ Now' = Now
        BY <2>1 DEF BookInv, Now
      <3>2. /\ filed[i].client \in Nat /\ clientUp[i] \in Nat /\ discarded[i].client \in Nat
            /\ filed[i].inbound \in Nat /\ row[i].up \in Nat /\ discarded[i].inbound \in Nat
            /\ row[i].allTime \in Nat /\ metered[i].inbound \in Nat
            /\ overwritten[i].up \in Int /\ overwritten[i].allTime \in Int
        BY Numbers
      <3>3. ClientBooks(i)'
        BY <2>1, <2>3, <3>1, <3>2 DEF Books, ClientBooks
      <3>4. InboundBooks(i)'
        BY <2>1, <2>3, <3>1, <3>2 DEF Books, InboundBooks
      <3>5. Period(i)'
        BY <2>1, <2>3, <3>1 DEF Books, Period
      <3>. QED
        BY <3>3, <3>4, <3>5 DEF Books
    <2>5. \A j \in Inbounds \ {i} : Books(j)' /\ (exists'[j] \/ Nothing(j)')
      BY <2>1, <2>2, BooksKept, NothingKept DEF BookInv, InUse
    <2>. QED
      BY <2>1, <2>4, <2>5 DEF BookInv, InUse
  <1>3. ASSUME NEW p \in Periods, List(p) PROVE BookInv'
    <2>1. UNCHANGED <<day, exists, row, clientUp, filed, form, edit, metered, discarded, overwritten,
                      handled, rewound>>
      BY <1>3 DEF List, tables, forms, books, resets
    <2>2. \A q \in Periods : \A x \in todo'[q] : exists[x.id]
      <3>1. \A y \in DueNow(p) : exists[y[1]]
        BY DEF DueNow
      <3>2. todo' = [todo EXCEPT ![p] = {[id |-> y[1], up |-> row[y[1]].up, due |-> y[2]] : y \in DueNow(p)}]
            /\ todo \in [Periods -> SUBSET [id : Inbounds, up : Nat, due : Nat]]
        BY <1>3 DEF List, TypeOK
      <3>. QED
        BY <3>1, <3>2 DEF InUse
    <2>3. \A i \in Inbounds : Books(i)' /\ (exists'[i] \/ Nothing(i)')
      BY <2>1, BooksKept, NothingKept DEF BookInv, InUse
    <2>. QED
      BY <2>1, <2>2, <2>3 DEF BookInv, InUse
  <1>4. ASSUME NEW p \in Periods, NEW x \in todo[p], Handle(p, x) PROVE BookInv'
    <2>. DEFINE i == x.id
    <2>1. /\ i \in Inbounds /\ exists[i]
          /\ UNCHANGED <<day, exists, form, edit, metered, discarded, overwritten>>
          /\ todo' = [todo EXCEPT ![p] = @ \ {x}]
      BY <1>4 DEF Handle, Mark, Reset, HandleFails, Handled, tables, forms, books, resets, TypeOK, InUse
    <2>2. \A q \in Periods : \A y \in todo'[q] : exists'[y.id]
      BY <2>1 DEF InUse, TypeOK
    <2>3. /\ filed \in [Inbounds -> [inbound : Nat, client : Nat, until : Nat]]
          /\ handled \in [Inbounds -> Nat]
      BY DEF TypeOK
    <2>4. /\ \A j \in Inbounds \ {i} : /\ row'[j] = row[j] /\ clientUp'[j] = clientUp[j]
                                       /\ filed'[j] = filed[j] /\ handled'[j] = handled[j]
                                       /\ j \in rewound => j \in rewound'
          /\ row'[i].allTime = row[i].allTime
          /\ \/ /\ row'[i].up = row[i].up
                /\ row'[i].last = Now \/ (row'[i].last = row[i].last /\ rewound' = rewound)
                /\ clientUp'[i] = clientUp[i] /\ filed'[i] = filed[i]
             \/ /\ row'[i].up = 0 /\ row'[i].last \in TruncatedNow /\ clientUp'[i] = 0
                /\ filed'[i] = [inbound |-> filed[i].inbound + row[i].up,
                                client |-> filed[i].client + clientUp[i], until |-> Now]
      <3>0. row[i] \in Row
        BY <2>1
      <3>1. CASE Mark(p, x)
        <4>1. row' = [row EXCEPT ![i] = [row[i] EXCEPT !.last = Now]]
          BY <2>1, <3>1 DEF Mark
        <4>2. /\ row'[i].up = row[i].up /\ row'[i].allTime = row[i].allTime /\ row'[i].last = Now
              /\ \A j \in Inbounds \ {i} : row'[j] = row[j]
          BY <2>1, <3>0, <4>1 DEF Row
        <4>3. /\ UNCHANGED <<clientUp, filed>>
              /\ handled' = [handled EXCEPT ![i] = x.due] /\ rewound' = rewound \ {i}
          BY <3>1 DEF Mark, Handled
        <4>4. \A j \in Inbounds \ {i} : handled'[j] = handled[j] /\ (j \in rewound => j \in rewound')
          BY <2>3, <4>3
        <4>. QED
          BY <4>2, <4>3, <4>4
      <3>2. CASE Reset(p, x)
        <4>1. PICK t \in TruncatedNow : row' = [row EXCEPT ![i].up = 0, ![i].last = t]
          BY <3>2 DEF Reset
        <4>2. row' = [row EXCEPT ![i] = [row[i] EXCEPT !.up = 0, !.last = t]]
          BY <2>1, <4>1
        <4>3. /\ row'[i].up = 0 /\ row'[i].last = t /\ row'[i].allTime = row[i].allTime
              /\ \A j \in Inbounds \ {i} : row'[j] = row[j]
          BY <2>1, <3>0, <4>2 DEF Row
        <4>4. /\ filed' = [filed EXCEPT ![i] = [inbound |-> @.inbound + row[i].up,
                                                 client |-> @.client + clientUp[i],
                                                 until |-> Now]]
              /\ clientUp' = [clientUp EXCEPT ![i] = 0]
              /\ handled' = [handled EXCEPT ![i] = x.due] /\ rewound' = rewound \ {i}
          BY <3>2 DEF Reset, Handled
        <4>. QED
          BY <2>1, <2>3, <4>3, <4>4
      <3>3. CASE HandleFails(p, x)
        BY <3>3 DEF HandleFails, tables, forms, books, resets
      <3>. QED
        BY <1>4, <3>1, <3>2, <3>3 DEF Handle
    <2>5. Books(i)'
      <3>1. Books(i) /\ Now' = Now
        BY <2>1 DEF BookInv, Now
      <3>. HIDE DEF i
      <3>2. /\ row[i].up \in Nat /\ row[i].last \in Nat /\ clientUp[i] \in Nat
            /\ filed[i].inbound \in Nat /\ filed[i].client \in Nat /\ filed[i].until \in Nat
            /\ discarded[i].inbound \in Nat /\ discarded[i].client \in Nat
            /\ overwritten[i].up \in Int /\ Now \in Nat
            /\ \A t \in TruncatedNow : t \in Nat /\ Now <= t + 1
        BY <2>1, Numbers
      <3>3. CASE /\ row'[i].up = row[i].up
                 /\ row'[i].last = Now \/ (row'[i].last = row[i].last /\ rewound' = rewound)
                 /\ clientUp'[i] = clientUp[i] /\ filed'[i] = filed[i]
        <4>1. ClientBooks(i)' /\ InboundBooks(i)'
          BY <2>1, <2>4, <3>1, <3>3 DEF Books, ClientBooks, InboundBooks
        <4>2. Period(i)'
          BY <3>1, <3>2, <3>3 DEF Books, Period
        <4>. QED
          BY <4>1, <4>2 DEF Books
      <3>4. CASE /\ row'[i].up = 0 /\ row'[i].last \in TruncatedNow /\ clientUp'[i] = 0
                 /\ filed'[i] = [inbound |-> filed[i].inbound + row[i].up,
                                 client |-> filed[i].client + clientUp[i], until |-> Now]
        <4>1. ClientBooks(i)' /\ InboundBooks(i)'
          BY <2>1, <2>4, <3>1, <3>2, <3>4 DEF Books, ClientBooks, InboundBooks
        <4>2. Period(i)'
          BY <3>1, <3>2, <3>4 DEF Period
        <4>. QED
          BY <4>1, <4>2 DEF Books
      <3>. QED
        BY <2>4, <3>3, <3>4
    <2>6. ASSUME NEW j \in Inbounds, j # i
          PROVE  Books(j)' /\ (exists'[j] \/ Nothing(j)')
      <3>0. /\ row'[j] = row[j] /\ clientUp'[j] = clientUp[j] /\ filed'[j] = filed[j]
            /\ handled'[j] = handled[j] /\ (j \in rewound => j \in rewound')
        BY <2>4, <2>6
      <3>1. /\ metered'[j] = metered[j] /\ discarded'[j] = discarded[j]
            /\ overwritten'[j] = overwritten[j] /\ exists'[j] = exists[j] /\ day' = day
        BY <2>1
      <3>2. Books(j) /\ (exists[j] \/ Nothing(j))
        BY DEF BookInv, InUse
      <3>3. Books(j)'
        BY <3>0, <3>1, <3>2, BooksKept
      <3>. QED
        BY <3>0, <3>1, <3>2, <3>3, NothingKept
    <2>. QED
      BY <2>1, <2>2, <2>5, <2>6 DEF BookInv, InUse
  <1>. QED
    BY <1>1, <1>2, <1>3, <1>4 DEF Jobs

LEMMA BookInduction ==
  /\ Init => BookInv
  /\ BookInv /\ [Next]_vars => BookInv'
  <1>1. ASSUME Init PROVE BookInv
    <2>1. TypeOK
      BY <1>1, TypeInduction
    <2>2. \A i \in Inbounds : row[i].up = 0 /\ row[i].allTime = 0
      <3>1. PICK d \in ResetDays :
               row = [i \in Inbounds |-> IF exists[i]
                                         THEN [EmptyRow EXCEPT !.method = "custom_date", !.day = d]
                                         ELSE EmptyRow]
        BY <1>1 DEF Init
      <3>2. EmptyRow.up = 0 /\ EmptyRow.allTime = 0
        BY DEF EmptyRow
      <3>3. /\ [EmptyRow EXCEPT !.method = "custom_date", !.day = d].up = 0
            /\ [EmptyRow EXCEPT !.method = "custom_date", !.day = d].allTime = 0
        <4>. HIDE DEF EmptyRow
        <4>. QED
          BY <3>2, EmptyRowType DEF Row
      <3>. HIDE DEF EmptyRow
      <3>. QED
        BY <3>1, <3>2, <3>3
    <2>3. \A i \in Inbounds : /\ clientUp[i] = 0 /\ handled[i] = 0
                              /\ filed[i].inbound = 0 /\ filed[i].client = 0 /\ filed[i].until = 0
                              /\ metered[i].inbound = 0 /\ metered[i].client = 0
                              /\ discarded[i].inbound = 0 /\ discarded[i].client = 0
                              /\ overwritten[i].up = 0 /\ overwritten[i].allTime = 0
      BY <1>1 DEF Init, Zero
    <2>4. form.step = "closed" /\ edit.step = "idle" /\ \A p \in Periods : todo[p] = {}
      BY <1>1, EmptyRowType DEF Init
    <2>5. \A i \in Inbounds : Nothing(i)
      BY <2>2, <2>3 DEF Nothing
    <2>6. \A i \in Inbounds : Books(i)
      <3>. SUFFICES ASSUME NEW i \in Inbounds PROVE Books(i)
        OBVIOUS
      <3>1. row[i].last \in Nat /\ Now \in Nat
        BY <2>1, Numbers
      <3>. QED
        BY <2>2, <2>3, <3>1 DEF Books, ClientBooks, InboundBooks, Period
    <2>. QED
      BY <2>1, <2>4, <2>5, <2>6 DEF BookInv, InUse
  <1>2. ASSUME BookInv, [Next]_vars PROVE BookInv'
    <2>0. TypeOK'
      BY <1>2, TypeInduction DEF BookInv
    <2>1. CASE UNCHANGED vars
      <3>1. UNCHANGED <<day, exists, row, clientUp, filed, todo, form, edit, metered, discarded, overwritten,
                      handled, rewound>>
        BY <2>1 DEF vars, tables, forms, books, resets
      <3>2. \A i \in Inbounds : Books(i)' /\ (exists'[i] \/ Nothing(i)')
        BY <1>2, <3>1, BooksKept, NothingKept DEF BookInv, InUse
      <3>. QED
        BY <1>2, <2>0, <3>1, <3>2 DEF BookInv, InUse
    <2>2. CASE Jobs
      BY <1>2, <2>0, <2>2, JobBooks
    <2>3. CASE Handlers
      BY <1>2, <2>0, <2>3, AddInboundBooks, ByHandBooks, PolicyBooks, EditBooks DEF Handlers, Edits
    <2>. QED
      BY <1>2, <2>1, <2>2, <2>3, NextCases
  <1>. QED
    BY <1>1, <1>2

\* No traffic is lost or counted twice: see Accounted.
THEOREM TrafficAccounted == Spec => []Accounted
  <1>1. BookInv => Accounted
    BY DEF BookInv, Books, ClientBooks, InboundBooks, Accounted
  <1>. QED
    BY <1>1, BookInduction, PTL DEF Spec

\* The periods in the history do not overlap: see PeriodsDisjoint.
THEOREM HistoryDisjoint == Spec => []PeriodsDisjoint
  <1>1. BookInv => PeriodsDisjoint
    BY DEF BookInv, Books, Period, PeriodsDisjoint
  <1>. QED
    BY <1>1, BookInduction, PTL DEF Spec

-----------------------------------------------------------------------------
(* Due dates.  Resets move last_traffic_reset_time to today at least, so    *)
(* that the catch-up cannot find an older due date; and what a job has      *)
(* listed is due after what was handled, unless the inbound changed hands   *)
(* between two jobs of the same midnight, which needs a new policy.         *)

Excused(i) == held[i] = day \/ i \in rewound

HandledSoFar(i) ==
    /\ handled[i] <= day
    /\ handled[i] > 0 => i \in rewound \/ Midnight(handled[i]) <= row[i].last

ListedRight(p, x) ==
    /\ exists[x.id]
    /\ x.due <= day
    /\ handled[x.id] < x.due \/ Excused(x.id)
    /\ row[x.id].method = p \/ held[x.id] = day

\* What is handled today is neither listed nor about to be.
HandledToday(i) ==
    handled[i] = day => \/ Excused(i)
                       \/ /\ row[i].method \notin pending
                          /\ row[i].method \in Periods =>
                                 \A x \in todo[row[i].method] : x.id # i

DueInv ==
    /\ BookInv
    /\ day >= 1
    /\ \A i \in Inbounds : HandledSoFar(i) /\ HandledToday(i)
    /\ \A p \in Periods : p \in pending => todo[p] = {}
    /\ \A p \in Periods : \A x \in todo[p] : ListedRight(p, x)
    /\ \A p \in Periods : \A x, y \in todo[p] : x.id = y.id => x = y

\* A handler's effect on due dates: nothing is handled or listed, the time of the
\* last reset does not move before today without being on record, nor does the
\* policy change.
Harmless ==
    /\ UNCHANGED <<day, pending, todo, handled>>
    /\ \A i \in Inbounds :
          /\ exists[i] => exists'[i]
          /\ i \in rewound => i \in rewound'
          /\ held'[i] = held[i] \/ held'[i] = day
          /\ ~exists[i] \/ i \in rewound' \/ row[i].last <= row'[i].last \/ 2 * day <= row'[i].last
          /\ row'[i].method = row[i].method \/ held'[i] = day

LEMMA HandlersHarmless ==
  ASSUME BookInv, TypeOK', Handlers
  PROVE  Harmless
  <1>. TypeOK /\ InUse /\ row \in [Inbounds -> Row] /\ exists \in [Inbounds -> BOOLEAN]
       /\ held \in [Inbounds -> Nat]
    BY DEF BookInv, TypeOK
  <1>0. /\ day \in Nat /\ 2 * day <= Now /\ \A t \in TruncatedNow : 2 * day <= t
        /\ \A i \in Inbounds : row[i].last \in Nat /\ row[i].last <= row[i].last
    BY DEF TypeOK, Now, TruncatedNow, Row
  <1>1. ASSUME NEW k \in Inbounds, NEW up \in {0, 1}, NEW last \in {0, 1, Now},
               AddInbound(k, up, last)
        PROVE  Harmless
    <2>1. PICK r : row' = [row EXCEPT ![k] = r]
      BY <1>1 DEF AddInbound
    <2>2. /\ \A i \in Inbounds \ {k} : row'[i] = row[i] /\ exists'[i] = exists[i] /\ held'[i] = held[i]
          /\ exists'[k] /\ held'[k] = day /\ ~exists[k]
          /\ UNCHANGED <<day, pending, todo, handled, rewound>>
      BY <1>1, <2>1 DEF AddInbound
    <2>. QED
      BY <1>0, <2>2 DEF Harmless
  <1>2. ASSUME NEW S \in SUBSET Inbounds, ResetTraffics(S) PROVE Harmless
    <2>1. \A i \in Inbounds : row'[i].last = row[i].last /\ row'[i].method = row[i].method
      BY <1>2 DEF ResetTraffics, Row
    <2>. QED
      BY <1>0, <1>2, <2>1 DEF ResetTraffics, Harmless, resets
  <1>3. ASSUME NEW S \in SUBSET Inbounds, ResetAllClientTraffics(S) PROVE Harmless
    <2>1. PICK t \in TruncatedNow :
             row' = [i \in Inbounds |-> IF i \in S THEN [row[i] EXCEPT !.last = t] ELSE row[i]]
      BY <1>3 DEF ResetAllClientTraffics
    <2>2. \A i \in Inbounds : /\ row'[i].last = row[i].last \/ row'[i].last = t
                              /\ row'[i].method = row[i].method
      BY <2>1 DEF Row
    <2>. QED
      BY <1>0, <1>3, <2>2 DEF ResetAllClientTraffics, Harmless, resets
  <1>4. ASSUME NEW method \in Requested, NEW d \in ResetDays, ApplyTrafficResetToAll(method, d)
        PROVE  Harmless
    <2>. DEFINE n == Normalized(OrDefault(method, d).method, OrDefault(method, d).day)
    <2>1. /\ row' = [i \in Inbounds |-> IF exists[i]
                                       THEN [row[i] EXCEPT !.method = n.method, !.day = n.day, !.last = Now]
                                       ELSE row[i]]
          /\ held' = [i \in Inbounds |-> IF exists[i] THEN day ELSE held[i]]
          /\ UNCHANGED <<day, exists, pending, todo, handled, rewound>>
      BY <1>4 DEF ApplyTrafficResetToAll
    <2>. HIDE DEF n
    <2>2. \A i \in Inbounds : \/ row'[i] = row[i] /\ held'[i] = held[i]
                              \/ row'[i].last = Now /\ held'[i] = day
      BY <2>1 DEF Row
    <2>. QED
      BY <1>0, <2>1, <2>2 DEF Harmless
  <1>5. CASE Edits
    <2>1. /\ UNCHANGED <<day, exists, pending, todo, handled>>
          /\ \/ UNCHANGED <<row, held, rewound>>
             \/ \E i \in Inbounds : \E new \in Row : SaveInbound(i, new)
      BY <1>5, EditWrites
    <2>2. CASE UNCHANGED <<row, held, rewound>>
      BY <1>0, <2>1, <2>2 DEF Harmless
    <2>3. ASSUME NEW k \in Inbounds, NEW new \in Row, SaveInbound(k, new) PROVE Harmless
      BY <1>0, <2>1, <2>3, SaveWrites DEF Harmless
    <2>. QED
      BY <2>1, <2>2, <2>3
  <1>. QED
    BY <1>1, <1>2, <1>3, <1>4, <1>5 DEF Handlers, Edits

LEMMA HandlersDue ==
  ASSUME DueInv, BookInv', Handlers
  PROVE  DueInv'
  <1>. BookInv /\ TypeOK /\ InUse
    BY DEF DueInv, BookInv
  <1>1. Harmless
    BY HandlersHarmless DEF BookInv
  <1>2. ASSUME NEW i \in Inbounds PROVE HandledSoFar(i)'
    <2>1. HandledSoFar(i) /\ (exists[i] \/ handled[i] = 0)
      BY DEF DueInv, InUse, Nothing
    <2>2. day \in Nat /\ handled[i] \in Nat
      BY Numbers
    <2>3. CASE handled[i] = 0
      BY <1>1, <2>2, <2>3 DEF Harmless, HandledSoFar
    <2>4. CASE exists[i] /\ (i \in rewound' \/ row[i].last <= row'[i].last)
      <3>1. row[i].last \in Nat /\ row'[i].last \in Nat
        BY DEF BookInv, TypeOK, Row
      <3>. QED
        BY <1>1, <2>1, <2>2, <2>4, <3>1 DEF Harmless, HandledSoFar, Midnight
    <2>5. CASE 2 * day <= row'[i].last
      <3>1. row'[i].last \in Nat
        BY DEF BookInv, TypeOK, Row
      <3>2. handled[i] <= day => Midnight(handled[i]) <= row'[i].last
        BY <2>2, <2>5, <3>1 DEF Midnight
      <3>. QED
        BY <1>1, <2>1, <3>2 DEF Harmless, HandledSoFar
    <2>. QED
      BY <1>1, <2>1, <2>3, <2>4, <2>5 DEF Harmless
  <1>3. \A i \in Inbounds : Excused(i) => Excused(i)'
    BY <1>1 DEF Harmless, Excused
  <1>4. ASSUME NEW i \in Inbounds PROVE HandledToday(i)'
    <2>1. HandledToday(i)
      BY DEF DueInv
    <2>2. CASE row'[i].method = row[i].method
      BY <1>1, <1>3, <2>1, <2>2 DEF Harmless, HandledToday
    <2>3. CASE held'[i] = day
      BY <1>1, <2>3 DEF Harmless, HandledToday, Excused
    <2>. QED
      BY <1>1, <2>2, <2>3 DEF Harmless
  <1>5. ASSUME NEW p \in Periods, NEW x \in todo[p] PROVE ListedRight(p, x)'
    <2>1. x.id \in Inbounds /\ ListedRight(p, x)
      BY DEF DueInv, TypeOK
    <2>. QED
      BY <1>1, <1>3, <2>1 DEF Harmless, ListedRight, Excused
  <1>. QED
    BY <1>1, <1>2, <1>4, <1>5 DEF DueInv, Harmless

LEMMA ListDue ==
  ASSUME DueInv, BookInv', NEW p \in Periods, List(p)
  PROVE  DueInv'
  <1>. BookInv /\ TypeOK /\ day \in Nat
    BY DEF DueInv, BookInv, TypeOK
  <1>1. /\ UNCHANGED <<day, exists, row, handled, held, rewound>>
        /\ p \in pending /\ pending' = pending \ {p}
        /\ todo' = [todo EXCEPT ![p] =
               {[id |-> y[1], up |-> row[y[1]].up, due |-> y[2]] : y \in DueNow(p)}]
    BY DEF List, tables, forms, books, resets
  <1>2. todo \in [Periods -> SUBSET [id : Inbounds, up : Nat, due : Nat]]
    BY DEF TypeOK
  <1>3. \A y \in DueNow(p) : /\ y[1] \in Inbounds /\ exists[y[1]] /\ row[y[1]].method = p
                             /\ y[2] \in 1 .. day /\ y[2] \in DueOn(y[1], p)
    BY DEF DueNow
  <1>4. \A x \in todo'[p] : <<x.id, x.due>> \in DueNow(p) /\ x.up = row[x.id].up
    <2>1. \A y \in DueNow(p) : y = <<y[1], y[2]>>
      BY DEF DueNow
    <2>. QED
      BY <1>1, <1>2, <2>1
  <1>5. ASSUME NEW x \in todo'[p] PROVE ListedRight(p, x)'
    <2>1. /\ x.id \in Inbounds /\ exists[x.id] /\ row[x.id].method = p
          /\ x.due \in 1 .. day /\ x.due \in DueOn(x.id, p)
      BY <1>3, <1>4
    <2>2. handled[x.id] < x.due \/ Excused(x.id)
      <3>1. HandledSoFar(x.id) /\ HandledToday(x.id) /\ handled[x.id] \in Nat
        BY <2>1, Numbers DEF DueInv
      <3>2. CASE x.due = day
        BY <1>1, <2>1, <3>1, <3>2 DEF HandledToday, HandledSoFar
      <3>3. CASE x.due # day
        <4>1. row[x.id].last < Midnight(x.due)
          BY <2>1, <3>3 DEF DueOn
        <4>2. row[x.id].last \in Nat
          BY <2>1, Numbers
        <4>. QED
          BY <2>1, <3>1, <4>1, <4>2 DEF HandledSoFar, Midnight, Excused
      <3>. QED
        BY <3>2, <3>3
    <2>. QED
      BY <1>1, <2>1, <2>2 DEF ListedRight, Excused
  <1>6. \A x, y \in todo'[p] : x.id = y.id => x = y
    <2>1. \A y, z \in DueNow(p) : y[1] = z[1] => y[2] = z[2]
      <3>1. \A i \in Inbounds : \E due : DueOn(i, p) \subseteq {due}
        BY DEF DueOn
      <3>. QED
        BY <1>3, <3>1
    <2>2. ASSUME NEW x \in todo'[p], NEW y \in todo'[p], x.id = y.id PROVE x.due = y.due /\ x.up = y.up
      BY <1>4, <2>1, <2>2
    <2>3. \A x \in todo'[p] : x = [id |-> x.id, up |-> x.up, due |-> x.due]
      BY <1>1, <1>2
    <2>. QED
      BY <2>2, <2>3
  <1>7. \A q \in Periods \ {p} : todo'[q] = todo[q]
    BY <1>1, <1>2
  <1>8. ASSUME NEW i \in Inbounds PROVE HandledSoFar(i)' /\ HandledToday(i)'
    <2>1. HandledSoFar(i) /\ HandledToday(i)
      BY DEF DueInv
    <2>. QED
      BY <1>1, <1>7, <2>1 DEF HandledSoFar, HandledToday, Excused
  <1>9. \A q \in Periods \ {p} : \A x \in todo'[q] : ListedRight(q, x)'
    BY <1>1, <1>7 DEF DueInv, ListedRight, Excused
  <1>. QED
    BY <1>1, <1>5, <1>6, <1>7, <1>8, <1>9 DEF DueInv

LEMMA HandleDue ==
  ASSUME DueInv, BookInv', NEW p \in Periods, NEW x \in todo[p], Handle(p, x)
  PROVE  DueInv'
  <1>. DEFINE k == x.id
  <1>. BookInv /\ TypeOK /\ day \in Nat
    BY DEF DueInv, BookInv, TypeOK
  <1>1. /\ UNCHANGED <<day, exists, held, pending>>
        /\ todo' = [todo EXCEPT ![p] = @ \ {x}]
    BY DEF Handle, Mark, Reset, HandleFails, Handled, tables, forms, books, resets
  <1>2. /\ todo \in [Periods -> SUBSET [id : Inbounds, up : Nat, due : Nat]]
        /\ row \in [Inbounds -> Row] /\ handled \in [Inbounds -> Nat]
        /\ k \in Inbounds /\ row[k] \in Row /\ x.due \in Nat /\ x.due <= day
        /\ ListedRight(p, x)
    BY DEF TypeOK, DueInv, ListedRight
  <1>3. /\ todo'[p] = todo[p] \ {x}
        /\ \A q \in Periods \ {p} : todo'[q] = todo[q]
        /\ \A q \in Periods : todo'[q] \subseteq todo[q]
    BY <1>1, <1>2
  <1>4. /\ \A j \in Inbounds \ {k} : /\ row'[j] = row[j] /\ handled'[j] = handled[j]
                                     /\ j \in rewound' <=> j \in rewound
        /\ row'[k].method = row[k].method
        /\ \/ row'[k].last = row[k].last /\ handled'[k] = handled[k] /\ rewound' = rewound
           \/ 2 * day <= row'[k].last /\ handled'[k] = x.due
    <2>1. CASE Mark(p, x)
      <3>1. row' = [row EXCEPT ![k] = [row[k] EXCEPT !.last = Now]]
        BY <1>2, <2>1 DEF Mark
      <3>2. 2 * day <= Now
        BY DEF Now
      <3>. QED
        BY <1>2, <2>1, <3>1, <3>2 DEF Mark, Handled, Row
    <2>2. CASE Reset(p, x)
      <3>1. PICK t \in TruncatedNow : row' = [row EXCEPT ![k].up = 0, ![k].last = t]
        BY <2>2 DEF Reset
      <3>2. row' = [row EXCEPT ![k] = [row[k] EXCEPT !.up = 0, !.last = t]]
        BY <1>2, <3>1
      <3>3. 2 * day <= t
        BY DEF TruncatedNow
      <3>. QED
        BY <1>2, <2>2, <3>2, <3>3 DEF Reset, Handled, Row
    <2>3. CASE HandleFails(p, x)
      BY <2>3 DEF HandleFails, tables, forms, books, resets
    <2>. QED
      BY <2>1, <2>2, <2>3 DEF Handle
  \* What else has this inbound on its list had it under another policy.
  <1>5. \A q \in Periods : \A y \in todo'[q] : y.id = k => held[k] = day
    <2>. SUFFICES ASSUME NEW q \in Periods, NEW y \in todo'[q], y.id = k PROVE held[k] = day
      OBVIOUS
    <2>1. q # p
      BY <1>3 DEF DueInv
    <2>2. ListedRight(q, y)
      BY <1>3 DEF DueInv
    <2>. QED
      BY <1>2, <2>1, <2>2 DEF ListedRight
  <1>6. ASSUME NEW i \in Inbounds PROVE HandledSoFar(i)' /\ HandledToday(i)'
    <2>1. HandledSoFar(i) /\ HandledToday(i)
      BY DEF DueInv
    <2>2. CASE i # k
      BY <1>1, <1>3, <1>4, <2>1, <2>2 DEF HandledSoFar, HandledToday, Excused
    <2>3. CASE i = k
      <3>1. HandledSoFar(i)'
        <4>1. CASE row'[k].last = row[k].last /\ handled'[k] = handled[k] /\ rewound' = rewound
          BY <1>1, <2>1, <2>3, <4>1 DEF HandledSoFar
        <4>2. CASE 2 * day <= row'[k].last /\ handled'[k] = x.due
          <5>1. row'[k].last \in Nat
            BY <1>2 DEF BookInv, TypeOK, Row
          <5>2. Midnight(x.due) <= row'[k].last
            BY <1>2, <4>2, <5>1 DEF Midnight
          <5>. QED
            BY <1>1, <1>2, <2>3, <4>2, <5>2 DEF HandledSoFar
        <4>. QED
          BY <1>4, <4>1, <4>2
      <3>2. p \notin pending
        BY DEF DueInv
      <3>3. held[k] = day \/ (row'[k].method = p /\ p \notin pending')
        BY <1>1, <1>2, <1>4, <3>2 DEF ListedRight
      <3>4. HandledToday(i)'
        BY <1>1, <1>5, <2>3, <3>3 DEF HandledToday, Excused
      <3>. QED
        BY <3>1, <3>4
    <2>. QED
      BY <2>2, <2>3
  <1>7. ASSUME NEW q \in Periods, NEW y \in todo'[q] PROVE ListedRight(q, y)'
    <2>1. y.id \in Inbounds /\ ListedRight(q, y)
      BY <1>2, <1>3 DEF DueInv
    <2>2. CASE y.id # k
      BY <1>1, <1>4, <2>1, <2>2 DEF ListedRight, Excused
    <2>3. CASE y.id = k
      BY <1>1, <1>5, <2>1, <2>3 DEF ListedRight, Excused
    <2>. QED
      BY <2>2, <2>3
  <1>8. \A q \in Periods : q \in pending' => todo'[q] = {}
    BY <1>1, <1>3 DEF DueInv
  <1>9. \A q \in Periods : \A y, z \in todo'[q] : y.id = z.id => y = z
    BY <1>3 DEF DueInv
  <1>. QED
    BY <1>1, <1>6, <1>7, <1>8, <1>9 DEF DueInv

LEMMA DueInduction ==
  /\ Init => DueInv
  /\ DueInv /\ [Next]_vars => DueInv'
  <1>1. ASSUME Init PROVE DueInv
    <2>1. BookInv
      BY <1>1, BookInduction
    <2>2. day = 1 /\ pending = {} /\ (\A p \in Periods : todo[p] = {})
          /\ \A i \in Inbounds : handled[i] = 0
      BY <1>1 DEF Init
    <2>3. ASSUME NEW i \in Inbounds PROVE HandledSoFar(i) /\ HandledToday(i)
      <3>1. handled[i] = 0 /\ day = 1
        BY <2>2
      <3>2. HandledSoFar(i)
        BY <3>1 DEF HandledSoFar
      <3>3. HandledToday(i)
        BY <3>1 DEF HandledToday
      <3>. QED
        BY <3>2, <3>3
    <2>. QED
      BY <2>1, <2>2, <2>3 DEF DueInv
  <1>2. ASSUME DueInv, [Next]_vars PROVE DueInv'
    <2>0. BookInv'
      BY <1>2, BookInduction DEF DueInv
    <2>1. CASE UNCHANGED <<day, exists, row, todo, pending, handled, held, rewound>>
      <3>1. \A i \in Inbounds : HandledSoFar(i)' /\ HandledToday(i)'
        BY <1>2, <2>1 DEF DueInv, HandledSoFar, HandledToday, Excused
      <3>2. \A p \in Periods : \A x \in todo'[p] : ListedRight(p, x)'
        BY <1>2, <2>1 DEF DueInv, ListedRight, Excused
      <3>. QED
        BY <1>2, <2>0, <2>1, <3>1, <3>2 DEF DueInv
    <2>2. CASE NextDay
      <3>1. /\ UNCHANGED <<exists, row, todo, handled, held, rewound>> /\ day' = day + 1
            /\ \A p \in Periods : todo[p] = {}
        BY <2>2 DEF NextDay, tables, forms, books, resets
      <3>2. ASSUME NEW i \in Inbounds PROVE HandledSoFar(i)' /\ HandledToday(i)'
        <4>1. handled[i] \in Nat /\ day \in Nat /\ HandledSoFar(i)
          BY <1>2, Numbers DEF DueInv, BookInv
        <4>. QED
          BY <3>1, <4>1 DEF HandledSoFar, HandledToday, Midnight
      <3>3. day \in Nat
        BY <1>2 DEF DueInv, BookInv, TypeOK
      <3>. QED
        BY <1>2, <2>0, <3>1, <3>2, <3>3 DEF DueInv
    <2>3. ASSUME NEW i \in Inbounds, AddTraffic(i) PROVE DueInv'
      <3>1. /\ UNCHANGED <<day, exists, todo, pending, handled, held, rewound>>
            /\ row' = [row EXCEPT ![i].up = @ + 1, ![i].allTime = @ + 1]
            /\ row \in [Inbounds -> Row]
        BY <1>2, <2>3 DEF AddTraffic, DueInv, BookInv, TypeOK, resets
      <3>2. \A j \in Inbounds : row'[j].last = row[j].last /\ row'[j].method = row[j].method
        BY <3>1 DEF Row
      <3>3. \A j \in Inbounds : HandledSoFar(j)' /\ HandledToday(j)'
        BY <1>2, <3>1, <3>2 DEF DueInv, HandledSoFar, HandledToday, Excused
      <3>4. \A p \in Periods : \A x \in todo[p] : x.id \in Inbounds
        BY <1>2 DEF DueInv, BookInv, TypeOK
      <3>5. \A p \in Periods : \A x \in todo'[p] : ListedRight(p, x)'
        BY <1>2, <3>1, <3>2, <3>4 DEF DueInv, ListedRight, Excused
      <3>. QED
        BY <1>2, <2>0, <3>1, <3>3, <3>5 DEF DueInv
    <2>4. CASE UNCHANGED vars
      BY <2>1, <2>4 DEF vars, tables, forms, books, resets
    <2>5. CASE Jobs
      BY <1>2, <2>0, <2>2, <2>3, <2>5, ListDue, HandleDue DEF Jobs
    <2>6. CASE Handlers
      BY <1>2, <2>0, <2>6, HandlersDue
    <2>. QED
      BY <1>2, <2>4, <2>5, <2>6, NextCases
  <1>. QED
    BY <1>1, <1>2

\* A due date is handled once: see OncePerDueDate.
THEOREM HandledOnce == Spec => OncePerDueDate
  <1>. DEFINE Once == \A p \in Periods : \A x \in todo[p] \ todo'[p] :
                         \/ handled[x.id] < x.due
                         \/ held[x.id] = day
                         \/ x.id \in rewound
  <1>1. ASSUME DueInv, Next PROVE Once
    <2>. SUFFICES ASSUME NEW p \in Periods, NEW x \in todo[p] \ todo'[p]
                  PROVE  handled[x.id] < x.due \/ held[x.id] = day \/ x.id \in rewound
      OBVIOUS
    <2>. QED
      BY <1>1 DEF DueInv, ListedRight, Excused
  <1>2. DueInv /\ [Next]_vars => [Once]_vars
    BY <1>1
  <1>. QED
    BY <1>2, DueInduction, PTL DEF Spec, OncePerDueDate
=============================================================================

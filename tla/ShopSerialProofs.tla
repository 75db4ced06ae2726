-------------------------- MODULE ShopSerialProofs --------------------------
(***************************************************************************)
(* Theorems about Shop when its handlers do not overlap (MaxActive = 1),   *)
(* for any number of buyers, workers, plans and orders.                    *)
(***************************************************************************)
EXTENDS ShopStoreProofs, ShopBooks

-----------------------------------------------------------------------------
(* The inductive invariants.                                               *)

Solo == \A p, q \in Procs : pc[p] # "idle" /\ pc[q] # "idle" => p = q

\* An array names every client once, by e-mail and by id.
NoTwins(s) == \A i, k \in DOMAIN s : s[i].email = s[k].email \/ s[i].id = s[k].id => i = k

\* The ids given out so far: a new one counts the grants of its order.
Issued(granted, id) ==
    \/ id = <<House>>
    \/ \E p \in Procs, sn \in Serials : \E n \in 0 .. granted[sn] - 1 : id = <<p, sn, n>>

\* The traffic row after UpdateInboundClient has copied the client into it.
Updated(row, c) == [row EXCEPT !.total = c.total, !.expiry = c.expiry, !.enable = c.enable]

\* A client that DelInboundClient has taken out of client_traffics, not yet out of
\* the array.
Leaving == {cli[p].email : p \in {p \in Procs : pc[p] = "drop"}}

\* The two tables have the same clients, and who is switched off in either has
\* used up his quota or his days.
Tables ==
    /\ now >= 1
    /\ NoTwins(settings)
    /\ \A i \in DOMAIN settings : Issued(grants, settings[i].id)
    /\ DOMAIN rows = AllEmails(settings) \ Leaving
    /\ \A e \in DOMAIN rows \ {House} :
          ~rows[e].enable \/ ~ClientByEmail(settings, e).enable => Depleted(rows[e], now)

\* The client c is in the array, under its e-mail and its id.
Present(c) ==
    c.email \in AllEmails(settings) /\ c.id = ClientByEmail(settings, c.email).id

\* What a handler knows of the tables while nobody else moves.
View(p) ==
    /\ pc[p] \in {"copy", "write"} =>
          /\ cli[p].email = ord[p].buyer /\ Present(cli[p])
          /\ ~cli[p].enable => Depleted(Updated(rows[cli[p].email], cli[p]), now)
    /\ pc[p] \in {"copyAdd", "add"} => ord[p].buyer \notin AllEmails(settings)
    /\ pc[p] = "add" => /\ cli[p].email = ord[p].buyer /\ cli[p].enable
                        /\ cli[p].id = <<p, ord[p].sn, grants[ord[p].sn]>>
    /\ pc[p] = "drop" => cli[p].email \in Buyers /\ Present(cli[p])
    /\ pc[p] \in {"write", "add", "drop"} => inb[p] = settings

ServeInv == Tables /\ \A p \in Procs : View(p)

-----------------------------------------------------------------------------

Gbs == {plan.gb : plan \in Plans}

\* While nothing clears the table, an order's id is its serial number; and an
\* approved order has its buyer's client, while nothing deletes clients.
Numbers ==
    /\ DOMAIN orders = 1 .. born
    /\ \A i \in DOMAIN orders : /\ orders[i].sn = i /\ orders[i].gb \in Gbs
                                /\ orders[i].status = "approved" =>
                                      orders[i].buyer \in AllEmails(settings)

\* A handler's copy is the row, in the status the handler insists on, and the
\* client it is about to write has the quota that the books say.
Exact(p) ==
    /\ pc[p] # "drop"
    /\ pc[p] = "insert" => ord[p].gb \in Gbs
    /\ pc[p] \in Approving =>
          /\ oid[p] \in DOMAIN orders /\ ord[p] = orders[oid[p]]
          /\ ord[p].status = IF op[p] = "revoke" THEN "approved" ELSE "pending"
    /\ op[p] = "approve" /\ pc[p] = "save" => ord[p].buyer \in AllEmails(settings)
    /\ op[p] = "approve" /\ pc[p] \in {"copy", "write"} =>
          cli[p].total = Quota(ord[p].buyer) + ord[p].gb
    /\ op[p] = "revoke" /\ pc[p] \in {"copy", "write"} =>
          \E reading \in 0 .. Used(ord[p].buyer) :
              cli[p].total = Ledger!Clamp(Quota(ord[p].buyer) - ord[p].gb, reading)
    /\ pc[p] = "add" => cli[p].total = ord[p].gb

BookInv == Numbers /\ \A p \in Procs : Exact(p)

-----------------------------------------------------------------------------
(* One handler at a time.                                                  *)

Alone(p) == \A q \in Procs \ {p} : pc[q] = "idle"

LEMMA SoloHolds == BoundInv /\ MaxActive = 1 => Solo
  <1>. SUFFICES ASSUME BoundInv, MaxActive = 1, NEW p \in Procs, NEW q \in Procs,
                       pc[p] # "idle", pc[q] # "idle", p # q
                PROVE  FALSE
    BY DEF Solo
  <1>1. {p, q} \subseteq Active /\ IsFiniteSet(Active) /\ Cardinality(Active) <= 1
    BY DEF Active, BoundInv, Crowd
  <1>2. Cardinality({p, q}) <= Cardinality(Active)
    BY <1>1, FS_Subset
  <1>3. IsFiniteSet({p}) /\ Cardinality({p}) = 1
    BY FS_Singleton
  <1>4. Cardinality({p} \cup {q}) = Cardinality({p}) + 1
    BY <1>3, FS_AddElement
  <1>5. Cardinality(Active) \in Nat /\ {p} \cup {q} = {p, q}
    BY <1>1, FS_CardinalityType
  <1>. QED
    BY <1>1, <1>2, <1>3, <1>4, <1>5

\* Who moves, moves alone.
LEMMA MovesAlone ==
  ASSUME BoundInv, MaxActive = 1, NEW p \in Procs, pc[p] # "idle" \/ CanStart(p)
  PROVE  Alone(p)
  <1>1. CASE pc[p] # "idle"
    BY <1>1, SoloHolds DEF Alone, Solo
  <1>2. CASE CanStart(p)
    <2>1. IsFiniteSet(Active) /\ Cardinality(Active) < 1
      BY <1>2 DEF CanStart, BoundInv, Crowd
    <2>2. Cardinality(Active) \in Nat
      BY <2>1, FS_CardinalityType
    <2>3. Cardinality(Active) = 0
      BY <2>1, <2>2
    <2>4. Active = {}
      BY <2>1, <2>3, FS_EmptySet
    <2>. QED
      BY <2>4 DEF Alone, Active
  <1>. QED
    BY <1>1, <1>2

-----------------------------------------------------------------------------
(* The settings array as a map from e-mails to clients.                    *)

\* ClientByEmail returns the element that has the e-mail.
LEMMA ByEmail ==
  ASSUME NEW S, NEW s \in Seq(S), NEW e
  PROVE  /\ PositionsOf(s, e) # {} <=> e \in AllEmails(s)
         /\ e \in AllEmails(s) => /\ \E i \in DOMAIN s : s[i].email = e /\ ClientByEmail(s, e) = s[i]
                                  /\ ClientByEmail(s, e) \in S
  <1>1. PositionsOf(s, e) # {} <=> e \in AllEmails(s)
    BY DEF PositionsOf, AllEmails
  <1>2. ASSUME e \in AllEmails(s)
        PROVE  \E i \in DOMAIN s : s[i].email = e /\ ClientByEmail(s, e) = s[i]
    <2>1. PositionsOf(s, e) \in SUBSET Nat
      BY DEF PositionsOf
    <2>2. FirstOf(PositionsOf(s, e)) \in PositionsOf(s, e)
      BY <1>1, <1>2, <2>1, FirstOfIn
    <2>. QED
      BY <2>2 DEF PositionsOf, ClientByEmail
  <1>3. \A i \in DOMAIN s : s[i] \in S
    OBVIOUS
  <1>. QED
    BY <1>1, <1>2, <1>3

LEMMA Named ==
  ASSUME NEW S, NEW s \in Seq(S), NoTwins(s), NEW i \in DOMAIN s
  PROVE  s[i].email \in AllEmails(s) /\ ClientByEmail(s, s[i].email) = s[i]
  <1>1. s[i].email \in AllEmails(s)
    BY DEF AllEmails
  <1>2. PICK k \in DOMAIN s : s[k].email = s[i].email /\ ClientByEmail(s, s[i].email) = s[k]
    BY <1>1, ByEmail
  <1>. QED
    BY <1>1, <1>2 DEF NoTwins

\* UpdateInboundClient changes the one client.
LEMMA ArrayWith ==
  ASSUME NEW S, NEW s \in Seq(S), NEW c \in S, NoTwins(s), c.email \in AllEmails(s),
         c.id = ClientByEmail(s, c.email).id
  PROVE  LET t == WithClient(s, c) IN
         /\ t \in Seq(S) /\ NoTwins(t) /\ AllEmails(t) = AllEmails(s)
         /\ DOMAIN t = DOMAIN s /\ \A i \in DOMAIN s : t[i].id = s[i].id
         /\ ClientByEmail(t, c.email) = c
         /\ \A e \in AllEmails(s) \ {c.email} : ClientByEmail(t, e) = ClientByEmail(s, e)
  <1>. DEFINE t == WithClient(s, c)
  <1>1. t \in Seq(S)
    BY UpdatedArray
  <1>2. PICK k \in DOMAIN s : s[k].email = c.email /\ s[k].id = c.id
    <2>1. PICK k \in DOMAIN s : s[k].email = c.email /\ ClientByEmail(s, c.email) = s[k]
      BY ByEmail
    <2>. QED
      BY <2>1
  <1>3. t = [s EXCEPT ![k] = c]
    <2>1. IndexOfId(s, c.id) = {k}
      BY <1>2 DEF IndexOfId, NoTwins
    <2>2. FirstOf({k}) \in {k}
      <3>1. k \in Nat
        BY <1>2
      <3>2. {k} \in SUBSET Nat
        BY <3>1
      <3>. QED
        BY <3>2, FirstOfIn
    <2>. QED
      BY <2>1, <2>2 DEF WithClient
  <1>4. DOMAIN t = DOMAIN s /\ t[k] = c /\ \A i \in DOMAIN s \ {k} : t[i] = s[i]
    BY <1>2, <1>3
  <1>. HIDE DEF t
  <1>5. \A i \in DOMAIN s : t[i].id = s[i].id /\ t[i].email = s[i].email
    BY <1>2, <1>4
  <1>6. NoTwins(t) /\ AllEmails(t) = AllEmails(s)
    BY <1>4, <1>5 DEF NoTwins, AllEmails
  <1>7. ClientByEmail(t, c.email) = c
    BY <1>1, <1>2, <1>4, <1>6, Named
  <1>8. ASSUME NEW e \in AllEmails(s) \ {c.email} PROVE ClientByEmail(t, e) = ClientByEmail(s, e)
    <2>1. PICK i \in DOMAIN s : s[i].email = e /\ ClientByEmail(s, e) = s[i]
      BY ByEmail
    <2>2. i # k /\ i \in DOMAIN t /\ t[i] = s[i]
      BY <1>2, <1>4, <1>8, <2>1
    <2>. QED
      BY <1>1, <1>6, <2>1, <2>2, Named
  <1>. QED
    BY <1>1, <1>4, <1>5, <1>6, <1>7, <1>8 DEF t

\* AddInboundClient adds the one client.
LEMMA ArrayAdd ==
  ASSUME NEW S, NEW s \in Seq(S), NEW c \in S, NoTwins(s), c.email \notin AllEmails(s),
         \A i \in DOMAIN s : s[i].id # c.id
  PROVE  LET t == Append(s, c) IN
         /\ t \in Seq(S) /\ NoTwins(t) /\ AllEmails(t) = AllEmails(s) \cup {c.email}
         /\ \A i \in DOMAIN t : t[i] = c \/ \E k \in DOMAIN s : t[i] = s[k]
         /\ ClientByEmail(t, c.email) = c
         /\ \A e \in AllEmails(s) : ClientByEmail(t, e) = ClientByEmail(s, e)
  <1>. DEFINE t == Append(s, c)
              n == Len(s) + 1
  <1>1. /\ t \in Seq(S) /\ Len(s) \in Nat /\ DOMAIN s = 1 .. Len(s) /\ DOMAIN t = 1 .. n
        /\ t[n] = c /\ \A i \in DOMAIN s : t[i] = s[i]
    OBVIOUS
  <1>2. DOMAIN t = DOMAIN s \cup {n} /\ n \notin DOMAIN s
    BY <1>1
  <1>. HIDE DEF t, n
  <1>3. \A i \in DOMAIN s : s[i].email # c.email
    BY DEF AllEmails
  <1>4. NoTwins(t) /\ AllEmails(t) = AllEmails(s) \cup {c.email}
    <2>1. ASSUME NEW i \in DOMAIN t, NEW k \in DOMAIN t, t[i].email = t[k].email \/ t[i].id = t[k].id
          PROVE  i = k
      <3>1. CASE i \in DOMAIN s /\ k \in DOMAIN s
        BY <1>1, <2>1, <3>1 DEF NoTwins
      <3>2. CASE i = n /\ k \in DOMAIN s
        BY <1>1, <1>3, <2>1, <3>2
      <3>3. CASE i \in DOMAIN s /\ k = n
        BY <1>1, <1>3, <2>1, <3>3
      <3>. QED
        BY <1>2, <3>1, <3>2, <3>3
    <2>2. AllEmails(t) = AllEmails(s) \cup {c.email}
      BY <1>1, <1>2 DEF AllEmails
    <2>. QED
      BY <2>1, <2>2 DEF NoTwins
  <1>5. ClientByEmail(t, c.email) = c
    BY <1>1, <1>2, <1>4, Named
  <1>6. ASSUME NEW e \in AllEmails(s) PROVE ClientByEmail(t, e) = ClientByEmail(s, e)
    <2>1. PICK i \in DOMAIN s : s[i].email = e /\ ClientByEmail(s, e) = s[i]
      BY ByEmail
    <2>2. i \in DOMAIN t /\ t[i] = s[i]
      BY <1>1, <1>2, <2>1
    <2>. QED
      BY <1>1, <1>4, <2>1, <2>2, Named
  <1>. QED
    BY <1>1, <1>2, <1>4, <1>5, <1>6 DEF t

\* DelInboundClient takes the one client out.
LEMMA ArrayWithout ==
  ASSUME NEW S, NEW s \in Seq(S), NoTwins(s), NEW b \in AllEmails(s),
         NEW t, t = WithoutClient(s, ClientByEmail(s, b).id)
  PROVE  /\ t \in Seq(S) /\ NoTwins(t) /\ AllEmails(t) = AllEmails(s) \ {b}
         /\ \A i \in DOMAIN t : \E k \in DOMAIN s : t[i] = s[k]
         /\ \A e \in AllEmails(s) \ {b} : ClientByEmail(t, e) = ClientByEmail(s, e)
  <1>1. PICK k \in DOMAIN s : s[k].email = b /\ ClientByEmail(s, b) = s[k]
    BY ByEmail
  <1>. DEFINE id == ClientByEmail(s, b).id
  <1>2. t \in Seq(S) /\ Left(s, id, Len(s), t) /\ DOMAIN s = 1 .. Len(s)
    BY WithoutElements
  <1>3. id = s[k].id
    BY <1>1
  <1>. HIDE DEF id
  <1>4. \A i \in DOMAIN t : \E j \in DOMAIN s : j # k /\ t[i] = s[j]
    BY <1>2, <1>3 DEF Left
  <1>5. \A j \in DOMAIN s \ {k} : \E i \in DOMAIN t : t[i] = s[j]
    BY <1>1, <1>2, <1>3 DEF Left, NoTwins
  <1>6. OneEach(t)
    BY <1>2 DEF Left, NoTwins, OneEach
  <1>7. NoTwins(t)
    <2>. SUFFICES ASSUME NEW i \in DOMAIN t, NEW j \in DOMAIN t,
                         t[i].email = t[j].email \/ t[i].id = t[j].id
                  PROVE  i = j
      BY DEF NoTwins
    <2>1. PICK x \in DOMAIN s, y \in DOMAIN s : t[i] = s[x] /\ t[j] = s[y]
      BY <1>4
    <2>2. x = y
      BY <2>1 DEF NoTwins
    <2>. QED
      BY <1>6, <2>1, <2>2 DEF OneEach
  <1>8. AllEmails(t) = AllEmails(s) \ {b}
    <2>1. ASSUME NEW i \in DOMAIN t PROVE t[i].email \in AllEmails(s) \ {b}
      BY <1>1, <1>4 DEF AllEmails, NoTwins
    <2>2. ASSUME NEW j \in DOMAIN s, s[j].email # b PROVE s[j].email \in AllEmails(t)
      BY <1>1, <1>5, <2>2 DEF AllEmails
    <2>. QED
      BY <2>1, <2>2 DEF AllEmails
  <1>9. ASSUME NEW e \in AllEmails(s) \ {b} PROVE ClientByEmail(t, e) = ClientByEmail(s, e)
    <2>1. PICK j \in DOMAIN s : s[j].email = e /\ ClientByEmail(s, e) = s[j]
      BY ByEmail
    <2>2. PICK i \in DOMAIN t : t[i] = s[j]
      BY <1>1, <1>5, <1>9, <2>1
    <2>. QED
      BY <1>2, <1>7, <2>1, <2>2, Named
  <1>. QED
    BY <1>2, <1>4, <1>7, <1>8, <1>9

-----------------------------------------------------------------------------
(* A paid-up buyer is served.                                              *)

Touching == {"copy", "write", "copyAdd", "add", "drop"}

\* Who is depleted stays so: the meter and the clock run one way.
LEMMA DepletedStays ==
  ASSUME NEW row \in TrafficRow, NEW more \in TrafficRow, NEW n \in Nat, NEW m \in Nat,
         Depleted(row, n), n <= m, more.total = row.total, more.expiry = row.expiry,
         row.used <= more.used
  PROVE  Depleted(more, m)
  BY DEF Depleted, TrafficRow

LEMMA UpdatedRow ==
  ASSUME NEW row \in TrafficRow, NEW c \in Sound
  PROVE  /\ Updated(row, c) \in TrafficRow /\ Updated(row, c).used = row.used
         /\ Updated(row, c).total = c.total /\ Updated(row, c).expiry = c.expiry
         /\ Updated(row, c).enable = c.enable
  BY DEF Updated, TrafficRow, Sound, Client

LEMMA IssuedStays ==
  ASSUME NEW g \in [Serials -> Nat], NEW h \in [Serials -> Nat],
         \A sn \in Serials : h[sn] >= g[sn], NEW id, Issued(g, id)
  PROVE  Issued(h, id)
  <1>1. \A sn \in Serials : 0 .. g[sn] - 1 \subseteq 0 .. h[sn] - 1
    OBVIOUS
  <1>. QED
    BY <1>1 DEF Issued

\* A step that leaves the tables alone and brings no handler to where it touches
\* them.
LEMMA ServeQuiet ==
  ASSUME ServeInv, UNCHANGED <<settings, rows, grants, now>>,
         \A q \in Procs : pc'[q] \in Touching =>
            pc[q] = pc'[q] /\ ord'[q] = ord[q] /\ cli'[q] = cli[q] /\ inb'[q] = inb[q],
         \A q \in Procs : pc[q] = "drop" => pc'[q] = "drop"
  PROVE  ServeInv'
  <1>1. Leaving' = Leaving
    BY DEF Leaving, Touching
  <1>2. Tables'
    BY <1>1 DEF ServeInv, Tables, Issued
  <1>3. ASSUME NEW q \in Procs PROVE View(q)'
    <2>1. CASE pc'[q] \in Touching
      BY <2>1 DEF ServeInv, View, Present
    <2>2. CASE pc'[q] \notin Touching
      BY <2>2 DEF View, Touching
    <2>. QED
      BY <2>1, <2>2
  <1>. QED
    BY <1>2, <1>3 DEF ServeInv

\* The same, by what the step does to the handler.
LEMMA ServeAside ==
  ASSUME Types, ServeInv, UNCHANGED <<settings, rows, grants, now>>,
         \/ UNCHANGED <<pc, ord, cli, inb>>
         \/ \E p \in Procs : pc[p] # "drop" /\ Return(p)
         \/ /\ UNCHANGED <<ord, cli, inb>>
            /\ \E p \in Procs : \E place \in Places \ Touching : pc[p] # "drop" /\ Goto(p, place)
         \/ \E p \in Procs, id \in DOMAIN orders, h \in Handlers :
               \E place \in Places \ Touching : pc[p] # "drop" /\ Enter(p, h, id, place)
  PROVE  ServeInv'
  <1>1. CASE UNCHANGED <<pc, ord, cli, inb>>
    BY <1>1, ServeQuiet
  <1>2. ASSUME NEW p \in Procs, pc[p] # "drop", Return(p) PROVE ServeInv'
    <2>1. /\ pc'[p] \in {"idle", "poll"}
          /\ \A q \in Procs \ {p} : pc'[q] = pc[q] /\ ord'[q] = ord[q]
      BY <1>2, ReturnFrame
    <2>2. \A q \in Procs \ {p} : cli'[q] = cli[q] /\ inb'[q] = inb[q]
      BY <1>2 DEF Return
    <2>. QED
      BY <1>2, <2>1, <2>2, ServeQuiet DEF Touching
  <1>3. ASSUME UNCHANGED <<ord, cli, inb>>, NEW p \in Procs, NEW place \in Places \ Touching,
               pc[p] # "drop", Goto(p, place)
        PROVE  ServeInv'
    <2>1. pc'[p] = place /\ \A q \in Procs \ {p} : pc'[q] = pc[q]
      BY <1>3, GotoFrame
    <2>. QED
      BY <1>3, <2>1, ServeQuiet
  <1>4. ASSUME NEW p \in Procs, NEW id \in DOMAIN orders, NEW h \in Handlers,
               NEW place \in Places \ Touching, pc[p] # "drop", Enter(p, h, id, place)
        PROVE  ServeInv'
    <2>1. pc'[p] = place /\ \A q \in Procs \ {p} : pc'[q] = pc[q] /\ ord'[q] = ord[q]
      BY <1>4, EnterFrame
    <2>2. UNCHANGED <<cli, inb>>
      BY <1>4 DEF Enter
    <2>. QED
      BY <1>4, <2>1, <2>2, ServeQuiet
  <1>. QED
    BY <1>1, <1>2, <1>3, <1>4

\* Nobody but p is anywhere near the tables.
LEMMA ServeAlone ==
  ASSUME NEW p \in Procs, Alone(p), \A q \in Procs \ {p} : pc'[q] = pc[q],
         Tables', View(p)'
  PROVE  ServeInv'
  BY DEF ServeInv, Alone, View

\* No client is on its way out while p is somewhere else.
LEMMA NobodyLeaves ==
  ASSUME NEW p \in Procs, Alone(p), pc[p] # "drop"
  PROVE  Leaving = {}
  BY DEF Leaving, Alone

LEMMA ServeLoad ==
  ASSUME StoreInv, ServeInv, NEW p \in Procs, Alone(p), LoadClient(p)
  PROVE  ServeInv'
  <1>. DEFINE e == ord[p].buyer
              c == ClientByEmail(settings, e)
  <1>. Types /\ ClientSide /\ Coherent(p)
    BY DEF StoreInv, GrantInv
  <1>1. pc[p] = "load" /\ UNCHANGED <<settings, rows, now, grants, ord, inb>>
    BY DEF LoadClient, store, outside, history
  <1>2. op[p] \in {"approve", "revoke"} /\ ord[p] \in Sold /\ e \in Buyers
    BY <1>1, CopySold DEF Coherent, Routed, Copied, Settling, StoreInv, Sold, Order
  <1>3. CASE ~ClientKnown(settings, rows, e)
    <2>1. UNCHANGED cli /\ (Goto(p, "dup") \/ Goto(p, "save"))
      BY <1>3 DEF LoadClient
    <2>. QED
      BY <1>1, <2>1, ServeAside DEF Places, Touching
  <1>4. CASE ClientKnown(settings, rows, e)
    <2>. DEFINE d == IF op[p] = "approve" THEN Extended(c, ord[p])
                     ELSE Revoked(c, ord[p], rows[e].used)
    <2>1. settings \in Seq(Sound) /\ PositionsOf(settings, e) # {} /\ e \in DOMAIN rows
      BY <1>4 DEF ClientSide, ClientKnown
    <2>2. c \in Sound /\ c.email = e /\ e \in AllEmails(settings)
      BY <2>1, FoundClient, ByEmail
    <2>3. rows[e] \in TrafficRow
      BY <2>1 DEF ClientSide
    <2>4. cli' = [cli EXCEPT ![p] = d] /\ Goto(p, "copy")
      BY <1>4 DEF LoadClient
    <2>5. pc'[p] = "copy" /\ \A q \in Procs \ {p} : pc'[q] = pc[q]
      BY <2>4, GotoFrame DEF Places
    <2>6. cli'[p] = d
      BY <2>4 DEF ClientSide
    <2>. HIDE DEF c, e
    <2>7. d \in Sound
      <3>1. rows[e].used \in Nat
        BY <2>3 DEF TrafficRow
      <3>. QED
        BY <1>2, <2>2, <3>1, ChangedClient
    <2>8. d.email = e /\ d.id = c.id
      BY <1>2, <2>2 DEF Extended, Revoked, Sound, Client
    <2>9. ASSUME ~d.enable PROVE Depleted(Updated(rows[e], d), now)
      <3>1. op[p] = "revoke"
        BY <1>2, <2>2, <2>9 DEF Extended, Sound, Client
      <3>2. d = Revoked(c, ord[p], rows[e].used)
        BY <3>1
      <3>. DEFINE total == MaxOf(MaxOf(c.total - ord[p].gb, rows[e].used), 1)
                  expiry == MaxOf(c.expiry - ord[p].days, now)
      <3>3. /\ d.total = total /\ d.expiry = expiry
            /\ d.enable = ~(total <= rows[e].used \/ expiry <= now)
        BY <2>2, <3>2 DEF Revoked, Sound, Client
      <3>4. /\ c.total \in Nat /\ c.expiry \in Nat /\ ord[p].gb \in Nat /\ ord[p].days \in Nat
            /\ rows[e].used \in Nat /\ now \in Nat /\ now >= 1
        BY <1>2, <2>2, <2>3 DEF Sound, Client, Sold, Order, TrafficRow, ServeInv, Tables, Types
      <3>5. total \in Nat /\ total >= 1 /\ expiry \in Nat /\ expiry >= 1
        BY <3>4 DEF MaxOf
      <3>6. /\ Updated(rows[e], d).total = total /\ Updated(rows[e], d).expiry = expiry
            /\ Updated(rows[e], d).used = rows[e].used
        BY <2>3, <2>7, <3>3, UpdatedRow
      <3>. HIDE DEF total, expiry, d
      <3>7. total <= rows[e].used \/ expiry <= now
        BY <2>9, <3>3
      <3>. QED
        BY <3>4, <3>5, <3>6, <3>7 DEF Depleted
    <2>. HIDE DEF d
    <2>10. View(p)'
      BY <1>1, <2>2, <2>5, <2>6, <2>8, <2>9 DEF View, Present, c, e
    <2>11. Tables'
      <3>1. Leaving = {} /\ Leaving' = {}
        BY <1>1, <2>5, NobodyLeaves DEF Leaving, Alone
      <3>. QED
        BY <1>1, <3>1 DEF ServeInv, Tables, Issued
    <2>. QED
      BY <2>5, <2>10, <2>11, ServeAlone
  <1>. QED
    BY <1>3, <1>4

\* A handler that gives its update up.
LEMMA ServeGivenUp ==
  ASSUME Types, ClientSide, ServeInv, UNCHANGED <<settings, rows, grants, now>>,
         NEW p \in Procs, pc[p] # "drop", UpdateFailed(p)
  PROVE  ServeInv'
  <1>1. CASE Return(p)
    BY <1>1, ServeAside
  <1>2. CASE /\ Goto(p, "dup") /\ cli' = [cli EXCEPT ![p] = NoClient]
             /\ inb' = [inb EXCEPT ![p] = << >>] /\ UNCHANGED ord
    <2>1. pc'[p] = "dup" /\ (\A q \in Procs \ {p} : pc'[q] = pc[q])
      BY <1>2, GotoFrame DEF Places
    <2>2. \A q \in Procs \ {p} : cli'[q] = cli[q] /\ inb'[q] = inb[q]
      BY <1>2
    <2>. QED
      BY <1>2, <2>1, <2>2, ServeQuiet DEF Touching
  <1>. QED
    BY <1>1, <1>2 DEF UpdateFailed

LEMMA ServeCopy ==
  ASSUME StoreInv, ServeInv, NEW p \in Procs, Alone(p), CopyForUpdate(p)
  PROVE  ServeInv'
  <1>. Types /\ ClientSide
    BY DEF StoreInv, GrantInv
  <1>1. pc[p] = "copy" /\ UNCHANGED <<settings, rows, now, grants>>
    BY DEF CopyForUpdate, store, outside, history
  <1>2. CASE UpdateFailed(p)
    BY <1>1, <1>2, ServeGivenUp
  <1>3. CASE /\ inb' = [inb EXCEPT ![p] = settings] /\ Goto(p, "write")
             /\ UNCHANGED <<op, oid, ord, cli, jobs>>
    <2>1. pc'[p] = "write" /\ \A q \in Procs \ {p} : pc'[q] = pc[q]
      BY <1>3, GotoFrame DEF Places
    <2>2. inb'[p] = settings
      BY <1>3 DEF ClientSide
    <2>3. View(p)'
      BY <1>1, <1>3, <2>1, <2>2 DEF ServeInv, View, Present
    <2>4. Leaving = {} /\ Leaving' = {}
      BY <1>1, <2>1, NobodyLeaves DEF Leaving, Alone
    <2>5. Tables'
      BY <1>1, <2>4 DEF ServeInv, Tables, Issued
    <2>. QED
      BY <2>1, <2>3, <2>5, ServeAlone
  <1>. QED
    BY <1>2, <1>3 DEF CopyForUpdate

\* What the counting of grants does, and what it leaves.
LEMMA GrantedGrows ==
  ASSUME Types, NEW p \in Procs, ord[p].sn \in Serials, grants' = Granted(p)
  PROVE  /\ grants' \in [Serials -> Nat] /\ \A sn \in Serials : grants'[sn] >= grants[sn]
         /\ op[p] = "approve" => grants'[ord[p].sn] = grants[ord[p].sn] + 1
  BY DEF Types, Granted

LEMMA ServeWrite ==
  ASSUME StoreInv, ServeInv, NEW p \in Procs, Alone(p), WriteClient(p)
  PROVE  ServeInv'
  <1>. DEFINE c == cli[p]
              e == cli[p].email
  <1>. Types /\ ClientSide /\ Coherent(p) /\ Tables /\ View(p)
    BY DEF StoreInv, GrantInv, ServeInv
  <1>1. /\ pc[p] = "write" /\ UNCHANGED now /\ rows' = UpdateClientStat(rows, c)
        /\ settings' = WithClient(inb[p], c) /\ grants' = Granted(p) /\ Goto(p, "save")
    BY DEF WriteClient, outside
  <1>2. op[p] \in {"approve", "revoke"} /\ ord[p] \in Sold /\ ord[p].sn \in Serials
    BY <1>1, CopySold DEF Coherent, Routed, Copied, Settling, StoreInv
  <1>3. /\ inb[p] = settings /\ Present(c) /\ c \in Sound /\ settings \in Seq(Sound)
        /\ ~c.enable => Depleted(Updated(rows[e], c), now)
    BY <1>1 DEF View, ClientSide
  <1>4. e \in Buyers
    BY <1>1, <1>2 DEF View, Sold, Order
  <1>5. pc'[p] = "save" /\ \A q \in Procs \ {p} : pc'[q] = pc[q]
    BY <1>1, GotoFrame DEF Places
  <1>6. Leaving = {} /\ Leaving' = {}
    BY <1>1, <1>5, NobodyLeaves DEF Leaving, Alone
  <1>7. e \in DOMAIN rows /\ DOMAIN rows = AllEmails(settings)
    BY <1>3, <1>6 DEF Tables, Present
  <1>. HIDE DEF c
  <1>8. /\ settings' \in Seq(Sound) /\ NoTwins(settings') /\ AllEmails(settings') = AllEmails(settings)
        /\ DOMAIN settings' = DOMAIN settings
        /\ \A i \in DOMAIN settings : settings'[i].id = settings[i].id
        /\ ClientByEmail(settings', c.email) = c
        /\ \A x \in AllEmails(settings) \ {c.email} :
              ClientByEmail(settings', x) = ClientByEmail(settings, x)
    BY <1>1, <1>3, ArrayWith DEF Present, Tables
  <1>9. \A i \in DOMAIN settings' : Issued(grants', settings'[i].id)
    <2>. TAKE i \in DOMAIN settings'
    <2>1. Issued(grants, settings[i].id) /\ settings'[i].id = settings[i].id
      BY <1>8 DEF Tables
    <2>2. /\ grants \in [Serials -> Nat] /\ grants' \in [Serials -> Nat]
          /\ \A sn \in Serials : grants'[sn] >= grants[sn]
      BY <1>1, <1>2, GrantedGrows DEF Types
    <2>. QED
      BY <2>1, <2>2, IssuedStays
  <1>10. /\ DOMAIN rows' = DOMAIN rows /\ rows'[e] = Updated(rows[e], c)
         /\ \A x \in DOMAIN rows \ {e} : rows'[x] = rows[x]
    BY <1>1, <1>7 DEF UpdateClientStat, Updated, c
  <1>11. ASSUME NEW x \in DOMAIN rows' \ {House},
                ~rows'[x].enable \/ ~ClientByEmail(settings', x).enable
         PROVE  Depleted(rows'[x], now')
    <2>1. CASE x = e
      <3>1. rows[e] \in TrafficRow
        BY <1>7 DEF ClientSide
      <3>2. rows'[x].enable = c.enable /\ ClientByEmail(settings', x) = c
        BY <1>3, <1>8, <1>10, <2>1, <3>1, UpdatedRow DEF c
      <3>. QED
        BY <1>1, <1>3, <1>10, <1>11, <2>1, <3>2
    <2>2. CASE x # e
      <3>1. x \in DOMAIN rows \ {House} /\ rows'[x] = rows[x]
            /\ ClientByEmail(settings', x) = ClientByEmail(settings, x)
        BY <1>7, <1>8, <1>10, <2>2 DEF c
      <3>. QED
        BY <1>1, <1>11, <3>1 DEF Tables
    <2>. QED
      BY <2>1, <2>2
  <1>12. Tables'
    BY <1>1, <1>6, <1>7, <1>8, <1>9, <1>10, <1>11 DEF Tables
  <1>13. View(p)'
    BY <1>5 DEF View
  <1>. QED
    BY <1>5, <1>12, <1>13, ServeAlone

LEMMA ServeDup ==
  ASSUME StoreInv, ServeInv, NEW p \in Procs, Alone(p), CheckDuplicate(p)
  PROVE  ServeInv'
  <1>. Types
    BY DEF StoreInv, GrantInv
  <1>1. pc[p] = "dup" /\ UNCHANGED <<settings, rows, now, grants>>
    BY DEF CheckDuplicate, store, outside, history
  <1>2. CASE Return(p)
    BY <1>1, <1>2, ServeAside
  <1>3. CASE ord[p].buyer \notin AllEmails(settings) /\ Goto(p, "copyAdd") /\ UNCHANGED <<local, jobs>>
    <2>1. pc'[p] = "copyAdd" /\ \A q \in Procs \ {p} : pc'[q] = pc[q]
      BY <1>3, GotoFrame DEF Places
    <2>2. View(p)'
      BY <1>1, <1>3, <2>1 DEF View, local
    <2>3. Leaving = {} /\ Leaving' = {}
      BY <1>1, <2>1, NobodyLeaves DEF Leaving, Alone
    <2>4. Tables'
      BY <1>1, <2>3 DEF ServeInv, Tables, Issued
    <2>. QED
      BY <2>1, <2>2, <2>4, ServeAlone
  <1>. QED
    BY <1>2, <1>3 DEF CheckDuplicate

LEMMA ServeCopyAdd ==
  ASSUME StoreInv, ServeInv, NEW p \in Procs, Alone(p), CopyForAdd(p)
  PROVE  ServeInv'
  <1>. Types /\ ClientSide /\ View(p)
    BY DEF StoreInv, GrantInv, ServeInv
  <1>1. pc[p] = "copyAdd" /\ UNCHANGED <<settings, rows, now, grants, ord>>
    BY DEF CopyForAdd, store, outside, history
  <1>2. pc'[p] = "add" /\ \A q \in Procs \ {p} : pc'[q] = pc[q]
    BY GotoFrame DEF CopyForAdd, Places
  <1>3. inb'[p] = settings /\ cli'[p] = BuildShopClient(p, ord[p])
    BY DEF CopyForAdd, ClientSide
  <1>4. View(p)'
    BY <1>1, <1>2, <1>3 DEF View, BuildShopClient
  <1>5. Leaving = {} /\ Leaving' = {}
    BY <1>1, <1>2, NobodyLeaves DEF Leaving, Alone
  <1>6. Tables'
    BY <1>1, <1>5 DEF ServeInv, Tables, Issued
  <1>. QED
    BY <1>2, <1>4, <1>6, ServeAlone

\* A new client's id has not been given out: it counts the grants of the order.
LEMMA FreshId ==
  ASSUME StoreInv, ServeInv, NEW p \in Procs, pc[p] = "add"
  PROVE  \A i \in DOMAIN settings : settings[i].id # cli[p].id
  <1>. DEFINE sn == ord[p].sn
  <1>1. cli[p].id = <<p, sn, grants[sn]>>
    BY DEF ServeInv, View
  <1>2. grants \in [Serials -> Nat]
    BY DEF StoreInv, GrantInv, Types
  <1>3. \A i \in DOMAIN settings : Issued(grants, settings[i].id)
    BY DEF ServeInv, Tables
  <1>. SUFFICES ASSUME NEW i \in DOMAIN settings, settings[i].id = <<p, sn, grants[sn]>> PROVE FALSE
    BY <1>1
  <1>4. <<p, sn, grants[sn]>> # <<House>>
    OBVIOUS
  <1>5. PICK q \in Procs, m \in Serials : \E k \in 0 .. grants[m] - 1 :
           <<p, sn, grants[sn]>> = <<q, m, k>>
    BY <1>3, <1>4 DEF Issued
  <1>6. PICK k \in 0 .. grants[m] - 1 : <<p, sn, grants[sn]>> = <<q, m, k>>
    BY <1>5
  <1>7. sn = m /\ grants[sn] = k
    BY <1>6
  <1>. QED
    BY <1>2, <1>6, <1>7

LEMMA ServeAdd ==
  ASSUME StoreInv, ServeInv, NEW p \in Procs, Alone(p), AddClient(p)
  PROVE  ServeInv'
  <1>. DEFINE c == cli[p]
              e == cli[p].email
              sn == ord[p].sn
  <1>. Types /\ ClientSide /\ Coherent(p) /\ Tables /\ View(p)
    BY DEF StoreInv, GrantInv, ServeInv
  <1>1. /\ pc[p] = "add" /\ UNCHANGED now /\ rows' = AddClientStat(rows, c)
        /\ settings' = Append(inb[p], c) /\ grants' = Granted(p) /\ Goto(p, "save")
    BY DEF AddClient, outside
  <1>2. op[p] = "approve" /\ sn \in Serials
    BY <1>1 DEF Coherent, Routed, Copied, Settling
  <1>3. /\ inb[p] = settings /\ c \in Sound /\ settings \in Seq(Sound) /\ c.enable
        /\ e \notin AllEmails(settings) /\ c.id = <<p, sn, grants[sn]>>
    BY <1>1 DEF View, ClientSide
  <1>4. pc'[p] = "save" /\ \A q \in Procs \ {p} : pc'[q] = pc[q]
    BY <1>1, GotoFrame DEF Places
  <1>5. Leaving = {} /\ Leaving' = {}
    BY <1>1, <1>4, NobodyLeaves DEF Leaving, Alone
  <1>6. DOMAIN rows = AllEmails(settings)
    BY <1>5 DEF Tables
  <1>7. /\ grants \in [Serials -> Nat] /\ grants' \in [Serials -> Nat]
        /\ \A n \in Serials : grants'[n] >= grants[n]
        /\ grants'[sn] = grants[sn] + 1
    BY <1>1, <1>2, GrantedGrows DEF Types
  <1>8. \A i \in DOMAIN settings : settings[i].id # c.id
    BY <1>1, FreshId
  <1>. HIDE DEF c
  <1>9. LET t == settings' IN
        /\ t \in Seq(Sound) /\ NoTwins(t) /\ AllEmails(t) = AllEmails(settings) \cup {c.email}
        /\ \A i \in DOMAIN t : t[i] = c \/ \E k \in DOMAIN settings : t[i] = settings[k]
        /\ ClientByEmail(t, c.email) = c
        /\ \A x \in AllEmails(settings) : ClientByEmail(t, x) = ClientByEmail(settings, x)
    <2>1. c.email \notin AllEmails(settings) /\ NoTwins(settings) /\ settings' = Append(settings, c)
      BY <1>1, <1>3 DEF c, Tables
    <2>. QED
      BY <1>3, <1>8, <2>1, ArrayAdd
  <1>10. \A i \in DOMAIN settings' : Issued(grants', settings'[i].id)
    <2>. TAKE i \in DOMAIN settings'
    <2>1. CASE settings'[i] = c
      <3>1. grants[sn] \in 0 .. grants'[sn] - 1
        BY <1>2, <1>7
      <3>. QED
        BY <1>2, <1>3, <2>1, <3>1 DEF Issued
    <2>2. CASE \E k \in DOMAIN settings : settings'[i] = settings[k]
      <3>1. Issued(grants, settings'[i].id)
        BY <2>2 DEF Tables
      <3>. QED
        BY <1>7, <3>1, IssuedStays
    <2>. QED
      BY <1>9, <2>1, <2>2
  <1>11. /\ DOMAIN rows' = DOMAIN rows \cup {e} /\ rows'[e].enable
         /\ \A x \in DOMAIN rows : rows'[x] = rows[x]
    <2>1. e \notin DOMAIN rows
      BY <1>3, <1>6
    <2>2. DOMAIN rows' = DOMAIN rows \cup {e}
      BY <1>1 DEF AddClientStat, c
    <2>3. rows'[e] = [total |-> c.total, expiry |-> c.expiry, enable |-> c.enable, used |-> 0]
      BY <1>1, <2>1, <2>2 DEF AddClientStat, c
    <2>4. \A x \in DOMAIN rows : rows'[x] = rows[x]
      BY <1>1 DEF AddClientStat
    <2>. QED
      BY <1>3, <2>2, <2>3, <2>4
  <1>12. ASSUME NEW x \in DOMAIN rows' \ {House},
                ~rows'[x].enable \/ ~ClientByEmail(settings', x).enable
         PROVE  Depleted(rows'[x], now')
    <2>1. CASE x = e
      BY <1>3, <1>9, <1>11, <1>12, <2>1 DEF c
    <2>2. CASE x # e
      <3>1. x \in DOMAIN rows \ {House} /\ rows'[x] = rows[x]
            /\ ClientByEmail(settings', x) = ClientByEmail(settings, x)
        BY <1>6, <1>9, <1>11, <2>2
      <3>. QED
        BY <1>1, <1>12, <3>1 DEF Tables
    <2>. QED
      BY <2>1, <2>2
  <1>13. Tables'
    <2>1. DOMAIN rows' = AllEmails(settings') \ Leaving'
      BY <1>5, <1>6, <1>9, <1>11 DEF c
    <2>. QED
      BY <1>1, <1>9, <1>10, <1>12, <2>1 DEF Tables
  <1>14. View(p)'
    BY <1>4 DEF View
  <1>. QED
    BY <1>4, <1>13, <1>14, ServeAlone

\* The row of the table goes at once, the element of the array later.
LEMMA ServeDelete ==
  ASSUME StoreInv, ServeInv, NEW p \in Procs, Alone(p), pc[p] = "idle", NEW b \in Buyers,
         DeleteClient(p, b)
  PROVE  ServeInv'
  <1>. Types /\ ClientSide /\ Tables
    BY DEF StoreInv, GrantInv, ServeInv
  <1>1. /\ UNCHANGED <<settings, now, grants>> /\ rows' = DelClientStat(rows, b)
        /\ Goto(p, "drop") /\ inb'[p] = settings /\ cli'[p] = ClientByEmail(settings, b)
    BY DEF DeleteClient, outside, history, ClientSide
  <1>2. b \in AllEmails(settings) /\ ClientByEmail(settings, b).email = b
    <2>1. PositionsOf(settings, b) # {} /\ settings \in Seq(Sound)
      BY DEF DeleteClient, ClientKnown, ClientSide
    <2>. QED
      BY <2>1, ByEmail, FoundClient
  <1>3. pc'[p] = "drop" /\ \A q \in Procs \ {p} : pc'[q] = pc[q]
    BY <1>1, GotoFrame DEF Places
  <1>4. Leaving = {} /\ Leaving' = {b}
    <2>1. {q \in Procs : pc'[q] = "drop"} = {p}
      BY <1>3 DEF Alone
    <2>. QED
      BY <1>1, <1>2, <2>1, NobodyLeaves DEF Leaving
  <1>5. DOMAIN rows' = DOMAIN rows \ {b} /\ \A e \in DOMAIN rows' : rows'[e] = rows[e]
    BY <1>1 DEF DelClientStat
  <1>6. Tables'
    BY <1>1, <1>4, <1>5 DEF Tables
  <1>7. View(p)'
    BY <1>1, <1>2, <1>3 DEF View, Present
  <1>. QED
    BY <1>3, <1>6, <1>7, ServeAlone

LEMMA ServeDrop ==
  ASSUME StoreInv, ServeInv, NEW p \in Procs, Alone(p), DropClient(p)
  PROVE  ServeInv'
  <1>. DEFINE b == cli[p].email
  <1>. Types /\ ClientSide /\ Tables /\ View(p)
    BY DEF StoreInv, GrantInv, ServeInv
  <1>1. /\ pc[p] = "drop" /\ UNCHANGED <<rows, now, grants>> /\ Return(p)
        /\ settings' = WithoutClient(inb[p], cli[p].id)
    BY DEF DropClient, outside, history
  <1>2. /\ b \in AllEmails(settings) /\ b \in Buyers /\ inb[p] = settings
        /\ cli[p].id = ClientByEmail(settings, b).id /\ settings \in Seq(Sound)
    BY <1>1 DEF View, Present, ClientSide
  <1>3. Leaving = {b}
    <2>1. {q \in Procs : pc[q] = "drop"} = {p}
      BY <1>1 DEF Alone
    <2>. QED
      BY <2>1 DEF Leaving
  <1>. HIDE DEF b
  <1>4. LET t == settings' IN
        /\ t \in Seq(Sound) /\ NoTwins(t) /\ AllEmails(t) = AllEmails(settings) \ {b}
        /\ \A i \in DOMAIN t : \E k \in DOMAIN settings : t[i] = settings[k]
        /\ \A e \in AllEmails(settings) \ {b} : ClientByEmail(t, e) = ClientByEmail(settings, e)
    <2>1. settings' = WithoutClient(settings, ClientByEmail(settings, b).id) /\ NoTwins(settings)
      BY <1>1, <1>2 DEF Tables
    <2>2. settings \in Seq(Sound) /\ b \in AllEmails(settings)
      BY <1>2
    <2>. QED
      BY <2>1, <2>2, ArrayWithout
  <1>5. pc'[p] \in {"idle", "poll"} /\ \A q \in Procs \ {p} : pc'[q] = pc[q]
    BY <1>1, ReturnFrame
  <1>6. Leaving' = {}
    BY <1>5 DEF Leaving, Alone
  <1>7. Tables'
    <2>1. DOMAIN rows' = AllEmails(settings') \ Leaving'
      BY <1>1, <1>3, <1>4, <1>6 DEF Tables
    <2>2. \A i \in DOMAIN settings' : Issued(grants', settings'[i].id)
      BY <1>1, <1>4 DEF Tables
    <2>3. \A e \in DOMAIN rows' : ClientByEmail(settings', e) = ClientByEmail(settings, e)
      BY <1>1, <1>3, <1>4 DEF Tables
    <2>. QED
      BY <1>1, <1>4, <2>1, <2>2, <2>3 DEF Tables
  <1>8. View(p)'
    BY <1>5 DEF View
  <1>. QED
    BY <1>5, <1>7, <1>8, ServeAlone

\* What a transaction of AddTraffic does to a row.
LEMMA MeteredRow ==
  ASSUME ClientSide, NEW emails, AddTraffic(emails), NEW e \in DOMAIN rows
  PROVE  /\ rows[e] \in TrafficRow /\ rows'[e] \in TrafficRow
         /\ rows'[e].total = rows[e].total /\ rows'[e].expiry = rows[e].expiry
         /\ rows'[e].used = IF e \in emails THEN rows[e].used + 1 ELSE rows[e].used
         /\ ~rows'[e].enable => ~rows[e].enable \/ Depleted(rows'[e], now)
  <1>. DEFINE row == [rows[e] EXCEPT !.used = IF e \in emails THEN @ + 1 ELSE @]
              on == row.enable /\ ~Depleted(row, now)
  <1>1. rows[e] \in TrafficRow
    BY DEF ClientSide
  <1>2. /\ row \in TrafficRow /\ row.total = rows[e].total /\ row.expiry = rows[e].expiry
        /\ row.used = IF e \in emails THEN rows[e].used + 1 ELSE rows[e].used
        /\ row.enable = rows[e].enable
    BY <1>1 DEF TrafficRow
  <1>3. rows'[e] = [row EXCEPT !.enable = @ /\ ~Depleted(row, now)]
    BY DEF AddTraffic
  <1>4. on \in BOOLEAN
    BY <1>2 DEF TrafficRow
  <1>. HIDE DEF row
  <1>5. rows'[e] = [row EXCEPT !.enable = on]
    BY <1>2, <1>3 DEF TrafficRow
  <1>6. ~on => ~row.enable \/ Depleted(row, now)
    OBVIOUS
  <1>. HIDE DEF on
  <1>7. /\ rows'[e] \in TrafficRow /\ rows'[e].total = row.total /\ rows'[e].expiry = row.expiry
        /\ rows'[e].used = row.used /\ rows'[e].enable = on
    BY <1>2, <1>4, <1>5 DEF TrafficRow
  <1>8. Depleted(rows'[e], now) <=> Depleted(row, now)
    BY <1>7 DEF Depleted
  <1>. QED
    BY <1>1, <1>2, <1>6, <1>7, <1>8

\* The row a handler is about to change.
LEMMA AtHand ==
  ASSUME StoreInv, ServeInv, Solo, NEW q \in Procs, pc[q] \in {"copy", "write"}
  PROVE  /\ cli[q] \in Sound /\ cli[q].email \in DOMAIN rows
         /\ rows[cli[q].email] \in TrafficRow
         /\ Updated(rows[cli[q].email], cli[q]) \in TrafficRow
  <1>1. cli[q] \in Sound /\ Present(cli[q])
    BY DEF StoreInv, ClientSide, ServeInv, View
  <1>2. Leaving = {}
    BY DEF Leaving, Solo
  <1>3. cli[q].email \in DOMAIN rows
    BY <1>1, <1>2 DEF ServeInv, Tables, Present
  <1>4. rows[cli[q].email] \in TrafficRow
    BY <1>3 DEF StoreInv, ClientSide
  <1>. QED
    BY <1>1, <1>3, <1>4, UpdatedRow

LEMMA ServeTraffic ==
  ASSUME StoreInv, ServeInv, Solo, NEW emails, AddTraffic(emails)
  PROVE  ServeInv'
  <1>. Types /\ ClientSide /\ Tables
    BY DEF StoreInv, GrantInv, ServeInv
  <1>1. UNCHANGED <<settings, now, grants, pc, ord, cli, inb>> /\ DOMAIN rows' = DOMAIN rows
    BY DEF AddTraffic, outside, local, history
  <1>2. now \in Nat
    BY DEF Types
  <1>3. Leaving' = Leaving
    BY <1>1 DEF Leaving
  <1>4. ASSUME NEW e \in DOMAIN rows, Depleted(rows[e], now) PROVE Depleted(rows'[e], now)
    <2>1. /\ rows[e] \in TrafficRow /\ rows'[e] \in TrafficRow /\ rows[e].used <= rows'[e].used
          /\ rows'[e].total = rows[e].total /\ rows'[e].expiry = rows[e].expiry
      BY MeteredRow DEF TrafficRow
    <2>. QED
      BY <1>2, <1>4, <2>1, DepletedStays
  <1>5. ASSUME NEW e \in DOMAIN rows \ {House},
               ~rows'[e].enable \/ ~ClientByEmail(settings, e).enable
        PROVE  Depleted(rows'[e], now)
    <2>1. ~rows'[e].enable => ~rows[e].enable \/ Depleted(rows'[e], now)
      BY MeteredRow
    <2>. QED
      BY <1>4, <1>5, <2>1 DEF Tables
  <1>6. Tables'
    BY <1>1, <1>3, <1>5 DEF Tables
  <1>7. ASSUME NEW q \in Procs PROVE View(q)'
    <2>1. ASSUME pc[q] \in {"copy", "write"}, ~cli[q].enable
          PROVE  Depleted(Updated(rows'[cli[q].email], cli[q]), now)
      <3>. DEFINE c == cli[q]
                  e == cli[q].email
      <3>1. View(q) /\ c \in Sound /\ e \in DOMAIN rows
        BY <2>1, AtHand DEF ServeInv
      <3>2. Depleted(Updated(rows[e], c), now)
        BY <2>1, <3>1 DEF View
      <3>4. /\ rows[e] \in TrafficRow /\ rows'[e] \in TrafficRow /\ rows[e].used <= rows'[e].used
        BY <3>1, MeteredRow DEF TrafficRow
      <3>. HIDE DEF c, e
      <3>5. /\ Updated(rows[e], c) \in TrafficRow /\ Updated(rows'[e], c) \in TrafficRow
            /\ Updated(rows'[e], c).total = Updated(rows[e], c).total
            /\ Updated(rows'[e], c).expiry = Updated(rows[e], c).expiry
            /\ Updated(rows[e], c).used <= Updated(rows'[e], c).used
        BY <3>1, <3>4, UpdatedRow
      <3>6. Depleted(Updated(rows'[e], c), now)
        BY <1>2, <3>2, <3>5, DepletedStays
      <3>. QED
        BY <3>6 DEF c, e
    <2>. QED
      BY <1>1, <2>1 DEF ServeInv, View, Present
  <1>. QED
    BY <1>6, <1>7 DEF ServeInv

LEMMA ServeTick ==
  ASSUME StoreInv, ServeInv, Solo, Tick
  PROVE  ServeInv'
  <1>. Types /\ ClientSide /\ Tables
    BY DEF StoreInv, GrantInv, ServeInv
  <1>1. /\ UNCHANGED <<settings, rows, grants, pc, ord, cli, inb>>
        /\ now \in Nat /\ now' = now + 1
    BY DEF Tick, store, local, history, Types
  <1>2. Leaving' = Leaving
    BY <1>1 DEF Leaving
  <1>3. \A row \in TrafficRow : Depleted(row, now) => Depleted(row, now')
    <2>. TAKE row \in TrafficRow
    <2>1. row.used \in Nat /\ now' \in Nat /\ now <= now'
      BY <1>1 DEF TrafficRow
    <2>. QED
      BY <1>1, <2>1, DepletedStays
  <1>4. Tables'
    <2>1. \A e \in DOMAIN rows : rows[e] \in TrafficRow
      BY DEF ClientSide
    <2>. QED
      BY <1>1, <1>2, <1>3, <2>1 DEF Tables
  <1>5. ASSUME NEW q \in Procs PROVE View(q)'
    <2>1. pc[q] \in {"copy", "write"} => Updated(rows[cli[q].email], cli[q]) \in TrafficRow
      BY AtHand
    <2>. QED
      BY <1>1, <1>3, <2>1 DEF ServeInv, View, Present
  <1>. QED
    BY <1>4, <1>5 DEF ServeInv

LEMMA ServeStep ==
  ASSUME BoundInv, StoreInv, MaxActive = 1, ServeInv, [Next]_vars
  PROVE  ServeInv'
  <1>. Types /\ ClientSide
    BY DEF StoreInv, GrantInv
  <1>. USE DEF store, outside, local, jobs, history
  <1>1. CASE UNCHANGED vars
    BY <1>1, ServeAside DEF vars
  <1>2. ASSUME NEW p \in Workers, Handler(p) PROVE ServeInv'
    <2>. p \in Procs /\ Coherent(p)
      BY DEF Procs, StoreInv, GrantInv
    <2>1. ASSUME NEW b \in Buyers, NEW plan \in Plans, NEW bufpay \in BOOLEAN,
                 CreateOrder(p, b, plan, bufpay)
          PROVE  ServeInv'
      <3>1. Goto(p, "insert") /\ pc[p] = "idle" /\ UNCHANGED <<settings, rows, grants, now, cli, inb>>
        BY <2>1 DEF CreateOrder, CanStart
      <3>2. pc'[p] = "insert" /\ \A q \in Procs \ {p} : pc'[q] = pc[q] /\ ord'[q] = ord[q]
        BY <2>1, <3>1, GotoFrame DEF CreateOrder, Places
      <3>. QED
        BY <3>1, <3>2, ServeQuiet DEF Touching
    <2>2. CASE InsertOrder(p)
      <3>1. pc[p] = "insert" /\ UNCHANGED <<settings, rows, grants, now>>
        BY <2>2 DEF InsertOrder
      <3>2. CASE Return(p)
        BY <3>1, <3>2, ServeAside
      <3>3. CASE Goto(p, "pay") /\ UNCHANGED <<cli, inb>> /\ \A q \in Procs \ {p} : ord'[q] = ord[q]
        <4>1. pc'[p] = "pay" /\ \A q \in Procs \ {p} : pc'[q] = pc[q]
          BY <3>3, GotoFrame DEF Places
        <4>. QED
          BY <3>1, <3>3, <4>1, ServeQuiet DEF Touching
      <3>4. Return(p) \/ (Goto(p, "pay") /\ UNCHANGED <<cli, inb>> /\ \A q \in Procs \ {p} : ord'[q] = ord[q])
        BY <2>2 DEF InsertOrder, Types
      <3>. QED
        BY <3>2, <3>3, <3>4
    <2>3. CASE CreatePayment(p) \/ SaveOrderAoid(p)
      BY <2>3, ServeAside DEF CreatePayment, SaveOrderAoid, Places, Touching
    <2>4. CASE ShowQr(p)
      BY <2>4, ServeAside DEF ShowQr
    <2>5. CASE PaymentUnusable(p)
      BY <2>5, ServeAside DEF PaymentUnusable, Holds, Handlers, Places, Touching
    <2>6. ASSUME NEW id \in DOMAIN orders,
                 \/ AdminApproves(p, id) \/ AdminRejects(p, id)
                 \/ BuyerCancels(p, id) \/ AdminRevokes(p, id)
          PROVE  ServeInv'
      BY <2>6, ServeAside
         DEF AdminApproves, AdminRejects, BuyerCancels, AdminRevokes, CanStart, Handlers, Places, Touching
    <2>7. ASSUME NEW id \in DOMAIN orders, BufPayNotify(p, id) PROVE ServeInv'
      BY <2>7, ServeAside DEF BufPayNotify, CanStart, Handlers, Places, Touching
    <2>8. ASSUME NEW b \in Buyers, DeleteClient(p, b) PROVE ServeInv'
      <3>1. pc[p] = "idle" /\ CanStart(p)
        BY <2>8 DEF DeleteClient, CanStart
      <3>. QED
        BY <2>8, <3>1, MovesAlone, ServeDelete
    <2>9. CASE DropClient(p)
      <3>1. Alone(p)
        BY <2>9, MovesAlone DEF DropClient
      <3>. QED
        BY <2>9, <3>1, ServeDrop
    <2>. QED
      BY <1>2, <2>1, <2>2, <2>3, <2>4, <2>5, <2>6, <2>7, <2>8, <2>9 DEF Handler
  <1>3. ASSUME NEW p \in Procs, Approval(p) PROVE ServeInv'
    <2>0. pc[p] # "idle" => Alone(p)
      BY MovesAlone
    <2>1. CASE LoadClient(p)
      <3>1. pc[p] # "idle"
        BY <2>1 DEF LoadClient
      <3>. QED
        BY <2>0, <2>1, <3>1, ServeLoad
    <2>2. CASE CopyForUpdate(p)
      <3>1. pc[p] # "idle"
        BY <2>2 DEF CopyForUpdate
      <3>. QED
        BY <2>0, <2>2, <3>1, ServeCopy
    <2>3. CASE WriteClient(p)
      <3>1. pc[p] # "idle"
        BY <2>3 DEF WriteClient
      <3>. QED
        BY <2>0, <2>3, <3>1, ServeWrite
    <2>4. CASE CheckDuplicate(p)
      <3>1. pc[p] # "idle"
        BY <2>4 DEF CheckDuplicate
      <3>. QED
        BY <2>0, <2>4, <3>1, ServeDup
    <2>5. CASE CopyForAdd(p)
      <3>1. pc[p] # "idle"
        BY <2>5 DEF CopyForAdd
      <3>. QED
        BY <2>0, <2>5, <3>1, ServeCopyAdd
    <2>6. CASE AddClient(p)
      <3>1. pc[p] # "idle"
        BY <2>6 DEF AddClient
      <3>. QED
        BY <2>0, <2>6, <3>1, ServeAdd
    <2>7. CASE DbFails(p)
      BY <2>7, ServeAside, ServeGivenUp DEF DbFails
    <2>8. CASE SaveOrder(p) \/ SaveFails(p)
      BY <2>8, ServeAside DEF SaveOrder, SaveFails
    <2>. QED
      BY <1>3, <2>1, <2>2, <2>3, <2>4, <2>5, <2>6, <2>7, <2>8 DEF Approval
  <1>4. ASSUME NEW j \in Jobs, Job(j) PROVE ServeInv'
    <2>. j \in Procs
      BY DEF Procs
    <2>1. CASE StartJob(j)
      BY <2>1, ServeAside DEF StartJob, CanStart, Places, Touching
    <2>2. ASSUME NEW id \in 1..MaxOrders, Poll(j, id) PROVE ServeInv'
      BY <2>2, ServeAside DEF Poll, Holds, Handlers, Places, Touching
    <2>3. CASE PollFails(j) \/ Expire(j)
      BY <2>3, ServeAside DEF PollFails, Expire
    <2>4. CASE EndRound(j)
      BY <2>4, ServeAside DEF EndRound, Places, Touching
    <2>. QED
      BY <1>4, <2>1, <2>2, <2>3, <2>4 DEF Job
  <1>5. CASE Environment
    <2>1. CASE \E sn \in Serials : BuyerPays(sn)
      BY <2>1, ServeAside DEF BuyerPays
    <2>2. CASE \E emails \in SUBSET (DOMAIN rows \ {House}) : emails # {} /\ AddTraffic(emails)
      BY <2>2, ServeTraffic, SoloHolds
    <2>3. CASE ClearOrders \/ ToggleReady
      BY <2>3, ServeAside DEF ClearOrders, ToggleReady
    <2>. QED
      BY <1>5, <2>1, <2>2, <2>3, ServeTick, SoloHolds DEF Environment
  <1>. QED
    BY <1>1, <1>2, <1>3, <1>4, <1>5 DEF Next

LEMMA ServeStart == Init => ServeInv
  <1>. SUFFICES ASSUME Init PROVE ServeInv
    OBVIOUS
  <1>1. settings = <<HouseClient>> /\ DOMAIN settings = {1} /\ settings[1] = HouseClient
    BY DEF Init, Fresh
  <1>2. \A p \in Procs : pc[p] = "idle"
    BY DEF Init, Fresh
  <1>3. AllEmails(settings) = {House} /\ Leaving = {}
    BY <1>1, <1>2 DEF AllEmails, HouseClient, Leaving
  <1>4. NoTwins(settings) /\ \A i \in DOMAIN settings : Issued(grants, settings[i].id)
    BY <1>1 DEF NoTwins, Issued, HouseClient
  <1>5. DOMAIN rows = {House} /\ now = 1
    BY DEF Init, Fresh
  <1>. QED
    BY <1>2, <1>3, <1>4, <1>5 DEF ServeInv, Tables, View

LEMMA ServeAlways == MaxActive = 1 => (Spec => []ServeInv)
  <1>. SUFFICES ASSUME MaxActive = 1 PROVE Spec => []ServeInv
    OBVIOUS
  <1>1. BoundInv /\ StoreInv /\ ServeInv /\ [Next]_vars => ServeInv'
    BY ServeStep
  <1>. QED
    BY <1>1, ServeStart, BoundAlways, StoreAlways, PTL DEF Spec

\* As long as no two handlers overlap, a buyer with quota and days left is served
\* whenever no handler is at work: his client is in both tables and switched on in
\* both, after any sequence of approvals, revocations, failed transactions,
\* deletions and traffic (extendExistingClient, revokeAdjustment, AddTraffic).
THEOREM PaidIsServed == MaxActive = 1 => (Spec => []ServedWhilePaid)
  <1>. SUFFICES ASSUME MaxActive = 1 PROVE Spec => []ServedWhilePaid
    OBVIOUS
  <1>1. ASSUME StoreInv, ServeInv PROVE ServedWhilePaid
    <2>. SUFFICES ASSUME NEW e \in DOMAIN rows \ {House}, Active = {}, ~Depleted(rows[e], now)
                  PROVE  /\ rows[e].enable /\ ClientKnown(settings, rows, e)
                         /\ ClientByEmail(settings, e).enable
      BY DEF ServedWhilePaid
    <2>1. e \in AllEmails(settings) /\ settings \in Seq(Sound)
      BY <1>1 DEF ServeInv, Tables, StoreInv, ClientSide
    <2>2. ClientKnown(settings, rows, e)
      BY <2>1, ByEmail DEF ClientKnown
    <2>. QED
      BY <1>1, <2>2 DEF ServeInv, Tables
  <1>. QED
    BY <1>1, ServeAlways, StoreAlways, PTL

-----------------------------------------------------------------------------
(* The books.  Nothing is cleared or deleted and no transaction fails: the *)
(* bounds of Shop that switch these off are 0.                             *)

Calm == MaxActive = 1 /\ MaxClears = 0 /\ MaxDeletes = 0 /\ MaxDbErrors = 0

LEMMA NoTrouble ==
  ASSUME Calm, StoreInv, BookInv
  PROVE  /\ ~ClearOrders
         /\ \A p \in Procs : ~DbFails(p) /\ ~SaveFails(p) /\ ~DropClient(p)
         /\ \A p \in Procs, b \in Buyers : ~DeleteClient(p, b)
  <1>1. spent.clears \in Nat /\ spent.deletes \in Nat /\ spent.errors \in Nat
    BY DEF StoreInv, OutSide
  <1>2. ~(spent.clears < MaxClears) /\ ~(spent.deletes < MaxDeletes) /\ ~(spent.errors < MaxDbErrors)
    BY <1>1 DEF Calm
  <1>. QED
    BY <1>2 DEF ClearOrders, DbFails, SaveFails, DropClient, DeleteClient, BookInv, Exact

\* The ids of the table.
LEMMA NextNumber ==
  ASSUME StoreInv, Numbers
  PROVE  /\ born \in Nat /\ born <= MaxOrders /\ MaxOrders \in Nat /\ NextId = born + 1
         /\ DOMAIN orders \subseteq Serials
         /\ \A i \in DOMAIN orders : orders[i] \in Order
  <1>1. born \in Nat /\ born <= MaxOrders /\ MaxOrders \in Nat
    BY ShopAssumption DEF StoreInv, OrderSide
  <1>2. NextId = born + 1
    <2>1. CASE orders = << >>
      <3>1. 1 .. born = {}
        BY <2>1 DEF Numbers
      <3>2. born = 0
        BY <1>1, <3>1
      <3>. QED
        BY <2>1, <3>2 DEF NextId
    <2>2. CASE orders # << >>
      <3>0. orders \in [DOMAIN orders -> Sold]
        BY DEF StoreInv, OrderSide
      <3>1. DOMAIN orders # {}
        BY <2>2, <3>0
      <3>2. born \in DOMAIN orders /\ \A j \in DOMAIN orders : j <= born
        BY <1>1, <3>1 DEF Numbers
      <3>. DEFINE top == CHOOSE i \in DOMAIN orders : \A j \in DOMAIN orders : j <= i
      <3>3. top \in DOMAIN orders /\ \A j \in DOMAIN orders : j <= top
        BY <3>2
      <3>4. NextId = 1 + top
        BY <2>2 DEF NextId
      <3>. HIDE DEF top
      <3>5. top = born
        BY <1>1, <3>2, <3>3 DEF Numbers
      <3>. QED
        BY <1>1, <3>4, <3>5
    <2>. QED
      BY <2>1, <2>2
  <1>3. \A i \in DOMAIN orders : orders[i] \in Order
    BY DEF StoreInv, OrderSide, Sold
  <1>. QED
    BY <1>1, <1>2, <1>3 DEF Numbers, Serials

\* The handler at work is where its copy matters in none of these places.
Careful == Approving \cup {"insert", "drop"}

LEMMA BookQuiet ==
  ASSUME BookInv, UNCHANGED <<orders, born, settings, rows>>,
         \A q \in Procs : pc'[q] \in Careful =>
            pc[q] = pc'[q] /\ op'[q] = op[q] /\ oid'[q] = oid[q] /\ ord'[q] = ord[q] /\ cli'[q] = cli[q]
  PROVE  BookInv'
  <1>1. Numbers'
    BY DEF BookInv, Numbers
  <1>2. ASSUME NEW q \in Procs PROVE Exact(q)'
    <2>1. CASE pc'[q] \in Careful
      BY <2>1 DEF BookInv, Exact, Quota, Used, Careful, Approving
    <2>2. CASE pc'[q] \notin Careful
      BY <2>2 DEF Exact, Careful, Approving
    <2>. QED
      BY <2>1, <2>2
  <1>. QED
    BY <1>1, <1>2 DEF BookInv

\* Nobody but p holds anything the books depend on.
LEMMA BookAlone ==
  ASSUME NEW p \in Procs, Alone(p), \A q \in Procs \ {p} : pc'[q] = pc[q],
         Numbers', Exact(p)'
  PROVE  BookInv'
  BY DEF BookInv, Alone, Exact, Approving

LEMMA BookAside ==
  ASSUME StoreInv, BookInv, UNCHANGED <<orders, born, settings, rows>>,
         \/ UNCHANGED <<pc, op, oid, ord, cli>>
         \/ \E p \in Procs : Return(p)
         \/ /\ UNCHANGED <<op, oid, ord, cli>>
            /\ \E p \in Procs : \E place \in Places \ Careful : Goto(p, place)
  PROVE  BookInv'
  <1>. Types
    BY DEF StoreInv, GrantInv
  <1>1. CASE UNCHANGED <<pc, op, oid, ord, cli>>
    BY <1>1, BookQuiet
  <1>2. ASSUME NEW p \in Procs, Return(p) PROVE BookInv'
    <2>1. /\ pc'[p] \in {"idle", "poll"}
          /\ \A q \in Procs \ {p} : pc'[q] = pc[q] /\ op'[q] = op[q] /\ ord'[q] = ord[q]
      BY <1>2, ReturnFrame
    <2>2. \A q \in Procs \ {p} : cli'[q] = cli[q] /\ oid'[q] = oid[q]
      BY <1>2 DEF Return
    <2>. QED
      BY <2>1, <2>2, BookQuiet DEF Careful, Approving
  <1>3. ASSUME UNCHANGED <<op, oid, ord, cli>>, NEW p \in Procs,
               NEW place \in Places \ Careful, Goto(p, place)
        PROVE  BookInv'
    <2>1. pc'[p] = place /\ \A q \in Procs \ {p} : pc'[q] = pc[q]
      BY <1>3, GotoFrame
    <2>. QED
      BY <1>3, <2>1, BookQuiet
  <1>. QED
    BY <1>1, <1>2, <1>3

\* A handler reads a row in the status it insists on.
LEMMA BookEnter ==
  ASSUME StoreInv, BookInv, UNCHANGED <<orders, born, settings, rows>>, NEW p \in Procs, Alone(p),
         NEW id \in DOMAIN orders,
         \/ Enter(p, "approve", id, "load") /\ orders[id].status = "pending"
         \/ Enter(p, "reject", id, "save") /\ orders[id].status = "pending"
         \/ Enter(p, "cancel", id, "save") /\ orders[id].status = "pending"
         \/ Enter(p, "revoke", id, "load") /\ orders[id].status = "approved"
  PROVE  BookInv'
  <1>. Types
    BY DEF StoreInv, GrantInv
  <1>1. PICK h \in Settling, place \in {"load", "save"} :
           /\ Enter(p, h, id, place)
           /\ orders[id].status = IF h = "revoke" THEN "approved" ELSE "pending"
           /\ h = "approve" => place = "load"
    BY DEF Settling
  <1>2. h \in Handlers /\ place \in Places
    BY DEF Settling, Handlers, Places
  <1>3. /\ pc'[p] = place /\ op'[p] = h /\ ord'[p] = orders[id]
        /\ \A q \in Procs \ {p} : pc'[q] = pc[q]
    BY <1>1, <1>2, EnterFrame
  <1>4. oid'[p] = id
    BY <1>1 DEF Enter, StoreInv, OrderSide
  <1>5. Numbers'
    BY DEF BookInv, Numbers
  <1>6. Exact(p)'
    BY <1>1, <1>3, <1>4 DEF Exact, Approving
  <1>. QED
    BY <1>3, <1>5, <1>6, BookAlone

-----------------------------------------------------------------------------
(* What the two transactions do to the quotas.                             *)

LEMMA WrittenQuota ==
  ASSUME StoreInv, ServeInv, NEW p \in Procs, Alone(p), WriteClient(p)
  PROVE  /\ ord[p].buyer \in Buyers /\ cli[p].email = ord[p].buyer
         /\ ord[p].buyer \in AllEmails(settings) /\ AllEmails(settings') = AllEmails(settings)
         /\ \A b \in Buyers : Quota(b)' = IF b = ord[p].buyer THEN cli[p].total ELSE Quota(b)
         /\ \A b \in Buyers : Used(b)' = Used(b)
  <1>. DEFINE c == cli[p]
  <1>. ClientSide /\ Coherent(p) /\ Tables /\ View(p)
    BY DEF StoreInv, GrantInv, ServeInv
  <1>1. /\ pc[p] = "write" /\ rows' = UpdateClientStat(rows, c) /\ settings' = WithClient(inb[p], c)
    BY DEF WriteClient
  <1>2. ord[p] \in Sold
    BY <1>1, CopySold DEF Coherent, Routed, Copied, Settling, StoreInv
  <1>3. /\ inb[p] = settings /\ Present(c) /\ c \in Sound /\ settings \in Seq(Sound)
        /\ c.email = ord[p].buyer /\ NoTwins(settings)
    BY <1>1 DEF View, ClientSide, Tables
  <1>4. ord[p].buyer \in Buyers
    BY <1>2 DEF Sold, Order
  <1>. HIDE DEF c
  <1>5. settings' = WithClient(settings, c)
    BY <1>1, <1>3
  <1>6. /\ settings' \in Seq(Sound) /\ AllEmails(settings') = AllEmails(settings)
        /\ ClientByEmail(settings', c.email) = c
        /\ \A x \in AllEmails(settings) \ {c.email} :
              ClientByEmail(settings', x) = ClientByEmail(settings, x)
    BY <1>3, <1>5, ArrayWith DEF Present
  <1>7. ASSUME NEW b \in Buyers
        PROVE  Quota(b)' = IF b = c.email THEN c.total ELSE Quota(b)
    <2>1. PositionsOf(settings, b) = {} <=> b \notin AllEmails(settings)
      BY DEF PositionsOf, AllEmails
    <2>2. PositionsOf(settings', b) = {} <=> b \notin AllEmails(settings')
      BY DEF PositionsOf, AllEmails
    <2>3. Quota(b)' = IF PositionsOf(settings', b) = {} THEN 0 ELSE ClientByEmail(settings', b).total
      BY DEF Quota
    <2>. QED
      BY <1>3, <1>6, <2>1, <2>2, <2>3 DEF Quota, Present
  <1>8. ASSUME NEW b \in Buyers PROVE Used(b)' = Used(b)
    <2>1. DOMAIN rows' = DOMAIN rows
      BY <1>1 DEF UpdateClientStat
    <2>2. ASSUME b \in DOMAIN rows PROVE rows'[b].used = rows[b].used
      <3>1. rows[b] \in TrafficRow
        BY <2>2 DEF ClientSide
      <3>2. rows'[b] = IF b = c.email THEN Updated(rows[b], c) ELSE rows[b]
        BY <1>1, <2>2 DEF UpdateClientStat, Updated
      <3>. QED
        BY <1>3, <3>1, <3>2, UpdatedRow
    <2>. QED
      BY <2>1, <2>2 DEF Used
  <1>. QED
    BY <1>3, <1>4, <1>6, <1>7, <1>8 DEF Present, c

LEMMA AddedQuota ==
  ASSUME StoreInv, ServeInv, NEW p \in Procs, Alone(p), AddClient(p)
  PROVE  /\ ord[p].buyer \in Buyers /\ AllEmails(settings') = AllEmails(settings) \cup {ord[p].buyer}
         /\ \A b \in Buyers : Quota(b)' = IF b = ord[p].buyer THEN cli[p].total ELSE Quota(b)
         /\ \A b \in Buyers : Used(b)' = Used(b)
         /\ Quota(ord[p].buyer) = 0
  <1>. DEFINE c == cli[p]
  <1>. Types /\ ClientSide /\ Coherent(p) /\ Tables /\ View(p)
    BY DEF StoreInv, GrantInv, ServeInv
  <1>1. pc[p] = "add" /\ rows' = AddClientStat(rows, c) /\ settings' = Append(inb[p], c)
    BY DEF AddClient
  <1>2. ord[p] \in Sold /\ ord[p].sn \in Serials
    BY <1>1, CopySold DEF Coherent, Routed, Copied, Settling, StoreInv
  <1>3. /\ inb[p] = settings /\ c \in Sound /\ settings \in Seq(Sound) /\ NoTwins(settings)
        /\ c.email = ord[p].buyer /\ c.email \notin AllEmails(settings)
    BY <1>1 DEF View, ClientSide, Tables
  <1>4. ord[p].buyer \in Buyers
    BY <1>2 DEF Sold, Order
  <1>5. Leaving = {} /\ DOMAIN rows = AllEmails(settings)
    BY <1>1, NobodyLeaves DEF Tables
  <1>. HIDE DEF c
  <1>6. DOMAIN settings = 1 .. Len(settings) /\ Len(settings) \in Nat
        /\ settings' = Append(settings, c) /\ settings' \in Seq(Sound)
        /\ DOMAIN settings' = DOMAIN settings \cup {Len(settings) + 1}
        /\ settings'[Len(settings) + 1] = c
        /\ \A i \in DOMAIN settings : settings'[i] = settings[i]
    <2>1. settings' = Append(settings, c)
      BY <1>1, <1>3
    <2>. QED
      BY <1>3, <2>1
  <1>7. AllEmails(settings') = AllEmails(settings) \cup {c.email}
    BY <1>6 DEF AllEmails
  <1>8. \A i \in DOMAIN settings : settings[i].id # c.id
    BY FreshId, <1>1 DEF c
  <1>9. /\ ClientByEmail(settings', c.email) = c
        /\ \A x \in AllEmails(settings) : ClientByEmail(settings', x) = ClientByEmail(settings, x)
    BY <1>3, <1>6, <1>8, ArrayAdd
  <1>10. ASSUME NEW b \in Buyers
         PROVE  Quota(b)' = IF b = c.email THEN c.total ELSE Quota(b)
    <2>1. PositionsOf(settings, b) = {} <=> b \notin AllEmails(settings)
      BY DEF PositionsOf, AllEmails
    <2>2. PositionsOf(settings', b) = {} <=> b \notin AllEmails(settings')
      BY DEF PositionsOf, AllEmails
    <2>3. Quota(b)' = IF PositionsOf(settings', b) = {} THEN 0 ELSE ClientByEmail(settings', b).total
      BY DEF Quota
    <2>. QED
      BY <1>7, <1>9, <2>1, <2>2, <2>3 DEF Quota
  <1>11. ASSUME NEW b \in Buyers PROVE Used(b)' = Used(b)
    <2>1. DOMAIN rows' = DOMAIN rows \cup {c.email}
      BY <1>1 DEF AddClientStat
    <2>2. \A x \in DOMAIN rows : rows'[x] = rows[x]
      BY <1>1 DEF AddClientStat
    <2>3. rows'[c.email].used = 0
      <3>1. c.email \notin DOMAIN rows
        BY <1>3, <1>5
      <3>2. rows'[c.email] = [total |-> c.total, expiry |-> c.expiry, enable |-> c.enable, used |-> 0]
        BY <1>1, <2>1, <3>1 DEF AddClientStat
      <3>. QED
        BY <3>2
    <2>. QED
      BY <1>3, <1>5, <2>1, <2>2, <2>3 DEF Used
  <1>12. Quota(ord[p].buyer) = 0
    BY <1>3, ByEmail DEF Quota
  <1>. QED
    BY <1>3, <1>4, <1>7, <1>10, <1>11, <1>12 DEF c

-----------------------------------------------------------------------------
(* The books stay exact, step by step.                                     *)

LEMMA BookCreate ==
  ASSUME StoreInv, BookInv, NEW p \in Procs, Alone(p), NEW b \in Buyers, NEW plan \in Plans,
         NEW bufpay \in BOOLEAN, CreateOrder(p, b, plan, bufpay)
  PROVE  BookInv'
  <1>. Types
    BY DEF StoreInv, GrantInv
  <1>1. UNCHANGED <<orders, settings, born>> /\ Goto(p, "insert")
    BY DEF CreateOrder, store, history
  <1>2. pc'[p] = "insert" /\ \A q \in Procs \ {p} : pc'[q] = pc[q]
    BY <1>1, GotoFrame DEF Places
  <1>3. ord'[p].gb = plan.gb
    BY DEF CreateOrder, Types
  <1>4. Numbers'
    BY <1>1 DEF BookInv, Numbers
  <1>5. Exact(p)'
    BY <1>2, <1>3 DEF Exact, Approving, Gbs
  <1>. QED
    BY <1>2, <1>4, <1>5, BookAlone

LEMMA InsertedRow ==
  ASSUME StoreInv, BookInv, NEW p \in Procs, InsertOrder(p)
  PROVE  /\ born' = born + 1 /\ born + 1 \in Serials /\ DOMAIN orders' = 1 .. born + 1
         /\ orders'[born + 1] = [ord[p] EXCEPT !.sn = born + 1]
         /\ \A i \in 1 .. born : orders'[i] = orders[i]
         /\ ord[p] \in Order /\ ord[p].gb \in Gbs /\ ord[p].status = "pending"
  <1>1. pc[p] = "insert" /\ born' = born + 1 /\ born < MaxOrders
        /\ orders' = Put(NextId, [ord[p] EXCEPT !.sn = born + 1])
    BY DEF InsertOrder
  <1>2. /\ NextId = born + 1 /\ born \in Nat /\ MaxOrders \in Nat /\ DOMAIN orders = 1 .. born
    BY NextNumber DEF BookInv, Numbers
  <1>3. op[p] = "create" /\ ord[p] \in Order /\ ord[p].status = "pending" /\ ord[p].gb \in Gbs
    BY <1>1 DEF StoreInv, GrantInv, Coherent, Routed, Copied, BookInv, Exact
  <1>4. (1 .. born) \cup {born + 1} = 1 .. born + 1 /\ born + 1 \in Serials
    BY <1>1, <1>2 DEF Serials
  <1>5. DOMAIN orders' = (1 .. born) \cup {born + 1}
        /\ orders'[born + 1] = [ord[p] EXCEPT !.sn = born + 1]
    BY <1>1, <1>2 DEF Put
  <1>6. \A i \in 1 .. born : orders'[i] = orders[i]
    <2>. TAKE i \in 1 .. born
    <2>1. i # born + 1 /\ i \in DOMAIN orders \cup {NextId}
      BY <1>2
    <2>. QED
      BY <1>1, <1>2, <2>1 DEF Put
  <1>. QED
    BY <1>1, <1>3, <1>4, <1>5, <1>6

LEMMA BookInsert ==
  ASSUME StoreInv, BookInv, NEW p \in Procs, Alone(p), InsertOrder(p)
  PROVE  BookInv'
  <1>. Types
    BY DEF StoreInv, GrantInv
  <1>. DEFINE row == [ord[p] EXCEPT !.sn = born + 1]
  <1>1. row.sn = born + 1 /\ row.gb \in Gbs /\ row.status = "pending"
    BY InsertedRow DEF Order
  <1>. HIDE DEF row
  <1>2. /\ born' = born + 1 /\ born \in Nat /\ DOMAIN orders = 1 .. born
        /\ DOMAIN orders' = 1 .. born + 1 /\ orders'[born + 1] = row
        /\ \A i \in 1 .. born : orders'[i] = orders[i]
        /\ UNCHANGED settings
    BY InsertedRow, NextNumber DEF BookInv, Numbers, row, InsertOrder
  <1>3. Numbers'
    <2>. SUFFICES ASSUME NEW i \in 1 .. born + 1
                  PROVE  /\ orders'[i].sn = i /\ orders'[i].gb \in Gbs
                         /\ orders'[i].status = "approved" =>
                               orders'[i].buyer \in AllEmails(settings')
      BY <1>2 DEF Numbers
    <2>1. CASE i = born + 1
      BY <1>1, <1>2, <2>1
    <2>2. CASE i # born + 1
      <3>1. i \in 1 .. born
        BY <1>2, <2>2
      <3>. QED
        BY <1>2, <3>1 DEF BookInv, Numbers
    <2>. QED
      BY <2>1, <2>2
  <1>4. pc'[p] \in {"idle", "poll", "pay"} /\ \A q \in Procs \ {p} : pc'[q] = pc[q]
    BY ReturnFrame, GotoFrame DEF InsertOrder, Places
  <1>5. Exact(p)'
    BY <1>4 DEF Exact, Approving
  <1>. QED
    BY <1>3, <1>4, <1>5, BookAlone

LEMMA BookAoid ==
  ASSUME StoreInv, BookInv, NEW p \in Procs, Alone(p), SaveOrderAoid(p)
  PROVE  BookInv'
  <1>. Types
    BY DEF StoreInv, GrantInv
  <1>1. /\ DOMAIN orders' = DOMAIN orders /\ UNCHANGED <<settings, born>>
        /\ \A i \in DOMAIN orders : /\ orders'[i].sn = orders[i].sn /\ orders'[i].gb = orders[i].gb
                                    /\ orders'[i].status = orders[i].status
                                    /\ orders'[i].buyer = orders[i].buyer
    BY DEF SaveOrderAoid, Types, Order, history
  <1>2. pc'[p] = "show" /\ \A q \in Procs \ {p} : pc'[q] = pc[q]
    BY GotoFrame DEF SaveOrderAoid, Places
  <1>3. Numbers'
    BY <1>1 DEF BookInv, Numbers
  <1>4. Exact(p)'
    BY <1>2 DEF Exact, Approving
  <1>. QED
    BY <1>2, <1>3, <1>4, BookAlone

LEMMA BookExpire ==
  ASSUME StoreInv, BookInv, NEW j \in Jobs, Alone(j), Expire(j)
  PROVE  BookInv'
  <1>. Types /\ j \in Procs
    BY DEF StoreInv, GrantInv, Procs
  <1>1. /\ DOMAIN orders' = DOMAIN orders /\ UNCHANGED <<settings, born>>
        /\ \A i \in DOMAIN orders : /\ orders'[i].sn = orders[i].sn /\ orders'[i].gb = orders[i].gb
                                    /\ orders'[i].status \in {orders[i].status, "expired"}
                                    /\ orders'[i].buyer = orders[i].buyer
    BY DEF Expire, Types, Order, history
  <1>2. pc'[j] \in {"idle", "poll"} /\ \A q \in Procs \ {j} : pc'[q] = pc[q]
    BY ReturnFrame DEF Expire
  <1>3. Numbers'
    BY <1>1 DEF BookInv, Numbers
  <1>4. Exact(j)'
    BY <1>2 DEF Exact, Approving
  <1>. QED
    BY <1>2, <1>3, <1>4, BookAlone

\* The row that a Save writes back.
LEMMA SavedRow ==
  ASSUME StoreInv, BookInv, NEW p \in Procs, SaveOrder(p)
  PROVE  /\ op[p] \in Settling /\ oid[p] \in DOMAIN orders /\ ord[p] = orders[oid[p]]
         /\ ord[p].sn = oid[p]
         /\ ord[p].status = IF op[p] = "revoke" THEN "approved" ELSE "pending"
         /\ DOMAIN orders' = DOMAIN orders
         /\ \A i \in DOMAIN orders \ {oid[p]} : orders'[i] = orders[i]
         /\ orders'[oid[p]] = Closed(ord[p], op[p])
         /\ LET row == Closed(ord[p], op[p]) IN
               /\ row.sn = ord[p].sn /\ row.buyer = ord[p].buyer /\ row.gb = ord[p].gb
               /\ row.status = IF op[p] = "approve" THEN "approved"
                               ELSE IF op[p] = "revoke" THEN "revoked" ELSE "rejected"
  <1>1. /\ op[p] \in Settling /\ ord[p] \in Order /\ pc[p] = "save"
        /\ orders' = Put(oid[p], Closed(ord[p], op[p]))
    BY DEF SaveOrder, StoreInv, GrantInv, Coherent, Routed, Copied
  <1>2. /\ oid[p] \in DOMAIN orders /\ ord[p] = orders[oid[p]] /\ ord[p].sn = oid[p]
        /\ ord[p].status = IF op[p] = "revoke" THEN "approved" ELSE "pending"
    BY <1>1 DEF BookInv, Exact, Approving, Numbers
  <1>. DEFINE row == Closed(ord[p], op[p])
  <1>3. /\ row.sn = ord[p].sn /\ row.buyer = ord[p].buyer /\ row.gb = ord[p].gb
        /\ row.status = IF op[p] = "approve" THEN "approved"
                        ELSE IF op[p] = "revoke" THEN "revoked" ELSE "rejected"
    BY <1>1 DEF Closed, Settling, Order
  <1>. HIDE DEF row
  <1>4. /\ DOMAIN orders' = DOMAIN orders /\ orders'[oid[p]] = row
        /\ \A i \in DOMAIN orders \ {oid[p]} : orders'[i] = orders[i]
    BY <1>1, <1>2 DEF Put, row
  <1>. QED
    BY <1>1, <1>2, <1>3, <1>4 DEF row

LEMMA BookSave ==
  ASSUME StoreInv, BookInv, NEW p \in Procs, Alone(p), SaveOrder(p)
  PROVE  BookInv'
  <1>. Types
    BY DEF StoreInv, GrantInv
  <1>. DEFINE row == Closed(ord[p], op[p])
  <1>1. /\ oid[p] \in DOMAIN orders /\ ord[p] = orders[oid[p]] /\ ord[p].sn = oid[p]
        /\ DOMAIN orders' = DOMAIN orders /\ orders'[oid[p]] = row
        /\ \A i \in DOMAIN orders \ {oid[p]} : orders'[i] = orders[i]
        /\ row.sn = ord[p].sn /\ row.buyer = ord[p].buyer /\ row.gb = ord[p].gb
        /\ row.status = "approved" => op[p] = "approve"
    BY SavedRow
  <1>. HIDE DEF row
  <1>2. pc[p] = "save" /\ UNCHANGED <<settings, born>>
    BY DEF SaveOrder, history
  <1>3. op[p] = "approve" => ord[p].buyer \in AllEmails(settings)
    BY <1>2 DEF BookInv, Exact
  <1>4. Numbers'
    BY <1>1, <1>2, <1>3 DEF BookInv, Numbers
  <1>5. pc'[p] \in {"idle", "poll"} /\ \A q \in Procs \ {p} : pc'[q] = pc[q]
    BY ReturnFrame DEF SaveOrder
  <1>6. Exact(p)'
    BY <1>5 DEF Exact, Approving
  <1>. QED
    BY <1>4, <1>5, <1>6, BookAlone

\* A revocation finds the client of its buyer.
LEMMA KnownToRevoke ==
  ASSUME StoreInv, ServeInv, BookInv, NEW p \in Procs, Alone(p), pc[p] = "load", op[p] = "revoke"
  PROVE  ClientKnown(settings, rows, ord[p].buyer)
  <1>. DEFINE e == ord[p].buyer
  <1>1. oid[p] \in DOMAIN orders /\ ord[p] = orders[oid[p]] /\ ord[p].status = "approved"
    BY DEF BookInv, Exact, Approving
  <1>2. e \in AllEmails(settings)
    BY <1>1 DEF BookInv, Numbers
  <1>3. Leaving = {}
    BY NobodyLeaves
  <1>4. PositionsOf(settings, e) # {}
    BY <1>2 DEF PositionsOf, AllEmails
  <1>. QED
    BY <1>2, <1>3, <1>4 DEF ServeInv, Tables, ClientKnown

LEMMA BookLoad ==
  ASSUME StoreInv, ServeInv, BookInv, NEW p \in Procs, Alone(p), LoadClient(p)
  PROVE  BookInv'
  <1>. DEFINE e == ord[p].buyer
              c == ClientByEmail(settings, e)
  <1>. Types /\ ClientSide /\ Coherent(p) /\ Exact(p)
    BY DEF StoreInv, GrantInv, BookInv
  <1>1. pc[p] = "load" /\ UNCHANGED <<orders, settings, rows, born, op, oid, ord>>
    BY DEF LoadClient, store, history
  <1>2. op[p] \in {"approve", "revoke"} /\ ord[p] \in Sold /\ e \in Buyers
    BY <1>1, CopySold DEF Coherent, Routed, Copied, Settling, StoreInv, Sold, Order
  <1>3. /\ oid[p] \in DOMAIN orders /\ ord[p] = orders[oid[p]]
        /\ ord[p].status = IF op[p] = "revoke" THEN "approved" ELSE "pending"
    BY <1>1 DEF Exact, Approving
  <1>4. op[p] = "revoke" => ClientKnown(settings, rows, e)
    BY <1>1, KnownToRevoke
  <1>5. Numbers'
    BY <1>1 DEF BookInv, Numbers
  <1>6. CASE ~ClientKnown(settings, rows, e)
    <2>1. op[p] = "approve" /\ Goto(p, "dup")
      BY <1>2, <1>4, <1>6 DEF LoadClient
    <2>2. pc'[p] = "dup" /\ \A q \in Procs \ {p} : pc'[q] = pc[q]
      BY <2>1, GotoFrame DEF Places
    <2>3. Exact(p)'
      BY <1>1, <1>3, <2>2 DEF Exact
    <2>. QED
      BY <1>5, <2>2, <2>3, BookAlone
  <1>7. CASE ClientKnown(settings, rows, e)
    <2>. DEFINE d == IF op[p] = "approve" THEN Extended(c, ord[p])
                     ELSE Revoked(c, ord[p], rows[e].used)
    <2>1. settings \in Seq(Sound) /\ PositionsOf(settings, e) # {} /\ e \in DOMAIN rows
      BY <1>7 DEF ClientSide, ClientKnown
    <2>2. c \in Sound /\ rows[e] \in TrafficRow
      BY <2>1, FoundClient DEF ClientSide
    <2>3. Quota(e) = c.total /\ Used(e) = rows[e].used
      BY <2>1 DEF Quota, Used
    <2>4. cli' = [cli EXCEPT ![p] = d] /\ Goto(p, "copy")
      BY <1>7 DEF LoadClient
    <2>5. pc'[p] = "copy" /\ \A q \in Procs \ {p} : pc'[q] = pc[q]
      BY <2>4, GotoFrame DEF Places
    <2>6. cli'[p] = d
      BY <2>4 DEF ClientSide
    <2>. HIDE DEF c, e
    <2>7. op[p] = "approve" => d.total = Quota(e) + ord[p].gb
      BY <2>2, <2>3 DEF Extended, Sound, Client
    <2>8. op[p] = "revoke" => \E reading \in 0 .. Used(e) :
                                 d.total = Ledger!Clamp(Quota(e) - ord[p].gb, reading)
      <3>. SUFFICES ASSUME op[p] = "revoke"
                    PROVE  d.total = Ledger!Clamp(Quota(e) - ord[p].gb, Used(e)) /\ Used(e) \in 0 .. Used(e)
        OBVIOUS
      <3>1. c.total \in Nat /\ ord[p].gb \in Nat /\ rows[e].used \in Nat
        BY <1>2, <2>2 DEF Sound, Client, Sold, Order, TrafficRow
      <3>2. d.total = MaxOf(MaxOf(c.total - ord[p].gb, rows[e].used), 1)
        BY <2>2 DEF Revoked, Sound, Client
      <3>. QED
        BY <2>3, <3>1, <3>2 DEF MaxOf, Ledger!Clamp
    <2>. HIDE DEF d
    <2>9. (Quota(e) = Quota(e)') /\ (Used(e) = Used(e)')
      BY <1>1 DEF Quota, Used, e
    <2>10. Exact(p)'
      BY <1>1, <1>3, <2>5, <2>6, <2>7, <2>8, <2>9 DEF Exact, e
    <2>. QED
      BY <1>5, <2>5, <2>10, BookAlone
  <1>. QED
    BY <1>6, <1>7

LEMMA BookCopy ==
  ASSUME StoreInv, BookInv, NEW p \in Procs, Alone(p), CopyForUpdate(p)
  PROVE  BookInv'
  <1>. Types /\ Exact(p)
    BY DEF StoreInv, GrantInv, BookInv
  <1>1. pc[p] = "copy" /\ UNCHANGED <<orders, settings, rows, born>>
    BY DEF CopyForUpdate, store, history
  <1>2. CASE Return(p)
    BY <1>1, <1>2, BookAside
  <1>3. CASE \E place \in {"dup", "write"} : Goto(p, place) /\ UNCHANGED <<op, oid, ord>>
                                             /\ (place = "write" => UNCHANGED cli)
    <2>1. PICK place \in {"dup", "write"} : Goto(p, place) /\ (place = "write" => UNCHANGED cli)
      BY <1>3
    <2>2. pc'[p] = place /\ \A q \in Procs \ {p} : pc'[q] = pc[q]
      BY <2>1, GotoFrame DEF Places
    <2>3. Exact(p)'
      BY <1>1, <1>3, <2>1, <2>2 DEF Exact, Approving, Quota, Used
    <2>4. Numbers'
      BY <1>1 DEF BookInv, Numbers
    <2>. QED
      BY <2>2, <2>3, <2>4, BookAlone
  <1>. QED
    BY <1>2, <1>3 DEF CopyForUpdate, UpdateFailed

LEMMA BookDup ==
  ASSUME StoreInv, BookInv, NEW p \in Procs, Alone(p), CheckDuplicate(p)
  PROVE  BookInv'
  <1>. Types /\ Exact(p)
    BY DEF StoreInv, GrantInv, BookInv
  <1>1. pc[p] = "dup" /\ UNCHANGED <<orders, settings, rows, born>>
    BY DEF CheckDuplicate, store, history
  <1>2. CASE Return(p)
    BY <1>1, <1>2, BookAside
  <1>3. CASE Goto(p, "copyAdd") /\ UNCHANGED <<op, oid, ord, cli>>
    <2>1. pc'[p] = "copyAdd" /\ \A q \in Procs \ {p} : pc'[q] = pc[q]
      BY <1>3, GotoFrame DEF Places
    <2>2. Exact(p)'
      BY <1>1, <1>3, <2>1 DEF Exact, Approving
    <2>3. Numbers'
      BY <1>1 DEF BookInv, Numbers
    <2>. QED
      BY <2>1, <2>2, <2>3, BookAlone
  <1>. QED
    BY <1>2, <1>3 DEF CheckDuplicate, local

LEMMA BookCopyAdd ==
  ASSUME StoreInv, BookInv, NEW p \in Procs, Alone(p), CopyForAdd(p)
  PROVE  BookInv'
  <1>. Types /\ Exact(p) /\ Coherent(p)
    BY DEF StoreInv, GrantInv, BookInv
  <1>1. pc[p] = "copyAdd" /\ UNCHANGED <<orders, settings, rows, born, op, oid, ord>>
    BY DEF CopyForAdd, store, history
  <1>2. pc'[p] = "add" /\ \A q \in Procs \ {p} : pc'[q] = pc[q]
    BY GotoFrame DEF CopyForAdd, Places
  <1>3. cli'[p].total = ord[p].gb
    BY DEF CopyForAdd, BuildShopClient, StoreInv, ClientSide
  <1>4. Exact(p)'
    BY <1>1, <1>2, <1>3 DEF Exact, Approving
  <1>5. Numbers'
    BY <1>1 DEF BookInv, Numbers
  <1>. QED
    BY <1>2, <1>4, <1>5, BookAlone

LEMMA BookGrant ==
  ASSUME StoreInv, ServeInv, BookInv, NEW p \in Procs, Alone(p), WriteClient(p) \/ AddClient(p)
  PROVE  BookInv'
  <1>. Types /\ Exact(p)
    BY DEF StoreInv, GrantInv, BookInv
  <1>1. pc[p] \in {"write", "add"} /\ UNCHANGED <<orders, born, op, oid, ord>> /\ Goto(p, "save")
    BY DEF WriteClient, AddClient
  <1>2. pc'[p] = "save" /\ \A q \in Procs \ {p} : pc'[q] = pc[q]
    BY <1>1, GotoFrame DEF Places
  <1>3. ord[p].buyer \in AllEmails(settings') /\ AllEmails(settings) \subseteq AllEmails(settings')
    BY WrittenQuota, AddedQuota
  <1>4. Exact(p)'
    BY <1>1, <1>2, <1>3 DEF Exact, Approving
  <1>5. Numbers'
    BY <1>1, <1>3 DEF BookInv, Numbers
  <1>. QED
    BY <1>2, <1>4, <1>5, BookAlone

\* The meter runs on under a handler's reading.
LEMMA BookTraffic ==
  ASSUME StoreInv, BookInv, NEW emails, AddTraffic(emails)
  PROVE  BookInv'
  <1>. ClientSide
    BY DEF StoreInv
  <1>1. UNCHANGED <<orders, settings, born, pc, op, oid, ord, cli>> /\ DOMAIN rows' = DOMAIN rows
    BY DEF AddTraffic, local, history
  <1>2. \A b : Used(b) \in Nat /\ Used(b)' \in Nat /\ Used(b) <= Used(b)'
    BY <1>1, MeteredRow DEF Used, TrafficRow
  <1>3. \A b : 0 .. Used(b) \subseteq 0 .. Used(b)'
    BY <1>2
  <1>4. \A b : Quota(b)' = Quota(b)
    BY <1>1 DEF Quota
  <1>5. Numbers'
    BY <1>1 DEF BookInv, Numbers
  <1>6. ASSUME NEW q \in Procs PROVE Exact(q)'
    BY <1>1, <1>3, <1>4 DEF BookInv, Exact
  <1>. QED
    BY <1>5, <1>6 DEF BookInv

\* A step of p is taken with everybody else idle.
LEMMA BookHandler ==
  ASSUME StoreInv, BookInv, Calm, NEW p \in Workers, Alone(p), Handler(p)
  PROVE  BookInv'
  <1>. USE DEF store, outside, local, jobs, history
  <1>. p \in Procs /\ Types
    BY DEF Procs, StoreInv, GrantInv
  <1>1. ASSUME NEW b \in Buyers, NEW plan \in Plans, NEW bufpay \in BOOLEAN,
               CreateOrder(p, b, plan, bufpay)
        PROVE  BookInv'
    BY <1>1, BookCreate
  <1>2. CASE InsertOrder(p)
    BY <1>2, BookInsert
  <1>3. CASE CreatePayment(p)
    BY <1>3, BookAside DEF CreatePayment, Places, Careful, Approving
  <1>4. CASE SaveOrderAoid(p)
    BY <1>4, BookAoid
  <1>5. CASE ShowQr(p)
    BY <1>5, BookAside DEF ShowQr
  <1>6. CASE PaymentUnusable(p)
    BY <1>6, BookAside, BookEnter DEF PaymentUnusable, Holds
  <1>7. ASSUME NEW id \in DOMAIN orders,
               \/ AdminApproves(p, id) \/ AdminRejects(p, id)
               \/ BuyerCancels(p, id) \/ AdminRevokes(p, id)
        PROVE  BookInv'
    BY <1>7, BookEnter DEF AdminApproves, AdminRejects, BuyerCancels, AdminRevokes, Holds
  <1>8. ASSUME NEW id \in DOMAIN orders, BufPayNotify(p, id) PROVE BookInv'
    BY <1>8, BookAside, BookEnter DEF BufPayNotify, Holds
  <1>9. ~DropClient(p) /\ \A b \in Buyers : ~DeleteClient(p, b)
    BY NoTrouble
  <1>. QED
    BY <1>1, <1>2, <1>3, <1>4, <1>5, <1>6, <1>7, <1>8, <1>9 DEF Handler

LEMMA BookApproval ==
  ASSUME StoreInv, ServeInv, BookInv, Calm, NEW p \in Procs, Alone(p), Approval(p)
  PROVE  BookInv'
  <1>1. ~DbFails(p) /\ ~SaveFails(p)
    BY NoTrouble
  <1>. QED
    BY <1>1, BookLoad, BookCopy, BookGrant, BookDup, BookCopyAdd, BookSave DEF Approval

LEMMA BookJob ==
  ASSUME StoreInv, BookInv, NEW j \in Jobs, Alone(j), Job(j)
  PROVE  BookInv'
  <1>. USE DEF store, outside, local, jobs, history
  <1>. j \in Procs
    BY DEF Procs
  <1>1. CASE StartJob(j)
    BY <1>1, BookAside DEF StartJob, Places, Careful, Approving
  <1>2. ASSUME NEW id \in 1..MaxOrders, Poll(j, id) PROVE BookInv'
    <2>1. CASE Enter(j, "approve", id, "load") /\ Holds(id, "pending")
      BY <1>2, <2>1, BookEnter DEF Poll, Holds
    <2>2. CASE Return(j) \/ (Goto(j, "expire") /\ UNCHANGED local)
      BY <1>2, <2>2, BookAside DEF Poll, Places, Careful, Approving
    <2>. QED
      BY <1>2, <2>1, <2>2 DEF Poll
  <1>3. CASE PollFails(j)
    BY <1>3, BookAside DEF PollFails
  <1>4. CASE Expire(j)
    BY <1>4, BookExpire
  <1>5. CASE EndRound(j)
    BY <1>5, BookAside DEF EndRound, Places, Careful, Approving
  <1>. QED
    BY <1>1, <1>2, <1>3, <1>4, <1>5 DEF Job

LEMMA BookEnvironment ==
  ASSUME StoreInv, BookInv, Calm, Environment
  PROVE  BookInv'
  <1>. USE DEF store, outside, local, jobs, history
  <1>1. CASE \E sn \in Serials : BuyerPays(sn)
    BY <1>1, BookAside DEF BuyerPays
  <1>2. CASE \E emails \in SUBSET (DOMAIN rows \ {House}) : emails # {} /\ AddTraffic(emails)
    BY <1>2, BookTraffic
  <1>3. CASE ToggleReady \/ Tick
    BY <1>3, BookAside DEF ToggleReady, Tick
  <1>. QED
    BY <1>1, <1>2, <1>3, NoTrouble DEF Environment

\* Whoever takes a step has been alone since before it.
LEMMA AtWork ==
  ASSUME BoundInv, MaxActive = 1
  PROVE  /\ \A p \in Workers : Handler(p) => Alone(p)
         /\ \A p \in Procs : Approval(p) => Alone(p)
         /\ \A j \in Jobs : Job(j) => Alone(j)
  <1>1. ASSUME NEW p \in Workers, Handler(p) PROVE Alone(p)
    <2>1. pc[p] # "idle" \/ CanStart(p)
      BY <1>1 DEF Handler, CreateOrder, InsertOrder, CreatePayment, SaveOrderAoid, ShowQr,
                  PaymentUnusable, AdminApproves, AdminRejects, BuyerCancels, AdminRevokes,
                  BufPayNotify, DeleteClient, DropClient
    <2>. QED
      BY <2>1, MovesAlone DEF Procs
  <1>2. ASSUME NEW p \in Procs, Approval(p) PROVE Alone(p)
    <2>1. pc[p] # "idle"
      BY <1>2 DEF Approval, LoadClient, CopyForUpdate, WriteClient, CheckDuplicate, CopyForAdd,
                  AddClient, DbFails, SaveOrder, SaveFails
    <2>. QED
      BY <2>1, MovesAlone
  <1>3. ASSUME NEW j \in Jobs, Job(j) PROVE Alone(j)
    <2>1. pc[j] # "idle" \/ CanStart(j)
      BY <1>3 DEF Job, StartJob, Poll, PollFails, Expire, EndRound
    <2>. QED
      BY <2>1, MovesAlone DEF Procs
  <1>. QED
    BY <1>1, <1>2, <1>3

LEMMA BookStep ==
  ASSUME Calm, BoundInv, StoreInv, ServeInv, BookInv, [Next]_vars
  PROVE  BookInv'
  <1>. MaxActive = 1
    BY DEF Calm
  <1>1. CASE UNCHANGED vars
    BY <1>1, BookAside DEF vars, local, history
  <1>2. CASE \E p \in Workers : Handler(p)
    BY <1>2, AtWork, BookHandler
  <1>3. CASE \E p \in Procs : Approval(p)
    BY <1>3, AtWork, BookApproval
  <1>4. CASE \E j \in Jobs : Job(j)
    BY <1>4, AtWork, BookJob
  <1>. QED
    BY <1>1, <1>2, <1>3, <1>4, BookEnvironment DEF Next

LEMMA BookStart == Init => BookInv
  <1>. SUFFICES ASSUME Init PROVE BookInv
    OBVIOUS
  <1>1. DOMAIN orders = {} /\ born = 0
    BY DEF Init
  <1>2. 1 .. born = {}
    BY <1>1
  <1>. QED
    BY <1>1, <1>2 DEF Init, Fresh, BookInv, Numbers, Exact, Approving

LEMMA BookAlways == Calm => (Spec => []BookInv)
  <1>. SUFFICES ASSUME Calm PROVE Spec => []BookInv
    OBVIOUS
  <1>1. MaxActive = 1
    BY DEF Calm
  <1>2. BoundInv /\ StoreInv /\ ServeInv /\ BookInv /\ [Next]_vars => BookInv'
    BY BookStep
  <1>. QED
    BY <1>1, <1>2, BookStart, BoundAlways, StoreAlways, ServeAlways, PTL DEF Spec

-----------------------------------------------------------------------------
(* What the ledger reads off the shop while only p is at work.             *)

\* p has committed its change of the client and not yet saved the order.
Saves(p) == pc[p] = "save" /\ op[p] \in {"approve", "revoke"}

Outcome(handler) == IF handler = "approve" THEN "approved" ELSE "revoked"

Written(sn) == IF sn > born THEN "none" ELSE orders[sn].status

RowsFact ==
    BookInv /\ born \in Nat =>
        /\ \A sn \in Serials : sn <= born => RowOf(sn) = orders[sn]
        /\ \A sn \in Serials :
              Item(sn) = IF sn > born THEN [buyer |-> {}, gb |-> 0]
                         ELSE [buyer |-> orders[sn].buyer, gb |-> orders[sn].gb]

LEMMA RowsKnown == RowsFact
  <1>. SUFFICES ASSUME BookInv, born \in Nat PROVE RowsFact
    BY DEF RowsFact
  <1>1. ASSUME NEW sn \in Serials, sn <= born PROVE RowOf(sn) = orders[sn]
    <2>1. sn \in DOMAIN orders /\ \A i \in DOMAIN orders : orders[i].sn = i
      BY <1>1 DEF BookInv, Numbers, Serials
    <2>2. (CHOOSE i \in DOMAIN orders : orders[i].sn = sn) = sn
      BY <2>1
    <2>. QED
      BY <2>2 DEF RowOf
  <1>2. \A sn \in Serials : sn > born \/ sn <= born
    BY ShopAssumption DEF Serials
  <1>. QED
    BY <1>1, <1>2 DEF RowsFact, Item

LEMMA RowsKnownNext == RowsFact'
  BY RowsKnown, PTL

QuietFact ==
    \A p \in Procs : BookInv /\ born \in Nat /\ Alone(p) /\ ~Saves(p)
        => \A sn \in Serials : Book(sn) = Written(sn)

LEMMA QuietBook == QuietFact
  <1>. SUFFICES ASSUME NEW p \in Procs, BookInv, born \in Nat, Alone(p), ~Saves(p), NEW sn \in Serials
                PROVE  Book(sn) = Written(sn)
    BY DEF QuietFact
  <1>1. \A q \in Procs : ~Saves(q)
    BY DEF Alone, Saves
  <1>2. sn > born \/ RowOf(sn) = orders[sn]
    BY RowsKnown, ShopAssumption DEF RowsFact, Serials
  <1>. QED
    BY <1>1, <1>2 DEF Book, Written, Saves

LEMMA QuietBookNext == QuietFact'
  BY QuietBook, PTL

SavingFact ==
    \A p \in Procs : BookInv /\ born \in Nat /\ Alone(p) /\ Saves(p)
        => \A sn \in Serials :
              Book(sn) = IF sn = ord[p].sn THEN Outcome(op[p]) ELSE Written(sn)

LEMMA SavingBook == SavingFact
  <1>. SUFFICES ASSUME NEW p \in Procs, BookInv, born \in Nat, Alone(p), Saves(p), NEW sn \in Serials
                PROVE  Book(sn) = IF sn = ord[p].sn THEN Outcome(op[p]) ELSE Written(sn)
    BY DEF SavingFact
  <1>1. \A q \in Procs \ {p} : pc[q] # "save"
    BY DEF Alone
  <1>2. sn > born \/ RowOf(sn) = orders[sn]
    BY RowsKnown, ShopAssumption DEF RowsFact, Serials
  <1>3. ord[p].sn = oid[p] /\ oid[p] \in 1 .. born
    BY DEF Saves, BookInv, Numbers, Exact, Approving
  <1>4. sn = ord[p].sn => ~(sn > born)
    BY <1>3
  <1>5. CASE op[p] = "approve"
    BY <1>1, <1>2, <1>4, <1>5 DEF Book, Written, Saves, Outcome
  <1>6. CASE op[p] = "revoke"
    BY <1>1, <1>2, <1>4, <1>6 DEF Book, Written, Saves, Outcome
  <1>. QED
    BY <1>5, <1>6 DEF Saves

LEMMA SavingBookNext == SavingFact'
  BY SavingBook, PTL

LEMMA StillAlone ==
  ASSUME NEW p \in Procs, Alone(p), \A q \in Procs \ {p} : pc'[q] = pc[q]
  PROVE  Alone(p)'
  BY DEF Alone

\* A step that leaves the tables alone and has no commit behind or before it.
LEMMA LedgerStutters ==
  ASSUME BookInv, BookInv', born \in Nat, UNCHANGED <<orders, born, settings, rows>>,
         NEW p \in Procs, Alone(p), \A q \in Procs \ {p} : pc'[q] = pc[q],
         ~Saves(p), ~Saves(p)'
  PROVE  UNCHANGED Ledger!vars
  <1>1. Alone(p)' /\ born' \in Nat
    BY StillAlone
  <1>2. \A sn \in Serials : Book(sn) = Written(sn)
    BY QuietBook DEF QuietFact
  <1>3. \A sn \in Serials : Book(sn)' = Written(sn)'
    BY <1>1, QuietBookNext DEF QuietFact
  <1>4. \A sn \in Serials : Book(sn)' = Book(sn) /\ Item(sn)' = Item(sn)
    BY <1>2, <1>3 DEF Written, Item, RowOf
  <1>5. \A b \in Buyers : Quota(b)' = Quota(b) /\ Used(b)' = Used(b)
    BY DEF Quota, Used
  <1>. QED
    BY <1>4, <1>5 DEF Ledger!vars, Books, Items, Quotas, Usage

LEMMA LedgerUntouched ==
  ASSUME UNCHANGED <<orders, born, settings, rows, pc, op, ord>>
  PROVE  UNCHANGED Ledger!vars
  <1>1. \A sn \in Serials : Book(sn)' = Book(sn) /\ Item(sn)' = Item(sn)
    BY DEF Book, Item, RowOf
  <1>2. \A b \in Buyers : Quota(b)' = Quota(b) /\ Used(b)' = Used(b)
    BY DEF Quota, Used
  <1>. QED
    BY <1>1, <1>2 DEF Ledger!vars, Books, Items, Quotas, Usage

-----------------------------------------------------------------------------
(* Every step of the shop is a step of the ledger, or none.                *)

LEMMA LedgerInsert ==
  ASSUME StoreInv, BookInv, BookInv', NEW p \in Procs, Alone(p), InsertOrder(p)
  PROVE  Ledger!Next
  <1>. Types
    BY DEF StoreInv, GrantInv
  <1>. DEFINE n == born + 1
              row == [ord[p] EXCEPT !.sn = n]
  <1>1. row.buyer \in Buyers /\ row.gb \in Gbs /\ row.status = "pending"
    BY InsertedRow DEF Order
  <1>2. /\ n \in Serials /\ born \in Nat /\ born' = n /\ orders'[n] = row
        /\ \A i \in 1 .. born : orders'[i] = orders[i]
    BY InsertedRow, NextNumber DEF BookInv
  <1>3. /\ pc[p] = "insert" /\ pc'[p] \in {"idle", "poll", "pay"}
        /\ \A q \in Procs \ {p} : pc'[q] = pc[q]
        /\ UNCHANGED <<settings, rows>>
    BY ReturnFrame, GotoFrame DEF InsertOrder, Places
  <1>4. ~Saves(p) /\ ~Saves(p)' /\ Alone(p)'
    BY <1>3, StillAlone DEF Saves
  <1>. HIDE DEF n, row
  <1>5. n \in Nat /\ n = born + 1
    BY <1>2 DEF n
  <1>6. \A sn \in Serials : Book(sn) = Written(sn)
    BY <1>2, <1>4, QuietBook DEF QuietFact
  <1>7. \A sn \in Serials : Book(sn)' = Written(sn)'
    BY <1>2, <1>4, <1>5, QuietBookNext DEF QuietFact
  <1>8. ASSUME NEW sn \in Serials
        PROVE  /\ Book(sn)' = IF sn = n THEN "pending" ELSE Book(sn)
               /\ Item(sn)' = IF sn = n THEN [buyer |-> row.buyer, gb |-> row.gb] ELSE Item(sn)
               /\ Book(n) = "none"
    <2>0. sn \in Nat /\ sn >= 1
      BY ShopAssumption DEF Serials
    <2>1. Item(sn) = IF sn > born THEN [buyer |-> {}, gb |-> 0]
                     ELSE [buyer |-> orders[sn].buyer, gb |-> orders[sn].gb]
      BY <1>2, RowsKnown DEF RowsFact
    <2>2. Item(sn)' = IF sn > born' THEN [buyer |-> {}, gb |-> 0]
                      ELSE [buyer |-> orders'[sn].buyer, gb |-> orders'[sn].gb]
      BY <1>2, <1>5, RowsKnownNext DEF RowsFact
    <2>3. Book(n) = "none"
      BY <1>2, <1>5, <1>6 DEF Written
    <2>4. CASE sn = n
      BY <1>1, <1>2, <1>5, <1>7, <2>2, <2>3, <2>4 DEF Written
    <2>5. CASE sn # n
      <3>1. sn > born \/ sn \in 1 .. born
        BY <1>2, <2>0
      <3>2. sn > born <=> sn > born'
        BY <1>2, <1>5, <2>0, <2>5
      <3>. QED
        BY <1>2, <1>6, <1>7, <2>1, <2>2, <2>3, <2>5, <3>1, <3>2 DEF Written
    <2>. QED
      BY <2>4, <2>5
  <1>9. \A b \in Buyers : Quota(b)' = Quota(b) /\ Used(b)' = Used(b)
    BY <1>3 DEF Quota, Used
  <1>10. PICK plan \in Plans : plan.gb = row.gb
    BY <1>1 DEF Gbs
  <1>11. Ledger!Place(n)
    <2>1. Books[n] = "none" /\ Books' = [Books EXCEPT ![n] = "pending"]
      BY <1>2, <1>8 DEF Books
    <2>2. Items' = [Items EXCEPT ![n] = [buyer |-> row.buyer, gb |-> plan.gb]]
      BY <1>2, <1>8, <1>10 DEF Items
    <2>3. UNCHANGED <<Quotas, Usage>>
      BY <1>9 DEF Quotas, Usage
    <2>. QED
      BY <1>1, <2>1, <2>2, <2>3 DEF Ledger!Place
  <1>. QED
    BY <1>2, <1>11 DEF Ledger!Next

\* The change of the client is committed: the order is settled or revoked.
LEMMA LedgerCommit ==
  ASSUME StoreInv, ServeInv, BookInv, BookInv', NEW p \in Procs, Alone(p),
         WriteClient(p) \/ AddClient(p)
  PROVE  Ledger!Next
  <1>. DEFINE sn == ord[p].sn
              b == ord[p].buyer
              gb == ord[p].gb
  <1>. Types /\ Exact(p) /\ Coherent(p)
    BY DEF StoreInv, GrantInv, BookInv
  <1>1. /\ pc[p] \in {"write", "add"} /\ Goto(p, "save")
        /\ UNCHANGED <<orders, born, op, oid, ord>>
    BY DEF WriteClient, AddClient
  <1>2. /\ op[p] \in {"approve", "revoke"}
        /\ pc[p] = "add" => op[p] = "approve"
        /\ ord[p] \in Sold
    BY <1>1, CopySold DEF Coherent, Routed, Copied, Settling, StoreInv
  <1>3. /\ oid[p] \in DOMAIN orders /\ ord[p] = orders[oid[p]] /\ sn = oid[p]
        /\ ord[p].status = IF op[p] = "revoke" THEN "approved" ELSE "pending"
    BY <1>1 DEF Exact, Approving, BookInv, Numbers
  <1>4. sn \in Serials /\ ~(sn > born) /\ born \in Nat
    BY <1>3, NextNumber DEF BookInv, Numbers
  <1>5. pc'[p] = "save" /\ \A q \in Procs \ {p} : pc'[q] = pc[q]
    BY <1>1, GotoFrame DEF Places
  <1>6. ~Saves(p) /\ Saves(p)' /\ Alone(p)'
    BY <1>1, <1>2, <1>5, StillAlone DEF Saves
  <1>7. \A x \in Serials : Book(x) = Written(x)
    BY <1>4, <1>6, QuietBook DEF QuietFact
  <1>8. \A x \in Serials : Book(x)' = IF x = sn THEN Outcome(op[p]) ELSE Written(x)
    <2>1. \A x \in Serials : Book(x)' = IF x = ord'[p].sn THEN Outcome(op'[p]) ELSE Written(x)'
      BY <1>1, <1>4, <1>6, SavingBookNext DEF SavingFact
    <2>2. \A x \in Serials : Written(x)' = Written(x)
      BY <1>1 DEF Written
    <2>. QED
      BY <1>1, <2>1, <2>2
  <1>9. Books[sn] = ord[p].status /\ Books' = [Books EXCEPT ![sn] = Outcome(op[p])]
    <2>1. Book(sn) = ord[p].status
      BY <1>3, <1>4, <1>7 DEF Written
    <2>. QED
      BY <1>4, <1>7, <1>8, <2>1 DEF Books
  <1>10. Items' = Items
    BY <1>1 DEF Items, Item, RowOf
  <1>11. Items[sn].buyer = b /\ Items[sn].gb = gb
    <2>1. Item(sn) = [buyer |-> orders[sn].buyer, gb |-> orders[sn].gb]
      BY <1>4, RowsKnown DEF RowsFact
    <2>. QED
      BY <1>3, <1>4, <2>1 DEF Items
  <1>12. /\ b \in Buyers
         /\ \A x \in Buyers : Quota(x)' = IF x = b THEN cli[p].total ELSE Quota(x)
         /\ \A x \in Buyers : Used(x)' = Used(x)
    BY WrittenQuota, AddedQuota
  <1>13. Usage' = Usage
    BY <1>12 DEF Usage
  <1>14. Quotas' = [Quotas EXCEPT ![b] = cli[p].total] /\ Quotas[b] = Quota(b)
    BY <1>12 DEF Quotas
  <1>. HIDE DEF sn, b, gb
  <1>15. CASE op[p] = "approve"
    <2>1. cli[p].total = Quota(b) + gb
      <3>1. CASE pc[p] = "write"
        BY <1>15, <3>1 DEF Exact, b, gb
      <3>2. CASE pc[p] = "add"
        <4>1. cli[p].total = gb /\ gb \in Nat
          BY <1>2, <3>2 DEF Exact, gb, Sold, Order
        <4>2. AddClient(p)
          BY <3>2 DEF WriteClient
        <4>3. Quota(b) = 0
          BY <4>2, AddedQuota DEF b
        <4>. QED
          BY <4>1, <4>3
      <3>. QED
        BY <1>1, <3>1, <3>2
    <2>2. Books[sn] = "pending" /\ Books' = [Books EXCEPT ![sn] = "approved"]
      BY <1>3, <1>9, <1>15 DEF Outcome
    <2>3. Quotas' = [Quotas EXCEPT ![Items[sn].buyer] = @ + Items[sn].gb]
      BY <1>11, <1>12, <1>14, <2>1
    <2>4. Ledger!Settle(sn)
      BY <1>10, <1>13, <2>2, <2>3 DEF Ledger!Settle
    <2>. QED
      BY <1>4, <2>4 DEF Ledger!Next
  <1>16. CASE op[p] = "revoke"
    <2>1. PICK reading \in 0 .. Used(b) : cli[p].total = Ledger!Clamp(Quota(b) - gb, reading)
      <3>1. pc[p] = "write"
        BY <1>1, <1>2, <1>16
      <3>. QED
        BY <1>16, <3>1 DEF Exact, b, gb
    <2>2. Books[sn] = "approved" /\ Books' = [Books EXCEPT ![sn] = "revoked"]
      BY <1>3, <1>9, <1>16 DEF Outcome
    <2>3. Quotas' = [Quotas EXCEPT ![b] = Ledger!Clamp(@ - Items[sn].gb, reading)]
      BY <1>11, <1>12, <1>14, <2>1
    <2>4. reading \in 0 .. Usage[b]
      BY <1>12 DEF Usage
    <2>5. Ledger!Revoke(sn)
      BY <1>10, <1>11, <1>13, <2>2, <2>3, <2>4 DEF Ledger!Revoke
    <2>. QED
      BY <1>4, <2>5 DEF Ledger!Next
  <1>. QED
    BY <1>2, <1>15, <1>16

\* The Save of an approval or a revocation shows what the ledger knows already;
\* that of a rejection closes the order.
LEMMA LedgerSave ==
  ASSUME StoreInv, BookInv, BookInv', NEW p \in Procs, Alone(p), SaveOrder(p)
  PROVE  Ledger!Next \/ UNCHANGED Ledger!vars
  <1>. DEFINE sn == ord[p].sn
              status == IF op[p] = "approve" THEN "approved"
                        ELSE IF op[p] = "revoke" THEN "revoked" ELSE "rejected"
  <1>. Types
    BY DEF StoreInv, GrantInv
  <1>1. /\ op[p] \in Settling /\ ord[p] = orders[sn] /\ sn \in DOMAIN orders
        /\ ord[p].status = IF op[p] = "revoke" THEN "approved" ELSE "pending"
        /\ \A i \in DOMAIN orders : /\ orders'[i].buyer = orders[i].buyer
                                    /\ orders'[i].gb = orders[i].gb
                                    /\ orders'[i].status = IF i = sn THEN status ELSE orders[i].status
    BY SavedRow
  <1>2. pc[p] = "save" /\ UNCHANGED <<settings, rows, born>>
    BY DEF SaveOrder, history
  <1>3. /\ sn \in Serials /\ ~(sn > born) /\ born \in Nat /\ born' \in Nat
        /\ \A x \in Serials : x > born \/ x \in DOMAIN orders
    BY <1>1, <1>2, NextNumber DEF BookInv, Numbers, Serials
  <1>4. pc'[p] \in {"idle", "poll"} /\ \A q \in Procs \ {p} : pc'[q] = pc[q]
    BY ReturnFrame DEF SaveOrder
  <1>5. ~Saves(p)' /\ Alone(p)'
    BY <1>4, StillAlone DEF Saves
  <1>. HIDE DEF sn, status
  <1>6. \A x \in Serials : Written(x)' = IF x = sn THEN status ELSE Written(x)
    BY <1>1, <1>2, <1>3 DEF Written
  <1>7. \A x \in Serials : Book(x)' = IF x = sn THEN status ELSE Written(x)
    BY <1>3, <1>5, <1>6, QuietBookNext DEF QuietFact
  <1>8. Items' = Items
    <2>1. \A x \in Serials : Item(x) = IF x > born THEN [buyer |-> {}, gb |-> 0]
                                       ELSE [buyer |-> orders[x].buyer, gb |-> orders[x].gb]
      BY <1>3, RowsKnown DEF RowsFact
    <2>2. \A x \in Serials : Item(x)' = IF x > born' THEN [buyer |-> {}, gb |-> 0]
                                        ELSE [buyer |-> orders'[x].buyer, gb |-> orders'[x].gb]
      BY <1>3, RowsKnownNext DEF RowsFact
    <2>3. \A x \in Serials : Item(x)' = Item(x)
      BY <1>1, <1>2, <1>3, <2>1, <2>2
    <2>. QED
      BY <2>3 DEF Items
  <1>9. Quotas' = Quotas /\ Usage' = Usage
    BY <1>2 DEF Quotas, Usage, Quota, Used
  <1>10. CASE Saves(p)
    <2>1. \A x \in Serials : Book(x) = IF x = sn THEN Outcome(op[p]) ELSE Written(x)
      BY <1>3, <1>10, SavingBook DEF SavingFact, sn
    <2>2. status = Outcome(op[p])
      BY <1>10 DEF Saves, status, Outcome
    <2>3. Books' = Books
      BY <1>7, <2>1, <2>2 DEF Books
    <2>. QED
      BY <1>8, <1>9, <2>3 DEF Ledger!vars
  <1>11. CASE ~Saves(p)
    <2>1. \A x \in Serials : Book(x) = Written(x)
      BY <1>3, <1>11, QuietBook DEF QuietFact
    <2>2. status = "rejected" /\ ord[p].status = "pending"
      BY <1>1, <1>2, <1>11 DEF Saves, status
    <2>3. Book(sn) = "pending"
      BY <1>1, <1>3, <2>1, <2>2 DEF Written
    <2>4. Books[sn] = "pending" /\ Books' = [Books EXCEPT ![sn] = "rejected"]
      BY <1>3, <1>7, <2>1, <2>2, <2>3 DEF Books
    <2>5. Ledger!Close(sn)
      BY <1>8, <1>9, <2>4 DEF Ledger!Close
    <2>. QED
      BY <1>3, <2>5 DEF Ledger!Next
  <1>. QED
    BY <1>10, <1>11

LEMMA LedgerExpire ==
  ASSUME StoreInv, BookInv, BookInv', NEW j \in Jobs, Alone(j), Expire(j)
  PROVE  Ledger!Next \/ UNCHANGED Ledger!vars
  <1>. Types /\ j \in Procs
    BY DEF StoreInv, GrantInv, Procs
  <1>1. pc[j] = "expire" /\ UNCHANGED <<settings, rows, born>>
    BY DEF Expire, history
  <1>2. pc'[j] \in {"idle", "poll"} /\ \A q \in Procs \ {j} : pc'[q] = pc[q]
    BY ReturnFrame DEF Expire
  <1>3. ~Saves(j) /\ ~Saves(j)' /\ Alone(j)'
    BY <1>1, <1>2, StillAlone DEF Saves
  <1>4. born \in Nat /\ born' \in Nat /\ DOMAIN orders \subseteq Serials
        /\ \A i \in DOMAIN orders : orders[i] \in Order
    BY <1>1, NextNumber DEF BookInv
  <1>5. PICK row \in FirstRow(todo[j]) :
           orders' = IF Holds(row.id, "pending")
                     THEN [orders EXCEPT ![row.id].status = "expired"] ELSE orders
    BY DEF Expire
  <1>. DEFINE id == row.id
  <1>6. CASE ~Holds(id, "pending")
    BY <1>1, <1>2, <1>3, <1>4, <1>5, <1>6, LedgerStutters
  <1>7. CASE Holds(id, "pending")
    <2>1. id \in DOMAIN orders /\ orders[id].status = "pending" /\ id \in Serials
          /\ \A x \in Serials : x > born \/ x \in DOMAIN orders
      BY <1>4, <1>7 DEF Holds, BookInv, Numbers, Serials
    <2>2. \A i \in DOMAIN orders :
             /\ orders'[i].buyer = orders[i].buyer /\ orders'[i].gb = orders[i].gb
             /\ orders'[i].status = IF i = id THEN "expired" ELSE orders[i].status
      BY <1>4, <1>5, <1>7 DEF Order
    <2>. HIDE DEF id
    <2>3. ~(id > born)
      BY <1>4, <2>1 DEF BookInv, Numbers
    <2>4. \A x \in Serials : Book(x) = Written(x)
      BY <1>3, <1>4, QuietBook DEF QuietFact
    <2>5. \A x \in Serials : Book(x)' = Written(x)'
      BY <1>3, <1>4, QuietBookNext DEF QuietFact
    <2>6. \A x \in Serials : Written(x)' = IF x = id THEN "expired" ELSE Written(x)
      BY <1>1, <2>1, <2>2, <2>3 DEF Written
    <2>7. Book(id) = "pending"
      BY <2>1, <2>3, <2>4 DEF Written
    <2>8. Books[id] = "pending" /\ Books' = [Books EXCEPT ![id] = "expired"]
      BY <2>1, <2>4, <2>5, <2>6, <2>7 DEF Books
    <2>9. Items' = Items
      <3>1. \A x \in Serials : Item(x) = IF x > born THEN [buyer |-> {}, gb |-> 0]
                                         ELSE [buyer |-> orders[x].buyer, gb |-> orders[x].gb]
        BY <1>4, RowsKnown DEF RowsFact
      <3>2. \A x \in Serials : Item(x)' = IF x > born' THEN [buyer |-> {}, gb |-> 0]
                                          ELSE [buyer |-> orders'[x].buyer, gb |-> orders'[x].gb]
        BY <1>4, RowsKnownNext DEF RowsFact
      <3>3. \A x \in Serials : Item(x)' = Item(x)
        BY <1>1, <2>1, <2>2, <3>1, <3>2
      <3>. QED
        BY <3>3 DEF Items
    <2>10. Quotas' = Quotas /\ Usage' = Usage
      BY <1>1 DEF Quotas, Usage, Quota, Used
    <2>11. Ledger!Close(id)
      BY <2>8, <2>9, <2>10 DEF Ledger!Close
    <2>. QED
      BY <2>1, <2>11 DEF Ledger!Next
  <1>. QED
    BY <1>6, <1>7

LEMMA LedgerUse ==
  ASSUME StoreInv, BookInv, NEW emails \in SUBSET (DOMAIN rows \ {House}), AddTraffic(emails)
  PROVE  Ledger!Next
  <1>. ClientSide
    BY DEF StoreInv
  <1>1. UNCHANGED <<orders, settings, born, pc, op, ord>> /\ DOMAIN rows' = DOMAIN rows
    BY DEF AddTraffic, local, history
  <1>2. emails \subseteq Buyers
    BY DEF ClientSide
  <1>3. ASSUME NEW b \in Buyers
        PROVE  Used(b)' = IF b \in emails THEN Used(b) + 1 ELSE Used(b)
    <2>1. CASE b \in DOMAIN rows
      <3>1. rows[b] \in TrafficRow
        BY <2>1 DEF ClientSide
      <3>. DEFINE row == [rows[b] EXCEPT !.used = IF b \in emails THEN @ + 1 ELSE @]
      <3>2. rows'[b] = [row EXCEPT !.enable = @ /\ ~Depleted(row, now)]
        BY <2>1 DEF AddTraffic
      <3>3. row \in [total : Nat, expiry : Nat, enable : BOOLEAN, used : Nat]
        BY <3>1 DEF TrafficRow
      <3>4. row.used = IF b \in emails THEN rows[b].used + 1 ELSE rows[b].used
        BY <3>1 DEF TrafficRow
      <3>. HIDE DEF row
      <3>5. rows'[b].used = row.used
        BY <3>2, <3>3
      <3>. QED
        BY <1>1, <2>1, <3>4, <3>5 DEF Used
    <2>2. CASE b \notin DOMAIN rows
      BY <1>1, <2>2 DEF Used
    <2>. QED
      BY <2>1, <2>2
  <1>4. Usage' = [b \in Buyers |-> IF b \in emails THEN Usage[b] + 1 ELSE Usage[b]]
    BY <1>3 DEF Usage
  <1>5. Books' = Books /\ Items' = Items /\ Quotas' = Quotas
    BY <1>1 DEF Books, Items, Quotas, Book, Item, RowOf, Quota
  <1>6. Ledger!Use(emails)
    BY <1>4, <1>5 DEF Ledger!Use
  <1>. QED
    BY <1>2, <1>6 DEF Ledger!Next

\* SaveOrderAoid writes a column the ledger does not read.
LEMMA LedgerAoid ==
  ASSUME StoreInv, BookInv, BookInv', NEW p \in Procs, Alone(p), SaveOrderAoid(p)
  PROVE  UNCHANGED Ledger!vars
  <1>. Types
    BY DEF StoreInv, GrantInv
  <1>1. pc[p] = "aoid" /\ UNCHANGED <<settings, rows, born>>
    BY DEF SaveOrderAoid, history
  <1>2. pc'[p] = "show" /\ \A q \in Procs \ {p} : pc'[q] = pc[q]
    BY GotoFrame DEF SaveOrderAoid, Places
  <1>3. ~Saves(p) /\ ~Saves(p)' /\ Alone(p)'
    BY <1>1, <1>2, StillAlone DEF Saves
  <1>4. born \in Nat /\ born' \in Nat /\ \A x \in Serials : x > born \/ x \in DOMAIN orders
    BY <1>1, NextNumber DEF BookInv, Numbers, Serials
  <1>5. \A i \in DOMAIN orders :
           /\ orders'[i].buyer = orders[i].buyer /\ orders'[i].gb = orders[i].gb
           /\ orders'[i].status = orders[i].status
    BY DEF SaveOrderAoid, Types, Order
  <1>6. \A x \in Serials : Book(x) = Written(x)
    BY <1>3, <1>4, QuietBook DEF QuietFact
  <1>7. \A x \in Serials : Book(x)' = Written(x)'
    BY <1>3, <1>4, QuietBookNext DEF QuietFact
  <1>8. Books' = Books
    BY <1>1, <1>4, <1>5, <1>6, <1>7 DEF Books, Written
  <1>9. Items' = Items
    <2>1. \A x \in Serials : Item(x) = IF x > born THEN [buyer |-> {}, gb |-> 0]
                                       ELSE [buyer |-> orders[x].buyer, gb |-> orders[x].gb]
      BY <1>4, RowsKnown DEF RowsFact
    <2>2. \A x \in Serials : Item(x)' = IF x > born' THEN [buyer |-> {}, gb |-> 0]
                                        ELSE [buyer |-> orders'[x].buyer, gb |-> orders'[x].gb]
      BY <1>4, RowsKnownNext DEF RowsFact
    <2>. QED
      BY <1>1, <1>4, <1>5, <2>1, <2>2 DEF Items
  <1>. QED
    BY <1>1, <1>8, <1>9 DEF Ledger!vars, Quotas, Usage, Quota, Used

-----------------------------------------------------------------------------

\* The steps that change no table the ledger reads, and commit nothing.
LEMMA LedgerAside ==
  ASSUME StoreInv, BookInv, BookInv', UNCHANGED <<orders, born, settings, rows>>,
         NEW p \in Procs, Alone(p), ~Saves(p),
         \/ UNCHANGED <<pc, op, ord>>
         \/ Return(p)
         \/ \E h \in Handlers, id \in DOMAIN orders, place \in Places \ {"save"} : Enter(p, h, id, place)
         \/ \E id \in DOMAIN orders, h \in {"reject", "cancel"} : Enter(p, h, id, "save")
         \/ \E place \in Places \ {"save"} : Goto(p, place)
  PROVE  UNCHANGED Ledger!vars
  <1>. Types
    BY DEF StoreInv, GrantInv
  <1>0. born \in Nat
    BY NextNumber DEF BookInv
  <1>1. CASE UNCHANGED <<pc, op, ord>>
    BY <1>1, LedgerUntouched
  <1>2. CASE \/ Return(p)
             \/ \E h \in Handlers, id \in DOMAIN orders, place \in Places \ {"save"} : Enter(p, h, id, place)
             \/ \E id \in DOMAIN orders, h \in {"reject", "cancel"} : Enter(p, h, id, "save")
             \/ \E place \in Places \ {"save"} : Goto(p, place)
    <2>1. CASE Return(p)
      <3>1. pc'[p] # "save" /\ \A q \in Procs \ {p} : pc'[q] = pc[q]
        BY <2>1, ReturnFrame
      <3>. QED
        BY <1>0, <3>1, LedgerStutters DEF Saves
    <2>2. ASSUME NEW h \in Handlers, NEW id \in DOMAIN orders, NEW place \in Places \ {"save"},
                 Enter(p, h, id, place)
          PROVE  UNCHANGED Ledger!vars
      <3>1. pc'[p] # "save" /\ \A q \in Procs \ {p} : pc'[q] = pc[q]
        BY <2>2, EnterFrame
      <3>. QED
        BY <1>0, <3>1, LedgerStutters DEF Saves
    <2>3. ASSUME NEW id \in DOMAIN orders, NEW h \in {"reject", "cancel"}, Enter(p, h, id, "save")
          PROVE  UNCHANGED Ledger!vars
      <3>1. op'[p] = h /\ \A q \in Procs \ {p} : pc'[q] = pc[q]
        BY <2>3, EnterFrame DEF Handlers, Places
      <3>. QED
        BY <1>0, <3>1, LedgerStutters DEF Saves
    <2>4. ASSUME NEW place \in Places \ {"save"}, Goto(p, place) PROVE UNCHANGED Ledger!vars
      <3>1. pc'[p] # "save" /\ \A q \in Procs \ {p} : pc'[q] = pc[q]
        BY <2>4, GotoFrame
      <3>. QED
        BY <1>0, <3>1, LedgerStutters DEF Saves
    <2>. QED
      BY <1>2, <2>1, <2>2, <2>3, <2>4
  <1>. QED
    BY <1>1, <1>2

LEMMA LedgerHandler ==
  ASSUME StoreInv, BookInv, BookInv', Calm, NEW p \in Workers, Alone(p), Handler(p)
  PROVE  Ledger!Next \/ UNCHANGED Ledger!vars
  <1>. USE DEF store, outside, local, jobs, history
  <1>. p \in Procs /\ Types
    BY DEF Procs, StoreInv, GrantInv
  <1>1. ASSUME NEW b \in Buyers, NEW plan \in Plans, NEW bufpay \in BOOLEAN,
               CreateOrder(p, b, plan, bufpay)
        PROVE  UNCHANGED Ledger!vars
    <2>1. pc[p] = "idle" /\ Goto(p, "insert") /\ UNCHANGED <<orders, born, settings, rows>>
      BY <1>1 DEF CreateOrder, CanStart
    <2>. QED
      BY <2>1, LedgerAside DEF Saves, Places
  <1>2. CASE InsertOrder(p)
    BY <1>2, LedgerInsert
  <1>3. CASE CreatePayment(p)
    <2>1. pc[p] = "pay" /\ UNCHANGED <<orders, born, settings, rows>>
          /\ (Goto(p, "aoid") \/ Goto(p, "show"))
      BY <1>3 DEF CreatePayment
    <2>. QED
      BY <2>1, LedgerAside DEF Saves, Places
  <1>4. CASE SaveOrderAoid(p)
    BY <1>4, LedgerAoid
  <1>5. CASE ShowQr(p)
    <2>1. pc[p] = "show" /\ Return(p) /\ UNCHANGED <<orders, born, settings, rows>>
      BY <1>5 DEF ShowQr
    <2>. QED
      BY <2>1, LedgerAside DEF Saves
  <1>6. CASE PaymentUnusable(p)
    <2>1. /\ pc[p] \in {"pay", "show"} /\ UNCHANGED <<orders, born, settings, rows>>
          /\ Return(p) \/ \E id \in DOMAIN orders : Enter(p, "cancel", id, "save")
      BY <1>6 DEF PaymentUnusable, Holds
    <2>. QED
      BY <2>1, LedgerAside DEF Saves
  <1>7. ASSUME NEW id \in DOMAIN orders,
               \/ AdminApproves(p, id) \/ AdminRejects(p, id)
               \/ BuyerCancels(p, id) \/ AdminRevokes(p, id)
        PROVE  UNCHANGED Ledger!vars
    <2>1. /\ pc[p] = "idle" /\ UNCHANGED <<orders, born, settings, rows>>
          /\ \/ Enter(p, "approve", id, "load") \/ Enter(p, "revoke", id, "load")
             \/ Enter(p, "reject", id, "save") \/ Enter(p, "cancel", id, "save")
      BY <1>7 DEF AdminApproves, AdminRejects, BuyerCancels, AdminRevokes, CanStart
    <2>. QED
      BY <2>1, LedgerAside DEF Saves, Places, Handlers
  <1>8. ASSUME NEW id \in DOMAIN orders, BufPayNotify(p, id) PROVE UNCHANGED Ledger!vars
    <2>1. /\ pc[p] = "idle" /\ UNCHANGED <<orders, born, settings, rows>>
          /\ Enter(p, "approve", id, "load") \/ UNCHANGED <<pc, op, ord>>
      BY <1>8 DEF BufPayNotify, CanStart
    <2>. QED
      BY <2>1, LedgerAside DEF Saves, Places, Handlers
  <1>9. ~DropClient(p) /\ \A b \in Buyers : ~DeleteClient(p, b)
    BY NoTrouble
  <1>. QED
    BY <1>1, <1>2, <1>3, <1>4, <1>5, <1>6, <1>7, <1>8, <1>9 DEF Handler

LEMMA LedgerApproval ==
  ASSUME StoreInv, ServeInv, BookInv, BookInv', Calm, NEW p \in Procs, Alone(p), Approval(p)
  PROVE  Ledger!Next \/ UNCHANGED Ledger!vars
  <1>. USE DEF store, outside, local, jobs, history
  <1>. Types
    BY DEF StoreInv, GrantInv
  <1>1. CASE LoadClient(p)
    <2>1. pc[p] = "load" /\ UNCHANGED <<orders, born, settings, rows>>
      BY <1>1 DEF LoadClient
    <2>2. op[p] = "approve" \/ op[p] = "revoke"
      BY <2>1 DEF StoreInv, GrantInv, Coherent, Routed, Settling
    <2>3. op[p] = "revoke" => ClientKnown(settings, rows, ord[p].buyer)
      BY <2>1, KnownToRevoke
    <2>4. Goto(p, "copy") \/ Goto(p, "dup")
      BY <1>1, <2>2, <2>3 DEF LoadClient
    <2>. QED
      BY <2>1, <2>4, LedgerAside DEF Saves, Places
  <1>2. CASE CopyForUpdate(p)
    <2>1. /\ pc[p] = "copy" /\ UNCHANGED <<orders, born, settings, rows>>
          /\ Goto(p, "write") \/ Goto(p, "dup") \/ Return(p)
      BY <1>2 DEF CopyForUpdate, UpdateFailed
    <2>. QED
      BY <2>1, LedgerAside DEF Saves, Places
  <1>3. CASE CheckDuplicate(p)
    <2>1. /\ pc[p] = "dup" /\ UNCHANGED <<orders, born, settings, rows>>
          /\ Goto(p, "copyAdd") \/ Return(p)
      BY <1>3 DEF CheckDuplicate
    <2>. QED
      BY <2>1, LedgerAside DEF Saves, Places
  <1>4. CASE CopyForAdd(p)
    <2>1. pc[p] = "copyAdd" /\ UNCHANGED <<orders, born, settings, rows>> /\ Goto(p, "add")
      BY <1>4 DEF CopyForAdd
    <2>. QED
      BY <2>1, LedgerAside DEF Saves, Places
  <1>5. ~DbFails(p) /\ ~SaveFails(p)
    BY NoTrouble
  <1>. QED
    BY <1>1, <1>2, <1>3, <1>4, <1>5, LedgerCommit, LedgerSave DEF Approval

LEMMA LedgerJob ==
  ASSUME StoreInv, BookInv, BookInv', NEW j \in Jobs, Alone(j), Job(j)
  PROVE  Ledger!Next \/ UNCHANGED Ledger!vars
  <1>. USE DEF store, outside, local, jobs, history
  <1>. j \in Procs
    BY DEF Procs
  <1>1. CASE StartJob(j)
    <2>1. pc[j] = "idle" /\ UNCHANGED <<orders, born, settings, rows>> /\ Goto(j, "poll")
      BY <1>1 DEF StartJob, CanStart
    <2>. QED
      BY <2>1, LedgerAside DEF Saves, Places
  <1>2. ASSUME NEW id \in 1..MaxOrders, Poll(j, id) PROVE UNCHANGED Ledger!vars
    <2>1. /\ pc[j] = "poll" /\ UNCHANGED <<orders, born, settings, rows>>
          /\ \/ id \in DOMAIN orders /\ Enter(j, "approve", id, "load")
             \/ Return(j) \/ Goto(j, "expire")
      BY <1>2 DEF Poll, Holds
    <2>. QED
      BY <2>1, LedgerAside DEF Saves, Places, Handlers
  <1>3. CASE PollFails(j)
    <2>1. pc[j] = "poll" /\ UNCHANGED <<orders, born, settings, rows>> /\ Return(j)
      BY <1>3 DEF PollFails
    <2>. QED
      BY <2>1, LedgerAside DEF Saves
  <1>4. CASE Expire(j)
    BY <1>4, LedgerExpire
  <1>5. CASE EndRound(j)
    <2>1. /\ pc[j] = "poll" /\ UNCHANGED <<orders, born, settings, rows>>
          /\ Goto(j, "idle") \/ UNCHANGED <<pc, op, ord>>
      BY <1>5 DEF EndRound
    <2>. QED
      BY <2>1, LedgerAside DEF Saves, Places
  <1>. QED
    BY <1>1, <1>2, <1>3, <1>4, <1>5 DEF Job

LEMMA LedgerEnvironment ==
  ASSUME StoreInv, BookInv, Calm, Environment
  PROVE  Ledger!Next \/ UNCHANGED Ledger!vars
  <1>. USE DEF store, outside, local, jobs, history
  <1>1. CASE (\E sn \in Serials : BuyerPays(sn)) \/ ToggleReady \/ Tick
    <2>1. UNCHANGED <<orders, born, settings, rows, pc, op, ord>>
      BY <1>1 DEF BuyerPays, ToggleReady, Tick
    <2>. QED
      BY <2>1, LedgerUntouched
  <1>2. CASE \E emails \in SUBSET (DOMAIN rows \ {House}) : emails # {} /\ AddTraffic(emails)
    BY <1>2, LedgerUse
  <1>. QED
    BY <1>1, <1>2, NoTrouble DEF Environment

LEMMA LedgerStep ==
  ASSUME Calm, BoundInv, StoreInv, ServeInv, BookInv, BookInv', [Next]_vars
  PROVE  [Ledger!Next]_(Ledger!vars)
  <1>. MaxActive = 1
    BY DEF Calm
  <1>1. CASE UNCHANGED vars
    <2>1. UNCHANGED <<orders, born, settings, rows, pc, op, ord>>
      BY <1>1 DEF vars, local, history
    <2>. QED
      BY <2>1, LedgerUntouched
  <1>2. CASE \E p \in Workers : Handler(p)
    BY <1>2, AtWork, LedgerHandler
  <1>3. CASE \E p \in Procs : Approval(p)
    BY <1>3, AtWork, LedgerApproval
  <1>4. CASE \E j \in Jobs : Job(j)
    BY <1>4, AtWork, LedgerJob
  <1>. QED
    BY <1>1, <1>2, <1>3, <1>4, LedgerEnvironment DEF Next

LEMMA LedgerStart == Init => Ledger!Init
  <1>. SUFFICES ASSUME Init PROVE Ledger!Init
    OBVIOUS
  <1>1. \A sn \in Serials : sn > born
    BY ShopAssumption DEF Init, Serials
  <1>2. \A b \in Buyers : PositionsOf(settings, b) = {} /\ b \notin DOMAIN rows
    <2>1. settings = <<HouseClient>> /\ DOMAIN rows = {House}
      BY DEF Init, Fresh
    <2>. QED
      BY <2>1, ShopAssumption DEF PositionsOf, HouseClient
  <1>. QED
    BY <1>1, <1>2 DEF Ledger!Init, Ledger!Nobody, Books, Items, Quotas, Usage,
                      Book, Item, Quota, Used

\* With one handler at a time, nothing cleared or deleted and no transaction failing,
\* the shop implements its ledger: an approval adds the plan of its order in one step
\* and once, a revocation takes it back in one step and once, and rejections, expiries
\* and polls never touch a quota (ApproveOrder, RevokeOrder, RejectOrder,
\* AbandonPendingOrder, ExpirePendingOrder, ReconcilePendingOrders).
THEOREM BooksAreKept == Calm => (Spec => LedgerKept)
  <1>. SUFFICES ASSUME Calm PROVE Spec => LedgerKept
    OBVIOUS
  <1>1. MaxActive = 1
    BY DEF Calm
  <1>2. BoundInv /\ StoreInv /\ ServeInv /\ BookInv /\ BookInv' /\ [Next]_vars
           => [Ledger!Next]_(Ledger!vars)
    BY LedgerStep
  <1>. QED
    BY <1>1, <1>2, LedgerStart, BoundAlways, StoreAlways, ServeAlways, BookAlways, PTL
       DEF Spec, LedgerKept, Ledger!Spec

-----------------------------------------------------------------------------
(* The theorems of ShopLedgerProofs, brought to the shop.                *)

L == INSTANCE ShopLedgerProofs WITH
    book <- Books, item <- Items, quota <- Quotas, used <- Usage

LEMMA SensibleShop == L!Sensible
  <1>1. IsFiniteSet(Serials)
    BY FS_Interval, ShopAssumption DEF Serials
  <1>2. \A plan \in Plans : plan.gb \in Nat
    BY ShopAssumption
  <1>. QED
    BY <1>1, <1>2 DEF L!Sensible, IsFiniteSet, L!IsFiniteSet

\* The ledger of the proofs is the ledger of the properties.
LEMMA SameStep == (Ledger!Init => L!Init) /\ (Ledger!Next => L!Next) /\ Ledger!vars = L!vars
  BY DEF Ledger!Init, Ledger!Next, Ledger!Place, Ledger!Settle, Ledger!Close, Ledger!Revoke,
         Ledger!Use, Ledger!Nobody, Ledger!Clamp, Ledger!vars, L!Init, L!Next, L!Place, L!Settle, L!Close,
         L!Revoke, L!Use, L!Nobody, L!Clamp, L!vars

LEMMA SameSum == ASSUME NEW b PROVE Ledger!Bought(b) = L!Bought(b)
  BY DEF Ledger!Bought, L!Bought, Ledger!MapThenSumSet, L!MapThenSumSet,
     Ledger!MapThenFoldSet, L!MapThenFoldSet

LEMMA SameFloor == Ledger!QuotaFloor <=> L!QuotaFloor
  BY SameSum DEF Ledger!QuotaFloor, L!QuotaFloor

LEMMA SameGift == Ledger!NoFreeQuota <=> L!NoFreeQuota
  BY SameSum DEF Ledger!NoFreeQuota, L!NoFreeQuota, Ledger!Cardinality, L!Cardinality

LEMMA SameLedger == Ledger!Spec => L!Spec
  <1>1. Ledger!Init => L!Init
    BY SameStep
  <1>2. [Ledger!Next]_(Ledger!vars) => [L!Next]_(L!vars)
    BY SameStep DEF Ledger!vars, L!vars
  <1>. QED
    BY <1>1, <1>2, PTL DEF Ledger!Spec, L!Spec

\* Under the same conditions revoking one order never takes what the buyer's other
\* standing orders bought (revokeAdjustment, rule 1), whatever approvals, revocations,
\* expiries and traffic came before it.
THEOREM FloorHolds == Calm => (Spec => []QuotaFloor)
  <1>. SUFFICES ASSUME Calm PROVE Spec => []QuotaFloor
    OBVIOUS
  <1>1. L!Spec => []L!QuotaFloor
    BY L!FloorKept, SensibleShop
  <1>. QED
    BY <1>1, BooksAreKept, SameLedger, SameFloor, PTL DEF LedgerKept, QuotaFloor

\* Under the same conditions what a buyer can still use is at most what his standing
\* orders bought, and one byte more for each of his revoked orders (revokeAdjustment,
\* rules 2 and 3).
THEOREM GiftBound == Calm => (Spec => []NoFreeQuota)
  <1>. SUFFICES ASSUME Calm PROVE Spec => []NoFreeQuota
    OBVIOUS
  <1>1. L!Spec => []L!NoFreeQuota
    BY L!NothingFree, SensibleShop
  <1>. QED
    BY <1>1, BooksAreKept, SameLedger, SameGift, PTL DEF LedgerKept, NoFreeQuota
=============================================================================

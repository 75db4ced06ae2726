----------------------------- MODULE ShopLedger -----------------------------
(***************************************************************************)
(* What the shop promises, seen from its books: an order is placed, settled *)
(* once, and perhaps revoked; settling it adds its quota to the buyer's     *)
(* account in one step, revoking it takes that quota back in one step,      *)
(* except for what was used.  The comments of revokeAdjustment state these  *)
(* rules.  Module Shop is shown to implement them as long as its handlers   *)
(* do not overlap.                                                          *)
(***************************************************************************)
EXTENDS Integers, FiniteSetsExt

CONSTANTS Buyers, Serials, Plans

VARIABLES
    book,    \* the status of every order, "none" before it is placed
    item,    \* what was ordered: the buyer and the plan
    quota,   \* per buyer, the traffic allowed in total
    used     \* per buyer, the traffic used

vars == <<book, item, quota, used>>

Nobody == [buyer |-> {}, gb |-> 0]

Clamp(total, u) == IF total >= u THEN (IF total >= 1 THEN total ELSE 1)
                   ELSE (IF u >= 1 THEN u ELSE 1)

Init ==
    /\ book = [sn \in Serials |-> "none"]
    /\ item = [sn \in Serials |-> Nobody]
    /\ quota = [b \in Buyers |-> 0]
    /\ used = [b \in Buyers |-> 0]

Place(sn) ==
    /\ book[sn] = "none"
    /\ book' = [book EXCEPT ![sn] = "pending"]
    /\ \E b \in Buyers, plan \in Plans :
          item' = [item EXCEPT ![sn] = [buyer |-> b, gb |-> plan.gb]]
    /\ UNCHANGED <<quota, used>>

Settle(sn) ==
    /\ book[sn] = "pending"
    /\ book' = [book EXCEPT ![sn] = "approved"]
    /\ quota' = [quota EXCEPT ![item[sn].buyer] = @ + item[sn].gb]
    /\ UNCHANGED <<item, used>>

Close(sn) ==
    /\ book[sn] = "pending"
    /\ \E status \in {"rejected", "expired"} : book' = [book EXCEPT ![sn] = status]
    /\ UNCHANGED <<item, quota, used>>

\* The meter may run on after the revocation has looked at it, so what counts
\* as used is a reading that may be older than now.
Revoke(sn) ==
    /\ book[sn] = "approved"
    /\ book' = [book EXCEPT ![sn] = "revoked"]
    /\ LET b == item[sn].buyer
       IN  \E reading \in 0..used[b] :
              quota' = [quota EXCEPT ![b] = Clamp(@ - item[sn].gb, reading)]
    /\ UNCHANGED <<item, used>>

Use(S) ==
    /\ used' = [b \in Buyers |-> IF b \in S THEN used[b] + 1 ELSE used[b]]
    /\ UNCHANGED <<book, item, quota>>

Next ==
    \/ \E sn \in Serials : Place(sn) \/ Settle(sn) \/ Close(sn) \/ Revoke(sn)
    \/ \E S \in SUBSET Buyers : Use(S)

Spec == Init /\ [][Next]_vars

-----------------------------------------------------------------------------

\* The traffic of the buyer's orders that stand.
Bought(b) ==
    LET standing == {sn \in Serials : book[sn] = "approved" /\ item[sn].buyer = b}
    IN  MapThenSumSet(LAMBDA sn : item[sn].gb, standing)

\* "What he bought with other orders is untouched": revocations, in whatever
\* order, never push the quota below the orders that stand (revokeAdjustment,
\* rule 1).
QuotaFloor == \A b \in Buyers : quota[b] >= Bought(b)

\* "No free traffic": what is left to use is never more than what the standing
\* orders bought, but for the one byte each revocation may leave so that the
\* quota does not come to mean unlimited (revokeAdjustment, rules 2 and 3).
NoFreeQuota ==
    \A b \in Buyers :
        LET clamps == {sn \in Serials : book[sn] = "revoked" /\ item[sn].buyer = b}
        IN  quota[b] - used[b] <= Bought(b) + Cardinality(clamps)
=============================================================================

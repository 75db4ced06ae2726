------------------------------ MODULE ShopBooks ------------------------------
(***************************************************************************)
(* The refinement mapping from Shop to the books of ShopLedger, and the    *)
(* properties stated through it.                                           *)
(***************************************************************************)
EXTENDS Shop

-----------------------------------------------------------------------------
(* What the ledger sees of the shop's state.                               *)

\* The row of an order, while nothing clears the table.
RowOf(sn) == orders[CHOOSE i \in DOMAIN orders : orders[i].sn = sn]

\* The books of the ledger follow the client: an order counts as approved or
\* revoked from the moment its change of the client is committed.
Book(sn) ==
    IF sn > born THEN "none"
    ELSE IF \E p \in Procs : pc[p] = "save" /\ ord[p].sn = sn /\ op[p] = "approve"
    THEN "approved"
    ELSE IF \E p \in Procs : pc[p] = "save" /\ ord[p].sn = sn /\ op[p] = "revoke"
    THEN "revoked"
    ELSE RowOf(sn).status

Item(sn) ==
    IF sn > born THEN [buyer |-> {}, gb |-> 0]
    ELSE [buyer |-> RowOf(sn).buyer, gb |-> RowOf(sn).gb]

\* The quota in force is the one of the JSON array.
Quota(b) ==
    IF PositionsOf(settings, b) = {} THEN 0 ELSE ClientByEmail(settings, b).total

Used(b) == IF b \in DOMAIN rows THEN rows[b].used ELSE 0

Books == [sn \in Serials |-> Book(sn)]

Items == [sn \in Serials |-> Item(sn)]

Quotas == [b \in Buyers |-> Quota(b)]

Usage == [b \in Buyers |-> Used(b)]

Ledger == INSTANCE ShopLedger WITH
    book <- Books, item <- Items, quota <- Quotas, used <- Usage

-----------------------------------------------------------------------------
(* Properties.                                                             *)

\* With one handler at a time the shop keeps its books: an approval adds the
\* plan of its order once, a revocation takes it back once, rejected and expired
\* orders change nothing (ApproveOrder, RevokeOrder, RejectOrder, ExpirePendingOrder).
LedgerKept == Ledger!Spec

\* See ShopLedger: revoking one order leaves what the other orders bought.
QuotaFloor == Ledger!QuotaFloor

\* See ShopLedger: a revocation leaves no more than the standing orders bought.
NoFreeQuota == Ledger!NoFreeQuota
==============================================================================

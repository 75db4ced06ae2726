------------------------------- MODULE MCShop -------------------------------
(***************************************************************************)
(* TLC instances of Shop.                                                  *)
(***************************************************************************)
EXTENDS ShopBooks

CONSTANTS alice, bob, house, w1, w2, pend, rec

OneBuyer == {alice}
TwoBuyers == {alice, bob}
NoWorkers == {}
OneWorker == {w1}
TwoWorkers == {w1, w2}

\* One unit of traffic stands for the one byte of revokeAdjustment's clamp.
OnePlan == {[gb |-> 2, days |-> 1]}

\* For the liveness run: two buyers have their BufPay QR codes, nobody has paid.
\* Two orders are one more than QueryLimit, so each query leaves one behind.
WaitingOrder(b, sn) ==
    [sn |-> sn, buyer |-> b, gb |-> 2, days |-> 1, status |-> "pending",
     bufpay |-> TRUE, aoid |-> sn, created |-> 1]

LiveInit ==
    /\ orders = <<WaitingOrder(alice, 1), WaitingOrder(bob, 2)>>
    /\ bill = [sn \in Serials |-> "open"]
    /\ born = 2
    /\ Fresh

LiveSpec == LiveInit /\ [][Next]_vars /\ Fairness
=============================================================================

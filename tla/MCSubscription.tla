--------------------------- MODULE MCSubscription ---------------------------
(* Instances of Subscription for TLC.                                       *)
EXTENDS Subscription, TLC

CONSTANTS w1, w2, w3, d1, d2

(* d1 uses one URL for control and events, d2 has two.                      *)
MixedControl == (d1 :> "u1") @@ (d2 :> "control")
MixedEvent   == (d1 :> "u1") @@ (d2 :> "event")

(* Every URL is different.                                                  *)
PlainControl == (d1 :> "control1") @@ (d2 :> "control2")
PlainEvent   == (d1 :> "event1") @@ (d2 :> "event2")

WorkerSymmetry == Permutations(Worker)
=============================================================================

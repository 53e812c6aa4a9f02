---------------------------- MODULE MCBroadcast ----------------------------
(* Instances of Broadcast for TLC.                                         *)
EXTENDS Broadcast, TLC

CONSTANTS c1, c2, m1, m2

Setup(capacity, policy, faults, fresh, closable, cancellable) ==
  [capacity |-> capacity, policy |-> policy, faults |-> faults,
   fresh |-> fresh, closable |-> closable, cancellable |-> cancellable]

(* Every strategy, on a network that fails and on one that does not; full  *)
(* queues, and queues that hold both broadcasts.                           *)
EveryPolicy ==
  {Setup(1, "drop", {"net", "rawclose"}, {}, {c2}, {m1}),
   Setup(1, "close", {"rawclose"}, {c2}, {}, {}),
   Setup(1, "wait", {}, {c2}, {c2}, {m1}),
   Setup(2, "drop", {}, {}, {c2}, {m1})}
=============================================================================

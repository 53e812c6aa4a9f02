------------------------------ MODULE MCBatch ------------------------------
(* Instances of Batch for TLC.                                             *)
EXTENDS Batch, TLC

CONSTANTS c1, c2, m1, m2, m3

Lengths == m1 :> 1 @@ m2 :> 3 @@ m3 :> 1

Setup(strategy, affixes, first, open, fresh, calls, casts, policy, closable, events) ==
  [strategy |-> strategy, affixes |-> affixes, first |-> first, open |-> open, fresh |-> fresh, calls |-> calls, casts |-> casts,
   capacity |-> 1, policy |-> policy, closable |-> closable, events |-> events]

(* Three calls race for one batch while the flusher closes, one of them    *)
(* with a message larger than a batch; two calls on a connection that      *)
(* closes while it sends; two calls on connections that break and end; the *)
(* first flusher comes after one connection and before or after another;   *)
(* broadcasts that wait or close with a flusher replaced meanwhile; a      *)
(* broadcast to two connections.                                           *)
Uses ==
  {Setup("json", {}, 1, {c1}, {}, {c1} \X {m1, m2, m3}, {}, "drop", {}, {"close"}),
   Setup("json", {}, 1, {c1}, {}, {c1} \X {m1, m3}, {}, "drop", {c1}, {"ctx"}),
   Setup("length", {"suffix"}, 1, {c1, c2}, {}, {<<c1, m1>>, <<c2, m3>>}, {}, "drop", {c1},
         {"ctx", "net", "close"}),
   Setup("json", {"prefix"}, 0, {c1}, {c2}, {<<c1, m1>>, <<c2, m2>>}, {}, "drop", {c1, c2},
         {"enable"}),
   Setup("length", {"prefix"}, 1, {c1}, {}, {}, {m1, m3}, "wait", {}, {"enable"}),
   Setup("json", {"prefix", "suffix"}, 1, {c1}, {}, {}, {m1, m3}, "close", {}, {"castctx"}),
   Setup("length", {}, 1, {c1, c2}, {}, {}, {m1}, "drop", {c1}, {"close"})}
=============================================================================

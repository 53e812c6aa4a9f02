------------------------------ MODULE MCRooms ------------------------------
(* Instances of Rooms for TLC: a connection with two handlers, and one     *)
(* with a handler of its own.                                              *)
EXTENDS Rooms, TLC

CONSTANTS c1, c2, h1, h2, h3

Shared == (h1 :> c1) @@ (h2 :> c1) @@ (h3 :> c2)

Ops(first, second, other) == (h1 :> first) @@ (h2 :> second) @@ (h3 :> other)

(* Programs, each with what its handlers do.                               *)
Operations ==
  ({"move", "early"} :> Ops(2, 1, 0))
  @@ ({"move", "early", "remove"} :> Ops(1, 0, 2))
  @@ ({"move", "early", "closeroom"} :> Ops(2, 0, 0))
  @@ ({"remove", "early", "unaware", "closeroom"} :> Ops(3, 0, 0))
  @@ ({"remove", "closeroom"} :> Ops(1, 1, 0))
  @@ ({"remove", "shutdown"} :> Ops(1, 0, 1))
  @@ ({"early", "closeroom", "shutdown"} :> Ops(2, 0, 0))
  @@ ({"closeroom", "shutdown", "hookgets"} :> Ops(1, 0, 0))
  @@ ({"closeroom", "reclose", "hookgets"} :> Ops(1, 0, 1))
  @@ ({"closeroom", "nohooks"} :> Ops(1, 0, 0))
Programs == DOMAIN Operations
=============================================================================

-------------------------- MODULE MCWriteBuffers --------------------------
(* Instances of WriteBuffers, and of the Codec in it, for TLC.             *)
EXTENDS WriteBuffers, FiniteSetsExt, TLC

CONSTANTS c1, c2, c3, c4, g1, g2, g3, g4

ByteXor(a, b) ==
  MapThenSumSet(LAMBDA i : IF (a \div 2^i) % 2 = (b \div 2^i) % 2 THEN 0 ELSE 2^i, 0..7)

(* No payload, less than a word, a word, and words with each kind of rest; *)
(* one byte too much; keys whose bytes differ.                             *)
Loads == {[i \in 1..n |-> (40 * i) % 256] : n \in {0, 3, 8, 13, 15}}
ClientFrames ==
  {[op |-> 2, fin |-> TRUE, form |-> form, key |-> key, load |-> load] :
     form \in {7, 16, 64}, key \in {<<1, 2, 4, 8>>, <<255, 0, 129, 7>>}, load \in Loads}

Senders == g1 :> c1 @@ g2 :> c2 @@ g3 :> c4 @@ g4 :> c4

(* Upstream one run; downstream two connections with messages of one and  *)
(* two chunks, three the last of which only gives its buffer to the        *)
(* others, and one without a pool.  Sizes are at the changes of form.      *)
(* Last, two calls on one connection.                                      *)
Lengths(gs, most) ==
  {[g \in DOMAIN Senders |-> IF g \in gs THEN k[g] ELSE 1] : k \in [gs -> 1..most]}
Down(supply, conns, sizes, gs, most) ==
  [direction : {"down"}, supply : {supply}, conns : conns, size : sizes,
   chunks : Lengths(gs, most)]
Runs ==
  [direction : {"up"}, supply : {"own"}, conns : {{}}, size : {1},
   chunks : Lengths({}, 1)]
    \cup Down("pool", {{c1, c2}}, {65535}, {g1, g2}, 2)
    \cup Down("pool", {{c1, c2, c3}}, {65536}, {g1, g2}, 1)
    \cup Down("own", {{c1}, {c2}}, {1, 125, 126, 1048576}, {g1, g2}, 2)
    \cup Down("pool", {{c3, c4}}, {1}, {g3}, 2)

(* A connection is exchanged together with its call.                       *)
Symmetry == {(c1 :> c2) @@ (c2 :> c1) @@ (g1 :> g2) @@ (g2 :> g1)}
=============================================================================

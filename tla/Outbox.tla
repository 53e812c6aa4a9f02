------------------------------- MODULE Outbox -------------------------------
(***************************************************************************)
(* What batching promises: every connection has a log of the messages that *)
(* were accepted for it, and its client gets consecutive pieces of the     *)
(* log, none of them overlapping another.  The pieces may come in any      *)
(* order (each flush sends in a goroutine of its own), and a piece may     *)
(* never come.  When a piece is cut short the stream is over: what it had  *)
(* stays, and nothing is promised of what follows.                         *)
(***************************************************************************)
EXTENDS Naturals, Sequences

CONSTANTS
  Conns,    \* connections
  Messages  \* messages, each of them batched at most once per connection

VARIABLES
  log,      \* log[c]: the messages accepted for c
  stream,   \* stream[c]: the batches the client of c gets
  over      \* the connections whose stream is over

Init == log = [c \in Conns |-> <<>>] /\ stream = [c \in Conns |-> <<>>] /\ over = {}

Holds(s, m) == \E i \in 1..Len(s) : s[i] = m

Accept(c, m) ==
  /\ ~Holds(log[c], m)
  /\ log' = [log EXCEPT ![c] = Append(@, m)]
  /\ UNCHANGED <<stream, over>>

Delivered(c, m) == \E i \in 1..Len(stream[c]) : Holds(stream[c][i], m)

Deliver(c, i, j) ==
  /\ c \notin over
  /\ \A k \in i..j : ~Delivered(c, log[c][k])
  /\ stream' = [stream EXCEPT ![c] = Append(@, SubSeq(log[c], i, j))]
  /\ UNCHANGED <<log, over>>

Begins(s, t) == Len(s) <= Len(t) /\ SubSeq(t, 1, Len(s)) = s

(* The piece that is cut short, or what comes after it.                    *)
Garble(c) ==
  /\ over' = over \cup {c} /\ UNCHANGED log
  /\ DOMAIN stream' = Conns /\ \A d \in Conns \ {c} : stream'[d] = stream[d]
  /\ Begins(stream[c], stream'[c])

Next == \E c \in Conns :
  \/ \E m \in Messages : Accept(c, m)
  \/ \E j \in 1..Len(log[c]) : \E i \in 1..j : Deliver(c, i, j)
  \/ Garble(c)

Spec == Init /\ [][Next]_<<log, stream, over>>
=============================================================================

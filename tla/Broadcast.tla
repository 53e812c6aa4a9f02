----------------------------- MODULE Broadcast -----------------------------
(***************************************************************************)
(* Fan-out of broadcasts to the connections of a Manager or a Room         *)
(* (broadcast.go): the calls of Upgrader.broadcast, the broadcastQueue of  *)
(* each connection with its backpressure, and the broadcastListener that   *)
(* empties it.  How a frame is written is ConnWrite's subject; here a      *)
(* write succeeds, gives up on its context or fails.                       *)
(***************************************************************************)
EXTENDS Naturals, Sequences, FiniteSets

CONSTANTS
  Conns,       \* connections of the Manager or Room
  Casts,       \* calls of BroadcastString, BroadcastBytes, BroadcastJSON
  Nobody,      \* no connection, no call
  Setups       \* the options, and what goes on around the calls

ASSUME BroadcastAssumption ==
  /\ Nobody \notin Conns \cup Casts
  /\ Setups \subseteq
       [capacity : Nat \ {0},                          \* BroadcastChannelsSize
        policy : {"drop", "close", "wait"},            \* BroadcastBackpressure
        faults : SUBSET {"net", "rawclose"},           \* writes fail, raw is closed
        fresh : SUBSET Conns,        \* still on their way to enableBroadcasting
        closable : SUBSET Conns,     \* somebody else may close them
        cancellable : SUBSET Casts]  \* their context can be done

VARIABLES
  options,  \* one of Setups; it never changes
  pc,       \* pc[m]: where call m is
  left,     \* left[m]: the connections of its snapshot m has not visited
  waitsFor, \* waitsFor[m]: the connection whose queue m waits for
  ctxDone,  \* calls whose context is done
  before,   \* before[m]: the calls that had returned when m began (history)
  enabled,  \* connections whose broadcastQueue exists
  queue,    \* queue[c]: conn.broadcastQueue
  listener, \* listener[c]: where the broadcastListener of c is
  current,  \* current[c]: the message it is writing
  sent,     \* sent[c]: the messages it has written
  asked,    \* connections for which go CloseWithCode is pending
  closing   \* closing[c]: "no", "done" (conn.done is closed), "gone" (off the map)

Fresh == options.fresh
Closable == options.closable
Cancellable == options.cancellable

calls == <<pc, left, waitsFor, before>>
conns == <<enabled, listener, current, sent, closing>>
vars  == <<options, calls, ctxDone, conns, queue, asked>>

Init ==
  /\ options \in Setups
  /\ pc = [m \in Casts |-> "start"]
  /\ left = [m \in Casts |-> {}]
  /\ waitsFor = [m \in Casts |-> Nobody]
  /\ ctxDone = {}
  /\ before = [m \in Casts |-> {}]
  /\ enabled = Conns \ Fresh
  /\ queue = [c \in Conns |-> <<>>]
  /\ listener = [c \in Conns |-> IF c \in Fresh THEN "none" ELSE "idle"]
  /\ current = [c \in Conns |-> Nobody]
  /\ sent = [c \in Conns |-> <<>>]
  /\ asked = {}
  /\ closing = [c \in Conns |-> "no"]

Over == {"ok", "ctx"}      \* the call has returned: all visited, or ctx.Err()
Returned(m) == pc[m] \in Over

-----------------------------------------------------------------------------
(* Upgrader.broadcast.                                                     *)

(* GetAllConns: whoever is on the map at this moment.                      *)
Begin(m) ==
  /\ pc[m] = "start" /\ pc' = [pc EXCEPT ![m] = "loop"]
  /\ left' = [left EXCEPT ![m] = {c \in Conns : closing[c] # "gone"}]
  /\ before' = [before EXCEPT ![m] = {o \in Casts : Returned(o)}]
  /\ UNCHANGED <<waitsFor, ctxDone, conns, queue, asked>>

\* Mutant: the check ignores what the queue already holds.
RoomAlways(c) == c \in enabled

\* Mutant: off by one.
RoomOffByOne(c) == c \in enabled /\ Len(queue[c]) + 1 < options.capacity

(* A send on a nil queue is never ready.                                   *)
Room(c) == c \in enabled /\ Len(queue[c]) < options.capacity

Visited(m, c) == left' = [left EXCEPT ![m] = @ \ {c}]

\* Mutant: the connection is not removed from the ones to visit.
EnqueueAgain(m, c) ==
  /\ pc[m] = "loop" /\ c \in left[m] /\ Room(c)
  /\ queue' = [queue EXCEPT ![c] = Append(@, m)]
  /\ UNCHANGED <<calls, ctxDone, conns, asked>>

Enqueue(m, c) ==
  /\ pc[m] = "loop" /\ c \in left[m] /\ Room(c)
  /\ queue' = [queue EXCEPT ![c] = Append(@, m)] /\ Visited(m, c)
  /\ UNCHANGED <<pc, waitsFor, before, ctxDone, conns, asked>>

(* The default case of the select: neither the queue nor ctx.Done is ready.*)
Blocked(m, c) == pc[m] = "loop" /\ c \in left[m] /\ ~Room(c) /\ m \notin ctxDone

Drop(m, c) ==
  /\ options.policy = "drop" /\ Blocked(m, c) /\ Visited(m, c)
  /\ UNCHANGED <<pc, waitsFor, before, ctxDone, conns, queue, asked>>

CloseSlow(m, c) ==
  /\ options.policy = "close" /\ Blocked(m, c) /\ Visited(m, c)
  /\ asked' = asked \cup {c}
  /\ UNCHANGED <<pc, waitsFor, before, ctxDone, conns, queue>>

WaitFor(m, c) ==
  /\ options.policy = "wait" /\ Blocked(m, c)
  /\ pc' = [pc EXCEPT ![m] = "wait"] /\ waitsFor' = [waitsFor EXCEPT ![m] = c]
  /\ UNCHANGED <<left, before, ctxDone, conns, queue, asked>>

EnqueueLate(m) ==
  /\ pc[m] = "wait" /\ Room(waitsFor[m])
  /\ queue' = [queue EXCEPT ![waitsFor[m]] = Append(@, m)]
  /\ pc' = [pc EXCEPT ![m] = "loop"] /\ Visited(m, waitsFor[m])
  /\ waitsFor' = [waitsFor EXCEPT ![m] = Nobody]
  /\ UNCHANGED <<before, ctxDone, conns, asked>>


GiveUp(m) ==
  /\ m \in ctxDone
  /\ (pc[m] = "loop" /\ left[m] # {}) \/ pc[m] = "wait"
  /\ pc' = [pc EXCEPT ![m] = "ctx"]
  /\ UNCHANGED <<left, waitsFor, before, ctxDone, conns, queue, asked>>

Return(m) ==
  /\ pc[m] = "loop" /\ left[m] = {} /\ pc' = [pc EXCEPT ![m] = "ok"]
  /\ UNCHANGED <<left, waitsFor, before, ctxDone, conns, queue, asked>>

Call(m) ==
  /\ \/ Begin(m) \/ EnqueueLate(m) \/ GiveUp(m) \/ Return(m)
     \/ \E c \in Conns : Enqueue(m, c) \/ Drop(m, c) \/ CloseSlow(m, c) \/ WaitFor(m, c)
  /\ UNCHANGED options

-----------------------------------------------------------------------------
(* enableBroadcasting and the broadcastListener.                           *)

Enable(c) ==
  /\ c \notin enabled /\ enabled' = enabled \cup {c}
  /\ listener' = [listener EXCEPT ![c] = "idle"]
  /\ UNCHANGED <<options, calls, ctxDone, queue, current, sent, asked, closing>>

\* Mutant: the newest message goes first.
ReceiveNewest(c) ==
  /\ listener[c] = "idle" /\ queue[c] # <<>>
  /\ current' = [current EXCEPT ![c] = queue[c][Len(queue[c])]]
  /\ queue' = [queue EXCEPT ![c] = SubSeq(@, 1, Len(@) - 1)]
  /\ listener' = [listener EXCEPT ![c] = "writing"]
  /\ UNCHANGED <<calls, ctxDone, enabled, sent, asked, closing>>

Receive(c) ==
  /\ listener[c] = "idle" /\ queue[c] # <<>>
  /\ current' = [current EXCEPT ![c] = Head(queue[c])]
  /\ queue' = [queue EXCEPT ![c] = Tail(@)]
  /\ listener' = [listener EXCEPT ![c] = "writing"]
  /\ UNCHANGED <<calls, ctxDone, enabled, sent, asked, closing>>

WriteEnds(c, l) ==
  /\ listener[c] = "writing" /\ listener' = [listener EXCEPT ![c] = l]
  /\ current' = [current EXCEPT ![c] = Nobody]
  /\ UNCHANGED <<calls, ctxDone, enabled, queue>>

(* The frame may still leave while CloseWithCode is under way.             *)
WriteSent(c) ==
  /\ WriteEnds(c, "idle") /\ closing[c] # "gone"
  /\ sent' = [sent EXCEPT ![c] = Append(@, current[c])]
  /\ UNCHANGED <<asked, closing>>

\* Mutant: every error ends the listener, not only a fatal one.
WriteCancelledEnds(c) ==
  /\ WriteEnds(c, "exited") /\ current[c] \in ctxDone /\ UNCHANGED <<sent, asked, closing>>

\* Mutant: a message that was not sent in time goes back to the queue.
WriteCancelledRetries(c) ==
  /\ listener[c] = "writing" /\ current[c] \in ctxDone
  /\ listener' = [listener EXCEPT ![c] = "idle"]
  /\ queue' = [queue EXCEPT ![c] = Append(@, current[c])]
  /\ current' = [current EXCEPT ![c] = Nobody]
  /\ UNCHANGED <<calls, ctxDone, enabled, sent, asked, closing>>

WriteCancelled(c) ==
  /\ WriteEnds(c, "idle") /\ current[c] \in ctxDone /\ UNCHANGED <<sent, asked, closing>>

WriteFatal(c) ==
  /\ WriteEnds(c, "exited") /\ UNCHANGED <<sent, closing>>
  /\ \/ closing[c] # "no" /\ UNCHANGED asked                  \* writeLock: conn.done
     \/ "net" \in options.faults /\ UNCHANGED asked                   \* sendFrame
     \/ "rawclose" \in options.faults /\ asked' = asked \cup {c}      \* SetWriteDeadline

StopListening(c) ==
  /\ listener[c] = "idle" /\ closing[c] # "no"
  /\ listener' = [listener EXCEPT ![c] = "draining"]
  /\ UNCHANGED <<calls, ctxDone, enabled, queue, current, sent, asked, closing>>

Drain(c) ==
  /\ listener[c] = "draining"
  /\ IF queue[c] # <<>>
       THEN queue' = [queue EXCEPT ![c] = Tail(@)] /\ UNCHANGED listener
       ELSE listener' = [listener EXCEPT ![c] = "exited"] /\ UNCHANGED queue
  /\ UNCHANGED <<calls, ctxDone, enabled, current, sent, asked, closing>>

Listen(c) ==
  /\ \/ Receive(c) \/ WriteSent(c) \/ WriteCancelled(c) \/ WriteFatal(c)
     \/ StopListening(c) \/ Drain(c)
  /\ UNCHANGED options

-----------------------------------------------------------------------------
(* CloseWithCode: conn.done is closed first, unregister or Room.Remove     *)
(* takes the connection off the map at the end.                            *)

CloseBegin(c) ==
  /\ closing[c] = "no" /\ c \in asked \cup Closable
  /\ closing' = [closing EXCEPT ![c] = "done"]
  /\ UNCHANGED <<options, calls, ctxDone, enabled, listener, current, sent, queue, asked>>

CloseEnd(c) ==
  /\ closing[c] = "done" /\ closing' = [closing EXCEPT ![c] = "gone"]
  /\ UNCHANGED <<options, calls, ctxDone, enabled, listener, current, sent, queue, asked>>

CancelCtx(m) ==
  /\ m \in Cancellable \ ctxDone /\ ctxDone' = ctxDone \cup {m}
  /\ UNCHANGED <<options, calls, conns, queue, asked>>

Next ==
  \/ \E m \in Casts : Call(m) \/ CancelCtx(m)
  \/ \E c \in Conns : Enable(c) \/ Listen(c) \/ CloseBegin(c) \/ CloseEnd(c)

Spec == Init /\ [][Next]_vars

(* The callers of broadcasts and the listeners run, and the writes of a    *)
(* live connection end.  Nobody has to close a connection that could be.   *)
FairSpec ==
  /\ Spec
  /\ \A m \in Casts : SF_vars(Call(m))
  /\ \A c \in Conns : WF_vars(Enable(c)) /\ WF_vars(Listen(c)) /\ WF_vars(CloseEnd(c))
-----------------------------------------------------------------------------
(* Every variable keeps its type, and no queue exceeds its capacity.       *)
TypeOK ==
  /\ options \in Setups
  /\ pc \in [Casts -> {"start", "loop", "wait"} \cup Over]
  /\ left \in [Casts -> SUBSET Conns]
  /\ waitsFor \in [Casts -> Conns \cup {Nobody}]
  /\ ctxDone \subseteq Cancellable
  /\ before \in [Casts -> SUBSET Casts]
  /\ enabled \subseteq Conns
  /\ queue \in [Conns -> Seq(Casts)] /\ \A c \in Conns : Len(queue[c]) <= options.capacity
  /\ listener \in [Conns -> {"none", "idle", "writing", "draining", "exited"}]
  /\ current \in [Conns -> Casts \cup {Nobody}]
  /\ sent \in [Conns -> Seq(Casts)]
  /\ asked \subseteq Conns
  /\ closing \in [Conns -> {"no", "done", "gone"}]

InTransit(c) ==
  sent[c] \o (IF current[c] = Nobody THEN <<>> ELSE <<current[c]>>) \o queue[c]

(* No client gets a broadcast twice, and two of which one returned before  *)
(* the other began reach a client in that order, when they reach it at     *)
(* all: whatever the queues, the contexts and the closes do meanwhile.     *)
InOrderOnce ==
  \A c \in Conns : LET s == InTransit(c) IN
    \A i, j \in 1..Len(s) : i < j => s[i] # s[j] /\ s[j] \notin before[s[i]]

(* BackpressureClose closes clients that are too slow: what a broadcast or *)
(* a listener asks to close has a full queue, no queue yet, or a raw       *)
(* connection that somebody closed.                                        *)
OnlySlowAreClosed ==
  [][\A c \in asked' \ asked :
       \/ options.policy = "close" /\ (Len(queue[c]) = options.capacity \/ c \notin enabled)
       \/ "rawclose" \in options.faults /\ current[c] # Nobody]_vars


InQueue(m, c) == \E i \in 1..Len(queue[c]) : queue[c][i] = m
WasSent(m, c) == \E i \in 1..Len(sent[c]) : sent[c][i] = m

(* A queued broadcast is sent to its client, unless the connection closes  *)
(* or the caller's context is done: on a network that does not fail the    *)
(* listener outlives the messages it could not write in time.              *)
QueuedIsSent ==
  \A m \in Casts, c \in Conns :
    InQueue(m, c) /\ options.faults = {} ~>
      WasSent(m, c) \/ closing[c] # "no" \/ m \in ctxDone
=============================================================================

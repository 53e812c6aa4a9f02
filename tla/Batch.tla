------------------------------- MODULE Batch -------------------------------
(***************************************************************************)
(* Batching: the messageBatch of each connection and the calls of Batch    *)
(* that fill it (conn_batcher.go), the batchFlusher that empties it        *)
(* (flusher.go) with EnableBatching replacing one flusher by the next, the *)
(* broadcasts that come through the broadcastQueue (batchBroadcast), and   *)
(* what newConn and CloseWithCode do to a flusher.                         *)
(*                                                                         *)
(* A step is a section under a mutex, a select or a send.  Of the writes   *)
(* of a batch nobody but a close sees how far they are: the writer's lock  *)
(* keeps other senders out.  So a send is one step here, unless a close    *)
(* cuts it short (CloseConn), the network fails or a context ends          *)
(* (SendFails).                                                            *)
(***************************************************************************)
EXTENDS Naturals, Sequences, Functions, Encoders

CONSTANTS
  Conns,        \* connections of the upgrader
  Messages,     \* messages to batch
  MaxFlushers,  \* bound: flushers the upgrader has one after the other
  MaxBatchSize, \* Options.MaxBatchSize
  SizeOf,       \* SizeOf[m]: length of message m
  Setups        \* what the application does and what may go wrong

Flushers == 1..MaxFlushers
NoFlusher == 0

Events == {"enable",   \* EnableBatching is called, again or for the first time
           "close",    \* Flusher.Close is called
           "ctx",      \* the context of a flusher ends
           "castctx",  \* the context of a broadcast ends
           "net"}      \* the write of a batch fails

ASSUME BatchAssumption ==
  /\ MaxFlushers \in Nat \ {0} /\ MaxBatchSize \in Nat
  /\ SizeOf \in [Messages -> Nat]
  /\ Conns \cap {"no", "called", "loop", "returned"} = {}
  /\ \A s \in Setups : \A call \in s.calls : call[2] \notin s.casts
  /\ Setups \subseteq
       [strategy : {"json", "length"},
        affixes : SUBSET {"prefix", "suffix"}, \* BatchPrefixFunc, BatchSuffixFunc
        first : {NoFlusher, 1},          \* the flusher there is at the start
        calls : SUBSET (Conns \X Messages), \* calls of Batch, one goroutine each
        casts : SUBSET Messages,         \* calls of BatchBroadcast
        capacity : Nat \ {0},            \* BroadcastChannelsSize
        policy : {"drop", "close", "wait"},
        open : SUBSET Conns,             \* open at the start
        fresh : SUBSET Conns,            \* about to be made by newConn
        closable : SUBSET Conns,         \* may be closed
        events : SUBSET Events]

VARIABLES
  setup,     \* one of Setups; it never changes
  flusher,   \* u.Flusher
  enabling,  \* EnableBatching has closed u.Flusher and not yet replaced it
  closed, ctxDone,  \* flushers that are closed, whose context is done
  listener,  \* listener[f]: its goroutine: "none", "on", "last" (final flushAll), "off"
  conns,     \* conns[f]: the map f.conns
  sweep,     \* sweep[f][k]: what flushAll, run by a tick or at the end, has yet to visit
  life,      \* life[c]: "none" (never there), "new", "added" (on the flusher, conn.batch nil), "open",
             \* "done" (conn.done closed), "gone" (CloseWithCode returned, off the flusher),
             \* "broken" (conn.done closed after a failed write; CloseWithCode never returns)
  owner,     \* owner[c]: the flusher newConn found (conn.batch.flusher)
  batch,     \* batch[c]: conn.batch.messages
  total,     \* total[c]: conn.batch.totalSize
  sending,   \* sending[c]: batches whose send goroutine has not sent yet
  wire,      \* wire[c]: the messages sent, as the encoders wrote them
  garbled,   \* connections on which a message was cut short
  at,        \* at[c][m]: where the call conn.Batch(m) is
  queue,     \* queue[c]: conn.broadcastQueue
  listens,   \* connections whose broadcastListener runs
  cast,      \* cast[m]: where the call BatchBroadcast(m) is
  left,      \* left[m]: the connections it has not visited
  seen,      \* seen[m]: the flusher its inner select looks at
  asked,     \* connections for which go CloseWithCode is pending
  crashed,   \* a nil pointer was dereferenced
  log,       \* log[c]: the messages appended to the batch of c (history)
  forced,    \* forced[c]: those appended, without a look at its size, to a batch that others
             \* filled after the caller's flush (history)
  late       \* late[c]: those appended when the flusher was closed (history)

upgrader == <<flusher, enabling, closed, ctxDone, listener, conns>>
batches  == <<batch, total, sending>>
history  == <<log, forced, late>>
casting  == <<queue, listens, cast, left, seen, asked>>
sent     == <<wire, garbled>>
vars == <<setup, upgrader, sweep, life, owner, batches, sent, at, casting, crashed, history>>

Init ==
  /\ setup \in Setups
  /\ flusher = setup.first /\ enabling = FALSE
  /\ closed = {} /\ ctxDone = {}
  /\ listener = [f \in Flushers |-> IF f = setup.first THEN "on" ELSE "none"]
  /\ conns = [f \in Flushers |-> IF f = setup.first THEN setup.open ELSE {}]
  /\ sweep = [f \in Flushers |-> [k \in {"tick", "last"} |-> {}]]
  /\ life = [c \in Conns |-> IF c \in setup.open THEN "open"
                               ELSE IF c \in setup.fresh THEN "new" ELSE "none"]
  /\ owner = [c \in Conns |-> IF c \in setup.open THEN setup.first ELSE NoFlusher]
  /\ batch = [c \in Conns |-> <<>>] /\ total = [c \in Conns |-> 0]
  /\ sending = [c \in Conns |-> {}]
  /\ wire = [c \in Conns |-> <<>>] /\ garbled = {}
  /\ at = [c \in Conns |-> [m \in Messages |->
             IF <<c, m>> \in setup.calls THEN "called" ELSE "no"]]
  /\ queue = [c \in Conns |-> <<>>]
  /\ listens = setup.open
  /\ cast = [m \in Messages |-> IF m \in setup.casts THEN "called" ELSE "no"]
  /\ left = [m \in Messages |-> {}] /\ seen = [m \in Messages |-> NoFlusher]
  /\ asked = {}
  /\ crashed = FALSE
  /\ log = [c \in Conns |-> <<>>]
  /\ forced = [c \in Conns |-> {}] /\ late = [c \in Conns |-> {}]
-----------------------------------------------------------------------------
(* messageBatch.flush: the whole batch goes to a send goroutine of its own.*)

\* Mutant: flush forgets totalSize.
FlushKeepsTotal(c) ==
  /\ batch' = [batch EXCEPT ![c] = <<>>]
  /\ sending' = IF batch[c] = <<>> THEN sending ELSE [sending EXCEPT ![c] = @ \cup {batch[c]}]
  /\ UNCHANGED total

\* Mutant: flush sends the batch and keeps it.
FlushKeepsBatch(c) ==
  /\ sending' = IF batch[c] = <<>> THEN sending ELSE [sending EXCEPT ![c] = @ \cup {batch[c]}]
  /\ total' = [total EXCEPT ![c] = 0]
  /\ UNCHANGED batch

Flush(c) ==
  /\ batch' = [batch EXCEPT ![c] = <<>>]
  /\ total' = [total EXCEPT ![c] = 0]
  /\ sending' = IF batch[c] = <<>> THEN sending ELSE [sending EXCEPT ![c] = @ \cup {batch[c]}]

-----------------------------------------------------------------------------
(* Conn.Batch.                                                             *)

CallAt(c, m, l) == at' = [at EXCEPT ![c][m] = l]

(* Without a flusher, or after its end or the connection's, Batch fails;   *)
(* none of this is looked at again under the lock.                         *)
Refuses(c) == \/ owner[c] = NoFlusher \/ life[c] \in {"broken", "done", "gone"}
              \/ owner[c] \in closed \cup ctxDone

Check(c, m) ==
  /\ at[c][m] = "called" /\ life[c] \notin {"none", "new", "added"}
  /\ CallAt(c, m, IF Refuses(c) THEN "err" ELSE "lock")
  /\ UNCHANGED <<upgrader, sweep, life, owner, batches, sent, casting, crashed, history>>

Put(c, m) ==
  /\ batch' = [batch EXCEPT ![c] = Append(@, m)]
  /\ total' = [total EXCEPT ![c] = @ + SizeOf[m]]
  /\ log' = [log EXCEPT ![c] = Append(@, m)]
  /\ late' = [late EXCEPT ![c] = IF owner[c] \in closed THEN @ \cup {m} ELSE @]
  /\ CallAt(c, m, "ok")
  /\ UNCHANGED <<upgrader, sweep, life, owner, sending, sent, casting, crashed>>

\* Mutant: the length of the new message is not counted.
FitsBefore(c, m) == total[c] <= MaxBatchSize

Fits(c, m) == total[c] + SizeOf[m] <= MaxBatchSize

Add(c, m) == at[c][m] = "lock" /\ Fits(c, m) /\ Put(c, m) /\ UNCHANGED forced

Overflow(c, m) ==
  /\ at[c][m] = "lock" /\ ~Fits(c, m) /\ CallAt(c, m, "full")
  /\ UNCHANGED <<upgrader, sweep, life, owner, batches, sent, casting, crashed, history>>

FlushFull(c, m) ==
  /\ at[c][m] = "full" /\ Flush(c) /\ CallAt(c, m, "again")
  /\ UNCHANGED <<upgrader, sweep, life, owner, sent, casting, crashed, history>>

AddAnyway(c, m) ==
  /\ at[c][m] = "again" /\ Put(c, m)
  /\ forced' = [forced EXCEPT ![c] = IF batch[c] = <<>> THEN @ ELSE @ \cup {m}]

CallBatch(c, m) ==
  Check(c, m) \/ Add(c, m) \/ Overflow(c, m) \/ FlushFull(c, m) \/ AddAnyway(c, m)

-----------------------------------------------------------------------------
(* batch.send: NextWriter with the flusher's context, the encoder, Close.  *)

SendEnds(c, b) ==
  /\ b \in sending[c] /\ sending' = [sending EXCEPT ![c] = @ \ {b}]
  /\ UNCHANGED <<upgrader, sweep, owner, batch, total, at, casting, crashed, history>>

Affix(name) == IF name \in setup.affixes THEN <<Part(name, 1)>> ELSE <<>>

Encode(b) ==
  LET parts == Parts(b, SizeOf) IN
    IF setup.strategy = "json"
      THEN jsonArrayEncoder(parts, Affix("prefix"), Affix("suffix"))
      ELSE lengthPrefixEncoder(parts, Affix("prefix"), Affix("suffix"))

(* What a client may get of two messages written through one writer.       *)
Mixed == <<Sign("mixed")>>

(* A close lets go of the writer's lock while the send it has cut still    *)
(* writes: from then on two sends may share the writer.                    *)
SendBatch(c, b) ==
  /\ SendEnds(c, b) /\ life[c] \in {"open", "done"}
  /\ \/ wire' = [wire EXCEPT ![c] = Append(@, Encode(b))]
     \/ c \in garbled /\ wire' = [wire EXCEPT ![c] = Append(@, Mixed)]
  /\ UNCHANGED <<life, garbled>>

(* Fragments may be out when the writer is closed under the send or its    *)
(* context ends: the message then never gets its last one.  A write that   *)
(* fails closes the connection from inside flush: writer.Close fails at    *)
(* once (the headers are already written), conn.done is closed, and        *)
(* writeClose waits for the writeLock its own caller holds.                *)
SendFails(c, b) ==
  /\ SendEnds(c, b) /\ UNCHANGED wire
  /\ \/ /\ life[c] \in {"broken", "done", "gone"} \/ owner[c] \in ctxDone
        /\ garbled' \in {garbled, garbled \cup {c}} /\ UNCHANGED life
     \/ /\ "net" \in setup.events /\ life[c] \in {"open", "done"}
        /\ life' = [life EXCEPT ![c] = "broken"] /\ UNCHANGED garbled

-----------------------------------------------------------------------------
(* batchFlusher: its listener, flushAll and Close.                         *)

FlusherStep == UNCHANGED <<owner, sent, at, casting, history>>

(* flushAll starts with a clone of the map; a tick's runs beside the       *)
(* listener (bound: one of them at a time).                                *)
Tick(f) ==
  /\ listener[f] = "on" /\ sweep[f]["tick"] = {} /\ conns[f] # {}
  /\ sweep' = [sweep EXCEPT ![f]["tick"] = conns[f]]
  /\ UNCHANGED <<upgrader, life, batches, crashed>> /\ FlusherStep

\* Mutant: a closed flusher ends its listener at once.
StopsAtOnce(f) ==
  /\ listener[f] = "on" /\ f \in closed
  /\ listener' = [listener EXCEPT ![f] = "off"]
  /\ UNCHANGED <<flusher, enabling, closed, ctxDone, conns, sweep, life, batches, crashed>>
  /\ FlusherStep

LastFlush(f) ==
  /\ listener[f] = "on" /\ f \in closed
  /\ listener' = [listener EXCEPT ![f] = "last"]
  /\ sweep' = [sweep EXCEPT ![f]["last"] = conns[f]]
  /\ UNCHANGED <<flusher, enabling, closed, ctxDone, conns, life, batches, crashed>>
  /\ FlusherStep

ListenerEnds(f) ==
  /\ \/ listener[f] = "on" /\ f \in ctxDone
     \/ listener[f] = "last" /\ sweep[f]["last"] = {}
  /\ listener' = [listener EXCEPT ![f] = "off"]
  /\ UNCHANGED <<flusher, enabling, closed, ctxDone, conns, sweep, life, batches, crashed>>
  /\ FlusherStep

(* The loop of flushAll; conn.batch is nil until newBatch has returned.    *)
FlushNext(f, k, c) ==
  /\ c \in sweep[f][k] /\ f \notin ctxDone
  /\ sweep' = [sweep EXCEPT ![f][k] = @ \ {c}]
  /\ IF life[c] = "added" THEN crashed' = TRUE /\ UNCHANGED batches
                          ELSE Flush(c) /\ UNCHANGED crashed
  /\ UNCHANGED <<upgrader, life>> /\ FlusherStep

FlushStops(f, k) ==
  /\ sweep[f][k] # {} /\ f \in ctxDone
  /\ sweep' = [sweep EXCEPT ![f][k] = {}]
  /\ UNCHANGED <<upgrader, life, batches, crashed>> /\ FlusherStep

Listen(f) == \/ LastFlush(f) \/ ListenerEnds(f)
             \/ \E k \in {"tick", "last"} :
                  FlushStops(f, k) \/ \E c \in Conns : FlushNext(f, k, c)

CloseFlusher ==
  /\ "close" \in setup.events /\ flusher # NoFlusher /\ flusher \notin closed
  /\ closed' = closed \cup {flusher}
  /\ UNCHANGED <<flusher, enabling, ctxDone, listener, conns, sweep, life, batches, crashed>>
  /\ FlusherStep

CancelFlusher(f) ==
  /\ "ctx" \in setup.events /\ listener[f] # "none" /\ f \notin ctxDone
  /\ ctxDone' = ctxDone \cup {f}
  /\ UNCHANGED <<flusher, enabling, closed, listener, conns, sweep, life, batches, crashed>>
  /\ FlusherStep

(* EnableJSONBatching, EnablePrefixBatching, EnableBatching.               *)
EnableBegins ==
  /\ "enable" \in setup.events /\ ~enabling /\ flusher < MaxFlushers
  /\ enabling' = TRUE
  /\ closed' = IF flusher = NoFlusher THEN closed ELSE closed \cup {flusher}
  /\ UNCHANGED <<flusher, ctxDone, listener, conns, sweep, life, batches, crashed>>
  /\ FlusherStep

EnableEnds ==
  /\ enabling /\ enabling' = FALSE /\ flusher' = flusher + 1
  /\ listener' = [listener EXCEPT ![flusher + 1] = "on"]
  /\ UNCHANGED <<closed, ctxDone, conns, sweep, life, batches, crashed>> /\ FlusherStep

-----------------------------------------------------------------------------
(* newConn: u.Flusher.newBatch puts the connection on the flusher, then    *)
(* conn.batch is set.                                                      *)

ConnStep == UNCHANGED <<flusher, enabling, closed, ctxDone, listener, sweep, batch, total,
                        at, casting, crashed, history>>

NewConn(c) ==
  /\ life[c] = "new" /\ owner' = [owner EXCEPT ![c] = flusher]
  /\ IF flusher = NoFlusher
       THEN life' = [life EXCEPT ![c] = "open"] /\ UNCHANGED conns
       ELSE /\ conns' = [conns EXCEPT ![flusher] = @ \cup {c}]
            /\ life' = [life EXCEPT ![c] = "added"]
  /\ ConnStep /\ UNCHANGED <<sending, sent>>

SetBatch(c) ==
  /\ life[c] = "added" /\ life' = [life EXCEPT ![c] = "open"]
  /\ UNCHANGED <<owner, conns, sending, sent>> /\ ConnStep

(* CloseWithCode calls writer.Close and closes conn.done, and at its end   *)
(* leaves u.Flusher.                                                       *)
CloseBegins(c) ==
  /\ life[c] = "open" /\ c \in setup.closable \cup asked
  /\ life' = [life EXCEPT ![c] = "done"] /\ UNCHANGED <<owner, conns>> /\ ConnStep

(* It meets no send, or one in the middle of a flush of its own, whose     *)
(* headers make writer.Close fail: the rest of that message is not sent.   *)
CloseConn(c) ==
  /\ CloseBegins(c) /\ UNCHANGED <<sending, wire>>
  /\ garbled' \in {garbled} \cup (IF sending[c] = {} THEN {} ELSE {garbled \cup {c}})

(* It meets a send between two writes of the encoder: what has been        *)
(* written goes out as a complete message, the next write fails.           *)
CloseCuts(c, b) ==
  /\ CloseBegins(c) /\ b \in sending[c]
  /\ sending' = [sending EXCEPT ![c] = @ \ {b}] /\ garbled' = garbled \cup {c}
  /\ \E k \in 0..Len(Encode(b)) :
       wire' = [wire EXCEPT ![c] = Append(@, SubSeq(Encode(b), 1, k))]

\* Mutant: CloseWithCode does not leave the flusher.
LeaveNothing(c) ==
  /\ life[c] = "done" /\ life' = [life EXCEPT ![c] = "gone"]
  /\ UNCHANGED <<owner, conns, sending, sent>> /\ ConnStep

LeaveFlusher(c) ==
  /\ life[c] = "done" /\ life' = [life EXCEPT ![c] = "gone"]
  /\ conns' = IF flusher = NoFlusher THEN conns ELSE [conns EXCEPT ![flusher] = @ \ {c}]
  /\ UNCHANGED <<owner, sending, sent>> /\ ConnStep

-----------------------------------------------------------------------------
(* batchBroadcast and the broadcastListener.                               *)

CastStep == UNCHANGED <<upgrader, sweep, owner, batches, sent, crashed, history>>

BeginCast(m) ==
  /\ cast[m] = "called"
  /\ IF flusher = NoFlusher THEN cast' = [cast EXCEPT ![m] = "returned"] /\ UNCHANGED left
       ELSE /\ cast' = [cast EXCEPT ![m] = "loop"]
            /\ left' = [left EXCEPT ![m] = {c \in listens : life[c] # "gone"}]
  /\ UNCHANGED <<asked, life, at, queue, listens, seen>> /\ CastStep

Room(c) == Len(queue[c]) < setup.capacity
Visited(m, c) == left' = [left EXCEPT ![m] = @ \ {c}]
Stopped(f) == f \in closed \cup ctxDone

Enqueue(m, c) ==
  /\ cast[m] \in {"loop", c} /\ c \in left[m] /\ Room(c)
  /\ queue' = [queue EXCEPT ![c] = Append(@, m)] /\ Visited(m, c)
  /\ cast' = [cast EXCEPT ![m] = "loop"]
  /\ UNCHANGED <<asked, life, at, listens, seen>> /\ CastStep

(* The default case: no queue to fill and no reason to return.             *)
Blocked(m, c) == cast[m] = "loop" /\ c \in left[m] /\ ~Room(c) /\ ~Stopped(flusher)

DropOrClose(m, c) ==
  /\ Blocked(m, c) /\ setup.policy # "wait" /\ Visited(m, c)
  /\ asked' = IF setup.policy = "close" THEN asked \cup {c} ELSE asked
  /\ UNCHANGED <<life, at, queue, listens, cast, seen>> /\ CastStep

WaitFor(m, c) ==
  /\ Blocked(m, c) /\ setup.policy = "wait"
  /\ cast' = [cast EXCEPT ![m] = c] /\ seen' = [seen EXCEPT ![m] = flusher]
  /\ UNCHANGED <<asked, life, at, queue, listens, left>> /\ CastStep

GiveUp(m) ==
  /\ \/ cast[m] = "loop" /\ left[m] # {} /\ (Stopped(flusher) \/ "castctx" \in setup.events)
     \/ cast[m] \in Conns /\ (Stopped(seen[m]) \/ "castctx" \in setup.events)
  /\ cast' = [cast EXCEPT ![m] = "returned"]
  /\ UNCHANGED <<asked, life, at, queue, listens, left, seen>> /\ CastStep

CastReturns(m) ==
  /\ cast[m] = "loop" /\ left[m] = {} /\ cast' = [cast EXCEPT ![m] = "returned"]
  /\ UNCHANGED <<asked, life, at, queue, listens, left, seen>> /\ CastStep

BatchBroadcast(m) ==
  \/ BeginCast(m) \/ GiveUp(m) \/ CastReturns(m)
  \/ \E c \in Conns : Enqueue(m, c) \/ DropOrClose(m, c) \/ WaitFor(m, c)

(* The listener is inside writeToConn, that is Batch, of one message.      *)
Batching(c) == \E m \in setup.casts : at[c][m] \in {"called", "lock", "full", "again"}

Receive(c) ==
  /\ c \in listens /\ ~Batching(c) /\ queue[c] # <<>>
  /\ queue' = [queue EXCEPT ![c] = Tail(@)] /\ CallAt(c, Head(queue[c]), "called")
  /\ UNCHANGED <<asked, life, listens, cast, left, seen>> /\ CastStep

StopListening(c) ==
  /\ c \in listens /\ ~Batching(c) /\ life[c] \in {"broken", "done", "gone"}
  /\ listens' = listens \ {c} /\ queue' = [queue EXCEPT ![c] = <<>>]
  /\ UNCHANGED <<asked, life, at, cast, left, seen>> /\ CastStep

-----------------------------------------------------------------------------
(* The goroutines of the calls, the broadcastListener and the sends.       *)
Proceed(c) == \/ \E m \in Messages : CallBatch(c, m)
              \/ \E b \in sending[c] : SendBatch(c, b) \/ SendFails(c, b)
              \/ Receive(c)

Change(c) == \/ NewConn(c) \/ SetBatch(c) \/ CloseConn(c) \/ LeaveFlusher(c) \/ StopListening(c)
             \/ \E b \in sending[c] : CloseCuts(c, b)

Next ==
  /\ ~crashed /\ UNCHANGED setup
  /\ \/ \E c \in Conns : Proceed(c) \/ Change(c)
     \/ \E f \in Flushers : Tick(f) \/ Listen(f) \/ CancelFlusher(f)
     \/ CloseFlusher \/ EnableBegins \/ EnableEnds
     \/ \E m \in Messages : BatchBroadcast(m)

Spec == Init /\ [][Next]_vars

Going(A) == ~crashed /\ UNCHANGED setup /\ A

(* The ticker ticks and every goroutine runs.  A send competes with others *)
(* for the writer and gets its turn.  Nobody has to close anything.        *)
FairSpec ==
  /\ Spec
  /\ \A f \in Flushers : SF_vars(Going(Tick(f))) /\ WF_vars(Going(Listen(f)))
  /\ \A c \in Conns : WF_vars(Going(Proceed(c)))
-----------------------------------------------------------------------------
(* Correctness.                                                            *)

Sizes(s) ==
  LET sum[i \in 0..Len(s)] == IF i = 0 THEN 0 ELSE sum[i - 1] + SizeOf[s[i]]
  IN  sum[Len(s)]
Holds(s, m) == \E i \in 1..Len(s) : s[i] = m

Tokens == [is : {"part", "sign", "uint32"}, len : Nat,
           what : Messages \cup {"prefix", "suffix", "openBracket", "comma", "closingBracket",
                                  "uint32", "mixed"}]

(* Every variable keeps its type, and totalSize is the size of the batch.  *)
TypeOK ==
  /\ setup \in Setups
  /\ flusher \in 0..MaxFlushers /\ enabling \in BOOLEAN
  /\ closed \subseteq Flushers /\ ctxDone \subseteq Flushers
  /\ listener \in [Flushers -> {"none", "on", "last", "off"}]
  /\ conns \in [Flushers -> SUBSET Conns]
  /\ sweep \in [Flushers -> [{"tick", "last"} -> SUBSET Conns]]
  /\ life \in [Conns -> {"none", "new", "added", "open", "broken", "done", "gone"}]
  /\ owner \in [Conns -> 0..MaxFlushers]
  /\ batch \in [Conns -> Seq(Messages)] /\ total \in [Conns -> Nat]
  /\ \A c \in Conns : total[c] = Sizes(batch[c]) /\ sending[c] \subseteq Seq(Messages)
  /\ wire \in [Conns -> Seq(Seq(Tokens))] /\ garbled \subseteq Conns
  /\ at \in [Conns -> [Messages -> {"no", "called", "lock", "full", "again", "ok", "err"}]]
  /\ queue \in [Conns -> Seq(Messages)] /\ listens \subseteq Conns
  /\ cast \in [Messages -> {"no", "called", "loop", "returned"} \cup Conns]
  /\ left \in [Messages -> SUBSET Conns] /\ seen \in [Messages -> 0..MaxFlushers]
  /\ asked \subseteq Conns /\ crashed \in BOOLEAN
  /\ log \in [Conns -> Seq(Messages)]
  /\ forced \in [Conns -> SUBSET Messages] /\ late \in [Conns -> SUBSET Messages]

(* What the client makes of a batch, its prefix and suffix left out.       *)
Read(s) ==
  LET all == IF setup.strategy = "json" THEN ReadJSONArray(s) ELSE ReadLengthPrefixed(s)
  IN SubSeq(all, 1 + Len(Affix("prefix")), Len(all) - Len(Affix("suffix")))
Received == [c \in Conns |-> [i \in 1..Len(wire[c]) |-> Read(wire[c][i])]]

(* The client reads what was accepted: whole consecutive pieces, no        *)
(* message in two of them, whatever ticks, full batches and replaced       *)
(* flushers do at the same time and whatever the format; until the close   *)
(* of the connection, or the end of the flusher's context, cuts a send     *)
(* short.  What came before stays as it was.                               *)
Promise == INSTANCE Outbox WITH stream <- Received, over <- garbled
KeepsPromise == Promise!Spec

(* The batches of c, and those its client has had before a send was cut.   *)
Batches(c) ==
  {batch[c]} \cup sending[c] \cup (IF c \in garbled THEN {} ELSE Range(Received[c]))

(* A batch of several messages exceeds MaxBatchSize only by messages whose *)
(* caller found no room, flushed, and came back to a batch that others had *)
(* filled meanwhile.  (One that is larger than MaxBatchSize by itself is   *)
(* not refused: it is the first of its batch.)                             *)
ExcessIsForced ==
  \A c \in Conns : \A b \in Batches(c) : \A i \in 2..Len(b) :
    b[i] \notin forced[c] => Sizes(SubSeq(b, 1, i)) <= MaxBatchSize

(* A flusher that runs knows no connection whose CloseWithCode has         *)
(* returned, so that its ticks do not keep closed connections alive.  (One *)
(* whose CloseWithCode hangs after a failed write stays, for ever.)        *)
NoGoneConnIsSwept ==
  \A f \in Flushers, c \in Conns :
    f \notin closed /\ life[c] = "gone" => c \notin conns[f]

(* The connection or its flusher ended, or the process did.                *)
Ended(c) == crashed \/ life[c] \notin {"none", "new", "added", "open"} \/ owner[c] \in ctxDone

Settled(c, m) == \/ \E i \in 1..Len(wire[c]) : Holds(Received[c][i], m)
                 \/ Ended(c) \/ at[c][m] = "err" \/ m \in late[c]

(* In the end every message that was batched, or was on its way to a       *)
(* batch, has been sent, though the flusher be closed or replaced by       *)
(* another right after ("This method flushes all connections batches       *)
(* before closing"), unless the connection ended, the context did, Batch   *)
(* refused it, or it was appended after the flusher had been closed.       *)
BatchedIsSent ==
  <>[](\A c \in Conns, m \in Messages :
         at[c][m] = "ok" \/ Holds(queue[c], m) => Settled(c, m))
=============================================================================

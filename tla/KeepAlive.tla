------------------------------ MODULE KeepAlive ------------------------------
(***************************************************************************)
(* The keep-alive of one Conn: the ping loop (conn.go), Ping and the pongs *)
(* that answer the client, both written by the one ControlWriter           *)
(* (conn_write.go), handlePong, and the read deadline that cuts a silent   *)
(* client off (conn.go, conn_read.go).                                     *)
(*                                                                         *)
(* A step runs from one channel operation, atomic access or network call   *)
(* to the next.  The client is a process too: it answers the pings it      *)
(* gets, sends frames of its own, and may fall silent.  A payload is its   *)
(* length, and no length but the one of an empty payload matters.          *)
(***************************************************************************)
EXTENDS Naturals, Sequences

CONSTANTS
  Loop,       \* the goroutine of pingLoop
  Reader,     \* the goroutine of the application that reads
  Users,      \* calls of Ping by the application
  Sender,     \* a call that sends a data message, between taking writeLock and
              \* leaving it; how it gets there is ConnWrite's
  NoOne,      \* the token of a mutex nobody holds
  Final,      \* the holder of a mutex writeClose locked for good; of a Once that ran
  Own,        \* frames the client may send unasked
  MaxOwn,     \* bound: how many of them
  NetFails    \* whether the network may fail

Pingers == {Loop} \cup Users
Callers == Pingers \cup {Reader}
Payloads == 0..1

In(op, load) == [op |-> op, load |-> load]
ClientFrames ==
  {In(op, load) : op \in {"ping", "stray", "answer"}, load \in Payloads}
    \cup {In("data", 1)}

ASSUME KeepAliveAssumption ==
  /\ Loop \notin Users \cup {Reader, Sender, NoOne, Final}
  /\ Reader \notin Users \cup {Sender, NoOne, Final}
  /\ Sender \notin Users \cup {NoOne, Final}
  /\ NoOne \notin Users /\ Final \notin Users /\ NoOne # Final
  /\ Own \subseteq {f \in ClientFrames : f.op # "answer"}
  /\ MaxOwn \in Nat
  /\ NetFails \in BOOLEAN

VARIABLES
  pc,         \* pc[g]: where caller g is
  pingSent,   \* conn.pingSent
  length,     \* controlWriter.buf[1], the length in the header of the next frame
  load,       \* the payload of the ping the reader answers
  ctlLock, writeLock,  \* controlWriter.lock, conn.writeLock
  timer,      \* controlWriter.t, which all callers share
  once, done, raw,     \* conn.closeOnce, whether conn.done is closed, conn.raw
  sends,      \* the data message: "start", "holds" writeLock, "end"
  out,        \* control frames on their way to the client
  inbox,      \* frames of the client the reader has not read
  own,        \* frames the client has sent unasked
  client,     \* "answers", "silent", or "lost" its place in the server's frames
  net,        \* "up" or "down"
  aged,       \* the ticker ticked since the read deadline was last set
  cut,        \* history: the read deadline passed
  overtaken   \* history: Ping set pingSent with no pong left to clear it

writing == <<length, ctlLock, writeLock, timer, out>>
closing == <<once, done, raw>>
world   == <<own, client, net>>
marks   == <<aged, cut, overtaken>>
vars    == <<pc, pingSent, load, writing, closing, sends, inbox, world, marks>>

Init ==
  /\ pc = [g \in Callers |->
             IF g = Loop THEN "idle" ELSE IF g = Reader THEN "read" ELSE "start"]
  /\ pingSent = FALSE /\ length = 0 /\ load = 0
  /\ ctlLock = NoOne /\ writeLock = NoOne /\ timer = "off"
  /\ once = NoOne /\ done = FALSE /\ raw = "open"
  /\ sends = "start"
  /\ out = <<>> /\ inbox = <<>> /\ own = 0
  /\ client = "answers" /\ net = "up"
  /\ aged = FALSE /\ cut = FALSE /\ overtaken = FALSE

Goto(g, l) == pc' = [pc EXCEPT ![g] = l]

(* Where a writeControl that failed leaves its caller: the loop and the    *)
(* reader close the connection, a user of Ping gets the error.             *)
Failed(g) == Goto(g, IF g \in Users THEN "err" ELSE "close")

-----------------------------------------------------------------------------
(* writeControl.                                                           *)

\* The timer is reset (made, the first time) before any lock is held.
Arm(g) ==
  /\ pc[g] = "arm"
  /\ timer' = "on"
  /\ Goto(g, "lock")
  /\ UNCHANGED <<pingSent, load, length, ctlLock, writeLock, out, closing, sends,
                 inbox, world, marks>>

TimerFires ==
  /\ timer = "on" /\ \E g \in Callers : pc[g] \in {"lock", "frame"}
  /\ timer' = "fired"
  /\ UNCHANGED <<pc, pingSent, load, length, ctlLock, writeLock, out, closing,
                 sends, inbox, world, marks>>

\* Mutant: the select of lockTimer lacks the case of conn.done.
GiveUpOnTimerOnly(g) ==
  /\ \/ pc[g] = "lock" /\ UNCHANGED ctlLock
     \/ pc[g] = "frame" /\ ctlLock' = NoOne
  /\ timer = "fired"
  /\ timer' = "off"
  /\ Failed(g)
  /\ UNCHANGED <<pingSent, load, length, writeLock, out, closing, sends, inbox,
                 world, marks>>

\* Mutant: the unlock of controlWriter.lock is not deferred.
GiveUpLocked(g) ==
  /\ pc[g] \in {"lock", "frame"}
  /\ done \/ timer = "fired"
  /\ timer' = "off"
  /\ Failed(g)
  /\ UNCHANGED <<pingSent, load, length, ctlLock, writeLock, out, closing, sends,
                 inbox, world, marks>>

\* lockTimer gives up: conn.done is closed, or the shared timer has fired.
\* The deferred Stop also ends the wait of whoever else armed the timer.
GiveUp(g) ==
  /\ \/ pc[g] = "lock" /\ UNCHANGED ctlLock
     \/ pc[g] = "frame" /\ ctlLock' = NoOne
  /\ done \/ timer = "fired"
  /\ timer' = "off"
  /\ Failed(g)
  /\ UNCHANGED <<pingSent, load, length, writeLock, out, closing, sends, inbox,
                 world, marks>>

\* controlWriter.lock, then the header.  The mask key has come with the header.
LockControl(g) ==
  /\ pc[g] = "lock" /\ ctlLock = NoOne
  /\ ctlLock' = g
  /\ Goto(g, IF g = Reader /\ load > 0 THEN "payload" ELSE "frame")
  /\ UNCHANGED <<pingSent, load, length, writeLock, timer, out, closing, sends,
                 inbox, world, marks>>

\* The payload of a ping is read with controlWriter.lock held.
ReadPayload ==
  /\ pc[Reader] = "payload"
  /\ client = "answers" /\ net = "up"
  /\ length' = load
  /\ Goto(Reader, "frame")
  /\ UNCHANGED <<pingSent, load, ctlLock, writeLock, timer, out, closing, sends,
                 inbox, world, marks>>

LockFrame(g) ==
  /\ pc[g] = "frame" /\ writeLock = NoOne
  /\ writeLock' = g
  /\ Goto(g, "send")
  /\ UNCHANGED <<pingSent, load, length, ctlLock, timer, out, closing, sends,
                 inbox, world, marks>>

ControlFrame(g) ==
  IF g = Reader THEN [op |-> "pong", len |-> length, load |-> load]
                ELSE [op |-> "ping", len |-> length, load |-> 0]

\* Mutant: a failed sendFrame returns before it unlocks.
SendFrameLocked(g) ==
  /\ pc[g] = "send"
  /\ timer' = "off"
  /\ \/ /\ net = "up"
        /\ writeLock' = NoOne /\ ctlLock' = NoOne
        /\ out' = Append(out, ControlFrame(g))
        /\ Goto(g, IF g = Reader THEN "read" ELSE "sent")
     \/ /\ net = "down"
        /\ Failed(g)
        /\ UNCHANGED <<writeLock, ctlLock, out>>
  /\ UNCHANGED <<pingSent, load, length, closing, sends, inbox, world, marks>>

\* sendFrame, and the deferred unlocks and Stop.
SendFrame(g) ==
  /\ pc[g] = "send"
  /\ writeLock' = NoOne /\ ctlLock' = NoOne /\ timer' = "off"
  /\ \/ /\ net = "up"
        /\ out' = Append(out, ControlFrame(g))
        /\ Goto(g, IF g = Reader THEN "read" ELSE "sent")
     \/ /\ net = "down"
        /\ Failed(g)
        /\ UNCHANGED out
  /\ UNCHANGED <<pingSent, load, length, closing, sends, inbox, world, marks>>

-----------------------------------------------------------------------------
(* Ping and pingLoop.                                                      *)

\* A pong that can still clear pingSent is under way, or the ping it answers.
PongToCome ==
  \/ \E i \in DOMAIN out : out[i].op = "ping"
  \/ \E i \in DOMAIN inbox : inbox[i].op = "answer"
  \/ pc[Reader] = "clear"

\* A tick of the loop, and Ping's look at pingSent.  ReadWait is larger than
\* PingEvery: a tick that falls into handlePong is not the last one before the
\* deadline that handlePong has just set, so it does not age it.
Tick ==
  /\ pc[Loop] = "idle" /\ once = NoOne
  /\ aged' = (aged \/ pc[Reader] # "clear")
  /\ Goto(Loop, IF pingSent THEN "idle" ELSE "arm")
  /\ UNCHANGED <<pingSent, load, writing, closing, sends, inbox, world, cut,
                 overtaken>>

UserPing(g) ==
  /\ g \in Users /\ pc[g] = "start"
  /\ Goto(g, IF pingSent THEN "err" ELSE "arm")
  /\ UNCHANGED <<pingSent, load, writing, closing, sends, inbox, world, marks>>

\* pingSent.Store(true), after the ping is on the wire.
StoreSent(g) ==
  /\ g \in Pingers /\ pc[g] = "sent"
  /\ pingSent' = TRUE
  /\ overtaken' = (overtaken \/ ~PongToCome)
  /\ Goto(g, IF g = Loop THEN "idle" ELSE "nil")
  /\ UNCHANGED <<load, writing, closing, sends, inbox, world, aged, cut>>

-----------------------------------------------------------------------------
(* The reader: acceptFrame, and NextReader again after a message.          *)

ReadData ==
  /\ pc[Reader] = "read" /\ inbox # <<>> /\ Head(inbox).op = "data"
  /\ inbox' = Tail(inbox)
  /\ aged' = FALSE
  /\ UNCHANGED <<pc, pingSent, load, writing, closing, sends, world, cut, overtaken>>

ReadPing ==
  /\ pc[Reader] = "read" /\ inbox # <<>> /\ Head(inbox).op = "ping"
  /\ inbox' = Tail(inbox)
  /\ load' = Head(inbox).load
  /\ Goto(Reader, "arm")
  /\ UNCHANGED <<pingSent, writing, closing, sends, world, marks>>

\* handlePong, up to pingSent.Store(false).
ReadPong ==
  /\ pc[Reader] = "read" /\ inbox # <<>> /\ Head(inbox).op \in {"answer", "stray"}
  /\ inbox' = Tail(inbox)
  /\ \/ /\ ~pingSent
        /\ UNCHANGED <<pc, aged>>
     \/ /\ pingSent /\ Head(inbox).load = 0 /\ raw = "open"
        /\ aged' = FALSE
        /\ Goto(Reader, "clear")
     \/ /\ pingSent /\ \/ Head(inbox).load > 0
                       \/ raw = "closed"
        /\ Goto(Reader, "close")
        /\ UNCHANGED aged
  /\ UNCHANGED <<pingSent, load, writing, closing, sends, world, cut, overtaken>>

\* Mutant: handlePong does not clear pingSent.
StoreNothing ==
  /\ pc[Reader] = "clear"
  /\ Goto(Reader, "read")
  /\ UNCHANGED <<pingSent, load, writing, closing, sends, inbox, world, marks>>

StoreCleared ==
  /\ pc[Reader] = "clear"
  /\ pingSent' = FALSE
  /\ Goto(Reader, "read")
  /\ UNCHANGED <<load, writing, closing, sends, inbox, world, marks>>

ReadFails ==
  /\ \/ pc[Reader] = "read" /\ UNCHANGED <<ctlLock, timer>>
     \/ pc[Reader] = "payload" /\ ctlLock' = NoOne /\ timer' = "off"
  /\ raw = "closed" \/ net = "down"
  /\ Goto(Reader, "close")
  /\ UNCHANGED <<pingSent, load, length, writeLock, out, closing, sends, inbox,
                 world, marks>>

\* Nothing is under way that the time between a tick and the deadline is for.
Quiet ==
  /\ out = <<>>
  /\ \A g \in Pingers : pc[g] \in {"idle", "start", "nil", "err"}

\* The read deadline passes: a silent client lets it, one that answers only
\* when a tick went by and everything the tick led to is over.
DeadlinePasses ==
  /\ \/ pc[Reader] = "read" /\ inbox = <<>> /\ UNCHANGED <<ctlLock, timer>>
     \/ /\ pc[Reader] = "payload" /\ client # "answers"
        /\ ctlLock' = NoOne /\ timer' = "off"
  /\ raw = "open" /\ net = "up"
  /\ \/ client # "answers"
     \/ aged /\ Quiet
  /\ cut' = TRUE
  /\ Goto(Reader, "close")
  /\ UNCHANGED <<pingSent, load, length, writeLock, out, closing, sends, inbox,
                 world, aged, overtaken>>

-----------------------------------------------------------------------------
(* CloseWithCode.  Whoever comes second waits for the first.               *)

CloseOnce(g) ==
  /\ pc[g] = "close"
  /\ \/ /\ once = NoOne
        /\ once' = g
        /\ Goto(g, "flush")
     \/ /\ once = Final
        /\ Goto(g, "closed")
        /\ UNCHANGED once
  /\ UNCHANGED <<pingSent, load, writing, done, raw, sends, inbox, world, marks>>

\* writer.Close flushes the open message, behind the sender, then done closes.
CloseDone(g) ==
  /\ pc[g] = "flush" /\ writeLock # Sender
  /\ done' = TRUE
  /\ Goto(g, "ctl")
  /\ UNCHANGED <<pingSent, load, writing, once, raw, sends, inbox, world, marks>>

CloseControl(g) ==
  /\ pc[g] = "ctl" /\ ctlLock = NoOne
  /\ ctlLock' = Final
  /\ Goto(g, "last")
  /\ UNCHANGED <<pingSent, load, length, writeLock, timer, out, closing, sends,
                 inbox, world, marks>>

\* The close frame, raw.Close and the hooks.
CloseRaw(g) ==
  /\ pc[g] = "last" /\ writeLock = NoOne
  /\ writeLock' = Final
  /\ raw' = "closed" /\ once' = Final
  /\ Goto(g, "closed")
  /\ UNCHANGED <<pingSent, load, length, ctlLock, timer, out, done, sends, inbox,
                 world, marks>>

-----------------------------------------------------------------------------
(* The data message, the client and the network.                           *)

SendData ==
  /\ \/ /\ sends = "start" /\ ~done /\ writeLock = NoOne
        /\ sends' = "holds" /\ writeLock' = Sender
     \/ sends = "holds" /\ sends' = "end" /\ writeLock' = NoOne
  /\ UNCHANGED <<pc, pingSent, load, length, ctlLock, timer, out, closing, inbox,
                 world, marks>>

\* A header that announces more than the frame has leaves the client waiting.
ClientReceives ==
  /\ client = "answers" /\ net = "up" /\ raw = "open" /\ out # <<>>
  /\ out' = Tail(out)
  /\ \/ /\ Head(out).len # Head(out).load
        /\ client' = "lost"
        /\ UNCHANGED inbox
     \/ /\ Head(out).len = Head(out).load
        /\ inbox' = IF Head(out).op = "ping" THEN Append(inbox, In("answer", 0))
                                             ELSE inbox
        /\ UNCHANGED client
  /\ UNCHANGED <<pc, pingSent, load, length, ctlLock, writeLock, timer, closing,
                 sends, own, net, marks>>

ClientSends ==
  /\ client = "answers" /\ net = "up" /\ raw = "open" /\ own < MaxOwn
  /\ own' = own + 1
  /\ \E f \in Own : inbox' = Append(inbox, f)
  /\ UNCHANGED <<pc, pingSent, load, writing, closing, sends, client, net, marks>>

ClientStops ==
  /\ client = "answers" /\ once = NoOne /\ ~cut
  /\ client' = "silent"
  /\ UNCHANGED <<pc, pingSent, load, writing, closing, sends, inbox, own, net, marks>>

NetBreaks ==
  /\ NetFails /\ net = "up" /\ once = NoOne
  /\ net' = "down"
  /\ UNCHANGED <<pc, pingSent, load, writing, closing, sends, inbox, own, client, marks>>

-----------------------------------------------------------------------------
Control(g) ==
  Arm(g) \/ GiveUp(g) \/ LockControl(g) \/ LockFrame(g) \/ SendFrame(g)

Close(g) == CloseOnce(g) \/ CloseDone(g) \/ CloseControl(g) \/ CloseRaw(g)

LoopNext == Tick \/ StoreSent(Loop) \/ Control(Loop) \/ Close(Loop)
UserNext(g) == UserPing(g) \/ StoreSent(g) \/ Control(g)
ReaderNext ==
  \/ ReadData \/ ReadPing \/ ReadPayload \/ ReadPong \/ StoreCleared
  \/ ReadFails \/ DeadlinePasses
  \/ Control(Reader) \/ Close(Reader)
ClientNext == ClientReceives \/ ClientSends \/ ClientStops

Next ==
  \/ LoopNext \/ (\E g \in Users : UserNext(g)) \/ ReaderNext \/ SendData
  \/ TimerFires \/ ClientNext \/ NetBreaks

Spec == Init /\ [][Next]_vars

-----------------------------------------------------------------------------
Places ==
  {"idle", "read", "start", "arm", "lock", "payload", "frame", "send", "sent",
   "clear", "nil", "err", "close", "flush", "ctl", "last", "closed"}

\* Every variable stays in its range; the lock of the control writer is held
\* exactly from LockControl to the deferred unlock, and only for writeClose
\* for good.
TypeOK ==
  /\ pc \in [Callers -> Places]
  /\ pingSent \in BOOLEAN /\ length \in Payloads /\ load \in Payloads
  /\ ctlLock \in Callers \cup {NoOne, Final}
  /\ writeLock \in Callers \cup {Sender, NoOne, Final}
  /\ \A g \in Callers : ctlLock = g <=> pc[g] \in {"payload", "frame", "send"}
  /\ timer \in {"off", "on", "fired"}
  /\ once \in Callers \cup {NoOne, Final} /\ done \in BOOLEAN
  /\ raw \in {"open", "closed"}
  /\ sends \in {"start", "holds", "end"}
  /\ \A i \in DOMAIN out :
       out[i] \in [op : {"ping", "pong"}, len : Payloads, load : Payloads]
  /\ \A i \in DOMAIN inbox : inbox[i] \in ClientFrames
  /\ own \in 0..MaxOwn
  /\ client \in {"answers", "silent", "lost"} /\ net \in {"up", "down"}
  /\ aged \in BOOLEAN /\ cut \in BOOLEAN /\ overtaken \in BOOLEAN

\* The read deadline never passes on a client that answers every ping: the next
\* tick pings it and its pong sets the deadline anew (Options.ReadWait).  The
\* exception is a pong handled between the write of the ping and Ping's
\* pingSent.Store(true): no ping is sent from then on.
AnsweringClientIsKept == cut => client # "answers" \/ overtaken

\* Every call of Ping returns, with the lock of the control writer held by a
\* reader that waits for a payload, with the shared timer stopped by another
\* call, and with the connection closed under it.
PingReturns == <>[](\A g \in Users : pc[g] \in {"start", "nil", "err"})

\* A control frame is as long as its header says ("write header and payload").
HeaderFitsPayload == \A i \in DOMAIN out : out[i].len = out[i].load
=============================================================================

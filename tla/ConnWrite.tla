----------------------------- MODULE ConnWrite -----------------------------
(***************************************************************************)
(* The write side and the close path of one snapws Conn: the goroutines    *)
(* that send data messages (conn_write.go), broadcast frames               *)
(* (broadcast.go), ping and pong frames (conn_write.go), and the ones that *)
(* call CloseWithCode (conn.go), over the three channel mutexes of         *)
(* conn_utils.go and one network connection.                               *)
(*                                                                         *)
(* A goroutine of the model is one call of the API.  A step runs from one  *)
(* channel operation or network call to the next; what happens between two *)
(* of them is atomic.                                                      *)
(***************************************************************************)
EXTENDS Naturals, Sequences

CONSTANTS
  Senders,     \* calls of SendMessage (SendBytes, SendString, SendJSON)
  Casters,     \* broadcast frames the listener writes with writeToConn
  Controllers, \* calls of Ping and of pong
  Closers,     \* calls of Close and CloseWithCode from outside this module
  Parties,     \* sets of calls: the calls that are made are one of them
  NoOne,       \* the token of a mutex nobody holds
  Final,       \* the holder of a mutex writeClose locked for good; of a Once that ran
  MaxSize,     \* bound: write buffers filled by the largest message
  Cancellable, \* calls whose context can be done before they return
  Faults       \* what may go wrong around the connection

Goroutines == Senders \cup Casters \cup Controllers \cup Closers

FaultKinds == {"net",      \* a network call fails
               "rawclose", \* net.Conn.Close by Manager.Register or the application
               "timeout",  \* WriteWait passes while a control frame waits
               "encode"}   \* json.Encode rejects the value of a SendJSON

ASSUME ConnWriteAssumption ==
  /\ Senders \cap (Casters \cup Controllers \cup Closers) = {}
  /\ Casters \cap (Controllers \cup Closers) = {} /\ Controllers \cap Closers = {}
  /\ NoOne \notin Goroutines /\ Final \notin Goroutines /\ NoOne # Final
  /\ Parties \subseteq SUBSET Goroutines
  /\ MaxSize \in Nat \ {0}
  /\ Cancellable \subseteq Goroutines
  /\ Faults \subseteq FaultKinds

VARIABLES
  pc,         \* pc[g]: where call g is
  closing,    \* closing[g]: where g is inside CloseWithCode ("no": outside)
  size,       \* size[g]: write buffers the message of sender g fills
  copied,     \* copied[g]: how many of them Write has copied
  writeLock, ctlLock, writerLock,  \* conn.writeLock, controlWriter.lock, writer.lock
  writer,     \* the one ConnWriter of the connection
  waitCtx,    \* waitCtx[g]: whose context the pending lockCtx of g was given
  ctxDone,    \* calls whose context is done
  once,       \* closeOnce: NoOne (not run), the goroutine running it, Final (run)
  done,       \* conn.done is closed
  pooled,     \* the write buffer is back in upgrader.writePool
  raw,        \* conn.raw: "open" or "closed"
  wire,       \* what raw.Write was given, frame by frame
  hooks       \* how often the close hooks ran

calls == <<pc, closing, size, copied, waitCtx, ctxDone>>
locks == <<writeLock, ctlLock, writerLock>>
conn  == <<once, done, pooled, raw, hooks>>
vars  == <<calls, locks, writer, conn, wire>>

-----------------------------------------------------------------------------
(* Frames.  load holds the chunks of payload, len how many the header      *)
(* announces; cut marks a write the network broke off.                     *)

NoHdr == [op |-> "none", fin |-> FALSE, len |-> 0]

Frame(hdr, load) ==
  [op |-> hdr.op, fin |-> hdr.fin, len |-> hdr.len, load |-> load, cut |-> FALSE]

CastFrame(g) == Frame([op |-> "data", fin |-> TRUE, len |-> 1], << <<g, 1>> >>)
ControlFrame == Frame([op |-> "ctl", fin |-> TRUE, len |-> 0], <<>>)
CloseFrame   == Frame([op |-> "close", fin |-> TRUE, len |-> 0], <<>>)

(* w.buf[w.start:w.used]: without a header it is bare payload, or nothing. *)
WriterFrame == Frame(writer.hdr, writer.buf)
Bytes(f) == IF f.op = "none" /\ f.load = <<>> THEN <<>> ELSE <<f>>

Sent(f) == raw = "open" /\ wire' = wire \o Bytes(f)
NotSent(f) ==
  \/ raw = "closed" /\ UNCHANGED wire
  \/ /\ "net" \in Faults /\ raw = "open"
     /\ wire' \in {wire, Append(wire, [f EXCEPT !.cut = TRUE])}

-----------------------------------------------------------------------------
Init ==
  /\ pc \in [Goroutines -> {"start", "uncalled"}]
  /\ {g \in Goroutines : pc[g] = "start"} \in Parties
  /\ closing = [g \in Goroutines |-> "no"]
  /\ size \in [Senders -> 1..MaxSize]
  /\ copied = [g \in Senders |-> 0]
  /\ waitCtx = [g \in Goroutines |-> NoOne]
  /\ ctxDone = {}
  /\ writeLock = NoOne /\ ctlLock = NoOne /\ writerLock = NoOne
  /\ writer = [closed |-> TRUE, hdr |-> NoHdr, flushed |-> FALSE,
               buf |-> <<>>, ctx |-> NoOne]
  /\ once = NoOne /\ done = FALSE /\ pooled = FALSE /\ raw = "open" /\ hooks = 0
  /\ wire = <<>>

At(g, l) == pc[g] = l /\ closing[g] = "no"
Goto(g, l) == pc' = [pc EXCEPT ![g] = l]
Closing(g, l) == closing' = [closing EXCEPT ![g] = l]
Returned == {"nil", "err", "fatal"}   \* no error, an error, a FatalError

(* The caller runs CloseWithCode: with writeLock held ("failed") or not.   *)
CallClose(g, l) == Goto(g, l) /\ Closing(g, "once")

-----------------------------------------------------------------------------
(* ConnWriter: flush up to its lock, and the deferred part of Close.       *)

Header(fin) ==
  [writer EXCEPT !.hdr = [op |-> IF writer.flushed THEN "cont" ELSE "data",
                          fin |-> fin, len |-> Len(writer.buf)]]

CanFlush == ~writer.closed /\ writer.hdr = NoHdr

\* Mutant: flush forgets flushCount++.
FlushedUncounted == [writer EXCEPT !.hdr = NoHdr, !.buf = <<>>]

Flushed == [writer EXCEPT !.hdr = NoHdr, !.buf = <<>>, !.flushed = TRUE]

CloseWriter == writer' = [writer EXCEPT !.closed = TRUE] /\ writerLock' = NoOne

(* flush(true) is Close's flush, flush(false) that of a Write with more to *)
(* copy: only the former runs Close's deferred unlock.                     *)
LastFlush(g) == copied[g] = size[g]
FlushReturns(g, r) ==
  /\ Goto(g, r)
  /\ IF LastFlush(g) THEN CloseWriter ELSE UNCHANGED <<writer, writerLock>>

-----------------------------------------------------------------------------
(* SendMessage, SendBytes, SendString, SendJSON.                           *)

\* Mutant: the writer is reset without waiting for writer.lock.
NextWriterUnlocked(g) ==
  /\ At(g, "start")
  /\ writerLock' = g
  /\ writer' = [closed |-> FALSE, hdr |-> NoHdr, flushed |-> FALSE,
                buf |-> <<>>, ctx |-> g]
  /\ Goto(g, "write")
  /\ UNCHANGED <<closing, size, copied, waitCtx, ctxDone, writeLock, ctlLock, conn, wire>>

NextWriter(g) ==
  /\ At(g, "start")
  /\ \/ done /\ Goto(g, "fatal") /\ UNCHANGED <<writerLock, writer>>
     \/ g \in ctxDone /\ Goto(g, "err") /\ UNCHANGED <<writerLock, writer>>
     \/ /\ writerLock = NoOne /\ writerLock' = g
        /\ writer' = [closed |-> FALSE, hdr |-> NoHdr, flushed |-> FALSE,
                      buf |-> <<>>, ctx |-> g]
        /\ Goto(g, "write")
  /\ UNCHANGED <<closing, size, copied, waitCtx, ctxDone, writeLock, ctlLock, conn, wire>>

EncodeFails(g) ==
  /\ "encode" \in Faults /\ At(g, "write") /\ copied[g] = 0
  /\ Goto(g, "err")
  /\ UNCHANGED <<closing, size, copied, waitCtx, ctxDone, locks, writer, conn, wire>>

(* The part of flush before its lock, reached from Write and from Close.   *)
Flush(g) ==
  \/ /\ CanFlush /\ writer' = Header(LastFlush(g))
     /\ waitCtx' = [waitCtx EXCEPT ![g] = writer.ctx]
     /\ Goto(g, "lock") /\ UNCHANGED writerLock
  \/ ~CanFlush /\ FlushReturns(g, "err") /\ UNCHANGED waitCtx

\* Mutant: the loop runs while n <= len(p).
WriteOneMore(g) ==
  /\ At(g, "write")
  /\ IF writer.buf = <<>>
       THEN /\ writer' = [writer EXCEPT !.buf = << <<g, copied[g] + 1>> >>]
            /\ copied' = [copied EXCEPT ![g] = @ + 1]
            /\ Goto(g, IF copied[g] + 1 > size[g] THEN "close" ELSE "write")
            /\ UNCHANGED <<waitCtx, writerLock>>
       ELSE Flush(g) /\ UNCHANGED copied
  /\ UNCHANGED <<closing, size, ctxDone, writeLock, ctlLock, conn, wire>>

Write(g) ==
  /\ At(g, "write")
  /\ \/ /\ copied[g] = 0 /\ writer.closed      \* checked on entry only
        /\ Goto(g, "err") /\ UNCHANGED <<copied, waitCtx, writerLock, writer>>
     \/ /\ ~(copied[g] = 0 /\ writer.closed) /\ writer.buf = <<>>
        /\ writer' = [writer EXCEPT !.buf = << <<g, copied[g] + 1>> >>]
        /\ copied' = [copied EXCEPT ![g] = @ + 1]
        /\ Goto(g, IF copied[g] + 1 = size[g] THEN "close" ELSE "write")
        /\ UNCHANGED <<waitCtx, writerLock>>
     \/ /\ ~(copied[g] = 0 /\ writer.closed) /\ writer.buf # <<>>
        /\ Flush(g) /\ UNCHANGED copied
  /\ UNCHANGED <<closing, size, ctxDone, writeLock, ctlLock, conn, wire>>

Close(g) ==
  /\ At(g, "close")
  /\ \/ writer.closed /\ Goto(g, "nil") /\ UNCHANGED <<waitCtx, writerLock, writer>>
     \/ ~writer.closed /\ Flush(g)
  /\ UNCHANGED <<closing, size, copied, ctxDone, writeLock, ctlLock, conn, wire>>

FlushLock(g) ==
  /\ At(g, "lock")
  /\ \/ done /\ FlushReturns(g, "fatal") /\ UNCHANGED writeLock
     \/ waitCtx[g] \in ctxDone /\ FlushReturns(g, "err") /\ UNCHANGED writeLock
     \/ /\ writeLock = NoOne /\ writeLock' = g
        /\ Goto(g, "send") /\ UNCHANGED <<writer, writerLock>>
  /\ UNCHANGED <<closing, size, copied, waitCtx, ctxDone, ctlLock, conn, wire>>

\* Mutant: flush drops the error of sendFrame.
FlushSendUnchecked(g) ==
  /\ At(g, "send") /\ g \in Senders
  /\ (Sent(WriterFrame) \/ NotSent(WriterFrame))
  /\ writer' = Flushed /\ writeLock' = NoOne
  /\ Goto(g, IF LastFlush(g) THEN "sent" ELSE "write")
  /\ UNCHANGED <<closing, size, copied, waitCtx, ctxDone, ctlLock, writerLock, conn>>

\* Mutant: flush returns without unLock.
FlushSendStillLocked(g) ==
  /\ At(g, "send") /\ g \in Senders
  /\ Sent(WriterFrame) /\ writer' = Flushed
  /\ Goto(g, IF LastFlush(g) THEN "sent" ELSE "write")
  /\ UNCHANGED <<closing, size, copied, waitCtx, ctxDone, locks, conn>>

FlushSend(g) ==
  /\ At(g, "send") /\ g \in Senders
  /\ \/ /\ Sent(WriterFrame) /\ writer' = Flushed /\ writeLock' = NoOne
        /\ Goto(g, IF LastFlush(g) THEN "sent" ELSE "write") /\ UNCHANGED closing
     \/ NotSent(WriterFrame) /\ CallClose(g, "failed") /\ UNCHANGED <<writer, writeLock>>
  /\ UNCHANGED <<size, copied, waitCtx, ctxDone, ctlLock, writerLock, conn>>

(* Close's deferred closed = true and tryUnlock, after flush has unlocked. *)
FlushDone(g) ==
  /\ At(g, "sent") /\ CloseWriter /\ Goto(g, "nil")
  /\ UNCHANGED <<closing, size, copied, waitCtx, ctxDone, writeLock, ctlLock, conn, wire>>

FlushFailed(g) ==
  /\ pc[g] = "failed" /\ g \in Senders /\ closing[g] = "back"
  /\ Closing(g, "no") /\ writeLock' = NoOne /\ FlushReturns(g, "fatal")
  /\ UNCHANGED <<size, copied, waitCtx, ctxDone, ctlLock, conn, wire>>

Send(g) == \/ NextWriter(g) \/ EncodeFails(g) \/ Write(g) \/ Close(g)
           \/ FlushLock(g) \/ FlushSend(g) \/ FlushDone(g) \/ FlushFailed(g)

-----------------------------------------------------------------------------
(* frame.writeToConn, called by the broadcastListener.                     *)

CastLock(g) ==
  /\ At(g, "start")
  /\ \/ done /\ Goto(g, "fatal") /\ UNCHANGED writeLock
     \/ g \in ctxDone /\ Goto(g, "err") /\ UNCHANGED writeLock
     \/ writeLock = NoOne /\ writeLock' = g /\ Goto(g, "deadline")
  /\ UNCHANGED <<closing, size, copied, waitCtx, ctxDone, ctlLock, writerLock,
                 writer, conn, wire>>

CastDeadline(g) ==
  /\ At(g, "deadline")
  /\ \/ raw = "open" /\ Goto(g, "send") /\ UNCHANGED closing
     \/ raw = "closed" /\ CallClose(g, "failed")
  /\ UNCHANGED <<size, copied, waitCtx, ctxDone, locks, writer, conn, wire>>

CastSend(g) ==
  /\ At(g, "send") /\ g \in Casters
  /\ \/ Sent(CastFrame(g)) /\ Goto(g, "nil")
     \/ NotSent(CastFrame(g)) /\ Goto(g, "fatal")
  /\ writeLock' = NoOne
  /\ UNCHANGED <<closing, size, copied, waitCtx, ctxDone, ctlLock, writerLock, writer, conn>>

CastFailed(g) ==
  /\ pc[g] = "failed" /\ g \in Casters /\ closing[g] = "back"
  /\ Closing(g, "no") /\ writeLock' = NoOne /\ Goto(g, "fatal")
  /\ UNCHANGED <<size, copied, waitCtx, ctxDone, ctlLock, writerLock, writer, conn, wire>>

Cast(g) == CastLock(g) \/ CastDeadline(g) \/ CastSend(g) \/ CastFailed(g)

-----------------------------------------------------------------------------
(* writeControl, called by Ping (from pingLoop or the application) and by  *)
(* pong.  pingLoop and pong close the connection on an error, the          *)
(* application's Ping just returns it.                                     *)

ControlFails(g) ==
  \/ CallClose(g, "giveup")
  \/ Goto(g, "fatal") /\ UNCHANGED closing

ControlLock(g) ==
  /\ At(g, "start")
  /\ \/ (done \/ "timeout" \in Faults) /\ ControlFails(g) /\ UNCHANGED ctlLock
     \/ ctlLock = NoOne /\ ctlLock' = g /\ Goto(g, "deadline") /\ UNCHANGED closing
  /\ UNCHANGED <<size, copied, waitCtx, ctxDone, writeLock, writerLock, writer, conn, wire>>

(* SetWriteDeadline, and for a pong the reading of the ping's payload.     *)
ControlDeadline(g) ==
  /\ At(g, "deadline")
  /\ \/ raw = "open" /\ Goto(g, "lock") /\ UNCHANGED <<closing, ctlLock>>
     \/ (raw = "closed" \/ "net" \in Faults) /\ ControlFails(g) /\ ctlLock' = NoOne
  /\ UNCHANGED <<size, copied, waitCtx, ctxDone, writeLock, writerLock, writer, conn, wire>>

ControlWriteLock(g) ==
  /\ At(g, "lock")
  /\ \/ /\ done \/ "timeout" \in Faults
        /\ ControlFails(g) /\ ctlLock' = NoOne /\ UNCHANGED writeLock
     \/ /\ writeLock = NoOne /\ writeLock' = g
        /\ Goto(g, "send") /\ UNCHANGED <<closing, ctlLock>>
  /\ UNCHANGED <<size, copied, waitCtx, ctxDone, writerLock, writer, conn, wire>>

ControlSend(g) ==
  /\ At(g, "send")
  /\ \/ Sent(ControlFrame) /\ Goto(g, "nil") /\ UNCHANGED closing
     \/ NotSent(ControlFrame) /\ ControlFails(g)
  /\ writeLock' = NoOne /\ ctlLock' = NoOne
  /\ UNCHANGED <<size, copied, waitCtx, ctxDone, writerLock, writer, conn>>

Control(g) == \/ ControlLock(g) \/ ControlDeadline(g)
              \/ ControlWriteLock(g) \/ ControlSend(g)

-----------------------------------------------------------------------------
(* CloseWithCode.  closeOnce.Do blocks while another goroutine runs it, and *)
(* for ever when the caller is the one that runs it.                        *)

CallCloser(g) ==
  /\ At(g, "start") /\ CallClose(g, "giveup")
  /\ UNCHANGED <<size, copied, waitCtx, ctxDone, locks, writer, conn, wire>>

CloseReturns(g) ==
  /\ pc[g] = "giveup" /\ closing[g] = "back"
  /\ Goto(g, "fatal") /\ Closing(g, "no")
  /\ UNCHANGED <<size, copied, waitCtx, ctxDone, locks, writer, conn, wire>>

CloseOnce(g) ==
  /\ closing[g] = "once"
  /\ \/ once = NoOne /\ once' = g /\ Closing(g, "writer")
     \/ once = Final /\ Closing(g, "back") /\ UNCHANGED once
  /\ UNCHANGED <<pc, size, copied, waitCtx, ctxDone, locks, writer,
                 done, pooled, raw, hooks, wire>>

(* conn.writer.Close(), by a goroutine that does not own the writer.       *)
CloseFlush(g) ==
  /\ closing[g] = "writer"
  /\ \/ /\ writer.closed /\ Closing(g, "signal")
        /\ UNCHANGED <<waitCtx, writer, writerLock>>
     \/ /\ ~writer.closed /\ ~CanFlush /\ Closing(g, "signal")
        /\ CloseWriter /\ UNCHANGED waitCtx
     \/ /\ CanFlush /\ writer' = Header(TRUE) /\ Closing(g, "wlock")
        /\ waitCtx' = [waitCtx EXCEPT ![g] = writer.ctx] /\ UNCHANGED writerLock
  /\ UNCHANGED <<pc, size, copied, ctxDone, writeLock, ctlLock, conn, wire>>

CloseFlushLock(g) ==
  /\ closing[g] = "wlock"
  /\ \/ /\ waitCtx[g] \in ctxDone /\ Closing(g, "signal")
        /\ CloseWriter /\ UNCHANGED writeLock
     \/ /\ writeLock = NoOne /\ writeLock' = g
        /\ Closing(g, "wsend") /\ UNCHANGED <<writer, writerLock>>
  /\ UNCHANGED <<pc, size, copied, waitCtx, ctxDone, ctlLock, conn, wire>>

(* On an error flush calls CloseWithCode again, inside closeOnce.          *)
CloseFlushSend(g) ==
  /\ closing[g] = "wsend"
  /\ \/ /\ Sent(WriterFrame) /\ writer' = Flushed
        /\ writeLock' = NoOne /\ Closing(g, "wsent")
     \/ /\ NotSent(WriterFrame) /\ Closing(g, "once")
        /\ UNCHANGED <<writer, writeLock>>
  /\ UNCHANGED <<pc, size, copied, waitCtx, ctxDone, ctlLock, writerLock, conn>>

CloseFlushDone(g) ==
  /\ closing[g] = "wsent" /\ CloseWriter /\ Closing(g, "signal")
  /\ UNCHANGED <<pc, size, copied, waitCtx, ctxDone, writeLock, ctlLock, conn, wire>>

(* The write buffer goes back to the pool and conn.done is closed.         *)
CloseSignal(g) ==
  /\ closing[g] = "signal" /\ Closing(g, "ctl")
  /\ pooled' = TRUE /\ done' = TRUE
  /\ UNCHANGED <<pc, size, copied, waitCtx, ctxDone, locks, writer, once, raw, hooks, wire>>

(* writeClose: it gives up on an already closed raw connection.            *)
CloseCtlLock(g) ==
  /\ closing[g] = "ctl" /\ ctlLock = NoOne /\ ctlLock' = Final
  /\ Closing(g, IF raw = "closed" THEN "hooks" ELSE "final")
  /\ UNCHANGED <<pc, size, copied, waitCtx, ctxDone, writeLock, writerLock, writer, conn, wire>>

\* Mutant: writeClose sends without taking writeLock.
CloseWriteLockSkipped(g) ==
  /\ closing[g] = "final" /\ Closing(g, "bye")
  /\ UNCHANGED <<pc, size, copied, waitCtx, ctxDone, locks, writer, conn, wire>>

CloseWriteLock(g) ==
  /\ closing[g] = "final" /\ writeLock = NoOne /\ writeLock' = Final
  /\ Closing(g, "bye")
  /\ UNCHANGED <<pc, size, copied, waitCtx, ctxDone, ctlLock, writerLock, writer, conn, wire>>

\* Mutant: writeClose unlocks after sending, as every other writer does.
CloseSendUnlocks(g) ==
  /\ closing[g] = "bye" /\ (Sent(CloseFrame) \/ NotSent(CloseFrame))
  /\ writeLock' = NoOne /\ Closing(g, "rawclose")
  /\ UNCHANGED <<pc, size, copied, waitCtx, ctxDone, ctlLock, writerLock, writer, conn>>

\* Mutant: writeClose returns early when sendFrame fails.
CloseSendOrLeave(g) ==
  /\ closing[g] = "bye"
  /\ \/ Sent(CloseFrame) /\ Closing(g, "rawclose")
     \/ NotSent(CloseFrame) /\ Closing(g, "hooks")
  /\ UNCHANGED <<pc, size, copied, waitCtx, ctxDone, locks, writer, conn>>

CloseSend(g) ==
  /\ closing[g] = "bye" /\ (Sent(CloseFrame) \/ NotSent(CloseFrame))
  /\ Closing(g, "rawclose")
  /\ UNCHANGED <<pc, size, copied, waitCtx, ctxDone, locks, writer, conn>>

CloseRaw(g) ==
  /\ closing[g] = "rawclose" /\ raw' = "closed" /\ Closing(g, "hooks")
  /\ UNCHANGED <<pc, size, copied, waitCtx, ctxDone, locks, writer, once, done,
                 pooled, hooks, wire>>

(* OnDisconnect, onClose, Limiter.removeClient, Flusher.remove.            *)
CloseHooks(g) ==
  /\ closing[g] = "hooks" /\ hooks' = hooks + 1 /\ once' = Final /\ Closing(g, "back")
  /\ UNCHANGED <<pc, size, copied, waitCtx, ctxDone, locks, writer, done, pooled, raw, wire>>

CloseWithCode(g) == \/ CloseOnce(g) \/ CloseFlush(g) \/ CloseFlushLock(g)
                    \/ CloseFlushSend(g) \/ CloseFlushDone(g) \/ CloseSignal(g)
                    \/ CloseCtlLock(g) \/ CloseWriteLock(g) \/ CloseSend(g)
                    \/ CloseRaw(g) \/ CloseHooks(g) \/ CloseReturns(g)

-----------------------------------------------------------------------------
Step(g) == \/ g \in Senders /\ Send(g)
           \/ g \in Casters /\ Cast(g)
           \/ g \in Controllers /\ Control(g)
           \/ g \in Closers /\ CallCloser(g)
           \/ CloseWithCode(g)

CancelCtx(g) ==
  /\ g \in Cancellable \ ctxDone /\ ctxDone' = ctxDone \cup {g}
  /\ UNCHANGED <<pc, closing, size, copied, waitCtx, locks, writer, conn, wire>>

RawClose ==
  /\ "rawclose" \in Faults /\ raw = "open" /\ raw' = "closed"
  /\ UNCHANGED <<calls, locks, writer, once, done, pooled, hooks, wire>>

Next == (\E g \in Goroutines : Step(g) \/ CancelCtx(g)) \/ RawClose

Spec == Init /\ [][Next]_vars

(* Every runnable goroutine runs, and a goroutine that waits on a channel  *)
(* is served in turn (Go queues the waiters of a channel first in, first   *)
(* out), hence strong fairness.  Contexts, faults and the network owe      *)
(* nothing.                                                                *)
FairSpec == Spec /\ \A g \in Goroutines : SF_vars(Step(g))
-----------------------------------------------------------------------------
(* Correctness.                                                            *)

Places == {"uncalled", "start", "write", "close", "lock", "deadline", "send", "sent",
           "failed", "giveup"} \cup Returned
CloseStages == {"no", "once", "writer", "wlock", "wsend", "wsent", "signal",
                "ctl", "final", "bye", "rawclose", "hooks", "back"}
Chunks == Goroutines \X (1..MaxSize)
Headers == [op : {"none", "data", "cont"}, fin : BOOLEAN, len : 0..1]
Buffers == {<<>>} \cup {<<c>> : c \in Chunks}
Frames == [op : {"none", "data", "cont", "ctl", "close"}, fin : BOOLEAN, len : 0..1,
           load : Buffers, cut : BOOLEAN]
Writers == [closed : BOOLEAN, hdr : Headers, flushed : BOOLEAN,
            buf : Buffers, ctx : Goroutines \cup {NoOne}]
Tokens == Goroutines \cup {NoOne, Final}

(* Every variable keeps its type.                                          *)
TypeOK ==
  /\ pc \in [Goroutines -> Places]
  /\ closing \in [Goroutines -> CloseStages]
  /\ size \in [Senders -> 1..MaxSize] /\ copied \in [Senders -> 0..MaxSize]
  /\ waitCtx \in [Goroutines -> Goroutines \cup {NoOne}]
  /\ ctxDone \subseteq Cancellable
  /\ writeLock \in Tokens /\ ctlLock \in Tokens /\ writerLock \in Tokens
  /\ writer \in Writers
  /\ once \in Tokens /\ done \in BOOLEAN /\ pooled \in BOOLEAN
  /\ raw \in {"open", "closed"} /\ hooks \in Nat
  /\ wire \in Seq(Frames)

(* g is inside sendFrame.                                                  *)
Sending(g) == pc[g] = "send" \/ closing[g] \in {"wsend", "bye"}

(* Frames reach the network one at a time: data, broadcast, control and    *)
(* close frames are written by goroutines that know nothing of each other, *)
(* and only writeLock keeps the bytes of two frames apart.                 *)
FramesDoNotMix ==
  \A g, h \in Goroutines : Sending(g) /\ Sending(h) => g = h

(* Nothing follows a close frame (RFC 6455, 5.5.1): whatever is pending    *)
(* when CloseWithCode runs, and even where done and a free mutex are both  *)
(* ready in a select, no goroutine writes after writeClose.                *)
CloseFrameIsLast ==
  \A i \in 1..Len(wire) : wire[i].op = "close" => i = Len(wire)

(* Once CloseWithCode has returned to anybody, the connection is gone for  *)
(* good: done and raw are closed and the hooks have run once, on the error *)
(* path of writeClose too.                                                 *)
CloseIsComplete ==
  /\ hooks <= 1
  /\ once = Final => done /\ raw = "closed" /\ hooks = 1
  /\ \A g \in Goroutines : closing[g] = "back" => once = Final

Owns(g) == g \in Senders /\ pc[g] \in {"write", "close", "lock", "send", "sent", "failed"}

(* Until somebody closes the connection, NextWriter hands the ConnWriter   *)
(* to one caller at a time, and the token of writer.lock is the owner's.   *)
OneOwnerUntilClose ==
  once = NoOne =>
    \A g \in Senders : Owns(g) => writerLock = g /\ ~writer.closed /\ writer.ctx = g

MessageFrame(g, i) ==
  Frame([op |-> IF i = 1 THEN "data" ELSE "cont", fin |-> i = size[g], len |-> 1],
        << <<g, i>> >>)
IsOf(f, g) == f.load # <<>> /\ f.load[1][1] = g

(* Of the message of g the wire has the first n frames, once and in order. *)
OnWire(g, n) ==
  /\ \A i \in 1..n : \E k \in 1..Len(wire) : wire[k] = MessageFrame(g, i)
  /\ \A k \in 1..Len(wire) :
       IsOf(wire[k], g) => \E i \in 1..n : wire[k] = MessageFrame(g, i)
  /\ \A k, l \in 1..Len(wire) :
       k < l /\ IsOf(wire[k], g) /\ IsOf(wire[l], g)
         => wire[k].load[1][2] < wire[l].load[1][2]

(* A SendMessage that returned nil before anybody closed the connection    *)
(* has put its whole message on the wire, in order and once.               *)
NilMeansSentUntilClose ==
  once = NoOne => \A g \in Senders : pc[g] = "nil" => OnWire(g, size[g])

(* Every frame on the wire has a header that announces its payload: "Only  *)
(* one goroutine may call Write/Flush/Close at a time" (ConnWriter).       *)
WholeFrames ==
  \A i \in 1..Len(wire) :
    wire[i].op # "none" /\ wire[i].len = Len(wire[i].load) /\ ~wire[i].cut

DataIn(s) == {i \in 1..Len(s) : s[i].op \notin {"ctl", "close"}}

(* The last data frame before place i of s, if any, ends its message.      *)
Ended(s, i) ==
  \A j \in DataIn(s) : j < i /\ (\A k \in DataIn(s) : k <= j \/ i <= k) => s[j].fin

(* The continuation frames of a message follow its first frame with no     *)
(* other message in between (RFC 6455, 5.4): "NextWriter locks the data    *)
(* write stream".                                                          *)
FragmentsStayTogether ==
  \A i \in DataIn(wire) : wire[i].op = "data" <=> Ended(wire, i)

(* No broadcast has been sent, no call has given up on its context or      *)
(* failed to encode, no write has failed, and nobody closes.               *)
Undisturbed ==
  /\ once = NoOne
  /\ \A g \in Goroutines : pc[g] \notin {"err", "failed", "giveup", "fatal"}
  /\ \A g \in Casters : pc[g] \in {"uncalled", "start"}

(* Control frames may fall between the fragments of a message, and two     *)
(* senders may take turns, but neither fragments nor headers are disturbed.*)
StreamWellFormed == Undisturbed => WholeFrames /\ FragmentsStayTogether

Finished(g) == pc[g] \in Returned \cup {"uncalled"}

(* Who keeps the others out for good: a goroutine that runs CloseWithCode  *)
(* with writeLock in its hands, or a send that returned an error and kept  *)
(* the ConnWriter.                                                         *)
LockedOut ==
  \E g \in Goroutines :
    \/ writeLock = g /\ closing[g] \notin {"no", "wsend"}
    \/ writerLock = g /\ pc[g] = "err"

(* Every call returns, in whatever order the close and the others arrive   *)
(* and whatever fails: nobody is left waiting for a mutex, for closeOnce   *)
(* or for a context, unless somebody is locked out from then on.           *)
ReturnsUnlessLockedOut ==
  \A g \in Goroutines : <>Finished(g) \/ <>[]LockedOut

(* "If it returns a fatal error, the connection is closed" (flush): a send *)
(* whose network write failed returns.                                     *)
FailedFlushReturns == \A g \in Senders : pc[g] = "failed" ~> pc[g] = "fatal"
=============================================================================

-------------------------- MODULE ConnWriteProofs --------------------------
(***************************************************************************)
(* What TLAPS proves of ConnWrite, for any number of senders, broadcasts,  *)
(* control frames and closers, any message size and any set of faults.     *)
(***************************************************************************)
EXTENDS ConnWrite, TLAPS

(* A sender copies no more than its message holds.                         *)
CopyInv ==
  \A g \in Senders :
    /\ copied[g] <= size[g]
    /\ pc[g] = "start" => copied[g] = 0
    /\ pc[g] = "write" => copied[g] < size[g]

(* The places where a goroutine holds writeLock by its own call.           *)
CallHolds(g) ==
  \/ g \in Senders /\ pc[g] \in {"send", "failed"}
  \/ g \in Casters /\ pc[g] \in {"deadline", "send", "failed"}
  \/ g \in Controllers /\ pc[g] = "send"

(* writeLock is with the goroutine that is about to write, and with nobody *)
(* for ever once writeClose has it; only one goroutine is inside closeOnce.*)
LockInvOf(g) ==
  /\ CallHolds(g) \/ closing[g] = "wsend" => writeLock = g
  /\ pc[g] \in {"send", "failed"} => CallHolds(g)
  /\ closing[g] # "no" => pc[g] \in {"failed", "giveup"}
  /\ closing[g] \in {"wsend", "wsent"} => pc[g] = "giveup"
  /\ closing[g] \notin {"no", "once", "back"} => once = g
  /\ closing[g] \in {"bye", "rawclose"} => writeLock = Final

LockInv == \A g \in Goroutines : LockInvOf(g)

(* What the stages of CloseWithCode have done by the time they are reached.*)
CloseInv ==
  /\ once # Final => hooks = 0
  /\ once = Final => done /\ raw = "closed" /\ hooks = 1
  /\ \A g \in Goroutines :
       /\ closing[g] \in {"ctl", "final", "bye", "rawclose", "hooks"} => done
       /\ closing[g] = "hooks" => raw = "closed"
       /\ closing[g] = "back" => once = Final

(* Once a close frame is on the wire, writeLock is nobody's to take and    *)
(* writeClose does not send again.                                         *)
LastInv ==
  /\ CloseFrameIsLast
  /\ \A i \in 1..Len(wire) : wire[i].op = "close" =>
       writeLock = Final /\ \A g \in Goroutines : closing[g] # "bye"


-----------------------------------------------------------------------------
(* Lemmas about the wire and the frames put on it.                         *)

(* One write leaves the wire as it is or appends one frame, possibly cut.  *)
LEMMA WriteAppends ==
  ASSUME wire \in Seq(Frames), NEW f \in Frames, Sent(f) \/ NotSent(f)
  PROVE  \/ wire' = wire
         \/ \E h \in Frames : /\ h.op = f.op /\ h.load = f.load /\ raw = "open"
                             /\ wire' = Append(wire, h)
<1>1. CASE Sent(f)
  <2>1. CASE Bytes(f) = <<>>
    BY <1>1, <2>1 DEF Sent
  <2>2. CASE Bytes(f) = <<f>>
    BY <1>1, <2>2 DEF Sent
  <2> QED  BY <2>1, <2>2 DEF Bytes
<1>2. CASE NotSent(f)
  <2>1. /\ [f EXCEPT !.cut = TRUE] \in Frames /\ [f EXCEPT !.cut = TRUE].op = f.op
        /\ [f EXCEPT !.cut = TRUE].load = f.load
    BY DEF Frames
  <2> QED  BY <1>2, <2>1 DEF NotSent
<1> QED  BY <1>1, <1>2

(* What a write puts on the wire keeps it a sequence of frames.            *)
LEMMA WriteTyped ==
  ASSUME wire \in Seq(Frames), NEW f \in Frames, Sent(f) \/ NotSent(f)
  PROVE  wire' \in Seq(Frames)
BY WriteAppends

(* The frames of the model are frames, and only writeClose's is a close.   *)
LEMMA FramesTyped ==
  ASSUME TypeOK
  PROVE  /\ WriterFrame \in Frames /\ WriterFrame.op # "close"
         /\ ControlFrame \in Frames /\ ControlFrame.op # "close"
         /\ CloseFrame \in Frames /\ CloseFrame.op = "close"
         /\ \A g \in Casters : CastFrame(g) \in Frames /\ CastFrame(g).op # "close"
<1> <<>> \in Buffers
  BY DEF Buffers
<1>1. ASSUME NEW g \in Casters
      PROVE  << <<g, 1>> >> \in Buffers
  <2>1. 1 \in 1..MaxSize
    BY ConnWriteAssumption DEF ConnWriteAssumption
  <2>2. <<g, 1>> \in Chunks
    BY <2>1 DEF Chunks, Goroutines
  <2> QED  BY <2>2 DEF Buffers
<1>2. WriterFrame \in Frames /\ WriterFrame.op # "close"
  BY DEF TypeOK, Writers, WriterFrame, Frame, Frames, Headers
<1> QED  BY <1>1, <1>2 DEF ControlFrame, CloseFrame, CastFrame, Frame, Frames

(* The header that flush writes and the states of the writer are typed.    *)
LEMMA WriterTyped ==
  ASSUME TypeOK
  PROVE  /\ \A fin \in BOOLEAN : Header(fin) \in Writers
         /\ Flushed \in Writers
         /\ [writer EXCEPT !.closed = TRUE] \in Writers
         /\ \A g \in Senders, n \in 1..MaxSize :
              [writer EXCEPT !.buf = << <<g, n>> >>] \in Writers
         /\ \A g \in Senders :
              [closed |-> FALSE, hdr |-> NoHdr, flushed |-> FALSE, buf |-> <<>>,
               ctx |-> g] \in Writers
         /\ writer.ctx \in Goroutines \cup {NoOne}
<1>1. writer \in Writers
  BY DEF TypeOK
<1>2. <<>> \in Buffers /\ NoHdr \in Headers
  BY DEF Buffers, NoHdr, Headers
<1>3. Len(writer.buf) \in 0..1
  BY <1>1 DEF Writers, Buffers
<1>4. \A g \in Senders, n \in 1..MaxSize : << <<g, n>> >> \in Buffers
  BY DEF Buffers, Chunks, Goroutines
<1>5. \A fin \in BOOLEAN : Header(fin) \in Writers
  BY <1>1, <1>3 DEF Header, Writers, Headers
<1>6. Flushed \in Writers
  BY <1>1, <1>2 DEF Flushed, Writers
<1> QED  BY <1>1, <1>2, <1>4, <1>5, <1>6 DEF Writers, Goroutines

-----------------------------------------------------------------------------
(* Type correctness.                                                       *)

(* The types hold at the start.                                            *)
LEMMA TypeInit == Init => TypeOK /\ CopyInv
<1> SUFFICES ASSUME Init PROVE TypeOK /\ CopyInv
  OBVIOUS
<1>1. MaxSize \in Nat /\ MaxSize >= 1
  BY ConnWriteAssumption DEF ConnWriteAssumption
<1>2. writer \in Writers
  BY DEF Init, Writers, NoHdr, Headers, Buffers
<1>3. wire \in Seq(Frames)
  BY DEF Init
<1>4. size \in [Senders -> 1..MaxSize] /\ copied \in [Senders -> 0..MaxSize]
  BY <1>1 DEF Init
<1>5. pc \in [Goroutines -> Places] /\ closing \in [Goroutines -> CloseStages]
  BY DEF Init, Places, CloseStages
<1>6. TypeOK
  BY <1>2, <1>3, <1>4, <1>5 DEF Init, TypeOK, Tokens
<1>7. CopyInv
  <2>1. ASSUME NEW g \in Senders
        PROVE  copied[g] = 0 /\ 0 <= size[g] /\ pc[g] # "write"
    BY <1>1, <1>4 DEF Init, Goroutines
  <2> QED  BY <2>1 DEF CopyInv
<1> QED  BY <1>6, <1>7

(* Where a sender's call goes and what happens to the writer.              *)
LEMMA FlushTyped ==
  ASSUME TypeOK, CopyInv, NEW g \in Senders, NEW r \in {"err", "fatal"},
         FlushReturns(g, r)
  PROVE  /\ pc' = [pc EXCEPT ![g] = r] /\ pc' \in [Goroutines -> Places]
         /\ writer' \in Writers /\ writerLock' \in Tokens
<1>1. pc' = [pc EXCEPT ![g] = r] /\ pc' \in [Goroutines -> Places]
  BY DEF FlushReturns, Goto, TypeOK, Places, Returned, Goroutines
<1>2. writer' \in Writers /\ writerLock' \in Tokens
  BY WriterTyped DEF FlushReturns, CloseWriter, TypeOK, Writers, Tokens
<1> QED  BY <1>1, <1>2

(* Entering the flush of a message, from Write or Close, keeps the types.  *)
LEMMA FlushEntryTyped ==
  ASSUME TypeOK, CopyInv, NEW g \in Senders, Flush(g)
  PROVE  /\ \E l \in {"lock", "err"} : pc' = [pc EXCEPT ![g] = l]
         /\ pc' \in [Goroutines -> Places]
         /\ waitCtx' \in [Goroutines -> Goroutines \cup {NoOne}]
         /\ writer' \in Writers /\ writerLock' \in Tokens
<1>1. CASE CanFlush /\ writer' = Header(LastFlush(g)) /\ Goto(g, "lock")
           /\ waitCtx' = [waitCtx EXCEPT ![g] = writer.ctx] /\ UNCHANGED writerLock
  <2>1. LastFlush(g) \in BOOLEAN
    BY DEF LastFlush
  <2> QED  BY <1>1, <2>1, WriterTyped DEF Goto, TypeOK, Places, Goroutines
<1>2. CASE FlushReturns(g, "err") /\ UNCHANGED waitCtx
  BY <1>2, FlushTyped DEF TypeOK
<1> QED  BY <1>1, <1>2 DEF Flush

(* A step of a sender, outside CloseWithCode.                              *)
LEMMA SendTyped ==
  ASSUME TypeOK, CopyInv, NEW g \in Senders, Send(g)
  PROVE  TypeOK' /\ CopyInv'
<1> USE DEF At, Goto, Closing, CallClose, CopyInv, calls, locks, conn, Goroutines
<1> copied[g] \in Nat /\ size[g] \in 1..MaxSize /\ MaxSize \in Nat
  BY ConnWriteAssumption DEF TypeOK, ConnWriteAssumption
<1>1. CASE NextWriter(g)
  <2>1. writer' \in Writers
    BY <1>1, WriterTyped DEF NextWriter, TypeOK
  <2>2. pc' \in [Goroutines -> Places] /\ writerLock' \in Tokens
    BY <1>1 DEF NextWriter, TypeOK, Places, Returned, Tokens
  <2>3. CopyInv'
    BY <1>1 DEF NextWriter, TypeOK
  <2> QED  BY <1>1, <2>1, <2>2, <2>3 DEF NextWriter, TypeOK
<1>2. CASE EncodeFails(g)
  <2>1. pc' \in [Goroutines -> Places]
    BY <1>2 DEF EncodeFails, TypeOK, Places, Returned
  <2> QED  BY <1>2, <2>1 DEF EncodeFails, TypeOK
<1>3. CASE Write(g)
  <2>1. CASE Goto(g, "err") /\ UNCHANGED <<copied, waitCtx, writerLock, writer>>
    <3>1. pc' \in [Goroutines -> Places]
      BY <2>1 DEF TypeOK, Places, Returned
    <3> QED  BY <1>3, <2>1, <3>1 DEF Write, TypeOK
  <2>2. CASE /\ writer' = [writer EXCEPT !.buf = << <<g, copied[g] + 1>> >>]
             /\ copied' = [copied EXCEPT ![g] = @ + 1]
             /\ Goto(g, IF copied[g] + 1 = size[g] THEN "close" ELSE "write")
             /\ UNCHANGED <<waitCtx, writerLock>>
    <3>1. copied[g] + 1 \in 1..MaxSize /\ copied[g] + 1 <= size[g]
      BY <1>3 DEF Write
    <3>2. writer' \in Writers
      BY <2>2, <3>1, WriterTyped
    <3>3. copied' \in [Senders -> 0..MaxSize]
      BY <2>2, <3>1 DEF TypeOK
    <3>4. pc' \in [Goroutines -> Places]
      BY <2>2 DEF TypeOK, Places
    <3>5. CopyInv'
      BY <1>3, <2>2, <3>1, <3>3, <3>4 DEF Write, TypeOK
    <3> QED  BY <1>3, <2>2, <3>2, <3>3, <3>4, <3>5 DEF Write, TypeOK
  <2>3. CASE Flush(g) /\ UNCHANGED copied
    <3>1. CopyInv'
      BY <1>3, <2>3, FlushEntryTyped DEF Write, TypeOK
    <3> QED  BY <1>3, <2>3, <3>1, FlushEntryTyped DEF Write, TypeOK
  <2> QED  BY <1>3, <2>1, <2>2, <2>3 DEF Write
<1>4. CASE Close(g)
  <2>1. CASE Goto(g, "nil") /\ UNCHANGED <<waitCtx, writerLock, writer>>
    <3>1. pc' \in [Goroutines -> Places]
      BY <2>1 DEF TypeOK, Places, Returned
    <3> QED  BY <1>4, <2>1, <3>1 DEF Close, TypeOK
  <2>2. CASE Flush(g)
    <3>1. CopyInv'
      BY <1>4, <2>2, FlushEntryTyped DEF Close, TypeOK
    <3> QED  BY <1>4, <2>2, <3>1, FlushEntryTyped DEF Close, TypeOK
  <2> QED  BY <1>4, <2>1, <2>2 DEF Close
<1>5. CASE FlushLock(g)
  <2>1. CASE \E r \in {"err", "fatal"} : FlushReturns(g, r) /\ UNCHANGED writeLock
    <3>1. CopyInv'
      BY <1>5, <2>1, FlushTyped DEF FlushLock, TypeOK
    <3> QED  BY <1>5, <2>1, <3>1, FlushTyped DEF FlushLock, TypeOK
  <2>2. CASE writeLock' = g /\ Goto(g, "send") /\ UNCHANGED <<writer, writerLock>>
    <3>1. pc' \in [Goroutines -> Places] /\ writeLock' \in Tokens
      BY <2>2 DEF TypeOK, Places, Tokens
    <3> QED  BY <1>5, <2>2, <3>1 DEF FlushLock, TypeOK
  <2> QED  BY <1>5, <2>1, <2>2 DEF FlushLock
<1>6. CASE FlushSend(g)
  <2>1. wire' \in Seq(Frames)
    BY <1>6, FramesTyped, WriteTyped DEF FlushSend, TypeOK
  <2>2. writer' \in Writers /\ writeLock' \in Tokens
    BY <1>6, WriterTyped DEF FlushSend, TypeOK, Tokens
  <2>3. pc' \in [Goroutines -> Places] /\ closing' \in [Goroutines -> CloseStages]
    BY <1>6 DEF FlushSend, TypeOK, Places, CloseStages
  <2>4. CopyInv'
    BY <1>6, <2>3 DEF FlushSend, LastFlush, TypeOK
  <2> QED  BY <1>6, <2>1, <2>2, <2>3, <2>4 DEF FlushSend, TypeOK
<1>7. CASE FlushDone(g)
  <2>1. writer' \in Writers /\ writerLock' \in Tokens /\ pc' \in [Goroutines -> Places]
    BY <1>7, WriterTyped DEF FlushDone, CloseWriter, TypeOK, Places, Returned, Tokens
  <2> QED  BY <1>7, <2>1 DEF FlushDone, TypeOK
<1>8. CASE FlushFailed(g)
  <2>1. writeLock' \in Tokens /\ closing' \in [Goroutines -> CloseStages]
    BY <1>8 DEF FlushFailed, TypeOK, CloseStages, Tokens
  <2>2. CopyInv'
    BY <1>8, FlushTyped DEF FlushFailed, TypeOK
  <2> QED  BY <1>8, <2>1, <2>2, FlushTyped DEF FlushFailed, TypeOK
<1> QED  BY <1>1, <1>2, <1>3, <1>4, <1>5, <1>6, <1>7, <1>8 DEF Send

(* A step of a broadcast, a ping or a pong.                                *)
LEMMA CastTyped ==
  ASSUME TypeOK, CopyInv, NEW g \in Casters, Cast(g)
  PROVE  TypeOK' /\ CopyInv'
<1> USE DEF At, Goto, Closing, CallClose, calls, locks, conn
<1> g \in Goroutines
  BY DEF Goroutines
<1>1. wire' \in Seq(Frames)
  BY FramesTyped, WriteTyped
     DEF Cast, CastLock, CastDeadline, CastSend, CastFailed, TypeOK
<1>2. pc' \in [Goroutines -> Places] /\ closing' \in [Goroutines -> CloseStages]
  BY DEF Cast, CastLock, CastDeadline, CastSend, CastFailed, TypeOK, Places,
         Returned, CloseStages
<1>3. writeLock' \in Tokens
  BY DEF Cast, CastLock, CastDeadline, CastSend, CastFailed, TypeOK, Tokens
<1>4. TypeOK'
  BY <1>1, <1>2, <1>3
     DEF Cast, CastLock, CastDeadline, CastSend, CastFailed, TypeOK
<1>5. CopyInv'
  <2>1. UNCHANGED <<size, copied>>
    BY DEF Cast, CastLock, CastDeadline, CastSend, CastFailed
  <2>2. \A h \in Senders : pc'[h] \in {"start", "write"} => pc'[h] = pc[h]
    BY DEF Cast, CastLock, CastDeadline, CastSend, CastFailed, TypeOK, Goroutines
  <2> QED  BY <2>1, <2>2 DEF CopyInv
<1> QED  BY <1>4, <1>5

(* The steps of writeControl keep the types.                               *)
LEMMA ControlTyped ==
  ASSUME TypeOK, CopyInv, NEW g \in Controllers, Control(g)
  PROVE  TypeOK' /\ CopyInv'
<1> USE DEF At, Goto, Closing, CallClose, ControlFails, calls, locks, conn
<1> g \in Goroutines
  BY DEF Goroutines
<1>1. wire' \in Seq(Frames)
  BY FramesTyped, WriteTyped
     DEF Control, ControlLock, ControlDeadline, ControlWriteLock, ControlSend, TypeOK
<1>2. pc' \in [Goroutines -> Places] /\ closing' \in [Goroutines -> CloseStages]
  BY DEF Control, ControlLock, ControlDeadline, ControlWriteLock, ControlSend, TypeOK,
         Places, Returned, CloseStages
<1>3. writeLock' \in Tokens /\ ctlLock' \in Tokens
  BY DEF Control, ControlLock, ControlDeadline, ControlWriteLock, ControlSend, TypeOK, Tokens
<1>4. TypeOK'
  BY <1>1, <1>2, <1>3
     DEF Control, ControlLock, ControlDeadline, ControlWriteLock, ControlSend, TypeOK
<1>5. CopyInv'
  <2>1. UNCHANGED <<size, copied>>
    BY DEF Control, ControlLock, ControlDeadline, ControlWriteLock, ControlSend
  <2>2. \A h \in Senders : pc'[h] \in {"start", "write"} => pc'[h] = pc[h]
    BY DEF Control, ControlLock, ControlDeadline, ControlWriteLock, ControlSend,
           TypeOK, Goroutines
  <2> QED  BY <2>1, <2>2 DEF CopyInv
<1> QED  BY <1>4, <1>5

(* A step inside CloseWithCode.                                            *)
LEMMA CloseTyped ==
  ASSUME TypeOK, CopyInv, NEW g \in Goroutines, CloseWithCode(g)
  PROVE  TypeOK' /\ CopyInv'
<1> USE DEF Goto, Closing, calls, locks, conn
<1>1. closing' \in [Goroutines -> CloseStages] /\ pc' \in [Goroutines -> Places]
  BY DEF CloseWithCode, CloseOnce, CloseFlush, CloseFlushLock, CloseFlushSend, CloseFlushDone,
         CloseSignal, CloseCtlLock, CloseWriteLock, CloseSend, CloseRaw, CloseHooks,
         CloseReturns, TypeOK, CloseStages, Places, Returned
<1>2. CopyInv'
  <2>1. UNCHANGED <<size, copied>>
    BY DEF CloseWithCode, CloseOnce, CloseFlush, CloseFlushLock, CloseFlushSend, CloseFlushDone,
         CloseSignal, CloseCtlLock, CloseWriteLock, CloseSend, CloseRaw, CloseHooks,
         CloseReturns
  <2>2. \A h \in Senders : pc'[h] \in {"start", "write"} => pc'[h] = pc[h]
    BY DEF CloseWithCode, CloseOnce, CloseFlush, CloseFlushLock, CloseFlushSend, CloseFlushDone,
         CloseSignal, CloseCtlLock, CloseWriteLock, CloseSend, CloseRaw, CloseHooks,
         CloseReturns, TypeOK, Goroutines
  <2> QED  BY <2>1, <2>2 DEF CopyInv
<1>3. CASE CloseOnce(g) \/ CloseHooks(g)
  BY <1>1, <1>2, <1>3 DEF CloseOnce, CloseHooks, TypeOK, Tokens
<1>4. CASE CloseSignal(g) \/ CloseRaw(g) \/ CloseReturns(g)
  BY <1>1, <1>2, <1>4 DEF CloseSignal, CloseRaw, CloseReturns, TypeOK
<1>5. CASE CloseCtlLock(g) \/ CloseWriteLock(g)
  BY <1>1, <1>2, <1>5 DEF CloseCtlLock, CloseWriteLock, TypeOK, Tokens
<1>6. CASE CloseFlush(g)
  <2>1. writer' \in Writers /\ writerLock' \in Tokens
    BY <1>6, WriterTyped DEF CloseFlush, CloseWriter, TypeOK, Tokens
  <2>2. waitCtx' \in [Goroutines -> Goroutines \cup {NoOne}]
    BY <1>6, WriterTyped DEF CloseFlush, TypeOK
  <2> QED  BY <1>1, <1>2, <1>6, <2>1, <2>2 DEF CloseFlush, TypeOK
<1>7. CASE CloseFlushLock(g)
  <2>1. writer' \in Writers /\ writerLock' \in Tokens /\ writeLock' \in Tokens
    BY <1>7, WriterTyped DEF CloseFlushLock, CloseWriter, TypeOK, Tokens
  <2> QED  BY <1>1, <1>2, <1>7, <2>1 DEF CloseFlushLock, TypeOK
<1>8. CASE CloseFlushSend(g)
  <2>1. writer' \in Writers /\ writeLock' \in Tokens
    BY <1>8, WriterTyped DEF CloseFlushSend, TypeOK, Tokens
  <2>2. wire' \in Seq(Frames)
    BY <1>8, FramesTyped, WriteTyped DEF CloseFlushSend, TypeOK
  <2> QED  BY <1>1, <1>2, <1>8, <2>1, <2>2 DEF CloseFlushSend, TypeOK
<1>9. CASE CloseFlushDone(g)
  <2>1. writer' \in Writers /\ writerLock' \in Tokens
    BY <1>9, WriterTyped DEF CloseFlushDone, CloseWriter, TypeOK, Tokens
  <2> QED  BY <1>1, <1>2, <1>9, <2>1 DEF CloseFlushDone, TypeOK
<1>10. CASE CloseSend(g)
  <2>1. wire' \in Seq(Frames)
    BY <1>10, FramesTyped, WriteTyped DEF CloseSend, TypeOK
  <2> QED  BY <1>1, <1>2, <1>10, <2>1 DEF CloseSend, TypeOK
<1> QED  BY <1>3, <1>4, <1>5, <1>6, <1>7, <1>8, <1>9, <1>10 DEF CloseWithCode

(* Every step keeps the types.                                             *)
LEMMA TypeStep == TypeOK /\ CopyInv /\ [Next]_vars => TypeOK' /\ CopyInv'
<1> SUFFICES ASSUME TypeOK, CopyInv, [Next]_vars PROVE TypeOK' /\ CopyInv'
  OBVIOUS
<1> USE DEF calls, locks, conn
<1>1. ASSUME NEW g \in Closers, CallCloser(g) PROVE TypeOK' /\ CopyInv'
  <2>1. /\ g \in Goroutines
        /\ pc' \in [Goroutines -> Places] /\ closing' \in [Goroutines -> CloseStages]
        /\ \A h \in Senders : pc'[h] \in {"start", "write"} => pc'[h] = pc[h]
    BY <1>1 DEF CallCloser, At, CallClose, Goto, Closing, TypeOK, Places, CloseStages,
                Goroutines
  <2> QED  BY <1>1, <2>1 DEF CallCloser, TypeOK, CopyInv
<1>2. ASSUME NEW g \in Goroutines, CancelCtx(g) PROVE TypeOK' /\ CopyInv'
  BY <1>2 DEF CancelCtx, TypeOK, CopyInv
<1>3. CASE RawClose
  BY <1>3 DEF RawClose, TypeOK, CopyInv
<1>4. CASE UNCHANGED vars
  BY <1>4 DEF vars, TypeOK, CopyInv
<1> QED
  BY <1>1, <1>2, <1>3, <1>4, SendTyped, CastTyped, ControlTyped, CloseTyped DEF Next, Step

-----------------------------------------------------------------------------
(* Mutual exclusion of the network connection.                             *)

(* A goroutine that takes no step is not disturbed by one that takes or    *)
(* releases a mutex it may take or release, and enters or leaves closeOnce.*)
LEMMA LockFrame ==
  ASSUME TypeOK, LockInv, NEW g \in Goroutines,
         \A h \in Goroutines \ {g} : pc'[h] = pc[h] /\ closing'[h] = closing[h],
         \/ writeLock' = writeLock
         \/ writeLock = NoOne
         \/ writeLock = g,
         \/ once' = once
         \/ once \in {NoOne, g}
  PROVE  \A h \in Goroutines \ {g} : LockInvOf(h)'
<1> SUFFICES ASSUME NEW h \in Goroutines \ {g} PROVE LockInvOf(h)'
  OBVIOUS
<1>1. NoOne \notin Goroutines /\ Final \notin Goroutines /\ NoOne # Final
  BY ConnWriteAssumption DEF ConnWriteAssumption
<1>2. LockInvOf(h)
  BY DEF LockInv
<1>3. CallHolds(h)' <=> CallHolds(h)
  BY DEF CallHolds
<1> QED  BY <1>1, <1>2, <1>3 DEF LockInvOf

(* The locks are free at the start.                                        *)
LEMMA LockInit == Init => LockInv
BY DEF Init, LockInv, LockInvOf, CallHolds

(* Each kind of call keeps its own part of LockInv.                        *)
LEMMA SendLocks ==
  ASSUME TypeOK, LockInv, NEW g \in Senders, Send(g)
  PROVE  LockInv'
<1> USE DEF At, Goto, Closing, CallClose, conn, locks
<1> g \in Goroutines /\ g \notin Casters /\ g \notin Controllers
  BY ConnWriteAssumption DEF ConnWriteAssumption, Goroutines
<1>1. LockInvOf(g)
  BY DEF LockInv
<1>2. \A h \in Goroutines \ {g} : pc'[h] = pc[h] /\ closing'[h] = closing[h]
  BY DEF Send, NextWriter, EncodeFails, Write, Close, FlushLock, FlushSend, FlushDone,
         FlushFailed, Flush, FlushReturns, TypeOK
<1>3. UNCHANGED once /\ (writeLock' = writeLock \/ writeLock = NoOne \/ writeLock = g)
  BY <1>1 DEF Send, NextWriter, EncodeFails, Write, Close, FlushLock, FlushSend, FlushDone,
         FlushFailed, Flush, FlushReturns, LockInvOf, CallHolds
<1>4. LockInvOf(g)'
  <2>1. CASE NextWriter(g)
    BY <1>1, <2>1 DEF NextWriter, LockInvOf, CallHolds, TypeOK
  <2>2. CASE EncodeFails(g)
    BY <1>1, <2>2 DEF EncodeFails, LockInvOf, CallHolds, TypeOK
  <2>3. CASE Write(g)
    BY <1>1, <2>3 DEF Write, Flush, FlushReturns, LockInvOf, CallHolds, TypeOK
  <2>4. CASE Close(g)
    BY <1>1, <2>4 DEF Close, Flush, FlushReturns, LockInvOf, CallHolds, TypeOK
  <2>5. CASE FlushLock(g)
    BY <1>1, <2>5 DEF FlushLock, FlushReturns, LockInvOf, CallHolds, TypeOK
  <2>6. CASE FlushSend(g)
    BY <1>1, <2>6 DEF FlushSend, LockInvOf, CallHolds, TypeOK
  <2>7. CASE FlushDone(g)
    BY <1>1, <2>7 DEF FlushDone, LockInvOf, CallHolds, TypeOK
  <2>8. CASE FlushFailed(g)
    BY <1>1, <2>8 DEF FlushFailed, FlushReturns, LockInvOf, CallHolds, TypeOK
  <2> QED  BY <2>1, <2>2, <2>3, <2>4, <2>5, <2>6, <2>7, <2>8 DEF Send
<1> QED  BY <1>2, <1>3, <1>4, LockFrame DEF LockInv

(* writeToConn keeps to writeLock.                                         *)
LEMMA CastLocks ==
  ASSUME TypeOK, LockInv, NEW g \in Casters, Cast(g)
  PROVE  LockInv'
<1> USE DEF At, Goto, Closing, CallClose, conn, locks
<1> g \in Goroutines
  BY DEF Goroutines
<1>1. LockInvOf(g)
  BY DEF LockInv
<1>2. \A h \in Goroutines \ {g} : pc'[h] = pc[h] /\ closing'[h] = closing[h]
  BY DEF Cast, CastLock, CastDeadline, CastSend, CastFailed, TypeOK
<1>3. UNCHANGED once /\ (writeLock' = writeLock \/ writeLock = NoOne \/ writeLock = g)
  BY <1>1 DEF Cast, CastLock, CastDeadline, CastSend, CastFailed, LockInvOf, CallHolds
<1>4. LockInvOf(g)'
  BY <1>1 DEF Cast, CastLock, CastDeadline, CastSend, CastFailed, LockInvOf, CallHolds, TypeOK
<1> QED  BY <1>2, <1>3, <1>4, LockFrame DEF LockInv

(* writeControl keeps to its lock and to writeLock.                        *)
LEMMA ControlLocks ==
  ASSUME TypeOK, LockInv, NEW g \in Controllers, Control(g)
  PROVE  LockInv'
<1> USE DEF At, Goto, Closing, CallClose, conn, locks
<1> g \in Goroutines /\ g \notin Casters /\ g \notin Senders
  BY ConnWriteAssumption DEF ConnWriteAssumption, Goroutines
<1>1. LockInvOf(g)
  BY DEF LockInv
<1>2. \A h \in Goroutines \ {g} : pc'[h] = pc[h] /\ closing'[h] = closing[h]
  BY DEF Control, ControlLock, ControlDeadline, ControlWriteLock, ControlSend,
         ControlFails, TypeOK
<1>3. UNCHANGED once /\ (writeLock' = writeLock \/ writeLock = NoOne \/ writeLock = g)
  BY <1>1 DEF Control, ControlLock, ControlDeadline, ControlWriteLock, ControlSend,
         ControlFails, LockInvOf, CallHolds
<1>4. LockInvOf(g)'
  <2>1. CASE ControlLock(g)
    BY <1>1, <2>1 DEF ControlLock, ControlFails, LockInvOf, CallHolds, TypeOK
  <2>2. CASE ControlDeadline(g)
    BY <1>1, <2>2 DEF ControlDeadline, ControlFails, LockInvOf, CallHolds, TypeOK
  <2>3. CASE ControlWriteLock(g)
    BY <1>1, <2>3 DEF ControlWriteLock, ControlFails, LockInvOf, CallHolds, TypeOK
  <2>4. CASE ControlSend(g)
    BY <1>1, <2>4 DEF ControlSend, ControlFails, LockInvOf, CallHolds, TypeOK
  <2> QED  BY <2>1, <2>2, <2>3, <2>4 DEF Control
<1> QED  BY <1>2, <1>3, <1>4, LockFrame DEF LockInv

(* CloseWithCode keeps to the locks.                                       *)
LEMMA CloseLocks ==
  ASSUME TypeOK, LockInv, NEW g \in Goroutines, CloseWithCode(g)
  PROVE  LockInv'
<1> USE DEF Goto, Closing, conn, locks
<1> g # NoOne
  BY ConnWriteAssumption DEF ConnWriteAssumption
<1>1. LockInvOf(g)
  BY DEF LockInv
<1>2. \A h \in Goroutines \ {g} : pc'[h] = pc[h] /\ closing'[h] = closing[h]
  BY DEF CloseWithCode, CloseOnce, CloseFlush, CloseFlushLock, CloseFlushSend,
         CloseFlushDone, CloseSignal, CloseCtlLock, CloseWriteLock, CloseSend, CloseRaw,
         CloseHooks, CloseReturns, TypeOK
<1>3. /\ writeLock' = writeLock \/ writeLock = NoOne \/ writeLock = g
      /\ once' = once \/ once \in {NoOne, g}
  BY <1>1 DEF CloseWithCode, CloseOnce, CloseFlush, CloseFlushLock, CloseFlushSend,
         CloseFlushDone, CloseSignal, CloseCtlLock, CloseWriteLock, CloseSend, CloseRaw,
         CloseHooks, CloseReturns, LockInvOf
<1>4. LockInvOf(g)'
  <2>1. CASE CloseOnce(g)
    BY <1>1, <2>1 DEF CloseOnce, LockInvOf, CallHolds, TypeOK
  <2>2. CASE CloseFlush(g)
    BY <1>1, <2>2 DEF CloseFlush, LockInvOf, CallHolds, TypeOK
  <2>3. CASE CloseFlushLock(g)
    BY <1>1, <2>3 DEF CloseFlushLock, LockInvOf, CallHolds, TypeOK
  <2>4. CASE CloseFlushSend(g)
    BY <1>1, <2>4 DEF CloseFlushSend, LockInvOf, CallHolds, TypeOK
  <2>5. CASE CloseFlushDone(g)
    BY <1>1, <2>5 DEF CloseFlushDone, LockInvOf, CallHolds, TypeOK
  <2>6. CASE CloseSignal(g)
    BY <1>1, <2>6 DEF CloseSignal, LockInvOf, CallHolds, TypeOK
  <2>7. CASE CloseCtlLock(g)
    BY <1>1, <2>7 DEF CloseCtlLock, LockInvOf, CallHolds, TypeOK
  <2>8. CASE CloseWriteLock(g)
    BY <1>1, <2>8 DEF CloseWriteLock, LockInvOf, CallHolds, TypeOK
  <2>9. CASE CloseSend(g)
    BY <1>1, <2>9 DEF CloseSend, LockInvOf, CallHolds, TypeOK
  <2>10. CASE CloseRaw(g)
    BY <1>1, <2>10 DEF CloseRaw, LockInvOf, CallHolds, TypeOK
  <2>11. CASE CloseHooks(g)
    BY <1>1, <2>11 DEF CloseHooks, LockInvOf, CallHolds, TypeOK
  <2>12. CASE CloseReturns(g)
    BY <1>1, <2>12 DEF CloseReturns, LockInvOf, CallHolds, TypeOK
  <2> QED  BY <2>1, <2>2, <2>3, <2>4, <2>5, <2>6, <2>7, <2>8, <2>9, <2>10, <2>11, <2>12 DEF CloseWithCode
<1> QED  BY <1>2, <1>3, <1>4, LockFrame DEF LockInv

(* Every step keeps to the locks.                                          *)
LEMMA LockStep == TypeOK /\ LockInv /\ [Next]_vars => LockInv'
<1> SUFFICES ASSUME TypeOK, LockInv, [Next]_vars PROVE LockInv'
  OBVIOUS
<1> USE DEF locks, conn, calls
<1>1. ASSUME NEW g \in Closers, CallCloser(g) PROVE LockInv'
  <2> g \in Goroutines /\ g \notin Casters /\ g \notin Senders
    BY ConnWriteAssumption DEF ConnWriteAssumption, Goroutines
  <2>1. LockInvOf(g)'
    BY <1>1 DEF CallCloser, At, CallClose, Goto, Closing, LockInv, LockInvOf, CallHolds, TypeOK
  <2>2. \A h \in Goroutines \ {g} : pc'[h] = pc[h] /\ closing'[h] = closing[h]
    BY <1>1 DEF CallCloser, CallClose, Goto, Closing, TypeOK
  <2> QED  BY <1>1, <2>1, <2>2, LockFrame DEF CallCloser, LockInv
<1>2. CASE UNCHANGED <<pc, closing, writeLock, once>>
  BY <1>2 DEF LockInv, LockInvOf, CallHolds
<1>3. ASSUME NEW g \in Goroutines, CancelCtx(g) PROVE LockInv'
  BY <1>2, <1>3 DEF CancelCtx
<1>4. CASE RawClose
  BY <1>2, <1>4 DEF RawClose
<1>5. CASE UNCHANGED vars
  BY <1>2, <1>5 DEF vars
<1> QED
  BY <1>1, <1>3, <1>4, <1>5, SendLocks, CastLocks, ControlLocks, CloseLocks DEF Next, Step

(* Whoever writes to the connection holds writeLock, by its call or as the *)
(* one goroutine that runs writeClose; hence there is one at a time.       *)
LEMMA LockExcludes == TypeOK /\ LockInv => FramesDoNotMix
<1> SUFFICES ASSUME TypeOK, LockInv, NEW g \in Goroutines, NEW h \in Goroutines,
                    Sending(g), Sending(h)
             PROVE  g = h
  BY DEF FramesDoNotMix
<1>1. LockInvOf(g) /\ LockInvOf(h)
  BY DEF LockInv
<1>2. g # Final /\ h # Final
  BY ConnWriteAssumption DEF ConnWriteAssumption
<1> QED  BY <1>1, <1>2 DEF Sending, LockInvOf

-----------------------------------------------------------------------------
(* The close frame is the last one.                                        *)

(* No close frame is on the wire at the start.                             *)
LEMMA LastInit == Init => LastInv
BY DEF Init, LastInv, CloseFrameIsLast

(* A step that writes nothing, keeps a writeLock that is Final's and takes *)
(* nobody to the stage that sends the close frame.                         *)
LEMMA LastFrame ==
  ASSUME TypeOK, LastInv, UNCHANGED wire,
         writeLock = Final => writeLock' = Final,
         \A h \in Goroutines :
           closing'[h] = "bye" => closing[h] = "bye" \/ writeLock = NoOne
  PROVE  LastInv'
<1> NoOne # Final
  BY ConnWriteAssumption DEF ConnWriteAssumption
<1> QED  BY DEF LastInv, CloseFrameIsLast

(* A goroutine that holds writeLock by its own call writes a frame that is *)
(* not a close frame: then no close frame is on the wire yet.              *)
LEMMA LastWrite ==
  ASSUME TypeOK, LastInv, NEW f \in Frames, f.op # "close", writeLock # Final,
         Sent(f) \/ NotSent(f)
  PROVE  LastInv'
<1>1. wire \in Seq(Frames)
  BY DEF TypeOK
<1>2. \A i \in 1..Len(wire) : wire[i].op # "close"
  BY DEF LastInv
<1>3. \A i \in 1..Len(wire') : wire'[i].op # "close"
  <2>1. CASE wire' = wire
    BY <1>2, <2>1
  <2>2. CASE \E h \in Frames : h.op = f.op /\ raw = "open" /\ wire' = Append(wire, h)
    BY <1>1, <1>2, <2>2
  <2> QED  BY <1>1, <2>1, <2>2, WriteAppends
<1> QED  BY <1>3 DEF LastInv, CloseFrameIsLast

(* Every step leaves a close frame the last one.                           *)
LEMMA LastStep == TypeOK /\ LockInv /\ LastInv /\ [Next]_vars => LastInv'
<1> SUFFICES ASSUME TypeOK, LockInv, LastInv, [Next]_vars PROVE LastInv'
  OBVIOUS
<1> USE DEF locks, conn, calls, At, Goto, Closing, CallClose
<1> NoOne # Final /\ \A g \in Goroutines : LockInvOf(g) /\ g # Final /\ g # NoOne
  BY ConnWriteAssumption DEF ConnWriteAssumption, LockInv
<1>1. ASSUME NEW g \in Senders, Send(g) PROVE LastInv'
  <2>1. g \in Goroutines /\ LockInvOf(g) /\ g # Final
    BY DEF Goroutines
  <2>2. CASE FlushSend(g)
    BY <2>1, <2>2, FramesTyped, LastWrite DEF FlushSend, LockInvOf, CallHolds
  <2>3. CASE ~FlushSend(g)
    <3>1. UNCHANGED wire /\ \A h \in Goroutines : closing'[h] = "bye" => closing[h] = "bye"
      BY <1>1, <2>3 DEF Send, NextWriter, EncodeFails, Write, Close, FlushLock, FlushSend, FlushDone,
         FlushFailed, Flush, FlushReturns, TypeOK
    <3>2. writeLock = Final => writeLock' = Final
      BY <1>1, <2>1, <2>3 DEF Send, NextWriter, EncodeFails, Write, Close, FlushLock, FlushSend, FlushDone,
         FlushFailed, Flush, FlushReturns, LockInvOf, CallHolds
    <3> QED  BY <3>1, <3>2, LastFrame
  <2> QED  BY <2>2, <2>3
<1>2. ASSUME NEW g \in Casters, Cast(g) PROVE LastInv'
  <2>1. g \in Goroutines /\ LockInvOf(g) /\ g # Final
    BY DEF Goroutines
  <2>2. CASE CastSend(g)
    BY <2>1, <2>2, FramesTyped, LastWrite DEF CastSend, LockInvOf, CallHolds
  <2>3. CASE ~CastSend(g)
    <3>1. UNCHANGED wire /\ \A h \in Goroutines : closing'[h] = "bye" => closing[h] = "bye"
      BY <1>2, <2>3 DEF Cast, CastLock, CastDeadline, CastSend, CastFailed, TypeOK
    <3>2. writeLock = Final => writeLock' = Final
      BY <1>2, <2>1, <2>3 DEF Cast, CastLock, CastDeadline, CastSend, CastFailed, LockInvOf, CallHolds
    <3> QED  BY <3>1, <3>2, LastFrame
  <2> QED  BY <2>2, <2>3
<1>3. ASSUME NEW g \in Controllers, Control(g) PROVE LastInv'
  <2>1. g \in Goroutines /\ LockInvOf(g) /\ g # Final
    BY DEF Goroutines
  <2>2. CASE ControlSend(g)
    BY <2>1, <2>2, FramesTyped, LastWrite DEF ControlSend, LockInvOf, CallHolds
  <2>3. CASE ~ControlSend(g)
    <3>1. UNCHANGED wire /\ \A h \in Goroutines : closing'[h] = "bye" => closing[h] = "bye"
      BY <1>3, <2>3 DEF Control, ControlLock, ControlDeadline, ControlWriteLock, ControlSend,
         ControlFails, TypeOK
    <3>2. writeLock = Final => writeLock' = Final
      BY <1>3, <2>1, <2>3 DEF Control, ControlLock, ControlDeadline, ControlWriteLock, ControlSend,
         ControlFails, LockInvOf, CallHolds
    <3> QED  BY <3>1, <3>2, LastFrame
  <2> QED  BY <2>2, <2>3
<1>4. ASSUME NEW g \in Goroutines, CloseWithCode(g) PROVE LastInv'
  <2>1. CASE CloseFlushSend(g)
    BY <2>1, FramesTyped, LastWrite DEF CloseFlushSend, LockInvOf
  <2>2. CASE CloseSend(g)
    <3>1. /\ wire \in Seq(Frames) /\ CloseFrame \in Frames /\ CloseFrame.op = "close"
          /\ Sent(CloseFrame) \/ NotSent(CloseFrame)
      BY <2>2, FramesTyped DEF CloseSend, TypeOK
    <3>2. writeLock = Final /\ writeLock' = Final
      BY <2>2 DEF CloseSend, LockInvOf
    <3>3. \A i \in 1..Len(wire) : wire[i].op # "close"
      BY <2>2 DEF CloseSend, LastInv
    <3>4. \A h \in Goroutines : closing'[h] # "bye"
      BY <2>2 DEF CloseSend, LockInvOf, TypeOK
    <3>5. \A i \in 1..Len(wire') : wire'[i].op = "close" => i = Len(wire')
      <4>1. CASE wire' = wire
        BY <3>3, <4>1
      <4>2. CASE \E h \in Frames : h.op = CloseFrame.op /\ raw = "open" /\ wire' = Append(wire, h)
        BY <3>1, <3>3, <4>2
      <4> QED  BY <3>1, <4>1, <4>2, WriteAppends
    <3> QED  BY <3>2, <3>4, <3>5 DEF LastInv, CloseFrameIsLast
  <2>3. CASE ~CloseFlushSend(g) /\ ~CloseSend(g)
    <3>1. UNCHANGED wire
      BY <1>4, <2>3 DEF CloseWithCode, CloseOnce, CloseFlush, CloseFlushLock, CloseFlushSend,
         CloseFlushDone, CloseSignal, CloseCtlLock, CloseWriteLock, CloseSend, CloseRaw,
         CloseHooks, CloseReturns
    <3>2. \A h \in Goroutines :
            closing'[h] = "bye" => closing[h] = "bye" \/ writeLock = NoOne
      BY <1>4, <2>3 DEF CloseWithCode, CloseOnce, CloseFlush, CloseFlushLock, CloseFlushSend,
         CloseFlushDone, CloseSignal, CloseCtlLock, CloseWriteLock, CloseSend, CloseRaw,
         CloseHooks, CloseReturns, TypeOK
    <3>3. writeLock = Final => writeLock' = Final
      BY <1>4, <2>3 DEF CloseWithCode, CloseOnce, CloseFlush, CloseFlushLock, CloseFlushSend,
         CloseFlushDone, CloseSignal, CloseCtlLock, CloseWriteLock, CloseSend, CloseRaw,
         CloseHooks, CloseReturns
    <3> QED  BY <3>1, <3>2, <3>3, LastFrame
  <2> QED  BY <2>1, <2>2, <2>3
<1>5. ASSUME NEW g \in Closers, CallCloser(g) PROVE LastInv'
  <2>1. \A h \in Goroutines : closing'[h] = "bye" => closing[h] = "bye"
    BY <1>5 DEF CallCloser, TypeOK
  <2> QED  BY <1>5, <2>1, LastFrame DEF CallCloser
<1>6. ASSUME NEW g \in Goroutines, CancelCtx(g) PROVE LastInv'
  BY <1>6, LastFrame DEF CancelCtx
<1>7. CASE RawClose
  BY <1>7, LastFrame DEF RawClose
<1>8. CASE UNCHANGED vars
  BY <1>8, LastFrame DEF vars
<1> QED
  BY <1>1, <1>2, <1>3, <1>4, <1>5, <1>6, <1>7, <1>8 DEF Next, Step

-----------------------------------------------------------------------------
(* A close that returns is complete.                                       *)

(* No close has begun at the start.                                        *)
LEMMA CloseInit == Init => CloseInv
<1> NoOne # Final
  BY ConnWriteAssumption DEF ConnWriteAssumption
<1> QED  BY DEF Init, CloseInv

(* A step outside CloseWithCode only enters it or leaves its end.          *)
LEMMA CloseFrameStep ==
  ASSUME CloseInv, UNCHANGED <<once, done, hooks>>, raw' = raw \/ raw' = "closed",
         \A h \in Goroutines : closing'[h] \in {closing[h], "no", "once"}
  PROVE  CloseInv'
BY DEF CloseInv

(* Every step keeps what is known of each stage of the close.              *)
LEMMA CloseStep == TypeOK /\ LockInv /\ CloseInv /\ [Next]_vars => CloseInv'
<1> SUFFICES ASSUME TypeOK, LockInv, CloseInv, [Next]_vars PROVE CloseInv'
  OBVIOUS
<1> USE DEF locks, conn, calls, At, Goto, Closing, CallClose
<1>1. ASSUME NEW g \in Senders, Send(g) PROVE CloseInv'
  <2>1. \A h \in Goroutines : closing'[h] \in {closing[h], "no", "once"}
    BY <1>1 DEF Send, NextWriter, EncodeFails, Write, Close, FlushLock, FlushSend, FlushDone,
         FlushFailed, Flush, FlushReturns, TypeOK
  <2>2. UNCHANGED conn
    BY <1>1 DEF Send, NextWriter, EncodeFails, Write, Close, FlushLock, FlushSend, FlushDone,
         FlushFailed, Flush, FlushReturns
  <2> QED  BY <2>1, <2>2, CloseFrameStep
<1>2. ASSUME NEW g \in Casters, Cast(g) PROVE CloseInv'
  <2>1. \A h \in Goroutines : closing'[h] \in {closing[h], "no", "once"}
    BY <1>2 DEF Cast, CastLock, CastDeadline, CastSend, CastFailed, TypeOK
  <2>2. UNCHANGED conn
    BY <1>2 DEF Cast, CastLock, CastDeadline, CastSend, CastFailed
  <2> QED  BY <2>1, <2>2, CloseFrameStep
<1>3. ASSUME NEW g \in Controllers, Control(g) PROVE CloseInv'
  <2>1. \A h \in Goroutines : closing'[h] \in {closing[h], "no", "once"}
    BY <1>3 DEF Control, ControlLock, ControlDeadline, ControlWriteLock, ControlSend,
         ControlFails, TypeOK
  <2>2. UNCHANGED conn
    BY <1>3 DEF Control, ControlLock, ControlDeadline, ControlWriteLock, ControlSend,
         ControlFails
  <2> QED  BY <2>1, <2>2, CloseFrameStep
<1>4. ASSUME NEW g \in Goroutines, CloseWithCode(g) PROVE CloseInv'
  <2> g # Final /\ NoOne # Final /\ LockInvOf(g)
    BY ConnWriteAssumption DEF ConnWriteAssumption, LockInv
  <2>1. CASE CloseOnce(g)
    BY <2>1 DEF CloseOnce, CloseInv, TypeOK
  <2>2. CASE CloseFlush(g) \/ CloseFlushLock(g) \/ CloseFlushSend(g)
             \/ CloseFlushDone(g) \/ CloseReturns(g)
    BY <2>2 DEF CloseFlush, CloseFlushLock, CloseFlushSend, CloseFlushDone,
                CloseReturns, CloseInv, TypeOK
  <2>3. CASE CloseSignal(g)
    BY <2>3 DEF CloseSignal, CloseInv, TypeOK
  <2>4. CASE CloseCtlLock(g) \/ CloseWriteLock(g) \/ CloseSend(g) \/ CloseRaw(g)
    BY <2>4 DEF CloseCtlLock, CloseWriteLock, CloseSend, CloseRaw, CloseInv, TypeOK
  <2>5. CASE CloseHooks(g)
    <3>1. once = g /\ done /\ raw = "closed"
      BY <2>5 DEF CloseHooks, CloseInv, LockInvOf
    <3>2. hooks = 0
      BY <3>1 DEF CloseInv
    <3>3. done' /\ raw' = "closed" /\ hooks' = 1 /\ once' = Final
      BY <2>5, <3>1, <3>2 DEF CloseHooks
    <3>4. \A h \in Goroutines : closing'[h] \in {closing[h], "back"}
      BY <2>5 DEF CloseHooks, TypeOK
    <3> QED  BY <3>3, <3>4 DEF CloseInv
  <2> QED  BY <1>4, <2>1, <2>2, <2>3, <2>4, <2>5 DEF CloseWithCode
<1>5. ASSUME NEW g \in Closers, CallCloser(g) PROVE CloseInv'
  <2>1. \A h \in Goroutines : closing'[h] \in {closing[h], "no", "once"}
    BY <1>5 DEF CallCloser, TypeOK
  <2> QED  BY <1>5, <2>1, CloseFrameStep DEF CallCloser
<1>6. ASSUME NEW g \in Goroutines, CancelCtx(g) PROVE CloseInv'
  BY <1>6, CloseFrameStep DEF CancelCtx
<1>7. CASE RawClose
  BY <1>7, CloseFrameStep DEF RawClose
<1>8. CASE UNCHANGED vars
  BY <1>8, CloseFrameStep DEF vars
<1> QED
  BY <1>1, <1>2, <1>3, <1>4, <1>5, <1>6, <1>7, <1>8 DEF Next, Step

-----------------------------------------------------------------------------
(* The ConnWriter has one owner until the connection is closed.            *)

OwnedBy(g) == Owns(g) => writerLock = g /\ ~writer.closed /\ writer.ctx = g

(* Nobody owns the writer at the start.                                    *)
LEMMA OwnerInit == Init => OneOwnerUntilClose
BY DEF Init, OneOwnerUntilClose, Owns, Goroutines

(* While no close has begun nobody is inside CloseWithCode, and a close    *)
(* that has begun stays.                                                   *)
LEMMA OnceStays ==
  ASSUME [Next]_vars, once' = NoOne, TypeOK, LockInv
  PROVE  once = NoOne
<1> USE DEF locks, conn, calls, At, Goto, Closing, CallClose
<1> NoOne \notin Goroutines /\ NoOne # Final
  BY ConnWriteAssumption DEF ConnWriteAssumption
<1>1. ASSUME NEW g \in Senders, Send(g) PROVE UNCHANGED once
  BY <1>1 DEF Send, NextWriter, EncodeFails, Write, Close, FlushLock, FlushSend, FlushDone,
       FlushFailed, Flush, FlushReturns
<1>2. ASSUME NEW g \in Casters, Cast(g) PROVE UNCHANGED once
  BY <1>2 DEF Cast, CastLock, CastDeadline, CastSend, CastFailed
<1>3. ASSUME NEW g \in Controllers, Control(g) PROVE UNCHANGED once
  BY <1>3 DEF Control, ControlLock, ControlDeadline, ControlWriteLock, ControlSend,
       ControlFails
<1>4. ASSUME NEW g \in Goroutines, CloseWithCode(g) PROVE UNCHANGED once
  BY <1>4 DEF CloseWithCode, CloseOnce, CloseFlush, CloseFlushLock, CloseFlushSend,
       CloseFlushDone, CloseSignal, CloseCtlLock, CloseWriteLock, CloseSend, CloseRaw,
       CloseHooks, CloseReturns
<1>5. ASSUME NEW g \in Closers, CallCloser(g) PROVE UNCHANGED once
  BY <1>5 DEF CallCloser
<1>6. ASSUME NEW g \in Goroutines, CancelCtx(g) PROVE UNCHANGED once
  BY <1>6 DEF CancelCtx
<1> QED
  BY <1>1, <1>2, <1>3, <1>4, <1>5, <1>6 DEF Next, Step, RawClose, vars

(* No step of CloseWithCode comes before the close begins.                 *)
LEMMA NoneCloses ==
  ASSUME LockInv, CloseInv, once = NoOne, once' = NoOne, NEW g \in Goroutines
  PROVE  ~CloseWithCode(g) /\ closing[g] # "back"
<1> NoOne \notin Goroutines /\ NoOne # Final
  BY ConnWriteAssumption DEF ConnWriteAssumption
<1>1. LockInvOf(g)
  BY DEF LockInv
<1> QED
  BY <1>1 DEF CloseWithCode, CloseOnce, CloseFlush, CloseFlushLock, CloseFlushSend,
         CloseFlushDone, CloseSignal, CloseCtlLock, CloseWriteLock, CloseSend, CloseRaw,
         CloseHooks, CloseReturns, LockInvOf, CloseInv

(* Every step before a close leaves the writer one owner.                  *)
LEMMA OwnerStep ==
  TypeOK /\ LockInv /\ CloseInv /\ OneOwnerUntilClose /\ [Next]_vars => OneOwnerUntilClose'
<1> SUFFICES ASSUME TypeOK, LockInv, CloseInv, OneOwnerUntilClose, [Next]_vars,
                    once' = NoOne
             PROVE  \A g \in Senders : OwnedBy(g)'
  BY DEF OneOwnerUntilClose, OwnedBy
<1> USE DEF locks, conn, calls, At, Goto, Closing, CallClose
<1> Senders \subseteq Goroutines /\ NoOne \notin Goroutines /\ NoOne # Final
  BY ConnWriteAssumption DEF ConnWriteAssumption, Goroutines
<1>1. once = NoOne
  BY OnceStays
<1>2. \A g \in Senders : OwnedBy(g)
  BY <1>1 DEF OneOwnerUntilClose, OwnedBy
<1>3. ASSUME UNCHANGED <<writerLock, writer>>, \A h \in Senders : Owns(h)' => Owns(h)
      PROVE  \A h \in Senders : OwnedBy(h)'
  BY <1>2, <1>3 DEF OwnedBy
<1>4. ASSUME NEW g \in Senders, Send(g) PROVE \A h \in Senders : OwnedBy(h)'
  <2>1. \A h \in Senders \ {g} : Owns(h)' <=> Owns(h)
    BY <1>4 DEF Send, NextWriter, EncodeFails, Write, Close, FlushLock, FlushSend, FlushDone,
         FlushFailed, Flush, FlushReturns, Owns, TypeOK
  <2>2. ASSUME writerLock = NoOne, writerLock' = g, Goto(g, "write"),
               writer' = [closed |-> FALSE, hdr |-> NoHdr, flushed |-> FALSE,
                          buf |-> <<>>, ctx |-> g]
        PROVE  \A h \in Senders : OwnedBy(h)'
    BY <1>2, <2>1, <2>2 DEF OwnedBy
  <2>3. ASSUME Owns(g), UNCHANGED writerLock,
               writer' \in {Header(LastFlush(g)), Flushed, writer,
                            [writer EXCEPT !.buf = << <<g, copied[g] + 1>> >>]}
        PROVE  \A h \in Senders : OwnedBy(h)'
    <3>1. writer'.closed = writer.closed /\ writer'.ctx = writer.ctx
      BY <2>3 DEF TypeOK, Writers, Header, Flushed
    <3> QED  BY <1>2, <2>1, <2>3, <3>1 DEF OwnedBy
  <2>4. ASSUME Owns(g), ~Owns(g)' PROVE \A h \in Senders : OwnedBy(h)'
    BY <1>2, <2>1, <2>4 DEF OwnedBy
  <2>5. ASSUME UNCHANGED <<writerLock, writer>>, ~Owns(g)'
        PROVE  \A h \in Senders : OwnedBy(h)'
    BY <1>2, <2>1, <2>5 DEF OwnedBy
  <2>6. CASE NextWriter(g)
    BY <2>2, <2>5, <2>6 DEF NextWriter, Owns, TypeOK
  <2>7. CASE EncodeFails(g) \/ FlushDone(g)
    BY <2>4, <2>7 DEF EncodeFails, FlushDone, Owns, TypeOK
  <2>8. CASE Write(g) \/ Close(g)
    BY <2>3, <2>4, <2>8 DEF Write, Close, Flush, FlushReturns, Owns, TypeOK
  <2>9. CASE FlushLock(g)
    BY <2>3, <2>4, <2>9 DEF FlushLock, FlushReturns, Owns, TypeOK
  <2>10. CASE FlushSend(g)
    BY <2>3, <2>10 DEF FlushSend, Owns, TypeOK
  <2>11. CASE FlushFailed(g)
    BY <1>1, <2>11 DEF FlushFailed, CloseInv
  <2> QED
    BY <1>4, <2>6, <2>7, <2>8, <2>9, <2>10, <2>11 DEF Send
<1>5. ASSUME NEW g \in Casters, Cast(g) PROVE \A h \in Senders : OwnedBy(h)'
  <2>1. g \notin Senders
    BY ConnWriteAssumption DEF ConnWriteAssumption
  <2>2. \A h \in Senders : pc'[h] = pc[h]
    BY <1>5, <2>1 DEF Cast, CastLock, CastDeadline, CastSend, CastFailed, TypeOK
  <2>3. UNCHANGED <<writerLock, writer>>
    BY <1>5 DEF Cast, CastLock, CastDeadline, CastSend, CastFailed
  <2> QED  BY <1>3, <2>2, <2>3 DEF Owns
<1>6. ASSUME NEW g \in Controllers, Control(g) PROVE \A h \in Senders : OwnedBy(h)'
  <2>1. g \notin Senders
    BY ConnWriteAssumption DEF ConnWriteAssumption
  <2>2. \A h \in Senders : pc'[h] = pc[h]
    BY <1>6, <2>1 DEF Control, ControlLock, ControlDeadline, ControlWriteLock, ControlSend,
         ControlFails, TypeOK
  <2>3. UNCHANGED <<writerLock, writer>>
    BY <1>6 DEF Control, ControlLock, ControlDeadline, ControlWriteLock, ControlSend,
         ControlFails
  <2> QED  BY <1>3, <2>2, <2>3 DEF Owns
<1>7. ASSUME NEW g \in Goroutines, CloseWithCode(g) PROVE \A h \in Senders : OwnedBy(h)'
  BY <1>1, <1>7, NoneCloses
<1>8. ASSUME NEW g \in Closers, CallCloser(g) PROVE \A h \in Senders : OwnedBy(h)'
  BY <1>3, <1>8 DEF CallCloser, Owns, TypeOK
<1>9. ASSUME NEW g \in Goroutines, CancelCtx(g) PROVE \A h \in Senders : OwnedBy(h)'
  BY <1>3, <1>9 DEF CancelCtx, Owns
<1>10. CASE RawClose \/ UNCHANGED vars
  BY <1>3, <1>10 DEF RawClose, vars, Owns
<1> QED
  BY <1>4, <1>5, <1>6, <1>7, <1>8, <1>9, <1>10 DEF Next, Step

-----------------------------------------------------------------------------
(* What a sender has put on the wire.                                      *)

(* A frame of somebody else leaves a message as it is on the wire.         *)
LEMMA OtherFrame ==
  ASSUME wire \in Seq(Frames), UNCHANGED size, NEW f \in Frames, NEW g, NEW n \in Nat,
         wire' = Append(wire, f), ~IsOf(f, g), OnWire(g, n)
  PROVE  OnWire(g, n)'
<1>1. /\ Len(wire') = Len(wire) + 1 /\ wire'[Len(wire) + 1] = f
      /\ \A k \in 1..Len(wire) : wire'[k] = wire[k]
      /\ Len(wire) \in Nat
  OBVIOUS
<1>2. \A i : MessageFrame(g, i)' = MessageFrame(g, i)
  BY DEF MessageFrame, Frame
<1>3. \A k \in 1..Len(wire') : IsOf(wire'[k], g) => k \in 1..Len(wire) /\ wire'[k] = wire[k]
  BY <1>1
<1> QED  BY <1>1, <1>2, <1>3 DEF OnWire

(* The next frame of a message is added to it.                             *)
LEMMA NextFrame ==
  ASSUME wire \in Seq(Frames), UNCHANGED size, NEW g, NEW n \in Nat,
         MessageFrame(g, n + 1) \in Frames,
         wire' = Append(wire, MessageFrame(g, n + 1)), OnWire(g, n)
  PROVE  OnWire(g, n + 1)'
<1> DEFINE f == MessageFrame(g, n + 1)
<1>1. /\ Len(wire') = Len(wire) + 1 /\ wire'[Len(wire) + 1] = f
      /\ \A k \in 1..Len(wire) : wire'[k] = wire[k]
      /\ Len(wire) \in Nat
  OBVIOUS
<1>2. \A i : MessageFrame(g, i)' = MessageFrame(g, i)
  BY DEF MessageFrame, Frame
<1>3. \A i : MessageFrame(g, i).load[1][2] = i
  BY DEF MessageFrame, Frame
<1>4. \A k \in 1..Len(wire') : k \in 1..Len(wire) \/ k = Len(wire) + 1
  BY <1>1
<1>5. \A i \in 1..(n + 1) : i \in 1..n \/ i = n + 1
  OBVIOUS
<1>6. \A i \in 1..(n + 1) : \E k \in 1..Len(wire') : wire'[k] = MessageFrame(g, i)
  BY <1>1, <1>5 DEF OnWire
<1>7. \A k \in 1..Len(wire') :
        IsOf(wire'[k], g) => \E i \in 1..(n + 1) : wire'[k] = MessageFrame(g, i)
  BY <1>1, <1>4 DEF OnWire
<1>8. ASSUME NEW k \in 1..Len(wire'), NEW l \in 1..Len(wire'), k < l,
             IsOf(wire'[k], g), IsOf(wire'[l], g)
      PROVE  wire'[k].load[1][2] < wire'[l].load[1][2]
  <2>1. k \in 1..Len(wire) /\ wire'[k] = wire[k]
    BY <1>1, <1>8
  <2>2. PICK i \in 1..n : wire[k] = MessageFrame(g, i)
    BY <1>8, <2>1 DEF OnWire
  <2>3. CASE l \in 1..Len(wire)
    BY <1>1, <1>8, <2>1, <2>3 DEF OnWire
  <2>4. CASE l = Len(wire) + 1
    <3>1. wire'[k].load[1][2] = i /\ wire'[l].load[1][2] = n + 1
      BY <1>1, <1>3, <2>1, <2>2, <2>4
    <3>2. i < n + 1
      BY <2>2
    <3> QED  BY <3>1, <3>2, Zenon
  <2> QED  BY <1>4, <2>3, <2>4
<1> QED  BY <1>2, <1>6, <1>7, <1>8 DEF OnWire

(* The writer of g is empty, or full of a chunk that is not on the wire.   *)
Empty(g) ==
  /\ writer.buf = <<>> /\ OnWire(g, copied[g])
  /\ writer.flushed <=> copied[g] > 0
Full(g) ==
  /\ copied[g] > 0 /\ writer.buf = << <<g, copied[g]>> >> /\ OnWire(g, copied[g] - 1)
  /\ writer.flushed <=> copied[g] > 1

(* Where the message of g stands at each place of SendMessage.             *)
ProgressOf(g) ==
  /\ pc[g] = "start" => OnWire(g, 0)
  /\ pc[g] = "write" => writer.hdr = NoHdr /\ (Empty(g) \/ Full(g))
  /\ pc[g] = "close" => writer.hdr = NoHdr /\ Full(g) /\ LastFlush(g)
  /\ pc[g] \in {"lock", "send"} => Full(g) /\ writer.hdr = Header(LastFlush(g)).hdr
  /\ pc[g] \in {"sent", "nil"} => OnWire(g, size[g])

Progress == once = NoOne => \A g \in Senders : ProgressOf(g)

(* Nothing is on the wire at the start.                                    *)
LEMMA ProgressInit == Init => Progress
<1> SUFFICES ASSUME Init, NEW g \in Senders PROVE ProgressOf(g)
  BY Zenon DEF Progress
<1>1. pc[g] \in {"start", "uncalled"}
  BY DEF Init, Goroutines
<1>2. OnWire(g, 0)
  BY DEF Init, OnWire
<1> QED  BY <1>1, <1>2 DEF ProgressOf

(* A sender sends the next frame of its message, and nothing else.         *)
LEMMA SendsNext ==
  ASSUME TypeOK, NEW g \in Senders, FlushSend(g), ProgressOf(g)
  PROVE  LET n == copied[g]
         IN  /\ n \in Nat \ {0} /\ n - 1 \in Nat /\ (n - 1) + 1 = n
             /\ WriterFrame = MessageFrame(g, n) /\ WriterFrame \in Frames
             /\ WriterFrame.load = << <<g, n>> >> /\ Bytes(WriterFrame) = <<WriterFrame>>
             /\ OnWire(g, n - 1)
<1> DEFINE n == copied[g]
<1>1. n \in 0..MaxSize /\ MaxSize \in Nat
  BY ConnWriteAssumption DEF TypeOK, ConnWriteAssumption
<1>2. Full(g) /\ writer.hdr = Header(LastFlush(g)).hdr
  BY DEF FlushSend, At, ProgressOf
<1>3. n > 0 /\ writer.buf = << <<g, n>> >> /\ OnWire(g, n - 1) /\ (writer.flushed <=> n > 1)
  BY <1>2 DEF Full
<1>4. writer.hdr = [op |-> IF n = 1 THEN "data" ELSE "cont", fin |-> n = size[g], len |-> 1]
  BY <1>1, <1>2, <1>3 DEF Header, LastFlush, TypeOK, Writers
<1>5. WriterFrame = MessageFrame(g, n)
  BY <1>3, <1>4 DEF WriterFrame, MessageFrame, Frame
<1>6. WriterFrame.load = << <<g, n>> >>
  BY <1>3 DEF WriterFrame, Frame
<1>7. Bytes(WriterFrame) = <<WriterFrame>>
  BY <1>6 DEF Bytes
<1>8. WriterFrame \in Frames
  BY FramesTyped
<1> QED  BY <1>1, <1>3, <1>5, <1>6, <1>7, <1>8

(* What a sender's step does to the wire: nothing, or one frame of its own.*)
LEMMA SendWrites ==
  ASSUME TypeOK, NEW g \in Senders, Send(g), ProgressOf(g)
  PROVE  \/ wire' = wire
         \/ \E f \in Frames : f.load = << <<g, copied[g]>> >> /\ wire' = Append(wire, f)
<1> wire \in Seq(Frames)
  BY DEF TypeOK
<1>1. CASE FlushSend(g)
  <2> DEFINE f == WriterFrame
             h == [f EXCEPT !.cut = TRUE]
  <2>1. f \in Frames /\ f.load = << <<g, copied[g]>> >> /\ Bytes(f) = <<f>>
    BY <1>1, SendsNext
  <2>2. h \in Frames /\ h.load = f.load
    BY <2>1 DEF Frames
  <2>3. wire' = wire \o <<f>> \/ wire' = wire \/ wire' = Append(wire, h)
    BY <1>1, <2>1 DEF FlushSend, Sent, NotSent
  <2>4. wire \o <<f>> = Append(wire, f)
    BY <2>1
  <2> HIDE DEF f, h
  <2> QED  BY <2>1, <2>2, <2>3, <2>4
<1>2. CASE ~FlushSend(g)
  BY <1>2 DEF Send, NextWriter, EncodeFails, Write, Close, FlushLock, FlushDone, FlushFailed
<1> QED  BY <1>1, <1>2

(* The message of another sender stays where it is: if it owns the writer  *)
(* then nobody else does.                                                  *)
LEMMA OthersProgress ==
  ASSUME TypeOK, LockInv, CloseInv, OneOwnerUntilClose, once = NoOne, once' = NoOne,
         NEW g \in Senders, Send(g), ProgressOf(g),
         NEW h \in Senders \ {g}, ProgressOf(h)
  PROVE  ProgressOf(h)'
<1> USE DEF At, Goto, CallClose, Closing
<1>1. pc'[h] = pc[h] /\ copied'[h] = copied[h] /\ UNCHANGED size
  BY DEF Send, NextWriter, EncodeFails, Write, Close, FlushLock, FlushSend, FlushDone,
         FlushFailed, Flush, FlushReturns, TypeOK, Goroutines
<1>2. h # NoOne
  BY ConnWriteAssumption DEF ConnWriteAssumption, Goroutines
<1>3. CASE Owns(h)
  <2>1. writerLock = h /\ ~Owns(g)
    BY <1>3 DEF OneOwnerUntilClose
  <2>2. UNCHANGED <<writer, wire>>
    BY <1>2, <2>1 DEF Send, NextWriter, EncodeFails, Write, Close, FlushLock, FlushSend, FlushDone,
         FlushFailed, Flush, FlushReturns, Owns
  <2>3. \A n : OnWire(h, n)' <=> OnWire(h, n)
    BY <1>1, <2>2 DEF OnWire, MessageFrame, Frame
  <2> QED
    BY <1>1, <2>2, <2>3 DEF ProgressOf, Empty, Full, Header, LastFlush
<1>4. CASE ~Owns(h)
  <2>1. pc[h] \notin {"write", "close", "lock", "send", "sent"}
    BY <1>4 DEF Owns
  <2>2. size[h] \in Nat
    BY DEF TypeOK
  <2>3. ASSUME NEW n \in Nat, OnWire(h, n) PROVE OnWire(h, n)'
    <3>1. CASE wire' = wire
      BY <1>1, <2>3, <3>1 DEF OnWire, MessageFrame, Frame
    <3>2. CASE \E f \in Frames : f.load = << <<g, copied[g]>> >> /\ wire' = Append(wire, f)
      <4>1. PICK f \in Frames : f.load = << <<g, copied[g]>> >> /\ wire' = Append(wire, f)
        BY <3>2
      <4>2. ~IsOf(f, h)
        BY <4>1 DEF IsOf
      <4> QED  BY <1>1, <2>3, <4>1, <4>2, OtherFrame DEF TypeOK
    <3> QED  BY <3>1, <3>2, SendWrites
  <2> QED
    BY <1>1, <2>1, <2>2, <2>3 DEF ProgressOf
<1> QED  BY <1>3, <1>4

(* Entering a flush writes the header of the frame that comes next.        *)
LEMMA FlushProgress ==
  ASSUME TypeOK, NEW g \in Senders, ProgressOf(g),
         pc[g] \in {"write", "close"}, pc[g] = "write" => writer.buf # <<>>,
         Flush(g), UNCHANGED <<wire, size, copied>>
  PROVE  ProgressOf(g)'
<1> USE DEF Goto
<1>1. pc \in [Goroutines -> Places] /\ g \in Goroutines
  BY DEF TypeOK, Goroutines
<1>2. CASE CanFlush
  <2>1. writer' = Header(LastFlush(g)) /\ pc'[g] = "lock"
    BY <1>1, <1>2 DEF Flush
  <2>2. Full(g)
    BY DEF ProgressOf, Empty
  <2>3. writer'.buf = writer.buf /\ writer'.flushed = writer.flushed
    BY <2>1 DEF Header, TypeOK, Writers
  <2>4. Full(g)'
    BY <2>2, <2>3 DEF Full, OnWire, MessageFrame, Frame
  <2>5. writer'.hdr = Header(LastFlush(g)).hdr'
    BY <2>1, <2>3 DEF Header, LastFlush, TypeOK, Writers
  <2> QED  BY <2>1, <2>4, <2>5 DEF ProgressOf
<1>3. CASE ~CanFlush
  <2>1. pc'[g] = "err"
    BY <1>1, <1>3 DEF Flush, FlushReturns
  <2> QED  BY <2>1 DEF ProgressOf
<1> QED  BY <1>2, <1>3

(* The message of the sender that takes a step makes its way.              *)
LEMMA OwnProgress ==
  ASSUME TypeOK, CopyInv, CloseInv, OneOwnerUntilClose,
         once = NoOne, once' = NoOne, NEW g \in Senders, Send(g), ProgressOf(g)
  PROVE  ProgressOf(g)'
<1> USE DEF At, Goto, CallClose, Closing, calls, locks, conn
<1>1. g \in Goroutines /\ NoOne # Final
  BY ConnWriteAssumption DEF ConnWriteAssumption, Goroutines
<1>2. copied[g] \in Nat /\ size[g] \in Nat /\ copied[g] <= size[g]
  BY ConnWriteAssumption DEF TypeOK, ConnWriteAssumption, CopyInv
<1>3. pc \in [Goroutines -> Places] /\ writer \in Writers /\ wire \in Seq(Frames)
  BY DEF TypeOK
<1>4. ASSUME UNCHANGED <<wire, size>>, NEW n, OnWire(g, n) PROVE OnWire(g, n)'
  BY <1>4 DEF OnWire, MessageFrame, Frame
<1>5. ASSUME pc'[g] \in {"err", "fatal", "failed"} PROVE ProgressOf(g)'
  BY <1>5 DEF ProgressOf
<1>6. CASE NextWriter(g)
  <2>1. CASE pc'[g] = "write"
    <3>1. writer'.hdr = NoHdr /\ writer'.buf = <<>> /\ ~writer'.flushed
      BY <1>1, <1>3, <1>6, <2>1 DEF NextWriter
    <3>2. copied'[g] = 0 /\ OnWire(g, 0)
      BY <1>6 DEF NextWriter, CopyInv, ProgressOf
    <3>3. OnWire(g, 0)'
      BY <1>4, <1>6, <3>2 DEF NextWriter
    <3>4. Empty(g)'
      BY <3>1, <3>2, <3>3 DEF Empty
    <3> QED  BY <2>1, <3>1, <3>4 DEF ProgressOf
  <2> QED  BY <1>1, <1>3, <1>5, <1>6, <2>1 DEF NextWriter
<1>7. CASE EncodeFails(g)
  BY <1>1, <1>3, <1>5, <1>7 DEF EncodeFails
<1>8. CASE Write(g)
  <2>1. CASE Goto(g, "err")
    BY <1>1, <1>3, <1>5, <2>1
  <2>2. CASE Flush(g) /\ UNCHANGED copied /\ writer.buf # <<>>
    BY <1>8, <2>2, FlushProgress DEF Write
  <2>3. CASE /\ writer.buf = <<>>
             /\ writer' = [writer EXCEPT !.buf = << <<g, copied[g] + 1>> >>]
             /\ copied' = [copied EXCEPT ![g] = @ + 1]
             /\ Goto(g, IF copied[g] + 1 = size[g] THEN "close" ELSE "write")
    <3>1. writer.hdr = NoHdr /\ Empty(g) /\ UNCHANGED <<wire, size>>
      BY <1>8, <2>3 DEF Write, ProgressOf, Full
    <3>2. copied'[g] = copied[g] + 1 /\ copied'[g] - 1 = copied[g]
      BY <1>2, <2>3 DEF TypeOK
    <3>3. /\ writer'.buf = << <<g, copied'[g]>> >> /\ writer'.flushed = writer.flushed
          /\ writer'.hdr = NoHdr
      BY <1>3, <2>3, <3>1, <3>2 DEF Writers
    <3>4. \A n : OnWire(g, n) => OnWire(g, n)'
      BY <1>4, <3>1
    <3>5. Full(g)'
      BY <1>2, <3>1, <3>2, <3>3, <3>4 DEF Full, Empty
    <3>6. pc'[g] = "write" \/ (pc'[g] = "close" /\ LastFlush(g)')
      BY <1>1, <1>3, <2>3, <3>1, <3>2 DEF LastFlush
    <3> QED  BY <3>3, <3>5, <3>6 DEF ProgressOf
  <2> QED  BY <1>8, <2>1, <2>2, <2>3 DEF Write
<1>9. CASE Close(g)
  <2>1. ~writer.closed
    BY <1>9 DEF Close, OneOwnerUntilClose, Owns
  <2> QED  BY <1>9, <2>1, FlushProgress DEF Close
<1>10. CASE FlushLock(g)
  <2>1. CASE pc'[g] = "send"
    <3>1. UNCHANGED <<writer, copied, size, wire>> /\ pc[g] = "lock"
      BY <1>1, <1>3, <1>10, <2>1 DEF FlushLock, FlushReturns
    <3>2. Full(g) /\ writer.hdr = Header(LastFlush(g)).hdr
      BY <3>1 DEF ProgressOf
    <3>3. Full(g)' /\ writer'.hdr = Header(LastFlush(g)).hdr'
      BY <1>4, <3>1, <3>2 DEF Full, Header, LastFlush
    <3> QED  BY <2>1, <3>3 DEF ProgressOf
  <2> QED  BY <1>1, <1>3, <1>5, <1>10, <2>1 DEF FlushLock, FlushReturns
<1>11. CASE FlushSend(g)
  <2> DEFINE n == copied[g]
  <2>1. CASE NotSent(WriterFrame) /\ CallClose(g, "failed")
    BY <1>1, <1>3, <1>5, <2>1
  <2>2. CASE /\ Sent(WriterFrame) /\ writer' = Flushed
             /\ Goto(g, IF LastFlush(g) THEN "sent" ELSE "write")
    <3>1. /\ n \in Nat \ {0} /\ n - 1 \in Nat /\ (n - 1) + 1 = n
          /\ WriterFrame = MessageFrame(g, n) /\ WriterFrame \in Frames
          /\ Bytes(WriterFrame) = <<WriterFrame>> /\ OnWire(g, n - 1)
      BY <1>11, SendsNext
    <3>2. wire' = Append(wire, MessageFrame(g, n)) /\ MessageFrame(g, n) \in Frames
      BY <1>3, <2>2, <3>1 DEF Sent
    <3>3. UNCHANGED <<copied, size>>
      BY <1>11 DEF FlushSend
    <3>4. OnWire(g, n)'
      BY <1>3, <3>1, <3>2, <3>3, NextFrame
    <3>5. writer'.buf = <<>> /\ writer'.flushed /\ writer'.hdr = NoHdr
      BY <1>3, <2>2 DEF Flushed, Writers
    <3>6. Empty(g)'
      BY <3>1, <3>3, <3>4, <3>5 DEF Empty
    <3>7. pc'[g] = "write" \/ (pc'[g] = "sent" /\ n = size'[g])
      BY <1>1, <1>3, <2>2, <3>3 DEF LastFlush
    <3> QED  BY <3>3, <3>4, <3>5, <3>6, <3>7 DEF ProgressOf
  <2> QED  BY <1>11, <2>1, <2>2 DEF FlushSend
<1>12. CASE FlushDone(g)
  <2>1. pc'[g] = "nil" /\ UNCHANGED <<size, wire>> /\ OnWire(g, size[g])
    BY <1>1, <1>3, <1>12 DEF FlushDone, ProgressOf
  <2>2. \A n : OnWire(g, n) => OnWire(g, n)'
    BY <1>4, <2>1
  <2> QED  BY <2>1, <2>2 DEF ProgressOf
<1>13. CASE FlushFailed(g)
  BY <1>1, <1>13 DEF FlushFailed, CloseInv
<1> QED
  BY <1>6, <1>7, <1>8, <1>9, <1>10, <1>11, <1>12, <1>13 DEF Send

(* A broadcast, a ping or a pong is no part of anybody's message.          *)
LEMMA StrangersProgress ==
  ASSUME TypeOK, UNCHANGED <<size, copied, writer>>, NEW h \in Senders, ProgressOf(h),
         pc'[h] = pc[h],
         \/ wire' = wire
         \/ \E f \in Frames : ~IsOf(f, h) /\ wire' = Append(wire, f)
  PROVE  ProgressOf(h)'
<1>1. size[h] \in Nat /\ copied[h] \in Nat
  BY ConnWriteAssumption DEF TypeOK, ConnWriteAssumption
<1>2. ASSUME NEW n \in Nat, OnWire(h, n) PROVE OnWire(h, n)'
  <2>1. CASE UNCHANGED wire
    <3>1. UNCHANGED <<wire, size>>
      BY <2>1
    <3> QED  BY <1>2, <3>1 DEF OnWire, MessageFrame, Frame
  <2>2. CASE \E f \in Frames : ~IsOf(f, h) /\ wire' = Append(wire, f)
    BY <1>2, <2>2, OtherFrame DEF TypeOK
  <2> QED  BY <2>1, <2>2
<1>3. Empty(h) => Empty(h)'
  BY <1>1, <1>2 DEF Empty
<1>4. Full(h) => Full(h)'
  <2>1. copied[h] > 0 => copied[h] - 1 \in Nat
    BY <1>1
  <2> QED  BY <1>2, <2>1 DEF Full
<1> QED  BY <1>1, <1>2, <1>3, <1>4 DEF ProgressOf, Header, LastFlush

(* What broadcasts, pings and pongs put on the wire.                       *)
LEMMA StrangersWrite ==
  ASSUME TypeOK, NEW g \in Casters \cup Controllers,
         (g \in Casters /\ Cast(g)) \/ (g \in Controllers /\ Control(g))
  PROVE  /\ g \notin Senders /\ UNCHANGED <<size, copied, writer>>
         /\ \A h \in Senders : pc'[h] = pc[h]
         /\ \A h \in Senders :
              \/ wire' = wire
              \/ \E f \in Frames : ~IsOf(f, h) /\ wire' = Append(wire, f)
<1> USE DEF At, Goto, CallClose, Closing, locks, conn
<1>1. g \notin Senders /\ Senders \subseteq Goroutines /\ wire \in Seq(Frames)
  BY ConnWriteAssumption DEF ConnWriteAssumption, TypeOK, Goroutines
<1>2. CASE g \in Casters /\ Cast(g)
  <2>1. \A h \in Senders : pc'[h] = pc[h]
    BY <1>1, <1>2 DEF Cast, CastLock, CastDeadline, CastSend, CastFailed, TypeOK
  <2>2. UNCHANGED <<size, copied, writer>>
    BY <1>2 DEF Cast, CastLock, CastDeadline, CastSend, CastFailed
  <2>3. wire' = wire \/ Sent(CastFrame(g)) \/ NotSent(CastFrame(g))
    BY <1>2 DEF Cast, CastLock, CastDeadline, CastSend, CastFailed
  <2>4. CastFrame(g) \in Frames /\ CastFrame(g).load = << <<g, 1>> >>
    BY <1>2, FramesTyped DEF CastFrame, Frame
  <2>5. \A f, h : f.load = << <<g, 1>> >> /\ h \in Senders => ~IsOf(f, h)
    BY <1>1 DEF IsOf
  <2> QED  BY <1>1, <2>1, <2>2, <2>3, <2>4, <2>5, WriteAppends
<1>3. CASE g \in Controllers /\ Control(g)
  <2>1. \A h \in Senders : pc'[h] = pc[h]
    BY <1>1, <1>3 DEF Control, ControlLock, ControlDeadline, ControlWriteLock,
         ControlSend, ControlFails, TypeOK
  <2>2. UNCHANGED <<size, copied, writer>>
    BY <1>3 DEF Control, ControlLock, ControlDeadline, ControlWriteLock, ControlSend,
         ControlFails
  <2>3. wire' = wire \/ Sent(ControlFrame) \/ NotSent(ControlFrame)
    BY <1>3 DEF Control, ControlLock, ControlDeadline, ControlWriteLock, ControlSend
  <2>4. ControlFrame \in Frames /\ ControlFrame.load = <<>>
    BY FramesTyped DEF ControlFrame, Frame
  <2>5. \A f, h : f.load = <<>> => ~IsOf(f, h)
    BY DEF IsOf
  <2> QED  BY <1>1, <2>1, <2>2, <2>3, <2>4, <2>5, WriteAppends
<1> QED  BY <1>2, <1>3

(* Every step before a close keeps the account of every message.           *)
LEMMA ProgressStep ==
  TypeOK /\ CopyInv /\ LockInv /\ CloseInv /\ OneOwnerUntilClose /\ Progress /\ [Next]_vars
    => Progress'
<1> SUFFICES ASSUME TypeOK, CopyInv, LockInv, CloseInv, OneOwnerUntilClose, Progress,
                    [Next]_vars, once' = NoOne, NEW h \in Senders
             PROVE  ProgressOf(h)'
  BY Zenon DEF Progress
<1>1. once = NoOne
  BY OnceStays
<1>2. \A g \in Senders : ProgressOf(g)
  BY <1>1 DEF Progress
<1>3. ASSUME NEW g \in Senders, Send(g) PROVE ProgressOf(h)'
  BY <1>1, <1>2, <1>3, OwnProgress, OthersProgress
<1>4. ASSUME NEW g \in Casters, Cast(g) PROVE ProgressOf(h)'
  BY <1>2, <1>4, StrangersWrite, StrangersProgress
<1>5. ASSUME NEW g \in Controllers, Control(g) PROVE ProgressOf(h)'
  BY <1>2, <1>5, StrangersWrite, StrangersProgress
<1>6. ASSUME NEW g \in Goroutines, CloseWithCode(g) PROVE ProgressOf(h)'
  BY <1>1, <1>6, NoneCloses
<1>7. ASSUME UNCHANGED <<size, copied, writer, wire>>, pc'[h] = pc[h]
      PROVE  ProgressOf(h)'
  BY <1>2, <1>7, StrangersProgress
<1>8. ASSUME NEW g \in Closers, CallCloser(g) PROVE ProgressOf(h)'
  <2>1. g # h
    BY ConnWriteAssumption DEF ConnWriteAssumption
  <2> QED  BY <1>7, <1>8, <2>1 DEF CallCloser, CallClose, Goto, TypeOK
<1>9. ASSUME NEW g \in Goroutines, CancelCtx(g) PROVE ProgressOf(h)'
  BY <1>7, <1>9 DEF CancelCtx
<1>10. CASE RawClose \/ UNCHANGED vars
  BY <1>7, <1>10 DEF RawClose, vars, calls
<1> QED
  BY <1>3, <1>4, <1>5, <1>6, <1>8, <1>9, <1>10 DEF Next, Step

-----------------------------------------------------------------------------
(* Fragments stay together.                                                *)

(* Where the data frames are, and whether the last of them ends its        *)
(* message, when one frame is added.                                       *)
LEMMA EndedAppend ==
  ASSUME NEW s \in Seq(Frames), NEW f \in Frames
  PROVE  /\ \A i \in 1..Len(s) : Append(s, f)[i] = s[i]
         /\ Append(s, f)[Len(s) + 1] = f
         /\ \A i \in 1..(Len(s) + 1) : Ended(Append(s, f), i) <=> Ended(s, i)
         /\ f.op \in {"ctl", "close"} =>
              /\ DataIn(Append(s, f)) = DataIn(s)
              /\ Ended(Append(s, f), Len(s) + 2) <=> Ended(s, Len(s) + 1)
         /\ f.op \notin {"ctl", "close"} =>
              /\ DataIn(Append(s, f)) = DataIn(s) \cup {Len(s) + 1}
              /\ Ended(Append(s, f), Len(s) + 2) <=> f.fin
<1> DEFINE t == Append(s, f)
<1>1. /\ Len(s) \in Nat /\ Len(t) = Len(s) + 1 /\ t[Len(s) + 1] = f
      /\ \A i \in 1..Len(s) : t[i] = s[i]
  OBVIOUS
<1>2. DataIn(s) \subseteq 1..Len(s)
  BY DEF DataIn
<1>3. f.op \in {"ctl", "close"} => DataIn(t) = DataIn(s)
  BY <1>1 DEF DataIn
<1>4. f.op \notin {"ctl", "close"} => DataIn(t) = DataIn(s) \cup {Len(s) + 1}
  BY <1>1 DEF DataIn
<1> HIDE DEF t
<1>5. \A i \in 1..(Len(s) + 1) : Ended(t, i) <=> Ended(s, i)
  BY <1>1, <1>2, <1>3, <1>4 DEF Ended
<1>6. f.op \in {"ctl", "close"} => (Ended(t, Len(s) + 2) <=> Ended(s, Len(s) + 1))
  BY <1>1, <1>2, <1>3 DEF Ended
<1>7. f.op \notin {"ctl", "close"} => (Ended(t, Len(s) + 2) <=> f.fin)
  BY <1>1, <1>2, <1>4 DEF Ended
<1> QED  BY <1>1, <1>3, <1>4, <1>5, <1>6, <1>7 DEF t

(* A sender has flushed a part of its message and not yet the last.        *)
InMessage ==
  \E g \in Senders : pc[g] \in {"write", "close", "lock", "send"} /\ writer.flushed

StreamInv ==
  Undisturbed =>
    WholeFrames /\ FragmentsStayTogether /\ (InMessage <=> ~Ended(wire, Len(wire) + 1))

(* The stream is empty at the start.                                       *)
LEMMA StreamInit == Init => StreamInv
<1> SUFFICES ASSUME Init PROVE StreamInv
  OBVIOUS
<1>1. wire = <<>> /\ Len(wire) = 0
  BY DEF Init
<1>2. WholeFrames /\ FragmentsStayTogether /\ Ended(wire, Len(wire) + 1)
  BY <1>1 DEF WholeFrames, FragmentsStayTogether, Ended, DataIn
<1>3. ~InMessage
  BY DEF Init, InMessage, Goroutines
<1> QED  BY <1>2, <1>3 DEF StreamInv

(* A step of a goroutine whose call stands well leaves a disturbed stream  *)
(* disturbed.                                                              *)
LEMMA DisturbedBy ==
  ASSUME TypeOK, once = NoOne, NEW g \in Goroutines, NEW l, Goto(g, l), Undisturbed',
         pc[g] \notin {"err", "failed", "giveup", "fatal"},
         g \in Casters => pc[g] \in {"uncalled", "start"}
  PROVE  Undisturbed
BY DEF Goto, Undisturbed, TypeOK

(* What was disturbed stays so.                                            *)
LEMMA StaysDisturbed ==
  ASSUME [Next]_vars, TypeOK, LockInv, CloseInv, Undisturbed'
  PROVE  Undisturbed
<1> USE DEF At, CallClose, calls, locks, conn
<1> /\ Senders \subseteq Goroutines /\ Casters \subseteq Goroutines
    /\ Controllers \subseteq Goroutines /\ Closers \subseteq Goroutines
  BY DEF Goroutines
<1> /\ Senders \cap Casters = {} /\ Casters \cap Controllers = {}
    /\ Casters \cap Closers = {}
  BY ConnWriteAssumption DEF ConnWriteAssumption
<1>1. once = NoOne /\ once' = NoOne
  BY OnceStays DEF Undisturbed
<1>2. ASSUME UNCHANGED pc PROVE Undisturbed
  BY <1>1, <1>2 DEF Undisturbed
<1>3. ASSUME NEW g \in Senders, Send(g) PROVE Undisturbed
  <2>1. pc[g] \in {"start", "write", "close", "lock", "send", "sent"} \/ closing[g] = "back"
    BY <1>3 DEF Send, NextWriter, EncodeFails, Write, Close, FlushLock, FlushSend,
         FlushDone, FlushFailed
  <2>2. closing[g] # "back"
    BY <1>1, NoneCloses
  <2>3. UNCHANGED pc \/ \E l : Goto(g, l)
    BY <1>3 DEF Send, NextWriter, EncodeFails, Write, Close, FlushLock, FlushSend,
         FlushDone, FlushFailed, Flush, FlushReturns
  <2> QED  BY <1>1, <1>2, <2>1, <2>2, <2>3, DisturbedBy
<1>4. ASSUME NEW g \in Casters PROVE ~Cast(g)
  <2>1. pc'[g] \in {"uncalled", "start"}
    BY DEF Undisturbed
  <2> QED  BY <2>1 DEF Cast, CastLock, CastDeadline, CastSend, CastFailed, Goto, TypeOK
<1>5. ASSUME NEW g \in Controllers, Control(g) PROVE Undisturbed
  <2>1. pc[g] \in {"start", "deadline", "lock", "send"}
    BY <1>5 DEF Control, ControlLock, ControlDeadline, ControlWriteLock, ControlSend
  <2>2. \E l : Goto(g, l)
    BY <1>5 DEF Control, ControlLock, ControlDeadline, ControlWriteLock, ControlSend,
         ControlFails
  <2> QED  BY <1>1, <2>1, <2>2, DisturbedBy
<1>6. ASSUME NEW g \in Closers, CallCloser(g) PROVE Undisturbed
  BY <1>1, <1>6, DisturbedBy DEF CallCloser
<1>7. ASSUME NEW g \in Goroutines PROVE ~CloseWithCode(g)
  BY <1>1, NoneCloses
<1>8. ASSUME NEW g \in Goroutines, CancelCtx(g) PROVE Undisturbed
  BY <1>2, <1>8 DEF CancelCtx
<1>9. CASE RawClose \/ UNCHANGED vars
  BY <1>2, <1>9 DEF RawClose, vars
<1> QED
  BY <1>3, <1>4, <1>5, <1>6, <1>7, <1>8, <1>9 DEF Next, Step

(* One whole frame more, of a sender or of writeControl, where it may be.  *)
LEMMA StreamAppend ==
  ASSUME wire \in Seq(Frames), WholeFrames, FragmentsStayTogether, NEW f \in Frames,
         wire' = Append(wire, f), f.op # "none", f.len = Len(f.load), ~f.cut,
         f.op \notin {"ctl", "close"} => (f.op = "data" <=> Ended(wire, Len(wire) + 1))
  PROVE  /\ WholeFrames' /\ FragmentsStayTogether'
         /\ f.op \in {"ctl", "close"} =>
              (Ended(wire, Len(wire) + 1)' <=> Ended(wire, Len(wire) + 1))
         /\ f.op \notin {"ctl", "close"} => (Ended(wire, Len(wire) + 1)' <=> f.fin)
<1>1. /\ Len(wire) \in Nat /\ Len(wire') = Len(wire) + 1 /\ Len(wire') + 1 = Len(wire) + 2
      /\ wire'[Len(wire) + 1] = f /\ \A i \in 1..Len(wire) : wire'[i] = wire[i]
  OBVIOUS
<1>2. WholeFrames'
  BY <1>1 DEF WholeFrames
<1>3. FragmentsStayTogether'
  <2> SUFFICES ASSUME NEW i \in DataIn(wire')
               PROVE  wire'[i].op = "data" <=> Ended(wire', i)
    BY DEF FragmentsStayTogether
  <2>1. CASE i \in DataIn(wire)
    <3>1. i \in 1..Len(wire) /\ wire'[i] = wire[i]
      BY <1>1, <2>1 DEF DataIn
    <3>2. i \in 1..(Len(wire) + 1)
      BY <1>1, <3>1
    <3>3. Ended(wire', i) <=> Ended(wire, i)
      BY <3>2, EndedAppend
    <3>4. wire[i].op = "data" <=> Ended(wire, i)
      BY <2>1 DEF FragmentsStayTogether
    <3> QED  BY <3>1, <3>3, <3>4
  <2>2. CASE i = Len(wire) + 1 /\ f.op \notin {"ctl", "close"}
    BY <1>1, <2>2, EndedAppend
  <2>3. \/ f.op \in {"ctl", "close"} /\ DataIn(wire') = DataIn(wire)
        \/ /\ f.op \notin {"ctl", "close"}
           /\ DataIn(wire') = DataIn(wire) \cup {Len(wire) + 1}
    BY EndedAppend
  <2> QED  BY <2>1, <2>2, <2>3
<1> QED  BY <1>1, <1>2, <1>3, EndedAppend

(* A sender's step leaves the frames together.                             *)
LEMMA SendStream ==
  ASSUME TypeOK, CloseInv, OneOwnerUntilClose, Progress, StreamInv,
         once = NoOne, once' = NoOne, Undisturbed, Undisturbed', NEW g \in Senders, Send(g)
  PROVE  StreamInv'
<1> USE DEF At, Goto, CallClose, Closing
<1> DEFINE P == {"write", "close", "lock", "send"}
<1>1. /\ Senders \subseteq Goroutines /\ NoOne \notin Goroutines /\ NoOne # Final
      /\ pc \in [Goroutines -> Places] /\ writer \in Writers /\ wire \in Seq(Frames)
  BY ConnWriteAssumption DEF ConnWriteAssumption, Goroutines, TypeOK
<1>2. pc'[g] \notin {"err", "failed", "giveup", "fatal"}
  BY <1>1 DEF Undisturbed
<1>3. \A h \in Senders \ {g} : pc'[h] = pc[h]
  BY <1>1 DEF Send, NextWriter, EncodeFails, Write, Close, FlushLock, FlushSend, FlushDone,
         FlushFailed, Flush, FlushReturns
<1>4. ProgressOf(g)
  BY DEF Progress
<1>5. WholeFrames /\ FragmentsStayTogether /\ (InMessage <=> ~Ended(wire, Len(wire) + 1))
  BY DEF StreamInv
<1>6. ASSUME UNCHANGED wire, InMessage' <=> InMessage PROVE StreamInv'
  BY <1>5, <1>6 DEF StreamInv, WholeFrames, FragmentsStayTogether
<1>7. ASSUME UNCHANGED wire, pc[g] \in P <=> pc'[g] \in P, writer'.flushed = writer.flushed
      PROVE  StreamInv'
  <2>1. InMessage' <=> InMessage
    BY <1>3, <1>7 DEF InMessage
  <2> QED  BY <1>6, <1>7, <2>1
<1>8. CASE NextWriter(g)
  <2>1. writerLock = NoOne /\ ~writer'.flushed /\ UNCHANGED wire
    BY <1>1, <1>2, <1>8 DEF NextWriter
  <2>2. ~InMessage
    BY <1>1, <2>1 DEF InMessage, OneOwnerUntilClose, Owns
  <2>3. ~InMessage'
    BY <2>1 DEF InMessage
  <2> QED  BY <1>6, <2>1, <2>2, <2>3
<1>9. CASE EncodeFails(g)
  BY <1>1, <1>2, <1>9 DEF EncodeFails
<1>10. ASSUME pc[g] \in {"write", "close"}, Flush(g), UNCHANGED wire PROVE StreamInv'
  <2>1. writer' = Header(LastFlush(g)) /\ pc'[g] = "lock"
    BY <1>1, <1>2, <1>10 DEF Flush, FlushReturns
  <2>2. writer'.flushed = writer.flushed
    BY <1>1, <2>1 DEF Header, Writers
  <2> QED  BY <1>7, <1>10, <2>1, <2>2
<1>11. CASE Write(g)
  <2>1. CASE Flush(g)
    BY <1>10, <1>11, <2>1 DEF Write
  <2>2. CASE ~Flush(g)
    <3>1. pc[g] = "write" /\ pc'[g] \in {"write", "close"} /\ UNCHANGED wire
      BY <1>1, <1>2, <1>11, <2>2 DEF Write
    <3>2. writer' = [writer EXCEPT !.buf = << <<g, copied[g] + 1>> >>]
      BY <1>1, <1>2, <1>11, <2>2 DEF Write
    <3>3. writer'.flushed = writer.flushed
      BY <1>1, <3>2 DEF Writers
    <3> QED  BY <1>7, <3>1, <3>3
  <2> QED  BY <2>1, <2>2
<1>12. CASE Close(g)
  <2>1. ~writer.closed
    BY <1>12 DEF Close, OneOwnerUntilClose, Owns
  <2> QED  BY <1>10, <1>12, <2>1 DEF Close
<1>13. CASE FlushLock(g)
  <2>1. pc[g] = "lock" /\ pc'[g] = "send" /\ UNCHANGED <<writer, wire>>
    BY <1>1, <1>2, <1>13 DEF FlushLock, FlushReturns
  <2> QED  BY <1>7, <2>1
<1>14. CASE FlushSend(g)
  <2> DEFINE n == copied[g]
             f == WriterFrame
  <2>1. Sent(f) /\ writer' = Flushed /\ pc[g] = "send"
        /\ pc'[g] = (IF LastFlush(g) THEN "sent" ELSE "write")
    BY <1>1, <1>2, <1>14 DEF FlushSend
  <2>2. /\ f = MessageFrame(g, n) /\ f \in Frames /\ Bytes(f) = <<f>>
        /\ f.load = << <<g, n>> >>
    BY <1>4, <1>14, SendsNext
  <2>3. writer.flushed <=> n > 1
    BY <1>4, <2>1 DEF ProgressOf, Full
  <2>4. wire' = Append(wire, f)
    BY <1>1, <2>1, <2>2 DEF Sent
  <2>5. f.op = (IF n = 1 THEN "data" ELSE "cont") /\ (f.fin <=> LastFlush(g)) /\ f.len = 1
        /\ ~f.cut /\ Len(f.load) = 1
    BY <2>2 DEF MessageFrame, Frame, LastFlush
  <2>6. n \in Nat \ {0}
    BY <1>4, <1>14, SendsNext
  <2>7. InMessage <=> writer.flushed
    BY <2>1 DEF InMessage
  <2>8. f.op = "data" <=> Ended(wire, Len(wire) + 1)
    BY <1>5, <2>3, <2>5, <2>6, <2>7
  <2>9. f.op # "none" /\ f.op \notin {"ctl", "close"}
    BY <2>5
  <2> HIDE DEF f, n
  <2>10. WholeFrames' /\ FragmentsStayTogether' /\ (Ended(wire, Len(wire) + 1)' <=> f.fin)
    BY <1>1, <1>5, <2>2, <2>4, <2>5, <2>8, <2>9, StreamAppend
  <2>11. InMessage' <=> ~LastFlush(g)
    <3>1. writer'.flushed
      BY <1>1, <2>1 DEF Flushed, Writers
    <3>2. \A h \in Senders \ {g} : pc'[h] \notin P
      BY <1>3, <2>1 DEF OneOwnerUntilClose, Owns
    <3> QED  BY <2>1, <3>1, <3>2 DEF InMessage
  <2> QED  BY <2>5, <2>10, <2>11 DEF StreamInv
<1>15. CASE FlushDone(g)
  <2>1. pc[g] = "sent" /\ pc'[g] = "nil" /\ UNCHANGED wire
    BY <1>1, <1>15 DEF FlushDone
  <2>2. writer'.flushed = writer.flushed
    BY <1>1, <1>15 DEF FlushDone, CloseWriter, Writers
  <2> QED  BY <1>7, <2>1, <2>2
<1>16. CASE FlushFailed(g)
  BY <1>1, <1>16 DEF FlushFailed, CloseInv
<1> QED
  BY <1>8, <1>9, <1>11, <1>12, <1>13, <1>14, <1>15, <1>16 DEF Send

(* Pings and pongs may fall between fragments.                             *)
LEMMA ControlStream ==
  ASSUME TypeOK, StreamInv, Undisturbed, Undisturbed', NEW g \in Controllers, Control(g)
  PROVE  StreamInv'
<1> USE DEF At, Goto, CallClose, Closing
<1>1. /\ g \in Goroutines /\ Senders \subseteq Goroutines /\ g \notin Senders
      /\ pc \in [Goroutines -> Places] /\ wire \in Seq(Frames)
  BY ConnWriteAssumption DEF ConnWriteAssumption, Goroutines, TypeOK
<1>2. pc'[g] \notin {"err", "failed", "giveup", "fatal"}
  BY <1>1 DEF Undisturbed
<1>3. WholeFrames /\ FragmentsStayTogether /\ (InMessage <=> ~Ended(wire, Len(wire) + 1))
  BY DEF StreamInv
<1>4. InMessage' <=> InMessage
  <2>1. \A h \in Senders : pc'[h] = pc[h]
    BY StrangersWrite
  <2>2. UNCHANGED writer
    BY StrangersWrite
  <2> QED  BY <2>1, <2>2 DEF InMessage
<1>5. CASE ControlSend(g)
  <2>1. Sent(ControlFrame)
    BY <1>1, <1>2, <1>5 DEF ControlSend, ControlFails
  <2>2. /\ ControlFrame \in Frames /\ ControlFrame.op = "ctl" /\ ~ControlFrame.cut
        /\ ControlFrame.len = 0 /\ Len(ControlFrame.load) = 0
    BY FramesTyped DEF ControlFrame, Frame
  <2>3. wire' = Append(wire, ControlFrame)
    BY <1>1, <2>1, <2>2 DEF Sent, Bytes
  <2>4. /\ WholeFrames' /\ FragmentsStayTogether'
        /\ Ended(wire, Len(wire) + 1)' <=> Ended(wire, Len(wire) + 1)
    BY <1>1, <1>3, <2>2, <2>3, StreamAppend
  <2> QED  BY <1>3, <1>4, <2>4 DEF StreamInv
<1>6. CASE ~ControlSend(g)
  <2>1. UNCHANGED wire
    BY <1>6 DEF Control, ControlLock, ControlDeadline, ControlWriteLock
  <2> QED  BY <1>3, <1>4, <2>1 DEF StreamInv, WholeFrames, FragmentsStayTogether
<1> QED  BY <1>5, <1>6

(* Every step leaves an undisturbed stream well formed.                    *)
LEMMA StreamStep ==
  ASSUME TypeOK, LockInv, CloseInv, OneOwnerUntilClose, Progress, StreamInv, [Next]_vars
  PROVE  StreamInv'
<1> SUFFICES ASSUME Undisturbed' PROVE StreamInv'
  BY DEF StreamInv
<1>1. Undisturbed /\ once = NoOne /\ once' = NoOne
  BY StaysDisturbed DEF Undisturbed
<1>2. ASSUME UNCHANGED <<pc, writer, wire>> PROVE StreamInv'
  BY <1>1, <1>2 DEF StreamInv, InMessage, WholeFrames, FragmentsStayTogether
<1>3. ASSUME NEW g \in Senders, Send(g) PROVE StreamInv'
  BY <1>1, <1>3, SendStream
<1>4. ASSUME NEW g \in Casters PROVE ~Cast(g)
  <2>1. g \in Goroutines /\ pc'[g] \in {"uncalled", "start"}
    BY DEF Undisturbed, Goroutines
  <2> QED  BY <2>1 DEF Cast, CastLock, CastDeadline, CastSend, CastFailed, Goto, CallClose, TypeOK
<1>5. ASSUME NEW g \in Controllers, Control(g) PROVE StreamInv'
  BY <1>1, <1>5, ControlStream
<1>6. ASSUME NEW g \in Goroutines PROVE ~CloseWithCode(g)
  BY <1>1, NoneCloses
<1>7. ASSUME NEW g \in Closers PROVE ~CallCloser(g)
  <2>1. g \in Goroutines /\ pc'[g] # "giveup"
    BY DEF Undisturbed, Goroutines
  <2> QED  BY <2>1 DEF CallCloser, CallClose, Goto, TypeOK
<1>8. ASSUME NEW g \in Goroutines, CancelCtx(g) PROVE StreamInv'
  BY <1>2, <1>8 DEF CancelCtx
<1>9. CASE RawClose \/ UNCHANGED vars
  BY <1>2, <1>9 DEF RawClose, vars, calls
<1> QED
  BY <1>3, <1>4, <1>5, <1>6, <1>7, <1>8, <1>9 DEF Next, Step

-----------------------------------------------------------------------------
(* The inductive invariant and what follows from it.                       *)

IInv ==
  /\ TypeOK /\ CopyInv /\ LockInv /\ CloseInv /\ LastInv /\ OneOwnerUntilClose
  /\ Progress /\ StreamInv

(* IInv holds in every reachable state.                                    *)
LEMMA Inductive == Spec => []IInv
<1>1. Init => IInv
  BY TypeInit, LockInit, CloseInit, LastInit, OwnerInit, ProgressInit,
     StreamInit
  DEF IInv
<1>2. IInv /\ [Next]_vars => IInv'
  BY TypeStep, LockStep, CloseStep, LastStep, OwnerStep, ProgressStep,
     StreamStep
  DEF IInv
<1> QED  BY <1>1, <1>2, PTL DEF Spec

(* Every variable keeps its type in every reachable state.                 *)
THEOREM TypeCorrect == Spec => []TypeOK
<1>1. IInv => TypeOK
  BY DEF IInv
<1> QED  BY <1>1, Inductive, PTL

(* Two frames are never written to the network at the same time, whoever   *)
(* writes them: data, broadcast, ping, pong and close.                     *)
THEOREM MutualExclusion == Spec => []FramesDoNotMix
<1>1. IInv => FramesDoNotMix
  BY LockExcludes DEF IInv
<1> QED  BY <1>1, Inductive, PTL

(* No frame follows the close frame.                                       *)
THEOREM CloseEndsStream == Spec => []CloseFrameIsLast
<1>1. IInv => CloseFrameIsLast
  BY DEF IInv, LastInv
<1> QED  BY <1>1, Inductive, PTL

(* CloseWithCode has done all its work by the time it returns to anybody.  *)
THEOREM CloseCompletes == Spec => []CloseIsComplete
<1>1. IInv => CloseIsComplete
  BY DEF IInv, CloseInv, CloseIsComplete
<1> QED  BY <1>1, Inductive, PTL

(* Until the connection is closed, the caller to whom NextWriter gave the  *)
(* ConnWriter is alone with it.                                            *)
THEOREM OneOwner == Spec => []OneOwnerUntilClose
<1>1. IInv => OneOwnerUntilClose
  BY DEF IInv
<1> QED  BY <1>1, Inductive, PTL

(* A send that returned nil before a close has its message on the wire.    *)
THEOREM NilMeansSent == Spec => []NilMeansSentUntilClose
<1>1. IInv => NilMeansSentUntilClose
  BY DEF IInv, Progress, ProgressOf, NilMeansSentUntilClose
<1> QED  BY <1>1, Inductive, PTL

(* Without a broadcast, a failure and a close, fragments of a message      *)
(* follow each other and every header announces its payload.               *)
THEOREM FragmentsAreKept == Spec => []StreamWellFormed
<1>1. IInv => StreamWellFormed
  BY DEF IInv, StreamInv, StreamWellFormed
<1> QED  BY <1>1, Inductive, PTL
=============================================================================

------------------------------ MODULE ConnRead ------------------------------
(***************************************************************************)
(* The read side of a connection (conn_read.go): acceptFrame, NextReader,  *)
(* Read and the calls built on them, the control frames met on the way,    *)
(* the rate limiter's verdict and skipRestOfMessage.                       *)
(*                                                                         *)
(* One goroutine reads.  The client is the environment: frame by frame it  *)
(* sends what it likes.  A frame is its header; the payload is counted,    *)
(* not kept.  The network may fail at any read, and other goroutines may   *)
(* close the connection at any time.                                       *)
(***************************************************************************)
EXTENDS Integers, FiniteSets

CONSTANTS
  Frames,             \* what a client may send: headers, and whether the
                      \* payload of a close or a pong is what it should be
  MaxMessageSize, ReaderMaxFragments, \* Options
  MaxControl,         \* MaxControlFramePayload
  Settings,           \* the rest of a connection's circumstances, see below
  MaxFrames           \* bound: frames of the client

Opcodes == {"continuation", "text", "binary", "close", "ping", "pong", "invalid"}
Kinds == {"NextReader", "ReadMessage", "ReadString", "ReadBinary", "ReadJSON"}

ASSUME ConnReadAssumption ==
  /\ \A f \in Frames : /\ f.op \in Opcodes /\ f.n \in Nat
                       /\ {f.fin, f.rsv, f.masked, f.good} \subseteq BOOLEAN
  /\ MaxMessageSize \in Int
  /\ {ReaderMaxFragments, MaxControl, MaxFrames} \subseteq Nat
  /\ \A s \in Settings :
       /\ s.skipUTF8 \in BOOLEAN   \* SkipUTF8Validation
       /\ s.limited \in BOOLEAN    \* the upgrader has a rate limiter
       /\ s.buffer \in Nat         \* size of readBuf: what Peek can return
       /\ s.calls \subseteq Kinds  \* what the application calls
       /\ s.habits \subseteq        \* what else happens
            {"abandon",            \* NextReader before the last message is read
             "insists",            \* NextReader after a fatal error
             "pings",              \* this side has a ping under way
             "fails",              \* network errors
             "closes"}             \* others close the connection

VARIABLES
  setting,  \* one of Settings; it never changes
  reader,   \* conn.reader
  call,     \* the call under way, and where acceptFrame returns to
  kind,     \* the call that the application made
  type,     \* the opcode that NextReader returned
  closed,   \* "no", or the code that the connection was closed with, or who
            \* closed it; "pong" is 1002 for a ping/pong payload mismatch
  ret,      \* what the last call returned
  \* The client's side, not of the program.
  unread,   \* payload bytes of the last data frame that are not read yet
  length,   \* payload bytes of that frame
  sent,     \* payload bytes of the message so far
  pieces,   \* frames of the message so far
  unfinished, \* the message is not finished
  got,      \* bytes of the message that the application has
  illegal,  \* the client broke the protocol
  excess,   \* the client sent more than MaxMessageSize in a message
  sync,     \* every header was read where a header is
  frames    \* frames so far

SkipUTF8Validation == setting.skipUTF8
Limited == setting.limited
BufferSize == setting.buffer
Calls == setting.calls
Habits == setting.habits

client == <<unread, length, sent, pieces, unfinished, illegal, excess, sync, frames>>
vars == <<setting, reader, call, kind, type, closed, ret, client, got>>

Init ==
  /\ setting \in Settings
  /\ reader = [fin |-> FALSE, remaining |-> 0, fragments |-> 0, totalSize |-> 0, maskPos |-> 0]
  /\ call = "idle" /\ kind = "none" /\ type = "none" /\ closed = "no" /\ ret = "none"
  /\ unread = 0 /\ length = 0 /\ sent = 0 /\ pieces = 0 /\ unfinished = FALSE
  /\ got = 0 /\ illegal = FALSE /\ excess = FALSE /\ sync = TRUE /\ frames = 0

isControl(op) == op \in {"close", "ping", "pong"}
isData(op) == op \in {"text", "binary"}

(* closeOnce: the first code stays.                                        *)
CloseWithCode(code) == closed' = IF closed = "no" THEN code ELSE closed
Fatal(code) == CloseWithCode(code) /\ ret' = "fatal" /\ call' = "idle"
Returns(r) == ret' = r /\ call' = "idle"

-----------------------------------------------------------------------------
(* acceptFrame, one frame.                                                 *)

\* Mutant: a control frame may be of any size.
FaultNoControlLimit(f) ==
  IF f.op = "invalid" \/ f.rsv \/ ~f.masked THEN "1002"
  ELSE IF f.n > MaxMessageSize THEN "1009"
  ELSE IF isControl(f.op) /\ ~f.fin THEN "1002" ELSE "no"

\* Mutant: a frame may be of any size.
FaultNoSizeLimit(f) ==
  IF f.op = "invalid" \/ f.rsv \/ ~f.masked THEN "1002"
  ELSE IF isControl(f.op) /\ (~f.fin \/ f.n > MaxControl) THEN "1002" ELSE "no"

(* The code that a header is refused with.                                 *)
Fault(f) ==
  IF f.op = "invalid" \/ f.rsv \/ ~f.masked THEN "1002"
  ELSE IF f.n > MaxMessageSize THEN "1009"
  ELSE IF isControl(f.op) /\ (~f.fin \/ f.n > MaxControl) THEN "1002" ELSE "no"

(* What RFC 6455 says of the client's next frame.  A pong may come at any  *)
(* time, with any payload.                                                 *)
LegalFrame(f) ==
  /\ f.op # "invalid" /\ ~f.rsv /\ f.masked
  /\ isControl(f.op) => f.fin /\ f.n <= MaxControl
  /\ ~isControl(f.op) => (f.op = "continuation") = unfinished
  /\ f.op = "close" => f.n # 1 /\ (f.good \/ f.n = 0)

(* The client's side of a frame whose header is read; left of its payload  *)
(* stays in the stream, if it is a data frame.                             *)
Arrives(f, left) ==
  /\ frames < MaxFrames /\ frames' = frames + 1
  /\ sync' = (sync /\ unread = 0)
  /\ illegal' = (illegal \/ ~LegalFrame(f))
  /\ excess' = (excess \/ f.n > MaxMessageSize
                       \/ (f.op = "continuation" /\ sent + f.n > MaxMessageSize))
  /\ IF isControl(f.op) \/ Fault(f) # "no"
     THEN UNCHANGED <<unread, length, sent, pieces, unfinished>>
     ELSE /\ unread' = left /\ length' = f.n /\ unfinished' = ~f.fin
          /\ sent' = (IF f.op = "continuation" THEN sent ELSE 0) + f.n
          /\ pieces' = (IF f.op = "continuation" THEN pieces ELSE 0) + 1

Fails == "fails" \in Habits \/ closed # "no"
Accepting == call \in {"next", "read", "skip"}
Accepted(f) == [reader EXCEPT !.fin = f.fin, !.remaining = f.n, !.maskPos = 0,
                              !.fragments = @ + 1]

AcceptRefused(f) ==
  /\ Accepting /\ Fault(f) # "no" /\ Arrives(f, 0) /\ Fatal(Fault(f))
  /\ UNCHANGED <<reader, kind, type, got>>

(* An nRead fails.                                                         *)
AcceptFails ==
  /\ Accepting /\ Fails /\ Fatal("1011")
  /\ UNCHANGED <<reader, kind, type, client, got>>

(* handleClose.                                                            *)
ClosePayload(f) ==
  IF f.n = 0 THEN "1000" ELSE IF f.n = 1 THEN "1002"
  ELSE IF f.n > BufferSize THEN "1011"
  ELSE IF f.good THEN "peer" ELSE "1002"

AcceptClose(f) ==
  /\ Accepting /\ f.op = "close" /\ Fault(f) = "no" /\ Arrives(f, 0)
  /\ Fatal(ClosePayload(f))
  /\ UNCHANGED <<reader, kind, type, got>>

\* Mutant: a ping in a message takes the place of its frame.
AcceptPingAsFrame(f) ==
  /\ Accepting /\ f.op = "ping" /\ Fault(f) = "no" /\ Arrives(f, 0)
  /\ f.n <= BufferSize /\ reader' = [reader EXCEPT !.maskPos = f.n, !.totalSize = f.n]
  /\ UNCHANGED <<call, closed, ret, kind, type, got>>

(* pong: the payload of the ping is read, and sent back.  ConnWrite has    *)
(* the sending, which may fail.                                            *)
AcceptPing(f) ==
  /\ Accepting /\ f.op = "ping" /\ Fault(f) = "no" /\ Arrives(f, 0)
  /\ \/ f.n <= BufferSize /\ UNCHANGED <<call, closed, ret>>
     \/ (f.n > BufferSize \/ Fails) /\ Fatal("1011")
  /\ UNCHANGED <<reader, kind, type, got>>

(* handlePong: without a ping under way the payload is discarded.          *)
AcceptPong(f) ==
  /\ Accepting /\ f.op = "pong" /\ Fault(f) = "no" /\ Arrives(f, 0)
  /\ \/ ("pings" \in Habits => f.n <= BufferSize /\ f.good) /\ UNCHANGED <<call, closed, ret>>
     \/ "pings" \in Habits /\ f.n <= BufferSize /\ ~f.good /\ Fatal("pong")
     \/ (("pings" \in Habits /\ f.n > BufferSize) \/ Fails) /\ Fatal("1011")
  /\ UNCHANGED <<reader, kind, type, got>>

-----------------------------------------------------------------------------
(* NextReader.  Every call of the application starts with it.              *)

MayCall(k) ==
  /\ call = "idle" /\ k \in Calls /\ kind' = k
  /\ ret = "reader" => "abandon" \in Habits
  /\ ret = "fatal" => "insists" \in Habits

NextReaderClosed(k) ==
  /\ MayCall(k) /\ closed # "no" /\ Returns("fatal")
  /\ UNCHANGED <<reader, type, closed, client, got>>

NextReader(k) ==
  /\ MayCall(k) /\ closed = "no"
  /\ \/ call' = "next" /\ ret' = "none" /\ UNCHANGED closed
     \/ Fails /\ Fatal("1011")
  /\ UNCHANGED <<reader, type, client, got>>

(* The frame that a message begins with.                                   *)
FirstFrame(f) == [Accepted(f) EXCEPT !.fragments = 0, !.totalSize = f.n]

NextNotData(f) ==
  /\ call = "next" /\ f.op = "continuation" /\ Fault(f) = "no" /\ Arrives(f, f.n)
  /\ reader' = Accepted(f) /\ Fatal("1002")
  /\ UNCHANGED <<kind, type, got>>

Message(f, left) ==
  /\ call = "next" /\ isData(f.op) /\ Fault(f) = "no" /\ Arrives(f, left)
  /\ reader' = FirstFrame(f) /\ got' = 0 /\ type' = f.op /\ UNCHANGED kind

(* NextReader has a reader; ReadJSON reads text.                           *)
NextData(f) ==
  /\ Message(f, f.n) /\ UNCHANGED closed
  /\ \/ kind = "ReadJSON" /\ f.op # "text" /\ Returns("mismatch")
     \/ (kind = "ReadJSON" => f.op = "text") /\ Returns("reader")

(* allow: the limiter's hook returns an error.  It may have closed the     *)
(* connection; NextReader does not, and leaves the payload unread.         *)
NextHookErrs(f) ==
  /\ Limited /\ Message(f, f.n)
  /\ \/ Returns("fatal") /\ UNCHANGED closed
     \/ Fatal("hook")

(* The limiter says no: skipRestOfMessage discards the rest of the frame.  *)
NextLimited(f) ==
  /\ Limited /\ Message(f, 0)
  /\ \/ f.fin /\ Returns("limited") /\ UNCHANGED closed
     \/ ~f.fin /\ call' = "skip" /\ UNCHANGED <<ret, closed>>
     \/ Fails /\ Fatal("1011")

-----------------------------------------------------------------------------
(* skipRestOfMessage, a further frame.                                     *)

\* Mutant: only the frame that NextReader accepted is discarded.
SkipFrameUnread(f) ==
  /\ call = "skip" /\ ~isControl(f.op) /\ Fault(f) = "no" /\ Arrives(f, f.n)
  /\ reader' = Accepted(f)
  /\ \/ f.op # "continuation" /\ Fatal("1002")
     \/ f.op = "continuation" /\ f.fin /\ Returns("limited") /\ UNCHANGED closed
     \/ f.op = "continuation" /\ ~f.fin /\ UNCHANGED <<call, ret, closed>>
  /\ UNCHANGED <<kind, type, got>>

\* Mutant: a message within the message is skipped as well.
SkipFrameAny(f) ==
  /\ call = "skip" /\ ~isControl(f.op) /\ Fault(f) = "no" /\ Arrives(f, 0)
  /\ reader' = Accepted(f)
  /\ IF f.fin THEN Returns("limited") ELSE UNCHANGED <<call, ret>>
  /\ UNCHANGED <<kind, type, closed, got>>

SkipFrame(f) ==
  /\ call = "skip" /\ ~isControl(f.op) /\ Fault(f) = "no" /\ Arrives(f, 0)
  /\ reader' = Accepted(f)
  /\ \/ f.op # "continuation" /\ Fatal("1002")
     \/ f.op = "continuation" /\ f.fin /\ Returns("limited") /\ UNCHANGED closed
     \/ f.op = "continuation" /\ ~f.fin /\ UNCHANGED <<call, ret, closed>>
     \/ f.op = "continuation" /\ Fails /\ Fatal("1011")
  /\ UNCHANGED <<kind, type, got>>

-----------------------------------------------------------------------------
(* Read, of the reader that NextReader returned.                           *)

MayRead == call = "idle" /\ ret = "reader"
AtFrameEnd == reader.remaining = 0 /\ ~reader.fin
Transferring == call = "transfer" \/ (MayRead /\ ~AtFrameEnd)
\* Mutant: the first frame of a message counts as one more.
TooManyFragmentsEarly == ReaderMaxFragments > 0 /\ reader.fragments + 1 >= ReaderMaxFragments

TooManyFragments == ReaderMaxFragments > 0 /\ reader.fragments >= ReaderMaxFragments

ReadTooMany ==
  /\ MayRead /\ AtFrameEnd /\ TooManyFragments /\ Fatal("1008")
  /\ UNCHANGED <<reader, kind, type, client, got>>

ReadNextFrame ==
  /\ MayRead /\ AtFrameEnd /\ ~TooManyFragments /\ call' = "read"
  /\ UNCHANGED <<reader, kind, type, closed, ret, client, got>>

\* Mutant: the size of the message is not looked at.
ReadFrameUnlimited(f) ==
  /\ call = "read" /\ ~isControl(f.op) /\ Fault(f) = "no" /\ Arrives(f, f.n)
  /\ reader' = [Accepted(f) EXCEPT !.totalSize = @ + f.n]
  /\ \/ f.op # "continuation" /\ Fatal("1002")
     \/ f.op = "continuation" /\ call' = "transfer" /\ UNCHANGED <<closed, ret>>
  /\ UNCHANGED <<kind, type, got>>

ReadFrame(f) ==
  /\ call = "read" /\ ~isControl(f.op) /\ Fault(f) = "no" /\ Arrives(f, f.n)
  /\ \/ f.op # "continuation" /\ reader' = Accepted(f) /\ Fatal("1002")
     \/ /\ f.op = "continuation"
        /\ reader' = [Accepted(f) EXCEPT !.totalSize = @ + f.n]
        /\ \/ reader.totalSize + f.n > MaxMessageSize /\ Fatal("1009")
           \/ /\ reader.totalSize + f.n <= MaxMessageSize
              /\ call' = "transfer" /\ UNCHANGED <<closed, ret>>
  /\ UNCHANGED <<kind, type, got>>

Wanted(op) == \/ kind = "ReadMessage"
              \/ kind = "ReadString" /\ op = "text"
              \/ kind = "ReadBinary" /\ op = "binary"

(* What the call returns at the end of the message: ReadMessage looks at   *)
(* the text, ReadString and ReadBinary at the type.                        *)
AtEnd ==
  \/ kind \in {"NextReader", "ReadJSON"} /\ Returns("eof") /\ UNCHANGED closed
  \/ /\ kind \in {"ReadMessage", "ReadString", "ReadBinary"}
     /\ \/ type = "text" /\ ~SkipUTF8Validation /\ Fatal("1007")
        \/ /\ IF Wanted(type) THEN Returns("eof") ELSE Returns("mismatch")
           /\ UNCHANGED closed

\* Mutant: the end of a frame is the end of the message.
TransferEnds(k) ==
  /\ Transferring
  /\ k <= reader.remaining /\ (k = 0 => reader.remaining = 0)
  /\ reader' = [reader EXCEPT !.remaining = @ - k, !.maskPos = @ + k]
  /\ unread' = unread - k /\ got' = got + k
  /\ IF k = reader.remaining THEN AtEnd ELSE Returns("reader") /\ UNCHANGED closed
  /\ UNCHANGED <<kind, type, length, sent, pieces, unfinished, illegal, excess, sync, frames>>

(* k bytes fill the caller's buffer, or the frame ends.                    *)
Transfer(k) ==
  /\ Transferring
  /\ k <= reader.remaining /\ (k = 0 => reader.remaining = 0)
  /\ reader' = [reader EXCEPT !.remaining = @ - k, !.maskPos = @ + k]
  /\ unread' = unread - k /\ got' = got + k
  /\ IF k = reader.remaining /\ reader.fin THEN AtEnd ELSE Returns("reader") /\ UNCHANGED closed
  /\ UNCHANGED <<kind, type, length, sent, pieces, unfinished, illegal, excess, sync, frames>>

TransferFails ==
  /\ Transferring
  /\ reader.remaining > 0 /\ Fails
  /\ Fatal("1000") \/ Fatal("1011")
  /\ UNCHANGED <<reader, kind, type, client, got>>

(* The decoder of ReadJSON has its value, or an error, before the end.     *)
DecodeEnds ==
  /\ MayRead /\ kind = "ReadJSON" /\ got > 0 /\ Returns("value")
  /\ UNCHANGED <<reader, kind, type, closed, client, got>>

-----------------------------------------------------------------------------
(* Close, or CloseWithCode by another goroutine.                           *)
CloseByOther ==
  /\ "closes" \in Habits /\ closed = "no" /\ closed' = "other"
  /\ UNCHANGED <<reader, call, kind, type, ret, client, got>>

acceptFrame(f) == AcceptRefused(f) \/ AcceptClose(f) \/ AcceptPing(f) \/ AcceptPong(f)

Step ==
  \/ \E k \in Calls : NextReaderClosed(k) \/ NextReader(k)
  \/ AcceptFails
  \/ \E f \in Frames :
       \/ acceptFrame(f) \/ NextNotData(f) \/ NextData(f)
       \/ NextHookErrs(f) \/ NextLimited(f) \/ SkipFrame(f) \/ ReadFrame(f)
  \/ ReadTooMany \/ ReadNextFrame
  \/ \E k \in 0..reader.remaining : Transfer(k)
  \/ TransferFails \/ DecodeEnds \/ CloseByOther

Next == Step /\ UNCHANGED setting

Spec == Init /\ [][Next]_vars
-----------------------------------------------------------------------------
(* The values of the variables; the counters of the reader stay in bounds. *)
TypeOK ==
  /\ setting \in Settings
  /\ reader \in [fin : BOOLEAN, remaining : Nat, fragments : 0..MaxFrames,
                 totalSize : Nat, maskPos : Nat]
  /\ reader.remaining = 0 \/ reader.remaining <= MaxMessageSize
  /\ call \in {"idle", "next", "read", "skip", "transfer"}
  /\ kind \in Kinds \cup {"none"} /\ type \in {"none", "text", "binary"}
  /\ closed \in {"no", "other", "peer", "hook", "pong", "1000", "1002", "1007", "1008", "1009", "1011"}
  /\ ret \in {"none", "reader", "eof", "value", "mismatch", "limited", "fatal"}
  /\ {unread, length, sent, pieces, got} \subseteq Nat
  /\ {unfinished, illegal, excess, sync} \subseteq BOOLEAN /\ frames \in 0..MaxFrames

Reading == call \in {"idle", "transfer"} /\ ret = "reader"

(* Messages are read to their end, or dropped by the rate limiter, and a   *)
(* fatal error is the last word of the connection.                         *)
Careful == {"abandon", "insists"} \cap Habits = {} /\ "ReadJSON" \notin Calls

(* No payload is taken for a header: the calls that read a message, and    *)
(* the rate limiter that drops one, leave the stream where the next frame  *)
(* begins.  The exceptions are ReadJSON, which does not read to the end,   *)
(* an application that leaves a reader before its end, and one that calls  *)
(* NextReader again after the fatal error that the limiter's hook made of  *)
(* a message whose payload stays in the stream.                            *)
InSyncButJSON == Careful => sync

(* Between the frames of a message and the control frames among them the   *)
(* reader knows what is left of the frame, how far the mask is, and how    *)
(* long the message is; and Read says EOF, and ReadMessage and what is     *)
(* built on it return, at the end of the whole message.                    *)
ReaderFollowsStream ==
  /\ Reading \/ call = "read" =>
       /\ reader.remaining = unread /\ reader.maskPos = length - unread
       /\ reader.totalSize = sent /\ reader.fin = ~unfinished
  /\ ret \in {"eof", "mismatch"} /\ Careful => got = sent /\ ~unfinished

(* A client that breaks the protocol loses the connection, whichever call  *)
(* of the application meets the frame.  One that keeps to it is told 1002  *)
(* for one thing only, and only while a ping of this side waits for its    *)
(* pong: handlePong takes every pong for that ping's, also one that the    *)
(* client sent unasked, as RFC 6455 lets it.  And the connection is not    *)
(* closed for an error inside, when a control frame fits the read buffer.  *)
(* (An abandoned message leaves the program without its place in the       *)
(* protocol.)                                                              *)
OnlyIllegalIsRefused ==
  /\ Careful => (illegal => closed # "no") /\ (closed = "1002" => illegal)
  /\ closed = "pong" => "pings" \in Habits
  /\ closed = "1011" => "fails" \in Habits \/ BufferSize < MaxControl

(* The application never has more than MaxMessageSize bytes of payload of  *)
(* a message, whatever it does with its readers; and no client is closed   *)
(* for the size of a message, or for its frames, that kept to the limits:  *)
(* acceptFrame and Read count what is of this message, and not what is of  *)
(* the control frames in it or of a message before it.                     *)
OnlyExcessIsRefused ==
  /\ ret \in {"reader", "eof"} => got <= MaxMessageSize
  /\ closed = "1008" => 0 < ReaderMaxFragments /\ ReaderMaxFragments < pieces
  /\ closed = "1009" => excess
=============================================================================

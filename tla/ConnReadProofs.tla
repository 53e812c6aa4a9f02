--------------------------- MODULE ConnReadProofs ---------------------------
(***************************************************************************)
(* What TLAPS proves of ConnRead, for any frames that the client sends,    *)
(* any limits, and a connection with any of the circumstances.             *)
(***************************************************************************)
EXTENDS ConnRead, TLAPS

Readers ==
  [fin : BOOLEAN, remaining : Nat, fragments : Nat, totalSize : Nat, maskPos : Nat]

(* The values of the variables, but for the bounds.                        *)
Typed ==
  /\ setting \in Settings
  /\ reader \in Readers
  /\ call \in {"idle", "next", "read", "skip", "transfer"}
  /\ kind \in Calls \cup {"none"} /\ type \in {"none", "text", "binary"}
  /\ closed \in {"no", "other", "peer", "hook", "pong", "1000", "1002", "1007", "1008", "1009", "1011"}
  /\ ret \in {"none", "reader", "eof", "value", "mismatch", "limited", "fatal"}
  /\ unread \in Nat /\ length \in Nat /\ sent \in Nat /\ pieces \in Nat /\ got \in Nat
  /\ unfinished \in BOOLEAN /\ illegal \in BOOLEAN /\ excess \in BOOLEAN
  /\ sync \in BOOLEAN /\ frames \in Nat

(* Which calls go with which results: the reader stays while Read is under *)
(* way, NextReader and skipRestOfMessage have none, and no call goes on    *)
(* when the connection was closed for too many frames.                     *)
CallInv ==
  /\ call \in {"next", "skip"} => ret = "none"
  /\ call \in {"read", "transfer"} => ret = "reader"
  /\ call # "idle" \/ ret # "fatal" => closed # "1008"

(* The counters of the reader.                                             *)
BoundInv ==
  /\ reader.remaining = 0 \/ reader.remaining <= MaxMessageSize
  /\ reader.fragments <= frames /\ frames <= MaxFrames

(* The reader, while a message is read, is the client's account of it.     *)
ReaderInv ==
  ret = "reader" =>
    /\ reader.remaining = unread /\ reader.maskPos = length - unread
    /\ reader.totalSize = sent /\ (reader.fin <=> ~unfinished)
    /\ reader.fragments + 1 = pieces /\ got = sent - unread
    /\ sent <= MaxMessageSize

(* Read asks for a frame at the end of one that is not the last, and while *)
(* it may.                                                                 *)
AskInv == call = "read" => AtFrameEnd /\ ~TooManyFragments

(* Where the stream is when a call begins and when it waits for a frame.   *)
PlaceInv ==
  Careful =>
    /\ call \in {"next", "read", "skip"} => unread = 0
    /\ call = "next" => ~unfinished
    /\ call \in {"read", "skip"} => unfinished
    /\ call = "idle" /\ ret \notin {"reader", "fatal"} => unread = 0 /\ ~unfinished

(* What the application has when a call has returned.                      *)
GotInv ==
  /\ ret \in {"eof", "mismatch"} /\ Careful => got = sent
  /\ ret = "eof" => got <= MaxMessageSize

(* What a connection is closed with for a message beyond the limits.       *)
ExcessInv ==
  /\ closed = "1008" => 0 < ReaderMaxFragments /\ ReaderMaxFragments < pieces
  /\ closed = "1009" => excess

IInv == /\ Typed /\ CallInv /\ BoundInv /\ ReaderInv /\ AskInv /\ PlaceInv /\ GotInv
        /\ ExcessInv /\ InSyncButJSON /\ OnlyIllegalIsRefused

-----------------------------------------------------------------------------
(* What a header says.                                                     *)

(* A frame is acceptFrame's, or the message's.                             *)
LEMMA Headers ==
  ASSUME NEW f \in Frames, Fault(f) = "no"
  PROVE  /\ f.n \in Nat /\ f.n <= MaxMessageSize
         /\ f.op \in {"continuation", "text", "binary", "close", "ping", "pong"}
         /\ isControl(f.op) <=> f.op \in {"close", "ping", "pong"}
         /\ isControl(f.op) => f.n <= MaxControl
  BY ConnReadAssumption DEF ConnReadAssumption, Fault, isControl, Opcodes

(* What a header is refused for, with the protocol's code, is illegal.     *)
LEMMA RefusedIsIllegal ==
  ASSUME NEW f \in Frames
  PROVE  /\ Fault(f) \in {"no", "1002", "1009"}
         /\ Fault(f) = "1002" => ~LegalFrame(f)
         /\ Fault(f) = "1009" => f.n > MaxMessageSize
  BY ConnReadAssumption DEF ConnReadAssumption, Fault, LegalFrame, isControl

(* And of what is accepted, this is illegal.                               *)
LEMMA AcceptedIsLegal ==
  ASSUME NEW f \in Frames, Fault(f) = "no"
  PROVE  /\ f.op = "close" => /\ ClosePayload(f) \in {"1000", "1002", "1011", "peer"}
                              /\ ClosePayload(f) = "1002" => ~LegalFrame(f)
                              /\ ClosePayload(f) = "1011" => f.n > BufferSize
         /\ f.op \in {"ping", "pong"} => LegalFrame(f)
         /\ ~isControl(f.op) => (LegalFrame(f) <=> (f.op = "continuation") = unfinished)
  BY ConnReadAssumption
  DEF ConnReadAssumption, Fault, LegalFrame, isControl, ClosePayload

-----------------------------------------------------------------------------
(* The parts of a step.                                                    *)

(* A header arrives where the reader waits for one.                        *)
LEMMA Arriving ==
  ASSUME IInv, UNCHANGED setting, NEW f \in Frames, NEW left \in Nat, Arrives(f, left)
  PROVE  /\ unread' \in Nat /\ length' \in Nat /\ sent' \in Nat /\ pieces' \in Nat
         /\ unfinished' \in BOOLEAN /\ illegal' \in BOOLEAN /\ sync' \in BOOLEAN
         /\ frames' = frames + 1 /\ frames' <= MaxFrames
         /\ illegal' <=> illegal \/ ~LegalFrame(f)
         /\ excess' \in BOOLEAN /\ (excess => excess')
         /\ f.n > MaxMessageSize => excess'
         /\ f.op = "continuation" /\ sent + f.n > MaxMessageSize => excess'
         /\ Accepting => InSyncButJSON'
         /\ isControl(f.op) \/ Fault(f) # "no" =>
              UNCHANGED <<unread, length, sent, pieces, unfinished>>
         /\ ~isControl(f.op) /\ Fault(f) = "no" =>
              /\ unread' = left /\ length' = f.n /\ (unfinished' <=> ~f.fin)
              /\ f.op = "continuation" => sent' = sent + f.n /\ pieces' = pieces + 1
              /\ f.op # "continuation" => sent' = f.n /\ pieces' = 1
<1> USE ConnReadAssumption DEF ConnReadAssumption
<1>1. /\ unread \in Nat /\ length \in Nat /\ sent \in Nat /\ pieces \in Nat /\ frames \in Nat
      /\ unfinished \in BOOLEAN /\ illegal \in BOOLEAN /\ sync \in BOOLEAN
      /\ f.n \in Nat /\ f.fin \in BOOLEAN /\ MaxFrames \in Nat
  BY DEF IInv, Typed
<1>2. frames' = frames + 1 /\ frames' <= MaxFrames
  BY <1>1 DEF Arrives
<1>3. illegal' <=> illegal \/ ~LegalFrame(f)
  BY Zenon DEF Arrives
<1>4. illegal' \in BOOLEAN /\ sync' \in BOOLEAN
  BY Zenon DEF Arrives
<1>8. /\ excess' \in BOOLEAN /\ (excess => excess')
      /\ f.n > MaxMessageSize => excess'
      /\ f.op = "continuation" /\ sent + f.n > MaxMessageSize => excess'
  BY Zenon DEF Arrives
<1>5. Accepting => InSyncButJSON'
  <2>1. Accepting /\ Careful => sync /\ unread = 0
    BY DEF IInv, InSyncButJSON, PlaceInv, Accepting
  <2>2. Careful' <=> Careful
    BY DEF Careful, Habits, Calls
  <2> QED  BY <2>1, <2>2, <1>1 DEF Arrives, InSyncButJSON
<1>6. CASE isControl(f.op) \/ Fault(f) # "no"
  <2>1. UNCHANGED <<unread, length, sent, pieces, unfinished>>
    BY <1>6, Zenon DEF Arrives
  <2> QED  BY <1>1, <1>2, <1>5, <1>6, <1>3, <1>4, <1>8, <2>1
<1>7. CASE ~(isControl(f.op) \/ Fault(f) # "no")
  <2>1. /\ unread' = left /\ length' = f.n /\ unfinished' = ~f.fin
        /\ sent' = (IF f.op = "continuation" THEN sent ELSE 0) + f.n
        /\ pieces' = (IF f.op = "continuation" THEN pieces ELSE 0) + 1
    BY <1>7, Zenon DEF Arrives
  <2>2. /\ f.op = "continuation" => sent' = sent + f.n /\ pieces' = pieces + 1
        /\ f.op # "continuation" => sent' = f.n /\ pieces' = 1
    BY <1>1, <2>1
  <2>3. (unfinished' <=> ~f.fin) /\ unfinished' \in BOOLEAN
    BY <2>1, Zenon
  <2>4. sent' \in Nat /\ pieces' \in Nat
    BY <1>1, <2>2
  <2> QED  BY <1>1, <1>2, <1>5, <1>7, <1>3, <1>4, <1>8, <2>1, <2>2, <2>3, <2>4
<1> QED  BY <1>6, <1>7

(* The fields of the reader.                                               *)
LEMMA ReaderFields ==
  ASSUME Typed
  PROVE  /\ reader.remaining \in Nat /\ reader.fragments \in Nat /\ reader.totalSize \in Nat
         /\ reader.maskPos \in Nat /\ reader.fin \in BOOLEAN
  BY DEF Typed, Readers

(* A step that loses the connection: nothing is left of the call.          *)
LEMMA Losing ==
  ASSUME IInv, UNCHANGED setting, Typed', BoundInv', InSyncButJSON',
         NEW code, Fatal(code), code # "no", illegal => illegal',
         Careful /\ code = "1002" => illegal',
         code = "1011" => Fails \/ BufferSize < MaxControl,
         code = "pong" => "pings" \in Habits,
         excess => excess', code = "1009" => excess',
         closed # "1008" \/ UNCHANGED pieces,
         code = "1008" => 0 < ReaderMaxFragments /\ ReaderMaxFragments < pieces'
  PROVE  IInv'
<1>1. call' = "idle" /\ ret' = "fatal" /\ closed' = IF closed = "no" THEN code ELSE closed
  BY DEF Fatal, CloseWithCode
<1>2. CallInv' /\ ReaderInv' /\ AskInv' /\ PlaceInv' /\ GotInv'
  BY <1>1 DEF CallInv, ReaderInv, AskInv, PlaceInv, GotInv
<1>3. OnlyIllegalIsRefused'
  <2>1. /\ Careful' <=> Careful
        /\ Habits' = Habits /\ BufferSize' = BufferSize
    BY DEF Careful, Habits, Calls, BufferSize
  <2> QED  BY <1>1, <2>1 DEF IInv, OnlyIllegalIsRefused, Fails
<1>4. ExcessInv'
  BY <1>1 DEF IInv, ExcessInv
<1> QED  BY <1>1, <1>2, <1>3, <1>4 DEF IInv

(* A step that leaves the connection alone, and does not take what is      *)
(* illegal.                                                                *)
LEMMA Keeping ==
  ASSUME IInv, UNCHANGED setting, UNCHANGED closed, illegal => illegal',
         Careful /\ illegal' => illegal,
         excess => excess', closed # "1008" \/ UNCHANGED pieces
  PROVE  OnlyIllegalIsRefused' /\ ExcessInv'
<1>1. /\ Careful' <=> Careful
      /\ Habits' = Habits /\ BufferSize' = BufferSize
  BY DEF Careful, Habits, Calls, BufferSize
<1> QED  BY <1>1 DEF IInv, OnlyIllegalIsRefused, ExcessInv

-----------------------------------------------------------------------------
(* Every step keeps the invariant.                                         *)

(* IInv holds at the start.                                                *)
LEMMA InitInv == Init => IInv
<1> SUFFICES ASSUME Init PROVE IInv
  OBVIOUS
<1> USE ConnReadAssumption DEF ConnReadAssumption, Init
<1>1. Typed
  BY DEF Typed, Readers
<1>2. CallInv /\ BoundInv /\ ReaderInv /\ AskInv /\ PlaceInv /\ GotInv
  BY DEF CallInv, BoundInv, ReaderInv, AskInv, PlaceInv, GotInv
<1>3. InSyncButJSON /\ OnlyIllegalIsRefused
  BY DEF InSyncButJSON, OnlyIllegalIsRefused
<1>4. ExcessInv
  BY DEF ExcessInv
<1> QED  BY <1>1, <1>2, <1>3, <1>4 DEF IInv

(* acceptFrame, while Read, NextReader or skipRestOfMessage waits.         *)
LEMMA AcceptInv ==
  ASSUME IInv, UNCHANGED setting, NEW f \in Frames, acceptFrame(f)
  PROVE  IInv'
<1> USE ConnReadAssumption DEF ConnReadAssumption
<1>1. /\ Accepting /\ Arrives(f, 0) /\ UNCHANGED <<reader, kind, type, got>>
      /\ Fault(f) # "no" \/ isControl(f.op)
  BY Zenon DEF acceptFrame, AcceptRefused, AcceptClose, AcceptPing, AcceptPong, isControl
<1>2. /\ UNCHANGED <<unread, length, sent, pieces, unfinished>>
      /\ frames' = frames + 1 /\ frames' <= MaxFrames
      /\ illegal' \in BOOLEAN /\ excess' \in BOOLEAN /\ sync' \in BOOLEAN
  BY <1>1, Arriving
<1>3. (illegal' <=> illegal \/ ~LegalFrame(f)) /\ InSyncButJSON' /\ (excess => excess')
  BY <1>1, Arriving
<1>4. BoundInv'
  BY <1>1, <1>2, ReaderFields DEF IInv, Typed, BoundInv
<1>5. ASSUME NEW code \in {"1000", "1002", "1009", "1011", "peer", "pong"}, Fatal(code),
             code = "1002" => illegal', code = "1011" => Fails \/ BufferSize < MaxControl,
             code = "pong" => "pings" \in Habits, code = "1009" => excess'
      PROVE  IInv'
  <2>1. Typed'
    BY <1>1, <1>2, <1>5 DEF IInv, Typed, Fatal, CloseWithCode, Calls
  <2> QED  BY <1>2, <1>3, <1>4, <1>5, <2>1, Losing
<1>6. ASSUME UNCHANGED <<call, closed, ret>>, Careful => LegalFrame(f)
      PROVE  IInv'
  <2>1. Typed'
    BY <1>1, <1>2, <1>6 DEF IInv, Typed, Calls
  <2>2. Careful' <=> Careful
    BY DEF Careful, Habits, Calls
  <2>3. CallInv' /\ ReaderInv' /\ AskInv' /\ PlaceInv' /\ GotInv'
    BY <1>1, <1>2, <1>6, <2>2
    DEF IInv, CallInv, ReaderInv, AskInv, PlaceInv, GotInv, AtFrameEnd, TooManyFragments
  <2>4. OnlyIllegalIsRefused' /\ ExcessInv'
    BY <1>2, <1>3, <1>6, Keeping
  <2> QED  BY <1>3, <1>4, <2>1, <2>3, <2>4 DEF IInv
<1>7. CASE AcceptRefused(f)
  <2>1. Fatal(Fault(f)) /\ Fault(f) # "no"
    BY <1>7 DEF AcceptRefused
  <2>2. f.n > MaxMessageSize => excess'
    BY <1>1, Arriving
  <2> QED  BY <1>3, <1>5, <2>1, <2>2, RefusedIsIllegal
<1>8. ASSUME f.n > BufferSize, Fault(f) = "no", isControl(f.op)
      PROVE  BufferSize < MaxControl
  <2>1. BufferSize \in Nat
    BY DEF BufferSize, IInv, Typed
  <2>2. f.n \in Nat /\ f.n <= MaxControl /\ MaxControl \in Nat
    BY <1>8, Headers
  <2> QED  BY <1>8, <2>1, <2>2
<1>9. CASE AcceptClose(f)
  <2>1. Fatal(ClosePayload(f)) /\ Fault(f) = "no" /\ f.op = "close" /\ isControl(f.op)
    BY <1>9 DEF AcceptClose, isControl
  <2> QED  BY <1>3, <1>5, <1>8, <2>1, AcceptedIsLegal
<1>10. CASE AcceptPing(f)
  <2>1. /\ Fault(f) = "no" /\ f.op = "ping" /\ isControl(f.op)
        /\ \/ UNCHANGED <<call, closed, ret>>
           \/ (f.n > BufferSize \/ Fails) /\ Fatal("1011")
    BY <1>10 DEF AcceptPing, isControl
  <2> QED  BY <1>5, <1>6, <1>8, <2>1, AcceptedIsLegal
<1>11. CASE AcceptPong(f)
  <2>1. /\ Fault(f) = "no" /\ f.op = "pong" /\ isControl(f.op)
        /\ \/ UNCHANGED <<call, closed, ret>>
           \/ "pings" \in Habits /\ Fatal("pong")
           \/ (f.n > BufferSize \/ Fails) /\ Fatal("1011")
    BY <1>11, Zenon DEF AcceptPong, isControl
  <2>2. LegalFrame(f)
    BY <2>1, AcceptedIsLegal
  <2>3. CASE UNCHANGED <<call, closed, ret>>
    BY <1>6, <2>2, <2>3
  <2>4. CASE "pings" \in Habits /\ Fatal("pong")
    BY <1>5, <2>4
  <2>5. CASE (f.n > BufferSize \/ Fails) /\ Fatal("1011")
    BY <1>5, <1>8, <2>1, <2>5
  <2> QED  BY <2>1, <2>3, <2>4, <2>5
<1> QED  BY <1>7, <1>9, <1>10, <1>11 DEF acceptFrame

(* acceptFrame that fails below the protocol keeps IInv.                   *)
LEMMA AcceptFailsInv ==
  ASSUME IInv, UNCHANGED setting, AcceptFails
  PROVE  IInv'
<1>1. Fails /\ Fatal("1011") /\ UNCHANGED <<reader, kind, type, client, got>>
  BY DEF AcceptFails
<1>2. Typed'
  BY <1>1 DEF IInv, Typed, Fatal, CloseWithCode, client, Calls
<1>3. BoundInv' /\ InSyncButJSON'
  BY <1>1 DEF IInv, BoundInv, InSyncButJSON, client, Careful, Habits, Calls
<1> QED  BY <1>1, <1>2, <1>3, Losing DEF client

(* NextReader, at its beginning and with the frame that it accepts: one    *)
(* that begins a message, or another.                                      *)
LEMMA BeginInv ==
  ASSUME IInv, UNCHANGED setting,
         NEW k \in Calls, NextReaderClosed(k) \/ NextReader(k)
  PROVE  IInv'
<1>1. /\ UNCHANGED <<reader, type, got>> /\ UNCHANGED client
      /\ call = "idle" /\ kind' = k
      /\ ret = "reader" => "abandon" \in Habits
      /\ ret = "fatal" => "insists" \in Habits
  BY DEF NextReaderClosed, NextReader, MayCall
<1>2. BoundInv' /\ InSyncButJSON'
  BY <1>1 DEF IInv, BoundInv, InSyncButJSON, client, Careful, Habits, Calls
<1>3. ASSUME Fatal("1011"), Fails PROVE IInv'
  <2>1. Typed'
    BY <1>1, <1>3 DEF IInv, Typed, client, Calls, Fatal, CloseWithCode
  <2> QED  BY <1>1, <1>2, <1>3, <2>1, Losing DEF client
<1>4. ASSUME closed # "no", Returns("fatal"), UNCHANGED closed PROVE IInv'
  <2>1. Typed'
    BY <1>1, <1>4 DEF IInv, Typed, client, Calls, Returns
  <2>2. OnlyIllegalIsRefused' /\ ExcessInv'
    BY <1>1, <1>4, Keeping DEF client
  <2>3. CallInv' /\ ReaderInv' /\ AskInv' /\ PlaceInv' /\ GotInv'
    BY <1>4 DEF Returns, CallInv, ReaderInv, AskInv, PlaceInv, GotInv
  <2> QED  BY <1>2, <2>1, <2>2, <2>3 DEF IInv
<1>5. ASSUME closed = "no", call' = "next", ret' = "none", UNCHANGED closed PROVE IInv'
  <2>1. Typed'
    BY <1>1, <1>5 DEF IInv, Typed, client, Calls
  <2>2. OnlyIllegalIsRefused' /\ ExcessInv'
    BY <1>1, <1>5, Keeping DEF client
  <2>3. CallInv' /\ ReaderInv' /\ AskInv' /\ GotInv'
    BY <1>5 DEF CallInv, ReaderInv, AskInv, GotInv
  <2>4. PlaceInv'
    <3>1. Careful => unread = 0 /\ ~unfinished
      BY <1>1, <1>5 DEF IInv, PlaceInv, Careful
    <3> QED  BY <1>1, <1>5, <3>1 DEF PlaceInv, client, Careful, Habits, Calls
  <2> QED  BY <1>2, <2>1, <2>2, <2>3, <2>4 DEF IInv
<1> QED  BY <1>3, <1>4, <1>5 DEF NextReaderClosed, NextReader, MayCall

(* The message that NextReader accepts.                                    *)
LEMMA MessageInv ==
  ASSUME IInv, UNCHANGED setting, NEW f \in Frames,
         NextData(f) \/ NextHookErrs(f) \/ NextLimited(f)
  PROVE  IInv'
<1> USE ConnReadAssumption DEF ConnReadAssumption
<1>1. PICK left \in {0, f.n} :
        /\ Message(f, left)
        /\ \/ left = f.n /\ (NextData(f) \/ NextHookErrs(f))
           \/ left = 0 /\ NextLimited(f)
  BY DEF NextData, NextHookErrs, NextLimited
<1>2. /\ call = "next" /\ f.op \in {"text", "binary"} /\ Fault(f) = "no" /\ Arrives(f, left)
      /\ reader' = FirstFrame(f) /\ got' = 0 /\ type' = f.op /\ kind' = kind
      /\ f.n \in Nat /\ f.n <= MaxMessageSize /\ left \in Nat /\ ~isControl(f.op)
  BY <1>1, Headers DEF Message, isData, isControl
<1>3. /\ unread' = left /\ length' = f.n /\ sent' = f.n /\ pieces' = 1
      /\ unfinished' \in BOOLEAN /\ illegal' \in BOOLEAN /\ sync' \in BOOLEAN
      /\ excess' \in BOOLEAN /\ (excess => excess') /\ closed # "1008"
      /\ frames' = frames + 1 /\ frames' <= MaxFrames
  BY <1>2, Arriving DEF IInv, CallInv
<1>4. (unfinished' <=> ~f.fin) /\ InSyncButJSON' /\ (illegal' <=> illegal \/ ~LegalFrame(f))
  BY <1>2, Arriving DEF Accepting
<1>5. /\ reader' \in Readers
      /\ reader'.remaining = f.n /\ reader'.maskPos = 0 /\ reader'.totalSize = f.n
      /\ reader'.fragments = 0 /\ reader'.fin = f.fin
  BY <1>2, ReaderFields DEF IInv, Typed, Readers, FirstFrame, Accepted
<1>6. BoundInv'
  BY <1>2, <1>3, <1>5 DEF IInv, Typed, BoundInv
<1>7. Careful' <=> Careful
  BY DEF Careful, Habits, Calls
<1>8. Careful => LegalFrame(f)
  <2>1. Careful => ~unfinished
    BY <1>2 DEF IInv, PlaceInv
  <2> QED  BY <1>2, <2>1, AcceptedIsLegal DEF IInv, Typed
<1>9. ASSUME NEW code \in {"hook", "1011"}, Fatal(code), code = "1011" => Fails
      PROVE  IInv'
  <2>1. Typed'
    BY <1>2, <1>3, <1>5, <1>9 DEF IInv, Typed, Fatal, CloseWithCode, Calls
  <2> QED  BY <1>3, <1>4, <1>6, <1>9, <2>1, Losing
<1>10. ASSUME UNCHANGED closed, call' \in {"idle", "skip"},
              ret' \in {"none", "reader", "mismatch", "limited", "fatal"}
       PROVE  Typed' /\ OnlyIllegalIsRefused' /\ ExcessInv'
  <2>1. Typed'
    BY <1>2, <1>3, <1>5, <1>10 DEF IInv, Typed, Calls
  <2> QED  BY <1>3, <1>4, <1>8, <1>10, <2>1, Keeping
<1>11. ASSUME NextData(f), left = f.n PROVE IInv'
  <2>1. UNCHANGED closed /\ call' = "idle"
    BY <1>11 DEF NextData, Returns
  <2>2. CASE ret' = "mismatch" /\ kind = "ReadJSON"
    <3>1. ~Careful
      BY <2>2 DEF Careful, IInv, Typed
    <3>2. CallInv' /\ ReaderInv' /\ AskInv' /\ PlaceInv' /\ GotInv'
      BY <1>3, <1>7, <2>1, <2>2, <3>1 DEF CallInv, ReaderInv, AskInv, PlaceInv, GotInv
    <3> QED  BY <1>4, <1>6, <1>10, <2>1, <2>2, <3>2 DEF IInv
  <2>3. CASE ret' = "reader"
    <3>1. CallInv' /\ AskInv' /\ PlaceInv' /\ GotInv'
      BY <1>3, <2>1, <2>3 DEF CallInv, AskInv, PlaceInv, GotInv
    <3>2. ReaderInv'
      <4>1. reader'.fin <=> ~unfinished'
        BY <1>4, <1>5, Zenon
      <4> QED  BY <1>2, <1>3, <1>5, <1>11, <4>1 DEF ReaderInv
    <3> QED  BY <1>4, <1>6, <1>10, <2>1, <2>3, <3>1, <3>2 DEF IInv
  <2> QED  BY <1>11, <2>2, <2>3 DEF NextData, Returns
<1>12. ASSUME NextLimited(f), left = 0 PROVE IInv'
  <2>1. \/ f.fin /\ Returns("limited") /\ UNCHANGED closed
        \/ ~f.fin /\ call' = "skip" /\ UNCHANGED <<ret, closed>>
        \/ Fails /\ Fatal("1011")
    BY <1>12 DEF NextLimited
  <2>2. CASE f.fin /\ Returns("limited") /\ UNCHANGED closed
    <3>1. CallInv' /\ ReaderInv' /\ AskInv' /\ GotInv'
      BY <1>3, <2>2 DEF CallInv, ReaderInv, AskInv, GotInv, Returns
    <3>2. PlaceInv'
      BY <1>3, <1>4, <1>12, <2>2 DEF PlaceInv, Returns
    <3> QED  BY <1>4, <1>6, <1>10, <2>2, <3>1, <3>2 DEF IInv, Returns
  <2>3. CASE ~f.fin /\ call' = "skip" /\ UNCHANGED <<ret, closed>>
    <3>1. ret = "none"
      BY <1>2 DEF IInv, CallInv
    <3>2. CallInv' /\ ReaderInv' /\ AskInv' /\ GotInv'
      BY <1>3, <2>3, <3>1 DEF CallInv, ReaderInv, AskInv, GotInv
    <3>3. PlaceInv'
      BY <1>3, <1>4, <1>12, <2>3 DEF PlaceInv
    <3> QED  BY <1>4, <1>6, <1>10, <2>3, <3>1, <3>2, <3>3 DEF IInv
  <2> QED  BY <1>9, <2>1, <2>2, <2>3
<1>13. ASSUME NextHookErrs(f) PROVE IInv'
  <2>1. CASE Fatal("hook")
    BY <1>9, <2>1
  <2>2. CASE Returns("fatal") /\ UNCHANGED closed
    <3>1. CallInv' /\ ReaderInv' /\ AskInv' /\ PlaceInv' /\ GotInv'
      BY <2>2 DEF CallInv, ReaderInv, AskInv, PlaceInv, GotInv, Returns
    <3> QED  BY <1>4, <1>6, <1>10, <2>2, <3>1 DEF IInv, Returns
  <2> QED  BY <1>13, <2>1, <2>2 DEF NextHookErrs
<1> QED  BY <1>1, <1>11, <1>12, <1>13

(* Another frame where the message goes on, or one that has no place: what *)
(* NextReader, skipRestOfMessage and Read share.                           *)
LEMMA FurtherFrame ==
  ASSUME IInv, UNCHANGED setting, NEW f \in Frames, NEW left \in {0, f.n},
         Accepting, Fault(f) = "no", ~isControl(f.op), Arrives(f, left),
         UNCHANGED <<kind, type, got>>,
         NEW total \in Nat, reader' = [Accepted(f) EXCEPT !.totalSize = total]
  PROVE  /\ BoundInv' /\ InSyncButJSON' /\ (illegal => illegal') /\ (excess => excess')
         /\ closed # "1008"
         /\ f.n \in Nat /\ f.n <= MaxMessageSize
         /\ unread' = left /\ length' = f.n /\ (unfinished' <=> ~f.fin)
         /\ f.op = "continuation" => sent' = sent + f.n /\ pieces' = pieces + 1
         /\ reader'.remaining = f.n /\ reader'.maskPos = 0 /\ reader'.totalSize = total
         /\ reader'.fragments = reader.fragments + 1 /\ reader'.fin = f.fin
         /\ Careful /\ (f.op = "continuation") = unfinished => (illegal' <=> illegal)
         /\ Careful /\ (f.op = "continuation") # unfinished => illegal'
         /\ call' \in {"idle", "skip", "transfer"} /\ ret' \in {"none", "reader", "limited", "fatal"}
            /\ (closed' = closed \/ closed' \in {"1002", "1009", "1011"})
              => Typed'
<1> USE ConnReadAssumption DEF ConnReadAssumption
<1>1. f.n \in Nat /\ f.n <= MaxMessageSize /\ left \in Nat
  BY Headers
<1>2. /\ unread' = left /\ length' = f.n /\ sent' \in Nat /\ pieces' \in Nat
      /\ f.op = "continuation" => sent' = sent + f.n /\ pieces' = pieces + 1
      /\ unfinished' \in BOOLEAN /\ illegal' \in BOOLEAN /\ sync' \in BOOLEAN
      /\ frames' = frames + 1 /\ frames' <= MaxFrames
      /\ excess' \in BOOLEAN /\ (excess => excess')
  BY <1>1, Arriving
<1>3. (unfinished' <=> ~f.fin) /\ InSyncButJSON' /\ (illegal' <=> illegal \/ ~LegalFrame(f))
  BY <1>1, Arriving
<1>8. closed # "1008"
  BY DEF IInv, CallInv, Accepting
<1>4. /\ reader' \in Readers
      /\ reader'.remaining = f.n /\ reader'.maskPos = 0 /\ reader'.totalSize = total
      /\ reader'.fragments = reader.fragments + 1 /\ reader'.fin = f.fin
  <2>1. reader \in Readers
    BY DEF IInv, Typed
  <2>2. reader' = [fin |-> f.fin, remaining |-> f.n, fragments |-> reader.fragments + 1,
                   totalSize |-> total, maskPos |-> 0]
    BY <2>1 DEF Readers, Accepted
  <2>3. reader.fragments + 1 \in Nat /\ f.fin \in BOOLEAN
    BY ReaderFields DEF IInv
  <2>4. f.n \in Nat /\ total \in Nat
    BY <1>1
  <2>5. reader' \in Readers
    <3>1. ASSUME NEW fin \in BOOLEAN, NEW n \in Nat, NEW m \in Nat, NEW t \in Nat
          PROVE  [fin |-> fin, remaining |-> n, fragments |-> m, totalSize |-> t,
                  maskPos |-> 0] \in Readers
      BY DEF Readers
    <3>2. [fin |-> f.fin, remaining |-> f.n, fragments |-> reader.fragments + 1,
           totalSize |-> total, maskPos |-> 0] \in Readers
      BY <2>3, <2>4, <3>1
    <3> QED  BY <2>2, <3>2, Zenon
  <2> QED  BY <2>2, <2>5
<1>5. BoundInv'
  BY <1>1, <1>2, <1>4, ReaderFields DEF IInv, Typed, BoundInv
<1>6. LegalFrame(f) <=> (f.op = "continuation") = unfinished
  BY AcceptedIsLegal
<1>7. /\ call' \in {"idle", "skip", "transfer"} /\ ret' \in {"none", "reader", "limited", "fatal"}
         /\ (closed' = closed \/ closed' \in {"1002", "1009", "1011"})
      => Typed'
  BY <1>1, <1>2, <1>4 DEF IInv, Typed, Calls
<1> QED  BY <1>1, <1>2, <1>3, <1>4, <1>5, <1>6, <1>7, <1>8

(* NextReader refusing a continuation without a message keeps IInv.        *)
LEMMA NotDataInv ==
  ASSUME IInv, UNCHANGED setting, NEW f \in Frames, NextNotData(f)
  PROVE  IInv'
<1>1. /\ Accepting /\ call = "next" /\ f.op = "continuation" /\ ~isControl(f.op)
      /\ Fault(f) = "no" /\ Arrives(f, f.n)
      /\ reader' = Accepted(f) /\ UNCHANGED <<kind, type, got>> /\ Fatal("1002")
  BY DEF NextNotData, Accepting, isControl
<1>2. reader' = [Accepted(f) EXCEPT !.totalSize = reader.totalSize] /\ reader.totalSize \in Nat
  BY <1>1, ReaderFields DEF IInv, Typed, Readers, Accepted
<1>3. Careful => ~unfinished
  BY <1>1 DEF IInv, PlaceInv
<1>4. Careful => (f.op = "continuation") # unfinished
  BY <1>1, <1>3 DEF IInv, Typed
<1>5. /\ BoundInv' /\ InSyncButJSON' /\ Typed' /\ (illegal => illegal')
      /\ (excess => excess') /\ closed # "1008"
      /\ Careful => illegal'
  BY <1>1, <1>2, <1>4, FurtherFrame DEF Fatal, CloseWithCode
<1> QED  BY <1>1, <1>5, Losing

(* skipRestOfMessage keeps IInv, frame by frame.                           *)
LEMMA SkipInv ==
  ASSUME IInv, UNCHANGED setting, NEW f \in Frames, SkipFrame(f)
  PROVE  IInv'
<1>1. /\ Accepting /\ call = "skip" /\ ~isControl(f.op) /\ Fault(f) = "no" /\ Arrives(f, 0)
      /\ reader' = Accepted(f) /\ UNCHANGED <<kind, type, got>>
      /\ \/ f.op # "continuation" /\ Fatal("1002")
         \/ f.op = "continuation" /\ f.fin /\ Returns("limited") /\ UNCHANGED closed
         \/ f.op = "continuation" /\ ~f.fin /\ UNCHANGED <<call, ret, closed>>
         \/ f.op = "continuation" /\ Fails /\ Fatal("1011")
  BY DEF SkipFrame, Accepting
<1>2. reader' = [Accepted(f) EXCEPT !.totalSize = reader.totalSize] /\ reader.totalSize \in Nat
  BY <1>1, ReaderFields DEF IInv, Typed, Readers, Accepted
<1>3. (Careful => unfinished) /\ unfinished \in BOOLEAN /\ ret = "none"
  BY <1>1 DEF IInv, PlaceInv, Typed, CallInv
<1>4. Careful' <=> Careful
  BY DEF Careful, Habits, Calls
<1>5. /\ BoundInv' /\ InSyncButJSON' /\ unread' = 0 /\ (unfinished' <=> ~f.fin)
      /\ illegal => illegal'
      /\ (excess => excess') /\ closed # "1008"
      /\ Careful /\ f.op = "continuation" => (illegal' <=> illegal)
      /\ Careful /\ f.op # "continuation" => illegal'
  BY <1>1, <1>2, <1>3, FurtherFrame
<1>6. Typed'
  BY <1>1, <1>2, <1>3, FurtherFrame DEF Fatal, CloseWithCode, Returns
<1>7. CASE f.op # "continuation" /\ Fatal("1002")
  BY <1>5, <1>6, <1>7, Losing
<1>8. CASE f.op = "continuation" /\ f.fin /\ Returns("limited") /\ UNCHANGED closed
  <2>1. CallInv' /\ ReaderInv' /\ AskInv' /\ PlaceInv' /\ GotInv'
    BY <1>4, <1>5, <1>8 DEF CallInv, ReaderInv, AskInv, PlaceInv, GotInv, Returns
  <2> QED  BY <1>5, <1>6, <1>8, <2>1, Keeping DEF IInv
<1>9. CASE f.op = "continuation" /\ ~f.fin /\ UNCHANGED <<call, ret, closed>>
  <2>1. CallInv' /\ ReaderInv' /\ AskInv' /\ PlaceInv' /\ GotInv'
    BY <1>1, <1>3, <1>4, <1>5, <1>9 DEF CallInv, ReaderInv, AskInv, PlaceInv, GotInv
  <2> QED  BY <1>5, <1>6, <1>9, <2>1, Keeping DEF IInv
<1>10. CASE f.op = "continuation" /\ Fails /\ Fatal("1011")
  BY <1>5, <1>6, <1>10, Losing
<1> QED  BY <1>1, <1>7, <1>8, <1>9, <1>10

(* Read asks for a frame.                                                  *)
LEMMA AskingInv ==
  ASSUME IInv, UNCHANGED setting, ReadTooMany \/ ReadNextFrame
  PROVE  IInv'
<1>1. /\ MayRead /\ AtFrameEnd
      /\ UNCHANGED <<reader, kind, type, got>> /\ UNCHANGED client
  BY DEF ReadTooMany, ReadNextFrame
<1>2. BoundInv' /\ InSyncButJSON'
  BY <1>1 DEF IInv, BoundInv, InSyncButJSON, client, Careful, Habits, Calls
<1>3. CASE ReadTooMany
  <2>1. Typed' /\ Fatal("1008")
    BY <1>1, <1>3 DEF IInv, Typed, client, Calls, ReadTooMany, Fatal, CloseWithCode
  <2>2. 0 < ReaderMaxFragments /\ ReaderMaxFragments < pieces
    <3>1. reader.fragments + 1 = pieces /\ reader.fragments \in Nat /\ pieces \in Nat
      BY <1>1, ReaderFields DEF IInv, Typed, MayRead, ReaderInv
    <3> QED  BY <1>3, <3>1, ConnReadAssumption DEF ConnReadAssumption, ReadTooMany, TooManyFragments
  <2> QED  BY <1>1, <1>2, <2>1, <2>2, Losing DEF client
<1>4. CASE ReadNextFrame
  <2>1. call' = "read" /\ UNCHANGED <<closed, ret>> /\ ~TooManyFragments
    BY <1>4 DEF ReadNextFrame
  <2>2. Typed' /\ OnlyIllegalIsRefused' /\ ExcessInv'
    BY <1>1, <2>1, Keeping DEF IInv, Typed, client, Calls
  <2>3. CallInv' /\ ReaderInv' /\ AskInv' /\ GotInv'
    BY <1>1, <2>1
    DEF IInv, CallInv, ReaderInv, AskInv, GotInv, MayRead, client, AtFrameEnd, TooManyFragments
  <2>4. PlaceInv'
    BY <1>1, <2>1
    DEF IInv, ReaderInv, PlaceInv, MayRead, AtFrameEnd, client, Careful, Habits, Calls
  <2> QED  BY <1>2, <2>2, <2>3, <2>4 DEF IInv
<1> QED  BY <1>3, <1>4

(* The frame that Read has asked for.                                      *)
LEMMA ReadInv ==
  ASSUME IInv, UNCHANGED setting, NEW f \in Frames, ReadFrame(f)
  PROVE  IInv'
<1> USE ConnReadAssumption DEF ConnReadAssumption
<1>1. /\ Accepting /\ call = "read" /\ ~isControl(f.op) /\ Fault(f) = "no" /\ Arrives(f, f.n)
      /\ UNCHANGED <<kind, type, got>>
  BY DEF ReadFrame, Accepting
<1>2. /\ ret = "reader" /\ unfinished \in BOOLEAN /\ (Careful => unfinished)
      /\ reader.remaining = 0 /\ ~TooManyFragments
      /\ reader.totalSize = sent /\ reader.fragments + 1 = pieces /\ got = sent - unread
      /\ unread = 0 /\ sent \in Nat /\ pieces \in Nat /\ reader.fragments \in Nat /\ got \in Nat
  BY <1>1, ReaderFields DEF IInv, Typed, CallInv, ReaderInv, AskInv, PlaceInv, AtFrameEnd
<1>3. f.n \in Nat
  OBVIOUS
<1>4. CASE f.op # "continuation"
  <2>1. reader' = Accepted(f) /\ Fatal("1002")
    BY <1>4 DEF ReadFrame
  <2>2. reader' = [Accepted(f) EXCEPT !.totalSize = reader.totalSize]
    BY <2>1 DEF IInv, Typed, Readers, Accepted
  <2>3. /\ BoundInv' /\ InSyncButJSON' /\ Typed' /\ (illegal => illegal')
        /\ (excess => excess') /\ closed # "1008"
        /\ Careful => illegal'
    BY <1>1, <1>2, <1>4, <2>1, <2>2, FurtherFrame DEF Fatal, CloseWithCode
  <2> QED  BY <2>1, <2>3, Losing
<1>5. CASE f.op = "continuation"
  <2>1. /\ reader' = [Accepted(f) EXCEPT !.totalSize = sent + f.n] /\ sent + f.n \in Nat
        /\ \/ sent + f.n > MaxMessageSize /\ Fatal("1009")
           \/ sent + f.n <= MaxMessageSize /\ call' = "transfer" /\ UNCHANGED <<closed, ret>>
    <3>1. reader' = [Accepted(f) EXCEPT !.totalSize = @ + f.n]
      BY <1>5 DEF ReadFrame
    <3>2. Accepted(f).totalSize = sent
      BY <1>2 DEF IInv, Typed, Readers, Accepted
    <3> QED  BY <1>2, <1>3, <1>5, <3>1, <3>2 DEF ReadFrame
  <2>2. /\ BoundInv' /\ InSyncButJSON' /\ Typed' /\ (illegal => illegal')
        /\ (excess => excess') /\ closed # "1008"
        /\ unread' = f.n /\ length' = f.n /\ sent' = sent + f.n /\ pieces' = pieces + 1
        /\ reader'.remaining = f.n /\ reader'.maskPos = 0 /\ reader'.totalSize = sent + f.n
        /\ reader'.fragments = reader.fragments + 1
    BY <1>1, <1>2, <1>5, <2>1, FurtherFrame DEF Fatal, CloseWithCode
  <2>3. /\ unfinished' <=> ~f.fin
        /\ reader'.fin = f.fin
        /\ Careful => (illegal' <=> illegal)
    BY <1>1, <1>2, <1>5, <2>1, FurtherFrame
  <2>4. CASE sent + f.n > MaxMessageSize /\ Fatal("1009")
    <3>1. excess'
      BY <1>1, <1>3, <1>5, <2>4, Arriving
    <3> QED  BY <2>2, <2>4, <3>1, Losing
  <2>5. CASE sent + f.n <= MaxMessageSize /\ call' = "transfer" /\ UNCHANGED <<closed, ret>>
    <3>1. CallInv' /\ AskInv' /\ PlaceInv' /\ GotInv'
      BY <1>2, <2>2, <2>5 DEF CallInv, AskInv, PlaceInv, GotInv
    <3>2. ReaderInv'
      <4>1. reader'.fin <=> ~unfinished'
        BY <2>3, Zenon
      <4>3. got' = sent' - unread' /\ reader'.maskPos = length' - unread'
        BY <1>1, <1>2, <1>3, <2>2
      <4>4. reader'.fragments + 1 = pieces'
        BY <1>2, <2>2
      <4> QED  BY <2>2, <2>5, <4>1, <4>3, <4>4 DEF ReaderInv
    <3> QED  BY <2>2, <2>3, <2>5, <3>1, <3>2, Keeping DEF IInv
  <2> QED  BY <2>1, <2>4, <2>5
<1> QED  BY <1>4, <1>5

(* Read gives the application what it can.                                 *)
LEMMA TransferInv ==
  ASSUME IInv, UNCHANGED setting, NEW k \in 0..reader.remaining, Transfer(k)
  PROVE  IInv'
<1> USE ConnReadAssumption DEF ConnReadAssumption
<1>1. /\ call \in {"idle", "transfer"} /\ ret = "reader"
      /\ reader' = [reader EXCEPT !.remaining = @ - k, !.maskPos = @ + k]
      /\ unread' = unread - k /\ got' = got + k /\ call' = "idle"
      /\ UNCHANGED <<kind, type, length, sent, pieces, unfinished, illegal, excess, sync, frames>>
      /\ closed # "1008"
  BY DEF IInv, CallInv, Transfer, Transferring, MayRead, AtEnd, Returns, Fatal
<1>2. /\ reader.remaining = unread /\ reader.maskPos = length - unread
      /\ reader.totalSize = sent /\ (reader.fin <=> ~unfinished)
      /\ reader.fragments + 1 = pieces /\ got = sent - unread
      /\ sent <= MaxMessageSize
  BY <1>1 DEF IInv, ReaderInv
<1>3. /\ reader.remaining \in Nat /\ reader.maskPos \in Nat
      /\ unread \in Nat /\ got \in Nat /\ sent \in Nat /\ length \in Nat
      /\ k \in Nat /\ k <= reader.remaining
  BY ReaderFields DEF IInv, Typed
<1>4. /\ reader' \in Readers
      /\ reader'.remaining = reader.remaining - k /\ reader'.maskPos = reader.maskPos + k
      /\ UNCHANGED <<reader.totalSize, reader.fin, reader.fragments>>
  <2>1. reader.remaining - k \in Nat /\ reader.maskPos + k \in Nat
    BY <1>3
  <2> QED  BY <1>1, <2>1 DEF IInv, Typed, Readers
<1>5. BoundInv' /\ InSyncButJSON'
  <2>1. reader'.remaining = 0 \/ reader'.remaining <= MaxMessageSize
    BY <1>3, <1>4 DEF IInv, BoundInv
  <2> QED  BY <1>1, <1>4, <2>1 DEF IInv, BoundInv, InSyncButJSON, Careful, Habits, Calls
<1>6. unread' \in Nat /\ got' \in Nat /\ got' = sent - unread'
  BY <1>1, <1>2, <1>3
<1>7. ASSUME ret' \in {"reader", "eof", "mismatch", "fatal"},
             closed' = closed \/ closed' = "1007"
      PROVE  Typed'
  BY <1>1, <1>4, <1>6, <1>7 DEF IInv, Typed, Calls
<1>8. AskInv' /\ (UNCHANGED closed => CallInv')
  BY <1>1 DEF AskInv, CallInv
<1>9. Careful' <=> Careful
  BY DEF Careful, Habits, Calls
<1>10. CASE Returns("reader") /\ UNCHANGED closed
  <2>1. ReaderInv'
    <3>1. reader'.maskPos = length' - unread' /\ reader'.remaining = unread'
      BY <1>1, <1>2, <1>3, <1>4
    <3> QED  BY <1>1, <1>2, <1>4, <1>6, <3>1 DEF ReaderInv
  <2>2. PlaceInv' /\ GotInv'
    BY <1>1, <1>10 DEF PlaceInv, GotInv, Returns
  <2>3. OnlyIllegalIsRefused' /\ ExcessInv'
    BY <1>1, <1>10, Keeping
  <2> QED  BY <1>5, <1>7, <1>8, <1>10, <2>1, <2>2, <2>3 DEF IInv, Returns
<1>11. CASE k = reader.remaining /\ reader.fin /\ AtEnd
  <2>1. unread' = 0 /\ ~unfinished /\ got' = sent
    BY <1>1, <1>2, <1>3, <1>11
  <2>2. CASE Fatal("1007")
    <3>1. Typed'
      BY <1>7, <2>2 DEF Fatal, CloseWithCode
    <3> QED  BY <1>1, <1>5, <2>2, <3>1, Losing
  <2>3. CASE ret' \in {"eof", "mismatch"} /\ UNCHANGED closed
    <3>1. ReaderInv' /\ PlaceInv'
      BY <1>1, <2>1, <2>3 DEF ReaderInv, PlaceInv
    <3>2. GotInv'
      BY <1>1, <1>2, <2>1 DEF GotInv
    <3>3. OnlyIllegalIsRefused' /\ ExcessInv'
      BY <1>1, <2>3, Keeping
    <3> QED  BY <1>5, <1>7, <1>8, <2>3, <3>1, <3>2, <3>3 DEF IInv
  <2> QED  BY <1>11, <2>2, <2>3 DEF AtEnd, Returns
<1> QED  BY <1>10, <1>11 DEF Transfer

(* What else can happen to a reader, and Close by others.                  *)
LEMMA OtherInv ==
  ASSUME IInv, UNCHANGED setting, TransferFails \/ DecodeEnds \/ CloseByOther
  PROVE  IInv'
<1>1. UNCHANGED <<reader, kind, type, got>> /\ UNCHANGED client
  BY DEF TransferFails, DecodeEnds, CloseByOther
<1>2. BoundInv' /\ InSyncButJSON' /\ (Careful' <=> Careful)
  BY <1>1 DEF IInv, BoundInv, InSyncButJSON, client, Careful, Habits, Calls
<1>3. CASE TransferFails
  <2>1. PICK code \in {"1000", "1011"} : Fatal(code)
    BY <1>3 DEF TransferFails
  <2>2. Typed' /\ Fails
    BY <1>1, <1>3, <2>1 DEF IInv, Typed, client, Calls, TransferFails, Fatal, CloseWithCode
  <2> QED  BY <1>1, <1>2, <2>1, <2>2, Losing DEF client
<1>4. CASE DecodeEnds
  <2>1. /\ ret' = "value" /\ call' = "idle" /\ UNCHANGED closed /\ kind = "ReadJSON"
    BY <1>4 DEF DecodeEnds, Returns
  <2>2. Typed' /\ OnlyIllegalIsRefused' /\ ExcessInv' /\ ~Careful
    BY <1>1, <2>1, Keeping DEF IInv, Typed, client, Calls, Careful
  <2>3. CallInv' /\ ReaderInv' /\ AskInv' /\ PlaceInv' /\ GotInv'
    BY <1>2, <1>4, <2>1, <2>2 DEF IInv, DecodeEnds, MayRead, CallInv, ReaderInv, AskInv, PlaceInv, GotInv
  <2> QED  BY <1>2, <2>2, <2>3 DEF IInv
<1>5. CASE CloseByOther
  <2>1. closed = "no" /\ closed' = "other" /\ UNCHANGED <<call, ret>>
    BY <1>5 DEF CloseByOther
  <2>2. Typed'
    BY <1>1, <2>1 DEF IInv, Typed, client, Calls
  <2>3. OnlyIllegalIsRefused' /\ ExcessInv'
    BY <1>1, <1>2, <2>1 DEF OnlyIllegalIsRefused, ExcessInv
  <2>4. CallInv' /\ ReaderInv' /\ AskInv' /\ PlaceInv' /\ GotInv'
    BY <1>1, <1>2, <2>1 DEF IInv, CallInv, ReaderInv, AskInv, PlaceInv, GotInv, client,
       AtFrameEnd, TooManyFragments
  <2> QED  BY <1>2, <2>2, <2>3, <2>4 DEF IInv
<1> QED  BY <1>3, <1>4, <1>5

-----------------------------------------------------------------------------
(* What follows from the invariant.                                        *)

(* Every step keeps IInv.                                                  *)
LEMMA NextInv == IInv /\ [Next]_vars => IInv'
<1> SUFFICES ASSUME IInv, [Next]_vars PROVE IInv'
  OBVIOUS
<1>1. CASE UNCHANGED vars
  BY <1>1
  DEF vars, client, IInv, Typed, CallInv, BoundInv, ReaderInv, AskInv, PlaceInv, GotInv,
      ExcessInv, InSyncButJSON, OnlyIllegalIsRefused, Careful, Calls, Habits, BufferSize,
      AtFrameEnd, TooManyFragments
<1>2. CASE Step /\ UNCHANGED setting
  <2>1. ASSUME NEW k \in Calls, NextReaderClosed(k) \/ NextReader(k) PROVE IInv'
    BY <1>2, <2>1, BeginInv
  <2>2. ASSUME NEW f \in Frames,
               \/ acceptFrame(f) \/ NextNotData(f) \/ NextData(f)
               \/ NextHookErrs(f) \/ NextLimited(f) \/ SkipFrame(f) \/ ReadFrame(f)
        PROVE  IInv'
    BY <1>2, <2>2, AcceptInv, NotDataInv, MessageInv, SkipInv, ReadInv
  <2>3. ASSUME NEW k \in 0..reader.remaining, Transfer(k) PROVE IInv'
    BY <1>2, <2>3, TransferInv
  <2> QED  BY <1>2, <2>1, <2>2, <2>3, AcceptFailsInv, AskingInv, OtherInv DEF Step
<1> QED  BY <1>1, <1>2 DEF Next

(* The values of the variables, in every reachable state, for any client   *)
(* and any limits; the reader counts no more fragments than were sent, and *)
(* waits for no more than MaxMessageSize bytes of a frame.                 *)
THEOREM ReadTypeCorrect == Spec => []TypeOK
<1>1. IInv => TypeOK
  <2> SUFFICES ASSUME IInv PROVE TypeOK
    OBVIOUS
  <2> USE ConnReadAssumption DEF ConnReadAssumption
  <2>1. reader.fragments \in 0..MaxFrames /\ frames \in 0..MaxFrames
    BY ReaderFields DEF IInv, Typed, BoundInv
  <2>2. reader \in [fin : BOOLEAN, remaining : Nat, fragments : 0..MaxFrames,
                    totalSize : Nat, maskPos : Nat]
    BY <2>1 DEF IInv, Typed, Readers
  <2>3. kind \in Kinds \cup {"none"}
    BY DEF IInv, Typed, Calls
  <2> QED  BY <2>1, <2>2, <2>3 DEF IInv, Typed, BoundInv, TypeOK
<1> QED  BY <1>1, InitInv, NextInv, PTL DEF Spec

(* acceptFrame never takes payload for a header, when messages are read to *)
(* their end or dropped by the rate limiter and a fatal error is the last  *)
(* word, whatever the client sends.                                        *)
THEOREM ReadInSync == Spec => []InSyncButJSON
<1>1. IInv => InSyncButJSON
  BY DEF IInv
<1> QED  BY <1>1, InitInv, NextInv, PTL DEF Spec

(* The counters of the reader are the client's account of the frame and of *)
(* the message while one is read, and io.EOF is said at its end.           *)
THEOREM ReadFollows == Spec => []ReaderFollowsStream
<1>1. IInv => ReaderFollowsStream
  <2> SUFFICES ASSUME IInv PROVE ReaderFollowsStream
    OBVIOUS
  <2>1. Reading \/ call = "read" => ret = "reader"
    BY DEF IInv, CallInv, Reading
  <2>2. ret = "reader" => reader.fin = ~unfinished
    BY ReaderFields DEF IInv, Typed, ReaderInv
  <2>3. ret \in {"eof", "mismatch"} /\ Careful => got = sent /\ ~unfinished
    <3>1. ret \in {"eof", "mismatch"} => call = "idle"
      BY DEF IInv, Typed, CallInv
    <3> QED  BY <3>1 DEF IInv, PlaceInv, GotInv
  <2> QED  BY <2>1, <2>2, <2>3 DEF IInv, ReaderInv, ReaderFollowsStream
<1> QED  BY <1>1, InitInv, NextInv, PTL DEF Spec

(* A client that breaks the protocol loses the connection with the call    *)
(* that meets the frame, and one that keeps to it is not told that it has, *)
(* but for a pong that is not the answer to the ping under way.            *)
THEOREM ReadRefusesIllegal == Spec => []OnlyIllegalIsRefused
<1>1. IInv => OnlyIllegalIsRefused
  BY DEF IInv
<1> QED  BY <1>1, InitInv, NextInv, PTL DEF Spec

(* The application never has more of a message's payload than              *)
(* MaxMessageSize bytes, and a client that keeps to the limits is not      *)
(* closed for its sizes or its fragments.                                  *)
THEOREM ReadKeepsLimits == Spec => []OnlyExcessIsRefused
<1>1. IInv => OnlyExcessIsRefused
  <2> SUFFICES ASSUME IInv PROVE OnlyExcessIsRefused
    OBVIOUS
  <2>1. ret = "reader" => got <= MaxMessageSize
    BY ConnReadAssumption DEF ConnReadAssumption, IInv, Typed, ReaderInv
  <2> QED  BY <2>1 DEF IInv, GotInv, ExcessInv, OnlyExcessIsRefused
<1> QED  BY <1>1, InitInv, NextInv, PTL DEF Spec
=============================================================================

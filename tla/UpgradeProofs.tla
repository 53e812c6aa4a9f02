--------------------------- MODULE UpgradeProofs ---------------------------
(***************************************************************************)
(* What TLAPS proves of Upgrade and of the keep-alive of KeepAlive that it *)
(* runs, for any requests and settings, any number of callers of Ping and  *)
(* any frames of the client.                                               *)
(***************************************************************************)
EXTENDS Upgrade, WellFoundedInduction, SequenceTheorems, TLAPS

-----------------------------------------------------------------------------
(* The inductive invariant of KeepAlive.                                   *)

ServerFrames == [op : {"ping", "pong"}, len : Payloads, load : Payloads]
LoopPlaces ==
  {"idle", "arm", "lock", "frame", "send", "sent", "close", "flush", "ctl", "last",
   "closed"}

Typed ==
  /\ TypeOK
  /\ out \in Seq(ServerFrames) /\ inbox \in Seq(ClientFrames)
  /\ pc[Loop] \in LoopPlaces

(* The reader, or what it reads from, is gone, or the client is.           *)
Ended ==
  \/ client # "answers" \/ net = "down" \/ raw = "closed"
  \/ pc[Reader] \in {"close", "flush", "ctl", "last", "closed"}

(* When pingSent is set a pong is to come, or was overtaken by Ping's own  *)
(* Store; since the last tick that aged the deadline the loop is busy with *)
(* a ping, or pingSent is set.  A tick does not age what handlePong sets.  *)
PongInv == pingSent => PongToCome \/ overtaken \/ Ended
AgedInv ==
  /\ aged => pc[Loop] # "idle" \/ pingSent \/ overtaken \/ Ended
  /\ pc[Reader] = "clear" => ~aged

KeptInv == Typed /\ PongInv /\ AgedInv /\ AnsweringClientIsKept

(* The goroutines and the tokens of the mutexes are different.             *)
LEMMA Callers1 ==
  /\ Loop \in Callers /\ Reader \in Callers /\ Users \subseteq Callers
  /\ Pingers \subseteq Callers /\ Loop \in Pingers
  /\ Loop # Reader /\ Loop \notin Users /\ Reader \notin Users /\ Reader \notin Pingers
  /\ NoOne \notin Callers /\ Final \notin Callers /\ NoOne # Final
  /\ Sender \notin Callers
BY KeepAliveAssumption DEF KeepAliveAssumption, Callers, Pingers

(* What the client and the server send is typed.                           *)
LEMMA FramesTyped ==
  ASSUME Typed
  PROVE  /\ \A g \in Callers : ControlFrame(g) \in ServerFrames
         /\ In("answer", 0) \in ClientFrames /\ Own \subseteq ClientFrames
         /\ \A f \in ClientFrames : f.load \in Payloads
<1>1. \A g \in Callers : ControlFrame(g) \in ServerFrames
  BY DEF ControlFrame, ServerFrames, Payloads, Typed, TypeOK
<1>2. In("answer", 0) \in ClientFrames
  BY DEF ClientFrames, Payloads, In
<1>3. Own \subseteq ClientFrames
  BY KeepAliveAssumption DEF KeepAliveAssumption
<1>4. \A f \in ClientFrames : f.load \in Payloads
  BY DEF ClientFrames, Payloads, In
<1> QED  BY <1>1, <1>2, <1>3, <1>4

(* KeptInv holds at the start.                                             *)
LEMMA KeptInit == Init => KeptInv
<1> SUFFICES ASSUME Init PROVE KeptInv
  OBVIOUS
<1> USE Callers1
<1>1. pc \in [Callers -> Places] /\ pc[Loop] \in LoopPlaces
  BY DEF Init, Places, LoopPlaces
<1>2. \A g \in Callers : ctlLock = g <=> pc[g] \in {"payload", "frame", "send"}
  BY DEF Init
<1>3. TypeOK
  <2>1. 0 \in 0..MaxOwn /\ 0 \in Payloads
    BY KeepAliveAssumption DEF KeepAliveAssumption, Payloads
  <2>2. /\ \A i \in DOMAIN out :
             out[i] \in [op : {"ping", "pong"}, len : Payloads, load : Payloads]
        /\ \A i \in DOMAIN inbox : inbox[i] \in ClientFrames
    BY DEF Init
  <2> QED  BY <1>1, <1>2, <2>1, <2>2 DEF Init, TypeOK
<1>4. Typed
  BY <1>1, <1>3 DEF Init, Typed
<1>5. PongInv /\ AgedInv /\ AnsweringClientIsKept
  BY DEF Init, PongInv, AgedInv, AnsweringClientIsKept
<1> QED  BY <1>4, <1>5 DEF KeptInv

(* writeControl, by anybody.                                               *)
LEMMA ControlTyped ==
  ASSUME Typed, NEW g \in Callers, Control(g)
  PROVE  Typed'
<1> USE Callers1 DEF Goto, Failed, closing, world, marks
<1>1. pc' \in [Callers -> Places]
  BY DEF Control, Arm, GiveUp, LockControl, LockFrame, SendFrame, Typed, TypeOK, Places
<1>2. pc'[Loop] \in LoopPlaces
  BY DEF Control, Arm, GiveUp, LockControl, LockFrame, SendFrame, Typed, TypeOK, Places,
         LoopPlaces
<1>3. /\ ctlLock' \in Callers \cup {NoOne, Final}
      /\ \A h \in Callers : ctlLock' = h <=> pc'[h] \in {"payload", "frame", "send"}
  BY DEF Control, Arm, GiveUp, LockControl, LockFrame, SendFrame, Typed, TypeOK
<1>4. /\ writeLock' \in Callers \cup {Sender, NoOne, Final}
      /\ timer' \in {"off", "on", "fired"}
  BY DEF Control, Arm, GiveUp, LockControl, LockFrame, SendFrame, Typed, TypeOK
<1>5. out' \in Seq(ServerFrames)
  BY FramesTyped DEF Control, Arm, GiveUp, LockControl, LockFrame, SendFrame, Typed
<1>6. UNCHANGED <<pingSent, load, length, once, done, raw, sends, inbox, own, client, net,
                  aged, cut, overtaken>>
  BY DEF Control, Arm, GiveUp, LockControl, LockFrame, SendFrame
<1>7. \A i \in DOMAIN out' : out'[i] \in ServerFrames
  BY <1>5
<1>8. TypeOK'
  BY <1>1, <1>3, <1>4, <1>6, <1>7 DEF Typed, TypeOK, ServerFrames
<1> QED  BY <1>2, <1>5, <1>6, <1>8 DEF Typed

(* CloseWithCode, by the loop or the reader.                               *)
LEMMA CloseTyped ==
  ASSUME Typed, NEW g \in Callers, Close(g)
  PROVE  Typed'
<1> USE Callers1 DEF Goto, closing, writing, world, marks
<1>1. pc' \in [Callers -> Places]
  BY DEF Close, CloseOnce, CloseDone, CloseControl, CloseRaw, Typed, TypeOK, Places
<1>2. pc'[Loop] \in LoopPlaces
  BY DEF Close, CloseOnce, CloseDone, CloseControl, CloseRaw, Typed, TypeOK, LoopPlaces
<1>3. /\ ctlLock' \in Callers \cup {NoOne, Final}
      /\ \A h \in Callers : ctlLock' = h <=> pc'[h] \in {"payload", "frame", "send"}
  BY DEF Close, CloseOnce, CloseDone, CloseControl, CloseRaw, Typed, TypeOK
<1>4. /\ writeLock' \in Callers \cup {Sender, NoOne, Final}
      /\ once' \in Callers \cup {NoOne, Final} /\ done' \in BOOLEAN
      /\ raw' \in {"open", "closed"}
  BY DEF Close, CloseOnce, CloseDone, CloseControl, CloseRaw, Typed, TypeOK
<1>5. UNCHANGED <<pingSent, load, length, timer, out, sends, inbox, own, client, net,
                  aged, cut, overtaken>>
  BY DEF Close, CloseOnce, CloseDone, CloseControl, CloseRaw
<1>6. TypeOK'
  BY <1>1, <1>3, <1>4, <1>5 DEF Typed, TypeOK
<1> QED  BY <1>2, <1>5, <1>6 DEF Typed

(* Ping and the loop around it.                                            *)
LEMMA PingTyped ==
  ASSUME Typed, Tick \/ \E g \in Pingers : StoreSent(g) \/ UserPing(g)
  PROVE  Typed'
<1> USE Callers1 DEF Goto, closing, writing, world, marks
<1>1. PICK g \in Pingers : (g = Loop /\ Tick) \/ StoreSent(g) \/ UserPing(g)
  OBVIOUS
<1>2. /\ pc' \in [Callers -> Places]
      /\ pc[g] \in {"idle", "start", "sent"} /\ pc'[g] \in {"idle", "arm", "err", "nil"}
      /\ \A h \in Callers \ {g} : pc'[h] = pc[h]
  BY <1>1 DEF Tick, StoreSent, UserPing, Typed, TypeOK, Places
<1>3. pc'[Loop] \in LoopPlaces
  BY <1>1 DEF Tick, StoreSent, UserPing, Typed, TypeOK, LoopPlaces
<1>4. /\ pingSent' \in BOOLEAN /\ aged' \in BOOLEAN /\ overtaken' \in BOOLEAN
      /\ UNCHANGED <<length, load, ctlLock, writeLock, timer, out, once, done, raw, sends,
                     inbox, own, client, net, cut>>
  BY <1>1 DEF Tick, StoreSent, UserPing, Typed, TypeOK
<1>5. \A h \in Callers : ctlLock = h <=> pc'[h] \in {"payload", "frame", "send"}
  BY <1>2 DEF Typed, TypeOK
<1>6. TypeOK'
  BY <1>2, <1>4, <1>5 DEF Typed, TypeOK
<1> QED  BY <1>3, <1>4, <1>6 DEF Typed

Reads ==
  ReadData \/ ReadPing \/ ReadPayload \/ ReadPong \/ StoreCleared \/ ReadFails
    \/ DeadlinePasses

(* The reader.                                                             *)
LEMMA ReadTyped ==
  ASSUME Typed, Reads
  PROVE  Typed'
<1> USE Callers1 DEF Goto, closing, writing, world, marks, Reads
<1>1. pc' \in [Callers -> Places] /\ \A h \in Callers \ {Reader} : pc'[h] = pc[h]
  BY DEF ReadData, ReadPing, ReadPayload, ReadPong, StoreCleared, ReadFails, DeadlinePasses,
         Typed, TypeOK, Places
<1>2. /\ ctlLock' \in Callers \cup {NoOne, Final}
      /\ \A h \in Callers : ctlLock' = h <=> pc'[h] \in {"payload", "frame", "send"}
  BY DEF ReadData, ReadPing, ReadPayload, ReadPong, StoreCleared, ReadFails, DeadlinePasses,
         Typed, TypeOK
<1>3. inbox' \in Seq(ClientFrames)
  <2>1. inbox' = inbox \/ (inbox # <<>> /\ inbox' = Tail(inbox))
    BY DEF ReadData, ReadPing, ReadPayload, ReadPong, StoreCleared, ReadFails, DeadlinePasses
  <2> QED  BY <2>1 DEF Typed
<1>4. load' \in Payloads /\ length' \in Payloads
  <2>1. inbox # <<>> => Head(inbox) \in ClientFrames
    BY DEF Typed
  <2> QED
    BY <2>1, FramesTyped DEF ReadData, ReadPing, ReadPayload, ReadPong, StoreCleared,
                             ReadFails, DeadlinePasses, Typed, TypeOK
<1>5. /\ pingSent' \in BOOLEAN /\ aged' \in BOOLEAN /\ cut' \in BOOLEAN
      /\ timer' \in {"off", "on", "fired"}
      /\ UNCHANGED <<writeLock, out, once, done, raw, sends, own, client, net, overtaken>>
  BY DEF ReadData, ReadPing, ReadPayload, ReadPong, StoreCleared, ReadFails, DeadlinePasses,
         Typed, TypeOK
<1>6. \A i \in DOMAIN inbox' : inbox'[i] \in ClientFrames
  BY <1>3
<1>7. TypeOK'
  BY <1>1, <1>2, <1>4, <1>5, <1>6 DEF Typed, TypeOK
<1> QED  BY <1>1, <1>3, <1>5, <1>7 DEF Typed

Around == SendData \/ TimerFires \/ ClientNext \/ NetBreaks

(* The data message, the timer, the client and the network.                *)
LEMMA AroundTyped ==
  ASSUME Typed, Around
  PROVE  Typed'
<1> USE Callers1 DEF closing, writing, world, marks, Around
<1>1. UNCHANGED <<pc, pingSent, load, length, ctlLock, once, done, raw, aged, cut, overtaken>>
  BY DEF SendData, TimerFires, ClientNext, ClientReceives, ClientSends, ClientStops, NetBreaks
<1>2. out' \in Seq(ServerFrames)
  BY DEF SendData, TimerFires, ClientNext, ClientReceives, ClientSends, ClientStops, NetBreaks,
         Typed
<1>3. inbox' \in Seq(ClientFrames)
  <2>1. \/ inbox' = inbox
        \/ inbox' = Append(inbox, In("answer", 0))
        \/ \E f \in Own : inbox' = Append(inbox, f)
    BY DEF SendData, TimerFires, ClientNext, ClientReceives, ClientSends, ClientStops, NetBreaks
  <2>2. \A f \in ClientFrames : Append(inbox, f) \in Seq(ClientFrames)
    BY DEF Typed
  <2> QED  BY <2>1, <2>2, FramesTyped DEF Typed
<1>4. /\ writeLock' \in Callers \cup {Sender, NoOne, Final}
      /\ timer' \in {"off", "on", "fired"} /\ sends' \in {"start", "holds", "end"}
      /\ client' \in {"answers", "silent", "lost"} /\ net' \in {"up", "down"}
  BY DEF SendData, TimerFires, ClientNext, ClientReceives, ClientSends, ClientStops, NetBreaks,
         Typed, TypeOK
<1>5. own' \in 0..MaxOwn
  BY KeepAliveAssumption
     DEF KeepAliveAssumption, SendData, TimerFires, ClientNext, ClientReceives, ClientSends,
         ClientStops, NetBreaks, Typed, TypeOK
<1>6. /\ \A i \in DOMAIN out' : out'[i] \in ServerFrames
      /\ \A i \in DOMAIN inbox' : inbox'[i] \in ClientFrames
  BY <1>2, <1>3
<1>7. TypeOK'
  BY <1>1, <1>4, <1>5, <1>6 DEF Typed, TypeOK, ServerFrames
<1> QED  BY <1>1, <1>2, <1>3, <1>7 DEF Typed
-----------------------------------------------------------------------------
(* The pong that clears pingSent stays under way until it is read.         *)

(* Frames that are added take nothing away.                                *)
LEMMA PongStays ==
  ASSUME Typed, PongToCome,
         out' = out \/ \E f \in ServerFrames : out' = Append(out, f),
         inbox' = inbox \/ \E f \in ClientFrames : inbox' = Append(inbox, f),
         pc[Reader] = "clear" => pc'[Reader] = "clear"
  PROVE  PongToCome'
<1>1. ASSUME NEW i \in DOMAIN out, out[i].op = "ping" PROVE PongToCome'
  <2>1. i \in DOMAIN out' /\ out'[i] = out[i]
    BY DEF Typed
  <2> QED  BY <1>1, <2>1 DEF PongToCome
<1>2. ASSUME NEW i \in DOMAIN inbox, inbox[i].op = "answer" PROVE PongToCome'
  <2>1. i \in DOMAIN inbox' /\ inbox'[i] = inbox[i]
    BY DEF Typed
  <2> QED  BY <1>2, <2>1 DEF PongToCome
<1> QED  BY <1>1, <1>2 DEF PongToCome

(* A frame that is not an answer can be read before it.                    *)
LEMMA PongStaysInTail ==
  ASSUME Typed, PongToCome, inbox # <<>>, Head(inbox).op # "answer", inbox' = Tail(inbox),
         out' = out, pc[Reader] # "clear"
  PROVE  PongToCome'
<1>1. ASSUME NEW i \in DOMAIN inbox, inbox[i].op = "answer" PROVE PongToCome'
  <2>1. i # 1
    BY <1>1 DEF Typed
  <2>2. i - 1 \in DOMAIN inbox' /\ inbox'[i - 1] = inbox[i]
    BY <2>1 DEF Typed
  <2> QED  BY <1>1, <2>2 DEF PongToCome
<1>2. ASSUME NEW i \in DOMAIN out, out[i].op = "ping" PROVE PongToCome'
  BY <1>2 DEF PongToCome
<1> QED  BY <1>1, <1>2 DEF PongToCome

(* The client turns a ping into an answer, or is lost.                     *)
LEMMA PongStaysAtClient ==
  ASSUME Typed, PongToCome, ClientReceives, client' = "answers"
  PROVE  PongToCome'
<1>1. /\ out # <<>> /\ out' = Tail(out) /\ pc' = pc
      /\ inbox' = IF Head(out).op = "ping" THEN Append(inbox, In("answer", 0)) ELSE inbox
  BY DEF ClientReceives
<1>2. ASSUME NEW i \in DOMAIN out, out[i].op = "ping" PROVE PongToCome'
  <2>1. CASE i = 1
    <3>1. inbox' = Append(inbox, In("answer", 0))
      BY <1>1, <1>2, <2>1 DEF Typed
    <3>2. Len(inbox) + 1 \in DOMAIN inbox' /\ inbox'[Len(inbox) + 1] = In("answer", 0)
      BY <3>1, FramesTyped DEF Typed
    <3> QED  BY <3>2 DEF PongToCome, In
  <2>2. CASE i # 1
    <3>1. i - 1 \in DOMAIN out' /\ out'[i - 1] = out[i]
      BY <1>1, <2>2 DEF Typed
    <3> QED  BY <1>2, <3>1 DEF PongToCome
  <2> QED  BY <2>1, <2>2
<1>3. ASSUME NEW i \in DOMAIN inbox, inbox[i].op = "answer" PROVE PongToCome'
  <2>1. i \in DOMAIN inbox' /\ inbox'[i] = inbox[i]
    BY <1>1, FramesTyped DEF Typed
  <2> QED  BY <1>3, <2>1 DEF PongToCome
<1>4. CASE pc[Reader] = "clear"
  BY <1>1, <1>4 DEF PongToCome
<1> QED  BY <1>2, <1>3, <1>4 DEF PongToCome

Kept == PongInv /\ AgedInv /\ AnsweringClientIsKept

(* A step that touches neither the clock nor pingSent, takes no frame, and *)
(* leaves the loop busy, keeps the invariant.                              *)
LEMMA KeptByOthers ==
  ASSUME KeptInv,
         UNCHANGED <<pingSent, aged, cut, overtaken>>,
         out' = out \/ \E f \in ServerFrames : out' = Append(out, f),
         inbox' = inbox \/ \E f \in ClientFrames : inbox' = Append(inbox, f),
         client' = client \/ client' # "answers",
         net' = net \/ net' = "down",
         raw' = raw \/ raw' = "closed",
         pc[Loop] # "idle" => pc'[Loop] # "idle",
         pc[Reader] = "clear" <=> pc'[Reader] = "clear",
         Ended => Ended'
  PROVE  Kept'
<1>1. PongInv'
  <2>1. PongToCome => PongToCome'
    BY PongStays DEF KeptInv
  <2> QED  BY <2>1 DEF KeptInv, PongInv
<1>2. AgedInv'
  BY DEF KeptInv, AgedInv
<1>3. AnsweringClientIsKept'
  BY DEF KeptInv, AnsweringClientIsKept
<1> QED  BY <1>1, <1>2, <1>3 DEF Kept

(* The steps of Ping and pong, that is of writeControl, keep KeptInv.      *)
LEMMA ControlKept ==
  ASSUME KeptInv, NEW g \in Callers, Control(g) \/ Close(g)
  PROVE  Kept'
<1> USE Callers1 DEF Goto, Failed, closing, writing, world, marks
<1>1. UNCHANGED <<pingSent, aged, cut, overtaken, inbox, client, net>>
  BY DEF Control, Arm, GiveUp, LockControl, LockFrame, SendFrame,
         Close, CloseOnce, CloseDone, CloseControl, CloseRaw
<1>2. out' = out \/ out' = Append(out, ControlFrame(g))
  BY DEF Control, Arm, GiveUp, LockControl, LockFrame, SendFrame,
         Close, CloseOnce, CloseDone, CloseControl, CloseRaw
<1>3. raw' = raw \/ raw' = "closed"
  BY DEF Control, Arm, GiveUp, LockControl, LockFrame, SendFrame,
         Close, CloseOnce, CloseDone, CloseControl, CloseRaw
<1>4. /\ \A h \in Callers \ {g} : pc'[h] = pc[h]
      /\ \/ /\ pc[g] \in {"arm", "lock", "frame", "send"}
            /\ pc'[g] \in {"lock", "payload", "frame", "send", "sent", "close", "err", "read"}
         \/ /\ pc[g] \in {"close", "flush", "ctl", "last"}
            /\ pc'[g] \in {"flush", "ctl", "last", "closed"}
  BY DEF Control, Arm, GiveUp, LockControl, LockFrame, SendFrame,
         Close, CloseOnce, CloseDone, CloseControl, CloseRaw, KeptInv, Typed, TypeOK
<1>5. Ended => Ended'
  BY <1>1, <1>3, <1>4 DEF Ended
<1>6. ControlFrame(g) \in ServerFrames
  BY FramesTyped DEF KeptInv
<1> QED  BY <1>1, <1>2, <1>3, <1>4, <1>5, <1>6, KeptByOthers

(* A tick finds pingSent set, and the pong it waits for, or starts a ping; *)
(* a Ping that sets pingSent waits for a pong, or was overtaken by it.     *)
LEMMA PingKept ==
  ASSUME KeptInv, Tick \/ \E g \in Pingers : StoreSent(g) \/ UserPing(g)
  PROVE  Kept'
<1> USE Callers1 DEF Goto, closing, writing, world, marks
<1>1. CASE Tick
  <2>1. /\ UNCHANGED <<pingSent, out, inbox, raw, client, net, cut, overtaken>>
        /\ aged' = (aged \/ pc[Reader] # "clear")
        /\ pc[Loop] = "idle" /\ pc' = [pc EXCEPT ![Loop] = IF pingSent THEN "idle" ELSE "arm"]
    BY <1>1 DEF Tick
  <2>2. pc'[Reader] = pc[Reader] /\ (~pingSent => pc'[Loop] # "idle")
    BY <2>1 DEF KeptInv, Typed, TypeOK
  <2>3. PongToCome' <=> PongToCome
    BY <2>1, <2>2 DEF PongToCome
  <2>4. Ended' <=> Ended
    BY <2>1, <2>2 DEF Ended
  <2>5. PongInv'
    BY <2>1, <2>3, <2>4 DEF KeptInv, PongInv
  <2>6. AgedInv'
    BY <2>1, <2>2, <2>4 DEF KeptInv, AgedInv
  <2>7. AnsweringClientIsKept'
    BY <2>1 DEF KeptInv, AnsweringClientIsKept
  <2> QED  BY <2>5, <2>6, <2>7 DEF Kept
<1>2. ASSUME NEW g \in Pingers, StoreSent(g) PROVE Kept'
  <2>1. /\ UNCHANGED <<out, inbox, raw, client, net, cut, aged>>
        /\ pingSent' = TRUE /\ overtaken' = (overtaken \/ ~PongToCome)
        /\ pc' = [pc EXCEPT ![g] = IF g = Loop THEN "idle" ELSE "nil"]
    BY <1>2 DEF StoreSent
  <2>2. pc'[Reader] = pc[Reader]
    BY <2>1 DEF KeptInv, Typed, TypeOK
  <2>3. PongToCome' <=> PongToCome
    BY <2>1, <2>2 DEF PongToCome
  <2>4. PongInv'
    BY <2>1, <2>3 DEF PongInv
  <2>5. AgedInv'
    BY <2>1, <2>2 DEF KeptInv, AgedInv
  <2>6. AnsweringClientIsKept'
    BY <2>1 DEF KeptInv, AnsweringClientIsKept
  <2> QED  BY <2>4, <2>5, <2>6 DEF Kept
<1>3. ASSUME NEW g \in Pingers, UserPing(g) PROVE Kept'
  <2>1. /\ g \in Users
        /\ UNCHANGED <<pingSent, aged, cut, overtaken, out, inbox, client, net, raw>>
        /\ pc' = [pc EXCEPT ![g] = IF pingSent THEN "err" ELSE "arm"]
    BY <1>3 DEF UserPing
  <2>2. pc'[Reader] = pc[Reader] /\ pc'[Loop] = pc[Loop]
    BY <2>1 DEF KeptInv, Typed, TypeOK
  <2>3. Ended' <=> Ended
    BY <2>1, <2>2 DEF Ended
  <2> QED  BY <2>1, <2>2, <2>3, KeptByOthers
<1> QED  BY <1>1, <1>2, <1>3

(* The reader takes the frames, and with the pong the age of the deadline. *)
LEMMA ReadKept ==
  ASSUME KeptInv, Reads
  PROVE  Kept'
<1> USE Callers1 DEF Goto, closing, writing, world, marks
<1>1. pc \in [Callers -> Places]
  BY DEF KeptInv, Typed, TypeOK
<1>2. CASE ReadData
  <2>1. /\ UNCHANGED <<pc, pingSent, out, raw, client, net, cut, overtaken>>
        /\ aged' = FALSE /\ pc[Reader] = "read"
        /\ inbox # <<>> /\ Head(inbox).op = "data" /\ inbox' = Tail(inbox)
    BY <1>2 DEF ReadData
  <2>2. PongToCome => PongToCome'
    BY <2>1, PongStaysInTail DEF KeptInv
  <2> QED  BY <2>1, <2>2 DEF Kept, KeptInv, PongInv, AgedInv, AnsweringClientIsKept, Ended
<1>3. CASE ReadPing
  <2>1. /\ UNCHANGED <<pingSent, out, raw, client, net, aged, cut, overtaken>>
        /\ pc[Reader] = "read" /\ pc' = [pc EXCEPT ![Reader] = "arm"]
        /\ inbox # <<>> /\ Head(inbox).op = "ping" /\ inbox' = Tail(inbox)
    BY <1>3 DEF ReadPing
  <2>2. PongToCome => PongToCome'
    BY <2>1, PongStaysInTail DEF KeptInv
  <2>3. pc'[Loop] = pc[Loop] /\ pc'[Reader] = "arm"
    BY <1>1, <2>1
  <2> QED
    BY <2>1, <2>2, <2>3 DEF Kept, KeptInv, PongInv, AgedInv, AnsweringClientIsKept, Ended
<1>4. CASE ReadPong
  <2>1. /\ UNCHANGED <<pingSent, out, raw, client, net, cut, overtaken>>
        /\ pc[Reader] = "read"
        /\ \/ ~pingSent /\ pc' = pc /\ aged' = aged
           \/ aged' = FALSE /\ pc' = [pc EXCEPT ![Reader] = "clear"]
           \/ aged' = aged /\ pc' = [pc EXCEPT ![Reader] = "close"]
    BY <1>4 DEF ReadPong
  <2>2. pc'[Loop] = pc[Loop]
    BY <1>1, <2>1
  <2>3. CASE ~pingSent /\ pc' = pc /\ aged' = aged
    BY <2>1, <2>3 DEF Kept, KeptInv, PongInv, AgedInv, AnsweringClientIsKept, Ended
  <2>4. CASE aged' = FALSE /\ pc' = [pc EXCEPT ![Reader] = "clear"]
    <3>1. pc'[Reader] = "clear"
      BY <1>1, <2>4
    <3>2. PongToCome'
      BY <3>1 DEF PongToCome
    <3> QED  BY <2>1, <2>4, <3>2 DEF Kept, KeptInv, PongInv, AgedInv, AnsweringClientIsKept
  <2>5. CASE aged' = aged /\ pc' = [pc EXCEPT ![Reader] = "close"]
    <3>1. pc'[Reader] = "close" /\ Ended'
      BY <1>1, <2>5 DEF Ended
    <3> QED  BY <2>1, <3>1 DEF Kept, KeptInv, PongInv, AgedInv, AnsweringClientIsKept
  <2> QED  BY <2>1, <2>3, <2>4, <2>5
<1>5. CASE ReadPayload
  <2>1. /\ UNCHANGED <<pingSent, aged, cut, overtaken, out, inbox, client, net, raw>>
        /\ pc[Reader] = "payload" /\ pc' = [pc EXCEPT ![Reader] = "frame"]
    BY <1>5 DEF ReadPayload
  <2>2. pc'[Loop] = pc[Loop] /\ pc'[Reader] = "frame"
    BY <1>1, <2>1
  <2>3. Ended => Ended'
    BY <2>1, <2>2 DEF Ended
  <2> QED  BY <2>1, <2>2, <2>3, KeptByOthers
<1>6. CASE StoreCleared
  <2>1. /\ UNCHANGED <<aged, cut, overtaken, client>>
        /\ pingSent' = FALSE
        /\ pc[Reader] = "clear" /\ pc' = [pc EXCEPT ![Reader] = "read"]
    BY <1>6 DEF StoreCleared
  <2>2. pc'[Reader] = "read"
    BY <1>1, <2>1
  <2> QED  BY <2>1, <2>2 DEF Kept, KeptInv, PongInv, AgedInv, AnsweringClientIsKept
<1>7. CASE ReadFails
  <2>1. /\ UNCHANGED <<pingSent, aged, cut, overtaken, client>>
        /\ pc' = [pc EXCEPT ![Reader] = "close"]
    BY <1>7 DEF ReadFails
  <2>2. pc'[Reader] = "close" /\ Ended'
    BY <1>1, <2>1 DEF Ended
  <2> QED  BY <2>1, <2>2 DEF Kept, KeptInv, PongInv, AgedInv, AnsweringClientIsKept
<1>8. CASE DeadlinePasses
  <2>1. /\ UNCHANGED <<pingSent, aged, overtaken, client>>
        /\ cut' = TRUE /\ pc' = [pc EXCEPT ![Reader] = "close"]
        /\ raw = "open" /\ net = "up"
        /\ (pc[Reader] = "read" /\ inbox = <<>>) \/ client # "answers"
        /\ client # "answers" \/ (aged /\ Quiet)
    BY <1>8 DEF DeadlinePasses
  <2>2. pc'[Reader] = "close" /\ Ended'
    BY <1>1, <2>1 DEF Ended
  <2>3. client # "answers" \/ overtaken
    <3> SUFFICES ASSUME client = "answers" PROVE overtaken
      OBVIOUS
    <3>1. ~Ended
      BY <2>1 DEF Ended, KeptInv, Typed, TypeOK
    <3>2. pc[Loop] = "idle" /\ out = <<>>
      BY <2>1 DEF Quiet, KeptInv, Typed, LoopPlaces
    <3>3. ~PongToCome
      BY <2>1, <3>2 DEF PongToCome
    <3> QED  BY <2>1, <3>1, <3>2, <3>3 DEF KeptInv, PongInv, AgedInv
  <2> QED  BY <2>1, <2>2, <2>3 DEF Kept, PongInv, AgedInv, AnsweringClientIsKept
<1> QED  BY <1>2, <1>3, <1>4, <1>5, <1>6, <1>7, <1>8 DEF Reads

(* The client, the network, the timer and the data message keep KeptInv.   *)
LEMMA AroundKept ==
  ASSUME KeptInv, Around
  PROVE  Kept'
<1> USE DEF closing, writing, world, marks
<1>1. UNCHANGED <<pc, pingSent, raw, aged, cut, overtaken>>
  BY DEF Around, SendData, TimerFires, ClientNext, ClientReceives, ClientSends, ClientStops,
         NetBreaks
<1>2. CASE ClientReceives
  <2>1. client' \in {client, "lost"} /\ net' = net /\ client = "answers"
    BY <1>2 DEF ClientReceives
  <2>2. PongToCome => PongToCome' \/ Ended'
    BY <2>1, <1>2, PongStaysAtClient DEF Ended, KeptInv
  <2> QED
    BY <1>1, <2>1, <2>2
       DEF Kept, KeptInv, PongInv, AgedInv, AnsweringClientIsKept, Ended
<1>3. CASE SendData \/ TimerFires \/ ClientSends \/ ClientStops \/ NetBreaks
  <2>1. /\ out' = out
        /\ inbox' = inbox \/ \E f \in Own : inbox' = Append(inbox, f)
        /\ client' \in {client, "silent"} /\ net' \in {net, "down"}
    BY <1>3 DEF SendData, TimerFires, ClientSends, ClientStops, NetBreaks
  <2>2. Ended => Ended'
    BY <1>1, <2>1 DEF Ended
  <2>3. Own \subseteq ClientFrames
    BY FramesTyped DEF KeptInv
  <2> QED  BY <1>1, <2>1, <2>2, <2>3, KeptByOthers
<1> QED  BY <1>2, <1>3 DEF Around, ClientNext

(* Every step of KeepAlive keeps KeptInv.                                  *)
LEMMA KeptStep == KeptInv /\ [Next]_vars => KeptInv'
<1> SUFFICES ASSUME KeptInv, [Next]_vars PROVE KeptInv'
  OBVIOUS
<1>1. CASE UNCHANGED vars
  <2>1. UNCHANGED <<pc, pingSent, load, length, ctlLock, writeLock, timer, out, once, done,
                    raw, sends, inbox, own, client, net, aged, cut, overtaken>>
    BY <1>1 DEF vars, writing, closing, world, marks
  <2>2. Typed'
    BY <2>1 DEF KeptInv, Typed, TypeOK
  <2>3. (PongInv /\ AgedInv /\ AnsweringClientIsKept)'
    BY <2>1 DEF KeptInv, PongInv, AgedInv, AnsweringClientIsKept, PongToCome, Ended
  <2> QED  BY <2>2, <2>3 DEF KeptInv
<1>2. ASSUME NEW g \in Callers, Control(g) \/ Close(g) PROVE KeptInv'
  BY <1>2, ControlTyped, CloseTyped, ControlKept DEF KeptInv, Kept
<1>3. ASSUME Tick \/ \E g \in Pingers : StoreSent(g) \/ UserPing(g) PROVE KeptInv'
  BY <1>3, PingTyped, PingKept DEF KeptInv, Kept
<1>4. CASE Reads
  BY <1>4, ReadTyped, ReadKept DEF KeptInv, Kept
<1>5. CASE Around
  BY <1>5, AroundTyped, AroundKept DEF KeptInv, Kept
<1>6. CASE LoopNext
  BY <1>2, <1>3, <1>6, Callers1 DEF LoopNext
<1>7. ASSUME NEW g \in Users, UserNext(g) PROVE KeptInv'
  BY <1>2, <1>3, <1>7, Callers1 DEF UserNext, Pingers
<1>8. CASE ReaderNext
  BY <1>2, <1>4, <1>8, Callers1 DEF ReaderNext, Reads
<1> QED  BY <1>1, <1>5, <1>6, <1>7, <1>8 DEF Next, Around
-----------------------------------------------------------------------------
(* Upgrade implements KeepAlive: the connection is untouched until the     *)
(* answer is written, and all that happens to it then KeepAlive allows.    *)

Unanswered == {"request", "middlewares", "respond", "refused"}
UntouchedInv == phase \in Unanswered \cup Answered /\ (phase \in Unanswered => Init)

(* The last step of CloseWithCode and what is left to the limiter.         *)
LimiterInv ==
  /\ limited \in BOOLEAN /\ late \in BOOLEAN
  /\ phase # "returned" => ~limited
  /\ once = Final => ~limited \/ late

(* Before the answer nothing of the connection moves; a step of the        *)
(* connection is one of KeepAlive.                                         *)
LEMMA ConnectionStep ==
  ASSUME UntouchedInv, [UpgradeNext]_all
  PROVE  [Next]_vars /\ UntouchedInv'
<1> USE DEF Unanswered, Answered, HandedOut, Returned
<1>1. CASE Validate \/ RunMiddleware \/ Hijack
  <2>1. /\ phase \in {"request", "middlewares"}
        /\ phase' \in {"request", "middlewares", "respond", "refused"} /\ UNCHANGED vars
    BY <1>1 DEF Validate, RunMiddleware, Hijack, Refuse
  <2>2. Init => Init'
    BY <2>1 DEF Init, vars, writing, closing, world, marks
  <2> QED  BY <2>1, <2>2 DEF UntouchedInv
<1>2. CASE Respond
  <2>1. phase = "respond" /\ phase' \in {"connect", "failed"}
    BY <1>2 DEF Respond
  <2>2. net = "up" /\ once = NoOne
    BY <2>1 DEF UntouchedInv, Init
  <2>3. UNCHANGED vars \/ NetBreaks
    BY <1>2, <2>2 DEF Respond, NetBreaks
  <2> QED  BY <2>1, <2>3 DEF Next, UntouchedInv
<1>3. CASE AddClient \/ UNCHANGED all
  <2>1. /\ UNCHANGED vars
        /\ phase' = phase \/ phase' = "returned"
    BY <1>3 DEF AddClient, all, upgrading
  <2>2. Init => Init'
    BY <2>1 DEF Init, vars, writing, closing, world, marks
  <2> QED  BY <2>1, <2>2 DEF UntouchedInv
<1>4. CASE Runs(Answered, LoopNext) \/ Runs(Answered, TimerFires)
             \/ Runs(HandedOut, ReaderNext)
             \/ (\E g \in Users : Runs(Returned, UserNext(g)))
             \/ Runs(Returned, SendData) \/ Runs(HandedOut, ClientNext)
             \/ Runs(HandedOut, NetBreaks)
  <2>1. Next /\ phase \in Answered /\ phase' = phase
    BY <1>4 DEF Runs, Next
  <2> QED  BY <2>1 DEF UntouchedInv
<1> QED  BY <1>1, <1>2, <1>3, <1>4 DEF UpgradeNext

(* Until newConn the connection is as Init says.                           *)
LEMMA Untouched == UpgradeSpec => []UntouchedInv
<1>1. UpgradeInit => UntouchedInv
  BY DEF UpgradeInit, UntouchedInv, Unanswered
<1>2. UntouchedInv /\ [UpgradeNext]_all => UntouchedInv'
  BY ConnectionStep
<1> QED  BY <1>1, <1>2, PTL DEF UpgradeSpec

(* A connection that Upgrade makes keeps alive as KeepAlive says: Upgrade  *)
(* refines it, the failure to write the answer being a network that breaks.*)
THEOREM UpgradeKeepsAlive == UpgradeSpec => Spec
<1>1. UpgradeInit => Init
  BY DEF UpgradeInit
<1>2. UntouchedInv /\ [UpgradeNext]_all => [Next]_vars
  BY ConnectionStep
<1> QED  BY <1>1, <1>2, Untouched, PTL DEF UpgradeSpec, Spec

(* KeptInv holds in every reachable state of KeepAlive.                    *)
LEMMA Inductive == Spec => []KeptInv
BY KeptInit, KeptStep, PTL DEF Spec

(* The variables of KeepAlive stay in their ranges, and the lock of the    *)
(* control writer is with the caller between LockControl and its deferred  *)
(* unlock, on every way out.                                               *)
THEOREM KeepAliveTypeCorrect == Spec => []TypeOK
<1>1. KeptInv => TypeOK
  BY DEF KeptInv, Typed
<1> QED  BY <1>1, Inductive, PTL

(* The read deadline never passes on a client that answers every ping,     *)
(* with any number of Pings beside the loop's, unless a pong overtook the  *)
(* Store of the ping it answers.                                           *)
THEOREM AnswersKeepAlive == UpgradeSpec => []AnsweringClientIsKept
<1>1. KeptInv => AnsweringClientIsKept
  BY DEF KeptInv
<1> QED  BY <1>1, Inductive, UpgradeKeepsAlive, PTL

(* What a close removes from the limiter's map does not come back, and     *)
(* what stays there once the connection is closed was added too late: by   *)
(* an Upgrade that had not returned when the connection closed.            *)
LimiterForgets == once = Final => (limited => late)

(* The limiter's map is as LimiterInv says in every reachable state.       *)
LEMMA LimiterLemma == UpgradeSpec => []LimiterInv
<1>1. UpgradeInit => LimiterInv
  BY Callers1 DEF UpgradeInit, Init, LimiterInv
<1>2. LimiterInv /\ [UpgradeNext]_all => LimiterInv'
  <2> SUFFICES ASSUME LimiterInv, [UpgradeNext]_all PROVE LimiterInv'
    OBVIOUS
  <2>1. CASE Validate \/ RunMiddleware \/ Hijack
    <3>1. /\ phase \in {"request", "middlewares"} /\ phase' # "returned"
          /\ UNCHANGED <<limited, late, once>>
      BY <2>1 DEF Validate, RunMiddleware, Hijack, Refuse, vars, closing
    <3> QED  BY <3>1 DEF LimiterInv
  <2>2. CASE Respond
    <3>1. phase = "respond" /\ phase' # "returned" /\ UNCHANGED <<limited, late, once>>
      BY <2>2 DEF Respond, vars, closing
    <3> QED  BY <3>1 DEF LimiterInv
  <2>3. CASE AddClient
    <3>1. /\ phase' = "returned" /\ limited' = TRUE /\ late' = (once = Final)
          /\ once' = once
      BY <2>3 DEF AddClient, vars, closing
    <3> QED  BY <3>1 DEF LimiterInv
  <2>4. CASE UNCHANGED all
    BY <2>4 DEF all, upgrading, vars, closing, LimiterInv
  <2>5. CASE RemoveClient /\ UNCHANGED <<phase, late>>
    <3>1. /\ limited' = (limited /\ (once = Final \/ once' # Final))
          /\ late' = late /\ phase' = phase
      BY <2>5 DEF RemoveClient
    <3> QED  BY <3>1 DEF LimiterInv
  <2> QED  BY <2>1, <2>2, <2>3, <2>4, <2>5 DEF UpgradeNext, Runs
<1> QED  BY <1>1, <1>2, PTL DEF UpgradeSpec

(* A connection that is done is not in the limiter's map, unless           *)
(* addClient came late.                                                    *)
THEOREM LimiterForgetsClosed == UpgradeSpec => []LimiterForgets
<1>1. LimiterInv => LimiterForgets
  BY DEF LimiterInv, LimiterForgets
<1> QED  BY <1>1, LimiterLemma, PTL
-----------------------------------------------------------------------------
(* The handshake.                                                          *)

(* A set of naturals has its minimum.                                      *)
LEMMA MinIsLeast ==
  ASSUME NEW S, S \subseteq Nat, S # {}
  PROVE  Min(S) \in S /\ \A n \in S : Min(S) <= n
<1>1. PICK m \in S : \A n \in S : ~ (<<n, m>> \in OpToRel(<, Nat))
  BY NatLessThanWellFounded, WFMin, Zenon
<1>2. \A i, j \in Nat : <<j, i>> \in OpToRel(<, Nat) <=> j < i
  BY DEF OpToRel
<1>3. \A i, j \in Nat : ~ (j < i) => i <= j
  OBVIOUS
<1>4. \A n \in S : m <= n
  BY <1>1, <1>2, <1>3, Zenon
<1> QED  BY <1>4 DEF Min

(* What Get finds in its one line some line says; with one line at most    *)
(* nothing else is said.                                                   *)
LEMMA GetSays ==
  ASSUME NEW lines \in Lines, NEW token
  PROVE  /\ Names(lines, token) => Says(lines, token)
         /\ Len(lines) < 2 => (Says(lines, token) => Names(lines, token))
<1>1. CASE lines = <<>>
  <2>1. DOMAIN lines = {} /\ Get(lines) = <<>> /\ DOMAIN Get(lines) = {}
    BY <1>1 DEF Get
  <2> QED  BY <2>1 DEF Names, Says, ToSet
<1>2. CASE lines # <<>>
  <2>1. Get(lines) = lines[1] /\ 1 \in DOMAIN lines
    BY <1>2 DEF Get, Lines
  <2>2. Len(lines) < 2 => Len(lines) = 1
    <3>1. Len(lines) \in Nat \ {0}
      BY <1>2, EmptySeq DEF Lines
    <3>2. \A n \in Nat \ {0} : n < 2 => n = 1
      OBVIOUS
    <3> QED  BY <3>1, <3>2, Zenon
  <2>3. Len(lines) < 2 => \A i \in DOMAIN lines : i = 1
    BY <2>2 DEF Lines
  <2> QED  BY <2>1, <2>3 DEF Names, Says
<1> QED  BY <1>1, <1>2

(* selectSubProtocol returns a protocol the server supports or none, and   *)
(* the one that the client prefers when its offers are in one line.        *)
LEMMA SelectsPreferred ==
  ASSUME NEW r \in Requests, NEW s \in Settings
  PROVE  LET p == SelectSubProtocol(r, s.subProtocols)
         IN  /\ p = "" \/ p \in ToSet(s.subProtocols)
             /\ Len(r.protocols) < 2 => Preferred(p, r.protocols, s.subProtocols)
<1> DEFINE offers == Get(r.protocols)
           fits == {i \in DOMAIN offers : offers[i] \in ToSet(s.subProtocols)}
           p == SelectSubProtocol(r, s.subProtocols)
<1>1. r.protocols \in Seq(Seq(STRING))
  BY UpgradeAssumption DEF UpgradeAssumption, Lines
<1>2. offers \in Seq(STRING)
  BY <1>1 DEF Get
<1>3. /\ fits \subseteq Nat
      /\ p = IF fits = {} THEN "" ELSE offers[Min(fits)]
  BY <1>2 DEF SelectSubProtocol
<1>4. p = "" \/ p \in ToSet(s.subProtocols)
  BY <1>3, MinIsLeast
<1>5. ASSUME Len(r.protocols) < 2
      PROVE  Preferred(p, r.protocols, s.subProtocols)
  <2>1. CASE r.protocols = <<>>
    <3>1. DOMAIN r.protocols = {} /\ DOMAIN offers = {}
      BY <2>1 DEF Get
    <3> QED  BY <1>3, <3>1 DEF Preferred
  <2>2. CASE r.protocols # <<>>
    <3>1. DOMAIN r.protocols = {1} /\ offers = r.protocols[1]
      BY <1>1, <1>5, <2>2 DEF Get
    <3>2. CASE fits = {}
      <4>1. p = "" /\ \A j \in DOMAIN offers : offers[j] \notin ToSet(s.subProtocols)
        BY <1>3, <3>2
      <4> HIDE DEF p, fits, offers
      <4> QED  BY <3>1, <4>1 DEF Preferred
    <3>3. CASE fits # {}
      <4>1. Min(fits) \in fits /\ \A j \in fits : Min(fits) <= j
        BY <1>3, <3>3, MinIsLeast
      <4>2. \A l \in DOMAIN offers : l < Min(fits) => offers[l] \notin ToSet(s.subProtocols)
        <5> SUFFICES ASSUME NEW l \in DOMAIN offers, l < Min(fits),
                            offers[l] \in ToSet(s.subProtocols)
                     PROVE  FALSE
          OBVIOUS
        <5>1. l \in fits /\ l \in Nat /\ Min(fits) \in Nat
          BY <1>2, <4>1
        <5>2. Min(fits) <= l
          BY <4>1, <5>1
        <5> HIDE DEF fits
        <5> QED  BY <5>1, <5>2
      <4>3. p = offers[Min(fits)]
        BY <1>3, <3>3
      <4>4. \A k \in 1..1 : k = 1
        OBVIOUS
      <4>5. /\ p = r.protocols[1][Min(fits)] /\ p \in ToSet(s.subProtocols)
            /\ Min(fits) \in DOMAIN r.protocols[1]
        BY <3>1, <4>1, <4>3
      <4>6. \A k \in 1..1 : \A l \in DOMAIN r.protocols[k] :
              k < 1 \/ l < Min(fits) => r.protocols[k][l] \notin ToSet(s.subProtocols)
        BY <3>1, <4>2, <4>4
      <4>7. \E j \in DOMAIN r.protocols[1] :
              /\ p = r.protocols[1][j] /\ r.protocols[1][j] \in ToSet(s.subProtocols)
              /\ \A k \in 1..1 : \A l \in DOMAIN r.protocols[k] :
                   k < 1 \/ l < j => r.protocols[k][l] \notin ToSet(s.subProtocols)
        BY <4>5, <4>6
      <4> HIDE DEF p, fits, offers
      <4> QED  BY <3>1, <4>7 DEF Preferred
    <3> QED  BY <3>2, <3>3
  <2> QED  BY <2>1, <2>2
<1> QED  BY <1>4, <1>5

(* A request with no problem is legal, and a legal one has a problem only  *)
(* when a header comes in two lines.                                       *)
LEMMA LegalHasNoProblem ==
  ASSUME NEW r \in Requests
  PROVE  LET found == {i \in DOMAIN Problems(r) : Problems(r)[i].fails}
         IN  /\ found = {} => Legal(r)
             /\ Legal(r) /\ OneLineEach(r) => found = {}
             /\ found # {} => Problems(r)[Min(found)].status \in {400, 405, 426}
<1> DEFINE found == {i \in DOMAIN Problems(r) : Problems(r)[i].fails}
<1>1. r.upgrade \in Lines /\ r.connection \in Lines
  BY UpgradeAssumption DEF UpgradeAssumption
<1>2. DOMAIN Problems(r) = 1..5
  BY DEF Problems
<1>3. /\ Problems(r)[1].fails <=> ~r.get
      /\ Problems(r)[2].fails <=> ~Names(r.upgrade, "websocket")
      /\ Problems(r)[3].fails <=> ~Names(r.connection, "upgrade")
      /\ Problems(r)[4].fails <=> r.version # "13"
      /\ Problems(r)[5].fails <=> r.key # "16 bytes"
  BY DEF Problems
<1>4. found = {} => Legal(r)
  <2>1. ASSUME found = {} PROVE \A i \in 1..5 : ~Problems(r)[i].fails
    BY <1>2, <2>1
  <2>2. ASSUME found = {}
        PROVE  /\ r.get /\ r.version = "13" /\ r.key = "16 bytes"
               /\ Names(r.upgrade, "websocket") /\ Names(r.connection, "upgrade")
    <3>1. \A i \in {1, 2, 3, 4, 5} : ~Problems(r)[i].fails
      BY <2>1, <2>2
    <3>2. /\ ~Problems(r)[1].fails /\ ~Problems(r)[2].fails /\ ~Problems(r)[3].fails
          /\ ~Problems(r)[4].fails /\ ~Problems(r)[5].fails
      BY <3>1
    <3> QED  BY <1>3, <3>2
  <2> HIDE DEF found
  <2> QED  BY <1>1, <2>2, GetSays DEF Legal
<1>5. Legal(r) /\ OneLineEach(r) => found = {}
  <2> SUFFICES ASSUME Legal(r), OneLineEach(r), NEW i \in 1..5 PROVE ~Problems(r)[i].fails
    BY <1>2
  <2>1. Names(r.upgrade, "websocket") /\ Names(r.connection, "upgrade")
    BY <1>1, GetSays DEF Legal, OneLineEach
  <2>2. i = 1 \/ i = 2 \/ i = 3 \/ i = 4 \/ i = 5
    OBVIOUS
  <2> QED  BY <1>3, <2>1, <2>2 DEF Legal
<1>6. found # {} => Problems(r)[Min(found)].status \in {400, 405, 426}
  <2>1. found # {} => Min(found) \in 1..5
    BY <1>2, MinIsLeast
  <2>2. /\ Problems(r)[1].status = 405 /\ Problems(r)[2].status = 426
        /\ Problems(r)[3].status = 400 /\ Problems(r)[4].status = 400
        /\ Problems(r)[5].status = 400
    BY DEF Problems
  <2> QED  BY <2>1, <2>2
<1> QED  BY <1>4, <1>5, <1>6
(* The subprotocol is the one that the client prefers, or RejectRaw is off.*)
Served ==
  /\ OneLineEach(req) => Preferred(subProtocol, req.protocols, conf.subProtocols)
  /\ conf.rejectRaw => subProtocol # ""

Unserved == conf.rejectRaw /\ Preferred("", req.protocols, conf.subProtocols)
Stopped == \E i \in DOMAIN conf.middlewares : conf.middlewares[i] # "nil"

(* A request that has passed the checks is legal, has its subprotocol, and *)
(* no middleware so far has stopped it.                                    *)
Accepted ==
  /\ Legal(req) /\ Served
  /\ ran \in 0..Len(conf.middlewares)
  /\ \A i \in 1..ran : conf.middlewares[i] = "nil"

(* Why a request was refused.                                              *)
RefusedRightly ==
  /\ answer \in {400, 403, 405, 426, 500}
  /\ ran # 0 => Legal(req)
  /\ Legal(req) /\ OneLineEach(req) => Unserved \/ Stopped \/ answer = 500

HandshakeInv ==
  /\ phase \in Unanswered \cup Answered
  /\ ran \in Nat
  /\ phase \in Unanswered => req \in Requests /\ conf \in Settings
  /\ phase \in Answered => req = NoOne /\ conf = NoOne
  /\ phase \in Answered \cup {"request"} => answer = 0 /\ ran = 0 /\ subProtocol = ""
  /\ phase \in {"middlewares", "respond"} => Accepted
  /\ phase = "middlewares" => answer = 0
  /\ phase = "respond" => answer = 101 /\ ran = Len(conf.middlewares)
  /\ phase = "refused" => RefusedRightly
  /\ subProtocol = "" \/ subProtocol \in ToSet(conf.subProtocols)

(* The request and the settings do not change before the answer.           *)
LEMMA SameRequest ==
  ASSUME UNCHANGED <<req, conf>>
  PROVE  /\ Legal(req)' <=> Legal(req)
         /\ OneLineEach(req)' <=> OneLineEach(req)
         /\ Unserved' <=> Unserved
         /\ Stopped' <=> Stopped
         /\ subProtocol' = subProtocol => (Served' <=> Served)
<1>1. req' = req /\ conf' = conf
  OBVIOUS
<1>2. Legal(req)' <=> Legal(req)
  BY <1>1, Zenon
<1>3. OneLineEach(req)' <=> OneLineEach(req)
  BY <1>1, Zenon
<1>4. Unserved' <=> Unserved
  BY <1>1, Zenon DEF Unserved
<1>5. Stopped' <=> Stopped
  BY <1>1, Zenon DEF Stopped
<1>6. ASSUME subProtocol' = subProtocol PROVE Served' <=> Served
  BY <1>1, <1>3, <1>6, Zenon DEF Served
<1> QED  BY <1>2, <1>3, <1>4, <1>5, <1>6

(* The checks and the choice of the subprotocol.                           *)
LEMMA ValidateInv ==
  ASSUME HandshakeInv, Validate
  PROVE  HandshakeInv'
<1> DEFINE found == {i \in DOMAIN Problems(req) : Problems(req)[i].fails}
           first == Problems(req)[Min(found)].status
           sub == SelectSubProtocol(req, conf.subProtocols)
           bare == sub = "" /\ conf.rejectRaw
<1>1. /\ phase = "request" /\ req \in Requests /\ conf \in Settings
      /\ answer = 0 /\ ran = 0 /\ subProtocol = ""
      /\ UNCHANGED <<req, conf, ran>>
  BY DEF Validate, HandshakeInv, Unanswered
<1>2. /\ found = {} => Legal(req)
      /\ Legal(req) /\ OneLineEach(req) => found = {}
      /\ found # {} => first \in {400, 405, 426}
  BY <1>1, LegalHasNoProblem
<1>3. /\ sub = "" \/ sub \in ToSet(conf.subProtocols)
      /\ OneLineEach(req) => Preferred(sub, req.protocols, conf.subProtocols)
  BY <1>1, SelectsPreferred DEF OneLineEach
<1>4. \/ found # {} /\ phase' = "refused" /\ answer' = first /\ subProtocol' = subProtocol
      \/ /\ found = {} /\ subProtocol' = sub
         /\ \/ bare /\ phase' = "refused" /\ answer' = 400
            \/ ~bare /\ phase' = "middlewares" /\ answer' = answer
  BY Zenon DEF Validate, Refuse
<1>5. bare /\ OneLineEach(req) => Unserved
  BY <1>3, Zenon DEF Unserved
<1>6. ~bare /\ subProtocol' = sub => Served'
  BY <1>1, <1>3, SameRequest, Zenon DEF Served
<1> HIDE DEF found, first, sub, bare
<1>7. CASE found # {} /\ phase' = "refused" /\ answer' = first /\ subProtocol' = subProtocol
  <2>1. RefusedRightly'
    BY <1>1, <1>2, <1>7, SameRequest DEF RefusedRightly
  <2> QED  BY <1>1, <1>7, <2>1 DEF HandshakeInv, Unanswered, Answered
<1>8. CASE found = {} /\ subProtocol' = sub /\ bare /\ phase' = "refused" /\ answer' = 400
  <2>1. RefusedRightly'
    BY <1>1, <1>5, <1>8, SameRequest DEF RefusedRightly
  <2> QED  BY <1>1, <1>3, <1>8, <2>1 DEF HandshakeInv, Unanswered, Answered
<1>9. CASE /\ found = {} /\ subProtocol' = sub /\ ~bare
           /\ phase' = "middlewares" /\ answer' = answer
  <2>1. conf.middlewares \in Seq({"nil", "error", "MiddlewareErr"})
    BY <1>1, UpgradeAssumption DEF UpgradeAssumption
  <2>2. ran' \in 0..Len(conf.middlewares)' /\ \A i \in 1..ran' : FALSE
    <3>1. Len(conf.middlewares) \in Nat
      BY <2>1, LenProperties
    <3>2. \A n \in Nat : 0 \in 0..n
      OBVIOUS
    <3>3. \A i \in 1..0 : FALSE
      OBVIOUS
    <3> QED  BY <1>1, <3>1, <3>2, <3>3, Zenon
  <2>3. Accepted'
    BY <1>1, <1>2, <1>6, <1>9, <2>2, SameRequest DEF Accepted
  <2> QED  BY <1>1, <1>3, <1>9, <2>3 DEF HandshakeInv, Unanswered, Answered
<1> QED  BY <1>4, <1>7, <1>8, <1>9

(* A middleware, which may refuse; then the hijack, which may fail.        *)
LEMMA MiddlewareInv ==
  ASSUME HandshakeInv, RunMiddleware \/ Hijack
  PROVE  HandshakeInv'
<1> DEFINE chain == conf.middlewares
<1>1. /\ phase = "middlewares" /\ req \in Requests /\ conf \in Settings
      /\ answer = 0 /\ Accepted /\ ran \in Nat
      /\ UNCHANGED <<req, conf, subProtocol>>
  BY DEF RunMiddleware, Hijack, HandshakeInv, Unanswered
<1>2. chain \in Seq({"nil", "error", "MiddlewareErr"}) /\ chain' = chain
  BY <1>1, UpgradeAssumption DEF UpgradeAssumption
<1>3. /\ Legal(req) /\ Served /\ ran \in 0..Len(chain)
      /\ \A i \in 1..ran : chain[i] = "nil"
  BY <1>1 DEF Accepted
<1>4. /\ Legal(req)' /\ Served' /\ (Stopped' <=> Stopped)
      /\ subProtocol' = "" \/ subProtocol' \in ToSet(conf.subProtocols)'
  BY <1>1, <1>3, SameRequest DEF HandshakeInv
<1>5. CASE RunMiddleware
  <2>1. /\ ran < Len(chain) /\ ran' = ran + 1
        /\ \/ chain[ran + 1] = "nil" /\ UNCHANGED <<phase, answer>>
           \/ chain[ran + 1] # "nil" /\ phase' = "refused" /\ answer' \in {400, 403}
    BY <1>5 DEF RunMiddleware, Refuse
  <2>2. ran' \in 0..Len(chain) /\ ran' \in Nat /\ ran + 1 \in DOMAIN chain
    BY <1>1, <1>2, <2>1
  <2>3. CASE chain[ran + 1] = "nil" /\ UNCHANGED <<phase, answer>>
    <3>1. \A i \in 1..ran' : chain[i] = "nil"
      BY <1>1, <1>3, <2>1, <2>3
    <3>2. Accepted'
      BY <1>2, <1>4, <2>2, <3>1 DEF Accepted
    <3> QED  BY <1>1, <1>4, <2>2, <2>3, <3>2 DEF HandshakeInv, Unanswered, Answered
  <2>4. CASE chain[ran + 1] # "nil" /\ phase' = "refused" /\ answer' \in {400, 403}
    <3>1. Stopped
      BY <2>2, <2>4 DEF Stopped
    <3>2. RefusedRightly'
      BY <1>4, <2>4, <3>1 DEF RefusedRightly
    <3> QED  BY <1>1, <1>4, <2>2, <2>4, <3>2 DEF HandshakeInv, Unanswered, Answered
  <2> QED  BY <2>1, <2>3, <2>4
<1>6. CASE Hijack
  <2>1. /\ ran = Len(chain) /\ ran' = ran
        /\ \/ phase' = "refused" /\ answer' = 500
           \/ phase' = "respond" /\ answer' = 101
    BY <1>6 DEF Hijack, Refuse
  <2>2. CASE phase' = "refused" /\ answer' = 500
    <3>1. RefusedRightly'
      BY <1>4, <2>2 DEF RefusedRightly
    <3> QED  BY <1>1, <1>4, <2>1, <2>2, <3>1 DEF HandshakeInv, Unanswered, Answered
  <2>3. CASE phase' = "respond" /\ answer' = 101
    <3>1. Accepted'
      BY <1>2, <1>3, <1>4, <2>1 DEF Accepted
    <3> QED  BY <1>1, <1>2, <1>4, <2>1, <2>3, <3>1 DEF HandshakeInv, Unanswered, Answered
  <2> QED  BY <2>1, <2>2, <2>3
<1> QED  BY <1>5, <1>6

(* Every step keeps HandshakeInv.                                          *)
LEMMA HandshakeStep == HandshakeInv /\ [UpgradeNext]_all => HandshakeInv'
<1> SUFFICES ASSUME HandshakeInv, [UpgradeNext]_all PROVE HandshakeInv'
  OBVIOUS
<1>1. CASE Validate \/ RunMiddleware \/ Hijack
  BY <1>1, ValidateInv, MiddlewareInv
<1>2. CASE Respond
  <2>1. /\ phase' \in Answered /\ req' = NoOne /\ conf' = NoOne
        /\ subProtocol' = "" /\ ran' = 0 /\ answer' = 0
    BY <1>2 DEF Respond, Answered
  <2> QED  BY <2>1 DEF HandshakeInv, Answered, Unanswered
<1>3. CASE AddClient
  <2>1. phase = "connect" /\ phase' = "returned" /\ UNCHANGED handshake
    BY <1>3 DEF AddClient
  <2> QED  BY <2>1 DEF HandshakeInv, Answered, Unanswered, handshake
<1>4. CASE UNCHANGED <<phase, handshake>>
  <2>1. UNCHANGED <<phase, req, conf, subProtocol, ran, answer>>
    BY <1>4 DEF handshake
  <2>2. Accepted' <=> Accepted
    BY <2>1, SameRequest, Zenon DEF Accepted
  <2>3. RefusedRightly' <=> RefusedRightly
    BY <2>1, SameRequest DEF RefusedRightly
  <2> QED  BY <2>1, <2>2, <2>3, Zenon DEF HandshakeInv
<1>5. CASE UNCHANGED all
  BY <1>4, <1>5 DEF all, upgrading
<1> QED  BY <1>1, <1>2, <1>3, <1>4, <1>5 DEF UpgradeNext, Runs

(* HandshakeInv holds in every reachable state.                            *)
LEMMA Handshaken == UpgradeSpec => []HandshakeInv
<1>1. UpgradeInit => HandshakeInv
  <2>1. 0 \in Nat
    OBVIOUS
  <2> QED  BY <2>1 DEF UpgradeInit, HandshakeInv, Unanswered, Answered
<1> QED  BY <1>1, HandshakeStep, PTL DEF UpgradeSpec

(* The variables of the handshake stay in their ranges, and so do those of *)
(* the connection.                                                         *)
THEOREM UpgradeTypeCorrect == UpgradeSpec => []UpgradeTypeOK
<1>1. HandshakeInv /\ LimiterInv /\ TypeOK => UpgradeTypeOK
  <2> SUFFICES ASSUME HandshakeInv, LimiterInv, TypeOK PROVE UpgradeTypeOK
    OBVIOUS
  <2>1. answer \in {0, 101, 400, 403, 405, 426, 500}
    BY DEF HandshakeInv, Unanswered, RefusedRightly
  <2>2. req \in Requests \cup {NoOne} /\ conf \in Settings \cup {NoOne}
    BY DEF HandshakeInv
  <2> QED  BY <2>1, <2>2 DEF HandshakeInv, LimiterInv, UpgradeTypeOK, Unanswered
<1> QED  BY <1>1, Handshaken, LimiterLemma, KeepAliveTypeCorrect, UpgradeKeepsAlive, PTL

(* Upgrade answers 101 to a legal request that every middleware let pass   *)
(* and to no other, with the subprotocol the client prefers; it refuses a  *)
(* legal one only as RejectRaw, a middleware or the hijack says.           *)
THEOREM HandshakeCorrect == UpgradeSpec => []HandshakeIsRight
<1>1. HandshakeInv => HandshakeIsRight
  <2> SUFFICES ASSUME HandshakeInv PROVE HandshakeIsRight
    OBVIOUS
  <2>1. /\ \/ phase \in Answered \cup {"request"} /\ answer = 0 /\ ran = 0
           \/ phase = "middlewares" /\ answer = 0 /\ Legal(req)
           \/ phase = "respond" /\ Legal(req)
           \/ phase = "refused" /\ RefusedRightly
        /\ ran \in Nat
    BY Zenon DEF HandshakeInv, Unanswered, Accepted
  <2>2. answer = 101 => phase = "respond"
    BY <2>1 DEF RefusedRightly
  <2>3. ran > 0 => Legal(req)
    BY <2>1 DEF RefusedRightly
  <2>4. phase = "respond" =>
          Legal(req) /\ ~Stopped /\ Served /\ ran = Len(conf.middlewares)
    <3> SUFFICES ASSUME phase = "respond"
                 PROVE  Legal(req) /\ ~Stopped /\ Served /\ ran = Len(conf.middlewares)
      OBVIOUS
    <3>1. conf.middlewares \in Seq({"nil", "error", "MiddlewareErr"})
      BY UpgradeAssumption DEF UpgradeAssumption, HandshakeInv, Unanswered
    <3>2. Accepted /\ ran = Len(conf.middlewares)
      BY DEF HandshakeInv
    <3>3. ~Stopped
      BY <3>1, <3>2 DEF Stopped, Accepted
    <3> QED  BY <3>2, <3>3 DEF Accepted
  <2>5. phase = "refused" /\ Legal(req) /\ OneLineEach(req) =>
          Unserved \/ Stopped \/ answer = 500
    BY DEF HandshakeInv, RefusedRightly
  <2> QED
    BY <2>2, <2>3, <2>4, <2>5, Zenon DEF HandshakeIsRight, Stopped, Served, Unserved
<1> QED  BY <1>1, Handshaken, PTL
=============================================================================

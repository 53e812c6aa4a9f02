--------------------------- MODULE ManagerProofs ---------------------------
(***************************************************************************)
(* What TLAPS proves of Manager, for any set of connections, any keys and  *)
(* any way the connections share them.                                     *)
(***************************************************************************)
EXTENDS Manager, TLAPS

Places == {"upgraded", "hooked", "registered", "enabled", "connected"}
Stages == {"no", "done", "removed", "closed"}

(* The values of the variables, but for the counters, whose bounds follow  *)
(* from the rest.                                                          *)
Typed ==
  /\ conns \in [Keys -> Conns \cup {None}]
  /\ mu \in BOOLEAN
  /\ phase \in [Conns -> Places]
  /\ raw \subseteq Conns
  /\ closing \in [Conns -> Stages]
  /\ removed \in [Conns -> Conns \cup {None}]
  /\ registers \in [Conns -> Nat] /\ unregisters \in [Conns -> Nat]

(* What the map holds has passed Register, under its own key, and no       *)
(* unregister has taken it off: Register runs once for a connection.       *)
MapInv ==
  \A k \in Keys : conns[k] # None =>
    /\ KeyOf[conns[k]] = k
    /\ Registered(conns[k])
    /\ \A d \in Conns : removed[d] # conns[k]

(* An unregister takes one connection, which had its key, and no other     *)
(* unregister takes the same one.                                          *)
TakenInv ==
  \A c \in Conns :
    /\ closing[c] = "removed" => removed[c] # None
    /\ removed[c] # None => /\ closing[c] \in {"removed", "closed"}
                            /\ KeyOf[removed[c]] = KeyOf[c]
                            /\ Registered(removed[c])
    /\ \A d \in Conns : removed[c] # None /\ removed[c] = removed[d] => c = d

(* OnRegister and OnUnregister have run as often as the steps say.         *)
CountInv ==
  \A c \in Conns :
    /\ registers[c] = IF phase[c] = "connected" THEN 1 ELSE 0
    /\ unregisters[c] \in 0..1
    /\ unregisters[c] = 1 => \E d \in Conns : removed[d] = c /\ closing[d] = "closed"

(* How a registered connection gets off the map: another Register closes   *)
(* its raw, or an unregister takes it.                                     *)
LostInv ==
  \A c \in Conns : Registered(c) =>
    Tracked(c) \/ c \notin raw \/ \E d \in Conns : removed[d] = c

IInv == Typed /\ MapInv /\ TakenInv /\ CountInv /\ LostInv

-----------------------------------------------------------------------------
(* Connect, CloseWithCode and Shutdown keep the invariant.                 *)

(* IInv holds at the start.                                                *)
LEMMA InitInv == Init => IInv
<1> SUFFICES ASSUME Init PROVE IInv
  OBVIOUS
<1>1. Typed
  BY DEF Init, Typed, Places, Stages
<1>2. MapInv /\ TakenInv /\ LostInv
  BY DEF Init, MapInv, TakenInv, LostInv, Registered
<1>3. CountInv
  BY DEF Init, CountInv
<1> QED  BY <1>1, <1>2, <1>3 DEF IInv

(* The steps of Connect that leave the map alone.                          *)
LEMMA ConnectInv ==
  ASSUME IInv, NEW c \in Conns, NewManagedConn(c) \/ EnableBroadcasting(c) \/ OnRegister(c)
  PROVE  IInv'
<1> USE DEF Phase
<1>1. /\ UNCHANGED <<conns, mu, raw, closing, removed, unregisters>>
      /\ phase' \in [Conns -> Places]
      /\ \A d \in Conns \ {c} : phase'[d] = phase[d] /\ registers'[d] = registers[d]
      /\ Registered(c)' <=> Registered(c)
  BY DEF IInv, Typed, Places, NewManagedConn, EnableBroadcasting, OnRegister, Registered
<1>2. \A d \in Conns : Registered(d)' <=> Registered(d)
  BY <1>1 DEF Registered
<1>3. registers' \in [Conns -> Nat] /\ CountInv'
  BY <1>1 DEF IInv, Typed, CountInv, NewManagedConn, EnableBroadcasting, OnRegister
<1>4. Typed'
  BY <1>1, <1>3 DEF IInv, Typed
<1>5. MapInv'
  BY <1>1, <1>2 DEF IInv, Typed, MapInv
<1>6. TakenInv'
  BY <1>1, <1>2 DEF IInv, Typed, TakenInv
<1>7. LostInv'
  BY <1>1, <1>2 DEF IInv, Typed, LostInv, Tracked
<1> QED  BY <1>3, <1>4, <1>5, <1>6, <1>7 DEF IInv

(* Register has not run for c yet, so nothing took c off the map, and the  *)
(* connection that it replaces loses its raw.                              *)
LEMMA RegisterInv ==
  ASSUME IInv, NEW c \in Conns, Register(c)
  PROVE  IInv'
<1> USE ManagerAssumption DEF ManagerAssumption, Phase
<1>1. /\ UNCHANGED <<mu, closing, removed, registers, unregisters>>
      /\ phase[c] = "hooked" /\ phase' = [phase EXCEPT ![c] = "registered"]
      /\ raw' = raw \ {conns[KeyOf[c]]}
      /\ conns' = [conns EXCEPT ![KeyOf[c]] = c]
  BY DEF Register
<1>2. KeyOf[c] \in Keys
  OBVIOUS
<1>3. \A d \in Conns : removed[d] # c
  BY <1>1 DEF IInv, Typed, TakenInv, Registered
<1>4. /\ Registered(c)'
      /\ \A d \in Conns \ {c} : phase'[d] = phase[d] /\ (Registered(d)' <=> Registered(d))
  BY <1>1 DEF IInv, Typed, Registered
<1>5. Typed'
  BY <1>1, <1>2 DEF IInv, Typed, Places
<1>6. MapInv'
  <2> SUFFICES ASSUME NEW k \in Keys, conns'[k] # None
               PROVE  /\ KeyOf[conns'[k]] = k
                      /\ Registered(conns[k])'
                      /\ \A d \in Conns : removed'[d] # conns'[k]
    BY DEF MapInv
  <2>1. CASE k = KeyOf[c]
    BY <1>1, <1>2, <1>3, <1>4, <2>1 DEF IInv, Typed
  <2>2. CASE k # KeyOf[c]
    <3>1. conns'[k] = conns[k] /\ conns[k] \in Conns /\ conns[k] # c
      BY <1>1, <2>2 DEF IInv, Typed, MapInv
    <3> QED  BY <1>1, <1>4, <3>1 DEF IInv, MapInv
  <2> QED  BY <2>1, <2>2
<1>7. TakenInv'
  BY <1>1, <1>4 DEF IInv, Typed, TakenInv
<1>8. CountInv'
  BY <1>1, <1>4 DEF IInv, Typed, CountInv
<1>9. LostInv'
  <2> SUFFICES ASSUME NEW d \in Conns, Registered(d)'
               PROVE  \/ conns'[KeyOf[d]] = d \/ d \notin raw'
                      \/ \E e \in Conns : removed'[e] = d
    BY DEF LostInv, Tracked
  <2>1. CASE d = c
    BY <1>1, <1>2, <2>1 DEF IInv, Typed
  <2>2. CASE d # c /\ conns[KeyOf[d]] = d /\ KeyOf[d] = KeyOf[c]
    BY <1>1, <2>2
  <2>3. CASE d # c /\ conns[KeyOf[d]] = d /\ KeyOf[d] # KeyOf[c]
    BY <1>1, <2>3 DEF IInv, Typed
  <2>4. CASE d # c /\ conns[KeyOf[d]] # d
    BY <1>1, <1>4, <2>4 DEF IInv, LostInv, Tracked
  <2> QED  BY <2>1, <2>2, <2>3, <2>4
<1> QED  BY <1>5, <1>6, <1>7, <1>8, <1>9 DEF IInv

(* The start of CloseWithCode, and its end when there is nothing to take.  *)
LEMMA CloseInv ==
  ASSUME IInv, NEW c \in Conns,
         \/ CloseBegin(c) \/ NoHook(c)
         \/ Unregister(c) /\ conns[KeyOf[c]] = None
  PROVE  IInv'
<1> USE DEF Close
<1>1. /\ UNCHANGED <<conns, mu, phase, removed, registers, unregisters>>
      /\ raw' \subseteq raw
      /\ closing[c] \in {"no", "done"} /\ closing'[c] \in {"done", "closed"}
      /\ closing' \in [Conns -> Stages]
      /\ \A d \in Conns \ {c} : closing'[d] = closing[d]
  BY DEF IInv, Typed, Stages, CloseBegin, NoHook, Unregister
<1>2. removed[c] = None
  BY <1>1 DEF IInv, TakenInv
<1>3. \A d \in Conns : Registered(d)' <=> Registered(d)
  BY <1>1 DEF Registered
<1>4. Typed' /\ MapInv'
  BY <1>1, <1>3 DEF IInv, Typed, MapInv
<1>5. TakenInv'
  BY <1>1, <1>2, <1>3 DEF IInv, Typed, TakenInv
<1>6. CountInv'
  BY <1>1, <1>2, ManagerAssumption DEF IInv, Typed, CountInv, ManagerAssumption
<1>7. LostInv'
  BY <1>1, <1>3 DEF IInv, Typed, LostInv, Tracked
<1> QED  BY <1>4, <1>5, <1>6, <1>7 DEF IInv

(* unregister takes what the key has, which nobody took before.            *)
LEMMA UnregisterInv ==
  ASSUME IInv, NEW c \in Conns, Unregister(c), conns[KeyOf[c]] # None
  PROVE  IInv'
<1> USE ManagerAssumption DEF ManagerAssumption, Close
<1> DEFINE t == conns[KeyOf[c]]
<1>1. /\ UNCHANGED <<mu, phase, raw, registers, unregisters>>
      /\ closing[c] = "done" /\ closing' = [closing EXCEPT ![c] = "removed"]
      /\ removed' = [removed EXCEPT ![c] = t]
      /\ conns' = [conns EXCEPT ![KeyOf[c]] = None]
  BY DEF Unregister
<1>2. /\ KeyOf[c] \in Keys /\ t \in Conns
      /\ KeyOf[t] = KeyOf[c] /\ Registered(t)
      /\ \A d \in Conns : removed[d] # t
  BY DEF IInv, Typed, MapInv
<1>3. removed[c] = None
  BY <1>1 DEF IInv, TakenInv
<1>4. \A d \in Conns : Registered(d)' <=> Registered(d)
  BY <1>1 DEF Registered
<1>5. /\ removed'[c] = t /\ closing'[c] = "removed"
      /\ \A d \in Conns \ {c} : removed'[d] = removed[d] /\ closing'[d] = closing[d]
  BY <1>1 DEF IInv, Typed
<1>6. Typed'
  BY <1>1, <1>2 DEF IInv, Typed, Stages
<1>7. MapInv'
  <2> SUFFICES ASSUME NEW k \in Keys, conns'[k] # None
               PROVE  /\ KeyOf[conns'[k]] = k
                      /\ Registered(conns[k])'
                      /\ \A d \in Conns : removed'[d] # conns'[k]
    BY DEF MapInv
  <2>1. k # KeyOf[c] /\ conns'[k] = conns[k] /\ KeyOf[conns[k]] = k /\ conns[k] \in Conns
    BY <1>1 DEF IInv, Typed, MapInv
  <2>2. conns[k] # t
    BY <1>2, <2>1
  <2> QED  BY <1>1, <1>4, <1>5, <2>1, <2>2 DEF IInv, MapInv
<1>8. TakenInv'
  BY <1>2, <1>4, <1>5 DEF IInv, Typed, TakenInv
<1>9. CountInv'
  <2> SUFFICES ASSUME NEW d \in Conns, unregisters[d] = 1
               PROVE  \E e \in Conns : removed'[e] = d /\ closing'[e] = "closed"
    BY <1>1 DEF IInv, CountInv
  <2>1. PICK e \in Conns : removed[e] = d /\ closing[e] = "closed"
    BY DEF IInv, CountInv
  <2> QED  BY <1>1, <1>5, <2>1
<1>10. LostInv'
  <2> SUFFICES ASSUME NEW d \in Conns, Registered(d)
               PROVE  \/ conns'[KeyOf[d]] = d \/ d \notin raw
                      \/ \E e \in Conns : removed'[e] = d
    BY <1>1, <1>4 DEF LostInv, Tracked
  <2>1. CASE d = t
    BY <1>5, <2>1
  <2>2. CASE d # t /\ conns[KeyOf[d]] = d
    <3>1. KeyOf[d] # KeyOf[c] /\ KeyOf[d] \in Keys
      BY <2>2
    <3> QED  BY <1>1, <2>2, <3>1 DEF IInv, Typed
  <2>3. CASE conns[KeyOf[d]] # d /\ d \in raw
    <3>1. PICK e \in Conns : removed[e] = d
      BY <2>3 DEF IInv, LostInv, Tracked
    <3>2. e # c
      BY <1>3, <3>1
    <3> QED  BY <1>5, <3>1, <3>2
  <2> QED  BY <2>1, <2>2, <2>3
<1> QED  BY <1>6, <1>7, <1>8, <1>9, <1>10 DEF IInv

(* OnUnregister runs once for the connection that c's unregister took.     *)
LEMMA OnUnregisterInv ==
  ASSUME IInv, NEW c \in Conns, OnUnregister(c)
  PROVE  IInv'
<1> USE ManagerAssumption DEF ManagerAssumption, Close
<1> DEFINE t == removed[c]
<1>1. /\ UNCHANGED <<conns, mu, phase, raw, removed, registers>>
      /\ closing[c] = "removed" /\ closing' = [closing EXCEPT ![c] = "closed"]
      /\ unregisters' = [unregisters EXCEPT ![t] = @ + 1]
  BY DEF OnUnregister
<1>2. t \in Conns
  BY <1>1 DEF IInv, Typed, TakenInv
<1>3. unregisters[t] = 0
  <2>1. unregisters[t] # 1
    <3>1. ASSUME NEW e \in Conns, removed[e] = t, closing[e] = "closed" PROVE FALSE
      BY <1>1, <1>2, <3>1 DEF IInv, TakenInv
    <3> QED  BY <1>2, <3>1 DEF IInv, CountInv
  <2> QED  BY <1>2, <2>1 DEF IInv, CountInv
<1>4. \A d \in Conns : Registered(d)' <=> Registered(d)
  BY <1>1 DEF Registered
<1>5. /\ closing'[c] = "closed" /\ unregisters'[t] = 1
      /\ \A d \in Conns \ {c} : closing'[d] = closing[d]
      /\ \A d \in Conns \ {t} : unregisters'[d] = unregisters[d]
  BY <1>1, <1>2, <1>3 DEF IInv, Typed
<1>6. Typed' /\ MapInv'
  BY <1>1, <1>2, <1>4 DEF IInv, Typed, Stages, MapInv
<1>7. TakenInv'
  BY <1>1, <1>4, <1>5 DEF IInv, Typed, TakenInv
<1>8. CountInv'
  BY <1>1, <1>5 DEF IInv, Typed, CountInv
<1>9. LostInv'
  BY <1>1, <1>4 DEF IInv, LostInv, Tracked
<1> QED  BY <1>6, <1>7, <1>8, <1>9 DEF IInv

(* Every step keeps IInv.                                                  *)
LEMMA StepInv == IInv /\ [Next]_vars => IInv'
<1> SUFFICES ASSUME IInv, [Next]_vars PROVE IInv'
  OBVIOUS
<1>1. CASE Shutdown \/ UNCHANGED vars
  <2>1. /\ mu' \in BOOLEAN
        /\ UNCHANGED <<conns, phase, raw, closing, removed, registers, unregisters>>
    BY <1>1 DEF Shutdown, vars, IInv, Typed
  <2>2. Typed'
    BY <2>1 DEF IInv, Typed
  <2>3. MapInv' /\ TakenInv' /\ CountInv' /\ LostInv'
    BY <2>1 DEF IInv, MapInv, TakenInv, CountInv, LostInv, Registered, Tracked
  <2> QED  BY <2>2, <2>3 DEF IInv
<1>2. ASSUME NEW c \in Conns, Connect(c) PROVE IInv'
  BY <1>2, ConnectInv, RegisterInv DEF Connect
<1>3. ASSUME NEW c \in Conns, CloseWithCode(c) PROVE IInv'
  BY <1>3, CloseInv, UnregisterInv, OnUnregisterInv DEF CloseWithCode
<1> QED  BY <1>1, <1>2, <1>3 DEF Next

(* IInv holds in every reachable state.                                    *)
LEMMA Inductive == Spec => []IInv
BY InitInv, StepInv, PTL DEF Spec

-----------------------------------------------------------------------------
(* Type correctness, the counts of the hooks with it: however the closes   *)
(* of connections under one key overlap, OnRegister and OnUnregister each  *)
(* run at most once for a connection.                                      *)
THEOREM TypeCorrect == Spec => []TypeOK
<1>1. IInv => TypeOK
  BY DEF IInv, Typed, CountInv, TypeOK, Places, Stages
<1> QED  BY <1>1, Inductive, PTL

(* A usable connection is off the map only if the hook of another one      *)
(* under its key took it: its own hook has not begun, and the Register of  *)
(* another closes its raw.                                                 *)
THEOREM OnlyRivalsLose == Spec => []LostOnlyToRival
<1>1. IInv => LostOnlyToRival
  <2> SUFFICES ASSUME IInv, NEW c \in Conns, Usable(c), ~Tracked(c) PROVE RivalClosed(c)
    BY DEF LostOnlyToRival
  <2>1. PICK d \in Conns : removed[d] = c
    BY DEF IInv, LostInv, Usable
  <2>2. closing[d] \in {"removed", "closed"} /\ KeyOf[d] = KeyOf[c]
    BY <2>1, ManagerAssumption DEF IInv, TakenInv, ManagerAssumption
  <2> QED  BY <2>2 DEF RivalClosed, Rivals, Usable
<1> QED  BY <1>1, Inductive, PTL

(* A registered connection leaves the map for good: when its own hook has  *)
(* run, or at any moment it is off the map, no later Register, which is of *)
(* another connection, and no other step puts it back.                     *)
ForgottenForGood ==
  [][\A c \in Conns :
       Registered(c) /\ (~Tracked(c) \/ (closing[c] = "done" /\ closing'[c] # "done"))
         => ~Tracked(c)']_vars

(* Whatever the closes and registrations, ForgottenForGood.                *)
THEOREM GoneIsGone == Spec => ForgottenForGood
<1>1. ASSUME IInv, [Next]_vars, NEW c \in Conns, Registered(c),
             ~Tracked(c) \/ (closing[c] = "done" /\ closing'[c] # "done")
      PROVE  ~Tracked(c)'
  <2> USE ManagerAssumption DEF ManagerAssumption, Tracked
  <2> KeyOf[c] \in Keys
    OBVIOUS
  <2>1. ASSUME NEW d \in Conns, Register(d) PROVE ~Tracked(c)'
    <3>1. d # c /\ ~Tracked(c)
      BY <1>1, <2>1 DEF Register, Phase, Registered
    <3> QED  BY <1>1, <2>1, <3>1 DEF Register, IInv, Typed
  <2>2. ASSUME NEW d \in Conns, Unregister(d) PROVE ~Tracked(c)'
    <3>1. \/ conns' = conns /\ conns[KeyOf[d]] = None
          \/ conns' = [conns EXCEPT ![KeyOf[d]] = None]
      BY <2>2 DEF Unregister
    <3>2. d # c => closing'[c] = closing[c]
      BY <1>1, <2>2 DEF Unregister, Close, IInv, Typed
    <3>3. d = c => conns'[KeyOf[c]] = None
      BY <1>1, <3>1 DEF IInv, Typed
    <3>4. conns'[KeyOf[c]] \in {conns[KeyOf[c]], None}
      BY <1>1, <3>1 DEF IInv, Typed
    <3> QED  BY <1>1, <3>2, <3>3, <3>4
  <2>3. ASSUME NEW d \in Conns, NoHook(d) PROVE ~Tracked(c)'
    BY <1>1, <2>3 DEF NoHook, Close, Registered, IInv, Typed
  <2>4. ASSUME NEW d \in Conns,
               NewManagedConn(d) \/ EnableBroadcasting(d) \/ OnRegister(d) \/ CloseBegin(d)
                 \/ OnUnregister(d)
        PROVE  ~Tracked(c)'
    BY <1>1, <2>4 DEF NewManagedConn, EnableBroadcasting, OnRegister, CloseBegin,
                      OnUnregister, Close, IInv, Typed
  <2>5. CASE Shutdown \/ UNCHANGED vars
    BY <1>1, <2>5 DEF Shutdown, vars
  <2> QED  BY <1>1, <2>1, <2>2, <2>3, <2>4, <2>5 DEF Next, Connect, CloseWithCode
<1>2. IInv /\ [Next]_vars =>
        [\A c \in Conns :
           Registered(c) /\ (~Tracked(c) \/ (closing[c] = "done" /\ closing'[c] # "done"))
             => ~Tracked(c)']_vars
  BY <1>1
<1> QED  BY <1>2, Inductive, PTL DEF Spec, ForgottenForGood
=============================================================================

-------------------------- MODULE BroadcastProofs --------------------------
(***************************************************************************)
(* What TLAPS proves of Broadcast, for any connections, any broadcasts and *)
(* any options.                                                            *)
(***************************************************************************)
EXTENDS Broadcast, SequenceTheorems, TLAPS

(* A listener has a message while it writes it, and there is none before   *)
(* enableBroadcasting.                                                     *)
WritingInv ==
  \A c \in Conns : /\ listener[c] = "writing" <=> current[c] # Nobody
                   /\ c \notin enabled => listener[c] = "none"

(* A call waits for a connection that it has not visited; what has         *)
(* returned before another call began has returned.                        *)
CallInv ==
  \A m \in Casts :
    /\ pc[m] = "wait" => waitsFor[m] \in left[m]
    /\ \A o \in before[m] : Returned(o)

(* A message on its way to a client is of a call that has begun and has    *)
(* visited the client's connection.                                        *)
VisitedInv ==
  \A c \in Conns : \A i \in 1..Len(InTransit(c)) :
    LET m == InTransit(c)[i]
    IN  m \in Casts /\ pc[m] # "start" /\ c \notin left[m]

IInv == TypeOK /\ WritingInv /\ CallInv /\ VisitedInv /\ InOrderOnce

(* The types, of the calls and of the connections.                         *)
CallTypes ==
  /\ options \in Setups
  /\ pc \in [Casts -> {"start", "loop", "wait"} \cup Over]
  /\ left \in [Casts -> SUBSET Conns] /\ waitsFor \in [Casts -> Conns \cup {Nobody}]
  /\ ctxDone \subseteq Cancellable /\ before \in [Casts -> SUBSET Casts]
ConnTypes ==
  /\ enabled \subseteq Conns
  /\ queue \in [Conns -> Seq(Casts)] /\ \A c \in Conns : Len(queue[c]) <= options.capacity
  /\ listener \in [Conns -> {"none", "idle", "writing", "draining", "exited"}]
  /\ current \in [Conns -> Casts \cup {Nobody}] /\ sent \in [Conns -> Seq(Casts)]
  /\ asked \subseteq Conns /\ closing \in [Conns -> {"no", "done", "gone"}]

(* TypeOK in two parts: the calls' variables and the connections'.         *)
LEMMA Types == (TypeOK <=> CallTypes /\ ConnTypes) /\ (TypeOK' <=> CallTypes' /\ ConnTypes')
  BY DEF TypeOK, CallTypes, ConnTypes

-----------------------------------------------------------------------------
(* Messages in transit: what may become of a sequence of them.             *)

(* Once each, in the order of the calls.                                   *)
Ordered(s, b) == \A i, j \in 1..Len(s) : i < j => s[i] # s[j] /\ s[j] \notin b[s[i]]

(* t is s without its k-th element.                                        *)
Without(s, t, k) ==
  /\ k \in 1..Len(s) /\ Len(t) = Len(s) - 1
  /\ \A i \in 1..Len(t) : t[i] = IF i < k THEN s[i] ELSE s[i + 1]

(* Two sequences in one.                                                   *)
LEMMA Joined ==
  ASSUME NEW S, NEW a \in Seq(S), NEW q \in Seq(S), NEW t, t = a \o q
  PROVE  /\ t \in Seq(S) /\ Len(t) = Len(a) + Len(q)
         /\ \A i \in 1..Len(t) : /\ i <= Len(a) => t[i] = a[i]
                                 /\ i > Len(a) => t[i] = q[i - Len(a)]
<1>1. /\ t \in Seq(S) /\ Len(t) = Len(a) + Len(q)
      /\ \A i \in 1..(Len(a) + Len(q)) : t[i] = IF i <= Len(a) THEN a[i] ELSE q[i - Len(a)]
  BY ConcatProperties
<1>2. Len(a) \in Nat /\ Len(q) \in Nat
  OBVIOUS
<1>3. ASSUME NEW i \in 1..Len(t)
      PROVE  /\ i <= Len(a) => t[i] = a[i]
             /\ i > Len(a) => t[i] = q[i - Len(a)]
  <2>1. i \in 1..(Len(a) + Len(q)) /\ (i > Len(a) => ~(i <= Len(a)))
    BY <1>1, <1>2
  <2> QED  BY <1>1, <2>1, Zenon
<1> QED  BY <1>1, <1>3

(* A message less disturbs no order.                                       *)
LEMMA WithoutOne ==
  ASSUME NEW s \in Seq(Casts), NEW t \in Seq(Casts), NEW k, Without(s, t, k), NEW b
  PROVE  /\ Ordered(s, b) => Ordered(t, b)
         /\ \A i \in 1..Len(t) : \E j \in 1..Len(s) : t[i] = s[j]
<1>1. k \in 1..Len(s) /\ Len(t) = Len(s) - 1 /\ Len(s) \in Nat
  BY DEF Without
<1> DEFINE at(i) == IF i < k THEN i ELSE i + 1
<1>2. \A i \in 1..Len(t) : at(i) \in 1..Len(s) /\ t[i] = s[at(i)]
  BY <1>1 DEF Without
<1>3. \A i, j \in 1..Len(t) : i < j => at(i) < at(j)
  BY <1>1
<1> HIDE DEF at
<1> QED  BY <1>2, <1>3 DEF Ordered

(* The message that a listener writes, if any.                             *)
Held(m) == IF m = Nobody THEN <<>> ELSE <<m>>

(* What is in transit when a is sent, m is written and q is queued.        *)
Transit(a, m, q) == a \o Held(m) \o q

(* What is on its way to a client is a sequence of calls.                  *)
LEMMA TransitIsSeq ==
  ASSUME NEW a \in Seq(Casts), NEW m \in Casts \cup {Nobody}, NEW q \in Seq(Casts)
  PROVE  Transit(a, m, q) \in Seq(Casts)
  BY DEF Transit, Held

(* Nothing is written.                                                     *)
LEMMA TransitIdle ==
  ASSUME NEW a \in Seq(Casts), NEW q \in Seq(Casts), NEW t, t = Transit(a, Nobody, q)
  PROVE  /\ t \in Seq(Casts) /\ Len(t) = Len(a) + Len(q)
         /\ \A i \in 1..Len(t) : /\ i <= Len(a) => t[i] = a[i]
                                 /\ i > Len(a) => t[i] = q[i - Len(a)]
<1>1. t = a \o q
  BY DEF Transit, Held
<1> QED  BY <1>1, Joined

(* m is written.                                                           *)
LEMMA TransitHeld ==
  ASSUME NEW a \in Seq(Casts), NEW m \in Casts, NEW q \in Seq(Casts), NEW t, t = Transit(a, m, q)
  PROVE  /\ t \in Seq(Casts) /\ Len(t) = Len(a) + 1 + Len(q)
         /\ \A i \in 1..Len(t) : /\ i <= Len(a) => t[i] = a[i]
                                 /\ i = Len(a) + 1 => t[i] = m
                                 /\ i > Len(a) + 1 => t[i] = q[i - Len(a) - 1]
<1> DEFINE b == a \o <<m>>
<1>1. t = b \o q
  BY BroadcastAssumption DEF Transit, Held, BroadcastAssumption
<1>2. /\ b \in Seq(Casts) /\ Len(b) = Len(a) + 1
      /\ b[Len(a) + 1] = m /\ \A i \in 1..Len(a) : b[i] = a[i]
  OBVIOUS
<1> HIDE DEF b
<1>3. /\ t \in Seq(Casts) /\ Len(t) = Len(b) + Len(q)
      /\ \A i \in 1..Len(t) : /\ i <= Len(b) => t[i] = b[i]
                              /\ i > Len(b) => t[i] = q[i - Len(b)]
  BY <1>1, <1>2, Joined
<1>4. Len(a) \in Nat /\ Len(q) \in Nat
  OBVIOUS
<1>5. ASSUME NEW i \in 1..Len(t)
      PROVE  /\ i <= Len(a) => t[i] = a[i]
             /\ i = Len(a) + 1 => t[i] = m
             /\ i > Len(a) + 1 => t[i] = q[i - Len(a) - 1]
  <2>1. /\ i <= Len(a) => i <= Len(b) /\ i \in 1..Len(a)
        /\ i = Len(a) + 1 => i <= Len(b)
        /\ i > Len(a) + 1 => i > Len(b) /\ i - Len(b) = i - Len(a) - 1
    BY <1>2, <1>3, <1>4
  <2> QED  BY <1>2, <1>3, <2>1
<1> QED  BY <1>2, <1>3, <1>5

(* The head of the queue becomes the message that is written.              *)
LEMMA TransitReceives ==
  ASSUME NEW a \in Seq(Casts), NEW q \in Seq(Casts), q # <<>>
  PROVE  Transit(a, Head(q), Tail(q)) = Transit(a, Nobody, q)
<1> DEFINE t == Transit(a, Nobody, q)   u == Transit(a, Head(q), Tail(q))
<1>1. t = Transit(a, Nobody, q) /\ u = Transit(a, Head(q), Tail(q))
  OBVIOUS
<1> HIDE DEF t, u
<1> DEFINE r == Tail(q)   h == Head(q)
<1>2. /\ r \in Seq(Casts) /\ h \in Casts /\ h = q[1] /\ Len(r) = Len(q) - 1
      /\ \A i \in 1..Len(r) : r[i] = q[i + 1]
      /\ u = Transit(a, h, r)
  BY <1>1
<1> HIDE DEF r, h
<1>3. Len(a) \in Nat /\ Len(q) \in Nat /\ Len(r) \in Nat
  BY <1>2
<1>4. /\ t \in Seq(Casts) /\ Len(t) = Len(a) + Len(q)
      /\ \A i \in 1..Len(t) : /\ i <= Len(a) => t[i] = a[i]
                              /\ i > Len(a) => t[i] = q[i - Len(a)]
  BY <1>1, TransitIdle
<1>5. /\ u \in Seq(Casts) /\ Len(u) = Len(a) + 1 + Len(r)
      /\ \A i \in 1..Len(u) : /\ i <= Len(a) => u[i] = a[i]
                              /\ i = Len(a) + 1 => u[i] = h
                              /\ i > Len(a) + 1 => u[i] = r[i - Len(a) - 1]
  <2>1. r \in Seq(Casts) /\ h \in Casts /\ u = Transit(a, h, r)
    BY <1>2
  <2> QED  BY <2>1, TransitHeld
<1>6. Len(u) = Len(t)
  BY <1>2, <1>3, <1>4, <1>5
<1>7. ASSUME NEW i \in 1..Len(t) PROVE u[i] = t[i]
  <2>1. CASE i <= Len(a)
    BY <1>4, <1>5, <1>6, <2>1
  <2>2. CASE i = Len(a) + 1
    <3>1. i - Len(a) = 1 /\ i > Len(a)
      BY <1>3, <2>2
    <3> QED  BY <1>2, <1>4, <1>5, <1>6, <2>2, <3>1
  <2>3. CASE i > Len(a) + 1
    <3>1. i - Len(a) - 1 \in 1..Len(r) /\ i - Len(a) - 1 + 1 = i - Len(a) /\ i > Len(a)
      BY <1>3, <1>5, <1>6, <2>3
    <3>2. r[i - Len(a) - 1] = q[i - Len(a)]
      BY <1>2, <3>1, Zenon
    <3> QED  BY <1>4, <1>5, <1>6, <2>3, <3>1, <3>2, Zenon
  <2> QED  BY <1>3, <1>4, <2>1, <2>2, <2>3
<1>8. u = t
  BY <1>4, <1>5, <1>6, <1>7, SeqEqual
<1> QED  BY <1>1, <1>8

(* The message that was written is sent.                                   *)
LEMMA TransitSends ==
  ASSUME NEW a \in Seq(Casts), NEW m \in Casts, NEW q \in Seq(Casts)
  PROVE  Transit(Append(a, m), Nobody, q) = Transit(a, m, q)
<1>1. Append(a, m) = a \o <<m>>
  OBVIOUS
<1>2. Transit(Append(a, m), Nobody, q) = Append(a, m) \o q
  BY DEF Transit, Held
<1>3. Transit(a, m, q) = (a \o <<m>>) \o q
  BY BroadcastAssumption DEF Transit, Held, BroadcastAssumption
<1> QED  BY <1>1, <1>2, <1>3, Zenon

(* The message that was written is not sent.                               *)
LEMMA TransitLoses ==
  ASSUME NEW a \in Seq(Casts), NEW m \in Casts, NEW q \in Seq(Casts)
  PROVE  \E k : Without(Transit(a, m, q), Transit(a, Nobody, q), k)
<1>1. PICK t, u : t = Transit(a, m, q) /\ u = Transit(a, Nobody, q)
  OBVIOUS
<1>2. Len(a) \in Nat /\ Len(q) \in Nat
  OBVIOUS
<1>3. /\ t \in Seq(Casts) /\ Len(t) = Len(a) + 1 + Len(q)
      /\ \A i \in 1..Len(t) : /\ i <= Len(a) => t[i] = a[i]
                              /\ i = Len(a) + 1 => t[i] = m
                              /\ i > Len(a) + 1 => t[i] = q[i - Len(a) - 1]
  BY <1>1, TransitHeld
<1>4. /\ u \in Seq(Casts) /\ Len(u) = Len(a) + Len(q)
      /\ \A i \in 1..Len(u) : /\ i <= Len(a) => u[i] = a[i]
                              /\ i > Len(a) => u[i] = q[i - Len(a)]
  BY <1>1, TransitIdle
<1>5. ASSUME NEW i \in 1..Len(u)
      PROVE  u[i] = IF i < Len(a) + 1 THEN t[i] ELSE t[i + 1]
  <2>1. CASE i <= Len(a)
    BY <1>2, <1>3, <1>4, <2>1
  <2>2. CASE i > Len(a)
    <3>1. /\ i + 1 \in 1..Len(t) /\ i + 1 > Len(a) + 1 /\ i + 1 - Len(a) - 1 = i - Len(a)
          /\ ~(i < Len(a) + 1)
      BY <1>2, <1>3, <1>4, <2>2
    <3>2. t[i + 1] = q[i + 1 - Len(a) - 1]
      BY <1>3, <3>1
    <3>3. u[i] = q[i - Len(a)]
      BY <1>4, <2>2
    <3> QED  BY <3>1, <3>2, <3>3, Zenon
  <2> QED  BY <1>2, <1>4, <2>1, <2>2
<1>6. Len(a) + 1 \in 1..Len(t) /\ Len(u) = Len(t) - 1
  BY <1>2, <1>3, <1>4
<1>7. Without(t, u, Len(a) + 1)
  BY <1>5, <1>6 DEF Without
<1> QED  BY <1>1, <1>7

(* The head of the queue is drained, while nothing is written.             *)
LEMMA TransitDrains ==
  ASSUME NEW a \in Seq(Casts), NEW q \in Seq(Casts), q # <<>>
  PROVE  \E k : Without(Transit(a, Nobody, q), Transit(a, Nobody, Tail(q)), k)
<1>1. Head(q) \in Casts /\ Tail(q) \in Seq(Casts)
  OBVIOUS
<1> QED  BY <1>1, TransitReceives, TransitLoses

(* A message is put into the queue.                                        *)
LEMMA TransitQueues ==
  ASSUME NEW a \in Seq(Casts), NEW m \in Casts \cup {Nobody}, NEW q \in Seq(Casts), NEW n \in Casts,
         NEW s, s = Transit(a, m, q), NEW t, t = Transit(a, m, Append(q, n))
  PROVE  s \in Seq(Casts) /\ t = Append(s, n)
<1> DEFINE b == a \o Held(m)
<1>1. b \in Seq(Casts)
  BY DEF Held
<1> HIDE DEF b
<1>2. Append(q, n) = q \o <<n>> /\ Append(b \o q, n) = (b \o q) \o <<n>>
  BY <1>1
<1>3. b \o (q \o <<n>>) = (b \o q) \o <<n>>
  BY <1>1, ConcatAssociative
<1>4. s = b \o q /\ t = b \o Append(q, n)
  BY DEF Transit, b
<1>5. b \o q \in Seq(Casts)
  BY <1>1
<1> QED  BY <1>2, <1>3, <1>4, <1>5, Zenon

-----------------------------------------------------------------------------
(* What a step does to a client's messages in transit.                     *)

(* What is on its way in a state, from its parts.                          *)
LEMMA TransitOf ==
  ASSUME TypeOK, NEW c \in Conns
  PROVE  /\ sent[c] \in Seq(Casts) /\ queue[c] \in Seq(Casts)
         /\ current[c] \in Casts \cup {Nobody}
         /\ InTransit(c) = Transit(sent[c], current[c], queue[c])
         /\ InTransit(c) \in Seq(Casts)
<1>1. /\ sent[c] \in Seq(Casts) /\ queue[c] \in Seq(Casts)
      /\ current[c] \in Casts \cup {Nobody}
  BY DEF TypeOK
<1>2. InTransit(c) = Transit(sent[c], current[c], queue[c])
  BY DEF InTransit, Transit, Held
<1> QED  BY <1>1, <1>2, TransitIsSeq

(* A call that is put on the queue comes last on the way.                  *)
LEMMA TransitAppended ==
  ASSUME TypeOK, NEW c \in Conns, NEW n \in Casts, queue'[c] = Append(queue[c], n),
         sent'[c] = sent[c], current'[c] = current[c]
  PROVE  InTransit(c) \in Seq(Casts) /\ InTransit(c)' = Append(InTransit(c), n)
<1>1. PICK a \in Seq(Casts), m \in Casts \cup {Nobody}, q \in Seq(Casts) :
        a = sent[c] /\ m = current[c] /\ q = queue[c]
  BY DEF TypeOK
<1>2. InTransit(c) = Transit(a, m, q) /\ InTransit(c)' = Transit(a, m, Append(q, n))
  BY <1>1 DEF InTransit, Transit, Held
<1> QED  BY <1>2, TransitQueues

(* The invariant as a property of the sequences in transit.                *)
LEMMA OrderInTransit == InOrderOnce <=> \A c \in Conns : Ordered(InTransit(c), before)
  BY DEF InOrderOnce, Ordered

(* Nothing changes in transit but that messages are lost.                  *)
LEMMA OnlyLoses ==
  ASSUME IInv, TypeOK', UNCHANGED calls,
         \A c \in Conns : \/ InTransit(c)' = InTransit(c)
                          \/ \E k : Without(InTransit(c), InTransit(c)', k)
  PROVE  VisitedInv' /\ InOrderOnce'
<1>1. ASSUME NEW c \in Conns
      PROVE  /\ Ordered(InTransit(c)', before')
             /\ \A i \in 1..Len(InTransit(c)') :
                  \E j \in 1..Len(InTransit(c)) : InTransit(c)'[i] = InTransit(c)[j]
  <2>1. Ordered(InTransit(c), before) /\ UNCHANGED before
    BY OrderInTransit DEF IInv, calls
  <2>2. InTransit(c) \in Seq(Casts)
    BY TransitOf DEF IInv
  <2>3. InTransit(c)' \in Seq(Casts)
    <3>1. /\ sent'[c] \in Seq(Casts) /\ queue'[c] \in Seq(Casts)
          /\ current'[c] \in Casts \cup {Nobody}
      BY DEF TypeOK
    <3>2. InTransit(c)' = Transit(sent'[c], current'[c], queue'[c])
      BY DEF InTransit, Transit, Held
    <3> QED  BY <3>1, <3>2, TransitIsSeq
  <2>4. CASE InTransit(c)' = InTransit(c)
    BY <2>1, <2>4
  <2>5. ASSUME NEW k, Without(InTransit(c), InTransit(c)', k)
        PROVE  /\ Ordered(InTransit(c)', before)
               /\ \A i \in 1..Len(InTransit(c)') :
                    \E j \in 1..Len(InTransit(c)) : InTransit(c)'[i] = InTransit(c)[j]
    <3> DEFINE s == InTransit(c)   t == InTransit(c)'
    <3> HIDE DEF s, t
    <3>1. s \in Seq(Casts) /\ t \in Seq(Casts) /\ Without(s, t, k) /\ Ordered(s, before)
      BY <2>1, <2>2, <2>3, <2>5 DEF s, t
    <3>2. Ordered(t, before) /\ \A i \in 1..Len(t) : \E j \in 1..Len(s) : t[i] = s[j]
      BY <3>1, WithoutOne
    <3> QED  BY <3>2 DEF s, t
  <2> QED  BY <2>1, <2>4, <2>5
<1>2. VisitedInv'
  BY <1>1 DEF VisitedInv, IInv, calls
<1>3. InOrderOnce'
  BY <1>1 DEF InOrderOnce, Ordered
<1> QED  BY <1>2, <1>3

(* A listener's step changes nothing else than its connection.             *)
LEMMA ListenTypes ==
  ASSUME IInv, NEW c \in Conns, Listen(c)
  PROVE  /\ TypeOK' /\ WritingInv' /\ UNCHANGED <<options, calls, ctxDone>>
         /\ \A d \in Conns \ {c} : UNCHANGED <<sent[d], current[d], queue[d]>>
<1>1. /\ CallTypes /\ ConnTypes /\ WritingInv /\ Nobody \notin Casts
      /\ sent[c] \in Seq(Casts) /\ queue[c] \in Seq(Casts) /\ options.capacity \in Nat
      /\ Len(queue[c]) <= options.capacity
  BY Types, BroadcastAssumption DEF BroadcastAssumption, IInv, TypeOK
<1>2. UNCHANGED <<options, calls, ctxDone>>
  BY DEF Listen, Receive, WriteSent, WriteCancelled, WriteFatal, WriteEnds, StopListening, Drain
<1>3. CallTypes'
  BY <1>1, <1>2 DEF CallTypes, calls, Over, Cancellable
<1> DEFINE Others == \A d \in Conns \ {c} : UNCHANGED <<sent[d], current[d], queue[d]>>
<1> SUFFICES ConnTypes' /\ WritingInv' /\ Others
  BY <1>2, <1>3, Types, Zenon
<1>4. CASE Receive(c)
  <2> DEFINE m == Head(queue[c])   q == Tail(queue[c])
  <2>1. /\ listener[c] = "idle" /\ current' = [current EXCEPT ![c] = m]
        /\ queue' = [queue EXCEPT ![c] = q] /\ listener' = [listener EXCEPT ![c] = "writing"]
        /\ UNCHANGED <<options, enabled, sent, asked, closing>> /\ queue[c] # <<>>
    BY <1>2, <1>4 DEF Receive
  <2>2. m \in Casts /\ q \in Seq(Casts) /\ Len(q) <= Len(queue[c]) /\ Len(q) <= options.capacity
    BY <1>1, <2>1
  <2> HIDE DEF m, q
  <2>3. ConnTypes'
    BY <1>1, <2>1, <2>2 DEF ConnTypes
  <2>4. WritingInv' /\ Others
    BY <1>1, <2>1, <2>2 DEF ConnTypes, WritingInv
  <2> QED  BY <2>3, <2>4
<1>5. ASSUME NEW l \in {"idle", "exited"}, WriteEnds(c, l), asked' \in {asked, asked \cup {c}},
             UNCHANGED closing, UNCHANGED sent \/ sent' = [sent EXCEPT ![c] = Append(@, current[c])]
      PROVE  ConnTypes' /\ WritingInv' /\ Others
  <2>1. /\ listener[c] = "writing" /\ listener' = [listener EXCEPT ![c] = l]
        /\ current' = [current EXCEPT ![c] = Nobody] /\ UNCHANGED <<options, enabled, queue>>
    BY <1>2, <1>5 DEF WriteEnds
  <2>2. current[c] \in Casts
    BY <1>1, <2>1 DEF ConnTypes, WritingInv
  <2>3. Append(sent[c], current[c]) \in Seq(Casts)
    BY <1>1, <2>2
  <2>4. \E s \in Seq(Casts) : sent' = [sent EXCEPT ![c] = s]
    <3>1. CASE UNCHANGED sent
      BY <1>1, <3>1 DEF ConnTypes
    <3>2. CASE sent' = [sent EXCEPT ![c] = Append(@, current[c])]
      BY <2>3, <3>2
    <3> QED  BY <1>5, <3>1, <3>2
  <2>5. sent' \in [Conns -> Seq(Casts)] /\ \A d \in Conns \ {c} : sent'[d] = sent[d]
    BY <1>1, <2>4 DEF ConnTypes
  <2>6. ConnTypes'
    BY <1>1, <1>5, <2>1, <2>5 DEF ConnTypes
  <2>7. WritingInv' /\ Others
    BY <1>1, <1>5, <2>1, <2>5 DEF ConnTypes, WritingInv
  <2> QED  BY <2>6, <2>7
<1>6. CASE StopListening(c)
  <2>1. /\ listener[c] = "idle" /\ listener' = [listener EXCEPT ![c] = "draining"]
        /\ UNCHANGED <<options, enabled, queue, current, sent, asked, closing>>
    BY <1>2, <1>6 DEF StopListening
  <2>2. ConnTypes'
    BY <1>1, <2>1 DEF ConnTypes
  <2>3. WritingInv' /\ Others
    BY <1>1, <2>1 DEF ConnTypes, WritingInv
  <2> QED  BY <2>2, <2>3
<1>7. CASE Drain(c)
  <2>1. /\ listener[c] = "draining" /\ UNCHANGED <<options, enabled, current, sent, asked, closing>>
        /\ listener' \in {listener, [listener EXCEPT ![c] = "exited"]}
        /\ \/ queue[c] # <<>> /\ queue' = [queue EXCEPT ![c] = Tail(@)]
           \/ UNCHANGED queue
    BY <1>2, <1>7 DEF Drain
  <2>2. queue[c] # <<>> =>
          Tail(queue[c]) \in Seq(Casts) /\ Len(Tail(queue[c])) <= options.capacity
    BY <1>1
  <2>3. \E q \in Seq(Casts) : queue' = [queue EXCEPT ![c] = q] /\ Len(q) <= options.capacity
    <3>1. CASE UNCHANGED queue
      BY <1>1, <3>1 DEF ConnTypes
    <3>2. CASE queue[c] # <<>> /\ queue' = [queue EXCEPT ![c] = Tail(@)]
      BY <2>2, <3>2
    <3> QED  BY <2>1, <3>1, <3>2
  <2>4. ConnTypes'
    BY <1>1, <2>1, <2>3 DEF ConnTypes
  <2>5. WritingInv' /\ Others
    BY <1>1, <2>1, <2>3 DEF ConnTypes, WritingInv
  <2> QED  BY <2>4, <2>5
<1>8. CASE WriteSent(c) \/ WriteCancelled(c) \/ WriteFatal(c)
  <2>1. CASE WriteSent(c)
    BY <1>5, <2>1 DEF WriteSent
  <2>2. CASE WriteCancelled(c)
    BY <1>5, <2>2 DEF WriteCancelled
  <2>3. CASE WriteFatal(c)
    BY <1>5, <2>3 DEF WriteFatal
  <2> QED  BY <1>8, <2>1, <2>2, <2>3
<1> QED  BY <1>4, <1>6, <1>7, <1>8, Zenon DEF Listen

(* A listener's step: at most a message is lost.                           *)
LEMMA ListenInv ==
  ASSUME IInv, NEW c \in Conns, Listen(c)
  PROVE  IInv'
<1>1. /\ TypeOK' /\ WritingInv' /\ UNCHANGED <<options, calls, ctxDone>>
      /\ \A d \in Conns \ {c} : UNCHANGED <<sent[d], current[d], queue[d]>>
  BY ListenTypes
<1>2. CallInv'
  BY <1>1 DEF IInv, CallInv, calls, Returned
<1>3. \A d \in Conns \ {c} : InTransit(d)' = InTransit(d)
  BY <1>1 DEF InTransit
<1> DEFINE a == sent[c]   m == current[c]   q == queue[c]
<1>4. /\ a \in Seq(Casts) /\ q \in Seq(Casts) /\ m \in Casts \cup {Nobody}
      /\ InTransit(c) = Transit(a, m, q)
      /\ InTransit(c)' = Transit(sent'[c], current'[c], queue'[c])
      /\ listener[c] = "writing" <=> m # Nobody
      /\ \A d \in Conns : sent \in [Conns -> Seq(Casts)] /\ queue \in [Conns -> Seq(Casts)]
                          /\ current \in [Conns -> Casts \cup {Nobody}]
  BY TransitOf DEF IInv, TypeOK, WritingInv, InTransit, Transit, Held
<1>5. \/ InTransit(c)' = InTransit(c)
      \/ \E k : Without(InTransit(c), InTransit(c)', k)
  <2>1. CASE Receive(c)
    <3>1. /\ m = Nobody /\ q # <<>> /\ sent'[c] = a
          /\ current'[c] = Head(q) /\ queue'[c] = Tail(q)
      BY <1>4, <2>1 DEF Receive
    <3> QED  BY <1>4, <3>1, TransitReceives
  <2>2. ASSUME NEW l, WriteEnds(c, l), UNCHANGED sent
        PROVE  \E k : Without(InTransit(c), InTransit(c)', k)
    <3>1. /\ m \in Casts /\ sent'[c] = a /\ current'[c] = Nobody /\ queue'[c] = q
      BY <1>4, <2>2 DEF WriteEnds
    <3> QED  BY <1>4, <3>1, TransitLoses
  <2>3. CASE WriteSent(c)
    <3>1. /\ m \in Casts /\ sent'[c] = Append(a, m) /\ current'[c] = Nobody /\ queue'[c] = q
      BY <1>4, <2>3 DEF WriteSent, WriteEnds
    <3> QED  BY <1>4, <3>1, TransitSends
  <2>4. CASE WriteCancelled(c) \/ WriteFatal(c)
    BY <2>2, <2>4, Zenon DEF WriteCancelled, WriteFatal
  <2>5. CASE StopListening(c)
    BY <1>4, <2>5 DEF StopListening
  <2>6. CASE Drain(c)
    <3>1. /\ m = Nobody /\ sent'[c] = a /\ current'[c] = m
          /\ (q # <<>> /\ queue'[c] = Tail(q)) \/ queue'[c] = q
      BY <1>4, <2>6 DEF Drain
    <3> QED  BY <1>4, <3>1, TransitDrains
  <2> QED  BY <2>1, <2>3, <2>4, <2>5, <2>6 DEF Listen
<1>6. VisitedInv' /\ InOrderOnce'
  <2>1. UNCHANGED calls
    BY <1>1
  <2>2. \A d \in Conns : \/ InTransit(d)' = InTransit(d)
                         \/ \E k : Without(InTransit(d), InTransit(d)', k)
    BY <1>3, <1>5
  <2> QED  BY <1>1, <2>1, <2>2, OnlyLoses
<1> QED  BY <1>1, <1>2, <1>6 DEF IInv

-----------------------------------------------------------------------------
(* The calls.                                                              *)

(* A call that puts its message into a queue has not done so before, and   *)
(* has not returned.                                                       *)
LEMMA Enqueues ==
  ASSUME IInv, NEW m \in Casts, NEW c \in left[m], c \in Conns, pc[m] \in {"loop", "wait"},
         Room(c), queue' = [queue EXCEPT ![c] = Append(@, m)], Visited(m, c),
         UNCHANGED <<options, before, ctxDone, conns, asked>>,
         pc' \in {pc, [pc EXCEPT ![m] = "loop"]}, pc'[m] = "loop",
         waitsFor' \in {waitsFor, [waitsFor EXCEPT ![m] = Nobody]}
  PROVE  IInv'
<1>1. CallTypes /\ ConnTypes /\ WritingInv /\ CallInv
  BY Types DEF IInv
<1>2. left' = [left EXCEPT ![m] = @ \ {c}] /\ UNCHANGED <<enabled, listener, current, sent, closing>>
  BY DEF Visited, conns
<1>3. CallTypes'
  BY <1>1, <1>2 DEF CallTypes, Cancellable
<1>4. queue[c] \in Seq(Casts) /\ Len(queue[c]) < options.capacity /\ options.capacity \in Nat
  BY <1>1, BroadcastAssumption DEF BroadcastAssumption, ConnTypes, CallTypes, Room
<1>5. /\ Append(queue[c], m) \in Seq(Casts)
      /\ Len(Append(queue[c], m)) <= options.capacity
  BY <1>4
<1>6. /\ queue' \in [Conns -> Seq(Casts)] /\ \A d \in Conns : Len(queue'[d]) <= options.capacity
      /\ queue'[c] = Append(queue[c], m) /\ \A d \in Conns \ {c} : queue'[d] = queue[d]
  <2> DEFINE q == Append(queue[c], m)
  <2>1. q \in Seq(Casts) /\ Len(q) <= options.capacity /\ queue' = [queue EXCEPT ![c] = q]
    BY <1>5
  <2> HIDE DEF q
  <2>2. /\ queue' \in [Conns -> Seq(Casts)] /\ \A d \in Conns : Len(queue'[d]) <= options.capacity
        /\ queue'[c] = q /\ \A d \in Conns \ {c} : queue'[d] = queue[d]
    BY <1>1, <2>1 DEF ConnTypes
  <2> QED  BY <2>2 DEF q
<1>7. ConnTypes'
  BY <1>1, <1>2, <1>6 DEF ConnTypes
<1>8. WritingInv'
  BY <1>1, <1>2 DEF WritingInv
<1>9. CallInv'
  BY <1>1, <1>2 DEF CallInv, CallTypes, Returned, Over
<1>10. \A d \in Conns \ {c} : InTransit(d)' = InTransit(d)
  BY <1>2, <1>6 DEF InTransit
<1> DEFINE s == InTransit(c)   t == InTransit(c)'
<1>11. s \in Seq(Casts) /\ t = Append(s, m)
  <2>1. InTransit(c) \in Seq(Casts) /\ InTransit(c)' = Append(InTransit(c), m)
    BY <1>2, <1>6, TransitAppended DEF IInv
  <2> QED  BY <2>1
<1>12. /\ \A i \in 1..Len(s) : s[i] \in Casts /\ pc[s[i]] # "start" /\ c \notin left[s[i]] /\ s[i] # m
       /\ Ordered(s, before)
  BY OrderInTransit DEF IInv, VisitedInv
<1> HIDE DEF s, t
<1>13. /\ t \in Seq(Casts) /\ Len(t) = Len(s) + 1 /\ Len(s) \in Nat /\ t[Len(s) + 1] = m
       /\ \A i \in 1..Len(s) : t[i] = s[i]
  BY <1>11
<1>14. \A o \in Casts : m \notin before[o]
  BY <1>1 DEF CallInv, Returned, Over
<1>15. Ordered(t, before)
  <2> SUFFICES ASSUME NEW i \in 1..Len(t), NEW j \in 1..Len(t), i < j
               PROVE  t[i] # t[j] /\ t[j] \notin before[t[i]]
    BY DEF Ordered
  <2>1. i \in 1..Len(s) /\ t[i] = s[i] /\ s[i] \in Casts
    BY <1>12, <1>13
  <2>2. CASE j = Len(s) + 1
    BY <1>12, <1>13, <1>14, <2>1, <2>2
  <2>3. CASE j # Len(s) + 1
    <3>1. j \in 1..Len(s)
      BY <1>13, <2>3
    <3> QED  BY <1>12, <1>13, <2>1, <3>1 DEF Ordered
  <2> QED  BY <2>2, <2>3
<1>16. InOrderOnce'
  <2>1. \A d \in Conns : Ordered(InTransit(d)', before')
    BY <1>10, <1>15, OrderInTransit DEF IInv, t
  <2> QED  BY <2>1 DEF InOrderOnce, Ordered
<1>17. \A o \in Casts : /\ pc[o] # "start" => pc'[o] # "start"
                        /\ left'[o] \subseteq left[o]
  BY <1>1, <1>2 DEF CallTypes
<1>18. pc'[m] # "start" /\ c \notin left'[m]
  BY <1>1, <1>2 DEF CallTypes
<1>19. VisitedInv'
  <2> SUFFICES ASSUME NEW d \in Conns, NEW i \in 1..Len(InTransit(d)')
               PROVE  LET o == InTransit(d)'[i]
                      IN  o \in Casts /\ pc'[o] # "start" /\ d \notin left'[o]
    BY DEF VisitedInv
  <2>1. CASE d = c
    <3>1. i \in 1..Len(t) /\ InTransit(d)'[i] = t[i]
      BY <2>1 DEF t
    <3>2. CASE i = Len(s) + 1
      BY <1>13, <1>18, <2>1, <3>1, <3>2
    <3>3. CASE i # Len(s) + 1
      <4>1. i \in 1..Len(s)
        BY <1>13, <3>1, <3>3
      <4> QED  BY <1>12, <1>13, <1>17, <2>1, <3>1, <4>1
    <3> QED  BY <3>2, <3>3
  <2>2. CASE d # c
    BY <1>10, <1>17, <2>2 DEF IInv, VisitedInv
  <2> QED  BY <2>1, <2>2
<1> QED  BY <1>3, <1>7, <1>8, <1>9, <1>16, <1>19, Types DEF IInv

(* A call that puts nothing into a queue.                                  *)
LEMMA QueuesNothing ==
  ASSUME IInv, NEW m \in Casts, UNCHANGED <<options, ctxDone, conns, queue>>,
         asked \subseteq asked', asked' \subseteq Conns, CallTypes',
         \A o \in Casts \ {m} : UNCHANGED <<pc[o], left[o], waitsFor[o], before[o]>>,
         pc[m] \in {"start", "loop", "wait"}, pc'[m] # "start",
         pc'[m] = "wait" => waitsFor'[m] \in left'[m],
         \/ pc[m] # "start" /\ left'[m] \subseteq left[m] /\ before'[m] = before[m]
         \/ pc[m] = "start" /\ before'[m] = {o \in Casts : Returned(o)}
  PROVE  IInv'
<1>1. CallTypes /\ ConnTypes /\ WritingInv /\ CallInv /\ VisitedInv /\ InOrderOnce
  BY Types DEF IInv
<1>2. ConnTypes' /\ WritingInv'
  BY <1>1 DEF ConnTypes, WritingInv, conns
<1>3. \A o \in Casts : Returned(o) => Returned(o)'
  BY DEF Returned, Over
<1>4. CallInv'
  <2>1. ASSUME NEW o \in Casts
        PROVE  (pc[o] = "wait" => waitsFor[o] \in left[o])' /\ \A n \in before'[o] : Returned(n)'
    <3>1. CASE o = m
      <4>1. \A n \in before'[m] : n \in Casts /\ Returned(n)
        BY <1>1 DEF CallInv, CallTypes
      <4> QED  BY <1>3, <3>1, <4>1
    <3>2. CASE o # m
      <4>1. \A n \in before[o] : n \in Casts /\ Returned(n)
        BY <1>1 DEF CallInv, CallTypes
      <4> QED  BY <1>1, <1>3, <3>2, <4>1 DEF CallInv
    <3> QED  BY <3>1, <3>2
  <2> QED  BY <2>1 DEF CallInv
<1>5. \A d \in Conns : InTransit(d)' = InTransit(d)
  BY DEF InTransit, conns
<1>6. VisitedInv'
  BY <1>1, <1>5 DEF VisitedInv
<1>7. InOrderOnce'
  BY <1>1, <1>5 DEF InOrderOnce, VisitedInv
<1> QED  BY <1>2, <1>4, <1>6, <1>7, Types DEF IInv

(* A step of a call.                                                       *)
LEMMA CastInv ==
  ASSUME IInv, NEW m \in Casts, Call(m)
  PROVE  IInv'
<1>1. CallTypes /\ ConnTypes /\ CallInv /\ Nobody \notin Conns /\ UNCHANGED options
  BY Types, BroadcastAssumption DEF BroadcastAssumption, IInv, Call
<1>2. CASE Begin(m)
  <2>1. /\ pc[m] = "start" /\ pc' = [pc EXCEPT ![m] = "loop"]
        /\ left' = [left EXCEPT ![m] = {c \in Conns : closing[c] # "gone"}]
        /\ before' = [before EXCEPT ![m] = {o \in Casts : Returned(o)}]
        /\ UNCHANGED <<waitsFor, ctxDone, conns, queue, asked>>
    BY <1>2 DEF Begin
  <2>2. CallTypes'
    BY <1>1, <2>1 DEF CallTypes, Cancellable
  <2>3. /\ \A o \in Casts \ {m} : UNCHANGED <<pc[o], left[o], waitsFor[o], before[o]>>
        /\ pc'[m] = "loop" /\ before'[m] = {o \in Casts : Returned(o)}
    BY <1>1, <2>1 DEF CallTypes
  <2>4. asked' = asked /\ asked \subseteq Conns
    BY <1>1, <2>1 DEF ConnTypes
  <2> QED  BY <1>1, <2>1, <2>2, <2>3, <2>4, QueuesNothing
<1>3. CASE EnqueueLate(m)
  <2> DEFINE c == waitsFor[m]
  <2>1. c \in left[m] /\ c \in Conns
    BY <1>1, <1>3 DEF EnqueueLate, CallInv, CallTypes
  <2>2. /\ pc[m] = "wait" /\ Room(c) /\ queue' = [queue EXCEPT ![c] = Append(@, m)]
        /\ Visited(m, c) /\ pc' = [pc EXCEPT ![m] = "loop"]
        /\ waitsFor' = [waitsFor EXCEPT ![m] = Nobody]
        /\ UNCHANGED <<before, ctxDone, conns, asked>>
    BY <1>3 DEF EnqueueLate
  <2>3. pc'[m] = "loop"
    BY <1>1, <2>2 DEF CallTypes
  <2> HIDE DEF c
  <2> QED  BY <1>1, <2>1, <2>2, <2>3, Enqueues
<1>4. ASSUME NEW l \in Over, pc[m] \in {"loop", "wait"}, pc' = [pc EXCEPT ![m] = l],
             UNCHANGED <<left, waitsFor, before, ctxDone, conns, queue, asked>>
      PROVE  IInv'
  <2>1. CallTypes'
    BY <1>1, <1>4 DEF CallTypes, Cancellable
  <2>2. /\ \A o \in Casts \ {m} : UNCHANGED <<pc[o], left[o], waitsFor[o], before[o]>>
        /\ pc'[m] = l /\ l \notin {"start", "wait"} /\ left'[m] \subseteq left[m] /\ before'[m] = before[m]
    BY <1>1, <1>4 DEF CallTypes, Over
  <2>3. asked' = asked /\ asked \subseteq Conns
    BY <1>1, <1>4 DEF ConnTypes
  <2> QED  BY <1>1, <1>4, <2>1, <2>2, <2>3, QueuesNothing
<1>5. CASE GiveUp(m) \/ Return(m)
  BY <1>4, <1>5 DEF GiveUp, Return, Over
<1>6. ASSUME NEW c \in Conns, Enqueue(m, c)
      PROVE  IInv'
  <2>1. pc'[m] = "loop" /\ c \in left[m]
    BY <1>1, <1>6 DEF Enqueue
  <2>2. /\ pc[m] = "loop" /\ Room(c) /\ queue' = [queue EXCEPT ![c] = Append(@, m)]
        /\ Visited(m, c) /\ UNCHANGED <<pc, waitsFor, before, ctxDone, conns, asked>>
    BY <1>6 DEF Enqueue
  <2> QED  BY <1>1, <2>1, <2>2, Enqueues
<1>7. ASSUME NEW c \in Conns, Drop(m, c) \/ CloseSlow(m, c) \/ WaitFor(m, c)
      PROVE  IInv'
  <2>1. /\ pc[m] = "loop" /\ c \in left[m] /\ UNCHANGED <<before, ctxDone, conns, queue>>
        /\ asked' \in {asked, asked \cup {c}}
        /\ \/ UNCHANGED <<pc, waitsFor>> /\ left' = [left EXCEPT ![m] = @ \ {c}]
           \/ /\ UNCHANGED left /\ pc' = [pc EXCEPT ![m] = "wait"]
              /\ waitsFor' = [waitsFor EXCEPT ![m] = c]
    BY <1>7 DEF Drop, CloseSlow, WaitFor, Blocked, Visited
  <2>2. CallTypes'
    BY <1>1, <2>1 DEF CallTypes, Cancellable
  <2>3. /\ \A o \in Casts \ {m} : UNCHANGED <<pc[o], left[o], waitsFor[o], before[o]>>
        /\ pc'[m] # "start" /\ left'[m] \subseteq left[m] /\ before'[m] = before[m]
        /\ pc'[m] = "wait" => waitsFor'[m] \in left'[m]
    BY <1>1, <2>1 DEF CallTypes
  <2>4. asked \subseteq asked' /\ asked' \subseteq Conns
    BY <1>1, <2>1 DEF ConnTypes
  <2> QED  BY <1>1, <2>1, <2>2, <2>3, <2>4, QueuesNothing
<1> QED  BY <1>2, <1>3, <1>5, <1>6, <1>7 DEF Call

(* What goes on around the calls and the listeners.                        *)
LEMMA OtherInv ==
  ASSUME IInv, UNCHANGED <<options, calls, queue, current, sent, asked>>,
         \/ UNCHANGED <<ctxDone, enabled, listener, closing>>
         \/ \E m \in Casts : CancelCtx(m)
         \/ \E c \in Conns : Enable(c) \/ CloseBegin(c) \/ CloseEnd(c)
  PROVE  IInv'
<1>1. CallTypes /\ ConnTypes /\ WritingInv
  BY Types DEF IInv
<1>2. CallTypes'
  BY <1>1 DEF CallTypes, CancelCtx, Enable, CloseBegin, CloseEnd, calls, Cancellable
<1>3. ConnTypes' /\ WritingInv'
  <2>1. CASE UNCHANGED <<enabled, listener, closing>>
    BY <1>1, <2>1 DEF ConnTypes, WritingInv
  <2>2. ASSUME NEW c \in Conns, Enable(c) PROVE ConnTypes' /\ WritingInv'
    <3>1. listener' = [listener EXCEPT ![c] = "idle"] /\ enabled' = enabled \cup {c}
          /\ UNCHANGED closing /\ current[c] = Nobody
      BY <1>1, <2>2 DEF Enable, WritingInv
    <3> QED  BY <1>1, <3>1 DEF ConnTypes, WritingInv
  <2>3. ASSUME NEW c \in Conns, CloseBegin(c) \/ CloseEnd(c) PROVE ConnTypes' /\ WritingInv'
    BY <1>1, <2>3 DEF CloseBegin, CloseEnd, ConnTypes, WritingInv
  <2> QED  BY <2>1, <2>2, <2>3 DEF CancelCtx, conns
<1>4. CallInv' /\ VisitedInv' /\ InOrderOnce'
  <2>1. \A c \in Conns : InTransit(c)' = InTransit(c)
    BY DEF InTransit
  <2>2. UNCHANGED <<pc, left, waitsFor, before>>
    BY DEF calls
  <2>3. CallInv'
    BY <2>2 DEF IInv, CallInv, Returned
  <2>4. VisitedInv'
    BY <2>1, <2>2 DEF IInv, VisitedInv
  <2>5. InOrderOnce'
    BY <2>1, <2>2 DEF IInv, InOrderOnce
  <2> QED  BY <2>3, <2>4, <2>5
<1> QED  BY <1>2, <1>3, <1>4, Types DEF IInv

-----------------------------------------------------------------------------
(* The invariant is inductive.                                             *)
LEMMA InitInv == Init => IInv
<1> SUFFICES ASSUME Init PROVE IInv
  OBVIOUS
<1> USE DEF Init
<1>1. CallTypes
  BY DEF CallTypes, Cancellable
<1>2. ConnTypes
  <2>1. options.capacity \in Nat
    BY BroadcastAssumption DEF BroadcastAssumption
  <2>2. <<>> \in Seq(Casts) /\ Len(<<>>) = 0
    OBVIOUS
  <2> QED  BY <2>1, <2>2 DEF ConnTypes
<1>3. WritingInv
  BY DEF WritingInv
<1>4. CallInv
  BY DEF CallInv
<1>5. \A c \in Conns : Len(InTransit(c)) = 0
  BY DEF InTransit
<1>6. VisitedInv /\ InOrderOnce
  BY <1>5 DEF VisitedInv, InOrderOnce
<1> QED  BY <1>1, <1>2, <1>3, <1>4, <1>6, Types DEF IInv

(* Every step keeps IInv.                                                  *)
LEMMA NextInv ==
  ASSUME IInv, [Next]_vars
  PROVE  IInv'
<1>1. CASE UNCHANGED vars
  BY <1>1, OtherInv DEF vars, conns
<1>2. ASSUME NEW m \in Casts, Call(m) PROVE IInv'
  BY <1>2, CastInv
<1>3. ASSUME NEW m \in Casts, CancelCtx(m) PROVE IInv'
  BY <1>3, OtherInv DEF CancelCtx, conns
<1>4. ASSUME NEW c \in Conns, Listen(c) PROVE IInv'
  BY <1>4, ListenInv
<1>5. ASSUME NEW c \in Conns, Enable(c) \/ CloseBegin(c) \/ CloseEnd(c) PROVE IInv'
  <2>1. UNCHANGED <<options, calls, queue, current, sent, asked>>
    BY <1>5 DEF Enable, CloseBegin, CloseEnd
  <2> QED  BY <1>5, <2>1, OtherInv
<1> QED  BY <1>1, <1>2, <1>3, <1>4, <1>5 DEF Next

-----------------------------------------------------------------------------
(* The variables keep their types; whatever the backpressure, a queue is   *)
(* never longer than BroadcastChannelsSize.                                *)
THEOREM BroadcastTypeCorrect == Spec => []TypeOK
<1>1. IInv => TypeOK
  BY DEF IInv
<1> QED  BY <1>1, InitInv, NextInv, PTL DEF Spec

(* No client is sent a broadcast twice, or two broadcasts in an order that *)
(* contradicts their callers', by any number of calls and listeners.       *)
THEOREM BroadcastsInOrder == Spec => []InOrderOnce
<1>1. IInv => InOrderOnce
  BY DEF IInv
<1> QED  BY <1>1, InitInv, NextInv, PTL DEF Spec

(* A step asks for a close only where a queue is full or not there yet, or *)
(* a listener's write finds the raw connection closed.                     *)
LEMMA StepAsks ==
  ASSUME IInv, [Next]_vars, NEW c \in Conns, c \in asked' \ asked
  PROVE  \/ options.policy = "close" /\ (Len(queue[c]) = options.capacity \/ c \notin enabled)
         \/ "rawclose" \in options.faults /\ current[c] # Nobody
<1>1. CASE UNCHANGED asked
  BY <1>1
<1>2. ASSUME NEW m \in Casts, CloseSlow(m, c)
      PROVE  options.policy = "close" /\ (Len(queue[c]) = options.capacity \/ c \notin enabled)
  <2>1. options.policy = "close" /\ ~Room(c)
    BY <1>2 DEF CloseSlow, Blocked
  <2>2. /\ options.capacity \in Nat /\ Len(queue[c]) \in Nat /\ Len(queue[c]) <= options.capacity
    BY BroadcastAssumption DEF BroadcastAssumption, IInv, TypeOK
  <2> QED  BY <2>1, <2>2 DEF Room
<1>3. CASE WriteFatal(c) /\ ~UNCHANGED asked
  BY <1>3 DEF WriteFatal, WriteEnds, IInv, WritingInv
<1>4. ASSUME NEW m \in Casts, NEW d \in Conns, CloseSlow(m, d) PROVE d = c
  BY <1>4 DEF CloseSlow
<1>5. ASSUME NEW d \in Conns, WriteFatal(d), ~UNCHANGED asked PROVE d = c
  BY <1>5 DEF WriteFatal
<1>6. CASE \E m \in Casts : Call(m)
  <2>1. \/ UNCHANGED asked \/ \E m \in Casts, d \in Conns : CloseSlow(m, d)
    BY <1>6 DEF Call, Begin, EnqueueLate, GiveUp, Return, Enqueue, Drop, WaitFor
  <2> QED  BY <1>1, <1>2, <1>4, <2>1
<1>7. CASE \E d \in Conns : Listen(d)
  <2>1. \/ UNCHANGED asked \/ \E d \in Conns : WriteFatal(d)
    BY <1>7 DEF Listen, Receive, WriteSent, WriteCancelled, StopListening, Drain
  <2> QED  BY <1>1, <1>3, <1>5, <2>1
<1>8. CASE \/ \E m \in Casts : CancelCtx(m)
           \/ \E d \in Conns : Enable(d) \/ CloseBegin(d) \/ CloseEnd(d)
  BY <1>1, <1>8 DEF CancelCtx, Enable, CloseBegin, CloseEnd
<1> QED  BY <1>1, <1>6, <1>7, <1>8 DEF Next, vars

(* Only clients that are too slow are closed by BackpressureClose, and a   *)
(* listener asks to close only what somebody has closed below it.          *)
THEOREM SlowAreClosed == Spec => OnlySlowAreClosed
<1>1. IInv /\ [Next]_vars =>
        [\A c \in asked' \ asked :
           \/ options.policy = "close" /\ (Len(queue[c]) = options.capacity \/ c \notin enabled)
           \/ "rawclose" \in options.faults /\ current[c] # Nobody]_vars
  <2>1. IInv /\ [Next]_vars => asked' \subseteq Conns
    BY NextInv DEF IInv, TypeOK
  <2> QED  BY <2>1, StepAsks
<1> QED  BY <1>1, InitInv, NextInv, PTL DEF Spec, OnlySlowAreClosed
=============================================================================

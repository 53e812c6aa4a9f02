---------------------------- MODULE BatchProofs ----------------------------
(***************************************************************************)
(* What TLAPS proves of Batch, for any connections, messages, flushers and *)
(* programs.                                                               *)
(***************************************************************************)
EXTENDS Batch, SequenceTheorems, WellFoundedInduction, TLAPS

(* The variables of the flushers, the connections and the broadcasts.      *)
FlusherTypes ==
  /\ setup \in Setups
  /\ flusher \in 0..MaxFlushers /\ enabling \in BOOLEAN
  /\ closed \subseteq Flushers /\ ctxDone \subseteq Flushers
  /\ listener \in [Flushers -> {"none", "on", "last", "off"}]
  /\ conns \in [Flushers -> SUBSET Conns]
  /\ sweep \in [Flushers -> [{"tick", "last"} -> SUBSET Conns]]
ConnTypes ==
  /\ life \in [Conns -> {"none", "new", "added", "open", "broken", "done", "gone"}]
  /\ owner \in [Conns -> 0..MaxFlushers]
  /\ crashed \in BOOLEAN
CastTypes ==
  /\ at \in [Conns -> [Messages -> {"no", "called", "lock", "full", "again", "ok", "err"}]]
  /\ queue \in [Conns -> Seq(Messages)] /\ listens \subseteq Conns
  /\ cast \in [Messages -> {"no", "called", "loop", "returned"} \cup Conns]
  /\ left \in [Messages -> SUBSET Conns] /\ seen \in [Messages -> 0..MaxFlushers]
  /\ asked \subseteq Conns
BatchTypes ==
  /\ batch \in [Conns -> Seq(Messages)] /\ total \in [Conns -> Nat]
  /\ sending \in [Conns -> SUBSET Seq(Messages)]
  /\ wire \in [Conns -> Seq(Seq(Tokens))] /\ garbled \subseteq Conns
  /\ log \in [Conns -> Seq(Messages)]
  /\ forced \in [Conns -> SUBSET Messages] /\ late \in [Conns -> SUBSET Messages]
  /\ \A c \in Conns : total[c] = Sizes(batch[c])

(* A connection is only ever on the flusher that newConn found, and of     *)
(* these only the last one may be open.                                    *)
FlusherInv ==
  /\ enabling => flusher < MaxFlushers /\ (flusher # NoFlusher => flusher \in closed)
  /\ \A f \in Flushers : f < flusher => f \in closed
  /\ \A f \in Flushers : \A c \in conns[f] :
       owner[c] = f /\ f <= flusher /\ life[c] # "new"

(* A broadcast puts its message on a queue once, and only Receive makes a  *)
(* call of Batch of it.                                                    *)
Waiting(q, place, casts) ==
  \A i \in 1..Len(q) : /\ q[i] \in casts /\ place[q[i]] = "no"
                       /\ \A j \in 1..Len(q) : i < j => q[i] # q[j]
QueueInv ==
  /\ \A m \in Messages : m \notin setup.casts => cast[m] = "no"
  /\ \A c \in Conns, m \in setup.casts :
       cast[m] = "called" \/ c \in left[m] => at[c][m] = "no" /\ ~Holds(queue[c], m)
  /\ \A c \in Conns : Waiting(queue[c], at[c], setup.casts)

(* b is a piece of s, or its end.                                          *)
Piece(b, s) == \E j \in 1..Len(s) : \E i \in 1..j : b = SubSeq(s, i, j)
EndOf(b, s) == \E k \in 0..Len(s) : b = SubSeq(s, k + 1, Len(s))

Share(b, d) == \E m \in Messages : Holds(b, m) /\ Holds(d, m)

(* Read, with the setup as a parameter.                                    *)
Decode(u, s) ==
  LET Number(name) == IF name \in u.affixes THEN 1 ELSE 0
      all == IF u.strategy = "json" THEN ReadJSONArray(s) ELSE ReadLengthPrefixed(s)
  IN SubSeq(all, 1 + Number("prefix"), Len(all) - Number("suffix"))

(* The messages that were appended, each of them once: the batch is the    *)
(* last of them, and what send goroutines have and what the client reads   *)
(* are other pieces, none of which share a message.                        *)
Sound(u, place, all, b, out, w) ==
  /\ \A i \in 1..Len(all) : /\ place[all[i]] = "ok"
                           /\ \A j \in 1..Len(all) : i < j => all[i] # all[j]
  /\ EndOf(b, all)
  /\ \A x \in out : /\ Piece(x, all) /\ ~Share(x, b)
                    /\ \A y \in out : x # y => ~Share(x, y)
  /\ \A i \in 1..Len(w) : LET r == Decode(u, w[i]) IN
       /\ Piece(r, all) /\ ~Share(r, b) /\ \A x \in out : ~Share(r, x)

(* What the client of c has received, before a message was cut short.      *)
Kept(c) == IF c \in garbled THEN <<>> ELSE wire[c]
PieceInv == \A c \in Conns : Sound(setup, at[c], log[c], batch[c], sending[c], Kept(c))

(* No message but the first and a forced one makes b larger than           *)
(* MaxBatchSize.                                                           *)
Fitting(b, exempt) ==
  \A i \in 2..Len(b) : b[i] \notin exempt => Sizes(SubSeq(b, 1, i)) <= MaxBatchSize
SizeInv ==
  \A c \in Conns :
    /\ Fitting(batch[c], forced[c])
    /\ \A b \in sending[c] : Fitting(b, forced[c])
    /\ \A i \in 1..Len(Kept(c)) : Fitting(Decode(setup, Kept(c)[i]), forced[c])

Flushing == FlusherTypes /\ ConnTypes /\ FlusherInv /\ NoGoneConnIsSwept
Queueing == setup \in Setups /\ CastTypes /\ QueueInv
Contents == BatchTypes /\ PieceInv /\ SizeInv
IInv == Flushing /\ Queueing /\ Contents

-----------------------------------------------------------------------------
(* The size of a batch.                                                    *)

(* f sums the sizes of the first n messages of s.                          *)
IsSum(f, n, s) == f = [i \in 0..n |-> IF i = 0 THEN 0 ELSE f[i - 1] + SizeOf[s[i]]]

(* What fails for a natural number fails for a least one.                  *)
LEMMA Least ==
  ASSUME NEW S, S \subseteq Nat, S # {}
  PROVE  \E m \in S : \A n \in S : m <= n
<1>1. PICK m \in S : \A n \in S : ~ (<<n, m>> \in OpToRel(<, Nat))
  BY NatLessThanWellFounded, WFMin, Zenon
<1>2. \A i, j \in Nat : <<j, i>> \in OpToRel(<, Nat) <=> j < i
  BY DEF OpToRel
<1>3. \A i, j \in Nat : ~ (j < i) => i <= j
  OBVIOUS
<1> QED  BY <1>1, <1>2, <1>3, Zenon

(* The sum exists.                                                         *)
LEMMA SumExists ==
  ASSUME NEW s \in Seq(Messages)
  PROVE  \E f \in [0..Len(s) -> Nat] : IsSum(f, Len(s), s)
<1> DEFINE Good(n) == \E f \in [0..n -> Nat] : IsSum(f, n, s)
<1> DEFINE Bad == {n \in Nat : n <= Len(s) /\ ~Good(n)}
<1>1. Bad = {}
  <2> SUFFICES ASSUME Bad # {} PROVE FALSE
    OBVIOUS
  <2>1. PICK m \in Bad : \A n \in Bad : m <= n
    <3> HIDE DEF Good
    <3>1. Bad \subseteq Nat
      OBVIOUS
    <3> QED  BY <3>1, Least
  <2>2. m # 0
    <3>1. [i \in 0..0 |-> 0] \in [0..0 -> Nat] /\ IsSum([i \in 0..0 |-> 0], 0, s)
      BY DEF IsSum
    <3> QED  BY <3>1
  <2>3. PICK f \in [0..(m - 1) -> Nat] : IsSum(f, m - 1, s)
    <3>1. m - 1 \in Nat /\ m - 1 <= Len(s) /\ ~ (m <= m - 1)
      BY <2>2
    <3>2. Good(m - 1)
      <4> HIDE DEF Good
      <4> QED  BY <2>1, <3>1
    <3> QED  BY <3>2
  <2> DEFINE g == [i \in 0..m |-> IF i = m THEN f[m - 1] + SizeOf[s[m]] ELSE f[i]]
  <2>4. m \in 1..Len(s) /\ s[m] \in Messages /\ SizeOf[s[m]] \in Nat
    BY <2>2, BatchAssumption
  <2>5. f[m - 1] \in Nat
    BY <2>3, <2>4
  <2>6. g \in [0..m -> Nat]
    BY <2>3, <2>4, <2>5
  <2>7. \A i \in 0..m : g[i] = IF i = 0 THEN 0 ELSE g[i - 1] + SizeOf[s[i]]
    <3>1. \A i \in 0..(m - 1) : f[i] = IF i = 0 THEN 0 ELSE f[i - 1] + SizeOf[s[i]]
      BY <2>3 DEF IsSum
    <3> QED  BY <3>1, <2>2
  <2>8. IsSum(g, m, s)
    BY <2>7 DEF IsSum
  <2>9. Good(m)
    BY <2>6, <2>8
  <2> HIDE DEF Good
  <2> QED  BY <2>9
<1>2. Good(Len(s))
  <2> HIDE DEF Good
  <2> QED  BY <1>1
<1> QED  BY <1>2

(* Two sums agree as far as the messages do.                               *)
LEMMA SumsAgree ==
  ASSUME NEW n \in Nat, NEW j \in Nat, NEW k \in Nat, n <= j, n <= k,
         NEW s, NEW t, \A i \in 1..n : s[i] = t[i],
         NEW f, NEW g, IsSum(f, j, s), IsSum(g, k, t)
  PROVE  f[n] = g[n]
<1> DEFINE Bad == {i \in Nat : i <= n /\ f[i] # g[i]}
<1>1. \A i \in 0..n : f[i] = IF i = 0 THEN 0 ELSE f[i - 1] + SizeOf[s[i]]
  BY DEF IsSum
<1>2. \A i \in 0..n : g[i] = IF i = 0 THEN 0 ELSE g[i - 1] + SizeOf[t[i]]
  BY DEF IsSum
<1>3. Bad = {}
  <2> SUFFICES ASSUME Bad # {} PROVE FALSE
    OBVIOUS
  <2>1. PICK m \in Bad : \A i \in Bad : m <= i
    <3>1. Bad \subseteq Nat
      OBVIOUS
    <3> QED  BY <3>1, Least
  <2>2. m # 0
    BY <1>1, <1>2
  <2>3. f[m - 1] = g[m - 1]
    BY <2>1, <2>2
  <2> QED  BY <1>1, <1>2, <2>2, <2>3
<1> QED  BY <1>3

(* Sizes is a sum.                                                         *)
LEMMA SizesIsSum ==
  ASSUME NEW s \in Seq(Messages)
  PROVE  \E f \in [0..Len(s) -> Nat] : IsSum(f, Len(s), s) /\ Sizes(s) = f[Len(s)]
<1> DEFINE f == CHOOSE f : IsSum(f, Len(s), s)
<1>1. PICK g \in [0..Len(s) -> Nat] : IsSum(g, Len(s), s)
  BY SumExists
<1>2. IsSum(f, Len(s), s)
  BY <1>1
<1>3. Sizes(s) = f[Len(s)]
  BY DEF Sizes, IsSum
<1>4. f = g
  <2>1. \A n \in 0..Len(s) : f[n] = g[n]
    <3> SUFFICES ASSUME NEW n \in 0..Len(s) PROVE f[n] = g[n]
      OBVIOUS
    <3> HIDE DEF f
    <3>1. n \in Nat /\ Len(s) \in Nat /\ n <= Len(s) /\ \A i \in 1..n : s[i] = s[i]
      OBVIOUS
    <3> QED  BY <3>1, <1>1, <1>2, SumsAgree
  <2> QED  BY <2>1, <1>1, <1>2 DEF IsSum
<1> QED  BY <1>1, <1>3, <1>4

(* The size of nothing.                                                    *)
LEMMA SizesEmpty == Sizes(<<>>) = 0
<1>1. <<>> \in Seq(Messages) /\ Len(<<>>) = 0
  OBVIOUS
<1>2. PICK f \in [0..0 -> Nat] : IsSum(f, 0, <<>>) /\ Sizes(<<>>) = f[0]
  BY <1>1, SizesIsSum
<1> QED  BY <1>2 DEF IsSum

(* The size of a batch, and of one with one message more.                  *)
LEMMA SizesAppend ==
  ASSUME NEW s \in Seq(Messages), NEW m \in Messages
  PROVE  Sizes(s) \in Nat /\ Sizes(Append(s, m)) = Sizes(s) + SizeOf[m]
<1>1. PICK f : f \in [0..Len(s) -> Nat] /\ IsSum(f, Len(s), s) /\ Sizes(s) = f[Len(s)]
  BY SizesIsSum
<1>2. Sizes(s) \in Nat
  BY <1>1
<1>3. PICK t \in Seq(Messages) :
        /\ t = Append(s, m) /\ Len(t) = Len(s) + 1 /\ t[Len(s) + 1] = m
        /\ \A i \in 1..Len(s) : s[i] = t[i]
  <2>1. /\ Append(s, m) \in Seq(Messages) /\ Len(Append(s, m)) = Len(s) + 1
        /\ Append(s, m)[Len(s) + 1] = m /\ \A i \in 1..Len(s) : s[i] = Append(s, m)[i]
    OBVIOUS
  <2> QED  BY <2>1, Zenon
<1>4. PICK g : g \in [0..Len(t) -> Nat] /\ IsSum(g, Len(t), t) /\ Sizes(t) = g[Len(t)]
  BY <1>3, SizesIsSum
<1>5. g[Len(t)] = g[Len(t) - 1] + SizeOf[t[Len(t)]]
  <2>1. \A i \in 0..Len(t) : g[i] = IF i = 0 THEN 0 ELSE g[i - 1] + SizeOf[t[i]]
    BY <1>4 DEF IsSum
  <2>2. Len(t) \in 0..Len(t) /\ Len(t) # 0
    BY <1>3
  <2> QED  BY <2>1, <2>2
<1>6. f[Len(s)] = g[Len(s)]
  <2>1. PICK n \in Nat, k \in Nat : n = Len(s) /\ k = Len(t) /\ n <= k
    BY <1>3
  <2>2. n <= n /\ IsSum(f, n, s) /\ IsSum(g, k, t) /\ \A i \in 1..n : s[i] = t[i]
    BY <1>1, <1>3, <1>4, <2>1
  <2>3. f[n] = g[n]
    <3>1. n \in Nat /\ k \in Nat /\ n <= k
      BY <2>1
    <3> QED  BY <3>1, <2>2, SumsAgree
  <2> QED  BY <2>1, <2>3
<1>7. Sizes(t) = Sizes(s) + SizeOf[m]
  BY <1>1, <1>3, <1>4, <1>5, <1>6
<1> QED  BY <1>2, <1>3, <1>7

-----------------------------------------------------------------------------
(* The encoders, and what is read of what they write.                      *)

(* Two sequences in one.                                                   *)
Join(c, a, b) ==
  /\ Len(c) = Len(a) + Len(b)
  /\ \A i \in 1..Len(a) : c[i] = a[i]
  /\ \A i \in 1..Len(b) : c[Len(a) + i] = b[i]

(* That is what \o makes of them.                                          *)
LEMMA Joined ==
  ASSUME NEW S, NEW a \in Seq(S), NEW b \in Seq(S), NEW c, c = a \o b
  PROVE  c \in Seq(S) /\ Join(c, a, b)
  BY DEF Join

(* Everything that is written is a token.                                  *)
LEMMA TokensWritten ==
  ASSUME NEW s \in Seq(Messages), NEW name \in {"prefix", "suffix"}
  PROVE  /\ Parts(s, SizeOf) \in Seq(Tokens) /\ Len(Parts(s, SizeOf)) = Len(s)
         /\ \A i \in 1..Len(s) : /\ Parts(s, SizeOf)[i].is = "part"
                                 /\ Parts(s, SizeOf)[i].what = s[i]
         /\ Part(name, 1) \in Tokens
         /\ \A n \in Nat : Uint32(n) \in Tokens
         /\ Sign("openBracket") \in Tokens /\ Sign("comma") \in Tokens
         /\ Sign("closingBracket") \in Tokens
<1>1. \A m \in Messages : Part(m, SizeOf[m]) \in Tokens
  BY BatchAssumption DEF Part, Tokens
<1>2. \A i \in 1..Len(s) : s[i] \in Messages
  OBVIOUS
<1>3. /\ Parts(s, SizeOf) \in Seq(Tokens) /\ Len(Parts(s, SizeOf)) = Len(s)
      /\ \A i \in 1..Len(s) : Parts(s, SizeOf)[i] = Part(s[i], SizeOf[s[i]])
  BY <1>1, <1>2 DEF Parts
<1>4. \A m, n : Part(m, n).is = "part" /\ Part(m, n).what = m
  BY DEF Part
<1>5. Part(name, 1) \in Tokens
  BY DEF Part, Tokens
<1>6. \A n \in Nat : Uint32(n) \in Tokens
  BY DEF Uint32, Tokens
<1>7. /\ Sign("openBracket") \in Tokens /\ Sign("comma") \in Tokens
      /\ Sign("closingBracket") \in Tokens
  BY DEF Sign, Tokens
<1>8. \A i \in 1..Len(s) : /\ Parts(s, SizeOf)[i].is = "part"
                           /\ Parts(s, SizeOf)[i].what = s[i]
  <2>1. ASSUME NEW i \in 1..Len(s)
        PROVE  Parts(s, SizeOf)[i].is = "part" /\ Parts(s, SizeOf)[i].what = s[i]
    <3>1. Parts(s, SizeOf)[i] = Part(s[i], SizeOf[s[i]])
      BY <1>3, Zenon
    <3> QED  BY <3>1, <1>4
  <2> QED  BY <2>1
<1> QED  BY <1>3, <1>5, <1>6, <1>7, <1>8

(* Odd and even places.                                                    *)
LEMMA Halves ==
  /\ \A i \in Nat : /\ (2 * i) % 2 = 0 /\ (2 * i) \div 2 = i
                    /\ i > 0 => (2 * i - 1) % 2 = 1 /\ ((2 * i - 1) + 1) \div 2 = i
                    /\ ((2 * i + 1) - 1) \div 2 = i
  /\ \A i \in Nat \ {0} : \E k \in Nat \ {0} : i = 2 * k \/ i = 2 * k - 1
<1>1. \A i \in Nat : /\ (2 * i) % 2 = 0 /\ (2 * i) \div 2 = i
                     /\ i > 0 => (2 * i - 1) % 2 = 1 /\ ((2 * i - 1) + 1) \div 2 = i
                     /\ ((2 * i + 1) - 1) \div 2 = i
  OBVIOUS
<1>2. ASSUME NEW i \in Nat \ {0} PROVE \E k \in Nat \ {0} : i = 2 * k \/ i = 2 * k - 1
  <2>1. i = 2 * ((i + 1) \div 2) \/ i = 2 * ((i + 1) \div 2) - 1
    OBVIOUS
  <2>2. (i + 1) \div 2 \in Nat \ {0}
    OBVIOUS
  <2> QED  BY <2>1, <2>2
<1> QED  BY <1>1, <1>2

(* A comma between any two messages.                                       *)
LEMMA CommasBetween ==
  ASSUME NEW b \in Seq(Tokens), b # <<>>, NEW c, c = CommaBetween(b)
  PROVE  /\ c \in Seq(Tokens) /\ Len(c) = 2 * Len(b) - 1
         /\ \A i \in 1..Len(b) : c[2 * i - 1] = b[i]
         /\ \A i \in 1..(Len(b) - 1) : c[2 * i] = Sign("comma")
<1> DEFINE n == 2 * Len(b) - 1
<1>1. n \in Nat /\ Len(b) \in Nat \ {0}
  OBVIOUS
<1>2. Sign("comma") \in Tokens
  BY DEF Sign, Tokens
<1>3. c = [i \in 1..n |-> IF i % 2 = 1 THEN b[(i + 1) \div 2] ELSE Sign("comma")]
  BY DEF CommaBetween
<1>4. \A i \in 1..n : i % 2 = 1 => (i + 1) \div 2 \in 1..Len(b)
  BY <1>1 DEF n
<1> HIDE DEF n
<1>5. \A i \in 1..n : c[i] \in Tokens
  <2>1. ASSUME NEW i \in 1..n PROVE c[i] \in Tokens
    <3>1. c[i] = IF i % 2 = 1 THEN b[(i + 1) \div 2] ELSE Sign("comma")
      BY <1>3, Zenon
    <3>2. \A k \in 1..Len(b) : b[k] \in Tokens
      OBVIOUS
    <3> QED  BY <1>2, <1>4, <3>1, <3>2, Zenon
  <2> QED  BY <2>1
<1>6. c \in Seq(Tokens) /\ Len(c) = n
  <2>1. c = [i \in 1..n |-> c[i]]
    BY <1>3
  <2> QED  BY <1>1, <1>5, <2>1
<1>7. ASSUME NEW i \in 1..Len(b) PROVE c[2 * i - 1] = b[i]
  <2>1. 2 * i - 1 \in 1..n /\ i \in Nat /\ i > 0
    BY <1>1 DEF n
  <2>2. (2 * i - 1) % 2 = 1 /\ ((2 * i - 1) + 1) \div 2 = i
    BY <2>1, Halves
  <2> QED  BY <1>3, <2>1, <2>2
<1>8. ASSUME NEW i \in 1..(Len(b) - 1) PROVE c[2 * i] = Sign("comma")
  <2>1. 2 * i \in 1..n /\ i \in Nat
    BY <1>1 DEF n
  <2>2. (2 * i) % 2 # 1
    BY <2>1, Halves
  <2> QED  BY <1>3, <2>1, <2>2
<1> QED  BY <1>6, <1>7, <1>8 DEF n

(* One token.                                                              *)
LEMMA OneToken ==
  ASSUME NEW t \in Tokens, NEW s, s = <<t>>
  PROVE  s \in Seq(Tokens) /\ Len(s) = 1 /\ s[1] = t
  OBVIOUS

(* A prefix with its comma, a suffix with its own, if there is one.        *)
LEMMA Around ==
  ASSUME NEW p \in Seq(Tokens), Len(p) <= 1, NEW comma \in Tokens, NEW before, NEW after,
         before = IF p = <<>> THEN <<>> ELSE p \o <<comma>>,
         after = IF p = <<>> THEN <<>> ELSE <<comma>> \o p
  PROVE  /\ before \in Seq(Tokens) /\ Len(before) = 2 * Len(p)
         /\ \A i \in 1..Len(p) : before[2 * i - 1] = p[i] /\ before[2 * i] = comma
         /\ after \in Seq(Tokens) /\ Len(after) = 2 * Len(p)
         /\ \A i \in 1..Len(p) : after[2 * i - 1] = comma /\ after[2 * i] = p[i]
<1>1. CASE p = <<>>
  <2>1. before = <<>> /\ after = <<>> /\ Len(p) = 0
    BY <1>1
  <2>2. Len(before) = 0 /\ Len(after) = 0 /\ before \in Seq(Tokens) /\ after \in Seq(Tokens)
    BY <2>1
  <2> QED  BY <2>1, <2>2
<1>2. CASE p # <<>>
  <2>1. Len(p) = 1
    BY <1>2
  <2>2. PICK one : one = <<comma>>
    OBVIOUS
  <2>3. one \in Seq(Tokens) /\ Len(one) = 1 /\ one[1] = comma
    BY <2>2, OneToken
  <2>4. before = p \o one /\ after = one \o p
    BY <1>2, <2>2
  <2>5. before \in Seq(Tokens) /\ Join(before, p, one)
    BY <2>3, <2>4, Joined
  <2>6. after \in Seq(Tokens) /\ Join(after, one, p)
    BY <2>3, <2>4, Joined
  <2>7. before[1] = p[1] /\ before[2] = comma /\ after[1] = comma /\ after[2] = p[1]
    BY <2>1, <2>3, <2>5, <2>6 DEF Join
  <2>8. \A i \in 1..Len(p) : i = 1
    BY <2>1
  <2> QED  BY <2>1, <2>3, <2>5, <2>6, <2>7, <2>8 DEF Join
<1> QED  BY <1>1, <1>2

(* The prefix p, the messages b and the suffix z at the even places, and   *)
(* brackets and commas at the odd ones.                                    *)
JSONRow(s, p, b, z) ==
  /\ Len(s) = 2 * (Len(p) + Len(b) + Len(z)) + 1
  /\ s[1] = Sign("openBracket") /\ s[Len(s)] = Sign("closingBracket")
  /\ \A i \in 1..(Len(p) + Len(b) + Len(z) - 1) : s[2 * i + 1] = Sign("comma")
  /\ \A i \in 1..Len(p) : s[2 * i] = p[i]
  /\ \A i \in 1..Len(b) : s[2 * (Len(p) + i)] = b[i]
  /\ \A i \in 1..Len(z) : s[2 * (Len(p) + Len(b) + i)] = z[i]

(* That is what jsonArrayEncoder writes.                                   *)
LEMMA JSONWritten ==
  ASSUME NEW p \in Seq(Tokens), Len(p) <= 1, NEW z \in Seq(Tokens), Len(z) <= 1,
         NEW b \in Seq(Tokens), b # <<>>, NEW s, s = jsonArrayEncoder(b, p, z)
  PROVE  s \in Seq(Tokens) /\ JSONRow(s, p, b, z)
<1>1. /\ Sign("openBracket") \in Tokens /\ Sign("comma") \in Tokens
      /\ Sign("closingBracket") \in Tokens
  BY DEF Sign, Tokens
<1> DEFINE Before(q) == IF q = <<>> THEN <<>> ELSE q \o <<Sign("comma")>>
           After(q) == IF q = <<>> THEN <<>> ELSE <<Sign("comma")>> \o q
<1>2. PICK A, B, C, D, E, F, G, H :
        /\ A = <<Sign("openBracket")>> /\ B = Before(p) /\ C = CommaBetween(b)
        /\ D = After(z) /\ E = <<Sign("closingBracket")>>
        /\ F = A \o B /\ G = F \o C /\ H = G \o D
  <2> HIDE DEF Before, After
  <2> QED  OBVIOUS
<1>3. /\ A \in Seq(Tokens) /\ Len(A) = 1 /\ A[1] = Sign("openBracket")
      /\ E \in Seq(Tokens) /\ Len(E) = 1 /\ E[1] = Sign("closingBracket")
  <2> HIDE DEF Before, After
  <2> QED  BY <1>1, <1>2, OneToken
<1>4. /\ B \in Seq(Tokens) /\ Len(B) = 2 * Len(p)
      /\ \A i \in 1..Len(p) : B[2 * i - 1] = p[i] /\ B[2 * i] = Sign("comma")
  <2>1. PICK comma : comma = Sign("comma") /\ comma \in Tokens
    BY <1>1, Zenon
  <2>2. /\ B = (IF p = <<>> THEN <<>> ELSE p \o <<comma>>)
        /\ \E a : a = IF p = <<>> THEN <<>> ELSE <<comma>> \o p
    BY <1>2, <2>1, Zenon
  <2> QED  BY <2>1, <2>2, Around
<1>5. /\ C \in Seq(Tokens) /\ Len(C) = 2 * Len(b) - 1
      /\ \A i \in 1..Len(b) : C[2 * i - 1] = b[i]
      /\ \A i \in 1..(Len(b) - 1) : C[2 * i] = Sign("comma")
  <2> HIDE DEF Before, After
  <2> QED  BY <1>2, CommasBetween
<1>6. /\ D \in Seq(Tokens) /\ Len(D) = 2 * Len(z)
      /\ \A i \in 1..Len(z) : D[2 * i - 1] = Sign("comma") /\ D[2 * i] = z[i]
  <2>1. PICK comma : comma = Sign("comma") /\ comma \in Tokens
    BY <1>1, Zenon
  <2>2. /\ D = (IF z = <<>> THEN <<>> ELSE <<comma>> \o z)
        /\ \E a : a = IF z = <<>> THEN <<>> ELSE z \o <<comma>>
    BY <1>2, <2>1, Zenon
  <2> QED  BY <2>1, <2>2, Around
<1>7. F \in Seq(Tokens) /\ Join(F, A, B)
  <2> HIDE DEF Before, After
  <2> QED  BY <1>2, <1>3, <1>4, Joined
<1>8. G \in Seq(Tokens) /\ Join(G, F, C)
  <2> HIDE DEF Before, After
  <2> QED  BY <1>2, <1>5, <1>7, Joined
<1>9. H \in Seq(Tokens) /\ Join(H, G, D)
  <2> HIDE DEF Before, After
  <2> QED  BY <1>2, <1>6, <1>8, Joined
<1>10. s = H \o E
  BY <1>2 DEF jsonArrayEncoder
<1> HIDE DEF Before, After
<1>11. s \in Seq(Tokens) /\ Join(s, H, E)
  BY <1>3, <1>9, <1>10, Joined
<1>12. PICK k \in Nat, n \in Nat, l \in Nat :
         /\ k = Len(p) /\ n = Len(b) /\ l = Len(z) /\ k <= 1 /\ l <= 1 /\ n > 0
         /\ Len(F) = 1 + 2 * k /\ Len(G) = 2 * (k + n) /\ Len(H) = 2 * (k + n + l)
         /\ Len(s) = 2 * (k + n + l) + 1
  <2>1. Len(p) \in Nat /\ Len(b) \in Nat /\ Len(z) \in Nat /\ Len(b) > 0
    OBVIOUS
  <2>2. PICK k \in Nat, n \in Nat, l \in Nat : k = Len(p) /\ n = Len(b) /\ l = Len(z)
    BY <2>1, Zenon
  <2>3. /\ k <= 1 /\ l <= 1 /\ n > 0
        /\ Len(F) = 1 + 2 * k /\ Len(G) = 2 * (k + n) /\ Len(H) = 2 * (k + n + l)
        /\ Len(s) = 2 * (k + n + l) + 1
    BY <2>1, <2>2, <1>3, <1>4, <1>5, <1>6, <1>7, <1>8, <1>9, <1>11 DEF Join
  <2> QED  BY <2>2, <2>3, Zenon
<1>13. s[1] = Sign("openBracket") /\ s[Len(s)] = Sign("closingBracket")
  <2>1. /\ 1 \in 1..Len(H) /\ 1 \in 1..Len(G) /\ 1 \in 1..Len(F) /\ 1 \in 1..Len(A)
        /\ 1 \in 1..Len(E) /\ Len(s) = Len(H) + 1
    BY <1>3, <1>12
  <2> QED  BY <2>1, <1>3, <1>7, <1>8, <1>9, <1>11 DEF Join
<1>14. ASSUME NEW i \in 1..k PROVE s[2 * i] = p[i] /\ s[2 * i + 1] = Sign("comma")
  <2>1. /\ 2 * i \in 1..Len(F) /\ 2 * i \in 1..Len(G) /\ 2 * i \in 1..Len(H)
        /\ 2 * i + 1 \in 1..Len(F) /\ 2 * i + 1 \in 1..Len(G) /\ 2 * i + 1 \in 1..Len(H)
        /\ 2 * i = Len(A) + (2 * i - 1) /\ 2 * i + 1 = Len(A) + 2 * i
        /\ 2 * i - 1 \in 1..Len(B) /\ 2 * i \in 1..Len(B) /\ i \in 1..Len(p)
    BY <1>3, <1>4, <1>12
  <2>2. s[2 * i] = F[2 * i] /\ s[2 * i + 1] = F[2 * i + 1]
    BY <2>1, <1>8, <1>9, <1>11 DEF Join
  <2>3. F[2 * i] = B[2 * i - 1] /\ F[2 * i + 1] = B[2 * i]
    BY <2>1, <1>7 DEF Join
  <2> QED  BY <2>1, <2>2, <2>3, <1>4
<1>15. ASSUME NEW i \in 1..n PROVE s[2 * (k + i)] = b[i]
  <2>1. /\ 2 * (k + i) \in 1..Len(G) /\ 2 * (k + i) \in 1..Len(H)
        /\ 2 * (k + i) = Len(F) + (2 * i - 1) /\ 2 * i - 1 \in 1..Len(C) /\ i \in 1..Len(b)
    BY <1>5, <1>12
  <2>2. s[2 * (k + i)] = G[2 * (k + i)]
    BY <2>1, <1>9, <1>11 DEF Join
  <2>3. G[2 * (k + i)] = C[2 * i - 1]
    BY <2>1, <1>8 DEF Join
  <2> QED  BY <2>1, <2>2, <2>3, <1>5
<1>16. ASSUME NEW i \in 1..(n - 1) PROVE s[2 * (k + i) + 1] = Sign("comma")
  <2>1. /\ 2 * (k + i) + 1 \in 1..Len(G) /\ 2 * (k + i) + 1 \in 1..Len(H)
        /\ 2 * (k + i) + 1 = Len(F) + 2 * i /\ 2 * i \in 1..Len(C) /\ i \in 1..(Len(b) - 1)
    BY <1>5, <1>12
  <2>2. s[2 * (k + i) + 1] = G[2 * (k + i) + 1]
    BY <2>1, <1>9, <1>11 DEF Join
  <2>3. G[2 * (k + i) + 1] = C[2 * i]
    BY <2>1, <1>8 DEF Join
  <2> QED  BY <2>1, <2>2, <2>3, <1>5
<1>17. ASSUME NEW i \in 1..l
       PROVE  s[2 * (k + n + i)] = z[i] /\ s[2 * (k + n + i) - 1] = Sign("comma")
  <2>1. /\ 2 * (k + n + i) \in 1..Len(H) /\ 2 * (k + n + i) - 1 \in 1..Len(H)
        /\ 2 * (k + n + i) = Len(G) + 2 * i
        /\ 2 * (k + n + i) - 1 = Len(G) + (2 * i - 1)
        /\ 2 * i \in 1..Len(D) /\ 2 * i - 1 \in 1..Len(D) /\ i \in 1..Len(z)
    <3>1. Len(D) = 2 * l /\ i \in Nat /\ 1 <= i /\ i <= l
      BY <1>6, <1>12
    <3>2. Len(G) = 2 * (k + n) /\ Len(H) = 2 * (k + n + l) /\ Len(z) = l
      BY <1>12
    <3> QED  BY <3>1, <3>2
  <2>2. /\ s[2 * (k + n + i)] = H[2 * (k + n + i)]
        /\ s[2 * (k + n + i) - 1] = H[2 * (k + n + i) - 1]
    BY <2>1, <1>11 DEF Join
  <2>3. /\ H[2 * (k + n + i)] = D[2 * i]
        /\ H[2 * (k + n + i) - 1] = D[2 * i - 1]
    BY <2>1, <1>9 DEF Join
  <2> QED  BY <2>1, <2>2, <2>3, <1>6
<1>18. ASSUME NEW i \in 1..(k + n + l - 1) PROVE s[2 * i + 1] = Sign("comma")
  <2>1. CASE i \in 1..k
    BY <2>1, <1>14
  <2>2. CASE i > k /\ i < k + n
    <3>1. PICK j \in 1..(n - 1) : i = k + j
      <4>1. i - k \in 1..(n - 1) /\ i = k + (i - k)
        BY <2>2
      <4> QED  BY <4>1
    <3> QED  BY <3>1, <1>16
  <2>3. CASE i >= k + n
    <3>1. PICK j \in 1..l : i = k + n + j - 1
      <4>1. i - k - n + 1 \in 1..l /\ i = k + n + (i - k - n + 1) - 1
        BY <2>3
      <4> QED  BY <4>1
    <3>2. 2 * i + 1 = 2 * (k + n + j) - 1
      BY <3>1
    <3> QED  BY <3>2, <1>17
  <2> QED  BY <2>1, <2>2, <2>3
<1>19. Len(s) = 2 * (Len(p) + Len(b) + Len(z)) + 1
  BY <1>12
<1> QED  BY <1>11, <1>12, <1>13, <1>14, <1>15, <1>17, <1>18, <1>19 DEF JSONRow

(* The prefix, the messages and the suffix at the even places, and before  *)
(* each of them its length.                                                *)
LengthRow(s, p, b, z) ==
  /\ Len(s) = 2 * (Len(p) + Len(b) + Len(z))
  /\ \A i \in 1..(Len(p) + Len(b) + Len(z)) : s[2 * i - 1] = Uint32(s[2 * i].len)
  /\ \A i \in 1..Len(p) : s[2 * i] = p[i]
  /\ \A i \in 1..Len(b) : s[2 * (Len(p) + i)] = b[i]
  /\ \A i \in 1..Len(z) : s[2 * (Len(p) + Len(b) + i)] = z[i]

(* That is what lengthPrefixEncoder writes.                                *)
LEMMA LengthWritten ==
  ASSUME NEW p \in Seq(Tokens), NEW z \in Seq(Tokens), NEW b \in Seq(Tokens),
         NEW s, s = lengthPrefixEncoder(b, p, z)
  PROVE  s \in Seq(Tokens) /\ LengthRow(s, p, b, z)
<1>1. PICK a, all : a = p \o b /\ all = a \o z
  OBVIOUS
<1>2. a \in Seq(Tokens) /\ Join(a, p, b)
  BY <1>1, Joined
<1>3. all \in Seq(Tokens) /\ Join(all, a, z)
  BY <1>1, <1>2, Joined
<1>4. PICK N \in Nat : N = Len(all) /\ N = Len(p) + Len(b) + Len(z)
  <2>1. Len(all) = Len(p) + Len(b) + Len(z) /\ Len(all) \in Nat
    BY <1>2, <1>3 DEF Join
  <2> QED  BY <2>1, Zenon
<1>5. s = [i \in 1..(2 * N) |-> IF i % 2 = 1 THEN Uint32(all[(i + 1) \div 2].len)
                                             ELSE all[i \div 2]]
  BY <1>1, <1>4 DEF lengthPrefixEncoder
<1>6. ASSUME NEW i \in 1..N
      PROVE  /\ s[2 * i - 1] = Uint32(all[i].len) /\ s[2 * i] = all[i]
             /\ s[2 * i - 1] \in Tokens /\ s[2 * i] \in Tokens
  <2>1. 2 * i - 1 \in 1..(2 * N) /\ 2 * i \in 1..(2 * N) /\ i \in Nat /\ i > 0
    BY <1>4
  <2>2. /\ (2 * i - 1) % 2 = 1 /\ ((2 * i - 1) + 1) \div 2 = i
        /\ (2 * i) % 2 # 1 /\ (2 * i) \div 2 = i
    BY <2>1, Halves
  <2>3. all[i] \in Tokens /\ all[i].len \in Nat
    <3>1. all[i] \in Tokens
      <4>1. i \in 1..Len(all)
        BY <1>4
      <4>2. \A j \in 1..Len(all) : all[j] \in Tokens
        BY <1>3
      <4> QED  BY <4>1, <4>2, Zenon
    <3> QED  BY <3>1 DEF Tokens
  <2>4. s[2 * i - 1] = Uint32(all[i].len) /\ s[2 * i] = all[i]
    BY <1>5, <2>1, <2>2, Zenon
  <2>5. Uint32(all[i].len) \in Tokens
    BY <2>3 DEF Uint32, Tokens
  <2> QED  BY <2>3, <2>4, <2>5
<1>7. s \in Seq(Tokens) /\ Len(s) = 2 * N
  <2>1. ASSUME NEW i \in 1..(2 * N) PROVE s[i] \in Tokens
    <3>1. i \in Nat \ {0}
      BY <1>4
    <3>2. PICK k \in Nat \ {0} : i = 2 * k \/ i = 2 * k - 1
      BY <3>1, Halves
    <3>3. k \in 1..N
      BY <3>2, <1>4
    <3> QED  BY <3>2, <3>3, <1>6
  <2>2. PICK m \in Nat : m = 2 * N
    BY <1>4
  <2>3. s = [i \in 1..m |-> s[i]] /\ \A i \in 1..m : s[i] \in Tokens
    BY <2>1, <2>2, <1>5
  <2>4. s \in [1..m -> Tokens]
    BY <2>3, Zenon
  <2>5. s \in Seq(Tokens) /\ Len(s) = m
    BY <2>4
  <2> QED  BY <2>2, <2>5
<1>8. /\ \A i \in 1..Len(p) : i \in 1..N /\ all[i] = p[i]
      /\ \A i \in 1..Len(b) : Len(p) + i \in 1..N /\ all[Len(p) + i] = b[i]
      /\ \A i \in 1..Len(z) : Len(p) + Len(b) + i \in 1..N /\ all[Len(p) + Len(b) + i] = z[i]
  <2>1. Len(p) \in Nat /\ Len(b) \in Nat /\ Len(z) \in Nat
    OBVIOUS
  <2>2. /\ \A i \in 1..Len(p) : i \in 1..N /\ i \in 1..Len(a)
        /\ \A i \in 1..Len(b) : Len(p) + i \in 1..N /\ Len(p) + i \in 1..Len(a)
        /\ \A i \in 1..Len(z) : Len(p) + Len(b) + i \in 1..N /\ Len(a) = Len(p) + Len(b)
    BY <2>1, <1>2, <1>4 DEF Join
  <2> QED  BY <2>2, <1>2, <1>3 DEF Join
<1>9. \A i \in 1..N : s[2 * i - 1] = Uint32(s[2 * i].len)
  BY <1>6
<1>10. /\ \A i \in 1..Len(p) : s[2 * i] = p[i]
       /\ \A i \in 1..Len(b) : s[2 * (Len(p) + i)] = b[i]
       /\ \A i \in 1..Len(z) : s[2 * (Len(p) + Len(b) + i)] = z[i]
  BY <1>6, <1>8
<1> QED  BY <1>4, <1>7, <1>9, <1>10 DEF LengthRow

(* A client reads the batch that was encoded, whatever the format and      *)
(* whichever of prefix and suffix there is.                                *)
LEMMA ReadEncoded ==
  ASSUME setup \in Setups, NEW b \in Seq(Messages), b # <<>>
  PROVE  Encode(b) \in Seq(Tokens) /\ Read(Encode(b)) = b
<1>1. PICK q : q = Parts(b, SizeOf)
  OBVIOUS
<1>2. /\ q \in Seq(Tokens) /\ Len(q) = Len(b)
      /\ \A i \in 1..Len(b) : q[i].is = "part" /\ q[i].what = b[i]
      /\ Part("prefix", 1) \in Tokens /\ Part("suffix", 1) \in Tokens
  BY <1>1, TokensWritten
<1>3. PICK p, z : p = Affix("prefix") /\ z = Affix("suffix")
  OBVIOUS
<1>4. /\ p \in Seq(Tokens) /\ Len(p) <= 1 /\ \A i \in 1..Len(p) : p[i].is = "part"
      /\ z \in Seq(Tokens) /\ Len(z) <= 1 /\ \A i \in 1..Len(z) : z[i].is = "part"
  <2>1. ASSUME NEW t \in Tokens, t.is = "part", NEW a, a = <<t>> \/ a = <<>>
        PROVE  a \in Seq(Tokens) /\ Len(a) <= 1 /\ \A i \in 1..Len(a) : a[i].is = "part"
    <3>1. CASE a = <<t>>
      <4>1. a \in Seq(Tokens) /\ Len(a) = 1 /\ a[1] = t
        BY <3>1, OneToken
      <4>2. \A i \in 1..Len(a) : i = 1
        BY <4>1
      <4> QED  BY <2>1, <4>1, <4>2
    <3>2. CASE a = <<>>
      BY <3>2
    <3> QED  BY <2>1, <3>1, <3>2
  <2>2. Part("prefix", 1).is = "part" /\ Part("suffix", 1).is = "part"
    BY DEF Part
  <2>3. /\ p = <<Part("prefix", 1)>> \/ p = <<>>
        /\ z = <<Part("suffix", 1)>> \/ z = <<>>
    BY <1>3 DEF Affix
  <2>4. PICK t \in Tokens, u \in Tokens : t = Part("prefix", 1) /\ u = Part("suffix", 1)
    BY <1>2, Zenon
  <2>5. t.is = "part" /\ u.is = "part" /\ (p = <<t>> \/ p = <<>>) /\ (z = <<u>> \/ z = <<>>)
    BY <2>2, <2>3, <2>4, Zenon
  <2> QED  BY <2>1, <2>5
<1>5. PICK k \in Nat, n \in Nat, l \in Nat : k = Len(p) /\ n = Len(b) /\ l = Len(z) /\ n > 0
  <2>1. Len(p) \in Nat /\ Len(b) \in Nat /\ Len(z) \in Nat /\ Len(b) > 0
    BY <1>4
  <2> QED  BY <2>1, Zenon
<1>6. PICK s : s = Encode(b)
  OBVIOUS
<1>7. PICK N \in Nat : N = k + n + l /\ N > 0
  BY <1>5
<1>8. ASSUME /\ \A i \in 1..k : s[2 * i] = p[i]
             /\ \A i \in 1..n : s[2 * (k + i)] = q[i]
             /\ \A i \in 1..l : s[2 * (k + n + i)] = z[i]
      PROVE  \A i \in 1..N : s[2 * i].is = "part"
  <2> SUFFICES ASSUME NEW i \in 1..N PROVE s[2 * i].is = "part"
    OBVIOUS
  <2>1. CASE i <= k
    <3>1. i \in 1..k /\ i \in 1..Len(p)
      BY <2>1, <1>5, <1>7
    <3> QED  BY <3>1, <1>4, <1>8
  <2>2. CASE k < i /\ i <= k + n
    <3>1. PICK j \in 1..n : i = k + j
      <4>1. i - k \in 1..n /\ i = k + (i - k)
        BY <2>2, <1>7
      <4> QED  BY <4>1
    <3>2. j \in 1..Len(b)
      BY <1>5
    <3> QED  BY <3>1, <3>2, <1>2, <1>8
  <2>3. CASE k + n < i
    <3>1. PICK j \in 1..l : i = k + n + j
      <4>1. i - k - n \in 1..l /\ i = k + n + (i - k - n)
        BY <2>3, <1>7
      <4> QED  BY <4>1
    <3>2. j \in 1..Len(z)
      BY <1>5
    <3> QED  BY <3>1, <3>2, <1>4, <1>8
  <2> QED  BY <2>1, <2>2, <2>3, <1>7
<1>9. PICK all : all = [i \in 1..N |-> s[2 * i].what]
  OBVIOUS
<1>10. ASSUME \A i \in 1..n : s[2 * (k + i)] = q[i]
       PROVE  SubSeq(all, 1 + Len(p), Len(all) - Len(z)) = b
  <2>1. Len(all) = N /\ 1 + Len(p) = k + 1 /\ Len(all) - Len(z) = k + n
    BY <1>5, <1>7, <1>9
  <2>2. PICK t : t = SubSeq(all, k + 1, k + n)
    OBVIOUS
  <2>3. /\ \A i \in 1..n : k + i \in 1..N /\ i \in 1..Len(b)
    BY <1>5, <1>7
  <2>4. \A i \in 1..n : all[k + i] = b[i]
    BY <2>3, <1>2, <1>10, <1>9
  <2>5. t = [i \in 1..n |-> all[k + i]]
    BY <2>2
  <2>6. t = [i \in 1..n |-> b[i]]
    BY <2>4, <2>5
  <2>7. b = [i \in 1..n |-> b[i]]
    BY <1>5
  <2> QED  BY <2>1, <2>2, <2>6, <2>7
<1>11. CASE setup.strategy = "json"
  <2>1. s = jsonArrayEncoder(q, p, z)
    BY <1>1, <1>3, <1>6, <1>11 DEF Encode
  <2>2. q # <<>>
    BY <1>2
  <2>3. /\ s \in Seq(Tokens) /\ Len(s) = 2 * (k + n + l) + 1
        /\ s[1] = Sign("openBracket") /\ s[Len(s)] = Sign("closingBracket")
        /\ \A i \in 1..(k + n + l - 1) : s[2 * i + 1] = Sign("comma")
        /\ \A i \in 1..k : s[2 * i] = p[i]
        /\ \A i \in 1..n : s[2 * (k + i)] = q[i]
        /\ \A i \in 1..l : s[2 * (k + n + i)] = z[i]
    <3>1. s \in Seq(Tokens) /\ JSONRow(s, p, q, z)
      BY <2>1, <2>2, <1>2, <1>4, JSONWritten
    <3>2. Len(p) = k /\ Len(q) = n /\ Len(z) = l
      BY <1>2, <1>5
    <3> QED  BY <3>1, <3>2, Zenon DEF JSONRow
  <2>4. \A i \in 1..N : s[2 * i].is = "part"
    BY <2>3, <1>8
  <2>5. ReadJSONArray(s) = all
    <3>1. (Len(s) - 1) \div 2 = N /\ Len(s) = 2 * N + 1 /\ N > 0
      <4>1. Len(s) = 2 * N + 1
        BY <2>3, <1>7
      <4> QED  BY <4>1, <1>7, Halves
    <3>2. /\ Len(s) = 2 * N + 1 /\ N > 0
          /\ s[1] = Sign("openBracket") /\ s[Len(s)] = Sign("closingBracket")
          /\ \A i \in 1..N : s[2 * i].is = "part"
          /\ \A i \in 1..(N - 1) : s[2 * i + 1] = Sign("comma")
      BY <2>3, <2>4, <3>1, <1>7
    <3> QED  BY <3>1, <3>2, <1>9, Zenon DEF ReadJSONArray
  <2>6. s \in Seq(Tokens) /\ \A i \in 1..n : s[2 * (k + i)] = q[i]
    BY <2>3
  <2>7. Read(s) = SubSeq(all, 1 + Len(p), Len(all) - Len(z))
    BY <2>5, <1>3, <1>11, Zenon DEF Read
  <2> QED  BY <2>6, <2>7, <1>6, <1>10
<1>12. CASE setup.strategy = "length"
  <2>1. s = lengthPrefixEncoder(q, p, z)
    BY <1>1, <1>3, <1>6, <1>12 DEF Encode
  <2>2. /\ s \in Seq(Tokens) /\ Len(s) = 2 * (k + n + l)
        /\ \A i \in 1..(k + n + l) : s[2 * i - 1] = Uint32(s[2 * i].len)
        /\ \A i \in 1..k : s[2 * i] = p[i]
        /\ \A i \in 1..n : s[2 * (k + i)] = q[i]
        /\ \A i \in 1..l : s[2 * (k + n + i)] = z[i]
    <3>1. s \in Seq(Tokens) /\ LengthRow(s, p, q, z)
      BY <2>1, <1>2, <1>4, LengthWritten
    <3>2. Len(p) = k /\ Len(q) = n /\ Len(z) = l
      BY <1>2, <1>5
    <3> QED  BY <3>1, <3>2, Zenon DEF LengthRow
  <2>3. \A i \in 1..N : s[2 * i].is = "part"
    BY <2>2, <1>8
  <2>4. ReadLengthPrefixed(s) = all
    <3>1. Len(s) \div 2 = N /\ Len(s) = 2 * N
      <4>1. Len(s) = 2 * N
        BY <2>2, <1>7
      <4> QED  BY <4>1, <1>7, Halves
    <3>2. \A i \in 1..N : s[2 * i - 1] = Uint32(s[2 * i].len) /\ s[2 * i].is = "part"
      BY <2>2, <2>3, <1>7
    <3> QED  BY <3>1, <3>2, <1>9, Zenon DEF ReadLengthPrefixed
  <2>5. s \in Seq(Tokens) /\ \A i \in 1..n : s[2 * (k + i)] = q[i]
    BY <2>2
  <2>6. Read(s) = SubSeq(all, 1 + Len(p), Len(all) - Len(z))
    <3>1. setup.strategy # "json"
      BY <1>12
    <3> QED  BY <2>4, <3>1, <1>3, Zenon DEF Read
  <2> QED  BY <2>5, <2>6, <1>6, <1>10
<1>13. setup.strategy \in {"json", "length"}
  BY BatchAssumption
<1> QED  BY <1>11, <1>12, <1>13

-----------------------------------------------------------------------------
(* Pieces of a sequence.                                                   *)

(* What SubSeq is.                                                         *)
LEMMA SubSeqIs ==
  ASSUME NEW S, NEW s \in Seq(S), NEW i \in 1..(Len(s) + 1), NEW j \in (i - 1)..Len(s),
         NEW b, b = SubSeq(s, i, j)
  PROVE  /\ b \in Seq(S) /\ Len(b) = j - i + 1
         /\ \A k \in 1..Len(b) : b[k] = s[i + k - 1]
<1>1. i \in Nat /\ j \in Nat /\ 1 <= i /\ j <= Len(s) /\ Len(s) \in Nat /\ i - 1 <= j
  OBVIOUS
<1>2. PICK n \in Nat : n = j - i + 1
  BY <1>1
<1>3. b = [k \in 1..n |-> s[i + k - 1]]
  BY <1>1, <1>2
<1>4. \A k \in 1..n : i + k - 1 \in 1..Len(s)
  BY <1>1, <1>2
<1>5. \A k \in 1..n : s[i + k - 1] \in S
  <2>1. \A l \in 1..Len(s) : s[l] \in S
    OBVIOUS
  <2> QED  BY <1>4, <2>1, Zenon
<1>6. b \in Seq(S) /\ Len(b) = n
  BY <1>3, <1>5
<1> QED  BY <1>2, <1>3, <1>6

(* Two sequences with the same elements are the same.                      *)
LEMMA SameSeq ==
  ASSUME NEW S, NEW a \in Seq(S), NEW b \in Seq(S), Len(a) = Len(b),
         \A k \in 1..Len(a) : a[k] = b[k]
  PROVE  a = b
  OBVIOUS

(* The messages of a piece, or of the end, are messages of the sequence.   *)
LEMMA PieceHolds ==
  ASSUME NEW s \in Seq(Messages), NEW b, Piece(b, s) \/ EndOf(b, s)
  PROVE  /\ b \in Seq(Messages) /\ \A m : Holds(b, m) => Holds(s, m)
         /\ Piece(b, s) => b # <<>>
<1>1. ASSUME NEW i \in 1..(Len(s) + 1), NEW j \in (i - 1)..Len(s), b = SubSeq(s, i, j)
      PROVE  /\ b \in Seq(Messages) /\ Len(b) = j - i + 1
             /\ \A m : Holds(b, m) => Holds(s, m)
  <2>1. /\ b \in Seq(Messages) /\ Len(b) = j - i + 1
        /\ \A k \in 1..Len(b) : b[k] = s[i + k - 1]
    BY <1>1, SubSeqIs
  <2>2. \A k \in 1..Len(b) : i + k - 1 \in 1..Len(s)
    BY <2>1
  <2> QED  BY <2>1, <2>2 DEF Holds
<1>2. CASE EndOf(b, s) /\ ~Piece(b, s)
  <2>1. PICK k \in 0..Len(s) : b = SubSeq(s, k + 1, Len(s))
    BY <1>2 DEF EndOf
  <2>2. k + 1 \in 1..(Len(s) + 1) /\ Len(s) \in ((k + 1) - 1)..Len(s)
    OBVIOUS
  <2> QED  BY <1>1, <1>2, <2>1, <2>2
<1>3. CASE Piece(b, s)
  <2>1. PICK j \in 1..Len(s) : \E i \in 1..j : b = SubSeq(s, i, j)
    BY <1>3 DEF Piece
  <2>2. PICK i \in 1..j : b = SubSeq(s, i, j)
    BY <2>1
  <2>3. i \in 1..(Len(s) + 1) /\ j \in (i - 1)..Len(s) /\ j - i + 1 > 0
    OBVIOUS
  <2>4. /\ b \in Seq(Messages) /\ Len(b) > 0 /\ \A m : Holds(b, m) => Holds(s, m)
    BY <1>1, <2>2, <2>3
  <2> QED  BY <2>4
<1> QED  BY <1>2, <1>3

(* A batch that is not empty is a piece, and an empty one the end.         *)
LEMMA EndIsPiece ==
  ASSUME NEW s \in Seq(Messages), NEW b
  PROVE  (EndOf(b, s) /\ b # <<>> => Piece(b, s)) /\ EndOf(<<>>, s)
<1>1. EndOf(<<>>, s)
  <2>1. Len(s) \in 0..Len(s) /\ SubSeq(s, Len(s) + 1, Len(s)) = <<>>
    OBVIOUS
  <2> QED  BY <2>1, Zenon DEF EndOf
<1>2. ASSUME EndOf(b, s), b # <<>> PROVE Piece(b, s)
  <2>1. PICK k \in 0..Len(s) : b = SubSeq(s, k + 1, Len(s))
    BY <1>2 DEF EndOf
  <2>2. k # Len(s)
    <3>1. SubSeq(s, Len(s) + 1, Len(s)) = <<>>
      OBVIOUS
    <3> QED  BY <1>2, <2>1, <3>1, Zenon
  <2>3. Len(s) \in 1..Len(s) /\ k + 1 \in 1..Len(s)
    BY <2>2
  <2> QED  BY <2>1, <2>3, Zenon DEF Piece
<1> QED  BY <1>1, <1>2

(* The messages of an end.                                                 *)
LEMMA EndIs ==
  ASSUME NEW s \in Seq(Messages), NEW k \in 0..Len(s), NEW b, b = SubSeq(s, k + 1, Len(s))
  PROVE  /\ b \in Seq(Messages) /\ Len(b) = Len(s) - k
         /\ \A l \in 1..Len(b) : b[l] = s[k + l]
<1>1. PICK n \in Nat : n = Len(s)
  OBVIOUS
<1>2. k \in Nat /\ k <= n
  BY <1>1
<1>3. PICK i \in Nat : i = k + 1
  BY <1>2
<1>4. i \in 1..(Len(s) + 1) /\ n \in (i - 1)..Len(s) /\ b = SubSeq(s, i, n)
  BY <1>1, <1>2, <1>3
<1>5. /\ b \in Seq(Messages) /\ Len(b) = n - i + 1
      /\ \A l \in 1..Len(b) : b[l] = s[i + l - 1]
  BY <1>1, <1>3, <1>4, SubSeqIs
<1>6. n - i + 1 = n - k /\ \A l \in Nat : i + l - 1 = k + l
  BY <1>1, <1>2, <1>3
<1>7. \A l \in 1..Len(b) : b[l] = s[k + l]
  BY <1>5, <1>6
<1> QED  BY <1>1, <1>5, <1>6, <1>7

(* One message more: pieces stay, the end grows.                           *)
LEMMA OneMore ==
  ASSUME NEW s \in Seq(Messages), NEW m \in Messages, NEW t, t = Append(s, m), NEW b
  PROVE  /\ Piece(b, s) => Piece(b, t)
         /\ EndOf(b, s) => EndOf(Append(b, m), t)
<1>1. /\ t \in Seq(Messages) /\ Len(t) = Len(s) + 1 /\ t[Len(s) + 1] = m
      /\ \A i \in 1..Len(s) : t[i] = s[i]
  OBVIOUS
<1>2. ASSUME Piece(b, s) PROVE Piece(b, t)
  <2>1. PICK j \in 1..Len(s) : \E i \in 1..j : b = SubSeq(s, i, j)
    BY <1>2 DEF Piece
  <2>2. PICK i \in 1..j : b = SubSeq(s, i, j)
    BY <2>1
  <2>3. /\ i \in 1..(Len(s) + 1) /\ j \in (i - 1)..Len(s) /\ j \in 1..Len(t)
        /\ i \in 1..(Len(t) + 1) /\ j \in (i - 1)..Len(t)
    BY <1>1
  <2>4. /\ b \in Seq(Messages) /\ Len(b) = j - i + 1
        /\ \A k \in 1..Len(b) : b[k] = s[i + k - 1]
    BY <2>2, <2>3, SubSeqIs
  <2>5. PICK d : d = SubSeq(t, i, j)
    OBVIOUS
  <2>6. /\ d \in Seq(Messages) /\ Len(d) = j - i + 1
        /\ \A k \in 1..Len(d) : d[k] = t[i + k - 1]
    BY <1>1, <2>3, <2>5, SubSeqIs
  <2>7. \A k \in 1..Len(b) : i + k - 1 \in 1..Len(s)
    BY <2>4
  <2>8. \A k \in 1..Len(b) : b[k] = d[k]
    BY <1>1, <2>4, <2>6, <2>7
  <2>9. b = d
    BY <2>4, <2>6, <2>8, SameSeq
  <2> QED  BY <2>3, <2>5, <2>9 DEF Piece
<1>3. ASSUME EndOf(b, s) PROVE EndOf(Append(b, m), t)
  <2>1. PICK k \in 0..Len(s) : b = SubSeq(s, k + 1, Len(s))
    BY <1>3 DEF EndOf
  <2>2. k \in 0..Len(t)
    BY <1>1
  <2>3. /\ b \in Seq(Messages) /\ Len(b) = Len(s) - k
        /\ \A l \in 1..Len(b) : b[l] = s[k + l]
    BY <2>1, EndIs
  <2>4. PICK d : d = SubSeq(t, k + 1, Len(t))
    OBVIOUS
  <2>5. /\ d \in Seq(Messages) /\ Len(d) = Len(t) - k
        /\ \A l \in 1..Len(d) : d[l] = t[k + l]
    BY <1>1, <2>2, <2>4, EndIs
  <2>6. PICK a : a = Append(b, m)
    OBVIOUS
  <2>7. /\ a \in Seq(Messages) /\ Len(a) = Len(b) + 1 /\ a[Len(b) + 1] = m
        /\ \A l \in 1..Len(b) : a[l] = b[l]
    BY <2>3, <2>6
  <2>8. Len(a) = Len(d) /\ \A l \in 1..Len(a) : a[l] = d[l]
    <3>1. Len(a) = Len(d)
      BY <1>1, <2>3, <2>5, <2>7
    <3>2. ASSUME NEW l \in 1..Len(b) PROVE a[l] = d[l]
      <4>1. k + l \in 1..Len(s) /\ l \in 1..Len(d)
        BY <1>1, <2>3, <2>5
      <4> QED  BY <4>1, <1>1, <2>3, <2>5, <2>7
    <3>3. a[Len(b) + 1] = d[Len(b) + 1]
      <4>1. k + (Len(b) + 1) = Len(s) + 1 /\ Len(b) + 1 \in 1..Len(d)
        BY <1>1, <2>3, <2>5
      <4> QED  BY <4>1, <1>1, <2>5, <2>7
    <3>4. \A l \in 1..Len(a) : l \in 1..Len(b) \/ l = Len(b) + 1
      BY <2>7
    <3> QED  BY <3>1, <3>2, <3>3, <3>4
  <2>9. a = d
    BY <2>5, <2>7, <2>8, SameSeq
  <2> QED  BY <2>2, <2>4, <2>6, <2>9 DEF EndOf
<1> QED  BY <1>2, <1>3

(* a is b with m, and has the size of b up to each of its messages.        *)
Longer(a, b, m) ==
  /\ \A n : Holds(a, n) <=> Holds(b, n) \/ n = m
  /\ Len(a) = Len(b) + 1 /\ a[Len(a)] = m
  /\ \A i \in 1..Len(b) : a[i] = b[i] /\ SubSeq(a, 1, i) = SubSeq(b, 1, i)
  /\ SubSeq(a, 1, Len(a)) = a

(* Append makes it so.                                                     *)
LEMMA Appended ==
  ASSUME NEW b \in Seq(Messages), NEW m \in Messages, NEW a, a = Append(b, m)
  PROVE  Longer(a, b, m)
<1>1. /\ a \in Seq(Messages) /\ Len(a) = Len(b) + 1 /\ a[Len(b) + 1] = m
      /\ \A i \in 1..Len(b) : a[i] = b[i]
  OBVIOUS
<1>2. \A n : Holds(a, n) <=> Holds(b, n) \/ n = m
  BY <1>1 DEF Holds
<1>3. ASSUME NEW i \in 1..Len(b) PROVE SubSeq(a, 1, i) = SubSeq(b, 1, i)
  <2>1. /\ 1 \in 1..(Len(a) + 1) /\ 1 \in 1..(Len(b) + 1)
        /\ i \in (1 - 1)..Len(a) /\ i \in (1 - 1)..Len(b)
    BY <1>1
  <2>2. PICK x, y : x = SubSeq(a, 1, i) /\ y = SubSeq(b, 1, i)
    OBVIOUS
  <2>3. /\ x \in Seq(Messages) /\ Len(x) = i - 1 + 1
        /\ \A k \in 1..Len(x) : x[k] = a[1 + k - 1]
    BY <1>1, <2>1, <2>2, SubSeqIs
  <2>4. /\ y \in Seq(Messages) /\ Len(y) = i - 1 + 1
        /\ \A k \in 1..Len(y) : y[k] = b[1 + k - 1]
    BY <2>1, <2>2, SubSeqIs
  <2>5. Len(x) = Len(y) /\ \A k \in 1..Len(x) : x[k] = y[k]
    BY <1>1, <2>3, <2>4
  <2> QED  BY <2>2, <2>3, <2>4, <2>5, SameSeq
<1>4. SubSeq(a, 1, Len(a)) = a
  <2>1. 1 \in 1..(Len(a) + 1) /\ Len(a) \in (1 - 1)..Len(a)
    BY <1>1
  <2>2. PICK x : x = SubSeq(a, 1, Len(a))
    OBVIOUS
  <2>3. /\ x \in Seq(Messages) /\ Len(x) = Len(a) - 1 + 1
        /\ \A k \in 1..Len(x) : x[k] = a[1 + k - 1]
    BY <1>1, <2>1, <2>2, SubSeqIs
  <2>4. Len(x) = Len(a) /\ \A k \in 1..Len(x) : x[k] = a[k]
    BY <1>1, <2>3
  <2> QED  BY <1>1, <2>2, <2>3, <2>4, SameSeq
<1> QED  BY <1>1, <1>2, <1>3, <1>4 DEF Longer

-----------------------------------------------------------------------------
(* What the steps do to the batches.                                       *)

(* Read is Decode.                                                         *)
LEMMA ReadIs ==
  ASSUME NEW s
  PROVE  Read(s) = Decode(setup, s)
<1>1. Len(Affix("prefix")) = IF "prefix" \in setup.affixes THEN 1 ELSE 0
  BY DEF Affix
<1>2. Len(Affix("suffix")) = IF "suffix" \in setup.affixes THEN 1 ELSE 0
  BY DEF Affix
<1> QED  BY <1>1, <1>2, Zenon DEF Read, Decode

(* What a setup is.                                                        *)
LEMMA SetupIs ==
  ASSUME setup \in Setups
  PROVE  /\ setup.casts \subseteq Messages /\ setup.calls \subseteq Conns \X Messages
         /\ setup.first \in {NoFlusher, 1} /\ setup.capacity \in Nat \ {0}
         /\ setup.open \subseteq Conns
         /\ \A call \in setup.calls : call[2] \notin setup.casts
  BY BatchAssumption

(* A call that has appended its message stays so.                          *)
KeepsOk == \A c \in Conns, m \in Messages : at[c][m] = "ok" => at'[c][m] = "ok"

(* A step that leaves the batches alone.                                   *)
LEMMA ContentKept ==
  ASSUME Contents, KeepsOk,
         UNCHANGED <<setup, batch, total, sending, wire, log, forced, late>>,
         garbled \subseteq garbled', garbled' \subseteq Conns
  PROVE  Contents'
<1> USE DEF Contents
<1>1. BatchTypes'
  BY DEF BatchTypes
<1>2. \A c \in Conns : Kept(c)' = Kept(c) \/ Kept(c)' = <<>>
  BY DEF Kept
<1>3. SizeInv'
  BY <1>2 DEF SizeInv
<1>4. PieceInv'
  <2>1. \A c \in Conns : \A i \in 1..Len(log[c]) : log[c][i] \in Messages
    BY DEF BatchTypes
  <2>2. \A c \in Conns : \A i \in 1..Len(log[c]) : at'[c][log[c][i]] = "ok"
    BY <2>1 DEF PieceInv, Sound, KeepsOk
  <2>3. ASSUME NEW c \in Conns
        PROVE  Sound(setup, at'[c], log[c], batch[c], sending[c], Kept(c)')
    <3>1. Sound(setup, at[c], log[c], batch[c], sending[c], Kept(c))
      BY DEF PieceInv
    <3>2. CASE Kept(c)' = Kept(c)
      BY <3>1, <3>2, <2>2, Zenon DEF Sound
    <3>3. CASE Kept(c)' = <<>>
      <4>1. ~\E i \in 1..Len(Kept(c)') : TRUE
        BY <3>3
      <4> QED  BY <3>1, <4>1, <2>2, Zenon DEF Sound
    <3> QED  BY <3>2, <3>3, <1>2
  <2> QED  BY <2>3 DEF PieceInv
<1> QED  BY <1>1, <1>3, <1>4

(* Flush of the batch of c.                                                *)
LEMMA ContentFlushed ==
  ASSUME Contents, KeepsOk, NEW c \in Conns, Flush(c),
         UNCHANGED <<setup, wire, garbled, log, forced, late>>
  PROVE  Contents'
<1> USE DEF Contents
<1>1. /\ batch' = [batch EXCEPT ![c] = <<>>] /\ total' = [total EXCEPT ![c] = 0]
      /\ sending' = IF batch[c] = <<>> THEN sending
                    ELSE [sending EXCEPT ![c] = @ \cup {batch[c]}]
  BY DEF Flush
<1>2. /\ batch'[c] = <<>> /\ total'[c] = 0
      /\ sending'[c] \subseteq sending[c] \cup {batch[c]}
      /\ \A b \in sending'[c] : b \in sending[c] \/ (b = batch[c] /\ b # <<>>)
      /\ \A d \in Conns : d # c => batch'[d] = batch[d] /\ sending'[d] = sending[d]
  BY <1>1 DEF BatchTypes
<1>3. BatchTypes'
  <2>1. batch' \in [Conns -> Seq(Messages)] /\ total' \in [Conns -> Nat]
    <3>1. <<>> \in Seq(Messages) /\ 0 \in Nat
      OBVIOUS
    <3> QED  BY <1>1, <3>1 DEF BatchTypes
  <2>2. sending' \in [Conns -> SUBSET Seq(Messages)]
    BY <1>1 DEF BatchTypes
  <2>3. \A d \in Conns : total'[d] = Sizes(batch'[d])
    BY <1>1, <1>2, SizesEmpty DEF BatchTypes
  <2> QED  BY <2>1, <2>2, <2>3 DEF BatchTypes
<1>4. SizeInv'
  <2>1. Fitting(<<>>, forced[c])
    BY DEF Fitting
  <2>2. ASSUME NEW d \in Conns
        PROVE  /\ Fitting(batch'[d], forced[d])
               /\ \A b \in sending'[d] : Fitting(b, forced[d])
    BY <1>2, <2>1 DEF SizeInv
  <2>3. \A d \in Conns : Kept(d)' = Kept(d)
    BY DEF Kept
  <2> QED  BY <2>2, <2>3 DEF SizeInv
<1>5. PieceInv'
  <2>1. \A d \in Conns : \A i \in 1..Len(log[d]) : log[d][i] \in Messages
    BY DEF BatchTypes
  <2>2. \A d \in Conns : \A i \in 1..Len(log[d]) : at'[d][log[d][i]] = "ok"
    BY <2>1 DEF PieceInv, Sound, KeepsOk
  <2>3. log[c] \in Seq(Messages)
    BY DEF BatchTypes
  <2>4. EndOf(batch'[c], log[c])
    BY <1>2, <2>3, EndIsPiece
  <2>5. \A b : ~Share(b, batch'[c])
    <3>1. Len(<<>>) = 0
      OBVIOUS
    <3> QED  BY <1>2, <3>1 DEF Share, Holds
  <2>6. EndOf(batch[c], log[c])
    BY DEF PieceInv, Sound
  <2>7. \A b \in sending'[c] : Piece(b, log[c])
    BY <1>2, <2>3, <2>6, EndIsPiece DEF PieceInv, Sound
  <2>8. \A b, d \in sending'[c] : b # d => ~Share(b, d)
    <3>1. \A b, d : Share(b, d) <=> Share(d, b)
      BY DEF Share
    <3>2. \A b \in sending[c] : ~Share(b, batch[c])
      BY DEF PieceInv, Sound
    <3>3. \A b, d \in sending[c] : b # d => ~Share(b, d)
      BY DEF PieceInv, Sound
    <3> QED  BY <1>2, <3>1, <3>2, <3>3, Zenon
  <2>9. \A i \in 1..Len(Kept(c)) : \A b \in sending'[c] : ~Share(Decode(setup, Kept(c)[i]), b)
    <3>1. \A i \in 1..Len(Kept(c)) : /\ ~Share(Decode(setup, Kept(c)[i]), batch[c])
                                     /\ \A b \in sending[c] : ~Share(Decode(setup, Kept(c)[i]), b)
      BY DEF PieceInv, Sound
    <3> QED  BY <1>2, <3>1, Zenon
  <2>10. ASSUME NEW d \in Conns
         PROVE  /\ EndOf(batch'[d], log[d])
                /\ \A b \in sending'[d] : /\ Piece(b, log[d]) /\ ~Share(b, batch'[d])
                                          /\ \A e \in sending'[d] : b # e => ~Share(b, e)
                /\ \A i \in 1..Len(Kept(d)) : LET r == Decode(setup, Kept(d)[i]) IN
                     /\ Piece(r, log[d]) /\ ~Share(r, batch'[d])
                     /\ \A b \in sending'[d] : ~Share(r, b)
    <3>1. CASE d = c
      <4>1. \A i \in 1..Len(Kept(c)) : Piece(Decode(setup, Kept(c)[i]), log[c])
        BY DEF PieceInv, Sound
      <4> QED  BY <3>1, <4>1, <2>4, <2>5, <2>7, <2>8, <2>9, Zenon
    <3>2. CASE d # c
      <4>1. batch'[d] = batch[d] /\ sending'[d] = sending[d]
        BY <3>2, <1>2
      <4> QED  BY <4>1, Zenon DEF PieceInv, Sound
    <3> QED  BY <3>1, <3>2
  <2>11. \A d \in Conns : Kept(d)' = Kept(d)
    BY DEF Kept
  <2> QED  BY <2>2, <2>10, <2>11, Zenon DEF PieceInv, Sound
<1> QED  BY <1>3, <1>4, <1>5

(* The send of b succeeds, fails or is cut short.                          *)
LEMMA ContentSends ==
  ASSUME setup \in Setups, Contents, KeepsOk,
         NEW c \in Conns, NEW b \in sending[c],
         sending' = [sending EXCEPT ![c] = @ \ {b}],
         garbled' \in {garbled, garbled \cup {c}}, NEW s \in Seq(Tokens),
         \/ wire' = wire
         \/ /\ wire' = [wire EXCEPT ![c] = Append(@, s)]
            /\ s = Encode(b) \/ c \in garbled',
         UNCHANGED <<setup, batch, total, log, forced, late>>
  PROVE  Contents'
<1> USE DEF Contents
<1>1. log[c] \in Seq(Messages) /\ wire[c] \in Seq(Seq(Tokens)) /\ Piece(b, log[c])
  BY DEF BatchTypes, PieceInv, Sound
<1>2. b \in Seq(Messages) /\ b # <<>>
  BY <1>1, PieceHolds
<1>3. PICK e : e = Encode(b)
  OBVIOUS
<1>4. e \in Seq(Tokens) /\ Decode(setup, e) = b
  BY <1>2, <1>3, ReadEncoded, ReadIs
<1>5. /\ \A x \in sending'[c] : x \in sending[c] /\ x # b
      /\ \A d \in Conns : d # c => Kept(d)' = Kept(d) /\ sending'[d] = sending[d]
  BY DEF BatchTypes, Kept
<1>6. wire' \in [Conns -> Seq(Seq(Tokens))] /\ sending' \in [Conns -> SUBSET Seq(Messages)]
  <2>1. Append(wire[c], s) \in Seq(Seq(Tokens)) /\ wire \in [Conns -> Seq(Seq(Tokens))]
    BY <1>1 DEF BatchTypes
  <2>2. wire' = wire \/ wire' = [wire EXCEPT ![c] = Append(wire[c], s)]
    BY Zenon
  <2>3. wire' \in [Conns -> Seq(Seq(Tokens))]
    BY <2>1, <2>2, Zenon
  <2>4. sending' \in [Conns -> SUBSET Seq(Messages)]
    <3>1. sending[c] \ {b} \in SUBSET Seq(Messages) /\ sending \in [Conns -> SUBSET Seq(Messages)]
      BY DEF BatchTypes
    <3> QED  BY <3>1, Zenon
  <2> QED  BY <2>3, <2>4
<1>7. \A i \in 1..Len(Kept(c)') : \/ i \in 1..Len(Kept(c)) /\ Kept(c)'[i] = Kept(c)[i]
                                  \/ Kept(c)'[i] = e
  <2>1. CASE c \in garbled'
    BY <2>1 DEF Kept
  <2>2. CASE c \notin garbled' /\ wire' = wire
    BY <2>2 DEF Kept
  <2>3. CASE c \notin garbled' /\ wire' = [wire EXCEPT ![c] = Append(@, s)] /\ s = Encode(b)
    <3>1. Kept(c)' = Append(wire[c], e) /\ Kept(c) = wire[c]
      BY <2>3, <1>3 DEF BatchTypes, Kept
    <3> QED  BY <3>1, <1>1, <1>4
  <2> QED  BY <2>1, <2>2, <2>3
<1>8. BatchTypes'
  <2>1. garbled' \subseteq Conns
    BY DEF BatchTypes
  <2> QED  BY <1>6, <2>1 DEF BatchTypes
<1>9. SizeInv'
  <2>1. Fitting(b, forced[c])
    BY DEF SizeInv
  <2>2. \A i \in 1..Len(Kept(c)') : Fitting(Decode(setup, Kept(c)'[i]), forced[c])
    BY <1>4, <1>7, <2>1, Zenon DEF SizeInv
  <2>3. \A x \in sending'[c] : Fitting(x, forced[c])
    BY <1>5, Zenon DEF SizeInv
  <2>4. ASSUME NEW d \in Conns
        PROVE  /\ \A x \in sending'[d] : Fitting(x, forced[d])
               /\ \A i \in 1..Len(Kept(d)') : Fitting(Decode(setup, Kept(d)'[i]), forced[d])
    <3>1. CASE d = c
      BY <3>1, <2>2, <2>3
    <3>2. CASE d # c
      BY <3>2, <1>5 DEF SizeInv
    <3> QED  BY <3>1, <3>2
  <2> QED  BY <2>4, Zenon DEF SizeInv
<1>10. PieceInv'
  <2>1. \A d \in Conns : \A i \in 1..Len(log[d]) : log[d][i] \in Messages
    BY DEF BatchTypes
  <2>2. \A d \in Conns : \A i \in 1..Len(log[d]) : at'[d][log[d][i]] = "ok"
    BY <2>1 DEF PieceInv, Sound, KeepsOk
  <2>3. /\ ~Share(b, batch[c]) /\ \A x \in sending'[c] : ~Share(b, x)
    BY <1>5, Zenon DEF PieceInv, Sound
  <2>4. \A i \in 1..Len(Kept(c)') : LET r == Decode(setup, Kept(c)'[i]) IN
          /\ Piece(r, log[c]) /\ ~Share(r, batch[c])
          /\ \A x \in sending'[c] : ~Share(r, x)
    <3>1. ASSUME NEW i \in 1..Len(Kept(c)')
          PROVE  LET r == Decode(setup, Kept(c)'[i]) IN
                   /\ Piece(r, log[c]) /\ ~Share(r, batch[c])
                   /\ \A x \in sending'[c] : ~Share(r, x)
      <4>1. CASE i \in 1..Len(Kept(c)) /\ Kept(c)'[i] = Kept(c)[i]
        BY <4>1, <1>5, Zenon DEF PieceInv, Sound
      <4>2. CASE Kept(c)'[i] = e
        BY <4>2, <1>1, <1>4, <2>3, Zenon
      <4> QED  BY <4>1, <4>2, <1>7
    <3> QED  BY <3>1
  <2>5. \A x \in sending'[c] : /\ Piece(x, log[c]) /\ ~Share(x, batch[c])
                               /\ \A y \in sending'[c] : x # y => ~Share(x, y)
    BY <1>5, Zenon DEF PieceInv, Sound
  <2>6. ASSUME NEW d \in Conns
        PROVE  /\ EndOf(batch[d], log[d])
               /\ \A i \in 1..Len(log[d]) : \A j \in 1..Len(log[d]) : i < j => log[d][i] # log[d][j]
               /\ \A x \in sending'[d] : /\ Piece(x, log[d]) /\ ~Share(x, batch[d])
                                         /\ \A y \in sending'[d] : x # y => ~Share(x, y)
               /\ \A i \in 1..Len(Kept(d)') : LET r == Decode(setup, Kept(d)'[i]) IN
                    /\ Piece(r, log[d]) /\ ~Share(r, batch[d])
                    /\ \A x \in sending'[d] : ~Share(r, x)
    <3>1. CASE d = c
      <4>1. EndOf(batch[c], log[c])
        BY DEF PieceInv, Sound
      <4>2. \A i \in 1..Len(log[c]) : \A j \in 1..Len(log[c]) : i < j => log[c][i] # log[c][j]
        BY DEF PieceInv, Sound
      <4> QED  BY <3>1, <4>1, <4>2, <2>4, <2>5, Zenon
    <3>2. CASE d # c
      <4>1. Kept(d)' = Kept(d) /\ sending'[d] = sending[d]
        BY <3>2, <1>5
      <4> QED  BY <4>1, Zenon DEF PieceInv, Sound
    <3> QED  BY <3>1, <3>2
  <2>7. ASSUME NEW d \in Conns
        PROVE  /\ \A i \in 1..Len(log[d]) :
                    /\ at'[d][log[d][i]] = "ok"
                    /\ \A j \in 1..Len(log[d]) : i < j => log[d][i] # log[d][j]
               /\ EndOf(batch[d], log[d])
               /\ \A x \in sending'[d] : /\ Piece(x, log[d]) /\ ~Share(x, batch[d])
                                         /\ \A y \in sending'[d] : x # y => ~Share(x, y)
               /\ \A i \in 1..Len(Kept(d)') : LET r == Decode(setup, Kept(d)'[i]) IN
                    /\ Piece(r, log[d]) /\ ~Share(r, batch[d])
                    /\ \A x \in sending'[d] : ~Share(r, x)
    <3>1. \A i \in 1..Len(log[d]) :
            /\ at'[d][log[d][i]] = "ok"
            /\ \A j \in 1..Len(log[d]) : i < j => log[d][i] # log[d][j]
      BY <2>2, <2>6, Zenon
    <3> QED  BY <3>1, <2>6, Zenon
  <2>8. \A d \in Conns : Sound(setup, at'[d], log[d], batch[d], sending'[d], Kept(d)')
    BY <2>7, Zenon DEF Sound
  <2> QED  BY <2>8 DEF PieceInv
<1> QED  BY <1>8, <1>9, <1>10

(* A call appends its message.                                             *)
LEMMA ContentPut ==
  ASSUME Contents, CastTypes, KeepsOk,
         NEW c \in Conns, NEW m \in Messages, at[c][m] # "ok", Put(c, m), UNCHANGED setup,
         \/ Fits(c, m) /\ UNCHANGED forced
         \/ forced' = [forced EXCEPT ![c] = IF batch[c] = <<>> THEN @ ELSE @ \cup {m}]
  PROVE  Contents'
<1> USE DEF Contents
<1>1. /\ log[c] \in Seq(Messages) /\ batch[c] \in Seq(Messages) /\ total[c] = Sizes(batch[c])
      /\ forced[c] \subseteq Messages
  BY DEF BatchTypes
<1>2. /\ batch' = [batch EXCEPT ![c] = Append(@, m)]
      /\ total' = [total EXCEPT ![c] = @ + SizeOf[m]]
      /\ log' = [log EXCEPT ![c] = Append(@, m)]
      /\ late' = [late EXCEPT ![c] = IF owner[c] \in closed THEN @ \cup {m} ELSE @]
      /\ at' = [at EXCEPT ![c][m] = "ok"]
      /\ sending' = sending /\ wire' = wire /\ garbled' = garbled /\ setup' = setup
  BY DEF Put, CallAt, sent
<1>3. PICK t, a : t = Append(log[c], m) /\ a = Append(batch[c], m)
  OBVIOUS
<1>4. log'[c] = t /\ batch'[c] = a /\ total'[c] = total[c] + SizeOf[m]
  BY <1>2, <1>3 DEF BatchTypes
<1>5. \A d \in Conns : d # c => /\ log'[d] = log[d] /\ batch'[d] = batch[d]
                                /\ total'[d] = total[d] /\ forced'[d] = forced[d]
  BY <1>2 DEF BatchTypes
<1>6. forced[c] \subseteq forced'[c] /\ (~Fits(c, m) => m \in forced'[c] \/ batch[c] = <<>>)
  BY DEF BatchTypes
<1>7. t \in Seq(Messages) /\ a \in Seq(Messages)
  BY <1>1, <1>3
<1>8. Longer(t, log[c], m) /\ Longer(a, batch[c], m)
  BY <1>1, <1>3, Appended
<1>9. /\ \A n : Holds(t, n) <=> Holds(log[c], n) \/ n = m
      /\ Len(t) = Len(log[c]) + 1 /\ t[Len(t)] = m
      /\ \A i \in 1..Len(log[c]) : t[i] = log[c][i]
  BY <1>8 DEF Longer
<1>10. /\ \A n : Holds(a, n) <=> Holds(batch[c], n) \/ n = m
       /\ Len(a) = Len(batch[c]) + 1 /\ a[Len(a)] = m
       /\ \A i \in 1..Len(batch[c]) : /\ a[i] = batch[c][i]
                                      /\ SubSeq(a, 1, i) = SubSeq(batch[c], 1, i)
       /\ SubSeq(a, 1, Len(a)) = a
  BY <1>8 DEF Longer
<1>11. total'[c] = Sizes(a) /\ total'[c] \in Nat
  <2>1. Sizes(batch[c]) \in Nat /\ Sizes(a) = Sizes(batch[c]) + SizeOf[m] /\ SizeOf[m] \in Nat
    BY <1>1, <1>3, SizesAppend, BatchAssumption
  <2> QED  BY <2>1, <1>1, <1>4
<1>12. BatchTypes'
  <2>1. batch' \in [Conns -> Seq(Messages)] /\ log' \in [Conns -> Seq(Messages)]
    BY <1>1, <1>2, <1>3, <1>7, Zenon DEF BatchTypes
  <2>2. total' \in [Conns -> Nat]
    BY <1>2, <1>4, <1>11 DEF BatchTypes
  <2>3. forced' \in [Conns -> SUBSET Messages] /\ late' \in [Conns -> SUBSET Messages]
    <3>1. forced' = forced \/ forced' = [forced EXCEPT ![c] = @ \cup {m}]
      BY DEF BatchTypes
    <3>2. forced \in [Conns -> SUBSET Messages] /\ late \in [Conns -> SUBSET Messages]
      BY DEF BatchTypes
    <3> QED  BY <1>2, <3>1, <3>2
  <2>4. \A d \in Conns : total'[d] = Sizes(batch'[d])
    BY <1>4, <1>5, <1>11 DEF BatchTypes
  <2> QED  BY <1>2, <2>1, <2>2, <2>3, <2>4 DEF BatchTypes
<1>13. ~Holds(log[c], m)
  BY <1>1 DEF Holds, PieceInv, Sound
<1>14. SizeInv'
  <2>1. Fitting(a, forced'[c])
    <3>1. ASSUME NEW i \in 2..Len(a), a[i] \notin forced'[c]
          PROVE  Sizes(SubSeq(a, 1, i)) <= MaxBatchSize
      <4>1. CASE i \in 1..Len(batch[c])
        <5>1. Fitting(batch[c], forced[c]) /\ i \in 2..Len(batch[c])
          BY <4>1 DEF SizeInv
        <5>2. /\ batch[c][i] \notin forced[c]
              /\ SubSeq(a, 1, i) = SubSeq(batch[c], 1, i)
          BY <3>1, <4>1, <1>6, <1>10, Zenon
        <5>3. Sizes(SubSeq(batch[c], 1, i)) <= MaxBatchSize
          BY <5>1, <5>2, Zenon DEF Fitting
        <5> QED  BY <5>2, <5>3, Zenon
      <4>2. CASE i = Len(a)
        <5>1. a[i] = m /\ SubSeq(a, 1, i) = a
          BY <4>2, <1>10
        <5>2. Fits(c, m)
          <6>1. batch[c] # <<>>
            BY <1>1, <1>10, <4>2
          <6> QED  BY <6>1, <3>1, <5>1, <1>6, Zenon
        <5>3. Sizes(a) <= MaxBatchSize
          BY <5>2, <1>4, <1>11 DEF Fits
        <5> QED  BY <5>1, <5>3, Zenon
      <4>3. Len(batch[c]) \in Nat
        BY <1>1
      <4> QED  BY <4>1, <4>2, <4>3, <1>10
    <3> QED  BY <3>1 DEF Fitting
  <2>2. \A b : Fitting(b, forced[c]) => Fitting(b, forced'[c])
    BY <1>6 DEF Fitting
  <2>3. /\ \A b \in sending[c] : Fitting(b, forced'[c])
        /\ \A i \in 1..Len(Kept(c)) : Fitting(Decode(setup, Kept(c)[i]), forced'[c])
    BY <2>2, Zenon DEF SizeInv
  <2>4. ASSUME NEW d \in Conns
        PROVE  /\ Fitting(batch'[d], forced'[d])
               /\ \A b \in sending[d] : Fitting(b, forced'[d])
               /\ \A i \in 1..Len(Kept(d)) : Fitting(Decode(setup, Kept(d)[i]), forced'[d])
    <3>1. CASE d = c
      BY <3>1, <2>1, <2>3, <1>4, Zenon
    <3>2. CASE d # c
      <4>1. batch'[d] = batch[d] /\ forced'[d] = forced[d]
        BY <3>2, <1>5
      <4> QED  BY <4>1, Zenon DEF SizeInv
    <3> QED  BY <3>1, <3>2
  <2>5. \A d \in Conns : Kept(d)' = Kept(d)
    BY <1>2 DEF Kept
  <2> QED  BY <2>4, <2>5, <1>2 DEF SizeInv
<1>15. \A d \in Conns : d # c => Sound(setup, at'[d], log'[d], batch'[d], sending[d], Kept(d))
  <2> SUFFICES ASSUME NEW d \in Conns, d # c
               PROVE  Sound(setup, at'[d], log[d], batch[d], sending[d], Kept(d))
    BY <1>5
  <2>1. /\ Sound(setup, at[d], log[d], batch[d], sending[d], Kept(d))
        /\ \A i \in 1..Len(log[d]) : log[d][i] \in Messages
    BY DEF PieceInv, BatchTypes
  <2>2. \A i \in 1..Len(log[d]) : at'[d][log[d][i]] = "ok"
    BY <2>1 DEF Sound, KeepsOk
  <2> QED  BY <2>1, <2>2, Zenon DEF Sound
<1>16. Sound(setup, at'[c], t, a, sending[c], Kept(c))
  <2>1. Sound(setup, at[c], log[c], batch[c], sending[c], Kept(c))
    BY DEF PieceInv
  <2>2. \A i \in 1..Len(t) :
          /\ at'[c][t[i]] = "ok"
          /\ \A j \in 1..Len(t) : i < j => t[i] # t[j]
    <3>1. \A i \in 1..Len(log[c]) : t[i] # m /\ t[i] \in Messages /\ at[c][t[i]] = "ok"
      BY <1>1, <1>9, <1>13, <2>1 DEF Holds, Sound
    <3>2. \A i \in 1..Len(log[c]) : \A j \in 1..Len(log[c]) : i < j => t[i] # t[j]
      BY <1>9, <2>1 DEF Sound
    <3>3. at'[c][m] = "ok"
      BY <1>2 DEF CastTypes
    <3>4. \A i \in 1..Len(t) : at'[c][t[i]] = "ok"
      BY <1>1, <1>9, <3>1, <3>3 DEF KeepsOk
    <3>5. \A i \in 1..Len(t) : \A j \in 1..Len(t) : i < j => t[i] # t[j]
      BY <1>1, <1>9, <3>1, <3>2
    <3> QED  BY <3>4, <3>5
  <2>3. EndOf(a, t)
    BY <1>1, <1>3, <2>1, OneMore DEF Sound
  <2>4. \A b : Piece(b, log[c]) => Piece(b, t) /\ ~Holds(b, m)
    BY <1>1, <1>3, <1>13, OneMore, PieceHolds
  <2>5. \A b : ~Share(b, batch[c]) /\ ~Holds(b, m) => ~Share(b, a)
    BY <1>10 DEF Share
  <2>6. \A b \in sending[c] : /\ Piece(b, t) /\ ~Share(b, a)
                              /\ \A d \in sending[c] : b # d => ~Share(b, d)
    BY <2>1, <2>4, <2>5, Zenon DEF Sound
  <2>7. \A i \in 1..Len(Kept(c)) : LET r == Decode(setup, Kept(c)[i]) IN
          /\ Piece(r, t) /\ ~Share(r, a)
          /\ \A b \in sending[c] : ~Share(r, b)
    BY <2>1, <2>4, <2>5, Zenon DEF Sound
  <2> QED  BY <2>2, <2>3, <2>6, <2>7, Zenon DEF Sound
<1>17. PieceInv'
  <2>1. \A d \in Conns : Sound(setup, at'[d], log'[d], batch'[d], sending[d], Kept(d))
    BY <1>4, <1>15, <1>16, Zenon
  <2>2. \A d \in Conns : Kept(d)' = Kept(d)
    BY <1>2 DEF Kept
  <2> QED  BY <2>1, <2>2, <1>2 DEF PieceInv
<1> QED  BY <1>12, <1>14, <1>17

-----------------------------------------------------------------------------
(* What the steps do to the flushers.                                      *)

(* A step that leaves flushers and connections alone.                      *)
LEMMA FlushersKept ==
  ASSUME Flushing, UNCHANGED <<setup, upgrader, sweep, life, owner, crashed>>
  PROVE  Flushing'
  BY DEF Flushing, FlusherTypes, ConnTypes, FlusherInv, NoGoneConnIsSwept, upgrader

(* A step of a flusher: its listener, flushAll, Close or its context.      *)
LEMMA FlusherSteps ==
  ASSUME Flushing, UNCHANGED setup, NEW f \in Flushers,
         Tick(f) \/ Listen(f) \/ CancelFlusher(f) \/ CloseFlusher
  PROVE  Flushing'
<1>1. /\ sweep \in [Flushers -> [{"tick", "last"} -> SUBSET Conns]]
      /\ conns \in [Flushers -> SUBSET Conns] /\ crashed \in BOOLEAN
      /\ listener \in [Flushers -> {"none", "on", "last", "off"}]
      /\ closed \subseteq Flushers /\ ctxDone \subseteq Flushers
  BY DEF Flushing, FlusherTypes, ConnTypes
<1>2. /\ UNCHANGED <<flusher, enabling, conns, life, owner>>
      /\ closed \subseteq closed' /\ closed' \subseteq Flushers
  <2>1. CASE Tick(f) \/ CancelFlusher(f)
    BY <2>1, <1>1 DEF Tick, CancelFlusher, FlusherStep, upgrader
  <2>2. CASE Listen(f)
    BY <2>2, <1>1, Zenon DEF Listen, LastFlush, ListenerEnds, FlushStops, FlushNext,
                             FlusherStep, upgrader
  <2>3. CASE CloseFlusher
    <3>1. flusher \in Flushers
      BY <2>3, BatchAssumption DEF CloseFlusher, Flushing, FlusherTypes, Flushers, NoFlusher
    <3> QED  BY <2>3, <3>1, <1>1 DEF CloseFlusher, FlusherStep
  <2> QED  BY <2>1, <2>2, <2>3
<1>3. sweep' \in [Flushers -> [{"tick", "last"} -> SUBSET Conns]]
  <2>1. CASE Tick(f)
    BY <2>1, <1>1 DEF Tick
  <2>2. CASE LastFlush(f)
    BY <2>2, <1>1 DEF LastFlush
  <2>3. ASSUME NEW k \in {"tick", "last"}, NEW c \in Conns, FlushNext(f, k, c) \/ FlushStops(f, k)
        PROVE  sweep' \in [Flushers -> [{"tick", "last"} -> SUBSET Conns]]
    BY <2>3, <1>1 DEF FlushNext, FlushStops
  <2>4. CASE ListenerEnds(f) \/ CancelFlusher(f) \/ CloseFlusher
    BY <2>4, <1>1 DEF ListenerEnds, CancelFlusher, CloseFlusher
  <2>5. ASSUME NEW k \in {"tick", "last"}, FlushStops(f, k)
        PROVE  sweep' \in [Flushers -> [{"tick", "last"} -> SUBSET Conns]]
    BY <2>5, <1>1 DEF FlushStops
  <2> QED  BY <2>1, <2>2, <2>3, <2>4, <2>5 DEF Listen
<1>4. listener' \in [Flushers -> {"none", "on", "last", "off"}] /\ ctxDone' \subseteq Flushers
  <2>1. CASE Tick(f) \/ CancelFlusher(f) \/ CloseFlusher
    BY <2>1, <1>1 DEF Tick, CancelFlusher, CloseFlusher, upgrader
  <2>2. CASE LastFlush(f) \/ ListenerEnds(f)
    BY <2>2, <1>1 DEF LastFlush, ListenerEnds
  <2>3. CASE \E k \in {"tick", "last"} : FlushStops(f, k) \/ \E c \in Conns : FlushNext(f, k, c)
    BY <2>3, <1>1 DEF FlushStops, FlushNext, upgrader
  <2> QED  BY <2>1, <2>2, <2>3 DEF Listen
<1>5. crashed' \in BOOLEAN
  <2>1. crashed' = crashed \/ crashed' = TRUE
    BY DEF Tick, CancelFlusher, CloseFlusher, Listen, LastFlush, ListenerEnds, FlushStops, FlushNext
  <2> QED  BY <2>1, <1>1
<1> QED  BY <1>1, <1>2, <1>3, <1>4, <1>5
         DEF Flushing, FlusherTypes, ConnTypes, FlusherInv, NoGoneConnIsSwept

(* EnableBatching replaces one flusher by the next.                        *)
LEMMA EnableSteps ==
  ASSUME Flushing, UNCHANGED setup, EnableBegins \/ EnableEnds
  PROVE  Flushing'
<1>1. CASE EnableBegins
  <2>1. /\ UNCHANGED <<flusher, ctxDone, listener, conns, sweep, life, owner, crashed>>
        /\ flusher < MaxFlushers /\ enabling' = TRUE
        /\ closed' = IF flusher = NoFlusher THEN closed ELSE closed \cup {flusher}
    BY <1>1 DEF EnableBegins, FlusherStep
  <2>2. flusher # NoFlusher => flusher \in Flushers
    BY BatchAssumption DEF Flushing, FlusherTypes, Flushers, NoFlusher
  <2> QED  BY <2>1, <2>2 DEF Flushing, FlusherTypes, ConnTypes, FlusherInv, NoGoneConnIsSwept
<1>2. CASE EnableEnds
  <2>1. /\ UNCHANGED <<closed, ctxDone, conns, sweep, life, owner, crashed>>
        /\ flusher < MaxFlushers /\ enabling' = FALSE /\ flusher' = flusher + 1
        /\ flusher # NoFlusher => flusher \in closed
        /\ listener' = [listener EXCEPT ![flusher + 1] = "on"]
    BY <1>2 DEF EnableEnds, FlusherStep, Flushing, FlusherInv
  <2>2. /\ flusher \in Nat /\ MaxFlushers \in Nat /\ flusher + 1 \in 0..MaxFlushers
        /\ \A f \in Flushers : f \in Nat /\ f # NoFlusher
    BY <2>1, BatchAssumption DEF Flushing, FlusherTypes, Flushers, NoFlusher
  <2>3. FlusherTypes' /\ ConnTypes'
    BY <2>1, <2>2 DEF Flushing, FlusherTypes, ConnTypes
  <2>4. FlusherInv'
    <3>1. \A f \in Flushers : f < flusher + 1 => f \in closed
      <4>1. \A f \in Flushers : f < flusher + 1 => f < flusher \/ f = flusher
        BY <2>2
      <4> QED  BY <4>1, <2>1, <2>2 DEF Flushing, FlusherInv
    <3>2. \A f \in Flushers : \A c \in conns[f] :
            owner[c] = f /\ f <= flusher + 1 /\ life[c] # "new"
      <4>1. \A f \in Flushers : f <= flusher => f <= flusher + 1
        BY <2>2
      <4> QED  BY <4>1 DEF Flushing, FlusherInv
    <3> QED  BY <2>1, <3>1, <3>2 DEF FlusherInv
  <2> QED  BY <2>1, <2>3, <2>4 DEF Flushing, NoGoneConnIsSwept
<1> QED  BY <1>1, <1>2

(* A connection is made, fails or closes.                                  *)
LEMMA ConnSteps ==
  ASSUME Flushing, UNCHANGED setup, NEW c \in Conns,
         \/ NewConn(c) \/ SetBatch(c) \/ CloseConn(c) \/ LeaveFlusher(c)
         \/ \E b \in sending[c] : CloseCuts(c, b) \/ SendFails(c, b)
  PROVE  Flushing'
<1>1. /\ life \in [Conns -> {"none", "new", "added", "open", "broken", "done", "gone"}]
      /\ owner \in [Conns -> 0..MaxFlushers] /\ conns \in [Flushers -> SUBSET Conns]
      /\ flusher \in 0..MaxFlushers /\ MaxFlushers \in Nat
  BY BatchAssumption DEF Flushing, FlusherTypes, ConnTypes
<1>2. flusher # NoFlusher => flusher \in Flushers
  BY <1>1 DEF Flushers, NoFlusher
<1>3. UNCHANGED <<flusher, enabling, closed, ctxDone, listener, sweep, crashed>>
  BY DEF NewConn, SetBatch, CloseBegins, CloseConn, CloseCuts, LeaveFlusher, ConnStep, SendFails,
         SendEnds, upgrader
<1>4. ASSUME UNCHANGED <<conns, owner>>, life[c] # "new",
             \E l \in {"open", "broken", "done"} : life' = life \/ life' = [life EXCEPT ![c] = l]
      PROVE  Flushing'
  <2>1. /\ life' \in [Conns -> {"none", "new", "added", "open", "broken", "done", "gone"}]
        /\ \A d \in Conns : /\ life[d] # "new" => life'[d] # "new"
                            /\ life'[d] = "gone" => life[d] = "gone"
    BY <1>1, <1>4
  <2>2. FlusherInv'
    <3>1. \A f \in Flushers : \A d \in conns[f] : d \in Conns
      BY <1>1
    <3> QED  BY <1>3, <1>4, <2>1, <3>1 DEF Flushing, FlusherInv
  <2> QED  BY <1>3, <1>4, <2>1, <2>2
           DEF Flushing, FlusherTypes, ConnTypes, NoGoneConnIsSwept
<1>5. CASE SetBatch(c) \/ CloseBegins(c)
  <2>1. UNCHANGED <<conns, owner>> /\ life[c] # "new"
    BY <1>5 DEF SetBatch, CloseBegins, ConnStep
  <2>2. \E l \in {"open", "broken", "done"} : life' = life \/ life' = [life EXCEPT ![c] = l]
    BY <1>5 DEF SetBatch, CloseBegins
  <2> QED  BY <2>1, <2>2, <1>4
<1>6. CASE \E b \in sending[c] : SendFails(c, b)
  <2>1. /\ UNCHANGED <<conns, owner>>
        /\ life' = life \/ (life[c] \in {"open", "done"} /\ life' = [life EXCEPT ![c] = "broken"])
    BY <1>6 DEF SendFails, SendEnds, upgrader
  <2>2. CASE life' = life
    BY <2>1, <2>2, <1>3, FlushersKept DEF upgrader
  <2>3. CASE life[c] \in {"open", "done"} /\ life' = [life EXCEPT ![c] = "broken"]
    BY <2>1, <2>3, <1>4
  <2> QED  BY <2>1, <2>2, <2>3
<1>7. CASE NewConn(c)
  <2>1. /\ life[c] = "new" /\ owner' = [owner EXCEPT ![c] = flusher]
        /\ \/ flusher = NoFlusher /\ life' = [life EXCEPT ![c] = "open"] /\ UNCHANGED conns
           \/ /\ flusher # NoFlusher /\ life' = [life EXCEPT ![c] = "added"]
              /\ conns' = [conns EXCEPT ![flusher] = @ \cup {c}]
    BY <1>7 DEF NewConn
  <2>2. \A f \in Flushers : c \notin conns[f]
    BY <2>1 DEF Flushing, FlusherInv
  <2>3. FlusherTypes' /\ ConnTypes'
    <3>1. life' \in [Conns -> {"none", "new", "added", "open", "broken", "done", "gone"}]
      BY <1>1, <2>1
    <3>2. owner' \in [Conns -> 0..MaxFlushers]
      BY <1>1, <2>1
    <3>3. conns' \in [Flushers -> SUBSET Conns]
      BY <1>1, <2>1
    <3> QED  BY <3>1, <3>2, <3>3, <1>3 DEF Flushing, FlusherTypes, ConnTypes
  <2>4. /\ life'[c] # "new" /\ life'[c] # "gone" /\ owner'[c] = flusher
        /\ \A d \in Conns : d # c => life'[d] = life[d] /\ owner'[d] = owner[d]
        /\ \A f \in Flushers : \A d \in conns'[f] : d \in conns[f] \/ (d = c /\ f = flusher)
    BY <1>1, <2>1
  <2>5. \A f \in Flushers : \A d \in conns'[f] : owner'[d] = f /\ f <= flusher /\ life'[d] # "new"
    <3>1. \A f \in Flushers : \A d \in conns[f] :
            /\ d \in Conns /\ d # c /\ owner[d] = f /\ f <= flusher /\ life[d] # "new"
      BY <1>1, <2>2 DEF Flushing, FlusherInv
    <3>2. flusher <= flusher
      BY <1>1
    <3> QED  BY <2>4, <3>1, <3>2
  <2>6. FlusherInv'
    BY <2>5, <1>3 DEF Flushing, FlusherInv
  <2>7. NoGoneConnIsSwept'
    BY <1>3, <2>4 DEF Flushing, NoGoneConnIsSwept
  <2> QED  BY <2>3, <2>6, <2>7 DEF Flushing
<1>8. CASE LeaveFlusher(c)
  <2>1. /\ life[c] = "done" /\ owner' = owner /\ life' = [life EXCEPT ![c] = "gone"]
        /\ conns' = IF flusher = NoFlusher THEN conns ELSE [conns EXCEPT ![flusher] = @ \ {c}]
    BY <1>8 DEF LeaveFlusher
  <2>2. /\ conns' \in [Flushers -> SUBSET Conns]
        /\ \A f \in Flushers : conns'[f] \subseteq conns[f]
        /\ flusher # NoFlusher => c \notin conns'[flusher]
    BY <1>1, <1>2, <2>1
  <2>3. FlusherTypes' /\ ConnTypes'
    BY <1>1, <1>3, <2>1, <2>2 DEF Flushing, FlusherTypes, ConnTypes
  <2>4. FlusherInv'
    <3>1. \A f \in Flushers : \A d \in conns'[f] :
            d \in Conns /\ owner[d] = f /\ f <= flusher /\ life[d] # "new"
      BY <1>1, <2>2 DEF Flushing, FlusherInv
    <3>2. \A d \in Conns : life[d] # "new" => life'[d] # "new"
      BY <1>1, <2>1
    <3> QED  BY <1>3, <2>1, <3>1, <3>2 DEF Flushing, FlusherInv
  <2>5. NoGoneConnIsSwept'
    <3>1. ASSUME NEW f \in Flushers, f \notin closed PROVE c \notin conns'[f]
      <4>1. SUFFICES ASSUME c \in conns[f] PROVE c \notin conns'[f]
        BY <2>2
      <4>2. f <= flusher /\ ~(f < flusher) /\ f # NoFlusher
        BY <3>1, <4>1 DEF Flushing, FlusherInv, Flushers, NoFlusher
      <4>3. f = flusher
        BY <1>1, <4>2 DEF Flushers
      <4> QED  BY <2>2, <4>2, <4>3
    <3>2. \A d \in Conns : d # c => life'[d] = life[d]
      BY <2>1, <1>1
    <3> QED  BY <1>3, <2>2, <3>1, <3>2 DEF Flushing, NoGoneConnIsSwept
  <2> QED  BY <2>3, <2>4, <2>5 DEF Flushing
<1> QED  BY <1>5, <1>6, <1>7, <1>8 DEF CloseConn, CloseCuts

-----------------------------------------------------------------------------
(* What the steps do to the calls and the broadcasts.                      *)

(* Calls that are there go on, and none comes.                             *)
GoesOn ==
  /\ at' \in [Conns -> [Messages -> {"no", "called", "lock", "full", "again", "ok", "err"}]]
  /\ \A c \in Conns, m \in Messages : (at'[c][m] = "no") <=> (at[c][m] = "no")

(* A step that leaves the broadcasts alone.                                *)
LEMMA QueuesKept ==
  ASSUME Queueing, GoesOn, UNCHANGED <<setup, casting>>
  PROVE  Queueing'
<1>1. UNCHANGED <<queue, listens, cast, left, seen, asked>>
  BY DEF casting
<1>2. CastTypes'
  BY <1>1 DEF Queueing, CastTypes, GoesOn
<1>3. QueueInv'
  <2>1. setup.casts \subseteq Messages
    BY SetupIs DEF Queueing
  <2>2. \A c \in Conns, m \in setup.casts :
          cast[m] = "called" \/ c \in left[m] => at'[c][m] = "no" /\ ~Holds(queue[c], m)
    BY <2>1 DEF Queueing, QueueInv, GoesOn
  <2>3. \A c \in Conns : Waiting(queue[c], at'[c], setup.casts)
    BY <2>1 DEF Queueing, QueueInv, GoesOn, Waiting
  <2> QED  BY <1>1, <2>2, <2>3, Zenon DEF Queueing, QueueInv
<1> QED  BY <1>2, <1>3 DEF Queueing

(* A call of Batch that takes a step.                                      *)
LEMMA CallGoesOn ==
  ASSUME CastTypes, NEW c \in Conns, NEW m \in Messages,
         at[c][m] \in {"called", "lock", "full", "again"},
         NEW l \in {"err", "lock", "full", "again", "ok"}, CallAt(c, m, l)
  PROVE  GoesOn /\ KeepsOk
  BY DEF CastTypes, CallAt, GoesOn, KeepsOk

(* No call takes a step.                                                   *)
LEMMA CallsStay ==
  ASSUME CastTypes, UNCHANGED at
  PROVE  GoesOn /\ KeepsOk
  BY DEF CastTypes, GoesOn, KeepsOk

(* The listener of c takes a message from its queue.                       *)
LEMMA QueueReceived ==
  ASSUME Queueing, NEW c \in Conns, Receive(c), UNCHANGED setup
  PROVE  Queueing' /\ KeepsOk
<1>1. /\ queue[c] \in Seq(Messages) /\ queue[c] # <<>>
      /\ at \in [Conns -> [Messages -> {"no", "called", "lock", "full", "again", "ok", "err"}]]
      /\ queue \in [Conns -> Seq(Messages)]
  BY DEF Queueing, CastTypes, Receive
<1>2. PICK h : h = Head(queue[c])
  OBVIOUS
<1>3. PICK q : q = Tail(queue[c])
  OBVIOUS
<1>4. /\ h = queue[c][1] /\ 1 \in 1..Len(queue[c])
      /\ q \in Seq(Messages) /\ Len(q) = Len(queue[c]) - 1
      /\ \A i \in 1..Len(q) : i + 1 \in 1..Len(queue[c]) /\ q[i] = queue[c][i + 1]
  BY <1>1, <1>2, <1>3
<1>5. h \in Messages /\ h \in setup.casts /\ at[c][h] = "no"
  BY <1>1, <1>4 DEF Queueing, QueueInv, Waiting
<1>6. /\ queue' = [queue EXCEPT ![c] = q] /\ at' = [at EXCEPT ![c][h] = "called"]
      /\ UNCHANGED <<listens, cast, left, seen, asked>>
  BY <1>2, <1>3 DEF Receive, CallAt
<1>7. /\ queue' \in [Conns -> Seq(Messages)]
      /\ at' \in [Conns -> [Messages -> {"no", "called", "lock", "full", "again", "ok", "err"}]]
      /\ queue'[c] = q /\ \A d \in Conns : d # c => queue'[d] = queue[d]
      /\ \A d \in Conns, m \in Messages : d # c \/ m # h => at'[d][m] = at[d][m]
  BY <1>1, <1>4, <1>5, <1>6
<1>8. CastTypes'
  BY <1>6, <1>7 DEF Queueing, CastTypes
<1>9. KeepsOk
  BY <1>5, <1>7 DEF KeepsOk
<1>10. setup.casts \subseteq Messages
  BY SetupIs DEF Queueing
<1>11. Holds(queue[c], h)
  BY <1>4 DEF Holds
<1>12. \A m : Holds(q, m) => Holds(queue[c], m)
  BY <1>4 DEF Holds
<1>13. \A d \in Conns, m \in setup.casts :
         cast[m] = "called" \/ d \in left[m] => at'[d][m] = "no" /\ ~Holds(queue'[d], m)
  <2>1. ASSUME NEW d \in Conns, NEW m \in setup.casts, cast[m] = "called" \/ d \in left[m]
        PROVE  at'[d][m] = "no" /\ ~Holds(queue'[d], m)
    <3>1. m \in Messages /\ at[d][m] = "no" /\ ~Holds(queue[d], m)
      BY <2>1, <1>10 DEF Queueing, QueueInv
    <3>2. d # c \/ m # h
      BY <3>1, <1>11
    <3>3. at'[d][m] = "no"
      BY <3>1, <3>2, <1>7
    <3>4. ~Holds(queue'[d], m)
      BY <3>1, <1>7, <1>12, Zenon
    <3> QED  BY <3>3, <3>4
  <2> QED  BY <2>1
<1>14. \A d \in Conns : Waiting(queue'[d], at'[d], setup.casts)
  <2>1. Waiting(q, at'[c], setup.casts)
    <3>1. ASSUME NEW i \in 1..Len(q)
          PROVE  /\ i + 1 \in 1..Len(queue[c]) /\ q[i] = queue[c][i + 1] /\ 1 < i + 1
      BY <1>1, <1>4
    <3>2. ASSUME NEW i \in 1..Len(q)
          PROVE  q[i] \in setup.casts /\ at'[c][q[i]] = "no"
      <4>1. /\ q[i] \in setup.casts /\ at[c][q[i]] = "no" /\ q[i] # h
        BY <3>1, <1>4 DEF Queueing, QueueInv, Waiting
      <4> QED  BY <4>1, <1>7, <1>10
    <3>3. ASSUME NEW i \in 1..Len(q), NEW j \in 1..Len(q), i < j
          PROVE  q[i] # q[j]
      <4>1. i + 1 < j + 1
        BY <3>3
      <4> QED  BY <3>1, <4>1 DEF Queueing, QueueInv, Waiting
    <3> QED  BY <3>2, <3>3 DEF Waiting
  <2>2. ASSUME NEW d \in Conns, d # c PROVE Waiting(queue[d], at'[d], setup.casts)
    <3>1. Waiting(queue[d], at[d], setup.casts)
      BY DEF Queueing, QueueInv
    <3>2. \A m \in setup.casts : at'[d][m] = at[d][m]
      BY <2>2, <1>7, <1>10
    <3> QED  BY <3>1, <3>2 DEF Waiting
  <2>3. \A d \in Conns : d # c => queue'[d] = queue[d]
    BY <1>7
  <2> QED  BY <2>1, <2>2, <2>3, <1>7, Zenon
<1>15. QueueInv'
  BY <1>6, <1>13, <1>14, Zenon DEF Queueing, QueueInv
<1> QED  BY <1>8, <1>9, <1>15 DEF Queueing

(* The listener of c ends, and its queue with it.                          *)
LEMMA QueueStopped ==
  ASSUME Queueing, NEW c \in Conns, StopListening(c), UNCHANGED setup
  PROVE  Queueing'
<1>1. /\ queue' = [queue EXCEPT ![c] = <<>>] /\ listens' = listens \ {c}
      /\ UNCHANGED <<at, cast, left, seen, asked>>
  BY DEF StopListening
<1>2. <<>> \in Seq(Messages) /\ Len(<<>>) = 0
  OBVIOUS
<1>3. /\ queue' \in [Conns -> Seq(Messages)]
      /\ queue'[c] = <<>> /\ \A d \in Conns : d # c => queue'[d] = queue[d]
  BY <1>1, <1>2 DEF Queueing, CastTypes
<1>4. CastTypes'
  BY <1>1, <1>3 DEF Queueing, CastTypes
<1>5. (\A m : ~Holds(queue'[c], m)) /\ Waiting(queue'[c], at[c], setup.casts)
  BY <1>2, <1>3 DEF Holds, Waiting
<1>6. \A d \in Conns, m \in setup.casts :
        cast[m] = "called" \/ d \in left[m] => at[d][m] = "no" /\ ~Holds(queue'[d], m)
  BY <1>3, <1>5 DEF Queueing, QueueInv
<1>7. \A d \in Conns : Waiting(queue'[d], at[d], setup.casts)
  BY <1>3, <1>5 DEF Queueing, QueueInv
<1>8. QueueInv'
  BY <1>1, <1>6, <1>7, Zenon DEF Queueing, QueueInv
<1> QED  BY <1>4, <1>8 DEF Queueing

(* A step of the broadcast m: it stays a broadcast, and what it adds to    *)
(* the queue of a connection is taken from its list.                       *)
LEMMA CastGoesOn ==
  ASSUME Queueing, NEW m \in setup.casts, UNCHANGED <<setup, at, listens>>,
         NEW l \in {"loop", "returned"} \cup Conns, cast' = [cast EXCEPT ![m] = l],
         seen' \in [Messages -> 0..MaxFlushers], asked' \subseteq Conns,
         left' \in [Messages -> SUBSET Conns], \A n \in Messages : n # m => left'[n] = left[n],
         cast[m] = "called" \/ left'[m] \subseteq left[m],
         \/ UNCHANGED queue
         \/ \E c \in left[m] : /\ queue' = [queue EXCEPT ![c] = Append(@, m)]
                               /\ c \notin left'[m]
  PROVE  Queueing'
<1>1. /\ m \in Messages /\ setup.casts \subseteq Messages
      /\ cast \in [Messages -> {"no", "called", "loop", "returned"} \cup Conns]
      /\ l \notin {"no", "called"}
  BY SetupIs, BatchAssumption DEF Queueing, CastTypes
<1>2. /\ cast' \in [Messages -> {"no", "called", "loop", "returned"} \cup Conns]
      /\ cast'[m] = l /\ \A n \in Messages : n # m => cast'[n] = cast[n]
  BY <1>1
<1>3. \A c \in Conns, n \in setup.casts :
        cast'[n] = "called" \/ c \in left'[n] => at[c][n] = "no" /\ ~Holds(queue[c], n)
  BY <1>1, <1>2 DEF Queueing, QueueInv
<1>4. \A n \in Messages : n \notin setup.casts => cast'[n] = "no"
  BY <1>1, <1>2 DEF Queueing, QueueInv
<1>5. CASE UNCHANGED queue
  <2>1. CastTypes'
    BY <1>2, <1>5 DEF Queueing, CastTypes
  <2>2. QueueInv'
    BY <1>3, <1>4, <1>5 DEF Queueing, QueueInv
  <2> QED  BY <2>1, <2>2 DEF Queueing
<1>6. CASE \E c \in left[m] : /\ queue' = [queue EXCEPT ![c] = Append(@, m)] /\ c \notin left'[m]
  <2>1. PICK c \in left[m] : queue' = [queue EXCEPT ![c] = Append(@, m)] /\ c \notin left'[m]
    BY <1>6
  <2>2. /\ c \in Conns /\ queue[c] \in Seq(Messages) /\ queue \in [Conns -> Seq(Messages)]
    BY <1>1 DEF Queueing, CastTypes
  <2>3. PICK q : q = Append(queue[c], m)
    OBVIOUS
  <2>4. Longer(q, queue[c], m)
    BY <1>1, <2>2, <2>3, Appended
  <2>5. /\ queue' \in [Conns -> Seq(Messages)] /\ queue'[c] = q
        /\ \A d \in Conns : d # c => queue'[d] = queue[d]
    <3>1. q \in Seq(Messages)
      BY <1>1, <2>2, <2>3
    <3> QED  BY <2>1, <2>2, <2>3, <3>1
  <2>6. CastTypes'
    BY <1>2, <2>5 DEF Queueing, CastTypes
  <2>7. at[c][m] = "no" /\ ~Holds(queue[c], m) /\ Waiting(queue[c], at[c], setup.casts)
    BY <2>2 DEF Queueing, QueueInv
  <2>8. Waiting(q, at[c], setup.casts)
    <3>1. /\ Len(queue[c]) \in Nat /\ Len(q) = Len(queue[c]) + 1 /\ q[Len(q)] = m
          /\ \A i \in 1..Len(queue[c]) : q[i] = queue[c][i]
      BY <2>2, <2>4 DEF Longer
    <3>2. \A i \in 1..Len(queue[c]) : q[i] # m
      BY <2>7, <3>1 DEF Holds
    <3>3. \A i \in 1..Len(q) : i \in 1..Len(queue[c]) \/ i = Len(q)
      BY <3>1
    <3>4. \A i \in 1..Len(q) : q[i] \in setup.casts /\ at[c][q[i]] = "no"
      BY <2>7, <3>1, <3>3 DEF Waiting
    <3>5. ASSUME NEW i \in 1..Len(q), NEW j \in 1..Len(q), i < j PROVE q[i] # q[j]
      <4>1. i \in 1..Len(queue[c])
        BY <3>1, <3>5
      <4>2. CASE j = Len(q)
        BY <4>1, <4>2, <3>1, <3>2
      <4>3. CASE j \in 1..Len(queue[c])
        BY <4>1, <4>3, <3>1, <3>5, <2>7 DEF Waiting
      <4> QED  BY <4>2, <4>3, <3>3
    <3> QED  BY <3>4, <3>5 DEF Waiting
  <2>9. \A d \in Conns : Waiting(queue'[d], at[d], setup.casts)
    BY <2>5, <2>8 DEF Queueing, QueueInv
  <2>10. \A d \in Conns, n \in setup.casts :
           cast'[n] = "called" \/ d \in left'[n] => at[d][n] = "no" /\ ~Holds(queue'[d], n)
    <3>1. ASSUME NEW d \in Conns, NEW n \in setup.casts, cast'[n] = "called" \/ d \in left'[n]
          PROVE  at[d][n] = "no" /\ ~Holds(queue'[d], n)
      <4>1. at[d][n] = "no" /\ ~Holds(queue[d], n)
        BY <1>3, <3>1
      <4>2. d # c \/ n # m
        BY <1>1, <1>2, <2>1, <3>1
      <4>3. ~Holds(queue'[d], n)
        BY <4>1, <4>2, <2>4, <2>5, Zenon DEF Longer
      <4> QED  BY <4>1, <4>3
    <3> QED  BY <3>1
  <2>11. QueueInv'
    BY <1>4, <2>9, <2>10 DEF QueueInv
  <2> QED  BY <2>6, <2>11 DEF Queueing
<1> QED  BY <1>5, <1>6

(* Every step of a broadcast is one of these.                              *)
LEMMA CastSteps ==
  ASSUME Queueing, flusher \in 0..MaxFlushers, NEW m \in Messages, BatchBroadcast(m),
         UNCHANGED setup
  PROVE  Queueing'
<1>1. /\ cast \in [Messages -> {"no", "called", "loop", "returned"} \cup Conns]
      /\ left \in [Messages -> SUBSET Conns] /\ seen \in [Messages -> 0..MaxFlushers]
      /\ asked \subseteq Conns /\ listens \subseteq Conns
      /\ \A n \in Messages : n \notin setup.casts => cast[n] = "no"
      /\ "no" \notin Conns
  BY BatchAssumption DEF Queueing, CastTypes, QueueInv
<1>2. UNCHANGED <<at, listens>>
  BY DEF BatchBroadcast, BeginCast, GiveUp, CastReturns, Enqueue, DropOrClose, WaitFor
<1>3. CASE BeginCast(m)
  <2>1. /\ cast[m] = "called" /\ UNCHANGED <<asked, queue, seen>>
        /\ \/ cast' = [cast EXCEPT ![m] = "returned"] /\ left' = left
           \/ /\ cast' = [cast EXCEPT ![m] = "loop"]
              /\ left' = [left EXCEPT ![m] = {c \in listens : life[c] # "gone"}]
    BY <1>3 DEF BeginCast
  <2>2. /\ m \in setup.casts /\ left' \in [Messages -> SUBSET Conns]
        /\ \A n \in Messages : n # m => left'[n] = left[n]
    BY <1>1, <2>1
  <2> QED  BY <1>1, <1>2, <2>1, <2>2, CastGoesOn
<1>4. CASE GiveUp(m) \/ CastReturns(m)
  <2>1. /\ cast[m] \in {"loop"} \cup Conns /\ cast' = [cast EXCEPT ![m] = "returned"]
        /\ UNCHANGED <<asked, queue, seen, left>>
    BY <1>4 DEF GiveUp, CastReturns
  <2>2. m \in setup.casts
    BY <1>1, <2>1
  <2> QED  BY <1>1, <1>2, <2>1, <2>2, CastGoesOn
<1>5. ASSUME NEW c \in Conns, Enqueue(m, c) PROVE Queueing'
  <2>1. /\ cast[m] \in {"loop"} \cup Conns /\ c \in left[m]
        /\ queue' = [queue EXCEPT ![c] = Append(@, m)] /\ left' = [left EXCEPT ![m] = @ \ {c}]
        /\ cast' = [cast EXCEPT ![m] = "loop"] /\ UNCHANGED <<asked, seen>>
    BY <1>5 DEF Enqueue, Visited
  <2>2. m \in setup.casts
    BY <1>1, <2>1
  <2>3. /\ left' \in [Messages -> SUBSET Conns] /\ left'[m] = left[m] \ {c}
        /\ \A n \in Messages : n # m => left'[n] = left[n]
    BY <1>1, <2>1
  <2> QED  BY <1>1, <1>2, <2>1, <2>2, <2>3, CastGoesOn
<1>6. ASSUME NEW c \in Conns, DropOrClose(m, c) PROVE Queueing'
  <2>1. /\ cast[m] = "loop" /\ cast' = cast /\ UNCHANGED <<queue, seen>>
        /\ left' = [left EXCEPT ![m] = @ \ {c}] /\ asked' \subseteq Conns
    BY <1>1, <1>6 DEF DropOrClose, Visited, Blocked
  <2>2. m \in setup.casts /\ cast' = [cast EXCEPT ![m] = "loop"]
    BY <1>1, <2>1
  <2>3. /\ left' \in [Messages -> SUBSET Conns] /\ left'[m] \subseteq left[m]
        /\ \A n \in Messages : n # m => left'[n] = left[n]
    BY <1>1, <2>1
  <2> QED  BY <1>1, <1>2, <2>1, <2>2, <2>3, CastGoesOn
<1>7. ASSUME NEW c \in Conns, WaitFor(m, c) PROVE Queueing'
  <2>1. /\ cast[m] = "loop" /\ cast' = [cast EXCEPT ![m] = c]
        /\ seen' = [seen EXCEPT ![m] = flusher] /\ UNCHANGED <<asked, queue, left>>
    BY <1>7 DEF WaitFor, Blocked
  <2>2. m \in setup.casts /\ seen' \in [Messages -> 0..MaxFlushers]
    BY <1>1, <2>1
  <2> QED  BY <1>1, <1>2, <2>1, <2>2, CastGoesOn
<1> QED  BY <1>3, <1>4, <1>5, <1>6, <1>7 DEF BatchBroadcast

-----------------------------------------------------------------------------
(* The invariant.                                                          *)

(* It holds at the start.                                                  *)
LEMMA InitInv == Init => IInv
<1> SUFFICES ASSUME Init PROVE IInv
  OBVIOUS
<1>1. /\ setup \in Setups /\ setup.first \in 0..MaxFlushers /\ setup.open \subseteq Conns
      /\ setup.calls \subseteq Conns \X Messages /\ setup.casts \subseteq Messages
      /\ \A call \in setup.calls : call[2] \notin setup.casts
  BY SetupIs, BatchAssumption DEF Init, NoFlusher
<1>2. <<>> \in Seq(Messages) /\ <<>> \in Seq(Seq(Tokens)) /\ Len(<<>>) = 0
  OBVIOUS
<1>3. FlusherTypes /\ ConnTypes
  <2>1. /\ flusher \in 0..MaxFlushers /\ enabling \in BOOLEAN /\ crashed \in BOOLEAN
        /\ closed \subseteq Flushers /\ ctxDone \subseteq Flushers
    BY <1>1 DEF Init
  <2>2. listener \in [Flushers -> {"none", "on", "last", "off"}]
    BY DEF Init
  <2>3. conns \in [Flushers -> SUBSET Conns]
    BY <1>1 DEF Init
  <2>4. sweep \in [Flushers -> [{"tick", "last"} -> SUBSET Conns]]
    BY DEF Init
  <2>5. life \in [Conns -> {"none", "new", "added", "open", "broken", "done", "gone"}]
    BY DEF Init
  <2>6. owner \in [Conns -> 0..MaxFlushers]
    <3>1. NoFlusher \in 0..MaxFlushers
      BY BatchAssumption DEF NoFlusher
    <3> QED  BY <1>1, <3>1 DEF Init
  <2> QED  BY <1>1, <2>1, <2>2, <2>3, <2>4, <2>5, <2>6 DEF FlusherTypes, ConnTypes
<1>4. FlusherInv /\ NoGoneConnIsSwept
  <2>1. \A f \in Flushers : \A c \in conns[f] : f = setup.first /\ c \in setup.open
    BY DEF Init
  <2>2. \A f \in Flushers : f \in Nat /\ ~(f < 1)
    BY DEF Flushers
  <2>3. flusher = setup.first /\ enabling = FALSE /\ flusher \in {0, 1}
    BY <1>1, SetupIs DEF Init, NoFlusher
  <2>4. \A c \in setup.open : life[c] = "open" /\ owner[c] = setup.first
    BY <1>1 DEF Init
  <2>5. FlusherInv
    BY <2>1, <2>2, <2>3, <2>4 DEF FlusherInv
  <2> QED  BY <2>1, <2>4, <2>5 DEF NoGoneConnIsSwept
<1>5. CastTypes
  <2>1. at \in [Conns -> [Messages -> {"no", "called", "lock", "full", "again", "ok", "err"}]]
    BY DEF Init
  <2>2. /\ queue \in [Conns -> Seq(Messages)] /\ listens \subseteq Conns
        /\ cast \in [Messages -> {"no", "called", "loop", "returned"} \cup Conns]
        /\ left \in [Messages -> SUBSET Conns] /\ asked \subseteq Conns
    BY <1>1, <1>2 DEF Init
  <2>3. seen \in [Messages -> 0..MaxFlushers]
    BY BatchAssumption DEF Init, NoFlusher
  <2> QED  BY <2>1, <2>2, <2>3 DEF CastTypes
<1>6. QueueInv
  <2>1. \A c \in Conns, m \in setup.casts : <<c, m>> \notin setup.calls
    BY <1>1
  <2>2. \A c \in Conns, m \in setup.casts : at[c][m] = "no"
    <3>1. at = [c \in Conns |-> [m \in Messages |->
                  IF <<c, m>> \in setup.calls THEN "called" ELSE "no"]]
      BY DEF Init
    <3>2. ASSUME NEW c \in Conns, NEW m \in Messages, <<c, m>> \notin setup.calls
          PROVE  at[c][m] = "no"
      BY <3>1, <3>2
    <3>3. \A m \in setup.casts : m \in Messages
      BY <1>1
    <3> QED  BY <2>1, <3>2, <3>3
  <2>3. \A c \in Conns : queue[c] = <<>>
    BY DEF Init
  <2>4. \A m \in Messages : m \notin setup.casts => cast[m] = "no"
    BY DEF Init
  <2>5. \A c \in Conns : Waiting(queue[c], at[c], setup.casts) /\ \A m : ~Holds(queue[c], m)
    BY <1>2, <2>3 DEF Waiting, Holds
  <2> QED  BY <2>2, <2>4, <2>5 DEF QueueInv
<1>7. BatchTypes
  BY <1>2, SizesEmpty DEF Init, BatchTypes
<1>8. PieceInv
  <2>1. ASSUME NEW c \in Conns
        PROVE  Sound(setup, at[c], log[c], batch[c], sending[c], Kept(c))
    <3>1. log[c] = <<>> /\ batch[c] = <<>> /\ sending[c] = {} /\ Kept(c) = <<>>
      BY DEF Init, Kept
    <3>2. EndOf(<<>>, <<>>)
      BY <1>2, EndIsPiece
    <3> QED  BY <1>2, <3>1, <3>2 DEF Sound
  <2> QED  BY <2>1 DEF PieceInv
<1>9. SizeInv
  <2>1. ASSUME NEW c \in Conns
        PROVE  batch[c] = <<>> /\ sending[c] = {} /\ Kept(c) = <<>>
    BY DEF Init, Kept
  <2> QED  BY <1>2, <2>1 DEF SizeInv, Fitting
<1> QED  BY <1>1, <1>3, <1>4, <1>5, <1>6, <1>7, <1>8, <1>9
         DEF IInv, Flushing, Queueing, Contents

(* A step of a call of Batch keeps it.                                     *)
LEMMA CallInv ==
  ASSUME IInv, NEW c \in Conns, NEW m \in Messages, CallBatch(c, m), UNCHANGED setup
  PROVE  IInv'
<1>1. UNCHANGED <<upgrader, sweep, life, owner, crashed, casting>>
  BY Zenon DEF CallBatch, Check, Add, Overflow, FlushFull, AddAnyway, Put
<1>2. GoesOn /\ KeepsOk
  <2>1. /\ at[c][m] \in {"called", "lock", "full", "again"}
        /\ \E l \in {"err", "lock", "full", "again", "ok"} : CallAt(c, m, l)
    BY DEF CallBatch, Check, Add, Overflow, FlushFull, AddAnyway, Put
  <2> QED  BY <2>1, CallGoesOn DEF IInv, Queueing
<1>3. Flushing'
  BY <1>1, FlushersKept DEF IInv
<1>4. Queueing'
  BY <1>1, <1>2, QueuesKept DEF IInv
<1>5. Contents'
  <2>1. CASE Check(c, m) \/ Overflow(c, m)
    <3>1. UNCHANGED <<batch, total, sending, wire, garbled, log, forced, late>>
      BY <2>1 DEF Check, Overflow, batches, sent, history
    <3>2. garbled \subseteq garbled' /\ garbled' \subseteq Conns
      BY <3>1 DEF IInv, Contents, BatchTypes
    <3> QED  BY <1>2, <3>1, <3>2, ContentKept DEF IInv
  <2>2. CASE FlushFull(c, m)
    <3>1. Flush(c) /\ UNCHANGED <<wire, garbled, log, forced, late>>
      BY <2>2 DEF FlushFull, sent, history
    <3> QED  BY <1>2, <3>1, ContentFlushed DEF IInv
  <2>3. CASE Add(c, m)
    <3>1. at[c][m] # "ok" /\ Put(c, m) /\ Fits(c, m) /\ UNCHANGED forced
      BY <2>3 DEF Add
    <3> QED  BY <1>2, <3>1, ContentPut DEF IInv, Queueing
  <2>4. CASE AddAnyway(c, m)
    <3>1. at[c][m] # "ok" /\ Put(c, m) /\ forced' = [forced EXCEPT ![c] = IF batch[c] = <<>> THEN @ ELSE @ \cup {m}]
      BY <2>4 DEF AddAnyway
    <3> QED  BY <1>2, <3>1, ContentPut DEF IInv, Queueing
  <2> QED  BY <2>1, <2>2, <2>3, <2>4 DEF CallBatch
<1> QED  BY <1>3, <1>4, <1>5 DEF IInv

(* A batch, and any part of it, is written in tokens.                      *)
LEMMA EncodedIs ==
  ASSUME setup \in Setups, Contents, NEW c \in Conns, NEW b \in sending[c]
  PROVE  /\ Encode(b) \in Seq(Tokens) /\ Mixed \in Seq(Tokens)
         /\ \A k \in 0..Len(Encode(b)) : SubSeq(Encode(b), 1, k) \in Seq(Tokens)
<1>1. log[c] \in Seq(Messages) /\ Piece(b, log[c])
  BY DEF Contents, BatchTypes, PieceInv, Sound
<1>2. b \in Seq(Messages) /\ b # <<>>
  BY <1>1, PieceHolds
<1>3. PICK e : e = Encode(b)
  OBVIOUS
<1>4. e \in Seq(Tokens)
  BY <1>2, <1>3, ReadEncoded
<1>5. \A k \in 0..Len(e) : SubSeq(e, 1, k) \in Seq(Tokens)
  BY <1>4
<1>6. Mixed \in Seq(Tokens)
  BY DEF Mixed, Sign, Tokens
<1> QED  BY <1>3, <1>4, <1>5, <1>6

(* The send of a batch keeps it, also one that is cut short.               *)
LEMMA SendInv ==
  ASSUME IInv, NEW c \in Conns, NEW b \in sending[c], UNCHANGED setup,
         SendBatch(c, b) \/ SendFails(c, b) \/ CloseCuts(c, b)
  PROVE  IInv'
<1>1. /\ sending' = [sending EXCEPT ![c] = @ \ {b}]
      /\ UNCHANGED <<batch, total, at, casting, log, forced, late>>
  BY DEF SendBatch, SendFails, CloseCuts, CloseBegins, ConnStep, SendEnds, history
<1>2. GoesOn /\ KeepsOk
  BY <1>1, CallsStay DEF IInv, Queueing
<1>3. /\ garbled' \in {garbled, garbled \cup {c}}
      /\ \E s \in Seq(Tokens) : \/ wire' = wire
                               \/ /\ wire' = [wire EXCEPT ![c] = Append(@, s)]
                                  /\ s = Encode(b) \/ c \in garbled'
  <2>1. /\ Encode(b) \in Seq(Tokens) /\ Mixed \in Seq(Tokens)
        /\ \A k \in 0..Len(Encode(b)) : SubSeq(Encode(b), 1, k) \in Seq(Tokens)
    BY EncodedIs DEF IInv, Queueing
  <2>2. CASE SendBatch(c, b)
    BY <2>1, <2>2, Zenon DEF SendBatch
  <2>3. CASE SendFails(c, b)
    <3>1. wire' = wire /\ garbled' \in {garbled, garbled \cup {c}}
      BY <2>3 DEF SendFails
    <3> QED  BY <2>1, <3>1, Zenon
  <2>4. CASE CloseCuts(c, b)
    <3>1. garbled' = garbled \cup {c}
      BY <2>4 DEF CloseCuts
    <3>2. c \in garbled'
      BY <3>1
    <3>3. PICK k \in 0..Len(Encode(b)) :
            wire' = [wire EXCEPT ![c] = Append(@, SubSeq(Encode(b), 1, k))]
      BY <2>4 DEF CloseCuts
    <3>4. SubSeq(Encode(b), 1, k) \in Seq(Tokens)
      BY <2>1
    <3> QED  BY <3>1, <3>2, <3>3, <3>4, Zenon
  <2> QED  BY <2>2, <2>3, <2>4
<1>4. Contents'
  BY <1>1, <1>2, <1>3, ContentSends DEF IInv, Queueing
<1>5. Queueing'
  BY <1>1, <1>2, QueuesKept DEF IInv
<1>6. Flushing'
  <2>1. CASE SendBatch(c, b)
    <3>1. UNCHANGED <<upgrader, sweep, life, owner, crashed>>
      BY <2>1 DEF SendBatch, SendEnds
    <3> QED  BY <3>1, FlushersKept DEF IInv
  <2>2. CASE SendFails(c, b) \/ CloseCuts(c, b)
    BY <2>2, ConnSteps DEF IInv
  <2> QED  BY <2>1, <2>2
<1> QED  BY <1>4, <1>5, <1>6 DEF IInv

(* A step that leaves the batches alone keeps their part of it.            *)
LEMMA ContentsKept ==
  ASSUME IInv, KeepsOk, UNCHANGED <<setup, batches, wire, history>>,
         garbled \subseteq garbled', garbled' \subseteq Conns
  PROVE  Contents'
<1>1. UNCHANGED <<setup, batch, total, sending, wire, log, forced, late>>
  BY DEF batches, history
<1> QED  BY <1>1, ContentKept DEF IInv

(* A step of a flusher keeps it.                                           *)
LEMMA FlusherStepInv ==
  ASSUME IInv, UNCHANGED setup, NEW f \in Flushers,
         Tick(f) \/ Listen(f) \/ CancelFlusher(f) \/ CloseFlusher \/ EnableBegins \/ EnableEnds
  PROVE  IInv'
<1>1. FlusherStep
  BY Zenon DEF Tick, Listen, LastFlush, ListenerEnds, FlushStops, FlushNext, CancelFlusher,
               CloseFlusher, EnableBegins, EnableEnds
<1>2. UNCHANGED <<owner, wire, garbled, at, casting, history>>
  BY <1>1 DEF FlusherStep, sent
<1>3. GoesOn /\ KeepsOk
  BY <1>2, CallsStay DEF IInv, Queueing
<1>4. Queueing'
  BY <1>2, <1>3, QueuesKept DEF IInv
<1>5. Flushing'
  BY FlusherSteps, EnableSteps DEF IInv
<1>6. Contents'
  <2>1. UNCHANGED batches \/ \E k \in {"tick", "last"}, c \in Conns : Flush(c)
    BY Zenon DEF Tick, Listen, LastFlush, ListenerEnds, FlushStops, FlushNext, CancelFlusher,
                 CloseFlusher, EnableBegins, EnableEnds, batches
  <2>2. CASE UNCHANGED batches
    <3>1. garbled \subseteq garbled' /\ garbled' \subseteq Conns
      BY <1>2 DEF IInv, Contents, BatchTypes
    <3> QED  BY <2>2, <3>1, <1>2, <1>3, ContentsKept
  <2>3. ASSUME NEW c \in Conns, Flush(c) PROVE Contents'
    <3>1. UNCHANGED <<setup, wire, garbled, log, forced, late>>
      BY <1>2 DEF history
    <3> QED  BY <2>3, <3>1, <1>3, ContentFlushed DEF IInv
  <2> QED  BY <2>1, <2>2, <2>3
<1> QED  BY <1>4, <1>5, <1>6 DEF IInv

(* Every step keeps it.                                                    *)
LEMMA NextInv == IInv /\ [Next]_vars => IInv'
<1> SUFFICES ASSUME IInv, [Next]_vars PROVE IInv'
  OBVIOUS
<1>0. garbled \subseteq garbled /\ garbled \subseteq Conns
  BY DEF IInv, Contents, BatchTypes
<1>1. CASE UNCHANGED vars
  <2>1. /\ UNCHANGED <<setup, upgrader, sweep, life, owner, crashed>>
        /\ UNCHANGED <<setup, casting>> /\ UNCHANGED at
        /\ UNCHANGED <<setup, batches, wire, garbled, history>>
    BY <1>1 DEF vars, sent
  <2>2. GoesOn /\ KeepsOk
    BY <2>1, CallsStay DEF IInv, Queueing
  <2> QED  BY <1>0, <2>1, <2>2, FlushersKept, QueuesKept, ContentsKept DEF IInv
<1>2. ASSUME UNCHANGED setup, NEW c \in Conns, Proceed(c) PROVE IInv'
  <2>1. CASE \E m \in Messages : CallBatch(c, m)
    BY <1>2, <2>1, CallInv
  <2>2. CASE \E b \in sending[c] : SendBatch(c, b) \/ SendFails(c, b)
    BY <1>2, <2>2, SendInv
  <2>3. CASE Receive(c)
    <3>1. UNCHANGED <<upgrader, sweep, life, owner, crashed, batches, wire, garbled, history>>
      BY <2>3 DEF Receive, CastStep, sent
    <3>2. Queueing' /\ KeepsOk
      BY <1>2, <2>3, QueueReceived DEF IInv
    <3> QED  BY <1>0, <1>2, <3>1, <3>2, FlushersKept, ContentsKept DEF IInv
  <2> QED  BY <1>2, <2>1, <2>2, <2>3 DEF Proceed
<1>3. ASSUME UNCHANGED setup, NEW c \in Conns, Change(c) PROVE IInv'
  <2>1. CASE StopListening(c)
    <3>1. UNCHANGED <<upgrader, sweep, life, owner, crashed, batches, wire, garbled, history,
                    at>>
      BY <2>1 DEF StopListening, CastStep, sent
    <3>2. Queueing' /\ KeepsOk
      BY <1>3, <2>1, <3>1, QueueStopped, CallsStay DEF IInv, Queueing
    <3> QED  BY <1>0, <1>3, <3>1, <3>2, FlushersKept, ContentsKept DEF IInv
  <2>2. CASE NewConn(c) \/ SetBatch(c) \/ CloseConn(c) \/ LeaveFlusher(c)
    <3>1. /\ UNCHANGED <<batches, wire, at, casting, history>>
          /\ garbled' \in {garbled, garbled \cup {c}}
      BY <2>2 DEF NewConn, SetBatch, CloseBegins, CloseConn, LeaveFlusher, ConnStep, sent, batches
    <3>2. GoesOn /\ KeepsOk
      BY <3>1, CallsStay DEF IInv, Queueing
    <3>3. garbled \subseteq garbled' /\ garbled' \subseteq Conns
      BY <1>0, <3>1
    <3> QED  BY <1>3, <2>2, <3>1, <3>2, <3>3, ConnSteps, QueuesKept, ContentsKept DEF IInv
  <2>3. CASE \E b \in sending[c] : CloseCuts(c, b)
    BY <1>3, <2>3, SendInv
  <2> QED  BY <1>3, <2>1, <2>2, <2>3 DEF Change
<1>4. ASSUME UNCHANGED setup,
             \/ \E f \in Flushers : Tick(f) \/ Listen(f) \/ CancelFlusher(f)
             \/ CloseFlusher \/ EnableBegins \/ EnableEnds
      PROVE  IInv'
  <2>1. 1 \in Flushers
    BY BatchAssumption DEF Flushers
  <2> QED  BY <1>4, <2>1, FlusherStepInv
<1>5. ASSUME UNCHANGED setup, NEW m \in Messages, BatchBroadcast(m) PROVE IInv'
  <2>1. UNCHANGED <<upgrader, sweep, owner, batches, wire, garbled, crashed, history, life, at>>
    BY <1>5, Zenon DEF BatchBroadcast, BeginCast, GiveUp, CastReturns, Enqueue, DropOrClose,
                       WaitFor, CastStep, sent
  <2>2. flusher \in 0..MaxFlushers
    BY DEF IInv, Flushing, FlusherTypes
  <2>3. Queueing' /\ KeepsOk
    BY <1>5, <2>1, <2>2, CastSteps, CallsStay DEF IInv, Queueing
  <2> QED  BY <1>0, <1>5, <2>1, <2>3, FlushersKept, ContentsKept DEF IInv
<1> QED  BY <1>1, <1>2, <1>3, <1>4, <1>5 DEF Next

-----------------------------------------------------------------------------
(* What is promised.                                                       *)

(* The invariant holds of every state.                                     *)
LEMMA InvHolds == Spec => []IInv
  BY InitInv, NextInv, PTL DEF Spec

(* Every variable keeps its type, and totalSize is the size of the batch,  *)
(* whatever flushes it meanwhile.                                          *)
THEOREM BatchTypeCorrect == Spec => []TypeOK
<1>1. IInv => TypeOK
  BY DEF IInv, Flushing, Queueing, Contents, FlusherTypes, ConnTypes, CastTypes, BatchTypes, TypeOK
<1> QED  BY <1>1, InvHolds, PTL

(* A flusher that runs knows no connection whose CloseWithCode has         *)
(* returned: CloseWithCode looks at u.Flusher alone, and EnableBatching    *)
(* has closed every other that may know the connection.                    *)
THEOREM GoneAreLeftAlone == Spec => []NoGoneConnIsSwept
<1>1. IInv => NoGoneConnIsSwept
  BY DEF IInv, Flushing
<1> QED  BY <1>1, InvHolds, PTL

(* What the client has received, as a function of wire.                    *)
LEMMA ReceivedIs ==
  ASSUME NEW c \in Conns
  PROVE  /\ Received[c] = [i \in 1..Len(wire[c]) |-> Decode(setup, wire[c][i])]
         /\ Received'[c] = [i \in 1..Len(wire'[c]) |-> Decode(setup', wire'[c][i])]
<1>1. \A s : Read(s) = Decode(setup, s)
  BY ReadIs
<1>2. \A s : Read(s)' = Decode(setup', s)
  <2> SUFFICES ASSUME NEW s PROVE Read(s)' = Decode(setup', s)
    OBVIOUS
  <2>1. Len(Affix("prefix")') = IF "prefix" \in setup'.affixes THEN 1 ELSE 0
    BY DEF Affix
  <2>2. Len(Affix("suffix")') = IF "suffix" \in setup'.affixes THEN 1 ELSE 0
    BY DEF Affix
  <2> QED  BY <2>1, <2>2, Zenon DEF Read, Decode
<1> QED  BY <1>1, <1>2 DEF Received

(* No batch of several messages, sent or not, is larger than MaxBatchSize  *)
(* but for messages appended to one that others had filled since the flush *)
(* that was to make room.                                                  *)
THEOREM SizesAreKept == Spec => []ExcessIsForced
<1>1. IInv => ExcessIsForced
  <2> SUFFICES ASSUME IInv, NEW c \in Conns, NEW b \in Batches(c) PROVE Fitting(b, forced[c])
    BY DEF ExcessIsForced, Fitting
  <2>1. \A i \in DOMAIN Received[c] :
          i \in 1..Len(wire[c]) /\ Received[c][i] = Decode(setup, wire[c][i])
    BY ReceivedIs
  <2>2. \/ b = batch[c] \/ b \in sending[c]
        \/ \E i \in 1..Len(Kept(c)) : b = Decode(setup, Kept(c)[i])
    BY <2>1 DEF Batches, Range, Kept
  <2> QED  BY <2>2, Zenon DEF IInv, Contents, SizeInv
<1> QED  BY <1>1, InvHolds, PTL

(* A step that appends m to the log of c accepts it.                       *)
LEMMA PutAccepts ==
  ASSUME IInv, NEW c \in Conns, NEW m \in Messages, at[c][m] # "ok", Put(c, m), UNCHANGED setup
  PROVE  Promise!Next
<1>1. /\ log' = [log EXCEPT ![c] = Append(@, m)] /\ wire' = wire /\ setup' = setup
      /\ garbled' = garbled
  BY DEF Put, sent
<1>2. Received' = Received
  BY <1>1 DEF Received, Read, Affix
<1>3. ~Promise!Holds(log[c], m)
  BY DEF Promise!Holds, IInv, Contents, PieceInv, Sound
<1>4. Promise!Accept(c, m)
  BY <1>1, <1>2, <1>3 DEF Promise!Accept
<1> QED  BY <1>4 DEF Promise!Next

(* A step that sends b on a stream that is not over delivers it.           *)
LEMMA SendDelivers ==
  ASSUME IInv, NEW c \in Conns, NEW b \in sending[c], c \notin garbled,
         sending' = [sending EXCEPT ![c] = @ \ {b}],
         wire' = [wire EXCEPT ![c] = Append(@, Encode(b))], UNCHANGED <<setup, log, garbled>>
  PROVE  Promise!Next
<1>1. /\ Sound(setup, at[c], log[c], batch[c], sending[c], wire[c])
      /\ log[c] \in Seq(Messages) /\ wire \in [Conns -> Seq(Seq(Tokens))]
  BY DEF IInv, Contents, PieceInv, BatchTypes, Kept
<1>2. Piece(b, log[c]) /\ \A i \in 1..Len(wire[c]) : ~Share(Decode(setup, wire[c][i]), b)
  BY <1>1 DEF Sound
<1>3. PICK j \in 1..Len(log[c]) : \E i \in 1..j : b = SubSeq(log[c], i, j)
  BY <1>2 DEF Piece
<1>4. PICK i \in 1..j : b = SubSeq(log[c], i, j)
  BY <1>3
<1>5. b \in Seq(Messages) /\ b # <<>>
  BY <1>1, <1>2, PieceHolds
<1>6. PICK e : e = Encode(b)
  OBVIOUS
<1>7. e \in Seq(Tokens) /\ Decode(setup, e) = b
  BY <1>5, <1>6, ReadEncoded, ReadIs DEF IInv, Queueing
<1>8. /\ wire' = [wire EXCEPT ![c] = Append(@, e)] /\ log' = log /\ setup' = setup
  BY <1>6
<1>9. \A k \in i..j : ~Promise!Delivered(c, log[c][k])
  <2>1. /\ Len(b) = j - i + 1 /\ \A k \in 1..Len(b) : b[k] = log[c][i + k - 1]
    <3>1. i \in 1..(Len(log[c]) + 1) /\ j \in (i - 1)..Len(log[c])
      BY <1>1
    <3> QED  BY <3>1, <1>1, <1>4, SubSeqIs
  <2>2. ASSUME NEW k \in i..j PROVE Holds(b, log[c][k]) /\ log[c][k] \in Messages
    <3>1. k - i + 1 \in 1..Len(b) /\ i + (k - i + 1) - 1 = k /\ k \in 1..Len(log[c])
      BY <2>1
    <3>2. b[k - i + 1] = log[c][k] /\ log[c][k] \in Messages
      <4>1. \A x \in 1..Len(b) : b[x] = log[c][i + x - 1]
        BY <2>1
      <4>2. b[k - i + 1] = log[c][i + (k - i + 1) - 1]
        BY <3>1, <4>1
      <4> QED  BY <3>1, <4>2, <1>1
    <3> QED  BY <3>1, <3>2, Zenon DEF Holds
  <2>3. ASSUME NEW k \in i..j, Promise!Delivered(c, log[c][k]) PROVE FALSE
    <3>1. PICK x \in 1..Len(Received[c]) : Promise!Holds(Received[c][x], log[c][k])
      BY <2>3 DEF Promise!Delivered
    <3>2. x \in 1..Len(wire[c]) /\ Received[c][x] = Decode(setup, wire[c][x])
      <4>1. PICK n \in Nat : n = Len(wire[c])
        BY <1>1
      <4>2. Received[c] = [y \in 1..n |-> Decode(setup, wire[c][y])]
        BY <4>1, ReceivedIs
      <4>3. Len(Received[c]) = n
        BY <4>2
      <4> QED  BY <3>1, <4>1, <4>2, <4>3
    <3>3. Holds(Decode(setup, wire[c][x]), log[c][k])
      BY <3>1, <3>2 DEF Holds, Promise!Holds
    <3> QED  BY <1>2, <2>2, <3>2, <3>3 DEF Share
  <2> QED  BY <2>3
<1>10. Received' = [Received EXCEPT ![c] = Append(@, b)]
  <2>1. \A d \in Conns : d # c => Received'[d] = Received[d]
    <3>1. ASSUME NEW d \in Conns, d # c PROVE Received'[d] = Received[d]
      <4>1. wire'[d] = wire[d] /\ setup' = setup
        BY <1>1, <1>8, <3>1
      <4>2. /\ Received[d] = [y \in 1..Len(wire[d]) |-> Decode(setup, wire[d][y])]
            /\ Received'[d] = [y \in 1..Len(wire'[d]) |-> Decode(setup', wire'[d][y])]
        BY <3>1, ReceivedIs, Zenon
      <4> QED  BY <4>1, <4>2, Zenon
    <3> QED  BY <3>1
  <2>2. Received'[c] = Append(Received[c], b)
    <3>1. PICK n \in Nat : n = Len(wire[c])
      BY <1>1
    <3>2. /\ Len(wire'[c]) = n + 1 /\ wire'[c][n + 1] = e
          /\ \A x \in 1..n : wire'[c][x] = wire[c][x]
      BY <1>1, <1>7, <1>8, <3>1
    <3>3. PICK r : r = [x \in 1..n |-> Decode(setup, wire[c][x])]
      OBVIOUS
    <3>4. Received[c] = r /\ Received'[c] = [x \in 1..(n + 1) |-> Decode(setup, wire'[c][x])]
      BY <1>8, <3>1, <3>2, <3>3, ReceivedIs
    <3>5. /\ \A x \in 1..n : Decode(setup, wire'[c][x]) = r[x]
          /\ Decode(setup, wire'[c][n + 1]) = b
      BY <1>7, <3>2, <3>3
    <3>6. Len(r) = n
      BY <3>3
    <3>7. Append(r, b) = [x \in 1..(n + 1) |-> IF x = n + 1 THEN b ELSE r[x]]
      <4>1. PICK S : S = {r[x] : x \in 1..n} \cup {b}
        OBVIOUS
      <4>2. r \in Seq(S) /\ b \in S
        <5>1. \A x \in 1..n : r[x] \in S
          BY <4>1, Zenon
        <5>2. r \in [1..n -> S]
          BY <5>1, <3>3, Zenon
        <5>3. b \in S
          BY <4>1, Zenon
        <5> QED  BY <5>2, <5>3
      <4>3. PICK p, q : p = Append(r, b) /\ q = [x \in 1..(n + 1) |-> IF x = n + 1 THEN b ELSE r[x]]
        OBVIOUS
      <4>4. /\ p \in Seq(S) /\ Len(p) = n + 1 /\ p[n + 1] = b
            /\ \A x \in 1..n : p[x] = r[x]
        BY <3>6, <4>2, <4>3
      <4>5. q \in Seq(S) /\ Len(q) = n + 1
        <5>1. \A x \in 1..n : r[x] \in S
          BY <4>1, Zenon
        <5>2. \A x \in 1..(n + 1) : x = n + 1 \/ x \in 1..n
          OBVIOUS
        <5> QED  BY <5>1, <5>2, <4>2, <4>3
      <4>6. \A x \in 1..(n + 1) : p[x] = q[x]
        BY <4>3, <4>4
      <4> QED  BY <4>3, <4>4, <4>5, <4>6, SameSeq
    <3>8. [x \in 1..(n + 1) |-> Decode(setup, wire'[c][x])]
            = [x \in 1..(n + 1) |-> IF x = n + 1 THEN b ELSE r[x]]
      <4>1. \A x \in 1..(n + 1) : x \in 1..n \/ x = n + 1
        OBVIOUS
      <4>2. \A x \in 1..(n + 1) : Decode(setup, wire'[c][x]) = IF x = n + 1 THEN b ELSE r[x]
        BY <4>1, <3>5
      <4> QED  BY <4>2
    <3> QED  BY <3>4, <3>7, <3>8
  <2>3. Received' = [d \in Conns |-> Received'[d]] /\ Received = [d \in Conns |-> Received[d]]
    BY DEF Received
  <2> QED  BY <2>1, <2>2, <2>3
<1>11. Promise!Deliver(c, i, j)
  BY <1>4, <1>8, <1>9, <1>10 DEF Promise!Deliver
<1> QED  BY <1>3, <1>4, <1>11 DEF Promise!Next

(* A message that is cut short, and what follows it, garbles the stream,   *)
(* and leaves it what it has.                                              *)
LEMMA CutGarbles ==
  ASSUME IInv, NEW c \in Conns, garbled' = garbled \cup {c}, UNCHANGED <<setup, log>>, NEW e,
         \/ wire' = wire
         \/ wire' = [wire EXCEPT ![c] = Append(@, e)] /\ e \in Seq(Tokens)
  PROVE  Promise!Next
<1>1. wire \in [Conns -> Seq(Seq(Tokens))]
  BY DEF IInv, Contents, BatchTypes
<1>2. DOMAIN Received' = Conns
  BY DEF Received
<1>3. ASSUME NEW d \in Conns, d # c PROVE Received'[d] = Received[d]
  <2>1. wire'[d] = wire[d]
    BY <1>1, <1>3
  <2> QED  BY <2>1, ReceivedIs
<1>4. Promise!Begins(Received[c], Received'[c])
  <2>1. PICK n \in Nat : n = Len(wire[c])
    BY <1>1
  <2>2. PICK k \in Nat : k = Len(wire'[c]) /\ n <= k
    BY <1>1, <2>1
  <2>3. \A i \in 1..n : wire'[c][i] = wire[c][i]
    <3>1. CASE wire' = wire
      BY <3>1, Zenon
    <3>2. CASE wire' = [wire EXCEPT ![c] = Append(@, e)] /\ e \in Seq(Tokens)
      <4>1. wire[c] \in Seq(Seq(Tokens)) /\ wire'[c] = Append(wire[c], e)
        BY <1>1, <3>2
      <4> QED  BY <2>1, <4>1, <3>2
    <3> QED  BY <3>1, <3>2
  <2>4. PICK r, t : /\ r = [i \in 1..n |-> Decode(setup, wire[c][i])]
                    /\ t = [i \in 1..k |-> Decode(setup, wire'[c][i])]
    OBVIOUS
  <2>5. Received[c] = r /\ Received'[c] = t
    BY <2>1, <2>2, <2>4, ReceivedIs
  <2>6. \A i \in 1..n : t[i] = r[i]
    <3>1. ASSUME NEW i \in 1..n PROVE t[i] = r[i]
      <4>1. i \in 1..k
        BY <2>2
      <4>2. t[i] = Decode(setup, wire'[c][i]) /\ r[i] = Decode(setup, wire[c][i])
        BY <2>4, <4>1, Zenon
      <4> QED  BY <2>3, <4>2, Zenon
    <3> QED  BY <3>1
  <2>7. Len(r) = n /\ Len(t) = k
    BY <2>4
  <2>8. SubSeq(t, 1, n) = r
    <3>1. SubSeq(t, 1, n) = [i \in 1..n |-> t[i]]
      <4>1. SubSeq(t, 1, n) = [i \in 1..((n - 1) + 1) |-> t[(i + 1) - 1]]
        OBVIOUS
      <4>2. (n - 1) + 1 = n /\ \A i \in 1..n : (i + 1) - 1 = i
        OBVIOUS
      <4> QED  BY <4>1, <4>2
    <3>2. r = [i \in 1..n |-> r[i]]
      BY <2>4
    <3> QED  BY <2>6, <3>1, <3>2
  <2> QED  BY <2>2, <2>5, <2>7, <2>8 DEF Promise!Begins
<1>5. Promise!Garble(c)
  BY <1>2, <1>3, <1>4 DEF Promise!Garble
<1> QED  BY <1>5 DEF Promise!Next

(* The end of a send, whatever it comes to.                                *)
LEMMA SendKeepsPromise ==
  ASSUME IInv, NEW c \in Conns, NEW b \in sending[c], UNCHANGED setup,
         SendBatch(c, b) \/ SendFails(c, b) \/ CloseCuts(c, b)
  PROVE  Promise!Next \/ UNCHANGED <<setup, log, wire, garbled>>
<1>1. /\ Encode(b) \in Seq(Tokens) /\ Mixed \in Seq(Tokens)
      /\ \A k \in 0..Len(Encode(b)) : SubSeq(Encode(b), 1, k) \in Seq(Tokens)
  BY EncodedIs DEF IInv, Queueing
<1>2. CASE SendBatch(c, b)
  <2>1. /\ UNCHANGED <<setup, log, garbled>> /\ sending' = [sending EXCEPT ![c] = @ \ {b}]
        /\ \/ wire' = [wire EXCEPT ![c] = Append(@, Encode(b))]
           \/ c \in garbled /\ wire' = [wire EXCEPT ![c] = Append(@, Mixed)]
    BY <1>2 DEF SendBatch, SendEnds, history
  <2>2. CASE c \notin garbled
    BY <2>1, <2>2, SendDelivers
  <2>3. CASE c \in garbled
    <3>1. garbled' = garbled \cup {c}
      BY <2>1, <2>3
    <3> QED  BY <1>1, <2>1, <3>1, CutGarbles
  <2> QED  BY <2>2, <2>3
<1>3. CASE SendFails(c, b)
  <2>1. UNCHANGED <<setup, log, wire>> /\ garbled' \in {garbled, garbled \cup {c}}
    BY <1>3 DEF SendFails, SendEnds, history
  <2> QED  BY <2>1, CutGarbles
<1>4. CASE CloseCuts(c, b)
  <2>1. UNCHANGED <<setup, log>> /\ garbled' = garbled \cup {c}
    BY <1>4 DEF CloseCuts, CloseBegins, ConnStep, history
  <2>2. PICK k \in 0..Len(Encode(b)) :
          wire' = [wire EXCEPT ![c] = Append(@, SubSeq(Encode(b), 1, k))]
    BY <1>4 DEF CloseCuts
  <2> QED  BY <1>1, <2>1, <2>2, CutGarbles
<1> QED  BY <1>2, <1>3, <1>4

(* Batching implements its abstract specification, Outbox: whatever ticks, *)
(* full batches and replaced flushers do, and in either format, the client *)
(* reads consecutive pieces of what was accepted, no message in two of     *)
(* them, until a close or the end of a context cuts a send short.          *)
THEOREM BatchingKeepsPromise == Spec => KeepsPromise
<1>1. Init => Promise!Init
  BY DEF Init, Promise!Init, Received
<1>2. IInv /\ [Next]_vars => [Promise!Next]_<<log, Received, garbled>>
  <2> SUFFICES ASSUME IInv, [Next]_vars PROVE [Promise!Next]_<<log, Received, garbled>>
    OBVIOUS
  <2>1. ASSUME UNCHANGED <<setup, log, wire, garbled>> PROVE UNCHANGED <<log, Received, garbled>>
    BY <2>1 DEF Received, Read, Affix
  <2>2. CASE UNCHANGED vars
    BY <2>1, <2>2 DEF vars, sent, history
  <2>3. ASSUME UNCHANGED setup, NEW c \in Conns, Proceed(c)
        PROVE  [Promise!Next]_<<log, Received, garbled>>
    <3>1. ASSUME NEW m \in Messages, CallBatch(c, m) PROVE [Promise!Next]_<<log, Received, garbled>>
      <4>1. \/ UNCHANGED <<log, wire, garbled>>
            \/ at[c][m] # "ok" /\ Put(c, m)
        BY <3>1 DEF CallBatch, Check, Add, Overflow, FlushFull, AddAnyway, sent, history
      <4> QED  BY <4>1, <2>1, <2>3, PutAccepts
    <3>2. ASSUME NEW b \in sending[c], SendBatch(c, b) \/ SendFails(c, b)
          PROVE  [Promise!Next]_<<log, Received, garbled>>
      BY <3>2, <2>1, <2>3, SendKeepsPromise
    <3>3. CASE Receive(c)
      <4>1. UNCHANGED <<log, wire, garbled>>
        BY <3>3 DEF Receive, CastStep, sent, history
      <4> QED  BY <4>1, <2>1, <2>3
    <3> QED  BY <2>3, <3>1, <3>2, <3>3 DEF Proceed
  <2>4. ASSUME UNCHANGED setup, NEW c \in Conns, Change(c)
        PROVE  [Promise!Next]_<<log, Received, garbled>>
    <3>1. CASE NewConn(c) \/ SetBatch(c) \/ LeaveFlusher(c) \/ StopListening(c)
      <4>1. UNCHANGED <<log, wire, garbled>>
        BY <3>1 DEF NewConn, SetBatch, LeaveFlusher, StopListening, ConnStep, CastStep, sent,
                    history
      <4> QED  BY <4>1, <2>1, <2>4
    <3>2. CASE CloseConn(c)
      <4>1. UNCHANGED <<log, wire>> /\ garbled' \in {garbled, garbled \cup {c}}
        BY <3>2 DEF CloseConn, CloseBegins, ConnStep, history
      <4> QED  BY <4>1, <2>1, <2>4, CutGarbles
    <3>3. CASE \E b \in sending[c] : CloseCuts(c, b)
      BY <3>3, <2>1, <2>4, SendKeepsPromise
    <3> QED  BY <2>4, <3>1, <3>2, <3>3 DEF Change
  <2>5. ASSUME UNCHANGED setup,
               \/ \E f \in Flushers : Tick(f) \/ Listen(f) \/ CancelFlusher(f)
               \/ CloseFlusher \/ EnableBegins \/ EnableEnds
        PROVE  UNCHANGED <<log, Received, garbled>>
    <3>1. FlusherStep
      BY <2>5, Zenon DEF Tick, Listen, LastFlush, ListenerEnds, FlushStops, FlushNext,
                         CancelFlusher, CloseFlusher, EnableBegins, EnableEnds
    <3>2. UNCHANGED <<log, wire, garbled>>
      BY <3>1 DEF FlusherStep, sent, history
    <3> QED  BY <3>2, <2>1, <2>5
  <2>6. ASSUME UNCHANGED setup, NEW m \in Messages, BatchBroadcast(m)
        PROVE  UNCHANGED <<log, Received, garbled>>
    <3>1. CastStep
      BY <2>6, Zenon DEF BatchBroadcast, BeginCast, GiveUp, CastReturns, Enqueue, DropOrClose,
                         WaitFor
    <3>2. UNCHANGED <<log, wire, garbled>>
      BY <3>1 DEF CastStep, sent, history
    <3> QED  BY <3>2, <2>1, <2>6
  <2> QED  BY <2>1, <2>2, <2>3, <2>4, <2>5, <2>6 DEF Next, vars
<1> QED  BY <1>1, <1>2, InvHolds, PTL DEF Spec, KeepsPromise, Promise!Spec
=============================================================================

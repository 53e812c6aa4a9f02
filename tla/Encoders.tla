------------------------------ MODULE Encoders ------------------------------
(***************************************************************************)
(* How a batch is put into one message: the two encoders of                *)
(* conn_batcher.go, and what their formats ("[message1, message2, ...]"    *)
(* and "[uint32][message1][uint32][message2]...") say a client reads.  A   *)
(* message, a prefix, a length and a piece of punctuation is one token.    *)
(***************************************************************************)
EXTENDS Naturals, Sequences

Part(m, n) == [is |-> "part", what |-> m, len |-> n]  \* the n bytes of m
Sign(s)    == [is |-> "sign", what |-> s, len |-> 1]  \* see openBracket, comma, closingBracket
Uint32(n)  == [is |-> "uint32", what |-> "uint32", len |-> n]  \* the number n

Parts(messages, SizeOf) == [i \in 1..Len(messages) |-> Part(messages[i], SizeOf[messages[i]])]

\* Mutant: the comma is written after each message.
CommaAfterEach(parts) ==
  [i \in 1..(2 * Len(parts)) |-> IF i % 2 = 1 THEN parts[(i + 1) \div 2] ELSE Sign("comma")]

CommaBetween(parts) ==
  [i \in 1..(2 * Len(parts) - 1) |-> IF i % 2 = 1 THEN parts[(i + 1) \div 2] ELSE Sign("comma")]

jsonArrayEncoder(parts, prefix, suffix) ==
  <<Sign("openBracket")>>
    \o (IF prefix = <<>> THEN <<>> ELSE prefix \o <<Sign("comma")>>)
    \o CommaBetween(parts)
    \o (IF suffix = <<>> THEN <<>> ELSE <<Sign("comma")>> \o suffix)
    \o <<Sign("closingBracket")>>

lengthPrefixEncoder(parts, prefix, suffix) ==
  LET all == prefix \o parts \o suffix
  IN  [i \in 1..(2 * Len(all)) |-> IF i % 2 = 1 THEN Uint32(all[(i + 1) \div 2].len)
                                               ELSE all[i \div 2]]

-----------------------------------------------------------------------------
(* The readers of the two formats.                                         *)

Unreadable == <<"unreadable">>

ReadJSONArray(s) ==
  LET n == (Len(s) - 1) \div 2 IN
    IF /\ Len(s) = 2 * n + 1 /\ n > 0
       /\ s[1] = Sign("openBracket") /\ s[Len(s)] = Sign("closingBracket")
       /\ \A i \in 1..n : s[2 * i].is = "part"
       /\ \A i \in 1..(n - 1) : s[2 * i + 1] = Sign("comma")
    THEN [i \in 1..n |-> s[2 * i].what] ELSE Unreadable

ReadLengthPrefixed(s) ==
  LET n == Len(s) \div 2 IN
    IF /\ Len(s) = 2 * n
       /\ \A i \in 1..n : s[2 * i - 1] = Uint32(s[2 * i].len) /\ s[2 * i].is = "part"
    THEN [i \in 1..n |-> s[2 * i].what] ELSE Unreadable
=============================================================================

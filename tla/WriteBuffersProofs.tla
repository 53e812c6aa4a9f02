------------------------- MODULE WriteBuffersProofs -------------------------
(***************************************************************************)
(* What TLAPS proves of WriteBuffers, for any connections, any calls on    *)
(* them and messages of any length.                                        *)
(***************************************************************************)
EXTENDS WriteBuffers, SequenceTheorems, TLAPS

Chunks == Calls \X Nat
Cells == [chunk : Seq(Chunks), header : Seq(Nat)]
Sizes == {0} \cup ChunkSizes
Headers == [fin : BOOLEAN, op : {0, 2}, n : Sizes, bytes : Seq(Nat)]
Frames == [meant : Headers, buf : Nat, header : Seq(Nat), load : Seq(Chunks)]
Writers == [closed : BOOLEAN, locked : BOOLEAN, used : {0, 1}, flushed : BOOLEAN,
            header : Headers]
Places == {"start", "write", "copy", "flush", "close", "nil", "err"}
Phases == {"none", "open", "flush", "flushed", "put", "done", "closed"}

(* The values of the variables.                                            *)
Typed ==
  /\ setting \in Settings
  /\ pc \in [Calls -> Places] /\ copied \in [Calls -> Nat]
  /\ phase \in [Conns -> Phases] /\ writer \in [Conns -> Writers]
  /\ buf \in [Conns -> Nat] /\ pool \subseteq Nat /\ made \in Nat
  /\ memory \in Seq(Cells) /\ Len(memory) = made
  /\ wire \in [Conns -> Seq(Frames)] /\ strayed \subseteq Nat

(* A connection has a buffer until CloseWithCode puts it back.             *)
Holds(c) == phase[c] # "none" /\ ~PutBack(c)

(* Whoever is made refers to a buffer that is made, and so does the pool;  *)
(* a buffer that a connection has is not in the pool and no other's.       *)
RefInv ==
  /\ pool \subseteq 1..made
  /\ \A c \in Conns :
       /\ phase[c] # "none" => buf[c] \in 1..made
       /\ Holds(c) => buf[c] \notin pool
       /\ phase[c] = "none" => writer[c] = ClosedWriter
  /\ \A c, d \in Conns : Holds(c) /\ Holds(d) /\ buf[c] = buf[d] => c = d
  /\ \A g \in Calls : pc[g] # "start" => phase[ConnOf[g]] # "none"

(* The chunk that a writer counts is in its buffer, and it is one of the   *)
(* connection's calls when the connection has the buffer.                  *)
ChunkInv ==
  \A c \in Conns : writer[c].used = 1 =>
    LET chunk == memory[buf[c]].chunk
    IN  /\ Len(chunk) = 1
        /\ Holds(c) /\ buf[c] \notin strayed => ConnOf[chunk[1][1]] = c

(* The last bytes of the place before the chunk.                           *)
Tail10(m, k) == SubSeq(m, Len(m) - k + 1, Len(m))

(* A header that a writer counts is the one of its length, and it is in    *)
(* the buffer that the connection has.                                     *)
HeaderInv ==
  /\ \A b \in 1..made : Len(memory[b].header) = 10
  /\ \A c \in Conns : writer[c].header # NoHeader =>
       LET h == writer[c].header
       IN  /\ h.bytes = Header(h.fin, h.op, h.n)
           /\ Holds(c) /\ buf[c] \notin strayed =>
                Tail10(memory[buf[c]].header, Len(h.bytes)) = h.bytes

(* What the two properties say of a frame.                                 *)
LoadIsOwn(c, f) == \A k \in DOMAIN f.load : ConnOf[f.load[k][1]] = c
HeaderIsMeant(f) ==
  LET h == Parsed(f.header)
  IN  f.meant # NoHeader =>
        /\ f.header = f.meant.bytes
        /\ [fin |-> h.fin, op |-> h.op, n |-> h.n]
             = [fin |-> f.meant.fin, op |-> f.meant.op, n |-> f.meant.n]
        /\ ~h.isMasked
        /\ Len(f.header) = IF h.n < 126 THEN 2 ELSE IF h.n < 65536 THEN 4 ELSE 10
Good(c, f) == LoadIsOwn(c, f) /\ HeaderIsMeant(f)

WireInv ==
  \A c \in Conns : \A i \in DOMAIN wire[c] : wire[c][i].buf \notin strayed => Good(c, wire[c][i])

WInv == Typed /\ RefInv /\ ChunkInv /\ HeaderInv /\ WireInv

-----------------------------------------------------------------------------
(* Headers.                                                                *)

(* A number of at most three bytes is given by its bytes.                  *)
LEMMA LastByte ==
  ASSUME NEW n \in Nat
  PROVE  n \div 256 \in Nat /\ n % 256 \in 0..255 /\ 256 * (n \div 256) + (n % 256) = n
  BY SMT

(* A length of at most 125 is one byte of the header.                      *)
LEMMA OneByte == \A n \in Nat : n < 256 => n % 256 = n
  BY SMT

(* A number below 2^16 is read back from its two bytes.                    *)
LEMMA TwoBytes ==
  ASSUME NEW n \in Nat, n < 65536
  PROVE  256 * ((n \div 256) % 256) + (n % 256) = n
<1>1. n \div 256 \in Nat /\ n \div 256 < 256
  BY LastByte, SMT
<1> QED  BY <1>1, LastByte, OneByte, SMT

(* A number below 2^24 is read back from its three lowest bytes.           *)
LEMMA ThreeBytes ==
  ASSUME NEW n \in Nat, n < 16777216
  PROVE  /\ n \div 16777216 = 0 /\ n \div 65536 \in Nat
         /\ 65536 * ((n \div 65536) % 256) + 256 * ((n \div 256) % 256) + (n % 256) = n
<1>1. n \div 16777216 = 0
  BY SMT
<1>2. n \div 65536 \in Nat /\ n \div 65536 < 256
  BY SMT
<1>3. n \div 65536 = (n \div 256) \div 256
  BY SMT
<1>4. (n \div 65536) % 256 = n \div 65536
  BY <1>2, OneByte, SMT
<1>5. 256 * (n \div 65536) + ((n \div 256) % 256) = n \div 256
  BY <1>3, LastByte, SMT
<1> QED  BY <1>1, <1>2, <1>4, <1>5, LastByte, SMT

(* A header is a sequence of bytes, of one of three lengths.               *)
LEMMA HeaderBytes ==
  ASSUME NEW fin \in BOOLEAN, NEW op \in {0, 2}, NEW n \in Sizes
  PROVE  /\ Header(fin, op, n) \in Seq(Nat)
         /\ Len(Header(fin, op, n)) = IF n < 126 THEN 2 ELSE IF n < 65536 THEN 4 ELSE 10
<1>1. (IF fin THEN 128 + op ELSE op) \in Nat
  BY SMT
<1>2. n \in Nat /\ n % 256 \in Nat /\ (n \div 256) % 256 \in Nat /\ (n \div 65536) % 256 \in Nat
      /\ (n \div 16777216) % 256 \in Nat
  <2>1. n \in Nat
    BY SMT DEF Sizes, ChunkSizes
  <2> QED  BY <2>1, SMT
<1> QED  BY <1>1, <1>2, SMT DEF Header, PutUint16, PutUint64

(* What Parsed makes of a header, field by field.                          *)
LEMMA ParsedFields ==
  ASSUME NEW b
  PROVE  /\ Parsed(b).op = b[1] % 16
         /\ Parsed(b).fin = (b[1] >= 128) /\ Parsed(b).isMasked = (b[2] >= 128)
         /\ b[2] % 128 = 127 => Parsed(b).n = Uint64(SubSeq(b, 3, 10))
         /\ b[2] % 128 = 126 => Parsed(b).n = Uint16(SubSeq(b, 3, 4))
         /\ b[2] % 128 # 127 /\ b[2] % 128 # 126 => Parsed(b).n = b[2] % 128
<1>1. Parsed(b).op = b[1] % 16
  BY DEF Parsed
<1>2. Parsed(b).fin = (b[1] >= 128) /\ Parsed(b).isMasked = (b[2] >= 128)
  BY DEF Parsed
<1>3. b[2] % 128 = 127 => Parsed(b).n = Uint64(SubSeq(b, 3, 10))
  BY DEF Parsed
<1>4. b[2] % 128 = 126 => Parsed(b).n = Uint16(SubSeq(b, 3, 4))
  BY DEF Parsed
<1>5. b[2] % 128 # 127 /\ b[2] % 128 # 126 => Parsed(b).n = b[2] % 128
  BY DEF Parsed
<1> QED  BY <1>1, <1>2, <1>3, <1>4, <1>5

(* What Parsed makes of a header is what writeHeaders meant.               *)
LEMMA ParsedHeader ==
  ASSUME NEW fin \in BOOLEAN, NEW op \in {0, 2}, NEW n \in Sizes
  PROVE  LET h == Parsed(Header(fin, op, n))
         IN  h.fin = fin /\ h.op = op /\ h.n = n /\ ~h.isMasked
<1> DEFINE first == IF fin THEN 128 + op ELSE op
<1>1. n \in Nat /\ n < 16777216
  BY SMT DEF Sizes, ChunkSizes
<1>2. first \in Nat /\ (first >= 128 <=> fin) /\ first % 16 = op
  BY SMT
<1>3. Header(fin, op, n) \in Seq(Nat)
  BY HeaderBytes
<1>4. CASE n < 126
  <2> DEFINE b == Header(fin, op, n)
  <2>1. Len(b) = 2 /\ b[1] = first /\ b[2] = n
    BY <1>1, <1>2, <1>4, SMT DEF Header
  <2>2. n % 128 = n /\ ~(n >= 128) /\ n # 127 /\ n # 126
    BY <1>1, <1>4, SMT
  <2> HIDE DEF first, b
  <2>3. (b[1] >= 128) = fin /\ ~(b[2] >= 128)
    BY <1>2, <2>1, <2>2, SMT
  <2>4. Parsed(b).n = n /\ Parsed(b).op = op
    BY <1>2, <2>1, <2>2, ParsedFields, SMT
  <2>5. Parsed(b).fin = fin /\ ~Parsed(b).isMasked
    BY <2>3, ParsedFields, Zenon
  <2> QED  BY <2>4, <2>5 DEF b
<1>5. CASE 126 <= n /\ n < 65536
  <2> DEFINE hi == (n \div 256) % 256   lo == n % 256   b == Header(fin, op, n)
  <2>1. 256 * hi + lo = n /\ hi \in Nat /\ lo \in Nat
    BY <1>1, <1>5, TwoBytes, LastByte, SMT
  <2>2. Len(b) = 4 /\ b[1] = first /\ b[2] = 126 /\ b[3] = hi /\ b[4] = lo
    BY <1>1, <1>2, <1>5, <2>1, SMT DEF Header, PutUint16
  <2>3. 126 % 128 = 126
    BY SMT
  <2> HIDE DEF first, hi, lo, b
  <2>4. SubSeq(b, 3, 4)[1] = hi /\ SubSeq(b, 3, 4)[2] = lo
    BY <1>3, <2>2, SMT DEF b
  <2>5. Uint16(SubSeq(b, 3, 4)) = n
    BY <2>1, <2>4, SMT DEF Uint16
  <2>6. (b[1] >= 128) = fin /\ ~(b[2] >= 128)
    BY <1>2, <2>2, SMT
  <2>7. Parsed(b).n = n /\ Parsed(b).op = op
    BY <1>2, <2>2, <2>3, <2>5, ParsedFields, SMT
  <2>8. Parsed(b).fin = fin /\ ~Parsed(b).isMasked
    BY <2>6, ParsedFields, Zenon
  <2> QED  BY <2>7, <2>8 DEF b
<1>6. CASE 65536 <= n
  <2> DEFINE b6 == (n \div 65536) % 256   b7 == (n \div 256) % 256   b8 == n % 256
             b5 == (n \div 16777216) % 256   b == Header(fin, op, n)
  <2>1. b5 = 0
    BY <1>1, ThreeBytes, SMT
  <2>2. 65536 * b6 + 256 * b7 + b8 = n /\ b6 \in Nat /\ b7 \in Nat /\ b8 \in Nat
    BY <1>1, ThreeBytes, LastByte, SMT
  <2>3. Len(b) = 10 /\ b[1] = first /\ b[2] = 127
    BY <1>1, <1>2, <1>6, <2>2, SMT DEF Header, PutUint64
  <2>4. /\ b[3] = 0 /\ b[4] = 0 /\ b[5] = 0 /\ b[6] = 0 /\ b[7] = b5
        /\ b[8] = b6 /\ b[9] = b7 /\ b[10] = b8
    BY <1>1, <1>2, <1>6, <2>2, SMT DEF Header, PutUint64
  <2>5. 127 % 128 = 127
    BY SMT
  <2> HIDE DEF first, b5, b6, b7, b8, b
  <2> DEFINE c == SubSeq(b, 3, 10)
  <2>6. /\ c[1] = b[3] /\ c[2] = b[4] /\ c[3] = b[5] /\ c[4] = b[6] /\ c[5] = b[7]
        /\ c[6] = b[8] /\ c[7] = b[9] /\ c[8] = b[10]
    BY <1>3, <2>3, SMT DEF b
  <2>7. Uint64(c) = n
    <3>1. ~ \E i \in 1..5 : c[i] > 0
      BY <2>1, <2>4, <2>6, SMT
    <3>2. c[6] = b6 /\ c[7] = b7 /\ c[8] = b8
      BY <2>4, <2>6, SMT
    <3> HIDE DEF c
    <3> QED  BY <2>2, <3>1, <3>2, SMT DEF Uint64
  <2>8. (b[1] >= 128) = fin /\ ~(b[2] >= 128)
    BY <1>2, <2>3, SMT
  <2>9. Parsed(b).n = n /\ Parsed(b).op = op
    BY <1>2, <2>3, <2>5, <2>7, ParsedFields, SMT
  <2>10. Parsed(b).fin = fin /\ ~Parsed(b).isMasked
    BY <2>8, ParsedFields, Zenon
  <2> QED  BY <2>9, <2>10 DEF b
<1> QED  BY <1>1, <1>4, <1>5, <1>6, SMT

-----------------------------------------------------------------------------
(* The parts of a step.                                                    *)

(* An element appended to a sequence.                                      *)
LEMMA Appended ==
  ASSUME NEW S, NEW s \in Seq(S), NEW x \in S
  PROVE  /\ Append(s, x) \in Seq(S) /\ Len(Append(s, x)) = Len(s) + 1
         /\ \A i \in DOMAIN Append(s, x) :
              Append(s, x)[i] = x \/ (i \in DOMAIN s /\ Append(s, x)[i] = s[i])
  OBVIOUS

(* The buffers, when no connection is made: CloseWithCode may put one into *)
(* the pool, and has it no more.                                           *)
LEMMA KeepsRefs ==
  ASSUME RefInv, Typed, UNCHANGED <<setting, buf, made>>,
         pool' = pool \/ \E c \in Conns : Holds(c) /\ ~Holds(c)' /\ pool' = pool \cup {buf[c]},
         \A d \in Conns : /\ phase'[d] # "none" <=> phase[d] # "none"
                          /\ Holds(d)' => Holds(d)
                          /\ phase[d] = "none" => writer'[d] = writer[d],
         \A g \in Calls : pc'[g] # "start" => phase'[ConnOf[g]] # "none"
  PROVE  RefInv'
<1>1. pool' \subseteq 1..made /\ \A c \in Conns : Holds(c)' => buf[c] \notin pool'
  <2>1. CASE pool' = pool
    BY <2>1 DEF RefInv
  <2>2. ASSUME NEW c \in Conns, Holds(c), ~Holds(c)', pool' = pool \cup {buf[c]}
        PROVE  pool' \subseteq 1..made /\ \A d \in Conns : Holds(d)' => buf[d] \notin pool'
    <3>1. buf[c] \in 1..made
      BY <2>2 DEF RefInv, Holds
    <3>2. \A d \in Conns : Holds(d)' => Holds(d) /\ d # c
      BY <2>2
    <3> QED  BY <2>2, <3>1, <3>2 DEF RefInv
  <2> QED  BY <2>1, <2>2
<1> QED  BY <1>1 DEF RefInv

(* The memory, when nobody writes to it.                                   *)
LEMMA KeepsMemory ==
  ASSUME ChunkInv, HeaderInv, Typed, UNCHANGED <<buf, made, memory>>, strayed \subseteq strayed',
         \A d \in Conns :
           /\ Holds(d)' => Holds(d)
           /\ writer'[d].used = 1 => writer[d].used = 1
           /\ writer'[d].header # NoHeader => writer'[d].header = writer[d].header
  PROVE  ChunkInv' /\ HeaderInv'
<1>1. ChunkInv'
  BY DEF ChunkInv
<1>2. HeaderInv'
  BY Zenon DEF HeaderInv
<1> QED  BY <1>1, <1>2

(* The wire's invariant is the two properties.                             *)
LEMMA WireIsGood == WireInv <=> OwnBytesOnly /\ HeaderIsRead
<1>1. OwnBytesOnly <=>
        \A c \in Conns : \A i \in DOMAIN wire[c] :
          wire[c][i].buf \notin strayed => LoadIsOwn(c, wire[c][i])
  BY DEF OwnBytesOnly, LoadIsOwn
<1>2. HeaderIsRead <=>
        \A c \in Conns : \A i \in DOMAIN wire[c] :
          wire[c][i].buf \notin strayed => HeaderIsMeant(wire[c][i])
  BY SMT DEF HeaderIsRead, HeaderIsMeant
<1> QED  BY <1>1, <1>2 DEF WireInv, Good

(* The wire, when nobody writes to it.                                     *)
LEMMA KeepsWire ==
  ASSUME WireInv, UNCHANGED wire, strayed \subseteq strayed'
  PROVE  WireInv'
  BY DEF WireInv

(* The frame of a connection that has its buffer, or has just used another.*)
LEMMA SendsOwn ==
  ASSUME WInv, NEW c \in Conns, phase[c] # "none", SendFrame(c), strayed \subseteq strayed',
         Holds(c) \/ buf[c] \in strayed'
  PROVE  wire' \in [Conns -> Seq(Frames)] /\ WireInv'
<1> DEFINE w == writer[c]   m == memory[buf[c]]   f == FrameOf(c)
           load == SubSeq(m.chunk, 1, w.used)
           header == Tail10(m.header, Len(w.header.bytes))
<1>1. buf[c] \in 1..made /\ made \in Nat /\ w \in Writers
  BY DEF WInv, Typed, RefInv
<1>2. m \in Cells
  BY <1>1, ElementOfSeq DEF WInv, Typed
<1>3. m.chunk \in Seq(Chunks) /\ m.header \in Seq(Nat)
  BY <1>2 DEF Cells
<1>4. Len(m.header) = 10
  BY <1>1 DEF WInv, HeaderInv
<1>5. w.used \in {0, 1} /\ w.header \in Headers
  BY <1>1 DEF Writers
<1>6. /\ w.header.bytes \in Seq(Nat) /\ w.header.n \in Sizes
      /\ w.header.fin \in BOOLEAN /\ w.header.op \in {0, 2}
  BY <1>5 DEF Headers
<1>7. w.header # NoHeader => w.header.bytes = Header(w.header.fin, w.header.op, w.header.n)
  BY SMT DEF WInv, HeaderInv
<1>8. Len(w.header.bytes) \in 0..10
  <2>1. CASE w.header = NoHeader
    BY <2>1 DEF NoHeader
  <2>2. CASE w.header # NoHeader
    BY <1>6, <1>7, <2>2, HeaderBytes, SMT
  <2> QED  BY <2>1, <2>2
<1>9. w.used = 1 => Len(m.chunk) = 1
  BY DEF WInv, ChunkInv
<1>10. f = [meant |-> w.header, buf |-> buf[c], header |-> header, load |-> load]
  BY DEF FrameOf, Tail10
<1> HIDE DEF m, w
<1>11. header \in Seq(Nat)
  <2> DEFINE k == Len(w.header.bytes)
  <2>1. k \in 0..10
    BY <1>8
  <2>2. header = SubSeq(m.header, 10 - k + 1, 10)
    BY <1>4 DEF Tail10
  <2> HIDE DEF k
  <2>3. 10 - k + 1 = 11 - k /\ 11 - k \in Int /\ 11 - k >= 1
    BY <2>1
  <2>4. \A i \in (11 - k)..10 : m.header[i] \in Nat
    <3> SUFFICES ASSUME NEW i \in (11 - k)..10 PROVE m.header[i] \in Nat
      OBVIOUS
    <3>1. i \in 1..10
      BY <2>1, <2>3
    <3> QED  BY <1>3, <1>4, <3>1, ElementOfSeq
  <2> QED  BY <2>2, <2>4, <2>3, SubSeqProperties
<1>12. /\ load \in Seq(Chunks)
       /\ w.used = 0 => Len(load) = 0
       /\ w.used = 1 => Len(load) = 1 /\ load[1] = m.chunk[1]
  BY <1>3, <1>5, <1>9
<1> HIDE DEF header, load
<1>13. f \in Frames
  BY <1>1, <1>5, <1>10, <1>11, <1>12 DEF Frames
<1>14. f.buf = buf[c] /\ f.meant = w.header /\ f.header = header /\ f.load = load
  BY <1>10
<1>15. /\ wire' = [wire EXCEPT ![c] = Append(@, f)]
       /\ wire \in [Conns -> Seq(Frames)]
  BY DEF SendFrame, WInv, Typed
<1> HIDE DEF f
<1>16. wire' \in [Conns -> Seq(Frames)]
  BY <1>13, <1>15, Appended
<1>17. \A d \in Conns : \A i \in DOMAIN wire'[d] :
         \/ d = c /\ wire'[d][i] = f
         \/ i \in DOMAIN wire[d] /\ wire'[d][i] = wire[d][i]
  <2>1. wire'[c] = Append(wire[c], f) /\ \A d \in Conns : d # c => wire'[d] = wire[d]
    BY <1>15
  <2>2. \A i \in DOMAIN wire'[c] :
          wire'[c][i] = f \/ (i \in DOMAIN wire[c] /\ wire'[c][i] = wire[c][i])
    BY <1>13, <1>15, <2>1, Appended
  <2> QED  BY <2>1, <2>2
<1>18. ASSUME f.buf \notin strayed' PROVE Good(c, f)
  <2>1. Holds(c) /\ buf[c] \notin strayed
    BY <1>14, <1>18
  <2>2. LoadIsOwn(c, f)
    <3> SUFFICES ASSUME NEW k \in DOMAIN f.load PROVE ConnOf[f.load[k][1]] = c
      BY DEF LoadIsOwn
    <3>1. w.used = 1 /\ k = 1 /\ f.load[1] = m.chunk[1]
      BY <1>5, <1>12, <1>14
    <3> QED  BY <2>1, <3>1 DEF WInv, ChunkInv, w, m
  <2>3. HeaderIsMeant(f)
    <3> SUFFICES ASSUME w.header # NoHeader PROVE HeaderIsMeant(f)
      BY <1>14, SMT DEF HeaderIsMeant
    <3>1. header = Header(w.header.fin, w.header.op, w.header.n) /\ header = w.header.bytes
      BY <1>7, <2>1, SMT DEF WInv, HeaderInv, w, m, header
    <3> DEFINE h == Parsed(header)
    <3>2. h.fin = w.header.fin /\ h.op = w.header.op /\ h.n = w.header.n /\ ~h.isMasked
      <4> DEFINE fin == w.header.fin   op == w.header.op   n == w.header.n
      <4>1. fin \in BOOLEAN /\ op \in {0, 2} /\ n \in Sizes
        BY <1>6
      <4> HIDE DEF fin, op, n
      <4>2. LET p == Parsed(Header(fin, op, n))
            IN  p.fin = fin /\ p.op = op /\ p.n = n /\ ~p.isMasked
        BY <4>1, ParsedHeader
      <4> QED  BY <3>1, <4>2, Zenon DEF fin, op, n
    <3>3. Len(header) = IF h.n < 126 THEN 2 ELSE IF h.n < 65536 THEN 4 ELSE 10
      <4> DEFINE fin == w.header.fin   op == w.header.op   n == w.header.n
      <4>1. fin \in BOOLEAN /\ op \in {0, 2} /\ n \in Sizes
        BY <1>6
      <4> HIDE DEF fin, op, n
      <4>2. Len(Header(fin, op, n)) = IF n < 126 THEN 2 ELSE IF n < 65536 THEN 4 ELSE 10
        BY <4>1, HeaderBytes, SMT
      <4>3. header = Header(fin, op, n) /\ h.n = n
        BY <3>1, <3>2, Zenon DEF fin, op, n
      <4> HIDE DEF h
      <4> QED  BY <4>2, <4>3, SMT
    <3> HIDE DEF h
    <3>4. [fin |-> h.fin, op |-> h.op, n |-> h.n]
             = [fin |-> w.header.fin, op |-> w.header.op, n |-> w.header.n]
      BY <3>2
    <3> QED  BY <1>14, <3>1, <3>2, <3>3, <3>4, SMT DEF HeaderIsMeant, h
  <2> QED  BY <2>2, <2>3 DEF Good
<1>19. WireInv
  BY DEF WInv
<1>20. WireInv'
  BY <1>17, <1>18, <1>19 DEF WireInv
<1> QED  BY <1>16, <1>20

(* A header goes to the end of its place.                                  *)
LEMMA PutAtEnd ==
  ASSUME NEW m \in Seq(Nat), Len(m) = 10, NEW bytes \in Seq(Nat), Len(bytes) \in 0..10
  PROVE  LET p == SubSeq(m, 1, Len(m) - Len(bytes)) \o bytes
         IN  p \in Seq(Nat) /\ Len(p) = 10 /\ Tail10(p, Len(bytes)) = bytes
<1> DEFINE k == Len(bytes)   q == SubSeq(m, 1, 10 - k)   p == q \o bytes
<1>1. k \in Nat /\ k <= 10
  <2>1. k \in 0..10
    OBVIOUS
  <2> HIDE DEF k
  <2> QED  BY <2>1
<1>2. q \in Seq(Nat) /\ Len(q) = 10 - k
  <2> HIDE DEF k
  <2>1. \A i \in 1..(10 - k) : m[i] \in Nat
    <3> SUFFICES ASSUME NEW i \in 1..(10 - k) PROVE m[i] \in Nat
      OBVIOUS
    <3>1. i \in 1..10
      BY <1>1
    <3> QED  BY <3>1, ElementOfSeq
  <2>2. 1 \in Int /\ 10 - k \in Int /\ (10 - k < 1 => 10 - k = 0)
    BY <1>1
  <2> QED  BY <1>1, <2>1, <2>2, SubSeqProperties
<1> HIDE DEF q
<1>3. /\ p \in Seq(Nat) /\ Len(p) = 10
      /\ \A i \in 1..10 : p[i] = IF i <= 10 - k THEN q[i] ELSE bytes[i - (10 - k)]
  <2>1. p \in Seq(Nat) /\ Len(p) = (10 - k) + k
    BY <1>2, ConcatProperties
  <2>2. (10 - k) + k = 10
    BY <1>1
  <2>3. \A i \in 1..((10 - k) + k) : p[i] = IF i <= 10 - k THEN q[i] ELSE bytes[i - (10 - k)]
    <3>1. \A i \in 1..(Len(q) + k) : p[i] = IF i <= Len(q) THEN q[i] ELSE bytes[i - Len(q)]
      BY <1>2, ConcatProperties
    <3> QED  BY <1>2, <3>1, Zenon
  <2> QED  BY <2>1, <2>2, <2>3
<1> HIDE DEF p
<1>4. Tail10(p, k) = SubSeq(p, 11 - k, 10)
  <2> HIDE DEF k
  <2>1. 10 - k + 1 = 11 - k
    BY <1>1
  <2> QED  BY <1>3, <2>1 DEF Tail10
<1>5. /\ SubSeq(p, 11 - k, 10) \in Seq(Nat) /\ Len(SubSeq(p, 11 - k, 10)) = k
      /\ \A i \in 1..k : SubSeq(p, 11 - k, 10)[i] = bytes[i]
  <2> HIDE DEF k
  <2>1. \A i \in (11 - k)..10 : p[i] \in Nat
    <3> SUFFICES ASSUME NEW i \in (11 - k)..10 PROVE p[i] \in Nat
      OBVIOUS
    <3>1. i \in 1..10
      BY <1>1
    <3> QED  BY <1>3, <3>1, ElementOfSeq
  <2>2. 11 - k \in Int /\ 10 \in Int /\ (11 - k <= 10 => 10 - (11 - k) + 1 = k)
        /\ (~(11 - k <= 10) => k = 0) /\ 10 - (11 - k) + 1 = k
    BY <1>1
  <2>3. /\ SubSeq(p, 11 - k, 10) \in Seq(Nat) /\ Len(SubSeq(p, 11 - k, 10)) = k
        /\ \A i \in 1..k : SubSeq(p, 11 - k, 10)[i] = p[(11 - k) + i - 1]
    BY <2>1, <2>2, SubSeqProperties
  <2>4. ASSUME NEW i \in 1..k PROVE p[(11 - k) + i - 1] = bytes[i]
    <3>1. (11 - k) + i - 1 \in 1..10 /\ ~((11 - k) + i - 1 <= 10 - k)
          /\ ((11 - k) + i - 1) - (10 - k) = i
      BY <1>1
    <3> QED  BY <1>3, <3>1
  <2> QED  BY <2>3, <2>4
<1>6. SubSeq(p, 11 - k, 10) = bytes
  BY <1>5, SeqEqual
<1>7. SubSeq(m, 1, Len(m) - Len(bytes)) \o bytes = p
  BY DEF p, q
<1> QED  BY <1>3, <1>4, <1>6, <1>7

(* A cell written by a connection that has its buffer, or that strays.     *)
LEMMA WritesCell ==
  ASSUME WInv, NEW c \in Conns, phase[c] # "none", UNCHANGED <<buf, made>>,
         NEW cell \in Cells, memory' = [memory EXCEPT ![buf[c]] = cell], Len(cell.header) = 10,
         Len(cell.chunk) = 1 \/ cell.chunk = memory[buf[c]].chunk,
         strayed \subseteq strayed', Holds(c) \/ buf[c] \in strayed',
         \A d \in Conns : Holds(d)' => Holds(d),
         \A d \in Conns \ {c} : writer'[d] = writer[d],
         writer'[c].used = 1 =>
           /\ Len(cell.chunk) = 1
           /\ Holds(c)' /\ buf[c] \notin strayed' => ConnOf[cell.chunk[1][1]] = c,
         writer'[c].header # NoHeader =>
           LET h == writer'[c].header
           IN  /\ h.bytes = Header(h.fin, h.op, h.n)
               /\ Holds(c)' /\ buf[c] \notin strayed' => Tail10(cell.header, Len(h.bytes)) = h.bytes
  PROVE  memory' \in Seq(Cells) /\ Len(memory') = made /\ ChunkInv' /\ HeaderInv'
<1>1. /\ buf[c] \in 1..made /\ made \in Nat /\ memory \in Seq(Cells) /\ Len(memory) = made
  BY DEF WInv, Typed, RefInv
<1>2. /\ memory' \in Seq(Cells) /\ Len(memory') = made
      /\ \A b \in 1..made : memory'[b] = IF b = buf[c] THEN cell ELSE memory[b]
  BY <1>1, ExceptSeq
<1>3. \A d \in Conns : writer[d] # ClosedWriter => phase[d] # "none"
  BY DEF WInv, RefInv
<1>4. \A d \in Conns \ {c} : Holds(d)' /\ buf[d] \notin strayed' =>
        Holds(d) /\ buf[d] # buf[c] /\ buf[d] \notin strayed /\ buf[d] \in 1..made
  BY DEF WInv, RefInv, Holds
<1>5. ChunkInv'
  <2> SUFFICES ASSUME NEW d \in Conns, writer'[d].used = 1
               PROVE  /\ Len(memory'[buf[d]].chunk) = 1
                      /\ Holds(d)' /\ buf[d] \notin strayed' =>
                           ConnOf[memory'[buf[d]].chunk[1][1]] = d
    BY DEF ChunkInv
  <2>1. CASE d = c
    BY <1>1, <1>2, <2>1
  <2>2. CASE d # c
    <3>1. writer'[d] = writer[d] /\ writer[d].used = 1 /\ buf[d] \in 1..made
      BY <1>3, <2>2 DEF ClosedWriter, WInv, RefInv
    <3>2. Len(memory[buf[d]].chunk) = 1
          /\ (Holds(d) /\ buf[d] \notin strayed => ConnOf[memory[buf[d]].chunk[1][1]] = d)
      BY <3>1 DEF WInv, ChunkInv
    <3> QED  BY <1>2, <1>4, <2>2, <3>1, <3>2
  <2> QED  BY <2>1, <2>2
<1>6. HeaderInv'
  <2>1. \A b \in 1..made : Len(memory'[b].header) = 10
    BY <1>2, SMT DEF WInv, HeaderInv
  <2>2. ASSUME NEW d \in Conns, writer'[d].header # NoHeader
        PROVE  LET h == writer'[d].header
               IN  /\ h.bytes = Header(h.fin, h.op, h.n)
                   /\ Holds(d)' /\ buf[d] \notin strayed' =>
                        Tail10(memory'[buf[d]].header, Len(h.bytes)) = h.bytes
    <3>1. CASE d = c
      BY <1>1, <1>2, <2>2, <3>1, SMT
    <3>2. CASE d # c
      BY <1>2, <1>4, <2>2, <3>2, SMT DEF WInv, HeaderInv
    <3> QED  BY <3>1, <3>2
  <2> QED  BY <2>1, <2>2, SMT DEF HeaderInv
<1> QED  BY <1>2, <1>5, <1>6

-----------------------------------------------------------------------------
(* Every step keeps the invariant.                                         *)

(* A closed writer and the absent header have their types.                 *)
LEMMA EmptyWriter == ClosedWriter \in Writers /\ NoHeader \in Headers
<1>1. NoHeader \in Headers
  <2>1. 0 \in Sizes /\ <<>> \in Seq(Nat)
    BY SMT DEF Sizes
  <2> QED  BY <2>1 DEF NoHeader, Headers
<1> QED  BY <1>1 DEF ClosedWriter, Writers

(* WInv holds at the start.                                                *)
LEMMA InitWInv == WriteInit => WInv
<1> SUFFICES ASSUME WriteInit PROVE WInv
  OBVIOUS
<1> USE DEF WriteInit
<1>1. Typed
  <2>1. \A c \in Conns : writer[c] \in Writers
    BY EmptyWriter
  <2> QED  BY <2>1 DEF Typed, Places, Phases
<1>2. RefInv
  BY DEF RefInv, Holds
<1>3. ChunkInv
  BY DEF ChunkInv, ClosedWriter
<1>4. HeaderInv
  <2>1. \A c \in Conns : writer[c].header = NoHeader
    BY DEF ClosedWriter
  <2> QED  BY <2>1, SMT DEF HeaderInv
<1>5. WireInv
  BY DEF WireInv
<1> QED  BY <1>1, <1>2, <1>3, <1>4, <1>5 DEF WInv

(* A new connection: its buffer is new, or was in the pool, and is no      *)
(* other's.                                                                *)
LEMMA ReferInv ==
  ASSUME WInv, NEW c \in Conns, NewBuffer(c) \/ Get(c)
  PROVE  WInv'
<1>1. PICK b \in Nat :
        /\ Refer(c, b)
        /\ \/ b = made + 1 /\ NewBuffer(c)
           \/ b \in pool /\ pool' = pool \ {b} /\ UNCHANGED <<made, memory>>
  BY DEF NewBuffer, Get, WInv, Typed
<1>2. /\ phase[c] = "none" /\ phase' = [phase EXCEPT ![c] = "open"]
      /\ buf' = [buf EXCEPT ![c] = b]
      /\ UNCHANGED <<setting, pc, copied, writer, wire, strayed>>
  BY <1>1 DEF Refer
<1>3. /\ pool' \subseteq pool /\ b \notin pool'
      /\ made' \in Nat /\ made <= made' /\ b \in 1..made'
      /\ memory' \in Seq(Cells) /\ Len(memory') = made'
      /\ \A i \in 1..made : memory'[i] = memory[i]
      /\ \A i \in 1..made' : i \in 1..made \/ Len(memory'[i].header) = 10
  <2>1. CASE NewBuffer(c) /\ b = made + 1
    <3> DEFINE new == [chunk |-> <<>>, header |-> [i \in 1..10 |-> 0]]
    <3>1. made' = made + 1 /\ memory' = Append(memory, new) /\ UNCHANGED pool
      BY <2>1 DEF NewBuffer
    <3>2. new \in Cells /\ Len(new.header) = 10
      <4>1. [i \in 1..10 |-> 0] \in Seq(Nat) /\ Len([i \in 1..10 |-> 0]) = 10
        OBVIOUS
      <4> QED  BY <4>1 DEF Cells
    <3> HIDE DEF new
    <3>3. memory \in Seq(Cells) /\ Len(memory) = made /\ made \in Nat /\ pool \subseteq 1..made
      BY DEF WInv, Typed, RefInv
    <3> QED  BY <2>1, <3>1, <3>2, <3>3
  <2>2. CASE b \in pool /\ pool' = pool \ {b} /\ UNCHANGED <<made, memory>>
    BY <2>2 DEF WInv, Typed, RefInv
  <2> QED  BY <1>1, <2>1, <2>2
<1>4. \A d \in Conns : phase[d] # "none" => d # c /\ buf'[d] = buf[d] /\ buf[d] \in 1..made
  BY <1>2 DEF WInv, Typed, RefInv
<1>5. \A d \in Conns \ {c} : (Holds(d)' <=> Holds(d)) /\ (phase'[d] # "none" <=> phase[d] # "none")
  BY <1>2 DEF Holds, PutBack, WInv, Typed
<1>6. \A d \in Conns \ {c} : Holds(d) => buf[d] # b
  <2>1. CASE b = made + 1
    BY <1>4, <2>1 DEF Holds, WInv, Typed
  <2>2. CASE b \in pool
    BY <2>2 DEF WInv, RefInv
  <2> QED  BY <1>1, <2>1, <2>2
<1>7. Typed'
  BY <1>2, <1>3 DEF WInv, Typed, Phases
<1>8. RefInv'
  <2>1. pool' \subseteq 1..made'
    BY <1>3 DEF WInv, RefInv, Typed
  <2>2. \A d \in Conns : /\ phase'[d] # "none" => buf'[d] \in 1..made'
                         /\ Holds(d)' => buf'[d] \notin pool'
                         /\ phase'[d] = "none" => writer'[d] = ClosedWriter
    BY <1>2, <1>3, <1>4, <1>5 DEF WInv, RefInv, Typed, Holds
  <2>3. \A d, e \in Conns : Holds(d)' /\ Holds(e)' /\ buf'[d] = buf'[e] => d = e
    BY <1>2, <1>4, <1>5, <1>6 DEF WInv, RefInv, Typed, Holds
  <2>4. \A g \in Calls : pc'[g] # "start" => phase'[ConnOf[g]] # "none"
    BY <1>2, WriteBuffersAssumption DEF WriteBuffersAssumption, WInv, RefInv, Typed
  <2> QED  BY <2>1, <2>2, <2>3, <2>4 DEF RefInv
<1>9. writer[c] = ClosedWriter
  BY <1>2 DEF WInv, RefInv
<1>10. \A d \in Conns : writer[d] # ClosedWriter => d # c /\ buf'[d] = buf[d] /\ buf[d] \in 1..made
  BY <1>4, <1>9 DEF WInv, RefInv
<1>11. ChunkInv'
  BY <1>2, <1>3, <1>5, <1>10 DEF WInv, ChunkInv, ClosedWriter
<1>12. HeaderInv'
  <2>1. \A i \in 1..made' : Len(memory'[i].header) = 10
    BY <1>3, SMT DEF WInv, HeaderInv
  <2>2. \A d \in Conns : writer[d].header # NoHeader => writer[d] # ClosedWriter
    BY DEF ClosedWriter
  <2> QED  BY <1>2, <1>3, <1>5, <1>10, <2>1, <2>2, SMT DEF WInv, HeaderInv
<1>13. WireInv'
  BY <1>2 DEF WInv, WireInv
<1> QED  BY <1>7, <1>8, <1>11, <1>12, <1>13 DEF WInv

(* A step that writes neither to a buffer nor to the wire, and at most     *)
(* takes the writer's chunk and header away.                               *)
LEMMA Quietly ==
  ASSUME WInv, UNCHANGED <<setting, copied, buf, made, memory, wire, strayed>>,
         pc' \in [Calls -> Places], phase' \in [Conns -> Phases],
         pool' = pool \/ \E c \in Conns : Holds(c) /\ ~Holds(c)' /\ pool' = pool \cup {buf[c]},
         NEW c \in Conns, phase[c] # "none",
         \/ UNCHANGED writer
         \/ \E w \in Writers : /\ Set(c, w)
                               /\ w.used = 1 => writer[c].used = 1
                               /\ w.header = writer[c].header \/ w.header = NoHeader,
         \A d \in Conns : /\ phase'[d] # "none" <=> phase[d] # "none"
                          /\ Holds(d)' => Holds(d),
         \A g \in Calls : pc'[g] # "start" => phase'[ConnOf[g]] # "none"
  PROVE  WInv'
<1>1. /\ writer' \in [Conns -> Writers]
      /\ \A d \in Conns :
           /\ writer'[d].used = 1 => writer[d].used = 1
           /\ writer'[d].header # NoHeader => writer'[d].header = writer[d].header
           /\ phase[d] = "none" => writer'[d] = writer[d]
  BY DEF WInv, Typed, Set
<1>2. pool' \subseteq Nat
  BY DEF WInv, Typed
<1>3. Typed'
  BY <1>1, <1>2 DEF WInv, Typed
<1>4. RefInv'
  BY <1>1, KeepsRefs DEF WInv
<1>5. ChunkInv' /\ HeaderInv'
  BY <1>1, KeepsMemory DEF WInv
<1>6. WireInv'
  BY KeepsWire DEF WInv
<1> QED  BY <1>3, <1>4, <1>5, <1>6 DEF WInv

(* What a call leaves alone, and where it is.                              *)
LEMMA CallTypes ==
  ASSUME WInv, NEW g \in Calls, SendMessage(g, ConnOf[g])
  PROVE  /\ UNCHANGED <<setting, phase, buf, pool, made>> /\ ConnOf[g] \in Conns
         /\ phase[ConnOf[g]] # "none" /\ pc' \in [Calls -> Places]
         /\ \A d \in Conns : Holds(d)' <=> Holds(d)
         /\ \A h \in Calls : pc'[h] # "start" => phase'[ConnOf[h]] # "none"
<1> DEFINE c == ConnOf[g]
<1>1. c \in Conns
  BY WriteBuffersAssumption DEF WriteBuffersAssumption
<1> HIDE DEF c
<1>2. UNCHANGED <<setting, phase, buf, pool, made>>
  BY DEF SendMessage, NextWriter, Write, Copy, FlushFull, Close, Flush, Fails, Call, buffers
<1>3. phase[c] # "none"
  BY DEF SendMessage, NextWriter, Write, Copy, FlushFull, Close, Flush, WInv, RefInv, c
<1>4. PICK l \in Places : pc' = [pc EXCEPT ![g] = l] \/ UNCHANGED pc
  BY DEF SendMessage, NextWriter, Write, Copy, FlushFull, Close, Flush, Fails, Goto, Places
<1>5. pc' \in [Calls -> Places]
  BY <1>4 DEF WInv, Typed
<1>6. \A d \in Conns : Holds(d)' <=> Holds(d)
  BY <1>2 DEF Holds, PutBack
<1>7. \A h \in Calls : pc'[h] # "start" => phase'[ConnOf[h]] # "none"
  BY <1>2, <1>3, <1>4 DEF WInv, Typed, RefInv, c
<1> QED  BY <1>1, <1>2, <1>3, <1>5, <1>6, <1>7 DEF c

(* NextWriter, the beginning of Write, and what fails or finds the writer  *)
(* closed.                                                                 *)
LEMMA CallQuietly ==
  ASSUME WInv, NEW g \in Calls, SendMessage(g, ConnOf[g]),
         UNCHANGED <<copied, memory, wire, strayed>>,
         \/ UNCHANGED writer
         \/ \E w \in Writers : /\ Set(ConnOf[g], w)
                               /\ w.used = 1 => writer[ConnOf[g]].used = 1
                               /\ w.header = writer[ConnOf[g]].header \/ w.header = NoHeader
  PROVE  WInv'
  BY CallTypes, Quietly DEF WInv, Typed

(* The writers that NextWriter and Close leave.                            *)
LEMMA WritersLeft ==
  ASSUME WInv, NEW c \in Conns
  PROVE  /\ [ClosedWriter EXCEPT !.closed = FALSE, !.locked = TRUE] \in Writers
         /\ [ClosedWriter EXCEPT !.closed = FALSE, !.locked = TRUE].used = 0
         /\ [ClosedWriter EXCEPT !.closed = FALSE, !.locked = TRUE].header = NoHeader
         /\ Released(writer[c]) \in Writers
         /\ Released(writer[c]).used = writer[c].used
         /\ Released(writer[c]).header = writer[c].header
         /\ Flushed(writer[c]) \in Writers /\ Released(Flushed(writer[c])) \in Writers
         /\ Flushed(writer[c]).used = 0 /\ Released(Flushed(writer[c])).used = 0
         /\ Flushed(writer[c]).header = NoHeader
         /\ Released(Flushed(writer[c])).header = NoHeader
<1>1. writer[c] \in Writers
  BY DEF WInv, Typed
<1>2. NoHeader \in Headers
  BY EmptyWriter
<1> HIDE DEF NoHeader
<1>3. /\ [ClosedWriter EXCEPT !.closed = FALSE, !.locked = TRUE] \in Writers
      /\ [ClosedWriter EXCEPT !.closed = FALSE, !.locked = TRUE].used = 0
      /\ [ClosedWriter EXCEPT !.closed = FALSE, !.locked = TRUE].header = NoHeader
  BY <1>2 DEF ClosedWriter, Writers
<1>4. /\ Released(writer[c]) \in Writers
      /\ Released(writer[c]).used = writer[c].used
      /\ Released(writer[c]).header = writer[c].header
  BY <1>1 DEF Released, Writers
<1>5. /\ Flushed(writer[c]) \in Writers /\ Flushed(writer[c]).used = 0
      /\ Flushed(writer[c]).header = NoHeader
  BY <1>1, <1>2 DEF Flushed, Writers
<1>6. /\ Released(Flushed(writer[c])) \in Writers /\ Released(Flushed(writer[c])).used = 0
      /\ Released(Flushed(writer[c])).header = NoHeader
  BY <1>5 DEF Released, Writers
<1> QED  BY <1>3, <1>4, <1>5, <1>6

(* A call that uses the buffer of its connection has it, or strays.        *)
LEMMA UsesIt ==
  ASSUME WInv, NEW c \in Conns, phase[c] # "none", Uses(c)
  PROVE  strayed \subseteq strayed' /\ strayed' \subseteq Nat /\ (Holds(c) \/ buf[c] \in strayed')
  BY DEF Uses, Holds, WInv, Typed

(* The cell that a connection refers to.                                   *)
LEMMA CellOf ==
  ASSUME WInv, NEW c \in Conns, phase[c] # "none"
  PROVE  /\ buf[c] \in 1..made /\ made \in Nat /\ Len(memory) = made /\ memory \in Seq(Cells)
         /\ memory[buf[c]] \in Cells /\ Len(memory[buf[c]].header) = 10
         /\ memory[buf[c]].chunk \in Seq(Chunks) /\ memory[buf[c]].header \in Seq(Nat)
<1>1. buf[c] \in 1..made /\ made \in Nat /\ Len(memory) = made /\ memory \in Seq(Cells)
  BY DEF WInv, Typed, RefInv
<1>2. memory[buf[c]] \in Cells
  BY <1>1, ElementOfSeq
<1>3. Len(memory[buf[c]].header) = 10
  BY <1>1, SMT DEF WInv, HeaderInv
<1> QED  BY <1>1, <1>2, <1>3 DEF Cells

(* A cell with another chunk or header.                                    *)
LEMMA CellExcept ==
  ASSUME NEW m \in Cells, NEW x
  PROVE  /\ [m EXCEPT !.chunk = x] = [chunk |-> x, header |-> m.header]
         /\ [m EXCEPT !.header = x] = [chunk |-> m.chunk, header |-> x]
  BY DEF Cells

(* Copy: the chunk is the call's.                                          *)
LEMMA CopyInv ==
  ASSUME WInv, NEW g \in Calls, SendMessage(g, ConnOf[g]), Copy(g, ConnOf[g])
  PROVE  WInv'
<1> DEFINE c == ConnOf[g]
           cell == [chunk |-> << <<g, copied[g] + 1>> >>, header |-> memory[buf[c]].header]
           w == [writer[c] EXCEPT !.used = 1]
<1>1. /\ UNCHANGED <<setting, phase, buf, pool, made>> /\ c \in Conns
      /\ phase[c] # "none" /\ pc' \in [Calls -> Places]
      /\ \A d \in Conns : Holds(d)' <=> Holds(d)
      /\ \A h \in Calls : pc'[h] # "start" => phase'[ConnOf[h]] # "none"
  BY CallTypes
<1> HIDE DEF c
<1>2. /\ copied' = [copied EXCEPT ![g] = @ + 1]
      /\ memory' = [memory EXCEPT ![buf[c]].chunk = << <<g, copied[g] + 1>> >>]
      /\ writer' = [writer EXCEPT ![c] = w]
      /\ Uses(c) /\ UNCHANGED <<pc, wire>>
  BY DEF Copy, Set, c
<1>3. /\ strayed \subseteq strayed' /\ strayed' \subseteq Nat
      /\ Holds(c) \/ buf[c] \in strayed'
  BY <1>1, <1>2, UsesIt
<1>4. memory[buf[c]] \in Cells /\ Len(memory[buf[c]].header) = 10
      /\ memory[buf[c]].header \in Seq(Nat) /\ memory \in Seq(Cells)
  BY <1>1, CellOf
<1>5. copied[g] + 1 \in Nat /\ copied' \in [Calls -> Nat]
  BY <1>2 DEF WInv, Typed
<1>6. /\ cell \in Cells /\ cell.chunk[1][1] = g /\ Len(cell.chunk) = 1
      /\ cell.header = memory[buf[c]].header
  BY <1>4, <1>5 DEF Cells, Chunks
<1>7. memory' = [memory EXCEPT ![buf[c]] = cell]
  <2>1. [memory[buf[c]] EXCEPT !.chunk = << <<g, copied[g] + 1>> >>] = cell
    BY <1>4, CellExcept
  <2>2. memory' = [memory EXCEPT ![buf[c]] =
                     [memory[buf[c]] EXCEPT !.chunk = << <<g, copied[g] + 1>> >>]]
    BY <1>2
  <2> QED  BY <2>1, <2>2, Zenon
<1>8. w \in Writers /\ w.header = writer[c].header /\ writer' \in [Conns -> Writers]
      /\ writer'[c] = w /\ \A d \in Conns \ {c} : writer'[d] = writer[d]
  BY <1>1, <1>2 DEF WInv, Typed, Writers
<1> HIDE DEF cell, w
<1>9. writer[c].header # NoHeader =>
         LET h == writer[c].header
         IN  /\ h.bytes = Header(h.fin, h.op, h.n)
             /\ Holds(c) /\ buf[c] \notin strayed =>
                  Tail10(memory[buf[c]].header, Len(h.bytes)) = h.bytes
  BY <1>1, Zenon DEF WInv, HeaderInv
<1>10. writer'[c].header # NoHeader =>
         LET h == writer'[c].header
         IN  /\ h.bytes = Header(h.fin, h.op, h.n)
             /\ Holds(c)' /\ buf[c] \notin strayed' => Tail10(cell.header, Len(h.bytes)) = h.bytes
  BY <1>1, <1>3, <1>6, <1>8, <1>9
<1>11. memory' \in Seq(Cells) /\ Len(memory') = made /\ ChunkInv' /\ HeaderInv'
  <2>1. ConnOf[cell.chunk[1][1]] = c
    BY <1>6 DEF c
  <2>2. UNCHANGED <<buf, made>> /\ (\A d \in Conns : Holds(d)' => Holds(d))
        /\ Len(cell.header) = 10
    BY <1>1, <1>4, <1>6
  <2> QED  BY <1>1, <1>3, <1>6, <1>7, <1>8, <1>10, <2>1, <2>2, WritesCell
<1>12. Typed'
  BY <1>1, <1>2, <1>3, <1>5, <1>8, <1>11 DEF WInv, Typed
<1>13. RefInv'
  BY <1>1, <1>8, KeepsRefs DEF WInv
<1>14. WireInv'
  BY <1>2, <1>3, KeepsWire DEF WInv
<1> QED  BY <1>11, <1>12, <1>13, <1>14 DEF WInv

(* writeHeaders: the header is the one of the chunk's length, and where    *)
(* the frame's first bytes are read from.                                  *)
LEMMA WritesHeaders ==
  ASSUME WInv, NEW c \in Conns, phase[c] # "none", NEW fin \in BOOLEAN, WriteHeaders(c, fin),
         UNCHANGED <<buf, made>>, strayed \subseteq strayed', Holds(c) \/ buf[c] \in strayed',
         \A d \in Conns : Holds(d)' => Holds(d)
  PROVE  /\ writer' \in [Conns -> Writers] /\ \A d \in Conns \ {c} : writer'[d] = writer[d]
         /\ memory' \in Seq(Cells) /\ Len(memory') = made /\ ChunkInv' /\ HeaderInv'
<1> DEFINE w == writer[c]
           op == IF w.flushed THEN 0 ELSE 2
           n  == w.used * setting.size
           bytes == Header(fin, op, n)
           header == [fin |-> fin, op |-> op, n |-> n, bytes |-> bytes]
           m == memory[buf[c]]
           place == SubSeq(m.header, 1, Len(m.header) - Len(bytes)) \o bytes
           cell == [chunk |-> m.chunk, header |-> place]
<1>1. /\ writer' = [writer EXCEPT ![c] = [w EXCEPT !.header = header]]
      /\ memory' = [memory EXCEPT ![buf[c]].header = place]
  <2>1. memory[buf[c]].header = m.header
    OBVIOUS
  <2> QED  BY CellOf DEF WriteHeaders, Set
<1>2. /\ memory \in Seq(Cells) /\ buf[c] \in 1..made /\ Len(memory) = made
      /\ m \in Cells /\ Len(m.header) = 10 /\ m.chunk \in Seq(Chunks) /\ m.header \in Seq(Nat)
  BY CellOf
<1>3. w \in Writers /\ writer \in [Conns -> Writers]
  BY DEF WInv, Typed
<1>4. op \in {0, 2}
  OBVIOUS
<1>5. n \in Sizes
  <2>1. setting.size \in ChunkSizes
    BY WriteBuffersAssumption DEF WriteBuffersAssumption, WInv, Typed
  <2>2. w.used \in {0, 1}
    BY <1>3 DEF Writers
  <2>3. setting.size \in Nat
    BY <2>1, SMT DEF ChunkSizes
  <2>4. n = 0 \/ n = setting.size
    BY <2>2, <2>3
  <2> QED  BY <2>1, <2>4 DEF Sizes
<1> HIDE DEF w, op, n, m
<1>6. bytes \in Seq(Nat) /\ Len(bytes) \in 0..10
  BY <1>4, <1>5, HeaderBytes, SMT
<1>7. header \in Headers /\ header.bytes = Header(header.fin, header.op, header.n)
      /\ header.bytes = bytes
  BY <1>4, <1>5, <1>6 DEF Headers
<1> HIDE DEF bytes
<1>8. place \in Seq(Nat) /\ Len(place) = 10 /\ Tail10(place, Len(bytes)) = bytes
  BY <1>2, <1>6, PutAtEnd
<1> HIDE DEF place, header
<1>9. /\ cell \in Cells /\ cell.header = place /\ cell.chunk = m.chunk
      /\ memory' = [memory EXCEPT ![buf[c]] = cell]
  <2>1. [m EXCEPT !.header = place] = cell
    BY <1>2, CellExcept
  <2>2. memory' = [memory EXCEPT ![buf[c]] = [m EXCEPT !.header = place]]
    BY <1>1 DEF m
  <2>3. memory' = [memory EXCEPT ![buf[c]] = cell]
    BY <2>1, <2>2, Zenon
  <2> QED  BY <1>2, <1>8, <2>3 DEF Cells
<1>10. /\ writer' \in [Conns -> Writers] /\ writer'[c].header = header
       /\ writer'[c].used = w.used /\ \A d \in Conns \ {c} : writer'[d] = writer[d]
  BY <1>1, <1>3, <1>7 DEF Writers
<1> HIDE DEF cell
<1>11. w.used = 1 => Len(m.chunk) = 1 /\ (Holds(c) /\ buf[c] \notin strayed => ConnOf[m.chunk[1][1]] = c)
  BY DEF WInv, ChunkInv, w, m
<1>12. writer'[c].used = 1 =>
         /\ Len(cell.chunk) = 1
         /\ Holds(c)' /\ buf[c] \notin strayed' => ConnOf[cell.chunk[1][1]] = c
  BY <1>9, <1>10, <1>11
<1>13. LET h == writer'[c].header
       IN  /\ h.bytes = Header(h.fin, h.op, h.n)
           /\ Holds(c)' /\ buf[c] \notin strayed' => Tail10(cell.header, Len(h.bytes)) = h.bytes
  BY <1>7, <1>8, <1>9, <1>10
<1>14. memory' \in Seq(Cells) /\ Len(memory') = made /\ ChunkInv' /\ HeaderInv'
  <2>1. Len(cell.header) = 10 /\ cell.chunk = memory[buf[c]].chunk
    BY <1>8, <1>9 DEF m
  <2> QED  BY <1>9, <1>10, <1>12, <1>13, <2>1, WritesCell
<1> QED  BY <1>10, <1>14

(* The header of a call's frame.                                           *)
LEMMA CallHeaders ==
  ASSUME WInv, NEW g \in Calls, SendMessage(g, ConnOf[g]), NEW fin \in BOOLEAN,
         WriteHeaders(ConnOf[g], fin), Uses(ConnOf[g]), UNCHANGED <<copied, wire>>
  PROVE  WInv'
<1> DEFINE c == ConnOf[g]
<1>1. /\ UNCHANGED <<setting, phase, buf, pool, made>> /\ c \in Conns
      /\ phase[c] # "none" /\ pc' \in [Calls -> Places]
      /\ \A d \in Conns : Holds(d)' <=> Holds(d)
      /\ \A h \in Calls : pc'[h] # "start" => phase'[ConnOf[h]] # "none"
  BY CallTypes
<1> HIDE DEF c
<1>2. /\ strayed \subseteq strayed' /\ strayed' \subseteq Nat
      /\ Holds(c) \/ buf[c] \in strayed'
  BY <1>1, UsesIt DEF c
<1>3. /\ writer' \in [Conns -> Writers] /\ \A d \in Conns \ {c} : writer'[d] = writer[d]
      /\ memory' \in Seq(Cells) /\ Len(memory') = made /\ ChunkInv' /\ HeaderInv'
  <2>1. WriteHeaders(c, fin) /\ UNCHANGED <<buf, made>> /\ \A d \in Conns : Holds(d)' => Holds(d)
    BY <1>1 DEF c
  <2> QED  BY <1>1, <1>2, <2>1, WritesHeaders
<1>4. Typed'
  BY <1>1, <1>2, <1>3 DEF WInv, Typed
<1>5. RefInv'
  BY <1>1, <1>3, KeepsRefs DEF WInv
<1>6. WireInv'
  BY <1>2, KeepsWire DEF WInv
<1> QED  BY <1>3, <1>4, <1>5, <1>6 DEF WInv

(* Flush: a frame leaves, or the connection is done.                       *)
LEMMA FlushInv ==
  ASSUME WInv, NEW g \in Calls, SendMessage(g, ConnOf[g]), Flush(g, ConnOf[g])
  PROVE  WInv'
<1> DEFINE c == ConnOf[g]
<1>1. /\ UNCHANGED <<setting, phase, buf, pool, made>> /\ c \in Conns
      /\ phase[c] # "none" /\ pc' \in [Calls -> Places]
      /\ \A d \in Conns : Holds(d)' <=> Holds(d)
      /\ \A h \in Calls : pc'[h] # "start" => phase'[ConnOf[h]] # "none"
  BY CallTypes
<1> HIDE DEF c
<1>2. CASE /\ SendFrame(c) /\ Uses(c) /\ UNCHANGED <<copied, memory>>
           /\ Set(c, IF pc[g] = "flush" THEN Flushed(writer[c]) ELSE Released(Flushed(writer[c])))
  <2>1. /\ strayed \subseteq strayed' /\ strayed' \subseteq Nat
        /\ Holds(c) \/ buf[c] \in strayed'
    BY <1>1, <1>2, UsesIt
  <2>2. wire' \in [Conns -> Seq(Frames)] /\ WireInv'
    BY <1>1, <1>2, <2>1, SendsOwn
  <2>3. \E w \in Writers : writer' = [writer EXCEPT ![c] = w] /\ w.used = 0 /\ w.header = NoHeader
    BY <1>1, <1>2, WritersLeft DEF Set
  <2>4. /\ writer' \in [Conns -> Writers] /\ \A d \in Conns \ {c} : writer'[d] = writer[d]
        /\ writer'[c].used = 0 /\ writer'[c].header = NoHeader
    BY <1>1, <2>3 DEF WInv, Typed
  <2>5. ChunkInv' /\ HeaderInv'
    <3>1. \A d \in Conns :
            /\ Holds(d)' => Holds(d)
            /\ writer'[d].used = 1 => writer[d].used = 1
            /\ writer'[d].header # NoHeader => writer'[d].header = writer[d].header
      BY <1>1, <2>4
    <3> QED  BY <1>1, <1>2, <2>1, <3>1, KeepsMemory DEF WInv
  <2>6. Typed'
    BY <1>1, <1>2, <2>1, <2>2, <2>4 DEF WInv, Typed
  <2>7. RefInv'
    BY <1>1, <2>4, KeepsRefs DEF WInv
  <2> QED  BY <2>2, <2>5, <2>6, <2>7 DEF WInv
<1>3. CASE /\ UNCHANGED <<copied, memory, wire, strayed>>
           /\ UNCHANGED writer \/ Set(c, Released(writer[c]))
  BY <1>1, <1>3, WritersLeft, CallQuietly DEF c
<1> QED  BY <1>2, <1>3, Zenon DEF Flush, c

(* A step of a call.                                                       *)
LEMMA CallInv ==
  ASSUME WInv, NEW g \in Calls, SendMessage(g, ConnOf[g])
  PROVE  WInv'
<1> DEFINE c == ConnOf[g]
<1>1. c \in Conns
  BY CallTypes
<1>2. ASSUME Fails(g) PROVE WInv'
  BY <1>2, CallQuietly DEF Fails
<1>3. CASE NextWriter(g, c)
  <2>1. CASE Set(c, [ClosedWriter EXCEPT !.closed = FALSE, !.locked = TRUE])
             /\ UNCHANGED <<copied, memory, wire, strayed>>
    <3> DEFINE w == [ClosedWriter EXCEPT !.closed = FALSE, !.locked = TRUE]
    <3>1. w \in Writers /\ w.used = 0 /\ w.header = NoHeader
      BY <1>1, WritersLeft
    <3>2. Set(c, w)
      BY <2>1
    <3> HIDE DEF w
    <3> QED  BY <2>1, <3>1, <3>2, CallQuietly
  <2> QED  BY <1>2, <1>3, <2>1 DEF NextWriter
<1>4. CASE Write(g, c)
  <2>1. CASE UNCHANGED <<copied, writer, memory, wire, strayed>>
    BY <2>1, CallQuietly
  <2> QED  BY <1>2, <1>4, <2>1 DEF Write
<1>5. CASE Copy(g, c)
  BY <1>5, CopyInv
<1>6. CASE FlushFull(g, c)
  <2>1. CASE WriteHeaders(c, FALSE) /\ Uses(c) /\ UNCHANGED <<copied, wire>>
    BY <2>1, CallHeaders
  <2> QED  BY <1>2, <1>6, <2>1 DEF FlushFull
<1>7. CASE Close(g, c)
  <2>1. CASE WriteHeaders(c, TRUE) /\ Uses(c) /\ UNCHANGED <<copied, wire>>
    BY <2>1, CallHeaders
  <2>2. CASE /\ UNCHANGED writer \/ Set(c, Released(writer[c]))
             /\ UNCHANGED <<copied, memory, wire, strayed>>
    BY <1>1, <2>2, WritersLeft, CallQuietly
  <2> QED  BY <1>7, <2>1, <2>2 DEF Close
<1>8. CASE Flush(g, c)
  BY <1>8, FlushInv
<1> QED  BY <1>3, <1>4, <1>5, <1>6, <1>7, <1>8 DEF SendMessage

(* The phases of CloseWithCode: the buffer is put back once, and the frame *)
(* and its header are before that.                                         *)
LEMMA ClosePhases ==
  ASSUME WInv, NEW c \in Conns, CloseWithCode(c)
  PROVE  /\ phase[c] # "none" /\ phase' \in [Conns -> Phases]
         /\ UNCHANGED <<setting, pc, copied, buf, made, strayed>>
         /\ \A d \in Conns : /\ phase'[d] # "none" <=> phase[d] # "none"
                             /\ Holds(d)' => Holds(d)
         /\ \A g \in Calls : pc'[g] # "start" => phase'[ConnOf[g]] # "none"
         /\ CloseFlush(c) \/ CloseSend(c) => Holds(c)
<1>1. PICK from \in Phases, to \in Phases :
        /\ ClosePhase(c, from, to) /\ from # "none" /\ to # "none"
        /\ to \in {"flush", "flushed"} => from \in {"open", "flush"}
        /\ CloseFlush(c) \/ CloseSend(c) => from \in {"open", "flush"}
        /\ from \in {"put", "done", "closed"} => to \in {"put", "done", "closed"}
  <2>1. CASE CloseFlush(c)
    BY <2>1 DEF CloseFlush, ClosePhase, Phases
  <2>2. CASE CloseSend(c)
    BY <2>2 DEF CloseSend, ClosePhase, Phases
  <2>3. CASE Put(c)
    BY <2>3 DEF Put, ClosePhase, Phases, CloseFlush, CloseSend
  <2>4. CASE CloseDone(c)
    BY <2>4 DEF CloseDone, ClosePhase, Phases, CloseFlush, CloseSend
  <2> QED  BY <2>1, <2>2, <2>3, <2>4 DEF CloseWithCode
<1>2. UNCHANGED <<setting, pc, copied, buf, made, strayed>>
  BY DEF CloseWithCode, CloseFlush, CloseSend, Put, CloseDone, Closing
<1>3. phase[c] = from /\ phase' = [phase EXCEPT ![c] = to] /\ phase \in [Conns -> Phases]
  BY <1>1 DEF ClosePhase, WInv, Typed
<1>4. \A d \in Conns : /\ phase'[d] # "none" <=> phase[d] # "none"
                       /\ Holds(d)' => Holds(d)
  BY <1>1, <1>2, <1>3 DEF Holds, PutBack
<1>5. \A g \in Calls : pc'[g] # "start" => phase'[ConnOf[g]] # "none"
  BY <1>2, <1>4, WriteBuffersAssumption DEF WriteBuffersAssumption, WInv, RefInv
<1>6. CloseFlush(c) \/ CloseSend(c) => Holds(c)
  BY <1>1, <1>3 DEF Holds, PutBack
<1> QED  BY <1>1, <1>2, <1>3, <1>4, <1>5, <1>6

(* A step of CloseWithCode.                                                *)
LEMMA CloseInv ==
  ASSUME WInv, NEW c \in Conns, CloseWithCode(c)
  PROVE  WInv'
<1>1. /\ phase[c] # "none" /\ phase' \in [Conns -> Phases]
      /\ UNCHANGED <<setting, pc, copied, buf, made, strayed>>
      /\ \A d \in Conns : /\ phase'[d] # "none" <=> phase[d] # "none"
                          /\ Holds(d)' => Holds(d)
      /\ \A g \in Calls : pc'[g] # "start" => phase'[ConnOf[g]] # "none"
      /\ CloseFlush(c) \/ CloseSend(c) => Holds(c)
  BY ClosePhases
<1>2. pc' \in [Calls -> Places] /\ strayed \subseteq strayed'
  BY <1>1 DEF WInv, Typed
<1>3. CASE CloseFlush(c) /\ WriteHeaders(c, TRUE)
  <2>1. UNCHANGED <<pool, wire>>
    BY <1>3 DEF CloseFlush
  <2>2. /\ writer' \in [Conns -> Writers] /\ \A d \in Conns \ {c} : writer'[d] = writer[d]
        /\ memory' \in Seq(Cells) /\ Len(memory') = made /\ ChunkInv' /\ HeaderInv'
    BY <1>1, <1>2, <1>3, WritesHeaders
  <2>3. Typed'
    BY <1>1, <1>2, <2>1, <2>2 DEF WInv, Typed
  <2>4. RefInv'
    BY <1>1, <2>1, <2>2, KeepsRefs DEF WInv
  <2>5. WireInv'
    BY <1>2, <2>1, KeepsWire DEF WInv
  <2> QED  BY <2>2, <2>3, <2>4, <2>5 DEF WInv
<1>4. CASE /\ UNCHANGED <<pool, memory, wire>>
           /\ UNCHANGED writer \/ Set(c, Released(writer[c]))
  BY <1>1, <1>2, <1>4, WritersLeft, Quietly
<1>5. CASE CloseSend(c)
  <2>1. /\ UNCHANGED <<pool, memory>> /\ SendFrame(c)
        /\ writer' = [writer EXCEPT ![c] = Released(Flushed(writer[c]))]
    BY <1>5 DEF CloseSend, Set
  <2>2. wire' \in [Conns -> Seq(Frames)] /\ WireInv'
    BY <1>1, <1>2, <1>5, <2>1, SendsOwn
  <2>3. /\ writer' \in [Conns -> Writers] /\ \A d \in Conns \ {c} : writer'[d] = writer[d]
        /\ writer'[c].used = 0 /\ writer'[c].header = NoHeader
    BY <2>1, WritersLeft DEF WInv, Typed
  <2>4. ChunkInv' /\ HeaderInv'
    <3>1. \A d \in Conns :
            /\ writer'[d].used = 1 => writer[d].used = 1
            /\ writer'[d].header # NoHeader => writer'[d].header = writer[d].header
      BY <2>3
    <3> QED  BY <1>1, <1>2, <2>1, <3>1, KeepsMemory DEF WInv
  <2>5. Typed'
    BY <1>1, <1>2, <2>1, <2>2, <2>3 DEF WInv, Typed
  <2>6. RefInv'
    BY <1>1, <2>1, <2>3, KeepsRefs DEF WInv
  <2> QED  BY <2>2, <2>4, <2>5, <2>6 DEF WInv
<1>6. CASE Put(c)
  <2>1. /\ phase[c] = "flushed" /\ phase'[c] = "put" /\ UNCHANGED <<writer, memory, wire>>
        /\ pool' = IF setting.supply = "pool" THEN pool \cup {buf[c]} ELSE pool
    BY <1>6 DEF Put, ClosePhase, WInv, Typed
  <2>2. pool' = pool \/ (Holds(c) /\ ~Holds(c)' /\ pool' = pool \cup {buf[c]})
    BY <1>1, <2>1 DEF Holds, PutBack
  <2> QED  BY <1>1, <1>2, <2>1, <2>2, Quietly
<1> QED  BY <1>3, <1>4, <1>5, <1>6 DEF CloseWithCode, CloseFlush, CloseDone

(* The invariant is inductive.                                             *)
LEMMA NextWInv ==
  ASSUME WInv, [WriteNext]_<<vars, down>>
  PROVE  WInv'
<1>1. CASE UNCHANGED down
  <2>1. Typed'
    BY <1>1 DEF WInv, Typed, down, buffers
  <2>2. RefInv'
    BY <1>1 DEF WInv, RefInv, Holds, PutBack, down, buffers
  <2>3. ChunkInv'
    BY <1>1 DEF WInv, ChunkInv, Holds, PutBack, down, buffers
  <2>4. HeaderInv'
    BY <1>1, Zenon DEF WInv, HeaderInv, Holds, PutBack, down, buffers
  <2>5. WireInv'
    BY <1>1 DEF WInv, WireInv, down
  <2> QED  BY <2>1, <2>2, <2>3, <2>4, <2>5 DEF WInv
<1>2. ASSUME NEW c \in Conns, CloseWithCode(c) PROVE WInv'
  BY <1>2, CloseInv
<1>3. ASSUME NEW c \in Conns, NewBuffer(c) \/ Get(c) PROVE WInv'
  BY <1>3, ReferInv
<1>4. ASSUME NEW g \in Calls, SendMessage(g, ConnOf[g]) PROVE WInv'
  BY <1>4, CallInv
<1> QED  BY <1>1, <1>2, <1>3, <1>4 DEF WriteNext

-----------------------------------------------------------------------------
(* Upstream: the frames of the client, and what acceptFrame makes of them. *)

(* The index of the key's byte is taken by words or one by one.            *)
LEMMA SameLane ==
  ASSUME NEW i \in Nat \ {0}, NEW n \in Nat
  PROVE  LET words == 8 * (n \div 8)
         IN  /\ ((i - 1) % 8) % 4 = (i - 1) % 4
             /\ i > words => (i - 1 - words) % 4 = (i - 1) % 4
<1>1. ((i - 1) % 8) % 4 = (i - 1) % 4
  BY SMT
<1>2. n \div 8 \in Nat
  BY SMT
<1>3. ASSUME NEW w \in Nat, i > 8 * w PROVE (i - 1 - 8 * w) % 4 = (i - 1) % 4
  BY <1>3, SMT
<1> QED  BY <1>1, <1>2, <1>3

(* Rests are added.                                                        *)
LEMMA Rests ==
  ASSUME NEW a \in Nat, NEW b \in Nat
  PROVE  ((a % 4) + b) % 4 = (a + b) % 4 /\ a % 4 \in 0..3
  BY SMT

(* Mask applies the byte of the key that is due.                           *)
LEMMA MaskedByte ==
  ASSUME NEW b \in Seq(Byte), NEW key \in Seq(Byte), Len(key) = 4, NEW pos \in 0..3
  PROVE  /\ DOMAIN Mask(b, key, pos) = 1..Len(b)
         /\ \A i \in 1..Len(b) : Mask(b, key, pos)[i] = Xor(b[i], key[((pos + (i - 1)) % 4) + 1])
<1>1. DOMAIN Mask(b, key, pos) = 1..Len(b)
  BY DEF Mask, MaskGo
<1> SUFFICES ASSUME NEW i \in 1..Len(b)
             PROVE  Mask(b, key, pos)[i] = Xor(b[i], key[((pos + (i - 1)) % 4) + 1])
  BY <1>1
<1> DEFINE words == 8 * (Len(b) \div 8)
           lane == IF i <= words THEN ((i - 1) % 8) % 4 ELSE (i - 1 - words) % 4
<1>2. i \in Nat \ {0} /\ i - 1 \in Nat /\ Len(b) \in Nat /\ words \in Nat
  BY SMT
<1>3. lane = (i - 1) % 4
  BY <1>2, SameLane
<1>4. Mask(b, key, pos)[i] = Xor(b[i], Rotated(key, pos)[lane + 1])
  BY DEF Mask, MaskGo
<1> HIDE DEF lane
<1>5. lane \in 0..3 /\ lane + 1 \in 1..4 /\ lane + 1 - 1 = lane
  BY <1>2, <1>3, SMT
<1>6. Rotated(key, pos)[lane + 1] = key[((lane + pos) % 4) + 1]
  <2>1. \A k \in 1..4 : Rotated(key, pos)[k] = key[((k - 1 + pos) % 4) + 1]
    BY DEF Rotated
  <2> QED  BY <1>5, <2>1
<1>7. (lane + pos) % 4 = (pos + (i - 1)) % 4
  BY <1>2, <1>3, SMT
<1> QED  BY <1>4, <1>6, <1>7

(* What the client may send.                                               *)
LEMMA InputTypes ==
  ASSUME NEW f \in Inputs
  PROVE  /\ f.load \in Seq(Byte) /\ f.key \in Seq(Byte) /\ Len(f.key) = 4 /\ Len(f.load) \in Nat
         /\ FitsForm(Len(f.load), f.form)
<1>1. f.load \in Seq(Byte) /\ f.key \in Seq(Byte) /\ Len(f.key) = 4 /\ FitsForm(Len(f.load), f.form)
  BY CodecAssumption, SMT DEF CodecAssumption
<1>2. Len(f.load) \in Nat
  BY <1>1, SMT
<1> QED  BY <1>1, <1>2

LEMMA InputForms ==
  ASSUME NEW f \in Inputs
  PROVE  f.form = 7 \/ f.form = 16 \/ f.form = 64
<1>1. FitsForm(Len(f.load), f.form)
  BY InputTypes
<1> QED  BY <1>1, SMT DEF FitsForm

(* The first byte of a frame.                                              *)
FirstByte(f) == IF f.fin THEN 128 + f.op ELSE f.op

LEMMA FirstOf ==
  ASSUME NEW f \in Inputs
  PROVE  FirstByte(f) \in Byte /\ FirstByte(f) % 16 = f.op
<1>1. f.op \in 0..15
  BY CodecAssumption, SMT DEF CodecAssumption
<1>2. FirstByte(f) = f.op \/ FirstByte(f) = 128 + f.op
  BY Zenon DEF FirstByte
<1> DEFINE op == f.op   first == FirstByte(f)
<1>3. op \in 0..15 /\ (first = op \/ first = 128 + op)
  BY <1>1, <1>2
<1> HIDE DEF op, first
<1>4. first \in 0..255 /\ first % 16 = op
  BY <1>3, SMT
<1> QED  BY <1>4 DEF op, first, Byte

(* One sequence after another, and what is left of one.                    *)
LEMMA Joined ==
  ASSUME NEW s \in Seq(Byte), NEW t \in Seq(Byte)
  PROVE  /\ s \o t \in Seq(Byte) /\ Len(s \o t) = Len(s) + Len(t)
         /\ \A i \in 1..Len(s) : (s \o t)[i] = s[i]
         /\ \A i \in 1..Len(t) : (s \o t)[Len(s) + i] = t[i]
<1>1. /\ s \o t \in Seq(Byte) /\ Len(s \o t) = Len(s) + Len(t) /\ Len(s) \in Nat /\ Len(t) \in Nat
      /\ \A i \in 1..(Len(s) + Len(t)) : (s \o t)[i] = IF i <= Len(s) THEN s[i] ELSE t[i - Len(s)]
  BY ConcatProperties, LenProperties
<1>2. ASSUME NEW i \in 1..Len(s) PROVE (s \o t)[i] = s[i]
  <2>1. i \in 1..(Len(s) + Len(t)) /\ i <= Len(s)
    BY <1>1
  <2> QED  BY <1>1, <2>1
<1>3. ASSUME NEW i \in 1..Len(t) PROVE (s \o t)[Len(s) + i] = t[i]
  <2>1. /\ Len(s) + i \in 1..(Len(s) + Len(t)) /\ ~(Len(s) + i <= Len(s))
        /\ (Len(s) + i) - Len(s) = i
    BY <1>1
  <2> QED  BY <1>1, <2>1
<1> QED  BY <1>1, <1>2, <1>3

LEMMA Dropped ==
  ASSUME NEW s \in Seq(Byte), NEW n \in Nat, n <= Len(s)
  PROVE  /\ Drop(s, n) \in Seq(Byte) /\ Len(Drop(s, n)) = Len(s) - n
         /\ \A i \in 1..(Len(s) - n) : Drop(s, n)[i] = s[n + i]
  BY DEF Drop

(* The header of a client's frame, before the key, in each of the forms.   *)
LEMMA ShortForm ==
  ASSUME NEW f \in Inputs, f.form = 7
  PROVE  /\ ClientHeader(f) \in Seq(Byte) /\ Len(ClientHeader(f)) = 2
         /\ ClientHeader(f)[1] = FirstByte(f)
         /\ ClientHeader(f)[2] = 128 + Len(f.load) /\ Len(f.load) < 126
<1> DEFINE n == Len(f.load)   first == FirstByte(f)
<1>1. first \in Byte /\ n \in Nat
  BY FirstOf, InputTypes
<1>2. n < 126
  <2>1. FitsForm(n, 7)
    BY InputTypes
  <2> QED  BY <2>1, SMT DEF FitsForm
<1>3. ClientHeader(f) = <<first>> \o <<128 + n>>
  BY SMT DEF ClientHeader, FirstByte
<1> HIDE DEF n, first
<1>4. 128 + n \in Byte
  BY <1>1, <1>2, SMT DEF Byte
<1>5. /\ ClientHeader(f) \in Seq(Byte) /\ Len(ClientHeader(f)) = 2
      /\ ClientHeader(f)[1] = first /\ ClientHeader(f)[2] = 128 + n
  BY <1>1, <1>3, <1>4
<1> QED  BY <1>2, <1>5 DEF n, first

LEMMA MiddleForm ==
  ASSUME NEW f \in Inputs, f.form = 16
  PROVE  /\ ClientHeader(f) \in Seq(Byte) /\ Len(ClientHeader(f)) = 4
         /\ ClientHeader(f)[1] = FirstByte(f) /\ ClientHeader(f)[2] = 254
         /\ 256 * ClientHeader(f)[3] + ClientHeader(f)[4] = Len(f.load)
<1> DEFINE n == Len(f.load)   first == FirstByte(f)   hi == (n \div 256) % 256   lo == n % 256
<1>1. first \in Byte /\ n \in Nat
  BY FirstOf, InputTypes
<1>2. n < 65536
  <2>1. FitsForm(n, 16)
    BY InputTypes
  <2> QED  BY <2>1, SMT DEF FitsForm
<1>3. ClientHeader(f) = <<first>> \o (<<254>> \o <<hi, lo>>)
  BY SMT DEF ClientHeader, PutUint16, FirstByte
<1> HIDE DEF n, first
<1>4. hi \in 0..255 /\ lo \in 0..255 /\ 256 * hi + lo = n
  BY <1>1, <1>2, LastByte, TwoBytes, SMT
<1> HIDE DEF hi, lo
<1>5. hi \in Byte /\ lo \in Byte /\ 254 \in Byte
  BY <1>4 DEF Byte
<1>6. /\ ClientHeader(f) \in Seq(Byte) /\ Len(ClientHeader(f)) = 4
      /\ ClientHeader(f)[1] = first /\ ClientHeader(f)[2] = 254
      /\ ClientHeader(f)[3] = hi /\ ClientHeader(f)[4] = lo
  BY <1>1, <1>3, <1>5
<1> QED  BY <1>4, <1>6 DEF n, first

LEMMA LongForm ==
  ASSUME NEW f \in Inputs, f.form = 64
  PROVE  /\ ClientHeader(f) \in Seq(Byte) /\ Len(ClientHeader(f)) = 10
         /\ ClientHeader(f)[1] = FirstByte(f) /\ ClientHeader(f)[2] = 255
         /\ \A i \in 3..7 : ClientHeader(f)[i] = 0
         /\ 65536 * ClientHeader(f)[8] + 256 * ClientHeader(f)[9] + ClientHeader(f)[10] = Len(f.load)
<1> DEFINE n == Len(f.load)   first == FirstByte(f)   top == (n \div 16777216) % 256
           hi == (n \div 65536) % 256   mid == (n \div 256) % 256   lo == n % 256
<1>1. first \in Byte /\ n \in Nat
  BY FirstOf, InputTypes
<1>2. n < 16777216
  <2>1. FitsForm(n, 64)
    BY InputTypes
  <2> QED  BY <2>1, SMT DEF FitsForm
<1>3. ClientHeader(f) = <<first>> \o (<<255>> \o <<0, 0, 0, 0, top, hi, mid, lo>>)
  BY SMT DEF ClientHeader, PutUint64, FirstByte
<1> HIDE DEF n, first
<1>4. n \div 16777216 = 0 /\ n \div 65536 \in Nat /\ n \div 256 \in Nat /\ 65536 * hi + 256 * mid + lo = n
  BY <1>1, <1>2, LastByte, ThreeBytes, SMT
<1>5. top = 0 /\ hi \in 0..255 /\ mid \in 0..255 /\ lo \in 0..255
  BY <1>1, <1>4, LastByte, OneByte, SMT
<1> HIDE DEF top, hi, mid, lo
<1>6. hi \in Byte /\ mid \in Byte /\ lo \in Byte /\ 255 \in Byte /\ 0 \in Byte
  BY <1>5 DEF Byte
<1>7. ClientHeader(f) = <<first>> \o (<<255>> \o <<0, 0, 0, 0, 0, hi, mid, lo>>)
  BY <1>3, <1>5
<1>8. /\ ClientHeader(f) \in Seq(Byte) /\ Len(ClientHeader(f)) = 10
      /\ ClientHeader(f)[1] = first /\ ClientHeader(f)[2] = 255
      /\ ClientHeader(f)[3] = 0 /\ ClientHeader(f)[4] = 0 /\ ClientHeader(f)[5] = 0
      /\ ClientHeader(f)[6] = 0 /\ ClientHeader(f)[7] = 0 /\ ClientHeader(f)[8] = hi
      /\ ClientHeader(f)[9] = mid /\ ClientHeader(f)[10] = lo
  BY <1>1, <1>6, <1>7
<1>9. \A i \in 3..7 : ClientHeader(f)[i] = 0
  BY <1>8
<1>10. 65536 * ClientHeader(f)[8] + 256 * ClientHeader(f)[9] + ClientHeader(f)[10] = n
  <2>1. 65536 * hi + 256 * mid + lo = n
    BY <1>4, SMT
  <2> QED  BY <1>8, <2>1
<1> QED  BY <1>8, <1>9, <1>10 DEF n, first

LEMMA ClientHeaderBytes ==
  ASSUME NEW f \in Inputs
  PROVE  /\ ClientHeader(f) \in Seq(Byte) /\ Len(ClientHeader(f)) \in {2, 4, 10}
         /\ ClientHeader(f)[1] = FirstByte(f)
<1>1. CASE f.form = 7
  BY <1>1, ShortForm
<1>2. CASE f.form = 16
  BY <1>2, MiddleForm
<1>3. CASE f.form = 64
  BY <1>3, LongForm
<1> QED  BY <1>1, <1>2, <1>3, InputForms

(* A frame is its header, the key and the masked payload.                  *)
LEMMA ClientFrameBytes ==
  ASSUME NEW f \in Inputs
  PROVE  LET c == ClientFrame(f)
             h == Len(ClientHeader(f))
         IN  /\ c \in Seq(Byte) /\ h \in {2, 4, 10} /\ Len(c) = h + 4 + Len(f.load)
             /\ \A i \in 1..h : c[i] = ClientHeader(f)[i]
             /\ \A i \in 1..4 : c[h + i] = f.key[i]
             /\ \A i \in 1..Len(f.load) :
                  c[h + 4 + i] = Xor(f.load[i], f.key[((i - 1) % 4) + 1])
<1> DEFINE n == Len(f.load)   h == Len(ClientHeader(f))   c == ClientFrame(f)
           load == [i \in 1..n |-> Xor(f.load[i], f.key[((i - 1) % 4) + 1])]
           head == ClientHeader(f) \o f.key
<1>1. f.load \in Seq(Byte) /\ f.key \in Seq(Byte) /\ Len(f.key) = 4 /\ n \in Nat
  BY InputTypes
<1>2. ClientHeader(f) \in Seq(Byte) /\ h \in {2, 4, 10}
  BY ClientHeaderBytes
<1>3. \A i \in 1..n : Xor(f.load[i], f.key[((i - 1) % 4) + 1]) \in Byte
  <2> SUFFICES ASSUME NEW i \in 1..n PROVE Xor(f.load[i], f.key[((i - 1) % 4) + 1]) \in Byte
    OBVIOUS
  <2>1. ((i - 1) % 4) + 1 \in 1..4
    BY <1>1, SMT
  <2>2. f.load[i] \in Byte /\ f.key[((i - 1) % 4) + 1] \in Byte
    BY <1>1, <2>1
  <2>3. \A a, b \in Byte : Xor(a, b) \in Byte
    BY CodecAssumption, SMT DEF CodecAssumption
  <2> QED  BY <2>2, <2>3
<1>4. load \in [1..n -> Byte]
  BY <1>3
<1>5. c = head \o load
  BY DEF ClientFrame
<1>6. \A i \in 1..n : load[i] = Xor(f.load[i], f.key[((i - 1) % 4) + 1])
  OBVIOUS
<1> HIDE DEF load, n, c, h
<1>7. load \in Seq(Byte) /\ Len(load) = n
  BY <1>1, <1>4
<1>8. /\ head \in Seq(Byte) /\ Len(head) = h + 4
      /\ \A i \in 1..h : head[i] = ClientHeader(f)[i]
      /\ \A i \in 1..4 : head[h + i] = f.key[i]
  <2>1. /\ head \in Seq(Byte) /\ Len(head) = h + Len(f.key)
        /\ \A i \in 1..h : head[i] = ClientHeader(f)[i]
        /\ \A i \in 1..Len(f.key) : head[h + i] = f.key[i]
    BY <1>1, <1>2, Joined, Zenon DEF h
  <2> QED  BY <1>1, <2>1
<1> HIDE DEF head
<1>9. /\ c \in Seq(Byte) /\ Len(c) = h + 4 + n
      /\ \A i \in 1..(h + 4) : c[i] = head[i]
      /\ \A i \in 1..n : c[h + 4 + i] = load[i]
  <2>1. /\ c \in Seq(Byte) /\ Len(c) = Len(head) + Len(load)
        /\ \A i \in 1..Len(head) : c[i] = head[i]
        /\ \A i \in 1..Len(load) : c[Len(head) + i] = load[i]
    BY <1>5, <1>7, <1>8, Joined, Zenon
  <2> QED  BY <1>7, <1>8, <2>1
<1>10. \A i \in 1..h : c[i] = ClientHeader(f)[i]
  <2>1. \A i \in 1..h : i \in 1..(h + 4)
    BY <1>2
  <2> QED  BY <1>8, <1>9, <2>1
<1>11. \A i \in 1..4 : c[h + i] = f.key[i]
  <2>1. \A i \in 1..4 : h + i \in 1..(h + 4)
    BY <1>2
  <2> QED  BY <1>8, <1>9, <2>1
<1>12. \A i \in 1..n : c[h + 4 + i] = Xor(f.load[i], f.key[((i - 1) % 4) + 1])
  BY <1>6, <1>9
<1> QED  BY <1>2, <1>9, <1>10, <1>11, <1>12 DEF c, h, n

(* acceptFrame reads from a header what the client wrote.                  *)
LEMMA ParsedClient ==
  ASSUME NEW f \in Inputs, NEW s \in Seq(Byte), Len(ClientHeader(f)) <= Len(s),
         \A i \in 1..Len(ClientHeader(f)) : s[i] = ClientHeader(f)[i]
  PROVE  LET h == Parsed(s)
         IN  h.n = Len(f.load) /\ h.op = f.op /\ h.size = Len(ClientHeader(f))
<1> DEFINE n == Len(f.load)   h == Len(ClientHeader(f))
           more == IF s[2] % 128 = 127 THEN 8 ELSE IF s[2] % 128 = 126 THEN 2 ELSE 0
<1>1. n \in Nat
  BY InputTypes
<1>2. Parsed(s).size = 2 + more
  BY DEF Parsed
<1>3. Parsed(s).op = f.op
  <2>1. 1 \in 1..h
    BY ClientHeaderBytes
  <2>2. s[1] = FirstByte(f)
    BY <2>1, ClientHeaderBytes
  <2>3. s[1] % 16 = f.op
    BY <2>2, FirstOf
  <2> QED  BY <2>3, ParsedFields
<1>4. CASE f.form = 7
  <2>1. h = 2 /\ n < 126 /\ ClientHeader(f)[2] = 128 + n
    BY <1>4, ShortForm
  <2>2. s[2] = 128 + n
    BY <2>1
  <2> HIDE DEF n, h
  <2>3. s[2] % 128 = n /\ n # 126 /\ n # 127
    BY <1>1, <2>1, <2>2, SMT
  <2>4. Parsed(s).n = n /\ Parsed(s).size = 2
    BY <1>2, <2>3, ParsedFields
  <2> QED  BY <1>3, <2>1, <2>4 DEF n, h
<1>5. CASE f.form = 16
  <2> DEFINE b == SubSeq(s, 3, 4)
  <2>1. h = 4 /\ ClientHeader(f)[2] = 254 /\ 256 * ClientHeader(f)[3] + ClientHeader(f)[4] = n
    BY <1>5, MiddleForm
  <2>2. 4 <= Len(s) /\ s[2] = 254 /\ s[3] = ClientHeader(f)[3] /\ s[4] = ClientHeader(f)[4]
    BY <2>1
  <2>3. b[1] = s[3] /\ b[2] = s[4]
    BY <2>2
  <2> HIDE DEF n, h, b
  <2>4. Uint16(b) = n
    BY <2>1, <2>2, <2>3 DEF Uint16
  <2>5. s[2] % 128 = 126
    BY <2>2, SMT
  <2>6. Parsed(s).n = n /\ Parsed(s).size = 4
    BY <1>2, <2>4, <2>5, ParsedFields DEF b
  <2> QED  BY <1>3, <2>1, <2>6 DEF n, h
<1>6. CASE f.form = 64
  <2> DEFINE b == SubSeq(s, 3, 10)
  <2>1. /\ h = 10 /\ ClientHeader(f)[2] = 255 /\ \A i \in 3..7 : ClientHeader(f)[i] = 0
        /\ 65536 * ClientHeader(f)[8] + 256 * ClientHeader(f)[9] + ClientHeader(f)[10] = n
    BY <1>6, LongForm
  <2>2. 10 <= Len(s) /\ \A i \in 1..10 : s[i] = ClientHeader(f)[i]
    BY <2>1
  <2>3. /\ s[2] = 255 /\ s[3] = 0 /\ s[4] = 0 /\ s[5] = 0 /\ s[6] = 0 /\ s[7] = 0
        /\ 65536 * s[8] + 256 * s[9] + s[10] = n
    BY <2>1, <2>2
  <2>4. /\ b[1] = s[3] /\ b[2] = s[4] /\ b[3] = s[5] /\ b[4] = s[6] /\ b[5] = s[7]
        /\ b[6] = s[8] /\ b[7] = s[9] /\ b[8] = s[10]
    BY <2>2
  <2> HIDE DEF n, h, b
  <2>5. Uint64(b) = n
    <3>1. ~ \E i \in 1..5 : b[i] > 0
      BY <2>3, <2>4
    <3>2. 65536 * b[6] + 256 * b[7] + b[8] = n
      BY <2>3, <2>4
    <3> QED  BY <3>1, <3>2 DEF Uint64
  <2>6. s[2] % 128 = 127
    BY <2>3, SMT
  <2>7. Parsed(s).n = n /\ Parsed(s).size = 10
    BY <1>2, <2>5, <2>6, ParsedFields DEF b
  <2> QED  BY <1>3, <2>1, <2>7 DEF n, h
<1> QED  BY <1>4, <1>5, <1>6, InputForms, Zenon

-----------------------------------------------------------------------------
(* Upstream: where the reader is in what the client has sent.  Of the n    *)
(* frames q, s[i] and p[i] say where the i-th ends among all bytes sent    *)
(* and among the bytes of payload.                                         *)

Laid(n, q, s, p) ==
  /\ n \in Nat /\ q \in [1..n -> Inputs] /\ s \in [0..n -> Nat] /\ p \in [0..n -> Nat]
  /\ s[0] = 0 /\ p[0] = 0
  /\ \A i \in 1..n : s[i] = s[i - 1] + Len(ClientFrame(q[i])) /\ s[i] <= s[n]
  /\ \A i \in 1..n : p[i] = p[i - 1] + Len(q[i].load) /\ p[i] <= p[n]

(* Of those bytes, st is what comes after the first b.                     *)
Says(n, q, s, p, b, se, pl, st) ==
  /\ Len(se) = n /\ Len(pl) = p[n] /\ b \in Nat /\ b + Len(st) = s[n]
  /\ \A i \in 1..n : se[i] = q[i].op
  /\ \A i \in 1..n : \A j \in 1..Len(q[i].load) : pl[p[i - 1] + j] = q[i].load[j]
  /\ \A i \in 1..n : \A j \in 1..Len(ClientFrame(q[i])) :
       s[i - 1] + j > b => st[(s[i - 1] + j) - b] = ClientFrame(q[i])[j]

(* The reader is in the k-th frame, or between two.                        *)
IsAt(n, q, s, p, b, k, g, r) ==
  /\ k \in 0..n /\ s[k] = b + r.remaining /\ p[k] = g + r.remaining
  /\ r.remaining > 0 =>
       /\ k > 0 /\ r.remaining <= Len(q[k].load)
       /\ r.maskKey = q[k].key /\ r.maskPos = (Len(q[k].load) - r.remaining) % 4

Begins(a, b) == Len(a) <= Len(b) /\ \A i \in 1..Len(a) : a[i] = b[i]

UTyped ==
  /\ sent \in Seq(Nat) /\ opcodes \in Seq(Nat)
  /\ plain \in Seq(Byte) /\ got \in Seq(Byte) /\ stream \in Seq(Byte)
  /\ reader \in [fin : BOOLEAN, remaining : Nat, maskKey : Seq(Byte), maskPos : Nat]

Placed == \E n, q, s, p, b : /\ Laid(n, q, s, p) /\ Says(n, q, s, p, b, sent, plain, stream)
                             /\ IsAt(n, q, s, p, b, Len(opcodes), Len(got), reader)

UInv == UTyped /\ Begins(got, plain) /\ Begins(opcodes, sent) /\ Placed

(* One frame more.                                                         *)
Longer(n, q, s, p, f, q2, s2, p2) ==
  /\ \A i \in 1..n : q2[i] = q[i]
  /\ \A i \in 0..n : s2[i] = s[i]
  /\ \A i \in 0..n : p2[i] = p[i]
  /\ q2[n + 1] = f
  /\ s2[n + 1] = s[n] + Len(ClientFrame(f)) /\ p2[n + 1] = p[n] + Len(f.load)

LEMMA LaidLonger ==
  ASSUME NEW n, NEW q, NEW s, NEW p, Laid(n, q, s, p), NEW f \in Inputs
  PROVE  \E q2, s2, p2 : Laid(n + 1, q2, s2, p2) /\ Longer(n, q, s, p, f, q2, s2, p2)
<1> DEFINE size == Len(ClientFrame(f))   more == Len(f.load)
           q2 == [i \in 1..(n + 1) |-> IF i = n + 1 THEN f ELSE q[i]]
           s2 == [i \in 0..(n + 1) |-> IF i = n + 1 THEN s[n] + size ELSE s[i]]
           p2 == [i \in 0..(n + 1) |-> IF i = n + 1 THEN p[n] + more ELSE p[i]]
<1>1. size \in Nat /\ more \in Nat
  <2>1. ClientFrame(f) \in Seq(Byte)
    BY ClientFrameBytes
  <2> QED  BY <2>1, InputTypes
<1>2. /\ n \in Nat /\ q \in [1..n -> Inputs] /\ s \in [0..n -> Nat] /\ p \in [0..n -> Nat]
      /\ s[0] = 0 /\ p[0] = 0 /\ s[n] \in Nat /\ p[n] \in Nat
  BY DEF Laid
<1> HIDE DEF size, more
<1>3. /\ q2 \in [1..(n + 1) -> Inputs] /\ s2 \in [0..(n + 1) -> Nat] /\ p2 \in [0..(n + 1) -> Nat]
  BY <1>1, <1>2
<1>4. /\ \A i \in 1..n : q2[i] = q[i]
      /\ \A i \in 0..n : s2[i] = s[i]
      /\ \A i \in 0..n : p2[i] = p[i]
      /\ q2[n + 1] = f /\ s2[n + 1] = s[n] + size /\ p2[n + 1] = p[n] + more
  BY <1>2
<1> HIDE DEF q2, s2, p2
<1>5. Longer(n, q, s, p, f, q2, s2, p2)
  BY <1>4 DEF Longer, size, more
<1>6. s2[0] = 0 /\ p2[0] = 0
  BY <1>2, <1>4
<1>7. ASSUME NEW i \in 1..(n + 1)
      PROVE  /\ s2[i] = s2[i - 1] + Len(ClientFrame(q2[i])) /\ s2[i] <= s2[n + 1]
             /\ p2[i] = p2[i - 1] + Len(q2[i].load) /\ p2[i] <= p2[n + 1]
  <2>1. CASE i = n + 1
    <3>1. i - 1 = n /\ n \in 0..n
      BY <1>2, <2>1
    <3>2. s2[i - 1] = s[n] /\ p2[i - 1] = p[n] /\ q2[i] = f
      BY <1>4, <2>1, <3>1
    <3> QED  BY <1>1, <1>2, <1>4, <2>1, <3>2 DEF size, more
  <2>2. CASE i # n + 1
    <3>1. i \in 1..n /\ i \in 0..n /\ i - 1 \in 0..n
      BY <1>2, <2>2
    <3>2. /\ s[i] = s[i - 1] + Len(ClientFrame(q[i])) /\ s[i] <= s[n]
          /\ p[i] = p[i - 1] + Len(q[i].load) /\ p[i] <= p[n]
      BY <3>1 DEF Laid
    <3>3. s2[i] = s[i] /\ s2[i - 1] = s[i - 1] /\ p2[i] = p[i] /\ p2[i - 1] = p[i - 1] /\ q2[i] = q[i]
      BY <1>4, <3>1
    <3>4. s[i] \in Nat /\ p[i] \in Nat
      BY <1>2, <3>1
    <3>5. s[i] <= s[n] + size /\ p[i] <= p[n] + more
      BY <1>1, <1>2, <3>2, <3>4
    <3> QED  BY <1>4, <3>2, <3>3, <3>5
  <2> QED  BY <2>1, <2>2
<1>8. Laid(n + 1, q2, s2, p2)
  BY <1>2, <1>3, <1>6, <1>7 DEF Laid
<1> QED  BY <1>5, <1>8

(* What is in a part is in the whole.                                      *)
LEMMA Within ==
  ASSUME NEW a \in Nat, NEW l \in Nat, NEW m \in Nat, NEW e, e = a + l, e <= m, NEW j \in 1..l
  PROVE  a + j \in 1..m
  OBVIOUS

LEMMA Beyond ==
  ASSUME NEW b \in Nat, NEW l \in Nat, NEW m, b + l = m, NEW x \in 1..m, x > b
  PROVE  x - b \in 1..l
  OBVIOUS

(* What the client sends is put after the rest.                            *)
LEMMA SaysMore ==
  ASSUME NEW n, NEW q, NEW s, NEW p, Laid(n, q, s, p), NEW f \in Inputs,
         NEW q2, NEW s2, NEW p2, Longer(n, q, s, p, f, q2, s2, p2), NEW b,
         NEW se \in Seq(Nat), NEW pl \in Seq(Byte), NEW st \in Seq(Byte),
         Says(n, q, s, p, b, se, pl, st)
  PROVE  Says(n + 1, q2, s2, p2, b, Append(se, f.op), pl \o f.load, st \o ClientFrame(f))
<1> DEFINE load == f.load   frame == ClientFrame(f)
           se2 == Append(se, f.op)   pl2 == pl \o load   st2 == st \o frame
<1>1. load \in Seq(Byte) /\ frame \in Seq(Byte)
  BY ClientFrameBytes, InputTypes
<1>2. /\ n \in Nat /\ q \in [1..n -> Inputs] /\ s \in [0..n -> Nat] /\ p \in [0..n -> Nat]
      /\ s[n] \in Nat /\ p[n] \in Nat
  BY DEF Laid
<1>3. /\ \A i \in 1..n : q2[i] = q[i]
      /\ \A i \in 0..n : s2[i] = s[i]
      /\ \A i \in 0..n : p2[i] = p[i]
      /\ q2[n + 1] = f /\ s2[n + 1] = s[n] + Len(frame) /\ p2[n + 1] = p[n] + Len(load)
  BY DEF Longer
<1>4. Len(se) = n /\ Len(pl) = p[n] /\ b \in Nat /\ b + Len(st) = s[n]
  BY DEF Says
<1>5. Len(se2) = n + 1 /\ (\A i \in 1..n : se2[i] = se[i]) /\ se2[n + 1] = f.op
  BY <1>2, <1>4
<1> HIDE DEF load, frame, se2
<1>6. /\ Len(pl2) = p[n] + Len(load)
      /\ \A i \in 1..p[n] : pl2[i] = pl[i]
      /\ \A i \in 1..Len(load) : pl2[p[n] + i] = load[i]
  <2>1. /\ Len(pl2) = Len(pl) + Len(load)
        /\ \A i \in 1..Len(pl) : pl2[i] = pl[i]
        /\ \A i \in 1..Len(load) : pl2[Len(pl) + i] = load[i]
    BY <1>1, Joined
  <2> QED  BY <1>4, <2>1
<1>7. /\ Len(st2) = Len(st) + Len(frame)
      /\ \A i \in 1..Len(st) : st2[i] = st[i]
      /\ \A i \in 1..Len(frame) : st2[Len(st) + i] = frame[i]
  BY <1>1, Joined
<1> HIDE DEF pl2, st2
<1>8. Len(frame) \in Nat /\ Len(load) \in Nat /\ Len(st) \in Nat
  BY <1>1
<1>9. Len(se2) = n + 1 /\ Len(pl2) = p2[n + 1] /\ b + Len(st2) = s2[n + 1]
  BY <1>2, <1>3, <1>4, <1>5, <1>6, <1>7, <1>8
<1>10. ASSUME NEW i \in 1..n
       PROVE  /\ i \in 0..n /\ i - 1 \in 0..n /\ s[i] \in Nat /\ s[i - 1] \in Nat
              /\ p[i] \in Nat /\ p[i - 1] \in Nat
              /\ s2[i - 1] = s[i - 1] /\ p2[i - 1] = p[i - 1] /\ q2[i] = q[i]
              /\ s[i] = s[i - 1] + Len(ClientFrame(q[i])) /\ s[i] <= s[n]
              /\ p[i] = p[i - 1] + Len(q[i].load) /\ p[i] <= p[n]
              /\ Len(ClientFrame(q[i])) \in Nat /\ Len(q[i].load) \in Nat
  <2>1. i \in 0..n /\ i - 1 \in 0..n
    BY <1>2
  <2>2. q[i] \in Inputs
    BY <1>2
  <2>3. Len(ClientFrame(q[i])) \in Nat /\ Len(q[i].load) \in Nat
    <3>1. ClientFrame(q[i]) \in Seq(Byte) /\ q[i].load \in Seq(Byte)
      BY <2>2, ClientFrameBytes, InputTypes
    <3> QED  BY <3>1
  <2>4. /\ s[i] = s[i - 1] + Len(ClientFrame(q[i])) /\ s[i] <= s[n]
        /\ p[i] = p[i - 1] + Len(q[i].load) /\ p[i] <= p[n]
    BY DEF Laid
  <2> QED  BY <1>2, <1>3, <2>1, <2>3, <2>4
<1>11. \A i \in 1..(n + 1) : i \in 1..n \/ i = n + 1
  BY <1>2
<1>12. (n + 1) - 1 = n /\ n \in 0..n
  BY <1>2
<1>13. \A i \in 1..(n + 1) : se2[i] = q2[i].op
  BY <1>3, <1>5, <1>11 DEF Says
<1>14. ASSUME NEW i \in 1..(n + 1), NEW j \in 1..Len(q2[i].load)
       PROVE  pl2[p2[i - 1] + j] = q2[i].load[j]
  <2>1. CASE i \in 1..n
    <3>1. j \in 1..Len(q[i].load) /\ p2[i - 1] = p[i - 1] /\ q2[i] = q[i]
      BY <1>10, <2>1
    <3>2. p[i - 1] + j \in 1..p[n]
      <4>1. /\ p[i - 1] \in Nat /\ p[i] = p[i - 1] + Len(q[i].load) /\ p[i] <= p[n]
            /\ Len(q[i].load) \in Nat
        BY <1>10, <2>1
      <4> QED  BY <1>2, <3>1, <4>1, Within
    <3>3. pl[p[i - 1] + j] = q[i].load[j]
      BY <2>1, <3>1 DEF Says
    <3> QED  BY <1>6, <3>1, <3>2, <3>3
  <2>2. CASE i = n + 1
    <3>1. p2[i - 1] = p[n] /\ q2[i] = f
      BY <1>3, <1>12, <2>2
    <3>2. j \in 1..Len(load)
      BY <3>1 DEF load
    <3>3. pl2[p[n] + j] = load[j]
      BY <1>6, <3>2
    <3> QED  BY <3>1, <3>3 DEF load
  <2> QED  BY <1>11, <2>1, <2>2
<1>15. ASSUME NEW i \in 1..(n + 1), NEW j \in 1..Len(ClientFrame(q2[i])), s2[i - 1] + j > b
       PROVE  st2[(s2[i - 1] + j) - b] = ClientFrame(q2[i])[j]
  <2>1. CASE i \in 1..n
    <3>1. j \in 1..Len(ClientFrame(q[i])) /\ s2[i - 1] = s[i - 1] /\ q2[i] = q[i]
      BY <1>10, <2>1
    <3>2. (s[i - 1] + j) - b \in 1..Len(st)
      <4>1. /\ s[i - 1] \in Nat /\ s[i] = s[i - 1] + Len(ClientFrame(q[i])) /\ s[i] <= s[n]
            /\ Len(ClientFrame(q[i])) \in Nat
        BY <1>10, <2>1
      <4>2. s[i - 1] + j \in 1..s[n]
        BY <1>2, <3>1, <4>1, Within
      <4>3. s[i - 1] + j > b
        BY <1>15, <3>1
      <4> QED  BY <1>2, <1>4, <1>8, <4>2, <4>3, Beyond
    <3>3. st[(s[i - 1] + j) - b] = ClientFrame(q[i])[j]
      BY <1>15, <2>1, <3>1 DEF Says
    <3> QED  BY <1>7, <3>1, <3>2, <3>3
  <2>2. CASE i = n + 1
    <3>1. s2[i - 1] = s[n] /\ q2[i] = f
      BY <1>3, <1>12, <2>2
    <3>2. j \in 1..Len(frame)
      BY <3>1 DEF frame
    <3>3. (s[n] + j) - b = Len(st) + j
      BY <1>2, <1>4, <1>8, <3>2
    <3>4. st2[Len(st) + j] = frame[j]
      BY <1>7, <3>2
    <3> QED  BY <3>1, <3>3, <3>4 DEF frame
  <2> QED  BY <1>11, <2>1, <2>2
<1>16. Says(n + 1, q2, s2, p2, b, se2, pl2, st2)
  BY <1>4, <1>9, <1>13, <1>14, <1>15 DEF Says
<1> QED  BY <1>16 DEF se2, pl2, st2, load, frame

(* Sequences with the same elements are the same.                          *)
LEMMA SameElements ==
  ASSUME NEW S, NEW a \in Seq(S), NEW b \in Seq(S), Len(a) = Len(b),
         \A i \in 1..Len(a) : a[i] = b[i]
  PROVE  a = b
  OBVIOUS

LEMMA BeginsAsPart ==
  ASSUME NEW S, NEW a \in Seq(S), NEW b \in Seq(S), Begins(a, b)
  PROVE  a = SubSeq(b, 1, Len(a)) /\ (Len(a) = Len(b) => a = b)
<1> DEFINE c == SubSeq(b, 1, Len(a))
<1>1. Len(a) \in Nat /\ Len(b) \in Nat /\ Len(a) <= Len(b) /\ \A i \in 1..Len(a) : a[i] = b[i]
  BY DEF Begins
<1>2. c \in Seq(S) /\ Len(c) = Len(a) /\ \A i \in 1..Len(a) : c[i] = b[i]
  BY <1>1
<1> HIDE DEF c
<1>3. a = c
  BY <1>1, <1>2, SameElements
<1>4. Len(a) = Len(b) => a = b
  BY <1>1, SameElements
<1> QED  BY <1>3, <1>4 DEF c

LEMMA BeginsLonger ==
  ASSUME NEW a, NEW b, NEW c, Begins(a, b), Len(a) \in Nat, Len(b) \in Nat, Len(c) \in Nat,
         Len(b) <= Len(c), \A i \in 1..Len(b) : c[i] = b[i]
  PROVE  Begins(a, c)
<1>1. Len(a) <= Len(b) /\ \A i \in 1..Len(a) : a[i] = b[i]
  BY DEF Begins
<1>2. \A i \in 1..Len(a) : i \in 1..Len(b)
  BY <1>1
<1>3. Len(a) <= Len(c) /\ \A i \in 1..Len(a) : a[i] = c[i]
  BY <1>1, <1>2
<1> QED  BY <1>3 DEF Begins

(* ClientSends.                                                            *)
LEMMA SendsUInv ==
  ASSUME UInv, ClientSends
  PROVE  UInv'
<1>1. PICK f \in Inputs : /\ sent' = Append(sent, f.op) /\ plain' = plain \o f.load
                          /\ stream' = stream \o ClientFrame(f)
  BY DEF ClientSends
<1>2. UNCHANGED <<reader, opcodes, got>>
  BY DEF ClientSends
<1>3. /\ sent \in Seq(Nat) /\ opcodes \in Seq(Nat)
      /\ plain \in Seq(Byte) /\ got \in Seq(Byte) /\ stream \in Seq(Byte)
  BY DEF UInv, UTyped
<1>4. f.load \in Seq(Byte) /\ ClientFrame(f) \in Seq(Byte)
  BY <1>1, InputTypes, ClientFrameBytes
<1>5. f.op \in Nat
  <2>1. f.op \in 0..15
    BY <1>1, CodecAssumption, SMT DEF CodecAssumption
  <2> QED  BY <2>1
<1>6. sent' \in Seq(Nat) /\ Len(sent') = Len(sent) + 1 /\ \A i \in 1..Len(sent) : sent'[i] = sent[i]
  BY <1>1, <1>3, <1>5
<1>7. plain' \in Seq(Byte) /\ Len(plain') = Len(plain) + Len(f.load)
      /\ \A i \in 1..Len(plain) : plain'[i] = plain[i]
  BY <1>1, <1>3, <1>4, Joined
<1>8. stream' \in Seq(Byte)
  BY <1>1, <1>3, <1>4, Joined
<1>9. UTyped'
  BY <1>2, <1>6, <1>7, <1>8 DEF UInv, UTyped
<1>10. Begins(got, plain') /\ Begins(opcodes, sent')
  <2>1. /\ Len(got) \in Nat /\ Len(plain) \in Nat /\ Len(opcodes) \in Nat /\ Len(sent) \in Nat
        /\ Len(f.load) \in Nat
    BY <1>3, <1>4
  <2>2. Len(plain') \in Nat /\ Len(plain) <= Len(plain') /\ Len(sent') \in Nat /\ Len(sent) <= Len(sent')
    BY <1>6, <1>7, <2>1
  <2>3. Begins(got, plain) /\ Begins(opcodes, sent)
    BY DEF UInv
  <2>4. Begins(got, plain')
    BY <1>7, <2>1, <2>2, <2>3, BeginsLonger
  <2>5. Begins(opcodes, sent')
    BY <1>6, <2>1, <2>2, <2>3, BeginsLonger
  <2> QED  BY <2>4, <2>5
<1>11. Placed'
  <2>1. PICK n, q, s, p, b :
          /\ Laid(n, q, s, p) /\ Says(n, q, s, p, b, sent, plain, stream)
          /\ IsAt(n, q, s, p, b, Len(opcodes), Len(got), reader)
    BY DEF UInv, Placed
  <2>2. PICK q2, s2, p2 : Laid(n + 1, q2, s2, p2) /\ Longer(n, q, s, p, f, q2, s2, p2)
    BY <1>1, <2>1, LaidLonger
  <2>3. Says(n + 1, q2, s2, p2, b, sent', plain', stream')
    <3>1. Says(n + 1, q2, s2, p2, b, Append(sent, f.op), plain \o f.load, stream \o ClientFrame(f))
      BY <1>1, <1>3, <2>1, <2>2, SaysMore
    <3> QED  BY <1>1, <3>1
  <2>4. IsAt(n + 1, q2, s2, p2, b, Len(opcodes), Len(got), reader)
    <3> DEFINE k == Len(opcodes)
    <3>1. n \in Nat /\ k \in 0..n
      BY <2>1 DEF Laid, IsAt
    <3>2. k \in 0..(n + 1) /\ s2[k] = s[k] /\ p2[k] = p[k] /\ (k > 0 => q2[k] = q[k])
      BY <2>2, <3>1 DEF Longer
    <3> HIDE DEF k
    <3>3. IsAt(n, q, s, p, b, k, Len(got), reader)
      BY <2>1 DEF k
    <3>4. IsAt(n + 1, q2, s2, p2, b, k, Len(got), reader)
      BY <3>2, <3>3, Zenon DEF IsAt
    <3> QED  BY <3>4 DEF k
  <2> QED  BY <1>2, <2>2, <2>3, <2>4 DEF Placed
<1> QED  BY <1>2, <1>9, <1>10, <1>11 DEF UInv

(* The reader has consumed the next c bytes.                               *)
LEMMA SaysLess ==
  ASSUME NEW n, NEW q, NEW s, NEW p, Laid(n, q, s, p), NEW b, NEW se, NEW pl,
         NEW st \in Seq(Byte), Says(n, q, s, p, b, se, pl, st), NEW c \in Nat, c <= Len(st)
  PROVE  Says(n, q, s, p, b + c, se, pl, Drop(st, c))
<1> DEFINE st2 == Drop(st, c)
<1>1. /\ st2 \in Seq(Byte) /\ Len(st2) = Len(st) - c
      /\ \A i \in 1..(Len(st) - c) : st2[i] = st[c + i]
  BY Dropped
<1>2. /\ Len(se) = n /\ Len(pl) = p[n] /\ b \in Nat /\ b + Len(st) = s[n]
      /\ \A i \in 1..n : se[i] = q[i].op
      /\ \A i \in 1..n : \A j \in 1..Len(q[i].load) : pl[p[i - 1] + j] = q[i].load[j]
      /\ Len(st) \in Nat
  <2>1. Len(st) \in Nat
    OBVIOUS
  <2> QED  BY <2>1, Zenon DEF Says
<1> HIDE DEF st2
<1>3. b + c \in Nat /\ (b + c) + Len(st2) = s[n]
  BY <1>1, <1>2
<1>4. ASSUME NEW i \in 1..n, NEW j \in 1..Len(ClientFrame(q[i])), s[i - 1] + j > b + c
      PROVE  st2[(s[i - 1] + j) - (b + c)] = ClientFrame(q[i])[j]
  <2> DEFINE x == s[i - 1] + j
  <2>1. x \in 1..s[n]
    <3>1. n \in Nat /\ q \in [1..n -> Inputs] /\ s \in [0..n -> Nat]
      BY DEF Laid
    <3>2. i - 1 \in 0..n /\ n \in 0..n /\ q[i] \in Inputs
      BY <3>1
    <3>3. s[i - 1] \in Nat /\ s[n] \in Nat /\ Len(ClientFrame(q[i])) \in Nat
      <4>1. ClientFrame(q[i]) \in Seq(Byte)
        BY <3>2, ClientFrameBytes
      <4> QED  BY <3>1, <3>2, <4>1
    <3>4. s[i] = s[i - 1] + Len(ClientFrame(q[i])) /\ s[i] <= s[n]
      BY DEF Laid
    <3> QED  BY <3>3, <3>4, Within
  <2>2. x > b + c
    BY <1>4
  <2> HIDE DEF x
  <2>3. x > b /\ x - (b + c) \in 1..(Len(st) - c) /\ c + (x - (b + c)) = x - b
    BY <1>2, <2>1, <2>2
  <2>4. st2[x - (b + c)] = st[x - b]
    BY <1>1, <2>3
  <2>5. st[x - b] = ClientFrame(q[i])[j]
    BY <2>3 DEF Says, x
  <2> QED  BY <2>4, <2>5 DEF x
<1>5. Says(n, q, s, p, b + c, se, pl, st2)
  BY <1>2, <1>3, <1>4 DEF Says
<1> QED  BY <1>5 DEF st2

(* AcceptFrame.                                                            *)
LEMMA AcceptsUInv ==
  ASSUME UInv, AcceptFrame
  PROVE  UInv'
<1>1. UNCHANGED <<sent, plain, got>> /\ reader.remaining = 0 /\ stream # <<>>
  BY DEF AcceptFrame, client
<1>2. CASE UNCHANGED <<stream, reader, opcodes>>
  BY <1>1, <1>2 DEF UInv, UTyped, Placed
<1>3. ASSUME opcodes' = Append(opcodes, Parsed(stream).op),
             reader' = [fin |-> Parsed(stream).fin, remaining |-> Parsed(stream).n, maskPos |-> 0,
                        maskKey |-> SubSeq(stream, Parsed(stream).size + 1, Parsed(stream).size + 4)],
             stream' = Drop(stream, Parsed(stream).size + 4)
      PROVE  UInv'
  <2>1. PICK n, q, s, p, b :
          /\ Laid(n, q, s, p) /\ Says(n, q, s, p, b, sent, plain, stream)
          /\ IsAt(n, q, s, p, b, Len(opcodes), Len(got), reader)
    BY DEF UInv, Placed
  <2>2. /\ sent \in Seq(Nat) /\ opcodes \in Seq(Nat)
        /\ plain \in Seq(Byte) /\ got \in Seq(Byte) /\ stream \in Seq(Byte)
    BY DEF UInv, UTyped
  <2> DEFINE k == Len(opcodes)   f == q[k + 1]   h == Len(ClientHeader(f))   load == Len(f.load)
             frame == ClientFrame(f)   key == SubSeq(stream, h + 1, h + 4)
  <2>3. /\ n \in Nat /\ k \in 0..n /\ s \in [0..n -> Nat] /\ p \in [0..n -> Nat]
        /\ q \in [1..n -> Inputs] /\ Len(stream) \in Nat /\ Len(stream) > 0
    BY <1>1, <2>1, <2>2 DEF Laid, IsAt
  <2>4. s[k] = b /\ p[k] = Len(got) /\ b \in Nat /\ b + Len(stream) = s[n]
    BY <1>1, <2>1, <2>2 DEF IsAt, Says
  <2>5. k # n /\ k + 1 \in 1..n /\ k + 1 \in 0..n /\ (k + 1) - 1 = k
    BY <2>3, <2>4
  <2>6. f \in Inputs
    BY <2>3, <2>5
  <2> HIDE DEF f
  <2>7. /\ frame \in Seq(Byte) /\ h \in {2, 4, 10} /\ Len(frame) = h + 4 + load /\ load \in Nat
        /\ \A i \in 1..h : frame[i] = ClientHeader(f)[i]
        /\ \A i \in 1..4 : frame[h + i] = f.key[i]
    BY <2>6, ClientFrameBytes, InputTypes
  <2>8. /\ s[k + 1] = s[k] + Len(frame) /\ s[k + 1] <= s[n]
        /\ p[k + 1] = p[k] + load /\ p[k + 1] <= p[n]
    BY <2>1, <2>5 DEF Laid, f
  <2> HIDE DEF h, load, frame, k
  <2>9. h + 4 + load <= Len(stream)
    BY <2>3, <2>4, <2>5, <2>7, <2>8
  <2>10. \A j \in 1..Len(frame) : stream[j] = frame[j]
    <3> SUFFICES ASSUME NEW j \in 1..Len(frame) PROVE stream[j] = frame[j]
      OBVIOUS
    <3>1. s[(k + 1) - 1] + j > b /\ (s[(k + 1) - 1] + j) - b = j
      BY <2>4, <2>5, <2>7
    <3> QED  BY <2>1, <2>5, <3>1 DEF Says, frame, f
  <2>11. \A j \in 1..(h + 4) : j \in 1..Len(frame)
    BY <2>7
  <2>12. /\ Parsed(stream).n = load /\ Parsed(stream).op = f.op /\ Parsed(stream).size = h
    <3>1. h <= Len(stream) /\ \A i \in 1..h : i \in 1..(h + 4)
      BY <2>3, <2>7, <2>9
    <3>2. \A i \in 1..h : stream[i] = ClientHeader(f)[i]
      BY <2>7, <2>10, <2>11, <3>1
    <3> QED  BY <2>2, <2>6, <3>1, <3>2, ParsedClient DEF h, load
  <2>13. key = f.key
    <3>1. f.key \in Seq(Byte) /\ Len(f.key) = 4
      BY <2>6, InputTypes
    <3>2. h + 4 <= Len(stream) /\ h \in Nat
      BY <2>3, <2>7, <2>9
    <3>3. key \in Seq(Byte) /\ Len(key) = 4 /\ \A i \in 1..4 : key[i] = stream[h + i]
      BY <2>2, <3>2
    <3>4. \A i \in 1..4 : h + i \in 1..(h + 4)
      BY <3>2
    <3>5. \A i \in 1..4 : key[i] = f.key[i]
      BY <2>7, <2>10, <2>11, <3>3, <3>4
    <3> HIDE DEF key
    <3> QED  BY <3>1, <3>3, <3>5, SameElements
  <2> HIDE DEF key
  <2>14. reader' = [fin |-> Parsed(stream).fin, remaining |-> load, maskPos |-> 0, maskKey |-> f.key]
    BY <1>3, <2>12, <2>13, Zenon DEF key
  <2>15. Parsed(stream).fin \in BOOLEAN
    <3> DEFINE first == stream[1] >= 128
    <3>1. Parsed(stream).fin = first
      BY ParsedFields
    <3>2. first \in BOOLEAN
      BY SMT
    <3> HIDE DEF first
    <3> QED  BY <3>1, <3>2
  <2>16. reader' \in [fin : BOOLEAN, remaining : Nat, maskKey : Seq(Byte), maskPos : Nat]
    <3>1. f.key \in Seq(Byte)
      BY <2>6, InputTypes
    <3> QED  BY <2>7, <2>14, <2>15, <3>1
  <2>17. reader'.remaining = load /\ reader'.maskPos = 0 /\ reader'.maskKey = f.key
    BY <2>14
  <2>18. h + 4 \in Nat /\ h + 4 <= Len(stream)
    BY <2>3, <2>7, <2>9
  <2>19. stream' = Drop(stream, h + 4) /\ stream' \in Seq(Byte)
    BY <1>3, <2>2, <2>12, <2>18, Dropped
  <2>20. opcodes' = Append(opcodes, f.op) /\ f.op \in Nat
    <3>1. f.op \in 0..15
      BY <2>6, CodecAssumption, SMT DEF CodecAssumption
    <3> QED  BY <1>3, <2>12, <3>1
  <2>21. /\ opcodes' \in Seq(Nat) /\ Len(opcodes') = k + 1
         /\ (\A i \in 1..k : opcodes'[i] = opcodes[i]) /\ opcodes'[k + 1] = f.op
    BY <2>2, <2>20 DEF k
  <2>22. UTyped'
    BY <1>1, <2>2, <2>16, <2>19, <2>21 DEF UTyped
  <2>23. Begins(opcodes', sent)
    <3>1. Len(sent) = n /\ sent[k + 1] = f.op
      BY <2>1, <2>5 DEF Says, f
    <3>2. \A i \in 1..k : opcodes[i] = sent[i]
      BY DEF UInv, Begins, k
    <3>3. \A i \in 1..(k + 1) : i \in 1..k \/ i = k + 1
      BY <2>3
    <3>4. \A i \in 1..(k + 1) : opcodes'[i] = sent[i]
      BY <2>21, <3>1, <3>2, <3>3
    <3>5. k + 1 <= n
      BY <2>5
    <3> QED  BY <2>21, <3>1, <3>4, <3>5 DEF Begins
  <2>24. Says(n, q, s, p, b + (h + 4), sent, plain, stream')
    BY <2>1, <2>2, <2>18, <2>19, SaysLess
  <2>25. IsAt(n, q, s, p, b + (h + 4), k + 1, Len(got), reader')
    <3>1. s[k + 1] = (b + (h + 4)) + load /\ p[k + 1] = Len(got) + load
      BY <2>4, <2>7, <2>8
    <3>2. load <= Len(f.load) /\ 0 = (Len(f.load) - load) % 4
      BY <2>7, SMT DEF load
    <3>3. k + 1 > 0
      BY <2>3
    <3> QED  BY <2>5, <2>17, <3>1, <3>2, <3>3 DEF IsAt, f
  <2>26. Placed'
    BY <1>1, <2>1, <2>21, <2>24, <2>25 DEF Placed
  <2> QED  BY <1>1, <2>22, <2>23, <2>26 DEF UInv
<1> QED  BY <1>2, <1>3 DEF AcceptFrame

(* A place in a payload, counted from before what is left of it.           *)
LEMMA SameOffset ==
  ASSUME NEW x \in Nat, NEW y \in Nat, NEW l \in Nat, NEW r \in Nat, NEW d \in Nat,
         NEW i \in Nat, x + l = y + r, d + r = l
  PROVE  x + (d + i) = y + i
  OBVIOUS

(* Read.                                                                   *)
LEMMA ReadsUInv ==
  ASSUME UInv, Read
  PROVE  UInv'
<1>1. PICK rn \in 1..reader.remaining :
        /\ got' = got \o Mask(SubSeq(stream, 1, rn), reader.maskKey, reader.maskPos)
        /\ reader' = [reader EXCEPT !.remaining = @ - rn, !.maskPos = (@ + rn) % 4]
        /\ stream' = Drop(stream, rn)
  BY DEF Read
<1>2. UNCHANGED <<sent, plain, opcodes>> /\ reader.remaining > 0
  BY DEF Read, client
<1>3. PICK n, q, s, p, b :
        /\ Laid(n, q, s, p) /\ Says(n, q, s, p, b, sent, plain, stream)
        /\ IsAt(n, q, s, p, b, Len(opcodes), Len(got), reader)
  BY DEF UInv, Placed
<1>4. /\ sent \in Seq(Nat) /\ opcodes \in Seq(Nat)
      /\ plain \in Seq(Byte) /\ got \in Seq(Byte) /\ stream \in Seq(Byte)
      /\ reader \in [fin : BOOLEAN, remaining : Nat, maskKey : Seq(Byte), maskPos : Nat]
  BY DEF UInv, UTyped
<1> DEFINE k == Len(opcodes)   f == q[k]   h == Len(ClientHeader(f))   load == Len(f.load)
           frame == ClientFrame(f)   rem == reader.remaining   g == Len(got)   key == f.key
           done == load - rem
           chunk == SubSeq(stream, 1, rn)   text == Mask(chunk, key, done % 4)
<1>5. /\ n \in Nat /\ s \in [0..n -> Nat] /\ p \in [0..n -> Nat] /\ q \in [1..n -> Inputs]
      /\ Len(stream) \in Nat /\ g \in Nat /\ rem \in Nat /\ rn \in 1..rem
  BY <1>1, <1>3, <1>4 DEF Laid
<1>6. /\ k \in 1..n /\ s[k] = b + rem /\ p[k] = g + rem /\ rem <= load
      /\ reader.maskKey = key /\ reader.maskPos = done % 4
  BY <1>2, <1>3, <1>5 DEF IsAt
<1>7. b \in Nat /\ b + Len(stream) = s[n] /\ Len(plain) = p[n]
  BY <1>3 DEF Says
<1>8. f \in Inputs /\ k \in 0..n /\ k - 1 \in 0..n
  BY <1>5, <1>6
<1> HIDE DEF f
<1>9. /\ frame \in Seq(Byte) /\ h \in {2, 4, 10} /\ Len(frame) = h + 4 + load /\ load \in Nat
      /\ \A i \in 1..load : frame[h + 4 + i] = Xor(f.load[i], key[((i - 1) % 4) + 1])
  BY <1>8, ClientFrameBytes, InputTypes
<1>10. /\ f.load \in Seq(Byte) /\ key \in Seq(Byte) /\ Len(key) = 4
  BY <1>8, InputTypes
<1>11. /\ s[k] = s[k - 1] + Len(frame) /\ s[k] <= s[n]
       /\ p[k] = p[k - 1] + load /\ p[k] <= p[n]
  BY <1>3, <1>6 DEF Laid, f
<1>12. s[k - 1] \in Nat /\ p[k - 1] \in Nat /\ s[n] \in Nat /\ p[n] \in Nat
  BY <1>5, <1>8
<1> HIDE DEF h, load, frame, k, rem, g, key
<1>13. rn <= Len(stream) /\ rn \in Nat /\ done \in Nat /\ done + rem = load
  BY <1>5, <1>6, <1>7, <1>9, <1>11, <1>12
<1> HIDE DEF done
<1>14. chunk \in Seq(Byte) /\ Len(chunk) = rn /\ \A i \in 1..rn : chunk[i] = stream[i]
  BY <1>4, <1>13
<1> HIDE DEF chunk
<1>15. /\ DOMAIN text = 1..rn
       /\ \A i \in 1..rn : text[i] = Xor(chunk[i], key[(((done % 4) + (i - 1)) % 4) + 1])
  <2>1. done % 4 \in 0..3
    BY <1>13, Rests
  <2>2. /\ DOMAIN text = 1..Len(chunk)
        /\ \A i \in 1..Len(chunk) : text[i] = Xor(chunk[i], key[(((done % 4) + (i - 1)) % 4) + 1])
    BY <1>10, <1>14, <2>1, MaskedByte
  <2> QED  BY <1>14, <2>2
<1>16. ASSUME NEW i \in 1..rn
       PROVE  text[i] = f.load[done + i] /\ text[i] \in Byte /\ text[i] = plain[g + i]
  <2>1. /\ i \in Nat /\ i - 1 \in Nat /\ done + i \in 1..load /\ (done + i) - 1 = done + (i - 1)
        /\ done + (i - 1) \in Nat
    BY <1>5, <1>13
  <2> DEFINE c == key[((done + (i - 1)) % 4) + 1]   j == h + 4 + (done + i)
  <2>2. ((done % 4) + (i - 1)) % 4 = (done + (i - 1)) % 4
    BY <1>13, <2>1, Rests
  <2>3. text[i] = Xor(chunk[i], c)
    BY <1>15, <2>2
  <2>4. frame[j] = Xor(f.load[done + i], c)
    BY <1>9, <2>1
  <2>5. stream[i] = frame[j]
    <3>1. j \in 1..Len(frame)
      BY <1>9, <2>1
    <3>2. s[k - 1] + j > b /\ (s[k - 1] + j) - b = i
      <4> DEFINE x == s[k - 1] + (h + 4)
      <4>1. x \in Nat /\ x + load = b + rem
        <5>1. s[k - 1] + Len(frame) = b + rem
          BY <1>6, <1>11
        <5>2. h \in Nat /\ load \in Nat /\ s[k - 1] \in Nat /\ Len(frame) = h + 4 + load
          BY <1>9, <1>12
        <5>3. s[k - 1] + (h + 4) \in Nat /\ (s[k - 1] + (h + 4)) + load = s[k - 1] + Len(frame)
          BY <5>2
        <5> QED  BY <5>1, <5>3
      <4>2. s[k - 1] + j = x + (done + i)
        BY <1>9, <1>12, <1>13, <2>1
      <4> HIDE DEF x
      <4>3. x + (done + i) = b + i
        BY <1>5, <1>7, <1>9, <1>13, <2>1, <4>1, SameOffset
      <4> QED  BY <1>7, <2>1, <4>2, <4>3
    <3> QED  BY <1>3, <1>6, <3>1, <3>2 DEF Says, frame, f
  <2>6. f.load[done + i] \in Byte /\ c \in Byte
    <3> DEFINE lane == ((done + (i - 1)) % 4) + 1
    <3>1. lane \in 1..4
      BY <2>1, SMT
    <3> HIDE DEF lane
    <3>2. key[lane] \in Byte
      <4>1. key \in Seq(Byte) /\ lane \in 1..Len(key)
        BY <1>10, <3>1
      <4> QED  BY <4>1, ElementOfSeq
    <3>3. f.load[done + i] \in Byte
      BY <1>10, <2>1 DEF load
    <3> QED  BY <3>2, <3>3 DEF lane
  <2> HIDE DEF c, j
  <2>7. Xor(Xor(f.load[done + i], c), c) = f.load[done + i]
    BY <2>6, CodecAssumption, SMT DEF CodecAssumption
  <2>8. text[i] = f.load[done + i]
    BY <1>14, <2>3, <2>4, <2>5, <2>7
  <2>9. plain[g + i] = f.load[done + i]
    <3>1. p[k - 1] + (done + i) = g + i
      <4>1. p[k - 1] + load = g + rem
        BY <1>6, <1>11
      <4>2. /\ p[k - 1] \in Nat /\ g \in Nat /\ load \in Nat /\ rem \in Nat /\ done \in Nat
            /\ i \in Nat /\ done + rem = load
        BY <1>5, <1>9, <1>12, <1>13, <2>1
      <4> QED  BY <4>1, <4>2, SameOffset
    <3>2. plain[p[k - 1] + (done + i)] = f.load[done + i]
      BY <1>3, <1>6, <2>1 DEF Says, load, f
    <3> QED  BY <3>1, <3>2
  <2> QED  BY <2>6, <2>8, <2>9
<1>17. text \in Seq(Byte) /\ Len(text) = rn
  <2>1. text \in [1..rn -> Byte]
    <3>1. text = [i \in DOMAIN text |-> text[i]]
      BY DEF Mask, MaskGo
    <3> QED  BY <1>15, <1>16, <3>1
  <2> QED  BY <1>13, <2>1
<1> HIDE DEF text
<1>18. /\ got' \in Seq(Byte) /\ Len(got') = g + rn
       /\ \A i \in 1..g : got'[i] = got[i]
       /\ \A i \in 1..rn : got'[g + i] = text[i]
  <2>1. got' = got \o text
    BY <1>1, <1>6, Zenon DEF text, chunk
  <2>2. /\ got' \in Seq(Byte) /\ Len(got') = Len(got) + Len(text)
        /\ \A i \in 1..Len(got) : got'[i] = got[i]
        /\ \A i \in 1..Len(text) : got'[Len(got) + i] = text[i]
    <3>1. /\ got \o text \in Seq(Byte) /\ Len(got \o text) = Len(got) + Len(text)
          /\ \A i \in 1..Len(got) : (got \o text)[i] = got[i]
          /\ \A i \in 1..Len(text) : (got \o text)[Len(got) + i] = text[i]
      BY <1>4, <1>17, Joined
    <3> QED  BY <2>1, <3>1, Zenon
  <2> QED  BY <1>17, <2>2 DEF g
<1>19. Begins(got', plain)
  <2>1. g + rn <= Len(plain)
    BY <1>5, <1>6, <1>7, <1>11, <1>12, <1>13
  <2>2. \A i \in 1..g : got[i] = plain[i]
    BY DEF UInv, Begins, g
  <2>3. \A i \in 1..(g + rn) : i \in 1..g \/ (i - g \in 1..rn /\ g + (i - g) = i)
    BY <1>5, <1>13
  <2>4. \A i \in 1..(g + rn) : got'[i] = plain[i]
    BY <1>16, <1>18, <2>2, <2>3
  <2> QED  BY <1>18, <2>1, <2>4 DEF Begins
<1>20. reader' = [reader EXCEPT !.remaining = rem - rn, !.maskPos = ((done % 4) + rn) % 4]
  BY <1>1, <1>6 DEF rem
<1>21. /\ reader'.remaining = rem - rn /\ reader'.maskPos = ((done % 4) + rn) % 4
       /\ reader'.maskKey = key /\ rem - rn \in Nat /\ ((done % 4) + rn) % 4 \in Nat
       /\ reader' \in [fin : BOOLEAN, remaining : Nat, maskKey : Seq(Byte), maskPos : Nat]
  <2>1. rem - rn \in Nat
    BY <1>5
  <2>2. ((done % 4) + rn) % 4 \in Nat
    <3>1. done % 4 \in Nat /\ (done % 4) + rn \in Nat
      BY <1>13, Rests
    <3> QED  BY <1>13, <3>1, Rests
  <2> QED  BY <1>4, <1>6, <1>20, <2>1, <2>2
<1>22. stream' = Drop(stream, rn) /\ stream' \in Seq(Byte)
  BY <1>1, <1>4, <1>13, Dropped
<1>23. UTyped'
  BY <1>2, <1>4, <1>18, <1>21, <1>22 DEF UTyped
<1>24. Says(n, q, s, p, b + rn, sent, plain, stream')
  BY <1>3, <1>4, <1>13, <1>22, SaysLess
<1>25. IsAt(n, q, s, p, b + rn, k, Len(got'), reader')
  <2>1. s[k] = (b + rn) + (rem - rn) /\ p[k] = (g + rn) + (rem - rn)
    BY <1>5, <1>6, <1>7, <1>13
  <2>2. ((done % 4) + rn) % 4 = (load - (rem - rn)) % 4
    <3>1. load - (rem - rn) = done + rn
      BY <1>5, <1>9, <1>13
    <3> QED  BY <1>13, <3>1, Rests
  <2>3. rem - rn <= load /\ k > 0
    BY <1>5, <1>6, <1>9
  <2> QED  BY <1>8, <1>18, <1>21, <2>1, <2>2, <2>3 DEF IsAt, load, f, key
<1>26. Placed'
  BY <1>2, <1>3, <1>24, <1>25 DEF Placed, k
<1>27. Begins(opcodes, sent)
  BY DEF UInv
<1> QED  BY <1>2, <1>19, <1>23, <1>26, <1>27 DEF UInv

(* Nothing is sent at first.                                               *)
LEMMA InitUInv ==
  ASSUME Init
  PROVE  UInv
<1> DEFINE q == [i \in 1..0 |-> 0]   s == [i \in 0..0 |-> 0]
<1>1. /\ sent = <<>> /\ plain = <<>> /\ stream = <<>> /\ opcodes = <<>> /\ got = <<>>
      /\ reader = [fin |-> TRUE, remaining |-> 0, maskKey |-> <<0, 0, 0, 0>>, maskPos |-> 0]
  BY DEF Init, NoFrame
<1>2. UTyped
  <2>1. 0 \in Byte
    BY DEF Byte
  <2>2. <<0, 0, 0, 0>> \in Seq(Byte)
    BY <2>1
  <2> QED  BY <1>1, <2>2 DEF UTyped
<1>3. Begins(got, plain) /\ Begins(opcodes, sent)
  BY <1>1 DEF Begins
<1>4. Laid(0, q, s, s)
  BY DEF Laid
<1>5. Says(0, q, s, s, 0, sent, plain, stream)
  BY <1>1 DEF Says
<1>6. IsAt(0, q, s, s, 0, Len(opcodes), Len(got), reader)
  BY <1>1 DEF IsAt
<1> HIDE DEF q, s
<1> QED  BY <1>2, <1>3, <1>4, <1>5, <1>6 DEF UInv, Placed

LEMMA NextUInv ==
  ASSUME UInv, [WriteNext]_<<vars, down>>
  PROVE  UInv'
<1>1. CASE UNCHANGED vars
  BY <1>1 DEF UInv, UTyped, Placed, vars, client
<1>2. CASE Next
  BY <1>2, SendsUInv, AcceptsUInv, ReadsUInv DEF Next
<1> QED  BY <1>1, <1>2 DEF WriteNext

(* What it says of the application's bytes.                                *)
LEMMA UInvIsUnmasked ==
  ASSUME UInv
  PROVE  Unmasked
<1>1. /\ sent \in Seq(Nat) /\ opcodes \in Seq(Nat)
      /\ plain \in Seq(Byte) /\ got \in Seq(Byte) /\ stream \in Seq(Byte)
      /\ Begins(got, plain) /\ Begins(opcodes, sent) /\ reader.remaining \in Nat
  BY DEF UInv, UTyped
<1>2. got = SubSeq(plain, 1, Len(got)) /\ opcodes = SubSeq(sent, 1, Len(opcodes))
  BY <1>1, BeginsAsPart
<1>3. ASSUME stream = <<>> PROVE Len(got) = Len(plain) /\ Len(opcodes) = Len(sent)
  <2>1. PICK n, q, s, p, b :
          /\ Laid(n, q, s, p) /\ Says(n, q, s, p, b, sent, plain, stream)
          /\ IsAt(n, q, s, p, b, Len(opcodes), Len(got), reader)
    BY DEF UInv, Placed
  <2> DEFINE k == Len(opcodes)   rem == reader.remaining
  <2>2. /\ n \in Nat /\ s \in [0..n -> Nat] /\ q \in [1..n -> Inputs]
        /\ k \in 0..n /\ b \in Nat /\ b = s[n] /\ Len(sent) = n /\ Len(plain) = p[n]
        /\ s[k] = b + rem /\ p[k] = Len(got) + rem
    BY <1>3, <2>1 DEF Laid, Says, IsAt
  <2> HIDE DEF k, rem
  <2>3. k = n
    <3> SUFFICES ASSUME k # n PROVE FALSE
      OBVIOUS
    <3>1. k + 1 \in 1..n /\ k + 1 \in 0..n /\ (k + 1) - 1 = k
      BY <2>2
    <3>2. s[k + 1] = s[k] + Len(ClientFrame(q[k + 1])) /\ s[k + 1] <= s[n]
      BY <2>1, <3>1 DEF Laid
    <3>3. Len(ClientFrame(q[k + 1])) \in Nat /\ Len(ClientFrame(q[k + 1])) > 0
      <4> DEFINE f == q[k + 1]
      <4>1. f \in Inputs
        BY <2>2, <3>1
      <4> HIDE DEF f
      <4>2. /\ Len(ClientFrame(f)) = Len(ClientHeader(f)) + 4 + Len(f.load)
            /\ Len(ClientHeader(f)) \in {2, 4, 10} /\ Len(f.load) \in Nat
        BY <4>1, ClientFrameBytes, InputTypes
      <4>3. ASSUME NEW h \in {2, 4, 10}, NEW l \in Nat PROVE h + 4 + l \in Nat /\ h + 4 + l > 0
        OBVIOUS
      <4>4. Len(ClientFrame(f)) \in Nat /\ Len(ClientFrame(f)) > 0
        BY <4>2, <4>3
      <4> QED  BY <4>4 DEF f
    <3>4. rem \in Nat
      BY <1>1 DEF rem
    <3> QED  BY <2>2, <3>2, <3>3, <3>4
  <2>4. rem = 0
    BY <1>1, <2>2, <2>3 DEF rem
  <2>5. Len(got) \in Nat
    BY <1>1
  <2> QED  BY <2>2, <2>3, <2>4, <2>5 DEF k
<1>4. stream = <<>> => got = plain /\ opcodes = sent
  BY <1>1, <1>3, BeginsAsPart
<1> QED  BY <1>2, <1>4 DEF Unmasked

-----------------------------------------------------------------------------
(* A client gets its own connection's payload only, though CloseWithCode   *)
(* puts buffers back that calls still use, and newConn takes them: unless  *)
(* a call has used the frame's buffer after that.                          *)
THEOREM ClientsGetTheirOwn == WriteSpec => []OwnBytesOnly
<1>1. WInv => OwnBytesOnly
  BY WireIsGood DEF WInv
<1> QED  BY <1>1, InitWInv, NextWInv, PTL DEF WriteSpec

(* With the same exception, the header of a frame is in the place where    *)
(* flush begins the frame, has one of the three forms of a length, and     *)
(* says what flush meant, for frames below 16 megabytes.                   *)
THEOREM HeadersSayWhatIsMeant == WriteSpec => []HeaderIsRead
<1>1. WInv => HeaderIsRead
  BY WireIsGood DEF WInv
<1> QED  BY <1>1, InitWInv, NextWInv, PTL DEF WriteSpec

(* However the client's payload is cut into frames and the reads of the    *)
(* application into chunks, Read gives the application the bytes that the  *)
(* client masked, in order, and all of them once it has read everything.   *)
THEOREM PayloadIsUnmasked == WriteSpec => []Unmasked
<1>1. WriteInit => UInv
  BY InitUInv DEF WriteInit
<1>2. UInv => Unmasked
  BY UInvIsUnmasked
<1> QED  BY <1>1, <1>2, NextUInv, PTL DEF WriteSpec
=============================================================================

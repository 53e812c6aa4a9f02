-------------------------------- MODULE Codec --------------------------------
(***************************************************************************)
(* Bytes on the wire.  Downstream: writeHeaders (frame.go) puts a header   *)
(* before the payload in the write buffer.  Upstream: acceptFrame takes a  *)
(* header apart and Read unmasks the payload chunk by chunk, as bufio      *)
(* hands it out (conn_read.go), with the word-wise mask of mask.go.        *)
(*                                                                         *)
(* Everything is a byte here; what frames may follow each other is the     *)
(* subject of ConnRead and ConnWrite, the buffer a header is written to    *)
(* that of WriteBuffers.                                                   *)
(***************************************************************************)
EXTENDS Naturals, Sequences

CONSTANTS
  Xor(_, _),       \* on bytes
  Inputs,          \* frames the client may send: op, fin, form of the length,
                   \* key, load
  MaxInputs,       \* bound: how many it sends
  MaxMessageSize   \* Options.MaxMessageSize

Byte == 0..255

\* A length has one of three forms, each with a bound; of the longest, 2^24 here.
FitsForm(n, form) ==
  \/ form = 7 /\ n < 126
  \/ form = 16 /\ n < 65536
  \/ form = 64 /\ n < 16777216

ASSUME CodecAssumption ==
  /\ \A a, b \in Byte : Xor(a, b) \in Byte /\ Xor(Xor(a, b), b) = a
  /\ \A f \in Inputs : /\ f.fin \in BOOLEAN /\ f.op \in 0..15
                        /\ f.load \in Seq(Byte) /\ FitsForm(Len(f.load), f.form)
                        /\ f.key \in Seq(Byte) /\ Len(f.key) = 4
  /\ MaxMessageSize \in Nat /\ MaxMessageSize < 16777216 /\ MaxInputs \in Nat

VARIABLES
  sent,    \* the opcodes the client has sent
  plain,   \* the payload it has sent, before it masked it
  stream,  \* the bytes the reader has not consumed
  reader,  \* the current frame of ConnReader
  opcodes, \* what acceptFrame has returned
  got,     \* what Read has handed to the application
  closed   \* the connection was closed with ErrTooLargePayload

client == <<sent, plain>>
vars   == <<client, stream, reader, opcodes, got, closed>>

Drop(s, n) == SubSeq(s, n + 1, Len(s))

-----------------------------------------------------------------------------
(* Numbers of several bytes, the most significant first.                   *)

PutUint16(n) == <<(n \div 256) % 256, n % 256>>
PutUint64(n) == <<0, 0, 0, 0, (n \div 16777216) % 256, (n \div 65536) % 256,
                  (n \div 256) % 256, n % 256>>
Uint16(b) == 256 * b[1] + b[2]

\* A number beyond three bytes is over every MaxMessageSize of the assumption.
Uint64(b) == IF \E i \in 1..5 : b[i] > 0 THEN MaxMessageSize + 1
                                         ELSE 65536 * b[6] + 256 * b[7] + b[8]

-----------------------------------------------------------------------------
(* writeHeaders, of a server: unmasked.                                    *)

\* Mutant: 65536 bytes are announced in the two-byte form.
OneByteTooMany(fin, op, size) ==
  <<IF fin THEN 128 + op ELSE op>> \o
    (IF size < 126 THEN <<size>> ELSE
     IF size <= 65536 THEN <<126>> \o PutUint16(size) ELSE <<127>> \o PutUint64(size))

Header(fin, op, size) ==
  <<IF fin THEN 128 + op ELSE op>> \o
    (IF size < 126 THEN <<size>> ELSE
     IF size <= 65535 THEN <<126>> \o PutUint16(size) ELSE <<127>> \o PutUint64(size))

-----------------------------------------------------------------------------
(* mask and maskGo.                                                        *)

\* key32, and rotated by the bytes the reader has unmasked of the frame.
Rotated(key, pos) == [i \in 1..4 |-> key[((i - 1 + pos) % 4) + 1]]

\* Words of eight bytes under key64, then one of four, then the bytes left.
MaskGo(b, key) ==
  LET words == 8 * (Len(b) \div 8)
      lane(i) == IF i <= words THEN ((i - 1) % 8) % 4 ELSE (i - 1 - words) % 4
  IN  [i \in DOMAIN b |-> Xor(b[i], key[lane(i) + 1])]

\* Mutant: every chunk begins with the first byte of the key.
MaskUnrotated(b, key, pos) == MaskGo(b, key)

Mask(b, key, pos) == MaskGo(b, Rotated(key, pos))

-----------------------------------------------------------------------------
(* The client: any of the three forms of a length, and its own masking.    *)

ClientHeader(f) ==
  LET n == Len(f.load)
  IN  <<IF f.fin THEN 128 + f.op ELSE f.op>>
        \o (IF f.form = 7 THEN <<128 + n>> ELSE
            IF f.form = 16 THEN <<254>> \o PutUint16(n) ELSE <<255>> \o PutUint64(n))

ClientFrame(f) ==
  ClientHeader(f) \o f.key
    \o [i \in 1..Len(f.load) |-> Xor(f.load[i], f.key[((i - 1) % 4) + 1])]

ClientSends ==
  /\ Len(sent) < MaxInputs
  /\ \E f \in Inputs :
       /\ sent' = Append(sent, f.op)
       /\ plain' = plain \o f.load
       /\ stream' = stream \o ClientFrame(f)
  /\ UNCHANGED <<reader, opcodes, got, closed>>

-----------------------------------------------------------------------------
(* acceptFrame, for the data frames of a legal client, and Read.           *)

\* What b[0] and b[1] hold, the size of the length field, and the length.
Parsed(b) ==
  LET lengthB == b[2] % 128
      more == IF lengthB = 127 THEN 8 ELSE IF lengthB = 126 THEN 2 ELSE 0
  IN  [fin |-> b[1] >= 128, op |-> b[1] % 16, isMasked |-> b[2] >= 128,
       size |-> 2 + more,
       n |-> CASE lengthB = 127 -> Uint64(SubSeq(b, 3, 10))
               [] lengthB = 126 -> Uint16(SubSeq(b, 3, 4))
               [] OTHER -> lengthB]

NoFrame == [fin |-> TRUE, remaining |-> 0, maskKey |-> <<0, 0, 0, 0>>, maskPos |-> 0]

\* Mutant: maskPos of the frame before is kept.
AcceptFrameAtMaskPos ==
  /\ reader.remaining = 0 /\ stream # <<>> /\ ~closed
  /\ LET h == Parsed(stream)
     IN  \/ /\ h.n > MaxMessageSize
            /\ closed' = TRUE
            /\ UNCHANGED <<stream, reader, opcodes>>
         \/ /\ h.n <= MaxMessageSize
            /\ opcodes' = Append(opcodes, h.op)
            /\ reader' = [fin |-> h.fin, remaining |-> h.n,
                          maskPos |-> reader.maskPos,
                          maskKey |-> SubSeq(stream, h.size + 1, h.size + 4)]
            /\ stream' = Drop(stream, h.size + 4)
            /\ UNCHANGED closed
  /\ UNCHANGED <<client, got>>

AcceptFrame ==
  /\ reader.remaining = 0 /\ stream # <<>> /\ ~closed
  /\ LET h == Parsed(stream)
     IN  \/ /\ h.n > MaxMessageSize
            /\ closed' = TRUE
            /\ UNCHANGED <<stream, reader, opcodes>>
         \/ /\ h.n <= MaxMessageSize
            /\ opcodes' = Append(opcodes, h.op)
            /\ reader' = [fin |-> h.fin, remaining |-> h.n, maskPos |-> 0,
                          maskKey |-> SubSeq(stream, h.size + 1, h.size + 4)]
            /\ stream' = Drop(stream, h.size + 4)
            /\ UNCHANGED closed
  /\ UNCHANGED <<client, got>>

\* One readBuf.Read of Read: rn bytes, as many as p and the buffer allow.
Read ==
  /\ reader.remaining > 0
  /\ \E rn \in 1..reader.remaining :
       /\ got' = got \o Mask(SubSeq(stream, 1, rn), reader.maskKey, reader.maskPos)
       /\ reader' = [reader EXCEPT !.remaining = @ - rn,
                                   !.maskPos = (@ + rn) % 4]
       /\ stream' = Drop(stream, rn)
  /\ UNCHANGED <<client, opcodes, closed>>

-----------------------------------------------------------------------------
Init ==
  /\ sent = <<>> /\ plain = <<>> /\ stream = <<>>
  /\ reader = NoFrame /\ opcodes = <<>> /\ got = <<>> /\ closed = FALSE

Next == ClientSends \/ AcceptFrame \/ Read

Spec == Init /\ [][Next]_vars

-----------------------------------------------------------------------------
\* However the payload is cut into reads, the application gets the bytes the
\* client meant, frame after frame, and all of them once it has read everything:
\* the words of maskGo, its rest and the key rotated to maskPos fit together.
Unmasked ==
  /\ got = SubSeq(plain, 1, Len(got))
  /\ opcodes = SubSeq(sent, 1, Len(opcodes))
  /\ stream = <<>> => got = plain /\ opcodes = sent

=============================================================================

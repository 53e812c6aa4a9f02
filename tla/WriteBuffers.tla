---------------------------- MODULE WriteBuffers ----------------------------
(***************************************************************************)
(* The write buffers of an upgrader's connections: newWriter takes one     *)
(* from upgrader.writePool, the calls of SendMessage copy their chunks     *)
(* into it and put headers before them (conn_write.go, frame.go), and      *)
(* CloseWithCode puts it back (conn.go) while calls may still use it.      *)
(*                                                                         *)
(* A buffer is memory: whoever has a reference reads and writes it.  It    *)
(* has room for one chunk of payload, the unit in which a message is cut.  *)
(* How a write may fail is ConnWrite's; here the network never does.       *)
(* Composed with Codec, a run goes upstream or downstream.                 *)
(***************************************************************************)
EXTENDS Codec

CONSTANTS
  Conns,     \* connections of the upgrader
  Calls,     \* calls of SendMessage
  ConnOf,    \* ConnOf[g]: the connection that g sends on
  Settings   \* what a run is about, see WriteBuffersAssumption

\* Bound: the lengths of Codec are of three bytes.
ChunkSizes == {n \in Nat : 0 < n /\ n < 16777216}

ASSUME WriteBuffersAssumption ==
  /\ ConnOf \in [Calls -> Conns]
  /\ Settings \subseteq
       [direction : {"up", "down"},     \* Codec's run, or this module's
        conns : SUBSET Conns,           \* the connections that newConn makes
        supply : {"pool", "own"},       \* own: the buffer of net/http, or a made one
        size : ChunkSizes,              \* how many bytes a chunk has
        chunks : [Calls -> Nat \ {0}]]  \* how many chunks a message has

VARIABLES
  setting,   \* one of Settings; it never changes
  pc,        \* pc[g]: where the call g is
  copied,    \* copied[g]: chunks that Write has copied
  phase,     \* phase[c]: "none" (not made), "open", or how far CloseWithCode is
  writer,    \* writer[c]: conn.writer
  buf,       \* buf[c]: the buffer that conn.writer refers to
  pool,      \* upgrader.writePool
  made,      \* buffers made so far
  memory,    \* memory[b]: the chunk in buffer b, and the header before it
  wire,      \* wire[c]: the data frames sent
  strayed    \* history: buffers used by a call after its connection put them back

buffers == <<pool, made>>
down    == <<setting, pc, copied, phase, writer, buf, buffers, memory, wire, strayed>>

NoHeader == [fin |-> FALSE, op |-> 0, n |-> 0, bytes |-> <<>>]
ClosedWriter == [closed |-> TRUE, locked |-> FALSE, used |-> 0, flushed |-> FALSE,
                 header |-> NoHeader]

WriteInit ==
  /\ Init
  /\ setting \in Settings
  /\ pc = [g \in Calls |-> "start"] /\ copied = [g \in Calls |-> 0]
  /\ phase = [c \in Conns |-> "none"]
  /\ writer = [c \in Conns |-> ClosedWriter]
  /\ buf = [c \in Conns |-> 0] /\ pool = {} /\ made = 0
  /\ memory = <<>> /\ wire = [c \in Conns |-> <<>>] /\ strayed = {}

Goto(g, l) == pc' = [pc EXCEPT ![g] = l]
Set(c, w) == writer' = [writer EXCEPT ![c] = w]
Done(c) == phase[c] \in {"done", "closed"}
PutBack(c) == setting.supply = "pool" /\ phase[c] \in {"put", "done", "closed"}

(* A call reads or writes the buffer that its connection refers to.        *)
Uses(c) == strayed' = IF PutBack(c) THEN strayed \cup {buf[c]} ELSE strayed

-----------------------------------------------------------------------------
(* newConn: writePool.Get gives any buffer of the pool, or a new one.      *)

Refer(c, b) ==
  /\ c \in setting.conns /\ phase[c] = "none"
  /\ phase' = [phase EXCEPT ![c] = "open"]
  /\ buf' = [buf EXCEPT ![c] = b]
  /\ UNCHANGED <<setting, pc, copied, writer, wire, strayed>>

NewBuffer(c) ==
  /\ Refer(c, made + 1)
  /\ made' = made + 1
  /\ memory' = Append(memory, [chunk |-> <<>>, header |-> [i \in 1..10 |-> 0]])
  /\ UNCHANGED pool

\* Mutant: the buffer stays in the pool.
GetAndLeave(c) ==
  /\ \E b \in pool : Refer(c, b)
  /\ UNCHANGED <<made, memory, pool>>

Get(c) ==
  /\ \E b \in pool : Refer(c, b) /\ pool' = pool \ {b}
  /\ UNCHANGED <<made, memory>>

-----------------------------------------------------------------------------
(* flush: writeHeaders into the buffer, which wants its place to be free   *)
(* (ErrInsufficientHeaderSpace), and then the frame out of the buffer.     *)

CanFlush(w) == ~w.closed /\ w.header = NoHeader

WriteHeaders(c, fin) ==
  LET w  == writer[c]
      op == IF w.flushed THEN 0 ELSE 2
      n  == w.used * setting.size
      bytes == Header(fin, op, n)
  IN  /\ Set(c, [w EXCEPT !.header = [fin |-> fin, op |-> op, n |-> n, bytes |-> bytes]])
      /\ memory' = [memory EXCEPT ![buf[c]].header =
                      SubSeq(@, 1, Len(@) - Len(bytes)) \o bytes]

\* buf[start:used]: the last bytes of the header's place, and the chunk if any.
FrameOf(c) ==
  LET w == writer[c]
      m == memory[buf[c]]
  IN  [meant |-> w.header, buf |-> buf[c],
       header |-> SubSeq(m.header, Len(m.header) - Len(w.header.bytes) + 1, Len(m.header)),
       load |-> SubSeq(m.chunk, 1, w.used)]

SendFrame(c) == wire' = [wire EXCEPT ![c] = Append(@, FrameOf(c))]
Flushed(w) == [w EXCEPT !.used = 0, !.header = NoHeader, !.flushed = TRUE]
Released(w) == [w EXCEPT !.closed = TRUE, !.locked = FALSE]

-----------------------------------------------------------------------------
(* SendMessage: NextWriter, Write, Close.                                  *)

Call == UNCHANGED <<setting, phase, buf, buffers>>
Fails(g) == Goto(g, "err") /\ UNCHANGED <<copied, writer, memory, wire, strayed>> /\ Call

\* lockCtx chooses between a free token and a conn.done that is closed.
NextWriter(g, c) ==
  /\ pc[g] = "start" /\ phase[c] # "none"
  /\ \/ /\ ~writer[c].locked
        /\ Set(c, [ClosedWriter EXCEPT !.closed = FALSE, !.locked = TRUE])
        /\ Goto(g, "write")
        /\ UNCHANGED <<copied, memory, wire, strayed>> /\ Call
     \/ Done(c) /\ Fails(g)

\* Only the beginning of Write looks at w.closed.
Write(g, c) ==
  /\ pc[g] = "write"
  /\ \/ writer[c].closed /\ Fails(g)
     \/ /\ ~writer[c].closed /\ Goto(g, "copy")
        /\ UNCHANGED <<copied, writer, memory, wire, strayed>> /\ Call

Copy(g, c) ==
  /\ pc[g] = "copy" /\ copied[g] < setting.chunks[g] /\ writer[c].used = 0
  /\ copied' = [copied EXCEPT ![g] = @ + 1]
  /\ memory' = [memory EXCEPT ![buf[c]].chunk = << <<g, copied[g] + 1>> >>]
  /\ Set(c, [writer[c] EXCEPT !.used = 1])
  /\ Uses(c)
  /\ UNCHANGED <<pc, wire>> /\ Call

FlushFull(g, c) ==
  /\ pc[g] = "copy" /\ copied[g] < setting.chunks[g] /\ writer[c].used = 1
  /\ \/ ~CanFlush(writer[c]) /\ Fails(g)
     \/ /\ CanFlush(writer[c]) /\ WriteHeaders(c, FALSE)
        /\ Goto(g, "flush") /\ Uses(c)
        /\ UNCHANGED <<copied, wire>> /\ Call

Close(g, c) ==
  /\ pc[g] = "copy" /\ copied[g] = setting.chunks[g]
  /\ \/ /\ CanFlush(writer[c]) /\ WriteHeaders(c, TRUE)
        /\ Goto(g, "close") /\ Uses(c)
        /\ UNCHANGED <<copied, wire>> /\ Call
     \/ /\ ~CanFlush(writer[c])
        /\ Goto(g, IF writer[c].closed THEN "nil" ELSE "err")
        /\ IF writer[c].closed THEN UNCHANGED writer ELSE Set(c, Released(writer[c]))
        /\ UNCHANGED <<copied, memory, wire, strayed>> /\ Call

\* The lock of the frame and its write; writeClose keeps the lock for good.
Flush(g, c) ==
  /\ pc[g] \in {"flush", "close"}
  /\ \/ /\ phase[c] # "closed" /\ SendFrame(c) /\ Uses(c)
        /\ Goto(g, IF pc[g] = "flush" THEN "copy" ELSE "nil")
        /\ Set(c, IF pc[g] = "flush" THEN Flushed(writer[c])
                                     ELSE Released(Flushed(writer[c])))
        /\ UNCHANGED <<copied, memory>> /\ Call
     \/ /\ Done(c) /\ Goto(g, "err")
        /\ IF pc[g] = "flush" THEN UNCHANGED writer ELSE Set(c, Released(writer[c]))
        /\ UNCHANGED <<copied, memory, wire, strayed>> /\ Call

SendMessage(g, c) ==
  \/ NextWriter(g, c) \/ Write(g, c) \/ Copy(g, c) \/ FlushFull(g, c) \/ Close(g, c)
  \/ Flush(g, c)

-----------------------------------------------------------------------------
(* CloseWithCode: the writer's last flush, the buffer, conn.done, and the  *)
(* close frame with raw.Close.                                             *)

ClosePhase(c, from, to) == phase[c] = from /\ phase' = [phase EXCEPT ![c] = to]
Closing == UNCHANGED <<setting, pc, copied, buf, made, strayed>>

\* Mutant: the buffer goes back before the last flush is over.
CloseFlushPuts(c) ==
  /\ \/ CanFlush(writer[c]) /\ ClosePhase(c, "open", "flush") /\ WriteHeaders(c, TRUE)
     \/ /\ ~CanFlush(writer[c]) /\ ClosePhase(c, "open", "flushed")
        /\ IF writer[c].closed THEN UNCHANGED writer ELSE Set(c, Released(writer[c]))
        /\ UNCHANGED memory
  /\ pool' = (IF setting.supply = "pool" THEN pool \cup {buf[c]} ELSE pool)
  /\ UNCHANGED wire /\ Closing

CloseFlush(c) ==
  /\ \/ CanFlush(writer[c]) /\ ClosePhase(c, "open", "flush") /\ WriteHeaders(c, TRUE)
     \/ /\ ~CanFlush(writer[c]) /\ ClosePhase(c, "open", "flushed")
        /\ IF writer[c].closed THEN UNCHANGED writer ELSE Set(c, Released(writer[c]))
        /\ UNCHANGED memory
  /\ UNCHANGED <<pool, wire>> /\ Closing

CloseSend(c) ==
  /\ ClosePhase(c, "flush", "flushed")
  /\ SendFrame(c) /\ Set(c, Released(Flushed(writer[c])))
  /\ UNCHANGED <<pool, memory>> /\ Closing

Put(c) ==
  /\ ClosePhase(c, "flushed", "put")
  /\ pool' = (IF setting.supply = "pool" THEN pool \cup {buf[c]} ELSE pool)
  /\ UNCHANGED <<writer, memory, wire>> /\ Closing

CloseDone(c) ==
  /\ ClosePhase(c, "put", "done") \/ ClosePhase(c, "done", "closed")
  /\ UNCHANGED <<pool, writer, memory, wire>> /\ Closing

CloseWithCode(c) == CloseFlush(c) \/ CloseSend(c) \/ Put(c) \/ CloseDone(c)

WriteNext ==
  \/ setting.direction = "up" /\ Next /\ UNCHANGED down
  \/ /\ setting.direction = "down" /\ UNCHANGED vars
     /\ \/ \E c \in Conns :
             \/ CloseWithCode(c)
             \/ NewBuffer(c)
             \/ setting.supply = "pool" /\ Get(c)
        \/ \E g \in Calls : SendMessage(g, ConnOf[g])

WriteSpec == WriteInit /\ [][WriteNext]_<<vars, down>>

-----------------------------------------------------------------------------
\* A client gets its own connection's payload only, though buffers go from one
\* connection to the next: a buffer in the pool, or one that came from it, is
\* nobody else's.  The exception is a buffer that a call has used after
\* CloseWithCode put it back: NextWriter may succeed on a closed connection, and
\* nothing tells a Write or Flush under way.
OwnBytesOnly ==
  \A c \in Conns : \A i \in DOMAIN wire[c] :
    LET f == wire[c][i]
    IN  f.buf \notin strayed => \A k \in DOMAIN f.load : ConnOf[f.load[k][1]] = c

\* The header of a frame, read from the buffer when the frame is sent, says what
\* flush meant, in the shortest of the three forms of a length; the exception is
\* the same.  (A frame that goes out without a header, since CloseWithCode gave
\* the writer to another call in the meantime, is ConnWrite's.)
HeaderIsRead ==
  \A c \in Conns : \A i \in DOMAIN wire[c] :
    LET f == wire[c][i]
        h == Parsed(f.header)
    IN  f.buf \notin strayed /\ f.meant # NoHeader =>
          /\ f.header = f.meant.bytes
          /\ [fin |-> h.fin, op |-> h.op, n |-> h.n]
               = [fin |-> f.meant.fin, op |-> f.meant.op, n |-> f.meant.n]
          /\ ~h.isMasked
          /\ Len(f.header) = IF h.n < 126 THEN 2 ELSE IF h.n < 65536 THEN 4 ELSE 10
=============================================================================

------------------------------- MODULE Rooms -------------------------------
(***************************************************************************)
(* Rooms and their manager (rooms_manager.go), and the one hook onClose    *)
(* through which a connection that closes leaves its room (conn.go).       *)
(*                                                                         *)
(* A handler is a goroutine of the application that works on one           *)
(* connection: it gets a room from the RoomManager, adds the connection,   *)
(* removes it, moves it.  Any number of handlers work on a connection.     *)
(* CloseWithCode runs beside them, once for a connection; Room.Close and   *)
(* Shutdown run beside both.                                               *)
(***************************************************************************)
EXTENDS Integers, Sequences, FiniteSets

CONSTANTS
  Conns,
  Handlers,
  ConnOf,    \* ConnOf[h]: the connection that h works on
  Keys,
  MaxRooms,  \* bound: rooms that are made
  Uses,      \* what a program may use, see RoomsAssumption
  MaxOps     \* bound: MaxOps[u][h], operations of h in a program that uses u

ASSUME RoomsAssumption ==
  /\ ConnOf \in [Handlers -> Conns]
  /\ IsFiniteSet(Handlers)
  /\ MaxRooms \in Nat /\ MaxOps \in [Uses -> [Handlers -> Nat]]
  /\ Uses \subseteq SUBSET
       {"move", "remove",  \* handlers call Move, Remove
        "early",           \* connections close while handlers work on them
        "unaware",         \* handlers begin to work on one that has closed
        "closeroom",       \* Room.Close
        "reclose",         \* Room.Close of a room that was closed before
        "shutdown",        \* RoomManager.Shutdown
        "nohooks",         \* OnJoin and OnLeave are not set
        "hookgets"}        \* OnJoin and OnLeave use the RoomManager

None == 0 \* no room

VARIABLES
  uses,      \* what this program uses, one of Uses
  keys,      \* keys[r]: r.Key, for every room r made so far
  rooms,     \* rm.rooms
  members,   \* members[r]: r.conns
  onClose,   \* onClose[c]: the room that conn.onClose removes c from
  listeners, \* listeners[c]: queues made for c, each with its listener
  at,        \* at[h]: what h does next
  room,      \* room[h]: the room h works on
  ops,       \* ops[h]: operations h began
  closing,   \* closing[c]: how far CloseWithCode is
  emptying,  \* emptying[r]: how far Room.Close is
  leaving,   \* leaving[r]: connections whose OnLeave RemoveAll has yet to call
  shut,      \* how far Shutdown is
  doomed,    \* connections that Shutdown closes
  heard      \* heard[r][c]: the last hook of r that was called with c,
             \* or "late" if what it said was not so any more

calls == <<at, room, ops>>
tables == <<keys, rooms, members>>
vars == <<uses, tables, onClose, listeners, calls, closing, emptying, leaving, shut,
          doomed, heard>>

Init ==
  /\ uses \in Uses
  /\ keys = <<>>
  /\ rooms = [k \in Keys |-> None]
  /\ members = [r \in 1..MaxRooms |-> {}]
  /\ onClose = [c \in Conns |-> None]
  /\ listeners = [c \in Conns |-> 0]
  /\ at = [h \in Handlers |-> "idle"]
  /\ room = [h \in Handlers |-> None]
  /\ ops = [h \in Handlers |-> 0]
  /\ closing = [c \in Conns |-> "no"]
  /\ emptying = [r \in 1..MaxRooms |-> "no"]
  /\ leaving = [r \in 1..MaxRooms |-> {}]
  /\ shut = "no"
  /\ doomed = {}
  /\ heard = [r \in 1..MaxRooms |-> [c \in Conns |-> "none"]]

MuFree == shut # "closing"                           \* rm.mu
OnCloseMuFree(c) == closing[c] # "leaving"           \* conn.onCloseMu
Hooked == "nohooks" \notin uses

Busy(c) == \E h \in Handlers : ConnOf[h] = c /\ at[h] # "idle"
Go(h, p, q) == at[h] = p /\ at' = [at EXCEPT ![h] = q]

(* The hooks: OnJoin and OnLeave, called with no lock of the room held.    *)
Tells(r, c, hook, now) ==
  /\ "hookgets" \in uses => MuFree
  /\ heard' = IF Hooked THEN [heard EXCEPT ![r][c] = IF now THEN hook ELSE "late"] ELSE heard

Joined(r, c) == Tells(r, c, "join", c \in members[r])
Left(r, c) == Tells(r, c, "leave", c \notin members[r])

-----------------------------------------------------------------------------
(* Handlers.                                                               *)

Begin(h, op) ==
  /\ ops[h] < MaxOps[uses][h] /\ ops' = [ops EXCEPT ![h] = @ + 1]
  /\ Go(h, "idle", op)
  /\ "unaware" \in uses \/ closing[ConnOf[h]] = "no"

NewRoom(k) == /\ Len(keys) < MaxRooms
              /\ keys' = Append(keys, k)
              /\ rooms' = [rooms EXCEPT ![k] = Len(keys) + 1]

\* Mutant: the room that exists is not looked up.
AddRoomAgain(h, k) ==
  /\ MuFree /\ Begin(h, "insert") /\ room[h] = None
  /\ NewRoom(k) /\ room' = [room EXCEPT ![h] = Len(keys) + 1]
  /\ UNCHANGED <<members, onClose, listeners, closing, emptying, leaving, shut, doomed, heard>>

(* RoomManager.Add: the first half of RoomManager.Connect.  A handler adds *)
(* a connection that is in no room of its own; else it moves it.           *)
AddRoom(h, k) ==
  /\ MuFree /\ Begin(h, "insert") /\ room[h] = None
  /\ \/ /\ rooms[k] # None /\ room' = [room EXCEPT ![h] = rooms[k]]
        /\ UNCHANGED <<keys, rooms>>
     \/ /\ rooms[k] = None /\ NewRoom(k)
        /\ room' = [room EXCEPT ![h] = Len(keys) + 1]
  /\ UNCHANGED <<members, onClose, listeners, closing, emptying, leaving, shut, doomed, heard>>

(* Room.Add, its five steps.                                               *)
Insert(h) ==
  /\ Go(h, "insert", "sethook")
  /\ members' = [members EXCEPT ![room[h]] = @ \cup {ConnOf[h]}]
  /\ UNCHANGED <<keys, rooms, onClose, listeners, room, ops, closing, emptying, leaving,
                 shut, doomed, heard>>

SetHook(h) ==
  /\ OnCloseMuFree(ConnOf[h]) /\ Go(h, "sethook", "check")
  /\ onClose' = [onClose EXCEPT ![ConnOf[h]] = room[h]]
  /\ UNCHANGED <<tables, listeners, room, ops, closing, emptying, leaving, shut, doomed,
                 heard>>

\* Mutant: a queue that exists is replaced.
CheckQueueNot(h) ==
  /\ Go(h, "check", "make")
  /\ UNCHANGED <<tables, onClose, listeners, room, ops, closing, emptying, leaving, shut,
                 doomed, heard>>

(* enableBroadcasting reads broadcastQueue in one step ...                 *)
CheckQueue(h) ==
  /\ \/ listeners[ConnOf[h]] = 0 /\ Go(h, "check", "make")
     \/ listeners[ConnOf[h]] > 0 /\ Go(h, "check", "onjoin")
  /\ UNCHANGED <<tables, onClose, listeners, room, ops, closing, emptying, leaving, shut,
                 doomed, heard>>

(* ... and sets it in another.                                             *)
MakeQueue(h) ==
  /\ Go(h, "make", "onjoin")
  /\ listeners' = [listeners EXCEPT ![ConnOf[h]] = @ + 1]
  /\ UNCHANGED <<tables, onClose, room, ops, closing, emptying, leaving, shut, doomed, heard>>

OnJoin(h) ==
  /\ Go(h, "onjoin", "idle") /\ Joined(room[h], ConnOf[h])
  /\ UNCHANGED <<tables, onClose, listeners, room, ops, closing, emptying, leaving, shut, doomed>>

\* Mutant: Move enters the other room and does not leave this one.
RemoveLate(h) ==
  /\ room[h] # None
  /\ \/ "remove" \in uses /\ Begin(h, "onleave")
     \/ "move" \in uses /\ Begin(h, "moveleave")
  /\ UNCHANGED <<tables, onClose, listeners, room, closing, emptying, leaving, shut, doomed, heard>>

(* Room.Remove and the first half of Move, in the room h works on.         *)
Remove(h) ==
  /\ room[h] # None
  /\ \/ "remove" \in uses /\ Begin(h, "onleave")
     \/ "move" \in uses /\ Begin(h, "moveleave")
  /\ members' = [members EXCEPT ![room[h]] = @ \ {ConnOf[h]}]
  /\ UNCHANGED <<keys, rooms, onClose, listeners, room, closing, emptying, leaving, shut,
                 doomed, heard>>

OnLeave(h) ==
  /\ Go(h, "onleave", "idle") \/ Go(h, "moveleave", "get")
  /\ Left(room[h], ConnOf[h])
  /\ UNCHANGED <<tables, onClose, listeners, room, ops, closing, emptying, leaving, shut, doomed>>

(* The second half of Move(conn, k) is Add, if the room exists.            *)
MoveGet(h, k) ==
  /\ MuFree
  /\ \/ /\ rooms[k] = None /\ Go(h, "get", "idle") /\ UNCHANGED room
     \/ /\ rooms[k] # None /\ Go(h, "get", "insert")
        /\ room' = [room EXCEPT ![h] = rooms[k]]
  /\ UNCHANGED <<tables, onClose, listeners, ops, closing, emptying, leaving, shut, doomed, heard>>

Handler(h) ==
  /\ \/ \E k \in Keys : AddRoom(h, k) \/ MoveGet(h, k)
     \/ Insert(h) \/ SetHook(h) \/ CheckQueue(h) \/ MakeQueue(h) \/ OnJoin(h)
     \/ Remove(h) \/ OnLeave(h)
  /\ UNCHANGED uses

(* An operation that began goes on.                                        *)
HandlerGoesOn(h) == at[h] # "idle" /\ Handler(h)

-----------------------------------------------------------------------------
(* CloseWithCode, from here: done and raw are closed, then the hook runs   *)
(* with onCloseMu held.                                                    *)

CloseBegin(c) ==
  /\ closing[c] = "no" /\ closing' = [closing EXCEPT ![c] = "done"]
  /\ \/ "early" \in uses
     \/ onClose[c] # None /\ ~Busy(c)
     \/ c \in doomed
  /\ UNCHANGED <<uses, tables, onClose, listeners, calls, emptying, leaving, shut, doomed, heard>>

CloseNoHook(c) ==
  /\ onClose[c] = None
  /\ closing[c] = "done" /\ closing' = [closing EXCEPT ![c] = "closed"]
  /\ UNCHANGED <<tables, onClose, listeners, calls, emptying, leaving, shut, doomed, heard>>

\* Mutant: the hook tells OnLeave and forgets the room.
CloseRemoveKeeps(c) ==
  /\ onClose[c] # None
  /\ closing[c] = "done" /\ closing' = [closing EXCEPT ![c] = "leaving"]
  /\ UNCHANGED <<tables, onClose, listeners, calls, emptying, leaving, shut, doomed, heard>>

CloseRemove(c) ==
  /\ onClose[c] # None
  /\ closing[c] = "done" /\ closing' = [closing EXCEPT ![c] = "leaving"]
  /\ members' = [members EXCEPT ![onClose[c]] = @ \ {c}]
  /\ UNCHANGED <<keys, rooms, onClose, listeners, calls, emptying, leaving, shut, doomed, heard>>

\* Mutant: the room that lost its connection is looked up under rm.mu.
CloseLeaveLocked(c) ==
  /\ closing[c] = "leaving" /\ closing' = [closing EXCEPT ![c] = "closed"]
  /\ MuFree /\ Left(onClose[c], c)
  /\ UNCHANGED <<tables, onClose, listeners, calls, emptying, leaving, shut, doomed>>

\* Mutant: OnLeave is not called.
CloseLeaveSilent(c) ==
  /\ closing[c] = "leaving" /\ closing' = [closing EXCEPT ![c] = "closed"]
  /\ UNCHANGED <<tables, onClose, listeners, calls, emptying, leaving, shut, doomed, heard>>

CloseLeave(c) ==
  /\ closing[c] = "leaving" /\ closing' = [closing EXCEPT ![c] = "closed"]
  /\ Left(onClose[c], c)
  /\ UNCHANGED <<tables, onClose, listeners, calls, emptying, leaving, shut, doomed>>

CloseGoesOn(c) ==
  (CloseNoHook(c) \/ CloseRemove(c) \/ CloseLeave(c)) /\ UNCHANGED uses

-----------------------------------------------------------------------------
(* Room.Close: RemoveAll, then the room goes off the map.                  *)

RemoveAll(r) ==
  /\ "closeroom" \in uses /\ r <= Len(keys)
  /\ emptying[r] = "no" \/ (emptying[r] = "closed" /\ "reclose" \in uses)
  /\ emptying' = [emptying EXCEPT ![r] = "leaving"]
  /\ leaving' = [leaving EXCEPT ![r] = members[r]]
  /\ members' = [members EXCEPT ![r] = {}]
  /\ UNCHANGED <<uses, keys, rooms, onClose, listeners, calls, closing, shut, doomed, heard>>

(* RemoveAll calls r.OnLeave without looking whether it is set.            *)
RemoveAllLeave(r, c) ==
  /\ emptying[r] = "leaving" /\ c \in leaving[r]
  /\ \/ /\ Hooked /\ leaving' = [leaving EXCEPT ![r] = @ \ {c}]
        /\ UNCHANGED emptying
     \/ /\ ~Hooked /\ emptying' = [emptying EXCEPT ![r] = "panic"]
        /\ UNCHANGED leaving
  /\ Left(r, c)
  /\ UNCHANGED <<tables, onClose, listeners, calls, closing, shut, doomed>>

\* Mutant: the room stays on the map.
DeleteNothing(r) ==
  /\ emptying[r] = "leaving" /\ leaving[r] = {} /\ MuFree
  /\ emptying' = [emptying EXCEPT ![r] = "closed"]
  /\ UNCHANGED <<tables, onClose, listeners, calls, closing, leaving, shut, doomed, heard>>

DeleteRoom(r) ==
  /\ emptying[r] = "leaving" /\ leaving[r] = {} /\ MuFree
  /\ emptying' = [emptying EXCEPT ![r] = "closed"]
  /\ rooms' = [rooms EXCEPT ![keys[r]] = None]
  /\ UNCHANGED <<keys, members, onClose, listeners, calls, closing, leaving, shut, doomed, heard>>

RoomCloseGoesOn(r) ==
  (DeleteRoom(r) \/ \E c \in Conns : RemoveAllLeave(r, c)) /\ UNCHANGED uses

-----------------------------------------------------------------------------
(* Shutdown.  rm.mu is held from the first step to the last.  All rooms    *)
(* are locked while their members are handed to the workers, so that is    *)
(* one step; the workers are CloseBegin of the doomed and what follows it. *)

Listed == {rooms[k] : k \in Keys} \ {None}

ShutdownBegin ==
  /\ "shutdown" \in uses /\ shut = "no" /\ shut' = "closing"
  /\ doomed' = UNION {members[r] : r \in Listed}
  /\ rooms' = [k \in Keys |-> None]
  /\ UNCHANGED <<uses, keys, members, onClose, listeners, calls, closing, emptying, leaving,
                 heard>>

ShutdownEnd ==
  /\ shut = "closing" /\ shut' = "over"
  /\ \A c \in doomed : closing[c] = "closed"
  /\ UNCHANGED <<uses, tables, onClose, listeners, calls, closing, emptying, leaving, doomed,
                 heard>>

Next ==
  \/ \E h \in Handlers : Handler(h)
  \/ \E c \in Conns : CloseBegin(c) \/ CloseGoesOn(c)
  \/ \E r \in 1..MaxRooms : RemoveAll(r) \/ RoomCloseGoesOn(r)
  \/ ShutdownBegin \/ ShutdownEnd

Spec == Init /\ [][Next]_vars

(* Goroutines that can run do; nobody has to begin anything, but Shutdown  *)
(* has workers for the doomed.                                             *)
FairSpec ==
  /\ Spec
  /\ \A h \in Handlers : WF_vars(HandlerGoesOn(h))
  /\ \A c \in Conns : WF_vars(CloseGoesOn(c)) /\ WF_vars(c \in doomed /\ CloseBegin(c))
  /\ \A r \in 1..MaxRooms : WF_vars(RoomCloseGoesOn(r))
  /\ WF_vars(ShutdownEnd)
-----------------------------------------------------------------------------
(* The handlers that have worked on c.                                     *)
Workers(c) == {h \in Handlers : ConnOf[h] = c /\ ops[h] > 0}

(* The values of the variables.  A connection has one listener for each of *)
(* its handlers at most: of the handlers that find no queue, each makes    *)
(* one.                                                                    *)
TypeOK ==
  /\ uses \in Uses
  /\ keys \in Seq(Keys) /\ Len(keys) <= MaxRooms
  /\ rooms \in [Keys -> 0..Len(keys)]
  /\ members \in [1..MaxRooms -> SUBSET Conns]
  /\ onClose \in [Conns -> 0..Len(keys)]
  /\ \A c \in Conns : listeners[c] \in 0..Cardinality(Workers(c))
  /\ at \in [Handlers -> {"idle", "insert", "sethook", "check", "make", "onjoin",
                          "onleave", "moveleave", "get"}]
  /\ room \in [Handlers -> 0..Len(keys)]
  /\ ops \in [Handlers -> Nat] /\ \A h \in Handlers : ops[h] <= MaxOps[uses][h]
  /\ closing \in [Conns -> {"no", "done", "leaving", "closed"}]
  /\ emptying \in [1..MaxRooms -> {"no", "leaving", "panic", "closed"}]
  /\ leaving \in [1..MaxRooms -> SUBSET Conns]
  /\ shut \in {"no", "closing", "over"}
  /\ doomed \subseteq Conns
  /\ heard \in [1..MaxRooms -> [Conns -> {"none", "join", "leave", "late"}]]

Made == 1..Len(keys)

(* Handlers that move their connection keep it in one room at most, each,  *)
(* whatever closes, is closed or shuts down in between: who leaves a room  *)
(* leaves nothing behind that is in no handler's room.                     *)
OneRoomAtATime ==
  \A c \in Conns :
    Cardinality({r \in Made : c \in members[r]}) <= Cardinality(Workers(c))

(* OnJoin and OnLeave tell the application who is in a room: once the      *)
(* operations that began are over, the last hook that it heard of a room   *)
(* and a connection says whether the connection is in the room.  (Unless   *)
(* it was not so already when the hook was called: an OnLeave, by          *)
(* CloseWithCode, Room.Close or another handler, may overtake the OnJoin   *)
(* of the same connection, or an OnJoin the OnLeave before it.)            *)
HooksFollowMembers ==
  \A r \in Made, c \in Conns :
    /\ Hooked /\ ~Busy(c) /\ closing[c] # "leaving" /\ emptying[r] # "leaving"
    /\ heard[r][c] # "late"
    => (heard[r][c] = "join") = (c \in members[r])

(* "Connect ... a single atomic operation": a connection that is in a room *)
(* is found through the RoomManager by the key of that room, until a       *)
(* Room.Close is called for this key.                                      *)
LostOnlyToRoomClose ==
  \A r \in Made :
    members[r] # {} /\ shut = "no" =>
      \/ rooms[keys[r]] = r
      \/ \E q \in Made : keys[q] = keys[r] /\ emptying[q] # "no"

(* A handler of c that is about to add it to a room, and to set the hook.  *)
ToAdd(c) == \E h \in Workers(c) : at[h] \in {"insert", "sethook", "moveleave", "get"}

(* A connection with one handler leaves its rooms when it closes, and for  *)
(* good, at whatever moment it closes but while it is moved, or added to a *)
(* room: CloseWithCode may read onClose before Room.Add has set it.        *)
ClosedLeavesRooms ==
  \A c \in Conns :
    closing[c] = "done" /\ ~ToAdd(c) /\ Cardinality(Workers(c)) = 1 /\ "unaware" \notin uses
      ~> [](\A r \in Made : c \notin members[r])

(* rooms_manager.go:224: "The connection will be automatically removed     *)
(* from the room when it closes."  (Where nobody begins to work on a       *)
(* connection that has closed.)                                            *)
RemovedWhenClosed ==
  \A c \in Conns :
    closing[c] = "closed" /\ ~Busy(c) /\ "unaware" \notin uses
      => \A r \in Made : c \notin members[r]

(* Shutdown returns, unless a hook waits for the manager that it has       *)
(* locked, and every connection that was in a listed room when it took the *)
(* lock is closed then.  Room.Close of a room with hooks ends with the     *)
(* room off the map, also when handlers add connections to it, Shutdown    *)
(* holds the manager or hooks use it meanwhile.                            *)
CallsReturn ==
  /\ shut = "closing" /\ "hookgets" \notin uses
       ~> shut = "over" /\ \A c \in doomed : closing[c] = "closed"
  /\ \A r \in 1..MaxRooms :
       Hooked /\ emptying[r] # "no" /\ ~({"hookgets", "shutdown"} \subseteq uses)
         ~> emptying[r] = "closed" /\ rooms[keys[r]] # r
=============================================================================

---------------------------- MODULE RoomsProofs ----------------------------
(***************************************************************************)
(* What TLAPS proves of Rooms, for any connections, handlers and keys, and *)
(* any number of rooms and operations.                                     *)
(***************************************************************************)
EXTENDS Rooms, FiniteSetTheorems, TLAPS

Rms == 1..MaxRooms
Joining == {"sethook", "check", "make", "onjoin"}
Leaving == {"onleave", "moveleave"}

(* The types.                                                              *)
TableTypes ==
  /\ uses \in Uses
  /\ keys \in Seq(Keys) /\ Len(keys) <= MaxRooms /\ rooms \in [Keys -> 0..Len(keys)]
  /\ members \in [Rms -> SUBSET Conns] /\ onClose \in [Conns -> 0..Len(keys)]
HandlerTypes ==
  /\ at \in [Handlers -> {"idle", "insert", "get"} \cup Joining \cup Leaving]
  /\ room \in [Handlers -> 0..Len(keys)] /\ ops \in [Handlers -> Nat]
  /\ \A h \in Handlers : ops[h] <= MaxOps[uses][h]
CloseTypes ==
  /\ closing \in [Conns -> {"no", "done", "leaving", "closed"}]
  /\ emptying \in [Rms -> {"no", "leaving", "panic", "closed"}]
  /\ leaving \in [Rms -> SUBSET Conns]
  /\ shut \in {"no", "closing", "over"} /\ doomed \subseteq Conns
  /\ heard \in [Rms -> [Conns -> {"none", "join", "leave", "late"}]]
Typed == TableTypes /\ HandlerTypes /\ CloseTypes

(* A handler has a room while it works on one, and a hook that runs too;   *)
(* it has neither a room nor work before it began an operation.  A room    *)
(* that is or was closed has been made, and only while it is closed        *)
(* somebody's OnLeave is still to be called.                               *)
PlaceInv ==
  /\ \A h \in Handlers : room[h] # None \/ at[h] # "idle" => ops[h] > 0
  /\ \A h \in Handlers : at[h] \in {"insert"} \cup Joining \cup Leaving => room[h] # None
  /\ \A c \in Conns : closing[c] = "leaving" => onClose[c] # None
  /\ \A r \in Rms : /\ emptying[r] # "no" => r <= Len(keys)
                    /\ leaving[r] # {} => emptying[r] \in {"leaving", "panic"}

(* The map has a room under its key; a room that is not on the map has     *)
(* been closed, or another of its key.                                     *)
Lost(r) == \E q \in Made : keys[q] = keys[r] /\ emptying[q] # "no"
KeyInv ==
  /\ \A k \in Keys : rooms[k] # None => keys[rooms[k]] = k
  /\ shut = "no" => \A r \in Made : rooms[keys[r]] = r \/ Lost(r)

RoomsInv == Typed /\ PlaceInv /\ KeyInv

(* Who is in a room was put there by a handler that has it for its room    *)
(* since, between Insert and Remove.                                       *)
Keeps(h, r) == room[h] = r /\ at[h] \notin {"insert", "get"} \cup Leaving
MemberInv ==
  \A r \in Rms : \A c \in members[r] : \E h \in Handlers : ConnOf[h] = c /\ Keeps(h, r)

(* Handlers that are about to make a queue and to start its listener.      *)
Makers(c) == {h \in Handlers : ConnOf[h] = c /\ at[h] = "make"}
QueueInv ==
  /\ listeners \in [Conns -> Nat]
  /\ \A c \in Conns : listeners[c] + Cardinality(Makers(c)) <= Cardinality(Workers(c))

(* Who is about to tell the application that c left r, or joined it.       *)
LeaveDue(r, c) ==
  \/ \E h \in Handlers : ConnOf[h] = c /\ room[h] = r /\ at[h] \in Leaving
  \/ c \in leaving[r] /\ emptying[r] = "leaving"
  \/ closing[c] = "leaving" /\ onClose[c] = r
JoinDue(r, c) == \E h \in Handlers : ConnOf[h] = c /\ room[h] = r /\ at[h] \in Joining

(* What the application heard is so, or about to be put right, or was not  *)
(* so already when it heard it.                                            *)
Told(r, c) ==
  /\ heard[r][c] = "join" => c \in members[r] \/ LeaveDue(r, c)
  /\ heard[r][c] \in {"none", "leave"} => c \notin members[r] \/ JoinDue(r, c)
ToldInv == Hooked => \A r \in Rms : \A c \in Conns : Told(r, c)

IInv == RoomsInv /\ MemberInv /\ QueueInv /\ ToldInv

-----------------------------------------------------------------------------
(* The steps, by what they change.                                         *)

(* A hook tells what is in the types.                                      *)
LEMMA HeardTyped ==
  ASSUME CloseTypes, NEW r, NEW c, Joined(r, c) \/ Left(r, c)
  PROVE  heard' \in [Rms -> [Conns -> {"none", "join", "leave", "late"}]]
BY DEF CloseTypes, Joined, Left, Tells

(* A step of a handler counts it among those that work.                    *)
Counted(h) ==
  \/ UNCHANGED ops /\ ops[h] > 0
  \/ ops[h] < MaxOps[uses][h] /\ ops' = [ops EXCEPT ![h] = @ + 1]

(* A handler's step leaves the other handlers alone.                       *)
LEMMA HandlerStep ==
  ASSUME RoomsInv, NEW h \in Handlers, Handler(h)
  PROVE  /\ \A g \in Handlers \ {h} : UNCHANGED <<at[g], room[g]>>
         /\ UNCHANGED <<uses, closing, emptying, leaving, shut, doomed>>
         /\ ConnOf[h] \in Conns
         /\ \A r \in 1..Len(keys) : r \in 1..Len(keys') /\ keys'[r] = keys[r]
<1>1. UNCHANGED <<uses, closing, emptying, leaving, shut, doomed>>
  BY DEF Handler, AddRoom, MoveGet, Insert, SetHook, CheckQueue, MakeQueue, OnJoin, Remove, OnLeave
<1>2. ConnOf[h] \in Conns
  BY RoomsAssumption DEF RoomsAssumption
<1>3. \A g \in Handlers \ {h} : UNCHANGED <<at[g], room[g]>>
  BY DEF Handler, AddRoom, MoveGet, Insert, SetHook, CheckQueue, MakeQueue, OnJoin, Remove,
         OnLeave, Begin, Go, RoomsInv, Typed, HandlerTypes
<1>4. \A r \in 1..Len(keys) : r \in 1..Len(keys') /\ keys'[r] = keys[r]
  <2>1. keys' = keys \/ \E k \in Keys : keys' = Append(keys, k)
    BY DEF Handler, AddRoom, NewRoom, MoveGet, Insert, SetHook, CheckQueue, MakeQueue, OnJoin,
           Remove, OnLeave, tables
  <2>2. keys \in Seq(Keys)
    BY DEF RoomsInv, Typed, TableTypes
  <2> QED  BY <2>1, <2>2
<1> QED  BY <1>1, <1>2, <1>3, <1>4

(* Its operations stay within their bound.                                 *)
LEMMA CountedTypes ==
  ASSUME HandlerTypes, uses \in Uses, NEW h \in Handlers, Counted(h)
  PROVE  /\ ops' \in [Handlers -> Nat] /\ ops'[h] > 0
         /\ \A g \in Handlers : (ops[g] > 0 => ops'[g] > 0) /\ ops'[g] <= MaxOps[uses][g]
<1>1. /\ ops \in [Handlers -> Nat] /\ MaxOps[uses] \in [Handlers -> Nat]
      /\ \A g \in Handlers : ops[g] <= MaxOps[uses][g]
  BY RoomsAssumption DEF RoomsAssumption, HandlerTypes
<1> QED  BY <1>1 DEF Counted

(* A handler's step keeps the tables.                                      *)
LEMMA HandlerKeeps ==
  ASSUME RoomsInv, NEW h \in Handlers, Handler(h)
  PROVE  Typed' /\ PlaceInv' /\ KeyInv'
<1> DEFINE c == ConnOf[h]   n == Len(keys)
<1>1. /\ UNCHANGED <<uses, closing, emptying, leaving, shut, doomed>> /\ c \in Conns
      /\ \A g \in Handlers \ {h} : UNCHANGED <<at[g], room[g]>>
  BY HandlerStep
<1>2. /\ TableTypes /\ HandlerTypes /\ CloseTypes /\ PlaceInv /\ KeyInv
      /\ n \in Nat /\ MaxRooms \in Nat /\ n <= MaxRooms
  BY RoomsAssumption DEF RoomsAssumption, RoomsInv, Typed, TableTypes
<1> HIDE DEF c
<1>3. ASSUME UNCHANGED <<keys, rooms>>,
             NEW l \in {"idle", "insert", "get"} \cup Joining \cup Leaving, NEW x \in 0..n,
             at' = [at EXCEPT ![h] = l], room' = [room EXCEPT ![h] = x],
             Counted(h),
             l \in {"insert"} \cup Joining \cup Leaving => x # None,
             members' \in [Rms -> SUBSET Conns], onClose' \in [Conns -> 0..n],
             \A d \in Conns : closing[d] = "leaving" => onClose'[d] = onClose[d],
             heard' \in [Rms -> [Conns -> {"none", "join", "leave", "late"}]]
      PROVE  Typed' /\ PlaceInv' /\ KeyInv'
  <2>0. /\ ops' \in [Handlers -> Nat] /\ ops'[h] > 0
        /\ \A g \in Handlers : (ops[g] > 0 => ops'[g] > 0) /\ ops'[g] <= MaxOps[uses][g]
    BY <1>2, <1>3, CountedTypes DEF TableTypes
  <2>1. Typed'
    BY <1>1, <1>2, <1>3, <2>0 DEF Typed, TableTypes, HandlerTypes, CloseTypes
  <2>2. PlaceInv'
    BY <1>1, <1>2, <1>3, <2>0 DEF PlaceInv, HandlerTypes
  <2>3. KeyInv'
    BY <1>1, <1>2, <1>3 DEF KeyInv, Lost, Made
  <2> QED  BY <2>1, <2>2, <2>3
<1>4. /\ members \in [Rms -> SUBSET Conns] /\ onClose \in [Conns -> 0..n]
      /\ heard \in [Rms -> [Conns -> {"none", "join", "leave", "late"}]]
      /\ room[h] \in 0..n /\ room = [room EXCEPT ![h] = room[h]]
      /\ n \in 0..MaxRooms /\ rooms \in [Keys -> 0..n] /\ \A r \in 0..n : r = None \/ r \in Rms
  BY <1>2 DEF TableTypes, HandlerTypes, CloseTypes, Rms, None
<1> HIDE DEF n
<1>5. /\ \A l : Begin(h, l) => Counted(h) /\ at' = [at EXCEPT ![h] = l]
      /\ at[h] # "idle" /\ UNCHANGED ops => Counted(h)
  BY <1>2 DEF Begin, Go, Counted, PlaceInv
<1>6. ASSUME NEW k \in Keys, AddRoom(h, k)
      PROVE  Typed' /\ PlaceInv' /\ KeyInv'
  <2>1. /\ at' = [at EXCEPT ![h] = "insert"] /\ Counted(h)
        /\ UNCHANGED <<members, onClose, heard>>
    BY <1>5, <1>6 DEF AddRoom
  <2>2. CASE rooms[k] # None /\ room' = [room EXCEPT ![h] = rooms[k]] /\ UNCHANGED <<keys, rooms>>
    <3> DEFINE x == rooms[k]
    <3>1. x \in 0..n /\ x # None /\ room' = [room EXCEPT ![h] = x]
      BY <1>4, <2>2
    <3> HIDE DEF x
    <3> QED  BY <1>3, <1>4, <2>1, <2>2, <3>1
  <2>3. CASE rooms[k] = None /\ NewRoom(k) /\ room' = [room EXCEPT ![h] = Len(keys) + 1]
    <3>1. /\ n < MaxRooms /\ keys' = Append(keys, k) /\ rooms' = [rooms EXCEPT ![k] = n + 1]
          /\ room' = [room EXCEPT ![h] = n + 1]
      BY <2>3 DEF NewRoom, n
    <3>2. /\ keys' \in Seq(Keys) /\ Len(keys') = n + 1 /\ keys'[n + 1] = k
          /\ \A r \in 1..n : keys'[r] = keys[r]
      BY <1>2, <3>1 DEF TableTypes, n
    <3>3. n + 1 <= MaxRooms /\ n + 1 \in 0..(n + 1) /\ n + 1 # None /\ 0..n \subseteq 0..(n + 1)
          /\ n + 1 \in Nat
      BY <1>2, <1>4, <3>1 DEF None
    <3>4. /\ rooms' \in [Keys -> 0..(n + 1)] /\ room' \in [Handlers -> 0..(n + 1)]
          /\ onClose' \in [Conns -> 0..(n + 1)]
      BY <1>2, <1>4, <2>1, <3>1, <3>3 DEF HandlerTypes, n
    <3>0. /\ ops' \in [Handlers -> Nat] /\ ops'[h] > 0
          /\ \A g \in Handlers : (ops[g] > 0 => ops'[g] > 0) /\ ops'[g] <= MaxOps[uses][g]
      BY <1>2, <2>1, CountedTypes DEF TableTypes
    <3>5. Typed'
      BY <1>1, <1>2, <2>1, <3>0, <3>2, <3>3, <3>4 DEF Typed, TableTypes, HandlerTypes, CloseTypes
    <3>6. PlaceInv'
      <4>1. \A g \in Handlers : at'[g] \in {"insert"} \cup Joining \cup Leaving => room'[g] # None
        BY <1>2, <2>1, <3>1, <3>3 DEF PlaceInv, HandlerTypes
      <4>2. \A r \in Rms : emptying'[r] # "no" => r <= Len(keys')
        BY <1>1, <1>2, <3>2, <3>3 DEF PlaceInv, Rms, n
      <4>3. \A g \in Handlers : room'[g] # None \/ at'[g] # "idle" => ops'[g] > 0
        BY <1>1, <1>2, <3>0 DEF PlaceInv
      <4> QED  BY <1>1, <1>2, <2>1, <4>1, <4>2, <4>3 DEF PlaceInv
    <3>7. KeyInv'
      <4>1. \A j \in Keys : rooms'[j] # None => keys'[rooms'[j]] = j
        <5> SUFFICES ASSUME NEW j \in Keys, rooms'[j] # None PROVE keys'[rooms'[j]] = j
          OBVIOUS
        <5>1. CASE j = k
          BY <1>4, <3>1, <3>2, <5>1
        <5>2. CASE j # k
          <6>1. rooms'[j] = rooms[j] /\ rooms[j] \in 1..n /\ keys[rooms[j]] = j
            BY <1>2, <1>4, <3>1, <5>2 DEF KeyInv, None
          <6> QED  BY <3>2, <6>1
        <5> QED  BY <5>1, <5>2
      <4>2. ASSUME shut' = "no", NEW r \in 1..(n + 1)
            PROVE  rooms'[keys'[r]] = r \/ \E q \in 1..(n + 1) : keys'[q] = keys'[r] /\ emptying'[q] # "no"
        <5>1. CASE r = n + 1
          BY <1>4, <3>1, <3>2, <5>1
        <5>2. CASE r # n + 1
          <6>1. r \in 1..n /\ keys'[r] = keys[r] /\ 1..n \subseteq 1..(n + 1)
            BY <1>2, <3>2, <5>2
          <6>2. rooms[keys[r]] = r \/ \E q \in 1..n : keys[q] = keys[r] /\ emptying[q] # "no"
            BY <1>1, <1>2, <4>2, <6>1 DEF KeyInv, Lost, Made, n
          <6>3. CASE rooms[keys[r]] = r
            <7>1. keys[r] # k /\ keys[r] \in Keys
              BY <1>2, <2>3, <6>1, <6>3 DEF TableTypes, None, n
            <7> QED  BY <1>4, <3>1, <6>1, <6>3, <7>1
          <6>4. CASE \E q \in 1..n : keys[q] = keys[r] /\ emptying[q] # "no"
            BY <1>1, <3>2, <6>1, <6>4
          <6> QED  BY <6>2, <6>3, <6>4
        <5> QED  BY <5>1, <5>2
      <4> QED  BY <3>2, <4>1, <4>2 DEF KeyInv, Lost, Made
    <3> QED  BY <3>5, <3>6, <3>7
  <2> QED  BY <1>6, <2>2, <2>3 DEF AddRoom
<1>7. CASE Insert(h)
  <2>1. /\ at[h] = "insert" /\ at' = [at EXCEPT ![h] = "sethook"]
        /\ members' = [members EXCEPT ![room[h]] = @ \cup {c}]
        /\ UNCHANGED <<keys, rooms, onClose, room, ops, heard>>
    BY <1>7 DEF Insert, Go, c
  <2>2. room[h] # None /\ Counted(h)
    BY <1>2, <1>5, <2>1 DEF PlaceInv
  <2>3. members' \in [Rms -> SUBSET Conns]
    BY <1>1, <1>4, <2>1
  <2> QED  BY <1>3, <1>4, <2>1, <2>2, <2>3 DEF Joining
<1>8. CASE SetHook(h)
  <2>1. /\ at[h] = "sethook" /\ at' = [at EXCEPT ![h] = "check"] /\ closing[c] # "leaving"
        /\ onClose' = [onClose EXCEPT ![c] = room[h]]
        /\ UNCHANGED <<keys, rooms, members, room, ops, heard>>
    BY <1>8 DEF SetHook, Go, OnCloseMuFree, tables, c
  <2>2. room[h] # None /\ Counted(h)
    BY <1>2, <1>5, <2>1 DEF PlaceInv, Joining
  <2>3. /\ onClose' \in [Conns -> 0..n]
        /\ \A d \in Conns : closing[d] = "leaving" => onClose'[d] = onClose[d]
    BY <1>1, <1>4, <2>1
  <2> QED  BY <1>3, <1>4, <2>1, <2>2, <2>3 DEF Joining
<1>9. CASE CheckQueue(h) \/ MakeQueue(h)
  <2>1. /\ at[h] \in {"check", "make"} /\ \E l \in {"make", "onjoin"} : at' = [at EXCEPT ![h] = l]
        /\ UNCHANGED <<keys, rooms, members, onClose, room, ops, heard>>
    BY <1>9 DEF CheckQueue, MakeQueue, Go, tables
  <2>2. room[h] # None /\ Counted(h)
    BY <1>2, <1>5, <2>1 DEF PlaceInv, Joining
  <2> QED  BY <1>3, <1>4, <2>1, <2>2 DEF Joining
<1>10. (\E r, d : Joined(r, d) \/ Left(r, d))
         => heard' \in [Rms -> [Conns -> {"none", "join", "leave", "late"}]]
  BY <1>2, HeardTyped
<1>11. CASE OnJoin(h) \/ OnLeave(h)
  <2>1. /\ \E l \in {"idle", "get"} : at' = [at EXCEPT ![h] = l]
        /\ at[h] # "idle"
        /\ \E r, d : Joined(r, d) \/ Left(r, d)
        /\ UNCHANGED <<keys, rooms, members, onClose, room, ops>>
    BY <1>11 DEF OnJoin, OnLeave, Go, tables
  <2>2. Counted(h)
    BY <1>5, <2>1
  <2> QED  BY <1>3, <1>4, <1>10, <2>1, <2>2 DEF Joining, Leaving
<1>12. CASE Remove(h)
  <2>1. /\ \E l \in Leaving : at' = [at EXCEPT ![h] = l]
        /\ Counted(h) /\ room[h] # None
        /\ members' = [members EXCEPT ![room[h]] = @ \ {c}]
        /\ UNCHANGED <<keys, rooms, onClose, room, heard>>
    BY <1>5, <1>12 DEF Remove, Leaving, c
  <2>2. members' \in [Rms -> SUBSET Conns]
    BY <1>4, <2>1
  <2> QED  BY <1>3, <1>4, <2>1, <2>2 DEF Leaving
<1>13. ASSUME NEW k \in Keys, MoveGet(h, k)
       PROVE  Typed' /\ PlaceInv' /\ KeyInv'
  <2>1. UNCHANGED <<keys, rooms, members, onClose, ops, heard>> /\ Counted(h)
    BY <1>5, <1>13 DEF MoveGet, Go, tables
  <2>2. CASE at' = [at EXCEPT ![h] = "idle"] /\ UNCHANGED room
    BY <1>3, <1>4, <2>1, <2>2 DEF Joining, Leaving
  <2>3. CASE rooms[k] # None /\ at' = [at EXCEPT ![h] = "insert"] /\ room' = [room EXCEPT ![h] = rooms[k]]
    <3> DEFINE x == rooms[k]
    <3>1. x \in 0..n /\ x # None /\ room' = [room EXCEPT ![h] = x]
      BY <1>4, <2>3
    <3> HIDE DEF x
    <3> QED  BY <1>3, <1>4, <2>1, <2>3, <3>1
  <2> QED  BY <1>13, <2>2, <2>3 DEF MoveGet, Go
<1> QED  BY <1>6, <1>7, <1>8, <1>9, <1>11, <1>12, <1>13 DEF Handler

(* A step of CloseWithCode.                                                *)
LEMMA CloseKeeps ==
  ASSUME RoomsInv, NEW c \in Conns, CloseBegin(c) \/ CloseGoesOn(c)
  PROVE  /\ RoomsInv'
         /\ UNCHANGED <<uses, keys, rooms, onClose, listeners, calls, emptying, leaving>>
<1>1. TableTypes /\ HandlerTypes /\ CloseTypes /\ PlaceInv /\ KeyInv
  BY DEF RoomsInv, Typed
<1>2. UNCHANGED <<uses, keys, rooms, onClose, listeners, calls, emptying, leaving, shut, doomed>>
  BY DEF CloseBegin, CloseGoesOn, CloseNoHook, CloseRemove, CloseLeave, tables
<1>3. UNCHANGED <<at, room, ops>>
  BY <1>2 DEF calls
<1>4. /\ closing' \in [Conns -> {"no", "done", "leaving", "closed"}]
      /\ \A d \in Conns : closing'[d] = "leaving" => closing[d] = "leaving" \/ onClose[d] # None
  <2>1. \E l \in {"done", "closed", "leaving"} :
          closing' = [closing EXCEPT ![c] = l] /\ (l = "leaving" => onClose[c] # None)
    BY DEF CloseBegin, CloseGoesOn, CloseNoHook, CloseRemove, CloseLeave
  <2> QED  BY <1>1, <2>1 DEF CloseTypes
<1>5. members' \in [Rms -> SUBSET Conns]
  <2>1. members' = members \/ members' = [members EXCEPT ![onClose[c]] = @ \ {c}]
    BY DEF CloseBegin, CloseGoesOn, CloseNoHook, CloseRemove, CloseLeave, tables
  <2> QED  BY <1>1, <2>1 DEF TableTypes
<1>6. heard' \in [Rms -> [Conns -> {"none", "join", "leave", "late"}]]
  <2>1. heard' = heard \/ Left(onClose[c], c)
    BY DEF CloseBegin, CloseGoesOn, CloseNoHook, CloseRemove, CloseLeave
  <2> QED  BY <1>1, <2>1, HeardTyped DEF CloseTypes
<1>7. Typed'
  BY <1>1, <1>2, <1>3, <1>4, <1>5, <1>6 DEF Typed, TableTypes, HandlerTypes, CloseTypes
<1>8. PlaceInv'
  BY <1>1, <1>2, <1>3, <1>4 DEF PlaceInv
<1>9. KeyInv'
  BY <1>1, <1>2 DEF KeyInv, Lost, Made
<1> QED  BY <1>2, <1>7, <1>8, <1>9 DEF RoomsInv

(* A step of Room.Close.                                                   *)
LEMMA RoomCloseKeeps ==
  ASSUME RoomsInv, NEW r \in 1..MaxRooms, RemoveAll(r) \/ RoomCloseGoesOn(r)
  PROVE  RoomsInv' /\ UNCHANGED <<uses, keys, onClose, listeners, calls, closing>>
<1>1. /\ TableTypes /\ HandlerTypes /\ CloseTypes /\ PlaceInv /\ KeyInv
      /\ r \in Rms /\ Len(keys) \in Nat
  BY DEF RoomsInv, Typed, TableTypes, Rms
<1>2. UNCHANGED <<uses, keys, onClose, listeners, calls, closing, shut, doomed>>
  BY DEF RemoveAll, RoomCloseGoesOn, DeleteRoom, RemoveAllLeave, tables
<1>3. UNCHANGED <<at, room, ops>>
  BY <1>2 DEF calls
<1>4. CASE RemoveAll(r)
  <2>1. /\ emptying' = [emptying EXCEPT ![r] = "leaving"] /\ r <= Len(keys)
        /\ leaving' = [leaving EXCEPT ![r] = members[r]]
        /\ members' = [members EXCEPT ![r] = {}] /\ UNCHANGED <<rooms, heard>>
    BY <1>4 DEF RemoveAll
  <2>2. Typed'
    BY <1>1, <1>2, <1>3, <2>1 DEF Typed, TableTypes, HandlerTypes, CloseTypes
  <2>3. PlaceInv'
    BY <1>1, <1>2, <1>3, <2>1 DEF PlaceInv, CloseTypes
  <2>4. KeyInv'
    BY <1>1, <1>2, <2>1 DEF KeyInv, Lost, Made, CloseTypes, Rms
  <2> QED  BY <1>2, <2>2, <2>3, <2>4 DEF RoomsInv
<1>5. ASSUME NEW c \in Conns, RemoveAllLeave(r, c)
      PROVE  RoomsInv'
  <2>1. /\ emptying[r] = "leaving"
        /\ leaving' \in {leaving, [leaving EXCEPT ![r] = @ \ {c}]}
        /\ emptying' \in {emptying, [emptying EXCEPT ![r] = "panic"]}
        /\ Left(r, c) /\ UNCHANGED <<rooms, members>>
    BY <1>5 DEF RemoveAllLeave, tables
  <2>2. heard' \in [Rms -> [Conns -> {"none", "join", "leave", "late"}]]
    BY <1>1, <2>1, HeardTyped
  <2>3. Typed'
    <3>1. leaving' \in [Rms -> SUBSET Conns]
      BY <1>1, <2>1 DEF CloseTypes
    <3>2. emptying' \in [Rms -> {"no", "leaving", "panic", "closed"}]
      BY <1>1, <2>1 DEF CloseTypes
    <3>3. CloseTypes'
      BY <1>1, <1>2, <2>2, <3>1, <3>2 DEF CloseTypes
    <3>4. TableTypes' /\ HandlerTypes'
      BY <1>1, <1>2, <1>3, <2>1 DEF TableTypes, HandlerTypes
    <3> QED  BY <3>3, <3>4 DEF Typed
  <2>4. PlaceInv'
    BY <1>1, <1>2, <1>3, <2>1 DEF PlaceInv, CloseTypes
  <2>5. \A q \in Rms : emptying[q] # "no" => emptying'[q] # "no"
    BY <1>1, <2>1 DEF CloseTypes
  <2>6. KeyInv'
    <3>1. Len(keys) <= MaxRooms /\ MaxRooms \in Nat
      BY <1>1, RoomsAssumption DEF RoomsAssumption, TableTypes
    <3> QED  BY <1>1, <1>2, <2>1, <2>5, <3>1 DEF KeyInv, Lost, Made, Rms
  <2> QED  BY <1>2, <2>3, <2>4, <2>6 DEF RoomsInv
<1>6. CASE DeleteRoom(r)
  <2>1. /\ emptying[r] = "leaving" /\ leaving[r] = {}
        /\ emptying' = [emptying EXCEPT ![r] = "closed"]
        /\ rooms' = [rooms EXCEPT ![keys[r]] = None]
        /\ UNCHANGED <<members, leaving, heard>>
    BY <1>6 DEF DeleteRoom
  <2>2. r \in 1..Len(keys) /\ keys[r] \in Keys
    BY <1>1, <2>1 DEF PlaceInv, TableTypes
  <2>3. Typed'
    <3>1. CloseTypes'
      BY <1>1, <1>2, <2>1 DEF CloseTypes
    <3>2. rooms' \in [Keys -> 0..Len(keys)]
      <4>1. None \in 0..Len(keys)
        BY <1>1 DEF None
      <4>2. rooms \in [Keys -> 0..Len(keys)]
        BY <1>1 DEF TableTypes
      <4> QED  BY <2>1, <4>1, <4>2
    <3>3. TableTypes' /\ HandlerTypes'
      BY <1>1, <1>2, <1>3, <2>1, <3>2 DEF TableTypes, HandlerTypes
    <3> QED  BY <3>1, <3>3 DEF Typed
  <2>4. PlaceInv'
    BY <1>1, <1>2, <1>3, <2>1 DEF PlaceInv, CloseTypes
  <2>5. \A q \in Rms : emptying[q] # "no" => emptying'[q] # "no"
    BY <1>1, <2>1 DEF CloseTypes
  <2>6. KeyInv'
    <3>1. \A k \in Keys : rooms'[k] # None => keys'[rooms'[k]] = k
      BY <1>1, <1>2, <2>1 DEF KeyInv, TableTypes
    <3>2. ASSUME shut = "no", NEW q \in 1..Len(keys)
          PROVE  rooms'[keys[q]] = q \/ \E p \in 1..Len(keys) : keys[p] = keys[q] /\ emptying'[p] # "no"
      <4>1. CASE keys[q] = keys[r]
        BY <1>1, <2>1, <2>2, <4>1 DEF CloseTypes
      <4>2. CASE keys[q] # keys[r]
        <5>1. keys[q] \in Keys /\ rooms'[keys[q]] = rooms[keys[q]]
          BY <1>1, <2>1, <4>2 DEF TableTypes
        <5>2. \A p \in 1..Len(keys) : p \in Rms
          BY <1>1, RoomsAssumption DEF RoomsAssumption, TableTypes, Rms
        <5> QED  BY <1>1, <2>5, <3>2, <5>1, <5>2 DEF KeyInv, Lost, Made
      <4> QED  BY <4>1, <4>2
    <3> QED  BY <1>2, <3>1, <3>2 DEF KeyInv, Lost, Made
  <2> QED  BY <1>2, <2>3, <2>4, <2>6 DEF RoomsInv
<1> QED  BY <1>2, <1>4, <1>5, <1>6 DEF RoomCloseGoesOn

(* A step of Shutdown.                                                     *)
LEMMA ShutdownKeeps ==
  ASSUME RoomsInv, ShutdownBegin \/ ShutdownEnd
  PROVE  RoomsInv' /\ UNCHANGED <<uses, keys, members, onClose, listeners, calls, closing,
                                  emptying, leaving, heard>>
<1>1. TableTypes /\ HandlerTypes /\ CloseTypes /\ PlaceInv /\ KeyInv /\ Len(keys) \in Nat
  BY DEF RoomsInv, Typed, TableTypes
<1>2. UNCHANGED <<uses, keys, members, onClose, listeners, calls, closing, emptying, leaving,
                  heard>>
  BY DEF ShutdownBegin, ShutdownEnd, tables
<1>3. UNCHANGED <<at, room, ops>>
  BY <1>2 DEF calls
<1>4. shut' \in {"closing", "over"} /\ (UNCHANGED rooms \/ rooms' = [k \in Keys |-> None])
  BY DEF ShutdownBegin, ShutdownEnd, tables
<1>5. doomed' \subseteq Conns
  <2>1. CASE ShutdownBegin
    <3>1. doomed' = UNION {members[r] : r \in Listed}
      BY <2>1 DEF ShutdownBegin
    <3>2. \A r \in Listed : r \in Rms
      BY <1>1, RoomsAssumption DEF RoomsAssumption, Listed, TableTypes, Rms, None
    <3> QED  BY <1>1, <3>1, <3>2 DEF TableTypes
  <2>2. CASE ShutdownEnd
    BY <1>1, <2>2 DEF ShutdownEnd, CloseTypes
  <2> QED  BY <2>1, <2>2
<1>6. Typed'
  BY <1>1, <1>2, <1>3, <1>4, <1>5 DEF Typed, TableTypes, HandlerTypes, CloseTypes, None
<1>7. PlaceInv'
  BY <1>1, <1>2, <1>3 DEF PlaceInv
<1>8. KeyInv'
  BY <1>1, <1>2, <1>4 DEF KeyInv
<1> QED  BY <1>2, <1>6, <1>7, <1>8 DEF RoomsInv

(* The invariant of the tables is inductive, for any handlers.             *)
LEMMA InitRooms == Init => RoomsInv
<1> SUFFICES ASSUME Init PROVE RoomsInv
  OBVIOUS
<1> USE DEF Init
<1>1. MaxRooms \in Nat /\ uses \in Uses /\ MaxOps[uses] \in [Handlers -> Nat]
  BY RoomsAssumption DEF RoomsAssumption
<1>2. Typed
  BY <1>1 DEF Typed, TableTypes, HandlerTypes, CloseTypes, Rms, None
<1>3. PlaceInv
  BY DEF PlaceInv, Joining, Leaving, Rms
<1>4. KeyInv
  BY DEF KeyInv, Made
<1> QED  BY <1>2, <1>3, <1>4 DEF RoomsInv

(* Every step keeps RoomsInv.                                              *)
LEMMA NextRooms ==
  ASSUME RoomsInv, [Next]_vars
  PROVE  RoomsInv'
<1>1. CASE UNCHANGED vars
  <2>1. Typed'
    BY <1>1 DEF RoomsInv, Typed, TableTypes, HandlerTypes, CloseTypes, vars, tables, calls
  <2>2. PlaceInv'
    BY <1>1 DEF RoomsInv, PlaceInv, vars, tables, calls
  <2>3. KeyInv'
    BY <1>1 DEF RoomsInv, KeyInv, Lost, Made, vars, tables
  <2> QED  BY <2>1, <2>2, <2>3 DEF RoomsInv
<1>2. ASSUME NEW h \in Handlers, Handler(h) PROVE RoomsInv'
  BY <1>2, HandlerKeeps DEF RoomsInv
<1> QED  BY <1>1, <1>2, CloseKeeps, RoomCloseKeeps, ShutdownKeeps DEF Next

-----------------------------------------------------------------------------
(* Members, listeners and hooks, whoever works on a connection.            *)

(* What a step of h keeps in place of what it had.                         *)
LEMMA HandlerPlaces ==
  ASSUME IInv, NEW h \in Handlers, Handler(h)
  PROVE  /\ TableTypes /\ HandlerTypes /\ CloseTypes /\ PlaceInv
         /\ HandlerTypes' /\ PlaceInv'
         /\ \A l : at' = [at EXCEPT ![h] = l] => at'[h] = l
         /\ room[h] # None => room[h] \in Rms
<1>1. TableTypes /\ HandlerTypes /\ CloseTypes /\ PlaceInv
  BY DEF IInv, RoomsInv, Typed
<1>2. HandlerTypes' /\ PlaceInv'
  BY HandlerKeeps DEF IInv, Typed
<1>3. room[h] # None => room[h] \in Rms
  BY <1>1, RoomsAssumption DEF RoomsAssumption, HandlerTypes, TableTypes, Rms, None
<1> QED  BY <1>1, <1>2, <1>3 DEF HandlerTypes

(* After a hook the application knows, or the hook was late.               *)
LEMMA HeardNow ==
  ASSUME RoomsInv, Hooked, NEW r \in Rms, NEW c \in Conns, UNCHANGED members,
         Joined(r, c) \/ Left(r, c)
  PROVE  Told(r, c)'
BY DEF RoomsInv, Typed, CloseTypes, Joined, Left, Tells, Told

(* A handler's step keeps a handler for every member.                      *)
LEMMA HandlerMembers ==
  ASSUME IInv, NEW h \in Handlers, Handler(h)
  PROVE  MemberInv'
<1> DEFINE c == ConnOf[h]
<1>1. c \in Conns /\ \A g \in Handlers \ {h} : UNCHANGED <<at[g], room[g]>>
  BY HandlerStep DEF IInv
<1>2. /\ TableTypes /\ HandlerTypes /\ MemberInv
      /\ \A l : at' = [at EXCEPT ![h] = l] => at'[h] = l
  BY HandlerPlaces DEF IInv
<1> SUFFICES ASSUME NEW r \in Rms, NEW d \in members'[r]
             PROVE  \E g \in Handlers : ConnOf[g] = d /\ Keeps(g, r)'
  BY DEF MemberInv
<1>3. ASSUME d \in members[r], ~(d = c /\ Keeps(h, r))
      PROVE  \E g \in Handlers : ConnOf[g] = d /\ Keeps(g, r)'
  <2>1. PICK g \in Handlers \ {h} : ConnOf[g] = d /\ Keeps(g, r)
    BY <1>2, <1>3 DEF MemberInv
  <2> QED  BY <1>1, <2>1 DEF Keeps
<1>4. CASE \E k \in Keys : AddRoom(h, k)
  <2>1. UNCHANGED members /\ room[h] = None
    BY <1>4 DEF AddRoom
  <2> QED  BY <1>3, <2>1 DEF Keeps, Rms, None
<1>5. CASE (\E k \in Keys : MoveGet(h, k)) \/ OnLeave(h)
  <2>1. UNCHANGED members /\ at[h] \in {"get"} \cup Leaving
    BY <1>5 DEF MoveGet, OnLeave, Go, tables, Leaving
  <2> QED  BY <1>3, <2>1 DEF Keeps
<1>6. CASE Insert(h)
  <2>1. /\ members' = [members EXCEPT ![room[h]] = @ \cup {c}] /\ at'[h] = "sethook"
        /\ UNCHANGED room /\ at[h] = "insert"
    BY <1>2, <1>6 DEF Insert, Go, c
  <2>2. CASE d \in members[r]
    BY <1>3, <2>1, <2>2 DEF Keeps
  <2>3. CASE d \notin members[r]
    <3>1. r = room[h] /\ d = c
      BY <1>2, <2>1, <2>3 DEF TableTypes
    <3> QED  BY <2>1, <3>1 DEF Keeps, Leaving, c
  <2> QED  BY <2>2, <2>3
<1>7. CASE SetHook(h) \/ CheckQueue(h) \/ MakeQueue(h) \/ OnJoin(h)
  <2>1. UNCHANGED <<members, room>> /\ at'[h] \in Joining \cup {"idle"}
    BY <1>2, <1>7 DEF SetHook, CheckQueue, MakeQueue, OnJoin, Go, tables, Joining
  <2>2. Keeps(h, r) => Keeps(h, r)'
    BY <2>1 DEF Keeps, Joining, Leaving
  <2> QED  BY <1>3, <2>1, <2>2 DEF c
<1>8. CASE Remove(h)
  <2>1. members' = [members EXCEPT ![room[h]] = @ \ {c}]
    BY <1>8 DEF Remove, c
  <2> QED  BY <1>2, <1>3, <2>1 DEF TableTypes, Keeps
<1> QED  BY <1>4, <1>5, <1>6, <1>7, <1>8 DEF Handler

(* Handlers are finitely many.                                             *)
LEMMA SomeHandlers ==
  ASSUME NEW S, NEW T, S \subseteq T, T \subseteq Handlers
  PROVE  /\ IsFiniteSet(S) /\ Cardinality(S) \in Nat /\ Cardinality(T) \in Nat
         /\ Cardinality(S) <= Cardinality(T)
<1>1. IsFiniteSet(T)
  BY RoomsAssumption, FS_Subset DEF RoomsAssumption
<1> QED  BY <1>1, FS_Subset, FS_CardinalityType

(* A handler makes a queue for its connection at most once for its         *)
(* operation.                                                              *)
LEMMA HandlerQueues ==
  ASSUME IInv, NEW h \in Handlers, Handler(h)
  PROVE  QueueInv'
<1> DEFINE c == ConnOf[h]
<1>1. c \in Conns /\ \A g \in Handlers \ {h} : UNCHANGED <<at[g], room[g]>>
  BY HandlerStep DEF IInv
<1>2. /\ HandlerTypes /\ QueueInv /\ HandlerTypes' /\ PlaceInv' /\ TableTypes
      /\ \A l : at' = [at EXCEPT ![h] = l] => at'[h] = l
  BY HandlerPlaces DEF IInv
<1>3. \A d : Makers(d) \subseteq Handlers /\ Workers(d) \subseteq Handlers /\ Workers(d)' \subseteq Handlers
  BY DEF Makers, Workers
<1>4. \A d : Workers(d) \subseteq Workers(d)'
  <2>1. UNCHANGED ops \/ ops' = [ops EXCEPT ![h] = @ + 1]
    BY DEF Handler, AddRoom, MoveGet, Insert, SetHook, CheckQueue, MakeQueue, OnJoin, Remove,
           OnLeave, Begin
  <2>2. ops \in [Handlers -> Nat]
    BY <1>2 DEF HandlerTypes
  <2>3. \A g \in Handlers : ops[g] > 0 => ops'[g] > 0
    BY <2>1, <2>2
  <2> QED  BY <2>3 DEF Workers
<1>5. ASSUME NEW d \in Conns, listeners'[d] = listeners[d], Makers(d)' \subseteq Makers(d)
      PROVE  listeners'[d] + Cardinality(Makers(d)') <= Cardinality(Workers(d)')
  <2>1. Cardinality(Makers(d)') <= Cardinality(Makers(d)) /\ Cardinality(Workers(d)) <= Cardinality(Workers(d)')
    BY <1>3, <1>4, <1>5, SomeHandlers
  <2>2. /\ Cardinality(Makers(d)') \in Nat /\ Cardinality(Makers(d)) \in Nat
        /\ Cardinality(Workers(d)) \in Nat /\ Cardinality(Workers(d)') \in Nat
    BY <1>3, <1>4, <1>5, SomeHandlers
  <2>3. listeners[d] + Cardinality(Makers(d)) <= Cardinality(Workers(d)) /\ listeners[d] \in Nat
    BY <1>2 DEF QueueInv
  <2> QED  BY <1>5, <2>1, <2>2, <2>3
<1>6. \A d \in Conns : d # c => Makers(d)' = Makers(d)
  BY <1>1 DEF Makers
<1>7. CASE at'[h] # "make" /\ UNCHANGED listeners
  <2>1. \A d \in Conns : Makers(d)' \subseteq Makers(d)
    BY <1>1, <1>7 DEF Makers
  <2> QED  BY <1>2, <1>5, <1>7, <2>1 DEF QueueInv
<1>8. CASE CheckQueue(h) /\ at'[h] = "make"
  <2>1. UNCHANGED listeners /\ listeners[c] = 0
    BY <1>2, <1>8 DEF CheckQueue, Go
  <2>2. Makers(c)' \subseteq Workers(c)'
    BY <1>2 DEF Makers, Workers, PlaceInv
  <2>3. listeners'[c] + Cardinality(Makers(c)') <= Cardinality(Workers(c)')
    BY <1>3, <2>1, <2>2, SomeHandlers
  <2> QED  BY <1>2, <1>5, <1>6, <2>1, <2>3 DEF QueueInv
<1>9. CASE MakeQueue(h)
  <2>1. at[h] = "make" /\ at'[h] = "onjoin" /\ listeners' = [listeners EXCEPT ![c] = @ + 1]
    BY <1>2, <1>9 DEF MakeQueue, Go
  <2>2. Makers(c)' = Makers(c) \ {h} /\ h \in Makers(c)
    BY <1>1, <2>1 DEF Makers
  <2>3. Cardinality(Makers(c)') = Cardinality(Makers(c)) - 1
    BY <1>3, <2>2, SomeHandlers, FS_RemoveElement
  <2>4. /\ Cardinality(Makers(c)) \in Nat /\ Cardinality(Workers(c)) \in Nat
        /\ Cardinality(Workers(c)') \in Nat /\ Cardinality(Workers(c)) <= Cardinality(Workers(c)')
    BY <1>3, <1>4, SomeHandlers
  <2>5. /\ listeners'[c] = listeners[c] + 1 /\ listeners[c] \in Nat
        /\ listeners[c] + Cardinality(Makers(c)) <= Cardinality(Workers(c))
    BY <1>1, <1>2, <2>1 DEF QueueInv
  <2>6. listeners'[c] + Cardinality(Makers(c)') <= Cardinality(Workers(c)')
    <3> DEFINE m == Cardinality(Makers(c))   m1 == Cardinality(Makers(c)')
               w == Cardinality(Workers(c))  w1 == Cardinality(Workers(c)')
               l == listeners[c]             l1 == listeners'[c]
    <3>1. /\ m \in Nat /\ w \in Nat /\ w1 \in Nat /\ w <= w1 /\ m1 = m - 1 /\ l1 = l + 1 /\ l \in Nat
          /\ l + m <= w
      BY <2>3, <2>4, <2>5
    <3> HIDE DEF m, m1, w, w1, l, l1
    <3>2. l1 + m1 <= w1
      BY <3>1
    <3> QED  BY <3>2 DEF m1, w1, l1
  <2>7. listeners' \in [Conns -> Nat] /\ \A d \in Conns : d # c => listeners'[d] = listeners[d]
    <3>1. listeners \in [Conns -> Nat]
      BY <1>2 DEF QueueInv
    <3> HIDE DEF c
    <3> QED  BY <1>1, <2>1, <3>1
  <2>8. \A d \in Conns : d # c => listeners'[d] + Cardinality(Makers(d)') <= Cardinality(Workers(d)')
    BY <1>5, <1>6, <2>7
  <2> QED  BY <2>6, <2>7, <2>8 DEF QueueInv
<1>10. UNCHANGED listeners \/ MakeQueue(h)
  BY DEF Handler, AddRoom, MoveGet, Insert, SetHook, CheckQueue, OnJoin, Remove, OnLeave
<1>11. at'[h] = "make" => CheckQueue(h) \/ MakeQueue(h)
  BY <1>2 DEF Handler, AddRoom, MoveGet, Insert, SetHook, OnJoin, Remove, OnLeave, Begin, Go
<1> QED  BY <1>7, <1>8, <1>9, <1>10, <1>11

(* A handler's step puts right what was heard of its connection and room.  *)
LEMMA HandlerTells ==
  ASSUME IInv, NEW h \in Handlers, Handler(h)
  PROVE  ToldInv'
<1> DEFINE c == ConnOf[h]   p == room[h]
<1>1. /\ c \in Conns /\ UNCHANGED <<uses, closing, emptying, leaving>>
      /\ \A g \in Handlers \ {h} : UNCHANGED <<at[g], room[g]>>
  BY HandlerStep DEF IInv
<1>2. /\ TableTypes /\ CloseTypes /\ PlaceInv /\ (p # None => p \in Rms)
      /\ \A l : at' = [at EXCEPT ![h] = l] => at'[h] = l
  BY HandlerPlaces
<1> SUFFICES ASSUME Hooked, NEW r \in Rms, NEW d \in Conns, Told(r, d)
             PROVE  Told(r, d)'
  BY <1>1 DEF IInv, ToldInv, Hooked
<1>3. ASSUME ~(ConnOf[h] = d /\ room[h] = r /\ at[h] \in Joining), JoinDue(r, d) PROVE JoinDue(r, d)'
  BY <1>1, <1>3 DEF JoinDue
<1>4. ASSUME ~(ConnOf[h] = d /\ room[h] = r /\ at[h] \in Leaving), LeaveDue(r, d) PROVE LeaveDue(r, d)'
  <2>1. closing[d] = "leaving" /\ onClose[d] = r => onClose'[d] = r
    <3>1. \/ closing[c] # "leaving" /\ onClose' = [onClose EXCEPT ![c] = room[h]]
          \/ UNCHANGED onClose
      BY DEF Handler, AddRoom, MoveGet, Insert, SetHook, OnCloseMuFree, CheckQueue, MakeQueue,
             OnJoin, Remove, OnLeave, tables
    <3> QED  BY <1>1, <1>2, <3>1 DEF TableTypes
  <2>2. \A g \in Handlers \ {h} : at'[g] = at[g] /\ room'[g] = room[g]
    BY <1>1
  <2>3. (\E g \in Handlers : ConnOf[g] = d /\ room[g] = r /\ at[g] \in Leaving)
          => \E g \in Handlers : ConnOf[g] = d /\ room'[g] = r /\ at'[g] \in Leaving
    BY <1>4, <2>2
  <2> QED  BY <1>1, <1>4, <2>1, <2>3 DEF LeaveDue
<1>5. ASSUME UNCHANGED <<members, heard>>,
             at[h] \in Joining /\ d = c /\ r = p => at'[h] \in Joining /\ UNCHANGED room,
             ~(d = c /\ r = p /\ at[h] \in Leaving)
      PROVE  Told(r, d)'
  <2>1. JoinDue(r, d) => JoinDue(r, d)'
    <3>1. CASE d = c /\ r = p /\ at[h] \in Joining
      BY <1>5, <3>1 DEF JoinDue
    <3> QED  BY <1>3, <3>1
  <2>2. LeaveDue(r, d) => LeaveDue(r, d)'
    BY <1>4, <1>5
  <2> QED  BY <1>5, <2>1, <2>2 DEF Told
<1>6. CASE \E k \in Keys : AddRoom(h, k) \/ MoveGet(h, k)
  <2>1. UNCHANGED <<members, heard>> /\ at[h] \in {"idle", "get"}
    BY <1>6 DEF AddRoom, MoveGet, Begin, Go, tables
  <2> QED  BY <1>5, <2>1 DEF Joining, Leaving
<1>7. CASE SetHook(h) \/ CheckQueue(h) \/ MakeQueue(h)
  <2>1. UNCHANGED <<members, heard, room>> /\ at[h] \in Joining /\ at'[h] \in Joining
    BY <1>2, <1>7 DEF SetHook, CheckQueue, MakeQueue, Go, tables, Joining
  <2> QED  BY <1>5, <2>1 DEF Joining, Leaving
<1>8. CASE Insert(h)
  <2>1. /\ members' = [members EXCEPT ![p] = @ \cup {c}] /\ UNCHANGED <<heard, room>>
        /\ at[h] = "insert" /\ at'[h] = "sethook"
    BY <1>2, <1>8 DEF Insert, Go
  <2>2. CASE d = c /\ r = p
    <3>1. c \in members'[p] /\ JoinDue(r, d)'
      BY <1>2, <2>1, <2>2 DEF TableTypes, JoinDue, Joining
    <3> QED  BY <2>2, <3>1 DEF Told
  <2>3. CASE ~(d = c /\ r = p)
    <3>1. d \in members'[r] <=> d \in members[r]
      BY <1>2, <2>1, <2>3 DEF TableTypes
    <3>2. (JoinDue(r, d) => JoinDue(r, d)') /\ (LeaveDue(r, d) => LeaveDue(r, d)')
      BY <1>3, <1>4, <2>3
    <3> QED  BY <2>1, <3>1, <3>2 DEF Told
  <2> QED  BY <2>2, <2>3
<1>9. CASE Remove(h)
  <2>1. /\ members' = [members EXCEPT ![p] = @ \ {c}] /\ UNCHANGED <<heard, room>>
        /\ at[h] = "idle" /\ at'[h] \in Leaving
    BY <1>2, <1>9 DEF Remove, Begin, Go, Leaving
  <2>2. CASE d = c /\ r = p
    <3>1. c \notin members'[p] /\ LeaveDue(r, d)'
      BY <1>2, <2>1, <2>2 DEF TableTypes, LeaveDue
    <3> QED  BY <2>2, <3>1 DEF Told
  <2>3. CASE ~(d = c /\ r = p)
    <3>1. d \in members'[r] <=> d \in members[r]
      BY <1>2, <2>1, <2>3 DEF TableTypes
    <3>2. (JoinDue(r, d) => JoinDue(r, d)') /\ (LeaveDue(r, d) => LeaveDue(r, d)')
      BY <1>3, <1>4, <2>3
    <3> QED  BY <2>1, <3>1, <3>2 DEF Told
  <2> QED  BY <2>2, <2>3
<1>10. CASE OnJoin(h) \/ OnLeave(h)
  <2>1. UNCHANGED members /\ (Joined(p, c) \/ Left(p, c))
    BY <1>10 DEF OnJoin, OnLeave, tables
  <2>2. CASE d = c /\ r = p
    BY <2>1, <2>2, HeardNow DEF IInv
  <2>3. CASE ~(d = c /\ r = p)
    <3>1. heard'[r][d] = heard[r][d]
      BY <1>2, <2>1, <2>3 DEF Joined, Left, Tells, CloseTypes
    <3>2. (JoinDue(r, d) => JoinDue(r, d)') /\ (LeaveDue(r, d) => LeaveDue(r, d)')
      BY <1>3, <1>4, <2>3
    <3> QED  BY <2>1, <3>1, <3>2 DEF Told
  <2> QED  BY <2>2, <2>3
<1> QED  BY <1>6, <1>7, <1>8, <1>9, <1>10 DEF Handler

(* A step that no handler takes keeps what is said of handlers.            *)
LEMMA OthersOwn ==
  ASSUME IInv, UNCHANGED <<calls, listeners>>, \A r \in Rms : members'[r] \subseteq members[r]
  PROVE  MemberInv' /\ QueueInv'
<1>1. UNCHANGED <<at, room, ops>>
  BY DEF calls
<1>2. MemberInv'
  BY <1>1 DEF IInv, MemberInv, Keeps
<1>3. \A d : Makers(d)' = Makers(d) /\ Workers(d)' = Workers(d)
  BY <1>1 DEF Makers, Workers
<1>4. QueueInv'
  BY <1>3 DEF IInv, QueueInv
<1> QED  BY <1>2, <1>4

(* CloseWithCode tells OnLeave of the room that it has removed c from.     *)
LEMMA CloseOwn ==
  ASSUME IInv, NEW c \in Conns, CloseBegin(c) \/ CloseGoesOn(c)
  PROVE  MemberInv' /\ QueueInv' /\ ToldInv'
<1> DEFINE p == onClose[c]
<1>1. UNCHANGED <<uses, keys, rooms, onClose, listeners, calls, emptying, leaving>>
  BY CloseKeeps DEF IInv
<1>2. TableTypes /\ CloseTypes /\ PlaceInv
  BY DEF IInv, RoomsInv, Typed
<1>3. \A r, d : JoinDue(r, d)' = JoinDue(r, d)
  BY <1>1 DEF JoinDue, calls
<1>4. ASSUME NEW r, NEW d, LeaveDue(r, d), closing[d] = "leaving" => closing'[d] = "leaving"
      PROVE  LeaveDue(r, d)'
  BY <1>1, <1>4 DEF LeaveDue, calls
<1> SUFFICES /\ \A r \in Rms : members'[r] \subseteq members[r]
             /\ \A r \in Rms, d \in Conns : Hooked /\ Told(r, d) => Told(r, d)'
  BY <1>1, OthersOwn DEF IInv, ToldInv, Hooked
<1>5. CASE CloseBegin(c) \/ CloseNoHook(c)
  <2>1. /\ UNCHANGED <<members, heard>> /\ closing[c] # "leaving"
        /\ closing' \in {[closing EXCEPT ![c] = "done"], [closing EXCEPT ![c] = "closed"]}
    BY <1>5 DEF CloseBegin, CloseNoHook, tables
  <2>2. \A d \in Conns : closing[d] = "leaving" => closing'[d] = "leaving"
    BY <1>2, <2>1 DEF CloseTypes
  <2> QED  BY <1>3, <1>4, <2>1, <2>2 DEF Told
<1>6. CASE CloseRemove(c)
  <2>1. /\ UNCHANGED heard /\ closing' = [closing EXCEPT ![c] = "leaving"]
        /\ members' = [members EXCEPT ![p] = @ \ {c}]
    BY <1>6 DEF CloseRemove
  <2>2. \A r \in Rms : members'[r] \subseteq members[r]
    BY <1>2, <2>1 DEF TableTypes
  <2>3. closing'[c] = "leaving" /\ \A d \in Conns : closing[d] = "leaving" => closing'[d] = "leaving"
    BY <1>2, <2>1 DEF CloseTypes
  <2>4. ASSUME NEW r \in Rms, NEW d \in Conns, d \in members[r], d \notin members'[r]
        PROVE  LeaveDue(r, d)'
    <3>1. d = c /\ r = p
      BY <1>2, <2>1, <2>4 DEF TableTypes
    <3> QED  BY <1>1, <2>3, <3>1 DEF LeaveDue
  <2> QED  BY <1>3, <1>4, <2>1, <2>2, <2>3, <2>4 DEF Told
<1>7. CASE CloseLeave(c)
  <2>1. UNCHANGED members /\ closing' = [closing EXCEPT ![c] = "closed"] /\ Left(p, c)
    BY <1>7 DEF CloseLeave, tables
  <2>2. ASSUME NEW r \in Rms, NEW d \in Conns, Hooked, Told(r, d)
        PROVE  Told(r, d)'
    <3>1. CASE d = c /\ r = p
      BY <1>1, <2>1, <2>2, <3>1, HeardNow DEF IInv
    <3>2. CASE ~(d = c /\ r = p)
      <4>1. heard'[r][d] = heard[r][d]
        BY <1>2, <2>1, <3>2 DEF Left, Tells, CloseTypes
      <4>2. LeaveDue(r, d) => LeaveDue(r, d)'
        <5>1. closing[d] = "leaving" /\ onClose[d] = r => closing'[d] = "leaving"
          BY <1>2, <2>1, <3>2 DEF CloseTypes
        <5> QED  BY <1>1, <5>1 DEF LeaveDue, calls
      <4> QED  BY <1>3, <2>1, <2>2, <4>1, <4>2 DEF Told
    <3> QED  BY <3>1, <3>2
  <2> QED  BY <2>1, <2>2
<1> QED  BY <1>5, <1>6, <1>7 DEF CloseGoesOn

(* Room.Close tells OnLeave of everybody it has removed.                   *)
LEMMA RoomCloseOwn ==
  ASSUME IInv, NEW p \in 1..MaxRooms, RemoveAll(p) \/ RoomCloseGoesOn(p)
  PROVE  MemberInv' /\ QueueInv' /\ ToldInv'
<1>1. UNCHANGED <<uses, keys, onClose, listeners, calls, closing>>
  BY RoomCloseKeeps DEF IInv
<1>2. TableTypes /\ CloseTypes /\ PlaceInv /\ p \in Rms
  BY DEF IInv, RoomsInv, Typed, Rms
<1>3. \A r, d : JoinDue(r, d)' = JoinDue(r, d)
  BY <1>1 DEF JoinDue, calls
<1>4. ASSUME NEW r, NEW d, LeaveDue(r, d),
             d \in leaving[r] /\ emptying[r] = "leaving"
               => d \in leaving'[r] /\ emptying'[r] = "leaving"
      PROVE  LeaveDue(r, d)'
  BY <1>1, <1>4 DEF LeaveDue, calls
<1> SUFFICES /\ \A r \in Rms : members'[r] \subseteq members[r]
             /\ \A r \in Rms, d \in Conns : Hooked /\ Told(r, d) => Told(r, d)'
  BY <1>1, OthersOwn DEF IInv, ToldInv, Hooked
<1>5. CASE RemoveAll(p)
  <2>1. /\ UNCHANGED heard /\ emptying[p] # "leaving"
        /\ emptying' = [emptying EXCEPT ![p] = "leaving"]
        /\ leaving' = [leaving EXCEPT ![p] = members[p]]
        /\ members' = [members EXCEPT ![p] = {}]
    BY <1>5 DEF RemoveAll
  <2>2. \A r \in Rms : members'[r] \subseteq members[r]
    BY <1>2, <2>1 DEF TableTypes
  <2>3. \A r \in Rms, d \in Conns : LeaveDue(r, d) => LeaveDue(r, d)'
    BY <1>2, <1>4, <2>1 DEF CloseTypes
  <2>4. ASSUME NEW r \in Rms, NEW d \in Conns, d \in members[r], d \notin members'[r]
        PROVE  LeaveDue(r, d)'
    BY <1>2, <2>1, <2>4 DEF TableTypes, CloseTypes, LeaveDue
  <2> QED  BY <1>3, <2>1, <2>2, <2>3, <2>4 DEF Told
<1>6. ASSUME NEW c \in Conns, RemoveAllLeave(p, c), NEW r \in Rms, NEW d \in Conns, Hooked, Told(r, d)
      PROVE  Told(r, d)'
  <2>1. /\ UNCHANGED <<members, emptying>> /\ leaving' = [leaving EXCEPT ![p] = @ \ {c}]
        /\ Left(p, c)
    BY <1>6 DEF RemoveAllLeave, tables
  <2>2. CASE d = c /\ r = p
    BY <1>1, <1>6, <2>1, <2>2, HeardNow DEF IInv
  <2>3. CASE ~(d = c /\ r = p)
    <3>1. heard'[r][d] = heard[r][d]
      BY <1>2, <2>1, <2>3 DEF Left, Tells, CloseTypes
    <3>2. LeaveDue(r, d) => LeaveDue(r, d)'
      BY <1>2, <1>4, <2>1, <2>3 DEF CloseTypes
    <3> QED  BY <1>3, <1>6, <2>1, <3>1, <3>2 DEF Told
  <2> QED  BY <2>2, <2>3
<1>7. CASE DeleteRoom(p)
  <2>1. /\ UNCHANGED <<members, heard, leaving>> /\ leaving[p] = {}
        /\ emptying' = [emptying EXCEPT ![p] = "closed"]
    BY <1>7 DEF DeleteRoom
  <2>2. \A r \in Rms, d \in Conns : LeaveDue(r, d) => LeaveDue(r, d)'
    BY <1>2, <1>4, <2>1 DEF CloseTypes
  <2> QED  BY <1>3, <2>1, <2>2 DEF Told
<1>8. ASSUME NEW c \in Conns, RemoveAllLeave(p, c) PROVE UNCHANGED members
  BY <1>8 DEF RemoveAllLeave, tables
<1> QED  BY <1>5, <1>6, <1>7, <1>8 DEF RoomCloseGoesOn

(* Nothing happens to what handlers do, to members and hooks.              *)
LEMMA KeepsOwn ==
  ASSUME IInv,
         UNCHANGED <<uses, members, onClose, listeners, calls, closing, emptying, leaving, heard>>
  PROVE  MemberInv' /\ QueueInv' /\ ToldInv'
<1>1. \A r, d : LeaveDue(r, d)' = LeaveDue(r, d) /\ JoinDue(r, d)' = JoinDue(r, d)
  BY DEF LeaveDue, JoinDue, calls
<1>2. ToldInv'
  BY <1>1 DEF IInv, ToldInv, Told, Hooked
<1> QED  BY <1>2, OthersOwn

-----------------------------------------------------------------------------
(* The whole invariant is inductive.                                       *)
LEMMA InitInv == Init => IInv
<1> SUFFICES ASSUME Init PROVE IInv
  OBVIOUS
<1>1. RoomsInv
  BY InitRooms
<1> USE DEF Init
<1>2. MemberInv
  BY DEF MemberInv, Rms
<1>3. QueueInv
  <2> SUFFICES ASSUME NEW c \in Conns
               PROVE  Cardinality(Makers(c)) <= Cardinality(Workers(c))
    <3>1. \A c \in Conns : listeners[c] = 0 /\ Cardinality(Makers(c)) \in Nat
      BY SomeHandlers DEF Makers
    <3> QED  BY <3>1 DEF QueueInv
  <2>1. Makers(c) = {} /\ Workers(c) \subseteq Handlers
    BY DEF Makers, Workers
  <2> QED  BY <2>1, SomeHandlers
<1>4. ToldInv
  BY DEF ToldInv, Told, Rms
<1> QED  BY <1>1, <1>2, <1>3, <1>4 DEF IInv

(* Every step keeps IInv.                                                  *)
LEMMA NextInv ==
  ASSUME IInv, [Next]_vars
  PROVE  IInv'
<1>1. RoomsInv'
  BY NextRooms DEF IInv
<1>2. CASE UNCHANGED vars
  BY <1>1, <1>2, KeepsOwn DEF IInv, vars, tables
<1>3. ASSUME NEW h \in Handlers, Handler(h) PROVE MemberInv' /\ QueueInv' /\ ToldInv'
  BY <1>3, HandlerMembers, HandlerQueues, HandlerTells
<1>4. CASE ShutdownBegin \/ ShutdownEnd
  BY <1>1, <1>4, ShutdownKeeps, KeepsOwn DEF IInv
<1> QED  BY <1>1, <1>2, <1>3, <1>4, CloseOwn, RoomCloseOwn DEF IInv, Next

(* What the invariant says of the properties.                              *)
LEMMA TypesOfRooms == RoomsInv /\ QueueInv => TypeOK
<1> SUFFICES ASSUME RoomsInv, QueueInv PROVE TypeOK
  OBVIOUS
<1>1. ASSUME NEW c \in Conns PROVE listeners[c] \in 0..Cardinality(Workers(c))
  <2>1. Makers(c) \subseteq Handlers /\ Workers(c) \subseteq Handlers
    BY DEF Makers, Workers
  <2>2. Cardinality(Makers(c)) \in Nat /\ Cardinality(Workers(c)) \in Nat
    BY <2>1, SomeHandlers
  <2> QED  BY <2>2 DEF QueueInv
<1> QED  BY <1>1 DEF RoomsInv, Typed, TableTypes, HandlerTypes, CloseTypes, TypeOK, Rms, Joining, Leaving

(* RoomsInv gives LostOnlyToRoomClose.                                     *)
LEMMA NoLoss == RoomsInv => LostOnlyToRoomClose
  BY DEF RoomsInv, KeyInv, Lost, LostOnlyToRoomClose

(* There are as many rooms with c as handlers that keep them, or fewer.    *)
LEMMA OneRoom == IInv => OneRoomAtATime
<1> SUFFICES ASSUME IInv, NEW c \in Conns
             PROVE  Cardinality({r \in Made : c \in members[r]}) <= Cardinality(Workers(c))
  BY DEF OneRoomAtATime
<1> DEFINE S == {r \in Made : c \in members[r]}
           K == {h \in Workers(c) : room[h] \in S}
           f == [h \in K |-> room[h]]
<1>1. \A r \in Made : r \in Rms /\ r # None
  BY RoomsAssumption DEF RoomsAssumption, IInv, RoomsInv, Typed, TableTypes, Made, Rms, None
<1>2. ASSUME NEW r \in S PROVE \E h \in K : f[h] = r
  <2>1. PICK h \in Handlers : ConnOf[h] = c /\ room[h] = r
    BY <1>1, <1>2 DEF IInv, MemberInv, Keeps
  <2>2. h \in Workers(c)
    BY <1>1, <2>1 DEF IInv, RoomsInv, PlaceInv, Workers
  <2> QED  BY <2>1, <2>2
<1>3. f \in Surjection(K, S)
  BY <1>2 DEF Surjection
<1>4. K \subseteq Workers(c) /\ Workers(c) \subseteq Handlers
  BY DEF Workers
<1>5. IsFiniteSet(K) /\ Cardinality(K) <= Cardinality(Workers(c)) /\ Cardinality(K) \in Nat
      /\ Cardinality(Workers(c)) \in Nat
  BY <1>4, SomeHandlers, FS_CardinalityType
<1>6. IsFiniteSet(S) /\ Cardinality(S) <= Cardinality(K)
  BY <1>3, <1>5, FS_Surjection
<1>7. Cardinality(S) \in Nat
  BY <1>6, FS_CardinalityType
<1> QED  BY <1>5, <1>6, <1>7

(* ToldInv gives HooksFollowMembers.                                       *)
LEMMA HooksTell == IInv => HooksFollowMembers
<1> SUFFICES ASSUME IInv, NEW r \in Made, NEW c \in Conns, Hooked, ~Busy(c),
                    closing[c] # "leaving", emptying[r] # "leaving", heard[r][c] # "late"
             PROVE  (heard[r][c] = "join") <=> (c \in members[r])
  BY DEF HooksFollowMembers
<1>1. r \in Rms
  BY RoomsAssumption DEF RoomsAssumption, IInv, RoomsInv, Typed, TableTypes, Made, Rms
<1>2. Told(r, c) /\ heard[r][c] \in {"none", "join", "leave"}
  BY <1>1 DEF IInv, ToldInv, RoomsInv, Typed, CloseTypes
<1>3. ~LeaveDue(r, c) /\ ~JoinDue(r, c)
  BY DEF Busy, LeaveDue, JoinDue, Joining, Leaving
<1> QED  BY <1>2, <1>3 DEF Told

-----------------------------------------------------------------------------
(* Whatever the handlers do, a connection that is in a room is found by    *)
(* the room's key, until Room.Close or Shutdown is called.                 *)
THEOREM RoomsAreFound == Spec => []LostOnlyToRoomClose
<1> QED  BY InitRooms, NextRooms, NoLoss, PTL DEF Spec

(* The variables keep their types; in particular a connection has no more  *)
(* listeners than handlers that have worked on it: a handler makes a queue *)
(* only when it finds none.                                                *)
THEOREM RoomsTypeCorrect == Spec => []TypeOK
<1>1. IInv => TypeOK
  BY TypesOfRooms DEF IInv
<1> QED  BY <1>1, InitInv, NextInv, PTL DEF Spec

(* Whatever is moved, removed or closed, and when, a connection is in no   *)
(* more rooms than handlers have worked on it: with one handler in one     *)
(* room, although Move leaves a room and enters the next in several steps. *)
THEOREM OneRoomOnly == Spec => []OneRoomAtATime
<1> QED  BY InitInv, NextInv, OneRoom, PTL DEF Spec

(* With any number of handlers on a connection, and whoever removes it     *)
(* from a room, a handler, CloseWithCode or Room.Close: what the           *)
(* application heard last of the room and the connection is so, unless it  *)
(* was not so already when it heard it.                                    *)
THEOREM HooksTellMembers == Spec => []HooksFollowMembers
<1> QED  BY InitInv, NextInv, HooksTell, PTL DEF Spec
=============================================================================

------------------------------ MODULE Manager ------------------------------
(***************************************************************************)
(* The registry of connections by key (manager.go): Connect and Register,  *)
(* the unregister that CloseWithCode runs as the connection's onClose hook *)
(* (conn.go), and Shutdown, over the mutex of the Manager.                 *)
(*                                                                         *)
(* CloseWithCode is seen from here as three steps: conn.done and raw are   *)
(* closed, the onClose hook runs, the close is over.  ConnWrite has its    *)
(* detail.                                                                 *)
(***************************************************************************)
EXTENDS Naturals, FiniteSets

CONSTANTS
  Conns,   \* the connections that Upgrade returns
  Keys,
  KeyOf,   \* KeyOf[c]: the key c is connected under
  None,    \* no connection
  Events   \* what may happen around the Manager

ASSUME ManagerAssumption ==
  /\ None \notin Conns
  /\ KeyOf \in [Conns -> Keys]
  /\ Events \subseteq
       {"early",     \* a connection closes before Connect has returned
        "shutdown"}  \* Shutdown is called

VARIABLES
  conns,      \* m.conns
  mu,         \* m.mu is write-locked by Shutdown
  phase,      \* phase[c]: how far Connect is with c
  raw,        \* connections whose raw is open
  closing,    \* closing[c]: how far CloseWithCode is with c
  removed,    \* removed[c]: the connection its unregister took off the map
  registers,  \* registers[c]: how often OnRegister ran for c
  unregisters \* unregisters[c]: how often OnUnregister ran for c

vars == <<conns, mu, phase, raw, closing, removed, registers, unregisters>>

Init ==
  /\ conns = [k \in Keys |-> None]
  /\ mu = FALSE
  /\ phase = [c \in Conns |-> "upgraded"]
  /\ raw = Conns
  /\ closing = [c \in Conns |-> "no"]
  /\ removed = [c \in Conns |-> None]
  /\ registers = [c \in Conns |-> 0]
  /\ unregisters = [c \in Conns |-> 0]

Phase(c, p, q) == phase[c] = p /\ phase' = [phase EXCEPT ![c] = q]
Close(c, p, q) == closing[c] = p /\ closing' = [closing EXCEPT ![c] = q]

-----------------------------------------------------------------------------
(* Connect, after Upgrade.                                                 *)

(* newManagedConn sets conn.onClose.                                       *)
NewManagedConn(c) ==
  /\ Phase(c, "upgraded", "hooked")
  /\ UNCHANGED <<conns, mu, raw, closing, removed, registers, unregisters>>

(* The connection under the same key loses its raw, and nothing else.      *)
Register(c) ==
  /\ Phase(c, "hooked", "registered") /\ ~mu
  /\ raw' = raw \ {conns[KeyOf[c]]}
  /\ conns' = [conns EXCEPT ![KeyOf[c]] = c]
  /\ UNCHANGED <<mu, closing, removed, registers, unregisters>>

EnableBroadcasting(c) ==
  /\ Phase(c, "registered", "enabled")
  /\ UNCHANGED <<conns, mu, raw, closing, removed, registers, unregisters>>

\* Mutant: Register may run the hook again.
OnRegisterAgain(c) ==
  /\ \/ Phase(c, "enabled", "connected") \/ Phase(c, "connected", "connected")
  /\ registers' = [registers EXCEPT ![c] = @ + 1]
  /\ UNCHANGED <<conns, mu, raw, closing, removed, unregisters>>

OnRegister(c) ==
  /\ Phase(c, "enabled", "connected")
  /\ registers' = [registers EXCEPT ![c] = @ + 1]
  /\ UNCHANGED <<conns, mu, raw, closing, removed, unregisters>>

Connect(c) == NewManagedConn(c) \/ Register(c) \/ EnableBroadcasting(c) \/ OnRegister(c)

-----------------------------------------------------------------------------
(* CloseWithCode.  Anybody may call it: the application, the reader, the   *)
(* ping loop.  Its caller needs the connection, which Connect returns,     *)
(* unless the caller is the ping loop or OnConnect.                        *)

CloseBegin(c) ==
  /\ "early" \in Events \/ phase[c] = "connected"
  /\ Close(c, "no", "done") /\ raw' = raw \ {c}
  /\ UNCHANGED <<conns, mu, phase, removed, registers, unregisters>>

NoHook(c) ==
  /\ phase[c] = "upgraded" /\ Close(c, "done", "closed")
  /\ UNCHANGED <<conns, mu, phase, raw, removed, registers, unregisters>>

\* Mutant: the entry stays on the map.
UnregisterKeeps(c) ==
  /\ phase[c] # "upgraded" /\ ~mu /\ Close(c, "done", "removed")
  /\ removed' = [removed EXCEPT ![c] = c]
  /\ UNCHANGED <<conns, mu, phase, raw, registers, unregisters>>

\* Mutant: the entry of another key goes.
UnregisterOther(c) ==
  /\ phase[c] # "upgraded" /\ ~mu /\ Close(c, "done", "removed")
  /\ \E k \in Keys : /\ conns[k] # None /\ conns' = [conns EXCEPT ![k] = None]
                     /\ removed' = [removed EXCEPT ![c] = conns[k]]
  /\ UNCHANGED <<mu, phase, raw, registers, unregisters>>

(* unregister(key): whatever connection the key has now.                   *)
Unregister(c) ==
  /\ phase[c] # "upgraded" /\ ~mu
  /\ \/ /\ conns[KeyOf[c]] = None /\ Close(c, "done", "closed")
        /\ UNCHANGED <<conns, removed>>
     \/ /\ conns[KeyOf[c]] # None /\ Close(c, "done", "removed")
        /\ removed' = [removed EXCEPT ![c] = conns[KeyOf[c]]]
        /\ conns' = [conns EXCEPT ![KeyOf[c]] = None]
  /\ UNCHANGED <<mu, phase, raw, registers, unregisters>>

OnUnregister(c) ==
  /\ Close(c, "removed", "closed")
  /\ unregisters' = [unregisters EXCEPT ![removed[c]] = @ + 1]
  /\ UNCHANGED <<conns, mu, phase, raw, removed, registers>>

CloseWithCode(c) == CloseBegin(c) \/ NoHook(c) \/ Unregister(c) \/ OnUnregister(c)

-----------------------------------------------------------------------------
(* Shutdown.  It holds m.mu for writing when it calls GetAllConns, which   *)
(* waits for m.mu to be free of writers: no step follows this one.         *)

Shutdown ==
  /\ "shutdown" \in Events /\ ~mu /\ mu' = TRUE
  /\ UNCHANGED <<conns, phase, raw, closing, removed, registers, unregisters>>

Next == (\E c \in Conns : Connect(c) \/ CloseWithCode(c)) \/ Shutdown

Spec == Init /\ [][Next]_vars

(* Handlers and closes run to their end; a connection need not close.      *)
FairSpec ==
  /\ Spec
  /\ \A c \in Conns :
       /\ WF_vars(Connect(c))
       /\ WF_vars(NoHook(c) \/ Unregister(c) \/ OnUnregister(c))
-----------------------------------------------------------------------------
(* The values of the variables.  OnRegister runs once for a connection.    *)
TypeOK ==
  /\ conns \in [Keys -> Conns \cup {None}]
  /\ mu \in BOOLEAN
  /\ phase \in [Conns -> {"upgraded", "hooked", "registered", "enabled", "connected"}]
  /\ raw \subseteq Conns
  /\ closing \in [Conns -> {"no", "done", "removed", "closed"}]
  /\ removed \in [Conns -> Conns \cup {None}]
  /\ registers \in [Conns -> 0..1] /\ unregisters \in [Conns -> 0..1]

Registered(c) == phase[c] \in {"registered", "enabled", "connected"}
Usable(c) == Registered(c) /\ closing[c] = "no" /\ c \in raw
Tracked(c) == conns[KeyOf[c]] = c

(* Another connection under the key of c has run its close hook.           *)
Rivals(c) == {d \in Conns \ {c} : KeyOf[d] = KeyOf[c]}
RivalClosed(c) == \E d \in Rivals(c) : closing[d] \in {"removed", "closed"}

(* "Manager tracks active WebSocket connections": a connection that was    *)
(* registered and can still be used is found under its key, for Get and    *)
(* for broadcasts, so that no two under one key are usable.  It gets lost  *)
(* in one way only: the hook of another connection under the same key took *)
(* it off the map.                                                         *)
LostOnlyToRival ==
  \A c \in Conns : Usable(c) => Tracked(c) \/ RivalClosed(c)

(* A connection whose hook runs after Register leaves the map for good, and *)
(* OnUnregister tells, unless another one has taken its place.  Only       *)
(* Shutdown, which keeps m.mu, can prevent it.                             *)
ClosedIsForgotten ==
  \A c \in Conns :
    closing[c] = "done" /\ Registered(c) ~>
      \/ mu
      \/ /\ closing[c] = "closed" /\ [](~Tracked(c))
         /\ unregisters[c] = 1 \/ \E d \in Rivals(c) : Registered(d)
=============================================================================

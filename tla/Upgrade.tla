------------------------------- MODULE Upgrade -------------------------------
(***************************************************************************)
(* Upgrader.Upgrade (upgrader.go) and the connection it makes: the checks  *)
(* of the request, the choice of the subprotocol, the middlewares, the     *)
(* hijack, the answer, OnConnect and the entry in the rate limiter         *)
(* (rate_limiter.go), over the keep-alive of KeepAlive, which runs from    *)
(* newConn on.                                                             *)
(*                                                                         *)
(* A header is the sequence of its lines, a line the sequence of its       *)
(* tokens: trimmed, in lower case (but for the subprotocols), split at the *)
(* commas.  Header.Get returns the first line.                             *)
(***************************************************************************)
EXTENDS KeepAlive, SequencesExt

CONSTANTS
  Requests,   \* requests: get, upgrade, connection, version, key, protocols
  Settings    \* what the Upgrader is set up with: subProtocols, rejectRaw,
              \* and what each of its middlewares returns

Lines == Seq(Seq(STRING))

ASSUME UpgradeAssumption ==
  /\ Requests \subseteq
       [get : BOOLEAN, upgrade : Lines, connection : Lines, version : STRING,
        key : STRING, protocols : Lines]
  /\ Settings \subseteq
       [subProtocols : Seq(STRING), rejectRaw : BOOLEAN,
        middlewares : Seq({"nil", "error", "MiddlewareErr"})]

VARIABLES
  phase,      \* where Upgrade is
  req, conf,  \* the request and the settings; NoOne once the answer is written
  subProtocol,
  ran,        \* the middlewares that have run
  answer,     \* the HTTP status of the answer
  limited,    \* the connection is in RateLimiter.clients
  late        \* history: it was added after it had been closed

handshake == <<req, conf, subProtocol, ran, answer>>
upgrading == <<phase, handshake, limited, late>>

UpgradeInit ==
  /\ Init
  /\ phase = "request"
  /\ req \in Requests /\ conf \in Settings
  /\ subProtocol = "" /\ ran = 0 /\ answer = 0
  /\ limited = FALSE /\ late = FALSE

-----------------------------------------------------------------------------
(* The handshake.                                                          *)

Get(lines) == IF lines = <<>> THEN <<>> ELSE Head(lines)
Names(lines, token) == token \in ToSet(Get(lines))

Problems(r) ==
  << [fails |-> ~r.get,                              status |-> 405],
     [fails |-> ~Names(r.upgrade, "websocket"),      status |-> 426],
     [fails |-> ~Names(r.connection, "upgrade"),     status |-> 400],
     [fails |-> r.version # "13",                    status |-> 400],
     [fails |-> r.key # "16 bytes",                  status |-> 400] >>

\* Mutant: the server's order decides, not the client's.
SelectByServer(r, supported) ==
  LET both == SelectSeq(supported, LAMBDA p : p \in ToSet(Get(r.protocols)))
  IN  IF both = <<>> THEN "" ELSE Head(both)

SelectSubProtocol(r, supported) ==
  LET offers == Get(r.protocols)
      fits   == {i \in DOMAIN offers : offers[i] \in ToSet(supported)}
  IN  IF fits = {} THEN "" ELSE offers[Min(fits)]

Refuse(status) == phase' = "refused" /\ answer' = status

Validate ==
  /\ phase = "request"
  /\ LET problems == Problems(req)
         found    == {i \in DOMAIN problems : problems[i].fails}
         sub      == SelectSubProtocol(req, conf.subProtocols)
     IN  \/ /\ found # {}
            /\ Refuse(problems[Min(found)].status)
            /\ UNCHANGED subProtocol
         \/ /\ found = {}
            /\ subProtocol' = sub
            /\ IF sub = "" /\ conf.rejectRaw
               THEN Refuse(400)
               ELSE phase' = "middlewares" /\ UNCHANGED answer
  /\ UNCHANGED <<req, conf, ran, limited, late, vars>>

\* A MiddlewareErr names the status itself.
RunMiddleware ==
  /\ phase = "middlewares" /\ ran < Len(conf.middlewares)
  /\ LET returned == conf.middlewares[ran + 1]
     IN  \/ /\ returned = "nil"
            /\ UNCHANGED <<phase, answer>>
         \/ returned = "error" /\ Refuse(400)
         \/ returned = "MiddlewareErr" /\ Refuse(403)
  /\ ran' = ran + 1
  /\ UNCHANGED <<req, conf, subProtocol, limited, late, vars>>

\* Hijack, and newConn, which starts the ping loop.
Hijack ==
  /\ phase = "middlewares" /\ ran = Len(conf.middlewares)
  /\ \/ Refuse(500)
     \/ phase' = "respond" /\ answer' = 101
  /\ UNCHANGED <<req, conf, subProtocol, ran, limited, late, vars>>

\* The answer.  When it cannot be written Upgrade returns the error and leaves
\* the connection to the ping loop.
Respond ==
  /\ phase = "respond"
  /\ \/ phase' = "connect" /\ UNCHANGED vars
     \/ /\ NetFails
        /\ phase' = "failed"
        /\ net' = "down"
        /\ UNCHANGED <<pc, pingSent, load, writing, closing, sends, inbox, own,
                       client, marks>>
  /\ req' = NoOne /\ conf' = NoOne
  /\ subProtocol' = "" /\ ran' = 0 /\ answer' = 0
  /\ UNCHANGED <<limited, late>>

\* OnConnect, which hands the connection out, returns, and addClient follows.
AddClient ==
  /\ phase = "connect"
  /\ phase' = "returned"
  /\ limited' = TRUE
  /\ late' = (once = Final)
  /\ UNCHANGED <<handshake, vars>>

-----------------------------------------------------------------------------
(* The connection.  PingEvery is longer than it takes to write the answer. *)
(* OnConnect starts the reader; Pings and data come after Upgrade.         *)

Answered == {"connect", "returned", "failed"}
HandedOut == {"connect", "returned"}
Returned == {"returned"}

\* Mutant: CloseWithCode leaves the limiter alone.
RemoveNobody == UNCHANGED limited

\* CloseWithCode ends with RateLimiter.removeClient.
RemoveClient == limited' = (limited /\ (once = Final \/ once' # Final))

Runs(phases, step) ==
  phase \in phases /\ step /\ RemoveClient /\ UNCHANGED <<phase, handshake, late>>

UpgradeNext ==
  \/ Validate \/ RunMiddleware \/ Hijack \/ Respond \/ AddClient
  \/ Runs(Answered, LoopNext)
  \/ Runs(Answered, TimerFires)
  \/ Runs(HandedOut, ReaderNext)
  \/ \E g \in Users : Runs(Returned, UserNext(g))
  \/ Runs(Returned, SendData)
  \/ Runs(HandedOut, ClientNext)
  \/ Runs(HandedOut, NetBreaks)

all == <<vars, upgrading>>

(* The scheduler runs every goroutine that can run; a channel serves the   *)
(* goroutines blocked on it in their order, hence the strong fairness of   *)
(* the two mutexes; a write in progress ends, for it has a deadline; and a *)
(* client that answers does so.  Nothing rests on the timer, nor on how    *)
(* long OnConnect takes.                                                   *)
UpgradeFairness ==
  /\ WF_all(Runs(Answered, LoopNext)) /\ WF_all(Runs(HandedOut, ReaderNext))
  /\ WF_all(Runs(Returned, SendData)) /\ WF_all(Runs(HandedOut, ClientReceives))
  /\ \A g \in Users :
       /\ WF_all(Runs(Returned, UserNext(g)))
       /\ SF_all(Runs(Returned, LockControl(g)))
       /\ SF_all(Runs(Returned, LockFrame(g)))

UpgradeSpec == UpgradeInit /\ [][UpgradeNext]_all /\ UpgradeFairness

-----------------------------------------------------------------------------
\* Every variable of the handshake and of the connection stays in its range.
UpgradeTypeOK ==
  /\ TypeOK
  /\ phase \in {"request", "middlewares", "respond", "refused"} \cup Answered
  /\ req \in Requests \cup {NoOne} /\ conf \in Settings \cup {NoOne}
  /\ subProtocol = "" \/ subProtocol \in ToSet(conf.subProtocols)
  /\ ran \in Nat /\ answer \in {0, 101, 400, 403, 405, 426, 500}
  /\ limited \in BOOLEAN /\ late \in BOOLEAN

(* What RFC 6455 asks of a request, over every line of a header.           *)
Says(lines, token) == \E i \in DOMAIN lines : token \in ToSet(lines[i])
Legal(r) ==
  /\ r.get /\ Says(r.upgrade, "websocket") /\ Says(r.connection, "upgrade")
  /\ r.version = "13" /\ r.key = "16 bytes"

(* p is what the client likes best of what the server supports: no earlier *)
(* offer, in this line or one before it, is supported, and p is "" only    *)
(* when no offer is.                                                       *)
Preferred(p, lines, supported) ==
  LET Fits(i, j) == lines[i][j] \in ToSet(supported)
  IN  \/ p = "" /\ \A i \in DOMAIN lines : \A j \in DOMAIN lines[i] : ~Fits(i, j)
      \/ \E i \in DOMAIN lines : \E j \in DOMAIN lines[i] :
           /\ p = lines[i][j] /\ Fits(i, j)
           /\ \A k \in 1..i : \A l \in DOMAIN lines[k] :
                k < i \/ l < j => ~Fits(k, l)

OneLineEach(r) ==
  Len(r.upgrade) < 2 /\ Len(r.connection) < 2 /\ Len(r.protocols) < 2

\* The answer is 101 only to a legal request that every middleware let pass,
\* with the subprotocol the client likes best (Options.SubProtocols), and no
\* other request gets past Options.RejectRaw; a legal request is refused only
\* by RejectRaw, a middleware or a hijack that fails.  Headers in more than one
\* line are the exception: only the first is read.
HandshakeIsRight ==
  LET Best(p) == Preferred(p, req.protocols, conf.subProtocols)
      passed  == \A i \in DOMAIN conf.middlewares : conf.middlewares[i] = "nil"
  IN  /\ answer = 101 =>
           /\ Legal(req) /\ passed /\ ran = Len(conf.middlewares)
           /\ OneLineEach(req) => Best(subProtocol)
           /\ conf.rejectRaw => subProtocol # ""
      /\ ran > 0 => Legal(req)
      /\ phase = "refused" /\ Legal(req) /\ OneLineEach(req) =>
           \/ conf.rejectRaw /\ Best("")
           \/ ~passed
           \/ answer = 500

\* A client that falls silent, or whose network is gone, does not stay: the
\* connection is closed, raw and all, by the read deadline or by a ping that
\* cannot be written, also when Upgrade could not answer and nobody reads.  And
\* the limiter, whose map holds whatever is in it for good, forgets it; the
\* exception is a connection that closes before Upgrade adds it.
SilentIsCutOff ==
  <>[](client # "answers" \/ net = "down" => once = Final /\ (limited => late))
=============================================================================

---------------------------- MODULE MeshBackend ----------------------------
(***************************************************************************)
(* The connection life of one Backend (pkg/mesh/backend.go) of a miner's     *)
(* session: Connect at bonding and again in Reconnect, the reader goroutines *)
(* (Run), the wait for a first job, and Close when the session ends          *)
(* (handleMiner in mesh.go, runMiner in relay.go).  MeshRelay takes all of   *)
(* it as one step; here every step that another goroutine can get between    *)
(* is one.                                                                   *)
(*                                                                          *)
(* Connections are numbered; each has the lines the coin has sent on it and   *)
(* nobody has read: its replies to configure, subscribe and authorize, and    *)
(* jobs.  A reader goroutine is known by the connection whose bufio.Reader it *)
(* is blocked on; several on one reader is a data race, and any of them may   *)
(* get the next line.                                                        *)
(***************************************************************************)
EXTENDS Integers, Sequences

CONSTANTS
  MaxConns,   \* bound: connections anything still refers to
  MaxEvents,  \* bound: connections the coin ends, stops of the coin
  MaxQueue    \* bound: lines sent and not read yet, per connection

ASSUME BackendAssumption == MaxConns \in Nat \ {0} /\ MaxEvents \in Nat /\ MaxQueue \in Nat

Conns == 1..MaxConns
Lines == {"configured", "subscribed", "refused", "authorized", "job"}

VARIABLES
  conns,     \* each connection: its state, whether it authorized, the lines unread
  conn,      \* b.conn, 0 when nil
  reader,    \* the connection b.reader reads, 0 when nil
  en,        \* the connection b.extranonce1 is of
  last,      \* the connection b.lastNotify came on
  firstJob,  \* b.firstJob is closed: a job has come since it was armed
  dead,      \* b.dead
  worker,    \* b.Worker is set: the miner has authorized
  runs,      \* how many Run goroutines are blocked on each reader
  bond,      \* where the miner's goroutine is (handleMiner, runMiner)
  rc,        \* where Reconnect is
  closed,    \* s.closed
  serving,   \* the coin runs and accepts connections
  synced,    \* it builds templates: authorized connections get jobs
  torn,      \* ghost: a handshake failed and left its connection open
  lateDial,  \* ghost: Reconnect dialled after the session had closed
  lateDeath, \* ghost: a reader ended after its job and before dead was cleared
  events     \* events happened (bounded)

backendVars == <<conns, conn, reader, en, last, firstJob, dead, worker>>
envVars     == <<serving, synced, events>>
ghostVars   == <<torn, lateDial, lateDeath>>
vars == <<backendVars, runs, bond, rc, closed, envVars, ghostVars>>

Fresh == [state |-> "shut", authorized |-> FALSE, unread |-> <<>>]
Open(c) == c # 0 /\ conns[c].state = "open"

Init ==
  /\ conns = [c \in Conns |-> Fresh]
  /\ conn = 0 /\ reader = 0 /\ en = 0 /\ last = 0
  /\ firstJob = FALSE /\ dead = FALSE /\ worker = FALSE
  /\ runs = [c \in 0..MaxConns |-> 0]
  /\ bond = "dial" /\ rc = "off" /\ closed = FALSE
  /\ serving \in BOOLEAN /\ synced \in BOOLEAN
  /\ torn = FALSE /\ lateDial = FALSE /\ lateDeath = FALSE
  /\ events = 0

\* The coin sends a line on connection c, the nth there has been.
Sent(c, line) == [conns EXCEPT ![c].unread = Append(@, line)]

\* Mutant: the socket is dropped without closing it.
NotClosed == conns

\* b.Close.
Closed == IF conn = 0 THEN conns ELSE [conns EXCEPT ![conn].state = "shut"]

-----------------------------------------------------------------------------
(* Connect, at bonding ("bond") and in Reconnect ("rc").  Each step moves its *)
(* caller on; Fails is what the caller does with an error.                   *)

At(t, pc)   == IF t = "bond" THEN bond = pc ELSE rc = pc
Goto(t, pc) == IF t = "bond" THEN bond' = pc /\ UNCHANGED rc ELSE rc' = pc /\ UNCHANGED bond

\* Numbers a new connection can have: those of connections that ended and that
\* nothing refers to any more.
Free == {c \in Conns \ {conn, reader, en, last} : ~Open(c) /\ runs[c] = 0}

\* The new connection and its reader replace what was there, which is not closed.
DialInto(c) == conn' = c /\ reader' = c

\* The dial succeeds and mining.configure goes out: the coin answers it.
Dial(t) ==
  /\ At(t, "dial") /\ serving
  /\ \E c \in Free :
       /\ \A d \in Free : c <= d
       /\ DialInto(c)
       /\ conns' = [conns EXCEPT ![c] = [Fresh EXCEPT !.state = "open", !.unread = <<"configured">>]]
  /\ Goto(t, "configure")
  /\ lateDial' = (lateDial \/ closed)
  /\ UNCHANGED <<en, last, firstJob, dead, worker, runs, closed, envVars, torn, lateDeath>>

\* markDead at bonding; in Reconnect the connection is left as it is.
Fails(t) ==
  /\ dead' = IF t = "bond" THEN TRUE ELSE dead
  /\ Goto(t, IF t = "bond" THEN "start" ELSE "sleep")
  /\ torn' = (torn \/ Open(reader))

\* The coin is not serving: the dial fails.
DialFails(t) ==
  /\ At(t, "dial") /\ ~serving
  /\ dead' = IF t = "bond" THEN TRUE ELSE dead
  /\ Goto(t, IF t = "bond" THEN "start" ELSE "sleep")
  /\ UNCHANGED <<conns, conn, reader, en, last, firstJob, worker, runs, closed, envVars, ghostVars>>

\* The line after configure is read, whatever it is, and subscribe is sent.
ReadConfigured(t) ==
  /\ At(t, "configure") /\ conns[reader].unread # <<>>
  /\ conns' = [conns EXCEPT ![reader].unread =
                 IF Open(conn) THEN Append(Tail(@), "subscribed") ELSE Tail(@)]
  /\ Goto(t, "subscribe")
  /\ UNCHANGED <<conn, reader, en, last, firstJob, dead, worker, runs, closed, envVars, ghostVars>>

\* The next line has to be the answer to subscribe.
ReadSubscribed(t) ==
  /\ At(t, "subscribe") /\ conns[reader].unread # <<>>
  /\ conns' = [conns EXCEPT ![reader].unread = Tail(@)]
  /\ IF Head(conns[reader].unread) = "subscribed"
     THEN /\ en' = reader
          /\ Goto(t, IF t = "bond" THEN "start" ELSE "authorize")
          /\ UNCHANGED <<dead, torn>>
     ELSE Fails(t) /\ UNCHANGED en
  /\ UNCHANGED <<conn, reader, last, firstJob, worker, runs, closed, envVars, lateDial, lateDeath>>

\* A read of a connection that ended: an error.
ReadFails(t) ==
  /\ At(t, "configure") \/ At(t, "subscribe")
  /\ ~Open(reader) /\ conns[reader].unread = <<>>
  /\ Fails(t)
  /\ UNCHANGED <<conns, conn, reader, en, last, firstJob, worker, runs, closed, envVars, lateDial, lateDeath>>

Connect(t) == Dial(t) \/ DialFails(t) \/ ReadConfigured(t) \/ ReadSubscribed(t) \/ ReadFails(t)

-----------------------------------------------------------------------------
(* The miner's goroutine.                                                    *)

\* go Run and go Reconnect for the backend, dead or not.
Start ==
  /\ bond = "start"
  /\ bond' = "up" /\ rc' = "sleep"
  /\ runs' = [runs EXCEPT ![reader] = @ + 1]
  /\ UNCHANGED <<backendVars, closed, envVars, ghostVars>>

\* The miner authorizes: every backend gets its name, and those with a
\* connection an authorize, which the coin refuses before a subscribe.
MinerAuthorizes ==
  /\ bond = "up" /\ ~worker /\ worker' = TRUE
  /\ conns' = IF ~Open(conn) THEN conns
              ELSE IF rc = "configure" THEN Sent(conn, "refused")
              ELSE [Sent(conn, "authorized") EXCEPT ![conn].authorized = TRUE]
  /\ UNCHANGED <<conn, reader, en, last, firstJob, dead, runs, bond, rc, closed, envVars, ghostVars>>

\* The miner leaves: s.Close first, then each backend.
SessionEnds ==
  /\ bond = "up" /\ bond' = "closing" /\ closed' = TRUE
  /\ UNCHANGED <<backendVars, runs, rc, envVars, ghostVars>>

CloseBackend ==
  /\ bond = "closing" /\ bond' = "gone"
  /\ conns' = Closed /\ conn' = 0
  /\ UNCHANGED <<reader, en, last, firstJob, dead, worker, runs, rc, closed, envVars, ghostVars>>

-----------------------------------------------------------------------------
(* Run.                                                                      *)

\* A goroutine blocked on the reader of connection c gets a line.  A job is
\* kept and signalled; the answers to the backend's own requests go no further.
\* It then reads on, from whatever b.reader is by now.
RunReads(c) ==
  /\ runs[c] > 0 /\ c # 0 /\ conns[c].unread # <<>>
  /\ conns' = [conns EXCEPT ![c].unread = Tail(@)]
  /\ IF Head(conns[c].unread) = "job"
     THEN last' = c /\ firstJob' = TRUE
     ELSE UNCHANGED <<last, firstJob>>
  /\ runs' = IF c = reader THEN runs ELSE [runs EXCEPT ![c] = @ - 1, ![reader] = @ + 1]
  /\ UNCHANGED <<conn, reader, en, dead, worker, bond, rc, closed, envVars, ghostVars>>

\* Mutant: a reader that ends leaves the backend as it was.
EndsQuietly == dead

\* What the end of a reader makes of dead.
MarksDead == TRUE

\* Its connection ended, or there never was one: the backend is dead.
RunEnds(c) ==
  /\ runs[c] > 0 /\ ~Open(c)
  /\ dead' = MarksDead
  /\ runs' = [runs EXCEPT ![c] = @ - 1]
  /\ lateDeath' = (lateDeath \/ (rc \in {"wait", "clear"} /\ firstJob /\ c = reader))
  /\ UNCHANGED <<conns, conn, reader, en, last, firstJob, worker, bond, rc, closed, envVars, torn, lateDial>>

-----------------------------------------------------------------------------
(* Reconnect.                                                                *)

\* The 15 seconds or more between two attempts are long enough for the reader
\* of a connection that ended to notice.
Settled == \A c \in 0..MaxConns : runs[c] > 0 => Open(c)

\* rearmFirstJob.
Rearmed == FALSE

\* stop(), Alive, resolve: the session is open, the backend dead and the coin
\* running; the signal is armed again before it dials.
Wake ==
  /\ rc = "sleep" /\ ~closed /\ dead /\ serving /\ Settled
  /\ rc' = "dial" /\ firstJob' = Rearmed
  /\ UNCHANGED <<conns, conn, reader, en, last, dead, worker, runs, bond, closed, envVars, ghostVars>>

Stop ==
  /\ rc = "sleep" /\ closed /\ rc' = "gone"
  /\ UNCHANGED <<backendVars, runs, bond, closed, envVars, ghostVars>>

\* The worker the miner gave is authorized on the new connection.
Named == IF worker /\ Open(conn) THEN [Sent(conn, "authorized") EXCEPT ![conn].authorized = TRUE] ELSE conns

\* Authorize, then go Run.  The write fails when the session has closed the
\* backend meanwhile, and may fail when the coin has ended the connection.
Reauthorize ==
  /\ rc = "authorize"
  /\ \/ /\ ~worker \/ conn # 0
        /\ conns' = Named /\ UNCHANGED conn
        /\ runs' = [runs EXCEPT ![reader] = @ + 1]
        /\ rc' = "wait"
     \/ /\ worker /\ ~Open(conn)
        /\ conns' = Closed /\ conn' = 0
        /\ rc' = "sleep" /\ UNCHANGED runs
  /\ UNCHANGED <<reader, en, last, firstJob, dead, worker, bond, closed, envVars, ghostVars>>

JobCame ==
  /\ rc = "wait" /\ firstJob /\ rc' = "clear"
  /\ UNCHANGED <<backendVars, runs, bond, closed, envVars, ghostVars>>

\* Mutant: the connection that produced no job is kept.
Kept == conns

\* What becomes of the connection when no job came in 30 seconds: b.Close.
Dropped == Closed

\* No job within 30 seconds: the coin has none, or the connection is not one it
\* would send them on.
NoJobCame ==
  /\ rc = "wait" /\ ~firstJob
  /\ ~(synced /\ Open(conn) /\ conns[conn].authorized)
  /\ conns' = Dropped /\ conn' = 0
  /\ rc' = "sleep"
  /\ UNCHANGED <<reader, en, last, firstJob, dead, worker, runs, bond, closed, envVars, ghostVars>>

Clear ==
  /\ rc = "clear" /\ rc' = "sleep" /\ dead' = FALSE
  /\ UNCHANGED <<conns, conn, reader, en, last, firstJob, worker, runs, bond, closed, envVars, ghostVars>>

Reconnect == Wake \/ Stop \/ Connect("rc") \/ Reauthorize \/ JobCame \/ NoJobCame \/ Clear

-----------------------------------------------------------------------------
(* The coin.                                                                 *)

CoinSendsJob(c) ==
  /\ Open(c) /\ conns[c].authorized /\ synced /\ Len(conns[c].unread) < MaxQueue
  /\ conns' = Sent(c, "job")
  /\ UNCHANGED <<conn, reader, en, last, firstJob, dead, worker, runs, bond, rc, closed, envVars, ghostVars>>

CoinEnds(c) ==
  /\ Open(c) /\ events < MaxEvents
  /\ conns' = [conns EXCEPT ![c].state = "shut"]
  /\ events' = events + 1
  /\ UNCHANGED <<conn, reader, en, last, firstJob, dead, worker, runs, bond, rc, closed, serving, synced, ghostVars>>

\* A stop ends every connection.
CoinStops ==
  /\ serving /\ events < MaxEvents
  /\ serving' = FALSE /\ synced' = FALSE
  /\ conns' = [c \in Conns |-> IF Open(c) THEN [conns[c] EXCEPT !.state = "shut"] ELSE conns[c]]
  /\ events' = events + 1
  /\ UNCHANGED <<conn, reader, en, last, firstJob, dead, worker, runs, bond, rc, closed, ghostVars>>

CoinStarts ==
  /\ ~serving \/ ~synced
  /\ IF serving THEN synced' = TRUE /\ UNCHANGED serving ELSE serving' = TRUE /\ UNCHANGED synced
  /\ UNCHANGED <<backendVars, runs, bond, rc, closed, events, ghostVars>>

-----------------------------------------------------------------------------
Next ==
  \/ Connect("bond") \/ Start \/ MinerAuthorizes \/ SessionEnds \/ CloseBackend
  \/ \E c \in 0..MaxConns : RunReads(c) \/ RunEnds(c)
  \/ Reconnect
  \/ \E c \in Conns : CoinSendsJob(c) \/ CoinEnds(c)
  \/ CoinStops \/ CoinStarts

Spec == Init /\ [][Next]_vars

\* Goroutines that can run do; a coin that serves and is synced sends its jobs.
\* Nothing says that the miner authorizes or that the coin comes back.
FairSpec ==
  /\ Spec
  /\ WF_vars(Connect("bond") \/ Start \/ CloseBackend)
  /\ WF_vars(Reconnect)
  /\ \A c \in 0..MaxConns : WF_vars(RunReads(c)) /\ WF_vars(RunEnds(c))
  /\ \A c \in Conns : WF_vars(CoinSendsJob(c))

-----------------------------------------------------------------------------
TypeOK ==
  /\ conns \in [Conns -> [state : {"shut", "open"}, authorized : BOOLEAN, unread : Seq(Lines)]]
  /\ reader \in 0..MaxConns /\ conn \in {0, reader} /\ en \in 0..MaxConns /\ last \in 0..MaxConns
  /\ \A v \in {firstJob, dead, worker, closed, serving, synced, torn, lateDial, lateDeath} : v \in BOOLEAN
  /\ runs \in [0..MaxConns -> 0..MaxConns + 1]
  /\ bond \in {"dial", "configure", "subscribe", "start", "up", "closing", "gone"}
  /\ rc \in {"off", "sleep", "dial", "configure", "subscribe", "authorize", "wait", "clear", "gone"}
  /\ events \in 0..MaxEvents

\* "there is never more than one goroutine reading the backend's socket"
\* (backend.go:346), and none goes on reading an open socket that was replaced.
OneReader ==
  \A c \in 0..MaxConns : runs[c] <= 1 /\ (runs[c] = 1 /\ Open(c) => c = reader)

\* A backend that says it is alive is read, and the job a move would replay to the
\* miner is of the connection whose extranonce it would be told, never of the one that
\* was lost.  The exception is a reader that ended between its first job and the
\* clearing of dead, which nothing notices.
AliveIsRead ==
  ~dead => /\ last \in {0, en}
           /\ bond = "up" /\ ~lateDeath => runs[reader] > 0

\* When the session is over and its goroutines are gone no connection to the
\* coin is left open, unless Reconnect dialled after the close or its handshake
\* was crossed by the miner's authorize.
NothingLeftOpen ==
  ~torn /\ ~lateDial /\ bond = "gone" /\ rc = "gone" => \A c \in Conns : ~Open(c)

\* A coin that serves and sends jobs is always got back.
ComesBack ==
  []<>(~dead \/ closed \/ ~worker \/ ~serving \/ ~synced \/ Free = {})
=============================================================================

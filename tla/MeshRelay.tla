------------------------------ MODULE MeshRelay ------------------------------
(***************************************************************************)
(* pkg/mesh: one miner's session (session.go, relay.go, mesh.go) over the     *)
(* backends (backend.go) it is bonded to, one per coin.  The miner mines the *)
(* active coin; it is moved to another one by                                *)
(*   - the reader goroutine (Run) of the active backend, when it dies,       *)
(*   - the reader of a warm backend whose next job a deferred move awaits,   *)
(*   - failbackLoop and rotateLoop,                                          *)
(*   - its own authorize, when the user has assigned its worker to a coin.   *)
(* switchTo takes no lock: its steps are those of any of these goroutines,   *)
(* interleaved with the others'.                                             *)
(*                                                                          *)
(* A backend's connection is abstracted to dead or not: Reconnect (dialling, *)
(* authorizing, waiting for a job) is the one step ComesBack.  A weighted    *)
(* split is "rotating" and the coin whose slice it is, `want`.               *)
(***************************************************************************)
EXTENDS Integers, Sequences, FiniteSets

CONSTANTS
  Coins,         \* the bonded coins in the configured order, which is priority
  NoCoin,        \* nil
  Split,         \* more than one coin: the worker rotates
  Assignments,   \* what the store may hold for the worker: a coin, Split, NoCoin
  MaxTracked,    \* maxTrackedJobs, the size of the job registry
  Targets,       \* bound: for each of these, the reassignments, <<coin, rotating or not>>,
                 \* that the user and the balancer may make
  MaxJobs,       \* bound: jobs the coins send
  MaxEvents,     \* bound: connections that end, slices that begin, reassignments
  MaxShares      \* bound: shares forwarded and not yet answered

Backends == {Coins[i] : i \in 1..Len(Coins)}

ASSUME RelayAssumption ==
  /\ Coins \in Seq(Backends) /\ Len(Coins) > 0
  /\ \A i, j \in 1..Len(Coins) : Coins[i] = Coins[j] => i = j
  /\ NoCoin \notin Backends /\ Split \notin Backends \cup {NoCoin}
  /\ Backends \cap {"failback", "rotate"} = {}
  /\ Assignments \subseteq Backends \cup {NoCoin, Split}
  /\ MaxTracked \in Nat \ {0}
  /\ Targets \in [Assignments -> SUBSET (Backends \X BOOLEAN)]
  /\ MaxJobs \in Nat /\ MaxEvents \in Nat /\ MaxShares \in Nat

\* The goroutines that run switchTo: each backend's reader and the two loops.
Movers == Backends \cup {"failback", "rotate"}

VARIABLES
  \* session
  closed,    \* s.closed
  active,    \* s.active
  home,      \* s.home
  rotating,  \* s.rotation is not empty
  pending,   \* s.pending: the target of a deferred move
  xnsub,     \* s.supportsXnSub
  jobs,      \* s.jobs and s.jobOrder: the registered jobs, oldest first
  shares,    \* shares forwarded to a coin and not yet answered
  \* backends
  dead,      \* b.dead
  conn,      \* which of the connections to the coin this is: each has its extranonce1
  last,      \* b.lastNotify: the coin's own number of its latest job, 0 if none
  live,      \* b.live
  \* goroutines
  run,       \* where Run of each backend is, "ended" when it has returned
  sw,        \* where each mover is in switchTo, with its local variables
  auth,      \* where runMiner is in authorize, and the backend it holds
  api,       \* where ReassignWorker is, and the target
  \* miner
  phase,     \* "connected", "subscribed", "authorizing", "mining"
  en,        \* the extranonce it was last given: of which coin, which connection
  fits,      \* the job it was last given came when it had that coin's extranonce
  \* environment
  stored,    \* what the store holds for the worker when it authorizes
  want,      \* while it rotates, the coin whose slice of the cycle it is
  sent,      \* jobs the coins have sent (bounded)
  events     \* connections ended, slices begun and reassignments (bounded)

sessionVars == <<closed, active, home, rotating, pending, xnsub, jobs, shares>>
backendVars == <<dead, conn, last, live>>
minerVars   == <<phase, en, fits>>
threadVars  == <<run, sw, auth, api>>
envVars     == <<stored, want, sent, events>>
vars == <<sessionVars, backendVars, minerVars, threadVars, envVars>>

NotMoving == [pc |-> "idle", target |-> NoCoin, prev |-> NoCoin, job |-> 0]
NoAuth    == [pc |-> "idle", b |-> NoCoin, job |-> 0]

Extranonce(b) == [coin |-> b, conn |-> conn[b]]

\* The highest-priority live backend among S, NoCoin if there is none.
FirstAlive(S) ==
  LET usable == {i \in 1..Len(Coins) : Coins[i] \in S /\ ~dead[Coins[i]]}
  IN IF usable = {} THEN NoCoin
     ELSE Coins[CHOOSE i \in usable : \A j \in usable : i <= j]

\* Once the worker is authorized the coins send it jobs.
Authorized == phase = "mining" \/ auth.pc \in {"await", "golive", "replay"}

\* bonding: some coins may be down; the first that serves is active.  With none
\* serving runMiner closes the session at once.
Init ==
  /\ dead \in [Backends -> BOOLEAN]
  /\ \E b \in Backends : ~dead[b]
  /\ conn = [b \in Backends |-> 0]
  /\ last = [b \in Backends |-> 0]
  /\ live = [b \in Backends |-> FALSE]
  /\ run = [b \in Backends |-> IF dead[b] THEN "ended" ELSE "read"]
  /\ sw = [p \in Movers |-> NotMoving]
  /\ auth = NoAuth
  /\ api = [pc |-> "idle", target |-> NoCoin, split |-> FALSE]
  /\ closed = FALSE
  /\ active = FirstAlive(Backends)
  /\ home = NoCoin
  /\ rotating = FALSE
  /\ pending = NoCoin
  /\ xnsub = FALSE
  /\ jobs = <<>>
  /\ shares = {}
  /\ phase = "connected"
  /\ en = [coin |-> NoCoin, conn |-> 0]
  /\ fits = TRUE
  /\ stored \in Assignments
  /\ want = NoCoin
  /\ sent = 0
  /\ events = 0

JobSent == sent < MaxJobs /\ sent' = sent + 1
Event   == events < MaxEvents /\ events' = events + 1

\* setRotation: with a split, the cycle is somewhere in one of its slices.
SetRotation(split) ==
  /\ rotating' = split
  /\ IF split THEN want' \in Backends ELSE want' = NoCoin

-----------------------------------------------------------------------------
(* Jobs on their way to the miner and shares on their way back *)

\* nextJobID never repeats; here a number is taken again once it has been evicted.
FreshID ==
  CHOOSE n \in 1..MaxTracked + 1 : \A i \in 1..Len(jobs) : jobs[i].id # n

\* Mutant: jobs go to the miner under the coin's own number.
RegisterCoinJob(b, n) ==
  LET all == Append(jobs, [id |-> n, coin |-> b, job |-> n])
  IN jobs' = IF Len(all) > MaxTracked THEN Tail(all) ELSE all

\* registerJob: the registry evicts its oldest entry when it is full.
RegisterJob(b, n) ==
  LET all == Append(jobs, [id |-> FreshID, coin |-> b, job |-> n])
  IN jobs' = IF Len(all) > MaxTracked THEN Tail(all) ELSE all

\* Register job n of coin b and send it under its mesh ID (rewriteNotifyJobID,
\* SendRaw).  The miner works on it with the extranonce it has.
Give(b, n) ==
  /\ RegisterJob(b, n)
  /\ fits' = (en = Extranonce(b))

\* lookupJob: the entry of an ID; the map holds the one registered last.
Lookup(id) ==
  LET i == CHOOSE k \in 1..Len(jobs) :
             jobs[k].id = id /\ \A l \in k+1..Len(jobs) : jobs[l].id # id
  IN jobs[i]

\* mining.submit, for the job of the i-th entry: the share goes to the backend the
\* registry names, under that coin's own job number.  (A share for a job that is
\* not in the registry any more is answered as stale, and changes nothing.)
Submit(i) ==
  LET ref == Lookup(jobs[i].id)
  IN /\ ~closed /\ phase = "mining"
     /\ Cardinality(shares) < MaxShares
     /\ shares' = shares \cup {[coin |-> jobs[i].coin, job |-> jobs[i].job,
                                to |-> ref.coin, as |-> ref.job]}
     /\ UNCHANGED <<closed, active, home, rotating, pending, xnsub, jobs,
                    backendVars, minerVars, threadVars, envVars>>

\* The coin's reply: whether its backend is live or warm, noteSubmitResponse
\* takes it off the pending ones and it is passed to the miner.
CoinAnswers(s) ==
  /\ ~closed /\ s \in shares
  /\ run[s.to] = "read" /\ ~dead[s.to]
  /\ shares' = shares \ {s}
  /\ UNCHANGED <<closed, active, home, rotating, pending, xnsub, jobs,
                 backendVars, minerVars, threadVars, envVars>>

-----------------------------------------------------------------------------
(* switchTo(s, target, notify), by mover p *)

BeginSwitch(p, b) == sw' = [sw EXCEPT ![p] = [NotMoving EXCEPT !.pc = "check", !.target = b]]
Step(p, where)    == sw' = [sw EXCEPT ![p].pc = where]

\* The caller carries on: a reader reads the next line, or returns after onDead.
Finish(p) ==
  /\ sw' = [sw EXCEPT ![p] = NotMoving]
  /\ run' = IF p \notin Backends THEN run
            ELSE [run EXCEPT ![p] = IF @ = "failover" THEN "ended" ELSE "read"]

SwitchCheck(p) ==
  /\ ~closed /\ sw[p].pc = "check"
  /\ \/ /\ active # sw[p].target /\ ~dead[sw[p].target]
        /\ sw' = [sw EXCEPT ![p].pc = "leave", ![p].prev = active]
        /\ UNCHANGED run
     \/ /\ active = sw[p].target \/ dead[sw[p].target]
        /\ Finish(p)
  /\ UNCHANGED <<sessionVars, backendVars, minerVars, auth, api, envVars>>

\* setPending(nil), prev.GoWarm().
SwitchLeave(p) ==
  /\ ~closed /\ sw[p].pc = "leave"
  /\ pending' = NoCoin
  /\ live' = [live EXCEPT ![sw[p].prev] = FALSE]
  /\ sw' = [sw EXCEPT ![p].pc = "enter", ![p].prev = NoCoin]
  /\ UNCHANGED <<closed, active, home, rotating, xnsub, jobs, shares,
                 dead, conn, last, minerVars, run, auth, api, envVars>>

\* A miner that cannot be told a new extranonce is disconnected instead.
SwitchEnter(p) ==
  /\ ~closed /\ sw[p].pc = "enter"
  /\ \/ ~xnsub /\ closed' = TRUE /\ UNCHANGED <<active, sw>>
     \/ xnsub /\ active' = sw[p].target /\ Step(p, "tell") /\ UNCHANGED closed
  /\ UNCHANGED <<home, rotating, pending, xnsub, jobs, shares,
                 backendVars, minerVars, run, auth, api, envVars>>

\* mining.set_extranonce.
SwitchTell(p) ==
  /\ ~closed /\ sw[p].pc = "tell"
  /\ en' = Extranonce(sw[p].target)
  /\ Step(p, "golive")
  /\ UNCHANGED <<sessionVars, backendVars, phase, fits, run, auth, api, envVars>>

\* GoLive.  The job that is replayed is the cached one or the one that has just
\* arrived, and as the reader is busy with it, that is the cached one too.
SwitchGoLive(p) ==
  /\ ~closed /\ sw[p].pc = "golive"
  /\ live' = [live EXCEPT ![sw[p].target] = TRUE]
  /\ sw' = [sw EXCEPT ![p].pc = "replay", ![p].job = last[sw[p].target]]
  /\ UNCHANGED <<sessionVars, dead, conn, last, minerVars, run, auth, api, envVars>>

SwitchReplay(p) ==
  /\ ~closed /\ sw[p].pc = "replay"
  /\ \/ sw[p].job = 0 /\ UNCHANGED <<jobs, fits>>
     \/ sw[p].job # 0 /\ Give(sw[p].target, sw[p].job)
  /\ Finish(p)
  /\ UNCHANGED <<closed, active, home, rotating, pending, xnsub, shares,
                 backendVars, phase, en, auth, api, envVars>>

-----------------------------------------------------------------------------
(* A backend's reader: Run, onMessage, onWarmNotify, onDead *)

\* The coin sends a job; Run captures it.
Notify(b) ==
  /\ ~closed /\ run[b] = "read" /\ ~dead[b] /\ Authorized
  /\ JobSent
  /\ last' = [last EXCEPT ![b] = @ + 1]
  /\ run' = [run EXCEPT ![b] = "got"]
  /\ UNCHANGED <<sessionVars, dead, conn, live, minerVars, sw, auth, api, stored, want, events>>

SeeLive(b) ==
  /\ ~closed /\ run[b] = "got"
  /\ run' = [run EXCEPT ![b] = IF live[b] THEN "message" ELSE "warm"]
  /\ UNCHANGED <<sessionVars, backendVars, minerVars, sw, auth, api, envVars>>

\* onMessage: dropped unless b is the active backend ...
CheckActive(b) ==
  /\ ~closed /\ run[b] = "message"
  /\ run' = [run EXCEPT ![b] = IF active = b THEN "forward" ELSE "read"]
  /\ UNCHANGED <<sessionVars, backendVars, minerVars, sw, auth, api, envVars>>

\* ... and then sent.
Forward(b) ==
  /\ ~closed /\ run[b] = "forward"
  /\ Give(b, last[b])
  /\ run' = [run EXCEPT ![b] = "read"]
  /\ UNCHANGED <<closed, active, home, rotating, pending, xnsub, shares,
                 backendVars, phase, en, sw, auth, api, envVars>>

\* onWarmNotify: a deferred move lands on its target's own job.
WarmNotify(b) ==
  /\ ~closed /\ run[b] = "warm"
  /\ \/ pending = b /\ run' = [run EXCEPT ![b] = "switch"] /\ BeginSwitch(b, b)
     \/ pending # b /\ run' = [run EXCEPT ![b] = "read"] /\ UNCHANGED sw
  /\ UNCHANGED <<sessionVars, backendVars, minerVars, auth, api, envVars>>

\* The connection ends; shares it had not answered are lost with it.
Dies(b) ==
  /\ ~closed /\ run[b] = "read" /\ ~dead[b]
  /\ Event
  /\ dead' = [dead EXCEPT ![b] = TRUE]
  /\ run' = [run EXCEPT ![b] = "dead"]
  /\ shares' = {s \in shares : s.to # b}
  /\ UNCHANGED <<closed, active, home, rotating, pending, xnsub, jobs,
                 conn, last, live, minerVars, sw, auth, api, stored, want, sent>>

\* onDead: a warm backend's death is tolerated; from the active one the miner is
\* moved to the best coin still alive, or disconnected.
OnDead(b) ==
  LET next == FirstAlive(Backends \ {b})
  IN /\ ~closed /\ run[b] = "dead"
     /\ \/ /\ active # b
           /\ run' = [run EXCEPT ![b] = "ended"]
           /\ UNCHANGED <<closed, sw>>
        \/ /\ active = b /\ next # NoCoin
           /\ run' = [run EXCEPT ![b] = "failover"]
           /\ BeginSwitch(b, next)
           /\ UNCHANGED closed
        \/ /\ active = b /\ next = NoCoin
           /\ closed' = TRUE
           /\ UNCHANGED <<run, sw>>
     /\ UNCHANGED <<active, home, rotating, pending, xnsub, jobs, shares,
                    backendVars, minerVars, auth, api, envVars>>

\* Reconnect has dialled, authorized and seen a job: a new connection, a new
\* extranonce, a new reader, which is at that job.
ComesBack(b) ==
  /\ ~closed /\ run[b] = "ended" /\ Authorized
  /\ JobSent
  /\ dead' = [dead EXCEPT ![b] = FALSE]
  /\ conn' = [conn EXCEPT ![b] = @ + 1]
  /\ last' = [last EXCEPT ![b] = @ + 1]
  /\ run' = [run EXCEPT ![b] = "got"]
  /\ UNCHANGED <<sessionVars, live, minerVars, sw, auth, api, stored, want, events>>

-----------------------------------------------------------------------------
(* failbackLoop, rotateLoop and switchDeferred *)

\* Mutant: failbackLoop goes by list position alone.
FailbackByOrder ==
  LET cur == CHOOSE i \in 1..Len(Coins) : Coins[i] = active
  IN FirstAlive({Coins[i] : i \in 1..cur-1})

\* Where failbackLoop would move the miner: home if there is one, otherwise a live
\* coin of higher priority than the current one.
FailbackTarget ==
  IF home # NoCoin
  THEN IF home # active /\ ~dead[home] THEN home ELSE NoCoin
  ELSE LET cur == CHOOSE i \in 1..Len(Coins) : Coins[i] = active
       IN FirstAlive({Coins[i] : i \in 1..cur-1})

FailbackTick ==
  /\ ~closed /\ sw["failback"].pc = "idle"
  /\ ~rotating
  /\ FailbackTarget # NoCoin
  /\ BeginSwitch("failback", FailbackTarget)
  /\ UNCHANGED <<sessionVars, backendVars, minerVars, run, auth, api, envVars>>

\* rotateLoop's tick, when the miner should be elsewhere: wait for that coin's job.
RotateTick ==
  /\ ~closed /\ sw["rotate"].pc = "idle"
  /\ rotating /\ active # want /\ ~dead[want] /\ pending # want
  /\ pending' = want
  /\ UNCHANGED <<closed, active, home, rotating, xnsub, jobs, shares,
                 backendVars, minerVars, threadVars, envVars>>

\* Mutant: every tick defers the move again, so that the wait never reaches its limit.
RotateDefersAgain ==
  /\ ~closed /\ sw["rotate"].pc = "idle"
  /\ rotating /\ active # want /\ ~dead[want] /\ pending = want
  /\ pending' = want
  /\ UNCHANGED <<closed, active, home, rotating, xnsub, jobs, shares,
                 backendVars, minerVars, threadVars, envVars>>

\* The coin has been quiet for half its slice: move without waiting.
RotateAnyway ==
  /\ ~closed /\ sw["rotate"].pc = "idle"
  /\ rotating /\ active # want /\ ~dead[want] /\ pending = want
  /\ BeginSwitch("rotate", want)
  /\ UNCHANGED <<sessionVars, backendVars, minerVars, run, auth, api, envVars>>

\* The next slice of the cycle begins.
SliceBegins(b) ==
  /\ ~closed /\ rotating /\ b # want
  /\ Event
  /\ want' = b
  /\ UNCHANGED <<sessionVars, backendVars, minerVars, threadVars, stored, sent>>

-----------------------------------------------------------------------------
(* ReassignWorker, from the API or the balancer *)

\* The worker is in the live registry from the start of its authorize.
Reassign(b, split) ==
  /\ ~closed /\ api.pc = "idle"
  /\ <<b, split>> \in Targets[stored]
  /\ phase \in {"authorizing", "mining"}
  /\ Event
  /\ SetRotation(split)
  /\ api' = [pc |-> "home", target |-> b, split |-> split]
  /\ UNCHANGED <<closed, active, home, pending, xnsub, jobs, shares,
                 backendVars, minerVars, run, sw, auth, stored, sent>>

ReassignHome ==
  /\ ~closed /\ api.pc = "home"
  /\ home' = IF api.split THEN NoCoin ELSE api.target
  /\ api' = [api EXCEPT !.pc = "defer"]
  /\ UNCHANGED <<closed, active, rotating, pending, xnsub, jobs, shares,
                 backendVars, minerVars, run, sw, auth, envVars>>

\* Nothing more to do when the miner is there already or the coin is down;
\* otherwise switchDeferred.
ReassignDefer ==
  /\ ~closed /\ api.pc = "defer"
  /\ pending' = IF api.target = active \/ dead[api.target] THEN pending ELSE api.target
  /\ api' = [pc |-> "idle", target |-> NoCoin, split |-> FALSE]
  /\ UNCHANGED <<closed, active, home, rotating, xnsub, jobs, shares,
                 backendVars, minerVars, run, sw, auth, envVars>>

-----------------------------------------------------------------------------
(* runMiner: what the miner sends *)

Subscribe ==
  /\ ~closed /\ phase = "connected"
  /\ phase' = "subscribed"
  /\ en' = Extranonce(active)
  /\ UNCHANGED <<sessionVars, backendVars, fits, threadVars, envVars>>

\* mining.extranonce.subscribe, handled between two other messages.
ExtranonceSubscribe ==
  /\ ~closed /\ phase \in {"subscribed", "mining"} /\ ~xnsub
  /\ xnsub' = TRUE
  /\ UNCHANGED <<closed, active, home, rotating, pending, jobs, shares,
                 backendVars, minerVars, threadVars, envVars>>

\* mining.authorize.  A worker split over coins rotates; one pinned to a coin has
\* it as home, and starts there if it is alive.
Authorize(a) ==
  /\ ~closed /\ phase = "subscribed"
  /\ phase' = "authorizing"
  /\ IF a = Split THEN SetRotation(TRUE) ELSE UNCHANGED <<rotating, want>>
  /\ \/ /\ a \in {Split, NoCoin}
        /\ auth' = [NoAuth EXCEPT !.pc = "choose"]
        /\ UNCHANGED home
     \/ /\ a \in Backends /\ (a = active \/ dead[a])
        /\ auth' = [NoAuth EXCEPT !.pc = "choose"]
        /\ home' = a
     \/ /\ a \in Backends /\ a # active /\ ~dead[a]
        /\ auth' = [NoAuth EXCEPT !.pc = "start", !.b = a]
        /\ UNCHANGED home
  /\ UNCHANGED <<closed, active, pending, xnsub, jobs, shares,
                 backendVars, en, fits, run, sw, api, stored, sent, events>>

\* setActive(ab), setHome(ab).
StartOnAssigned ==
  /\ ~closed /\ auth.pc = "start"
  /\ active' = auth.b
  /\ home' = auth.b
  /\ auth' = [NoAuth EXCEPT !.pc = "choose"]
  /\ UNCHANGED <<closed, rotating, pending, xnsub, jobs, shares,
                 backendVars, minerVars, run, sw, api, envVars>>

\* The coin that is active now gates the reply.  Every backend is authorized; on a
\* dead connection that may fail, and if it is this one's the session ends.
AuthorizeBackends ==
  /\ ~closed /\ auth.pc = "choose"
  /\ \/ auth' = [NoAuth EXCEPT !.pc = "await", !.b = active] /\ UNCHANGED closed
     \/ dead[active] /\ closed' = TRUE /\ UNCHANGED auth
  /\ UNCHANGED <<active, home, rotating, pending, xnsub, jobs, shares,
                 backendVars, minerVars, run, sw, api, envVars>>

\* WaitForFirstJob(10s), the reply, and SettleDifficulty.
FirstJob ==
  /\ ~closed /\ auth.pc = "await"
  /\ \/ last[auth.b] # 0 /\ auth' = [auth EXCEPT !.pc = "golive"] /\ UNCHANGED closed
     \/ last[auth.b] = 0 /\ closed' = TRUE /\ UNCHANGED auth
  /\ UNCHANGED <<active, home, rotating, pending, xnsub, jobs, shares,
                 backendVars, minerVars, run, sw, api, envVars>>

\* Mutant: authorize makes its backend the only live one.
AuthGoLiveAlone ==
  /\ ~closed /\ auth.pc = "golive"
  /\ live' = [b \in Backends |-> b = auth.b]
  /\ auth' = [auth EXCEPT !.pc = "replay", !.job = last[auth.b]]
  /\ UNCHANGED <<sessionVars, dead, conn, last, minerVars, run, sw, api, envVars>>

AuthGoLive ==
  /\ ~closed /\ auth.pc = "golive"
  /\ live' = [live EXCEPT ![auth.b] = TRUE]
  /\ auth' = [auth EXCEPT !.pc = "replay", !.job = last[auth.b]]
  /\ UNCHANGED <<sessionVars, dead, conn, last, minerVars, run, sw, api, envVars>>

AuthReplay ==
  /\ ~closed /\ auth.pc = "replay"
  /\ Give(auth.b, auth.job)
  /\ phase' = "mining"
  /\ auth' = NoAuth
  /\ UNCHANGED <<closed, active, home, rotating, pending, xnsub, shares,
                 backendVars, en, run, sw, api, envVars>>

-----------------------------------------------------------------------------
\* A closed session does nothing more.  The miner's own leaving, which may come at
\* any point, only cuts a behaviour short, so it is not an action.
Switch(p) ==
  \/ SwitchCheck(p) \/ SwitchLeave(p) \/ SwitchEnter(p)
  \/ SwitchTell(p) \/ SwitchGoLive(p) \/ SwitchReplay(p)

Reader(b) == SeeLive(b) \/ CheckActive(b) \/ Forward(b) \/ WarmNotify(b) \/ OnDead(b)

Authorizing ==
  StartOnAssigned \/ AuthorizeBackends \/ FirstJob \/ AuthGoLive \/ AuthReplay

Next ==
  \/ \E p \in Movers : Switch(p)
  \/ \E b \in Backends :
       \/ Reader(b) \/ Notify(b) \/ Dies(b) \/ ComesBack(b) \/ SliceBegins(b)
  \/ FailbackTick \/ RotateTick \/ RotateAnyway
  \/ \E b \in Backends, split \in BOOLEAN : Reassign(b, split)
  \/ ReassignHome \/ ReassignDefer
  \/ Subscribe \/ ExtranonceSubscribe \/ Authorizing
  \/ Authorize(stored)
  \/ \E i \in 1..Len(jobs) : Submit(i)
  \/ \E s \in shares : CoinAnswers(s)

Spec == Init /\ [][Next]_vars

\* Each goroutine goes on when it can, and tickers tick.  Nothing obliges coins to send
\* jobs, to come back or to die, nor the miner and the user to do anything.
Fairness ==
  /\ \A b \in Backends : WF_vars(Reader(b) \/ Switch(b))
  /\ WF_vars(FailbackTick \/ Switch("failback"))
  /\ WF_vars(RotateTick \/ RotateAnyway \/ Switch("rotate"))
  /\ WF_vars(ReassignHome \/ ReassignDefer)
  /\ WF_vars(Authorizing)

FairSpec == Spec /\ Fairness
-----------------------------------------------------------------------------
(* Properties *)

Moves == {"idle", "check", "leave", "enter", "tell", "golive", "replay"}

\* Types, and what a thread in the middle of an operation holds: a mover past its
\* check has a target and a coin it leaves, and authorize past its wait a backend.
TypeOK ==
  /\ closed \in BOOLEAN /\ rotating \in BOOLEAN /\ xnsub \in BOOLEAN
  /\ active \in Backends
  /\ home \in Backends \cup {NoCoin} /\ pending \in Backends \cup {NoCoin}
  /\ Len(jobs) <= MaxTracked
  /\ \A i \in 1..Len(jobs) : jobs[i].coin \in Backends /\ jobs[i].job \in 1..MaxJobs
  /\ \A s \in shares : s.to \in Backends /\ s.as \in 1..MaxJobs
  /\ dead \in [Backends -> BOOLEAN] /\ live \in [Backends -> BOOLEAN]
  /\ conn \in [Backends -> 0..MaxJobs] /\ last \in [Backends -> 0..MaxJobs]
  /\ run \in [Backends -> {"read", "got", "message", "forward", "warm", "switch",
                           "dead", "failover", "ended"}]
  /\ \A p \in Movers :
       /\ sw[p].pc \in Moves
       /\ sw[p].pc # "idle" => sw[p].target \in Backends
       /\ sw[p].pc = "leave" => sw[p].prev \in Backends \ {sw[p].target}
  /\ auth.pc \in {"idle", "start", "choose", "await", "golive", "replay"}
  /\ auth.pc \in {"start", "await", "golive", "replay"} => auth.b \in Backends
  /\ auth.pc = "replay" => auth.job # 0
  /\ api.pc \in {"idle", "home", "defer"}
  /\ phase \in {"connected", "subscribed", "authorizing", "mining"}
  /\ (auth.pc # "idle") <=> (phase = "authorizing")
  /\ IF rotating THEN want \in Backends ELSE want = NoCoin

\* (mining.submit, registerJob, lookupJob)  A share reaches the coin that issued
\* its job, under the number that coin knows it by, however often the miner has
\* been moved since: coins number their jobs independently, and collide.
SharesReachIssuer == \A s \in shares : s.to = s.coin /\ s.as = s.job

\* Between setActive and GoLive of a move the active coin's jobs are not forwarded
\* yet, and between GoWarm and setActive not any more.
SwitchUnderWay == \E p \in Movers : sw[p].pc \in {"enter", "tell", "golive"}

\* (switchTo, authorize)  However the movers interleave, once none of them is in
\* the middle of a move the active coin's jobs are forwarded: a miner is never
\* left active on a coin that only caches its jobs.
ActiveIsLive == phase = "mining" /\ ~SwitchUnderWay => live[active]

\* A miner pinned to a coin that stays up ends up on that coin and stays there,
\* unless its session ends, whatever moves were deferred or under way before
\* (homeBackend, failbackLoop; relay.go: "A miner with an assigned coin belongs
\* there whenever it is up").
HomeReached ==
  \A b \in Backends :
    <>[](home = b /\ ~rotating /\ ~dead[b]) => <>[](closed \/ active = b)

\* (rotateLoop, switchDeferred)  A rotating miner ends up on the coin whose slice
\* it is, when that coin stays up, even if the coin sends no job at all.
SliceReached ==
  \A b \in Backends :
    <>[](rotating /\ want = b /\ ~dead[b]) => <>[](closed \/ active = b)

\* onDead: "The active coin dying means the miner has nowhere to get work from, so
\* move it to the best coin still alive. Only if none are left is the session
\* closed": a miner does not stay for ever on a coin that is dead for good while
\* another one it is bonded to is up for good.
MinerServed ==
  \A b, c \in Backends :
    <>[](dead[b] /\ ~dead[c]) => <>[](closed \/ active # b)

\* A job is given to a miner that has the extranonce of that coin's connection.
\* relay.go, switchActive: "sending it the new coin's jobs would produce shares
\* built on the wrong extranonce, which the coin would reject".
JobsMatchExtranonce == fits
=============================================================================

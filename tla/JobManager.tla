----------------------------- MODULE JobManager -----------------------------
(***************************************************************************)
(* pkg/engine/jobmanager.go: the poll loop and the ZMQ subscriber each      *)
(* fetch a block template, turn it into a job under jm.mu, and hand the job *)
(* to the V1 and the SV2 server after releasing it.  Solo-mode sessions     *)
(* (pkg/stratum/session.go, the hooks of coinrunner.go) register payout     *)
(* addresses concurrently: a job carries one coinbase tail (coinb2) per     *)
(* registered address.                                                      *)
(*                                                                          *)
(* A block hash is a member of Tips, a template is the tip it builds on, a  *)
(* coinbase tail is the address it pays, and the clock-seeded job counter   *)
(* counts from 0.  Every action below is one critical section or one        *)
(* network exchange of the code.                                            *)
(***************************************************************************)
EXTENDS Integers, FiniteSets

CONSTANTS
  Modes,         \* the mining modes to consider: TRUE for solo, FALSE for pool
  Tips,          \* block hashes the node's best chain can end in
  NoTip,         \* currentTip before the first template
  Addrs,         \* payout addresses ValidateAddress accepts
  Buildable,     \* those AddressToScript can pay to
  NoAddr,        \* the empty address
  Sessions,      \* V1 miner connections
  History,       \* maxJobHistory
  MaxFailures,   \* maxTemplateFailures
  MaxTipChanges, \* bound: how often the node's best block changes
  MaxJobs,       \* bound: no tx-update job is issued beyond this many jobs
  MaxCount       \* bound: a session stops registering an address counted this often

ASSUME JMAssumption ==
  /\ Modes \subseteq BOOLEAN
  /\ NoTip \notin Tips
  /\ NoAddr \notin Addrs
  /\ Sessions # {} /\ IsFiniteSet(Sessions)
  /\ Buildable \subseteq Addrs
  /\ History \in Nat \ {0}
  /\ MaxFailures \in Nat \ {0}
  /\ MaxTipChanges \in Nat
  /\ MaxJobs \in Nat
  /\ MaxCount \in Nat \ {0}

VARIABLES
  \* configuration and node
  soloMode,       \* cfg.Mining.Mode = "solo"
  payout,         \* cfg.Mining.Address, NoAddr when not set
  nodeTip,        \* the node's best block
  tipChanges,     \* how often it has changed (bounded)
  zmqPending,     \* hashblock messages published and not yet received
  \* job manager
  jobs,           \* job number -> [tip, c1, c2]: jm.jobs
  jobCounter,
  latestJob,      \* number of the newest job, 0 when none
  latestClean,    \* its CleanJobs flag
  currentTip,
  lastBroadcastTip,
  quiet,          \* 30 s have passed since lastCleanJobAt
  connectedAddrs, \* address -> session count, absent when 0
  failures,       \* consecutiveFailures of the poll loop
  phase,          \* life of the manager
  pc,             \* what each refreshing goroutine is doing
  held,           \* the template it fetched, or the number of the job it announces
  unsent,         \* the sessions its V1 broadcast has not visited yet
  \* Stratum side
  v1Job,          \* stratum.Server.currentJob (a job number)
  v2Job,          \* the SV2 server's latest template (a job number)
  sess,           \* protocol state of each V1 session
  addr,           \* its mining address
  isNew,          \* RegisterAddress found the address new and must fill it in
  miner           \* the job it was last sent since it authorized, 0 when none

nodeVars == <<nodeTip, tipChanges, zmqPending>>
confVars == <<soloMode, payout>>
jobVars  == <<jobs, jobCounter, latestJob, latestClean, currentTip, lastBroadcastTip, quiet>>
loopVars == <<failures, phase>>
sessVars == <<sess, addr, isNew>>
pcVars   == <<pc, held, unsent>>
vars == <<nodeVars, confVars, jobVars, loopVars, sessVars, connectedAddrs, pcVars,
          v1Job, v2Job, miner>>

Refreshers == {"poll", "zmq"}

\* The outcome of coin.BuildCoinbase: it fails exactly when the address cannot be paid to.
BuildCoinbase(a) == a \in Buildable

Init ==
  /\ soloMode \in Modes
  /\ payout \in IF soloMode THEN Buildable \cup {NoAddr} ELSE Buildable
  /\ nodeTip \in Tips
  /\ tipChanges = 0
  /\ zmqPending = 0
  /\ jobs = [n \in {} |-> [tip |-> NoTip, c1 |-> FALSE, c2 |-> {}]]
  /\ jobCounter = 0
  /\ latestJob = 0
  /\ latestClean = FALSE
  /\ currentTip = NoTip
  /\ lastBroadcastTip = NoTip
  /\ quiet = FALSE
  \* The configured payout address is registered once and never unregistered.
  /\ connectedAddrs = [a \in Addrs |-> IF soloMode /\ a = payout THEN 1 ELSE 0]
  /\ failures = 0
  /\ phase = "starting"
  /\ pc = [r \in Refreshers |-> "idle"]
  /\ held = [r \in Refreshers |-> NoTip]
  /\ unsent = [r \in Refreshers |-> {}]
  /\ v1Job = 0
  /\ v2Job = 0
  /\ sess = [s \in Sessions |-> "connected"]
  /\ addr = [s \in Sessions |-> NoAddr]
  /\ isNew = [s \in Sessions |-> FALSE]
  /\ miner = [s \in Sessions |-> 0]

-----------------------------------------------------------------------------
(* The node *)

\* A block arrives or a reorganisation moves the best chain.  The hashblock
\* message is published, and may be lost.
NodeNewTip(t) ==
  /\ tipChanges < MaxTipChanges
  /\ t # nodeTip
  /\ nodeTip' = t
  /\ tipChanges' = tipChanges + 1
  /\ \/ zmqPending' = zmqPending + 1
     \/ UNCHANGED zmqPending
  /\ UNCHANGED <<confVars, jobVars, loopVars, sessVars, connectedAddrs, pcVars,
                 v1Job, v2Job, miner>>

\* time.Since(lastCleanJobAt) reaches 30 seconds.
ThirtySecondsPass ==
  /\ ~quiet
  /\ currentTip # NoTip
  /\ jobCounter < MaxJobs
  /\ quiet' = TRUE
  /\ UNCHANGED <<nodeVars, confVars, jobs, jobCounter, latestJob, latestClean, currentTip,
                 lastBroadcastTip, loopVars, sessVars, connectedAddrs, pcVars, v1Job,
                 v2Job, miner>>

-----------------------------------------------------------------------------
(* refreshTemplate, in the poll loop and in OnBlockNotification *)

Forced(r) == r = "zmq" \/ phase = "starting"

\* The goroutine begins a refresh and its getblocktemplate call returns a
\* template.  Start and every tick of the poll loop; a hashblock message.
MayRefresh(r) ==
  /\ pc[r] = "idle"
  /\ \/ r = "poll" /\ phase \in {"starting", "running", "stopping"}
     \/ r = "zmq" /\ phase = "running" /\ zmqPending > 0

GetTemplate(r) ==
  /\ MayRefresh(r)
  /\ pc' = [pc EXCEPT ![r] = "fetched"]
  /\ held' = [held EXCEPT ![r] = nodeTip]
  /\ zmqPending' = IF r = "zmq" THEN zmqPending - 1 ELSE zmqPending
  /\ UNCHANGED <<nodeTip, tipChanges, confVars, jobVars, loopVars, sessVars,
                 connectedAddrs, unsent, v1Job, v2Job, miner>>

\* The call fails.  The poll loop counts consecutive failures and asks the
\* engine to stop the coin at exactly maxTemplateFailures; Start gives up; the
\* ZMQ handler only logs.
GetTemplateFails(r) ==
  /\ MayRefresh(r)
  /\ zmqPending' = IF r = "zmq" THEN zmqPending - 1 ELSE zmqPending
  /\ \/ r = "zmq" /\ UNCHANGED <<failures, phase>>
     \/ r = "poll" /\ phase = "starting" /\ phase' = "stopped" /\ UNCHANGED failures
     \/ /\ r = "poll" /\ phase # "starting"
        /\ failures' = IF failures < MaxFailures THEN failures + 1 ELSE failures
        /\ phase' = IF failures + 1 = MaxFailures THEN "stopping" ELSE phase
  /\ UNCHANGED <<nodeTip, tipChanges, confVars, jobVars, sessVars, connectedAddrs, pcVars,
                 v1Job, v2Job, miner>>

\* Mutant: a forced refresh never drops the miners' work.
CleanUnlessForced(r) == ~Forced(r) /\ held[r] # currentTip

\* What refreshTemplate decides once it holds jm.mu.
CleanJobs(r) == held[r] # currentTip

AlreadyBroadcast(r) == CleanJobs(r) /\ lastBroadcastTip = held[r]

\* Mutant: the 30-second rule applied to every template.
TooSoonForAnyTip(r) == ~Forced(r) /\ (~quiet \/ jobCounter >= MaxJobs)

TooSoon(r) == ~CleanJobs(r) /\ ~Forced(r) /\ (~quiet \/ jobCounter >= MaxJobs)

Registered == {a \in Addrs : connectedAddrs[a] > 0}

\* Whether the job gets a coinb1: the first address the map iteration yields
\* supplies it, and the configured address when that one could not be built.
Coinb1Outcomes ==
  {c1 \in BOOLEAN :
     IF Registered = {} THEN c1 = BuildCoinbase(payout)
     ELSE \E first \in Registered : c1 = (BuildCoinbase(first) \/ BuildCoinbase(payout))}

NewJob(t) ==
  IF soloMode
  THEN {[tip |-> t, c1 |-> c1, c2 |-> {a \in Registered : BuildCoinbase(a)}] :
          c1 \in Coinb1Outcomes}
  ELSE {[tip |-> t, c1 |-> TRUE, c2 |-> {}]}

\* pruneJobs keeps the History newest jobs; Created and the job number grow together.
pruneJobs(js) ==
  LET newest == {n \in DOMAIN js : Cardinality({m \in DOMAIN js : m > n}) < History}
  IN  [n \in newest |-> js[n]]

\* A refresh that returned without error resets the poll loop's failure count.
Succeeded(r) ==
  /\ failures' = IF r = "poll" THEN 0 ELSE failures
  /\ phase' = IF r = "poll" /\ phase = "starting" THEN "running" ELSE phase

refreshSkip(r) ==
  /\ pc[r] = "fetched"
  /\ AlreadyBroadcast(r) \/ TooSoon(r)
  /\ Succeeded(r)
  /\ pc' = [pc EXCEPT ![r] = "idle"]
  /\ held' = [held EXCEPT ![r] = NoTip]
  /\ UNCHANGED <<nodeVars, confVars, jobVars, sessVars, connectedAddrs, unsent, v1Job, v2Job,
                 miner>>

refreshTemplate(r) ==
  /\ pc[r] = "fetched"
  /\ ~AlreadyBroadcast(r) /\ ~TooSoon(r)
  /\ lastBroadcastTip' = IF CleanJobs(r) THEN held[r] ELSE lastBroadcastTip
  /\ quiet' = IF CleanJobs(r) THEN FALSE ELSE quiet
  /\ currentTip' = held[r]
  /\ jobCounter' = jobCounter + 1
  /\ latestJob' = jobCounter + 1
  /\ latestClean' = CleanJobs(r)
  /\ \E job \in NewJob(held[r]) :
       jobs' = pruneJobs([n \in DOMAIN jobs \cup {jobCounter + 1} |->
                            IF n = jobCounter + 1 THEN job ELSE jobs[n]])
  /\ pc' = [pc EXCEPT ![r] = "notifyV1"]
  /\ held' = [held EXCEPT ![r] = jobCounter + 1]
  /\ UNCHANGED <<nodeVars, confVars, loopVars, sessVars, connectedAddrs, unsent, v1Job, v2Job,
                 miner>>

-----------------------------------------------------------------------------
(* The callbacks, after jm.mu is released *)

\* A session in the middle of mining.authorize holds its mutex, which the
\* broadcast needs: it waits for it.
Authorizing(s) == sess[s] \in {"registered", "filled"}

\* Mutant: the base job is sent when no coinbase is known for the address.
CanSendBaseJob(n, s) == sess[s] = "authorized"

GetAddressCoinb2(n, a) == n \in DOMAIN jobs /\ a \in jobs[n].c2

\* A session is sent the job once it is authorized; in solo mode the job is
\* customized with the coinb2 of the session's address, and not sent without.
CanSend(n, s) ==
  /\ sess[s] = "authorized"
  /\ soloMode => GetAddressCoinb2(n, addr[s])

\* onNewJob: the server records the job and visits every session it knows, one
\* after the other, holding sessionsMu for reading.
BroadcastJob(r) ==
  /\ pc[r] = "notifyV1"
  /\ v1Job' = held[r]
  /\ unsent' = [unsent EXCEPT ![r] = Sessions]
  /\ pc' = [pc EXCEPT ![r] = "sending"]
  /\ UNCHANGED <<nodeVars, confVars, jobVars, loopVars, sessVars, connectedAddrs, held, v2Job,
                 miner>>

SendJob(r, s) ==
  /\ pc[r] = "sending"
  /\ s \in unsent[r]
  /\ ~Authorizing(s)
  /\ miner' = IF CanSend(held[r], s) THEN [miner EXCEPT ![s] = held[r]] ELSE miner
  /\ unsent' = [unsent EXCEPT ![r] = @ \ {s}]
  /\ pc' = IF unsent[r] = {s} THEN [pc EXCEPT ![r] = "notifyV2"] ELSE pc
  /\ UNCHANGED <<nodeVars, confVars, jobVars, loopVars, sessVars, connectedAddrs, held, v1Job,
                 v2Job>>

\* onNewJobV2: the SV2 server takes the template of the same event.
notifyV2(r) ==
  /\ pc[r] = "notifyV2"
  /\ v2Job' = held[r]
  /\ pc' = [pc EXCEPT ![r] = "idle"]
  /\ held' = [held EXCEPT ![r] = NoTip]
  /\ Succeeded(r)
  /\ UNCHANGED <<nodeVars, confVars, jobVars, sessVars, connectedAddrs, unsent, v1Job, miner>>

-----------------------------------------------------------------------------
(* V1 sessions: mining.authorize and the end of the connection *)

\* The first half of RegisterAddress, under addrMu; in pool mode there is no
\* authorize hook.  A session may authorize again, under another worker name:
\* the address it had stays counted.
RegisterAddress(s, a) ==
  /\ soloMode
  /\ sess[s] \in {"connected", "authorized"}
  /\ connectedAddrs[a] < MaxCount
  /\ connectedAddrs' = [connectedAddrs EXCEPT ![a] = @ + 1]
  /\ isNew' = [isNew EXCEPT ![s] = connectedAddrs[a] = 0]
  /\ sess' = [sess EXCEPT ![s] = "registered"]
  /\ addr' = [addr EXCEPT ![s] = a]
  /\ miner' = [miner EXCEPT ![s] = 0]
  /\ UNCHANGED <<nodeVars, confVars, jobVars, loopVars, pcVars, v1Job, v2Job>>

\* The second half, under jm.mu: every job still held gets a coinb2 for a new
\* address, and its missing coinb1.
FillJob(job, a) ==
  IF a \in job.c2 \/ ~BuildCoinbase(a) THEN job
  ELSE [job EXCEPT !.c1 = TRUE, !.c2 = @ \cup {a}]

\* Mutant: only the newest job is filled in.
FillLatestJob(s) ==
  /\ sess[s] = "registered"
  /\ jobs' = IF isNew[s] /\ latestJob # 0
             THEN [jobs EXCEPT ![latestJob] = FillJob(@, addr[s])] ELSE jobs
  /\ isNew' = [isNew EXCEPT ![s] = FALSE]
  /\ sess' = [sess EXCEPT ![s] = "filled"]
  /\ UNCHANGED <<nodeVars, confVars, jobCounter, latestJob, latestClean, currentTip,
                 lastBroadcastTip, quiet, loopVars, addr, connectedAddrs, pcVars, v1Job,
                 v2Job, miner>>

FillJobs(s) ==
  /\ sess[s] = "registered"
  /\ jobs' = IF isNew[s] THEN [n \in DOMAIN jobs |-> FillJob(jobs[n], addr[s])] ELSE jobs
  /\ isNew' = [isNew EXCEPT ![s] = FALSE]
  /\ sess' = [sess EXCEPT ![s] = "filled"]
  /\ UNCHANGED <<nodeVars, confVars, jobCounter, latestJob, latestClean, currentTip,
                 lastBroadcastTip, quiet, loopVars, addr, connectedAddrs, pcVars, v1Job,
                 v2Job, miner>>

\* The newest job, if it has a coinb2 for the address; 0 for no job.
GetJobForAddress(a) == IF GetAddressCoinb2(latestJob, a) THEN latestJob ELSE 0

\* The rest of handleAuthorize: the session is authorized and sent the current
\* job, GetJobForAddress in solo mode and the server's current job otherwise.
handleAuthorize(s) ==
  /\ IF soloMode THEN sess[s] = "filled" ELSE sess[s] = "connected"
  /\ sess' = [sess EXCEPT ![s] = "authorized"]
  /\ miner' = [miner EXCEPT ![s] = IF soloMode THEN GetJobForAddress(addr[s]) ELSE v1Job]
  /\ UNCHANGED <<nodeVars, confVars, jobVars, loopVars, addr, isNew, connectedAddrs, pcVars,
                 v1Job, v2Job>>

\* The connection ends and removeSession takes the session out of the server,
\* for which it needs sessionsMu to itself.
Disconnect(s) ==
  /\ \A r \in Refreshers : pc[r] # "sending"
  /\ sess[s] = "authorized"
  /\ sess' = [sess EXCEPT ![s] = "removed"]
  /\ miner' = [miner EXCEPT ![s] = 0]
  /\ UNCHANGED <<nodeVars, confVars, jobVars, loopVars, addr, isNew, connectedAddrs, pcVars,
                 v1Job, v2Job>>

\* The OnSessionRemoved hook.  A new connection may take the slot.
UnregisterAddress(s) ==
  /\ sess[s] = "removed"
  /\ connectedAddrs' = IF addr[s] = NoAddr THEN connectedAddrs
                       ELSE [connectedAddrs EXCEPT ![addr[s]] = IF @ <= 1 THEN 0 ELSE @ - 1]
  /\ sess' = [sess EXCEPT ![s] = "connected"]
  /\ addr' = [addr EXCEPT ![s] = NoAddr]
  /\ UNCHANGED <<nodeVars, confVars, jobVars, loopVars, isNew, pcVars, v1Job, v2Job, miner>>

-----------------------------------------------------------------------------
(* The end of the coin *)

\* CoinRunner.Stop asked for by the engine.
StopCoin ==
  /\ phase = "running"
  /\ phase' = "stopping"
  /\ UNCHANGED <<nodeVars, confVars, jobVars, failures, sessVars, connectedAddrs, pcVars,
                 v1Job, v2Job, miner>>

\* zmqSub.Stop has waited for the ZMQ goroutine, stopCh is closed, and the poll
\* loop's select picks it.
PollLoopExits ==
  /\ phase = "stopping"
  /\ \A r \in Refreshers : pc[r] = "idle"
  /\ phase' = "stopped"
  /\ UNCHANGED <<nodeVars, confVars, jobVars, failures, sessVars, connectedAddrs, pcVars,
                 v1Job, v2Job, miner>>

RefreshStep(r) ==
  \/ GetTemplate(r)
  \/ GetTemplateFails(r)
  \/ refreshSkip(r)
  \/ refreshTemplate(r)
  \/ BroadcastJob(r)
  \/ \E s \in Sessions : SendJob(r, s)
  \/ notifyV2(r)

AuthorizeStep(s) == FillJobs(s) \/ handleAuthorize(s)

Next ==
  \/ \E t \in Tips : NodeNewTip(t)
  \/ ThirtySecondsPass
  \/ \E r \in Refreshers : RefreshStep(r)
  \/ \E s \in Sessions, a \in Addrs : RegisterAddress(s, a)
  \/ \E s \in Sessions : AuthorizeStep(s) \/ Disconnect(s) \/ UnregisterAddress(s)
  \/ StopCoin
  \/ PollLoopExits

Spec == Init /\ [][Next]_vars

\* The goroutines run: a ticker keeps ticking, an RPC answers or fails, an
\* authorize that holds the session's mutex finishes, and select eventually
\* picks a closed stop channel.
Fairness ==
  /\ \A r \in Refreshers : WF_vars(RefreshStep(r))
  /\ \A s \in Sessions : WF_vars(sess[s] # "connected" /\ AuthorizeStep(s))
  /\ SF_vars(PollLoopExits)

FairSpec == Spec /\ Fairness

-----------------------------------------------------------------------------
(* Properties *)

Job == [tip : Tips, c1 : BOOLEAN, c2 : SUBSET Addrs]

\* js is a table of jobs with numbers up to c.
JobTable(js, c) ==
  /\ DOMAIN js \subseteq 1..c
  /\ js = [n \in DOMAIN js |-> js[n]]
  /\ \A n \in DOMAIN js : js[n] \in Job

\* Every variable stays within its type.
TypeOK ==
  /\ soloMode \in BOOLEAN
  /\ payout \in Addrs \cup {NoAddr}
  /\ nodeTip \in Tips
  /\ tipChanges \in 0..MaxTipChanges
  /\ zmqPending \in Nat
  /\ jobCounter \in Nat
  /\ JobTable(jobs, jobCounter)
  /\ latestJob \in 0..jobCounter
  /\ latestClean \in BOOLEAN
  /\ currentTip \in Tips \cup {NoTip}
  /\ lastBroadcastTip \in Tips \cup {NoTip}
  /\ quiet \in BOOLEAN
  /\ connectedAddrs \in [Addrs -> Nat]
  /\ failures \in 0..MaxFailures
  /\ phase \in {"starting", "running", "stopping", "stopped"}
  /\ pc \in [Refreshers -> {"idle", "fetched", "notifyV1", "sending", "notifyV2"}]
  /\ DOMAIN held = Refreshers
  /\ \A r \in Refreshers :
       /\ pc[r] = "idle" => held[r] = NoTip
       /\ pc[r] = "fetched" => held[r] \in Tips
       /\ pc[r] \in {"notifyV1", "sending", "notifyV2"} => held[r] \in 1..jobCounter
  /\ unsent \in [Refreshers -> SUBSET Sessions]
  /\ v1Job \in 0..jobCounter
  /\ v2Job \in 0..jobCounter
  /\ sess \in [Sessions -> {"connected", "registered", "filled", "authorized", "removed"}]
  /\ addr \in [Sessions -> Addrs \cup {NoAddr}]
  /\ isNew \in [Sessions -> BOOLEAN]
  /\ miner \in [Sessions -> 0..jobCounter]

\* The validator can look up exactly the History newest jobs: pruning never
\* drops a newer job than one it keeps, never the newest, and keeps no more
\* than maxJobHistory (pruneJobs after the insertion in refreshTemplate).
NewestJobsHonoured ==
  /\ DOMAIN jobs = {n \in 1..jobCounter : jobCounter - n < History}
  /\ latestJob = jobCounter

\* Solo mode: while an address is registered and no session is still filling it
\* in, every job the pool honours carries its coinbase, whatever the order of
\* template refreshes, authorizations and disconnections.
SoloCoverage ==
  soloMode => \A a \in Registered \cap Buildable :
    \/ \E s \in Sessions : sess[s] = "registered" /\ isNew[s] /\ addr[s] = a
    \/ \A n \in DOMAIN jobs : a \in jobs[n].c2

\* A job that can be sent to some miner has its first coinbase half too, as
\* long as the configured address, or every address, can be paid to.
Coinb1Complete ==
  payout \in Buildable \/ Buildable = Addrs =>
    \A n \in DOMAIN jobs : jobs[n].c2 # {} => jobs[n].c1

\* Solo mode: ValidateShare never refuses the share of a miner working on a job
\* the pool sent it for want of a coinbase: as long as the pool honours the job,
\* the job pays the address the session has now.
SentJobsPayable ==
  soloMode => \A s \in Sessions :
    sess[s] = "authorized" /\ miner[s] \in DOMAIN jobs => addr[s] \in jobs[miner[s]].c2

\* An address is registered as long as a session using it is connected: one
\* miner leaving never takes the address from another, nor from the pinned
\* payout address.
UsersOf(a) == {s \in Sessions : sess[s] # "connected" /\ addr[s] = a}

AddressesCounted ==
  soloMode => \A a \in Addrs :
    connectedAddrs[a] >= Cardinality(UsersOf(a)) + (IF a = payout THEN 1 ELSE 0)

\* The job manager is a WorkFeed: see that module.
Feed == INSTANCE WorkFeed WITH
  issued <- jobCounter, tip <- currentTip, clean <- latestClean,
  honoured <- [n \in DOMAIN jobs |-> jobs[n].tip]

FeedSpec == Feed!Spec

\* Liveness: once the node settles on a block, the pool works on it for good,
\* or the coin is stopped (a node that fails maxTemplateFailures polls in a
\* row stops it).
TipFollowed == <>[](currentTip = nodeTip \/ phase = "stopped")

\* What the comments of NewJobEvent and OnNewJobV2 promise: V1 and SV2 miners
\* always see the same template, but for a broadcast in progress.
NoProtocolSkew ==
  (\A r \in Refreshers : pc[r] \in {"idle", "fetched"}) => v1Job = v2Job
=============================================================================

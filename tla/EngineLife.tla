----------------------------- MODULE EngineLife -----------------------------
(***************************************************************************)
(* pkg/engine/engine.go, coinwatcher.go and the life of a CoinRunner: which  *)
(* runner serves a coin.  The file watcher, the 15-second retry loop, the    *)
(* API's reload and the stall handler of a running coin all call             *)
(* handleCoinConfig, StartCoin, StopCoin and ReloadCoin, and no lock is held *)
(* across a call: runnersMu and configSigsMu only guard single map accesses. *)
(* The maps are keyed by coin, so this module is about one coin.             *)
(*                                                                          *)
(* A configuration is a model value: its signature is the value itself.      *)
(* Each names the V1 port of its runner: runners of two configurations can   *)
(* listen at once.  Runner instances are numbered; a number is used again    *)
(* once nobody refers to the instance.                                      *)
(***************************************************************************)
EXTENDS Integers, Sequences, FiniteSets

CONSTANTS
  Configs,     \* contents of the coin's file with "enabled": true
  Disabled,    \* its content with "enabled": false
  NoFile,      \* the file does not exist
  Ports,       \* V1 ports the configurations name
  Port,        \* the port each of them names (cfg.Stratum.Port)
  NoPort,      \* not a port
  NodeStates,  \* what the node may answer
  MaxEdits,    \* bound: changes of the file
  MaxOutages,  \* bound: changes of the node's state
  MaxReloads,  \* bound: reloads asked for through the API
  MaxChanges   \* bound: these three together

ASSUME LifeAssumption ==
  /\ Disabled \notin Configs
  /\ NoFile \notin Configs \cup {Disabled}
  /\ IsFiniteSet(Ports) /\ NoPort \notin Ports
  /\ Port \in [Configs \cup {Disabled} -> Ports]
  /\ NodeStates \subseteq {"offline", "syncing", "nopeers", "ready"}
  /\ MaxEdits \in Nat /\ MaxOutages \in Nat /\ MaxReloads \in Nat /\ MaxChanges \in Nat

Callers == {"watch", "retry", "reload", "stall"}

\* Bound: with an instance on every port, three callers busy with others and one
\* registered, one is left for the fourth caller to start.
Ids == 1..(Cardinality(Ports) + 5)
NoRunner == 0

VARIABLES
  \* environment
  file,      \* what the coin's file holds
  edits,     \* how often it has changed (bounded)
  node,      \* what the node answers: "offline", "syncing", "nopeers" or "ready"
  outages,   \* how often that has changed (bounded)
  reloads,   \* API reloads so far (bounded)
  \* watcher
  events,    \* fsnotify events not yet read
  recent,    \* less than a second has passed since the last event acted upon
  \* engine
  runner,    \* e.runners[symbol], NoRunner when absent
  sig,       \* e.configSigs[symbol], NoFile when absent
  stage,     \* life of each runner instance
  port,      \* the port its V1 server listens on, NoPort when down
  stalled,   \* its poll loop has called the stall handler in this outage
  crashed,   \* a closed channel was closed again: the process panics
  \* callers
  call,      \* what each caller is about to do, with its local variables:
             \* the configuration it loaded, the runner it is starting or stopping,
             \* and whether its StopCoin is the first half of a ReloadCoin
  \* history
  crossed    \* a StartCoin has begun while another was under way, and what the two
             \* left behind has not all gone since

envVars    == <<file, edits, node, outages, reloads, events, recent>>
runnerVars == <<stage, port, stalled, crashed>>
vars == <<envVars, runner, sig, runnerVars, call, crossed>>

Idle == [pc |-> "idle", cfg |-> NoFile, mine |-> NoRunner, restart |-> FALSE]

Init ==
  /\ file \in Configs \cup {Disabled, NoFile}
  /\ edits = 0
  /\ node \in NodeStates
  /\ outages = 0
  /\ reloads = 0
  /\ events = <<>>
  /\ recent = FALSE
  /\ runner = NoRunner
  /\ sig = NoFile
  /\ stage = [i \in Ids |-> "down"]
  /\ port = [i \in Ids |-> NoPort]
  /\ stalled = [i \in Ids |-> FALSE]
  /\ crashed = FALSE
  /\ call = [p \in Callers |-> Idle]
  /\ crossed = FALSE

\* The instances whose V1 server listens.
Serving == {i \in Ids : stage[i] \in {"bound", "running", "closing"}}

Goto(p, where) == call' = [call EXCEPT ![p].pc = where]
Hold(p, where, i) == call' = [call EXCEPT ![p].pc = where, ![p].mine = i]
Return(p) == call' = [call EXCEPT ![p] = Idle]
Record(p, reload) == call' = [call EXCEPT ![p].pc = "record", ![p].restart = reload]
Begin(p, where, c, reload) ==
  call' = [call EXCEPT ![p] = [pc |-> where, cfg |-> c, mine |-> NoRunner, restart |-> reload]]

-----------------------------------------------------------------------------
(* The environment *)

MayChange == edits + outages + reloads < MaxChanges

\* The user, the web UI or an installer writes or removes the coin's file.
EditFile(c) ==
  /\ edits < MaxEdits /\ MayChange
  /\ c # file
  /\ file' = c
  /\ edits' = edits + 1
  /\ events' = Append(events, IF c = NoFile THEN "remove" ELSE "write")
  /\ UNCHANGED <<node, outages, reloads, recent, runner, sig, runnerVars, call, crossed>>

NodeChanges(n) ==
  /\ outages < MaxOutages /\ MayChange
  /\ n # node
  /\ node' = n
  /\ outages' = outages + 1
  /\ UNCHANGED <<file, edits, reloads, events, recent, runner, sig, runnerVars, call, crossed>>

SecondPasses ==
  /\ recent
  /\ recent' = FALSE
  /\ UNCHANGED <<file, edits, node, outages, reloads, events, runner, sig, runnerVars, call, crossed>>

-----------------------------------------------------------------------------
(* Where the calls come from *)

\* The watcher reads an event.  One that comes within a second of the last one
\* acted upon is dropped; a write loads what the file holds now.
WatchEvent ==
  /\ call["watch"].pc = "idle"
  /\ events # <<>>
  /\ events' = Tail(events)
  /\ \/ recent /\ UNCHANGED <<recent, call>>
     \/ /\ ~recent
        /\ recent' = TRUE
        /\ IF Head(events) = "remove" THEN Begin("watch", "stop", NoFile, FALSE)
           ELSE IF file = NoFile THEN UNCHANGED call
           ELSE Begin("watch", "handle", file, FALSE)
  /\ UNCHANGED <<file, edits, node, outages, reloads, runner, sig, runnerVars, crossed>>

\* A tick of StartNodeRetryLoop (and the scan of LoadExistingCoinConfigs): a
\* file whose coin has no runner is loaded and handled.
RetryTick ==
  /\ call["retry"].pc = "idle"
  /\ file # NoFile
  /\ runner = NoRunner
  /\ Begin("retry", "handle", file, FALSE)
  /\ UNCHANGED <<envVars, runner, sig, runnerVars, crossed>>

\* ReloadCoinBySymbol, called by the API: reloads whatever the file holds.
ReloadCoinBySymbol ==
  /\ call["reload"].pc = "idle"
  /\ reloads < MaxReloads /\ MayChange
  /\ file # NoFile
  /\ reloads' = reloads + 1
  /\ Begin("reload", "stop", file, TRUE)
  /\ UNCHANGED <<file, edits, node, outages, events, recent, runner, sig, runnerVars, crossed>>

\* The poll loop of instance i has failed maxTemplateFailures times in a row and
\* starts a goroutine that calls StopCoin, once per outage.
StallHandler(i) ==
  /\ call["stall"].pc = "idle"
  /\ stage[i] = "running"
  /\ node # "ready"
  /\ ~stalled[i]
  /\ stalled' = [stalled EXCEPT ![i] = TRUE]
  /\ Begin("stall", "stop", NoFile, FALSE)
  /\ UNCHANGED <<envVars, runner, sig, stage, port, crashed, crossed>>

\* A template refresh succeeds: consecutiveFailures is 0 again.
PollSucceeds(i) ==
  /\ stage[i] = "running"
  /\ node = "ready"
  /\ stalled[i]
  /\ stalled' = [stalled EXCEPT ![i] = FALSE]
  /\ UNCHANGED <<envVars, runner, sig, stage, port, crashed, call, crossed>>

-----------------------------------------------------------------------------
(* handleCoinConfig *)

\* A disabled coin is stopped.  Otherwise the node is asked: one that cannot be
\* reached or is still syncing stops a coin that has a runner, and one without
\* peers leaves things as they are.
CheckNode(p) ==
  /\ call[p].pc = "handle"
  /\ \/ call[p].cfg = Disabled /\ Goto(p, "stop")
     \/ /\ call[p].cfg # Disabled
        /\ \/ node \in {"offline", "syncing"} /\ runner # NoRunner /\ Goto(p, "stop")
           \/ node \in {"offline", "syncing"} /\ runner = NoRunner /\ Return(p)
           \/ node = "nopeers" /\ Return(p)
           \/ node = "ready" /\ Goto(p, "decide")
  /\ UNCHANGED <<envVars, runner, sig, runnerVars, crossed>>

\* Mutant: a coin whose signature is known is taken to be served.
DecideBySignature(p) ==
  /\ call[p].pc = "decide"
  /\ IF sig = call[p].cfg THEN Return(p)
     ELSE Record(p, runner # NoRunner)
  /\ UNCHANGED <<envVars, runner, sig, runnerVars, crossed>>

\* With a ready node: nothing to do for a runner with the same configuration; a
\* reload for another one; a start when there is no runner.
Decide(p) ==
  /\ call[p].pc = "decide"
  /\ IF runner # NoRunner /\ sig = call[p].cfg THEN Return(p)
     ELSE Record(p, runner # NoRunner)
  /\ UNCHANGED <<envVars, runner, sig, runnerVars, crossed>>

\* The signature is recorded before the reload or the start is tried.
RecordSig(p) ==
  /\ call[p].pc = "record"
  /\ sig' = call[p].cfg
  /\ Goto(p, IF call[p].restart THEN "stop" ELSE "start")
  /\ UNCHANGED <<envVars, runner, runnerVars, crossed>>

-----------------------------------------------------------------------------
(* StopCoin *)

\* StopCoin returns: ReloadCoin goes on with StartCoin.
StopReturns(p) ==
  IF call[p].restart THEN Hold(p, "start", NoRunner)
  ELSE Return(p)

\* The runner is looked up under the read lock.
StopLookup(p) ==
  /\ call[p].pc = "stop"
  /\ IF runner = NoRunner THEN StopReturns(p)
     ELSE Hold(p, "close", runner)
  /\ UNCHANGED <<envVars, runner, sig, runnerVars, crossed>>

\* runner.Stop closes the job manager's stop channel, which panics when another
\* caller has closed it ...
CloseRunner(p) ==
  /\ call[p].pc = "close"
  /\ stage[call[p].mine] = "running"
  /\ stage' = [stage EXCEPT ![call[p].mine] = "closing"]
  /\ Goto(p, "closing")
  /\ UNCHANGED <<envVars, runner, sig, port, stalled, crashed, crossed>>

\* The end of the process.
Panic(p) ==
  /\ call[p].pc = "close"
  /\ stage[call[p].mine] # "running"
  /\ crashed' = TRUE
  /\ stage' = [i \in Ids |-> "down"]
  /\ port' = [i \in Ids |-> NoPort]
  /\ stalled' = [i \in Ids |-> FALSE]
  /\ runner' = NoRunner
  /\ call' = [q \in Callers |-> [Idle EXCEPT !.pc = "dead"]]
  /\ UNCHANGED <<envVars, sig, crossed>>

\* ... waits for the poll loop, and closes the V1 and the SV2 server.
RunnerStopped(p) ==
  /\ call[p].pc = "closing"
  /\ stage' = [stage EXCEPT ![call[p].mine] = "down"]
  /\ port' = [port EXCEPT ![call[p].mine] = NoPort]
  /\ stalled' = [stalled EXCEPT ![call[p].mine] = FALSE]
  /\ Goto(p, "delete")
  /\ UNCHANGED <<envVars, runner, sig, crashed, crossed>>

\* The coin's entry is deleted, whichever runner it holds by now.
DeleteRunner(p) ==
  /\ call[p].pc = "delete"
  /\ runner' = NoRunner
  /\ StopReturns(p)
  /\ UNCHANGED <<envVars, sig, runnerVars, crossed>>

-----------------------------------------------------------------------------
(* StartCoin *)

Unused == {i \in Ids : stage[i] = "down" /\ runner # i /\ \A p \in Callers : call[p].mine # i}

NewRunner == CHOOSE i \in Unused : TRUE

\* The callers whose StartCoin is past its check.
Starters == {p \in Callers : call[p].pc \in {"bind", "template", "register"}}

\* No V1 server listens and nobody is stopping one.
AtRest == Serving = {} /\ \A p \in Callers : call[p].pc \notin {"close", "closing", "delete"}

\* Mutant: StartCoin does not look whether the coin has a runner.
StartUnchecked(p) ==
  /\ call[p].pc = "start"
  /\ Unused # {}
  /\ Hold(p, "bind", NewRunner)
  /\ crossed' = (Starters # {} \/ (crossed /\ ~AtRest))
  /\ UNCHANGED <<envVars, runner, sig, runnerVars>>

\* No runner may be registered; a new instance is made, which nobody knows of until
\* it is registered.
StartCoin(p) ==
  /\ call[p].pc = "start"
  /\ \/ runner # NoRunner /\ Return(p) /\ UNCHANGED crossed
     \/ /\ runner = NoRunner
        /\ Unused # {}
        /\ Hold(p, "bind", NewRunner)
        /\ crossed' = (Starters # {} \/ (crossed /\ ~AtRest))
  /\ UNCHANGED <<envVars, runner, sig, runnerVars>>

\* CoinRunner.Start: the node must answer and the V1 port of its configuration be
\* free.
BindServer(p) ==
  LET wanted == Port[call[p].cfg] IN
  /\ call[p].pc = "bind"
  /\ IF node = "offline" \/ \E i \in Ids : port[i] = wanted
     THEN Return(p) /\ UNCHANGED <<stage, port>>
     ELSE /\ stage' = [stage EXCEPT ![call[p].mine] = "bound"]
          /\ port' = [port EXCEPT ![call[p].mine] = wanted]
          /\ Goto(p, "template")
  /\ UNCHANGED <<envVars, runner, sig, stalled, crashed, crossed>>

\* The first template; without one the server is closed again.
FirstTemplate(p) ==
  /\ call[p].pc = "template"
  /\ IF node = "ready"
     THEN /\ stage' = [stage EXCEPT ![call[p].mine] = "running"]
          /\ UNCHANGED port
          /\ Goto(p, "register")
     ELSE /\ stage' = [stage EXCEPT ![call[p].mine] = "down"]
          /\ port' = [port EXCEPT ![call[p].mine] = NoPort]
          /\ Return(p)
  /\ UNCHANGED <<envVars, runner, sig, stalled, crashed, crossed>>

\* The started runner becomes the coin's runner.
RegisterRunner(p) ==
  /\ call[p].pc = "register"
  /\ runner' = call[p].mine
  /\ Return(p)
  /\ UNCHANGED <<envVars, sig, runnerVars, crossed>>

CallerStep(p) ==
  \/ CheckNode(p) \/ Decide(p) \/ RecordSig(p)
  \/ StopLookup(p) \/ CloseRunner(p) \/ Panic(p) \/ RunnerStopped(p) \/ DeleteRunner(p)
  \/ StartCoin(p) \/ BindServer(p) \/ FirstTemplate(p) \/ RegisterRunner(p)

Next ==
  \/ \E c \in Configs \cup {Disabled, NoFile} : EditFile(c)
  \/ \E n \in NodeStates : NodeChanges(n)
  \/ SecondPasses
  \/ WatchEvent
  \/ RetryTick
  \/ ReloadCoinBySymbol
  \/ \E i \in Ids : StallHandler(i) \/ PollSucceeds(i)
  \/ \E p \in Callers : CallerStep(p)

Spec == Init /\ [][Next]_vars

\* Goroutines and timers run: every caller goes on, the watcher reads its
\* events, the retry loop ticks, seconds pass.
Fairness ==
  /\ WF_vars(SecondPasses)
  /\ WF_vars(WatchEvent)
  /\ WF_vars(RetryTick)
  /\ \A p \in Callers : WF_vars(CallerStep(p))

FairSpec == Spec /\ Fairness

-----------------------------------------------------------------------------
(* Properties *)

Steps == {"idle", "handle", "decide", "record", "stop", "close", "closing", "delete",
          "start", "bind", "template", "register", "dead"}

Call == [pc : Steps, cfg : Configs \cup {Disabled, NoFile}, mine : Ids \cup {NoRunner}, restart : BOOLEAN]

\* Types, and events are never more than the edits
\* that caused them.
TypeOK ==
  /\ file \in Configs \cup {Disabled, NoFile}
  /\ edits \in 0..MaxEdits /\ outages \in 0..MaxOutages /\ reloads \in 0..MaxReloads
  /\ node \in NodeStates
  /\ events \in Seq({"write", "remove"}) /\ Len(events) <= edits
  /\ recent \in BOOLEAN
  /\ runner \in Ids \cup {NoRunner}
  /\ sig \in Configs \cup {NoFile}
  /\ stage \in [Ids -> {"down", "bound", "running", "closing"}]
  /\ port \in [Ids -> Ports \cup {NoPort}]
  /\ stalled \in [Ids -> BOOLEAN]
  /\ crashed \in BOOLEAN /\ crossed \in BOOLEAN
  /\ call \in [Callers -> Call]

\* The registered runner serves its miners, unless a StopCoin that looked it up
\* is at work on it: SessionInfo, the API and the retry loop trust the map.
RegisteredRuns ==
  runner # NoRunner =>
    \/ stage[runner] = "running"
    \/ \E p \in Callers : call[p].mine = runner /\ call[p].pc \in {"closing", "delete"}

\* Two instances serve the coin at once only when two StartCoins have overlapped,
\* and then on different ports: nothing is registered before it has started
\* (engine.go, StartCoin), so a port edited while a start is under way leaves a
\* runner that no StopCoin finds.  Callers one after the other leave none behind,
\* whatever their stops and reloads overlap with.
OneServes == \A i, j \in Serving : i # j => crossed /\ port[i] # port[j]

\* The comment on the stall handler (coinrunner.go): a coin stopped because of
\* its node is started again once the node is usable.  With an enabled file and
\* a ready node for good, the coin is served for good, through any overlap of
\* reloads, stalls, edits and retries that does not crash the process.
PoolComesBack ==
  <>[](file \in Configs /\ node = "ready") => <>[](Serving # {}) \/ <>crashed

\* What the watcher logs, "config removed - stopping pool": a coin whose file is
\* gone for good is not served for ever.
RemovedCoinStops == <>[](file = NoFile) => []<>(Serving = {}) \/ <>crashed
=============================================================================

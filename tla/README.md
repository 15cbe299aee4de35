# ForgeNX Engine: specifications, model checking and proofs

ForgeNX Engine (Go, `src/`) is a mining-pool engine. For each configured coin it
polls a node for block templates, makes jobs of them, serves the jobs to miners
over Stratum V1 and V2, validates the shares and submits the blocks. "Nexus Mesh"
is a proxy in front of it: one miner connection is bonded to the V1 servers of
several coins and is moved between them.

This directory holds TLA+ modules that model parts of it, the TLC runs that check
them on small instances, and the theorems TLAPS proves about twelve of them for every
value of the constants. `PROJECT.json` lists the runs, which lines of the source each
definition models, the hazards and which property watches each, and the findings.

    tlc -workers 2 -config MCJobManager.cfg MCJobManager     # a run
    tlapm JobManagerProofs.tla                               # the proofs

## 1. Inventory

| part | source | state | operations |
|---|---|---|---|
| job manager | `engine/jobmanager.go` | jobs (20 newest), counter, tip, connected addresses | template refresh (poll loop, ZMQ), callbacks to V1 and SV2, register/unregister address, lookups, stall handler |
| engine, coin life cycle | `engine/engine.go`, `coinwatcher.go`, `coinrunner.go` | runner and configuration signature per coin | start, stop, reload; file watcher, 15 s retry loop, API, stall handler |
| share validator, block submission | `engine/sharevalidator.go`, `coinrunner.go` | last block submission, share and round statistics | validate a share, submit and confirm a block, record it |
| V1 server and session | `stratum/server.go`, `session.go` | sessions; per session: state, difficulty, pending difficulty, recorded jobs | accept, subscribe, authorize, submit, suggest, broadcast, stop |
| vardiff | `stratum/vardiff.go` | current difficulty, share times, last retarget | record a share, reset |
| mesh relay | `mesh/relay.go`, `session.go`, `backend.go`, `mesh.go` | per session: active, home, rotation, pending move, job registry; per backend: connection, live or warm, last job | bond, forward, switch, fail over, fail back, rotate, reassign, reconnect |
| mesh balancer | `mesh/balancer.go` | placements, cooldowns | place automatic workers by fleet hash rate |
| SV2 server | `stratumv2/` | channels, extranonce pool, job and future job per channel | open channels, new template, submit, vardiff |
| node client | `noderpc/` | request ids; ZMQ sequence | RPC calls, submitblock with retry, hashblock subscription |
| coins, coinbase builder | `coin/`, `coinbase/` | none | addresses, targets, coinbase halves |
| statistics | `metrics/`, `engine/metrics.go` | share counters, worker history, round work | record share, block, connect, disconnect |
| coin API and store | `coinapi/` | SQLite tables | HTTP handlers, worker bests, blocks, mesh assignments |
| miner scanner, configuration, logging, entry | `minerapi/`, `config/`, `logging/`, `cmd/` | - | I/O and wiring |

**How they interact.** The job manager calls the V1 server
(`BroadcastJobPerSession`) and the SV2 server through callbacks, after releasing
its own lock. A V1 session calls the job manager from its authorize handler
(`RegisterAddress`, `GetJobForAddress`) and, from a goroutine, the hook that
restores its difficulty from the store. The validator looks jobs up in the job
manager and difficulties up in the session. The job manager stops its own runner
through the stall handler when the node fails three polls in a row. The mesh
reaches the coins over TCP only.

**What is hard.** Nearly everything is concurrent and most critical sections are
short: decisions are taken on values read in an earlier one. Templates are fetched
before the lock is taken and announced after it is released. `switchTo` takes no lock
at all and runs on up to four goroutines. A runner is looked up, worked on for
seconds and then written back to its map. Difficulty is changed under a lock and
told to the miner outside it. Nodes and coins fail and come back, templates and
events arrive twice or not at all.

**What makes each part correct.**
- *Job manager*: one stream of jobs; a clean job exactly when the tip changes; the
  newest jobs, and no others, can be validated; every job a miner can hold carries the
  coinbase its share is rebuilt from; a settled tip is worked on.
- *Life cycle*: the listed runner runs, an enabled coin comes back, a removed one goes,
  and two runners serve at once only where two starts have overlapped.
- *V1 session*: the miner, the session and vardiff have the same difficulty in
  mind; honest work is accepted.
- *Mesh*: a share goes to the coin that issued its job; the active coin's jobs are
  forwarded; the miner has the extranonce of the coin whose jobs it gets; it ends
  up where its assignment says; it is not left on a dead coin.
- *Balancer*: what the user chose stands; placements settle, close to the target.
- *Submission*: a solved block is recorded as what became of it, its round is counted
  once, and it is marked as an orphan exactly when it is off the chain.
- *SV2*: each channel ends up on the newest template, is judged by a coinbase that
  pays its worker, and has the difficulty vardiff goes on from; the frames arrive whole
  and a dead miner is let go.
- *Counters and files*: no total counts a share twice, a best keeps its own context, a
  saved setting stays.

## 2. The modules

    WorkFeed       abstract: a stream of jobs
      ^ implemented by
    JobManager     jobmanager.go, solo-mode hooks            JobManagerProofs    MCJobManager
    EngineLife     engine.go, coinwatcher.go                 EngineLifeProofs    MCEngineLife
    StratumSession session.go, vardiff.go, validator         ShareProofs         MCStratumSession
    BlockSubmit    sharevalidator.go, coinrunner.go, store   ShareProofs         MCBlockSubmit
    SV2Work        stratumv2: templates and channels         SV2WorkProofs       MCSV2Work
    SV2Shares      stratumv2: shares and difficulty          SV2SessionProofs    MCSV2Shares
    SV2Messages    stratumv2/messages.go, codec.go
      ^ extended by
    SV2Link        stratumv2: one connection                 SV2SessionProofs    MCSV2Link
    MeshRelay      mesh/relay.go, session.go, mesh.go        MeshRelayProofs     MCMeshRelay
    MeshBackend    mesh/backend.go, one backend              MeshProofs          MCMeshBackend
    MeshAssign     balancer.go, assignments                  MeshProofs          MCMeshAssign
    Counters       metrics/stats.go, coinapi, store.go       CoinApiProofs       MCCounters
    CoinFiles      coinapi settings, coinrunner keys         CoinApiProofs       MCCoinFiles

Conventions: a Go lock's critical section or one network exchange is one action; a
goroutine's place between two of them is a program counter (`pc`, `call`, `run`,
`sw`, `send`, `act`, `req`), with the locals it carries across. Names are those of the
code. An operator whose comment begins with "Mutant" is a plausible bug of the
definition that follows it; `PROJECT.json` says which property must catch it. Where one
proof module extends two components, the second has names of its own: `LinkInit`,
`FilesSpec`, `AssignNext`, `SessionSpec`. A variable
such as `overlapped`, `crossed`, `raced`, `torn`, `stepped` or `reopened` remembers that something
happened which the code has no defence against, so that a property can say what
holds otherwise.

**WorkFeed and JobManager.** `WorkFeed` is what the manager promises: `Issue(t)`
numbers the next job, says whether it is clean (`t # tip`) and slides the window of
honoured jobs. `JobManager` has two refreshing goroutines, `poll` and `zmq`. Each
fetches the template of the node's tip (`GetTemplate`, `GetTemplateFails`), then under
`jm.mu` either skips (`refreshSkip`) or makes a job and prunes (`refreshTemplate`),
then, the lock released, announces it to V1 session by session (`BroadcastJob`,
`SendJob`) and to SV2 (`notifyV2`). Solo-mode sessions go through `RegisterAddress`,
its second half `FillJobs`, `handleAuthorize`, `Disconnect`, `UnregisterAddress`. A
block hash is a model value, a coinbase second half is the address it pays, the first
half is there or not (`c1`).

**EngineLife.** One coin: its file, its node, the map entries (`runner`, `sig`), the
life of each runner instance (`stage`) and four callers (`watch`, `retry`, `reload`,
`stall`), each somewhere in `handleCoinConfig`, `StartCoin`, `StopCoin` or
`ReloadCoin`. Maps are keyed by coin and coins share nothing else, so one coin is
enough. Each configuration names the port of its V1 server (`Port`), and a server binds
unless another instance has that port: after an edit of the port two runners can listen.
The second close of a closed channel is `crashed`, which ends everything: Go panics.
Runner instances are numbered and reused; `StartNeverWaits` proves that five more than
there are ports are enough for a start never to wait for a number.

**StratumSession.** One V1 session: its reader, the `onSessionAuthorized` hook and two
goroutines that broadcast. A handler is the list of steps it still has to take
(`call[t].todo`), so that the four steps the handlers share (send
`mining.set_difficulty`, reset the vardiff window, record the job, send
`mining.notify`) are written once. `handleAuthorize` holds `s.mu` to its end
(`MuFree`). A share is worth the difficulty its work was done at, so `MeetsDifficulty` is
the three tests of `ValidateShare`, and `work` holds what the miner may still find shares
for. *Time:* `jobDiffSettle` and the default `low_diff_share_grace` are both 5 s and are
one window, `recent`; `retarget_time` (300 s by default) is `retarget`. Both end only
while no handler is running: a handler takes less than 5 s. *Miner:* it works a job at
the difficulty it was last told; within moments of a change it may still work at the
one before, as the comment in `recordJobDifficulty` reports of an Avalon.

**BlockSubmit.** A solution stands for its block and comes by V1 or by SV2. Its handler
goes through `Gates` (eCash: the tip and the cooldown), `SubmitBlock` (each attempt may
lose its request or its answer), `VerifyBlock`, `CloseRound` and `StoreBlock`; a
submission that ends with an error leaves a file under `/pool/lost-blocks`
(`PersistLostBlock`). That may fail (`unwritten`), and it may replace, or cut off, the
record of another block of the same height and protocol (`SameName`): the name has the
height and the second, or the height and the beginning of the hash as it is printed,
zeros for the most part. The node's chain grows, and its tip may be
replaced by a competitor; longer reorganisations are not modelled. `AskConfirmations`
and `ApplyConfirmations` are the two halves of a sync, run by the ticker and by requests
for the blocks page. Work is the set of shares it was summed from.

**SV2Work.** Two goroutines of the job manager hand templates to `BroadcastTemplate`,
which numbers them, caches them as the latest (`Cache`), and in a later step lists the
sessions and starts `UpdateTemplate` in a goroutine for each (`Broadcast`, `Pushers`);
between the two another broadcast may do both (`cast` is what each has cached). The
reader opens channels, builds their coinbase (`BuildCoinbase`) and sends them the latest
template, always with its `SetNewPrevHash`; `keepaliveLoop` sends the
last job again. Each of these senders takes a channel through the same steps: the
coinbase, the stale list, the stored template, the frame of the job, `SetNewPrevHash`.
What the miner makes of the frames is the protocol's.

**SV2Shares.** One channel: the reader judges a share, records it, lets vardiff look at
the pace and leaves a new difficulty in `pendingDiff`; two senders flush it, reset the
window and tell the miner, in three steps. Shares travel in order and know how many
changes their miner had been told of.

**SV2Messages and SV2Link.** `SV2Messages` has each decoder as its checks and reads in
order, each from where the one before it ended, and each encoder as the fields it writes,
each with its offset. `SV2Link` has the connection: handshake
(what each side hashes and derives, as terms), SetupConnection, the read loop, three
writers of segmented frames, the deadline, the end. The deadline is extended where the
code does it on the way of a message that is written: `UpdateTemplate` extends it after
failed sends too, which matters only to a connection that is about to end. Time is counted in keepalive
intervals, and the next one comes only when nothing can be read, written or drained: a
write takes less than an interval unless the socket is full.

**MeshRelay and MeshBackend.** `MeshRelay` is one session over its backends: the reader
(`Run`) of each, `failbackLoop`, `rotateLoop`, the miner's own requests and
`ReassignWorker`. `switchTo` is seven steps, taken by any of the movers and interleaved
with the others'. `conn` numbers the connections, for each has its own extranonce;
`Reconnect` is one step there. `MeshBackend` opens that step up: `Connect` at bonding
and in `Reconnect`, the readers, the wait for a first job, the replayed authorize,
`Close`, and the coin at the other end. A connection's number is used again when nothing
refers to it any more; `Dial` waits when all are in use, which is the bound.

**MeshAssign.** The user's row of `mesh_assignments`, the lookup at authorize (which
adopts a worker without a row as automatic where include-new is on, a choice made anew
each time) and a round of `balance()` with its
arithmetic, all writing a session's home and rotation without a common lock.
`ReassignWorker`, for the user as for the balancer, writes the rotation and then the
home, and others may come in between (`halfway`). Hash rates
and difficulties are constants; how a session reaches its home is `MeshRelay`'s.

**Counters.** The counters of the process, the `pool_counters` row with its offsets, the
`worker_shares` snapshots, the best difficulty with its context, and the requests and
threads that carry one into the other, across restarts, reloads, resets, and steps of the
wall clock. A behaviour is about the pool's side or the worker's. A stats request takes
its uptime and the time of day in one step. One that is held up between the two for more
than 30 s would take the process for a new one, as after the clock was set forward
(`stepped`); that case is left out.

**CoinFiles.** Three kinds of request and two starts of the coin (`Starters`) change
three files, each by reading, emptying and writing them; a write may fail before or after
it has emptied its file (`WriteFails`), and the engine may crash. A setting is the number
of the request that set it. A start is a reload of any origin: `StopCoin`, the check of
`StartCoin`, the key (`LoadAuthorityKey`), its public half in the configuration
(`PersistSV2AuthPubkey`), `Serve`. `ReloadForKey` may return before any of this, since
`ReloadCoinBySymbol` reads the configuration first; then the old key stays in use
(`stayed`). The node's container keeps the environment it was made with, and the page is
also given an empty list when Docker cannot be asked (`told = "unknown"`). A settings
page is read while no settings request is under way.

## 3. The runs

| run | shows | bounds |
|---|---|---|
| `job_manager` | `SoloCoverage`, `SentJobsPayable`, `FeedSpec` (refinement of WorkFeed), `TipFollowed` (liveness), both modes, the node failing | 2 sessions that may share an address, 2 tips, 1 tip change, history 2, 2 failures (reaching the stall handler), 2 jobs |
| `engine_life` | `OneServes`, `PoolComesBack` (liveness) | 2 configurations on 2 ports, 2 edits (one within the second in which events are dropped), 2 outages, 1 API reload, 3 of these in all |
| `stratum_session` | `BroadcastWorkAccepted`, `VardiffInStep`, `MinerInStep` | difficulties 1, 2, 4 (a drop, a rise, a factor of 4), 2 concurrent broadcasts, history 2, record 3 |
| `block_submit` | `WorkCountedOnce`, `UnsubmittedIsKept`, `MarksSettle` | 2 solutions, by V1 or SV2 each, 2 blocks of others, 2 syncs, 2 attempts, 1 other fault, mature at 2; records lost or replaced at will |
| `sv2_work` | `NewestJobsJudged`, `PaysItsWorker`, `NewestReachesAll`, `SerialSendersAgree` | 2 channels (one with an address of its own), reader, 2 keepalives, 2 callbacks and 2 pushers, 2 templates of 2 tips, stale list and history of 1, so that the second template slides both |
| `sv2_shares` | `DifficultyInStep`, `HonestShareKept`, `PendingReachesMiner` (liveness) | 3 difficulties, 2 senders, 6 shares, 2 changes, 2 shares in flight |
| `sv2_link` | `FramesArriveWhole`, `DecodersInBounds`, `QuietMinerKept`; `SilentMinerDropped`, `CloseFreesWriters` (liveness) | reader, keepalive and 1 pusher, 1 channel, 2 messages in flight, window 2, jobs of two chunks |
| `mesh_relay` | `SharesReachIssuer`, `ActiveIsLive`; `HomeReached`, `SliceReached` (liveness) | 2 coins; pinned, split or unassigned; 1 death, slice or reassignment; 2 jobs with the same numbers, 1 share |
| `mesh_backend` | `OneReader`, `AliveIsRead`, `NothingLeftOpen` | 4 connections, 2 events at the coin, 2 unread lines |
| `mesh_assign` | `ChoiceHeld`; `PlacementSettles`, `FleetConverges` (liveness) | 2 workers, 2 coins, 1 edit, 1 event, tolerance 5, 3 moves |
| `counters` | `NeverTwice`, `WorkCreditedOnce`, `ContextNotAhead` | 2 requests at a time (symmetric), 3 shares, 3 events, 3 calls |
| `coin_files` | `SavedStays`, `PubkeyShown`, `RestartNotForgotten` | 3 requests, 1 start beside that of a key request, 1 new container, 1 crash or failed write |

Two of a kind are the fewest that let one actor's stale value meet another's fresh one,
which is what the properties are about; the third (share, template, difficulty) lets
something be two changes behind. Histories of 1 to 3 stand for 8, 20 and 64: what
matters is that the window slides, and which of two windows is the longer. Deadlock is
not checked: within its bounds a system with nothing to do stops.

Further instances to run by hand. Passing: `MCJobAddresses.cfg` (an address that cannot be
paid, and every invariant of `JobManager`), `MCJobFeed.cfg` (two tip changes: a tip
comes back), `MCMeshReassign.cfg` (reassignments to any coin), `MCBackendReturns.cfg`
(the types of `MeshBackend`, and that a lost backend comes back). Ending in a
counterexample: the configurations named in the next section.

### Findings

Where the code and what its comments say differ. The first group is in the definitions of
passing runs: the property holds only with the exception it states, or is what it is
because the code does not do what the comment says.
- *The guard against double broadcasts never fires* (`FeedSpec`, theorem
  `GuardNeverFires`): `lastBroadcastTip` always equals `currentTip`, so the second
  goroutine to see a new tip issues a second job for it.
- *A runner can be left serving that no stop finds* (`OneServes`, exception `crossed`):
  two starts overlap around an edit of the coin's port, both bind, and the second to
  register replaces the first in the map.
- *The record of a lost block can be lost* (`UnsubmittedIsKept`): its write may fail, and
  its name does not tell two blocks of a height apart, though the comments say "so it is
  never lost".
- *An orphan mark is not terminal* (`MarksSettle`): `UpdateBlockConfirmations` raises a
  stored -1 as well, which is what makes the marks settle.
- *A backend can be alive with nobody reading it* (`AliveIsRead`, exception
  `lateDeath`): `Reconnect` clears `dead` after its wait, over a death in between.
- *Sockets are left open* (`NothingLeftOpen`, exceptions `torn`, `lateDial`): after a
  failed handshake, and by a dial that ends after the session.
- *With `on_new_block`, a waiting SV2 difficulty goes out with refreshes only*
  (`PendingReachesMiner`), and the comment says with new blocks only.
- *A clock set forward by more than 30 s counts shares twice* (`NeverTwice`, exception
  `stepped`).
- *A reload opens a closed round again* (`WorkCreditedOnce`, exception `reopened`).
- *A best can keep the context of an earlier one, or none* (`ContextNotAhead` says only
  that it is never a later one's).

The second group are properties the code does not have. A configuration of its own shows
the counterexample, or the property added to the run's configuration does:
- `NoProtocolSkew` (`MCJobSkew.cfg`): V1 and SV2 can be left on different templates,
  although `jobmanager.go` says there is "no staleness skew between protocols".
- `RemovedCoinStops` (`MCEngineRemoved.cfg`): a coin removed while it is being started
  runs on.
- `JobsMatchExtranonce` (`MCMeshExtranonce.cfg`): a miner assigned to another coin at
  authorize gets its jobs with the first coin's extranonce.
- `MinerServed` (`MCMeshStranded.cfg`): a coin that dies while a move to it is under
  way keeps the miner.
- `WorkAccepted` (`MCSessionFirstJob.cfg`): the first job of a V1 session is not
  recorded; when the stored difficulty is above the default, its shares are refused
  after 5 s, though "a share is judged against its own job's difficulty".
- `CredentialsReachNode` (`MCCoinCredentials.cfg`): the restart after a change of the
  RPC credentials stops and starts the container, which keeps its old environment.
- `RejectionAuthoritative` (with `MCBlockSubmit.cfg`): the retry of a submission whose
  answer was lost is answered "duplicate", and the block the node took is put down as lost.
- `JobOnItsPrevHash`, `CoinbaseOfItsTemplate` (with `MCSV2Work.cfg`): two
  `UpdateTemplate` goroutines leave a miner with the job of one block on the prev-hash of
  another, or a job with the coinbase of another template.
- `PinHonoured` (with `MCMeshAssign.cfg`): a user's pin that falls between the
  balancer's reading and its move is overridden; the row keeps it, the session does not.

`BroadcastWorkAccepted` is `WorkAccepted` for the recorded jobs, in the default delivery
only: with `on_new_block` off the resent job is not recorded either, and a suggestion may
fall between a job's record and its notification. `VardiffInStep` and `MinerInStep` hold
where one goroutine at a time can change the difficulty (`OneChanger`), and both
configurations of the run are such. They fail, and the code has no defence, when
`accept_suggest_diff` is combined with `on_new_block` or with the difficulty that solo mode
restores from the store, or when a connection authorizes again after it succeeded. `DifficultyInStep`
likewise excepts two senders that flush at a time (`overlapped`); `HonestShareKept` holds
with them. `SilentMinerDropped` excepts `ReaderHangs`: no SV2 write has a deadline, so a
reader that is answering a stalled miner on a full socket waits until the server stops.
`UnsubmittedIsKept` is about the node's answer: a block whose hash cannot be read back
after it was accepted is recorded nowhere. `SerialSendersAgree` excepts senders and
broadcasts that overlap (`overlapped`), a broadcast counting from the caching of its
template; `PubkeyShown` excepts overlapping starts (`crossed`): the later of two to serve
has not read its key later.

### Fairness

- `JobManager`: a goroutine that fetched a template, or announces a job, goes on (Go
  schedules it; RPC and writes have timeouts). The exit of the poll loop is strongly
  fair: its `select` is offered the closed channel again at each turn and picks at
  random among ready cases, so a ticker that is always ready does not win for ever.
- `EngineLife`: each caller goes on, the watcher reads its events, the ticker ticks,
  seconds pass. Nothing obliges the node to change or a file to be edited.
- `MeshRelay`: movers, readers, tickers, `ReassignWorker` and authorize go on. Nothing
  obliges a coin to send a job, to die or to come back, nor the miner to do anything.
- `MeshAssign`: the balancer's rounds and `ReassignWorker` go on, cooldowns end, and a
  session that authorizes gets its answer.
- `MeshBackend` (by hand only): the goroutines go on and a serving coin sends jobs.
- `SV2Shares`: the reader and the flushes go on, and refreshes keep coming, as the poll
  loop sends them.
- `SV2Link`: the goroutines go on while they are not blocked on the socket, a miner that
  is not stalled reads, and time passes.
- `StratumSession`, `BlockSubmit`, `SV2Work`, `Counters` and `CoinFiles` have safety
  properties only.

## 4. The proofs

Each theorem is for any number of sessions, channels, coins, requests, jobs and so on,
and any bounds, from the assumption its module names alone. These say that model values
are distinct, that bounds are natural numbers, and where a size must be positive; two
say more: `MeshRelay` that a session bonds each coin once, and `BlockSubmit` that
`BlockMatureAt` is above 1 (it is 100 in the code). Where the code fixes a number, as
of the callers in `EngineLife` or the keepalive of a session, it is no parameter. `Diffs`
of `StratumSession` is any set of positive numbers that holds the difficulties there can
be; the code clamps passwords, suggestions and stored values to vardiff's bounds.

Two theorems have a hypothesis beside these. `QuietMinerKeptAlways` asks that the read
timeout is longer than one keepalive interval (`Window > 1`; the defaults are 600 s and
60 s). `BroadcastWorkAcceptedAlways` asks that the record of job difficulties has room for
the jobs the JobManager keeps and for one of each broadcasting goroutine but one (in the
code 20 jobs, two goroutines and 64 places).

| module | theorem | statement |
|---|---|---|
| `JobManagerProofs` | `TypeCorrect` | `[]TypeOK` |
| | `WindowCorrect` | `[]NewestJobsHonoured` |
| | `GuardNeverFires` | the `lastBroadcastTip` guard is never true |
| | `CoverageCorrect` | `[]SoloCoverage` |
| | `SentJobsCorrect` | `[]SentJobsPayable` |
| | `Coinb1Correct` | `[]Coinb1Complete` |
| | `AddressesCountedCorrect` | `[]AddressesCounted` |
| | `ImplementsWorkFeed` | `FeedSpec` |
| `EngineLifeProofs` | `TypeCorrect` | `[]TypeOK` |
| | `StartNeverWaits` | a caller about to start a runner finds an unused instance |
| | `OneServesCorrect` | `[]OneServes` |
| | `RegisteredRunsCorrect` | `[]RegisteredRuns` |
| `ShareProofs` | `TypeCorrect` | `[]TypeOK` of `BlockSubmit` |
| | `WorkCountedCorrect` | `[]WorkCountedOnce` |
| | `UnsubmittedIsKeptCorrect` | `[]UnsubmittedIsKept` |
| | `MarksSettleCorrect` | `[]MarksSettle` |
| | `SessionTypeAlways` | `[]SessionTypeOK` |
| | `VardiffInStepAlways` | `[]VardiffInStep` |
| | `MinerInStepAlways` | `[]MinerInStep` |
| | `BroadcastWorkAcceptedAlways` | `[]BroadcastWorkAccepted`, when the record has room |
| `SV2WorkProofs` | `TypeCorrect` | `[]TypeOK` |
| | `JudgedCorrect` | `[]NewestJobsJudged` |
| | `PaysCorrect` | `[]PaysItsWorker` |
| | `NewestCorrect` | `[]NewestReachesAll` |
| | `SerialCorrect` | `[]SerialSendersAgree` |
| `SV2SessionProofs` | `DifficultyCorrect` | `[]DifficultyInStep` |
| | `AcksCorrect` | `[]AcksCoverAccepted` |
| | `HonestShareKeptCorrect` | `HonestShareKept`, an action property |
| | `FramesArriveWholeAlways` | `[]FramesArriveWhole` |
| | `DecodersInBoundsAlways` | `[]DecodersInBounds` |
| | `QuietMinerKeptAlways` | `[]QuietMinerKept`, for a timeout above one keepalive interval |
| `MeshRelayProofs` | `StateCorrect` | `[]StateOK`, the types the other two need |
| | `SharesReachCorrect` | `[]SharesReachIssuer` |
| | `ActiveIsLiveCorrect` | `[]ActiveIsLive` |
| `MeshProofs` | `OneReaderCorrect` | `[]OneReader` |
| | `AliveIsReadCorrect` | `[]AliveIsRead` |
| | `NothingLeftOpenCorrect` | `[]NothingLeftOpen` |
| | `ChoiceHeldAlways` | `[]ChoiceHeld` |
| `CoinApiProofs` | `WorkCreditedCorrect` | `[]WorkCreditedOnce` |
| | `ContextCorrect` | `[]ContextNotAhead` |
| | `NeverTwiceCorrect` | `[]NeverTwice` |
| | `SavedStaysAlways` | `[]SavedStays` |
| | `PubkeyShownAlways` | `[]PubkeyShown` |
| | `RestartNotForgottenAlways` | `[]RestartNotForgotten` |

*JobManager.* `TypeOK` carries what the goroutines hold. `NewestJobsHonoured` is
inductive over it because pruning a window that has grown by one job leaves a window
(lemma `PruneWindow`). `SoloCoverage` is inductive as it stands because it excepts the
addresses a session is still filling in: the exception opens when `RegisterAddress`
finds the address new and closes with the fill, under `jm.mu`, which covers every job
there is by then. `SentJobsPayable` needs it, and that a job is sent only to a session
whose coinbase it has. `AddressesCounted` needs the count of one address after the step
of one session, the lemmas on `Cardinality`. The refinement maps each `refreshTemplate`
to `Issue`, and every other action to a stutter.

*EngineLife.* `OwnerInv` says whose an instance is: a caller has one of its own from
`StartCoin` to the registration, nobody else's and not the registered one, and the stage
of an instance is the one its caller left it in. `PortInv`: no two that are up have one
port. As long as no two starts have overlapped, what serves is the registered runner or
the one that is being started or closed, and these exclude each other; after that, only
the ports do. An instance on every port, the registered one and the three of the other
callers leave one unused (`UnusedExists`).

*BlockSubmit.* `KeptInv` is `UnsubmittedIsKept` and what a handler on its way has behind
it: past `submitblock` its block is one the node connected. A record goes only to a block
of the same name (`PersistEffect`), and the property then no longer asks for it.
`WorkCountedOnce` holds because a handler that has not closed its round
has taken nothing, and a share is counted only when it was not. `MarksSettle` is the
hard one. A sync skips a mature block and never lowers a count, so a stale answer could
leave a mark that no later one corrects. `ChainInv` (a block is on the chain once, at its own
height, above its parent's) makes "the block stored at a height is on the chain"
a fact about one place of the chain; `StoredInv` says that a block with more than one
confirmation, stored or on its way in an answer, is buried below the tip; and what is
buried stays (`BuriedStays`), since the tip alone is ever replaced. Hence a mature block
is on the chain, and a younger one is settled by the tick itself. With longer
reorganisations this argument ends: the hundred confirmations of the code are its bound
for them.

*StratumSession.* `CallOK` says which list of steps a thread of each kind can still have.
`ChangeInv`: one thread at a time is in the middle of a change of difficulty, none while a
change waits for the next block, and no retarget is due before the first authorize has
ended. It needs `OneChanger`, which is why the properties state it. `StepInv` says what is
still to come of a change: whoever will tell the miner, or reset vardiff, holds the
session's own difficulty, so between handlers nothing is left to come and the three agree.
For the work of broadcast jobs, two things are shown.
The record of a job outlives the job (`RecordKeeps`). Jobs may be recorded out of order,
but only a goroutine that had an older one in hand overtakes another, and each has one
(`LateInv`); so when the record is full, the jobs newer than the one dropped are more than
the JobManager keeps.
And what the miner works at meets the session's difficulty or the one recorded
(`WorkSafe`): the difficulties it may know of are the present one and, within moments of a
change, the one before (`KnownInv`), both of which the record of the next job allows
(`NotifyInv`). A change reaches the work already handed out; but while one may come
from the store (`Young`) or waits for a block (`Ahead`) nothing has changed
recently, so that work is good by its record already (`CalmInv`).

*SV2Work.* `PayInv`: a channel has its own coinbase before anything is sent to it.
`JudgeInv`: a job that was sent, or is about to be, has its template as long as it is one
of the newest. A sender forgets the lowest job number of more than the history holds, so
whatever it forgets has as many numbers above it, in whatever order they were stored
(`RecentKept`). `ReachInv`: a channel without the newest template is owed it by some
sender or by a broadcast that has cached it, which will come to it. `SerialInv`, as long
as no two senders or broadcasts were at work at a time: all senders but one, `t`, are
idle; `t` is idle while a broadcast is between its two steps; what either has in hand is
the newest template; a channel not owed it is settled, its miner on that template, its
prev-hash and the stored coinbase; the channel's and the miner's prev-hash are equal but
during `t`'s own `SetNewPrevHash`.

*SV2Shares.* `StepInv`: a new difficulty waits in one place at a time, and a lone
sender has the channel's difficulty in hand. `AckInv`: shares on the wire are numbered
in order and the acknowledged span is that of the accepted ones. `ToldInv`: whatever the
miner was told after n changes is the difficulty of the nth, for the latest two, so that
a share one change behind meets `prevDiff`.

*SV2Link.* `LockInv`: only the writer that holds `writeMu` is in the middle of a frame.
`StreamInv` says what is in the socket: there is, for each segment, a frame that was sent
and a part of it, each segment goes on where the one before it ended, the first where the
miner's reading stopped, and the last ends where the lock's holder will go on; so the
miner never meets a foreign segment. That a frame has no byte unwritten is a fact about
the encoders: their fields are chained, each beginning where the last one ended
(`ChainsJoin`), from 0 to the length of the payload. `KeptInv`: a served miner that reads
has been written to within the last interval, or the keepalive is due or being written,
and time does not pass before it is. The decoders are followed field by field: `ReadUpTo`
says where a decoder is, that it has read nothing past the end, and how much of the payload
it has made sure of.

*MeshRelay.* `SharesReachIssuer` rests on the registry: a job's latest entry is of the
coin it is relayed to. `LiveInv` says that the active coin is live or that some thread in
the middle of a move will make it so: the reader still to go live, authorize, or a mover
past `setActive`.

*MeshBackend.* `BackendInv` follows the connection: one goroutine at most reads, and it
reads the backend's latest connection (`ReadInv`); the handshake at bonding gets its own
answers (`BondInv`); nothing is open beside that connection (`OpenInv`); between a
death and the clearing of `dead` the backend stays dead, and it is cleared with a job of
the connection in use (`AliveInv`).

*MeshAssign.* An invariant of each worker on which no two actors have overlapped: one of
the three is at work on it at most; its row is the one the user left; a request in hand is
about the row as it is; the balancer holds automatic miners only, so whatever the plan of
its round, it moves nobody the user has placed; and a session that has authorized has been
told the row it has.

*Counters.* `PoolInv`: whatever row a request adds its correction to, and whichever
count it adds, the two have no share in common. `WorkerInv` is the same of the snapshots
and the base. `ContextInv`: between its two reads the session only gets better.

*CoinFiles.* A file without a race has one writer at most, and that one has in hand what was
saved, for every setting but those its own request sets (`FilesInv`, with `RoleInv` on
what each kind of actor writes). `KeyInv` holds until two starts overlap and has three
parts: one start is under way, with no runner meanwhile (`OneStart`); the key on the disk
is the one that is served, and that a start has in hand, unless a regeneration is about to
reload the coin or was told that it could not (`KeyKept`); and it is in the configuration
before the server runs (`PageKept`). "Applied" is said of a
container that has the node settings just written, and is unsaid by the next settings
request, the only one that can change them (`RestartInv`).

A theorem about a property says what its run shows, for every value of the constants; the
exceptions (`overlapped`, `lateDeath` and so on) are those of the property.

*Only model-checked.* All liveness (`TipFollowed`, `PoolComesBack`, `HomeReached`,
`SliceReached`, `PlacementSettles`, `FleetConverges`, `PendingReachesMiner`,
`SilentMinerDropped`, `CloseFreesWriters`), which is out of the prover's reach with
`ENABLED`, induction over data and recursive operators. What a round of the balancer comes to
after several moves is computed by recursion: that no move sends a miner nowhere is in
`AssignTypeOK`, which TLC can check.

## 5. Not modelled

- Byte-level code: coinbase and header assembly, hashing, addresses, JSON, the ciphers.
  Pure I/O: the miner scanner, charts and logs, metrics export.
- `Engine.Stop` and the coins of the main configuration file; in a V1 session version
  rolling, pings and statistics; `Server.Stop` of V1; the mesh's counters and activity
  log; the extranonce pool and the reconnection statistics of SV2.
- The stale-share grace: after a new tip, shares of the old one are accepted for 5 s;
  the properties ask for less.
- `ValidateShare` reads the difficulty, the previous one and the job's under three
  separate locks. The model tests them in one state: the three differ only if the
  difficulty changes in between.
- Data races of the Go memory model: `ValidateShare` reads a job's address map without
  `jm.mu`, `MetricsHandler` ranges over the runners without the engine's lock.
- Steps taken as one: `JobManager.SendJob` reads the session's state and address and
  sends; V1's `SendJob` takes the job, looks at the state and flushes; `RecordShare` and
  the workers list touch a coin's and a worker's counters under a lock each;
  `MeshRelay.ComesBack` stands for what `MeshBackend` opens up.
- Error paths that lead nowhere new: pool mode's coinbase failing to build for an address
  that was validated at the start; a second `mining.authorize` on a mesh session; the
  keepalive of a session that was never sent a job, and the return after its first failed
  send; `SetStore` before the coin's counters exist, which the constructor rules out.
- Reorganisations deeper than the tip. `Server.Stop` of SV2 before `Start` has set the
  listener.

Seen while modelling and left to the hazards list or to here: processes that live less
than 30 s lose their counts, and a worker offline for more than 49 h its all-time total;
`pool_counters` is written only when `/api/engine/stats` is asked; a reader that meets a
file `os.WriteFile` has just emptied takes it for no settings, and the next save makes
that true; repeated keepalives fill the SV2 stale list with one number, and a template
that is pushed by a goroutine held up for long can be forgotten as soon as it is stored,
or be no longer in the list when it is mined; `StopCoin` by two
callers closes a channel twice; `INSERT OR IGNORE` drops the second block of a height.

## 6. Plan

1. Abstract specifications: `MeshRelay`'s `ComesBack` as what `MeshBackend` implements;
   a block recorded as found or lost as what `BlockSubmit` implements.
2. Proofs: the types of `MeshBackend` and `MeshAssign`.
3. *Locks*: `sessionsMu`, `s.mu`, `addrMu`, `jm.mu`: order, and who waits on a slow miner.
4. Pure algorithms against definitions: the retarget of vardiff, weighted rotation,
   compact targets, the split of the block value.

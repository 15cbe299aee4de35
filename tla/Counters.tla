------------------------------ MODULE Counters ------------------------------
(***************************************************************************)
(* What the engine remembers of a coin's shares, and what it shows of them:  *)
(* the counters of the process (pkg/metrics/stats.go), the pool_counters row  *)
(* that /api/engine/stats rewrites, the worker_shares snapshots and the       *)
(* worker_best_diff row (pkg/coinapi/store.go), and the handlers and threads  *)
(* that carry one into the other (pkg/coinapi/handlers.go), across restarts   *)
(* of the process and reloads of the coin.  One coin and one worker.          *)
(*                                                                          *)
(* The total shown for the pool is row.last + row.offset, or the process's    *)
(* own count when that is higher; the worker's is the highest snapshot, or    *)
(* base plus the process's count when that is higher.  Nothing is written     *)
(* when the process stops.                                                    *)
(***************************************************************************)
EXTENDS Integers, FiniteSetsExt

CONSTANTS
  Requests,   \* /api/engine/stats requests that can be under way at once
  Diffs,      \* difficulties a share can have
  MaxShares,  \* bound: shares accepted
  MaxEvents,  \* bound: restarts, reloads, blocks, sessions, resets, deletions, clock steps
  MaxCalls    \* bound: requests and snapshots begun

ASSUME CountersAssumption ==
  Diffs \subseteq Nat \ {0} /\ MaxShares \in Nat /\ MaxEvents \in Nat /\ MaxCalls \in Nat

VARIABLES
  mem,     \* the process's counters: the coin's, the worker's, the round's, its best
  session, \* the miner's session: its best share, and the context kept with it
  seeded,  \* the store has been injected: the handlers are served
  base,    \* shareBases of the worker, -1 when it has none
  sess,    \* when the process started, as now - uptime gives it, in units of 30 s
  row,     \* the coin's pool_counters row
  best,    \* the worker's worker_best_diff row: best_all_time and its context
  shots,   \* the worker's snapshots: the total, and whether it is past 49 hours
  req,     \* each stats request: how far it is, and what it has read
  workers, \* the workers request under way
  snap,    \* the snapshot under way
  total,   \* ghost: shares there have been, and how many blocks were credited with
  stepped, \* ghost: the clock was set forward
  reopened,\* ghost: a round was seeded from a row older than its last block
  n        \* bounds: what the behaviour is about, its events and calls so far

row0 == [last |-> 0, offset |-> 0, sess |-> 0, round |-> 0]
mem0 == [coin |-> 0, worker |-> 0, round |-> 0, best |-> 0]
idle == [pc |-> "idle", coin |-> 0, row |-> row0, round |-> 0]
rest == [pc |-> "idle", ctx |-> 0, best |-> 0, worker |-> 0]
none == [best |-> 0, ctx |-> 0]

vars == <<mem, session, seeded, base, sess, row, best, shots, req, workers, snap,
          total, stepped, reopened, n>>
store   == <<row, best, shots>>
calls   == <<req, workers, snap>>
process == <<seeded, base, sess>>
ghosts  == <<stepped, reopened>>

\* The pool's row and the worker's rows have nothing in common but the process: a
\* behaviour is about one of the two, and has its events and calls.
Sides == {"pool", "worker"}
Event(sides) == n.side \in sides /\ n.events < MaxEvents /\ n' = [n EXCEPT !.events = @ + 1]
Call(side)   == n.side = side /\ n.calls < MaxCalls /\ n' = [n EXCEPT !.calls = @ + 1]

Init ==
  /\ mem = mem0 /\ session = none
  /\ seeded = TRUE /\ base = -1 /\ sess = 1
  /\ row = row0 /\ best = none /\ shots = {}
  /\ req = [r \in Requests |-> idle] /\ workers = rest /\ snap = [pc |-> "idle", worker |-> 0]
  /\ total = [shares |-> 0, round |-> 0, credited |-> 0]
  /\ stepped = FALSE /\ reopened = FALSE
  /\ \E side \in Sides : n = [side |-> side, events |-> 0, calls |-> 0]

-----------------------------------------------------------------------------
(* Mining: the process's counters.                                           *)

\* A share is accepted.  The round is counted in shares; the difficulty is only
\* the worker's.
RecordShare(d) ==
  /\ total.shares < MaxShares /\ (n.side = "worker" \/ d = Max(Diffs))
  /\ mem' = [coin |-> mem.coin + 1, worker |-> mem.worker + 1, round |-> mem.round + 1,
             best |-> Max({mem.best, d})]
  /\ session' = IF d > session.best THEN [best |-> d, ctx |-> d] ELSE session
  /\ total' = [total EXCEPT !.shares = @ + 1, !.round = @ + 1]
  /\ UNCHANGED <<process, store, calls, ghosts, n>>

\* Mutant: a block leaves the round as it was.
PeekOnly == mem

\* TakeRoundWork.
TakeRound == [mem EXCEPT !.round = 0]

\* A block: it is credited with the round, and the round starts again.
BlockFound ==
  /\ Event({"pool"}) /\ mem.round > 0
  /\ mem' = TakeRound
  /\ total' = [total EXCEPT !.credited = @ + mem.round, !.round = 0]
  /\ UNCHANGED <<session, process, store, calls, ghosts>>

\* The session a request under way has begun to read ends only after it: what it
\* reads of it then would be the same.
Ends == session' = none /\ workers.pc # "best"

\* The miner comes back on a new session; the worker's counters stay.
Reconnects ==
  /\ Event({"worker"}) /\ session # none /\ Ends
  /\ UNCHANGED <<mem, process, store, calls, total, ghosts>>

-----------------------------------------------------------------------------
(* The process and the coin.                                                 *)

\* The process dies and starts again, less or more than 30 seconds after it was
\* last started.  Its coins accept shares before the store is injected.
Restart ==
  /\ Event(Sides)
  /\ mem' = mem0 /\ session' = none /\ seeded' = FALSE /\ base' = -1
  /\ \E later \in {1, 2} : sess' = sess + later
  /\ req' = [r \in Requests |-> idle] /\ workers' = rest /\ snap' = [pc |-> "idle", worker |-> 0]
  /\ UNCHANGED <<store, total, ghosts>>

\* SetStore, at startup and for the new runner of each reload: the round of the
\* row replaces the one in memory.
SetStore ==
  /\ mem' = [mem EXCEPT !.round = row.round]
  /\ reopened' = (reopened \/ row.round > total.round)

Seed ==
  /\ ~seeded /\ seeded' = TRUE /\ SetStore
  /\ UNCHANGED <<session, base, sess, store, calls, total, stepped, n>>

Reload ==
  /\ seeded /\ Event({"pool"}) /\ SetStore /\ Ends
  /\ UNCHANGED <<process, store, calls, total, stepped>>

\* The wall clock is set forward: uptime is monotonic and does not follow.
ClockStep ==
  /\ Event({"pool"}) /\ sess' = sess + 2 /\ stepped' = TRUE
  /\ UNCHANGED <<mem, session, seeded, base, store, calls, total, reopened>>

ResetCoinStats ==
  /\ Event({"pool"}) /\ seeded /\ mem' = [mem EXCEPT !.coin = 0]
  /\ UNCHANGED <<session, process, store, calls, total, ghosts>>

-----------------------------------------------------------------------------
(* /api/engine/stats (HandleEngineStats).                                    *)

FetchStats(r) ==
  /\ seeded /\ req[r].pc = "idle" /\ Call("pool")
  /\ req' = [req EXCEPT ![r] = [idle EXCEPT !.pc = "last", !.coin = mem.coin]]
  /\ UNCHANGED <<mem, session, process, store, workers, snap, total, ghosts>>

GetLastCounters(r) ==
  /\ req[r].pc = "last"
  /\ req' = [req EXCEPT ![r].pc = "peek", ![r].row = row]
  /\ UNCHANGED <<mem, session, process, store, workers, snap, total, ghosts, n>>

\* PeekRoundWork, an argument of UpdateCounters.
PeekRound(r) ==
  /\ req[r].pc = "peek"
  /\ req' = [req EXCEPT ![r].pc = "update", ![r].round = mem.round]
  /\ UNCHANGED <<mem, session, process, store, workers, snap, total, ghosts, n>>

\* Mutant: any count lower than the one stored is taken for a restart.
LowerCount(last, coin) == last.last > coin

\* Another process wrote the row: its session started more than 30 seconds
\* before this one, and left a count.
Restarted(last, coin) == last.sess > 0 /\ sess > last.sess + 1 /\ last.last > 0

UpdateCounters(r) ==
  /\ req[r].pc = "update"
  /\ LET last == req[r].row IN
     row' = [last |-> req[r].coin,
             offset |-> last.offset + IF Restarted(last, req[r].coin) THEN last.last ELSE 0,
             sess |-> sess, round |-> req[r].round]
  /\ req' = [req EXCEPT ![r] = idle]
  /\ UNCHANGED <<mem, session, process, best, shots, workers, snap, total, ghosts, n>>

-----------------------------------------------------------------------------
(* The workers list (HandleWorkers, workersPayload) and the snapshots.       *)

Totals == {s.total : s \in shots}

\* GetWorkerSharesAlltime: 0 when there is no snapshot.
Alltime == Max(Totals \cup {0})

\* shareBaseFor: fixed when the worker is first seen by this process.
ShareBase == IF base >= 0 THEN base ELSE Alltime

\* /miners: the sessions first, an SV2 channel's context before its best, each
\* under the channel's lock, ...
FetchContext ==
  /\ seeded /\ session # none /\ workers.pc = "idle" /\ Call("worker")
  /\ workers' = [rest EXCEPT !.pc = "best", !.ctx = session.ctx, !.best = session.best]
  /\ UNCHANGED <<mem, session, process, store, req, snap, total, ghosts>>

\* Mutant: the best is read before its context.
ContextAgain(w) == [w EXCEPT !.ctx = session.ctx]

BestAgain(w) == [w EXCEPT !.best = session.best]

FetchBest ==
  /\ workers.pc = "best"
  /\ workers' = [BestAgain(workers) EXCEPT !.pc = "stats"]
  /\ UNCHANGED <<mem, session, process, store, req, snap, total, ghosts, n>>

\* ... then the worker's counters.  A session without a best share takes the
\* worker's, with the session's own context, which is none.
FetchWorker ==
  /\ workers.pc = "stats"
  /\ workers' = [workers EXCEPT !.pc = "store", !.worker = mem.worker,
                   !.best = IF @ = 0 THEN mem.best ELSE @]
  /\ UNCHANGED <<mem, session, process, store, req, snap, total, ghosts, n>>

\* UpdateWorkerBestDiff: the context changes only with the best.
BestOf(old, new) == IF new.best > old.best THEN new ELSE old

ListWorkers ==
  /\ workers.pc = "store"
  /\ best' = BestOf(best, [best |-> workers.best, ctx |-> workers.ctx])
  /\ base' = ShareBase
  /\ workers' = rest
  /\ UNCHANGED <<mem, session, seeded, sess, row, shots, req, snap, total, ghosts, n>>

\* runSnapshot: only a worker with a session is in /miners.
FetchMiners ==
  /\ seeded /\ session # none /\ snap.pc = "idle" /\ Call("worker")
  /\ snap' = [pc |-> "record", worker |-> mem.worker]
  /\ UNCHANGED <<mem, session, process, store, req, workers, total, ghosts>>

\* RecordWorkerSnapshot, with its pruning of the coin's old rows.
Record ==
  /\ snap.pc = "record" /\ snap' = [snap EXCEPT !.pc = "idle"]
  /\ base' = ShareBase
  /\ shots' = {s \in shots : ~s.old} \cup {[total |-> snap.worker + ShareBase, old |-> FALSE]}
  /\ UNCHANGED <<mem, session, seeded, sess, row, best, req, workers, total, ghosts, n>>

\* Two days pass without a share of this worker; another worker's snapshot may
\* prune what that makes old.
TwoDays ==
  /\ Event({"worker"}) /\ session' = none /\ snap.pc = "idle" /\ workers.pc = "idle"
  /\ shots' \in {{[s EXCEPT !.old = TRUE] : s \in shots}, {}}
  /\ UNCHANGED <<mem, process, row, best, calls, total, ghosts>>

DeleteWorker ==
  /\ Event({"worker"}) /\ seeded /\ shots' = {} /\ best' = none
  /\ UNCHANGED <<mem, session, process, row, calls, total, ghosts>>

-----------------------------------------------------------------------------
Next ==
  \/ \E d \in Diffs : RecordShare(d)
  \/ BlockFound \/ Reconnects
  \/ Restart \/ Seed \/ Reload \/ ClockStep \/ ResetCoinStats
  \/ \E r \in Requests : FetchStats(r) \/ GetLastCounters(r) \/ PeekRound(r) \/ UpdateCounters(r)
  \/ FetchContext \/ FetchBest \/ FetchWorker \/ ListWorkers
  \/ FetchMiners \/ Record \/ TwoDays \/ DeleteWorker

Spec == Init /\ [][Next]_vars

-----------------------------------------------------------------------------
\* What HandleStatus and HandlePool show of the pool, and workersPayload of the worker.
PoolShown   == Max({row.last + row.offset, mem.coin})
WorkerShown == Max({Alltime} \cup IF base >= 0 THEN {mem.worker + base} ELSE {})

\* The totals count no share twice, in whatever order the requests, the snapshots
\* and the restarts come ("it can never double-count, even under concurrent
\* calls", handlers.go:300; "each would count the other's correction again",
\* handlers.go:33).  The pool's does when the wall clock is set forward.
NeverTwice == (~stepped => PoolShown <= total.shares) /\ WorkerShown <= total.shares

\* Blocks and the round that is open share out the work there has been: none of
\* it is credited to two blocks, unless a round was seeded from a row that was
\* written before its last block.
WorkCreditedOnce == ~reopened => total.credited + mem.round <= total.shares

\* The context kept with a worker's best share is that share's, or of one before
\* it, never of a better one (store.go:308 has it "always" match).
ContextNotAhead == best.ctx <= best.best
=============================================================================

--------------------------- MODULE CoinApiProofs ---------------------------
(* Theorems about the coin API, for any number of requests, difficulties,        *)
(* starts, new containers and crashes: about what it counts (Counters), and, in   *)
(* the second part, about the files it writes (CoinFiles).  See the README for    *)
(* the arguments.                                                              *)
EXTENDS Counters, CoinFiles, WellFoundedInduction, TLAPS

Row == [last : Nat, offset : Nat, sess : Nat, round : Nat]
Req == [pc : {"idle", "last", "peek", "update"}, coin : Nat, row : Row, round : Nat]

MemType == mem \in [coin : Nat, worker : Nat, round : Nat, best : Nat]
ReqType == req \in [Requests -> Req]
SnapType == snap \in [pc : {"idle", "record"}, worker : Nat]
SessionType == session \in [best : Nat, ctx : Nat]
BestType == best \in [best : Nat, ctx : Nat]
WorkersType == workers \in [pc : {"idle", "best", "stats", "store"}, ctx : Nat, best : Nat, worker : Nat]
ShotsType == shots \subseteq [total : Nat, old : BOOLEAN]
TotalType == total \in [shares : Nat, round : Nat, credited : Nat]

TypeOK ==
  /\ MemType /\ ReqType /\ SnapType /\ SessionType /\ BestType /\ WorkersType /\ TotalType
  /\ sess \in Nat /\ row \in Row

-----------------------------------------------------------------------------
(* The highest of a set of counts *)

LEMMA MaxOfBounded ==
  ASSUME NEW S \in SUBSET Nat, S # {}, NEW T \in Nat, \A s \in S : s <= T
  PROVE  Max(S) \in S /\ \A s \in S : Max(S) >= s
<1> DEFINE D == {T - s : s \in S}
<1>1. D \subseteq Nat /\ D # {}
  <2>1. \A s \in S : s \in Nat /\ T - s \in Nat
    OBVIOUS
  <2>2. D # {}
    OBVIOUS
  <2> QED
    BY <2>1, <2>2
<1>2. PICK x \in D : \A y \in D : ~(<<y, x>> \in OpToRel(<, Nat))
  BY <1>1, WFMin, NatLessThanWellFounded
<1>3. PICK m \in S : x = T - m
  BY <1>2
<1>4. ASSUME NEW s \in S PROVE m >= s
  <2>1. T - s \in D /\ T - s \in Nat /\ x \in Nat
    BY <1>1
  <2>2. ~(T - s < x)
    BY <1>2, <2>1 DEF OpToRel
  <2> QED
    BY <1>3, <2>1, <2>2
<1> QED
  BY <1>4 DEF Max

LEMMA MaxOfTwo ==
  ASSUME NEW a \in Nat, NEW b \in Nat
  PROVE  Max({a, b}) \in {a, b}
<1>1. CASE a >= b
  <2>1. \A y \in {a, b} : a >= y
    BY <1>1
  <2> QED
    BY <2>1 DEF Max
<1>2. CASE ~(a >= b)
  <2>1. \A y \in {a, b} : b >= y
    BY <1>2
  <2> QED
    BY <2>1 DEF Max
<1> QED
  BY <1>1, <1>2

\* The worker's total of the store is that of one of its snapshots.
LEMMA AlltimeOfShots ==
  ASSUME ShotsType, NEW T \in Nat, \A s \in shots : s.total <= T
  PROVE  Alltime \in Nat /\ Alltime <= T
<1>1. Totals \cup {0} \in SUBSET Nat /\ \A t \in Totals \cup {0} : t <= T
  BY DEF Totals, ShotsType
<1> QED
  BY <1>1, MaxOfBounded DEF Alltime

-----------------------------------------------------------------------------
(* Types, a lemma per variable or two *)

LEMMA MemStep == TypeOK /\ [Next]_vars => MemType'
<1> SUFFICES ASSUME TypeOK, [Next]_vars PROVE MemType'
  OBVIOUS
<1>1. MemType /\ row \in Row
  BY DEF TypeOK
<1>2. CASE UNCHANGED mem
  BY <1>1, <1>2 DEF MemType
<1>3. ASSUME NEW d \in Diffs, RecordShare(d) PROVE MemType'
  <2>1. d \in Nat
    BY CountersAssumption
  <2>2. Max({mem.best, d}) \in Nat
    BY <1>1, <2>1, MaxOfTwo DEF MemType
  <2>3. mem' = [coin |-> mem.coin + 1, worker |-> mem.worker + 1, round |-> mem.round + 1,
                best |-> Max({mem.best, d})]
    BY <1>3 DEF RecordShare
  <2> QED
    BY <1>1, <2>2, <2>3 DEF MemType
<1>4. CASE mem' = TakeRound \/ mem' = mem0 \/ mem' = [mem EXCEPT !.coin = 0]
  BY <1>1, <1>4 DEF TakeRound, mem0, MemType
<1>5. CASE SetStore
  BY <1>1, <1>5 DEF SetStore, Row, MemType
<1> QED
  BY <1>2, <1>3, <1>4, <1>5 DEF Next, BlockFound, Reconnects, Restart, Seed, Reload, ClockStep, ResetCoinStats,
     FetchStats, GetLastCounters, PeekRound, UpdateCounters, FetchContext, FetchBest, FetchWorker, ListWorkers,
     FetchMiners, Record, TwoDays, DeleteWorker, vars

LEMMA ReqStep == TypeOK /\ [Next]_vars => ReqType'
<1> SUFFICES ASSUME TypeOK, [Next]_vars PROVE ReqType'
  OBVIOUS
<1>1. ReqType /\ MemType /\ row \in Row
  BY DEF TypeOK
<1>2. CASE UNCHANGED req
  BY <1>1, <1>2 DEF ReqType
<1>3. idle \in Req
  BY DEF idle, row0, Req, Row
<1>4. CASE Restart
  BY <1>3, <1>4 DEF Restart, ReqType
<1>5. ASSUME NEW r \in Requests, FetchStats(r) PROVE ReqType'
  <2>1. [idle EXCEPT !.pc = "last", !.coin = mem.coin] \in Req
    BY <1>1, <1>3 DEF MemType, Req
  <2> QED
    BY <1>1, <1>5, <2>1 DEF FetchStats, ReqType
<1>6. ASSUME NEW r \in Requests, GetLastCounters(r) PROVE ReqType'
  <2>1. req' = [req EXCEPT ![r] = [req[r] EXCEPT !.pc = "peek", !.row = row]]
    BY <1>1, <1>6 DEF GetLastCounters, ReqType
  <2>2. [req[r] EXCEPT !.pc = "peek", !.row = row] \in Req
    BY <1>1 DEF ReqType, Req
  <2> QED
    BY <1>1, <2>1, <2>2 DEF ReqType
<1>7. ASSUME NEW r \in Requests, PeekRound(r) PROVE ReqType'
  <2>1. req' = [req EXCEPT ![r] = [req[r] EXCEPT !.pc = "update", !.round = mem.round]]
    BY <1>1, <1>7 DEF PeekRound, ReqType
  <2>2. [req[r] EXCEPT !.pc = "update", !.round = mem.round] \in Req
    BY <1>1 DEF ReqType, Req, MemType
  <2> QED
    BY <1>1, <2>1, <2>2 DEF ReqType
<1>8. ASSUME NEW r \in Requests, UpdateCounters(r) PROVE ReqType'
  BY <1>1, <1>3, <1>8 DEF UpdateCounters, ReqType
<1> QED
  BY <1>2, <1>4, <1>5, <1>6, <1>7, <1>8 DEF Next, RecordShare, BlockFound, Reconnects, Seed, Reload, ClockStep,
     ResetCoinStats, FetchContext, FetchBest, FetchWorker, ListWorkers, FetchMiners, Record, TwoDays,
     DeleteWorker, vars, calls

LEMMA SnapStep == TypeOK /\ [Next]_vars => SnapType'
<1> SUFFICES ASSUME TypeOK, [Next]_vars PROVE SnapType'
  OBVIOUS
<1>1. SnapType /\ MemType
  BY DEF TypeOK
<1>2. CASE UNCHANGED snap
  BY <1>1, <1>2 DEF SnapType
<1>3. CASE Restart
  BY <1>3 DEF Restart, SnapType
<1>4. CASE FetchMiners
  BY <1>1, <1>4 DEF FetchMiners, SnapType, MemType
<1>5. CASE Record
  BY <1>1, <1>5 DEF Record, SnapType
<1> QED
  BY <1>2, <1>3, <1>4, <1>5 DEF Next, RecordShare, BlockFound, Reconnects, Seed, Reload, ClockStep, ResetCoinStats,
     FetchStats, GetLastCounters, PeekRound, UpdateCounters, FetchContext, FetchBest, FetchWorker, ListWorkers,
     TwoDays, DeleteWorker, vars, calls

LEMMA SessionStep == TypeOK /\ [Next]_vars => SessionType'
<1> SUFFICES ASSUME TypeOK, [Next]_vars PROVE SessionType'
  OBVIOUS
<1>1. SessionType
  BY DEF TypeOK
<1>2. CASE UNCHANGED session
  BY <1>1, <1>2 DEF SessionType
<1>3. ASSUME NEW d \in Diffs, RecordShare(d) PROVE SessionType'
  BY <1>1, <1>3, CountersAssumption DEF RecordShare, SessionType
<1>4. CASE session' = none
  BY <1>4 DEF none, SessionType
<1> QED
  BY <1>2, <1>3, <1>4 DEF Next, BlockFound, Reconnects, Ends, Restart, Seed, Reload, ClockStep, ResetCoinStats,
     FetchStats, GetLastCounters, PeekRound, UpdateCounters, FetchContext, FetchBest, FetchWorker, ListWorkers,
     FetchMiners, Record, TwoDays, DeleteWorker, vars

LEMMA WorkersStep == TypeOK /\ [Next]_vars => WorkersType' /\ BestType'
<1> SUFFICES ASSUME TypeOK, [Next]_vars PROVE WorkersType' /\ BestType'
  OBVIOUS
<1>1. WorkersType /\ BestType /\ SessionType /\ MemType
  BY DEF TypeOK
<1>2. rest \in [pc : {"idle", "best", "stats", "store"}, ctx : Nat, best : Nat, worker : Nat]
  BY DEF rest
<1>3. CASE UNCHANGED <<workers, best>>
  BY <1>1, <1>3 DEF WorkersType, BestType
<1>4. CASE Restart
  BY <1>1, <1>2, <1>4 DEF Restart, store, WorkersType, BestType
<1>5. CASE FetchContext
  BY <1>1, <1>2, <1>5 DEF FetchContext, store, WorkersType, BestType, SessionType
<1>6. CASE FetchBest
  BY <1>1, <1>6 DEF FetchBest, BestAgain, store, WorkersType, BestType, SessionType
<1>7. CASE FetchWorker
  <2>1. (IF workers.best = 0 THEN mem.best ELSE workers.best) \in Nat /\ mem.worker \in Nat
    BY <1>1 DEF WorkersType, MemType
  <2> QED
    BY <1>1, <1>7, <2>1 DEF FetchWorker, store, WorkersType, BestType
<1>8. CASE ListWorkers
  <2>1. [best |-> workers.best, ctx |-> workers.ctx] \in [best : Nat, ctx : Nat]
    BY <1>1 DEF WorkersType
  <2> QED
    BY <1>1, <1>2, <1>8, <2>1 DEF ListWorkers, BestOf, WorkersType, BestType
<1>9. CASE DeleteWorker
  BY <1>1, <1>9 DEF DeleteWorker, none, calls, WorkersType, BestType
<1> QED
  BY <1>3, <1>4, <1>5, <1>6, <1>7, <1>8, <1>9 DEF Next, RecordShare, BlockFound, Reconnects, Seed, Reload,
     ClockStep, ResetCoinStats, FetchStats, GetLastCounters, PeekRound, UpdateCounters, FetchMiners, Record,
     TwoDays, vars, calls, store

LEMMA TotalStep == TypeOK /\ [Next]_vars => TotalType'
<1> SUFFICES ASSUME TypeOK, [Next]_vars PROVE TotalType'
  OBVIOUS
<1>1. TotalType /\ MemType
  BY DEF TypeOK
<1>2. CASE UNCHANGED total
  BY <1>1, <1>2 DEF TotalType
<1>3. CASE total' = [total EXCEPT !.shares = @ + 1, !.round = @ + 1]
  <2>1. total.shares + 1 \in Nat /\ total.round + 1 \in Nat
    BY <1>1 DEF TotalType
  <2>2. total' = [total EXCEPT !.shares = total.shares + 1, !.round = total.round + 1]
    BY <1>3
  <2> QED
    BY <1>1, <2>1, <2>2 DEF TotalType
<1>4. CASE total' = [total EXCEPT !.credited = @ + mem.round, !.round = 0]
  <2>1. total.credited + mem.round \in Nat
    BY <1>1 DEF TotalType, MemType
  <2>2. total' = [total EXCEPT !.credited = total.credited + mem.round, !.round = 0]
    BY <1>4
  <2> QED
    BY <1>1, <2>1, <2>2 DEF TotalType
<1> QED
  BY <1>2, <1>3, <1>4 DEF Next, RecordShare, BlockFound, Reconnects, Restart, Seed, Reload, ClockStep,
     ResetCoinStats, FetchStats, GetLastCounters, PeekRound, UpdateCounters, FetchContext, FetchBest, FetchWorker,
     ListWorkers, FetchMiners, Record, TwoDays, DeleteWorker, vars

LEMMA RowStep == TypeOK /\ [Next]_vars => sess' \in Nat /\ row' \in Row
<1> SUFFICES ASSUME TypeOK, [Next]_vars PROVE sess' \in Nat /\ row' \in Row
  OBVIOUS
<1>1. ReqType /\ sess \in Nat /\ row \in Row
  BY DEF TypeOK
<1>2. CASE UNCHANGED <<sess, row>>
  BY <1>1, <1>2
<1>3. CASE Restart \/ ClockStep
  BY <1>1, <1>3 DEF Restart, ClockStep, store
<1>4. ASSUME NEW r \in Requests, UpdateCounters(r) PROVE sess' \in Nat /\ row' \in Row
  <2>1. req[r].coin \in Nat /\ req[r].round \in Nat /\ req[r].row.last \in Nat /\ req[r].row.offset \in Nat
    BY <1>1 DEF ReqType, Req, Row
  <2>2. req[r].row.offset + (IF Restarted(req[r].row, req[r].coin) THEN req[r].row.last ELSE 0) \in Nat
    BY <2>1
  <2> QED
    BY <1>1, <1>4, <2>1, <2>2 DEF UpdateCounters, process, Row
<1> QED
  BY <1>2, <1>3, <1>4 DEF Next, RecordShare, BlockFound, Reconnects, Seed, Reload, ResetCoinStats, FetchStats,
     GetLastCounters, PeekRound, FetchContext, FetchBest, FetchWorker, ListWorkers, FetchMiners, Record, TwoDays,
     DeleteWorker, vars, store, process

LEMMA NextTypeOK == TypeOK /\ [Next]_vars => TypeOK'
BY MemStep, ReqStep, SnapStep, SessionStep, WorkersStep, TotalStep, RowStep DEF TypeOK

LEMMA InitTypeOK == Init => TypeOK
<1> SUFFICES ASSUME Init PROVE TypeOK
  OBVIOUS
<1>1. MemType
  BY DEF Init, mem0, MemType
<1>2. ReqType
  BY DEF Init, idle, row0, ReqType, Req, Row
<1>3. SnapType /\ TotalType
  BY DEF Init, SnapType, TotalType
<1>4. SessionType /\ BestType
  BY DEF Init, none, SessionType, BestType
<1>5. WorkersType
  BY DEF Init, rest, WorkersType
<1>6. sess \in Nat /\ row \in Row
  BY DEF Init, row0, Row
<1> QED
  BY <1>1, <1>2, <1>3, <1>4, <1>5, <1>6 DEF TypeOK

-----------------------------------------------------------------------------
(* The round's work *)

CreditInv == ~reopened => mem.round <= total.round /\ total.credited + total.round <= total.shares

LEMMA NextCredit == TypeOK /\ CreditInv /\ [Next]_vars => CreditInv'
<1> SUFFICES ASSUME TypeOK, CreditInv, [Next]_vars PROVE CreditInv'
  OBVIOUS
<1>1. MemType /\ TotalType
  BY DEF TypeOK
<1>2. CASE mem'.round = mem.round /\ total' = total /\ reopened' = reopened
  BY <1>2 DEF CreditInv
<1>3. ASSUME NEW d \in Diffs, RecordShare(d) PROVE CreditInv'
  <2>1. mem'.round = mem.round + 1 /\ reopened' = reopened
    BY <1>3 DEF RecordShare, ghosts
  <2>2. total'.shares = total.shares + 1 /\ total'.round = total.round + 1 /\ total'.credited = total.credited
    BY <1>1, <1>3 DEF RecordShare, TotalType
  <2> QED
    BY <1>1, <2>1, <2>2 DEF CreditInv, MemType, TotalType
<1>4. CASE BlockFound
  <2>1. mem'.round = 0 /\ reopened' = reopened
    BY <1>1, <1>4 DEF BlockFound, TakeRound, ghosts, MemType
  <2>2. total'.shares = total.shares /\ total'.round = 0 /\ total'.credited = total.credited + mem.round
    BY <1>1, <1>4 DEF BlockFound, TotalType
  <2> QED
    BY <1>1, <2>1, <2>2 DEF CreditInv, MemType, TotalType
<1>5. CASE Restart
  <2>1. mem'.round = 0 /\ reopened' = reopened /\ total' = total
    BY <1>5 DEF Restart, mem0, ghosts
  <2> QED
    BY <1>1, <2>1 DEF CreditInv, TotalType
<1>6. CASE SetStore /\ total' = total
  <2>1. mem'.round = row.round
    BY <1>1, <1>6 DEF SetStore, MemType
  <2>3. ~reopened' => ~reopened /\ ~(row.round > total.round)
    BY <1>6 DEF SetStore
  <2>2. row.round \in Nat
    BY DEF TypeOK, Row
  <2> QED
    BY <1>1, <1>6, <2>1, <2>2, <2>3 DEF CreditInv, TotalType
<1>7. CASE ResetCoinStats
  <2>1. mem'.round = mem.round
    BY <1>1, <1>7 DEF ResetCoinStats, MemType
  <2> QED
    BY <1>2, <1>7, <2>1 DEF ResetCoinStats, ghosts
<1>8. CASE UNCHANGED <<mem, total, reopened>>
  BY <1>2, <1>8
<1> QED
  BY <1>3, <1>4, <1>5, <1>6, <1>7, <1>8 DEF Next, Reconnects, Seed, Reload, ClockStep, FetchStats,
     GetLastCounters, PeekRound, UpdateCounters, FetchContext, FetchBest, FetchWorker, ListWorkers, FetchMiners,
     Record, TwoDays, DeleteWorker, vars, ghosts

\* The blocks and the open round share out the work there has been, however many there
\* are, unless a round was seeded from a row older than its last block.
THEOREM WorkCreditedCorrect == Spec => []WorkCreditedOnce
<1>1. Init => TypeOK /\ CreditInv
  BY InitTypeOK DEF Init, mem0, CreditInv
<1>2. TypeOK /\ CreditInv => WorkCreditedOnce
  <2> SUFFICES ASSUME TypeOK, CreditInv PROVE WorkCreditedOnce
    OBVIOUS
  <2>1. MemType /\ TotalType
    BY DEF TypeOK
  <2> QED
    BY <2>1 DEF CreditInv, WorkCreditedOnce, MemType, TotalType
<1> QED
  BY <1>1, <1>2, NextTypeOK, NextCredit, PTL DEF Spec

-----------------------------------------------------------------------------
(* A best share and its context *)

\* Between the two reads the session only gets better: it cannot end, so the best
\* read second is at least the one its context was of.
ContextInv ==
  /\ best.ctx <= best.best /\ session.ctx <= session.best
  /\ workers.pc = "best" => workers.ctx <= session.best
  /\ workers.pc \in {"stats", "store"} => workers.ctx <= workers.best

LEMMA NextContext == TypeOK /\ ContextInv /\ [Next]_vars => ContextInv'
<1> SUFFICES ASSUME TypeOK, ContextInv, [Next]_vars PROVE ContextInv'
  OBVIOUS
<1>1. SessionType /\ BestType /\ WorkersType /\ MemType
  BY DEF TypeOK
<1>2. CASE UNCHANGED <<session, best, workers>>
  BY <1>2 DEF ContextInv
<1>3. ASSUME NEW d \in Diffs, RecordShare(d) PROVE ContextInv'
  <2>1. UNCHANGED <<best, workers>>
    BY <1>3 DEF RecordShare, store, calls
  <2>2. d \in Nat
    BY CountersAssumption
  <2>3. session'.ctx <= session'.best /\ session.best <= session'.best
    BY <1>1, <1>3, <2>2 DEF RecordShare, SessionType, ContextInv
  <2>4. session'.best \in Nat
    BY <1>1, <1>3, <2>2 DEF RecordShare, SessionType
  <2> QED
    BY <1>1, <2>1, <2>3, <2>4 DEF ContextInv, SessionType, WorkersType
<1>4. CASE Ends /\ UNCHANGED <<best, workers>>
  BY <1>4 DEF Ends, none, ContextInv
<1>5. CASE Restart
  BY <1>5 DEF Restart, store, none, rest, ContextInv
<1>6. CASE FetchContext
  <2>1. workers'.pc = "best" /\ workers'.ctx = session.ctx
    BY <1>6 DEF FetchContext, rest
  <2> QED
    BY <1>6, <2>1 DEF FetchContext, store, ContextInv
<1>7. CASE FetchBest
  <2>1. workers'.pc = "stats" /\ workers'.ctx = workers.ctx /\ workers'.best = session.best
    BY <1>1, <1>7 DEF FetchBest, BestAgain, WorkersType
  <2> QED
    BY <1>7, <2>1 DEF FetchBest, store, ContextInv
<1>8. CASE FetchWorker
  <2>1. workers'.pc = "store" /\ workers'.ctx = workers.ctx
    BY <1>1, <1>8 DEF FetchWorker, WorkersType
  <2>2. workers'.best = IF workers.best = 0 THEN mem.best ELSE workers.best
    BY <1>1, <1>8 DEF FetchWorker, WorkersType
  <2>3. workers.ctx <= workers.best
    BY <1>8 DEF FetchWorker, ContextInv
  <2>4. workers'.ctx <= workers'.best
    BY <1>1, <2>1, <2>2, <2>3 DEF WorkersType, MemType
  <2> QED
    BY <1>8, <2>1, <2>4 DEF FetchWorker, store, ContextInv
<1>9. CASE ListWorkers
  <2>1. workers.ctx <= workers.best /\ workers'.pc = "idle" /\ session' = session
    BY <1>9 DEF ListWorkers, rest, ContextInv
  <2>2. best'.ctx <= best'.best
    BY <1>9, <2>1 DEF ListWorkers, BestOf, ContextInv
  <2> QED
    BY <2>1, <2>2 DEF ContextInv
<1>10. CASE TwoDays
  BY <1>10 DEF TwoDays, none, calls, ContextInv
<1>11. CASE DeleteWorker
  BY <1>11 DEF DeleteWorker, none, calls, ContextInv
<1> QED
  BY <1>2, <1>3, <1>4, <1>5, <1>6, <1>7, <1>8, <1>9, <1>10, <1>11 DEF Next, BlockFound, Reconnects, Seed, Reload,
     ClockStep, ResetCoinStats, FetchStats, GetLastCounters, PeekRound, UpdateCounters, FetchMiners, Record,
     vars, store, calls

\* The context kept with the worker's best share is never that of a better one, though
\* it is read under a lock of its own.
THEOREM ContextCorrect == Spec => []ContextNotAhead
<1>1. Init => TypeOK /\ ContextInv
  BY InitTypeOK DEF Init, none, rest, ContextInv
<1>2. ContextInv => ContextNotAhead
  BY DEF ContextInv, ContextNotAhead
<1> QED
  BY <1>1, <1>2, NextTypeOK, NextContext, PTL DEF Spec

-----------------------------------------------------------------------------
(* What is shown *)

\* What a row holds of the processes before this one.
Before(last) == IF last.sess < sess THEN last.last + last.offset ELSE last.offset

Held(r) == req[r].pc \in {"peek", "update"}

\* Whatever row a request adds its correction to, and whichever count it adds, the two
\* have no share in common: the row's share of it is of the processes before.
PoolInv ==
  /\ mem.coin <= total.shares /\ row.last + row.offset <= total.shares
  /\ row.sess <= sess /\ Before(row) + mem.coin <= total.shares
  /\ \A r \in Requests : req[r].pc # "idle" =>
       req[r].coin <= total.shares /\ Before(row) + req[r].coin <= total.shares
  /\ \A r \in Requests : Held(r) =>
       /\ Before(req[r].row) + mem.coin <= total.shares
       /\ \A q \in Requests : req[q].pc # "idle" => Before(req[r].row) + req[q].coin <= total.shares

LEMMA BeforeType == TypeOK => /\ Before(row) \in Nat
                              /\ \A r \in Requests : Before(req[r].row) \in Nat /\ req[r].coin \in Nat
<1> SUFFICES ASSUME TypeOK PROVE /\ Before(row) \in Nat
                                 /\ \A r \in Requests : Before(req[r].row) \in Nat /\ req[r].coin \in Nat
  OBVIOUS
<1>1. \A w \in Row : Before(w) \in Nat
  BY DEF Before, Row, TypeOK
<1>2. \A r \in Requests : req[r].row \in Row /\ req[r].coin \in Nat
  BY DEF TypeOK, ReqType, Req
<1> QED
  BY <1>1, <1>2 DEF TypeOK

LEMMA NextPool == TypeOK /\ PoolInv /\ ~stepped' /\ [Next]_vars => PoolInv'
<1> SUFFICES ASSUME TypeOK, PoolInv, ~stepped', [Next]_vars PROVE PoolInv'
  OBVIOUS
<1>1. MemType /\ TotalType /\ ReqType /\ row \in Row /\ sess \in Nat
  BY DEF TypeOK
<1>2. MemType' /\ TotalType'
  BY NextTypeOK DEF TypeOK
<1>3. mem.coin \in Nat /\ mem'.coin \in Nat /\ total.shares \in Nat /\ total'.shares \in Nat
  BY <1>1, <1>2 DEF MemType, TotalType
<1>4. /\ row.last \in Nat /\ row.offset \in Nat /\ row.sess \in Nat /\ Before(row) \in Nat
      /\ \A r \in Requests : Before(req[r].row) \in Nat /\ req[r].coin \in Nat
  BY <1>1, BeforeType DEF Row
\* A count of the process that went up with the total, or down.
<1>5. CASE /\ sess' = sess /\ row' = row /\ req' = req
           /\ \/ mem'.coin = mem.coin + 1 /\ total'.shares = total.shares + 1
              \/ mem'.coin <= mem.coin /\ total'.shares = total.shares
  <2>1. total'.shares - mem'.coin >= total.shares - mem.coin /\ total'.shares >= total.shares
    BY <1>3, <1>5
  <2>2. mem'.coin <= total'.shares
    BY <1>3, <2>1 DEF PoolInv
  <2>3. \A w \in Nat : w + mem.coin <= total.shares => w + mem'.coin <= total'.shares
    BY <1>3, <2>1
  <2>4. \A w \in Nat : w <= total.shares => w <= total'.shares
    BY <1>3, <2>1
  <2>5. Before(row)' = Before(row) /\ \A r \in Requests : Before(req[r].row)' = Before(req[r].row)
    BY <1>5 DEF Before
  <2>6. \A r \in Requests : req[r].pc # "idle" =>
          req[r].coin <= total'.shares /\ Before(row) + req[r].coin <= total'.shares
    BY <1>4, <2>4 DEF PoolInv
  <2>7. row.last + row.offset <= total'.shares /\ Before(row) + mem'.coin <= total'.shares
    BY <1>4, <2>3, <2>4 DEF PoolInv
  <2>8. \A r \in Requests : Held(r) =>
          /\ Before(req[r].row) + mem'.coin <= total'.shares
          /\ \A q \in Requests : req[q].pc # "idle" => Before(req[r].row) + req[q].coin <= total'.shares
    BY <1>4, <2>3, <2>4 DEF PoolInv
  <2> QED
    BY <1>5, <2>2, <2>5, <2>6, <2>7, <2>8 DEF PoolInv, Held
<1>6. CASE Restart
  <2>1. mem'.coin = 0 /\ total' = total /\ row' = row /\ sess' > sess
    BY <1>1, <1>6 DEF Restart, mem0, store
  <2>2. \A r \in Requests : req'[r].pc = "idle"
    BY <1>6 DEF Restart, idle
  <2>3. Before(row)' = row.last + row.offset /\ row'.sess <= sess' /\ sess' \in Nat
    BY <1>1, <1>4, <1>6, <2>1 DEF Restart, Before, PoolInv
  <2> QED
    BY <1>3, <1>4, <2>1, <2>2, <2>3 DEF PoolInv, Held
<1>7. ASSUME NEW r \in Requests, FetchStats(r) PROVE PoolInv'
  <2>1. UNCHANGED <<mem, row, sess, total>>
    BY <1>7 DEF FetchStats, process, store
  <2>2. /\ req'[r].pc = "last" /\ req'[r].coin = mem.coin
        /\ \A q \in Requests \ {r} : req'[q] = req[q]
    BY <1>1, <1>7 DEF FetchStats, idle, ReqType
  <2>3. Before(row)' = Before(row) /\ \A q \in Requests \ {r} : Before(req[q].row)' = Before(req[q].row)
    BY <2>1, <2>2 DEF Before
  <2> QED
    BY <2>1, <2>2, <2>3 DEF PoolInv, Held
<1>8. ASSUME NEW r \in Requests, GetLastCounters(r) PROVE PoolInv'
  <2>1. UNCHANGED <<mem, row, sess, total>>
    BY <1>8 DEF GetLastCounters, process, store
  <2>2. /\ req[r].pc = "last" /\ req'[r].pc = "peek" /\ req'[r].coin = req[r].coin /\ req'[r].row = row
        /\ \A q \in Requests \ {r} : req'[q] = req[q]
    BY <1>1, <1>8 DEF GetLastCounters, ReqType, Req
  <2>3. /\ Before(row)' = Before(row) /\ Before(req[r].row)' = Before(row)
        /\ \A q \in Requests \ {r} : Before(req[q].row)' = Before(req[q].row)
    BY <2>1, <2>2 DEF Before
  <2> QED
    BY <2>1, <2>2, <2>3 DEF PoolInv, Held
<1>9. ASSUME NEW r \in Requests, PeekRound(r) PROVE PoolInv'
  <2>1. UNCHANGED <<mem, row, sess, total>>
    BY <1>9 DEF PeekRound, process, store
  <2>2. /\ Held(r) /\ req'[r].pc = "update" /\ req'[r].coin = req[r].coin /\ req'[r].row = req[r].row
        /\ \A q \in Requests \ {r} : req'[q] = req[q]
    BY <1>1, <1>9 DEF PeekRound, ReqType, Req, Held
  <2>3. /\ Before(row)' = Before(row)
        /\ \A q \in Requests : Before(req[q].row)' = Before(req[q].row)
    BY <2>1, <2>2 DEF Before
  <2> QED
    BY <2>1, <2>2, <2>3 DEF PoolInv, Held
<1>10. ASSUME NEW r \in Requests, UpdateCounters(r) PROVE PoolInv'
  <2> DEFINE last == req[r].row
  <2>1. UNCHANGED <<mem, sess, total>> /\ Held(r) /\ req[r].pc # "idle"
    BY <1>10 DEF UpdateCounters, process, Held
  <2>2. req'[r].pc = "idle" /\ \A q \in Requests \ {r} : req'[q] = req[q]
    BY <1>1, <1>10 DEF UpdateCounters, idle, ReqType
  <2>3. last.last \in Nat /\ last.offset \in Nat /\ last.sess \in Nat
    BY <1>1 DEF ReqType, Req, Row
  <2>4. /\ row'.last = req[r].coin /\ row'.sess = sess
        /\ row'.offset = last.offset + (IF Restarted(last, req[r].coin) THEN last.last ELSE 0)
    BY <1>10 DEF UpdateCounters
  <2>5. row'.offset \in Nat /\ row'.offset <= Before(last)
    BY <1>1, <2>3, <2>4 DEF Restarted, Before
  <2>6. Before(row)' = row'.offset
    BY <1>1, <2>1, <2>4 DEF Before
  <2>7. \A q \in Requests : req'[q].pc # "idle" => q # r /\ req[q].pc # "idle"
    BY <2>2
  <2>8. \A q \in Requests : Before(last) + req[q].coin \in Nat /\ (req[q].pc # "idle" =>
          Before(last) + req[q].coin <= total.shares)
    BY <1>4, <2>1 DEF PoolInv
  <2>9. \A q \in Requests : req[q].pc # "idle" => row'.offset + req[q].coin <= total.shares
    BY <1>3, <1>4, <2>5, <2>8
  <2>10. row'.offset + mem.coin <= total.shares
    BY <1>3, <1>4, <2>1, <2>5 DEF PoolInv
  <2>11. row'.last + row'.offset <= total'.shares
    BY <1>4, <2>1, <2>4, <2>5, <2>9
  <2>12. \A q \in Requests \ {r} : Before(req[q].row)' = Before(req[q].row)
    BY <2>1, <2>2 DEF Before
  <2> QED
    BY <1>1, <2>1, <2>2, <2>4, <2>6, <2>7, <2>9, <2>10, <2>11, <2>12 DEF PoolInv, Held
<1>11. CASE UNCHANGED <<mem, row, sess, total, req>>
  BY <1>3, <1>5, <1>11
<1>12. ASSUME NEW d \in Diffs, RecordShare(d) PROVE PoolInv'
  <2>1. mem'.coin = mem.coin + 1 /\ total'.shares = total.shares + 1
    BY <1>1, <1>12 DEF RecordShare, TotalType
  <2> QED
    BY <1>5, <1>12, <2>1 DEF RecordShare, process, store, calls
<1>13. CASE BlockFound
  <2>1. mem'.coin = mem.coin /\ total'.shares = total.shares
    BY <1>1, <1>13 DEF BlockFound, TakeRound, TotalType, MemType
  <2> QED
    BY <1>3, <1>5, <1>13, <2>1 DEF BlockFound, process, store, calls
<1>14. CASE SetStore /\ UNCHANGED <<row, sess, total, req>>
  <2>1. mem'.coin = mem.coin
    BY <1>1, <1>14 DEF SetStore, MemType
  <2> QED
    BY <1>3, <1>5, <1>14, <2>1
<1>15. CASE ResetCoinStats
  <2>1. mem'.coin = 0 /\ total' = total
    BY <1>1, <1>15 DEF ResetCoinStats, MemType
  <2> QED
    BY <1>3, <1>5, <1>15, <2>1 DEF ResetCoinStats, process, store, calls
<1> QED
  BY <1>6, <1>7, <1>8, <1>9, <1>10, <1>11, <1>12, <1>13, <1>14, <1>15 DEF Next, Reconnects, Seed, Reload, ClockStep,
     FetchContext, FetchBest, FetchWorker, ListWorkers, FetchMiners, Record, TwoDays, DeleteWorker, vars, process,
     store, calls

\* What a worker is shown is one of its snapshots, or the base of this process with
\* what it has counted itself; the base is of snapshots made before it counted.
WorkerInv ==
  /\ base \in Nat \cup {-1} /\ ShotsType
  /\ snap.pc = "record" => snap.worker <= mem.worker
  /\ mem.worker <= total.shares
  /\ \A s \in shots : s.total <= total.shares
  /\ base >= 0 => base + mem.worker <= total.shares
  /\ base < 0 => \A s \in shots : s.total + mem.worker <= total.shares

LEMMA ShareBaseBound ==
  ASSUME TypeOK, WorkerInv
  PROVE  ShareBase \in Nat /\ ShareBase + mem.worker <= total.shares
<1>1. mem.worker \in Nat /\ total.shares \in Nat /\ ShotsType
  BY DEF TypeOK, MemType, TotalType, WorkerInv
<1>2. CASE base >= 0
  BY <1>1, <1>2 DEF ShareBase, WorkerInv
<1>3. CASE ~(base >= 0)
  <2>1. base < 0
    BY <1>3 DEF WorkerInv
  <2>2. total.shares - mem.worker \in Nat
    BY <1>1 DEF WorkerInv
  <2>3. \A s \in shots : s.total \in Nat
    BY <1>1 DEF ShotsType
  <2>4. \A s \in shots : s.total <= total.shares - mem.worker
    BY <1>1, <2>1, <2>3 DEF WorkerInv
  <2>5. Alltime \in Nat /\ Alltime <= total.shares - mem.worker
    BY <1>1, <2>2, <2>4, AlltimeOfShots
  <2> QED
    BY <1>1, <1>3, <2>5 DEF ShareBase
<1> QED
  BY <1>2, <1>3

LEMMA NextWorker == TypeOK /\ WorkerInv /\ [Next]_vars => WorkerInv'
<1> SUFFICES ASSUME TypeOK, WorkerInv, [Next]_vars PROVE WorkerInv'
  OBVIOUS
<1>1. MemType /\ TotalType /\ SnapType /\ MemType' /\ TotalType'
  BY NextTypeOK DEF TypeOK
<1>2. /\ mem.worker \in Nat /\ mem'.worker \in Nat /\ total.shares \in Nat /\ total'.shares \in Nat
      /\ snap.worker \in Nat /\ \A s \in shots : s.total \in Nat
  BY <1>1 DEF MemType, TotalType, SnapType, WorkerInv, ShotsType
<1>3. ShareBase \in Nat /\ ShareBase + mem.worker <= total.shares
  BY ShareBaseBound
<1>4. CASE mem'.worker = mem.worker /\ total'.shares = total.shares /\ UNCHANGED <<base, shots, snap>>
  BY <1>4 DEF WorkerInv, ShotsType
<1>5. ASSUME NEW d \in Diffs, RecordShare(d) PROVE WorkerInv'
  <2>1. mem'.worker = mem.worker + 1 /\ total'.shares = total.shares + 1
    BY <1>1, <1>5 DEF RecordShare, TotalType
  <2>2. UNCHANGED <<base, shots, snap>>
    BY <1>5 DEF RecordShare, process, store, calls
  <2>3. /\ snap'.pc = "record" => snap'.worker <= mem'.worker
        /\ mem'.worker <= total'.shares /\ base' \in Nat \cup {-1} /\ ShotsType'
        /\ base' >= 0 => base' + mem'.worker <= total'.shares
    BY <1>2, <2>1, <2>2 DEF WorkerInv, ShotsType
  <2>4. \A s \in shots' : s.total <= total'.shares
    BY <1>2, <2>1, <2>2 DEF WorkerInv
  <2>5. base' < 0 => \A s \in shots' : s.total + mem'.worker <= total'.shares
    BY <1>2, <2>1, <2>2 DEF WorkerInv
  <2> QED
    BY <2>3, <2>4, <2>5 DEF WorkerInv
<1>6. CASE Restart
  <2>1. mem'.worker = 0 /\ total' = total /\ shots' = shots /\ base' = -1 /\ snap'.pc = "idle"
    BY <1>6 DEF Restart, mem0, store
  <2> QED
    BY <1>2, <2>1 DEF WorkerInv, ShotsType
<1>7. CASE ListWorkers
  <2>1. base' = ShareBase /\ UNCHANGED <<mem, total, shots, snap>>
    BY <1>7 DEF ListWorkers
  <2> QED
    BY <1>2, <1>3, <2>1 DEF WorkerInv, ShotsType
<1>8. CASE FetchMiners
  <2>1. snap'.worker = mem.worker /\ UNCHANGED <<mem, total, shots, base>>
    BY <1>8 DEF FetchMiners, process, store
  <2> QED
    BY <1>2, <2>1 DEF WorkerInv, ShotsType
<1>9. CASE Record
  <2>1. base' = ShareBase /\ UNCHANGED <<mem, total>> /\ snap'.pc = "idle" /\ snap.worker <= mem.worker
    BY <1>1, <1>9 DEF Record, WorkerInv, SnapType
  <2>2. shots' = {s \in shots : ~s.old} \cup {[total |-> snap.worker + ShareBase, old |-> FALSE]}
    BY <1>9 DEF Record
  <2>3. snap.worker + ShareBase \in Nat /\ snap.worker + ShareBase <= total.shares
    BY <1>2, <1>3, <2>1
  <2>4. [total |-> snap.worker + ShareBase, old |-> FALSE] \in [total : Nat, old : BOOLEAN]
    BY <2>3
  <2>5. ShotsType'
    BY <2>2, <2>4 DEF WorkerInv, ShotsType
  <2>6. \A s \in shots' : s.total <= total'.shares
    BY <2>1, <2>2, <2>3 DEF WorkerInv
  <2> QED
    BY <1>2, <1>3, <2>1, <2>5, <2>6 DEF WorkerInv
<1>10. CASE TwoDays
  <2>1. UNCHANGED <<mem, total, base, snap>>
    BY <1>10 DEF TwoDays, process, calls
  <2>2. \A s \in shots' : \E o \in shots : s = [o EXCEPT !.old = TRUE]
    BY <1>10 DEF TwoDays
  <2>3. \A o \in shots : [o EXCEPT !.old = TRUE].total = o.total
                         /\ [o EXCEPT !.old = TRUE] \in [total : Nat, old : BOOLEAN]
    BY DEF WorkerInv, ShotsType
  <2>4. ShotsType' /\ \A s \in shots' : \E o \in shots : s.total = o.total
    BY <2>2, <2>3 DEF ShotsType
  <2>5. \A s \in shots' : s.total <= total.shares /\ (base < 0 => s.total + mem.worker <= total.shares)
    BY <2>4 DEF WorkerInv
  <2> QED
    BY <2>1, <2>4, <2>5 DEF WorkerInv
<1>11. CASE DeleteWorker
  BY <1>11 DEF DeleteWorker, process, calls, WorkerInv, ShotsType
<1>12. CASE BlockFound
  <2>1. mem'.worker = mem.worker /\ total'.shares = total.shares
    BY <1>1, <1>12 DEF BlockFound, TakeRound, TotalType, MemType
  <2> QED
    BY <1>4, <1>12, <2>1 DEF BlockFound, process, store, calls
<1>13. CASE SetStore /\ UNCHANGED <<total, base, shots, snap>>
  <2>1. mem'.worker = mem.worker
    BY <1>1, <1>13 DEF SetStore, MemType
  <2> QED
    BY <1>4, <1>13, <2>1
<1>14. CASE ResetCoinStats
  <2>1. mem'.worker = mem.worker
    BY <1>1, <1>14 DEF ResetCoinStats, MemType
  <2> QED
    BY <1>4, <1>14, <2>1 DEF ResetCoinStats, process, store, calls
<1>15. CASE UNCHANGED <<mem, total, base, shots, snap>>
  BY <1>4, <1>15
<1> QED
  BY <1>5, <1>6, <1>7, <1>8, <1>9, <1>10, <1>11, <1>12, <1>13, <1>14, <1>15 DEF Next, Reconnects, Seed, Reload,
     ClockStep, FetchStats, GetLastCounters, PeekRound, UpdateCounters, FetchContext, FetchBest, FetchWorker, vars,
     process, store, calls

CountInv == (~stepped => PoolInv) /\ WorkerInv

\* Neither total counts a share twice, for any number of stats requests, snapshots and
\* restarts in any order, as long as the wall clock is not set forward.
THEOREM NeverTwiceCorrect == Spec => []NeverTwice
<1>1. Init => TypeOK /\ CountInv
  <2> SUFFICES ASSUME Init PROVE CountInv
    BY InitTypeOK
  <2>1. PoolInv
    BY DEF Init, mem0, row0, idle, PoolInv, Held, Before
  <2>2. WorkerInv
    BY DEF Init, mem0, WorkerInv, ShotsType
  <2> QED
    BY <2>1, <2>2 DEF CountInv
<1>2. TypeOK /\ CountInv /\ [Next]_vars => CountInv'
  <2> SUFFICES ASSUME TypeOK, CountInv, [Next]_vars PROVE CountInv'
    OBVIOUS
  <2>1. ~stepped' => ~stepped
    BY DEF Next, RecordShare, BlockFound, Reconnects, Restart, Seed, Reload, ClockStep, ResetCoinStats,
       FetchStats, GetLastCounters, PeekRound, UpdateCounters, FetchContext, FetchBest, FetchWorker, ListWorkers,
       FetchMiners, Record, TwoDays, DeleteWorker, vars, ghosts
  <2> QED
    BY <2>1, NextPool, NextWorker DEF CountInv
<1>3. TypeOK /\ CountInv => NeverTwice
  <2> SUFFICES ASSUME TypeOK, CountInv PROVE NeverTwice
    OBVIOUS
  <2>1. /\ row.last \in Nat /\ row.offset \in Nat /\ mem.coin \in Nat /\ mem.worker \in Nat
        /\ total.shares \in Nat /\ ShotsType
    BY DEF TypeOK, Row, MemType, TotalType, CountInv, WorkerInv
  <2>2. ~stepped => PoolShown <= total.shares
    <3>1. PoolShown \in {row.last + row.offset, mem.coin}
      BY <2>1, MaxOfTwo DEF PoolShown
    <3> QED
      BY <3>1 DEF CountInv, PoolInv
  <2>3. WorkerShown <= total.shares
    <3> DEFINE S == {Alltime} \cup IF base >= 0 THEN {mem.worker + base} ELSE {}
    <3>1. Alltime \in Nat /\ Alltime <= total.shares
      BY <2>1, AlltimeOfShots DEF CountInv, WorkerInv
    <3>2. base >= 0 => mem.worker + base \in Nat /\ mem.worker + base <= total.shares
      BY <2>1 DEF CountInv, WorkerInv
    <3>3. S \in SUBSET Nat /\ S # {} /\ \A s \in S : s <= total.shares
      BY <3>1, <3>2
    <3>4. Max(S) \in S
      BY <2>1, <3>3, MaxOfBounded
    <3> QED
      BY <3>3, <3>4 DEF WorkerShown
  <2> QED
    BY <2>2, <2>3 DEF NeverTwice
<1> QED
  BY <1>1, <1>2, <1>3, NextTypeOK, PTL DEF Spec

-----------------------------------------------------------------------------(* The files of a coin app *)

Steps == {"idle", "read", "cut", "put", "answer", "docker", "reload", "check", "serve"}
Settings == [Keys -> Nat]
Task == [pc : Steps, f : Files \cup {"none"}, sets : SUBSET Keys, read : Settings, wrote : Settings, n : Nat]
Pages == {"settings", "credentials"}

FilesTypeOK ==
  /\ file \in [Files -> Settings] /\ saved \in [Files -> Settings] /\ container \in Settings
  /\ act \in [Actors -> Task]
  /\ posts \in Nat /\ runner \in Nat
  /\ crossed \in BOOLEAN /\ stayed \in BOOLEAN

\* What each handler and start writes, and where it may be.
RoleOf(a) ==
  /\ a \in Pages => /\ act[a].f # "key" /\ "pubkey" \notin act[a].sets
                    /\ act[a].pc \in Steps \ {"reload", "check", "serve"}
  /\ a = "credentials" => "node" \notin act[a].sets
  /\ a = "regenerate" => /\ act[a].pc \in {"idle", "put", "reload"}
                         /\ act[a].pc = "put" => act[a].f = "key" /\ act[a].sets = Keys
  /\ a \in Starters => /\ act[a].pc \in {"idle", "check", "read", "cut", "put", "serve"}
                       /\ AtWork(a, "key") => act[a].sets = Keys
                       /\ AtWork(a, "cfg") => act[a].sets = {"pubkey"}
                       /\ act[a].f # "env"
                       /\ act[a].pc = "serve" => act[a].f # "key"

RoleInv == \A a \in Actors : RoleOf(a)

\* A file without a race has one writer at most, who has in hand what was saved.
FilesInv ==
  \A f \in Files \ raced :
    /\ file[f] = saved[f]
    /\ \A a, b \in Actors : AtWork(a, f) /\ AtWork(b, f) => a = b
    /\ f \in cut => \E a \in Actors : At(a, "put", f)
    /\ \A a \in Actors : AtWork(a, f) => \A k \in Keys \ act[a].sets : act[a].read[k] = saved[f][k]

-----------------------------------------------------------------------------

\* PutFile, by what it makes of the file and of its writer's task.
LEMMA PutEffect ==
  ASSUME FilesTypeOK, NEW a \in Actors, NEW f \in Files, NEW pc \in Steps, NEW next \in Files \cup {"none"},
         PutFile(a, f, pc, next)
  PROVE  /\ At(a, "put", f)
         /\ file' \in [Files -> Settings] /\ saved' \in [Files -> Settings]
         /\ file'[f] = Edited(act[a])
         /\ \A k \in Keys : saved'[f][k] = IF k \in act[a].sets THEN act[a].n ELSE saved[f][k]
         /\ \A g \in Files \ {f} : file'[g] = file[g] /\ saved'[g] = saved[g]
         /\ act' \in [Actors -> Task]
         /\ act'[a].pc = pc /\ act'[a].f = next /\ act'[a].sets = act[a].sets /\ act'[a].n = act[a].n
         /\ act'[a].wrote = IF a = "settings" /\ f = "env" THEN file'[f] ELSE act[a].wrote
         /\ \A b \in Actors \ {a} : act'[b] = act[b]
<1>1. act[a] \in Task /\ file \in [Files -> Settings] /\ saved \in [Files -> Settings] /\ act \in [Actors -> Task]
  BY DEF FilesTypeOK
<1>2. Edited(act[a]) \in Settings /\ NoSettings \in Settings
  BY <1>1 DEF Edited, Task, Settings, NoSettings
<1>3. file' = [file EXCEPT ![f] = Edited(act[a])]
  BY DEF PutFile
<1>4. file' \in [Files -> Settings] /\ file'[f] = Edited(act[a]) /\ \A g \in Files \ {f} : file'[g] = file[g]
  BY <1>1, <1>2, <1>3
<1> DEFINE S == [k \in Keys |-> IF k \in act[a].sets THEN act[a].n ELSE saved[f][k]]
<1>5. S \in Settings
  BY <1>1 DEF Task, Settings
<1>6. saved' = [saved EXCEPT ![f] = S]
  BY <1>1 DEF PutFile
<1>7. saved' \in [Files -> Settings] /\ saved'[f] = S /\ \A g \in Files \ {f} : saved'[g] = saved[g]
  <2> HIDE DEF S
  <2> QED
    BY <1>1, <1>5, <1>6
<1> DEFINE T == [act[a] EXCEPT !.pc = pc, !.f = next, !.read = NoSettings,
                               !.wrote = IF a = "settings" /\ f = "env" THEN file'[f] ELSE @]
<1>8. act' = [act EXCEPT ![a] = T]
  BY <1>1 DEF PutFile
<1>9. T \in Task
  BY <1>1, <1>2, <1>4 DEF Task
<1>10. /\ T.pc = pc /\ T.f = next /\ T.sets = act[a].sets /\ T.n = act[a].n
       /\ T.wrote = IF a = "settings" /\ f = "env" THEN file'[f] ELSE act[a].wrote
  BY <1>1 DEF Task
<1>11. act' \in [Actors -> Task] /\ act'[a] = T /\ \A b \in Actors \ {a} : act'[b] = act[b]
  <2> HIDE DEF T
  <2> QED
    BY <1>1, <1>8, <1>9
<1> QED
  <2> HIDE DEF T
  <2> QED
    BY <1>4, <1>7, <1>10, <1>11 DEF PutFile

LEMMA FilesInitially == FilesInit => FilesTypeOK /\ RoleInv /\ FilesInv
<1> SUFFICES ASSUME FilesInit PROVE FilesTypeOK /\ RoleInv /\ FilesInv
  OBVIOUS
<1>1. file \in [Files -> Settings]
  BY DEF FilesInit, Files, Settings
<1>2. Idle \in Task
  BY DEF Idle, Task, Steps, Settings, NoSettings
<1>3. FilesTypeOK
  BY <1>1, <1>2 DEF FilesInit, FilesTypeOK, Settings, Files
<1>4. RoleInv /\ FilesInv
  BY <1>1 DEF FilesInit, RoleInv, RoleOf, FilesInv, Idle, AtWork, At, Pages, Starters, Actors, Steps
<1> QED
  BY <1>3, <1>4

-----------------------------------------------------------------------------
(* What a step of an actor leaves of the others' *)

\* a's task is now t, and nobody else's is another.
Now(a, t) == act'[a] = t /\ \A b \in Actors \ {a} : act'[b] = act[b]

LEMMA ActorsDiffer ==
  /\ Actors = Pages \cup {"regenerate"} \cup Starters
  /\ Pages = {"settings", "credentials"} /\ Pages \cap Starters = {}
  /\ "regenerate" \notin Pages \cup Starters
  /\ \A a, b \in Actors : \A t : a # b /\ Now(a, t) => act'[b] = act[b]
BY DEF Actors, Pages, Starters, Now

LEMMA TaskStep ==
  ASSUME FilesTypeOK, NEW a \in Actors, NEW t \in Task, act' = [act EXCEPT ![a] = t]
  PROVE  act' \in [Actors -> Task] /\ Now(a, t)
BY DEF FilesTypeOK, Now

LEMMA IdleTask == Idle \in Task /\ NoSettings \in Settings
BY DEF Idle, NoSettings, Task, Steps, Settings

LEMMA ReadType ==
  ASSUME FilesTypeOK, NEW f \in Files PROVE ReadFile(f) \in Settings /\ file[f] \in Settings
BY IdleTask DEF FilesTypeOK, ReadFile

\* Each action that changes one actor's task, by what it makes of it.
LEMMA SettingsPostEffect ==
  ASSUME FilesTypeOK, HandleSettingsPost
  PROVE  /\ act' \in [Actors -> Task] /\ act["settings"].pc = "idle" /\ posts' \in Nat
         /\ act'["settings"].pc = "read" /\ act'["settings"].f = "env" /\ "pubkey" \notin act'["settings"].sets
         /\ \A b \in Actors \ {"settings"} : act'[b] = act[b]
<1>1. PICK k \in {"pool", "node"} :
        act' = [act EXCEPT !["settings"] = [Idle EXCEPT !.pc = "read", !.f = "env", !.sets = {k}, !.n = posts']]
  BY DEF HandleSettingsPost
<1> DEFINE t == [Idle EXCEPT !.pc = "read", !.f = "env", !.sets = {k}, !.n = posts']
<1>2. posts' \in Nat
  BY DEF HandleSettingsPost, FilesTypeOK
<1>3. t \in Task /\ act' = [act EXCEPT !["settings"] = t]
  BY <1>1, <1>2, IdleTask DEF Task, Steps, Files, Keys
<1>4. act' \in [Actors -> Task] /\ Now("settings", t)
  <2> HIDE DEF t
  <2> QED
    BY <1>3, TaskStep, ActorsDiffer
<1>5. t.pc = "read" /\ t.f = "env" /\ t.sets = {k}
  BY DEF Idle
<1>6. act["settings"].pc = "idle"
  BY DEF HandleSettingsPost
<1> QED
  <2> HIDE DEF t
  <2> QED
    BY <1>2, <1>4, <1>5, <1>6 DEF Now

LEMMA CredentialsPostEffect ==
  ASSUME FilesTypeOK, HandleRPCCredentialsPost
  PROVE  /\ act' \in [Actors -> Task] /\ act["credentials"].pc = "idle"
         /\ Now("credentials", [Idle EXCEPT !.pc = "read", !.f = "env", !.sets = {"rpc"}, !.n = posts'])
<1> DEFINE t == [Idle EXCEPT !.pc = "read", !.f = "env", !.sets = {"rpc"}, !.n = posts']
<1>1. posts' \in Nat /\ act' = [act EXCEPT !["credentials"] = t]
  BY DEF HandleRPCCredentialsPost, FilesTypeOK
<1>2. t \in Task
  BY <1>1, IdleTask DEF Task, Steps, Files, Keys
<1>3. act' \in [Actors -> Task] /\ Now("credentials", t)
  <2> HIDE DEF t
  <2> QED
    BY <1>1, <1>2, TaskStep, ActorsDiffer
<1> QED
  BY <1>3 DEF HandleRPCCredentialsPost

LEMMA CutEffect ==
  ASSUME FilesTypeOK, NEW a \in Actors, NEW f \in Files, CutFile(a, f)
  PROVE  /\ At(a, "cut", f) /\ act' \in [Actors -> Task]
         /\ act'[a].pc = "put" /\ act'[a].f = act[a].f /\ act'[a].sets = act[a].sets
         /\ act'[a].read = act[a].read /\ act'[a].wrote = act[a].wrote /\ act'[a].n = act[a].n
         /\ \A b \in Actors \ {a} : act'[b] = act[b]
<1> DEFINE t == [act[a] EXCEPT !.pc = "put"]
<1>1. act' = [act EXCEPT ![a] = t] /\ t \in Task
  BY DEF CutFile, FilesTypeOK, Task, Steps
<1>2. act' \in [Actors -> Task] /\ Now(a, t)
  <2> HIDE DEF t
  <2> QED
    BY <1>1, TaskStep
<1>3. /\ t.pc = "put" /\ t.f = act[a].f /\ t.sets = act[a].sets
      /\ t.read = act[a].read /\ t.wrote = act[a].wrote /\ t.n = act[a].n
  BY DEF FilesTypeOK, Task
<1>4. At(a, "cut", f)
  BY DEF CutFile
<1> QED
  <2> HIDE DEF t
  <2> QED
    BY <1>2, <1>3, <1>4 DEF Now

LEMMA ReadEffect ==
  ASSUME FilesTypeOK, NEW a \in Actors, NEW f \in Files, ReadSettings(a, f)
  PROVE  /\ a \in Pages /\ At(a, "read", f) /\ act' \in [Actors -> Task]
         /\ act'[a].pc = "cut" /\ act'[a].f = act[a].f /\ act'[a].sets = act[a].sets
         /\ act'[a].read = ReadFile(f) /\ act'[a].wrote = act[a].wrote
         /\ \A b \in Actors \ {a} : act'[b] = act[b]
<1> DEFINE t == [act[a] EXCEPT !.pc = "cut", !.read = ReadFile(f)]
<1>1. act' = [act EXCEPT ![a] = t] /\ t \in Task
  BY ReadType DEF ReadSettings, FilesTypeOK, Task, Steps
<1>2. act' \in [Actors -> Task] /\ Now(a, t)
  <2> HIDE DEF t
  <2> QED
    BY <1>1, TaskStep
<1>3. /\ t.pc = "cut" /\ t.f = act[a].f /\ t.sets = act[a].sets
      /\ t.read = ReadFile(f) /\ t.wrote = act[a].wrote
  BY DEF FilesTypeOK, Task
<1>4. At(a, "read", f) /\ a \in Pages
  BY DEF ReadSettings, Pages
<1> QED
  <2> HIDE DEF t
  <2> QED
    BY <1>2, <1>3, <1>4 DEF Now

\* The tasks that end, by the actor whose they are.
LEMMA IdleEffect ==
  ASSUME FilesTypeOK, NEW a \in Actors, act' = [act EXCEPT ![a] = Idle]
  PROVE  act' \in [Actors -> Task] /\ Now(a, Idle)
BY IdleTask, TaskStep

LEMMA RegenerateEffect ==
  ASSUME FilesTypeOK, HandleRegenerateSV2
  PROVE  /\ act' \in [Actors -> Task] /\ act["regenerate"].pc = "idle"
         /\ Now("regenerate", [Idle EXCEPT !.pc = "put", !.f = "key", !.sets = Keys, !.n = posts'])
<1> DEFINE t == [Idle EXCEPT !.pc = "put", !.f = "key", !.sets = Keys, !.n = posts']
<1>1. posts' \in Nat /\ act' = [act EXCEPT !["regenerate"] = t]
  BY DEF HandleRegenerateSV2, FilesTypeOK
<1>2. t \in Task
  BY <1>1, IdleTask DEF Task, Steps, Files
<1>3. act' \in [Actors -> Task] /\ Now("regenerate", t)
  <2> HIDE DEF t
  <2> QED
    BY <1>1, <1>2, TaskStep, ActorsDiffer
<1> QED
  BY <1>3 DEF HandleRegenerateSV2

\* The first two tasks of a start.
Checking == [Idle EXCEPT !.pc = "check"]
Reading == [Idle EXCEPT !.pc = "read", !.f = "key"]

LEMMA StartTasks ==
  /\ Checking \in Task /\ Checking.pc = "check" /\ Checking.f = "none"
  /\ Reading \in Task /\ Reading.pc = "read" /\ Reading.f = "key"
  /\ Idle.pc = "idle" /\ Idle.f = "none"
BY IdleTask DEF Checking, Reading, Task, Steps, Files, Idle

\* StopCoin stops the runner, and the start that begins crosses another or is alone.
LEMMA StopCoinEffect ==
  ASSUME FilesTypeOK, NEW t \in Starters, NEW after \in [Actors -> Task], StopCoin(t, after)
  PROVE  /\ act' \in [Actors -> Task] /\ runner' = 0 /\ stayed' = FALSE /\ crossed' \in BOOLEAN
         /\ act[t].pc = "idle" /\ act'[t] = Checking /\ \A b \in Actors \ {t} : act'[b] = after[b]
         /\ ~crossed' => ~crossed /\ \A u \in Starters \ {t} : act[u].pc = "idle"
<1>1. act' = [after EXCEPT ![t] = Checking]
  BY DEF StopCoin, Checking
<1>2. t \in Actors /\ Checking \in Task
  BY StartTasks, ActorsDiffer
<1>3. act' \in [Actors -> Task] /\ act'[t] = Checking /\ \A b \in Actors \ {t} : act'[b] = after[b]
  BY <1>1, <1>2
<1>4. runner' = 0 /\ stayed' = FALSE /\ act[t].pc = "idle"
  BY DEF StopCoin, Starting
<1>5. crossed' = (crossed \/ \E u \in Starters \ {t} : Starting(u))
  BY DEF StopCoin
<1>6. crossed' \in BOOLEAN
  BY <1>5 DEF FilesTypeOK
<1>7. ~crossed' => ~crossed /\ \A u \in Starters \ {t} : act[u].pc = "idle"
  BY <1>5 DEF Starting
<1> QED
  BY <1>3, <1>4, <1>6, <1>7

LEMMA ReloadForKeyEffect ==
  ASSUME FilesTypeOK, ReloadForKey
  PROVE  /\ act["regenerate"].pc = "reload" /\ act' \in [Actors -> Task] /\ act'["regenerate"] = Idle
         /\ \/ /\ \A b \in Actors \ {"regenerate"} : act'[b] = act[b]
               /\ stayed' = TRUE /\ runner' = runner /\ crossed' = crossed
            \/ \E t \in Starters :
                 /\ act[t].pc = "idle" /\ act'[t] = Checking
                 /\ \A b \in Actors \ {t, "regenerate"} : act'[b] = act[b]
                 /\ runner' = 0 /\ stayed' = FALSE /\ crossed' \in BOOLEAN
                 /\ ~crossed' => ~crossed /\ \A u \in Starters \ {t} : act[u].pc = "idle"
<1> DEFINE after == [act EXCEPT !["regenerate"] = Idle]
<1>1. "regenerate" \in Actors /\ Idle \in Task /\ act \in [Actors -> Task]
  BY IdleTask, ActorsDiffer DEF FilesTypeOK
<1>2. after \in [Actors -> Task] /\ after["regenerate"] = Idle /\ \A b \in Actors \ {"regenerate"} : after[b] = act[b]
  BY <1>1
<1>3. \/ act' = after /\ stayed' = TRUE /\ runner' = runner /\ crossed' = crossed
      \/ \E t \in Starters : StopCoin(t, after)
  BY DEF ReloadForKey
<1>4. act["regenerate"].pc = "reload"
  BY DEF ReloadForKey
<1> HIDE DEF after
<1>5. CASE act' = after /\ stayed' = TRUE /\ runner' = runner /\ crossed' = crossed
  BY <1>2, <1>4, <1>5
<1>6. ASSUME NEW t \in Starters, StopCoin(t, after)
      PROVE  /\ act' \in [Actors -> Task] /\ act'["regenerate"] = Idle
             /\ act[t].pc = "idle" /\ act'[t] = Checking
             /\ \A b \in Actors \ {t, "regenerate"} : act'[b] = act[b]
             /\ runner' = 0 /\ stayed' = FALSE /\ crossed' \in BOOLEAN
             /\ ~crossed' => ~crossed /\ \A u \in Starters \ {t} : act[u].pc = "idle"
  <2>1. /\ act' \in [Actors -> Task] /\ runner' = 0 /\ stayed' = FALSE /\ crossed' \in BOOLEAN
        /\ act[t].pc = "idle" /\ act'[t] = Checking /\ \A b \in Actors \ {t} : act'[b] = after[b]
        /\ ~crossed' => ~crossed /\ \A u \in Starters \ {t} : act[u].pc = "idle"
    BY <1>2, <1>6, StopCoinEffect
  <2>2. "regenerate" # t
    BY ActorsDiffer
  <2> QED
    BY <1>1, <1>2, <2>1, <2>2
<1> QED
  BY <1>3, <1>4, <1>5, <1>6

LEMMA ReloadCoinEffect ==
  ASSUME FilesTypeOK, NEW t \in Starters, ReloadCoin(t)
  PROVE  /\ act' \in [Actors -> Task] /\ act[t].pc = "idle" /\ Now(t, Checking)
         /\ runner' = 0 /\ stayed' = FALSE /\ crossed' \in BOOLEAN
         /\ ~crossed' => ~crossed /\ \A u \in Starters \ {t} : act[u].pc = "idle"
<1>1. StopCoin(t, act) /\ act \in [Actors -> Task]
  BY DEF ReloadCoin, FilesTypeOK
<1> QED
  BY <1>1, StopCoinEffect DEF Now

LEMMA StartCoinEffect ==
  ASSUME FilesTypeOK, NEW t \in Starters, StartCoin(t)
  PROVE  /\ act' \in [Actors -> Task] /\ act[t].pc = "check"
         /\ Now(t, Idle) \/ Now(t, Reading)
<1>1. act' = [act EXCEPT ![t] = Idle] \/ act' = [act EXCEPT ![t] = Reading]
  BY DEF StartCoin, Reading
<1>2. t \in Actors
  BY ActorsDiffer
<1>3. act[t].pc = "check"
  BY DEF StartCoin
<1> QED
  BY <1>1, <1>2, <1>3, IdleTask, StartTasks, TaskStep

\* A start goes on after a write that failed if it was the page's, and nobody else does.
LEMMA FailEffect ==
  ASSUME FilesTypeOK, NEW a \in Actors, NEW f \in Files, WriteFails(a, f)
  PROVE  /\ AtWork(a, f) /\ act' \in [Actors -> Task]
         /\ \/ act'[a] = Idle
            \/ /\ a \in Starters /\ f = "cfg" /\ act'[a].pc = "serve"
               /\ act'[a].f = act[a].f /\ act'[a].n = act[a].n
         /\ \A b \in Actors \ {a} : act'[b] = act[b]
<1> DEFINE t == [act[a] EXCEPT !.pc = "serve"]
<1>1. AtWork(a, f)
  BY DEF WriteFails
<1>2. t \in Task /\ t.pc = "serve" /\ t.f = act[a].f /\ t.n = act[a].n
  BY DEF FilesTypeOK, Task, Steps
<1>3. CASE a \in Starters /\ f = "cfg"
  <2>1. act' = [act EXCEPT ![a] = t]
    BY <1>3 DEF WriteFails, FilesTypeOK
  <2>2. act' \in [Actors -> Task] /\ Now(a, t)
    <3> HIDE DEF t
    <3> QED
      BY <1>2, <2>1, TaskStep
  <2> HIDE DEF t
  <2> QED
    BY <1>1, <1>2, <1>3, <2>2 DEF Now
<1>4. CASE ~(a \in Starters /\ f = "cfg")
  <2>1. act' = [act EXCEPT ![a] = Idle]
    BY <1>4 DEF WriteFails, FilesTypeOK
  <2> QED
    BY <1>1, <2>1, IdleEffect DEF Now
<1> QED
  BY <1>3, <1>4

LEMMA LoadEffect ==
  ASSUME FilesTypeOK, NEW t \in Starters, LoadAuthorityKey(t)
  PROVE  /\ At(t, "read", "key") /\ act' \in [Actors -> Task] /\ posts' \in Nat
         /\ \/ act'[t].pc = "read" /\ act'[t].f = "cfg" /\ act'[t].n = file["key"]["pubkey"]
            \/ act'[t].pc = "cut" /\ act'[t].f = "key" /\ act'[t].sets = Keys
         /\ \A b \in Actors \ {t} : act'[b] = act[b]
<1>1. t \in Actors /\ act[t] \in Task /\ file["key"]["pubkey"] \in Nat /\ posts' \in Nat
  BY ActorsDiffer DEF FilesTypeOK, Settings, Files, Keys, LoadAuthorityKey
<1> DEFINE v == [act[t] EXCEPT !.f = "cfg", !.n = file["key"]["pubkey"], !.sets = {"pubkey"}]
           u == [act[t] EXCEPT !.pc = "cut", !.n = posts', !.sets = Keys]
<1>2. v \in Task /\ u \in Task
  BY <1>1 DEF Task, Steps, Files, Keys
<1>3. act' = [act EXCEPT ![t] = v] \/ act' = [act EXCEPT ![t] = u]
  BY <1>1 DEF LoadAuthorityKey, FilesTypeOK
<1>4. act' \in [Actors -> Task] /\ (Now(t, v) \/ Now(t, u))
  <2> HIDE DEF v, u
  <2> QED
    BY <1>1, <1>2, <1>3, TaskStep
<1>5. At(t, "read", "key")
  BY DEF LoadAuthorityKey
<1>6. /\ v.pc = "read" /\ v.f = "cfg" /\ v.n = file["key"]["pubkey"]
      /\ u.pc = "cut" /\ u.f = "key" /\ u.sets = Keys
  BY <1>1, <1>5 DEF Task, At
<1> QED
  <2> HIDE DEF v, u
  <2> QED
    BY <1>1, <1>4, <1>5, <1>6 DEF Now

LEMMA PersistEffect ==
  ASSUME FilesTypeOK, NEW t \in Starters, PersistSV2AuthPubkey(t)
  PROVE  /\ At(t, "read", "cfg") /\ act' \in [Actors -> Task]
         /\ act'[t].f = "cfg" /\ act'[t].n = act[t].n
         /\ IF "cfg" \in cut THEN act'[t].pc = "serve"
            ELSE act'[t].pc = "cut" /\ act'[t].sets = {"pubkey"} /\ act'[t].read = file["cfg"]
         /\ \A b \in Actors \ {t} : act'[b] = act[b]
<1>1. t \in Actors /\ act[t] \in Task /\ file["cfg"] \in Settings
  BY ActorsDiffer DEF FilesTypeOK, Files
<1> DEFINE v == [act[t] EXCEPT !.pc = "serve"]
           u == [act[t] EXCEPT !.pc = "cut", !.sets = {"pubkey"}, !.read = file["cfg"]]
<1>2. v \in Task /\ u \in Task
  BY <1>1 DEF Task, Steps, Files, Keys
<1>3. IF "cfg" \in cut THEN act' = [act EXCEPT ![t] = v] ELSE act' = [act EXCEPT ![t] = u]
  BY <1>1 DEF PersistSV2AuthPubkey, FilesTypeOK
<1>4. act' \in [Actors -> Task] /\ IF "cfg" \in cut THEN Now(t, v) ELSE Now(t, u)
  <2> HIDE DEF v, u
  <2> QED
    BY <1>1, <1>2, <1>3, TaskStep
<1>5. At(t, "read", "cfg")
  BY DEF PersistSV2AuthPubkey
<1>6. /\ v.f = "cfg" /\ v.n = act[t].n /\ u.f = "cfg" /\ u.n = act[t].n
      /\ v.pc = "serve" /\ u.pc = "cut" /\ u.sets = {"pubkey"} /\ u.read = file["cfg"]
  BY <1>1, <1>5 DEF Task, At
<1> QED
  <2> HIDE DEF v, u
  <2> QED
    BY <1>4, <1>5, <1>6 DEF Now

-----------------------------------------------------------------------------
(* The steps that write a file, as PutFile *)

FilePut(a) == \/ PutEnv(a) \/ PutCfg(a) \/ RegeneratePut
              \/ a \in Starters /\ (GeneratedPut(a) \/ PersistPut(a))

LEMMA PutCases ==
  ASSUME FilesTypeOK, NEW a \in Actors, FilePut(a)
  PROVE  \E b \in Actors, f \in Files, pc \in Steps, next \in Files \cup {"none"} :
           /\ PutFile(b, f, pc, next)
           /\ \/ b \in Pages /\ f = "env" /\ pc = "read" /\ next = "cfg"
              \/ b = "settings" /\ f = "cfg" /\ pc = "answer" /\ next = "none"
              \/ b = "credentials" /\ f = "cfg" /\ pc = "docker" /\ next = "none"
              \/ b = "regenerate" /\ f = "key" /\ pc = "reload" /\ next = "none"
              \/ b \in Starters /\ f = "key" /\ pc = "read" /\ next = "cfg"
              \/ b \in Starters /\ f = "cfg" /\ pc = "serve" /\ next = "none"
<1>1. CASE PutEnv(a)
  BY <1>1 DEF PutEnv, Pages, Steps, Files
<1>2. CASE PutCfg(a)
  <2>1. CASE a = "settings"
    <3>1. PutFile(a, "cfg", "answer", "none")
      BY <1>2, <2>1 DEF PutCfg
    <3> QED BY <2>1, <3>1 DEF Steps, Files
  <2>2. CASE a = "credentials"
    <3>1. PutFile(a, "cfg", "docker", "none")
      BY <1>2, <2>2 DEF PutCfg
    <3> QED BY <2>2, <3>1 DEF Steps, Files
  <2> QED
    BY <1>2, <2>1, <2>2 DEF PutCfg
<1>3. CASE RegeneratePut
  BY <1>3, ActorsDiffer DEF RegeneratePut, Steps, Files
<1>4. CASE a \in Starters /\ GeneratedPut(a)
  BY <1>4 DEF GeneratedPut, Steps, Files
<1>5. CASE a \in Starters /\ PersistPut(a)
  BY <1>5 DEF PersistPut, Steps, Files
<1> QED
  BY <1>1, <1>2, <1>3, <1>4, <1>5 DEF FilePut

\* A step writes a file, changes one task in another way, or changes none.
LEMMA FilesSteps ==
  ASSUME FilesTypeOK, FilesNext
  PROVE  \/ \E a \in Actors : FilePut(a)
         \/ \E a \in Actors, f \in Files : CutFile(a, f) \/ ReadSettings(a, f) \/ WriteFails(a, f)
         \/ HandleSettingsPost \/ HandleRPCCredentialsPost \/ Answer \/ DockerRestartContainer
         \/ HandleRegenerateSV2 \/ ReloadForKey
         \/ \E t \in Starters : \/ ReloadCoin(t) \/ StartCoin(t) \/ LoadAuthorityKey(t)
                                \/ PersistSV2AuthPubkey(t) \/ Serve(t)
         \/ Crash \/ HandleSettingsGet \/ RestartApp
<1>1. Starters \subseteq Actors /\ {"env", "cfg"} \subseteq Files /\ "regenerate" \in Actors
  BY ActorsDiffer DEF Files
<1> QED
  BY <1>1 DEF FilesNext, FilePut

LEMMA FilesTypeStep == FilesTypeOK /\ [FilesNext]_filesVars => FilesTypeOK'
<1> SUFFICES ASSUME FilesTypeOK, [FilesNext]_filesVars PROVE FilesTypeOK'
  OBVIOUS
<1>1. CASE UNCHANGED filesVars
  BY <1>1 DEF FilesTypeOK, filesVars, counters, starts
<1>2. ASSUME NEW a \in Actors, FilePut(a) PROVE FilesTypeOK'
  <2>1. PICK b \in Actors, f \in Files, pc \in Steps, next \in Files \cup {"none"} : PutFile(b, f, pc, next)
    BY <1>2, PutCases
  <2> QED
    BY <2>1, PutEffect DEF FilesTypeOK, PutFile, counters, starts
<1>3. ASSUME NEW a \in Actors, NEW f \in Files, CutFile(a, f) PROVE FilesTypeOK'
  BY <1>3, CutEffect DEF FilesTypeOK, CutFile, counters, starts
<1>4. ASSUME NEW a \in Actors, NEW f \in Files, ReadSettings(a, f) PROVE FilesTypeOK'
  BY <1>4, ReadEffect DEF FilesTypeOK, ReadSettings, counters, starts
<1>5. CASE HandleSettingsPost
  <2>1. UNCHANGED <<file, saved, container, runner, crossed, stayed>>
    BY <1>5 DEF HandleSettingsPost, starts
  <2> QED
    BY <1>5, <2>1, SettingsPostEffect DEF FilesTypeOK
<1>6. CASE HandleRPCCredentialsPost
  BY <1>6, CredentialsPostEffect DEF FilesTypeOK, HandleRPCCredentialsPost, starts
<1>7. CASE Answer
  BY <1>7, IdleEffect, ActorsDiffer DEF FilesTypeOK, Answer, counters, starts
<1>8. CASE DockerRestartContainer
  BY <1>8, IdleEffect, ActorsDiffer DEF FilesTypeOK, DockerRestartContainer, counters, starts
<1>9. CASE HandleRegenerateSV2
  BY <1>9, RegenerateEffect DEF FilesTypeOK, HandleRegenerateSV2, starts
<1>10. CASE ReloadForKey
  <2>1. UNCHANGED <<file, saved, container, posts>>
    BY <1>10 DEF ReloadForKey, counters
  <2>2. act' \in [Actors -> Task] /\ runner' \in {0, runner} /\ crossed' \in BOOLEAN /\ stayed' \in BOOLEAN
    BY <1>10, ReloadForKeyEffect DEF FilesTypeOK
  <2> QED
    BY <2>1, <2>2 DEF FilesTypeOK
<1>11. ASSUME NEW t \in Starters, ReloadCoin(t) PROVE FilesTypeOK'
  <2>1. UNCHANGED <<file, saved, container, posts>>
    BY <1>11 DEF ReloadCoin
  <2>2. act' \in [Actors -> Task] /\ runner' = 0 /\ crossed' \in BOOLEAN /\ stayed' = FALSE
    BY <1>11, ReloadCoinEffect
  <2> QED
    BY <2>1, <2>2 DEF FilesTypeOK
<1>12. ASSUME NEW t \in Starters, StartCoin(t) PROVE FilesTypeOK'
  BY <1>12, StartCoinEffect DEF FilesTypeOK, StartCoin, counters, starts
<1>13. ASSUME NEW t \in Starters, LoadAuthorityKey(t) PROVE FilesTypeOK'
  BY <1>13, LoadEffect DEF FilesTypeOK, LoadAuthorityKey, starts
<1>14. ASSUME NEW t \in Starters, PersistSV2AuthPubkey(t) PROVE FilesTypeOK'
  BY <1>14, PersistEffect DEF FilesTypeOK, PersistSV2AuthPubkey, counters, starts
<1>18. ASSUME NEW t \in Starters, Serve(t) PROVE FilesTypeOK'
  <2>1. t \in Actors /\ act[t].n \in Nat
    BY ActorsDiffer DEF FilesTypeOK, Task
  <2>2. act' \in [Actors -> Task]
    BY <1>18, <2>1, IdleEffect DEF Serve
  <2>3. runner' \in Nat
    BY <1>18, <2>1 DEF FilesTypeOK, Serve
  <2> QED
    BY <1>18, <2>2, <2>3 DEF FilesTypeOK, Serve, counters, starts
<1>19. ASSUME NEW a \in Actors, NEW f \in Files, WriteFails(a, f) PROVE FilesTypeOK'
  BY <1>19, FailEffect DEF FilesTypeOK, WriteFails, starts
<1>15. CASE Crash
  <2>1. act' \in [Actors -> Task]
    BY <1>15, IdleTask DEF Crash
  <2> QED
    BY <1>15, <2>1 DEF FilesTypeOK, Crash, starts
<1>16. CASE HandleSettingsGet
  BY <1>16 DEF FilesTypeOK, HandleSettingsGet, counters, starts
<1>17. CASE RestartApp
  BY <1>17, ReadType DEF FilesTypeOK, RestartApp, Files, starts
<1> QED
  BY <1>1, <1>2, <1>3, <1>4, <1>5, <1>6, <1>7, <1>8, <1>9, <1>10, <1>11, <1>12, <1>13, <1>14, <1>15, <1>16, <1>17,
     <1>18, <1>19, FilesSteps

\* A step of one actor keeps the others' roles; a task that ends is in everyone's.
LEMMA RoleOne ==
  ASSUME RoleInv, NEW a \in Actors, \A b \in Actors \ {a} : act'[b] = act[b], RoleOf(a)'
  PROVE  RoleInv'
<1>1. \A b \in Actors \ {a} : RoleOf(b)'
  BY DEF RoleInv, RoleOf, AtWork
<1> QED
  BY <1>1 DEF RoleInv

LEMMA RoleIdle ==
  ASSUME FilesTypeOK, NEW a \in Actors, act'[a] = Idle PROVE RoleOf(a)'
<1>1. act'[a].pc = "idle" /\ act'[a].f = "none" /\ act'[a].sets = {}
  BY DEF Idle
<1> QED
  BY <1>1 DEF RoleOf, AtWork, Steps

LEMMA RoleStep == FilesTypeOK /\ RoleInv /\ [FilesNext]_filesVars => RoleInv'
<1> SUFFICES ASSUME FilesTypeOK, RoleInv, [FilesNext]_filesVars PROVE RoleInv'
  OBVIOUS
<1>1. CASE UNCHANGED act
  BY <1>1 DEF RoleInv, RoleOf, AtWork
<1>2. ASSUME NEW a \in Actors, FilePut(a) PROVE RoleInv'
  <2>1. PICK b \in Actors, f \in Files, pc \in Steps, next \in Files \cup {"none"} :
          /\ PutFile(b, f, pc, next)
          /\ \/ b \in Pages /\ f = "env" /\ pc = "read" /\ next = "cfg"
             \/ b = "settings" /\ f = "cfg" /\ pc = "answer" /\ next = "none"
             \/ b = "credentials" /\ f = "cfg" /\ pc = "docker" /\ next = "none"
             \/ b = "regenerate" /\ f = "key" /\ pc = "reload" /\ next = "none"
             \/ b \in Starters /\ f = "key" /\ pc = "read" /\ next = "cfg"
             \/ b \in Starters /\ f = "cfg" /\ pc = "serve" /\ next = "none"
    BY <1>2, PutCases
  <2>2. /\ act'[b].pc = pc /\ act'[b].f = next /\ act'[b].sets = act[b].sets
        /\ \A c \in Actors \ {b} : act'[c] = act[c]
    BY <2>1, PutEffect
  <2>3. RoleOf(b)
    BY DEF RoleInv
  <2>7. RoleOf(b)'
    <3>1. CASE b \in Pages
      BY <2>1, <2>2, <2>3, <3>1 DEF RoleOf, Steps, Pages, Starters
    <3>2. CASE b = "regenerate"
      BY <2>1, <2>2, <3>2 DEF RoleOf, Pages, Starters
    <3>3. CASE b \in Starters
      <4>1. pc \in {"read", "serve"} /\ next \in {"cfg", "none"}
        BY <2>1, <3>3 DEF Pages, Starters
      <4> QED
        BY <2>2, <3>3, <4>1 DEF RoleOf, AtWork, Pages, Starters
    <3> QED
      BY <2>1, <3>1, <3>2, <3>3 DEF Pages
  <2> QED
    BY <2>2, <2>7, RoleOne
<1>3. ASSUME NEW a \in Actors, NEW f \in Files, CutFile(a, f) PROVE RoleInv'
  <2>1. /\ act[a].pc = "cut" /\ act'[a].pc = "put" /\ act'[a].f = act[a].f /\ act'[a].sets = act[a].sets
        /\ \A c \in Actors \ {a} : act'[c] = act[c]
    BY <1>3, CutEffect DEF At
  <2>2. RoleOf(a)'
    BY <2>1, ActorsDiffer DEF RoleInv, RoleOf, AtWork, Steps
  <2> QED
    BY <2>1, <2>2, RoleOne
<1>4. ASSUME NEW a \in Actors, NEW f \in Files, ReadSettings(a, f) PROVE RoleInv'
  <2>1. /\ a \in Pages /\ act'[a].pc = "cut" /\ act'[a].f = act[a].f /\ act'[a].sets = act[a].sets
        /\ \A c \in Actors \ {a} : act'[c] = act[c]
    BY <1>4, ReadEffect
  <2>2. RoleOf(a)'
    BY <2>1, ActorsDiffer DEF RoleInv, RoleOf, Steps
  <2> QED
    BY <2>1, <2>2, RoleOne
<1>5. CASE HandleSettingsPost
  <2>1. /\ act'["settings"].pc = "read" /\ act'["settings"].f = "env" /\ "pubkey" \notin act'["settings"].sets
        /\ \A c \in Actors \ {"settings"} : act'[c] = act[c]
    BY <1>5, SettingsPostEffect
  <2>2. "settings" \in Actors /\ RoleOf("settings")'
    BY <2>1, ActorsDiffer DEF RoleOf, Steps
  <2> QED
    BY <2>1, <2>2, RoleOne
<1>6. CASE HandleRPCCredentialsPost
  <2>1. /\ act'["credentials"].pc = "read" /\ act'["credentials"].f = "env" /\ act'["credentials"].sets = {"rpc"}
        /\ \A c \in Actors \ {"credentials"} : act'[c] = act[c]
    BY <1>6, CredentialsPostEffect DEF Now, Idle
  <2>2. "credentials" \in Actors /\ RoleOf("credentials")'
    BY <2>1, ActorsDiffer DEF RoleOf, Steps
  <2> QED
    BY <2>1, <2>2, RoleOne
<1>7. ASSUME NEW a \in Actors, act' = [act EXCEPT ![a] = Idle] PROVE RoleInv'
  <2>1. Now(a, Idle)
    BY <1>7, IdleEffect
  <2> QED
    BY <2>1, RoleIdle, RoleOne DEF Now
<1>8. CASE HandleRegenerateSV2
  <2>1. /\ act'["regenerate"].pc = "put" /\ act'["regenerate"].f = "key" /\ act'["regenerate"].sets = Keys
        /\ \A c \in Actors \ {"regenerate"} : act'[c] = act[c]
    BY <1>8, RegenerateEffect DEF Now, Idle
  <2>2. "regenerate" \in Actors /\ RoleOf("regenerate")'
    BY <2>1, ActorsDiffer DEF RoleOf
  <2> QED
    BY <2>1, <2>2, RoleOne
<1>9. CASE ReloadForKey
  <2>1. \A b \in Actors \ {"regenerate"} : act'[b] = act[b] \/ (b \in Starters /\ act'[b] = Checking)
    BY <1>9, ReloadForKeyEffect
  <2>2. RoleOf("regenerate")'
    BY <1>9, ReloadForKeyEffect, RoleIdle, ActorsDiffer
  <2>3. ASSUME NEW b \in Starters, act'[b] = Checking PROVE RoleOf(b)'
    <3>1. act'[b].pc = "check" /\ act'[b].f = "none"
      BY <2>3, StartTasks
    <3> QED
      BY <3>1, ActorsDiffer DEF RoleOf, AtWork
  <2>4. ASSUME NEW b \in Actors, act'[b] = act[b] PROVE RoleOf(b)'
    BY <2>4 DEF RoleInv, RoleOf, AtWork
  <2> QED
    BY <2>1, <2>2, <2>3, <2>4 DEF RoleInv
<1>10. ASSUME NEW t \in Starters, act'[t].pc \in {"check", "read"}, act'[t].f \in {"none", "key"},
              \A b \in Actors \ {t} : act'[b] = act[b]
       PROVE RoleInv'
  <2>1. t \in Actors /\ RoleOf(t)'
    BY <1>10, ActorsDiffer DEF RoleOf, AtWork
  <2> QED
    BY <1>10, <2>1, RoleOne
<1>11. ASSUME NEW t \in Starters, LoadAuthorityKey(t) PROVE RoleInv'
  <2>1. /\ \/ act'[t].pc = "read" /\ act'[t].f = "cfg"
           \/ act'[t].pc = "cut" /\ act'[t].f = "key" /\ act'[t].sets = Keys
        /\ \A c \in Actors \ {t} : act'[c] = act[c]
    BY <1>11, LoadEffect
  <2>2. t \in Actors /\ RoleOf(t)'
    BY <2>1, ActorsDiffer DEF RoleOf, AtWork
  <2> QED
    BY <2>1, <2>2, RoleOne
<1>12. ASSUME NEW t \in Starters, PersistSV2AuthPubkey(t) PROVE RoleInv'
  <2>1. /\ \/ act'[t].pc = "serve" /\ act'[t].f = "cfg"
           \/ act'[t].pc = "cut" /\ act'[t].f = "cfg" /\ act'[t].sets = {"pubkey"}
        /\ \A c \in Actors \ {t} : act'[c] = act[c]
    BY <1>12, PersistEffect
  <2>2. t \in Actors /\ RoleOf(t)'
    BY <2>1, ActorsDiffer DEF RoleOf, AtWork
  <2> QED
    BY <2>1, <2>2, RoleOne
<1>14. ASSUME NEW t \in Starters, Serve(t) PROVE RoleInv'
  BY <1>7, <1>14, ActorsDiffer DEF Serve
<1>15. ASSUME NEW t \in Starters, StartCoin(t) PROVE RoleInv'
  <2>1. CASE Now(t, Idle)
    BY <2>1, RoleIdle, RoleOne, ActorsDiffer DEF Now
  <2>2. CASE Now(t, Reading)
    BY <1>10, <2>2, StartTasks DEF Now
  <2> QED
    BY <1>15, <2>1, <2>2, StartCoinEffect
<1>16. ASSUME NEW t \in Starters, ReloadCoin(t) PROVE RoleInv'
  BY <1>10, <1>16, ReloadCoinEffect, StartTasks DEF Now
<1>17. ASSUME NEW a \in Actors, NEW f \in Files, WriteFails(a, f) PROVE RoleInv'
  <2>1. \A c \in Actors \ {a} : act'[c] = act[c]
    BY <1>17, FailEffect
  <2>2. CASE act'[a] = Idle
    BY <2>1, <2>2, RoleIdle, RoleOne
  <2>3. CASE a \in Starters /\ act'[a].pc = "serve" /\ act'[a].f = "cfg"
    <3>1. RoleOf(a)'
      BY <2>3, ActorsDiffer DEF RoleOf, AtWork
    <3> QED
      BY <2>1, <3>1, RoleOne
  <2> QED
    BY <1>17, <2>2, <2>3, FailEffect DEF AtWork
<1>13. CASE Crash
  BY <1>13, RoleIdle DEF Crash, RoleInv
<1> QED
  BY <1>1, <1>2, <1>3, <1>4, <1>5, <1>6, <1>7, <1>8, <1>9, <1>11, <1>12, <1>13, <1>14, <1>15, <1>16,
     <1>17, FilesSteps, ActorsDiffer DEF Answer, DockerRestartContainer, HandleSettingsGet, RestartApp, filesVars

-----------------------------------------------------------------------------
(* One writer at a time *)

\* An actor that ends no write and begins none disturbs no file.
LEMMA NoWriter ==
  ASSUME FilesInv, file' = file, saved' = saved, cut' = cut, raced \subseteq raced',
         \A a \in Actors : act'[a] = act[a] \/ (act[a].pc # "put" /\ act'[a].pc \notin {"cut", "put"})
  PROVE  FilesInv'
<1> SUFFICES ASSUME NEW g \in Files, g \notin raced'
             PROVE  /\ file'[g] = saved'[g]
                    /\ \A a, b \in Actors : AtWork(a, g)' /\ AtWork(b, g)' => a = b
                    /\ g \in cut' => \E a \in Actors : At(a, "put", g)'
                    /\ \A a \in Actors : AtWork(a, g)' => \A k \in Keys \ act'[a].sets : act'[a].read[k] = saved'[g][k]
  BY DEF FilesInv
<1>1. \A a \in Actors : AtWork(a, g)' => AtWork(a, g) /\ act'[a] = act[a]
  BY DEF AtWork
<1>2. \A a \in Actors : At(a, "put", g) => At(a, "put", g)'
  BY DEF At
<1> QED
  BY <1>1, <1>2 DEF FilesInv

\* Nobody else is at work on a file where a step of a left no race.
LEMMA Alone ==
  ASSUME FilesInv, NEW a \in Actors, NEW f \in Files, Races(a, f), f \notin raced'
  PROVE  /\ f \notin raced /\ \A b \in Actors \ {a} : ~AtWork(b, f)
         /\ file[f] = saved[f] /\ (f \in cut => At(a, "put", f))
BY DEF Races, FilesInv, AtWork, At

\* An actor that begins to write a file has all of it in hand that it does not set.
LEMMA NewWriter ==
  ASSUME FilesInv, NEW a \in Actors, NEW f \in Files, Races(a, f), UNCHANGED <<file, saved>>,
         act[a].pc \notin {"cut", "put"}, AtWork(a, f)', cut' = cut \/ (cut' = cut \cup {f} /\ act'[a].pc = "put"),
         \A b \in Actors \ {a} : act'[b] = act[b],
         f \notin raced' => \A k \in Keys \ act'[a].sets : act'[a].read[k] = saved[f][k]
  PROVE  FilesInv'
<1> SUFFICES ASSUME NEW g \in Files, g \notin raced'
             PROVE  /\ file'[g] = saved'[g]
                    /\ \A b, c \in Actors : AtWork(b, g)' /\ AtWork(c, g)' => b = c
                    /\ g \in cut' => \E b \in Actors : At(b, "put", g)'
                    /\ \A b \in Actors : AtWork(b, g)' => \A k \in Keys \ act'[b].sets : act'[b].read[k] = saved'[g][k]
  BY DEF FilesInv
<1>1. g \notin raced
  BY DEF Races
<1>2. \A b \in Actors \ {a} : AtWork(b, g)' <=> AtWork(b, g)
  BY DEF AtWork
<1>3. CASE g = f
  <2>1. (\A b \in Actors \ {a} : ~AtWork(b, g)') /\ g \notin cut
    BY <1>2, <1>3, Alone DEF At
  <2> QED
    BY <1>1, <1>3, <2>1 DEF FilesInv, AtWork, At
<1>4. CASE g # f
  <2>1. ~AtWork(a, g)' /\ (g \in cut' => g \in cut)
    BY <1>4 DEF AtWork
  <2>2. \A b \in Actors : At(b, "put", g) => At(b, "put", g)'
    BY DEF At
  <2> QED
    BY <1>1, <1>2, <2>1, <2>2 DEF FilesInv, AtWork
<1> QED
  BY <1>3, <1>4

LEMMA FilesInvPut ==
  ASSUME FilesTypeOK, FilesInv, NEW a \in Actors, NEW f \in Files, NEW next \in Files \cup {"none"},
         NEW pc \in Steps \ {"cut", "put"}, PutFile(a, f, pc, next)
  PROVE  FilesInv'
<1>0. Races(a, f) /\ cut' = cut \ {f}
  BY DEF PutFile
<1>1. /\ At(a, "put", f)
      /\ file'[f] = Edited(act[a]) /\ file' \in [Files -> Settings] /\ saved' \in [Files -> Settings]
      /\ \A k \in Keys : saved'[f][k] = IF k \in act[a].sets THEN act[a].n ELSE saved[f][k]
      /\ \A g \in Files \ {f} : file'[g] = file[g] /\ saved'[g] = saved[g]
      /\ act'[a].pc = pc /\ \A b \in Actors \ {a} : act'[b] = act[b]
  BY PutEffect
<1> SUFFICES ASSUME NEW g \in Files, g \notin raced'
             PROVE  /\ file'[g] = saved'[g]
                    /\ \A b, c \in Actors : AtWork(b, g)' /\ AtWork(c, g)' => b = c
                    /\ g \in cut' => \E b \in Actors : At(b, "put", g)'
                    /\ \A b \in Actors : AtWork(b, g)' => \A k \in Keys \ act'[b].sets : act'[b].read[k] = saved'[g][k]
  BY DEF FilesInv
<1>2. g \notin raced
  BY <1>0 DEF Races
<1>3. /\ ~AtWork(a, g)'
      /\ \A b \in Actors \ {a} : AtWork(b, g)' <=> AtWork(b, g)
  BY <1>1 DEF AtWork
<1>4. CASE g = f
  <2>1. (\A b \in Actors : ~AtWork(b, g)') /\ g \notin cut'
    BY <1>0, <1>3, <1>4, Alone
  <2>2. \A k \in Keys \ act[a].sets : act[a].read[k] = saved[f][k]
    BY <1>1, <1>2, <1>4 DEF FilesInv, AtWork, At
  <2>3. Edited(act[a]) \in Settings /\ saved'[f] \in Settings
    BY <1>1
  <2>4. \A k \in Keys : Edited(act[a])[k] = saved'[f][k]
    BY <1>1, <2>2 DEF Edited
  <2>5. Edited(act[a]) = saved'[f]
    BY <2>3, <2>4 DEF Settings
  <2> QED
    BY <1>1, <1>4, <2>1, <2>5
<1>5. CASE g # f
  <2>1. /\ file'[g] = saved'[g] /\ saved'[g] = saved[g] /\ (g \in cut' => g \in cut)
    BY <1>0, <1>1, <1>2, <1>5 DEF FilesInv
  <2>2. \A b \in Actors : At(b, "put", g) => At(b, "put", g)'
    BY <1>1, <1>5 DEF At
  <2> QED
    BY <1>1, <1>2, <1>3, <2>1, <2>2 DEF FilesInv
<1> QED
  BY <1>4, <1>5

LEMMA FilesInvCut ==
  ASSUME FilesTypeOK, FilesInv, NEW a \in Actors, NEW f \in Files, CutFile(a, f)
  PROVE  FilesInv'
<1>1. /\ At(a, "cut", f) /\ Races(a, f) /\ cut' = cut \cup {f} /\ UNCHANGED <<file, saved>>
      /\ act'[a].pc = "put" /\ act'[a].f = act[a].f /\ act'[a].sets = act[a].sets /\ act'[a].read = act[a].read
      /\ \A b \in Actors \ {a} : act'[b] = act[b]
  BY CutEffect DEF CutFile
<1>2. \A b \in Actors, g \in Files : AtWork(b, g)' <=> AtWork(b, g)
  BY <1>1 DEF AtWork, At
<1>3. \A b \in Actors, g \in Files : At(b, "put", g) => At(b, "put", g)'
  BY <1>1 DEF At
<1>4. At(a, "put", f)' /\ \A b \in Actors : act'[b].sets = act[b].sets /\ act'[b].read = act[b].read
  BY <1>1 DEF At
<1>5. raced \subseteq raced'
  BY <1>1 DEF Races
<1> QED
  BY <1>1, <1>2, <1>3, <1>4, <1>5 DEF FilesInv

LEMMA FilesInvStep == FilesTypeOK /\ RoleInv /\ FilesInv /\ [FilesNext]_filesVars => FilesInv'
<1> SUFFICES ASSUME FilesTypeOK, RoleInv, FilesInv, [FilesNext]_filesVars PROVE FilesInv'
  OBVIOUS
<1>1. CASE UNCHANGED filesVars
  BY <1>1, NoWriter DEF filesVars
<1>2. ASSUME NEW a \in Actors, FilePut(a) PROVE FilesInv'
  <2>1. PICK b \in Actors, f \in Files, pc \in Steps, next \in Files \cup {"none"} :
          PutFile(b, f, pc, next) /\ pc \notin {"cut", "put"}
    BY <1>2, PutCases
  <2> QED
    BY <2>1, FilesInvPut
<1>3. ASSUME NEW a \in Actors, NEW f \in Files, CutFile(a, f) PROVE FilesInv'
  BY <1>3, FilesInvCut
<1>4. ASSUME NEW a \in Actors, NEW f \in Files, ReadSettings(a, f) PROVE FilesInv'
  <2>1. /\ act[a].pc = "read" /\ act[a].f = f /\ act'[a].pc = "cut" /\ act'[a].f = f /\ act'[a].read = ReadFile(f)
        /\ \A b \in Actors \ {a} : act'[b] = act[b]
    BY <1>4, ReadEffect DEF At
  <2>2. Races(a, f) /\ UNCHANGED <<file, saved, cut>>
    BY <1>4 DEF ReadSettings
  <2>3. f \notin raced' => ReadFile(f) = saved[f]
    BY <2>1, <2>2, Alone DEF At, ReadFile
  <2>4. AtWork(a, f)'
    BY <2>1 DEF AtWork
  <2> QED
    BY <2>1, <2>2, <2>3, <2>4, NewWriter
<1>5. CASE HandleSettingsPost
  <2>1. UNCHANGED <<file, saved, cut, raced>>
    BY <1>5 DEF HandleSettingsPost
  <2> QED
    BY <1>5, <2>1, SettingsPostEffect, NoWriter
<1>6. CASE HandleRPCCredentialsPost
  <2>1. UNCHANGED <<file, saved, cut, raced>>
    BY <1>6 DEF HandleRPCCredentialsPost
  <2>2. act["credentials"].pc = "idle" /\ act'["credentials"].pc = "read" /\ \A b \in Actors \ {"credentials"} : act'[b] = act[b]
    BY <1>6, CredentialsPostEffect DEF Now, Idle
  <2> QED
    BY <2>1, <2>2, NoWriter
<1>7. ASSUME NEW a \in Actors, act[a].pc # "put", act' = [act EXCEPT ![a] = Idle], UNCHANGED <<file, saved, cut, raced>>
      PROVE FilesInv'
  <2>1. act'[a].pc = "idle" /\ \A b \in Actors \ {a} : act'[b] = act[b]
    BY <1>7, IdleEffect, StartTasks DEF Now
  <2> QED
    BY <1>7, <2>1, NoWriter
<1>8. CASE HandleRegenerateSV2
  <2>1. /\ act["regenerate"].pc = "idle" /\ act'["regenerate"].pc = "put" /\ act'["regenerate"].f = "key"
        /\ act'["regenerate"].sets = Keys /\ \A b \in Actors \ {"regenerate"} : act'[b] = act[b]
    BY <1>8, RegenerateEffect DEF Now, Idle
  <2>2. Races("regenerate", "key") /\ UNCHANGED <<file, saved>> /\ cut' = cut \cup {"key"}
    BY <1>8 DEF HandleRegenerateSV2
  <2>3. AtWork("regenerate", "key")' /\ "key" \in Files
    BY <2>1 DEF AtWork, Files
  <2> QED
    BY <2>1, <2>2, <2>3, NewWriter, ActorsDiffer
<1>9. CASE ReloadForKey
  <2>1. UNCHANGED <<file, saved, cut, raced>>
    BY <1>9 DEF ReloadForKey
  <2>2. act["regenerate"].pc = "reload" /\ act'["regenerate"].pc = "idle"
    BY <1>9, ReloadForKeyEffect, StartTasks
  <2>3. \A b \in Actors \ {"regenerate"} :
          act'[b] = act[b] \/ (act[b].pc = "idle" /\ act'[b].pc = "check")
    BY <1>9, ReloadForKeyEffect, StartTasks
  <2>4. \A a \in Actors : act'[a] = act[a] \/ (act[a].pc # "put" /\ act'[a].pc \notin {"cut", "put"})
    BY <2>2, <2>3
  <2> QED
    BY <2>1, <2>4, NoWriter
<1>10. ASSUME NEW t \in Starters, ReloadCoin(t) PROVE FilesInv'
  <2>1. UNCHANGED <<file, saved, cut, raced>>
    BY <1>10 DEF ReloadCoin
  <2> QED
    BY <1>10, <2>1, ReloadCoinEffect, StartTasks, NoWriter DEF Now
<1>11. ASSUME NEW t \in Starters, LoadAuthorityKey(t) PROVE FilesInv'
  <2>1. Races(t, "key") /\ UNCHANGED <<file, saved, cut>> /\ act[t].pc = "read"
    BY <1>11 DEF LoadAuthorityKey, At
  <2>2. raced \subseteq raced'
    BY <2>1 DEF Races
  <2>3. \A b \in Actors \ {t} : act'[b] = act[b]
    BY <1>11, LoadEffect
  <2>4. CASE act'[t].pc = "read"
    BY <2>1, <2>2, <2>3, <2>4, NoWriter
  <2>5. CASE act'[t].pc = "cut" /\ act'[t].f = "key" /\ act'[t].sets = Keys
    <3>1. AtWork(t, "key")' /\ "key" \in Files /\ t \in Actors
      BY <2>5, ActorsDiffer DEF AtWork, Files
    <3> QED
      BY <2>1, <2>3, <2>5, <3>1, NewWriter
  <2> QED
    BY <1>11, <2>4, <2>5, LoadEffect
<1>12. ASSUME NEW t \in Starters, PersistSV2AuthPubkey(t) PROVE FilesInv'
  <2>1. Races(t, "cfg") /\ UNCHANGED <<file, saved, cut>> /\ act[t].pc = "read"
    BY <1>12 DEF PersistSV2AuthPubkey, At
  <2>2. raced \subseteq raced'
    BY <2>1 DEF Races
  <2>3. \A b \in Actors \ {t} : act'[b] = act[b]
    BY <1>12, PersistEffect
  <2>4. CASE act'[t].pc = "serve"
    BY <2>1, <2>2, <2>3, <2>4, NoWriter
  <2>5. CASE act'[t].pc = "cut" /\ act'[t].f = "cfg" /\ act'[t].read = file["cfg"]
    <3>1. AtWork(t, "cfg")' /\ "cfg" \in Files /\ t \in Actors
      BY <2>5, ActorsDiffer DEF AtWork, Files
    <3>2. "cfg" \notin raced' => file["cfg"] = saved["cfg"]
      BY <2>1, <3>1, Alone
    <3> QED
      BY <2>1, <2>3, <2>5, <3>1, <3>2, NewWriter
  <2> QED
    BY <1>12, <2>4, <2>5, PersistEffect
<1>19. ASSUME NEW t \in Starters, StartCoin(t) PROVE FilesInv'
  <2>1. UNCHANGED <<file, saved, cut, raced>>
    BY <1>19 DEF StartCoin
  <2>2. act[t].pc = "check" /\ act'[t].pc \in {"idle", "read"} /\ \A b \in Actors \ {t} : act'[b] = act[b]
    BY <1>19, StartCoinEffect, StartTasks DEF Now
  <2> QED
    BY <2>1, <2>2, NoWriter
<1>20. ASSUME NEW a \in Actors, NEW f \in Files, WriteFails(a, f) PROVE FilesInv'
  <2>1. /\ UNCHANGED <<file, saved, cut>> /\ raced' = raced \cup {f}
        /\ act[a].f = f /\ act'[a].pc \notin {"cut", "put"} /\ \A b \in Actors \ {a} : act'[b] = act[b]
    BY <1>20, FailEffect, StartTasks DEF WriteFails, AtWork
  <2>2. \A b \in Actors, g \in Files : AtWork(b, g)' => AtWork(b, g) /\ act'[b] = act[b]
    BY <2>1 DEF AtWork
  <2>3. \A b \in Actors, g \in Files \ {f} : At(b, "put", g) => At(b, "put", g)'
    BY <2>1 DEF At
  <2> QED
    BY <2>1, <2>2, <2>3 DEF FilesInv
<1>13. CASE Crash
  <2>1. /\ \A a \in Actors : act'[a] = Idle
        /\ UNCHANGED <<file, saved, cut>> /\ raced' = raced \cup {f \in Files : \E a \in Actors : AtWork(a, f)}
    BY <1>13 DEF Crash
  <2>2. \A a \in Actors, g \in Files : ~AtWork(a, g)'
    BY <2>1, StartTasks DEF AtWork
  <2>3. \A g \in Files \ raced' : g \notin raced /\ g \notin cut
    BY <2>1 DEF FilesInv, AtWork, At
  <2> QED
    BY <2>1, <2>2, <2>3 DEF FilesInv
<1>14. CASE HandleSettingsGet
  <2>1. UNCHANGED <<file, saved, cut, act>> /\ raced \subseteq raced'
    BY <1>14 DEF HandleSettingsGet
  <2> QED
    BY <2>1, NoWriter
<1>15. CASE RestartApp
  <2>1. UNCHANGED <<file, saved, cut, act>> /\ raced \subseteq raced'
    BY <1>15 DEF RestartApp
  <2> QED
    BY <2>1, NoWriter
<1>16. CASE Answer
  BY <1>7, <1>16, ActorsDiffer DEF Answer
<1>17. CASE DockerRestartContainer
  BY <1>7, <1>17, ActorsDiffer DEF DockerRestartContainer
<1>18. ASSUME NEW t \in Starters, Serve(t) PROVE FilesInv'
  BY <1>7, <1>18, ActorsDiffer DEF Serve
<1> QED
  BY <1>1, <1>2, <1>3, <1>4, <1>5, <1>6, <1>8, <1>9, <1>10, <1>11, <1>12, <1>13, <1>14, <1>15, <1>16, <1>17, <1>18,
     <1>19, <1>20, FilesSteps

-----------------------------------------------------------------------------
(* The authority key and the restart of the node *)

\* A start has its key: it has read the one on disk, or has written it there.
HasKey(t) == act[t].pc = "serve" \/ (act[t].pc \in {"read", "cut", "put"} /\ act[t].f = "cfg")

\* One start at a time, with no runner meanwhile.
OneStart ==
  \A t \in Starters : act[t].pc # "idle" => runner = 0 /\ \A u \in Starters \ {t} : act[u].pc = "idle"

\* The key on disk is the one that is served, or a request is about to reload the coin,
\* or has failed to; a start that has its key has that one.
KeyKept ==
  "key" \notin raced /\ act["regenerate"].pc # "reload" /\ ~stayed =>
    /\ runner # 0 => runner = file["key"]["pubkey"]
    /\ \A t \in Starters : HasKey(t) => act[t].n = file["key"]["pubkey"]

\* It is in the configuration before the server runs.
PageKept ==
  "cfg" \notin raced =>
    /\ runner # 0 => runner = saved["cfg"]["pubkey"]
    /\ \A t \in Starters : act[t].pc = "serve" => act[t].n = saved["cfg"]["pubkey"]

KeyInv == ~crossed => OneStart /\ KeyKept /\ PageKept

\* "Applied" stands until the next settings request; what that wrote to the .env is
\* what it answers about, whoever has written there since.
RestartInv ==
  /\ act["settings"].pc # "idle" => told = "unanswered"
  /\ "env" \notin raced =>
       /\ act["settings"].f = "cfg" \/ act["settings"].pc = "answer" => act["settings"].wrote["node"] = saved["env"]["node"]
       /\ told = "applied" => container["node"] = saved["env"]["node"]

LEMMA RacedGrows ==
  ASSUME NEW a, NEW f, Races(a, f) PROVE raced \subseteq raced'
BY DEF Races

\* A step that leaves the key, the page's key and the runner alone, and gives no start a
\* key, nor lets it serve.
LEMMA KeySame ==
  ASSUME KeyInv, file'["key"] = file["key"], saved'["cfg"]["pubkey"] = saved["cfg"]["pubkey"],
         UNCHANGED <<runner, crossed, stayed>>, raced \subseteq raced',
         act["regenerate"].pc = "reload" => act'["regenerate"].pc = "reload",
         \A t \in Starters : /\ act'[t].pc # "idle" => act[t].pc # "idle"
                             /\ HasKey(t)' => HasKey(t) /\ act'[t].n = act[t].n
                             /\ act'[t].pc = "serve" => act[t].pc = "serve"
  PROVE  KeyInv'
<1> SUFFICES ASSUME ~crossed' PROVE (OneStart /\ KeyKept /\ PageKept)'
  BY DEF KeyInv
<1>1. OneStart /\ KeyKept /\ PageKept
  BY DEF KeyInv
<1>2. OneStart'
  BY <1>1 DEF OneStart
<1>3. KeyKept'
  BY <1>1 DEF KeyKept
<1>4. PageKept'
  <2>1. \A t \in Starters : act'[t].pc = "serve" => act'[t].n = act[t].n
    BY DEF HasKey
  <2> QED
    BY <1>1, <2>1 DEF PageKept
<1> QED
  BY <1>2, <1>3, <1>4

\* With the runner stopped and one start at its beginning nothing is left to keep.
LEMMA KeyStopped ==
  ASSUME NEW t \in Starters, runner' = 0, act'[t] \in {Checking, Idle},
         ~crossed' => \A u \in Starters \ {t} : act'[u].pc = "idle"
  PROVE  KeyInv'
<1>1. act'[t].pc \in {"check", "idle"}
  BY StartTasks
<1> SUFFICES ASSUME ~crossed' PROVE (OneStart /\ KeyKept /\ PageKept)'
  BY DEF KeyInv
<1>2. \A u \in Starters : act'[u].pc \in {"check", "idle"} /\ ~HasKey(u)'
  BY <1>1 DEF HasKey
<1>3. OneStart'
  BY DEF OneStart
<1>4. KeyKept' /\ PageKept'
  BY <1>2 DEF KeyKept, PageKept
<1> QED
  BY <1>3, <1>4

LEMMA KeyPut ==
  ASSUME FilesTypeOK, RoleInv, FilesInv, KeyInv, NEW a \in Actors, FilePut(a)
  PROVE  KeyInv'
<1>1. PICK b \in Actors, f \in Files, pc \in Steps, next \in Files \cup {"none"} :
        /\ PutFile(b, f, pc, next)
        /\ \/ b \in Pages /\ f = "env" /\ pc = "read" /\ next = "cfg"
           \/ b = "settings" /\ f = "cfg" /\ pc = "answer" /\ next = "none"
           \/ b = "credentials" /\ f = "cfg" /\ pc = "docker" /\ next = "none"
           \/ b = "regenerate" /\ f = "key" /\ pc = "reload" /\ next = "none"
           \/ b \in Starters /\ f = "key" /\ pc = "read" /\ next = "cfg"
           \/ b \in Starters /\ f = "cfg" /\ pc = "serve" /\ next = "none"
  BY PutCases
<1>2. /\ At(b, "put", f)
      /\ file'[f] = Edited(act[b])
      /\ \A k \in Keys : saved'[f][k] = IF k \in act[b].sets THEN act[b].n ELSE saved[f][k]
      /\ \A g \in Files \ {f} : file'[g] = file[g] /\ saved'[g] = saved[g]
      /\ act'[b].pc = pc /\ act'[b].f = next /\ act'[b].n = act[b].n
      /\ \A c \in Actors \ {b} : act'[c] = act[c]
  BY <1>1, PutEffect
<1>3. UNCHANGED <<runner, crossed, stayed>> /\ raced \subseteq raced'
  BY <1>1, RacedGrows DEF PutFile, starts
<1>4. "pubkey" \in Keys /\ Files = {"env", "cfg", "key"}
  BY DEF Keys, Files
<1>5. CASE b \in Pages
  <2>1. act'["regenerate"] = act["regenerate"] /\ \A t \in Starters : act'[t] = act[t]
    BY <1>2, <1>5, ActorsDiffer
  <2>2. "pubkey" \notin act[b].sets /\ f # "key"
    BY <1>1, <1>5, ActorsDiffer DEF RoleInv, RoleOf
  <2>3. file'["key"] = file["key"] /\ saved'["cfg"]["pubkey"] = saved["cfg"]["pubkey"]
    BY <1>2, <1>4, <2>2
  <2>4. \A t \in Starters : HasKey(t)' => HasKey(t)
    BY <2>1 DEF HasKey
  <2> QED
    BY <1>3, <2>1, <2>3, <2>4, KeySame
<1> SUFFICES ASSUME ~crossed' PROVE (OneStart /\ KeyKept /\ PageKept)'
  BY DEF KeyInv
<1>6. OneStart /\ KeyKept /\ PageKept
  BY <1>3 DEF KeyInv
<1>7. CASE b = "regenerate"
  <2>1. f = "key" /\ act'["regenerate"].pc = "reload" /\ \A t \in Starters : act'[t] = act[t]
    BY <1>1, <1>2, <1>7, ActorsDiffer
  <2>2. saved'["cfg"] = saved["cfg"]
    BY <1>2, <1>4, <2>1
  <2>3. OneStart' /\ PageKept'
    BY <1>3, <1>6, <2>1, <2>2 DEF OneStart, PageKept
  <2>4. KeyKept'
    BY <2>1 DEF KeyKept
  <2> QED
    BY <2>3, <2>4
<1>8. CASE b \in Starters
  <2>1. /\ runner = 0 /\ act[b].pc = "put" /\ act[b].f = f /\ act'["regenerate"] = act["regenerate"]
        /\ \A u \in Starters \ {b} : act'[u] = act[u] /\ act[u].pc = "idle"
    BY <1>2, <1>6, <1>8, ActorsDiffer DEF OneStart, At
  <2>2. OneStart' /\ \A u \in Starters \ {b} : ~HasKey(u)' /\ act'[u].pc # "serve"
    BY <1>3, <2>1 DEF OneStart, HasKey
  <2>3. CASE f = "key"
    <3>1. act[b].sets = Keys
      BY <1>8, <2>1, <2>3 DEF RoleInv, RoleOf, AtWork
    <3>2. file'["key"]["pubkey"] = act[b].n
      BY <1>2, <1>4, <2>3, <3>1 DEF Edited
    <3>3. act'[b].n = file'["key"]["pubkey"] /\ act'[b].pc = "read"
      BY <1>1, <1>2, <1>8, <2>3, <3>2, ActorsDiffer
    <3> QED
      BY <1>3, <2>1, <2>2, <3>3 DEF KeyKept, PageKept
  <2>4. CASE f = "cfg"
    <3>1. act[b].sets = {"pubkey"} /\ HasKey(b)
      BY <1>8, <2>1, <2>4 DEF RoleInv, RoleOf, AtWork, HasKey
    <3>2. saved'["cfg"]["pubkey"] = act[b].n /\ file'["key"] = file["key"]
      BY <1>2, <1>4, <2>4, <3>1
    <3>3. act'[b].n = act[b].n
      BY <1>2
    <3>4. KeyKept'
      BY <1>3, <1>6, <1>8, <2>1, <2>2, <3>1, <3>2, <3>3 DEF KeyKept
    <3>5. PageKept'
      BY <1>3, <2>1, <2>2, <3>2, <3>3 DEF PageKept
    <3> QED
      BY <2>2, <3>4, <3>5
  <2> QED
    BY <1>1, <1>8, <2>3, <2>4, ActorsDiffer
<1> QED
  BY <1>1, <1>5, <1>7, <1>8 DEF Pages, KeyInv

LEMMA KeyServe ==
  ASSUME FilesTypeOK, KeyInv, NEW t \in Starters, Serve(t)
  PROVE  KeyInv'
<1>1. UNCHANGED <<file, saved, raced, crossed, stayed>> /\ runner' \in {runner, 0, act[t].n} /\ act[t].pc = "serve"
  BY DEF Serve, starts
<1>2. act'[t].pc = "idle" /\ \A b \in Actors \ {t} : act'[b] = act[b]
  BY IdleEffect, StartTasks, ActorsDiffer DEF Serve, Now
<1> SUFFICES ASSUME ~crossed' PROVE (OneStart /\ KeyKept /\ PageKept)'
  BY DEF KeyInv
<1>3. OneStart /\ KeyKept /\ PageKept
  BY <1>1 DEF KeyInv
<1>4. runner = 0 /\ act'["regenerate"] = act["regenerate"] /\ \A u \in Starters : act'[u].pc = "idle"
  BY <1>1, <1>2, <1>3, ActorsDiffer DEF OneStart
<1>5. \A u \in Starters : ~HasKey(u)'
  BY <1>4 DEF HasKey
<1>6. runner' \in {0, act[t].n} /\ HasKey(t)
  BY <1>1, <1>4 DEF HasKey
<1>7. OneStart'
  BY <1>4 DEF OneStart
<1>8. KeyKept'
  BY <1>1, <1>3, <1>4, <1>5, <1>6 DEF KeyKept
<1>9. PageKept'
  BY <1>1, <1>3, <1>4, <1>6 DEF PageKept
<1> QED
  BY <1>7, <1>8, <1>9

LEMMA KeyLoad ==
  ASSUME FilesTypeOK, KeyInv, NEW t \in Starters, LoadAuthorityKey(t)
  PROVE  KeyInv'
<1>1. UNCHANGED <<file, saved, runner, crossed, stayed>> /\ raced \subseteq raced' /\ act[t].pc = "read" /\ act[t].f = "key"
  BY RacedGrows DEF LoadAuthorityKey, At, starts
<1>2. /\ \/ act'[t].pc = "read" /\ act'[t].f = "cfg" /\ act'[t].n = file["key"]["pubkey"]
         \/ act'[t].pc = "cut" /\ act'[t].f = "key"
      /\ \A b \in Actors \ {t} : act'[b] = act[b]
  BY LoadEffect
<1>3. act'["regenerate"] = act["regenerate"] /\ \A u \in Starters \ {t} : act'[u] = act[u]
  BY <1>2, ActorsDiffer
<1>4. \A u \in Starters \ {t} : HasKey(u)' => HasKey(u)
  BY <1>3 DEF HasKey
<1> SUFFICES ASSUME ~crossed' PROVE (OneStart /\ KeyKept /\ PageKept)'
  BY DEF KeyInv
<1>5. OneStart /\ KeyKept /\ PageKept
  BY <1>1 DEF KeyInv
<1>6. OneStart'
  BY <1>1, <1>2, <1>3, <1>5 DEF OneStart
<1>7. HasKey(t)' => act'[t].n = file["key"]["pubkey"]
  BY <1>2 DEF HasKey
<1>8. KeyKept'
  BY <1>1, <1>3, <1>4, <1>5, <1>7 DEF KeyKept
<1>9. PageKept'
  BY <1>1, <1>2, <1>3, <1>5 DEF PageKept
<1> QED
  BY <1>6, <1>8, <1>9

LEMMA KeyPersist ==
  ASSUME FilesTypeOK, FilesInv, KeyInv, NEW t \in Starters, PersistSV2AuthPubkey(t)
  PROVE  KeyInv'
<1>1. /\ UNCHANGED <<file, saved, runner, cut, crossed, stayed>> /\ raced \subseteq raced' /\ Races(t, "cfg")
      /\ act[t].pc = "read" /\ act[t].f = "cfg"
  BY RacedGrows DEF PersistSV2AuthPubkey, At, starts
<1>2. /\ act'[t].f = "cfg" /\ act'[t].n = act[t].n /\ act'[t].pc \in {"serve", "cut"}
      /\ act'[t].pc = "serve" => "cfg" \in cut
      /\ \A b \in Actors \ {t} : act'[b] = act[b]
  BY PersistEffect
<1>3. act'["regenerate"] = act["regenerate"] /\ \A u \in Starters \ {t} : act'[u] = act[u]
  BY <1>2, ActorsDiffer
<1>4. HasKey(t) /\ \A u \in Starters \ {t} : HasKey(u)' => HasKey(u)
  BY <1>1, <1>3 DEF HasKey
<1>5. "cfg" \notin raced' => act'[t].pc # "serve"
  BY <1>1, <1>2, Alone, ActorsDiffer DEF At, Files
<1> SUFFICES ASSUME ~crossed' PROVE (OneStart /\ KeyKept /\ PageKept)'
  BY DEF KeyInv
<1>6. OneStart /\ KeyKept /\ PageKept
  BY <1>1 DEF KeyInv
<1>7. OneStart'
  BY <1>1, <1>3, <1>6 DEF OneStart
<1>8. KeyKept'
  BY <1>1, <1>2, <1>3, <1>4, <1>6 DEF KeyKept
<1>9. PageKept'
  BY <1>1, <1>3, <1>5, <1>6 DEF PageKept
<1> QED
  BY <1>7, <1>8, <1>9

LEMMA KeyFails ==
  ASSUME FilesTypeOK, RoleInv, KeyInv, NEW a \in Actors, NEW f \in Files, WriteFails(a, f)
  PROVE  KeyInv'
<1>1. UNCHANGED <<file, saved, runner, crossed, stayed>> /\ raced' = raced \cup {f}
  BY DEF WriteFails, starts
<1>2. /\ act[a].f = f /\ act[a].pc \in {"cut", "put"} /\ \A b \in Actors \ {a} : act'[b] = act[b]
  BY FailEffect DEF AtWork
<1>3. CASE act'[a] = Idle
  <2>1. act'[a].pc = "idle"
    BY <1>3, StartTasks
  <2>2. \A t \in Starters : act'[t] = act[t] \/ act'[t].pc = "idle"
    BY <1>2, <2>1, ActorsDiffer
  <2>3. \A t \in Starters : HasKey(t)' => HasKey(t) /\ act'[t] = act[t]
    BY <2>2 DEF HasKey
  <2>4. act["regenerate"].pc = "reload" => act'["regenerate"].pc = "reload"
    BY <1>2, ActorsDiffer
  <2> QED
    BY <1>1, <2>2, <2>3, <2>4, KeySame
<1>4. CASE a \in Starters /\ f = "cfg" /\ act'[a].pc = "serve" /\ act'[a].n = act[a].n
  <2>1. act'["regenerate"] = act["regenerate"] /\ \A u \in Starters \ {a} : act'[u] = act[u]
    BY <1>2, <1>4, ActorsDiffer
  <2>2. HasKey(a) /\ \A u \in Starters \ {a} : HasKey(u)' => HasKey(u)
    BY <1>2, <1>4, <2>1 DEF HasKey
  <2> SUFFICES ASSUME ~crossed' PROVE (OneStart /\ KeyKept /\ PageKept)'
    BY DEF KeyInv
  <2>3. OneStart /\ KeyKept /\ PageKept
    BY <1>1 DEF KeyInv
  <2>4. OneStart'
    BY <1>1, <1>2, <1>4, <2>1, <2>3 DEF OneStart
  <2>5. KeyKept'
    BY <1>1, <1>4, <2>1, <2>2, <2>3 DEF KeyKept
  <2>6. PageKept'
    BY <1>1, <1>4 DEF PageKept
  <2> QED
    BY <2>4, <2>5, <2>6
<1> QED
  BY <1>3, <1>4, FailEffect

LEMMA KeyStep == FilesTypeOK /\ RoleInv /\ FilesInv /\ KeyInv /\ [FilesNext]_filesVars => KeyInv'
<1> SUFFICES ASSUME FilesTypeOK, RoleInv, FilesInv, KeyInv, [FilesNext]_filesVars PROVE KeyInv'
  OBVIOUS
\* A step that leaves the key, the starts and the runner alone.
<1>0. ASSUME UNCHANGED <<file, saved, runner, crossed, stayed>>, raced \subseteq raced',
             \A t \in Starters : act'[t] = act[t],
             act["regenerate"].pc = "reload" => act'["regenerate"].pc = "reload"
      PROVE  KeyInv'
  <2>1. \A t \in Starters : HasKey(t)' => HasKey(t)
    BY <1>0 DEF HasKey
  <2> QED
    BY <1>0, <2>1, KeySame
<1>1. CASE UNCHANGED filesVars
  BY <1>0, <1>1 DEF filesVars, starts
<1>2. ASSUME NEW a \in Actors, FilePut(a) PROVE KeyInv'
  BY <1>2, KeyPut
<1>3. ASSUME NEW a \in Actors, NEW f \in Files, CutFile(a, f) PROVE KeyInv'
  <2>1. UNCHANGED <<file, saved, runner, crossed, stayed>> /\ raced \subseteq raced'
    BY <1>3, RacedGrows DEF CutFile, starts
  <2>2. /\ act[a].pc = "cut" /\ act'[a].pc = "put" /\ act'[a].f = act[a].f /\ act'[a].n = act[a].n
        /\ \A b \in Actors \ {a} : act'[b] = act[b]
    BY <1>3, CutEffect DEF At
  <2>3. \A t \in Starters : t \in Actors /\ (HasKey(t)' => HasKey(t))
    BY <2>2, ActorsDiffer DEF HasKey
  <2>4. \A t \in Starters : /\ act'[t].n = act[t].n /\ (act'[t].pc # "idle" => act[t].pc # "idle")
                            /\ (act'[t].pc = "serve" => act[t].pc = "serve")
    BY <2>2, <2>3
  <2>5. act["regenerate"].pc = "reload" => act'["regenerate"].pc = "reload"
    BY <2>2, ActorsDiffer
  <2> QED
    BY <2>1, <2>3, <2>4, <2>5, KeySame
<1>4. ASSUME NEW a \in Actors, NEW f \in Files, ReadSettings(a, f) PROVE KeyInv'
  <2>1. UNCHANGED <<file, saved, runner, crossed, stayed>> /\ raced \subseteq raced'
    BY <1>4, RacedGrows DEF ReadSettings, starts
  <2>2. act'["regenerate"] = act["regenerate"] /\ \A t \in Starters : act'[t] = act[t]
    BY <1>4, ReadEffect, ActorsDiffer
  <2> QED
    BY <1>0, <2>1, <2>2
<1>5. CASE HandleSettingsPost
  <2>1. UNCHANGED <<file, saved, runner, raced, crossed, stayed>>
    BY <1>5 DEF HandleSettingsPost, starts
  <2> QED
    BY <1>0, <1>5, <2>1, SettingsPostEffect, ActorsDiffer
<1>6. CASE HandleRPCCredentialsPost
  <2>1. UNCHANGED <<file, saved, runner, raced, crossed, stayed>>
    BY <1>6 DEF HandleRPCCredentialsPost, starts
  <2>2. act'["regenerate"] = act["regenerate"] /\ \A t \in Starters : act'[t] = act[t]
    BY <1>6, CredentialsPostEffect, ActorsDiffer DEF Now
  <2> QED
    BY <1>0, <2>1, <2>2
<1>7. CASE HandleRegenerateSV2
  <2>1. UNCHANGED <<file, saved, runner, crossed, stayed>> /\ raced \subseteq raced'
    BY <1>7, RacedGrows DEF HandleRegenerateSV2, starts
  <2>2. act["regenerate"].pc = "idle" /\ \A b \in Actors \ {"regenerate"} : act'[b] = act[b]
    BY <1>7, RegenerateEffect DEF Now
  <2> QED
    BY <1>0, <2>1, <2>2, ActorsDiffer
<1>8. CASE ReloadForKey
  <2>1. UNCHANGED <<file, saved, raced>>
    BY <1>8 DEF ReloadForKey
  <2>2. CASE /\ \A b \in Actors \ {"regenerate"} : act'[b] = act[b]
             /\ stayed' = TRUE /\ runner' = runner /\ crossed' = crossed
    <3>1. \A t \in Starters : act'[t] = act[t]
      BY <2>2, ActorsDiffer
    <3> SUFFICES ASSUME ~crossed' PROVE (OneStart /\ KeyKept /\ PageKept)'
      BY DEF KeyInv
    <3>2. OneStart' /\ PageKept'
      BY <2>1, <2>2, <3>1 DEF KeyInv, OneStart, PageKept
    <3>3. KeyKept'
      BY <2>2 DEF KeyKept
    <3> QED
      BY <3>2, <3>3
  <2>3. ASSUME NEW t \in Starters, act'[t] = Checking, \A b \in Actors \ {t, "regenerate"} : act'[b] = act[b],
               runner' = 0, ~crossed' => ~crossed /\ \A u \in Starters \ {t} : act[u].pc = "idle"
        PROVE  KeyInv'
    <3>1. \A u \in Starters \ {t} : act'[u] = act[u]
      BY <2>3, ActorsDiffer
    <3> QED
      BY <2>3, <3>1, KeyStopped
  <2> QED
    BY <1>8, <2>2, <2>3, ReloadForKeyEffect
<1>9. ASSUME NEW t \in Starters, ReloadCoin(t) PROVE KeyInv'
  <2>1. \A u \in Starters \ {t} : act'[u] = act[u]
    BY <1>9, ReloadCoinEffect, ActorsDiffer DEF Now
  <2> QED
    BY <1>9, <2>1, ReloadCoinEffect, KeyStopped DEF Now
<1>10. ASSUME NEW t \in Starters, StartCoin(t) PROVE KeyInv'
  <2>1. UNCHANGED <<file, saved, runner, raced, crossed, stayed>>
    BY <1>10 DEF StartCoin, starts
  <2>2. /\ act[t].pc = "check" /\ \A b \in Actors \ {t} : act'[b] = act[b]
        /\ act'[t].pc = "idle" \/ (act'[t].pc = "read" /\ act'[t].f = "key")
    BY <1>10, StartCoinEffect, StartTasks DEF Now
  <2>3. act'["regenerate"] = act["regenerate"] /\ \A u \in Starters \ {t} : act'[u] = act[u]
    BY <2>2, ActorsDiffer
  <2>4. \A u \in Starters : HasKey(u)' => HasKey(u) /\ act'[u] = act[u]
    BY <2>2, <2>3 DEF HasKey
  <2>5. \A u \in Starters : /\ act'[u].pc # "idle" => act[u].pc # "idle"
                            /\ act'[u].pc = "serve" => act[u].pc = "serve"
    BY <2>2, <2>3
  <2> QED
    BY <2>1, <2>3, <2>4, <2>5, KeySame
<1>11. ASSUME NEW t \in Starters, LoadAuthorityKey(t) PROVE KeyInv'
  BY <1>11, KeyLoad
<1>12. ASSUME NEW t \in Starters, PersistSV2AuthPubkey(t) PROVE KeyInv'
  BY <1>12, KeyPersist
<1>18. ASSUME NEW t \in Starters, Serve(t) PROVE KeyInv'
  BY <1>18, KeyServe
<1>19. ASSUME NEW a \in Actors, NEW f \in Files, WriteFails(a, f) PROVE KeyInv'
  BY <1>19, KeyFails
<1>13. CASE Crash
  <2>1. runner' = 0 /\ \A t \in Starters : act'[t] = Idle /\ act'[t].pc = "idle"
    BY <1>13, StartTasks, ActorsDiffer DEF Crash
  <2>2. PICK t \in Starters : TRUE
    BY DEF Starters
  <2> QED
    BY <2>1, <2>2, KeyStopped
<1>14. CASE HandleSettingsGet
  <2>1. UNCHANGED <<file, saved, runner, act, crossed, stayed>> /\ raced \subseteq raced'
    BY <1>14 DEF HandleSettingsGet, starts
  <2> QED
    BY <1>0, <2>1
<1>15. CASE RestartApp
  <2>1. UNCHANGED <<file, saved, runner, act, crossed, stayed>> /\ raced \subseteq raced'
    BY <1>15 DEF RestartApp, starts
  <2> QED
    BY <1>0, <2>1
<1>16. CASE Answer
  <2>1. UNCHANGED <<file, saved, runner, raced, crossed, stayed>> /\ Now("settings", Idle)
    BY <1>16, IdleEffect, ActorsDiffer DEF Answer, starts
  <2> QED
    BY <1>0, <2>1, ActorsDiffer DEF Now
<1>17. CASE DockerRestartContainer
  <2>1. UNCHANGED <<file, saved, runner, raced, crossed, stayed>> /\ Now("credentials", Idle)
    BY <1>17, IdleEffect, ActorsDiffer DEF DockerRestartContainer, starts
  <2> QED
    BY <1>0, <2>1, ActorsDiffer DEF Now
<1> QED
  BY <1>1, <1>2, <1>3, <1>4, <1>5, <1>6, <1>7, <1>8, <1>9, <1>10, <1>11, <1>12, <1>13, <1>14, <1>15, <1>16, <1>17,
     <1>18, <1>19, FilesSteps

LEMMA RestartPut ==
  ASSUME FilesTypeOK, RoleInv, FilesInv, RestartInv, NEW a \in Actors, FilePut(a)
  PROVE  RestartInv'
<1>1. PICK b \in Actors, f \in Files, pc \in Steps, next \in Files \cup {"none"} :
        /\ PutFile(b, f, pc, next)
        /\ \/ b \in Pages /\ f = "env" /\ pc = "read" /\ next = "cfg"
           \/ b = "settings" /\ f = "cfg" /\ pc = "answer" /\ next = "none"
           \/ b = "credentials" /\ f = "cfg" /\ pc = "docker" /\ next = "none"
           \/ b = "regenerate" /\ f = "key" /\ pc = "reload" /\ next = "none"
           \/ b \in Starters /\ f = "key" /\ pc = "read" /\ next = "cfg"
           \/ b \in Starters /\ f = "cfg" /\ pc = "serve" /\ next = "none"
  BY PutCases
<1>2. /\ At(b, "put", f)
      /\ \A k \in Keys : saved'[f][k] = IF k \in act[b].sets THEN act[b].n ELSE saved[f][k]
      /\ \A g \in Files \ {f} : file'[g] = file[g] /\ saved'[g] = saved[g]
      /\ act'[b].pc = pc /\ act'[b].f = next
      /\ act'[b].wrote = IF b = "settings" /\ f = "env" THEN file'[f] ELSE act[b].wrote
      /\ \A c \in Actors \ {b} : act'[c] = act[c]
  BY <1>1, PutEffect
<1>3. told' = told /\ container' = container /\ raced \subseteq raced'
  BY <1>1, RacedGrows DEF PutFile
<1>4. "node" \in Keys /\ Files = {"env", "cfg", "key"}
  BY DEF Keys, Files
<1>5. FilesInv'
  BY <1>1, FilesInvPut
<1>6. CASE b = "settings"
  <2>1. told = "unanswered"
    BY <1>2, <1>6 DEF RestartInv, At
  <2>2. CASE f = "env"
    <3>1. "env" \notin raced' => saved'["env"] = file'["env"]
      BY <1>4, <1>5 DEF FilesInv
    <3> QED
      BY <1>2, <1>3, <1>6, <2>1, <2>2, <3>1 DEF RestartInv
  <2>3. CASE f = "cfg"
    <3>1. saved'["env"] = saved["env"] /\ act'["settings"].wrote = act["settings"].wrote /\ act["settings"].f = "cfg"
      BY <1>2, <1>4, <1>6, <2>3 DEF At
    <3> QED
      BY <1>3, <2>1, <3>1 DEF RestartInv
  <2> QED
    BY <1>1, <1>6, <2>2, <2>3, ActorsDiffer
<1>7. CASE b # "settings"
  <2>1. act'["settings"] = act["settings"]
    BY <1>2, <1>7, ActorsDiffer DEF Pages
  <2>2. saved'["env"]["node"] = saved["env"]["node"]
    <3>1. CASE b = "credentials"
      BY <1>2, <1>4, <3>1 DEF RoleInv, RoleOf
    <3>2. CASE b # "credentials"
      <4>1. f # "env"
        BY <1>1, <1>7, <3>2 DEF Pages
      <4> QED
        BY <1>2, <1>4, <4>1
    <3> QED
      BY <3>1, <3>2
  <2> QED
    BY <1>3, <2>1, <2>2 DEF RestartInv
<1> QED
  BY <1>6, <1>7

LEMMA RestartStep == FilesTypeOK /\ RoleInv /\ FilesInv /\ RestartInv /\ [FilesNext]_filesVars => RestartInv'
<1> SUFFICES ASSUME FilesTypeOK, RoleInv, FilesInv, RestartInv, [FilesNext]_filesVars PROVE RestartInv'
  OBVIOUS
\* A step that leaves the settings page, its answer and the container alone.
<1>0. ASSUME UNCHANGED <<saved, told, container>>, raced \subseteq raced', act'["settings"] = act["settings"]
      PROVE  RestartInv'
  BY <1>0 DEF RestartInv
<1>1. CASE UNCHANGED filesVars
  BY <1>0, <1>1 DEF filesVars
<1>2. ASSUME NEW a \in Actors, FilePut(a) PROVE RestartInv'
  BY <1>2, RestartPut
<1>3. ASSUME NEW a \in Actors, NEW f \in Files, CutFile(a, f) PROVE RestartInv'
  <2>1. UNCHANGED <<saved, told, container>> /\ raced \subseteq raced'
    BY <1>3, RacedGrows DEF CutFile
  <2>2. /\ act[a].pc = "cut" /\ act'[a].pc = "put" /\ act'[a].f = act[a].f /\ act'[a].wrote = act[a].wrote
        /\ \A b \in Actors \ {a} : act'[b] = act[b]
    BY <1>3, CutEffect DEF At
  <2> QED
    BY <2>1, <2>2, ActorsDiffer DEF RestartInv, Pages
<1>4. ASSUME NEW a \in Actors, NEW f \in Files, ReadSettings(a, f) PROVE RestartInv'
  <2>1. UNCHANGED <<saved, told, container>> /\ raced \subseteq raced'
    BY <1>4, RacedGrows DEF ReadSettings
  <2>2. /\ act[a].pc = "read" /\ act'[a].pc = "cut" /\ act'[a].f = act[a].f /\ act'[a].wrote = act[a].wrote
        /\ \A b \in Actors \ {a} : act'[b] = act[b]
    BY <1>4, ReadEffect DEF At
  <2> QED
    BY <2>1, <2>2, ActorsDiffer DEF RestartInv, Pages
<1>5. CASE HandleSettingsPost
  <2>1. UNCHANGED <<saved, container, raced>> /\ told' = "unanswered"
    BY <1>5 DEF HandleSettingsPost
  <2>2. act'["settings"].pc = "read" /\ act'["settings"].f = "env"
    BY <1>5, SettingsPostEffect
  <2> QED
    BY <2>1, <2>2 DEF RestartInv
<1>6. CASE HandleRPCCredentialsPost
  <2>1. UNCHANGED <<saved, told, container, raced>>
    BY <1>6 DEF HandleRPCCredentialsPost
  <2>2. act'["settings"] = act["settings"]
    BY <1>6, CredentialsPostEffect, ActorsDiffer DEF Now, Pages
  <2> QED
    BY <1>0, <2>1, <2>2
<1>7. CASE HandleRegenerateSV2
  <2>1. UNCHANGED <<saved, told, container>> /\ raced \subseteq raced'
    BY <1>7, RacedGrows DEF HandleRegenerateSV2
  <2>2. act'["settings"] = act["settings"]
    BY <1>7, RegenerateEffect, ActorsDiffer DEF Now, Pages
  <2> QED
    BY <1>0, <2>1, <2>2
<1>8. CASE ReloadForKey
  <2>1. UNCHANGED <<saved, told, container, raced>>
    BY <1>8 DEF ReloadForKey
  <2>2. act'["settings"] = act["settings"]
    BY <1>8, ReloadForKeyEffect, ActorsDiffer
  <2> QED
    BY <1>0, <2>1, <2>2
<1>9. ASSUME NEW t \in Starters, ReloadCoin(t) PROVE RestartInv'
  <2>1. UNCHANGED <<saved, told, container, raced>>
    BY <1>9 DEF ReloadCoin
  <2>2. "settings" \in Actors \ {t} /\ \A b \in Actors \ {t} : act'[b] = act[b]
    BY <1>9, ReloadCoinEffect, ActorsDiffer DEF Now
  <2>3. act'["settings"] = act["settings"]
    BY <2>2
  <2> QED
    BY <1>0, <2>1, <2>3
<1>10. ASSUME NEW t \in Starters, LoadAuthorityKey(t) PROVE RestartInv'
  <2>1. UNCHANGED <<saved, told, container>> /\ raced \subseteq raced'
    BY <1>10, RacedGrows DEF LoadAuthorityKey
  <2> QED
    BY <1>0, <1>10, <2>1, LoadEffect, ActorsDiffer DEF Pages
<1>11. ASSUME NEW t \in Starters, PersistSV2AuthPubkey(t) PROVE RestartInv'
  <2>1. UNCHANGED <<saved, told, container>> /\ raced \subseteq raced'
    BY <1>11, RacedGrows DEF PersistSV2AuthPubkey
  <2> QED
    BY <1>0, <1>11, <2>1, PersistEffect, ActorsDiffer DEF Pages
<1>12. ASSUME NEW t \in Starters, Serve(t) PROVE RestartInv'
  <2>1. UNCHANGED <<saved, told, container, raced>> /\ Now(t, Idle)
    BY <1>12, IdleEffect, ActorsDiffer DEF Serve
  <2> QED
    BY <1>0, <2>1, ActorsDiffer DEF Now
<1>18. ASSUME NEW t \in Starters, StartCoin(t) PROVE RestartInv'
  <2>1. UNCHANGED <<saved, told, container, raced>>
    BY <1>18 DEF StartCoin
  <2> QED
    BY <1>0, <1>18, <2>1, StartCoinEffect, ActorsDiffer DEF Now
<1>19. ASSUME NEW a \in Actors, NEW f \in Files, WriteFails(a, f) PROVE RestartInv'
  <2>1. UNCHANGED <<saved, told, container>> /\ raced \subseteq raced'
    BY <1>19 DEF WriteFails
  <2>2. act'["settings"] = act["settings"] \/ act'["settings"] = Idle
    BY <1>19, FailEffect, ActorsDiffer
  <2>3. act["settings"].pc = "idle" => act'["settings"].pc = "idle"
    BY <2>2, StartTasks
  <2> QED
    BY <2>1, <2>2, <2>3, StartTasks DEF RestartInv
<1>13. CASE Crash
  <2>1. /\ act'["settings"].pc = "idle" /\ act'["settings"].f = "none"
        /\ told' = "unanswered" /\ UNCHANGED <<saved, container>>
    BY <1>13, StartTasks, ActorsDiffer DEF Crash, Pages
  <2> QED
    BY <2>1 DEF RestartInv
<1>14. CASE HandleSettingsGet
  <2>1. UNCHANGED <<file, saved, cut, container, act>> /\ raced' = raced \cup ({"env"} \cap cut)
    BY <1>14 DEF HandleSettingsGet
  <2>2. act["settings"].pc = "idle" /\ (told' = "applied" => ReadFile("env")["node"] = container["node"])
    BY <1>14 DEF HandleSettingsGet, Tell, NodeRestartPending
  <2>3. "env" \notin raced' => ReadFile("env") = saved["env"]
    BY <2>1 DEF ReadFile, FilesInv, Files
  <2> QED
    BY <2>1, <2>2, <2>3 DEF RestartInv
<1>15. CASE RestartApp
  <2>1. UNCHANGED <<file, saved, cut, told, act>> /\ raced' = raced \cup ({"env"} \cap cut) /\ container' = ReadFile("env")
    BY <1>15 DEF RestartApp
  <2>2. "env" \notin raced' => ReadFile("env") = saved["env"]
    BY <2>1 DEF ReadFile, FilesInv, Files
  <2> QED
    BY <2>1, <2>2 DEF RestartInv
<1>16. CASE Answer
  <2>1. UNCHANGED <<saved, container, raced>> /\ Now("settings", Idle) /\ act["settings"].pc = "answer"
    BY <1>16, IdleEffect, ActorsDiffer DEF Answer
  <2>2. told' = "applied" => act["settings"].wrote["node"] = container["node"]
    BY <1>16 DEF Answer, Tell, NodeRestartPending
  <2>3. act'["settings"].pc = "idle" /\ act'["settings"].f = "none"
    BY <2>1, StartTasks DEF Now
  <2> QED
    BY <2>1, <2>2, <2>3 DEF RestartInv
<1>17. CASE DockerRestartContainer
  <2>1. UNCHANGED <<saved, told, container, raced>> /\ Now("credentials", Idle)
    BY <1>17, IdleEffect, ActorsDiffer DEF DockerRestartContainer
  <2> QED
    BY <1>0, <2>1, ActorsDiffer DEF Now, Pages
<1> QED
  BY <1>1, <1>2, <1>3, <1>4, <1>5, <1>6, <1>7, <1>8, <1>9, <1>10, <1>11, <1>12, <1>13, <1>14, <1>15, <1>16, <1>17,
     <1>18, <1>19, FilesSteps

-----------------------------------------------------------------------------
(* The theorems *)

FilesIInv == FilesTypeOK /\ RoleInv /\ FilesInv /\ KeyInv /\ RestartInv

LEMMA FilesAlways == FilesSpec => []FilesIInv
<1>1. FilesInit => FilesIInv
  <2> SUFFICES ASSUME FilesInit PROVE FilesIInv
    OBVIOUS
  <2>1. FilesTypeOK /\ RoleInv /\ FilesInv
    BY FilesInitially
  <2>2. \A a \in Actors : act[a].pc = "idle" /\ act[a].f = "none"
    BY StartTasks DEF FilesInit
  <2>3. KeyInv /\ RestartInv
    BY <2>2, ActorsDiffer DEF FilesInit, KeyInv, OneStart, KeyKept, PageKept, HasKey, RestartInv
  <2> QED
    BY <2>1, <2>3 DEF FilesIInv
<1>2. FilesIInv /\ [FilesNext]_filesVars => FilesIInv'
  BY FilesTypeStep, RoleStep, FilesInvStep, KeyStep, RestartStep DEF FilesIInv
<1> QED
  BY <1>1, <1>2, PTL DEF FilesSpec

\* Of a file whose updates did not overlap nothing that was saved is lost, whichever of
\* the four handlers rewrites it, however often.
THEOREM SavedStaysAlways == FilesSpec => []SavedStays
<1>1. FilesIInv => SavedStays
  BY DEF FilesIInv, FilesInv, SavedStays, AtWork, At
<1> QED
  BY <1>1, FilesAlways, PTL

\* With every handler at rest, the key the SV2 server signs with is the one of the
\* configuration page, and the one on disk unless a key request was answered that its
\* reload failed, through any number of key requests, starts, failed reloads and writes
\* and crashes, as long as no two starts overlapped.
THEOREM PubkeyShownAlways == FilesSpec => []PubkeyShown
<1>1. FilesIInv => PubkeyShown
  <2> SUFFICES ASSUME FilesIInv, Quiet, runner # 0, ~crossed, raced \cap {"cfg", "key"} = {}
               PROVE  runner = file["cfg"]["pubkey"] /\ (stayed \/ runner = file["key"]["pubkey"])
    BY DEF PubkeyShown
  <2>1. act["regenerate"].pc = "idle"
    BY ActorsDiffer DEF Quiet
  <2>2. file["cfg"] = saved["cfg"]
    BY DEF FilesIInv, FilesInv, Files
  <2>3. KeyKept /\ PageKept
    BY DEF FilesIInv, KeyInv
  <2>4. stayed \/ runner = file["key"]["pubkey"]
    BY <2>1, <2>3 DEF KeyKept
  <2>5. runner = saved["cfg"]["pubkey"]
    BY <2>3 DEF PageKept
  <2> QED
    BY <2>2, <2>4, <2>5
<1> QED
  BY <1>1, FilesAlways, PTL

\* A page that asked Docker never says that nothing waits for a restart of a node that
\* runs without the settings that were saved, whatever else was saved and restarted since.
THEOREM RestartNotForgottenAlways == FilesSpec => []RestartNotForgotten
<1>1. FilesIInv => RestartNotForgotten
  BY DEF FilesIInv, FilesInv, RestartInv, RestartNotForgotten, Files
<1> QED
  BY <1>1, FilesAlways, PTL
====

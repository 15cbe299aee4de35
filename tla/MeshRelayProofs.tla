-------------------------- MODULE MeshRelayProofs --------------------------
(* Theorems about MeshRelay, for any coins, jobs and bounds: see the README for  *)
(* the argument.                                                               *)
EXTENDS MeshRelay, FiniteSetTheorems, WellFoundedInduction, TLAPS

Job == [id : Nat, coin : Backends, job : Nat]
Move == [pc : Moves, target : Backends \cup {NoCoin}, prev : Backends \cup {NoCoin}, job : Nat]
Authorizes == [pc : {"idle", "start", "choose", "await", "golive", "replay"},
               b : Backends \cup {NoCoin}, job : Nat]

\* The registry is never too full and names no job twice.
JobsOK ==
  /\ jobs \in Seq(Job) /\ Len(jobs) <= MaxTracked
  /\ \A i, j \in 1..Len(jobs) : jobs[i].id = jobs[j].id => i = j

MoversOK ==
  /\ sw \in [Movers -> Move]
  /\ \A p \in Movers : sw[p].pc # "idle" => sw[p].target \in Backends

AuthOK == auth \in Authorizes /\ (auth.pc \in {"start", "await", "golive", "replay"} => auth.b \in Backends)

ApiOK ==
  /\ api \in [pc : {"idle", "home", "defer"}, target : Backends \cup {NoCoin}, split : BOOLEAN]
  /\ api.pc # "idle" => api.target \in Backends

CoinsOK ==
  /\ active \in Backends
  /\ home \in Backends \cup {NoCoin} /\ pending \in Backends \cup {NoCoin}
  /\ want \in Backends \cup {NoCoin} /\ (rotating => want \in Backends)
  /\ last \in [Backends -> Nat]

RunOK ==
  /\ run \in [Backends -> {"read", "got", "message", "forward", "warm", "switch",
                           "dead", "failover", "ended"}]
  /\ live \in [Backends -> BOOLEAN]
  /\ stored \in Assignments

StateOK == JobsOK /\ MoversOK /\ AuthOK /\ ApiOK /\ CoinsOK /\ RunOK

-----------------------------------------------------------------------------
(* The helpers *)

\* FirstAlive returns one of the coins asked about, if any of them is alive.
LEMMA FirstAliveIsCoin ==
  ASSUME NEW S
  PROVE  /\ FirstAlive(S) \in Backends \cup {NoCoin}
         /\ (\E b \in Backends : b \in S /\ ~dead[b]) => FirstAlive(S) \in Backends
<1> DEFINE usable == {i \in 1..Len(Coins) : Coins[i] \in S /\ ~dead[Coins[i]]}
<1>1. Len(Coins) \in Nat
  BY RelayAssumption
<1>2. CASE usable = {}
  BY <1>2 DEF FirstAlive, Backends
<1>3. CASE usable # {}
  <2>1. usable \subseteq Nat
    BY <1>1
  <2>2. PICK i \in usable : \A j \in usable : ~(<<j, i>> \in OpToRel(<, Nat))
    BY <1>3, <2>1, WFMin, NatLessThanWellFounded
  <2>3. ASSUME NEW j \in usable PROVE i <= j
    <3>1. i \in Nat /\ j \in Nat
      BY <2>1
    <3>2. ~(j < i)
      BY <2>2, <3>1 DEF OpToRel
    <3> QED
      BY <3>1, <3>2
  <2> DEFINE m == CHOOSE k \in usable : \A j \in usable : k <= j
  <2>4. m \in usable
    BY <2>2, <2>3
  <2>5. FirstAlive(S) = Coins[m]
    BY <1>3 DEF FirstAlive
  <2> QED
    BY <2>4, <2>5 DEF Backends
<1> QED
  BY <1>2, <1>3

\* There is a number no registered job has.
LEMMA FreshIDIsFresh ==
  ASSUME JobsOK
  PROVE  FreshID \in Nat /\ \A i \in 1..Len(jobs) : jobs[i].id # FreshID
<1> DEFINE S == 1..MaxTracked + 1
           T == 1..Len(jobs)
<1>1. MaxTracked \in Nat /\ Len(jobs) \in Nat /\ Len(jobs) <= MaxTracked
  BY RelayAssumption DEF JobsOK
<1>2. IsFiniteSet(S) /\ Cardinality(S) = MaxTracked + 1 /\ IsFiniteSet(T) /\ Cardinality(T) = Len(jobs)
  <2>1. 1 \in Int /\ MaxTracked + 1 \in Int /\ Len(jobs) \in Int
    BY <1>1
  <2>2. IsFiniteSet(S) /\ Cardinality(S) = IF 1 > MaxTracked + 1 THEN 0 ELSE (MaxTracked + 1) - 1 + 1
    BY <2>1, FS_Interval
  <2>3. IsFiniteSet(T) /\ Cardinality(T) = IF 1 > Len(jobs) THEN 0 ELSE Len(jobs) - 1 + 1
    BY <2>1, FS_Interval
  <2> QED
    BY <1>1, <2>2, <2>3
<1>3. \E n \in S : \A i \in T : jobs[i].id # n
  <2> SUFFICES ASSUME \A n \in S : \E i \in T : jobs[i].id = n PROVE FALSE
    OBVIOUS
  <2> DEFINE f == [n \in S |-> CHOOSE i \in T : jobs[i].id = n]
  <2>1. f \in [S -> T] /\ \A n \in S : jobs[f[n]].id = n
    OBVIOUS
  <2> HIDE DEF f
  <2>2. PICK x, y \in S : x # y /\ f[x] = f[y]
    <3>1. Cardinality(T) < Cardinality(S)
      BY <1>1, <1>2
    <3> HIDE DEF S, T
    <3> QED
      BY <1>2, <2>1, <3>1, FS_PigeonHole
  <2> QED
    BY <2>1, <2>2
<1>4. FreshID \in S /\ \A i \in T : jobs[i].id # FreshID
  BY <1>3 DEF FreshID
<1> QED
  BY <1>1, <1>4

LEMMA GiveKeepsJobs ==
  ASSUME JobsOK, NEW b \in Backends, NEW n \in Nat, RegisterJob(b, n)
  PROVE  JobsOK'
<1> DEFINE all == Append(jobs, [id |-> FreshID, coin |-> b, job |-> n])
<1>1. MaxTracked \in Nat \ {0} /\ Len(jobs) \in Nat
  BY RelayAssumption DEF JobsOK
<1>2. [id |-> FreshID, coin |-> b, job |-> n] \in Job
  BY FreshIDIsFresh DEF Job
<1>3. /\ all \in Seq(Job) /\ Len(all) = Len(jobs) + 1 /\ all[Len(all)].id = FreshID
      /\ \A i \in 1..Len(jobs) : all[i] = jobs[i]
  BY <1>1, <1>2 DEF JobsOK
<1>4. \A i, j \in 1..Len(all) : all[i].id = all[j].id => i = j
  <2> SUFFICES ASSUME NEW i \in 1..Len(all), NEW j \in 1..Len(all), all[i].id = all[j].id PROVE i = j
    OBVIOUS
  <2>1. (i \in 1..Len(jobs) \/ i = Len(all)) /\ (j \in 1..Len(jobs) \/ j = Len(all))
    BY <1>1, <1>3
  <2>2. CASE i \in 1..Len(jobs) /\ j \in 1..Len(jobs)
    BY <1>3, <2>2 DEF JobsOK
  <2>3. CASE i = Len(all) /\ j \in 1..Len(jobs)
    BY <1>3, <2>3, FreshIDIsFresh
  <2>4. CASE j = Len(all) /\ i \in 1..Len(jobs)
    BY <1>3, <2>4, FreshIDIsFresh
  <2> QED
    BY <2>1, <2>2, <2>3, <2>4
<1> HIDE DEF all
<1>5. CASE Len(all) > MaxTracked
  <2>1. jobs' = Tail(all)
    BY <1>5 DEF RegisterJob, all
  <2>2. /\ Tail(all) \in Seq(Job) /\ Len(Tail(all)) = Len(jobs)
        /\ \A i \in 1..Len(jobs) : Tail(all)[i] = all[i + 1]
    BY <1>1, <1>3
  <2>3. \A i \in 1..Len(jobs) : i + 1 \in 1..Len(all)
    BY <1>1, <1>3
  <2>4. ASSUME NEW i \in 1..Len(jobs), NEW j \in 1..Len(jobs), Tail(all)[i].id = Tail(all)[j].id PROVE i = j
    <3>1. i + 1 = j + 1
      BY <1>4, <2>2, <2>3, <2>4
    <3> QED
      BY <3>1
  <2>5. Len(jobs) <= MaxTracked
    BY <1>1 DEF JobsOK
  <2> QED
    BY <2>1, <2>2, <2>4, <2>5 DEF JobsOK
<1>6. CASE ~(Len(all) > MaxTracked)
  <2>1. jobs' = all
    BY <1>6 DEF RegisterJob, all
  <2> QED
    BY <1>1, <1>3, <1>4, <1>6, <2>1 DEF JobsOK
<1> QED
  BY <1>5, <1>6

LEMMA LookupFinds ==
  ASSUME JobsOK, NEW i \in 1..Len(jobs)
  PROVE  Lookup(jobs[i].id) = jobs[i]
<1> DEFINE k == CHOOSE k \in 1..Len(jobs) :
                  jobs[k].id = jobs[i].id /\ \A l \in k+1..Len(jobs) : jobs[l].id # jobs[i].id
<1>1. Len(jobs) \in Nat
  BY DEF JobsOK
<1>2. \A l \in i+1..Len(jobs) : jobs[l].id # jobs[i].id
  <2> SUFFICES ASSUME NEW l \in i+1..Len(jobs), jobs[l].id = jobs[i].id PROVE FALSE
    OBVIOUS
  <2>1. l \in 1..Len(jobs) /\ l # i
    BY <1>1
  <2> QED
    BY <2>1 DEF JobsOK
<1>3. k \in 1..Len(jobs) /\ jobs[k].id = jobs[i].id
  BY <1>2
<1>4. k = i
  BY <1>3 DEF JobsOK
<1> QED
  BY <1>4 DEF Lookup

-----------------------------------------------------------------------------
(* What the helpers of the movers do *)

RunStates == {"read", "got", "message", "forward", "warm", "switch", "dead", "failover", "ended"}

\* Only p's move changes.
Alone(p) == \A q \in Movers : q # p => sw'[q] = sw[q]

LEMMA BackendsMove == Backends \subseteq Movers
BY DEF Movers

LEMMA FinishEffect ==
  ASSUME MoversOK, RunOK, NEW p \in Movers, Finish(p)
  PROVE  /\ MoversOK' /\ sw'[p].pc = "idle" /\ Alone(p)
         /\ run' \in [Backends -> RunStates]
         /\ \A b \in Backends : b # p => run'[b] = run[b]
<1>1. NotMoving \in Move
  BY DEF NotMoving, Move, Moves
<1>2. sw' \in [Movers -> Move] /\ sw'[p] = NotMoving /\ Alone(p)
  BY <1>1 DEF Finish, MoversOK, Alone
<1>3. MoversOK'
  BY <1>2 DEF MoversOK, Alone, NotMoving
<1>4. /\ run' \in [Backends -> RunStates]
      /\ \A b \in Backends : b # p => run'[b] = run[b]
  BY DEF Finish, RunOK, RunStates
<1> QED
  BY <1>2, <1>3, <1>4 DEF NotMoving

LEMMA BeginEffect ==
  ASSUME MoversOK, NEW p \in Movers, NEW b \in Backends, BeginSwitch(p, b)
  PROVE  MoversOK' /\ sw'[p].pc = "check" /\ Alone(p)
<1>1. sw' \in [Movers -> Move] /\ sw'[p].pc = "check" /\ sw'[p].target = b /\ Alone(p)
  BY DEF BeginSwitch, NotMoving, MoversOK, Move, Moves, Alone
<1> QED
  BY <1>1 DEF MoversOK, Alone

\* A mover goes on to another step, towards the same target.
Onwards(p, where) ==
  MoversOK' /\ sw'[p].pc = where /\ sw'[p].target = sw[p].target /\ Alone(p)

\* The same, for the steps of switchTo.
LEMMA SwitchEffect ==
  ASSUME StateOK, NEW p \in Movers
  PROVE  /\ SwitchCheck(p) => Finish(p) \/ (Onwards(p, "leave") /\ UNCHANGED run)
         /\ SwitchLeave(p) => Onwards(p, "enter")
         /\ SwitchEnter(p) => UNCHANGED <<active, sw>> \/ (Onwards(p, "tell") /\ active' = sw[p].target)
         /\ SwitchTell(p) => Onwards(p, "golive")
         /\ SwitchGoLive(p) => Onwards(p, "replay")
         /\ SwitchReplay(p) => Finish(p)
<1> DEFINE Goes(where) == /\ sw' \in [Movers -> Move] /\ Alone(p)
                          /\ sw'[p].pc = where /\ sw'[p].target = sw[p].target
<1>1. /\ sw \in [Movers -> Move] /\ active \in Backends /\ last \in [Backends -> Nat]
      /\ sw[p].pc # "idle" => sw[p].target \in Backends
  BY DEF StateOK, MoversOK, CoinsOK
<1>2. ASSUME NEW where, Goes(where), sw[p].pc # "idle" PROVE Onwards(p, where)
  BY <1>1, <1>2 DEF StateOK, MoversOK, Alone, Onwards
<1>3. ASSUME SwitchCheck(p) PROVE Finish(p) \/ (Onwards(p, "leave") /\ UNCHANGED run)
  <2>1. CASE sw' = [sw EXCEPT ![p].pc = "leave", ![p].prev = active] /\ UNCHANGED run
    <3>1. Goes("leave") /\ sw[p].pc # "idle"
      BY <1>1, <1>3, <2>1 DEF SwitchCheck, Move, Moves, Alone
    <3> QED
      BY <1>2, <2>1, <3>1
  <2> QED
    BY <1>3, <2>1 DEF SwitchCheck
<1>4. ASSUME SwitchLeave(p) PROVE Onwards(p, "enter")
  <2>1. Goes("enter") /\ sw[p].pc # "idle"
    BY <1>1, <1>4 DEF SwitchLeave, Move, Moves, Alone
  <2> QED
    BY <1>2, <2>1
<1>5. ASSUME SwitchEnter(p) PROVE UNCHANGED <<active, sw>> \/ (Onwards(p, "tell") /\ active' = sw[p].target)
  <2>1. CASE active' = sw[p].target /\ Step(p, "tell")
    <3>1. Goes("tell") /\ sw[p].pc # "idle"
      BY <1>1, <1>5, <2>1 DEF SwitchEnter, Step, Move, Moves, Alone
    <3> QED
      BY <1>2, <2>1, <3>1
  <2> QED
    BY <1>5, <2>1 DEF SwitchEnter
<1>6. ASSUME SwitchTell(p) PROVE Onwards(p, "golive")
  <2>1. Goes("golive") /\ sw[p].pc # "idle"
    BY <1>1, <1>6 DEF SwitchTell, Step, Move, Moves, Alone
  <2> QED
    BY <1>2, <2>1
<1>7. ASSUME SwitchGoLive(p) PROVE Onwards(p, "replay")
  <2>1. sw[p].pc # "idle" /\ last[sw[p].target] \in Nat
    BY <1>1, <1>7 DEF SwitchGoLive
  <2>2. Goes("replay")
    BY <1>1, <1>7, <2>1 DEF SwitchGoLive, Move, Moves, Alone
  <2> QED
    BY <1>2, <2>1, <2>2
<1>8. ASSUME SwitchReplay(p) PROVE Finish(p)
  BY <1>8 DEF SwitchReplay
<1> QED
  BY <1>3, <1>4, <1>5, <1>6, <1>7, <1>8

-----------------------------------------------------------------------------
(* The state, part by part *)

LEMMA JobsStep == StateOK /\ [Next]_vars => JobsOK'
<1> SUFFICES ASSUME StateOK, [Next]_vars PROVE JobsOK'
  OBVIOUS
<1>1. CASE UNCHANGED jobs
  BY <1>1 DEF StateOK, JobsOK
<1>2. ASSUME NEW p \in Movers, SwitchReplay(p) PROVE JobsOK'
  <2>1. sw[p].target \in Backends /\ sw[p].job \in Nat
    BY <1>2 DEF SwitchReplay, StateOK, MoversOK, Move
  <2> QED
    BY <1>1, <1>2, <2>1, GiveKeepsJobs DEF SwitchReplay, Give, StateOK
<1>3. ASSUME NEW b \in Backends, Forward(b) PROVE JobsOK'
  <2>1. last[b] \in Nat
    BY DEF StateOK, CoinsOK
  <2> QED
    BY <1>3, <2>1, GiveKeepsJobs DEF Forward, Give, StateOK
<1>4. ASSUME AuthReplay PROVE JobsOK'
  <2>1. auth.b \in Backends /\ auth.job \in Nat
    BY <1>4 DEF AuthReplay, StateOK, AuthOK, Authorizes
  <2> QED
    BY <1>4, <2>1, GiveKeepsJobs DEF AuthReplay, Give, StateOK
<1> QED
  BY <1>1, <1>2, <1>3, <1>4
     DEF Next, Switch, SwitchCheck, SwitchLeave, SwitchEnter, SwitchTell, SwitchGoLive,
         Reader, SeeLive, CheckActive, WarmNotify, OnDead, Notify, Dies, ComesBack, SliceBegins,
         FailbackTick, RotateTick, RotateAnyway, Reassign, ReassignHome, ReassignDefer,
         Subscribe, ExtranonceSubscribe, Authorizing, StartOnAssigned, AuthorizeBackends, FirstJob,
         AuthGoLive, Authorize, Submit, CoinAnswers, vars, sessionVars

LEMMA CoinsStep == StateOK /\ [Next]_vars => CoinsOK'
<1> SUFFICES ASSUME StateOK, [Next]_vars PROVE CoinsOK'
  OBVIOUS
<1>1. CoinsOK
  BY DEF StateOK
<1>2. CASE UNCHANGED <<active, home, pending, rotating, want, last>>
  BY <1>1, <1>2 DEF CoinsOK
<1>3. ASSUME NEW p \in Movers, SwitchLeave(p) \/ SwitchEnter(p) PROVE CoinsOK'
  <2>1. active' \in Backends
    BY <1>1, <1>3 DEF SwitchLeave, SwitchEnter, StateOK, MoversOK, CoinsOK
  <2> QED
    BY <1>1, <1>3, <2>1 DEF SwitchLeave, SwitchEnter, CoinsOK, backendVars, envVars
<1>4. ASSUME NEW b \in Backends, Notify(b) \/ ComesBack(b) PROVE CoinsOK'
  <2>1. last' \in [Backends -> Nat]
    BY <1>1, <1>4 DEF Notify, ComesBack, CoinsOK
  <2> QED
    BY <1>1, <1>4, <2>1 DEF Notify, ComesBack, CoinsOK, sessionVars
<1>5. ASSUME NEW b \in Backends, SliceBegins(b) PROVE CoinsOK'
  BY <1>1, <1>5 DEF SliceBegins, CoinsOK, sessionVars, backendVars
<1>6. ASSUME RotateTick PROVE CoinsOK'
  BY <1>1, <1>6 DEF RotateTick, CoinsOK, backendVars, envVars
<1>7. ASSUME NEW b \in Backends, NEW split \in BOOLEAN, Reassign(b, split) PROVE CoinsOK'
  BY <1>1, <1>7 DEF Reassign, SetRotation, CoinsOK, backendVars
<1>8. ASSUME ReassignHome \/ ReassignDefer PROVE CoinsOK'
  <2>1. api.target \in Backends
    BY <1>8 DEF ReassignHome, ReassignDefer, StateOK, ApiOK
  <2> QED
    BY <1>1, <1>8, <2>1 DEF ReassignHome, ReassignDefer, CoinsOK, backendVars, envVars
<1>9. ASSUME StartOnAssigned PROVE CoinsOK'
  <2>1. auth.b \in Backends
    BY <1>9 DEF StartOnAssigned, StateOK, AuthOK
  <2> QED
    BY <1>1, <1>9, <2>1 DEF StartOnAssigned, CoinsOK, backendVars, envVars
<1>10. ASSUME Authorize(stored) PROVE CoinsOK'
  BY <1>1, <1>10 DEF Authorize, SetRotation, CoinsOK, backendVars
<1> QED
  BY <1>2, <1>3, <1>4, <1>5, <1>6, <1>7, <1>8, <1>9, <1>10
     DEF Next, Switch, SwitchCheck, SwitchTell, SwitchGoLive, SwitchReplay,
         Reader, SeeLive, CheckActive, Forward, WarmNotify, OnDead, Dies,
         FailbackTick, RotateAnyway, Subscribe, ExtranonceSubscribe, Authorizing,
         AuthorizeBackends, FirstJob, AuthGoLive, AuthReplay, Submit, CoinAnswers,
         vars, sessionVars, backendVars, envVars

LEMMA AuthStep == StateOK /\ [Next]_vars => AuthOK'
<1> SUFFICES ASSUME StateOK, [Next]_vars PROVE AuthOK'
  OBVIOUS
<1>1. AuthOK /\ active \in Backends /\ last \in [Backends -> Nat] /\ stored \in Assignments
  BY DEF StateOK, CoinsOK, RunOK
<1>2. CASE UNCHANGED auth
  BY <1>1, <1>2 DEF AuthOK
<1>0. NoAuth \in Authorizes
  BY DEF NoAuth, Authorizes
<1>3. ASSUME Authorize(stored) PROVE AuthOK'
  <2>1. \/ auth' = [NoAuth EXCEPT !.pc = "choose"]
        \/ stored \in Backends /\ auth' = [NoAuth EXCEPT !.pc = "start", !.b = stored]
    BY <1>3 DEF Authorize
  <2> QED
    BY <1>0, <2>1 DEF AuthOK, Authorizes
<1>4. ASSUME StartOnAssigned \/ AuthReplay PROVE AuthOK'
  BY <1>1, <1>4 DEF StartOnAssigned, AuthReplay, AuthOK, Authorizes, NoAuth
<1>5. ASSUME AuthorizeBackends PROVE AuthOK'
  <2>1. UNCHANGED auth \/ auth' = [NoAuth EXCEPT !.pc = "await", !.b = active]
    BY <1>5 DEF AuthorizeBackends
  <2> QED
    BY <1>0, <1>1, <1>2, <2>1 DEF AuthOK, Authorizes
<1>6. ASSUME FirstJob PROVE AuthOK'
  BY <1>1, <1>2, <1>6 DEF FirstJob, AuthOK, Authorizes
<1>7. ASSUME AuthGoLive PROVE AuthOK'
  <2>1. auth.b \in Backends /\ last[auth.b] \in Nat
    BY <1>1, <1>7 DEF AuthGoLive, AuthOK
  <2> QED
    BY <1>1, <1>7, <2>1 DEF AuthGoLive, AuthOK, Authorizes
<1> QED
  BY <1>2, <1>3, <1>4, <1>5, <1>6, <1>7
     DEF Next, Switch, SwitchCheck, SwitchLeave, SwitchEnter, SwitchTell, SwitchGoLive, SwitchReplay,
         Reader, SeeLive, CheckActive, Forward, WarmNotify, OnDead, Notify, Dies, ComesBack, SliceBegins,
         FailbackTick, RotateTick, RotateAnyway, Reassign, ReassignHome, ReassignDefer,
         Subscribe, ExtranonceSubscribe, Authorizing, Submit, CoinAnswers, vars, threadVars

LEMMA ApiStep == StateOK /\ [Next]_vars => ApiOK'
<1> SUFFICES ASSUME StateOK, [Next]_vars PROVE ApiOK'
  OBVIOUS
<1>1. ApiOK
  BY DEF StateOK
<1>2. CASE UNCHANGED api
  BY <1>1, <1>2 DEF ApiOK
<1>3. ASSUME NEW b \in Backends, NEW split \in BOOLEAN, Reassign(b, split) PROVE ApiOK'
  BY <1>3 DEF Reassign, ApiOK
<1>4. ASSUME ReassignHome PROVE ApiOK'
  <2>1. api' = [api EXCEPT !.pc = "defer"] /\ api.pc = "home"
    BY <1>4 DEF ReassignHome
  <2> QED
    BY <1>1, <2>1 DEF ApiOK
<1>5. ASSUME ReassignDefer PROVE ApiOK'
  BY <1>5 DEF ReassignDefer, ApiOK
<1> QED
  BY <1>2, <1>3, <1>4, <1>5
     DEF Next, Switch, SwitchCheck, SwitchLeave, SwitchEnter, SwitchTell, SwitchGoLive, SwitchReplay,
         Reader, SeeLive, CheckActive, Forward, WarmNotify, OnDead, Notify, Dies, ComesBack, SliceBegins,
         FailbackTick, RotateTick, RotateAnyway, Subscribe, ExtranonceSubscribe, Authorizing,
         StartOnAssigned, AuthorizeBackends, FirstJob, AuthGoLive, AuthReplay, Authorize,
         Submit, CoinAnswers, vars, threadVars

LEMMA MoversStep == StateOK /\ [Next]_vars => MoversOK'
<1> SUFFICES ASSUME StateOK, [Next]_vars PROVE MoversOK'
  OBVIOUS
<1>1. MoversOK /\ RunOK /\ CoinsOK
  BY DEF StateOK
<1>2. CASE UNCHANGED sw
  BY <1>1, <1>2 DEF MoversOK
<1>3. ASSUME NEW p \in Movers, Switch(p) PROVE MoversOK'
  BY <1>1, <1>2, <1>3, SwitchEffect, FinishEffect DEF Switch, Onwards
<1>4. ASSUME NEW b \in Backends, WarmNotify(b) PROVE MoversOK'
  BY <1>1, <1>2, <1>4, BackendsMove, BeginEffect DEF WarmNotify
<1>5. ASSUME NEW b \in Backends, OnDead(b) PROVE MoversOK'
  <2>1. FirstAlive(Backends \ {b}) # NoCoin => FirstAlive(Backends \ {b}) \in Backends
    BY FirstAliveIsCoin
  <2> QED
    BY <1>1, <1>2, <1>5, <2>1, BackendsMove, BeginEffect DEF OnDead
<1>6. ASSUME FailbackTick PROVE MoversOK'
  <2>1. FailbackTarget # NoCoin => FailbackTarget \in Backends
    BY <1>1, FirstAliveIsCoin DEF FailbackTarget, CoinsOK
  <2> QED
    BY <1>1, <1>6, <2>1, BeginEffect DEF FailbackTick, Movers
<1>7. ASSUME RotateAnyway PROVE MoversOK'
  BY <1>1, <1>7, BeginEffect DEF RotateAnyway, Movers, CoinsOK
<1> QED
  BY <1>2, <1>3, <1>4, <1>5, <1>6, <1>7
     DEF Next, Reader, SeeLive, CheckActive, Forward, Notify, Dies, ComesBack, SliceBegins,
         RotateTick, Reassign, ReassignHome, ReassignDefer,
         Subscribe, ExtranonceSubscribe, Authorizing, StartOnAssigned, AuthorizeBackends, FirstJob,
         AuthGoLive, AuthReplay, Authorize, Submit, CoinAnswers, vars, threadVars

LEMMA RunStep == StateOK /\ [Next]_vars => RunOK'
<1> SUFFICES ASSUME StateOK, [Next]_vars PROVE RunOK'
  OBVIOUS
<1>1. /\ MoversOK /\ RunOK /\ live \in [Backends -> BOOLEAN] /\ stored \in Assignments
      /\ run \in [Backends -> RunStates]
  BY DEF StateOK, RunOK, RunStates
<1>2. stored' = stored
  BY DEF Next, Switch, SwitchCheck, SwitchLeave, SwitchEnter, SwitchTell, SwitchGoLive, SwitchReplay,
         Reader, SeeLive, CheckActive, Forward, WarmNotify, OnDead, Notify, Dies, ComesBack, SliceBegins,
         FailbackTick, RotateTick, RotateAnyway, Reassign, ReassignHome, ReassignDefer,
         Subscribe, ExtranonceSubscribe, Authorizing, StartOnAssigned, AuthorizeBackends, FirstJob,
         AuthGoLive, AuthReplay, Authorize, Submit, CoinAnswers, vars, envVars
<1>3. live' \in [Backends -> BOOLEAN]
  <2>1. CASE UNCHANGED live
    BY <1>1, <2>1
  <2>2. ASSUME NEW p \in Movers, SwitchLeave(p) \/ SwitchGoLive(p) PROVE live' \in [Backends -> BOOLEAN]
    BY <1>1, <2>2 DEF SwitchLeave, SwitchGoLive
  <2>3. ASSUME AuthGoLive PROVE live' \in [Backends -> BOOLEAN]
    BY <1>1, <2>3 DEF AuthGoLive
  <2> QED
    BY <2>1, <2>2, <2>3
       DEF Next, Switch, SwitchCheck, SwitchEnter, SwitchTell, SwitchReplay,
           Reader, SeeLive, CheckActive, Forward, WarmNotify, OnDead, Notify, Dies, ComesBack, SliceBegins,
           FailbackTick, RotateTick, RotateAnyway, Reassign, ReassignHome, ReassignDefer,
           Subscribe, ExtranonceSubscribe, Authorizing, StartOnAssigned, AuthorizeBackends, FirstJob,
           AuthReplay, Authorize, Submit, CoinAnswers, vars, backendVars
<1>4. run' \in [Backends -> RunStates]
  <2>1. CASE UNCHANGED run
    BY <1>1, <2>1
  <2>2. ASSUME NEW p \in Movers, Finish(p) PROVE run' \in [Backends -> RunStates]
    BY <1>1, <2>2, FinishEffect
  <2>3. ASSUME NEW p \in Movers, Switch(p) PROVE run' \in [Backends -> RunStates]
    BY <2>1, <2>2, <2>3 DEF Switch, SwitchCheck, SwitchLeave, SwitchEnter, SwitchTell, SwitchGoLive, SwitchReplay
  <2>4. ASSUME NEW b \in Backends, NEW r \in RunStates, run' = [run EXCEPT ![b] = r]
        PROVE run' \in [Backends -> RunStates]
    BY <1>1, <2>4
  <2>5. ASSUME NEW b \in Backends, Reader(b) \/ Notify(b) \/ Dies(b) \/ ComesBack(b)
        PROVE run' \in [Backends -> RunStates]
    BY <2>1, <2>4, <2>5
       DEF Reader, SeeLive, CheckActive, Forward, WarmNotify, OnDead, Notify, Dies, ComesBack, RunStates
  <2> QED
    BY <2>1, <2>3, <2>5
       DEF Next, SliceBegins,
           FailbackTick, RotateTick, RotateAnyway, Reassign, ReassignHome, ReassignDefer,
           Subscribe, ExtranonceSubscribe, Authorizing, StartOnAssigned, AuthorizeBackends, FirstJob,
           AuthGoLive, AuthReplay, Authorize, Submit, CoinAnswers, vars, threadVars
<1> QED
  BY <1>1, <1>2, <1>3, <1>4 DEF RunOK, RunStates

LEMMA StateInit == Init => StateOK
<1> SUFFICES ASSUME Init PROVE StateOK
  OBVIOUS
<1>1. JobsOK
  BY RelayAssumption DEF Init, JobsOK
<1>2. MoversOK
  <2>1. NotMoving \in Move /\ NotMoving.pc = "idle"
    BY DEF NotMoving, Move, Moves
  <2> QED
    BY <2>1 DEF Init, MoversOK
<1>3. AuthOK
  BY DEF Init, AuthOK, NoAuth, Authorizes
<1>4. ApiOK
  BY DEF Init, ApiOK
<1>5. CoinsOK
  <2>1. active \in Backends
    BY FirstAliveIsCoin DEF Init
  <2> QED
    BY <2>1 DEF Init, CoinsOK
<1>6. RunOK
  BY DEF Init, RunOK
<1> QED
  BY <1>1, <1>2, <1>3, <1>4, <1>5, <1>6 DEF StateOK

LEMMA StateNext == StateOK /\ [Next]_vars => StateOK'
BY JobsStep, CoinsStep, AuthStep, ApiStep, MoversStep, RunStep DEF StateOK

\* What the session, its goroutines and its registry of jobs hold, in every
\* reachable state: the registry (registerJob) never exceeds its limit and names
\* no job twice, and whoever is in the middle of a move has a coin to go to.
THEOREM StateCorrect == Spec => []StateOK
BY StateInit, StateNext, PTL DEF Spec

-----------------------------------------------------------------------------
(* Shares *)

\* A share forwarded reaches the coin that issued its job, under that coin's own
\* number (mining.submit, registerJob, lookupJob), whatever moves were made since.
THEOREM SharesReachCorrect == Spec => []SharesReachIssuer
<1>1. Init => SharesReachIssuer
  BY DEF Init, SharesReachIssuer
<1>2. StateOK /\ SharesReachIssuer /\ [Next]_vars => SharesReachIssuer'
  <2> SUFFICES ASSUME StateOK, SharesReachIssuer, [Next]_vars PROVE SharesReachIssuer'
    OBVIOUS
  <2>1. CASE shares' \subseteq shares
    BY <2>1 DEF SharesReachIssuer
  <2>2. ASSUME NEW i \in 1..Len(jobs), Submit(i) PROVE SharesReachIssuer'
    <3> DEFINE share == [coin |-> jobs[i].coin, job |-> jobs[i].job, to |-> jobs[i].coin, as |-> jobs[i].job]
    <3>1. Lookup(jobs[i].id) = jobs[i]
      BY LookupFinds DEF StateOK
    <3>2. shares' = shares \cup {share}
      BY <2>2, <3>1 DEF Submit
    <3> QED
      BY <3>2 DEF SharesReachIssuer
  <2> QED
    BY <2>1, <2>2
       DEF Next, Switch, SwitchCheck, SwitchLeave, SwitchEnter, SwitchTell, SwitchGoLive, SwitchReplay,
           Reader, SeeLive, CheckActive, Forward, WarmNotify, OnDead, Notify, Dies, ComesBack, SliceBegins,
           FailbackTick, RotateTick, RotateAnyway, Reassign, ReassignHome, ReassignDefer,
           Subscribe, ExtranonceSubscribe, Authorizing, StartOnAssigned, AuthorizeBackends, FirstJob,
           AuthGoLive, AuthReplay, Authorize, CoinAnswers, vars, sessionVars
<1> QED
  BY <1>1, <1>2, StateCorrect, PTL DEF Spec

-----------------------------------------------------------------------------
(* Moves *)

\* Coin a's jobs are forwarded, or somebody is in the middle of seeing to it: a
\* mover that has made a coin warm, or one that has made a the active coin.
Carried(a) ==
  \/ live[a]
  \/ \E p \in Movers : sw[p].pc = "enter" \/ (sw[p].pc \in {"tell", "golive"} /\ sw[p].target = a)

AuthorizingOK == auth.pc # "idle" => phase = "authorizing"

\* A reader in the middle of a move reads nothing.
ReadersOK == \A b \in Backends : sw[b].pc # "idle" => run[b] \in {"switch", "failover"}

\* The active coin is carried from the moment authorize has made its backend live;
\* until then it is that backend, unless a move has taken it elsewhere.
CarriedOK ==
  /\ auth.pc \in {"await", "golive"} => active = auth.b \/ Carried(active)
  /\ phase = "mining" \/ auth.pc = "replay" => Carried(active)

LiveInv == StateOK /\ AuthorizingOK /\ ReadersOK /\ CarriedOK

LEMMA AuthorizingStep == StateOK /\ AuthorizingOK /\ [Next]_vars => AuthorizingOK'
<1> SUFFICES ASSUME StateOK, AuthorizingOK, [Next]_vars PROVE AuthorizingOK'
  OBVIOUS
<1>1. CASE UNCHANGED <<auth, phase>>
  BY <1>1 DEF AuthorizingOK
<1>2. ASSUME Subscribe PROVE AuthorizingOK'
  BY <1>2 DEF Subscribe, AuthorizingOK, threadVars
<1>3. ASSUME Authorize(stored) PROVE AuthorizingOK'
  BY <1>3 DEF Authorize, AuthorizingOK
<1>4. ASSUME Authorizing PROVE AuthorizingOK'
  BY <1>4 DEF Authorizing, StartOnAssigned, AuthorizeBackends, FirstJob, AuthGoLive, AuthReplay,
              NoAuth, AuthorizingOK, minerVars
<1> QED
  BY <1>1, <1>2, <1>3, <1>4
     DEF Next, Switch, SwitchCheck, SwitchLeave, SwitchEnter, SwitchTell, SwitchGoLive, SwitchReplay,
         Reader, SeeLive, CheckActive, Forward, WarmNotify, OnDead, Notify, Dies, ComesBack, SliceBegins,
         FailbackTick, RotateTick, RotateAnyway, Reassign, ReassignHome, ReassignDefer,
         ExtranonceSubscribe, Submit, CoinAnswers, vars, minerVars, threadVars

\* A mover that is at rest and begins a move leaves the others' alone.
LEMMA ReadersStep == StateOK /\ ReadersOK /\ [Next]_vars => ReadersOK'
<1> SUFFICES ASSUME StateOK, ReadersOK, [Next]_vars PROVE ReadersOK'
  OBVIOUS
<1>1. /\ MoversOK /\ RunOK /\ CoinsOK /\ run \in [Backends -> RunStates] /\ Backends \subseteq Movers
      /\ "failback" \notin Backends /\ "rotate" \notin Backends
      /\ "failback" \in Movers /\ "rotate" \in Movers
  BY RelayAssumption, BackendsMove DEF StateOK, RunOK, RunStates, Movers
<1>2. CASE UNCHANGED <<run, sw>>
  BY <1>2 DEF ReadersOK
<1>3. ASSUME NEW p \in Movers, Switch(p) PROVE ReadersOK'
  <2>1. CASE Finish(p)
    <3>1. Alone(p) /\ sw'[p].pc = "idle" /\ \A b \in Backends : b # p => run'[b] = run[b]
      BY <1>1, <2>1, FinishEffect
    <3> QED
      BY <1>1, <3>1 DEF ReadersOK, Alone
  <2>2. ASSUME NEW where, Onwards(p, where), sw[p].pc # "idle", UNCHANGED run PROVE ReadersOK'
    BY <1>1, <2>2 DEF ReadersOK, Onwards, Alone
  <2>3. CASE SwitchCheck(p)
    <3>1. sw[p].pc # "idle"
      BY <2>3 DEF SwitchCheck
    <3> QED
      BY <2>1, <2>2, <2>3, <3>1, SwitchEffect
  <2>4. CASE SwitchLeave(p) \/ SwitchEnter(p) \/ SwitchTell(p) \/ SwitchGoLive(p)
    <3>1. sw[p].pc # "idle" /\ UNCHANGED run
      BY <2>4 DEF SwitchLeave, SwitchEnter, SwitchTell, SwitchGoLive
    <3> QED
      BY <1>2, <2>2, <2>4, <3>1, SwitchEffect
  <2>5. CASE SwitchReplay(p)
    BY <2>1, <2>5, SwitchEffect
  <2> QED
    BY <1>3, <2>3, <2>4, <2>5 DEF Switch
<1>4. ASSUME NEW b \in Backends, NEW r \in RunStates, run' = [run EXCEPT ![b] = r],
             run[b] \notin {"switch", "failover"}, Alone(b),
             sw'[b].pc # "idle" => sw' = sw \/ r \in {"switch", "failover"}
      PROVE ReadersOK'
  <2> SUFFICES ASSUME NEW c \in Backends, sw'[c].pc # "idle" PROVE run'[c] \in {"switch", "failover"}
    BY DEF ReadersOK
  <2>1. CASE c = b
    BY <1>1, <1>4, <2>1 DEF ReadersOK
  <2>2. CASE c # b
    BY <1>1, <1>4, <2>2 DEF ReadersOK, Alone
  <2> QED
    BY <2>1, <2>2
<1>5. ASSUME NEW b \in Backends,
             SeeLive(b) \/ CheckActive(b) \/ Forward(b) \/ Notify(b) \/ Dies(b) \/ ComesBack(b)
      PROVE ReadersOK'
  <2>1. sw' = sw /\ Alone(b) /\ run[b] \notin {"switch", "failover"}
    BY <1>5 DEF SeeLive, CheckActive, Forward, Notify, Dies, ComesBack, Alone
  <2>2. \E r \in RunStates : run' = [run EXCEPT ![b] = r]
    BY <1>5 DEF SeeLive, CheckActive, Forward, Notify, Dies, ComesBack, RunStates
  <2> QED
    BY <1>4, <2>1, <2>2
<1>6. ASSUME NEW b \in Backends, WarmNotify(b) PROVE ReadersOK'
  <2>1. CASE pending = b
    <3>1. BeginSwitch(b, b) /\ run' = [run EXCEPT ![b] = "switch"] /\ run[b] = "warm"
      BY <1>6, <2>1 DEF WarmNotify
    <3>2. Alone(b)
      BY <1>1, <3>1, BeginEffect
    <3> QED
      BY <1>4, <3>1, <3>2 DEF RunStates
  <2>2. CASE pending # b
    <3>1. sw' = sw /\ run' = [run EXCEPT ![b] = "read"] /\ run[b] = "warm"
      BY <1>6, <2>2 DEF WarmNotify
    <3> QED
      BY <1>4, <3>1 DEF RunStates, Alone
  <2> QED
    BY <2>1, <2>2
<1>7. ASSUME NEW b \in Backends, OnDead(b) PROVE ReadersOK'
  <2> DEFINE next == FirstAlive(Backends \ {b})
  <2>1. next # NoCoin => next \in Backends
    BY FirstAliveIsCoin
  <2> HIDE DEF next
  <2>2. run[b] = "dead" /\ (\/ sw' = sw /\ run' = [run EXCEPT ![b] = "ended"]
                            \/ next # NoCoin /\ BeginSwitch(b, next) /\ run' = [run EXCEPT ![b] = "failover"]
                            \/ UNCHANGED <<run, sw>>)
    BY <1>7 DEF OnDead, next
  <2>3. CASE sw' = sw /\ run' = [run EXCEPT ![b] = "ended"]
    BY <1>4, <2>2, <2>3 DEF RunStates, Alone
  <2>4. CASE next # NoCoin /\ BeginSwitch(b, next) /\ run' = [run EXCEPT ![b] = "failover"]
    <3>1. Alone(b)
      BY <1>1, <2>1, <2>4, BeginEffect
    <3> QED
      BY <1>4, <2>2, <2>4, <3>1 DEF RunStates
  <2> QED
    BY <1>2, <2>2, <2>3, <2>4
<1>8. ASSUME FailbackTick \/ RotateAnyway PROVE ReadersOK'
  <2>1. PICK p \in {"failback", "rotate"}, b \in Backends : BeginSwitch(p, b)
    BY <1>1, <1>8, FirstAliveIsCoin DEF FailbackTick, FailbackTarget, RotateAnyway, CoinsOK
  <2>2. Alone(p) /\ UNCHANGED run
    BY <1>1, <1>8, <2>1, BeginEffect DEF FailbackTick, RotateAnyway
  <2> QED
    BY <1>1, <2>1, <2>2 DEF ReadersOK, Alone
<1> QED
  BY <1>2, <1>3, <1>5, <1>6, <1>7, <1>8
     DEF Next, Reader, SliceBegins, RotateTick, Reassign, ReassignHome, ReassignDefer,
         Subscribe, ExtranonceSubscribe, Authorizing, StartOnAssigned, AuthorizeBackends, FirstJob,
         AuthGoLive, AuthReplay, Authorize, Submit, CoinAnswers, vars, threadVars

\* A coin that is carried still is when nobody makes a coin warm and no mover at
\* work is disturbed.
LEMMA CarriedKept ==
  ASSUME NEW a, Carried(a),
         live[a] => live'[a],
         \A p \in Movers : sw[p].pc \in {"enter", "tell", "golive"} => sw'[p] = sw[p]
  PROVE  Carried(a)'
BY DEF Carried

\* A step of the movers leaves the active coin carried, or moves on.
LEMMA CarriedMove ==
  ASSUME StateOK, NEW p \in Movers, Switch(p), Carried(active) \/ active' # active
  PROVE  Carried(active)'
<1>1. /\ MoversOK /\ RunOK /\ active \in Backends /\ live \in [Backends -> BOOLEAN]
  BY DEF StateOK, RunOK, CoinsOK
<1>2. CASE SwitchLeave(p)
  <2>1. sw'[p].pc = "enter"
    BY <1>2, SwitchEffect DEF Onwards
  <2> QED
    BY <2>1 DEF Carried
<1>3. CASE SwitchEnter(p)
  <2>1. CASE UNCHANGED <<active, sw>>
    BY <1>3, <2>1 DEF SwitchEnter, Carried, backendVars
  <2>2. CASE Onwards(p, "tell") /\ active' = sw[p].target
    BY <2>2 DEF Carried, Onwards
  <2> QED
    BY <1>3, <2>1, <2>2, SwitchEffect
<1>4. CASE ~SwitchLeave(p) /\ ~SwitchEnter(p)
  <2>1. active' = active /\ Carried(active)
    BY <1>4 DEF Switch, SwitchCheck, SwitchTell, SwitchGoLive, SwitchReplay, sessionVars
  <2>2. CASE SwitchCheck(p) \/ SwitchReplay(p)
    <3>1. Alone(p) /\ sw[p].pc \in {"check", "replay"}
      BY <1>1, <2>2, SwitchEffect, FinishEffect DEF SwitchCheck, SwitchReplay, Onwards
    <3>2. live' = live
      BY <2>2 DEF SwitchCheck, SwitchReplay, backendVars
    <3> QED
      BY <2>1, <3>1, <3>2 DEF Carried, Alone
  <2>3. CASE SwitchTell(p)
    <3>1. sw[p].pc = "tell" /\ live' = live /\ Onwards(p, "golive")
      BY <2>3, SwitchEffect DEF SwitchTell, backendVars
    <3> QED
      BY <2>1, <3>1 DEF Carried, Onwards, Alone
  <2>4. CASE SwitchGoLive(p)
    <3>1. /\ sw[p].pc = "golive" /\ Onwards(p, "replay")
          /\ live' = [live EXCEPT ![sw[p].target] = TRUE]
      BY <2>4, SwitchEffect DEF SwitchGoLive
    <3>2. live[active] \/ active = sw[p].target => live'[active]
      BY <1>1, <3>1
    <3>3. \A q \in Movers : q # p => sw'[q] = sw[q]
      BY <3>1 DEF Onwards, Alone
    <3> QED
      BY <2>1, <3>1, <3>2, <3>3 DEF Carried
  <2> QED
    BY <1>4, <2>2, <2>3, <2>4 DEF Switch
<1> QED
  BY <1>2, <1>3, <1>4

LEMMA CarriedStep == LiveInv /\ [Next]_vars => CarriedOK'
<1> SUFFICES ASSUME LiveInv, [Next]_vars PROVE CarriedOK'
  OBVIOUS
<1>1. /\ StateOK /\ AuthorizingOK /\ ReadersOK /\ CarriedOK
      /\ MoversOK /\ RunOK /\ CoinsOK /\ Backends \subseteq Movers
      /\ active \in Backends /\ live \in [Backends -> BOOLEAN]
  BY BackendsMove DEF LiveInv, StateOK, CoinsOK, RunOK
<1>2. CASE UNCHANGED <<active, live, sw, phase, auth>>
  BY <1>1, <1>2 DEF CarriedOK, Carried
\* A move: active only changes to the target of the mover that carries it.
<1>3. ASSUME NEW p \in Movers, Switch(p) PROVE CarriedOK'
  <2>1. UNCHANGED <<phase, auth>>
    BY <1>3 DEF Switch, SwitchCheck, SwitchLeave, SwitchEnter, SwitchTell, SwitchGoLive, SwitchReplay, minerVars
  <2>2. Carried(active) \/ active' # active => Carried(active)'
    BY <1>1, <1>3, CarriedMove
  <2> QED
    BY <1>1, <2>1, <2>2 DEF CarriedOK
\* A mover at rest begins a move.
<1>4. ASSUME NEW p \in Movers, sw[p].pc = "idle", Alone(p), UNCHANGED <<active, live, phase, auth>>
      PROVE CarriedOK'
  <2>1. Carried(active) => Carried(active)'
    BY <1>4, CarriedKept DEF Alone, Carried
  <2> QED
    BY <1>1, <1>4, <2>1 DEF CarriedOK
<1>5. ASSUME NEW b \in Backends, WarmNotify(b) \/ OnDead(b) PROVE CarriedOK'
  <2>1. UNCHANGED <<active, live, phase, auth>>
    BY <1>5 DEF WarmNotify, OnDead, sessionVars, backendVars, minerVars
  <2>2. sw[b].pc = "idle"
    BY <1>1, <1>5 DEF WarmNotify, OnDead, ReadersOK
  <2>3. Alone(b)
    BY <1>1, <1>5, BeginEffect, FirstAliveIsCoin DEF WarmNotify, OnDead, Alone
  <2> QED
    BY <1>1, <1>4, <2>1, <2>2, <2>3
<1>6. ASSUME FailbackTick \/ RotateAnyway PROVE CarriedOK'
  <2>1. PICK p \in {"failback", "rotate"}, b \in Backends : BeginSwitch(p, b) /\ sw[p].pc = "idle"
    BY <1>1, <1>6, FirstAliveIsCoin DEF FailbackTick, FailbackTarget, RotateAnyway, CoinsOK
  <2>2. p \in Movers /\ Alone(p)
    BY <1>1, <2>1, BeginEffect DEF Movers
  <2>3. UNCHANGED <<active, live, phase, auth>>
    BY <1>6 DEF FailbackTick, RotateAnyway, sessionVars, backendVars, minerVars
  <2> QED
    BY <1>4, <2>1, <2>2, <2>3
\* authorize.
<1>7. ASSUME Subscribe \/ Authorize(stored) \/ StartOnAssigned PROVE CarriedOK'
  <2>1. auth'.pc \in {"idle", "start", "choose"} /\ phase' # "mining"
    BY <1>1, <1>7 DEF Subscribe, Authorize, StartOnAssigned, NoAuth, AuthorizingOK, minerVars, threadVars
  <2> QED
    BY <2>1 DEF CarriedOK
<1>8. ASSUME AuthorizeBackends \/ FirstJob PROVE CarriedOK'
  <2>1. UNCHANGED <<active, live, sw, phase>> /\ (Carried(active) => Carried(active)')
    BY <1>8 DEF AuthorizeBackends, FirstJob, backendVars, minerVars, Carried
  <2>2. phase # "mining"
    BY <1>1, <1>8 DEF AuthorizeBackends, FirstJob, AuthorizingOK
  <2>3. auth \in Authorizes /\ NoAuth \in Authorizes
    BY <1>1 DEF StateOK, AuthOK, Authorizes, NoAuth
  <2>4. CASE auth' = [NoAuth EXCEPT !.pc = "await", !.b = active]
    <3>1. auth'.pc = "await" /\ auth'.b = active
      BY <2>3, <2>4 DEF Authorizes
    <3> QED
      BY <2>1, <2>2, <3>1 DEF CarriedOK
  <2>5. CASE auth.pc = "await" /\ auth' = [auth EXCEPT !.pc = "golive"]
    <3>1. auth'.pc = "golive" /\ auth'.b = auth.b
      BY <2>3, <2>5 DEF Authorizes
    <3> QED
      BY <1>1, <2>1, <2>2, <2>5, <3>1 DEF CarriedOK
  <2> QED
    BY <1>2, <1>8, <2>1, <2>4, <2>5 DEF AuthorizeBackends, FirstJob
<1>9. ASSUME AuthGoLive PROVE CarriedOK'
  <2>1. /\ UNCHANGED <<active, sw>> /\ auth.pc = "golive" /\ auth'.pc = "replay"
        /\ live' = [live EXCEPT ![auth.b] = TRUE]
    BY <1>9 DEF AuthGoLive, sessionVars
  <2>2. active = auth.b \/ Carried(active)
    BY <1>1, <2>1 DEF CarriedOK
  <2>3. live[active] \/ active = auth.b => live'[active]
    BY <1>1, <2>1
  <2>4. Carried(active)'
    BY <2>1, <2>2, <2>3 DEF Carried
  <2> QED
    BY <2>1, <2>4 DEF CarriedOK
<1>10. ASSUME AuthReplay PROVE CarriedOK'
  <2>1. Carried(active) /\ UNCHANGED <<active, live, sw>> /\ auth'.pc = "idle"
    BY <1>1, <1>10 DEF AuthReplay, CarriedOK, NoAuth, backendVars
  <2>2. Carried(active)'
    BY <2>1 DEF Carried
  <2> QED
    BY <2>1, <2>2 DEF CarriedOK
<1> QED
  BY <1>2, <1>3, <1>5, <1>6, <1>7, <1>8, <1>9, <1>10
     DEF Next, Reader, SeeLive, CheckActive, Forward, Notify, Dies, ComesBack, SliceBegins,
         RotateTick, Reassign, ReassignHome, ReassignDefer, ExtranonceSubscribe, Authorizing,
         Submit, CoinAnswers, vars, sessionVars, backendVars, minerVars, threadVars

\* Once no mover is in the middle of a move, the active coin's jobs are forwarded
\* (switchTo, authorize), however many goroutines move the miner at once.
THEOREM ActiveIsLiveCorrect == Spec => []ActiveIsLive
<1>1. Init => LiveInv
  <2> SUFFICES ASSUME Init PROVE LiveInv
    OBVIOUS
  <2>1. AuthorizingOK /\ ReadersOK /\ CarriedOK
    BY BackendsMove DEF Init, AuthorizingOK, ReadersOK, CarriedOK, NoAuth, NotMoving
  <2> QED
    BY <2>1, StateInit DEF LiveInv
<1>2. LiveInv /\ [Next]_vars => LiveInv'
  BY StateNext, AuthorizingStep, ReadersStep, CarriedStep DEF LiveInv
<1>3. LiveInv => ActiveIsLive
  BY DEF LiveInv, CarriedOK, Carried, ActiveIsLive, SwitchUnderWay
<1> QED
  BY <1>1, <1>2, <1>3, PTL DEF Spec
=============================================================================

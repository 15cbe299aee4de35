-------------------------- MODULE EngineLifeProofs --------------------------
(* Theorems about EngineLife, for any configurations and any number of edits,   *)
(* outages and reloads: see the README for the argument.                       *)
EXTENDS EngineLife, FiniteSetTheorems, TLAPS

Starting == {"bind", "template", "register"}
Stopping == {"close", "closing", "delete"}

\* Who may touch an instance: one that is being started is known to its caller only,
\* one that is being closed is closed by one caller, and the stage of an instance is
\* the one its callers left it in.
Owns(p) ==
  /\ call[p].pc \in Starting \cup Stopping <=> call[p].mine # NoRunner
  /\ call[p].pc \in Starting =>
       /\ call[p].mine # runner
       /\ \A q \in Callers \ {p} : call[q].mine # call[p].mine
  /\ call[p].pc = "bind"     => stage[call[p].mine] = "down"
  /\ call[p].pc = "template" => stage[call[p].mine] = "bound"
  /\ call[p].pc = "register" => stage[call[p].mine] = "running"
  /\ call[p].pc = "closing"  => stage[call[p].mine] = "closing"
  /\ call[p].pc = "delete"   => stage[call[p].mine] = "down"
  /\ \A q \in Callers \ {p} :
       call[p].pc = "closing" /\ call[q].pc = "closing" => call[p].mine # call[q].mine

OwnerInv == \A p \in Callers : Owns(p)

\* An instance has a port exactly while it is up, and no two have the same.
PortInv ==
  \A i \in Ids :
    /\ stage[i] = "down" <=> port[i] = NoPort
    /\ \A j \in Ids : port[i] # NoPort /\ port[i] = port[j] => i = j

LEMMA InitOwner == Init => OwnerInv /\ PortInv
BY DEF Init, OwnerInv, PortInv, Owns, Idle, NoRunner, Starting, Stopping

LEMMA NotId == NoRunner \notin Ids
BY DEF NoRunner, Ids

LEMMA IdsFinite == IsFiniteSet(Ids) /\ Cardinality(Ids) = Cardinality(Ports) + 5 /\ Cardinality(Ports) \in Nat
<1>1. Cardinality(Ports) \in Nat
  BY LifeAssumption, FS_CardinalityType
<1> QED
  BY <1>1, FS_Interval, SMTT(20) DEF Ids

LEMMA OneMore ==
  ASSUME NEW S, IsFiniteSet(S), NEW x, NEW n \in Nat, Cardinality(S) <= n
  PROVE  IsFiniteSet(S \cup {x}) /\ Cardinality(S \cup {x}) <= n + 1 /\ n + 1 \in Nat
<1>1. Cardinality(S) \in Nat
  BY FS_CardinalityType
<1>2. IsFiniteSet(S \cup {x}) /\ Cardinality(S \cup {x}) = IF x \in S THEN Cardinality(S) ELSE Cardinality(S) + 1
  BY FS_AddElement
<1> QED
  BY <1>1, <1>2

\* An instance on every port, one registered and three that the other callers hold leave
\* one unused.
LEMMA UnusedExists ==
  ASSUME TypeOK, OwnerInv, PortInv, NEW p \in Callers, call[p].mine = NoRunner
  PROVE  NewRunner \in Unused
<1>1. \E i \in Ids : i \in Unused
  <2> DEFINE Up == {i \in Ids : port[i] # NoPort}
  <2>1. IsFiniteSet(Up) /\ Cardinality(Up) <= Cardinality(Ports)
    <3>1. [i \in Up |-> port[i]] \in Injection(Up, Ports)
      BY DEF PortInv, TypeOK, Injection, IsInjective
    <3> QED
      BY <3>1, FS_Injection, LifeAssumption
  <2>2. PICK q1 \in Callers, q2 \in Callers, q3 \in Callers : Callers = {p, q1, q2, q3}
    <3>1. p = "watch" \/ p = "retry" \/ p = "reload" \/ p = "stall"
      BY DEF Callers
    <3> QED
      BY <3>1 DEF Callers
  <2> DEFINE Taken == (((Up \cup {runner}) \cup {call[q1].mine}) \cup {call[q2].mine}) \cup {call[q3].mine}
  <2>3. IsFiniteSet(Taken) /\ Cardinality(Taken) <= Cardinality(Ports) + 4
    <3> DEFINE A == Up \cup {runner}  B == A \cup {call[q1].mine}  C == B \cup {call[q2].mine}
               n == Cardinality(Ports)
    <3> HIDE DEF Up, n
    <3>1. IsFiniteSet(Up) /\ Cardinality(Up) <= n /\ n \in Nat /\ n + 1 \in Nat /\ n + 2 \in Nat /\ n + 3 \in Nat
      BY <2>1, IdsFinite DEF n
    <3>2. IsFiniteSet(A) /\ Cardinality(A) <= n + 1
      BY <3>1, OneMore
    <3> HIDE DEF A
    <3>3. IsFiniteSet(B) /\ Cardinality(B) <= (n + 1) + 1
      BY <3>1, <3>2, OneMore
    <3> HIDE DEF B
    <3>4. IsFiniteSet(C) /\ Cardinality(C) <= ((n + 1) + 1) + 1
      BY <3>1, <3>3, OneMore
    <3> HIDE DEF C
    <3>5. IsFiniteSet(C \cup {call[q3].mine}) /\ Cardinality(C \cup {call[q3].mine}) <= (((n + 1) + 1) + 1) + 1
      BY <3>1, <3>4, OneMore
    <3> QED
      BY <3>1, <3>5, FS_CardinalityType DEF A, B, C, n
  <2>4. \E i \in Ids : i \notin Taken
    <3> SUFFICES ASSUME \A i \in Ids : i \in Taken PROVE FALSE
      OBVIOUS
    <3>1. Ids \in SUBSET Taken
      OBVIOUS
    <3> HIDE DEF Taken
    <3>2. Cardinality(Ids) <= Cardinality(Taken)
      BY <2>3, <3>1, FS_Subset
    <3> QED
      BY <2>3, <3>2, IdsFinite, FS_CardinalityType
  <2>5. \A i \in Ids : i \notin Taken => i \in Unused
    <3>1. \A i \in Ids : i # NoRunner
      BY DEF Ids, NoRunner
    <3> QED
      BY <2>2, <3>1 DEF PortInv, Unused
  <2> QED
    BY <2>4, <2>5
<1> QED
  BY <1>1 DEF NewRunner
-----------------------------------------------------------------------------
(* Types *)

\* Only an enabled configuration gets as far as being recorded.
CfgInv ==
  \A p \in Callers :
    /\ call[p].pc \in {"handle", "start", "bind"} \/ call[p].restart => call[p].cfg # NoFile
    /\ call[p].pc \in {"decide", "record"} => call[p].cfg \in Configs

\* A step of one caller leaves the others' records alone.
Alone(p) == call' \in [Callers -> Call] /\ \A q \in Callers \ {p} : call'[q] = call[q]
After(p, w, i) ==
  call'[p].pc = w /\ call'[p].mine = i /\ call'[p].cfg = call[p].cfg /\ call'[p].restart = call[p].restart

LEMMA GotoType ==
  ASSUME call \in [Callers -> Call], NEW p \in Callers, NEW w \in Steps, Goto(p, w)
  PROVE  Alone(p) /\ After(p, w, call[p].mine)
BY DEF Call, Goto, Alone, After

LEMMA HoldType ==
  ASSUME call \in [Callers -> Call], NEW p \in Callers, NEW w \in Steps,
         NEW i \in Ids \cup {NoRunner}, Hold(p, w, i)
  PROVE  Alone(p) /\ After(p, w, i)
BY DEF Call, Hold, Alone, After

LEMMA ReturnType ==
  ASSUME call \in [Callers -> Call], NEW p \in Callers, Return(p)
  PROVE  Alone(p) /\ call'[p] = Idle
BY DEF Call, Return, Idle, Steps, Alone

LEMMA RecordType ==
  ASSUME call \in [Callers -> Call], NEW p \in Callers, NEW r \in BOOLEAN, Record(p, r)
  PROVE  /\ Alone(p) /\ call'[p] = [call[p] EXCEPT !.pc = "record", !.restart = r]
         /\ call'[p].pc = "record" /\ call'[p].mine = call[p].mine
<1>1. call' = [call EXCEPT ![p] = [@ EXCEPT !.pc = "record", !.restart = r]]
  BY DEF Record, Call
<1>2. [call[p] EXCEPT !.pc = "record", !.restart = r] \in Call
  BY DEF Call, Steps
<1>3. call' \in [Callers -> Call] /\ call'[p] = [call[p] EXCEPT !.pc = "record", !.restart = r]
  BY <1>1, <1>2
<1>4. Alone(p)
  BY <1>1, <1>3 DEF Alone
<1> QED
  BY <1>3, <1>4 DEF Call

LEMMA BeginType ==
  ASSUME call \in [Callers -> Call], NEW p \in Callers, NEW w \in Steps,
         NEW c \in Configs \cup {Disabled, NoFile}, NEW r \in BOOLEAN, Begin(p, w, c, r)
  PROVE  Alone(p) /\ call'[p] = [pc |-> w, cfg |-> c, mine |-> NoRunner, restart |-> r]
BY DEF Call, Begin, Alone

LEMMA InitTypeOK == Init => TypeOK /\ CfgInv
<1> SUFFICES ASSUME Init PROVE TypeOK /\ CfgInv
  OBVIOUS
<1>1. call \in [Callers -> Call] /\ CfgInv
  BY DEF Init, Call, Idle, Steps, CfgInv
<1>2. /\ stage \in [Ids -> {"down"}] /\ stalled \in [Ids -> {FALSE}] /\ port \in [Ids -> {NoPort}]
      /\ events \in Seq({"write", "remove"}) /\ Len(events) <= edits
      /\ edits \in 0..MaxEdits /\ outages \in 0..MaxOutages /\ reloads \in 0..MaxReloads
  BY LifeAssumption DEF Init
<1> QED
  BY <1>1, <1>2 DEF Init, TypeOK

\* Every step of a caller keeps its record well typed.
LEMMA CallerType ==
  ASSUME TypeOK, OwnerInv, PortInv, CfgInv, NEW p \in Callers, CallerStep(p)
  PROVE  call' \in [Callers -> Call]
<1> USE GotoType, HoldType, ReturnType, RecordType DEF StopReturns, Alone
<1>1. call \in [Callers -> Call]
  BY DEF TypeOK
<1>2. /\ {"stop", "decide", "start", "close", "closing", "delete", "bind", "template", "register"}
           \subseteq Steps
      /\ NoRunner \in Ids \cup {NoRunner} /\ runner \in Ids \cup {NoRunner}
  BY DEF Steps, TypeOK
<1>3. CASE CheckNode(p)
  BY <1>1, <1>2, <1>3 DEF CheckNode
<1>4. CASE Decide(p)
  BY <1>1, <1>2, <1>4 DEF Decide
<1>5. CASE RecordSig(p)
  BY <1>1, <1>2, <1>5 DEF RecordSig
<1>6. CASE StopLookup(p) \/ DeleteRunner(p)
  BY <1>1, <1>2, <1>6 DEF StopLookup, DeleteRunner
<1>7. CASE CloseRunner(p) \/ RunnerStopped(p)
  BY <1>1, <1>2, <1>7 DEF CloseRunner, RunnerStopped
<1>8. CASE Panic(p)
  BY <1>8 DEF Panic, Idle, Call, Steps
<1>9. CASE StartCoin(p)
  <2>1. call[p].mine = NoRunner
    BY <1>9 DEF StartCoin, OwnerInv, Owns, Starting, Stopping
  <2>2. NewRunner \in Ids
    BY <2>1, UnusedExists DEF Unused
  <2> QED
    BY <1>1, <1>2, <1>9, <2>2 DEF StartCoin
<1>10. CASE BindServer(p) \/ FirstTemplate(p) \/ RegisterRunner(p)
  BY <1>1, <1>2, <1>10 DEF BindServer, FirstTemplate, RegisterRunner
<1> QED
  BY <1>3, <1>4, <1>5, <1>6, <1>7, <1>8, <1>9, <1>10 DEF CallerStep

LEMMA NextTypeOK == TypeOK /\ OwnerInv /\ PortInv /\ CfgInv /\ [Next]_vars => TypeOK'
<1> SUFFICES ASSUME TypeOK, OwnerInv, PortInv, CfgInv, [Next]_vars PROVE TypeOK'
  OBVIOUS
<1> USE LifeAssumption DEF TypeOK, envVars, runnerVars
<1>1. ASSUME NEW c \in Configs \cup {Disabled, NoFile}, EditFile(c) PROVE TypeOK'
  BY <1>1 DEF EditFile
<1>2. ASSUME NEW n \in NodeStates, NodeChanges(n) PROVE TypeOK'
  BY <1>2 DEF NodeChanges
<1>3. CASE SecondPasses
  BY <1>3 DEF SecondPasses
<1>4. CASE WatchEvent
  <2>1. events' \in Seq({"write", "remove"}) /\ Len(events') <= edits
    BY <1>4 DEF WatchEvent
  <2>2. call' \in [Callers -> Call]
    BY <1>4, BeginType DEF WatchEvent, Callers, Steps, Alone
  <2> QED
    BY <1>4, <2>1, <2>2 DEF WatchEvent
<1>5. CASE RetryTick \/ ReloadCoinBySymbol
  <2>1. call' \in [Callers -> Call]
    BY <1>5, BeginType DEF RetryTick, ReloadCoinBySymbol, Callers, Steps, Alone
  <2>2. CASE RetryTick
    BY <2>1, <2>2 DEF RetryTick
  <2>3. CASE ReloadCoinBySymbol
    <3>1. reloads' \in 0..MaxReloads
      BY <2>3 DEF ReloadCoinBySymbol
    <3> QED
      BY <2>1, <2>3, <3>1 DEF ReloadCoinBySymbol
  <2> QED
    BY <1>5, <2>2, <2>3
<1>6. ASSUME NEW i \in Ids, StallHandler(i) \/ PollSucceeds(i) PROVE TypeOK'
  <2>1. call' \in [Callers -> Call]
    BY <1>6, BeginType DEF StallHandler, PollSucceeds, Callers, Steps, Alone
  <2> QED
    BY <1>6, <2>1 DEF StallHandler, PollSucceeds
<1>7. ASSUME NEW p \in Callers, CallerStep(p) PROVE TypeOK'
  <2>1. call' \in [Callers -> Call]
    BY <1>7, CallerType
  <2>2. UNCHANGED envVars
    BY <1>7 DEF CallerStep, CheckNode, Decide, RecordSig, StopLookup, CloseRunner, Panic,
                RunnerStopped, DeleteRunner, StartCoin, BindServer, FirstTemplate, RegisterRunner
  <2>3. sig' \in Configs \cup {NoFile}
    BY <1>7 DEF CallerStep, CheckNode, Decide, RecordSig, StopLookup, CloseRunner, Panic,
                RunnerStopped, DeleteRunner, StartCoin, BindServer, FirstTemplate, RegisterRunner, CfgInv
  <2>4. runner' \in Ids \cup {NoRunner}
    BY <1>7 DEF CallerStep, CheckNode, Decide, RecordSig, StopLookup, CloseRunner, Panic,
                RunnerStopped, DeleteRunner, StartCoin, BindServer, FirstTemplate, RegisterRunner, Call
  <2>5. /\ stage' \in [Ids -> {"down", "bound", "running", "closing"}]
        /\ stalled' \in [Ids -> BOOLEAN] /\ crashed' \in BOOLEAN /\ crossed' \in BOOLEAN
    <3>1. stage' \in [Ids -> {"down", "bound", "running", "closing"}]
      BY <1>7 DEF CallerStep, CheckNode, Decide, RecordSig, StopLookup, CloseRunner, Panic,
                  RunnerStopped, DeleteRunner, StartCoin, BindServer, FirstTemplate, RegisterRunner
    <3>2. stalled' \in [Ids -> BOOLEAN]
      BY <1>7 DEF CallerStep, CheckNode, Decide, RecordSig, StopLookup, CloseRunner, Panic,
                  RunnerStopped, DeleteRunner, StartCoin, BindServer, FirstTemplate, RegisterRunner
    <3>3. crashed' \in BOOLEAN /\ crossed' \in BOOLEAN
      BY <1>7 DEF CallerStep, CheckNode, Decide, RecordSig, StopLookup, CloseRunner, Panic,
                  RunnerStopped, DeleteRunner, StartCoin, BindServer, FirstTemplate, RegisterRunner
    <3> QED
      BY <3>1, <3>2, <3>3
  <2>6. port' \in [Ids -> Ports \cup {NoPort}]
    <3>1. ASSUME BindServer(p) PROVE Port[call[p].cfg] \in Ports
      BY <1>7, <3>1 DEF BindServer, CfgInv, Call
    <3> QED
      BY <1>7, <3>1 DEF CallerStep, CheckNode, Decide, RecordSig, StopLookup, CloseRunner, Panic,
                RunnerStopped, DeleteRunner, StartCoin, BindServer, FirstTemplate, RegisterRunner
  <2> QED
    BY <2>1, <2>2, <2>3, <2>4, <2>5, <2>6
<1>8. CASE UNCHANGED vars
  BY <1>8 DEF vars
<1> QED
  BY <1>1, <1>2, <1>3, <1>4, <1>5, <1>6, <1>7, <1>8 DEF Next
LEMMA NextCfg == TypeOK /\ CfgInv /\ [Next]_vars => CfgInv'
<1> SUFFICES ASSUME TypeOK, CfgInv, [Next]_vars PROVE CfgInv'
  OBVIOUS
<1> USE DEF CfgInv
<1>1. ASSUME call' = call PROVE CfgInv'
  BY <1>1
<1>2. ASSUME NEW p \in Callers, Alone(p),
             call'[p].pc \in {"handle", "start", "bind"} \/ call'[p].restart => call'[p].cfg # NoFile,
             call'[p].pc \in {"decide", "record"} => call'[p].cfg \in Configs
      PROVE  CfgInv'
  BY <1>2 DEF Alone
<1>3. /\ call \in [Callers -> Call] /\ file \in Configs \cup {Disabled, NoFile}
      /\ Idle.pc = "idle" /\ Idle.restart = FALSE /\ NoFile \notin Configs
  BY LifeAssumption DEF TypeOK, Idle
<1>4. ASSUME NEW p \in Callers, NEW w \in {"handle", "stop"}, NEW c \in Configs \cup {Disabled, NoFile},
             NEW r \in BOOLEAN, Begin(p, w, c, r), c # NoFile \/ (w = "stop" /\ r = FALSE)
      PROVE  CfgInv'
  <2>1. Alone(p) /\ call'[p] = [pc |-> w, cfg |-> c, mine |-> NoRunner, restart |-> r]
    BY <1>3, <1>4, BeginType DEF Steps
  <2> QED
    BY <1>2, <1>4, <2>1
<1>5. CASE WatchEvent \/ RetryTick \/ ReloadCoinBySymbol \/ \E i \in Ids : StallHandler(i) \/ PollSucceeds(i)
  BY <1>1, <1>3, <1>4, <1>5 DEF WatchEvent, RetryTick, ReloadCoinBySymbol, StallHandler, PollSucceeds, Callers
<1>6. ASSUME NEW p \in Callers, CheckNode(p) PROVE CfgInv'
  <2>1. call[p].cfg # Disabled => call[p].cfg \in Configs
    BY <1>3, <1>6 DEF CheckNode, Call
  <2> QED
    BY <1>2, <1>3, <1>6, <2>1, GotoType, ReturnType DEF CheckNode, After, Steps
<1>7. ASSUME NEW p \in Callers, Decide(p) PROVE CfgInv'
  <2>1. CASE Return(p)
    BY <1>2, <1>3, <2>1, ReturnType
  <2>2. CASE Record(p, runner # NoRunner)
    <3>1. Alone(p) /\ call'[p] = [call[p] EXCEPT !.pc = "record", !.restart = (runner # NoRunner)]
      BY <1>3, <2>2, RecordType
    <3>2. call'[p].pc = "record" /\ call'[p].cfg \in Configs
      BY <1>3, <1>7, <3>1 DEF Decide, Call
    <3> QED
      BY <1>2, <1>3, <3>1, <3>2
  <2> QED
    BY <1>7, <2>1, <2>2 DEF Decide
<1>13. ASSUME NEW p \in Callers, RecordSig(p) PROVE CfgInv'
  BY <1>2, <1>3, <1>13, GotoType DEF RecordSig, After, Steps
<1>8. ASSUME NEW p \in Callers, StopLookup(p) \/ DeleteRunner(p) PROVE CfgInv'
  <2>1. runner \in Ids \cup {NoRunner}
    BY DEF TypeOK
  <2> QED
    BY <1>2, <1>3, <1>8, <2>1, HoldType, ReturnType DEF StopLookup, DeleteRunner, StopReturns, After, Steps
<1>9. ASSUME NEW p \in Callers, CloseRunner(p) \/ RunnerStopped(p) PROVE CfgInv'
  BY <1>2, <1>3, <1>9, GotoType DEF CloseRunner, RunnerStopped, After, Steps
<1>10. ASSUME NEW p \in Callers, Panic(p) PROVE CfgInv'
  BY <1>10 DEF Panic, Idle
<1>11. ASSUME NEW p \in Callers, StartCoin(p) PROVE CfgInv'
  BY <1>11 DEF StartCoin, Hold, Return, Idle, TypeOK, Call
<1>12. ASSUME NEW p \in Callers, BindServer(p) \/ FirstTemplate(p) \/ RegisterRunner(p) PROVE CfgInv'
  BY <1>2, <1>3, <1>12, GotoType, ReturnType DEF BindServer, FirstTemplate, RegisterRunner, After, Steps
<1> QED
  BY <1>1, <1>5, <1>6, <1>7, <1>8, <1>9, <1>10, <1>11, <1>12, <1>13
     DEF Next, CallerStep, EditFile, NodeChanges, SecondPasses, vars

-----------------------------------------------------------------------------
(* Who serves *)

\* What a step of caller p on instance i must keep, for the others' claims to hold.
LEMMA OwnerStep ==
  ASSUME TypeOK, OwnerInv, NEW p \in Callers, Alone(p), Owns(p)',
         \A q \in Callers \ {p} :
           /\ call[q].pc \in Starting \cup {"closing", "delete"} =>
                stage'[call[q].mine] = stage[call[q].mine]
           /\ call[q].pc \in Starting => call[q].mine # runner' /\ call[q].mine # call'[p].mine
  PROVE  OwnerInv'
<1> SUFFICES ASSUME NEW q \in Callers \ {p} PROVE Owns(q)'
  BY DEF OwnerInv
<1>1. Owns(q) /\ call'[q] = call[q]
  BY DEF OwnerInv, Alone
<1>2. ASSUME call[q].pc \in Starting PROVE \A r \in Callers \ {q} : call'[r].mine # call[q].mine
  BY <1>1, <1>2 DEF Owns, Alone
<1>3. ASSUME NEW r \in Callers \ {q}, call[q].pc = "closing", call'[r].pc = "closing"
      PROVE  call'[r].mine # call[q].mine
  <2>1. CASE r = p
    BY <1>1, <1>3, <2>1 DEF Owns
  <2>2. CASE r # p
    BY <1>1, <1>3, <2>2 DEF Owns, Alone
  <2> QED
    BY <2>1, <2>2
<1> QED
  BY <1>1, <1>2, <1>3 DEF Owns, Starting, Stopping
\* A caller that is between two instances, or done with one, claims none.
LEMMA OwnerFree ==
  ASSUME TypeOK, OwnerInv, NEW p \in Callers, Alone(p), runner' \in {runner, NoRunner}, stage' = stage,
         call'[p].mine = NoRunner, call'[p].pc \notin Starting \cup Stopping
  PROVE  OwnerInv'
<1>1. Owns(p)'
  BY DEF Owns, Starting, Stopping
<1>2. \A q \in Callers \ {p} : call[q].pc \in Starting => call[q].mine # runner /\ call[q].mine # NoRunner
  BY DEF OwnerInv, Owns, Starting
<1> QED
  BY <1>1, <1>2, OwnerStep DEF OwnerInv

\* The caller's own claim on its instance, and what an instance under way may be.
LEMMA Claimed ==
  ASSUME TypeOK, OwnerInv, NEW p \in Callers, call[p].pc \in Starting \cup Stopping
  PROVE  call[p].mine \in Ids /\ Owns(p)
BY DEF TypeOK, OwnerInv, Owns, Call

\* Instances that different callers claim.
LEMMA Apart ==
  ASSUME TypeOK, OwnerInv, NEW p \in Callers, NEW q \in Callers \ {p},
         call[p].pc \in Starting \/ (call[p].pc = "close" /\ stage[call[p].mine] = "running")
           \/ call[p].pc = "closing",
         call[q].pc \in Starting \cup {"closing", "delete"}
  PROVE  call[q].mine # call[p].mine
<1>1. Owns(p) /\ Owns(q)
  BY DEF OwnerInv
<1> QED
  BY <1>1 DEF Owns, Starting, Stopping

\* StopLookup finds the runner.
LEMMA OwnerLookup ==
  ASSUME TypeOK, OwnerInv, NEW p \in Callers, StopLookup(p), runner # NoRunner
  PROVE  OwnerInv'
<1>1. Alone(p) /\ After(p, "close", runner) /\ stage' = stage /\ runner' = runner
  BY HoldType DEF StopLookup, TypeOK, Steps, runnerVars
<1>2. Owns(p)'
  BY <1>1 DEF Owns, After, Starting, Stopping
<1>3. \A q \in Callers \ {p} : call[q].pc \in Starting => call[q].mine # runner
  BY DEF OwnerInv, Owns
<1> QED
  BY <1>1, <1>2, <1>3, OwnerStep DEF OwnerInv, After

\* The one who finds it running closes it, and waits for it.
LEMMA OwnerClosing ==
  ASSUME TypeOK, OwnerInv, NEW p \in Callers, CloseRunner(p) \/ RunnerStopped(p)
  PROVE  OwnerInv'
<1> DEFINE i == call[p].mine
<1>1. /\ Alone(p) /\ runner' = runner /\ i \in Ids /\ Owns(p)
      /\ \/ /\ call[p].pc = "close" /\ After(p, "closing", i)
            /\ stage[i] = "running" /\ stage' = [stage EXCEPT ![i] = "closing"]
         \/ /\ call[p].pc = "closing" /\ After(p, "delete", i)
            /\ stage' = [stage EXCEPT ![i] = "down"]
  BY GotoType, Claimed DEF CloseRunner, RunnerStopped, TypeOK, Steps, Stopping
<1>2. \A q \in Callers \ {p} : call[q].pc \in Starting \cup {"closing", "delete"} => call[q].mine # i
  BY <1>1, Apart
<1>4. \A q \in Callers \ {p} : call[q].pc \in Starting \cup {"closing", "delete"} =>
        stage'[call[q].mine] = stage[call[q].mine]
  BY <1>1, <1>2, Claimed DEF Stopping, TypeOK
<1>5. \A q \in Callers \ {p} : call[q].pc \in Starting => call[q].mine # runner
  BY DEF OwnerInv, Owns
<1>6. \A q \in Callers \ {p} : call[q].pc = "closing" => call[q].mine # i
  BY <1>2
<1>7. Owns(p)'
  <2>1. /\ call'[p].mine = i /\ i # NoRunner /\ call'[p].pc \in {"closing", "delete"}
        /\ call'[p].pc = "closing" => stage'[i] = "closing"
        /\ call'[p].pc = "delete" => stage'[i] = "down"
    BY <1>1, NotId DEF After, TypeOK
  <2>2. \A q \in Callers \ {p} : call'[q] = call[q]
    BY <1>1 DEF Alone
  <2> QED
    BY <1>6, <2>1, <2>2 DEF Owns, Starting, Stopping
<1> QED
  BY <1>1, <1>2, <1>4, <1>5, <1>7, OwnerStep DEF OwnerInv, After

\* StartCoin takes an instance nobody refers to.
LEMMA OwnerStarts ==
  ASSUME TypeOK, OwnerInv, PortInv, NEW p \in Callers, StartCoin(p), runner = NoRunner
  PROVE  OwnerInv'
<1>1. call[p].mine = NoRunner
  BY DEF StartCoin, OwnerInv, Owns, Starting, Stopping
<1>2. /\ NewRunner \in Ids /\ stage[NewRunner] = "down" /\ NewRunner # runner
      /\ \A q \in Callers : call[q].mine # NewRunner
  BY <1>1, UnusedExists DEF Unused
<1> HIDE DEF NewRunner
<1>3. Alone(p) /\ After(p, "bind", NewRunner) /\ stage' = stage /\ runner' = runner
  BY <1>2, HoldType DEF StartCoin, TypeOK, Steps, runnerVars
<1>5. Owns(p)'
  BY <1>2, <1>3 DEF Owns, After, Alone, Starting, Stopping, Ids, NoRunner
<1>6. \A q \in Callers \ {p} : call[q].pc \in Starting => call[q].mine # runner
  BY DEF OwnerInv, Owns
<1> QED
  BY <1>2, <1>3, <1>5, <1>6, OwnerStep DEF OwnerInv, After
\* A start goes on, or is given up.
LEMMA OwnerRises ==
  ASSUME TypeOK, OwnerInv, NEW p \in Callers,
         BindServer(p) \/ FirstTemplate(p) \/ RegisterRunner(p)
  PROVE  OwnerInv'
<1> DEFINE i == call[p].mine
<1>1. i \in Ids /\ i # NoRunner /\ Owns(p) /\ call[p].pc \in Starting /\ call \in [Callers -> Call]
  BY Claimed DEF BindServer, FirstTemplate, RegisterRunner, Starting, Ids, NoRunner, TypeOK
<1>2. \A q \in Callers \ {p} : call[q].pc \in Starting \cup {"closing", "delete"} => call[q].mine # i
  BY <1>1, Apart
<1>3. \A q \in Callers \ {p} : call[q].pc \in Starting => call[q].mine # runner
  BY DEF OwnerInv, Owns
<1>4. ASSUME NEW to \in {"down", "bound", "running"}, stage' = [stage EXCEPT ![i] = to]
      PROVE  /\ \A q \in Callers \ {p} : call[q].pc \in Starting \cup {"closing", "delete"} =>
                   stage'[call[q].mine] = stage[call[q].mine]
             /\ stage'[i] = to
  BY <1>1, <1>2, <1>4, Claimed DEF Stopping, TypeOK
<1>5. ASSUME Alone(p), After(p, "template", i) \/ After(p, "register", i) \/ call'[p] = Idle,
             runner' = runner,
             call'[p].pc = "template" => stage'[i] = "bound",
             call'[p].pc = "register" => stage'[i] = "running"
      PROVE  Owns(p)'
  BY <1>1, <1>5 DEF Owns, Alone, After, Idle, Starting, Stopping
<1>6. CASE BindServer(p)
  <2>1. CASE Return(p) /\ UNCHANGED stage
    BY <1>6, <1>1, <2>1, ReturnType, OwnerFree DEF BindServer, Idle, Starting, Stopping
  <2>2. CASE stage' = [stage EXCEPT ![i] = "bound"] /\ Goto(p, "template")
    <3>1. Alone(p) /\ After(p, "template", i) /\ runner' = runner
      BY <1>1, <1>6, <2>2, GotoType DEF BindServer, Steps
    <3>2. stage'[i] = "bound"
      BY <1>4, <2>2
    <3>3. Owns(p)'
      BY <1>5, <3>1, <3>2 DEF After
    <3> QED
      BY <1>2, <1>3, <1>4, <2>2, <3>1, <3>2, <3>3, OwnerStep DEF After
  <2> QED
    BY <1>6, <2>1, <2>2 DEF BindServer
<1>7. CASE FirstTemplate(p)
  <2>1. runner' = runner
    BY <1>7 DEF FirstTemplate
  <2>2. CASE stage' = [stage EXCEPT ![i] = "running"] /\ Goto(p, "register")
    <3>1. Alone(p) /\ After(p, "register", i)
      BY <1>1, <2>2, GotoType DEF Steps
    <3>2. stage'[i] = "running"
      BY <1>4, <2>2
    <3>3. Owns(p)'
      BY <1>5, <2>1, <3>1, <3>2 DEF After
    <3> QED
      BY <1>2, <1>3, <1>4, <2>1, <2>2, <3>1, <3>2, <3>3, OwnerStep DEF After
  <2>3. CASE stage' = [stage EXCEPT ![i] = "down"] /\ Return(p)
    <3>1. Alone(p) /\ call'[p] = Idle
      BY <1>1, <2>3, ReturnType
    <3>3. Owns(p)'
      BY <1>5, <2>1, <3>1 DEF Idle
    <3>4. \A q \in Callers \ {p} : call[q].pc \in Starting => call[q].mine # NoRunner
      BY DEF OwnerInv, Owns
    <3> QED
      BY <1>3, <1>4, <2>1, <2>3, <3>1, <3>3, <3>4, OwnerStep DEF Idle
  <2> QED
    BY <1>7, <2>2, <2>3 DEF FirstTemplate
<1>8. CASE RegisterRunner(p)
  <2>1. Alone(p) /\ call'[p] = Idle /\ runner' = i /\ stage' = stage
    BY <1>1, <1>8, ReturnType DEF RegisterRunner, runnerVars
  <2>2. Owns(p)'
    BY <2>1 DEF Owns, Idle, Starting, Stopping
  <2>3. \A q \in Callers \ {p} : call[q].pc \in Starting => call[q].mine # NoRunner /\ call[q].mine # i
    BY <1>2 DEF OwnerInv, Owns
  <2> QED
    BY <2>1, <2>2, <2>3, OwnerStep DEF OwnerInv, Idle
<1> QED
  BY <1>6, <1>7, <1>8

LEMMA NextOwner == TypeOK /\ OwnerInv /\ PortInv /\ [Next]_vars => OwnerInv'
<1> SUFFICES ASSUME TypeOK, OwnerInv, PortInv, [Next]_vars PROVE OwnerInv'
  OBVIOUS
<1> USE DEF runnerVars
<1>1. call \in [Callers -> Call] /\ runner \in Ids \cup {NoRunner}
  BY DEF TypeOK
<1>2. ASSUME UNCHANGED <<stage, runner, call>> PROVE OwnerInv'
  BY <1>2 DEF OwnerInv, Owns
<1>3. ASSUME NEW p \in Callers, call[p].pc \notin Starting \cup Stopping PROVE call[p].mine = NoRunner
  BY <1>3 DEF OwnerInv, Owns
<1>4. ASSUME NEW p \in Callers, NEW w \in {"handle", "stop"},
             NEW c \in Configs \cup {Disabled, NoFile}, NEW r \in BOOLEAN, Begin(p, w, c, r),
             UNCHANGED <<stage, runner>>
      PROVE  OwnerInv'
  <2>1. Alone(p) /\ call'[p] = [pc |-> w, cfg |-> c, mine |-> NoRunner, restart |-> r]
    BY <1>1, <1>4, BeginType DEF Steps
  <2> QED
    BY <1>4, <2>1, OwnerFree DEF Starting, Stopping
<1>5. CASE WatchEvent \/ RetryTick \/ ReloadCoinBySymbol \/ \E i \in Ids : StallHandler(i) \/ PollSucceeds(i)
  <2>1. file \in Configs \cup {Disabled, NoFile}
    BY DEF TypeOK
  <2> QED
    BY <1>2, <1>4, <1>5, <2>1 DEF WatchEvent, RetryTick, ReloadCoinBySymbol, StallHandler, PollSucceeds, Callers
<1>6. ASSUME NEW p \in Callers, CheckNode(p) \/ Decide(p) \/ RecordSig(p) PROVE OwnerInv'
  <2>1. call[p].pc \notin Starting \cup Stopping /\ UNCHANGED <<stage, runner>>
    BY <1>6 DEF CheckNode, Decide, RecordSig, Starting, Stopping
  <2>2. Alone(p) /\ call'[p].mine = NoRunner /\ call'[p].pc \in {"idle", "stop", "decide", "record", "start"}
    <3>1. call[p].mine = NoRunner
      BY <1>3, <2>1
    <3>2. \/ \E w \in {"stop", "decide", "start"} : Goto(p, w)
          \/ Return(p)
          \/ \E r \in BOOLEAN : Record(p, r)
      BY <1>6 DEF CheckNode, Decide, RecordSig
    <3>3. ASSUME NEW w \in {"stop", "decide", "start"}, Goto(p, w)
          PROVE  Alone(p) /\ call'[p].mine = NoRunner /\ call'[p].pc = w
      BY <1>1, <3>1, <3>3, GotoType DEF After, Steps
    <3>4. ASSUME NEW r \in BOOLEAN, Record(p, r)
          PROVE  Alone(p) /\ call'[p].mine = NoRunner /\ call'[p].pc = "record"
      BY <1>1, <3>1, <3>4, RecordType
    <3> QED
      BY <1>1, <3>2, <3>3, <3>4, ReturnType DEF Idle
  <2> QED
    BY <2>1, <2>2, OwnerFree DEF Starting, Stopping
<1>7. ASSUME NEW p \in Callers, StopReturns(p) PROVE
        Alone(p) /\ call'[p].mine = NoRunner /\ call'[p].pc \in {"idle", "start"}
  BY <1>1, <1>7, HoldType, ReturnType DEF StopReturns, After, Idle, Steps
<1>8. ASSUME NEW p \in Callers, StopLookup(p) PROVE OwnerInv'
  BY <1>7, <1>8, OwnerLookup, OwnerFree DEF StopLookup, Starting, Stopping
<1>9. ASSUME NEW p \in Callers, DeleteRunner(p) PROVE OwnerInv'
  BY <1>7, <1>9, OwnerFree DEF DeleteRunner, Starting, Stopping
<1>10. ASSUME NEW p \in Callers, Panic(p) PROVE OwnerInv'
  BY <1>10 DEF Panic, OwnerInv, Owns, Idle, Starting, Stopping, NoRunner
<1>11. ASSUME NEW p \in Callers, StartCoin(p) PROVE OwnerInv'
  <2>1. CASE runner = NoRunner
    BY <1>11, <2>1, OwnerStarts
  <2>2. CASE runner # NoRunner
    BY <1>1, <1>11, <2>2, ReturnType, OwnerFree DEF StartCoin, Idle, Starting, Stopping
  <2> QED
    BY <2>1, <2>2
<1> QED
  BY <1>2, <1>5, <1>6, <1>8, <1>9, <1>10, <1>11, OwnerClosing, OwnerRises
     DEF Next, CallerStep, EditFile, NodeChanges, SecondPasses, vars
-----------------------------------------------------------------------------
(* Ports *)

LEMMA NextPort == TypeOK /\ CfgInv /\ OwnerInv /\ PortInv /\ [Next]_vars => PortInv'
<1> SUFFICES ASSUME TypeOK, CfgInv, OwnerInv, PortInv, [Next]_vars PROVE PortInv'
  OBVIOUS
<1> USE LifeAssumption DEF PortInv, runnerVars
<1>1. ASSUME UNCHANGED <<stage, port>> PROVE PortInv'
  BY <1>1
<1>2. ASSUME NEW i \in Ids, NEW to \in {"running", "closing"}, stage[i] # "down",
             stage' = [stage EXCEPT ![i] = to], port' = port
      PROVE  PortInv'
  BY <1>2 DEF TypeOK
<1>3. ASSUME NEW i \in Ids, stage' = [stage EXCEPT ![i] = "down"], port' = [port EXCEPT ![i] = NoPort]
      PROVE  PortInv'
  BY <1>3 DEF TypeOK
<1>4. ASSUME NEW p \in Callers, CloseRunner(p) \/ RunnerStopped(p) PROVE PortInv'
  <2>1. call[p].mine \in Ids
    BY <1>4, Claimed DEF CloseRunner, RunnerStopped, Stopping
  <2> QED
    BY <1>2, <1>3, <1>4, <2>1 DEF CloseRunner, RunnerStopped
<1>5. ASSUME NEW p \in Callers, Panic(p) PROVE PortInv'
  BY <1>5 DEF Panic
<1>6. ASSUME NEW p \in Callers, BindServer(p) PROVE PortInv'
  <2> DEFINE i == call[p].mine  w == Port[call[p].cfg]
  <2>1. i \in Ids
    BY <1>6, Claimed DEF BindServer, Starting
  <2>2. w \in Ports
    BY <1>6 DEF BindServer, CfgInv, TypeOK, Call
  <2>3. CASE UNCHANGED <<stage, port>>
    BY <1>1, <2>3
  <2>4. CASE /\ \A j \in Ids : port[j] # w
             /\ stage' = [stage EXCEPT ![i] = "bound"] /\ port' = [port EXCEPT ![i] = w]
    <3> HIDE DEF i, w
    <3> QED
      BY <2>1, <2>2, <2>4 DEF TypeOK
  <2> QED
    BY <1>6, <2>3, <2>4 DEF BindServer
<1>7. ASSUME NEW p \in Callers, FirstTemplate(p) PROVE PortInv'
  <2>1. call[p].mine \in Ids /\ stage[call[p].mine] # "down"
    BY <1>7, Claimed DEF FirstTemplate, Starting, Owns
  <2> QED
    BY <1>2, <1>3, <1>7, <2>1 DEF FirstTemplate
<1>8. ASSUME NEW p \in Callers, \/ CheckNode(p) \/ Decide(p) \/ RecordSig(p) \/ StopLookup(p)
                                \/ DeleteRunner(p) \/ StartCoin(p) \/ RegisterRunner(p)
      PROVE  PortInv'
  BY <1>1, <1>8 DEF CheckNode, Decide, RecordSig, StopLookup, DeleteRunner, StartCoin, RegisterRunner
<1> QED
  BY <1>1, <1>4, <1>5, <1>6, <1>7, <1>8
     DEF Next, CallerStep, EditFile, NodeChanges, SecondPasses, WatchEvent, RetryTick,
         ReloadCoinBySymbol, StallHandler, PollSucceeds, vars

-----------------------------------------------------------------------------
(* Starts that do not overlap *)

LateStop == {"closing", "delete"}

\* While no two StartCoins have overlapped: one is under way at most, and only while no
\* runner is registered; whoever stops a runner stops the registered one, alone; and
\* nothing serves but the registered runner and the one being started.
Untangled ==
  ~crossed =>
    /\ \A p, q \in Starters : p = q
    /\ Starters # {} => runner = NoRunner
    /\ \A p \in Callers : call[p].pc \in LateStop => call[p].mine = runner
    /\ \A p, q \in Callers : call[p].pc \in LateStop /\ call[q].pc \in LateStop => p = q
    /\ \A i \in Serving : i = runner \/ \E p \in Starters : call[p].mine = i

LEMMA InitUntangled == Init => Untangled
BY DEF Init, Untangled, Starters, Serving, Idle, LateStop

LEMMA NextUntangled == TypeOK /\ OwnerInv /\ PortInv /\ Untangled /\ [Next]_vars => Untangled'
<1> SUFFICES ASSUME TypeOK, OwnerInv, PortInv, Untangled, [Next]_vars PROVE Untangled'
  OBVIOUS
<1> USE DEF runnerVars
<1>1. call \in [Callers -> Call] /\ runner \in Ids \cup {NoRunner} /\ NoRunner \notin Ids
  BY DEF TypeOK, Ids, NoRunner
<1>2. ASSUME UNCHANGED <<stage, runner, call, crossed>> PROVE Untangled'
  BY <1>2 DEF Untangled, Starters, Serving
\* a caller elsewhere, that stays elsewhere
<1>3. ASSUME NEW p \in Callers, Alone(p), UNCHANGED <<stage, runner, crossed>>,
             call[p].pc \notin Starting \cup LateStop, call'[p].pc \notin Starting \cup LateStop
      PROVE  Untangled'
  <2>1. Starters' = Starters /\ Serving' = Serving /\ \A q \in Starters : call'[q] = call[q]
    BY <1>3 DEF Starters, Serving, Alone, Starting
  <2> QED
    BY <1>3, <2>1 DEF Untangled, Alone
<1>4. ASSUME NEW p \in Callers, NEW w \in {"handle", "stop"}, call[p].pc = "idle",
             NEW c \in Configs \cup {Disabled, NoFile}, NEW r \in BOOLEAN, Begin(p, w, c, r),
             UNCHANGED <<stage, runner, crossed>>
      PROVE  Untangled'
  <2>1. Alone(p) /\ call'[p] = [pc |-> w, cfg |-> c, mine |-> NoRunner, restart |-> r]
    BY <1>1, <1>4, BeginType DEF Steps
  <2> QED
    BY <1>3, <1>4, <2>1 DEF Starting, LateStop
<1>5. CASE WatchEvent \/ RetryTick \/ ReloadCoinBySymbol \/ \E i \in Ids : StallHandler(i) \/ PollSucceeds(i)
  <2>1. file \in Configs \cup {Disabled, NoFile}
    BY DEF TypeOK
  <2> QED
    BY <1>2, <1>4, <1>5, <2>1 DEF WatchEvent, RetryTick, ReloadCoinBySymbol, StallHandler, PollSucceeds, Callers
<1>6. ASSUME NEW p \in Callers, CheckNode(p) \/ RecordSig(p) PROVE Untangled'
  BY <1>1, <1>3, <1>6, GotoType, ReturnType DEF CheckNode, RecordSig, After, Idle, Steps, Starting, LateStop
<1>7. ASSUME NEW p \in Callers, Decide(p) PROVE Untangled'
  <2>1. CASE Return(p)
    BY <1>1, <1>3, <1>7, <2>1, ReturnType DEF Decide, Idle, Starting, LateStop
  <2>2. CASE Record(p, runner # NoRunner)
    <3>1. Alone(p) /\ call'[p].pc = "record"
      BY <1>1, <2>2, RecordType
    <3> QED
      BY <1>3, <1>7, <3>1 DEF Decide, Starting, LateStop
  <2> QED
    BY <1>7, <2>1, <2>2 DEF Decide
<1>8. ASSUME NEW p \in Callers, StopReturns(p)
      PROVE  Alone(p) /\ call'[p].pc \in {"idle", "start"}
  BY <1>1, <1>8, HoldType, ReturnType DEF StopReturns, After, Idle, Steps
<1>9. ASSUME NEW p \in Callers, StopLookup(p) PROVE Untangled'
  <2>1. Alone(p) /\ call'[p].pc \in {"idle", "start", "close"}
    BY <1>1, <1>8, <1>9, HoldType DEF StopLookup, After, Steps
  <2> QED
    BY <1>3, <1>9, <2>1 DEF StopLookup, Starting, LateStop
<1>10. ASSUME NEW p \in Callers, CloseRunner(p) PROVE Untangled'
  <2> DEFINE i == call[p].mine
  <2>1. /\ Alone(p) /\ After(p, "closing", i) /\ UNCHANGED <<runner, crossed>>
        /\ call[p].pc = "close" /\ stage[i] = "running" /\ i \in Ids
        /\ stage' = [stage EXCEPT ![i] = "closing"]
    BY <1>1, <1>10, GotoType, Claimed DEF CloseRunner, Steps, Stopping
  <2>2. Serving' = Serving /\ Starters' = Starters /\ \A q \in Starters : call'[q] = call[q]
    BY <2>1 DEF Serving, Starters, Alone, After, TypeOK
  <2>3. ~crossed => i = runner
    <3>1. \A q \in Starters : call[q].mine # i
      BY <2>1 DEF OwnerInv, Owns, Starters, Starting
    <3> QED
      BY <2>1, <3>1 DEF Untangled, Serving
  <2>4. ~crossed => \A q \in Callers : call[q].pc \notin LateStop
    <3>1. \A q \in Callers : call[q].pc \in LateStop => stage[call[q].mine] # "running"
      BY DEF OwnerInv, Owns, LateStop
    <3> QED
      BY <2>1, <2>3, <3>1 DEF Untangled
  <2> QED
    BY <2>1, <2>2, <2>3, <2>4 DEF Untangled, Alone, After
<1>11. ASSUME NEW p \in Callers, RunnerStopped(p) PROVE Untangled'
  <2>1. /\ Alone(p) /\ After(p, "delete", call[p].mine) /\ UNCHANGED <<runner, crossed>>
        /\ call[p].pc = "closing" /\ stage' = [stage EXCEPT ![call[p].mine] = "down"]
    BY <1>1, <1>11, GotoType DEF RunnerStopped, Steps
  <2>2. Serving' \subseteq Serving /\ Starters' = Starters /\ \A q \in Starters : call'[q] = call[q]
    BY <2>1 DEF Serving, Starters, Alone, After, TypeOK
  <2> QED
    BY <2>1, <2>2 DEF Untangled, Alone, After, LateStop
<1>12. ASSUME NEW p \in Callers, DeleteRunner(p) PROVE Untangled'
  <2>1. /\ Alone(p) /\ call'[p].pc \in {"idle", "start"} /\ runner' = NoRunner
        /\ call[p].pc = "delete" /\ UNCHANGED <<stage, crossed>>
    BY <1>8, <1>12 DEF DeleteRunner
  <2>2. Serving' = Serving /\ Starters' = Starters /\ \A q \in Starters : call'[q] = call[q]
    BY <2>1 DEF Serving, Starters, Alone
  <2>3. ~crossed => runner \notin Serving /\ \A q \in Callers \ {p} : call[q].pc \notin LateStop
    BY <2>1 DEF Untangled, LateStop, OwnerInv, Owns, Serving
  <2> QED
    BY <2>1, <2>2, <2>3 DEF Untangled, Alone, LateStop
<1>13. ASSUME NEW p \in Callers, Panic(p) PROVE Untangled'
  BY <1>13 DEF Panic, Untangled, Starters, Serving, Idle, LateStop
<1>14. ASSUME NEW p \in Callers, StartCoin(p) PROVE Untangled'
  <2>1. CASE runner # NoRunner
    BY <1>1, <1>3, <1>14, <2>1, ReturnType DEF StartCoin, Idle, Starting, LateStop
  <2>2. CASE runner = NoRunner
    <3>1. call[p].mine = NoRunner
      BY <1>14 DEF StartCoin, OwnerInv, Owns, Starting, Stopping
    <3>2. NewRunner \in Ids
      BY <3>1, UnusedExists DEF Unused
    <3>3. Alone(p) /\ After(p, "bind", NewRunner) /\ UNCHANGED <<stage, runner>>
      BY <1>1, <1>14, <2>2, <3>2, HoldType DEF StartCoin, Steps
    <3> SUFFICES ASSUME ~crossed' PROVE Untangled'
      BY DEF Untangled
    <3>4. Starters = {} /\ (~crossed \/ AtRest)
      BY <1>14, <2>2 DEF StartCoin
    <3>5. \A q \in Callers : call[q].pc \notin LateStop
      BY <1>1, <2>2, <3>4, Claimed DEF Untangled, AtRest, LateStop, Stopping
    <3>6. Serving = {}
      BY <1>1, <2>2, <3>4 DEF Untangled, AtRest, Serving
    <3>7. Serving' = {} /\ Starters' = {p} /\ \A q \in Callers : call'[q].pc \notin LateStop
      BY <3>3, <3>4, <3>5, <3>6 DEF Serving, Starters, Alone, After, LateStop
    <3> QED
      BY <2>2, <3>3, <3>7 DEF Untangled
  <2> QED
    BY <2>1, <2>2
<1>15. ASSUME NEW p \in Callers, BindServer(p) \/ FirstTemplate(p) PROVE Untangled'
  <2> DEFINE i == call[p].mine
  <2>1. /\ Alone(p) /\ UNCHANGED <<runner, crossed>> /\ p \in Starters /\ i \in Ids
        /\ call'[p].pc \notin LateStop
        /\ \A j \in Ids : j # i => stage'[j] = stage[j]
        /\ \/ p \in Starters' /\ call'[p].mine = i
           \/ p \notin Starters' /\ stage'[i] = "down"
    <3>1. p \in Starters /\ i \in Ids /\ UNCHANGED <<runner, crossed>> /\ Owns(p)
      BY <1>15, Claimed DEF BindServer, FirstTemplate, Starters, Starting
    <3>2. CASE BindServer(p)
      BY <1>1, <3>1, <3>2, GotoType, ReturnType
         DEF BindServer, After, Idle, Steps, Starters, LateStop, TypeOK, Owns
    <3>3. CASE FirstTemplate(p)
      BY <1>1, <3>1, <3>3, GotoType, ReturnType
         DEF FirstTemplate, After, Idle, Steps, Starters, LateStop, TypeOK
    <3> QED
      BY <1>15, <3>1, <3>2, <3>3
  <2>2. \A q \in Callers \ {p} : call'[q] = call[q] /\ (q \in Starters' <=> q \in Starters)
    BY <2>1 DEF Alone, Starters
  <2>3. \A j \in Serving' : j = i \/ j \in Serving
    BY <2>1 DEF Serving
  <2>4. i \in Serving' => p \in Starters' /\ call'[p].mine = i
    BY <2>1 DEF Serving
  <2>5. Starters' \subseteq Callers /\ Starters \subseteq Callers /\ Starters' \subseteq Starters
    BY <2>1, <2>2 DEF Starters
  <2> QED
    BY <2>1, <2>2, <2>3, <2>4, <2>5 DEF Untangled
<1>16. ASSUME NEW p \in Callers, RegisterRunner(p) PROVE Untangled'
  <2>1. /\ Alone(p) /\ call'[p] = Idle /\ runner' = call[p].mine /\ UNCHANGED <<stage, crossed>>
        /\ p \in Starters
    BY <1>1, <1>16, ReturnType DEF RegisterRunner, Starters
  <2> SUFFICES ASSUME ~crossed PROVE Untangled'
    BY <2>1 DEF Untangled
  <2>2. Starters = {p} /\ runner = NoRunner
    BY <2>1 DEF Untangled
  <2>3. Starters' = {} /\ Serving' = Serving
    BY <2>1, <2>2 DEF Starters, Serving, Alone, Idle
  <2>4. \A q \in Callers : call[q].pc \notin LateStop
    BY <1>1, <2>2, Claimed DEF Untangled, LateStop, Stopping
  <2>5. \A q \in Callers : call'[q].pc \notin LateStop
    BY <2>1, <2>4 DEF Alone, Idle, LateStop
  <2>6. \A i \in Serving : i = call[p].mine
    BY <1>1, <2>2 DEF Untangled, Serving
  <2> QED
    BY <2>1, <2>3, <2>5, <2>6 DEF Untangled
<1> QED
  BY <1>2, <1>5, <1>6, <1>7, <1>9, <1>10, <1>11, <1>12, <1>13, <1>14, <1>15, <1>16
     DEF Next, CallerStep, EditFile, NodeChanges, SecondPasses, vars
-----------------------------------------------------------------------------
(* Theorems *)

LifeInv == TypeOK /\ CfgInv /\ OwnerInv /\ PortInv

LEMMA SpecLife == Spec => []LifeInv
<1>1. Init => LifeInv
  BY InitTypeOK, InitOwner DEF LifeInv
<1>2. LifeInv /\ [Next]_vars => LifeInv'
  BY NextTypeOK, NextCfg, NextOwner, NextPort DEF LifeInv
<1> QED
  BY <1>1, <1>2, PTL DEF Spec

\* Types, for any number of ports: the maps, the callers' locals and the instances stay
\* what the actions take them for.
THEOREM TypeCorrect == Spec => []TypeOK
<1>1. LifeInv => TypeOK
  BY DEF LifeInv
<1> QED
  BY <1>1, SpecLife, PTL

\* A caller that is about to start a runner finds an instance for it: numbering the
\* instances from 1 to Cardinality(Ports) + 5 keeps no start from happening.
THEOREM StartNeverWaits ==
  Spec => [](\A p \in Callers : call[p].pc = "start" => Unused # {})
<1>1. LifeInv => \A p \in Callers : call[p].pc = "start" => Unused # {}
  <2> SUFFICES ASSUME LifeInv, NEW p \in Callers, call[p].pc = "start" PROVE Unused # {}
    OBVIOUS
  <2>1. call[p].mine = NoRunner
    BY DEF LifeInv, OwnerInv, Owns, Starting, Stopping
  <2> QED
    BY <2>1, UnusedExists DEF LifeInv
<1> QED
  BY <1>1, SpecLife, PTL

\* Two runners serve the coin at once only after two StartCoins have overlapped, and on
\* different ports, however the watcher, the retry loop, the API and the stall handler
\* overlap otherwise, though no lock is held across a start or a stop.
THEOREM OneServesCorrect == Spec => []OneServes
<1>1. LifeInv /\ Untangled => OneServes
  <2> SUFFICES ASSUME LifeInv, Untangled, NEW i \in Serving, NEW j \in Serving, i # j
               PROVE  crossed /\ port[i] # port[j]
    BY DEF OneServes
  <2>1. i \in Ids /\ j \in Ids /\ port[i] # NoPort
    BY DEF Serving, LifeInv, PortInv
  <2>2. port[i] # port[j]
    BY <2>1 DEF LifeInv, PortInv
  <2>3. NoRunner \notin Ids
    BY DEF NoRunner, Ids
  <2>4. crossed
    BY <2>1, <2>3 DEF Untangled
  <2> QED
    BY <2>2, <2>4
<1>2. LifeInv /\ Untangled /\ [Next]_vars => Untangled'
  BY NextUntangled DEF LifeInv
<1> QED
  BY <1>1, <1>2, InitUntangled, SpecLife, PTL DEF Spec

LEMMA NextRegistered == LifeInv /\ RegisteredRuns /\ [Next]_vars => RegisteredRuns'
<1> SUFFICES ASSUME LifeInv, RegisteredRuns, [Next]_vars PROVE RegisteredRuns'
  OBVIOUS
<1> USE DEF RegisteredRuns, runnerVars
<1>1. TypeOK /\ OwnerInv /\ call \in [Callers -> Call]
  BY DEF LifeInv, TypeOK
<1>2. ASSUME NEW p \in Callers, Alone(p), UNCHANGED <<stage, runner>>,
             call[p].pc \notin {"closing", "delete"}
      PROVE  RegisteredRuns'
  BY <1>2 DEF Alone
<1>3. ASSUME runner' = NoRunner \/ UNCHANGED <<stage, runner, call>> PROVE RegisteredRuns'
  BY <1>3
<1>4. ASSUME NEW p \in Callers, NEW w \in {"handle", "stop"}, call[p].pc = "idle",
             NEW c \in Configs \cup {Disabled, NoFile}, NEW r \in BOOLEAN, Begin(p, w, c, r),
             UNCHANGED <<stage, runner>>
      PROVE  RegisteredRuns'
  <2>1. w \in Steps
    BY <1>4 DEF Steps
  <2>2. Alone(p)
    BY <1>1, <1>4, <2>1, BeginType
  <2> QED
    BY <1>2, <1>4, <2>2
<1>5. CASE WatchEvent \/ RetryTick \/ ReloadCoinBySymbol \/ \E i \in Ids : StallHandler(i) \/ PollSucceeds(i)
  <2>1. file \in Configs \cup {Disabled, NoFile}
    BY <1>1 DEF TypeOK
  <2> QED
    BY <1>3, <1>4, <1>5, <2>1 DEF WatchEvent, RetryTick, ReloadCoinBySymbol, StallHandler, PollSucceeds, Callers
<1>6. ASSUME NEW p \in Callers, CheckNode(p) \/ Decide(p) \/ RecordSig(p) PROVE RegisteredRuns'
  <2>1. Alone(p)
    BY <1>1, <1>6, GotoType, ReturnType, RecordType DEF CheckNode, Decide, RecordSig, Steps
  <2> QED
    BY <1>2, <1>6, <2>1 DEF CheckNode, Decide, RecordSig
<1>7. ASSUME NEW p \in Callers, StopLookup(p) PROVE RegisteredRuns'
  <2>1. CASE runner = NoRunner
    BY <1>7, <2>1 DEF StopLookup
  <2>2. CASE runner # NoRunner
    <3>1. Alone(p)
      BY <1>1, <1>7, <2>2, HoldType DEF StopLookup, Steps, TypeOK
    <3> QED
      BY <1>2, <1>7, <3>1 DEF StopLookup
  <2> QED
    BY <2>1, <2>2
<1>8. ASSUME NEW p \in Callers, CloseRunner(p) \/ RunnerStopped(p) PROVE RegisteredRuns'
  <2>1. /\ Alone(p) /\ runner' = runner /\ After(p, call'[p].pc, call[p].mine)
        /\ call'[p].pc \in {"closing", "delete"} /\ call[p].mine \in Ids
        /\ \A i \in Ids : i # call[p].mine => stage'[i] = stage[i]
    BY <1>1, <1>8, GotoType, Claimed DEF CloseRunner, RunnerStopped, After, Steps, Stopping, TypeOK
  <2>2. CASE runner = call[p].mine
    BY <2>1, <2>2 DEF After
  <2>3. CASE runner # call[p].mine
    BY <1>1, <2>1, <2>3 DEF Alone, TypeOK
  <2> QED
    BY <2>2, <2>3
<1>9. ASSUME NEW p \in Callers, Panic(p) \/ DeleteRunner(p) PROVE RegisteredRuns'
  BY <1>3, <1>9 DEF Panic, DeleteRunner
<1>10. ASSUME NEW p \in Callers, StartCoin(p) PROVE RegisteredRuns'
  BY <1>10, <1>1, <1>2, ReturnType DEF StartCoin
<1>11. ASSUME NEW p \in Callers, BindServer(p) \/ FirstTemplate(p) PROVE RegisteredRuns'
  <2>1. /\ Alone(p) /\ runner' = runner /\ call[p].mine \in Ids /\ call[p].mine # runner
        /\ \A i \in Ids : i # call[p].mine => stage'[i] = stage[i]
    BY <1>1, <1>11, GotoType, ReturnType, Claimed
       DEF BindServer, FirstTemplate, After, Steps, Starting, TypeOK, Owns
  <2> QED
    BY <1>1, <1>11, <2>1 DEF Alone, TypeOK, BindServer, FirstTemplate
<1>12. ASSUME NEW p \in Callers, RegisterRunner(p) PROVE RegisteredRuns'
  <2>1. stage[call[p].mine] = "running"
    BY <1>1, <1>12 DEF RegisterRunner, OwnerInv, Owns
  <2> QED
    BY <1>12, <2>1 DEF RegisterRunner
<1> QED
  BY <1>3, <1>5, <1>6, <1>7, <1>8, <1>9, <1>10, <1>11, <1>12
     DEF Next, CallerStep, EditFile, NodeChanges, SecondPasses, vars

\* The entry of e.runners is never a runner that has stopped without anyone being about
\* to delete it: the retry loop, which starts coins without an entry only, misses none.
THEOREM RegisteredRunsCorrect == Spec => []RegisteredRuns
<1>1. Init => RegisteredRuns
  BY DEF Init, RegisteredRuns
<1> QED
  BY <1>1, NextRegistered, SpecLife, PTL DEF Spec
=============================================================================

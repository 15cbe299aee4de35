-------------------------- MODULE JobManagerProofs --------------------------
(* Theorems about JobManager, for any number of sessions, addresses, tips and *)
(* any bounds: see the README for the argument.                              *)
EXTENDS JobManager, FiniteSetTheorems, TLAPS

LEMMA Coinb1Boolean == Coinb1Outcomes \subseteq BOOLEAN
BY DEF Coinb1Outcomes

LEMMA NewJobType ==
  ASSUME NEW t \in Tips, NEW job \in NewJob(t), soloMode \in BOOLEAN
  PROVE  job \in Job
<1>1. CASE soloMode
  <2>1. PICK c1 \in Coinb1Outcomes :
          job = [tip |-> t, c1 |-> c1, c2 |-> {a \in Registered : BuildCoinbase(a)}]
    BY <1>1 DEF NewJob
  <2>2. c1 \in BOOLEAN /\ {a \in Registered : BuildCoinbase(a)} \in SUBSET Addrs
    BY Coinb1Boolean DEF Registered
  <2> QED
    BY <2>1, <2>2 DEF Job
<1>2. CASE ~soloMode
  <2>1. job = [tip |-> t, c1 |-> TRUE, c2 |-> {}]
    BY <1>2 DEF NewJob
  <2> QED
    BY <2>1 DEF Job
<1> QED
  BY <1>1, <1>2

LEMMA FillJobType ==
  ASSUME NEW job \in Job, NEW a \in Addrs \cup {NoAddr}
  PROVE  /\ FillJob(job, a) \in Job
         /\ FillJob(job, a).tip = job.tip
         /\ FillJob(job, a).c2 = job.c2 \cup (IF BuildCoinbase(a) THEN {a} ELSE {})
BY JMAssumption DEF FillJob, Job, BuildCoinbase

LEMMA FillTableType ==
  ASSUME NEW js, NEW c \in Nat, JobTable(js, c), NEW a \in Addrs \cup {NoAddr}
  PROVE  JobTable([n \in DOMAIN js |-> FillJob(js[n], a)], c)
BY FillJobType DEF JobTable

\* The table refreshTemplate builds before it prunes.
Extended(js, c, job) == [n \in DOMAIN js \cup {c + 1} |-> IF n = c + 1 THEN job ELSE js[n]]

LEMMA PruneType ==
  ASSUME NEW js, NEW c \in Nat, JobTable(js, c), NEW job \in Job
  PROVE  JobTable(pruneJobs(Extended(js, c, job)), c + 1)
BY DEF JobTable, pruneJobs, Extended

LEMMA InitTypeOK == Init => TypeOK
<1> SUFFICES ASSUME Init PROVE TypeOK
  OBVIOUS
<1> USE JMAssumption DEF Init, Refreshers
<1>1. JobTable(jobs, jobCounter)
  BY DEF JobTable
<1>2. /\ soloMode \in BOOLEAN
      /\ payout \in Addrs \cup {NoAddr}
      /\ connectedAddrs \in [Addrs -> Nat]
  OBVIOUS
<1>3. /\ pc \in [Refreshers -> {"idle"}]
      /\ DOMAIN held = Refreshers
      /\ \A r \in Refreshers : pc[r] = "idle" /\ held[r] = NoTip
      /\ unsent \in [Refreshers -> SUBSET Sessions]
  OBVIOUS
<1>4. /\ sess \in [Sessions -> {"connected"}]
      /\ addr \in [Sessions -> Addrs \cup {NoAddr}]
      /\ isNew \in [Sessions -> BOOLEAN]
      /\ miner \in [Sessions -> 0..jobCounter]
  OBVIOUS
<1>5. nodeTip \in Tips /\ tipChanges \in 0..MaxTipChanges /\ zmqPending \in Nat
  OBVIOUS
<1>6. latestClean \in BOOLEAN /\ quiet \in BOOLEAN
  OBVIOUS
<1>7. /\ jobCounter \in Nat /\ latestJob \in 0..jobCounter
      /\ currentTip \in Tips \cup {NoTip} /\ lastBroadcastTip \in Tips \cup {NoTip}
      /\ failures \in 0..MaxFailures
      /\ phase \in {"starting", "running", "stopping", "stopped"}
      /\ v1Job \in 0..jobCounter /\ v2Job \in 0..jobCounter
  OBVIOUS
<1> QED
  BY <1>1, <1>2, <1>3, <1>4, <1>5, <1>6, <1>7 DEF TypeOK

LEMMA NextTypeOK == TypeOK /\ [Next]_vars => TypeOK'
<1> SUFFICES ASSUME TypeOK, [Next]_vars PROVE TypeOK'
  OBVIOUS
<1> USE JMAssumption DEF TypeOK, Refreshers, nodeVars, confVars, jobVars, loopVars,
                         sessVars, pcVars
<1>1. ASSUME NEW t \in Tips, NodeNewTip(t) PROVE TypeOK'
  BY <1>1 DEF NodeNewTip
<1>2. CASE ThirtySecondsPass
  BY <1>2 DEF ThirtySecondsPass
<1>3. ASSUME NEW r \in Refreshers, GetTemplate(r) PROVE TypeOK'
  BY <1>3 DEF GetTemplate, MayRefresh
<1>4. ASSUME NEW r \in Refreshers, GetTemplateFails(r) PROVE TypeOK'
  BY <1>4 DEF GetTemplateFails, MayRefresh
<1>5. ASSUME NEW r \in Refreshers, refreshSkip(r) PROVE TypeOK'
  BY <1>5 DEF refreshSkip, Succeeded
<1>6. ASSUME NEW r \in Refreshers, refreshTemplate(r) PROVE TypeOK'
  <2>1. held[r] \in Tips
    BY <1>6 DEF refreshTemplate
  <2>2. PICK job \in NewJob(held[r]) : jobs' = pruneJobs(Extended(jobs, jobCounter, job))
    BY <1>6 DEF refreshTemplate, Extended
  <2>3. job \in Job
    BY <2>1, NewJobType
  <2>4. JobTable(jobs', jobCounter + 1)
    BY <2>2, <2>3, PruneType
  <2>5. jobCounter' = jobCounter + 1 /\ jobCounter + 1 \in Nat
    BY <1>6 DEF refreshTemplate
  <2>6. latestClean' \in BOOLEAN /\ quiet' \in BOOLEAN
    BY <1>6, Zenon DEF refreshTemplate, CleanJobs
  <2>7. /\ currentTip' = held[r] /\ lastBroadcastTip' \in {held[r], lastBroadcastTip}
        /\ latestJob' = jobCounter + 1
        /\ pc' = [pc EXCEPT ![r] = "notifyV1"] /\ held' = [held EXCEPT ![r] = jobCounter + 1]
        /\ UNCHANGED <<nodeVars, confVars, loopVars, sessVars, connectedAddrs, unsent, v1Job,
                       v2Job, miner>>
    BY <1>6 DEF refreshTemplate
  <2>8. /\ DOMAIN held' = Refreshers
        /\ \A q \in Refreshers :
             /\ pc'[q] = "idle" => held'[q] = NoTip
             /\ pc'[q] = "fetched" => held'[q] \in Tips
             /\ pc'[q] \in {"notifyV1", "sending", "notifyV2"} => held'[q] \in 1..jobCounter + 1
    BY <2>7
  <2>9. /\ currentTip' \in Tips \cup {NoTip} /\ lastBroadcastTip' \in Tips \cup {NoTip}
        /\ latestJob' \in 0..jobCounter + 1 /\ v1Job' \in 0..jobCounter + 1
        /\ v2Job' \in 0..jobCounter + 1 /\ miner' \in [Sessions -> 0..jobCounter + 1]
        /\ pc' \in [Refreshers -> {"idle", "fetched", "notifyV1", "sending", "notifyV2"}]
    BY <2>1, <2>7
  <2> QED
    BY <2>4, <2>5, <2>6, <2>7, <2>8, <2>9
<1>7. ASSUME NEW r \in Refreshers, BroadcastJob(r) PROVE TypeOK'
  BY <1>7 DEF BroadcastJob
<1>8. ASSUME NEW r \in Refreshers, NEW s \in Sessions, SendJob(r, s) PROVE TypeOK'
  BY <1>8 DEF SendJob
<1>9. ASSUME NEW r \in Refreshers, notifyV2(r) PROVE TypeOK'
  BY <1>9 DEF notifyV2, Succeeded
<1>10. ASSUME NEW s \in Sessions, NEW a \in Addrs, RegisterAddress(s, a) PROVE TypeOK'
  BY <1>10 DEF RegisterAddress
<1>11. ASSUME NEW s \in Sessions, FillJobs(s) PROVE TypeOK'
  <2>1. addr[s] \in Addrs \cup {NoAddr}
    OBVIOUS
  <2> QED
    BY <1>11, <2>1, FillTableType DEF FillJobs
<1>12. ASSUME NEW s \in Sessions, handleAuthorize(s) PROVE TypeOK'
  BY <1>12 DEF handleAuthorize, GetJobForAddress
<1>13. ASSUME NEW s \in Sessions, Disconnect(s) PROVE TypeOK'
  BY <1>13 DEF Disconnect
<1>14. ASSUME NEW s \in Sessions, UnregisterAddress(s) PROVE TypeOK'
  BY <1>14 DEF UnregisterAddress
<1>15. CASE StopCoin
  BY <1>15 DEF StopCoin
<1>16. CASE PollLoopExits
  BY <1>16 DEF PollLoopExits
<1>17. CASE UNCHANGED vars
  BY <1>17 DEF vars
<1> QED
  BY <1>1, <1>2, <1>3, <1>4, <1>5, <1>6, <1>7, <1>8, <1>9, <1>10, <1>11, <1>12, <1>13,
     <1>14, <1>15, <1>16, <1>17 DEF Next, RefreshStep, AuthorizeStep

\* Type correctness.
THEOREM TypeCorrect == Spec => []TypeOK
BY InitTypeOK, NextTypeOK, PTL DEF Spec

-----------------------------------------------------------------------------
(* The job window *)

Window(c) == {n \in 1..c : c - n < History}

\* What pruning leaves of a table that was a window: the window one further.
LEMMA PruneWindow ==
  ASSUME NEW js, NEW c \in Nat, NEW job, NEW t,
         DOMAIN js = Window(c), t = pruneJobs(Extended(js, c, job))
  PROVE  /\ DOMAIN t = Window(c + 1)
         /\ \A n \in Window(c + 1) : t[n] = IF n = c + 1 THEN job ELSE js[n]
         /\ t = [n \in DOMAIN t |-> t[n]]
<1> USE DEF Window
<1> DEFINE D == DOMAIN js \cup {c + 1}
           Later(n) == {m \in D : m > n}
<1>1. ASSUME NEW n \in D PROVE Cardinality(Later(n)) = c + 1 - n
  <2>1. Later(n) = (n + 1)..(c + 1)
    BY <1>1, JMAssumption
  <2>2. n + 1 \in Int /\ c + 1 \in Int /\ n \in 1..(c + 1)
    BY <1>1
  <2>3. Cardinality((n + 1)..(c + 1)) = IF n + 1 > c + 1 THEN 0 ELSE c + 1 - (n + 1) + 1
    BY <2>2, FS_Interval
  <2> HIDE DEF Later
  <2> QED
    BY <2>1, <2>2, <2>3
<1>2. pruneJobs(Extended(js, c, job)) =
        [n \in {n \in D : c + 1 - n < History} |-> Extended(js, c, job)[n]]
  BY <1>1 DEF pruneJobs, Extended
<1>3. {n \in D : c + 1 - n < History} = Window(c + 1)
  BY JMAssumption
<1> QED
  BY <1>2, <1>3 DEF Extended

LEMMA RefreshTable ==
  ASSUME TypeOK, NewestJobsHonoured, NEW r \in Refreshers, refreshTemplate(r)
  PROVE  /\ DOMAIN jobs' = Window(jobCounter')
         /\ jobCounter' = jobCounter + 1
         /\ latestJob' = jobCounter'
         /\ held[r] \in Tips
         /\ jobs' = [n \in DOMAIN jobs' |-> jobs'[n]]
         /\ \E job \in NewJob(held[r]) :
              \A n \in Window(jobCounter + 1) :
                jobs'[n] = IF n = jobCounter + 1 THEN job ELSE jobs[n]
<1>1. PICK job \in NewJob(held[r]) : jobs' = pruneJobs(Extended(jobs, jobCounter, job))
  BY DEF refreshTemplate, Extended
<1>2. jobCounter \in Nat /\ jobCounter' = jobCounter + 1 /\ latestJob' = jobCounter + 1
      /\ held[r] \in Tips
  BY DEF TypeOK, refreshTemplate
<1>3. DOMAIN jobs = Window(jobCounter)
  BY DEF NewestJobsHonoured, Window
<1>4. /\ DOMAIN jobs' = Window(jobCounter + 1)
      /\ \A n \in Window(jobCounter + 1) :
           jobs'[n] = IF n = jobCounter + 1 THEN job ELSE jobs[n]
      /\ jobs' = [n \in DOMAIN jobs' |-> jobs'[n]]
  BY <1>1, <1>2, <1>3, PruneWindow
<1> QED
  BY <1>1, <1>2, <1>4

LEMMA InitNewest == Init => NewestJobsHonoured
BY DEF Init, NewestJobsHonoured

LEMMA NextNewest == TypeOK /\ NewestJobsHonoured /\ [Next]_vars => NewestJobsHonoured'
<1> SUFFICES ASSUME TypeOK, NewestJobsHonoured, [Next]_vars PROVE NewestJobsHonoured'
  OBVIOUS
<1>1. ASSUME NEW r \in Refreshers, refreshTemplate(r) PROVE NewestJobsHonoured'
  BY <1>1, RefreshTable DEF NewestJobsHonoured, Window
<1>2. ASSUME NEW s \in Sessions, FillJobs(s) PROVE NewestJobsHonoured'
  BY <1>2 DEF FillJobs, NewestJobsHonoured
<1>3. ASSUME UNCHANGED jobVars PROVE NewestJobsHonoured'
  BY <1>3 DEF jobVars, NewestJobsHonoured
<1>4. ASSUME UNCHANGED <<jobs, jobCounter, latestJob>> PROVE NewestJobsHonoured'
  BY <1>4 DEF NewestJobsHonoured
<1> QED
  BY <1>1, <1>2, <1>3, <1>4
  DEF Next, RefreshStep, AuthorizeStep, NodeNewTip, ThirtySecondsPass, GetTemplate,
      GetTemplateFails, refreshSkip, BroadcastJob, SendJob, notifyV2, RegisterAddress,
      handleAuthorize, Disconnect, UnregisterAddress, StopCoin, PollLoopExits, vars

\* The validator can look up exactly the newest maxJobHistory jobs.
THEOREM WindowCorrect == Spec => []NewestJobsHonoured
BY InitTypeOK, NextTypeOK, InitNewest, NextNewest, PTL DEF Spec

-----------------------------------------------------------------------------
(* The guard of refreshTemplate that never fires *)

\* lastBroadcastTip follows currentTip.
TipBroadcast == lastBroadcastTip = currentTip

LEMMA NextTipBroadcast == TipBroadcast /\ [Next]_vars => TipBroadcast'
<1> SUFFICES ASSUME TipBroadcast, [Next]_vars PROVE TipBroadcast'
  OBVIOUS
<1>1. ASSUME NEW r \in Refreshers, refreshTemplate(r) PROVE TipBroadcast'
  BY <1>1 DEF refreshTemplate, CleanJobs, TipBroadcast
<1>2. ASSUME UNCHANGED <<currentTip, lastBroadcastTip>> PROVE TipBroadcast'
  BY <1>2 DEF TipBroadcast
<1> QED
  BY <1>1, <1>2
  DEF Next, RefreshStep, AuthorizeStep, NodeNewTip, ThirtySecondsPass, GetTemplate, jobVars,
      GetTemplateFails, refreshSkip, BroadcastJob, SendJob, notifyV2, RegisterAddress, FillJobs,
      handleAuthorize, Disconnect, UnregisterAddress, StopCoin, PollLoopExits, vars

\* The lastBroadcastTip guard never holds: a goroutine that waited for jm.mu
\* while another one took the same tip finds cleanJobs false, and goes on.
THEOREM GuardNeverFires == Spec => [](\A r \in Refreshers : ~AlreadyBroadcast(r))
<1>1. Init => TipBroadcast
  BY DEF Init, TipBroadcast
<1>2. TipBroadcast => \A r \in Refreshers : ~AlreadyBroadcast(r)
  BY DEF TipBroadcast, AlreadyBroadcast, CleanJobs
<1> QED
  BY <1>1, <1>2, NextTipBroadcast, PTL DEF Spec

-----------------------------------------------------------------------------
(* Solo mode: every honoured job pays every registered address *)

Filling(a) == \E s \in Sessions : sess[s] = "registered" /\ isNew[s] /\ addr[s] = a
Covered(a) == \A n \in DOMAIN jobs : a \in jobs[n].c2

LEMMA InitCoverage == Init => SoloCoverage
BY DEF Init, SoloCoverage

LEMMA NextCoverage ==
  TypeOK /\ NewestJobsHonoured /\ SoloCoverage /\ [Next]_vars => SoloCoverage'
<1> SUFFICES ASSUME TypeOK, NewestJobsHonoured, SoloCoverage, [Next]_vars
             PROVE  SoloCoverage'
  OBVIOUS
<1>0. soloMode' = soloMode
  BY DEF Next, RefreshStep, AuthorizeStep, NodeNewTip, ThirtySecondsPass, GetTemplate,
    GetTemplateFails, refreshSkip, refreshTemplate, BroadcastJob, SendJob, notifyV2,
    RegisterAddress, FillJobs, handleAuthorize, Disconnect, UnregisterAddress, StopCoin,
    PollLoopExits, confVars, vars
<1> SUFFICES ASSUME soloMode, NEW a \in Registered' \cap Buildable
             PROVE  Filling(a)' \/ Covered(a)'
  BY <1>0 DEF SoloCoverage, Filling, Covered
<1>a. a \in Registered => Filling(a) \/ Covered(a)
  BY DEF SoloCoverage, Filling, Covered
<1>1. ASSUME NEW r \in Refreshers, refreshTemplate(r) PROVE Filling(a)' \/ Covered(a)'
  <2>1. PICK job \in NewJob(held[r]) :
          \A n \in Window(jobCounter + 1) :
            jobs'[n] = IF n = jobCounter + 1 THEN job ELSE jobs[n]
    BY <1>1, RefreshTable
  <2>2. DOMAIN jobs' = Window(jobCounter + 1)
    BY <1>1, RefreshTable
  <2>3. a \in Registered /\ UNCHANGED sessVars
    BY <1>1 DEF refreshTemplate, Registered
  <2>4. job.c2 = {b \in Registered : BuildCoinbase(b)}
    BY DEF NewJob
  <2>5. CASE Filling(a)
    BY <2>3, <2>5 DEF Filling, sessVars
  <2>6. CASE Covered(a)
    <3>1. ASSUME NEW n \in Window(jobCounter + 1), n # jobCounter + 1 PROVE n \in DOMAIN jobs
      BY <3>1, JMAssumption DEF Window, NewestJobsHonoured, TypeOK
    <3> QED
      BY <2>1, <2>2, <2>3, <2>4, <2>6, <3>1 DEF Covered, BuildCoinbase
  <2> QED
    BY <1>a, <2>3, <2>5, <2>6
<1>2. ASSUME NEW s \in Sessions, NEW b \in Addrs, RegisterAddress(s, b)
      PROVE  Filling(a)' \/ Covered(a)'
  <2>1. CASE a \in Registered
    <3>1. Covered(a) => Covered(a)'
      BY <1>2 DEF RegisterAddress, jobVars, Covered
    <3>2. Filling(a) => Filling(a)'
      BY <1>2 DEF RegisterAddress, Filling, TypeOK
    <3> QED
      BY <1>a, <2>1, <3>1, <3>2
  <2>2. CASE a \notin Registered
    <3>1. a = b /\ connectedAddrs[a] = 0
      BY <1>2, <2>2 DEF RegisterAddress, Registered, TypeOK
    <3>2. sess'[s] = "registered" /\ isNew'[s] /\ addr'[s] = a
      BY <1>2, <3>1 DEF RegisterAddress, TypeOK
    <3> QED
      BY <3>2 DEF Filling
  <2> QED
    BY <2>1, <2>2
<1>3. ASSUME NEW s \in Sessions, FillJobs(s) PROVE Filling(a)' \/ Covered(a)'
  <2>1. a \in Registered
    BY <1>3 DEF FillJobs, Registered
  <2>2. addr[s] \in Addrs \cup {NoAddr}
    BY DEF TypeOK
  <2>3. ASSUME NEW n \in DOMAIN jobs'
        PROVE  n \in DOMAIN jobs /\ jobs[n].c2 \subseteq jobs'[n].c2
    BY <1>3, <2>2, FillJobType DEF FillJobs, TypeOK, JobTable
  <2>4. CASE Covered(a)
    BY <2>3, <2>4 DEF Covered
  <2>5. CASE Filling(a)
    <3>1. PICK q \in Sessions : sess[q] = "registered" /\ isNew[q] /\ addr[q] = a
      BY <2>5 DEF Filling
    <3>2. CASE q = s
      <4>1. jobs' = [n \in DOMAIN jobs |-> FillJob(jobs[n], a)]
        BY <1>3, <3>1, <3>2 DEF FillJobs
      <4>2. \A n \in DOMAIN jobs : jobs[n] \in Job
        BY DEF TypeOK, JobTable
      <4> QED
        BY <4>1, <4>2, FillJobType, JMAssumption DEF Covered, BuildCoinbase
    <3>3. CASE q # s
      BY <1>3, <3>1, <3>3 DEF FillJobs, Filling, TypeOK
    <3> QED
      BY <3>2, <3>3
  <2> QED
    BY <1>a, <2>1, <2>4, <2>5
<1>4. ASSUME NEW s \in Sessions, UnregisterAddress(s) PROVE Filling(a)' \/ Covered(a)'
  <2>1. a \in Registered
    BY <1>4 DEF UnregisterAddress, Registered, TypeOK
  <2>2. Covered(a) => Covered(a)'
    BY <1>4 DEF UnregisterAddress, jobVars, Covered
  <2>3. Filling(a) => Filling(a)'
    BY <1>4 DEF UnregisterAddress, Filling, TypeOK
  <2> QED
    BY <1>a, <2>1, <2>2, <2>3
<1>5. ASSUME NEW s \in Sessions, handleAuthorize(s) \/ Disconnect(s)
      PROVE  Filling(a)' \/ Covered(a)'
  <2>1. a \in Registered
    BY <1>5 DEF handleAuthorize, Disconnect, Registered
  <2>2. Covered(a) => Covered(a)'
    BY <1>5 DEF handleAuthorize, Disconnect, jobVars, Covered
  <2>3. Filling(a) => Filling(a)'
    BY <1>5 DEF handleAuthorize, Disconnect, Filling, TypeOK
  <2> QED
    BY <1>a, <2>1, <2>2, <2>3
<1>6. ASSUME UNCHANGED <<jobs, connectedAddrs, sessVars>> PROVE Filling(a)' \/ Covered(a)'
  <2>1. a \in Registered
    BY <1>6 DEF Registered
  <2>2. (Covered(a) => Covered(a)') /\ (Filling(a) => Filling(a)')
    BY <1>6 DEF Covered, Filling, sessVars
  <2> QED
    BY <1>a, <2>1, <2>2
<1> QED
  BY <1>1, <1>2, <1>3, <1>4, <1>5, <1>6
  DEF Next, RefreshStep, AuthorizeStep, NodeNewTip, ThirtySecondsPass, GetTemplate, jobVars,
      GetTemplateFails, refreshSkip, BroadcastJob, SendJob, notifyV2, StopCoin, PollLoopExits, vars

\* Whatever the order of refreshes, authorizations and disconnections, every job
\* the pool honours carries the coinbase of every registered address.
THEOREM CoverageCorrect == Spec => []SoloCoverage
BY InitTypeOK, NextTypeOK, InitNewest, NextNewest, InitCoverage, NextCoverage, PTL DEF Spec

-----------------------------------------------------------------------------
(* Solo mode: the jobs miners hold *)

SentPayable(s) ==
  sess[s] = "authorized" /\ miner[s] \in DOMAIN jobs => addr[s] \in jobs[miner[s]].c2

LEMMA NextSent ==
  TypeOK /\ NewestJobsHonoured /\ SentJobsPayable /\ [Next]_vars => SentJobsPayable'
<1> SUFFICES ASSUME TypeOK, NewestJobsHonoured, SentJobsPayable, [Next]_vars
             PROVE  SentJobsPayable'
  OBVIOUS
<1>0. soloMode' = soloMode
  BY DEF Next, RefreshStep, AuthorizeStep, NodeNewTip, ThirtySecondsPass, GetTemplate,
    GetTemplateFails, refreshSkip, refreshTemplate, BroadcastJob, SendJob, notifyV2,
    RegisterAddress, FillJobs, handleAuthorize, Disconnect, UnregisterAddress, StopCoin,
    PollLoopExits, confVars, vars
<1> SUFFICES ASSUME soloMode, NEW q \in Sessions
             PROVE  SentPayable(q)'
  BY <1>0 DEF SentJobsPayable, SentPayable
<1>a. SentPayable(q)
  BY DEF SentJobsPayable, SentPayable
<1>1. ASSUME NEW r \in Refreshers, refreshTemplate(r) PROVE SentPayable(q)'
  <2>1. PICK job \in NewJob(held[r]) :
          \A n \in Window(jobCounter + 1) :
            jobs'[n] = IF n = jobCounter + 1 THEN job ELSE jobs[n]
    BY <1>1, RefreshTable
  <2>2. DOMAIN jobs' = Window(jobCounter + 1)
    BY <1>1, RefreshTable
  <2>3. UNCHANGED <<sess, addr, miner>> /\ miner[q] \in 0..jobCounter
    BY <1>1 DEF refreshTemplate, sessVars, TypeOK
  <2>4. miner[q] \in Window(jobCounter + 1) => miner[q] \in DOMAIN jobs
    BY <2>3, JMAssumption DEF Window, NewestJobsHonoured, TypeOK
  <2>5. miner[q] \in Window(jobCounter + 1) => jobs'[miner[q]] = jobs[miner[q]]
    BY <2>1, <2>3 DEF Window, TypeOK
  <2> QED
    BY <1>a, <2>2, <2>3, <2>4, <2>5 DEF SentPayable
<1>2. ASSUME NEW r \in Refreshers, NEW s \in Sessions, SendJob(r, s) PROVE SentPayable(q)'
  <2>1. UNCHANGED <<jobs, sess, addr>> /\ miner \in [Sessions -> 0..jobCounter]
    BY <1>2 DEF SendJob, jobVars, sessVars, TypeOK
  <2>2. CASE CanSend(held[r], s) /\ q = s
    BY <1>2, <2>1, <2>2 DEF SendJob, CanSend, GetAddressCoinb2, SentPayable
  <2>3. CASE ~(CanSend(held[r], s) /\ q = s)
    BY <1>a, <1>2, <2>1, <2>3 DEF SendJob, SentPayable
  <2> QED
    BY <2>2, <2>3
<1>3. ASSUME NEW s \in Sessions, NEW b \in Addrs, RegisterAddress(s, b) PROVE SentPayable(q)'
  <2>1. UNCHANGED jobs
    BY <1>3 DEF RegisterAddress, jobVars
  <2>2. CASE q = s
    BY <1>3, <2>2 DEF RegisterAddress, SentPayable, TypeOK
  <2>3. CASE q # s
    BY <1>a, <1>3, <2>1, <2>3 DEF RegisterAddress, SentPayable, TypeOK
  <2> QED
    BY <2>2, <2>3
<1>4. ASSUME NEW s \in Sessions, FillJobs(s) PROVE SentPayable(q)'
  <2>1. addr[s] \in Addrs \cup {NoAddr}
    BY DEF TypeOK
  <2>2. ASSUME NEW n \in DOMAIN jobs'
        PROVE  n \in DOMAIN jobs /\ jobs[n].c2 \subseteq jobs'[n].c2
    BY <1>4, <2>1, FillJobType DEF FillJobs, TypeOK, JobTable
  <2>3. UNCHANGED <<addr, miner>> /\ (sess'[q] = "authorized" => sess[q] = "authorized")
    BY <1>4 DEF FillJobs, TypeOK
  <2> QED
    BY <1>a, <2>2, <2>3 DEF SentPayable
<1>5. ASSUME NEW s \in Sessions, handleAuthorize(s) PROVE SentPayable(q)'
  <2>1. UNCHANGED <<jobs, addr>> /\ 0 \notin DOMAIN jobs
    BY <1>5 DEF handleAuthorize, jobVars, TypeOK, JobTable
  <2>2. CASE q = s
    <3>1. miner'[q] = GetJobForAddress(addr[s])
      BY <1>5, <2>2 DEF handleAuthorize, TypeOK
    <3> QED
      BY <2>1, <2>2, <3>1 DEF SentPayable, GetJobForAddress, GetAddressCoinb2
  <2>3. CASE q # s
    BY <1>a, <1>5, <2>1, <2>3 DEF handleAuthorize, SentPayable, TypeOK
  <2> QED
    BY <2>2, <2>3
<1>6. ASSUME NEW s \in Sessions, Disconnect(s) PROVE SentPayable(q)'
  BY <1>a, <1>6 DEF Disconnect, jobVars, SentPayable, TypeOK
<1>7. ASSUME NEW s \in Sessions, UnregisterAddress(s) PROVE SentPayable(q)'
  BY <1>a, <1>7 DEF UnregisterAddress, jobVars, SentPayable, TypeOK
<1>8. ASSUME UNCHANGED <<jobs, sessVars, miner>> PROVE SentPayable(q)'
  BY <1>a, <1>8 DEF SentPayable, sessVars
<1> QED
  BY <1>1, <1>2, <1>3, <1>4, <1>5, <1>6, <1>7, <1>8
  DEF Next, RefreshStep, AuthorizeStep, NodeNewTip, ThirtySecondsPass, GetTemplate, jobVars,
      GetTemplateFails, refreshSkip, BroadcastJob, notifyV2, StopCoin, PollLoopExits, vars

\* A share on any job a solo miner was sent and the pool still honours finds the
\* coinbase of the miner's own address.
THEOREM SentJobsCorrect == Spec => []SentJobsPayable
<1>1. Init => SentJobsPayable
  BY DEF Init, SentJobsPayable
<1> QED
  BY <1>1, InitTypeOK, NextTypeOK, InitNewest, NextNewest, NextSent, PTL DEF Spec

-----------------------------------------------------------------------------
(* Solo mode: the first coinbase half *)

Payable == payout \in Buildable \/ Buildable = Addrs

LEMMA NewJobComplete ==
  ASSUME Payable, NEW t, NEW job \in NewJob(t)
  PROVE  job.c2 # {} => job.c1
<1>1. CASE soloMode
  <2>1. PICK c1 \in Coinb1Outcomes :
          job = [tip |-> t, c1 |-> c1, c2 |-> {a \in Registered : BuildCoinbase(a)}]
    BY <1>1 DEF NewJob
  <2>2. CASE Registered = {}
    BY <2>1, <2>2
  <2>3. CASE Registered # {}
    <3>1. PICK first \in Registered : c1 = (BuildCoinbase(first) \/ BuildCoinbase(payout))
      BY <2>1, <2>3 DEF Coinb1Outcomes
    <3>2. BuildCoinbase(first) \/ BuildCoinbase(payout)
      BY <3>1 DEF Payable, BuildCoinbase, Registered
    <3> QED
      BY <2>1, <3>1, <3>2
  <2> QED
    BY <2>2, <2>3
<1>2. CASE ~soloMode
  BY <1>2 DEF NewJob
<1> QED
  BY <1>1, <1>2

LEMMA FillJobComplete ==
  ASSUME NEW job \in Job, NEW a \in Addrs \cup {NoAddr}, job.c2 # {} => job.c1
  PROVE  FillJob(job, a).c2 # {} => FillJob(job, a).c1
BY DEF FillJob, Job

LEMMA NextComplete ==
  TypeOK /\ NewestJobsHonoured /\ Coinb1Complete /\ [Next]_vars => Coinb1Complete'
<1> SUFFICES ASSUME TypeOK, NewestJobsHonoured, Coinb1Complete, [Next]_vars
             PROVE  Coinb1Complete'
  OBVIOUS
<1>0. payout' = payout
  BY DEF Next, RefreshStep, AuthorizeStep, NodeNewTip, ThirtySecondsPass, GetTemplate,
    GetTemplateFails, refreshSkip, refreshTemplate, BroadcastJob, SendJob, notifyV2,
    RegisterAddress, FillJobs, handleAuthorize, Disconnect, UnregisterAddress, StopCoin,
    PollLoopExits, confVars, vars
<1> SUFFICES ASSUME Payable, NEW n \in DOMAIN jobs' PROVE jobs'[n].c2 # {} => jobs'[n].c1
  BY <1>0 DEF Coinb1Complete, Payable
<1>a. n \in DOMAIN jobs => (jobs[n].c2 # {} => jobs[n].c1)
  BY DEF Coinb1Complete, Payable
<1>1. ASSUME NEW r \in Refreshers, refreshTemplate(r)
      PROVE  jobs'[n].c2 # {} => jobs'[n].c1
  <2>1. PICK job \in NewJob(held[r]) :
          \A k \in Window(jobCounter + 1) :
            jobs'[k] = IF k = jobCounter + 1 THEN job ELSE jobs[k]
    BY <1>1, RefreshTable
  <2>2. n \in Window(jobCounter + 1)
    BY <1>1, RefreshTable
  <2>3. CASE n = jobCounter + 1
    BY <2>1, <2>2, <2>3, NewJobComplete
  <2>4. CASE n # jobCounter + 1
    <3>1. n \in DOMAIN jobs
      BY <2>2, <2>4, JMAssumption DEF Window, NewestJobsHonoured, TypeOK
    <3> QED
      BY <1>a, <2>1, <2>2, <2>4, <3>1
  <2> QED
    BY <2>3, <2>4
<1>2. ASSUME NEW s \in Sessions, FillJobs(s) PROVE jobs'[n].c2 # {} => jobs'[n].c1
  <2>1. /\ n \in DOMAIN jobs /\ jobs[n] \in Job /\ addr[s] \in Addrs \cup {NoAddr}
        /\ jobs'[n] \in {jobs[n], FillJob(jobs[n], addr[s])}
    BY <1>2 DEF FillJobs, TypeOK, JobTable
  <2>2. FillJob(jobs[n], addr[s]).c2 # {} => FillJob(jobs[n], addr[s]).c1
    BY <1>a, <2>1, FillJobComplete
  <2> QED
    BY <1>a, <2>1, <2>2
<1>3. ASSUME UNCHANGED jobs PROVE jobs'[n].c2 # {} => jobs'[n].c1
  BY <1>a, <1>3
<1> QED
  BY <1>1, <1>2, <1>3
  DEF Next, RefreshStep, AuthorizeStep, NodeNewTip, ThirtySecondsPass, GetTemplate, jobVars,
      GetTemplateFails, refreshSkip, BroadcastJob, SendJob, notifyV2, RegisterAddress,
      handleAuthorize, Disconnect, UnregisterAddress, StopCoin, PollLoopExits, vars

\* A job some miner can be sent carries its first coinbase half, whichever
\* address the map iteration starts with.
THEOREM Coinb1Correct == Spec => []Coinb1Complete
<1>1. Init => Coinb1Complete
  BY DEF Init, Coinb1Complete
<1> QED
  BY <1>1, InitTypeOK, NextTypeOK, InitNewest, NextNewest, NextComplete, PTL DEF Spec

-----------------------------------------------------------------------------
(* Solo mode: the count of each address *)

Pinned(a) == IF a = payout THEN 1 ELSE 0
Counted(a) == connectedAddrs[a] >= Cardinality(UsersOf(a)) + Pinned(a)

LEMMA UsersFinite ==
  ASSUME NEW a PROVE IsFiniteSet(UsersOf(a)) /\ Cardinality(UsersOf(a)) \in Nat
<1>1. UsersOf(a) \subseteq Sessions
  BY DEF UsersOf
<1> QED
  BY <1>1, JMAssumption, FS_Subset, FS_CardinalityType

LEMMA InitCounted == Init => AddressesCounted
<1> SUFFICES ASSUME Init, NEW a \in Addrs, soloMode PROVE Counted(a)
  BY DEF AddressesCounted, Counted, Pinned
<1>1. UsersOf(a) = {}
  BY DEF Init, UsersOf
<1>2. Cardinality(UsersOf(a)) = 0
  BY <1>1, FS_EmptySet
<1> QED
  BY <1>2 DEF Init, Counted, Pinned

LEMMA NextCounted == TypeOK /\ AddressesCounted /\ [Next]_vars => AddressesCounted'
<1> SUFFICES ASSUME TypeOK, AddressesCounted, [Next]_vars PROVE AddressesCounted'
  OBVIOUS
<1>0. UNCHANGED <<soloMode, payout>>
  BY DEF Next, RefreshStep, AuthorizeStep, NodeNewTip, ThirtySecondsPass, GetTemplate,
    GetTemplateFails, refreshSkip, refreshTemplate, BroadcastJob, SendJob, notifyV2,
    RegisterAddress, FillJobs, handleAuthorize, Disconnect, UnregisterAddress, StopCoin,
    PollLoopExits, confVars, vars
<1> SUFFICES ASSUME soloMode, NEW a \in Addrs PROVE Counted(a)'
  BY <1>0 DEF AddressesCounted, Counted, Pinned
<1>a. Counted(a) /\ connectedAddrs[a] \in Nat /\ Pinned(a) \in {0, 1} /\ Pinned(a)' = Pinned(a)
  BY <1>0 DEF AddressesCounted, Counted, Pinned, TypeOK
<1>b. Cardinality(UsersOf(a)) \in Nat /\ IsFiniteSet(UsersOf(a))
  BY UsersFinite
<1>1. ASSUME NEW s \in Sessions, NEW b \in Addrs, RegisterAddress(s, b) PROVE Counted(a)'
  <2>1. CASE a = b
    <3>1. UsersOf(a)' = UsersOf(a) \cup {s}
      BY <1>1, <2>1 DEF RegisterAddress, UsersOf, TypeOK
    <3>2. Cardinality(UsersOf(a) \cup {s}) \in
            {Cardinality(UsersOf(a)), Cardinality(UsersOf(a)) + 1}
      BY <1>b, FS_AddElement
    <3>3. connectedAddrs'[a] = connectedAddrs[a] + 1
      BY <1>1, <2>1 DEF RegisterAddress, TypeOK
    <3> QED
      BY <1>a, <1>b, <3>1, <3>2, <3>3 DEF Counted
  <2>2. CASE a # b
    <3>1. UsersOf(a)' \subseteq UsersOf(a)
      BY <1>1, <2>2 DEF RegisterAddress, UsersOf, TypeOK
    <3>2. Cardinality(UsersOf(a)') <= Cardinality(UsersOf(a)) /\ Cardinality(UsersOf(a)') \in Nat
      BY <1>b, <3>1, FS_Subset, FS_CardinalityType
    <3>3. connectedAddrs'[a] = connectedAddrs[a]
      BY <1>1, <2>2 DEF RegisterAddress, TypeOK
    <3> QED
      BY <1>a, <1>b, <3>2, <3>3 DEF Counted
  <2> QED
    BY <2>1, <2>2
<1>2. ASSUME NEW s \in Sessions, UnregisterAddress(s) PROVE Counted(a)'
  <2>1. CASE addr[s] = a
    <3>1. UsersOf(a)' = UsersOf(a) \ {s} /\ s \in UsersOf(a)
      BY <1>2, <2>1 DEF UnregisterAddress, UsersOf, TypeOK
    <3>2. Cardinality(UsersOf(a) \ {s}) = Cardinality(UsersOf(a)) - 1
      BY <1>b, <3>1, FS_RemoveElement
    <3>3. Cardinality(UsersOf(a) \ {s}) \in Nat
      BY <1>b, FS_Subset, FS_CardinalityType
    <3>4. connectedAddrs'[a] = IF connectedAddrs[a] <= 1 THEN 0 ELSE connectedAddrs[a] - 1
      BY <1>2, <2>1, JMAssumption DEF UnregisterAddress, TypeOK
    <3> QED
      BY <1>a, <1>b, <3>1, <3>2, <3>3, <3>4 DEF Counted
  <2>2. CASE addr[s] # a
    <3>1. UsersOf(a)' = UsersOf(a)
      BY <1>2, <2>2, JMAssumption DEF UnregisterAddress, UsersOf, TypeOK
    <3>2. connectedAddrs'[a] = connectedAddrs[a]
      BY <1>2, <2>2 DEF UnregisterAddress, TypeOK
    <3> QED
      BY <1>a, <3>1, <3>2 DEF Counted
  <2> QED
    BY <2>1, <2>2
<1>3. ASSUME UsersOf(a)' = UsersOf(a), UNCHANGED connectedAddrs PROVE Counted(a)'
  BY <1>a, <1>3 DEF Counted
<1>4. ASSUME NEW s \in Sessions, FillJobs(s) \/ handleAuthorize(s) \/ Disconnect(s)
      PROVE  Counted(a)'
  <2>1. UsersOf(a)' = UsersOf(a)
    BY <1>4 DEF FillJobs, handleAuthorize, Disconnect, UsersOf, TypeOK
  <2> QED
    BY <1>3, <1>4, <2>1 DEF FillJobs, handleAuthorize, Disconnect
<1>5. ASSUME UNCHANGED <<sessVars, connectedAddrs>> PROVE Counted(a)'
  BY <1>3, <1>5 DEF sessVars, UsersOf
<1> QED
  BY <1>1, <1>2, <1>4, <1>5
  DEF Next, RefreshStep, AuthorizeStep, NodeNewTip, ThirtySecondsPass, GetTemplate,
      GetTemplateFails, refreshSkip, refreshTemplate, BroadcastJob, SendJob, notifyV2, StopCoin,
      PollLoopExits, vars

\* An address counts at least the sessions that use it, and the pinned payout
\* address one more: no miner that leaves takes an address from those who stay.
THEOREM AddressesCountedCorrect == Spec => []AddressesCounted
BY InitTypeOK, NextTypeOK, InitCounted, NextCounted, PTL DEF Spec

-----------------------------------------------------------------------------
(* The job manager implements the work feed *)

LEMMA InitFeed == Init => Feed!Init
BY DEF Init, Feed!Init

LEMMA NextFeed ==
  TypeOK /\ NewestJobsHonoured /\ [Next]_vars => [Feed!Next]_(Feed!feedVars)
<1> SUFFICES ASSUME TypeOK, NewestJobsHonoured, [Next]_vars
             PROVE  [Feed!Next]_(Feed!feedVars)
  OBVIOUS
<1>1. ASSUME NEW r \in Refreshers, refreshTemplate(r) PROVE Feed!Next
  <2>1. PICK job \in NewJob(held[r]) :
          \A n \in Window(jobCounter + 1) :
            jobs'[n] = IF n = jobCounter + 1 THEN job ELSE jobs[n]
    BY <1>1, RefreshTable
  <2>2. /\ DOMAIN jobs' = Window(jobCounter + 1) /\ jobCounter' = jobCounter + 1
        /\ held[r] \in Tips
    BY <1>1, RefreshTable
  <2>3. job.tip = held[r]
    BY DEF NewJob
  <2>4. ASSUME NEW n \in Window(jobCounter + 1), n # jobCounter + 1 PROVE n \in DOMAIN jobs
    BY <2>4, JMAssumption DEF Window, NewestJobsHonoured, TypeOK
  <2>5. [n \in DOMAIN jobs' |-> jobs'[n].tip] =
          [n \in Window(jobCounter + 1) |->
             IF n = jobCounter + 1 THEN held[r] ELSE [m \in DOMAIN jobs |-> jobs[m].tip][n]]
    BY <2>1, <2>2, <2>3, <2>4
  <2>6. Feed!Window(jobCounter + 1) = Window(jobCounter + 1)
    BY DEF Feed!Window, Window
  <2>7. currentTip' = held[r] /\ latestClean' = (held[r] # currentTip)
    BY <1>1 DEF refreshTemplate, CleanJobs
  <2> QED
    BY <2>2, <2>5, <2>6, <2>7 DEF Feed!Next, Feed!Issue
<1>2. ASSUME NEW s \in Sessions, FillJobs(s) PROVE UNCHANGED Feed!feedVars
  <2>1. addr[s] \in Addrs \cup {NoAddr}
    BY DEF TypeOK
  <2>2. [n \in DOMAIN jobs' |-> jobs'[n].tip] = [n \in DOMAIN jobs |-> jobs[n].tip]
    BY <1>2, <2>1, FillJobType DEF FillJobs, TypeOK, JobTable
  <2>3. UNCHANGED <<jobCounter, currentTip, latestClean>>
    BY <1>2 DEF FillJobs
  <2> QED
    BY <2>2, <2>3, Zenon DEF Feed!feedVars
<1>3. ASSUME UNCHANGED <<jobs, jobCounter, currentTip, latestClean>>
      PROVE  UNCHANGED Feed!feedVars
  BY <1>3 DEF Feed!feedVars
<1> QED
  BY <1>1, <1>2, <1>3
  DEF Next, RefreshStep, AuthorizeStep, NodeNewTip, ThirtySecondsPass, GetTemplate, jobVars,
      GetTemplateFails, refreshSkip, BroadcastJob, SendJob, notifyV2, RegisterAddress,
      handleAuthorize, Disconnect, UnregisterAddress, StopCoin, PollLoopExits, vars

\* The jobs form a WorkFeed: numbered without gaps, marked clean exactly when the
\* tip moves, the newest History of them honoured with the tip they were built on.
THEOREM ImplementsWorkFeed == Spec => FeedSpec
<1> QED
  BY InitTypeOK, NextTypeOK, InitNewest, NextNewest, InitFeed, NextFeed, PTL
  DEF Spec, FeedSpec, Feed!Spec
=============================================================================

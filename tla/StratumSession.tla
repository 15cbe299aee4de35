--------------------------- MODULE StratumSession ---------------------------
(***************************************************************************)
(* pkg/stratum/session.go, with the parts of server.go, vardiff.go and of    *)
(* engine/sharevalidator.go it works with: the difficulty of one V1 session. *)
(* Four kinds of goroutine change it: the session's reader, the              *)
(* onSessionAuthorized hook the reader starts, and the two or more           *)
(* goroutines in which a JobManager callback broadcasts a job.  s.mu covers  *)
(* the change of the fields and not the messages that tell the miner.        *)
(*                                                                          *)
(* A handler is the list of steps it still has to take (todo); the steps      *)
(* that several handlers have in common are written once.  Difficulties are   *)
(* small numbers: a share is worth the difficulty its work was done at.       *)
(* Job IDs are the numbers in the order JobManager made the jobs.             *)
(*                                                                          *)
(* Time: jobDiffSettle and low_diff_share_grace are both 5 s by default and   *)
(* are one window here (recent); retarget_time is 300 s (retarget).  A        *)
(* handler is assumed to end before either runs out.                          *)
(***************************************************************************)
EXTENDS Integers, Sequences

CONSTANTS
  Diffs,        \* the difficulties between vardiff's min_diff and max_diff
  DefaultDiff,  \* stratum.difficulty
  StoredDiffs,  \* what the store may know of the worker, 0 for nothing
  Passwords,    \* difficulties a "d=" password may ask for, 0 for none
  Configs,      \* configurations of the coin: solo, on_new_block, accept_suggest_diff
  Broadcasters, \* goroutines that broadcast jobs
  MaxJobHistory,  \* maxJobHistory of the JobManager
  MaxJobDiffs,    \* maxJobDiffs
  MaxJobs(_),     \* bound: jobs made, in a configuration
  MaxAuthorizes,  \* bound: mining.authorize requests, from the first that succeeds
  MaxSuggests     \* bound: mining.suggest_difficulty requests

ASSUME SessionAssumption ==
  /\ Diffs \subseteq Nat \ {0}
  /\ DefaultDiff \in Diffs
  /\ StoredDiffs \subseteq Diffs \cup {0}
  /\ Passwords \subseteq Diffs \cup {0}
  /\ Configs \subseteq [solo : BOOLEAN, onNewBlock : BOOLEAN, acceptSuggest : BOOLEAN]
  /\ {"reader", "hook"} \cap Broadcasters = {}
  /\ MaxJobHistory \in Nat \ {0} /\ MaxJobDiffs \in Nat \ {0}
  /\ \A c \in Configs : MaxJobs(c) \in Nat
  /\ MaxAuthorizes \in Nat /\ MaxSuggests \in Nat

Threads == {"reader", "hook"} \cup Broadcasters
NoJob == 0

VARIABLES
  config,      \* the coin's configuration, which never changes
  \* session
  state,       \* "connected", "subscribed" or "authorized"
  difficulty,
  prevDiff,    \* 0 until the first change
  recent,      \* diffChangedAt is less than 5 s ago
  pendingDiff, \* 0 when none
  jobDiff,     \* jobDiff and jobOrder: the recorded jobs, oldest first
  \* vardiff
  vardiff,     \* its currentDiff
  retarget,    \* retarget_time has passed since lastRetarget, with 4 shares in the window
  \* job manager and server
  latest,      \* the newest job
  tipJob,      \* the first job on the current tip
  currentJob,  \* server.currentJob
  \* the worker's record in the store
  storedDiff,
  \* miner
  told,        \* the last difficulty it was sent, 0 before the first
  before,      \* the one before that, as long as the last one came moments ago
  work,        \* the work it may still find shares for: job, difficulty, who sent it
  \* goroutines
  call,        \* what each is doing
  authorizes, suggests  \* requests made (bounded)

fieldVars   == <<difficulty, prevDiff, recent>>
vardiffVars == <<vardiff, retarget>>
jobVars     == <<latest, tipJob, currentJob>>
minerVars   == <<told, before, work>>
boundVars   == <<authorizes, suggests, storedDiff, config>>
sessionVars == <<state, fieldVars, pendingDiff, jobDiff, vardiffVars, jobVars, minerVars, call, boundVars>>

Done == [by |-> "nobody", todo |-> <<>>, diff |-> 0, job |-> NoJob, clean |-> FALSE]

SessionInit ==
  /\ config \in Configs
  /\ state = "connected"
  /\ difficulty = DefaultDiff /\ prevDiff = 0 /\ recent = FALSE
  /\ pendingDiff = 0
  /\ jobDiff = <<>>
  /\ vardiff = DefaultDiff /\ retarget = FALSE
  /\ latest \in {0, 1} /\ tipJob = 1 /\ currentJob = latest
  /\ storedDiff \in StoredDiffs
  /\ told = 0 /\ before = 0 /\ work = {}
  /\ call = [t \in Threads |-> Done]
  /\ authorizes = 0 /\ suggests = 0

Idle(t) == call[t].todo = <<>>
AllIdle == \A t \in Threads : Idle(t)

\* handleAuthorize holds s.mu to its end, across the messages it sends.
MuFree == \/ Idle("reader")
          \/ call["reader"].by # "authorize"

At(t, step) == ~Idle(t) /\ Head(call[t].todo) = step
StepDone(t) == call' = [call EXCEPT ![t] = IF Len(@.todo) = 1 THEN Done
                                           ELSE [@ EXCEPT !.todo = Tail(call[t].todo)]]
Start(t, by, todo, d, j, clean) ==
  call' = [call EXCEPT ![t] = [by |-> by, todo |-> todo, diff |-> d, job |-> j, clean |-> clean]]

\* How every handler changes the difficulty, under s.mu.
ChangeDifficulty(d) ==
  /\ prevDiff' = difficulty
  /\ recent' = TRUE
  /\ difficulty' = d

SetWindow(d) == vardiff' = d /\ retarget' = FALSE

-----------------------------------------------------------------------------
(* Steps several handlers have in common *)

\* Sends mining.set_difficulty.
SendDifficulty(t) ==
  /\ At(t, "tell")
  /\ told' = call[t].diff
  /\ before' = told
  /\ StepDone(t)
  /\ UNCHANGED <<state, fieldVars, pendingDiff, jobDiff, vardiffVars, jobVars, work, boundVars>>

ResetWindow(t) ==
  /\ At(t, "reset")
  /\ SetWindow(call[t].diff)
  /\ StepDone(t)
  /\ UNCHANGED <<state, fieldVars, pendingDiff, jobDiff, jobVars, minerVars, boundVars>>

\* Mutant: no allowance for miners that start on a new difficulty one job late.
RecordedAtCurrent == difficulty

\* The difficulty a job is recorded at: the outgoing one within moments of a raise.
RecordedAt ==
  IF prevDiff > 0 /\ prevDiff < difficulty /\ recent THEN prevDiff ELSE difficulty

RecordJobDifficulty(t) ==
  /\ At(t, "record") /\ MuFree
  /\ LET j == call[t].job
         known == {i \in DOMAIN jobDiff : jobDiff[i].job = j}
         added == Append(jobDiff, [job |-> j, diff |-> RecordedAt])
     IN jobDiff' =
          IF known # {}
          THEN [i \in DOMAIN jobDiff |->
                  IF i \in known /\ RecordedAt < jobDiff[i].diff
                  THEN [jobDiff[i] EXCEPT !.diff = RecordedAt] ELSE jobDiff[i]]
          ELSE IF Len(added) > MaxJobDiffs THEN Tail(added) ELSE added
  /\ StepDone(t)
  /\ UNCHANGED <<state, fieldVars, pendingDiff, vardiffVars, jobVars, minerVars, boundVars>>

\* The miner gets mining.notify.  It works the job at the difficulty it was
\* last sent; some apply a new one only to the jobs after the one that comes
\* with it.
Notify(t, j, clean) ==
  \E d \in {told, before} \ {0} :
    work' = (IF clean THEN {} ELSE work)
              \cup {[job |-> j, diff |-> d, by |-> call[t].by]}

\* Which job: the one being broadcast; after authorize, the JobManager's newest
\* one in solo mode and the server's in pool mode; after a mid-block change, the
\* server's, with clean_jobs off.
SendNotify(t) ==
  /\ At(t, "notify")
  /\ LET j == CASE call[t].by = "broadcast" -> call[t].job
               [] call[t].by = "authorize" -> IF config.solo THEN latest ELSE currentJob
               [] call[t].by = "midblock"  -> currentJob
     IN IF j = NoJob THEN UNCHANGED work
        ELSE Notify(t, j, IF call[t].by = "authorize" THEN j = tipJob ELSE call[t].clean)
  /\ StepDone(t)
  /\ UNCHANGED <<state, fieldVars, pendingDiff, jobDiff, vardiffVars, jobVars, told, before, boundVars>>

Common(t) == SendDifficulty(t) \/ ResetWindow(t) \/ RecordJobDifficulty(t) \/ SendNotify(t)

-----------------------------------------------------------------------------
(* The session's reader *)

ReaderFree == Idle("reader") /\ state # "connected"

\* In any state: a session that subscribes again has to authorize again.
Subscribe ==
  /\ Idle("reader")
  /\ state' = "subscribed"
  /\ UNCHANGED <<fieldVars, pendingDiff, jobDiff, vardiffVars, jobVars, minerVars, call, boundVars>>

\* handleAuthorize: the password's difficulty first, then the replies, the
\* difficulty and the current job, all under s.mu; in solo mode the hook starts
\* at the end.
Authorize(p) ==
  /\ ReaderFree
  /\ authorizes < MaxAuthorizes
  /\ authorizes' = authorizes + 1
  /\ state' = "authorized"
  /\ IF p = 0 THEN UNCHANGED <<fieldVars, vardiffVars>>
     ELSE ChangeDifficulty(p) /\ SetWindow(p)
  /\ Start("reader", "authorize", IF config.solo THEN <<"tell", "notify", "hook">> ELSE <<"tell", "notify">>,
           difficulty', NoJob, FALSE)
  /\ UNCHANGED <<config, pendingDiff, jobDiff, jobVars, minerVars, suggests, storedDiff>>

\* The authorize handler refuses the worker's address: the password's difficulty
\* stays, and the miner is not told of it.
AuthorizeRejected(p) ==
  /\ ReaderFree /\ config.solo
  /\ authorizes < MaxAuthorizes
  /\ p # 0
  /\ authorizes' = IF authorizes = 0 THEN 0 ELSE authorizes + 1
  /\ ChangeDifficulty(p) /\ SetWindow(p)
  /\ UNCHANGED <<config, state, pendingDiff, jobDiff, jobVars, minerVars, call, suggests, storedDiff>>

StartHook ==
  /\ At("reader", "hook")
  /\ Idle("hook")
  /\ call' = [call EXCEPT !["reader"] = Done,
                         !["hook"] = [Done EXCEPT !.by = "hook", !.todo = <<"restore">>]]
  /\ UNCHANGED <<state, fieldVars, pendingDiff, jobDiff, vardiffVars, jobVars, minerVars, boundVars>>

\* Mutant: the vardiff tracker stays at the coin's default difficulty.
SetInitialWithoutReset ==
  /\ At("hook", "restore") /\ MuFree
  /\ IF storedDiff = 0
     THEN StepDone("hook") /\ UNCHANGED fieldVars
     ELSE /\ ChangeDifficulty(storedDiff)
          /\ Start("hook", "hook", <<"tell">>, storedDiff, NoJob, FALSE)
  /\ UNCHANGED <<state, pendingDiff, jobDiff, vardiffVars, jobVars, minerVars, boundVars>>

\* The hook gives the worker the difficulty the store last knew it at.
SetInitialDifficulty ==
  /\ At("hook", "restore") /\ MuFree
  /\ IF storedDiff = 0
     THEN StepDone("hook") /\ UNCHANGED fieldVars
     ELSE /\ ChangeDifficulty(storedDiff)
          /\ Start("hook", "hook", <<"reset", "tell">>, storedDiff, NoJob, FALSE)
  /\ UNCHANGED <<state, pendingDiff, jobDiff, vardiffVars, jobVars, minerVars, boundVars>>

\* mining.suggest_difficulty, in any state of the session.
SuggestDifficulty(d) ==
  /\ config.acceptSuggest
  /\ Idle("reader")
  /\ suggests < MaxSuggests
  /\ suggests' = suggests + 1
  /\ ChangeDifficulty(d)
  /\ Start("reader", "suggest", <<"reset", "tell">>, d, NoJob, FALSE)
  /\ UNCHANGED <<config, state, pendingDiff, jobDiff, vardiffVars, jobVars, minerVars, authorizes, storedDiff>>

\* ValidateShare's three tests of a share's worth.
RecordedDiff(j) == {jobDiff[i].diff : i \in {k \in DOMAIN jobDiff : jobDiff[k].job = j}}
MeetsDifficulty(j, d) ==
  \/ d >= difficulty
  \/ recent /\ prevDiff > 0 /\ d >= prevDiff
  \/ \E r \in RecordedDiff(j) : d >= r

\* ValidateShare's other tests: a job the JobManager has, on the current tip.
Mineable(j) == j > latest - MaxJobHistory /\ j >= tipJob

\* An accepted share is counted by vardiff, unless a change is waiting.  One
\* that is not accepted, or counted too early for a retarget, changes nothing.
Submit ==
  /\ Idle("reader")
  /\ state = "authorized"
  /\ \E w \in work : Mineable(w.job) /\ MeetsDifficulty(w.job, w.diff)
  /\ pendingDiff = 0 /\ retarget
  /\ Start("reader", "midblock", <<"retarget">>, 0, NoJob, FALSE)
  /\ UNCHANGED <<state, fieldVars, pendingDiff, jobDiff, vardiffVars, jobVars, minerVars, boundVars>>

\* RecordShare: the pace is right, or the new difficulty is within a factor of 4
\* of vardiff's own.  Delivery: at the next new block, or at once.
Delivery == IF config.onNewBlock THEN "queue" ELSE "midblock"
VardiffRecordShare ==
  /\ At("reader", "retarget")
  /\ retarget' = FALSE
  /\ \/ StepDone("reader") /\ UNCHANGED vardiff
     \/ /\ retarget
        /\ \E d \in Diffs \ {vardiff} :
             /\ d <= 4 * vardiff /\ vardiff <= 4 * d
             /\ vardiff' = d
             /\ call' = [call EXCEPT !["reader"].diff = d, !["reader"].todo = <<Delivery>>]
  /\ UNCHANGED <<state, fieldVars, pendingDiff, jobDiff, jobVars, minerVars, boundVars>>

QueueDifficulty ==
  /\ At("reader", "queue")
  /\ pendingDiff' = call["reader"].diff
  /\ StepDone("reader")
  /\ UNCHANGED <<state, fieldVars, jobDiff, vardiffVars, jobVars, minerVars, boundVars>>

\* The job resent after the change is not recorded again.
SendMidBlockDifficulty ==
  /\ At("reader", "midblock")
  /\ ChangeDifficulty(call["reader"].diff)
  /\ pendingDiff' = 0
  /\ call' = [call EXCEPT !["reader"].todo = <<"tell", "reset", "notify">>]
  /\ UNCHANGED <<state, jobDiff, vardiffVars, jobVars, minerVars, boundVars>>

-----------------------------------------------------------------------------
(* Broadcasts *)

\* The JobManager makes a job and, its lock released, a goroutine of its
\* callers broadcasts it.
NewJob(b, clean) ==
  /\ Idle(b)
  /\ latest < MaxJobs(config)
  /\ latest' = latest + 1
  /\ tipJob' = IF clean \/ latest = 0 THEN latest' ELSE tipJob
  /\ Start(b, "broadcast", <<"send">>, 0, latest', tipJob' = latest')
  /\ UNCHANGED <<state, fieldVars, pendingDiff, jobDiff, vardiffVars, currentJob, minerVars, boundVars>>

\* SendJob's first half: a pending difficulty goes out before the job.
FlushesPending(b) == pendingDiff > 0 /\ (~config.onNewBlock \/ call[b].clean)

\* Mutant: the flushed difficulty is not sent before the job.
SendJobUntold(b) ==
  /\ At(b, "send") /\ MuFree
  /\ currentJob' = call[b].job
  /\ IF state # "authorized" THEN StepDone(b) /\ UNCHANGED <<fieldVars, pendingDiff>>
     ELSE IF FlushesPending(b)
     THEN /\ ChangeDifficulty(pendingDiff)
          /\ pendingDiff' = 0
          /\ call' = [call EXCEPT ![b].diff = pendingDiff,
                                  ![b].todo = <<"reset", "record", "notify">>]
     ELSE /\ call' = [call EXCEPT ![b].todo = <<"record", "notify">>]
          /\ UNCHANGED <<fieldVars, pendingDiff>>
  /\ UNCHANGED <<state, jobDiff, vardiffVars, latest, tipJob, minerVars, boundVars>>

SendJob(b) ==
  /\ At(b, "send") /\ MuFree
  /\ currentJob' = call[b].job
  /\ IF state # "authorized" THEN StepDone(b) /\ UNCHANGED <<fieldVars, pendingDiff>>
     ELSE IF FlushesPending(b)
     THEN /\ ChangeDifficulty(pendingDiff)
          /\ pendingDiff' = 0
          /\ call' = [call EXCEPT ![b].diff = pendingDiff,
                                  ![b].todo = <<"tell", "reset", "record", "notify">>]
     ELSE /\ call' = [call EXCEPT ![b].todo = <<"record", "notify">>]
          /\ UNCHANGED <<fieldVars, pendingDiff>>
  /\ UNCHANGED <<state, jobDiff, vardiffVars, latest, tipJob, minerVars, boundVars>>

-----------------------------------------------------------------------------
(* Time *)

MomentsPass ==
  /\ AllIdle
  /\ recent \/ before # 0
  /\ recent' = FALSE
  /\ before' = 0
  /\ UNCHANGED <<state, difficulty, prevDiff, pendingDiff, jobDiff, vardiffVars, jobVars, told, work, call, boundVars>>

\* No share counts while a change is waiting, so the four come after it.
RetargetDue ==
  /\ ~retarget /\ ~recent /\ AllIdle
  /\ state = "authorized" /\ pendingDiff = 0
  /\ retarget' = TRUE
  /\ UNCHANGED <<state, fieldVars, pendingDiff, jobDiff, vardiff, jobVars, minerVars, call, boundVars>>

SessionNext ==
  \/ Subscribe \/ StartHook \/ SetInitialDifficulty \/ Submit \/ VardiffRecordShare
  \/ QueueDifficulty \/ SendMidBlockDifficulty
  \/ \E p \in Passwords : Authorize(p) \/ AuthorizeRejected(p)
  \/ \E d \in Diffs : SuggestDifficulty(d)
  \/ \E b \in Broadcasters : SendJob(b) \/ \E clean \in BOOLEAN : NewJob(b, clean)
  \/ \E t \in Threads : Common(t)
  \/ MomentsPass \/ RetargetDue

SessionSpec == SessionInit /\ [][SessionNext]_sessionVars

-----------------------------------------------------------------------------
(* Properties *)

\* Every difficulty is one vardiff's bounds allow, and the record of jobs never
\* outgrows maxJobDiffs.
SessionTypeOK ==
  /\ state \in {"connected", "subscribed", "authorized"}
  /\ difficulty \in Diffs /\ vardiff \in Diffs
  /\ {prevDiff, pendingDiff, told, before} \subseteq Diffs \cup {0}
  /\ recent \in BOOLEAN /\ retarget \in BOOLEAN
  /\ {latest, currentJob, tipJob} \subseteq Nat
  /\ jobDiff \in Seq([job : 1..latest, diff : Diffs]) /\ Len(jobDiff) <= MaxJobDiffs
  /\ work \subseteq [job : 1..latest, diff : Diffs, by : {"broadcast", "authorize", "midblock"}]

\* A share worked at the difficulty the miner had for its job is accepted as
\* long as the job is: whatever has changed since, "a share is judged against
\* its own job's difficulty".
WorkAccepted == \A w \in work : Mineable(w.job) => MeetsDifficulty(w.job, w.diff)

\* One goroutine at a time can change the difficulty: the connection authorizes once,
\* and its miner may suggest a difficulty only where none waits for a block and none is
\* restored from the store.
OneChanger == authorizes <= 1 /\ (config.acceptSuggest => ~config.solo /\ ~config.onNewBlock)

\* The same of the jobs that came by a broadcast, which are recorded, where the
\* difficulty changes at the job boundaries only.
BroadcastWorkAccepted ==
  OneChanger /\ config.onNewBlock /\ ~config.acceptSuggest =>
    \A w \in work : w.by = "broadcast" /\ Mineable(w.job) => MeetsDifficulty(w.job, w.diff)

\* Between handlers vardiff retargets from the difficulty the session has, or
\* from the one that waits to be sent: the tracker is "kept in step".
VardiffInStep ==
  OneChanger /\ AllIdle => vardiff = IF pendingDiff > 0 THEN pendingDiff ELSE difficulty

\* Between handlers the difficulty the session expects is the one the miner
\* was told last.
MinerInStep == OneChanger /\ AllIdle /\ state = "authorized" => told = difficulty
=============================================================================

------------------------------ MODULE SV2Work ------------------------------
(***************************************************************************)
(* pkg/stratumv2: how work reaches the channels of one Stratum V2 session.   *)
(* JobManager's callbacks (two goroutines) hand a template to                *)
(* BroadcastTemplate, which numbers it, caches it and starts a goroutine that *)
(* runs Session.UpdateTemplate; the session's reader opens channels and sends  *)
(* them the latest template; keepaliveLoop sends the last job again.  Nothing      *)
(* orders these senders: each takes and releases the channel's and the        *)
(* session's locks step by step, and the frames follow in the same way.       *)
(*                                                                          *)
(* A template is numbered by the JobManager (src) and by the server (its job  *)
(* ID), in one step here: JobManager has the callbacks out of order.  A        *)
(* coinbase is who it pays and the template it was built for.  What the miner  *)
(* makes of the messages is the protocol's: a staged job waits for its         *)
(* SetNewPrevHash, an immediate one is mined on the prev-hash it has.          *)
(***************************************************************************)
EXTENDS Integers, Sequences, FiniteSets, FiniteSetsExt, SequencesExt

CONSTANTS
  Channels,   \* channels the miner may open
  Payable,    \* those whose coinbase can be built; none of them in pool mode
  Feeders,    \* goroutines in which JobManager calls onNewJobV2
  Pushers,    \* bound: UpdateTemplate goroutines at a time
  MaxStaleJobs,        \* len(Channel.staleJobIDs)
  MaxTemplateHistory,  \* maxTemplateHistory
  MaxTemplates,  \* bound: templates of the JobManager
  MaxTips,       \* bound: blocks among them
  MaxKeepalives, \* bound: ticks of keepaliveLoop
  MaxCrowd       \* bound: other senders at work and channels, when a sender begins

ASSUME SV2Assumption ==
  /\ Payable \subseteq Channels
  /\ {"reader", "keeper"} \cap Pushers = {} /\ 0 \notin Feeders
  /\ MaxStaleJobs \in Nat /\ MaxTemplateHistory \in Nat \ {0}
  /\ MaxTemplates \in Nat /\ MaxTips \in Nat \ {0} /\ MaxKeepalives \in Nat

Senders == Pushers \cup {"reader", "keeper"}
None == 0
Pool == 0
NoCoinbase == [pays |-> Pool, src |-> 0]

VARIABLES
  \* job manager: the previous block of each template it made
  prevOf,
  feed,       \* the job ID each callback has numbered and not cached
  cast,       \* the one it has cached, before it goes through the sessions
  \* server
  issued,     \* jobCounter and the template of each job ID
  latestTemplate,
  listed,     \* the session: "new", in srv.sessions, greeted with the latest template, closed
  \* session
  channels,   \* s.channels
  lastJobID,
  templates,  \* what shares are judged by, per job and channel
  \* channels
  currentJob, staleJobs, activePrevHash, ownCoinbase,
  send,       \* what each sender is doing
  miner,      \* per channel: prev-hash, job and coinbase mined on
  sent,       \* jobs sent to each channel
  overlapped, \* two of the senders and broadcasts have been at work at a time
  ticks

feedVars    == <<prevOf, feed, cast>>
serverVars  == <<issued, latestTemplate, listed>>
sessionVars == <<channels, lastJobID, templates>>
channelVars == <<currentJob, staleJobs, activePrevHash, ownCoinbase>>
minerVars   == <<miner, sent>>
vars == <<feedVars, serverVars, sessionVars, channelVars, send, minerVars, overlapped, ticks>>

IdleSend == [pc |-> "idle", job |-> None, todo |-> {}, fresh |-> FALSE, ch |-> None, coinb |-> NoCoinbase]

For(x) == [c \in Channels |-> x]
NotMining == [prev |-> None, job |-> None, coinb |-> NoCoinbase]

Init ==
  /\ prevOf = <<1>>
  /\ feed = [g \in Feeders |-> None] /\ cast = [g \in Feeders |-> None]
  /\ issued = <<>> /\ latestTemplate = None /\ listed = "new"
  /\ channels = {} /\ lastJobID = None /\ templates = <<>>
  /\ currentJob = For(None) /\ staleJobs = For(<<>>)
  /\ activePrevHash = For(None) /\ ownCoinbase = For(NoCoinbase)
  /\ send = [t \in Senders |-> IdleSend]
  /\ miner = For(NotMining) /\ sent = For({})
  /\ overlapped = FALSE
  /\ ticks = 0

PrevHash(j) == prevOf[issued[j]]
LatestSrc == Len(prevOf)
Idle(t) == send[t].pc = "idle"
At(t, pc) == listed # "closed" /\ send[t].pc = pc
Free(g) == feed[g] = None /\ cast[g] = None
Go(t, pc) == send' = [send EXCEPT ![t].pc = pc]
\* The senders but t, and the broadcasts but g's, that are at work.
OthersAtWork(t) == {u \in Senders \ {t} : ~Idle(u)}
OthersCast(g) == {h \in Feeders \ {g} : cast[h] # None}
\* t begins to send, for the broadcast of g if g is one.
Begins(t, g) ==
  /\ Cardinality(OthersAtWork(t)) + Cardinality(channels) <= MaxCrowd
  /\ overlapped' = (overlapped \/ OthersAtWork(t) # {} \/ OthersCast(g) # {})

-----------------------------------------------------------------------------
(* The job manager and the server *)

\* JobManager has a template, perhaps of a new block, and calls onNewJobV2;
\* BroadcastTemplate numbers it,
NewTemplate(g) ==
  /\ Free(g) /\ listed # "closed"
  /\ Len(prevOf) < MaxTemplates
  /\ \E prev \in {Last(prevOf), Last(prevOf) + 1} :
       prev <= MaxTips /\ prevOf' = Append(prevOf, prev)
  /\ issued' = Append(issued, Len(prevOf'))
  /\ feed' = [feed EXCEPT ![g] = Len(issued')]
  /\ UNCHANGED <<cast, latestTemplate, listed, sessionVars, channelVars, send, minerVars, overlapped, ticks>>

\* Once, CoinRunner.Start primes the SV2 server with the template there is.
Prime(g) ==
  /\ Free(g) /\ Len(issued) < Len(prevOf)
  /\ issued' = Append(issued, LatestSrc)
  /\ feed' = [feed EXCEPT ![g] = Len(issued')]
  /\ UNCHANGED <<prevOf, cast, latestTemplate, listed, sessionVars, channelVars, send, minerVars, overlapped, ticks>>

StartPush(j, g) ==
  \E p \in Pushers : /\ Idle(p) /\ Begins(p, g)
                     /\ send' = [send EXCEPT ![p] = [@ EXCEPT !.pc = "start", !.job = j]]

\* caches it for the channels to come,
Cache(g) ==
  /\ feed[g] # None /\ listed # "closed"
  /\ latestTemplate' = feed[g]
  /\ cast' = [cast EXCEPT ![g] = feed[g]] /\ feed' = [feed EXCEPT ![g] = None]
  /\ overlapped' = (overlapped \/ OthersCast(g) # {} \/ \E t \in Senders : ~Idle(t))
  /\ UNCHANGED <<prevOf, issued, listed, sessionVars, channelVars, send, minerVars, ticks>>

\* and starts a goroutine for each listed session.
Broadcast(g) ==
  /\ cast[g] # None /\ listed # "closed"
  /\ IF listed \in {"listed", "greeted"} THEN StartPush(cast[g], g) ELSE UNCHANGED <<send, overlapped>>
  /\ cast' = [cast EXCEPT ![g] = None]
  /\ UNCHANGED <<prevOf, feed, serverVars, sessionVars, channelVars, minerVars, ticks>>

\* handleConn: the handshake is done, the session enters srv.sessions,
HandleConn ==
  /\ listed = "new"
  /\ listed' = "listed"
  /\ UNCHANGED <<feedVars, issued, latestTemplate, sessionVars, channelVars, send, minerVars, overlapped, ticks>>

\* and is pushed the latest template, before it reads its first message.
Greet ==
  /\ listed = "listed"
  /\ listed' = "greeted"
  /\ IF latestTemplate = None THEN UNCHANGED <<send, overlapped>> ELSE StartPush(latestTemplate, None)
  /\ UNCHANGED <<feedVars, issued, latestTemplate, sessionVars, channelVars, minerVars, ticks>>

-----------------------------------------------------------------------------
(* What the senders begin with *)

\* Each sender goes from channel to channel in the order of a map's iteration.
NextChannel(t, job, todo, pc) ==
  IF todo = {} THEN send' = [send EXCEPT ![t] = IdleSend]
  ELSE \E c \in todo :
         send' = [send EXCEPT ![t] = [IdleSend EXCEPT !.pc = pc, !.job = job, !.ch = c, !.todo = todo \ {c}]]

\* Solo mode: the channel's coinbase, for the template the job manager has by now.
RefreshCoinbase(c) ==
  ownCoinbase' = IF c \in Payable THEN [ownCoinbase EXCEPT ![c] = [pays |-> c, src |-> LatestSrc]]
                 ELSE ownCoinbase

\* Mutant: one template fewer is kept.
ForgetEarly ==
  LET jobs == {k[1] : k \in DOMAIN templates} IN
  templates' = [k \in {k \in DOMAIN templates : Cardinality(jobs) < MaxTemplateHistory \/ \E j \in jobs : j < k[1]} |-> templates[k]]

\* A template too many, and the job of the lowest number is forgotten.
ForgetOldest ==
  LET jobs == {k[1] : k \in DOMAIN templates} IN
  templates' = [k \in {k \in DOMAIN templates : Cardinality(jobs) <= MaxTemplateHistory \/ \E j \in jobs : j < k[1]} |-> templates[k]]

\* UpdateTemplate: the last job, the history, the channels there are.
UpdateTemplate(p) ==
  /\ p \in Pushers /\ At(p, "start")
  /\ lastJobID' = send[p].job
  /\ ForgetOldest
  /\ NextChannel(p, send[p].job, channels, "prepare")
  /\ UNCHANGED <<feedVars, serverVars, channels, channelVars, minerVars, overlapped, ticks>>

\* handleOpenChannel, handleOpenExtendedChannel: the channel is entered first, for every
\* sender to see,
OpenChannel(c) ==
  /\ listed = "greeted" /\ Idle("reader") /\ c \notin channels
  /\ channels' = channels \cup {c}
  /\ NextChannel("reader", None, {c}, "coinbase")
  /\ Begins("reader", None)
  /\ UNCHANGED <<feedVars, serverVars, lastJobID, templates, channelVars, minerVars, ticks>>

\* then has its coinbase built.
BuildCoinbase ==
  /\ At("reader", "coinbase")
  /\ RefreshCoinbase(send["reader"].ch)
  /\ Go("reader", "latest")
  /\ UNCHANGED <<feedVars, serverVars, sessionVars, currentJob, staleJobs, activePrevHash, minerVars, overlapped, ticks>>

\* A tick of keepaliveLoop; channels without a template for the last job are passed over.
Keepalive ==
  LET refreshed == {c \in channels : <<lastJobID, c>> \in DOMAIN templates} IN
  /\ listed = "greeted" /\ Idle("keeper") /\ ticks < MaxKeepalives
  /\ refreshed # {}
  /\ ticks' = ticks + 1
  /\ NextChannel("keeper", lastJobID, refreshed, "job")
  /\ Begins("keeper", None)
  /\ UNCHANGED <<feedVars, serverVars, sessionVars, channelVars, minerVars>>

-----------------------------------------------------------------------------
(* The steps of a send *)

\* Mutant: the channel keeps the first prev-hash it was given.
ActivateFirstPrevHash(t, c, j) ==
  /\ activePrevHash' = IF activePrevHash[c] = None THEN [activePrevHash EXCEPT ![c] = PrevHash(j)] ELSE activePrevHash
  /\ send' = [send EXCEPT ![t].pc = "job", ![t].job = j, ![t].fresh = activePrevHash[c] = None]

\* A template on the channel's prev-hash is a refresh, any other a new block.
ActivatePrevHash(t, c, j) ==
  /\ activePrevHash' = [activePrevHash EXCEPT ![c] = PrevHash(j)]
  /\ send' = [send EXCEPT ![t].pc = "job", ![t].job = j, ![t].fresh = activePrevHash[c] # PrevHash(j)]

\* A pusher prepares a channel.
Prepare(p) ==
  LET c == send[p].ch IN
  /\ p \in Pushers /\ At(p, "prepare")
  /\ RefreshCoinbase(c)
  /\ ActivatePrevHash(p, c, send[p].job)
  /\ UNCHANGED <<feedVars, serverVars, sessionVars, currentJob, staleJobs, minerVars, overlapped, ticks>>

\* Mutant: a push under way is left to serve the new channel.
LeaveToPushers ==
  /\ At("reader", "latest")
  /\ IF latestTemplate = None \/ \E p \in Pushers : ~Idle(p)
     THEN send' = [send EXCEPT !["reader"] = IdleSend] /\ UNCHANGED activePrevHash
     ELSE ActivatePrevHash("reader", send["reader"].ch, latestTemplate)
  /\ UNCHANGED <<feedVars, serverVars, sessionVars, currentJob, staleJobs, ownCoinbase, minerVars, overlapped, ticks>>

\* The reader sends a new channel the server's latest template, if there is one.
FirstTemplate ==
  /\ At("reader", "latest")
  /\ IF latestTemplate = None
     THEN send' = [send EXCEPT !["reader"] = IdleSend] /\ UNCHANGED activePrevHash
     ELSE ActivatePrevHash("reader", send["reader"].ch, latestTemplate)
  /\ UNCHANGED <<feedVars, serverVars, sessionVars, currentJob, staleJobs, ownCoinbase, minerVars, overlapped, ticks>>

\* SetCurrentJob: the last job becomes the newest of the superseded ones.
SetCurrentJob(c, j) ==
  /\ currentJob' = [currentJob EXCEPT ![c] = j]
  /\ staleJobs' = [staleJobs EXCEPT ![c] = SubSeq(<<currentJob[c]>> \o @, 1, Min({Len(@) + 1, MaxStaleJobs}))]

\* The coinbase a job goes out with: the channel's own, or the one it came with.
Coinbase(c, j) ==
  IF ownCoinbase[c].src # 0 THEN ownCoinbase[c]
  ELSE [pays |-> Pool, src |-> issued[j]]

\* Mutant: a job's template is kept once for all channels.
KeepByJob(c, j, coinb) ==
  templates' = [k \in DOMAIN templates \cup {<<j, c>>} |-> IF k[1] = j THEN coinb ELSE templates[k]]

\* What the shares of a job will be judged by is kept for this channel.
KeepTemplate(c, j, coinb) ==
  templates' = [k \in DOMAIN templates \cup {<<j, c>>} |-> IF k = <<j, c>> THEN coinb ELSE templates[k]]

\* sendJobToChannel, sendExtendedJobToChannel: the job and its template are noted,
SendJob(t) ==
  LET c == send[t].ch
      j == send[t].job
      coinb == Coinbase(c, j) IN
  /\ At(t, "job")
  /\ SetCurrentJob(c, j)
  /\ KeepTemplate(c, j, coinb)
  /\ send' = [send EXCEPT ![t].pc = "wire", ![t].coinb = coinb]
  /\ UNCHANGED <<feedVars, serverVars, channels, lastJobID, activePrevHash, ownCoinbase, minerVars, overlapped, ticks>>

\* What follows the last message to a channel.
SentTo(t) ==
  IF t = "reader" THEN send' = [send EXCEPT ![t] = IdleSend] /\ lastJobID' = send[t].job
  ELSE NextChannel(t, send[t].job, send[t].todo, IF t = "keeper" THEN "job" ELSE "prepare") /\ UNCHANGED lastJobID

\* then the frame is written.  A staged job waits, an immediate one is mined.  The reader
\* follows with a prev-hash in any case, a pusher only after a staged job.
WriteJob(t) ==
  LET c == send[t].ch
      j == send[t].job IN
  /\ At(t, "wire")
  /\ sent' = [sent EXCEPT ![c] = @ \cup {j}]
  /\ miner' = IF send[t].fresh THEN miner ELSE [miner EXCEPT ![c].job = j, ![c].coinb = send[t].coinb]
  /\ IF send[t].fresh \/ t = "reader" THEN Go(t, "prevhash") /\ UNCHANGED lastJobID ELSE SentTo(t)
  /\ UNCHANGED <<feedVars, serverVars, channels, templates, channelVars, overlapped, ticks>>

\* SetNewPrevHash: the miner goes over to the job it names.
SendPrevHash(t) ==
  LET c == send[t].ch
      j == send[t].job IN
  /\ At(t, "prevhash")
  /\ miner' = [miner EXCEPT ![c] = [prev |-> PrevHash(j), job |-> j, coinb |-> send[t].coinb]]
  /\ SentTo(t)
  /\ UNCHANGED <<feedVars, serverVars, channels, templates, channelVars, sent, overlapped, ticks>>

\* Close: the connection ends, whoever was sending gives up, and nothing of the
\* session is left.
Close ==
  /\ listed = "greeted"
  /\ listed' = "closed"
  /\ channels' = {} /\ lastJobID' = None /\ templates' = <<>>
  /\ currentJob' = For(None) /\ staleJobs' = For(<<>>)
  /\ activePrevHash' = For(None) /\ ownCoinbase' = For(NoCoinbase)
  /\ send' = [t \in Senders |-> IdleSend]
  /\ miner' = For(NotMining) /\ sent' = For({})
  /\ UNCHANGED <<feedVars, issued, latestTemplate, overlapped, ticks>>

Send(t) ==
  \/ UpdateTemplate(t) \/ Prepare(t)
  \/ SendJob(t) \/ WriteJob(t) \/ SendPrevHash(t)

Next ==
  \/ \E g \in Feeders : NewTemplate(g) \/ Prime(g) \/ Cache(g) \/ Broadcast(g)
  \/ HandleConn \/ Greet \/ BuildCoinbase \/ FirstTemplate \/ Keepalive \/ Close
  \/ \E c \in Channels : OpenChannel(c)
  \/ \E t \in Senders : Send(t)

Spec == Init /\ [][Next]_vars

-----------------------------------------------------------------------------
(* Properties *)

TypeOK ==
  /\ prevOf \in Seq(1..MaxTips)
  /\ \A g \in Feeders : feed[g] \in 0..Len(issued) /\ cast[g] \in 0..Len(issued)
  /\ \A j \in DOMAIN issued : issued[j] \in DOMAIN prevOf
  /\ latestTemplate \in 0..Len(issued) /\ lastJobID \in 0..Len(issued)
  /\ listed \in {"new", "listed", "greeted", "closed"}
  /\ channels \subseteq Channels
  /\ DOMAIN templates \subseteq (DOMAIN issued) \X Channels
  /\ \A c \in Channels : /\ currentJob[c] \in 0..Len(issued)
                         /\ Len(staleJobs[c]) <= MaxStaleJobs
                         /\ activePrevHash[c] \in 0..MaxTips
                         /\ sent[c] \subseteq DOMAIN issued
  /\ overlapped \in BOOLEAN /\ ticks \in 0..MaxKeepalives

\* Nobody has anything to send or to announce.
Quiet == (\A t \in Senders : Idle(t)) /\ \A g \in Feeders : Free(g)

IsJobValid(c, j) == j = currentJob[c] \/ j \in Range(staleJobs[c])

\* A share of any of the newest MaxTemplateHistory jobs a channel was sent can be judged,
\* whichever of them the senders numbered, sent and forgot out of order: the grace for
\* stale shares reaches back as far as the history is long.
NewestJobsJudged ==
  \A c \in channels : \A j \in sent[c] :
    j > Len(issued) - MaxTemplateHistory => <<j, c>> \in DOMAIN templates

\* A share is judged, and a block assembled, by a coinbase that pays the channel's
\* own worker once there is one: channels do not take each other's template.
PaysItsWorker ==
  \A k \in DOMAIN templates : templates[k].pays \in (IF k[2] \in Payable THEN {k[2]} ELSE {Pool})

\* No channel misses the newest template: one that opens during a broadcast gets it
\* from the broadcast or as its first job.
NewestReachesAll ==
  Quiet /\ latestTemplate # None => \A c \in channels : latestTemplate \in sent[c]

\* As long as no two of the senders and the broadcasts are at work at a time, a broadcast
\* from the caching of its template on, a miner that has all its messages works on the
\* newest template and on that template's prev-hash, the channel takes its shares as
\* current, and they are judged by the coinbase the miner was given.  Nothing in the code
\* keeps the senders apart.
SerialSendersAgree ==
  Quiet /\ ~overlapped => \A c \in channels : miner[c].job # None =>
    /\ miner[c].job = latestTemplate
    /\ miner[c].prev = PrevHash(miner[c].job)
    /\ currentJob[c] = miner[c].job
    /\ miner[c].coinb = templates[<<miner[c].job, c>>]

\* The miner mines a job on the job's own prev-hash (violated).
JobOnItsPrevHash ==
  Quiet => \A c \in channels : miner[c].job # None => miner[c].prev = PrevHash(miner[c].job)

\* A job's coinbase is built for the job's own template (violated).
CoinbaseOfItsTemplate ==
  Quiet => \A c \in channels : miner[c].job # None => miner[c].coinb.src = issued[miner[c].job]
=============================================================================

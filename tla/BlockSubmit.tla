---------------------------- MODULE BlockSubmit ----------------------------
(***************************************************************************)
(* What becomes of a share that solves a block: the V1 share validator        *)
(* (ValidateShare) and the SV2 goroutine (submitSV2Block) submit it to the     *)
(* node, record it, and close the round; the coin API later follows its        *)
(* confirmations.  Handlers of several solutions, the readers that count        *)
(* shares and two confirmation syncs interleave; the chain grows and is         *)
(* reorganised meanwhile.                                                    *)
(*                                                                          *)
(* A solution stands for its block.  Work is the set of shares it was summed    *)
(* from, so that what is counted twice or lost can be told.                     *)
(***************************************************************************)
EXTENDS Integers, Sequences, FiniteSets, SequencesExt

CONSTANTS
  Solutions,                 \* shares that meet the network target
  MaxForeign,                \* bound: blocks of other miners
  Syncers,                   \* "ticker" is runConfirmationSync, others are HandleBlocks requests
  XEC,                       \* the coin is eCash
  MaxAttempts,               \* of submitblock
  BlockMatureAt,             \* 100 in the code: above 1, for the tip may be replaced
  MaxFaults                  \* bound: failures of the node and of building and storing a block

ASSUME BlockSubmitAssumption ==
  /\ Solutions \cap (0..MaxForeign) = {}
  /\ "ticker" \in Syncers /\ XEC \in BOOLEAN
  /\ MaxAttempts \in Nat \ {0} /\ BlockMatureAt \in Nat \ {0, 1}
  /\ {MaxFaults, MaxForeign} \subseteq Nat

Foreign == 1..MaxForeign
Genesis == 0
Unavailable == -2   \* the node could not answer, or no confirmations stored yet
Orphaned == -1

VARIABLES
  \* the node
  active,     \* its best chain
  known,      \* blocks it has
  accepted,   \* own blocks it connected when they were submitted
  v1,              \* solutions that come by the V1 port, the others by SV2
  parent, height,  \* of a solution's block
  \* the engine
  pc,         \* of each solution's handler
  attempts,   \* of its submitblock
  outcome,    \* how its handler ended
  cooling,    \* eCash: the last submission was less than the cooldown ago
  roundWork, roundShares,
  taken,      \* the round a solution closed
  valid,      \* shares answered as valid and recorded
  blocksFound,
  \* disk
  lost,       \* records under /pool/lost-blocks
  unwritten,  \* solutions whose record could not be written: a log line is left
  stored,     \* table blocks: by height
  sync,       \* confirmation syncs under way
  faults

nodeVars  == <<active, known, accepted>>
blockVars == <<v1, parent, height>>
handlerVars == <<pc, attempts, outcome>>
statsVars == <<roundWork, roundShares, taken, valid, blocksFound>>
recordVars == <<lost, unwritten>>
diskVars  == <<recordVars, stored>>
vars == <<nodeVars, blockVars, handlerVars, cooling, statsVars, diskVars, sync, faults>>

IdleSync == [pc |-> "idle", h |-> 0, conf |-> Unavailable]

Init ==
  /\ active = <<Genesis>> /\ known = {Genesis} /\ accepted = {}
  /\ v1 \in SUBSET Solutions
  /\ parent = [s \in Solutions |-> Genesis] /\ height = [s \in Solutions |-> 0]
  /\ pc = [s \in Solutions |-> "unfound"]
  /\ attempts = [s \in Solutions |-> 0] /\ outcome = [s \in Solutions |-> "none"]
  /\ cooling = FALSE
  /\ roundWork = {} /\ roundShares = 0 /\ taken = [s \in Solutions |-> {}]
  /\ valid = {} /\ blocksFound = {}
  /\ lost = {} /\ unwritten = {} /\ stored = <<>>
  /\ sync = [y \in Syncers |-> IdleSync]
  /\ faults = 0

Fault == faults < MaxFaults /\ faults' = faults + 1
NoFault == UNCHANGED faults
End(s, how) == pc' = [pc EXCEPT ![s] = "done"] /\ outcome' = [outcome EXCEPT ![s] = how]
Go(s, to) == pc' = [pc EXCEPT ![s] = to] /\ UNCHANGED outcome

-----------------------------------------------------------------------------
(* The node's chain *)

NewForeign == {f \in Foreign : f \notin known /\ (f = 1 \/ f - 1 \in known)}

ForeignBlock(f) ==
  /\ f \in NewForeign
  /\ known' = known \cup {f} /\ active' = Append(active, f)
  /\ UNCHANGED <<accepted, blockVars, handlerVars, cooling, statsVars, diskVars, sync, faults>>

\* The tip gives way to a competitor of the same height, someone else's or an own block
\* on the side: a restarted node may choose so, and another block on top confirms it.
Competitors == {b \in (known \cap Solutions) \ Range(active) : parent[b] = active[Len(active) - 1]}

Reorg(b) ==
  /\ Len(active) > 1
  /\ b \in NewForeign \cup Competitors
  /\ known' = known \cup {b}
  /\ active' = Append(Front(active), b)
  /\ UNCHANGED <<accepted, blockVars, handlerVars, cooling, statsVars, diskVars, sync, faults>>

-----------------------------------------------------------------------------
(* Shares *)

\* Stats.RecordShare for a valid share.
RecordShare(s) ==
  /\ roundWork' = roundWork \cup {s}
  /\ roundShares' = roundShares + 1
  /\ valid' = valid \cup {s}
  /\ UNCHANGED <<taken, blocksFound>>

\* A share meets the target; within the stale grace its job's tip may be gone by now,
\* which is a block that comes between this step and the next.  V1 records the share
\* first; SV2 starts the goroutine of the block first.
Solve(s) ==
  /\ pc[s] = "unfound"
  /\ parent' = [parent EXCEPT ![s] = Last(active)]
  /\ height' = [height EXCEPT ![s] = Len(active) + 1]
  /\ Go(s, IF XEC THEN "gates" ELSE "build")
  /\ IF s \in v1 THEN RecordShare(s) ELSE UNCHANGED statsVars
  /\ UNCHANGED <<nodeVars, v1, attempts, cooling, diskVars, sync, faults>>

\* OnShare goes on after it has started the goroutine.
RecordV2Share(s) ==
  /\ s \notin v1 /\ pc[s] # "unfound" /\ s \notin valid
  /\ RecordShare(s)
  /\ UNCHANGED <<nodeVars, blockVars, handlerVars, cooling, diskVars, sync, faults>>

-----------------------------------------------------------------------------
(* The way of a solved block *)

CooldownEnds ==
  /\ cooling /\ cooling' = FALSE
  /\ UNCHANGED <<nodeVars, blockVars, handlerVars, statsVars, diskVars, sync, faults>>

\* eCash only: nothing is submitted within the cooldown of the last submission, on
\* another tip than the node's, if it answers, or above the real-time target.
Gates(s) ==
  /\ pc[s] = "gates"
  /\ \/ NoFault /\ End(s, "gated")
     \/ Fault /\ ~cooling /\ Go(s, "build")
     \/ NoFault /\ ~cooling /\ parent[s] = Last(active) /\ Go(s, "build")
  /\ UNCHANGED <<nodeVars, blockVars, attempts, cooling, statsVars, diskVars, sync>>

\* The file of a record has the height in its name, and the beginning of the hash (V1) or
\* the second (SV2): two blocks of a height may have the same.
SameName(s, t) == height[s] = height[t] /\ (s \in v1 <=> t \in v1)

\* persistLostBlock, persistLostBlockSV2: MkdirAll and WriteFile may fail, and a file of
\* that name is written over, or cut off by a write that fails.
PersistLostBlock(s, hex) ==
  \E over \in {{}} \cup {{r} : r \in {r \in lost : SameName(s, r.block)}} :
    \/ lost' = (lost \ over) \cup {[block |-> s, hex |-> hex]} /\ UNCHANGED unwritten
    \/ lost' = lost \ over /\ unwritten' = unwritten \cup {s}

\* A V1 block that cannot be built leaves a record without the block, an SV2 one nothing.
BuildBlock(s) ==
  /\ pc[s] = "build"
  /\ \/ NoFault /\ Go(s, "submit") /\ UNCHANGED recordVars
     \/ /\ Fault /\ End(s, "unbuilt")
        /\ IF s \in v1 THEN PersistLostBlock(s, FALSE) ELSE UNCHANGED recordVars
  /\ UNCHANGED <<nodeVars, blockVars, attempts, cooling, statsVars, stored, sync>>

\* What the node makes of a block submitted to it.
Accepts(s) == s \notin known /\ parent[s] = Last(active)
NodeTakes(s) ==
  /\ known' = known \cup {s}
  /\ active' = IF Accepts(s) THEN Append(active, s) ELSE active
  /\ accepted' = IF Accepts(s) THEN accepted \cup {s} ELSE accepted

Answer(s) == attempts' = [attempts EXCEPT ![s] = 0]

\* The node's answer: null, or "duplicate", "inconclusive", "high-hash" and so on.
Answered(s) ==
  /\ NoFault /\ NodeTakes(s)
  /\ IF Accepts(s) THEN Go(s, "verify") /\ cooling' = XEC /\ UNCHANGED recordVars
     ELSE End(s, "rejected") /\ PersistLostBlock(s, TRUE) /\ UNCHANGED cooling
  /\ Answer(s)

\* The node will not have the block.
Refused(s) ==
  /\ s \notin known /\ Fault
  /\ End(s, "rejected") /\ PersistLostBlock(s, TRUE)
  /\ Answer(s)
  /\ UNCHANGED <<nodeVars, cooling>>

\* Mutant: the error of the last attempt is not returned.
AttemptFailsSilently(s) ==
  IF attempts[s] + 1 < MaxAttempts
  THEN Go(s, "submit") /\ attempts' = [attempts EXCEPT ![s] = @ + 1] /\ UNCHANGED recordVars
  ELSE Go(s, "verify") /\ Answer(s) /\ UNCHANGED recordVars

\* A transport error: the attempt is repeated, the last one gives up.
AttemptFails(s) ==
  IF attempts[s] + 1 < MaxAttempts
  THEN Go(s, "submit") /\ attempts' = [attempts EXCEPT ![s] = @ + 1] /\ UNCHANGED recordVars
  ELSE End(s, "unsent") /\ Answer(s) /\ PersistLostBlock(s, TRUE)

\* One attempt of SubmitBlock: answered, or the request or its answer is lost.
SubmitBlock(s) ==
  /\ pc[s] = "submit"
  /\ \/ Answered(s) \/ Refused(s)
     \/ NoFault /\ AttemptFails(s) /\ UNCHANGED <<nodeVars, cooling>>
     \/ NoFault /\ NodeTakes(s) /\ AttemptFails(s) /\ UNCHANGED cooling
  /\ UNCHANGED <<blockVars, statsVars, stored, sync>>

\* GetBlockHash: only a block found at its height is recorded.
VerifyBlock(s) ==
  /\ pc[s] = "verify"
  /\ \/ /\ NoFault
        /\ IF height[s] <= Len(active) /\ active[height[s]] = s
           THEN Go(s, "take") /\ blocksFound' = blocksFound \cup {s}
           ELSE End(s, "unverified") /\ UNCHANGED blocksFound
     \/ Fault /\ End(s, "unverified") /\ UNCHANGED blocksFound
  /\ UNCHANGED <<nodeVars, blockVars, attempts, cooling, roundWork, roundShares, taken, valid, diskVars, sync>>

\* Mutant: the round is read and goes on.
PeekRoundWork(s) ==
  /\ taken' = [taken EXCEPT ![s] = roundWork]
  /\ UNCHANGED <<roundWork, roundShares>>

TakeRoundWork(s) ==
  /\ taken' = [taken EXCEPT ![s] = roundWork]
  /\ roundWork' = {} /\ roundShares' = 0

CloseRound(s) ==
  /\ pc[s] = "take"
  /\ TakeRoundWork(s)
  /\ Go(s, "store")
  /\ UNCHANGED <<nodeVars, blockVars, attempts, cooling, valid, blocksFound, diskVars, sync, faults>>

\* Store.RecordBlock: INSERT OR IGNORE; a failure is logged.
StoreBlock(s) ==
  /\ pc[s] = "store"
  /\ \/ /\ NoFault /\ End(s, "stored")
        /\ stored' = [h \in DOMAIN stored \cup {height[s]} |->
                        IF h \in DOMAIN stored THEN stored[h] ELSE [block |-> s, conf |-> Unavailable]]
     \/ Fault /\ End(s, "unstored") /\ UNCHANGED stored
  /\ UNCHANGED <<nodeVars, blockVars, attempts, cooling, statsVars, recordVars, sync>>

-----------------------------------------------------------------------------
(* The coin API *)

\* GetBlockConfirmations
Confirmations(h) ==
  IF stored[h].block \in Range(active) THEN Len(active) - h + 1 ELSE Orphaned

\* A sync asks the node about a block, until it answers; the periodic one leaves mature blocks alone.
AskConfirmations(y, h) ==
  /\ sync[y].pc = "idle"
  /\ h \in DOMAIN stored
  /\ y = "ticker" => stored[h].conf < BlockMatureAt
  /\ sync' = [sync EXCEPT ![y] = [pc |-> "answered", h |-> h, conf |-> Confirmations(h)]]
  /\ UNCHANGED <<nodeVars, blockVars, handlerVars, cooling, statsVars, diskVars, faults>>

\* Mutant: an orphan stays one.
NewConfTerminal(old, conf) ==
  IF conf = Orphaned \/ (conf > old /\ old # Orphaned) THEN conf ELSE old

\* UpdateBlockConfirmations only raises, MarkBlockOrphaned sets -1.
NewConf(old, conf) ==
  IF conf = Orphaned \/ conf > old THEN conf ELSE old

ApplyConfirmations(y) ==
  LET h == sync[y].h IN
  /\ sync[y].pc = "answered"
  /\ stored' = [stored EXCEPT ![h].conf = NewConf(@, sync[y].conf)]
  /\ sync' = [sync EXCEPT ![y] = IdleSync]
  /\ UNCHANGED <<nodeVars, blockVars, handlerVars, cooling, statsVars, recordVars, faults>>

Handler(s) ==
  \/ Gates(s) \/ BuildBlock(s) \/ SubmitBlock(s)
  \/ VerifyBlock(s) \/ CloseRound(s) \/ StoreBlock(s)

Next ==
  \/ \E f \in Foreign : ForeignBlock(f)
  \/ \E b \in Foreign \cup Solutions : Reorg(b)
  \/ \E s \in Solutions : Solve(s) \/ RecordV2Share(s) \/ Handler(s)
  \/ CooldownEnds
  \/ \E y \in Syncers : ApplyConfirmations(y) \/ \E h \in DOMAIN stored : AskConfirmations(y, h)

Spec == Init /\ [][Next]_vars

-----------------------------------------------------------------------------
(* Properties *)

\* Every variable stays within its type; the chain and the parents are blocks the node has,
\* and the count of the round is that of its shares.
TypeOK ==
  /\ active \in Seq(known) /\ active # <<>> /\ known \subseteq {Genesis} \cup Foreign \cup Solutions
  /\ accepted \subseteq known \cap Solutions
  /\ v1 \subseteq Solutions /\ parent \in [Solutions -> known] /\ height \in [Solutions -> Nat]
  /\ pc \in [Solutions -> {"unfound", "gates", "build", "submit", "verify", "take", "store", "done"}]
  /\ outcome \in [Solutions -> {"none", "gated", "unbuilt", "rejected", "unsent", "unverified",
                                "stored", "unstored"}]
  /\ attempts \in [Solutions -> Nat]
  /\ cooling \in BOOLEAN
  /\ IsFiniteSet(roundWork) /\ roundShares = Cardinality(roundWork)
  /\ roundWork \subseteq valid /\ valid \subseteq Solutions /\ blocksFound \subseteq Solutions
  /\ taken \in [Solutions -> SUBSET valid]
  /\ lost \subseteq [block : Solutions, hex : BOOLEAN] /\ unwritten \subseteq Solutions
  /\ DOMAIN stored \subseteq Nat
  /\ stored \in [DOMAIN stored -> [block : Solutions, conf : Int]]
  /\ sync \in [Syncers -> [pc : {"idle", "answered"}, h : Nat, conf : Int]]
  /\ faults \in 0..MaxFaults

\* Two handlers that end a round at a time, with shares arriving in between, share the
\* work out: every valid share counts in the current round or in one that was closed,
\* and in one only.
WorkCountedOnce ==
  /\ valid = roundWork \cup UNION Range(taken)
  /\ \A s \in Solutions : /\ roundWork \cap taken[s] = {}
                          /\ \A t \in Solutions \ {s} : taken[s] \cap taken[t] = {}

\* A block that was built, and that the node either did not connect or did not say it
\* had, is kept on disk in full to be submitted by hand, unless eCash's gates ended its
\* handler.  It is not if its record could not be written, or if the handler of another
\* block of its height and protocol came to keep a record: that may have had its name.
WritesRecord(s) == outcome[s] \in {"rejected", "unsent"} \/ (outcome[s] = "unbuilt" /\ s \in v1)
UnsubmittedIsKept ==
  \A s \in Solutions :
    (/\ pc[s] = "done" /\ outcome[s] \notin {"gated", "unbuilt"}
     /\ s \notin accepted \/ outcome[s] \in {"rejected", "unsent"}
     /\ s \notin unwritten
     /\ ~ \E t \in Solutions \ {s} : SameName(s, t) /\ WritesRecord(t))
    => [block |-> s, hex |-> TRUE] \in lost

\* When another tick would change nothing, a stored block is marked as orphaned exactly
\* if it is off the active chain, though syncs apply old answers after new ones: the
\* mark is taken back when the block returns.
TickChangesNothing ==
  /\ \A y \in Syncers : sync[y].pc = "idle"
  /\ \A h \in DOMAIN stored : \/ stored[h].conf >= BlockMatureAt
                              \/ stored[h].conf = NewConf(stored[h].conf, Confirmations(h))
MarksSettle ==
  TickChangesNothing =>
    \A h \in DOMAIN stored : (stored[h].conf = Orphaned) = (stored[h].block \notin Range(active))

\* A block that is put down as lost was not taken by the node (violated).
RejectionAuthoritative == \A l \in lost : l.block \notin accepted
=============================================================================

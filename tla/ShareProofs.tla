---------------------------- MODULE ShareProofs ----------------------------
(* Theorems about the shares a miner finds and the blocks among them: about   *)
(* BlockSubmit, for any solutions, blocks of others, syncs and bounds, and    *)
(* about StratumSession, for any difficulties, configurations, goroutines and *)
(* bounds.  The README has the arguments.                                    *)
EXTENDS BlockSubmit, StratumSession, FiniteSetTheorems, TLAPS

-----------------------------------------------------------------------------
(* Types *)

LEMMA TipIsKnown ==
  ASSUME TypeOK PROVE Last(active) \in known /\ Len(active) \in Nat /\ Len(active) > 0
BY DEF TypeOK, Last

LEMMA InitTypeOK == Init => TypeOK
<1> SUFFICES ASSUME Init PROVE TypeOK
  OBVIOUS
<1> USE BlockSubmitAssumption DEF Init
<1>1. active \in Seq(known) /\ active # <<>> /\ known \subseteq {Genesis} \cup Foreign \cup Solutions
  OBVIOUS
<1>2. IsFiniteSet(roundWork) /\ roundShares = Cardinality(roundWork)
  BY FS_EmptySet
<1>3. DOMAIN stored = {} /\ stored \in [{} -> [block : Solutions, conf : Int]]
  OBVIOUS
<1>4. sync \in [Syncers -> [pc : {"idle", "answered"}, h : Nat, conf : Int]]
  BY DEF IdleSync, Unavailable
<1>5. /\ v1 \subseteq Solutions /\ parent \in [Solutions -> known] /\ height \in [Solutions -> Nat]
      /\ attempts \in [Solutions -> Nat]
      /\ faults \in 0..MaxFaults
  OBVIOUS
<1>6. /\ pc \in [Solutions -> {"unfound"}] /\ outcome \in [Solutions -> {"none"}]
      /\ taken \in [Solutions -> SUBSET valid]
      /\ accepted = {} /\ lost = {} /\ unwritten = {} /\ blocksFound = {} /\ roundWork = {} /\ valid = {}
      /\ cooling = FALSE
  OBVIOUS
<1> QED
  BY <1>1, <1>2, <1>3, <1>4, <1>5, <1>6 DEF TypeOK

\* The parts of TypeOK.
NodeTypes ==
  /\ active \in Seq(known) /\ active # <<>> /\ known \subseteq {Genesis} \cup Foreign \cup Solutions
  /\ accepted \subseteq known \cap Solutions
  /\ v1 \subseteq Solutions /\ parent \in [Solutions -> known] /\ height \in [Solutions -> Nat]

HandlerTypes ==
  /\ pc \in [Solutions -> {"unfound", "gates", "build", "submit", "verify", "take", "store", "done"}]
  /\ outcome \in [Solutions -> {"none", "gated", "unbuilt", "rejected", "unsent", "unverified",
                                "stored", "unstored"}]
  /\ attempts \in [Solutions -> Nat]
  /\ cooling \in BOOLEAN
  /\ faults \in 0..MaxFaults

StatsTypes ==
  /\ IsFiniteSet(roundWork) /\ roundShares = Cardinality(roundWork)
  /\ roundWork \subseteq valid /\ valid \subseteq Solutions /\ blocksFound \subseteq Solutions
  /\ taken \in [Solutions -> SUBSET valid]

DiskTypes ==
  /\ lost \subseteq [block : Solutions, hex : BOOLEAN] /\ unwritten \subseteq Solutions
  /\ DOMAIN stored \subseteq Nat
  /\ stored \in [DOMAIN stored -> [block : Solutions, conf : Int]]
  /\ sync \in [Syncers -> [pc : {"idle", "answered"}, h : Nat, conf : Int]]

LEMMA TypeParts == TypeOK <=> NodeTypes /\ HandlerTypes /\ StatsTypes /\ DiskTypes
BY DEF TypeOK, NodeTypes, HandlerTypes, StatsTypes, DiskTypes

LEMMA NodeSame ==
  ASSUME NodeTypes, UNCHANGED <<nodeVars, blockVars>> PROVE NodeTypes'
BY DEF NodeTypes, nodeVars, blockVars

LEMMA StatsSame ==
  ASSUME StatsTypes, UNCHANGED statsVars PROVE StatsTypes'
BY DEF StatsTypes, statsVars

LEMMA DiskSame ==
  ASSUME DiskTypes, UNCHANGED <<diskVars, sync>> PROVE DiskTypes'
BY DEF DiskTypes, diskVars, recordVars

\* The chain and the blocks known grow.
LEMMA NodeGrows ==
  ASSUME NodeTypes, NEW b \in Foreign \cup Solutions, known' = known \cup {b},
         active' \in {active, Append(active, b), Append(Front(active), b)},
         accepted' = accepted \/ (b \in Solutions /\ accepted' = accepted \cup {b}),
         UNCHANGED blockVars
  PROVE  NodeTypes'
<1>1. active' \in Seq(known') /\ active' # <<>>
  <2>1. active \in Seq(known) /\ active # <<>> /\ known \subseteq known' /\ b \in known'
    BY DEF NodeTypes
  <2>2. active \in Seq(known')
    BY <2>1
  <2>3. Append(active, b) \in Seq(known') /\ Append(active, b) # <<>>
    BY <2>1, <2>2
  <2>4. Front(active) \in Seq(known')
    BY <2>1, <2>2 DEF Front
  <2>5. Append(Front(active), b) \in Seq(known') /\ Append(Front(active), b) # <<>>
    BY <2>1, <2>4
  <2> QED
    BY <2>1, <2>2, <2>3, <2>5
<1> QED
  BY <1>1 DEF NodeTypes, blockVars

LEMMA RecordShareType ==
  ASSUME StatsTypes, NEW s \in Solutions, s \notin valid, RecordShare(s)
  PROVE  StatsTypes'
<1>1. s \notin roundWork
  BY DEF StatsTypes
<1>2. IsFiniteSet(roundWork') /\ roundShares' = Cardinality(roundWork')
  BY <1>1, FS_AddElement DEF StatsTypes, RecordShare
<1> QED
  BY <1>2 DEF StatsTypes, RecordShare

LEMMA PersistType ==
  ASSUME DiskTypes, NEW s \in Solutions,
         UNCHANGED recordVars \/ \E hex \in BOOLEAN : PersistLostBlock(s, hex),
         UNCHANGED <<stored, sync>>
  PROVE  DiskTypes'
<1>1. lost' \subseteq [block : Solutions, hex : BOOLEAN] /\ unwritten' \subseteq Solutions
  <2>1. CASE UNCHANGED recordVars
    BY <2>1 DEF recordVars, DiskTypes
  <2>2. ASSUME NEW hex \in BOOLEAN, PersistLostBlock(s, hex)
        PROVE  lost' \subseteq lost \cup {[block |-> s, hex |-> hex]} /\ unwritten' \subseteq unwritten \cup {s}
    BY <2>2 DEF PersistLostBlock
  <2>3. \A hex \in BOOLEAN : [block |-> s, hex |-> hex] \in [block : Solutions, hex : BOOLEAN]
    OBVIOUS
  <2> QED
    BY <2>1, <2>2, <2>3 DEF DiskTypes
<1> QED
  BY <1>1 DEF DiskTypes

LEMMA SolveType ==
  ASSUME TypeOK, NEW s \in Solutions, Solve(s), pc[s] = "unfound" => s \notin valid
  PROVE  TypeOK'
<1> USE TypeParts
<1>1. NodeTypes'
  BY TipIsKnown DEF Solve, NodeTypes, nodeVars
<1>2. HandlerTypes'
  BY BlockSubmitAssumption DEF Solve, HandlerTypes, Go
<1>3. StatsTypes'
  BY RecordShareType, StatsSame DEF Solve
<1>4. DiskTypes'
  BY DiskSame DEF Solve
<1> QED
  BY <1>1, <1>2, <1>3, <1>4 DEF TypeOK, NodeTypes, HandlerTypes, StatsTypes, DiskTypes

LEMMA SubmitType ==
  ASSUME TypeOK, NEW s \in Solutions, SubmitBlock(s)
  PROVE  TypeOK'
<1> USE TypeParts
<1>1. NodeTypes'
  <2>1. CASE NodeTakes(s)
    BY <2>1, NodeGrows DEF NodeTakes, SubmitBlock
  <2>2. CASE UNCHANGED nodeVars
    BY <2>2, NodeSame DEF SubmitBlock
  <2> QED
    BY <2>1, <2>2 DEF SubmitBlock, Answered, Refused, nodeVars
<1>2. HandlerTypes'
  <2>1. attempts' \in {[attempts EXCEPT ![s] = 0], [attempts EXCEPT ![s] = @ + 1]} /\ cooling' \in {cooling, XEC}
    BY DEF SubmitBlock, Answered, Refused, AttemptFails, Answer
  <2>2. attempts' \in [Solutions -> Nat] /\ cooling' \in BOOLEAN
    BY <2>1, BlockSubmitAssumption DEF HandlerTypes
  <2>3. \/ \E to \in {"submit", "verify"} : Go(s, to)
        \/ \E how \in {"rejected", "unsent"} : End(s, how)
    BY DEF SubmitBlock, Answered, Refused, AttemptFails
  <2>4. Fault \/ NoFault
    BY DEF SubmitBlock, Answered, Refused
  <2>5. faults' \in 0..MaxFaults
    BY <2>4, BlockSubmitAssumption DEF Fault, NoFault, HandlerTypes
  <2> QED
    BY <2>2, <2>3, <2>5 DEF HandlerTypes, Go, End
<1>3. StatsTypes'
  BY StatsSame DEF SubmitBlock
<1>4. DiskTypes'
  BY PersistType DEF SubmitBlock, Answered, Refused, AttemptFails
<1> QED
  BY <1>1, <1>2, <1>3, <1>4 DEF TypeOK, NodeTypes, HandlerTypes, StatsTypes, DiskTypes

LEMMA TakeType ==
  ASSUME TypeOK, NEW s \in Solutions, CloseRound(s)
  PROVE  TypeOK'
<1> USE TypeParts
<1>1. NodeTypes'
  BY NodeSame DEF CloseRound
<1>2. HandlerTypes'
  BY DEF CloseRound, HandlerTypes, Go
<1>3. StatsTypes'
  BY FS_EmptySet DEF CloseRound, TakeRoundWork, StatsTypes
<1>4. DiskTypes'
  BY DiskSame DEF CloseRound
<1> QED
  BY <1>1, <1>2, <1>3, <1>4 DEF TypeOK, NodeTypes, HandlerTypes, StatsTypes, DiskTypes

LEMMA StoreType ==
  ASSUME TypeOK, NEW s \in Solutions, StoreBlock(s)
  PROVE  TypeOK'
<1> USE TypeParts
<1>1. NodeTypes'
  BY NodeSame DEF StoreBlock
<1>2. HandlerTypes'
  BY BlockSubmitAssumption DEF StoreBlock, HandlerTypes, End, Fault, NoFault
<1>3. StatsTypes'
  BY StatsSame DEF StoreBlock
<1>4. DiskTypes'
  <2>1. CASE stored' = stored
    BY <2>1, DiskSame DEF StoreBlock, diskVars
  <2>2. CASE stored' = [h \in DOMAIN stored \cup {height[s]} |->
                          IF h \in DOMAIN stored THEN stored[h] ELSE [block |-> s, conf |-> Unavailable]]
    <3>1. [block |-> s, conf |-> Unavailable] \in [block : Solutions, conf : Int] /\ height[s] \in Nat
      BY DEF NodeTypes, Unavailable
    <3>2. DOMAIN stored' \subseteq Nat /\ stored' \in [DOMAIN stored' -> [block : Solutions, conf : Int]]
      BY <2>2, <3>1 DEF DiskTypes
    <3> QED
      BY <3>2 DEF DiskTypes, StoreBlock, diskVars, recordVars
  <2> QED
    BY <2>1, <2>2 DEF StoreBlock
<1> QED
  BY <1>1, <1>2, <1>3, <1>4 DEF TypeOK, NodeTypes, HandlerTypes, StatsTypes, DiskTypes

LEMMA SyncType ==
  ASSUME TypeOK, NEW y \in Syncers,
         ApplyConfirmations(y) \/ \E h \in DOMAIN stored : AskConfirmations(y, h)
  PROVE  TypeOK'
<1> USE TypeParts
<1>1. NodeTypes' /\ HandlerTypes' /\ StatsTypes'
  BY NodeSame, StatsSame DEF ApplyConfirmations, AskConfirmations, HandlerTypes, handlerVars
<1>2. CASE ApplyConfirmations(y)
  <2>1. \A h \in DOMAIN stored : NewConf(stored[h].conf, sync[y].conf) \in Int
    BY DEF DiskTypes, NewConf, Orphaned
  <2>2. DOMAIN stored' \subseteq Nat /\ stored' \in [DOMAIN stored' -> [block : Solutions, conf : Int]]
    BY <1>2, <2>1 DEF ApplyConfirmations, DiskTypes
  <2>3. IdleSync \in [pc : {"idle", "answered"}, h : Nat, conf : Int]
    BY DEF IdleSync, Unavailable
  <2>4. sync' \in [Syncers -> [pc : {"idle", "answered"}, h : Nat, conf : Int]]
    BY <1>2, <2>3 DEF ApplyConfirmations, DiskTypes
  <2>5. DiskTypes'
    BY <1>2, <2>2, <2>4 DEF ApplyConfirmations, DiskTypes, recordVars
  <2> QED
    BY <1>1, <2>5 DEF TypeOK, NodeTypes, HandlerTypes, StatsTypes, DiskTypes
<1>3. ASSUME NEW h \in DOMAIN stored, AskConfirmations(y, h) PROVE TypeOK'
  <2>1. h \in Nat /\ Confirmations(h) \in Int
    BY TipIsKnown DEF DiskTypes, Confirmations, Orphaned
  <2>2. sync' \in [Syncers -> [pc : {"idle", "answered"}, h : Nat, conf : Int]]
    BY <1>3, <2>1 DEF AskConfirmations, DiskTypes
  <2>3. DiskTypes'
    BY <1>3, <2>2 DEF AskConfirmations, DiskTypes, diskVars, recordVars
  <2> QED
    BY <1>1, <2>3 DEF TypeOK, NodeTypes, HandlerTypes, StatsTypes, DiskTypes
<1> QED
  BY <1>2, <1>3
-----------------------------------------------------------------------------
(* Every valid share counts once *)

\* Why two rounds never share a share: a handler that has not closed its round has
\* taken nothing, and only a share not counted yet is counted.
WorkInv ==
  /\ WorkCountedOnce
  /\ \A s \in Solutions : /\ pc[s] = "unfound" => s \notin valid
                          /\ pc[s] \notin {"store", "done"} => taken[s] = {}

LEMMA InitWork == Init => WorkInv
BY DEF Init, WorkInv, WorkCountedOnce, Range

\* A share joins the round.
LEMMA RecordWork ==
  ASSUME TypeOK, WorkInv, NEW s \in Solutions, s \notin valid, RecordShare(s)
  PROVE  WorkCountedOnce'
BY DEF TypeOK, WorkInv, WorkCountedOnce, RecordShare, Range

\* A step that counts nothing and closes nothing.
LEMMA WorkSame ==
  ASSUME TypeOK, WorkInv, UNCHANGED <<roundWork, valid, taken>>,
         \A s \in Solutions : pc'[s] = pc[s] \/ (pc[s] # "unfound" /\ pc'[s] # "unfound"
                                /\ (pc[s] \in {"store", "done"} => pc'[s] \in {"store", "done"}))
  PROVE  WorkInv'
<1>1. WorkCountedOnce'
  BY DEF WorkInv, WorkCountedOnce, Range
<1> QED
  BY <1>1 DEF WorkInv

\* The steps of a handler before and after the one that closes its round.
LEMMA HandlerWork ==
  ASSUME TypeOK, WorkInv, NEW s \in Solutions,
         Gates(s) \/ BuildBlock(s) \/ SubmitBlock(s) \/ VerifyBlock(s) \/ StoreBlock(s)
  PROVE  WorkInv'
<1>1. UNCHANGED <<roundWork, valid, taken>>
  BY DEF Gates, BuildBlock, SubmitBlock, VerifyBlock, StoreBlock, statsVars
<1>2. /\ pc[s] # "unfound" /\ pc'[s] # "unfound"
      /\ pc[s] \in {"store", "done"} => pc'[s] \in {"store", "done"}
      /\ \A t \in Solutions \ {s} : pc'[t] = pc[t]
  BY DEF TypeOK, Gates, BuildBlock, SubmitBlock, VerifyBlock, StoreBlock, Answered, Refused,
         AttemptFails, Go, End
<1> QED
  BY <1>1, <1>2, WorkSame

\* The round goes to the handler that closes it, which had taken nothing.
LEMMA CloseWork ==
  ASSUME TypeOK, WorkInv, NEW s \in Solutions, CloseRound(s)
  PROVE  WorkInv'
<1>1. /\ taken[s] = {} /\ taken' = [taken EXCEPT ![s] = roundWork]
      /\ roundWork' = {} /\ valid' = valid
      /\ pc' = [pc EXCEPT ![s] = "store"] /\ pc[s] = "take"
  <2>1. pc[s] = "take" /\ pc[s] \notin {"store", "done"}
    BY DEF CloseRound
  <2>2. taken[s] = {}
    BY <2>1 DEF WorkInv
  <2> QED
    BY <2>1, <2>2 DEF CloseRound, TakeRoundWork, Go
<1>2. UNION Range(taken') = roundWork \cup UNION Range(taken)
  <2>1. \A x : x \in UNION Range(taken) <=> \E t \in Solutions : x \in taken[t]
    BY DEF TypeOK, Range
  <2>2. \A x : x \in UNION Range(taken') <=> \E t \in Solutions : x \in taken'[t]
    BY <1>1 DEF TypeOK, Range
  <2>3. taken'[s] = roundWork /\ \A t \in Solutions \ {s} : taken'[t] = taken[t]
    BY <1>1 DEF TypeOK
  <2> QED
    BY <1>1, <2>1, <2>2, <2>3
<1>3. WorkCountedOnce'
  <2>1. taken'[s] = roundWork /\ \A t \in Solutions \ {s} : taken'[t] = taken[t]
    BY <1>1 DEF TypeOK
  <2>2. valid' = roundWork' \cup UNION Range(taken')
    BY <1>1, <1>2 DEF WorkInv, WorkCountedOnce
  <2>3. \A t \in Solutions : /\ roundWork \cap taken[t] = {}
                             /\ \A u \in Solutions \ {t} : taken[t] \cap taken[u] = {}
    BY DEF WorkInv, WorkCountedOnce
  <2>4. \A t \in Solutions : \A u \in Solutions \ {t} : taken'[t] \cap taken'[u] = {}
    BY <2>1, <2>3
  <2> QED
    BY <1>1, <2>2, <2>4 DEF WorkCountedOnce
<1> QED
  BY <1>1, <1>3 DEF WorkInv, TypeOK

LEMMA NextWork == TypeOK /\ WorkInv /\ [Next]_vars => TypeOK' /\ WorkInv'
<1> SUFFICES ASSUME TypeOK, WorkInv, [Next]_vars PROVE TypeOK' /\ WorkInv'
  OBVIOUS
<1> USE TypeParts DEF handlerVars, statsVars
<1>1. ASSUME NEW b \in Foreign \cup Solutions, ForeignBlock(b) \/ Reorg(b)
      PROVE  TypeOK' /\ WorkInv'
  <2>1. NodeTypes'
    BY <1>1, NodeGrows DEF ForeignBlock, Reorg
  <2>2. HandlerTypes' /\ StatsTypes' /\ DiskTypes'
    BY <1>1, StatsSame, DiskSame DEF ForeignBlock, Reorg, HandlerTypes
  <2>3. WorkInv'
    BY <1>1, WorkSame DEF ForeignBlock, Reorg
  <2> QED
    BY <2>1, <2>2, <2>3 DEF TypeOK, NodeTypes, HandlerTypes, StatsTypes, DiskTypes
<1>2. ASSUME NEW s \in Solutions, Solve(s) PROVE TypeOK' /\ WorkInv'
  <2>1. s \notin valid /\ pc[s] = "unfound"
    <3>1. pc[s] = "unfound"
      BY <1>2 DEF Solve
    <3> QED
      BY <3>1 DEF WorkInv
  <2>2. TypeOK'
    BY <1>2, <2>1, SolveType
  <2>3. /\ pc' = [pc EXCEPT ![s] = IF XEC THEN "gates" ELSE "build"]
        /\ taken' = taken /\ valid' \in {valid, valid \cup {s}}
    BY <1>2 DEF Solve, Go, RecordShare
  <2>4. WorkCountedOnce'
    <3>1. CASE s \in v1
      BY <1>2, <2>1, <3>1, RecordWork DEF Solve
    <3>2. CASE s \notin v1
      BY <1>2, <3>2 DEF Solve, WorkInv, WorkCountedOnce, Range
    <3> QED
      BY <3>1, <3>2
  <2>5. \A r \in Solutions : /\ pc'[r] = "unfound" => r \notin valid'
                             /\ pc'[r] \notin {"store", "done"} => taken'[r] = {}
    <3> SUFFICES ASSUME NEW r \in Solutions
                 PROVE  /\ pc'[r] = "unfound" => r \notin valid'
                        /\ pc'[r] \notin {"store", "done"} => taken'[r] = {}
      OBVIOUS
    <3>1. /\ pc[r] = "unfound" => r \notin valid
          /\ pc[r] \notin {"store", "done"} => taken[r] = {}
      BY DEF WorkInv
    <3>2. CASE r = s
      <4>1. pc'[s] \in {"gates", "build"}
        BY <2>3 DEF HandlerTypes
      <4> QED
        BY <2>1, <2>3, <3>1, <3>2, <4>1
    <3>3. CASE r # s
      BY <2>3, <3>1, <3>3
    <3> QED
      BY <3>2, <3>3
  <2>6. WorkInv'
    BY <2>4, <2>5 DEF WorkInv
  <2> QED
    BY <2>2, <2>6
<1>3. ASSUME NEW s \in Solutions, RecordV2Share(s) PROVE TypeOK' /\ WorkInv'
  <2>1. StatsTypes' /\ WorkCountedOnce'
    BY <1>3, RecordShareType, RecordWork DEF RecordV2Share
  <2>2. NodeTypes' /\ HandlerTypes' /\ DiskTypes'
    BY <1>3, NodeSame, DiskSame DEF RecordV2Share, HandlerTypes
  <2>3. WorkInv'
    BY <1>3, <2>1 DEF RecordV2Share, RecordShare, WorkInv
  <2> QED
    BY <2>1, <2>2, <2>3 DEF TypeOK, NodeTypes, HandlerTypes, StatsTypes, DiskTypes
<1>4. ASSUME NEW s \in Solutions, Gates(s) \/ BuildBlock(s) \/ VerifyBlock(s)
      PROVE  TypeOK' /\ WorkInv'
  <2>1. NodeTypes'
    BY <1>4, NodeSame DEF Gates, BuildBlock, VerifyBlock
  <2>2. HandlerTypes'
    <3>1. \/ \E to \in {"build", "submit", "take"} : Go(s, to)
          \/ \E how \in {"gated", "unbuilt", "unverified"} : End(s, how)
      BY <1>4 DEF Gates, BuildBlock, VerifyBlock
    <3>2. (Fault \/ NoFault) /\ UNCHANGED <<attempts, cooling>>
      BY <1>4 DEF Gates, BuildBlock, VerifyBlock
    <3>3. faults' \in 0..MaxFaults
      BY <3>2, BlockSubmitAssumption DEF Fault, NoFault, HandlerTypes
    <3> QED
      BY <3>1, <3>2, <3>3 DEF HandlerTypes, Go, End
  <2>3. StatsTypes'
    BY <1>4, StatsSame DEF Gates, BuildBlock, VerifyBlock, StatsTypes
  <2>4. DiskTypes'
    BY <1>4, DiskSame, PersistType DEF Gates, BuildBlock, VerifyBlock, diskVars
  <2> QED
    BY <1>4, <2>1, <2>2, <2>3, <2>4, HandlerWork DEF TypeOK, NodeTypes, HandlerTypes, StatsTypes, DiskTypes
<1>5. ASSUME NEW s \in Solutions, SubmitBlock(s) \/ StoreBlock(s) PROVE TypeOK' /\ WorkInv'
  BY <1>5, SubmitType, StoreType, HandlerWork
<1>6. ASSUME NEW s \in Solutions, CloseRound(s) PROVE TypeOK' /\ WorkInv'
  BY <1>6, TakeType, CloseWork
<1>7. CASE CooldownEnds
  <2>1. NodeTypes' /\ HandlerTypes' /\ StatsTypes' /\ DiskTypes'
    BY <1>7, NodeSame, StatsSame, DiskSame DEF CooldownEnds, HandlerTypes
  <2>2. WorkInv'
    BY <1>7, WorkSame DEF CooldownEnds
  <2> QED
    BY <2>1, <2>2 DEF TypeOK, NodeTypes, HandlerTypes, StatsTypes, DiskTypes
<1>8. ASSUME NEW y \in Syncers,
             ApplyConfirmations(y) \/ \E h \in DOMAIN stored : AskConfirmations(y, h)
      PROVE  TypeOK' /\ WorkInv'
  <2>1. WorkInv'
    BY <1>8, WorkSame DEF ApplyConfirmations, AskConfirmations
  <2> QED
    BY <1>8, <2>1, SyncType
<1>9. CASE UNCHANGED vars
  <2>1. NodeTypes' /\ HandlerTypes' /\ StatsTypes' /\ DiskTypes'
    BY <1>9, NodeSame, StatsSame, DiskSame DEF vars, HandlerTypes
  <2>2. WorkInv'
    BY <1>9, WorkSame DEF vars
  <2> QED
    BY <2>1, <2>2 DEF TypeOK, NodeTypes, HandlerTypes, StatsTypes, DiskTypes
<1> QED
  BY <1>1, <1>2, <1>3, <1>4, <1>5, <1>6, <1>7, <1>8, <1>9 DEF Next, Handler

\* Every variable stays within its type: what the node, the handlers, the statistics and
\* the two files of a block hold.
THEOREM TypeCorrect == Spec => []TypeOK
<1>1. Init => TypeOK /\ WorkInv
  BY InitTypeOK, InitWork
<1> QED
  BY <1>1, NextWork, PTL DEF Spec

\* TakeRoundWork hands a round to one handler only, whichever of them come first and
\* whatever shares are recorded meanwhile: every valid share is counted, and once.
THEOREM WorkCountedCorrect == Spec => []WorkCountedOnce
<1>1. Init => TypeOK /\ WorkInv
  BY InitTypeOK, InitWork
<1>2. WorkInv => WorkCountedOnce
  BY DEF WorkInv
<1> QED
  BY <1>1, <1>2, NextWork, PTL DEF Spec

-----------------------------------------------------------------------------
(* A block the node does not have is on disk *)

Record(s) == [block |-> s, hex |-> TRUE]

\* A handler past submitblock submitted a block the node connected, and only one that is
\* done has an outcome.
KeptInv ==
  /\ UnsubmittedIsKept
  /\ \A s \in Solutions : /\ pc[s] \in {"verify", "take", "store"} => s \in accepted
                          /\ pc[s] # "done" => outcome[s] = "none"

\* A record is lost only to one of the same name.
LEMMA PersistEffect ==
  ASSUME NEW s \in Solutions, NEW hex \in BOOLEAN, PersistLostBlock(s, hex)
  PROVE  /\ unwritten \subseteq unwritten'
         /\ [block |-> s, hex |-> hex] \in lost' \/ s \in unwritten'
         /\ \A t \in Solutions : Record(t) \in lost => Record(t) \in lost' \/ SameName(t, s)
<1>1. PICK over \in {{}} \cup {{r} : r \in {r \in lost : SameName(s, r.block)}} :
        \/ lost' = (lost \ over) \cup {[block |-> s, hex |-> hex]} /\ UNCHANGED unwritten
        \/ lost' = lost \ over /\ unwritten' = unwritten \cup {s}
  BY DEF PersistLostBlock
<1>2. ASSUME NEW t \in Solutions, Record(t) \in over PROVE SameName(t, s)
  <2>1. SameName(s, Record(t).block) /\ Record(t).block = t
    BY <1>1, <1>2 DEF Record
  <2> QED
    BY <2>1 DEF SameName
<1> QED
  BY <1>1, <1>2

\* The handler of s takes a step, and does not end with nothing to show for its block.
LEMMA KeptByStep ==
  ASSUME TypeOK, KeptInv, NEW s \in Solutions, UNCHANGED <<v1, height>>,
         accepted \subseteq accepted', unwritten \subseteq unwritten', pc[s] # "done",
         \A t \in Solutions \ {s} : pc'[t] = pc[t] /\ outcome'[t] = outcome[t],
         \A t \in Solutions : Record(t) \in lost => Record(t) \in lost' \/ (SameName(t, s) /\ WritesRecord(s)'),
         pc'[s] \in {"verify", "take", "store"} => s \in accepted',
         pc'[s] # "done" => outcome'[s] = "none",
         pc'[s] = "done" => \/ outcome'[s] \in {"gated", "unbuilt"}
                            \/ s \in accepted' /\ outcome'[s] \notin {"rejected", "unsent"}
                            \/ s \in unwritten' \/ Record(s) \in lost'
  PROVE  KeptInv'
<1>1. outcome[s] = "none" /\ ~WritesRecord(s)
  BY DEF KeptInv, WritesRecord
<1>2. \A t, u : SameName(t, u)' <=> SameName(t, u)
  BY DEF SameName
<1>3. \A t \in Solutions \ {s} : WritesRecord(t)' <=> WritesRecord(t)
  BY DEF WritesRecord
<1>4. UnsubmittedIsKept'
  <2> SUFFICES ASSUME NEW t \in Solutions,
                      pc'[t] = "done", outcome'[t] \notin {"gated", "unbuilt"},
                      t \notin accepted' \/ outcome'[t] \in {"rejected", "unsent"},
                      t \notin unwritten',
                      ~ \E u \in Solutions \ {t} : SameName(t, u)' /\ WritesRecord(u)'
               PROVE  Record(t) \in lost'
    BY DEF UnsubmittedIsKept, Record
  <2>1. CASE t = s
    BY <2>1
  <2>2. CASE t # s
    <3>1. pc[t] = "done" /\ outcome[t] = outcome'[t]
      BY <2>2
    <3>2. ~ \E u \in Solutions \ {t} : SameName(t, u) /\ WritesRecord(u)
      BY <1>1, <1>2, <1>3
    <3>3. Record(t) \in lost
      BY <3>1, <3>2 DEF KeptInv, UnsubmittedIsKept, Record
    <3> QED
      BY <1>2, <2>2, <3>3
  <2> QED
    BY <2>1, <2>2
<1> QED
  BY <1>4 DEF KeptInv

LEMMA NextKept == TypeOK /\ KeptInv /\ [Next]_vars => KeptInv'
<1> SUFFICES ASSUME TypeOK, KeptInv, [Next]_vars PROVE KeptInv'
  OBVIOUS
<1>1. ASSUME accepted \subseteq accepted', UNCHANGED <<v1, height, pc, outcome, lost, unwritten>>
      PROVE  KeptInv'
  BY <1>1 DEF KeptInv, UnsubmittedIsKept, SameName, WritesRecord
<1>2. ASSUME NEW b \in Foreign \cup Solutions, ForeignBlock(b) \/ Reorg(b)
      PROVE  KeptInv'
  BY <1>1, <1>2 DEF ForeignBlock, Reorg, blockVars, handlerVars, diskVars, recordVars
<1>3. ASSUME NEW s \in Solutions, Solve(s) PROVE KeptInv'
  <2>1. /\ pc[s] = "unfound" /\ pc' = [pc EXCEPT ![s] = IF XEC THEN "gates" ELSE "build"]
        /\ \A t \in Solutions \ {s} : height'[t] = height[t]
        /\ UNCHANGED <<v1, outcome, accepted, lost, unwritten>>
    BY <1>3 DEF Solve, Go, TypeOK, nodeVars, diskVars, recordVars
  <2>2. outcome[s] = "none" /\ ~WritesRecord(s)
    BY <2>1 DEF KeptInv, WritesRecord
  <2>3. \A t \in Solutions : WritesRecord(t)' <=> WritesRecord(t)
    BY <2>1 DEF WritesRecord
  <2>4. \A t \in Solutions : /\ pc'[t] \in {"verify", "take", "store", "done"} => t # s /\ pc'[t] = pc[t]
                             /\ pc[t] = "done" => pc'[t] = "done"
    BY <2>1 DEF TypeOK
  <2>5. \A t \in Solutions \ {s} : \A u \in Solutions : SameName(t, u)' /\ u # s <=> SameName(t, u) /\ u # s
    BY <2>1 DEF SameName
  <2>6. UnsubmittedIsKept'
    <3> SUFFICES ASSUME NEW t \in Solutions,
                        pc'[t] = "done", outcome'[t] \notin {"gated", "unbuilt"},
                        t \notin accepted' \/ outcome'[t] \in {"rejected", "unsent"},
                        t \notin unwritten',
                        ~ \E u \in Solutions \ {t} : SameName(t, u)' /\ WritesRecord(u)'
                 PROVE  Record(t) \in lost'
      BY DEF UnsubmittedIsKept, Record
    <3>1. t # s /\ pc[t] = "done"
      BY <2>4
    <3>2. ~ \E u \in Solutions \ {t} : SameName(t, u) /\ WritesRecord(u)
      BY <2>2, <2>3, <2>5, <3>1
    <3> QED
      BY <2>1, <3>1, <3>2 DEF KeptInv, UnsubmittedIsKept, Record
  <2>7. \A t \in Solutions : /\ pc'[t] \in {"verify", "take", "store"} => t \in accepted'
                             /\ pc'[t] # "done" => outcome'[t] = "none"
    BY <2>1, <2>4 DEF KeptInv
  <2> QED
    BY <2>6, <2>7 DEF KeptInv
<1>4. ASSUME NEW s \in Solutions, RecordV2Share(s) PROVE KeptInv'
  BY <1>1, <1>4 DEF RecordV2Share, nodeVars, blockVars, handlerVars, diskVars, recordVars
<1>5. ASSUME NEW s \in Solutions, Gates(s) \/ VerifyBlock(s) \/ CloseRound(s) \/ StoreBlock(s) PROVE KeptInv'
  <2>1. /\ pc[s] \in {"gates", "verify", "take", "store"}
        /\ UNCHANGED <<v1, height, accepted, lost, unwritten>>
        /\ \A t \in Solutions \ {s} : pc'[t] = pc[t] /\ outcome'[t] = outcome[t]
    BY <1>5 DEF Gates, VerifyBlock, CloseRound, StoreBlock, Go, End, TypeOK, nodeVars, blockVars, diskVars, recordVars
  <2>2. CASE Gates(s)
    <3>1. \/ pc'[s] = "done" /\ outcome'[s] = "gated"
          \/ pc'[s] = "build" /\ outcome'[s] = outcome[s]
      BY <2>2 DEF Gates, Go, End, TypeOK
    <3> QED
      BY <2>1, <3>1, KeptByStep DEF KeptInv
  <2>3. CASE ~Gates(s)
    <3>1. \/ pc'[s] = "done" /\ outcome'[s] \in {"unverified", "stored", "unstored"}
          \/ pc'[s] \in {"take", "store"} /\ outcome'[s] = outcome[s]
      BY <1>5, <2>3 DEF VerifyBlock, CloseRound, StoreBlock, Go, End, TypeOK
    <3>2. pc[s] \in {"verify", "take", "store"}
      BY <1>5, <2>3 DEF VerifyBlock, CloseRound, StoreBlock
    <3> QED
      BY <2>1, <3>1, <3>2, KeptByStep DEF KeptInv
  <2> QED
    BY <2>2, <2>3
<1>6. ASSUME NEW s \in Solutions, BuildBlock(s) \/ SubmitBlock(s) PROVE KeptInv'
  <2>1. /\ pc[s] \in {"build", "submit"} /\ accepted \subseteq accepted' /\ UNCHANGED <<v1, height>>
        /\ \A t \in Solutions \ {s} : pc'[t] = pc[t] /\ outcome'[t] = outcome[t]
    BY <1>6 DEF BuildBlock, SubmitBlock, Answered, Refused, AttemptFails, NodeTakes, Go, End, TypeOK, nodeVars, blockVars
  <2>2. CASE UNCHANGED recordVars /\ \E to \in {"submit", "verify"} : Go(s, to) /\ (to = "verify" => s \in accepted')
    <3>1. /\ pc'[s] \in {"submit", "verify"} /\ outcome'[s] = outcome[s] /\ UNCHANGED <<lost, unwritten>>
          /\ pc'[s] = "verify" => s \in accepted'
      BY <2>2 DEF Go, TypeOK, recordVars
    <3> QED
      BY <2>1, <3>1, KeptByStep DEF KeptInv
  <2>3. CASE End(s, "unbuilt") /\ s \notin v1 /\ UNCHANGED recordVars
    <3>1. pc'[s] = "done" /\ outcome'[s] = "unbuilt" /\ UNCHANGED <<lost, unwritten>>
      BY <2>3 DEF End, TypeOK, recordVars
    <3> QED
      BY <2>1, <3>1, KeptByStep
  <2>4. CASE End(s, "unbuilt") /\ s \in v1 /\ PersistLostBlock(s, FALSE)
    <3>1. pc'[s] = "done" /\ outcome'[s] = "unbuilt" /\ WritesRecord(s)'
      BY <2>1, <2>4 DEF End, TypeOK, WritesRecord
    <3> QED
      BY <2>1, <2>4, <3>1, PersistEffect, KeptByStep
  <2>5. CASE (End(s, "rejected") \/ End(s, "unsent")) /\ PersistLostBlock(s, TRUE)
    <3>1. pc'[s] = "done" /\ outcome'[s] \in {"rejected", "unsent"} /\ WritesRecord(s)'
      BY <2>5 DEF End, TypeOK, WritesRecord
    <3> QED
      BY <2>1, <2>5, <3>1, PersistEffect, KeptByStep DEF Record
  <2> QED
    BY <1>6, <2>2, <2>3, <2>4, <2>5 DEF BuildBlock, SubmitBlock, Answered, Refused, AttemptFails, NodeTakes
<1>9. CASE CooldownEnds
  BY <1>1, <1>9 DEF CooldownEnds, nodeVars, blockVars, handlerVars, diskVars, recordVars
<1>10. ASSUME NEW y \in Syncers,
             ApplyConfirmations(y) \/ \E h \in DOMAIN stored : AskConfirmations(y, h)
      PROVE  KeptInv'
  BY <1>1, <1>10 DEF ApplyConfirmations, AskConfirmations, nodeVars, blockVars, handlerVars, diskVars, recordVars
<1>11. CASE UNCHANGED vars
  BY <1>1, <1>11 DEF vars, nodeVars, blockVars, handlerVars, diskVars, recordVars
<1> QED
  BY <1>2, <1>3, <1>4, <1>5, <1>6, <1>9, <1>10, <1>11 DEF Next, Handler

\* SubmitBlock gives up with an error after its last attempt only, and both its callers
\* try to write the block to disk then: a block that was built is with the node, or its
\* record is on disk, could not be written, or gave its name to another, whatever requests
\* and answers were lost.
THEOREM UnsubmittedIsKeptCorrect == Spec => []UnsubmittedIsKept
<1>1. Init => TypeOK /\ WorkInv /\ KeptInv
  <2>1. Init => KeptInv
    BY DEF Init, KeptInv, UnsubmittedIsKept
  <2> QED
    BY <2>1, InitTypeOK, InitWork
<1>2. KeptInv => UnsubmittedIsKept
  BY DEF KeptInv
<1> QED
  BY <1>1, <1>2, NextWork, NextKept, PTL DEF Spec

-----------------------------------------------------------------------------
(* Orphan marks *)

\* A block is on the active chain once, at its own height, above its parent's.
ChainInv ==
  /\ \A i, j \in 1..Len(active) : active[i] = active[j] => i = j
  /\ \A i \in 1..Len(active), s \in Solutions : active[i] = s => height[s] = i
  /\ \A i \in 1..Len(active), s \in Solutions : pc[s] # "unfound" /\ parent[s] = active[i] => height[s] = i + 1
  /\ \A s, t \in Solutions : pc[s] # "unfound" /\ parent[s] = t => height[s] = height[t] + 1
  /\ \A s \in known \cap Solutions : pc[s] # "unfound"

\* The block stored for h has another on top of it: the tip alone is ever replaced.
Buried(h) == h \in 1..(Len(active) - 1) /\ active[h] = stored[h].block

\* More than one confirmation is never taken back, nor is the answer that reports it.
StoredInv ==
  /\ \A h \in DOMAIN stored : /\ height[stored[h].block] = h /\ pc[stored[h].block] # "unfound"
                              /\ stored[h].conf >= 2 => Buried(h)
  /\ \A y \in Syncers : sync[y].pc = "answered" =>
       sync[y].h \in DOMAIN stored /\ (sync[y].conf >= 2 => Buried(sync[y].h))

LEMMA Blocks == /\ \A s \in Solutions : s \notin Foreign /\ s # Genesis
                /\ Genesis \notin Foreign
BY BlockSubmitAssumption DEF Foreign, Genesis

\* The chain ends in b, which was not on it, and is as before up to b.
EndsIn(b) ==
  LET n == Len(active') IN
  /\ n \in Nat \ {0} /\ active'[n] = b
  /\ \A i \in 1..(n - 1) : i \in 1..Len(active) /\ active'[i] = active[i]
  /\ n >= Len(active)

LEMMA AppendEnds ==
  ASSUME TypeOK, NEW b, active' = Append(active, b)
  PROVE  EndsIn(b) /\ Len(active') = Len(active) + 1
<1>1. active \in Seq(known)
  BY DEF TypeOK
<1>2. Len(active') = Len(active) + 1 /\ Len(active) \in Nat
  BY <1>1
<1>3. active'[Len(active) + 1] = b /\ \A i \in 1..Len(active) : active'[i] = active[i]
  BY <1>1
<1> QED
  BY <1>2, <1>3 DEF EndsIn

LEMMA ReplaceEnds ==
  ASSUME TypeOK, NEW b, Len(active) > 1, active' = Append(Front(active), b)
  PROVE  EndsIn(b) /\ Len(active') = Len(active)
<1>1. active \in Seq(known)
  BY DEF TypeOK
<1>2. /\ Front(active) \in Seq(known) /\ Len(Front(active)) = Len(active) - 1
      /\ \A i \in 1..(Len(active) - 1) : Front(active)[i] = active[i]
  BY <1>1 DEF Front
<1>3. Len(active') = Len(active) /\ Len(active) \in Nat
  BY <1>1, <1>2
<1>4. active'[Len(active)] = b
  BY <1>1, <1>2
<1>5. \A i \in 1..(Len(active) - 1) : active'[i] = active[i]
  BY <1>1, <1>2
<1> QED
  BY <1>3, <1>4, <1>5 DEF EndsIn

\* A block ends the chain: one of others that is new, or an own one at its height.
LEMMA ChainStep ==
  ASSUME TypeOK, ChainInv, NEW b, EndsIn(b), b \notin Range(active), known' = known \cup {b},
         UNCHANGED blockVars, \A s \in Solutions : (pc'[s] = "unfound") <=> (pc[s] = "unfound"),
         \/ b \in Foreign /\ b \notin known
         \/ b \in Solutions /\ pc[b] # "unfound" /\ height[b] = Len(active')
  PROVE  ChainInv'
<1> DEFINE n == Len(active')
<1>1. \A i \in 1..n : i = n \/ (i \in 1..(n - 1) /\ i \in 1..Len(active) /\ active'[i] = active[i])
  BY DEF EndsIn
<1>2. active'[n] = b /\ n \in Nat \ {0}
  BY DEF EndsIn
<1>3. \A i \in 1..Len(active) : active[i] # b
  BY DEF Range, TypeOK
<1>4. \A i, j \in 1..n : active'[i] = active'[j] => i = j
  BY <1>1, <1>2, <1>3 DEF ChainInv
<1>5. ASSUME NEW i \in 1..n, NEW s \in Solutions, active'[i] = s PROVE height'[s] = i
  <2>1. CASE i = n
    BY <1>2, <1>5, <2>1, Blocks DEF blockVars
  <2>2. CASE i # n
    BY <1>1, <1>5, <2>2 DEF ChainInv, blockVars
  <2> QED
    BY <2>1, <2>2
<1>6. ASSUME NEW i \in 1..n, NEW s \in Solutions, pc'[s] # "unfound", parent'[s] = active'[i]
      PROVE  height'[s] = i + 1
  <2>1. pc[s] # "unfound" /\ parent'[s] = parent[s] /\ height' = height /\ parent[s] \in known
    BY <1>6 DEF blockVars, TypeOK
  <2>2. CASE i = n
    <3>1. parent[s] = b
      BY <1>2, <1>6, <2>1, <2>2
    <3>2. b \in Solutions /\ height[b] = n
      BY <2>1, <3>1
    <3>3. height[s] = height[b] + 1
      BY <2>1, <3>1, <3>2 DEF ChainInv
    <3> QED
      BY <2>1, <2>2, <3>2, <3>3
  <2>3. CASE i # n
    <3>1. i \in 1..Len(active) /\ active'[i] = active[i]
      BY <1>1, <1>6, <2>3
    <3>2. parent[s] = active[i]
      BY <1>6, <2>1, <3>1
    <3>3. height[s] = i + 1
      BY <2>1, <3>1, <3>2 DEF ChainInv
    <3> QED
      BY <2>1, <3>3
  <2> QED
    BY <2>2, <2>3
<1>7. \A s, t \in Solutions : pc'[s] # "unfound" /\ parent'[s] = t => height'[s] = height'[t] + 1
  BY DEF ChainInv, blockVars
<1>8. \A s \in known' \cap Solutions : pc'[s] # "unfound"
  BY Blocks DEF ChainInv
<1> QED
  BY <1>4, <1>5, <1>6, <1>7, <1>8 DEF ChainInv

\* A burial is for good.
LEMMA BuriedStays ==
  ASSUME NEW b, EndsIn(b), NEW h, Buried(h), Len(active) \in Nat, stored'[h].block = stored[h].block
  PROVE  Buried(h)'
<1>1. h \in 1..(Len(active) - 1) /\ active[h] = stored[h].block
  BY DEF Buried
<1>2. h \in 1..(Len(active') - 1) /\ active'[h] = active[h]
  BY <1>1 DEF EndsIn
<1> QED
  BY <1>1, <1>2 DEF Buried

\* The chain grows or its tip is replaced.
LEMMA StoredStep ==
  ASSUME TypeOK, StoredInv, NEW b, EndsIn(b) \/ active' = active, UNCHANGED <<blockVars, stored, sync>>,
         \A s \in Solutions : (pc'[s] = "unfound") <=> (pc[s] = "unfound")
  PROVE  StoredInv'
<1>1. \A h : Buried(h) => Buried(h)'
  <2>1. Len(active) \in Nat
    BY DEF TypeOK
  <2>2. CASE EndsIn(b)
    BY <2>1, <2>2, BuriedStays
  <2>3. CASE active' = active
    BY <2>3 DEF Buried
  <2> QED
    BY <2>2, <2>3
<1>2. \A h \in DOMAIN stored : stored[h].block \in Solutions
  BY DEF TypeOK
<1> QED
  BY <1>1, <1>2 DEF StoredInv, blockVars

\* Neither the chain nor a block's place changes, nor what is stored.
LEMMA ChainSame ==
  ASSUME ChainInv, UNCHANGED <<active, blockVars>>, known' \subseteq known \cup {s \in Solutions : pc[s] # "unfound"},
         \A s \in Solutions : (pc'[s] = "unfound") <=> (pc[s] = "unfound")
  PROVE  ChainInv'
BY DEF ChainInv, blockVars

LEMMA StoredSame ==
  ASSUME TypeOK, StoredInv, UNCHANGED <<active, blockVars, stored, sync>>,
         \A s \in Solutions : (pc'[s] = "unfound") <=> (pc[s] = "unfound")
  PROVE  StoredInv'
BY StoredStep

LEMMA SolveChain ==
  ASSUME TypeOK, ChainInv, StoredInv, NEW s \in Solutions, Solve(s)
  PROVE  ChainInv' /\ StoredInv'
<1> DEFINE n == Len(active)
<1>1. /\ pc[s] = "unfound" /\ pc' = [pc EXCEPT ![s] = IF XEC THEN "gates" ELSE "build"]
      /\ parent' = [parent EXCEPT ![s] = Last(active)] /\ height' = [height EXCEPT ![s] = n + 1]
      /\ UNCHANGED <<active, known, stored, sync>>
  BY DEF Solve, Go, nodeVars, diskVars
<1>2. /\ pc'[s] # "unfound" /\ parent'[s] = active[n] /\ height'[s] = n + 1 /\ n \in Nat \ {0}
      /\ \A t \in Solutions \ {s} : pc'[t] = pc[t] /\ parent'[t] = parent[t] /\ height'[t] = height[t]
  BY <1>1, TipIsKnown DEF TypeOK, Last
<1>3. s \notin known /\ (\A i \in 1..n : active[i] \in known) /\ (\A t \in Solutions : parent[t] \in known)
  BY <1>1 DEF ChainInv, TypeOK
<1>4. \A i \in 1..n, t \in Solutions : active[i] = t => height'[t] = i
  BY <1>2, <1>3 DEF ChainInv
<1>5. ASSUME NEW i \in 1..n, NEW t \in Solutions, pc'[t] # "unfound", parent'[t] = active[i] PROVE height'[t] = i + 1
  <2>1. CASE t = s
    <3>1. active[i] = active[n] /\ n \in 1..n
      BY <1>2, <1>5, <2>1
    <3>2. i = n
      BY <3>1 DEF ChainInv
    <3> QED
      BY <1>2, <2>1, <3>2
  <2>2. CASE t # s
    BY <1>2, <1>5, <2>2 DEF ChainInv
  <2> QED
    BY <2>1, <2>2
<1>6. ASSUME NEW t \in Solutions, NEW u \in Solutions, pc'[t] # "unfound", parent'[t] = u PROVE height'[t] = height'[u] + 1
  <2>1. CASE t = s
    <3>1. active[n] = u /\ n \in 1..n
      BY <1>2, <1>6, <2>1
    <3>2. height'[u] = n
      BY <1>4, <3>1
    <3> QED
      BY <1>2, <2>1, <3>2
  <2>2. CASE t # s
    <3>1. parent[t] = u /\ u # s
      BY <1>2, <1>3, <1>6, <2>2
    <3> QED
      BY <1>2, <1>6, <2>2, <3>1 DEF ChainInv
  <2> QED
    BY <2>1, <2>2
<1>7. ChainInv'
  <2>1. \A t \in known' \cap Solutions : pc'[t] # "unfound"
    BY <1>1, <1>2 DEF ChainInv
  <2> QED
    BY <1>1, <1>4, <1>5, <1>6, <2>1 DEF ChainInv
<1>8. StoredInv'
  <2>1. \A h \in DOMAIN stored : stored[h].block \in Solutions /\ stored[h].block # s
    BY <1>1 DEF StoredInv, TypeOK
  <2>2. \A h : Buried(h)' <=> Buried(h)
    BY <1>1 DEF Buried
  <2> QED
    BY <1>1, <1>2, <2>1, <2>2 DEF StoredInv
<1> QED
  BY <1>7, <1>8

LEMMA SubmitChain ==
  ASSUME TypeOK, ChainInv, StoredInv, NEW s \in Solutions, SubmitBlock(s)
  PROVE  ChainInv' /\ StoredInv'
<1>1. pc[s] = "submit" /\ UNCHANGED <<blockVars, stored, sync>>
  BY DEF SubmitBlock
<1>2. \A t \in Solutions : (pc'[t] = "unfound") <=> (pc[t] = "unfound")
  <2>3. \E to \in {"submit", "verify", "done"} : pc' = [pc EXCEPT ![s] = to]
    BY DEF SubmitBlock, Answered, Refused, AttemptFails, Go, End
  <2>1. \A t \in Solutions \ {s} : pc'[t] = pc[t]
    BY <2>3 DEF TypeOK
  <2>2. pc'[s] \in {"submit", "verify", "done"}
    BY <2>3 DEF TypeOK
  <2> QED
    BY <1>1, <2>1, <2>2
<1>3. NodeTakes(s) \/ UNCHANGED <<active, known>>
  BY DEF SubmitBlock, Answered, Refused, nodeVars
<1>4. CASE UNCHANGED <<active, known>>
  BY <1>1, <1>2, <1>4, ChainSame, StoredSame
<1>5. CASE NodeTakes(s) /\ ~Accepts(s)
  <2>1. UNCHANGED active /\ known' \subseteq known \cup {t \in Solutions : pc[t] # "unfound"}
    BY <1>1, <1>5 DEF NodeTakes
  <2> QED
    BY <1>1, <1>2, <2>1, ChainSame, StoredSame
<1>6. CASE NodeTakes(s) /\ Accepts(s)
  <2>1. active' = Append(active, s) /\ known' = known \cup {s} /\ s \notin known /\ parent[s] = active[Len(active)]
    BY <1>6 DEF NodeTakes, Accepts, Last
  <2>2. EndsIn(s) /\ Len(active') = Len(active) + 1
    BY <2>1, AppendEnds
  <2>3. Len(active) \in 1..Len(active)
    BY TipIsKnown
  <2>4. height[s] = Len(active')
    BY <1>1, <2>1, <2>2, <2>3 DEF ChainInv
  <2>5. s \notin Range(active)
    BY <2>1 DEF Range, TypeOK
  <2> QED
    BY <1>1, <1>2, <2>1, <2>2, <2>4, <2>5, ChainStep, StoredStep
<1> QED
  BY <1>3, <1>4, <1>5, <1>6

LEMMA NodeChain ==
  ASSUME TypeOK, ChainInv, StoredInv, NEW b \in Foreign \cup Solutions, (b \in Foreign /\ ForeignBlock(b)) \/ Reorg(b)
  PROVE  ChainInv' /\ StoredInv'
<1>1. /\ UNCHANGED <<blockVars, pc, stored, sync>> /\ known' = known \cup {b}
  BY DEF ForeignBlock, Reorg, handlerVars, diskVars
<1>2. Len(active) \in Nat /\ \A i \in 1..Len(active) : active[i] \in known
  BY DEF TypeOK
<1>3. CASE b \in NewForeign
  <2>1. b \in Foreign /\ b \notin known /\ b \notin Range(active)
    BY <1>2, <1>3 DEF NewForeign, Range, TypeOK
  <2>2. EndsIn(b)
    BY AppendEnds, ReplaceEnds DEF ForeignBlock, Reorg
  <2> QED
    BY <1>1, <2>1, <2>2, ChainStep, StoredStep
<1>4. CASE b \in Competitors /\ Reorg(b)
  <2>1. Len(active) > 1 /\ active' = Append(Front(active), b)
    BY <1>4 DEF Reorg
  <2>2. /\ b \in Solutions /\ b \in known /\ b \notin Range(active) /\ parent[b] = active[Len(active) - 1]
    BY <1>4 DEF Competitors
  <2>3. EndsIn(b) /\ Len(active') = Len(active)
    BY <2>1, ReplaceEnds
  <2>4. Len(active) - 1 \in 1..Len(active)
    BY <1>2, <2>1
  <2>5. pc[b] # "unfound"
    BY <2>2 DEF ChainInv
  <2>6. height[b] = Len(active')
    BY <1>2, <2>2, <2>3, <2>4, <2>5 DEF ChainInv
  <2> QED
    BY <1>1, <2>2, <2>3, <2>5, <2>6, ChainStep, StoredStep
<1> QED
  BY <1>3, <1>4 DEF ForeignBlock, Reorg

\* A block on the chain has its confirmations by its height, the tip one.
LEMMA ConfirmationsOf ==
  ASSUME TypeOK, ChainInv, StoredInv, NEW h \in DOMAIN stored
  PROVE  \/ stored[h].block \notin Range(active) /\ Confirmations(h) = Orphaned
         \/ /\ stored[h].block \in Range(active) /\ Confirmations(h) \in Int /\ Confirmations(h) >= 1
            /\ Confirmations(h) >= 2 => Buried(h)
<1>1. CASE stored[h].block \notin Range(active)
  BY <1>1 DEF Confirmations
<1>2. CASE stored[h].block \in Range(active)
  <2>1. Len(active) \in Nat /\ DOMAIN active = 1..Len(active) /\ stored[h].block \in Solutions
    BY DEF TypeOK
  <2>2. PICK i \in 1..Len(active) : active[i] = stored[h].block
    BY <1>2, <2>1 DEF Range
  <2>3. h = i
    BY <2>1, <2>2 DEF ChainInv, StoredInv
  <2>4. Confirmations(h) = Len(active) - h + 1
    BY <1>2 DEF Confirmations
  <2> QED
    BY <1>2, <2>1, <2>2, <2>3, <2>4 DEF Buried
<1> QED
  BY <1>1, <1>2

LEMMA StoreChain ==
  ASSUME TypeOK, ChainInv, StoredInv, NEW s \in Solutions, StoreBlock(s)
  PROVE  ChainInv' /\ StoredInv'
<1>1. /\ pc[s] = "store" /\ UNCHANGED <<active, known, blockVars, sync>>
      /\ \A t \in Solutions : (pc'[t] = "unfound") <=> (pc[t] = "unfound")
  BY DEF StoreBlock, End, nodeVars, TypeOK
<1>2. ChainInv'
  BY <1>1, ChainSame
<1>3. CASE UNCHANGED stored
  BY <1>1, <1>2, <1>3, StoredSame
<1>4. CASE stored' = [h \in DOMAIN stored \cup {height[s]} |->
                        IF h \in DOMAIN stored THEN stored[h] ELSE [block |-> s, conf |-> Unavailable]]
  <2>1. DOMAIN stored' = DOMAIN stored \cup {height[s]} /\ \A h \in DOMAIN stored : stored'[h] = stored[h]
    BY <1>4
  <2>2. height[s] \notin DOMAIN stored => stored'[height[s]] = [block |-> s, conf |-> Unavailable]
    BY <1>4
  <2>3. \A h \in DOMAIN stored : Buried(h) => Buried(h)'
    BY <1>1, <2>1 DEF Buried
  <2>4. ASSUME NEW h \in DOMAIN stored'
        PROVE  /\ height'[stored'[h].block] = h /\ pc'[stored'[h].block] # "unfound"
               /\ stored'[h].conf >= 2 => Buried(h)'
    <3>1. CASE h \in DOMAIN stored
      <4>1. stored[h].block \in Solutions /\ height' = height
        BY <1>1, <3>1 DEF TypeOK, blockVars
      <4> QED
        BY <1>1, <2>1, <2>3, <3>1, <4>1 DEF StoredInv
    <3>2. CASE h \notin DOMAIN stored
      <4>1. h = height[s] /\ stored'[h] = [block |-> s, conf |-> Unavailable] /\ height' = height
        BY <1>1, <2>1, <2>2, <2>4, <3>2 DEF blockVars
      <4> QED
        BY <1>1, <4>1 DEF Unavailable
    <3> QED
      BY <3>1, <3>2
  <2>5. \A y \in Syncers : sync'[y].pc = "answered" =>
          sync'[y].h \in DOMAIN stored' /\ (sync'[y].conf >= 2 => Buried(sync[y].h)')
    BY <1>1, <2>1, <2>3 DEF StoredInv
  <2> QED
    BY <1>2, <2>4, <2>5 DEF StoredInv
<1> QED
  BY <1>2, <1>3, <1>4 DEF StoreBlock

LEMMA SyncChain ==
  ASSUME TypeOK, ChainInv, StoredInv, NEW y \in Syncers,
         ApplyConfirmations(y) \/ \E h \in DOMAIN stored : AskConfirmations(y, h)
  PROVE  ChainInv' /\ StoredInv'
<1>1. UNCHANGED <<active, known, blockVars, pc>>
  BY DEF ApplyConfirmations, AskConfirmations, nodeVars, handlerVars
<1>2. ChainInv'
  BY <1>1, ChainSame
<1>3. ASSUME NEW h \in DOMAIN stored, AskConfirmations(y, h) PROVE StoredInv'
  <2>1. stored' = stored /\ sync' = [sync EXCEPT ![y] = [pc |-> "answered", h |-> h, conf |-> Confirmations(h)]]
    BY <1>3 DEF AskConfirmations, diskVars
  <2>2. \A g : Buried(g)' <=> Buried(g)
    BY <1>1, <2>1 DEF Buried
  <2>3. Confirmations(h) >= 2 => Buried(h)
    BY ConfirmationsOf DEF Orphaned
  <2>4. sync'[y].h = h /\ sync'[y].conf = Confirmations(h) /\ \A z \in Syncers \ {y} : sync'[z] = sync[z]
    BY <2>1 DEF TypeOK
  <2>5. \A z \in Syncers : sync'[z].pc = "answered" =>
          sync'[z].h \in DOMAIN stored' /\ (sync'[z].conf >= 2 => Buried(sync'[z].h))
    BY <2>1, <2>3, <2>4 DEF StoredInv
  <2>6. \A z \in Syncers : Buried(sync'[z].h) => Buried(sync[z].h)'
    BY <1>1, <2>1 DEF Buried
  <2> QED
    BY <1>1, <2>1, <2>2, <2>5, <2>6 DEF StoredInv, blockVars
<1>4. CASE ApplyConfirmations(y)
  <2> DEFINE h == sync[y].h
             c == NewConf(stored[h].conf, sync[y].conf)
  <2>1. /\ sync[y].pc = "answered" /\ sync' = [sync EXCEPT ![y] = IdleSync]
        /\ stored' = [stored EXCEPT ![h].conf = c]
    BY <1>4 DEF ApplyConfirmations
  <2>2. h \in DOMAIN stored /\ (sync[y].conf >= 2 => Buried(h)) /\ (stored[h].conf >= 2 => Buried(h))
    BY <2>1 DEF StoredInv
  <2>3. c >= 2 => Buried(h)
    BY <2>2 DEF NewConf, Orphaned
  <2>4. /\ DOMAIN stored' = DOMAIN stored /\ stored'[h].conf = c
        /\ \A g \in DOMAIN stored : /\ stored'[g].block = stored[g].block
                                    /\ g # h => stored'[g] = stored[g]
    BY <2>1, <2>2 DEF TypeOK
  <2>5. \A g \in DOMAIN stored : Buried(g)' <=> Buried(g)
    BY <1>1, <2>4 DEF Buried
  <2>6. \A g \in DOMAIN stored' : stored'[g].conf >= 2 => Buried(g)'
    BY <2>3, <2>4, <2>5 DEF StoredInv
  <2>7. \A z \in Syncers \ {y} : sync'[z] = sync[z]
    BY <2>1 DEF TypeOK
  <2>8. sync'[y].pc = "idle"
    BY <2>1 DEF TypeOK, IdleSync
  <2>9. \A z \in Syncers : sync'[z].pc = "answered" =>
          z # y /\ sync'[z].h \in DOMAIN stored' /\ (sync'[z].conf >= 2 => Buried(sync[z].h)')
    BY <2>4, <2>5, <2>7, <2>8 DEF StoredInv
  <2>10. \A z \in Syncers : sync'[z].pc = "answered" =>
           sync'[z].h \in DOMAIN stored' /\ (sync'[z].conf >= 2 => Buried(sync[z].h)')
    BY <2>9
  <2>11. height' = height /\ pc' = pc
    BY <1>1 DEF blockVars
  <2>12. \A g \in DOMAIN stored' : height'[stored'[g].block] = g /\ pc'[stored'[g].block] # "unfound"
    BY <2>4, <2>11 DEF StoredInv
  <2> QED
    BY <1>2, <2>6, <2>10, <2>12 DEF StoredInv
<1> QED
  BY <1>2, <1>3, <1>4

LEMMA NextChain == TypeOK /\ ChainInv /\ StoredInv /\ [Next]_vars => ChainInv' /\ StoredInv'
<1> SUFFICES ASSUME TypeOK, ChainInv, StoredInv, [Next]_vars PROVE ChainInv' /\ StoredInv'
  OBVIOUS
<1>1. ASSUME UNCHANGED <<active, known, blockVars, stored, sync>>,
             \A s \in Solutions : (pc'[s] = "unfound") <=> (pc[s] = "unfound")
      PROVE  ChainInv' /\ StoredInv'
  BY <1>1, ChainSame, StoredSame
<1>2. ASSUME NEW s \in Solutions, RecordV2Share(s) PROVE ChainInv' /\ StoredInv'
  BY <1>1, <1>2 DEF RecordV2Share, nodeVars, handlerVars, diskVars
<1>3. ASSUME NEW s \in Solutions, Gates(s) PROVE ChainInv' /\ StoredInv'
  BY <1>1, <1>3 DEF Gates, Go, End, TypeOK, nodeVars, diskVars
<1>4. ASSUME NEW s \in Solutions, BuildBlock(s) PROVE ChainInv' /\ StoredInv'
  BY <1>1, <1>4 DEF BuildBlock, Go, End, TypeOK, nodeVars
<1>5. ASSUME NEW s \in Solutions, VerifyBlock(s) PROVE ChainInv' /\ StoredInv'
  BY <1>1, <1>5 DEF VerifyBlock, Go, End, TypeOK, nodeVars, diskVars
<1>6. ASSUME NEW s \in Solutions, CloseRound(s) PROVE ChainInv' /\ StoredInv'
  BY <1>1, <1>6 DEF CloseRound, Go, TypeOK, nodeVars, diskVars
<1>7. CASE CooldownEnds
  BY <1>1, <1>7 DEF CooldownEnds, nodeVars, handlerVars, diskVars
<1>8. CASE UNCHANGED vars
  BY <1>1, <1>8 DEF vars, nodeVars, handlerVars, diskVars
<1> QED
  BY <1>2, <1>3, <1>4, <1>5, <1>6, <1>7, <1>8, SolveChain, SubmitChain, StoreChain, SyncChain, NodeChain
  DEF Next, Handler

\* Syncs may apply an old answer after a new one, and the tip may change between the
\* question and the write: once another tick would change nothing, the blocks marked as
\* orphaned are those off the active chain, and no others.
THEOREM MarksSettleCorrect == Spec => []MarksSettle
<1>1. Init => TypeOK /\ WorkInv /\ ChainInv /\ StoredInv
  <2> SUFFICES ASSUME Init PROVE ChainInv /\ StoredInv
    BY InitTypeOK, InitWork
  <2>1. active = <<Genesis>> /\ Len(active) = 1 /\ active[1] = Genesis
    BY DEF Init
  <2>2. ChainInv
    BY <2>1, Blocks DEF Init, ChainInv
  <2>3. StoredInv
    BY DEF Init, IdleSync, StoredInv
  <2> QED
    BY <2>2, <2>3
<1>2. TypeOK /\ ChainInv /\ StoredInv => MarksSettle
  <2> SUFFICES ASSUME TypeOK, ChainInv, StoredInv, TickChangesNothing, NEW h \in DOMAIN stored
               PROVE  (stored[h].conf = Orphaned) = (stored[h].block \notin Range(active))
    BY DEF MarksSettle
  <2>1. stored[h].conf \in Int
    BY DEF TypeOK
  <2>2. CASE stored[h].conf >= BlockMatureAt
    <3>1. stored[h].conf >= 2
      BY <2>1, <2>2, BlockSubmitAssumption
    <3>2. h \in 1..Len(active) /\ active[h] = stored[h].block /\ DOMAIN active = 1..Len(active)
      BY <3>1 DEF StoredInv, Buried, TypeOK
    <3>3. stored[h].block \in Range(active)
      BY <3>2 DEF Range
    <3> QED
      BY <3>1, <3>3 DEF Orphaned
  <2>3. CASE stored[h].conf = NewConf(stored[h].conf, Confirmations(h))
    BY <2>1, <2>3, ConfirmationsOf DEF NewConf, Orphaned
  <2> QED
    BY <2>2, <2>3 DEF TickChangesNothing
<1> QED
  BY <1>1, <1>2, NextWork, NextChain, PTL DEF Spec

-----------------------------------------------------------------------------
(* StratumSession: the difficulty of a V1 session, and what its shares are worth.      *)

\* The lists of steps a thread may have before it, by what it is doing.
AuthorizeLists ==
  IF config.solo THEN {<<"tell", "notify", "hook">>, <<"notify", "hook">>, <<"hook">>}
  ELSE {<<"tell", "notify">>, <<"notify">>}
SuggestLists == {<<"reset", "tell">>, <<"tell">>}
MidblockLists ==
  IF config.onNewBlock THEN {<<"retarget">>, <<"queue">>}
  ELSE {<<"retarget">>, <<"midblock">>, <<"tell", "reset", "notify">>, <<"reset", "notify">>, <<"notify">>}
HookLists == {<<"restore">>, <<"reset", "tell">>, <<"tell">>}
BroadcastLists ==
  {<<"send">>, <<"tell", "reset", "record", "notify">>, <<"reset", "record", "notify">>, <<"record", "notify">>,
   <<"notify">>}

Fits(t, by, todo) ==
  \/ by = "nobody" /\ todo = <<>>
  \/ t = "reader" /\ by = "authorize" /\ todo \in AuthorizeLists
  \/ t = "reader" /\ by = "suggest" /\ todo \in SuggestLists
  \/ t = "reader" /\ by = "midblock" /\ todo \in MidblockLists
  \/ t = "hook" /\ by = "hook" /\ todo \in HookLists
  \/ t \in Broadcasters /\ by = "broadcast" /\ todo \in BroadcastLists

CallOK == DOMAIN call = Threads /\ \A t \in Threads : DOMAIN call[t] = DOMAIN Done /\ Fits(t, call[t].by, call[t].todo)

\* The step a thread is at.
Step(t) == IF Idle(t) THEN "idle" ELSE Head(call[t].todo)

\* The steps of each kind of handler.
StepOK(t) ==
  \/ call[t].by = "nobody" /\ Step(t) = "idle"
  \/ t = "reader" /\ call[t].by = "authorize" /\ (Step(t) \in {"tell", "notify"} \/ (config.solo /\ Step(t) = "hook"))
  \/ t = "reader" /\ call[t].by = "suggest" /\ Step(t) \in {"reset", "tell"}
  \/ t = "reader" /\ call[t].by = "midblock" /\
       (Step(t) \in {"retarget", Delivery} \/ (~config.onNewBlock /\ Step(t) \in {"tell", "reset", "notify"}))
  \/ t = "hook" /\ call[t].by = "hook" /\ Step(t) \in {"restore", "reset", "tell"}
  \/ t \in Broadcasters /\ call[t].by = "broadcast" /\ Step(t) \in {"send", "tell", "reset", "record", "notify"}

\* The step that comes after s.
After(by, s) ==
  IF s = "tell" THEN (IF by = "authorize" THEN "notify" ELSE IF by \in {"midblock", "broadcast"} THEN "reset" ELSE "idle")
  ELSE IF s = "reset" THEN (IF by \in {"suggest", "hook"} THEN "tell" ELSE IF by = "midblock" THEN "notify" ELSE "record")
  ELSE IF s = "record" THEN "notify"
  ELSE IF s = "notify" /\ by = "authorize" /\ config.solo THEN "hook" ELSE "idle"

\* Thread t goes on and no other does.
OthersStay(t) == \A u \in Threads : u # t => call'[u] = call[u]
Moves(t) == CallOK' /\ OthersStay(t)

LEMMA ThreadsDiffer ==
  /\ "reader" \in Threads /\ "hook" \in Threads /\ "reader" \notin Broadcasters /\ "hook" \notin Broadcasters
  /\ \A b \in Broadcasters : b \in Threads /\ b # "reader" /\ b # "hook"
  /\ \A t \in Threads : t = "reader" \/ t = "hook" \/ t \in Broadcasters
BY SessionAssumption DEF Threads

\* The lists, taken apart.
LEMMA Ones ==
  ASSUME NEW s PROVE <<s>> # <<>> /\ Len(<<s>>) = 1 /\ Head(<<s>>) = s
OBVIOUS

LEMMA Twos ==
  ASSUME NEW s, NEW u PROVE <<s, u>> # <<>> /\ Len(<<s, u>>) # 1 /\ Head(<<s, u>>) = s /\ Tail(<<s, u>>) = <<u>>
OBVIOUS

LEMMA Longs ==
  /\ \A s, u, v : <<s, u, v>> # <<>> /\ Len(<<s, u, v>>) # 1 /\ Head(<<s, u, v>>) = s /\ Tail(<<s, u, v>>) = <<u, v>>
  /\ \A s, u, v, w : /\ <<s, u, v, w>> # <<>> /\ Len(<<s, u, v, w>>) # 1 /\ Head(<<s, u, v, w>>) = s
                     /\ Tail(<<s, u, v, w>>) = <<u, v, w>>
OBVIOUS

LEMMA StepsOK ==
  ASSUME CallOK, NEW t \in Threads PROVE StepOK(t)
<1>1. Fits(t, call[t].by, call[t].todo)
  BY DEF CallOK
<1>2. CASE call[t].by = "nobody" /\ call[t].todo = <<>>
  BY <1>2 DEF StepOK, Step, Idle
<1>3. CASE t = "reader" /\ call[t].by = "authorize" /\ call[t].todo \in AuthorizeLists
  <2>1. CASE call[t].todo = <<"tell", "notify", "hook">> /\ config.solo
    BY <1>3, <2>1, Longs DEF StepOK, Step, Idle
  <2>2. CASE call[t].todo \in {<<"tell", "notify">>, <<"notify", "hook">>}
    BY <1>3, <2>2, Twos DEF StepOK, Step, Idle
  <2>3. CASE (call[t].todo = <<"hook">> /\ config.solo) \/ call[t].todo = <<"notify">>
    BY <1>3, <2>3, Ones DEF StepOK, Step, Idle
  <2> QED
    BY <1>3, <2>1, <2>2, <2>3 DEF AuthorizeLists
<1>4. CASE t = "reader" /\ call[t].by = "suggest" /\ call[t].todo \in SuggestLists
  BY <1>4, Ones, Twos DEF StepOK, Step, Idle, SuggestLists
<1>5. CASE t = "reader" /\ call[t].by = "midblock" /\ call[t].todo \in MidblockLists
  <2>1. CASE call[t].todo = <<"retarget">> \/ call[t].todo = <<Delivery>>
    BY <1>5, <2>1, Ones DEF StepOK, Step, Idle
  <2>2. CASE ~config.onNewBlock /\ call[t].todo = <<"tell", "reset", "notify">>
    BY <1>5, <2>2, Longs DEF StepOK, Step, Idle
  <2>3. CASE ~config.onNewBlock /\ call[t].todo = <<"reset", "notify">>
    BY <1>5, <2>3, Twos DEF StepOK, Step, Idle
  <2>4. CASE ~config.onNewBlock /\ call[t].todo = <<"notify">>
    BY <1>5, <2>4, Ones DEF StepOK, Step, Idle
  <2> QED
    BY <1>5, <2>1, <2>2, <2>3, <2>4 DEF MidblockLists, Delivery
<1>6. CASE t = "hook" /\ call[t].by = "hook" /\ call[t].todo \in HookLists
  BY <1>6, Ones, Twos DEF StepOK, Step, Idle, HookLists
<1>7. CASE t \in Broadcasters /\ call[t].by = "broadcast" /\ call[t].todo \in BroadcastLists
  BY <1>7, Ones, Twos, Longs DEF StepOK, Step, Idle, BroadcastLists
<1> QED
  BY <1>1, <1>2, <1>3, <1>4, <1>5, <1>6, <1>7 DEF Fits

\* A thread's task is replaced.
LEMMA TaskSet ==
  ASSUME CallOK, config' = config, NEW t \in Threads, NEW r, DOMAIN r = DOMAIN Done, Fits(t, r.by, r.todo),
         call' = [call EXCEPT ![t] = r]
  PROVE  Moves(t) /\ call'[t] = r
<1>1. DOMAIN call' = Threads /\ call'[t] = r /\ \A u \in Threads : u # t => call'[u] = call[u]
  BY DEF CallOK
<1>2. ASSUME NEW u \in Threads PROVE DOMAIN call'[u] = DOMAIN Done /\ Fits(u, call'[u].by, call'[u].todo)
  <2>1. CASE u = t
    BY <1>1, <2>1
  <2>2. CASE u # t
    BY <1>1, <2>2 DEF CallOK
  <2> QED
    BY <2>1, <2>2
<1>3. AuthorizeLists' = AuthorizeLists /\ MidblockLists' = MidblockLists
  BY DEF AuthorizeLists, MidblockLists
<1>4. \A u \in Threads : Fits(u, call'[u].by, call'[u].todo) => Fits(u, call[u].by, call[u].todo)'
  BY <1>3 DEF Fits
<1>5. DOMAIN Done' = DOMAIN Done
  BY DEF Done
<1> QED
  BY <1>1, <1>2, <1>4, <1>5 DEF Moves, OthersStay, CallOK

\* A thread that has done a step goes on to the next one.
GoesOn(t) ==
  /\ Moves(t) /\ Step(t)' = After(call[t].by, Step(t))
  /\ Step(t)' = "idle" => call'[t].by = "nobody"
  /\ Step(t)' # "idle" =>
       call'[t].by = call[t].by /\ call'[t].diff = call[t].diff /\ call'[t].job = call[t].job /\ call'[t].clean = call[t].clean

LEMMA LastStep ==
  ASSUME CallOK, config' = config, NEW t \in Threads, StepDone(t), NEW s, call[t].todo = <<s>>, After(call[t].by, s) = "idle"
  PROVE  GoesOn(t)
<1>1. call' = [call EXCEPT ![t] = Done]
  BY Ones DEF StepDone
<1>2. Moves(t) /\ call'[t] = Done
  <2>1. Fits(t, Done.by, Done.todo)
    BY DEF Fits, Done
  <2> QED
    BY <1>1, <2>1, TaskSet
<1>3. Step(t)' = "idle" /\ call'[t].by = "nobody" /\ Step(t) = s
  BY <1>2, Ones DEF Step, Idle, Done
<1> QED
  BY <1>2, <1>3 DEF GoesOn

LEMMA NotLastStep ==
  ASSUME CallOK, config' = config, NEW t \in Threads, StepDone(t), NEW rest, call[t].todo # <<>>, Len(call[t].todo) # 1,
         Tail(call[t].todo) = rest, rest # <<>>, Head(rest) = After(call[t].by, Head(call[t].todo)), Head(rest) # "idle",
         Fits(t, call[t].by, rest)
  PROVE  GoesOn(t)
<1> DEFINE r == [call[t] EXCEPT !.todo = rest]
<1>1. call' = [call EXCEPT ![t] = r]
  <2>1. call' = [call EXCEPT ![t] = IF Len(call[t].todo) = 1 THEN Done ELSE [call[t] EXCEPT !.todo = Tail(call[t].todo)]]
    BY DEF StepDone
  <2>2. (IF Len(call[t].todo) = 1 THEN Done ELSE [call[t] EXCEPT !.todo = Tail(call[t].todo)]) = r
    OBVIOUS
  <2> QED
    BY <2>1, <2>2
<1>2. /\ DOMAIN r = DOMAIN Done /\ r.by = call[t].by /\ r.todo = rest
      /\ r.diff = call[t].diff /\ r.job = call[t].job /\ r.clean = call[t].clean
  BY DEF CallOK, Done
<1> HIDE DEF r
<1>3. Moves(t) /\ call'[t] = r
  BY <1>1, <1>2, TaskSet
<1>4. Step(t)' = Head(rest) /\ Step(t) = Head(call[t].todo)
  BY <1>2, <1>3 DEF Step, Idle
<1> QED
  BY <1>2, <1>3, <1>4 DEF GoesOn

LEMMA StepDoneGoesOn ==
  ASSUME CallOK, config' = config, NEW t \in Threads, ~Idle(t), StepDone(t)
  PROVE  GoesOn(t)
<1>1. call[t].todo # <<>> /\ Fits(t, call[t].by, call[t].todo)
  BY DEF Idle, CallOK
<1> SUFFICES ASSUME \A s : call[t].todo = <<s>> => After(call[t].by, s) # "idle"
             PROVE  GoesOn(t)
  BY LastStep
<1>3. CASE t = "reader" /\ call[t].by = "authorize" /\ call[t].todo \in AuthorizeLists
  <2>1. CASE config.solo /\ call[t].todo = <<"tell", "notify", "hook">>
    <3>1. Head(<<"notify", "hook">>) = After(call[t].by, Head(call[t].todo)) /\ Fits(t, call[t].by, <<"notify", "hook">>)
      BY <1>3, <2>1, Longs, Twos DEF After, Fits, AuthorizeLists
    <3>2. /\ call[t].todo # <<>> /\ Len(call[t].todo) # 1 /\ Tail(call[t].todo) = <<"notify", "hook">>
          /\ <<"notify", "hook">> # <<>> /\ Head(<<"notify", "hook">>) # "idle"
      BY <2>1, Longs, Twos
    <3> QED
      BY <3>1, <3>2, NotLastStep
  <2>2. CASE config.solo /\ call[t].todo = <<"notify", "hook">>
    <3>1. Head(<<"hook">>) = After(call[t].by, Head(call[t].todo)) /\ Fits(t, call[t].by, <<"hook">>)
      BY <1>3, <2>2, Ones, Twos DEF After, Fits, AuthorizeLists
    <3>2. /\ call[t].todo # <<>> /\ Len(call[t].todo) # 1 /\ Tail(call[t].todo) = <<"hook">>
          /\ <<"hook">> # <<>> /\ Head(<<"hook">>) # "idle"
      BY <2>2, Ones, Twos
    <3> QED
      BY <3>1, <3>2, NotLastStep
  <2>3. CASE ~config.solo /\ call[t].todo = <<"tell", "notify">>
    <3>1. Head(<<"notify">>) = After(call[t].by, Head(call[t].todo)) /\ Fits(t, call[t].by, <<"notify">>)
      BY <1>3, <2>3, Ones, Twos DEF After, Fits, AuthorizeLists
    <3>2. /\ call[t].todo # <<>> /\ Len(call[t].todo) # 1 /\ Tail(call[t].todo) = <<"notify">>
          /\ <<"notify">> # <<>> /\ Head(<<"notify">>) # "idle"
      BY <2>3, Ones, Twos
    <3> QED
      BY <3>1, <3>2, NotLastStep
  <2>4. CASE call[t].todo = <<"hook">> \/ (~config.solo /\ call[t].todo = <<"notify">>)
    BY <1>3, <2>4 DEF After
  <2> QED
    BY <1>3, <2>1, <2>2, <2>3, <2>4 DEF AuthorizeLists
<1>4. CASE t = "reader" /\ call[t].by = "suggest" /\ call[t].todo \in SuggestLists
  <2>1. CASE call[t].todo = <<"reset", "tell">>
    <3>1. Head(<<"tell">>) = After(call[t].by, Head(call[t].todo)) /\ Fits(t, call[t].by, <<"tell">>)
      BY <1>4, <2>1, Ones, Twos DEF After, Fits, SuggestLists
    <3>2. /\ call[t].todo # <<>> /\ Len(call[t].todo) # 1 /\ Tail(call[t].todo) = <<"tell">>
          /\ <<"tell">> # <<>> /\ Head(<<"tell">>) # "idle"
      BY <2>1, Ones, Twos
    <3> QED
      BY <3>1, <3>2, NotLastStep
  <2>2. CASE call[t].todo = <<"tell">>
    BY <1>4, <2>2 DEF After
  <2> QED
    BY <1>4, <2>1, <2>2 DEF SuggestLists
<1>5. CASE t = "reader" /\ call[t].by = "midblock" /\ call[t].todo \in MidblockLists
  <2>1. CASE ~config.onNewBlock /\ call[t].todo = <<"tell", "reset", "notify">>
    <3>1. Head(<<"reset", "notify">>) = After(call[t].by, Head(call[t].todo)) /\ Fits(t, call[t].by, <<"reset", "notify">>)
      BY <1>5, <2>1, Longs, Twos DEF After, Fits, MidblockLists
    <3>2. /\ call[t].todo # <<>> /\ Len(call[t].todo) # 1 /\ Tail(call[t].todo) = <<"reset", "notify">>
          /\ <<"reset", "notify">> # <<>> /\ Head(<<"reset", "notify">>) # "idle"
      BY <2>1, Longs, Twos
    <3> QED
      BY <3>1, <3>2, NotLastStep
  <2>2. CASE ~config.onNewBlock /\ call[t].todo = <<"reset", "notify">>
    <3>1. Head(<<"notify">>) = After(call[t].by, Head(call[t].todo)) /\ Fits(t, call[t].by, <<"notify">>)
      BY <1>5, <2>2, Ones, Twos DEF After, Fits, MidblockLists
    <3>2. /\ call[t].todo # <<>> /\ Len(call[t].todo) # 1 /\ Tail(call[t].todo) = <<"notify">>
          /\ <<"notify">> # <<>> /\ Head(<<"notify">>) # "idle"
      BY <2>2, Ones, Twos
    <3> QED
      BY <3>1, <3>2, NotLastStep
  <2>3. CASE call[t].todo \in {<<"retarget">>, <<"queue">>, <<"midblock">>, <<"notify">>}
    BY <1>5, <2>3 DEF After
  <2> QED
    BY <1>5, <2>1, <2>2, <2>3 DEF MidblockLists
<1>6. CASE t = "hook" /\ call[t].by = "hook" /\ call[t].todo \in HookLists
  <2>1. CASE call[t].todo = <<"reset", "tell">>
    <3>1. Head(<<"tell">>) = After(call[t].by, Head(call[t].todo)) /\ Fits(t, call[t].by, <<"tell">>)
      BY <1>6, <2>1, Ones, Twos DEF After, Fits, HookLists
    <3>2. /\ call[t].todo # <<>> /\ Len(call[t].todo) # 1 /\ Tail(call[t].todo) = <<"tell">>
          /\ <<"tell">> # <<>> /\ Head(<<"tell">>) # "idle"
      BY <2>1, Ones, Twos
    <3> QED
      BY <3>1, <3>2, NotLastStep
  <2>2. CASE call[t].todo \in {<<"restore">>, <<"tell">>}
    BY <1>6, <2>2 DEF After
  <2> QED
    BY <1>6, <2>1, <2>2 DEF HookLists
<1>7. CASE t \in Broadcasters /\ call[t].by = "broadcast" /\ call[t].todo \in BroadcastLists
  <2>1. CASE call[t].todo = <<"tell", "reset", "record", "notify">>
    <3>1. /\ Head(<<"reset", "record", "notify">>) = After(call[t].by, Head(call[t].todo))
          /\ Fits(t, call[t].by, <<"reset", "record", "notify">>)
      BY <1>7, <2>1, Longs DEF After, Fits, BroadcastLists
    <3>2. /\ call[t].todo # <<>> /\ Len(call[t].todo) # 1 /\ Tail(call[t].todo) = <<"reset", "record", "notify">>
          /\ <<"reset", "record", "notify">> # <<>> /\ Head(<<"reset", "record", "notify">>) # "idle"
      BY <2>1, Longs
    <3> QED
      BY <3>1, <3>2, NotLastStep
  <2>2. CASE call[t].todo = <<"reset", "record", "notify">>
    <3>1. /\ Head(<<"record", "notify">>) = After(call[t].by, Head(call[t].todo))
          /\ Fits(t, call[t].by, <<"record", "notify">>)
      BY <1>7, <2>2, Longs, Twos DEF After, Fits, BroadcastLists
    <3>2. /\ call[t].todo # <<>> /\ Len(call[t].todo) # 1 /\ Tail(call[t].todo) = <<"record", "notify">>
          /\ <<"record", "notify">> # <<>> /\ Head(<<"record", "notify">>) # "idle"
      BY <2>2, Longs, Twos
    <3> QED
      BY <3>1, <3>2, NotLastStep
  <2>3. CASE call[t].todo = <<"record", "notify">>
    <3>1. Head(<<"notify">>) = After(call[t].by, Head(call[t].todo)) /\ Fits(t, call[t].by, <<"notify">>)
      BY <1>7, <2>3, Ones, Twos DEF After, Fits, BroadcastLists
    <3>2. /\ call[t].todo # <<>> /\ Len(call[t].todo) # 1 /\ Tail(call[t].todo) = <<"notify">>
          /\ <<"notify">> # <<>> /\ Head(<<"notify">>) # "idle"
      BY <2>3, Ones, Twos
    <3> QED
      BY <3>1, <3>2, NotLastStep
  <2>4. CASE call[t].todo \in {<<"send">>, <<"notify">>}
    BY <1>7, <2>4 DEF After
  <2> QED
    BY <1>7, <2>1, <2>2, <2>3, <2>4 DEF BroadcastLists
<1> QED
  BY <1>1, <1>3, <1>4, <1>5, <1>6, <1>7 DEF Fits

\* What each action makes of the calls.
Becomes(t, by, step) == Moves(t) /\ call'[t].by = by /\ Step(t)' = step

LEMMA CallStays ==
  ASSUME CallOK, config' = config, call' = call
  PROVE  CallOK' /\ \A t \in Threads : Step(t)' = Step(t)
<1>1. \A t \in Threads : Step(t)' = Step(t)
  BY DEF Step, Idle
<1>2. AuthorizeLists' = AuthorizeLists /\ MidblockLists' = MidblockLists /\ DOMAIN Done' = DOMAIN Done
  BY DEF AuthorizeLists, MidblockLists, Done
<1>3. \A t \in Threads : Fits(t, call[t].by, call[t].todo) => Fits(t, call[t].by, call[t].todo)'
  BY <1>2 DEF Fits
<1> QED
  BY <1>1, <1>2, <1>3 DEF CallOK

LEMMA StepStays ==
  ASSUME NEW t, OthersStay(t), NEW u \in Threads, u # t
  PROVE  call'[u] = call[u] /\ Step(u)' = Step(u)
BY DEF OthersStay, Step, Idle

LEMMA StartBecomes ==
  ASSUME CallOK, config' = config, NEW t \in Threads, NEW by, NEW todo, NEW d, NEW j, NEW clean, Start(t, by, todo, d, j, clean),
         todo # <<>>, Fits(t, by, todo)
  PROVE  /\ Becomes(t, by, Head(todo)) /\ call'[t].diff = d /\ call'[t].job = j /\ call'[t].clean = clean
<1> DEFINE r == [by |-> by, todo |-> todo, diff |-> d, job |-> j, clean |-> clean]
<1>1. DOMAIN r = DOMAIN Done /\ r.by = by /\ r.todo = todo
  BY DEF Done
<1>2. call' = [call EXCEPT ![t] = r]
  BY DEF Start
<1>3. Moves(t) /\ call'[t] = r
  BY <1>1, <1>2, TaskSet
<1> QED
  BY <1>3 DEF Becomes, Step, Idle

LEMMA AuthorizeCalls ==
  ASSUME CallOK, NEW p, Authorize(p)
  PROVE  Becomes("reader", "authorize", "tell") /\ call'["reader"].diff = difficulty'
<1> DEFINE l == IF config.solo THEN <<"tell", "notify", "hook">> ELSE <<"tell", "notify">>
<1>1. l # <<>> /\ Head(l) = "tell" /\ Fits("reader", "authorize", l)
  BY Longs, Twos DEF Fits, AuthorizeLists
<1>2. Start("reader", "authorize", l, difficulty', NoJob, FALSE) /\ config' = config
  BY DEF Authorize
<1> HIDE DEF l
<1> QED
  BY <1>1, <1>2, StartBecomes, ThreadsDiffer

LEMMA SuggestCalls ==
  ASSUME CallOK, NEW d, SuggestDifficulty(d)
  PROVE  Becomes("reader", "suggest", "reset") /\ call'["reader"].diff = d
<1>1. <<"reset", "tell">> # <<>> /\ Head(<<"reset", "tell">>) = "reset" /\ Fits("reader", "suggest", <<"reset", "tell">>)
  BY Twos DEF Fits, SuggestLists
<1>2. Start("reader", "suggest", <<"reset", "tell">>, d, NoJob, FALSE) /\ config' = config
  BY DEF SuggestDifficulty
<1> QED
  BY <1>1, <1>2, StartBecomes, ThreadsDiffer

LEMMA SubmitCalls ==
  ASSUME CallOK, Submit
  PROVE  Becomes("reader", "midblock", "retarget")
<1>1. <<"retarget">> # <<>> /\ Head(<<"retarget">>) = "retarget" /\ Fits("reader", "midblock", <<"retarget">>)
  BY Ones DEF Fits, MidblockLists
<1>2. Start("reader", "midblock", <<"retarget">>, 0, NoJob, FALSE) /\ config' = config
  BY DEF Submit, boundVars
<1> QED
  BY <1>1, <1>2, StartBecomes, ThreadsDiffer

LEMMA NewJobCalls ==
  ASSUME CallOK, NEW b \in Broadcasters, NEW clean, NewJob(b, clean)
  PROVE  /\ Becomes(b, "broadcast", "send")
         /\ call'[b].job = latest' /\ call'[b].clean = (tipJob' = latest')
<1>1. <<"send">> # <<>> /\ Head(<<"send">>) = "send" /\ Fits(b, "broadcast", <<"send">>)
  BY Ones DEF Fits, BroadcastLists
<1>2. Start(b, "broadcast", <<"send">>, 0, latest', tipJob' = latest') /\ config' = config
  BY DEF NewJob, boundVars
<1> QED
  BY <1>1, <1>2, StartBecomes, ThreadsDiffer

LEMMA RestoreCalls ==
  ASSUME CallOK, SetInitialDifficulty
  PROVE  /\ Step("hook") = "restore" /\ call["hook"].by = "hook"
         /\ IF storedDiff = 0 THEN Becomes("hook", "nobody", "idle")
            ELSE Becomes("hook", "hook", "reset") /\ call'["hook"].diff = storedDiff
<1>1. ~Idle("hook") /\ Step("hook") = "restore" /\ call["hook"].by = "hook"
  BY StepsOK, ThreadsDiffer DEF SetInitialDifficulty, At, Step, StepOK
<1>2. config' = config
  BY DEF SetInitialDifficulty, boundVars
<1>3. CASE storedDiff = 0
  <2>1. StepDone("hook")
    BY <1>3 DEF SetInitialDifficulty
  <2>2. GoesOn("hook")
    BY <1>1, <1>2, <2>1, StepDoneGoesOn, ThreadsDiffer
  <2> QED
    BY <1>1, <1>3, <2>2 DEF GoesOn, Becomes, After
<1>4. CASE storedDiff # 0
  <2>1. <<"reset", "tell">> # <<>> /\ Head(<<"reset", "tell">>) = "reset" /\ Fits("hook", "hook", <<"reset", "tell">>)
    BY Twos DEF Fits, HookLists
  <2>2. Start("hook", "hook", <<"reset", "tell">>, storedDiff, NoJob, FALSE)
    BY <1>4 DEF SetInitialDifficulty
  <2>3. Becomes("hook", "hook", Head(<<"reset", "tell">>)) /\ call'["hook"].diff = storedDiff
    BY <1>2, <2>1, <2>2, StartBecomes, ThreadsDiffer
  <2> QED
    BY <1>1, <1>4, <2>1, <2>3
<1> QED
  BY <1>3, <1>4

LEMMA StartHookCalls ==
  ASSUME CallOK, StartHook
  PROVE  /\ CallOK' /\ Step("reader") = "hook" /\ call["reader"].by = "authorize" /\ config.solo /\ Step("hook") = "idle"
         /\ call'["reader"].by = "nobody" /\ Step("reader")' = "idle"
         /\ call'["hook"].by = "hook" /\ Step("hook")' = "restore"
         /\ \A b \in Broadcasters : call'[b] = call[b] /\ Step(b)' = Step(b)
<1>1. Step("reader") = "hook" /\ call["reader"].by = "authorize" /\ config.solo /\ Step("hook") = "idle" /\ config' = config
  BY StepsOK, ThreadsDiffer DEF StartHook, At, Step, StepOK, Delivery, boundVars
<1> DEFINE r == [Done EXCEPT !.by = "hook", !.todo = <<"restore">>]
<1>2. DOMAIN r = DOMAIN Done /\ r.by = "hook" /\ r.todo = <<"restore">>
  BY DEF Done
<1>3. DOMAIN call' = Threads /\ call'["reader"] = Done /\ call'["hook"] = r
      /\ \A u \in Threads \ {"reader", "hook"} : call'[u] = call[u]
  BY ThreadsDiffer DEF StartHook, CallOK
<1> HIDE DEF r
<1>4. AuthorizeLists' = AuthorizeLists /\ MidblockLists' = MidblockLists /\ DOMAIN Done' = DOMAIN Done
  BY <1>1 DEF AuthorizeLists, MidblockLists, Done
<1>5. Fits("reader", Done.by, Done.todo) /\ Fits("hook", r.by, r.todo)
  BY <1>2 DEF Fits, HookLists, Done
<1>6. ASSUME NEW u \in Threads PROVE DOMAIN call'[u] = DOMAIN Done /\ Fits(u, call'[u].by, call'[u].todo)
  BY <1>2, <1>3, <1>5 DEF CallOK
<1>7. \A u \in Threads : Fits(u, call'[u].by, call'[u].todo) => Fits(u, call[u].by, call[u].todo)'
  BY <1>4 DEF Fits
<1>8. CallOK'
  BY <1>3, <1>4, <1>6, <1>7 DEF CallOK
<1>9. Step("reader")' = "idle" /\ Step("hook")' = "restore" /\ call'["reader"].by = "nobody"
  BY <1>2, <1>3, Ones DEF Step, Idle, Done
<1>10. \A b \in Broadcasters : call'[b] = call[b] /\ Step(b)' = Step(b)
  BY <1>3, ThreadsDiffer DEF Step, Idle
<1> QED
  BY <1>1, <1>2, <1>3, <1>8, <1>9, <1>10

\* A thread's list is replaced, and perhaps the difficulty it has in hand.
LEMMA ListBecomes ==
  ASSUME CallOK, config' = config, NEW t \in Threads, NEW todo, NEW d, todo # <<>>, Fits(t, call[t].by, todo),
         call' = [call EXCEPT ![t] = [call[t] EXCEPT !.diff = d, !.todo = todo]]
  PROVE  /\ Becomes(t, call[t].by, Head(todo)) /\ call'[t].diff = d
         /\ call'[t].job = call[t].job /\ call'[t].clean = call[t].clean
<1> DEFINE r == [call[t] EXCEPT !.diff = d, !.todo = todo]
<1>1. DOMAIN r = DOMAIN Done /\ r.by = call[t].by /\ r.todo = todo /\ r.diff = d /\ r.job = call[t].job /\ r.clean = call[t].clean
  BY DEF Done, CallOK
<1>2. call' = [call EXCEPT ![t] = r]
  OBVIOUS
<1> HIDE DEF r
<1>3. Moves(t) /\ call'[t] = r
  BY <1>1, <1>2, TaskSet
<1>4. Step(t)' = Head(todo)
  BY <1>1, <1>3 DEF Step, Idle
<1> QED
  BY <1>1, <1>3, <1>4 DEF Becomes

LEMMA RetargetCalls ==
  ASSUME CallOK, VardiffRecordShare
  PROVE  /\ Step("reader") = "retarget" /\ call["reader"].by = "midblock" /\ retarget' = FALSE
         /\ \/ Becomes("reader", "nobody", "idle") /\ vardiff' = vardiff
            \/ /\ Becomes("reader", "midblock", Delivery) /\ retarget
               /\ call'["reader"].diff = vardiff' /\ vardiff' \in Diffs
<1>1. ~Idle("reader") /\ Step("reader") = "retarget" /\ call["reader"].by = "midblock" /\ config' = config
  BY StepsOK, ThreadsDiffer DEF VardiffRecordShare, At, Step, StepOK, boundVars
<1>2. CASE StepDone("reader") /\ vardiff' = vardiff
  BY <1>1, <1>2, StepDoneGoesOn, ThreadsDiffer DEF GoesOn, Becomes, After, VardiffRecordShare
<1>3. ASSUME retarget, NEW d \in Diffs, vardiff' = d,
             call' = [call EXCEPT !["reader"].diff = d, !["reader"].todo = <<Delivery>>]
      PROVE  Becomes("reader", "midblock", Delivery) /\ call'["reader"].diff = d
  <2> DEFINE l == <<Delivery>>
  <2>1. l # <<>> /\ Head(l) = Delivery /\ Fits("reader", call["reader"].by, l)
    BY <1>1, Ones DEF Fits, MidblockLists, Delivery
  <2>2. call' = [call EXCEPT !["reader"] = [call["reader"] EXCEPT !.diff = d, !.todo = l]]
    BY <1>3, ThreadsDiffer DEF CallOK
  <2> HIDE DEF l
  <2>3. "reader" \in Threads
    BY ThreadsDiffer
  <2>4. Becomes("reader", call["reader"].by, Head(l)) /\ call'["reader"].diff = d
    BY <1>1, <2>1, <2>2, <2>3, ListBecomes
  <2> QED
    BY <1>1, <2>1, <2>4
<1>4. \/ StepDone("reader") /\ vardiff' = vardiff
      \/ retarget /\ \E d \in Diffs : vardiff' = d /\ call' = [call EXCEPT !["reader"].diff = d, !["reader"].todo = <<Delivery>>]
  BY DEF VardiffRecordShare
<1>5. retarget' = FALSE
  BY DEF VardiffRecordShare
<1> QED
  BY <1>1, <1>2, <1>3, <1>4, <1>5

LEMMA QueueCalls ==
  ASSUME CallOK, QueueDifficulty
  PROVE  /\ Step("reader") = "queue" /\ call["reader"].by = "midblock" /\ config.onNewBlock
         /\ Becomes("reader", "nobody", "idle")
<1>1. ~Idle("reader") /\ Step("reader") = "queue" /\ call["reader"].by = "midblock" /\ config.onNewBlock /\ config' = config
  BY StepsOK, ThreadsDiffer DEF QueueDifficulty, At, Step, StepOK, Delivery, boundVars
<1>2. StepDone("reader")
  BY DEF QueueDifficulty
<1> QED
  BY <1>1, <1>2, StepDoneGoesOn, ThreadsDiffer DEF GoesOn, Becomes, After

LEMMA MidblockCalls ==
  ASSUME CallOK, SendMidBlockDifficulty
  PROVE  /\ Step("reader") = "midblock" /\ call["reader"].by = "midblock" /\ ~config.onNewBlock
         /\ Becomes("reader", "midblock", "tell") /\ call'["reader"].diff = call["reader"].diff
<1>1. ~Idle("reader") /\ Step("reader") = "midblock" /\ call["reader"].by = "midblock" /\ ~config.onNewBlock /\ config' = config
  BY StepsOK, ThreadsDiffer DEF SendMidBlockDifficulty, At, Step, StepOK, Delivery, boundVars
<1> DEFINE l == <<"tell", "reset", "notify">>
<1>2. l # <<>> /\ Head(l) = "tell" /\ Fits("reader", "midblock", l)
  BY <1>1, Longs DEF Fits, MidblockLists
<1> HIDE DEF l
<1>3. call' = [call EXCEPT !["reader"] = [call["reader"] EXCEPT !.diff = call["reader"].diff, !.todo = l]]
  <2>1. call' = [call EXCEPT !["reader"].todo = l]
    BY DEF SendMidBlockDifficulty, l
  <2> QED
    BY <2>1, ThreadsDiffer DEF CallOK, Done
<1> QED
  BY <1>1, <1>2, <1>3, ListBecomes, ThreadsDiffer

LEMMA SendCalls ==
  ASSUME CallOK, NEW b \in Broadcasters, SendJob(b)
  PROVE  /\ Step(b) = "send" /\ call[b].by = "broadcast"
         /\ IF state # "authorized" THEN Becomes(b, "nobody", "idle")
            ELSE /\ IF FlushesPending(b) THEN Becomes(b, "broadcast", "tell") /\ call'[b].diff = pendingDiff
                    ELSE Becomes(b, "broadcast", "record")
                 /\ call'[b].job = call[b].job /\ call'[b].clean = call[b].clean
<1>1. ~Idle(b) /\ Step(b) = "send" /\ call[b].by = "broadcast" /\ config' = config /\ b \in Threads
  BY StepsOK, ThreadsDiffer DEF SendJob, At, Step, StepOK, Delivery, boundVars
<1>2. CASE state # "authorized"
  <2>1. StepDone(b)
    BY <1>2 DEF SendJob
  <2>2. Becomes(b, "nobody", "idle")
    BY <1>1, <2>1, StepDoneGoesOn DEF GoesOn, Becomes, After
  <2> QED
    BY <1>1, <1>2, <2>2
<1>3. CASE state = "authorized" /\ FlushesPending(b)
  <2> DEFINE l == <<"tell", "reset", "record", "notify">>
  <2>1. l # <<>> /\ Head(l) = "tell" /\ Fits(b, "broadcast", l)
    BY <1>1, Longs DEF Fits, BroadcastLists
  <2> HIDE DEF l
  <2>2. call' = [call EXCEPT ![b] = [call[b] EXCEPT !.diff = pendingDiff, !.todo = l]]
    <3>1. call' = [call EXCEPT ![b].diff = pendingDiff, ![b].todo = l]
      BY <1>3 DEF SendJob, l
    <3> QED
      BY <1>1, <3>1 DEF CallOK
  <2>3. Becomes(b, call[b].by, Head(l)) /\ call'[b].diff = pendingDiff /\ call'[b].job = call[b].job /\ call'[b].clean = call[b].clean
    BY <1>1, <2>1, <2>2, ListBecomes
  <2> QED
    BY <1>1, <1>3, <2>1, <2>3
<1>4. CASE state = "authorized" /\ ~FlushesPending(b)
  <2> DEFINE l == <<"record", "notify">>
  <2>1. l # <<>> /\ Head(l) = "record" /\ Fits(b, "broadcast", l)
    BY <1>1, Twos DEF Fits, BroadcastLists
  <2> HIDE DEF l
  <2>2. call' = [call EXCEPT ![b] = [call[b] EXCEPT !.diff = call[b].diff, !.todo = l]]
    <3>1. call' = [call EXCEPT ![b].todo = l]
      BY <1>4 DEF SendJob, l
    <3> QED
      BY <1>1, <3>1 DEF CallOK, Done
  <2>3. Becomes(b, call[b].by, Head(l)) /\ call'[b].job = call[b].job /\ call'[b].clean = call[b].clean
    BY <1>1, <2>1, <2>2, ListBecomes
  <2> QED
    BY <1>1, <1>4, <2>1, <2>3
<1> QED
  BY <1>2, <1>3, <1>4

\* SendDifficulty, ResetWindow, RecordJobDifficulty and SendNotify.
LEMMA CommonCalls ==
  ASSUME CallOK, NEW t \in Threads, Common(t)
  PROVE  /\ GoesOn(t) /\ ~Idle(t)
         /\ \/ SendDifficulty(t) /\ Step(t) = "tell"
            \/ ResetWindow(t) /\ Step(t) = "reset"
            \/ RecordJobDifficulty(t) /\ Step(t) = "record" /\ t \in Broadcasters
            \/ SendNotify(t) /\ Step(t) = "notify"
<1>1. /\ ~Idle(t) /\ StepDone(t) /\ config' = config
      /\ \/ SendDifficulty(t) /\ Step(t) = "tell"
         \/ ResetWindow(t) /\ Step(t) = "reset"
         \/ RecordJobDifficulty(t) /\ Step(t) = "record"
         \/ SendNotify(t) /\ Step(t) = "notify"
  BY DEF Common, SendDifficulty, ResetWindow, RecordJobDifficulty, SendNotify, At, Step, boundVars
<1>2. Step(t) = "record" => t \in Broadcasters
  BY StepsOK DEF StepOK, Delivery
<1> QED
  BY <1>1, <1>2, StepDoneGoesOn

\* The difficulties are ones vardiff's bounds allow.
FieldsOK ==
  /\ config \in Configs
  /\ state \in {"connected", "subscribed", "authorized"}
  /\ difficulty \in Diffs /\ vardiff \in Diffs
  /\ {prevDiff, pendingDiff, told, before} \subseteq Diffs \cup {0}
  /\ recent \in BOOLEAN /\ retarget \in BOOLEAN
  /\ authorizes \in Nat /\ storedDiff \in StoredDiffs
  /\ \A t \in Threads : Step(t) \in {"tell", "reset", "queue", "midblock"} => call[t].diff \in Diffs

LEMMA CommonFields ==
  ASSUME CallOK, FieldsOK, NEW t \in Threads, Common(t)
  PROVE  CallOK' /\ FieldsOK'
<1>1. /\ GoesOn(t)
      /\ \/ SendDifficulty(t) /\ Step(t) = "tell"
         \/ ResetWindow(t) /\ Step(t) = "reset"
         \/ RecordJobDifficulty(t) /\ Step(t) = "record"
         \/ SendNotify(t) /\ Step(t) = "notify"
  BY CommonCalls
<1>2. CallOK'
  BY <1>1 DEF GoesOn, Moves
<1>3. ASSUME NEW u \in Threads, Step(u)' \in {"tell", "reset", "queue", "midblock"} PROVE call'[u].diff \in Diffs
  <2>1. CASE u = t
    <3>1. Step(t)' = After(call[t].by, Step(t)) /\ call'[t].diff = call[t].diff
      BY <1>1, <1>3, <2>1 DEF GoesOn
    <3>2. Step(t) \in {"tell", "reset"}
      BY <1>1, <1>3, <2>1, <3>1 DEF After
    <3> QED
      BY <2>1, <3>1, <3>2 DEF FieldsOK
  <2>2. CASE u # t
    BY <1>1, <1>3, <2>2, StepStays DEF GoesOn, Moves, FieldsOK
  <2> QED
    BY <2>1, <2>2
<1>4. call[t].diff \in Diffs \/ Step(t) \notin {"tell", "reset"}
  BY DEF FieldsOK
<1>5. CASE SendDifficulty(t) /\ Step(t) = "tell"
  BY <1>2, <1>3, <1>4, <1>5 DEF FieldsOK, SendDifficulty, fieldVars, vardiffVars, boundVars
<1>6. CASE ResetWindow(t) /\ Step(t) = "reset"
  BY <1>2, <1>3, <1>4, <1>6 DEF FieldsOK, ResetWindow, SetWindow, fieldVars, minerVars, boundVars
<1>7. CASE RecordJobDifficulty(t) \/ SendNotify(t)
  BY <1>2, <1>3, <1>7 DEF FieldsOK, RecordJobDifficulty, SendNotify, fieldVars, vardiffVars, minerVars, boundVars
<1> QED
  BY <1>1, <1>5, <1>6, <1>7

\* An action of thread t, whose new step is given.
LEMMA StepFields ==
  ASSUME FieldsOK, NEW t \in Threads, OthersStay(t), Step(t)' \in {"tell", "reset", "queue", "midblock"} => call'[t].diff \in Diffs
  PROVE  \A u \in Threads : Step(u)' \in {"tell", "reset", "queue", "midblock"} => call'[u].diff \in Diffs
BY StepStays DEF FieldsOK


LEMMA SessionFields ==
  ASSUME CallOK, FieldsOK, [SessionNext]_sessionVars
  PROVE  CallOK' /\ FieldsOK'
<1> USE SessionAssumption
<1>1. CASE UNCHANGED <<config, state, fieldVars, pendingDiff, vardiffVars, told, before, call, authorizes, storedDiff>>
  BY <1>1, CallStays DEF FieldsOK, fieldVars, vardiffVars
<1>2. CASE Subscribe
  <2>1. call' = call /\ config' = config
    BY <1>2 DEF Subscribe, boundVars
  <2>2. CallOK' /\ \A t \in Threads : Step(t)' = Step(t)
    BY <2>1, CallStays
  <2> QED
    BY <1>2, <2>1, <2>2 DEF FieldsOK, Subscribe, fieldVars, vardiffVars, minerVars, boundVars
<1>3. CASE StartHook
  <2>1. CallOK' /\ \A t \in Threads : Step(t)' \notin {"idle", "restore"} => Step(t)' = Step(t) /\ call'[t] = call[t]
    BY <1>3, StartHookCalls, ThreadsDiffer
  <2> QED
    BY <1>3, <2>1 DEF FieldsOK, StartHook, fieldVars, vardiffVars, minerVars, boundVars
<1>4. CASE SetInitialDifficulty
  <2>1. /\ Moves("hook") /\ storedDiff \in Diffs \cup {0}
        /\ Step("hook")' \in {"tell", "reset", "queue", "midblock"} => call'["hook"].diff \in Diffs
    BY <1>4, RestoreCalls DEF Becomes, FieldsOK
  <2>2. \A u \in Threads : Step(u)' \in {"tell", "reset", "queue", "midblock"} => call'[u].diff \in Diffs
    BY <2>1, StepFields, ThreadsDiffer DEF Moves
  <2> QED
    BY <1>4, <2>1, <2>2 DEF FieldsOK, Moves, SetInitialDifficulty, ChangeDifficulty, fieldVars, vardiffVars, minerVars, boundVars
<1>5. CASE Submit
  <2>1. Moves("reader") /\ Step("reader")' = "retarget"
    BY <1>5, SubmitCalls DEF Becomes
  <2>2. \A u \in Threads : Step(u)' \in {"tell", "reset", "queue", "midblock"} => call'[u].diff \in Diffs
    BY <2>1, StepFields, ThreadsDiffer DEF Moves
  <2> QED
    BY <1>5, <2>1, <2>2 DEF FieldsOK, Moves, Submit, fieldVars, vardiffVars, minerVars, boundVars
<1>6. CASE VardiffRecordShare
  <2>1. /\ Moves("reader") /\ vardiff' \in Diffs /\ retarget' = FALSE
        /\ Step("reader")' \in {"tell", "reset", "queue", "midblock"} => call'["reader"].diff \in Diffs
    BY <1>6, RetargetCalls DEF Becomes, FieldsOK
  <2>2. \A u \in Threads : Step(u)' \in {"tell", "reset", "queue", "midblock"} => call'[u].diff \in Diffs
    BY <2>1, StepFields, ThreadsDiffer DEF Moves
  <2> QED
    BY <1>6, <2>1, <2>2 DEF FieldsOK, Moves, VardiffRecordShare, fieldVars, minerVars, boundVars
<1>7. CASE QueueDifficulty
  <2>1. Moves("reader") /\ Step("reader")' = "idle" /\ call["reader"].diff \in Diffs
    BY <1>7, QueueCalls, ThreadsDiffer DEF Becomes, FieldsOK
  <2>2. \A u \in Threads : Step(u)' \in {"tell", "reset", "queue", "midblock"} => call'[u].diff \in Diffs
    BY <2>1, StepFields, ThreadsDiffer DEF Moves
  <2> QED
    BY <1>7, <2>1, <2>2 DEF FieldsOK, Moves, QueueDifficulty, fieldVars, vardiffVars, minerVars, boundVars
<1>8. CASE SendMidBlockDifficulty
  <2>1. Moves("reader") /\ Step("reader")' = "tell" /\ call'["reader"].diff \in Diffs /\ call["reader"].diff \in Diffs
    BY <1>8, MidblockCalls, ThreadsDiffer DEF Becomes, FieldsOK
  <2>2. \A u \in Threads : Step(u)' \in {"tell", "reset", "queue", "midblock"} => call'[u].diff \in Diffs
    BY <2>1, StepFields, ThreadsDiffer DEF Moves
  <2> QED
    BY <1>8, <2>1, <2>2 DEF FieldsOK, Moves, SendMidBlockDifficulty, ChangeDifficulty, vardiffVars, minerVars, boundVars
<1>9. ASSUME NEW p \in Passwords, Authorize(p) PROVE CallOK' /\ FieldsOK'
  <2>1. Moves("reader") /\ call'["reader"].diff = difficulty'
    BY <1>9, AuthorizeCalls DEF Becomes
  <2>2. difficulty' \in Diffs /\ vardiff' \in Diffs /\ prevDiff' \in Diffs \cup {0} /\ recent' \in BOOLEAN /\ retarget' \in BOOLEAN
    BY <1>9 DEF FieldsOK, Authorize, ChangeDifficulty, SetWindow, fieldVars, vardiffVars
  <2>3. \A u \in Threads : Step(u)' \in {"tell", "reset", "queue", "midblock"} => call'[u].diff \in Diffs
    BY <2>1, <2>2, StepFields, ThreadsDiffer DEF Moves
  <2> QED
    BY <1>9, <2>1, <2>2, <2>3 DEF FieldsOK, Moves, Authorize, minerVars
<1>10. ASSUME NEW p \in Passwords, AuthorizeRejected(p) PROVE CallOK' /\ FieldsOK'
  <2>1. CallOK' /\ call' = call /\ \A t \in Threads : Step(t)' = Step(t)
    BY <1>10, CallStays DEF AuthorizeRejected
  <2>2. difficulty' \in Diffs /\ vardiff' \in Diffs /\ prevDiff' \in Diffs \cup {0} /\ recent' \in BOOLEAN /\ retarget' \in BOOLEAN
    BY <1>10 DEF FieldsOK, AuthorizeRejected, ChangeDifficulty, SetWindow
  <2> QED
    BY <1>10, <2>1, <2>2 DEF FieldsOK, AuthorizeRejected, minerVars
<1>11. ASSUME NEW d \in Diffs, SuggestDifficulty(d) PROVE CallOK' /\ FieldsOK'
  <2>1. Moves("reader") /\ call'["reader"].diff = d
    BY <1>11, SuggestCalls DEF Becomes
  <2>2. \A u \in Threads : Step(u)' \in {"tell", "reset", "queue", "midblock"} => call'[u].diff \in Diffs
    BY <2>1, StepFields, ThreadsDiffer DEF Moves
  <2> QED
    BY <1>11, <2>1, <2>2 DEF FieldsOK, Moves, SuggestDifficulty, ChangeDifficulty, vardiffVars, minerVars
<1>12. ASSUME NEW b \in Broadcasters, SendJob(b) PROVE CallOK' /\ FieldsOK'
  <2>1. /\ Moves(b) /\ (FlushesPending(b) => pendingDiff \in Diffs)
        /\ Step(b)' \in {"tell", "reset", "queue", "midblock"} => call'[b].diff \in Diffs
    BY <1>12, SendCalls DEF Becomes, FieldsOK, FlushesPending
  <2>2. \A u \in Threads : Step(u)' \in {"tell", "reset", "queue", "midblock"} => call'[u].diff \in Diffs
    BY <2>1, StepFields, ThreadsDiffer DEF Moves
  <2> QED
    BY <1>12, <2>1, <2>2 DEF FieldsOK, Moves, SendJob, ChangeDifficulty, fieldVars, vardiffVars, minerVars, boundVars
<1>13. ASSUME NEW b \in Broadcasters, NEW clean \in BOOLEAN, NewJob(b, clean) PROVE CallOK' /\ FieldsOK'
  <2>1. Moves(b) /\ Step(b)' = "send"
    BY <1>13, NewJobCalls DEF Becomes
  <2>2. \A u \in Threads : Step(u)' \in {"tell", "reset", "queue", "midblock"} => call'[u].diff \in Diffs
    BY <2>1, StepFields, ThreadsDiffer DEF Moves
  <2> QED
    BY <1>13, <2>1, <2>2 DEF FieldsOK, Moves, NewJob, fieldVars, vardiffVars, minerVars, boundVars
<1>14. CASE MomentsPass \/ RetargetDue
  <2>1. CallOK' /\ \A t \in Threads : Step(t)' = Step(t) /\ call'[t] = call[t]
    BY <1>14, CallStays DEF MomentsPass, RetargetDue, boundVars
  <2> QED
    BY <1>14, <2>1 DEF FieldsOK, MomentsPass, RetargetDue, fieldVars, vardiffVars, minerVars, boundVars
<1> QED
  BY <1>1, <1>2, <1>3, <1>4, <1>5, <1>6, <1>7, <1>8, <1>9, <1>10, <1>11, <1>12, <1>13, <1>14, CommonFields
     DEF SessionNext, sessionVars, minerVars, boundVars

\* A thread still has to give vardiff a new difficulty, or the miner one, or may change it.
Resets(t) == Step(t) = "reset" \/ (Step(t) = "tell" /\ call[t].by \in {"midblock", "broadcast"})
Tells(t) == Step(t) = "tell" \/ (Step(t) = "reset" /\ call[t].by \in {"suggest", "hook"})
Changes(t) ==
  call[t].by = "authorize" \/ Step(t) \in {"tell", "reset", "restore", "retarget", "queue", "midblock"}

NoOther(t) == \A u \in Threads : u # t => ~Changes(u)

\* One thread at a time is changing the difficulty, none while a change waits for the
\* next block, and before the first mining.authorize only a reader that was asked to.
ChangeInv ==
  /\ \A t \in Threads : Changes(t) => NoOther(t)
  /\ pendingDiff > 0 => \A t \in Threads : ~Changes(t)
  /\ retarget => pendingDiff = 0 /\ authorizes > 0 /\ NoOther("reader") /\ call["reader"].by # "authorize" /\ Step("reader") # "queue"
  /\ config.acceptSuggest => pendingDiff = 0 /\ NoOther("reader")
  /\ call["reader"].by = "suggest" => config.acceptSuggest
  /\ authorizes = 0 =>
       /\ state # "authorized" /\ pendingDiff = 0
       /\ call["reader"].by \in {"nobody", "suggest"} /\ NoOther("reader")
       /\ told # 0 => config.acceptSuggest

\* What is still to come of a change: a thread that will tell the miner or reset vardiff
\* holds the session's difficulty, and one that only retargeted vardiff's own.
StepInv ==
  /\ \A t \in Threads : Tells(t) \/ Resets(t) => call[t].diff = difficulty
  /\ Step("reader") \in {"queue", "midblock"} => call["reader"].diff = vardiff
  /\ Step("reader") \notin {"queue", "midblock"} /\ (\A t \in Threads : ~Resets(t)) =>
       vardiff = IF pendingDiff > 0 THEN pendingDiff ELSE difficulty
  /\ (\A t \in Threads : ~Tells(t)) => told = difficulty \/ (authorizes = 0 /\ told = 0)

InStep == CallOK /\ FieldsOK /\ OneChanger /\ ChangeInv /\ StepInv

LEMMA OneChangerBefore ==
  ASSUME FieldsOK, SessionNext, OneChanger'
  PROVE  OneChanger /\ config' = config
<1>1. config' = config
  BY DEF SessionNext, Subscribe, StartHook, SetInitialDifficulty, Submit, VardiffRecordShare, QueueDifficulty,
         SendMidBlockDifficulty, Authorize, AuthorizeRejected, SuggestDifficulty, SendJob, NewJob, Common, SendDifficulty,
         ResetWindow, RecordJobDifficulty, SendNotify, MomentsPass, RetargetDue, boundVars
<1>2. authorizes' = authorizes \/ (authorizes' = authorizes + 1)
  BY DEF SessionNext, Subscribe, StartHook, SetInitialDifficulty, Submit, VardiffRecordShare, QueueDifficulty,
         SendMidBlockDifficulty, Authorize, AuthorizeRejected, SuggestDifficulty, SendJob, NewJob, Common, SendDifficulty,
         ResetWindow, RecordJobDifficulty, SendNotify, MomentsPass, RetargetDue, boundVars
<1> QED
  BY <1>1, <1>2 DEF OneChanger, FieldsOK

\* The threads that do not move are as they were.
LEMMA OthersSame ==
  ASSUME NEW t, OthersStay(t), NEW u \in Threads, u # t
  PROVE  /\ Changes(u)' = Changes(u) /\ Tells(u)' = Tells(u) /\ Resets(u)' = Resets(u)
         /\ call'[u] = call[u] /\ Step(u)' = Step(u)
<1>1. call'[u] = call[u] /\ Step(u)' = Step(u)
  BY StepStays
<1>2. Changes(u)' = Changes(u)
  BY <1>1 DEF Changes
<1>3. Tells(u)' = Tells(u)
  BY <1>1 DEF Tells
<1>4. Resets(u)' = Resets(u)
  BY <1>1 DEF Resets
<1> QED
  BY <1>1, <1>2, <1>3, <1>4

LEMMA StepKinds ==
  \A t \in Threads : Tells(t) \/ Resets(t) => Changes(t)
BY DEF Tells, Resets, Changes

\* ChangeInv and StepInv where no thread but t is changing the difficulty.
AloneChange(t) ==
  /\ pendingDiff > 0 => ~Changes(t)
  /\ retarget => pendingDiff = 0 /\ authorizes > 0 /\ (t = "reader" \/ ~Changes(t)) /\ call["reader"].by # "authorize" /\ Step("reader") # "queue"
  /\ config.acceptSuggest => pendingDiff = 0 /\ (t = "reader" \/ ~Changes(t))
  /\ call["reader"].by = "suggest" => config.acceptSuggest
  /\ authorizes = 0 =>
       /\ state # "authorized" /\ pendingDiff = 0
       /\ call["reader"].by \in {"nobody", "suggest"} /\ (t = "reader" \/ ~Changes(t))
       /\ told # 0 => config.acceptSuggest

AloneStep(t) ==
  /\ Tells(t) \/ Resets(t) => call[t].diff = difficulty
  /\ Step("reader") \in {"queue", "midblock"} => call["reader"].diff = vardiff
  /\ Step("reader") \notin {"queue", "midblock"} /\ ~Resets(t) => vardiff = IF pendingDiff > 0 THEN pendingDiff ELSE difficulty
  /\ ~Tells(t) => told = difficulty \/ (authorizes = 0 /\ told = 0)

LEMMA AloneOK ==
  ASSUME NEW t \in Threads, NoOther(t)', AloneChange(t)', AloneStep(t)'
  PROVE  ChangeInv' /\ StepInv'
<1>1. \A u \in Threads : u # t => ~Changes(u)'
  BY DEF NoOther
<1>2. \A u \in Threads : u # t => ~Tells(u)' /\ ~Resets(u)'
  BY <1>1 DEF Tells, Resets, Changes
<1>3. ChangeInv'
  BY <1>1, ThreadsDiffer DEF ChangeInv, AloneChange, NoOther
<1>4. StepInv'
  BY <1>2 DEF StepInv, AloneStep
<1> QED
  BY <1>3, <1>4

\* The same before the step.
LEMMA OneAlone ==
  ASSUME InStep, NEW t \in Threads, Changes(t) \/ NoOther(t)
  PROVE  NoOther(t) /\ AloneChange(t) /\ AloneStep(t)
<1>1. NoOther(t)
  BY DEF InStep, ChangeInv
<1>2. \A u \in Threads : u # t => ~Tells(u) /\ ~Resets(u)
  BY <1>1 DEF NoOther, Tells, Resets, Changes
<1>3. AloneChange(t)
  BY <1>1, ThreadsDiffer DEF InStep, ChangeInv, AloneChange, NoOther
<1>4. AloneStep(t)
  BY <1>2 DEF InStep, StepInv, AloneStep
<1> QED
  BY <1>1, <1>3, <1>4

LEMMA NoOtherStays ==
  ASSUME NEW t \in Threads, OthersStay(t), NoOther(t) PROVE NoOther(t)'
BY OthersSame DEF NoOther

\* A step that is no part of a change.
LEMMA QuietStep ==
  ASSUME InStep, config' = config, NEW t \in Threads, OthersStay(t), ~Tells(t), ~Resets(t), ~Tells(t)', ~Resets(t)',
         Changes(t)' => Changes(t),
         t = "reader" => /\ Step("reader") \notin {"queue", "midblock"} /\ Step("reader")' \notin {"queue", "midblock"}
                         /\ call'["reader"].by \in {"nobody", call["reader"].by},
         UNCHANGED <<difficulty, vardiff, pendingDiff, told, authorizes, state>>, retarget' => retarget
  PROVE  ChangeInv' /\ StepInv'
<1>1. \A u \in Threads : u # t => /\ (Changes(u)' <=> Changes(u)) /\ (Tells(u)' <=> Tells(u)) /\ (Resets(u)' <=> Resets(u))
                                /\ call'[u] = call[u] /\ Step(u)' = Step(u)
  BY OthersSame
<1>2. \A u \in Threads : (Changes(u)' => Changes(u)) /\ (Tells(u)' <=> Tells(u)) /\ (Resets(u)' <=> Resets(u))
  BY <1>1
<1>3. ChangeInv'
  BY <1>1, <1>2, ThreadsDiffer DEF InStep, ChangeInv, NoOther
<1>4. StepInv'
  BY <1>1, <1>2, ThreadsDiffer DEF InStep, StepInv
<1> QED
  BY <1>3, <1>4

\* Each action keeps both.
LEMMA TellInStep ==
  ASSUME InStep, CallOK', NEW t \in Threads, Common(t), SendDifficulty(t)
  PROVE  ChangeInv' /\ StepInv'
<1>1. GoesOn(t) /\ Step(t) = "tell" /\ OthersStay(t)
  BY CommonCalls DEF InStep, GoesOn, Moves, SendDifficulty, At, Step
<1>2. StepOK(t) /\ Changes(t) /\ Tells(t)
  BY <1>1, StepsOK DEF InStep, Changes, Tells
<1>3. NoOther(t) /\ AloneChange(t) /\ AloneStep(t)
  BY <1>2, OneAlone
<1>4. NoOther(t)'
  BY <1>1, <1>3, NoOtherStays
<1>5. UNCHANGED <<state, config, difficulty, pendingDiff, vardiff, retarget, authorizes>> /\ told' = call[t].diff /\ call[t].diff = difficulty
  BY <1>2, <1>3 DEF SendDifficulty, AloneStep, fieldVars, vardiffVars, boundVars
<1>6. t # "reader" => call'["reader"] = call["reader"] /\ Step("reader")' = Step("reader") /\ Step("reader") \notin {"queue", "midblock"}
  BY <1>1, <1>3, StepStays, ThreadsDiffer DEF NoOther, Changes
<1>7. \/ call[t].by = "authorize" /\ Step(t)' = "notify" /\ call'[t].by = "authorize" /\ t = "reader"
      \/ call[t].by \in {"midblock", "broadcast"} /\ Step(t)' = "reset" /\ call'[t].by = call[t].by /\ call'[t].diff = call[t].diff
      \/ call[t].by \in {"suggest", "hook"} /\ Step(t)' = "idle" /\ call'[t].by = "nobody"
  BY <1>1, <1>2, ThreadsDiffer DEF GoesOn, After, StepOK
<1>8. /\ Changes(t)' => Changes(t)
      /\ Resets(t)' <=> Resets(t)
      /\ ~Tells(t)'
  BY <1>1, <1>2, <1>7 DEF Changes, Resets, Tells
<1>9. AloneChange(t)'
  <2>1. call'["reader"].by \in {"nobody", call["reader"].by} /\ (Step("reader")' = "queue" => Step("reader") = "queue")
    BY <1>6, <1>7
  <2>2. authorizes = 0 => config.acceptSuggest
    BY <1>1, <1>3, <1>7, <1>2 DEF AloneChange
  <2> QED
    BY <1>3, <1>5, <1>8, <2>1, <2>2 DEF AloneChange
<1>10. AloneStep(t)'
  BY <1>1, <1>3, <1>5, <1>6, <1>7, <1>8 DEF AloneStep, Resets, Tells
<1> QED
  BY <1>4, <1>9, <1>10, AloneOK

LEMMA ResetInStep ==
  ASSUME InStep, CallOK', NEW t \in Threads, Common(t), ResetWindow(t)
  PROVE  ChangeInv' /\ StepInv'
<1>1. GoesOn(t) /\ Step(t) = "reset" /\ OthersStay(t)
  BY CommonCalls DEF InStep, GoesOn, Moves, ResetWindow, At, Step
<1>2. StepOK(t) /\ Changes(t) /\ Resets(t)
  BY <1>1, StepsOK DEF InStep, Changes, Resets
<1>3. NoOther(t) /\ AloneChange(t) /\ AloneStep(t)
  BY <1>2, OneAlone
<1>4. NoOther(t)'
  BY <1>1, <1>3, NoOtherStays
<1>5. /\ UNCHANGED <<state, config, difficulty, pendingDiff, told, authorizes>> /\ vardiff' = call[t].diff /\ retarget' = FALSE
      /\ call[t].diff = difficulty /\ ~(pendingDiff > 0)
  BY <1>2, <1>3 DEF ResetWindow, SetWindow, AloneStep, AloneChange, fieldVars, minerVars, boundVars
<1>6. t # "reader" => call'["reader"] = call["reader"] /\ Step("reader")' = Step("reader") /\ Step("reader") \notin {"queue", "midblock"}
  BY <1>1, <1>3, StepStays, ThreadsDiffer DEF NoOther, Changes
<1>7. \/ call[t].by \in {"suggest", "hook"} /\ Step(t)' = "tell" /\ call'[t].by = call[t].by /\ call'[t].diff = call[t].diff
      \/ call[t].by = "midblock" /\ Step(t)' = "notify" /\ call'[t].by = "midblock"
      \/ call[t].by = "broadcast" /\ Step(t)' = "record" /\ call'[t].by = "broadcast"
  BY <1>1, <1>2, ThreadsDiffer DEF GoesOn, After, StepOK, Delivery
<1>8. /\ Changes(t)' => Changes(t)
      /\ Tells(t)' <=> Tells(t)
      /\ ~Resets(t)'
  BY <1>1, <1>2, <1>7 DEF Changes, Resets, Tells
<1>9. AloneChange(t)'
  <2>1. call'["reader"].by = call["reader"].by
    BY <1>6, <1>7
  <2> QED
    BY <1>3, <1>5, <1>8, <2>1 DEF AloneChange
<1>10. AloneStep(t)'
  BY <1>1, <1>3, <1>5, <1>6, <1>7, <1>8 DEF AloneStep, Resets, Tells
<1> QED
  BY <1>4, <1>9, <1>10, AloneOK

LEMMA NotifyInStep ==
  ASSUME InStep, CallOK', NEW t \in Threads, Common(t), RecordJobDifficulty(t) \/ SendNotify(t)
  PROVE  ChangeInv' /\ StepInv'
<1>1. GoesOn(t) /\ OthersStay(t) /\ (Step(t) = "notify" \/ (Step(t) = "record" /\ t \in Broadcasters))
  BY CommonCalls DEF InStep, GoesOn, Moves, RecordJobDifficulty, SendNotify, At, Step
<1>2. StepOK(t)
  BY StepsOK DEF InStep
<1>3. \/ Step(t)' = "hook" /\ call[t].by = "authorize" /\ call'[t].by = call[t].by
      \/ Step(t)' = "notify" /\ t \in Broadcasters /\ call[t].by = "broadcast" /\ call'[t].by = "broadcast"
      \/ Step(t)' = "idle" /\ call'[t].by = "nobody"
  BY <1>1, <1>2, ThreadsDiffer DEF GoesOn, After, StepOK, Delivery
<1>4. ~Tells(t) /\ ~Resets(t) /\ ~Tells(t)' /\ ~Resets(t)' /\ (Changes(t)' => Changes(t))
  BY <1>1, <1>3 DEF Tells, Resets, Changes
<1>5. t = "reader" => /\ Step("reader") \notin {"queue", "midblock"} /\ Step("reader")' \notin {"queue", "midblock"}
                      /\ call'["reader"].by \in {"nobody", call["reader"].by}
  BY <1>1, <1>3
<1>6. UNCHANGED <<difficulty, vardiff, pendingDiff, told, authorizes, state, retarget, config>>
  BY DEF RecordJobDifficulty, SendNotify, fieldVars, vardiffVars, minerVars, boundVars
<1> QED
  BY <1>1, <1>4, <1>5, <1>6, QuietStep

LEMMA AuthorizeInStep ==
  ASSUME InStep, FieldsOK', OneChanger', NEW p \in Passwords, Authorize(p)
  PROVE  ChangeInv' /\ StepInv'
<1>1. Becomes("reader", "authorize", "tell") /\ call'["reader"].diff = difficulty' /\ OthersStay("reader")
  BY AuthorizeCalls DEF InStep, Becomes, Moves
<1>2. authorizes = 0 /\ authorizes' = 1 /\ Step("reader") = "idle" /\ UNCHANGED <<config, pendingDiff, told>>
  BY DEF OneChanger, InStep, FieldsOK, Authorize, ReaderFree, Step, minerVars
<1>3. NoOther("reader") /\ AloneChange("reader") /\ AloneStep("reader")
  <2>1. NoOther("reader")
    BY <1>2 DEF InStep, ChangeInv
  <2> QED
    BY <2>1, OneAlone, ThreadsDiffer
<1>4. NoOther("reader")'
  BY <1>1, <1>3, NoOtherStays, ThreadsDiffer
<1>5. Changes("reader")' /\ Tells("reader")' /\ ~Resets("reader")' /\ ~Resets("reader") /\ Step("reader")' = "tell" /\ call'["reader"].by = "authorize"
  BY <1>1, <1>2 DEF Becomes, Changes, Tells, Resets
<1>6. pendingDiff = 0 /\ ~retarget
  BY <1>2, <1>3 DEF AloneChange
<1>7. ~retarget' /\ vardiff' = difficulty'
  BY <1>2, <1>3, <1>5, <1>6 DEF Authorize, ChangeDifficulty, SetWindow, fieldVars, vardiffVars, AloneStep
<1>8. AloneChange("reader")'
  BY <1>2, <1>5, <1>6, <1>7 DEF AloneChange
<1>9. AloneStep("reader")'
  BY <1>1, <1>2, <1>5, <1>6, <1>7 DEF AloneStep
<1> QED
  BY <1>4, <1>8, <1>9, AloneOK, ThreadsDiffer

LEMMA RejectedInStep ==
  ASSUME InStep, FieldsOK', OneChanger', NEW p \in Passwords, AuthorizeRejected(p)
  PROVE  ChangeInv' /\ StepInv'
<1>1. config' = config /\ call' = call /\ \A t \in Threads : Step(t)' = Step(t)
  BY CallStays DEF AuthorizeRejected, InStep
<1>2. authorizes = 0 /\ authorizes' = 0 /\ Step("reader") = "idle" /\ config.solo /\ UNCHANGED <<config, state, pendingDiff, told>>
  BY DEF OneChanger, InStep, FieldsOK, AuthorizeRejected, ReaderFree, Step, minerVars
<1>3. NoOther("reader") /\ AloneChange("reader") /\ AloneStep("reader")
  <2>1. NoOther("reader")
    BY <1>2 DEF InStep, ChangeInv
  <2> QED
    BY <2>1, OneAlone, ThreadsDiffer
<1>4. NoOther("reader")'
  BY <1>1, <1>3 DEF NoOther, Changes
<1>5. ~Changes("reader") /\ ~Changes("reader")' /\ ~Tells("reader") /\ ~Tells("reader")' /\ ~Resets("reader") /\ ~Resets("reader")'
  BY <1>1, <1>2, <1>3, ThreadsDiffer DEF AloneChange, Changes, Tells, Resets
<1>6. vardiff' = difficulty' /\ ~retarget' /\ pendingDiff = 0
  BY <1>2, <1>3 DEF AuthorizeRejected, ChangeDifficulty, SetWindow, AloneChange
<1>7. told = 0
  BY <1>2, <1>3 DEF AloneChange, InStep, OneChanger
<1>8. AloneChange("reader")'
  BY <1>1, <1>2, <1>3, <1>5, <1>6 DEF AloneChange
<1>9. AloneStep("reader")'
  BY <1>1, <1>2, <1>5, <1>6, <1>7, ThreadsDiffer DEF AloneStep
<1> QED
  BY <1>4, <1>8, <1>9, AloneOK, ThreadsDiffer

LEMMA SuggestInStep ==
  ASSUME InStep, FieldsOK', OneChanger', NEW d \in Diffs, SuggestDifficulty(d)
  PROVE  ChangeInv' /\ StepInv'
<1>1. Becomes("reader", "suggest", "reset") /\ call'["reader"].diff = d /\ OthersStay("reader")
  BY SuggestCalls DEF InStep, Becomes, Moves
<1>2. config.acceptSuggest /\ difficulty' = d /\ UNCHANGED <<config, state, pendingDiff, told, authorizes, retarget, vardiff>>
  BY DEF SuggestDifficulty, ChangeDifficulty, vardiffVars, minerVars
<1>3. NoOther("reader") /\ AloneChange("reader") /\ AloneStep("reader")
  <2>1. NoOther("reader")
    BY <1>2 DEF InStep, ChangeInv
  <2> QED
    BY <2>1, OneAlone, ThreadsDiffer
<1>4. NoOther("reader")'
  BY <1>1, <1>3, NoOtherStays, ThreadsDiffer
<1>5. Tells("reader")' /\ Resets("reader")' /\ Step("reader")' = "reset" /\ call'["reader"].by = "suggest"
  BY <1>1 DEF Becomes, Tells, Resets
<1>6. AloneChange("reader")'
  BY <1>2, <1>3, <1>5 DEF AloneChange
<1>7. AloneStep("reader")'
  BY <1>1, <1>2, <1>5 DEF AloneStep
<1> QED
  BY <1>4, <1>6, <1>7, AloneOK, ThreadsDiffer

LEMMA RestoreInStep ==
  ASSUME InStep, FieldsOK', OneChanger', SetInitialDifficulty
  PROVE  ChangeInv' /\ StepInv'
<1>1. /\ Step("hook") = "restore" /\ call["hook"].by = "hook"
      /\ IF storedDiff = 0 THEN Becomes("hook", "nobody", "idle")
         ELSE Becomes("hook", "hook", "reset") /\ call'["hook"].diff = storedDiff
  BY RestoreCalls DEF InStep
<1>2. OthersStay("hook") /\ "hook" \in Threads /\ "reader" \in Threads /\ "reader" # "hook"
  BY <1>1, ThreadsDiffer DEF Becomes, Moves
<1>3. NoOther("hook") /\ AloneChange("hook") /\ AloneStep("hook")
  BY <1>1, <1>2, OneAlone DEF Changes
<1>4. NoOther("hook")'
  BY <1>2, <1>3, NoOtherStays
<1>5. /\ Step("reader") \notin {"queue", "midblock"} /\ Step("reader")' = Step("reader") /\ call'["reader"] = call["reader"]
      /\ Changes("hook") /\ ~Resets("hook") /\ ~Tells("hook")
  BY <1>1, <1>2, <1>3, StepStays DEF NoOther, Changes, Resets, Tells
<1>6. UNCHANGED <<config, state, pendingDiff, told, authorizes, retarget, vardiff>>
  BY DEF SetInitialDifficulty, vardiffVars, minerVars, boundVars
<1>7. AloneChange("hook")'
  BY <1>3, <1>5, <1>6 DEF AloneChange
<1>8. CASE storedDiff = 0
  <2>1. difficulty' = difficulty
    BY <1>8 DEF SetInitialDifficulty, fieldVars
  <2>2. ~Tells("hook")' /\ ~Resets("hook")'
    BY <1>1, <1>8 DEF Becomes, Tells, Resets
  <2>3. AloneStep("hook")'
    BY <1>3, <1>5, <1>6, <2>1, <2>2 DEF AloneStep
  <2> QED
    BY <1>2, <1>4, <1>7, <2>3, AloneOK
<1>9. CASE storedDiff # 0
  <2>1. difficulty' = storedDiff /\ call'["hook"].diff = storedDiff
    BY <1>1, <1>9 DEF SetInitialDifficulty, ChangeDifficulty
  <2>2. Tells("hook")' /\ Resets("hook")'
    BY <1>1, <1>9 DEF Becomes, Tells, Resets
  <2>3. AloneStep("hook")'
    BY <1>5, <2>1, <2>2 DEF AloneStep
  <2> QED
    BY <1>2, <1>4, <1>7, <2>3, AloneOK
<1> QED
  BY <1>8, <1>9

LEMMA StartHookInStep ==
  ASSUME InStep, CallOK', FieldsOK', StartHook
  PROVE  ChangeInv' /\ StepInv'
<1>1. /\ Step("reader") = "hook" /\ call["reader"].by = "authorize" /\ config.solo /\ Step("hook") = "idle"
      /\ call'["reader"].by = "nobody" /\ Step("reader")' = "idle"
      /\ call'["hook"].by = "hook" /\ Step("hook")' = "restore"
      /\ \A b \in Broadcasters : call'[b] = call[b] /\ Step(b)' = Step(b)
  BY StartHookCalls DEF InStep
<1>2. "hook" \in Threads /\ "reader" \in Threads
  BY ThreadsDiffer
<1>3. NoOther("reader") /\ AloneChange("reader") /\ AloneStep("reader")
  BY <1>1, <1>2, OneAlone DEF Changes
<1>4. NoOther("hook")'
  <2>1. ~Changes("reader")'
    BY <1>1 DEF Changes
  <2>2. \A b \in Broadcasters : ~Changes(b)'
    BY <1>1, <1>3, ThreadsDiffer DEF NoOther, Changes
  <2> QED
    BY <2>1, <2>2, ThreadsDiffer DEF NoOther
<1>5. Changes("reader") /\ ~Tells("reader") /\ ~Resets("reader") /\ ~Tells("hook")' /\ ~Resets("hook")'
  BY <1>1 DEF Changes, Tells, Resets
<1>6. UNCHANGED <<config, state, pendingDiff, told, authorizes, retarget, vardiff, difficulty>>
  BY DEF StartHook, fieldVars, vardiffVars, minerVars, boundVars
<1>7. ~config.acceptSuggest /\ authorizes # 0 /\ ~(pendingDiff > 0) /\ ~retarget
  BY <1>1, <1>3, <1>5 DEF AloneChange, InStep, OneChanger
<1>8. AloneChange("hook")'
  BY <1>1, <1>6, <1>7 DEF AloneChange
<1>9. AloneStep("hook")'
  BY <1>1, <1>3, <1>5, <1>6 DEF AloneStep
<1> QED
  BY <1>2, <1>4, <1>8, <1>9, AloneOK

LEMMA SubmitInStep ==
  ASSUME InStep, Submit
  PROVE  ChangeInv' /\ StepInv'
<1>1. Becomes("reader", "midblock", "retarget") /\ OthersStay("reader") /\ "reader" \in Threads
  BY SubmitCalls, ThreadsDiffer DEF InStep, Becomes, Moves
<1>2. retarget /\ pendingDiff = 0 /\ Step("reader") = "idle"
      /\ UNCHANGED <<config, state, pendingDiff, told, authorizes, retarget, vardiff, difficulty>>
  BY DEF Submit, Step, fieldVars, vardiffVars, minerVars, boundVars
<1>3. NoOther("reader") /\ AloneChange("reader") /\ AloneStep("reader")
  <2>1. NoOther("reader")
    BY <1>2 DEF InStep, ChangeInv
  <2> QED
    BY <1>1, <2>1, OneAlone
<1>4. NoOther("reader")'
  BY <1>1, <1>3, NoOtherStays
<1>5. /\ Step("reader")' = "retarget" /\ call'["reader"].by = "midblock"
      /\ ~Tells("reader") /\ ~Resets("reader") /\ ~Tells("reader")' /\ ~Resets("reader")'
  BY <1>1, <1>2 DEF Becomes, Tells, Resets
<1>6. AloneChange("reader")'
  BY <1>2, <1>3, <1>5 DEF AloneChange
<1>7. AloneStep("reader")'
  BY <1>2, <1>3, <1>5 DEF AloneStep
<1> QED
  BY <1>1, <1>4, <1>6, <1>7, AloneOK

LEMMA RetargetInStep ==
  ASSUME InStep, VardiffRecordShare
  PROVE  ChangeInv' /\ StepInv'
<1>1. /\ Step("reader") = "retarget" /\ call["reader"].by = "midblock" /\ retarget' = FALSE
      /\ \/ Becomes("reader", "nobody", "idle") /\ vardiff' = vardiff
         \/ /\ Becomes("reader", "midblock", Delivery)
            /\ call'["reader"].diff = vardiff'
  BY RetargetCalls DEF InStep
<1>2. OthersStay("reader") /\ "reader" \in Threads
  BY <1>1, ThreadsDiffer DEF Becomes, Moves
<1>3. NoOther("reader") /\ AloneChange("reader") /\ AloneStep("reader") /\ Changes("reader")
  BY <1>1, <1>2, OneAlone DEF Changes
<1>4. NoOther("reader")'
  BY <1>2, <1>3, NoOtherStays
<1>5. UNCHANGED <<config, state, pendingDiff, told, authorizes, difficulty>>
  BY DEF VardiffRecordShare, fieldVars, minerVars, boundVars
<1>6. ~Tells("reader") /\ ~Resets("reader") /\ ~Tells("reader")' /\ ~Resets("reader")'
  BY <1>1 DEF Becomes, Tells, Resets, Delivery
<1>7. authorizes # 0 /\ ~(pendingDiff > 0)
  BY <1>1, <1>3 DEF AloneChange
<1>8. call'["reader"].by \in {"nobody", "midblock"} /\ (Step("reader")' = "idle" \/ Step("reader")' \in {"queue", "midblock"})
  BY <1>1 DEF Becomes, Delivery
<1>9. AloneChange("reader")'
  BY <1>1, <1>3, <1>5, <1>7, <1>8 DEF AloneChange
<1>10. AloneStep("reader")'
  BY <1>1, <1>3, <1>5, <1>6, <1>8 DEF AloneStep, Becomes, Delivery
<1> QED
  BY <1>2, <1>4, <1>9, <1>10, AloneOK

LEMMA QueueInStep ==
  ASSUME InStep, QueueDifficulty
  PROVE  ChangeInv' /\ StepInv'
<1>1. Step("reader") = "queue" /\ call["reader"].by = "midblock" /\ config.onNewBlock /\ Becomes("reader", "nobody", "idle")
  BY QueueCalls DEF InStep
<1>2. OthersStay("reader") /\ "reader" \in Threads
  BY <1>1, ThreadsDiffer DEF Becomes, Moves
<1>3. NoOther("reader") /\ AloneChange("reader") /\ AloneStep("reader")
  BY <1>1, <1>2, OneAlone DEF Changes
<1>4. NoOther("reader")'
  BY <1>2, <1>3, NoOtherStays
<1>5. UNCHANGED <<config, state, told, authorizes, difficulty, vardiff, retarget>> /\ pendingDiff' = vardiff /\ vardiff > 0
  BY <1>1, <1>3, SessionAssumption DEF QueueDifficulty, fieldVars, vardiffVars, minerVars, boundVars, AloneStep, InStep, FieldsOK
<1>6. /\ ~Changes("reader")' /\ ~Tells("reader") /\ ~Tells("reader")' /\ ~Resets("reader")'
      /\ Step("reader")' = "idle" /\ call'["reader"].by = "nobody"
  BY <1>1 DEF Becomes, Changes, Tells, Resets
<1>7. authorizes # 0 /\ ~config.acceptSuggest /\ ~retarget
  BY <1>1, <1>3 DEF AloneChange, InStep, OneChanger
<1>8. AloneChange("reader")'
  BY <1>5, <1>6, <1>7 DEF AloneChange
<1>9. AloneStep("reader")'
  BY <1>3, <1>5, <1>6 DEF AloneStep
<1> QED
  BY <1>2, <1>4, <1>8, <1>9, AloneOK

LEMMA MidblockInStep ==
  ASSUME InStep, SendMidBlockDifficulty
  PROVE  ChangeInv' /\ StepInv'
<1>1. /\ Step("reader") = "midblock" /\ call["reader"].by = "midblock"
      /\ Becomes("reader", "midblock", "tell") /\ call'["reader"].diff = call["reader"].diff
  BY MidblockCalls DEF InStep
<1>2. OthersStay("reader") /\ "reader" \in Threads
  BY <1>1, ThreadsDiffer DEF Becomes, Moves
<1>3. NoOther("reader") /\ AloneChange("reader") /\ AloneStep("reader")
  BY <1>1, <1>2, OneAlone DEF Changes
<1>4. NoOther("reader")'
  BY <1>2, <1>3, NoOtherStays
<1>5. UNCHANGED <<config, state, told, authorizes, vardiff, retarget>> /\ pendingDiff' = 0 /\ difficulty' = call["reader"].diff
  BY DEF SendMidBlockDifficulty, ChangeDifficulty, vardiffVars, minerVars, boundVars
<1>6. Tells("reader")' /\ Resets("reader")' /\ Step("reader")' = "tell" /\ call'["reader"].by = "midblock"
  BY <1>1 DEF Becomes, Tells, Resets
<1>7. authorizes # 0
  BY <1>1, <1>3 DEF AloneChange
<1>8. AloneChange("reader")'
  BY <1>3, <1>5, <1>6, <1>7 DEF AloneChange
<1>9. AloneStep("reader")'
  BY <1>1, <1>5, <1>6 DEF AloneStep
<1> QED
  BY <1>2, <1>4, <1>8, <1>9, AloneOK

LEMMA SendInStep ==
  ASSUME InStep, NEW b \in Broadcasters, SendJob(b)
  PROVE  ChangeInv' /\ StepInv'
<1>1. /\ Step(b) = "send" /\ call[b].by = "broadcast"
      /\ IF state # "authorized" THEN Becomes(b, "nobody", "idle")
         ELSE IF FlushesPending(b) THEN Becomes(b, "broadcast", "tell") /\ call'[b].diff = pendingDiff
              ELSE Becomes(b, "broadcast", "record")
  BY SendCalls DEF InStep
<1>2. OthersStay(b) /\ b \in Threads /\ b # "reader" /\ "reader" \in Threads
  BY <1>1, ThreadsDiffer DEF Becomes, Moves
<1>3. UNCHANGED <<config, state, told, authorizes, vardiff, retarget>>
  BY DEF SendJob, vardiffVars, minerVars, boundVars
<1>4. CASE ~(state = "authorized" /\ FlushesPending(b))
  <2>1. UNCHANGED <<difficulty, pendingDiff>>
    BY <1>4 DEF SendJob, fieldVars
  <2>2. ~Tells(b) /\ ~Resets(b) /\ ~Tells(b)' /\ ~Resets(b)' /\ ~Changes(b)'
    BY <1>1, <1>4 DEF Tells, Resets, Changes, Becomes
  <2> QED
    BY <1>2, <1>3, <2>1, <2>2, QuietStep
<1>5. CASE state = "authorized" /\ FlushesPending(b)
  <2>1. difficulty' = pendingDiff /\ pendingDiff' = 0 /\ pendingDiff > 0
    BY <1>5 DEF SendJob, ChangeDifficulty, FlushesPending
  <2>2. \A t \in Threads : ~Changes(t)
    BY <2>1 DEF InStep, ChangeInv
  <2>3. NoOther(b) /\ AloneChange(b) /\ AloneStep(b) /\ NoOther(b)'
    BY <1>2, <2>2, OneAlone, NoOtherStays DEF NoOther
  <2>4. Tells(b)' /\ Resets(b)' /\ call'[b].diff = pendingDiff
    BY <1>1, <1>5 DEF Becomes, Tells, Resets
  <2>5. call'["reader"] = call["reader"] /\ Step("reader")' = Step("reader") /\ Step("reader") \notin {"queue", "midblock"}
    BY <1>2, <2>2, StepStays DEF Changes
  <2>6. authorizes # 0 /\ ~config.acceptSuggest /\ ~retarget
    BY <2>1, <2>3 DEF AloneChange
  <2>7. AloneChange(b)'
    BY <1>3, <2>1, <2>3, <2>5, <2>6 DEF AloneChange
  <2>8. AloneStep(b)'
    BY <2>1, <2>4, <2>5 DEF AloneStep
  <2> QED
    BY <1>2, <2>3, <2>7, <2>8, AloneOK
<1> QED
  BY <1>4, <1>5

LEMMA NewJobInStep ==
  ASSUME InStep, NEW b \in Broadcasters, NEW clean, NewJob(b, clean)
  PROVE  ChangeInv' /\ StepInv'
<1>1. Becomes(b, "broadcast", "send") /\ Step(b) = "idle"
  BY NewJobCalls DEF InStep, NewJob, Step
<1>2. OthersStay(b) /\ b \in Threads /\ b # "reader"
  BY <1>1, ThreadsDiffer DEF Becomes, Moves
<1>3. UNCHANGED <<difficulty, vardiff, pendingDiff, told, authorizes, state, retarget, config>>
  BY DEF NewJob, fieldVars, vardiffVars, minerVars, boundVars
<1>4. ~Tells(b) /\ ~Resets(b) /\ ~Tells(b)' /\ ~Resets(b)' /\ ~Changes(b)'
  BY <1>1 DEF Becomes, Tells, Resets, Changes
<1> QED
  BY <1>2, <1>3, <1>4, QuietStep

\* Time passes and messages come in between the handlers.
LEMMA IdleInStep ==
  ASSUME InStep, Subscribe \/ MomentsPass \/ RetargetDue
         \/ UNCHANGED <<config, state, fieldVars, pendingDiff, vardiffVars, told, before, call, authorizes, storedDiff>>
  PROVE  ChangeInv' /\ StepInv'
<1>1. UNCHANGED <<config, call, difficulty, vardiff, pendingDiff, told, authorizes>>
  BY DEF Subscribe, MomentsPass, RetargetDue, fieldVars, vardiffVars, minerVars, boundVars
<1>2. /\ retarget' => retarget \/ (state = "authorized" /\ pendingDiff = 0 /\ AllIdle)
      /\ state' = "authorized" => state = "authorized"
  BY DEF Subscribe, MomentsPass, RetargetDue, vardiffVars, fieldVars
<1>3. \A t \in Threads : /\ Step(t)' = Step(t) /\ call'[t] = call[t]
                         /\ (Changes(t)' <=> Changes(t)) /\ (Tells(t)' <=> Tells(t)) /\ (Resets(t)' <=> Resets(t))
  BY <1>1, CallStays DEF InStep, Changes, Tells, Resets
<1>4. AllIdle => (\A t \in Threads : ~Changes(t)) /\ call["reader"].by = "nobody" /\ Step("reader") = "idle"
  <2>1. ASSUME AllIdle, NEW t \in Threads PROVE Step(t) = "idle" /\ call[t].by = "nobody"
    BY <2>1, StepsOK DEF AllIdle, Step, StepOK, InStep, Delivery
  <2> QED
    BY <2>1, ThreadsDiffer DEF Changes
<1>5. ChangeInv'
  BY <1>1, <1>2, <1>3, <1>4, ThreadsDiffer DEF InStep, ChangeInv, NoOther, FieldsOK
<1>6. StepInv'
  BY <1>1, <1>3, ThreadsDiffer DEF InStep, StepInv
<1> QED
  BY <1>5, <1>6

LEMMA SessionInStep ==
  ASSUME CallOK, FieldsOK, OneChanger => ChangeInv /\ StepInv, [SessionNext]_sessionVars
  PROVE  OneChanger' => ChangeInv' /\ StepInv'
<1> SUFFICES ASSUME OneChanger' PROVE ChangeInv' /\ StepInv'
  OBVIOUS
<1>1. CallOK' /\ FieldsOK'
  BY SessionFields
<1>2. CASE UNCHANGED sessionVars
  <2>1. UNCHANGED <<config, state, fieldVars, pendingDiff, vardiffVars, told, before, call, authorizes, storedDiff>>
    BY <1>2 DEF sessionVars, minerVars, boundVars
  <2>2. OneChanger
    BY <2>1 DEF OneChanger
  <2> QED
    BY <2>1, <2>2, IdleInStep DEF InStep
<1>3. CASE SessionNext
  <2>1. InStep
    BY <1>3, OneChangerBefore DEF InStep
  <2> QED
    BY <1>1, <1>3, <2>1, TellInStep, ResetInStep, NotifyInStep, AuthorizeInStep, RejectedInStep, SuggestInStep, RestoreInStep,
       StartHookInStep, SubmitInStep, RetargetInStep, QueueInStep, MidblockInStep, SendInStep, NewJobInStep, IdleInStep
       DEF SessionNext, Common
<1> QED
  BY <1>2, <1>3

\* The jobs: what a broadcast, the record and the miner's work may hold.
JobEntry == [job : 1..latest, diff : Diffs]
WorkItem == [job : 1..latest, diff : Diffs, by : {"broadcast", "authorize", "midblock"}]
JobsOK ==
  /\ latest \in Nat /\ tipJob \in Nat /\ currentJob \in 0..latest
  /\ latest = 0 => tipJob = 1
  /\ latest > 0 => tipJob <= latest
  /\ \A b \in Broadcasters : Step(b) # "idle" => call[b].job \in 1..latest /\ (call[b].clean => call[b].job <= tipJob)
  /\ jobDiff \in Seq(JobEntry) /\ Len(jobDiff) <= MaxJobDiffs
  /\ work \subseteq WorkItem

LEMMA AppendOK ==
  ASSUME NEW S, NEW s \in Seq(S), NEW e \in S
  PROVE  /\ Append(s, e) \in Seq(S) /\ Len(Append(s, e)) = Len(s) + 1 /\ Tail(Append(s, e)) \in Seq(S) /\ Len(Tail(Append(s, e))) = Len(s)
OBVIOUS

LEMMA EntriesLowered ==
  ASSUME NEW S, NEW s \in Seq(S), NEW f, DOMAIN f = DOMAIN s, f = [i \in DOMAIN s |-> f[i]], \A i \in DOMAIN s : f[i] \in S
  PROVE  f \in Seq(S) /\ Len(f) = Len(s)
<1>1. Len(s) \in Nat /\ DOMAIN s = 1..Len(s)
  OBVIOUS
<1>2. f \in [1..Len(s) -> S]
  BY <1>1
<1>3. f \in Seq(S)
  BY <1>1, <1>2
<1> QED
  BY <1>1, <1>3

LEMMA RecordType ==
  ASSUME CallOK, FieldsOK, JobsOK, NEW t \in Broadcasters, RecordJobDifficulty(t), Step(t) = "record"
  PROVE  jobDiff' \in Seq(JobEntry) /\ Len(jobDiff') <= MaxJobDiffs
<1> DEFINE j == call[t].job
           copies == {i \in DOMAIN jobDiff : jobDiff[i].job = j}
           added == Append(jobDiff, [job |-> j, diff |-> RecordedAt])
           lowered == [i \in DOMAIN jobDiff |-> IF i \in copies /\ RecordedAt < jobDiff[i].diff
                                                THEN [jobDiff[i] EXCEPT !.diff = RecordedAt] ELSE jobDiff[i]]
<1>1. RecordedAt \in Diffs
  BY DEF FieldsOK, RecordedAt
<1>2. j \in 1..latest /\ jobDiff \in Seq(JobEntry) /\ Len(jobDiff) <= MaxJobDiffs /\ Len(jobDiff) \in Nat
  BY DEF JobsOK
<1>3. jobDiff' = IF copies # {} THEN lowered ELSE IF Len(added) > MaxJobDiffs THEN Tail(added) ELSE added
  BY DEF RecordJobDifficulty
<1>4. [job |-> j, diff |-> RecordedAt] \in JobEntry
  BY <1>1, <1>2 DEF JobEntry
<1>5. added \in Seq(JobEntry) /\ Len(added) = Len(jobDiff) + 1 /\ Tail(added) \in Seq(JobEntry) /\ Len(Tail(added)) = Len(jobDiff)
  BY <1>2, <1>4, AppendOK
<1>6. lowered \in Seq(JobEntry) /\ Len(lowered) = Len(jobDiff)
  <2>1. DOMAIN lowered = DOMAIN jobDiff /\ lowered = [i \in DOMAIN jobDiff |-> lowered[i]]
    OBVIOUS
  <2>2. \A i \in DOMAIN jobDiff : jobDiff[i] \in JobEntry
    BY <1>2
  <2>3. ASSUME NEW e \in JobEntry PROVE [e EXCEPT !.diff = RecordedAt] \in JobEntry
    BY <1>1 DEF JobEntry
  <2>4. \A i \in DOMAIN jobDiff : lowered[i] \in JobEntry
    BY <2>2, <2>3
  <2> HIDE DEF lowered
  <2> QED
    BY <1>2, <2>1, <2>4, EntriesLowered
<1> HIDE DEF added, lowered, copies, j
<1> QED
  BY <1>2, <1>3, <1>5, <1>6, SessionAssumption

LEMMA NotifyType ==
  ASSUME CallOK, FieldsOK, JobsOK, NEW t \in Threads, SendNotify(t), Step(t) = "notify"
  PROVE  work' \subseteq WorkItem
<1> DEFINE j == CASE call[t].by = "broadcast" -> call[t].job
                  [] call[t].by = "authorize" -> IF config.solo THEN latest ELSE currentJob
                  [] call[t].by = "midblock"  -> currentJob
<1>1. StepOK(t)
  BY StepsOK
<1>2. call[t].by \in {"broadcast", "authorize", "midblock"} /\ (call[t].by = "broadcast" => t \in Broadcasters)
  BY <1>1 DEF StepOK
<1>3. j \in 0..latest
  <2>1. CASE call[t].by = "broadcast"
    BY <1>2, <2>1 DEF JobsOK
  <2>2. CASE call[t].by = "authorize"
    BY <2>2 DEF JobsOK
  <2>3. CASE call[t].by = "midblock"
    BY <2>3 DEF JobsOK
  <2> QED
    BY <1>2, <2>1, <2>2, <2>3
<1>4. work' = work \/ (j # NoJob /\ \E d \in {told, before} \ {0}, old \in {work, {}} :
                          work' = old \cup {[job |-> j, diff |-> d, by |-> call[t].by]})
  BY DEF SendNotify, Notify
<1> HIDE DEF j
<1>5. ASSUME NEW d \in {told, before} \ {0}, j # NoJob PROVE [job |-> j, diff |-> d, by |-> call[t].by] \in WorkItem
  BY <1>2, <1>3, <1>5 DEF FieldsOK, WorkItem, NoJob, JobsOK
<1> QED
  BY <1>4, <1>5 DEF JobsOK

\* An action that leaves the jobs, the record and the work alone.
LEMMA JobsStay ==
  ASSUME JobsOK, UNCHANGED <<jobVars, jobDiff, work>>,
         \A b \in Broadcasters : Step(b)' # "idle" => Step(b) # "idle" /\ call'[b].job = call[b].job /\ call'[b].clean = call[b].clean
  PROVE  JobsOK'
BY DEF JobsOK, jobVars, JobEntry, WorkItem

\* A broadcast whose job is not recorded yet.
Unrecorded(b) == Step(b) \in {"send", "tell", "reset", "record"}

\* The broadcasts go on as they were, or one of them ends.
BroadcastsGoOn ==
  \A b \in Broadcasters :
    /\ Step(b)' # "idle" => Step(b) # "idle" /\ call'[b].job = call[b].job /\ call'[b].clean = call[b].clean
    /\ Unrecorded(b)' => Unrecorded(b)

LEMMA BroadcastsStay ==
  ASSUME NEW t \in Threads, OthersStay(t), t \notin Broadcasters
  PROVE  BroadcastsGoOn /\ \A b \in Broadcasters : call'[b] = call[b] /\ Step(b)' = Step(b)
BY StepStays, ThreadsDiffer DEF BroadcastsGoOn, Unrecorded

LEMMA GoesOnBroadcasts ==
  ASSUME CallOK, NEW t \in Threads, GoesOn(t), ~Idle(t)
  PROVE  BroadcastsGoOn
<1>1. ASSUME NEW b \in Broadcasters, Step(b)' # "idle"
      PROVE  /\ Step(b) # "idle" /\ call'[b].job = call[b].job /\ call'[b].clean = call[b].clean
             /\ Unrecorded(b)' => Unrecorded(b)
  <2>1. CASE b = t
    <3>1. StepOK(t) /\ Step(t) # "idle"
      <4>1. StepOK(t)
        BY StepsOK
      <4>2. call[t].by # "nobody"
        BY DEF CallOK, Fits, Idle, AuthorizeLists, SuggestLists, MidblockLists, HookLists, BroadcastLists
      <4> QED
        BY <4>1, <4>2 DEF StepOK, Delivery
    <3> QED
      BY <1>1, <2>1, <3>1, ThreadsDiffer DEF GoesOn, Unrecorded, After, StepOK
  <2>2. CASE b # t
    BY <1>1, <2>2, StepStays, ThreadsDiffer DEF GoesOn, Moves, Unrecorded
  <2> QED
    BY <2>1, <2>2
<1> QED
  BY <1>1 DEF BroadcastsGoOn, Unrecorded

\* Only NewJob starts a broadcast.
LEMMA NextBroadcasts ==
  ASSUME CallOK, FieldsOK, [SessionNext]_sessionVars,
         ~ \E b \in Broadcasters, clean \in BOOLEAN : NewJob(b, clean)
  PROVE  BroadcastsGoOn
<1>1. CASE call' = call /\ config' = config
  BY <1>1, CallStays, ThreadsDiffer DEF BroadcastsGoOn, Unrecorded
<1>2. CASE \E t \in Threads : Common(t)
  BY <1>2, CommonCalls, GoesOnBroadcasts
<1>3. CASE StartHook
  BY <1>3, StartHookCalls DEF BroadcastsGoOn, Unrecorded
<1>4. CASE SetInitialDifficulty
  <2>1. OthersStay("hook")
    BY <1>4, RestoreCalls DEF Becomes, Moves
  <2> QED
    BY <2>1, BroadcastsStay, ThreadsDiffer
<1>5. CASE \/ Submit \/ VardiffRecordShare \/ QueueDifficulty \/ SendMidBlockDifficulty
           \/ \E p \in Passwords : Authorize(p)
           \/ \E d \in Diffs : SuggestDifficulty(d)
  <2>1. OthersStay("reader")
    BY <1>5, SubmitCalls, RetargetCalls, QueueCalls, MidblockCalls, AuthorizeCalls, SuggestCalls DEF Becomes, Moves
  <2> QED
    BY <2>1, BroadcastsStay, ThreadsDiffer
<1>6. ASSUME NEW b \in Broadcasters, SendJob(b) PROVE BroadcastsGoOn
  <2>1. /\ OthersStay(b) /\ Step(b) = "send"
        /\ Step(b)' = "idle" \/ (call'[b].job = call[b].job /\ call'[b].clean = call[b].clean)
    BY <1>6, SendCalls DEF Becomes, Moves
  <2> QED
    BY <2>1, StepStays, ThreadsDiffer DEF BroadcastsGoOn, Unrecorded
<1>7. (Subscribe \/ MomentsPass \/ RetargetDue \/ (\E p \in Passwords : AuthorizeRejected(p)) \/ UNCHANGED sessionVars) =>
         call' = call /\ config' = config
  BY DEF Subscribe, MomentsPass, RetargetDue, AuthorizeRejected, sessionVars, boundVars
<1> QED
  BY <1>1, <1>2, <1>3, <1>4, <1>5, <1>6, <1>7 DEF SessionNext

\* What the actions leave alone.
LEMMA JobFrames ==
  ASSUME [SessionNext]_sessionVars
  PROVE  /\ UNCHANGED jobVars \/ (\E b \in Broadcasters : SendJob(b)) \/ (\E b \in Broadcasters, clean \in BOOLEAN : NewJob(b, clean))
         /\ UNCHANGED jobDiff \/ (\E t \in Threads : Common(t) /\ RecordJobDifficulty(t))
         /\ UNCHANGED work \/ (\E t \in Threads : Common(t) /\ SendNotify(t))
  BY DEF SessionNext, sessionVars, Subscribe, StartHook, SetInitialDifficulty, Submit, VardiffRecordShare, QueueDifficulty,
         SendMidBlockDifficulty, Authorize, AuthorizeRejected, SuggestDifficulty, SendJob, NewJob, Common, SendDifficulty,
         ResetWindow, RecordJobDifficulty, SendNotify, MomentsPass, RetargetDue, minerVars, jobVars

LEMMA SessionJobs ==
  ASSUME CallOK, FieldsOK, JobsOK, [SessionNext]_sessionVars
  PROVE  JobsOK'
<1>1. CASE UNCHANGED <<jobVars, jobDiff, work>> /\ ~ \E b \in Broadcasters, clean \in BOOLEAN : NewJob(b, clean)
  BY <1>1, NextBroadcasts, JobsStay DEF BroadcastsGoOn
<1>2. ASSUME NEW t \in Threads, Common(t), RecordJobDifficulty(t) PROVE JobsOK'
  <2>1. GoesOn(t) /\ ~Idle(t) /\ Step(t) = "record" /\ t \in Broadcasters
    BY <1>2, CommonCalls DEF RecordJobDifficulty, At, Step
  <2>2. BroadcastsGoOn
    BY <2>1, GoesOnBroadcasts
  <2>3. jobDiff' \in Seq(JobEntry) /\ Len(jobDiff') <= MaxJobDiffs
    BY <1>2, <2>1, RecordType
  <2>4. UNCHANGED <<jobVars, work>> /\ JobEntry' = JobEntry /\ WorkItem' = WorkItem
    BY <1>2 DEF RecordJobDifficulty, minerVars, jobVars, JobEntry, WorkItem
  <2> QED
    BY <2>2, <2>3, <2>4 DEF JobsOK, BroadcastsGoOn, jobVars
<1>3. ASSUME NEW t \in Threads, Common(t), SendNotify(t) PROVE JobsOK'
  <2>1. GoesOn(t) /\ ~Idle(t) /\ Step(t) = "notify"
    BY <1>3, CommonCalls DEF SendNotify, At, Step
  <2>2. BroadcastsGoOn
    BY <2>1, GoesOnBroadcasts
  <2>3. work' \subseteq WorkItem
    BY <1>3, <2>1, NotifyType
  <2>4. UNCHANGED <<jobVars, jobDiff>> /\ JobEntry' = JobEntry /\ WorkItem' = WorkItem
    BY <1>3 DEF SendNotify, jobVars, JobEntry, WorkItem
  <2> QED
    BY <2>2, <2>3, <2>4 DEF JobsOK, BroadcastsGoOn, jobVars
<1>4. ASSUME NEW b \in Broadcasters, SendJob(b) PROVE JobsOK'
  <2>1. Step(b) = "send" /\ currentJob' = call[b].job /\ UNCHANGED <<latest, tipJob, jobDiff, work>>
    BY <1>4, SendCalls DEF SendJob, minerVars
  <2>2. BroadcastsGoOn
    <3>1. ~ \E c \in Broadcasters, clean \in BOOLEAN : NewJob(c, clean)
      BY <2>1 DEF NewJob, JobsOK
    <3> QED
      BY <1>4, <3>1, NextBroadcasts DEF SessionNext
  <2>3. JobEntry' = JobEntry /\ WorkItem' = WorkItem
    BY <2>1 DEF JobEntry, WorkItem
  <2> QED
    BY <2>1, <2>2, <2>3 DEF JobsOK, BroadcastsGoOn
<1>5. ASSUME NEW b \in Broadcasters, NEW clean \in BOOLEAN, NewJob(b, clean) PROVE JobsOK'
  <2>1. /\ OthersStay(b) /\ Step(b)' = "send" /\ call'[b].job = latest' /\ call'[b].clean = (tipJob' = latest')
        /\ latest' = latest + 1 /\ tipJob' = (IF clean \/ latest = 0 THEN latest' ELSE tipJob)
        /\ UNCHANGED <<currentJob, jobDiff, work>>
    BY <1>5, NewJobCalls DEF Becomes, Moves, NewJob, minerVars
  <2>2. \A c \in Broadcasters : c # b => call'[c] = call[c] /\ Step(c)' = Step(c)
    BY <2>1, StepStays, ThreadsDiffer
  <2>3. latest' \in Nat /\ tipJob' \in Nat /\ currentJob' \in 0..latest' /\ latest' > 0 /\ tipJob' <= latest' /\ tipJob <= tipJob'
    BY <2>1 DEF JobsOK
  <2>4. JobEntry \subseteq JobEntry' /\ WorkItem \subseteq WorkItem'
    <3>1. 1..latest \subseteq 1..latest'
      BY <2>1 DEF JobsOK
    <3> QED
      BY <3>1 DEF JobEntry, WorkItem
  <2>5. jobDiff' \in Seq(JobEntry') /\ Len(jobDiff') <= MaxJobDiffs /\ work' \subseteq WorkItem'
    BY <2>1, <2>4 DEF JobsOK
  <2>6. ASSUME NEW c \in Broadcasters, Step(c)' # "idle"
        PROVE  call'[c].job \in 1..latest' /\ (call'[c].clean => call'[c].job <= tipJob')
    <3>1. CASE c = b
      BY <2>1, <2>3, <3>1 DEF JobsOK
    <3>2. CASE c # b
      BY <2>1, <2>2, <2>3, <2>6, <3>2 DEF JobsOK
    <3> QED
      BY <3>1, <3>2
  <2> QED
    BY <2>3, <2>5, <2>6 DEF JobsOK
<1> QED
  BY <1>1, <1>2, <1>3, <1>4, <1>5, JobFrames

RecordedJobs == {jobDiff[i].job : i \in DOMAIN jobDiff}

\* No job is broadcast twice, and none is recorded twice.
DistinctJobs ==
  /\ \A b, c \in Broadcasters : Step(b) # "idle" /\ Step(c) # "idle" /\ call[b].job = call[c].job => b = c
  /\ \A b \in Broadcasters : Unrecorded(b) => call[b].job \notin RecordedJobs
  /\ \A i, k \in DOMAIN jobDiff : jobDiff[i].job = jobDiff[k].job => i = k

\* The jobs, newer in the record than entry i or still to be recorded, that were made before
\* i's: the other goroutines had them in hand when i's job was recorded, one each.
LaterJobs(i) == {jobDiff[k].job : k \in {n \in DOMAIN jobDiff : n > i}}
UnrecordedJobs == {call[b].job : b \in {c \in Broadcasters : Unrecorded(c)}}
Overtaken(i) == {j \in LaterJobs(i) \cup UnrecordedJobs : j < jobDiff[i].job}
LateInv ==
  \A i \in DOMAIN jobDiff : IsFiniteSet(Overtaken(i)) /\ Cardinality(Overtaken(i)) < Cardinality(Broadcasters)

\* Recording adds the job at the end, and drops the oldest when there is no room.
Dropped == IF Len(jobDiff) = MaxJobDiffs THEN 1 ELSE 0

LEMMA AppendEntries ==
  ASSUME NEW S, NEW s \in Seq(S), NEW e
  PROVE  /\ Len(Append(s, e)) = Len(s) + 1
         /\ \A i \in 1..Len(s) : Append(s, e)[i] = s[i]
         /\ Append(s, e)[Len(s) + 1] = e
         /\ Len(Tail(Append(s, e))) = Len(s)
         /\ \A i \in 1..Len(s) : Tail(Append(s, e))[i] = Append(s, e)[i + 1]
OBVIOUS

LEMMA RecordAdds ==
  ASSUME CallOK, FieldsOK, JobsOK, DistinctJobs, NEW b \in Broadcasters, RecordJobDifficulty(b), Step(b) = "record"
  PROVE  /\ Len(jobDiff') = Len(jobDiff) + 1 - Dropped
         /\ \A i \in 1..(Len(jobDiff) - Dropped) : jobDiff'[i] = jobDiff[i + Dropped]
         /\ jobDiff'[Len(jobDiff')] = [job |-> call[b].job, diff |-> RecordedAt]
         /\ Len(jobDiff) \in Nat /\ Dropped \in 0..Len(jobDiff) /\ DOMAIN jobDiff = 1..Len(jobDiff) /\ DOMAIN jobDiff' = 1..Len(jobDiff')
         /\ Dropped = 1 => Len(jobDiff) = MaxJobDiffs
<1> DEFINE j == call[b].job
           e == [job |-> j, diff |-> RecordedAt]
           added == Append(jobDiff, e)
<1>1. jobDiff \in Seq(JobEntry) /\ Len(jobDiff) <= MaxJobDiffs /\ Len(jobDiff) \in Nat /\ DOMAIN jobDiff = 1..Len(jobDiff)
  BY DEF JobsOK
<1>2. {i \in DOMAIN jobDiff : jobDiff[i].job = j} = {}
  BY DEF DistinctJobs, Unrecorded, RecordedJobs
<1>3. jobDiff' = IF Len(added) > MaxJobDiffs THEN Tail(added) ELSE added
  BY <1>2 DEF RecordJobDifficulty
<1>4. jobDiff' \in Seq(JobEntry)
  BY RecordType
<1> HIDE DEF e
<1>5. /\ Len(added) = Len(jobDiff) + 1
      /\ \A i \in 1..Len(jobDiff) : added[i] = jobDiff[i]
      /\ added[Len(jobDiff) + 1] = e
      /\ Len(Tail(added)) = Len(jobDiff)
      /\ \A i \in 1..Len(jobDiff) : Tail(added)[i] = added[i + 1]
  BY <1>1, AppendEntries
<1> HIDE DEF added
<1>6. DOMAIN jobDiff' = 1..Len(jobDiff')
  BY <1>4
<1>0. MaxJobDiffs \in Nat \ {0}
  BY SessionAssumption
<1>7. CASE Len(jobDiff) = MaxJobDiffs
  <2>1. jobDiff' = Tail(added) /\ Dropped = 1 /\ Len(jobDiff) >= 1
    BY <1>1, <1>3, <1>5, <1>7, <1>0 DEF Dropped
  <2>2. \A i \in 1..(Len(jobDiff) - 1) : jobDiff'[i] = jobDiff[i + 1]
    BY <1>1, <1>5, <2>1
  <2>3. jobDiff'[Len(jobDiff)] = e /\ Len(jobDiff') = Len(jobDiff)
    BY <1>1, <1>5, <2>1
  <2> QED
    <3>1. Len(jobDiff') = Len(jobDiff) + 1 - Dropped /\ Dropped \in 0..Len(jobDiff) /\ (Dropped = 1 => Len(jobDiff) = MaxJobDiffs)
      BY <1>1, <1>0, <1>7, <2>1, <2>3
    <3>2. \A i \in 1..(Len(jobDiff) - Dropped) : jobDiff'[i] = jobDiff[i + Dropped]
      BY <1>1, <2>1, <2>2
    <3>3. jobDiff'[Len(jobDiff')] = [job |-> call[b].job, diff |-> RecordedAt]
      BY <2>3 DEF e
    <3> QED
      BY <1>1, <1>6, <3>1, <3>2, <3>3
<1>8. CASE Len(jobDiff) # MaxJobDiffs
  <2>0. ~(Len(added) > MaxJobDiffs)
    <3>1. Len(jobDiff) \in Nat /\ Len(jobDiff) <= MaxJobDiffs /\ Len(added) = Len(jobDiff) + 1
      BY <1>1, <1>5
    <3> QED
      BY <3>1, <1>0, <1>8
  <2>1. jobDiff' = added /\ Dropped = 0
    BY <2>0, <1>3, <1>8 DEF Dropped
  <2>2. \A i \in 1..Len(jobDiff) : jobDiff'[i] = jobDiff[i + 0]
    BY <1>1, <1>5, <2>1
  <2>3. jobDiff'[Len(jobDiff) + 1] = e /\ Len(jobDiff') = Len(jobDiff) + 1
    BY <1>1, <1>5, <2>1
  <2> QED
    <3>1. Len(jobDiff') = Len(jobDiff) + 1 - Dropped /\ Dropped \in 0..Len(jobDiff) /\ (Dropped = 1 => Len(jobDiff) = MaxJobDiffs)
      BY <1>1, <1>0, <2>1, <2>3
    <3>2. \A i \in 1..(Len(jobDiff) - Dropped) : jobDiff'[i] = jobDiff[i + Dropped]
      BY <1>1, <2>1, <2>2
    <3>3. jobDiff'[Len(jobDiff')] = [job |-> call[b].job, diff |-> RecordedAt]
      BY <2>3 DEF e
    <3> QED
      BY <1>1, <1>6, <3>1, <3>2, <3>3
<1> QED
  BY <1>7, <1>8

LEMMA SmallerSet ==
  ASSUME NEW S, IsFiniteSet(S), NEW T, T \subseteq S, NEW n \in Nat, Cardinality(S) < n
  PROVE  IsFiniteSet(T) /\ Cardinality(T) < n
<1>1. IsFiniteSet(T) /\ Cardinality(T) <= Cardinality(S)
  BY FS_Subset
<1>2. Cardinality(T) \in Nat /\ Cardinality(S) \in Nat
  BY <1>1, FS_CardinalityType
<1> QED
  BY <1>1, <1>2

\* What the other goroutines have in hand.
LEMMA OthersJobs ==
  ASSUME IsFiniteSet(Broadcasters), NEW b \in Broadcasters, NEW T, T \subseteq {call[c].job : c \in Broadcasters \ {b}}
  PROVE  IsFiniteSet(T) /\ Cardinality(T) < Cardinality(Broadcasters)
<1> DEFINE C == Broadcasters \ {b}
           F == {call[c].job : c \in C}
<1>1. IsFiniteSet(C) /\ Cardinality(C) = Cardinality(Broadcasters) - 1
  BY FS_RemoveElement
<1>2. IsFiniteSet(F) /\ Cardinality(F) <= Cardinality(C)
  <2> DEFINE g == [c \in C |-> call[c].job]
  <2>1. g \in Surjection(C, F)
    BY DEF Surjection
  <2> QED
    BY <1>1, <2>1, FS_Surjection
<1>3. Cardinality(Broadcasters) \in Nat /\ Cardinality(F) \in Nat /\ Cardinality(C) \in Nat
  BY <1>1, <1>2, FS_CardinalityType
<1>4. Cardinality(F) < Cardinality(Broadcasters)
  BY <1>1, <1>2, <1>3
<1> HIDE DEF F
<1>5. T \subseteq F
  BY DEF F
<1> QED
  BY <1>2, <1>3, <1>4, <1>5, SmallerSet

\* No action but NewJob and RecordJobDifficulty concerns the two.
LEMMA RecordStays ==
  ASSUME JobsOK, DistinctJobs, UNCHANGED jobDiff, BroadcastsGoOn, UnrecordedJobs' \subseteq UnrecordedJobs
  PROVE  DistinctJobs' /\ (IsFiniteSet(Broadcasters) /\ LateInv => LateInv')
<1>1. RecordedJobs' = RecordedJobs /\ \A i : LaterJobs(i)' = LaterJobs(i)
  BY DEF RecordedJobs, LaterJobs
<1>2. DistinctJobs'
  BY <1>1 DEF DistinctJobs, BroadcastsGoOn, Unrecorded
<1>3. ASSUME IsFiniteSet(Broadcasters), LateInv, NEW i \in DOMAIN jobDiff
      PROVE  IsFiniteSet(Overtaken(i)') /\ Cardinality(Overtaken(i)') < Cardinality(Broadcasters)
  <2>1. Overtaken(i)' \subseteq Overtaken(i)
    BY <1>1 DEF Overtaken
  <2>2. IsFiniteSet(Overtaken(i)) /\ Cardinality(Overtaken(i)) < Cardinality(Broadcasters) /\ Cardinality(Broadcasters) \in Nat
    BY <1>3, FS_CardinalityType DEF LateInv
  <2> QED
    BY <2>1, <2>2, SmallerSet
<1> QED
  BY <1>2, <1>3 DEF LateInv

LEMMA GoOnUnrecorded ==
  ASSUME BroadcastsGoOn PROVE UnrecordedJobs' \subseteq UnrecordedJobs
BY DEF BroadcastsGoOn, UnrecordedJobs, Unrecorded

LEMMA RecordDistinct ==
  ASSUME CallOK, FieldsOK, JobsOK, DistinctJobs, NEW b \in Broadcasters, Common(b), RecordJobDifficulty(b)
  PROVE  DistinctJobs' /\ (IsFiniteSet(Broadcasters) /\ LateInv => LateInv')
<1>1. GoesOn(b) /\ ~Idle(b) /\ Step(b) = "record" /\ Step(b)' = "notify" /\ b \in Threads /\ OthersStay(b)
  BY CommonCalls, ThreadsDiffer DEF RecordJobDifficulty, At, Step, GoesOn, After, Moves
<1>2. BroadcastsGoOn
  BY <1>1, GoesOnBroadcasts
<1> DEFINE n == Len(jobDiff)
           m == Len(jobDiff')
           j == call[b].job
<1>3. /\ m = n + 1 - Dropped /\ \A i \in 1..(n - Dropped) : jobDiff'[i] = jobDiff[i + Dropped]
      /\ jobDiff'[m].job = j /\ n \in Nat /\ Dropped \in 0..n /\ DOMAIN jobDiff = 1..n /\ DOMAIN jobDiff' = 1..m
  <2>1. [job |-> j, diff |-> RecordedAt].job = j
    OBVIOUS
  <2>2. Len(jobDiff') = Len(jobDiff) + 1 - Dropped /\ jobDiff'[Len(jobDiff')] = [job |-> call[b].job, diff |-> RecordedAt]
    BY <1>1, RecordAdds
  <2>3. /\ \A i \in 1..(Len(jobDiff) - Dropped) : jobDiff'[i] = jobDiff[i + Dropped]
        /\ Len(jobDiff) \in Nat /\ Dropped \in 0..Len(jobDiff) /\ DOMAIN jobDiff = 1..Len(jobDiff) /\ DOMAIN jobDiff' = 1..Len(jobDiff')
    BY <1>1, RecordAdds
  <2> QED
    BY <2>1, <2>2, <2>3
<1> HIDE DEF n, m, j
<1>4. \A i \in DOMAIN jobDiff' : i = m \/ (i \in 1..(n - Dropped) /\ i + Dropped \in DOMAIN jobDiff)
  BY <1>3
<1>5. j \notin RecordedJobs /\ RecordedJobs' \subseteq RecordedJobs \cup {j}
  <2>1. j \notin RecordedJobs
    BY <1>1 DEF DistinctJobs, Unrecorded, j
  <2>2. ASSUME NEW i \in DOMAIN jobDiff' PROVE jobDiff'[i].job \in RecordedJobs \cup {j}
    BY <1>3, <1>4 DEF RecordedJobs
  <2> QED
    BY <2>1, <2>2 DEF RecordedJobs
<1>6. UnrecordedJobs' \subseteq {call[c].job : c \in Broadcasters \ {b}} /\ UnrecordedJobs' \cup {j} \subseteq UnrecordedJobs
  <2>1. ASSUME NEW c \in Broadcasters, Unrecorded(c)' PROVE c # b /\ call'[c].job = call[c].job /\ Unrecorded(c)
    BY <1>1, <1>2, <2>1 DEF BroadcastsGoOn, Unrecorded
  <2>2. j \in UnrecordedJobs
    BY <1>1 DEF UnrecordedJobs, Unrecorded, j
  <2> QED
    BY <2>1, <2>2 DEF UnrecordedJobs
<1>7. DistinctJobs'
  <2>1. \A c, d \in Broadcasters : Step(c)' # "idle" /\ Step(d)' # "idle" /\ call'[c].job = call'[d].job => c = d
    BY <1>2 DEF DistinctJobs, BroadcastsGoOn
  <2>2. ASSUME NEW c \in Broadcasters, Unrecorded(c)' PROVE call'[c].job \notin RecordedJobs'
    <3>1. c # b /\ call'[c].job = call[c].job /\ Unrecorded(c)
      BY <1>1, <1>2, <2>2 DEF BroadcastsGoOn, Unrecorded
    <3>2. call[c].job # j /\ call[c].job \notin RecordedJobs
      BY <1>1, <3>1 DEF DistinctJobs, Unrecorded, j
    <3> QED
      BY <1>5, <3>1, <3>2
  <2>3. ASSUME NEW i \in DOMAIN jobDiff', NEW k \in DOMAIN jobDiff', jobDiff'[i].job = jobDiff'[k].job PROVE i = k
    <3>1. ASSUME NEW l \in DOMAIN jobDiff PROVE jobDiff[l].job # j
      BY <1>5 DEF RecordedJobs
    <3>2. CASE i = m \/ k = m
      BY <1>3, <1>4, <2>3, <3>1, <3>2
    <3>3. CASE i # m /\ k # m
      <4>1. jobDiff[i + Dropped].job = jobDiff[k + Dropped].job /\ i + Dropped \in DOMAIN jobDiff /\ k + Dropped \in DOMAIN jobDiff
        BY <1>3, <1>4, <2>3, <3>3
      <4>2. i + Dropped = k + Dropped
        BY <4>1 DEF DistinctJobs
      <4> QED
        BY <1>3, <4>2
    <3> QED
      BY <3>2, <3>3
  <2> QED
    BY <2>1, <2>2, <2>3 DEF DistinctJobs
<1>8. ASSUME IsFiniteSet(Broadcasters), LateInv, NEW i \in DOMAIN jobDiff'
      PROVE  IsFiniteSet(Overtaken(i)') /\ Cardinality(Overtaken(i)') < Cardinality(Broadcasters)
  <2>1. CASE i = m
    <3>1. LaterJobs(i)' = {}
      BY <1>3, <2>1 DEF LaterJobs
    <3>2. Overtaken(i)' \subseteq {call[c].job : c \in Broadcasters \ {b}}
      BY <1>6, <3>1 DEF Overtaken
    <3> QED
      BY <1>8, <3>2, OthersJobs
  <2>2. CASE i # m
    <3> DEFINE l == i + Dropped
    <3>1. l \in DOMAIN jobDiff /\ jobDiff'[i] = jobDiff[l]
      BY <1>3, <1>4, <2>2
    <3>2. LaterJobs(i)' \subseteq LaterJobs(l) \cup {j}
      <4>1. ASSUME NEW k \in DOMAIN jobDiff', k > i PROVE jobDiff'[k].job \in LaterJobs(l) \cup {j}
        <5>1. CASE k = m
          BY <1>3, <5>1
        <5>2. CASE k # m
          <6>1. jobDiff'[k] = jobDiff[k + Dropped] /\ k + Dropped \in DOMAIN jobDiff
            BY <1>3, <1>4, <5>2
          <6>2. k + Dropped > l
            BY <1>3, <4>1
          <6> QED
            BY <6>1, <6>2 DEF LaterJobs
        <5> QED
          BY <5>1, <5>2
      <4> QED
        BY <4>1 DEF LaterJobs
    <3>3. Overtaken(i)' \subseteq Overtaken(l)
      BY <1>6, <3>1, <3>2 DEF Overtaken
    <3>4. IsFiniteSet(Overtaken(l)) /\ Cardinality(Overtaken(l)) < Cardinality(Broadcasters) /\ Cardinality(Broadcasters) \in Nat
      BY <1>8, <3>1, FS_CardinalityType DEF LateInv
    <3> QED
      BY <3>3, <3>4, SmallerSet
  <2> QED
    BY <2>1, <2>2
<1> QED
  BY <1>7, <1>8 DEF LateInv

LEMMA NewJobDistinct ==
  ASSUME CallOK, FieldsOK, JobsOK, DistinctJobs, NEW b \in Broadcasters, NEW clean \in BOOLEAN, NewJob(b, clean)
  PROVE  DistinctJobs' /\ (IsFiniteSet(Broadcasters) /\ LateInv => LateInv')
<1>1. /\ OthersStay(b) /\ Step(b)' = "send" /\ call'[b].job = latest' /\ latest' = latest + 1 /\ jobDiff' = jobDiff /\ Step(b) = "idle"
  BY NewJobCalls DEF Becomes, Moves, NewJob, minerVars, Step
<1>2. \A c \in Broadcasters : c # b => call'[c] = call[c] /\ Step(c)' = Step(c)
  BY <1>1, StepStays, ThreadsDiffer
<1>3. latest \in Nat /\ \A c \in Broadcasters : Step(c) # "idle" => call[c].job <= latest
  BY DEF JobsOK
<1>4. \A i \in DOMAIN jobDiff : jobDiff[i].job \in 1..latest
  <2>1. \A i \in DOMAIN jobDiff : jobDiff[i] \in JobEntry
    BY DEF JobsOK
  <2> QED
    BY <2>1 DEF JobEntry
<1>5. RecordedJobs' = RecordedJobs /\ \A i : LaterJobs(i)' = LaterJobs(i)
  BY <1>1 DEF RecordedJobs, LaterJobs
<1>6. UnrecordedJobs' \subseteq UnrecordedJobs \cup {latest'}
  BY <1>1, <1>2 DEF UnrecordedJobs, Unrecorded
<1>7. DistinctJobs'
  <2>1. ASSUME NEW c \in Broadcasters, NEW d \in Broadcasters, Step(c)' # "idle", Step(d)' # "idle", call'[c].job = call'[d].job
        PROVE  c = d
    BY <1>1, <1>2, <1>3, <2>1 DEF DistinctJobs
  <2>2. ASSUME NEW c \in Broadcasters, Unrecorded(c)' PROVE call'[c].job \notin RecordedJobs'
    <3>1. CASE c = b
      BY <1>1, <1>3, <1>4, <1>5, <3>1 DEF RecordedJobs
    <3>2. CASE c # b
      BY <1>2, <1>5, <2>2, <3>2 DEF DistinctJobs, Unrecorded
    <3> QED
      BY <3>1, <3>2
  <2> QED
    BY <1>1, <2>1, <2>2 DEF DistinctJobs
<1>8. ASSUME IsFiniteSet(Broadcasters), LateInv, NEW i \in DOMAIN jobDiff
      PROVE  IsFiniteSet(Overtaken(i)') /\ Cardinality(Overtaken(i)') < Cardinality(Broadcasters)
  <2>1. Overtaken(i)' \subseteq Overtaken(i)
    <3>1. jobDiff'[i].job = jobDiff[i].job /\ ~(latest' < jobDiff[i].job)
      <4>1. jobDiff[i].job \in 1..latest
        BY <1>4
      <4> QED
        BY <4>1, <1>1, <1>3
    <3> QED
      BY <1>5, <1>6, <3>1 DEF Overtaken
  <2>2. IsFiniteSet(Overtaken(i)) /\ Cardinality(Overtaken(i)) < Cardinality(Broadcasters) /\ Cardinality(Broadcasters) \in Nat
    BY <1>8, FS_CardinalityType DEF LateInv
  <2> QED
    BY <2>1, <2>2, SmallerSet
<1> QED
  BY <1>1, <1>7, <1>8 DEF LateInv

LEMMA SessionDistinct ==
  ASSUME CallOK, FieldsOK, JobsOK, DistinctJobs, [SessionNext]_sessionVars
  PROVE  DistinctJobs' /\ (IsFiniteSet(Broadcasters) /\ LateInv => LateInv')
<1>1. CASE \E b \in Broadcasters, clean \in BOOLEAN : NewJob(b, clean)
  BY <1>1, NewJobDistinct
<1>2. CASE \E t \in Threads : Common(t) /\ RecordJobDifficulty(t)
  <2>1. PICK t \in Threads : Common(t) /\ RecordJobDifficulty(t)
    BY <1>2
  <2>2. t \in Broadcasters
    BY <2>1, CommonCalls DEF RecordJobDifficulty, At, Step
  <2> QED
    BY <2>1, <2>2, RecordDistinct
<1>3. CASE UNCHANGED jobDiff /\ ~ \E b \in Broadcasters, clean \in BOOLEAN : NewJob(b, clean)
  BY <1>3, NextBroadcasts, GoOnUnrecorded, RecordStays
<1> QED
  BY <1>1, <1>2, <1>3, JobFrames

\* The record holds more jobs than the JobManager has, and one for every other goroutine.
RecordHoldsHistory == IsFiniteSet(Broadcasters) /\ MaxJobHistory + Cardinality(Broadcasters) <= MaxJobDiffs + 1

LEMMA UnionAtMost ==
  ASSUME NEW S, NEW T, NEW U, IsFiniteSet(S), IsFiniteSet(T), U \subseteq S \cup T
  PROVE  Cardinality(U) <= Cardinality(S) + Cardinality(T)
<1>1. IsFiniteSet(S \cup T) /\ Cardinality(S \cup T) = Cardinality(S) + Cardinality(T) - Cardinality(S \cap T)
  BY FS_Union
<1>2. IsFiniteSet(U) /\ Cardinality(U) <= Cardinality(S \cup T)
  BY <1>1, FS_Subset
<1>3. IsFiniteSet(S \cap T)
  BY FS_Subset
<1>4. Cardinality(S) \in Nat /\ Cardinality(T) \in Nat /\ Cardinality(S \cap T) \in Nat /\ Cardinality(U) \in Nat
  BY <1>2, <1>3, FS_CardinalityType
<1> QED
  BY <1>1, <1>2, <1>4

LEMMA LaterCount ==
  ASSUME JobsOK, DistinctJobs, Len(jobDiff) > 0
  PROVE  IsFiniteSet(LaterJobs(1)) /\ Cardinality(LaterJobs(1)) = Len(jobDiff) - 1
<1> DEFINE n == Len(jobDiff)
           I == 2..n
           g == [i \in I |-> jobDiff[i].job]
<1>1. n \in Nat /\ DOMAIN jobDiff = 1..n
  BY DEF JobsOK
<1> HIDE DEF n
<1>2. LaterJobs(1) = {jobDiff[i].job : i \in I}
  BY <1>1 DEF LaterJobs
<1>3. g \in Bijection(I, LaterJobs(1))
  <2>1. \A i, k \in I : jobDiff[i].job = jobDiff[k].job => i = k
    BY <1>1 DEF DistinctJobs
  <2> QED
    BY <1>2, <2>1 DEF Bijection, Injection, Surjection, IsInjective
<1>4. IsFiniteSet(I) /\ Cardinality(I) = n - 1
  BY <1>1, FS_Interval DEF n
<1> QED
  <2>1. ExistsBijection(I, LaterJobs(1))
    BY <1>3 DEF ExistsBijection
  <2> HIDE DEF I
  <2> QED
    BY <1>4, <2>1, FS_Bijection DEF n

LEMMA EvictionCount ==
  ASSUME NEW n \in Nat, NEW lo \in Nat, NEW hi \in Nat, NEW k \in Nat, NEW h \in Nat, NEW m \in Nat, NEW f \in Nat, NEW l \in Nat,
         n <= lo + hi, lo < k, f <= l, hi <= l - f, n = m, h + k <= m + 1
  PROVE  f <= l - h
OBVIOUS

LEMMA DroppedIsOld ==
  ASSUME CallOK, JobsOK, DistinctJobs, LateInv, RecordHoldsHistory, NEW b \in Broadcasters, Unrecorded(b), Len(jobDiff) = MaxJobDiffs
  PROVE  jobDiff[1].job <= latest - MaxJobHistory
<1> DEFINE n == Len(jobDiff)
           f == jobDiff[1].job
           j == call[b].job
           S == LaterJobs(1) \cup {j}
           Hi == (f + 1)..latest
<1>1. /\ n \in Nat /\ n > 0 /\ n = MaxJobDiffs /\ MaxJobHistory \in Nat /\ 1 \in DOMAIN jobDiff /\ latest \in Nat
      /\ \A i \in DOMAIN jobDiff : jobDiff[i].job \in 1..latest
  <2>1. MaxJobHistory \in Nat /\ MaxJobDiffs \in Nat \ {0}
    BY SessionAssumption
  <2>2. n \in Nat /\ n = MaxJobDiffs /\ DOMAIN jobDiff = 1..n /\ latest \in Nat /\ \A i \in DOMAIN jobDiff : jobDiff[i] \in JobEntry
    BY DEF JobsOK
  <2> HIDE DEF n, f
  <2> QED
    BY <2>1, <2>2 DEF JobEntry
<1>2. j \in 1..latest /\ j \notin RecordedJobs /\ j \in UnrecordedJobs
  BY DEF JobsOK, DistinctJobs, Unrecorded, UnrecordedJobs
<1>3. IsFiniteSet(LaterJobs(1)) /\ Cardinality(LaterJobs(1)) = n - 1 /\ LaterJobs(1) \subseteq RecordedJobs
  <2>1. LaterJobs(1) \subseteq RecordedJobs
    BY DEF LaterJobs, RecordedJobs
  <2> QED
    BY <1>1, <2>1, LaterCount
<1>4. f \in 1..latest /\ f \notin S
  <2>1. f \notin LaterJobs(1)
    BY <1>1 DEF LaterJobs, DistinctJobs
  <2>2. f \in RecordedJobs
    BY <1>1 DEF RecordedJobs
  <2> QED
    BY <1>1, <1>2, <2>1, <2>2
<1> HIDE DEF n, f, j
<1>5. IsFiniteSet(S) /\ Cardinality(S) = n
  <2>1. j \notin LaterJobs(1)
    BY <1>2, <1>3
  <2>2. IsFiniteSet(S) /\ Cardinality(S) = Cardinality(LaterJobs(1)) + 1
    BY <1>3, <2>1, FS_AddElement
  <2> HIDE DEF S
  <2> QED
    BY <1>1, <1>3, <2>2
<1>6. S \subseteq Overtaken(1) \cup Hi
  <2>1. S \subseteq 1..latest
    BY <1>1, <1>2, <1>3 DEF RecordedJobs
  <2>2. \A x \in S : x < f => x \in Overtaken(1)
    BY <1>2 DEF Overtaken, f
  <2>3. \A x \in S : x < f \/ x \in Hi
    BY <1>1, <1>4, <2>1
  <2> QED
    BY <2>2, <2>3
<1>7. /\ IsFiniteSet(Overtaken(1)) /\ Cardinality(Overtaken(1)) < Cardinality(Broadcasters)
      /\ Cardinality(Overtaken(1)) \in Nat /\ Cardinality(Broadcasters) \in Nat
      /\ MaxJobHistory + Cardinality(Broadcasters) <= MaxJobDiffs + 1
  BY <1>1, FS_CardinalityType DEF LateInv, RecordHoldsHistory
<1>8. IsFiniteSet(Hi) /\ Cardinality(Hi) \in Nat /\ Cardinality(Hi) <= latest - f
  <2>1. f + 1 \in Int /\ latest \in Int
    BY <1>1, <1>4
  <2>2. IsFiniteSet(Hi) /\ Cardinality(Hi) = IF f + 1 > latest THEN 0 ELSE latest - (f + 1) + 1
    BY <2>1, FS_Interval
  <2> HIDE DEF Hi
  <2> QED
    BY <1>1, <1>4, <2>2
<1> HIDE DEF S, Hi
<1>9. n <= Cardinality(Overtaken(1)) + Cardinality(Hi)
  BY <1>5, <1>6, <1>7, <1>8, UnionAtMost
<1>10. f \in Nat /\ f <= latest
  BY <1>1, <1>4
<1>11. MaxJobDiffs \in Nat
  BY <1>1
<1>12. f <= latest - MaxJobHistory
  BY <1>1, <1>7, <1>8, <1>9, <1>10, <1>11, EvictionCount
<1> QED
  BY <1>12 DEF f

\* A recorded job that is still mineable stays recorded, and so does what it was recorded at.
LEMMA RecordKeeps ==
  ASSUME CallOK, FieldsOK, JobsOK, DistinctJobs, LateInv, RecordHoldsHistory,
         NEW b \in Broadcasters, RecordJobDifficulty(b), Step(b) = "record"
  PROVE  /\ \A j : Mineable(j) => RecordedDiff(j) \subseteq RecordedDiff(j)'
         /\ \A j : j = call[b].job => RecordedAt \in RecordedDiff(j)'
<1> DEFINE n == Len(jobDiff)
           m == Len(jobDiff')
<1>1. /\ m = n + 1 - Dropped /\ \A i \in 1..(n - Dropped) : jobDiff'[i] = jobDiff[i + Dropped]
      /\ jobDiff'[m] = [job |-> call[b].job, diff |-> RecordedAt]
      /\ n \in Nat /\ Dropped \in 0..n /\ DOMAIN jobDiff = 1..n /\ DOMAIN jobDiff' = 1..m /\ (Dropped = 1 => n = MaxJobDiffs)
  BY RecordAdds
<1> HIDE DEF n, m
<1>2. Dropped \in {0, 1}
  BY DEF Dropped
<1>3. ASSUME Dropped = 1 PROVE jobDiff[1].job <= latest - MaxJobHistory
  BY <1>1, <1>3, DroppedIsOld DEF Unrecorded, n
<1>4. ASSUME NEW j, Mineable(j), NEW r \in RecordedDiff(j) PROVE r \in RecordedDiff(j)'
  <2>1. PICK i \in DOMAIN jobDiff : jobDiff[i].job = j /\ jobDiff[i].diff = r
    BY <1>4 DEF RecordedDiff
  <2>2. i # 1 \/ Dropped = 0
    <3>1. j > latest - MaxJobHistory
      BY <1>4 DEF Mineable
    <3>2. latest \in Nat /\ MaxJobHistory \in Nat /\ j \in Nat
      <4>1. jobDiff[i] \in JobEntry
        BY <2>1 DEF JobsOK
      <4> QED
        BY <2>1, <4>1, SessionAssumption DEF JobEntry, JobsOK
    <3> QED
      BY <1>2, <1>3, <2>1, <3>1, <3>2
  <2>3. i - Dropped \in 1..(n - Dropped) /\ (i - Dropped) + Dropped = i
    BY <1>1, <1>2, <2>1, <2>2
  <2>4. jobDiff'[i - Dropped] = jobDiff[i] /\ i - Dropped \in DOMAIN jobDiff'
    BY <1>1, <2>3
  <2> QED
    BY <2>1, <2>4 DEF RecordedDiff
<1>5. ASSUME NEW j, j = call[b].job PROVE RecordedAt \in RecordedDiff(j)'
  <2>1. m \in DOMAIN jobDiff' /\ jobDiff'[m].job = j /\ jobDiff'[m].diff = RecordedAt
    BY <1>1, <1>2, <1>5
  <2> QED
    BY <2>1 DEF RecordedDiff
<1> QED
  BY <1>4, <1>5

\* Where the difficulty changes with a new block only, and one goroutine changes it.
Bounded == OneChanger /\ config.onNewBlock /\ ~config.acceptSuggest

\* The difficulties the miner may work its next job at.
Known == {told, before} \ {0}
\* The worker's first moments, in which the store's difficulty may still come.
Young == authorizes = 0 \/ call["reader"].by = "authorize" \/ Step("hook") = "restore"
\* A new difficulty waits for the next block, or is about to.
Ahead == pendingDiff > 0 \/ retarget \/ Step("reader") \in {"retarget", "queue"}
\* The record of its job alone makes a share of difficulty d good.
Strong(j, d) == \E r \in RecordedDiff(j) : r <= d
BroadcastWork == {w \in work : w.by = "broadcast"}
\* Nothing was sent to the miner yet.
Fresh == authorizes = 0 \/ (call["reader"].by = "authorize" /\ Step("reader") = "tell")

KnownInv ==
  /\ Known \subseteq {difficulty} \cup (IF recent THEN {prevDiff} ELSE {})
  /\ Young => before = 0
  /\ Fresh => told = 0 /\ BroadcastWork = {} /\ \A b \in Broadcasters : Step(b) \in {"idle", "send"}
  /\ Ahead => ~recent
  /\ before # 0 => recent
  /\ (\E t \in Threads : Tells(t)) => recent \/ told = 0

\* A job about to be sent is recorded at a difficulty the miner's next work meets.
NotifyInv ==
  \A b \in Broadcasters : Step(b) = "notify" /\ Mineable(call[b].job) =>
    \E r \in RecordedDiff(call[b].job) :
      /\ \A d \in Known : r <= d \/ difficulty <= d
      /\ Young \/ Ahead => r <= difficulty

WorkAcceptable == \A w \in BroadcastWork : Mineable(w.job) => difficulty <= w.diff \/ Strong(w.job, w.diff)

\* The work a change of difficulty can reach is good by the record already.
CalmInv ==
  /\ Young => \A w \in BroadcastWork : Mineable(w.job) => Strong(w.job, w.diff)
  /\ Ahead => \A b \in Broadcasters : Step(b) # "idle" =>
       \A w \in BroadcastWork : w.job >= call[b].job /\ Mineable(w.job) => Strong(w.job, w.diff)

WorkSafe == KnownInv /\ NotifyInv /\ WorkAcceptable /\ CalmInv

LEMMA Later ==
  ASSUME NEW j \in Nat, NEW l \in Nat, NEW k \in Nat, NEW h \in Nat, k >= l, j > k - h PROVE j > l - h
OBVIOUS

LEMMA MineableLess ==
  ASSUME JobsOK, [SessionNext]_sessionVars
  PROVE  latest' >= latest /\ \A j \in Nat : Mineable(j)' => Mineable(j)
<1>1. latest \in Nat /\ tipJob \in Nat /\ latest' \in Nat /\ tipJob' \in Nat /\ latest' >= latest /\ tipJob' >= tipJob
  <2>1. CASE UNCHANGED jobVars \/ \E b \in Broadcasters : SendJob(b)
    <3>1. latest' = latest /\ tipJob' = tipJob
      BY <2>1 DEF jobVars, SendJob
    <3> QED
      BY <3>1 DEF JobsOK
  <2>2. CASE \E b \in Broadcasters, clean \in BOOLEAN : NewJob(b, clean)
    BY <2>2 DEF JobsOK, NewJob
  <2> QED
    BY <2>1, <2>2, JobFrames
<1>2. MaxJobHistory \in Nat
  BY SessionAssumption
<1>3. ASSUME NEW j \in Nat, Mineable(j)' PROVE Mineable(j)
  <2>1. j > latest' - MaxJobHistory /\ j >= tipJob'
    BY <1>3 DEF Mineable
  <2>2. j > latest - MaxJobHistory
    BY <1>1, <1>2, <2>1, Later
  <2>3. j >= tipJob
    BY <1>1, <2>1
  <2> QED
    BY <2>2, <2>3 DEF Mineable
<1> QED
  BY <1>1, <1>3

\* The broadcasts keep to their jobs.
KeepsToJobs ==
  \A b \in Broadcasters :
    /\ Step(b)' # "idle" => (Step(b) # "idle" /\ call'[b].job = call[b].job) \/ call'[b].job > latest
    /\ Step(b)' = "notify" => Step(b) = "notify" /\ call'[b].job = call[b].job

NothingNew ==
  /\ UNCHANGED <<difficulty, prevDiff, recent, told, before, jobDiff, work>>
  /\ Young' => Young
  /\ Ahead' => Ahead
  /\ Fresh' => Fresh /\ \A b \in Broadcasters : Step(b)' \in {"idle", "send"}
  /\ (\E t \in Threads : Tells(t)') => \E t \in Threads : Tells(t)

LEMMA JobsAreNat ==
  ASSUME JobsOK
  PROVE  /\ latest \in Nat
         /\ \A w \in BroadcastWork : w.job \in 1..latest /\ w.diff \in Diffs
         /\ \A b \in Broadcasters : Step(b) # "idle" => call[b].job \in 1..latest
BY DEF JobsOK, BroadcastWork, WorkItem

LEMMA QuietWork ==
  ASSUME JobsOK, JobsOK', WorkSafe, [SessionNext]_sessionVars, NothingNew, KeepsToJobs
  PROVE  WorkSafe'
<1>1. /\ UNCHANGED <<difficulty, prevDiff, recent, told, before, jobDiff, work>>
      /\ (Young' => Young) /\ (Ahead' => Ahead)
  BY DEF NothingNew
<1>2. Known' = Known /\ BroadcastWork' = BroadcastWork /\ (\A j : RecordedDiff(j)' = RecordedDiff(j)) /\ \A j, d : Strong(j, d)' <=> Strong(j, d)
  BY <1>1 DEF Known, BroadcastWork, RecordedDiff, Strong
<1>3. \A j \in Nat : Mineable(j)' => Mineable(j)
  BY MineableLess
<1>4. KnownInv'
  BY <1>1, <1>2 DEF WorkSafe, KnownInv, NothingNew
<1>5. NotifyInv'
  <2>1. ASSUME NEW b \in Broadcasters, Step(b)' = "notify", Mineable(call[b].job)'
        PROVE  \E r \in RecordedDiff(call[b].job)' : (\A d \in Known' : r <= d \/ difficulty' <= d) /\ (Young' \/ Ahead' => r <= difficulty')
    <3>1. Step(b) = "notify" /\ call'[b].job = call[b].job /\ call[b].job \in Nat
      BY <2>1, JobsAreNat DEF KeepsToJobs
    <3>2. Mineable(call[b].job)
      BY <1>3, <2>1, <3>1 DEF Mineable
    <3>3. PICK r \in RecordedDiff(call[b].job) : (\A d \in Known : r <= d \/ difficulty <= d) /\ (Young \/ Ahead => r <= difficulty)
      BY <3>1, <3>2 DEF WorkSafe, NotifyInv
    <3> QED
      BY <1>1, <1>2, <3>1, <3>3
  <2> QED
    BY <2>1 DEF NotifyInv
<1>6. WorkAcceptable'
  BY <1>1, <1>2, <1>3, JobsAreNat DEF WorkSafe, WorkAcceptable
<1>7. CalmInv'
  <2>1. ASSUME Young', NEW w \in BroadcastWork', Mineable(w.job)' PROVE Strong(w.job, w.diff)'
    BY <1>1, <1>2, <1>3, <2>1, JobsAreNat DEF WorkSafe, CalmInv
  <2>2. ASSUME Ahead', NEW b \in Broadcasters, Step(b)' # "idle", NEW w \in BroadcastWork', w.job >= call'[b].job, Mineable(w.job)'
        PROVE  Strong(w.job, w.diff)'
    <3>1. w \in BroadcastWork /\ w.job \in 1..latest /\ latest \in Nat /\ Mineable(w.job) /\ Ahead
      BY <1>1, <1>2, <1>3, <2>2, JobsAreNat
    <3>2. CASE Step(b) # "idle" /\ call'[b].job = call[b].job
      BY <1>2, <2>2, <3>1, <3>2 DEF WorkSafe, CalmInv
    <3>3. CASE call'[b].job > latest
      <4>1. call'[b].job \in Nat
        <5>1. JobsOK'
          OBVIOUS
        <5> QED
          BY <2>2, <5>1 DEF JobsOK
      <4> QED
        BY <2>2, <3>1, <3>3, <4>1
    <3> QED
      BY <2>2, <3>2, <3>3 DEF KeepsToJobs
  <2> QED
    BY <2>1, <2>2 DEF CalmInv
<1> QED
  BY <1>4, <1>5, <1>6, <1>7 DEF WorkSafe

WorkHere == InStep /\ JobsOK /\ DistinctJobs /\ Bounded /\ WorkSafe

\* Who may be doing what while thread t changes the difficulty.
LEMMA ChangerFacts ==
  ASSUME WorkHere, NEW t \in Threads, Changes(t)
  PROVE  /\ NoOther(t) /\ ~(pendingDiff > 0)
         /\ t # "reader" => authorizes # 0 /\ call["reader"].by # "authorize" /\ ~Ahead /\ (t # "hook" => Step("hook") # "restore")
         /\ call["reader"].by = "authorize" => authorizes # 0 /\ ~retarget /\ Step("hook") # "restore"
<1>1. NoOther(t) /\ AloneChange(t)
  BY OneAlone DEF WorkHere
<1>2. t # "reader" => ~Changes("reader") /\ authorizes # 0 /\ ~retarget
  BY <1>1, ThreadsDiffer DEF NoOther, AloneChange
<1>3. t # "hook" => ~Changes("hook")
  BY <1>1, ThreadsDiffer DEF NoOther
<1>4. call["reader"].by = "authorize" => authorizes # 0 /\ ~retarget /\ t = "reader"
  BY <1>1, <1>2, ThreadsDiffer DEF AloneChange, Changes
<1> QED
  BY <1>1, <1>2, <1>3, <1>4, ThreadsDiffer DEF AloneChange, Changes, Ahead

LEMMA ReaderSteps ==
  ASSUME WorkHere
  PROVE  /\ call["reader"].by \in {"nobody", "authorize", "midblock"}
         /\ call["reader"].by = "nobody" => Step("reader") = "idle"
         /\ call["reader"].by = "midblock" => Step("reader") \in {"retarget", "queue"}
         /\ call["reader"].by = "authorize" => Step("reader") \in {"tell", "notify", "hook"}
BY StepsOK, ThreadsDiffer DEF WorkHere, Bounded, InStep, ChangeInv, StepOK, Delivery

LEMMA StayKeepsJobs ==
  ASSUME NEW t \in Threads, OthersStay(t), t \notin Broadcasters
  PROVE  KeepsToJobs /\ \A b \in Broadcasters : call'[b] = call[b] /\ Step(b)' = Step(b)
BY BroadcastsStay DEF KeepsToJobs

LEMMA StartHookWork ==
  ASSUME WorkHere, JobsOK', StartHook
  PROVE  WorkSafe'
<1>1. /\ Step("reader") = "hook" /\ call["reader"].by = "authorize" /\ Step("hook") = "idle"
      /\ call'["reader"].by = "nobody" /\ Step("reader")' = "idle"
      /\ call'["hook"].by = "hook" /\ Step("hook")' = "restore"
      /\ \A b \in Broadcasters : call'[b] = call[b] /\ Step(b)' = Step(b)
  BY StartHookCalls DEF WorkHere, InStep
<1>2. UNCHANGED <<difficulty, prevDiff, recent, pendingDiff, retarget, told, before, jobDiff, work, authorizes>>
  BY DEF StartHook, fieldVars, vardiffVars, minerVars, boundVars
<1>3. authorizes # 0
  BY <1>1, ChangerFacts, ThreadsDiffer DEF Changes
<1>4. ~ \E t \in Threads : Tells(t)'
  <2>1. Changes("reader") /\ NoOther("reader")
    BY <1>1, ChangerFacts, ThreadsDiffer DEF Changes
  <2>2. \A b \in Broadcasters : ~Tells(b)'
    BY <1>1, <2>1, ThreadsDiffer DEF NoOther, Tells, Changes
  <2> QED
    BY <1>1, <2>2, ThreadsDiffer DEF Tells
<1>5. NothingNew
  BY <1>1, <1>2, <1>3, <1>4 DEF NothingNew, Young, Ahead, Fresh
<1>6. KeepsToJobs
  BY <1>1 DEF KeepsToJobs
<1> QED
  BY <1>5, <1>6, QuietWork DEF WorkHere, SessionNext

\* The reader's steps to a retarget.
LEMMA ReaderWork ==
  ASSUME WorkHere, JobsOK', Submit \/ VardiffRecordShare \/ QueueDifficulty
  PROVE  WorkSafe'
<1>1. /\ OthersStay("reader") /\ Ahead /\ call["reader"].by # "authorize"
      /\ call'["reader"].by \in {"nobody", "midblock"} /\ Step("reader")' \in {"idle", "retarget", "queue"}
  <2>1. CASE Submit
    <3>1. call["reader"].by = "nobody" /\ retarget
      BY <2>1, StepsOK, ThreadsDiffer DEF Submit, StepOK, Step, WorkHere, InStep, Delivery
    <3> QED
      BY <2>1, <3>1, SubmitCalls DEF Becomes, Moves, Ahead, WorkHere, InStep
  <2>2. CASE VardiffRecordShare
    <3>1. config.onNewBlock
      BY DEF WorkHere, Bounded
    <3> QED
      BY <2>2, <3>1, RetargetCalls DEF Becomes, Moves, Ahead, WorkHere, InStep, Delivery
  <2>3. CASE QueueDifficulty
    BY <2>3, QueueCalls DEF Becomes, Moves, Ahead, WorkHere, InStep
  <2> QED
    BY <2>1, <2>2, <2>3
<1>2. UNCHANGED <<difficulty, prevDiff, recent, told, before, jobDiff, work, authorizes>>
  BY DEF Submit, VardiffRecordShare, QueueDifficulty, fieldVars, vardiffVars, minerVars, boundVars
<1>3. /\ KeepsToJobs /\ \A b \in Broadcasters : Step(b)' = Step(b)
      /\ \A u \in Threads : u # "reader" => (Tells(u)' <=> Tells(u)) /\ Step(u)' = Step(u)
  BY <1>1, StayKeepsJobs, OthersSame, ThreadsDiffer
<1>4. Young' => Young
  BY <1>1, <1>2, <1>3, ThreadsDiffer DEF Young
<1>5. Fresh' => Fresh /\ \A b \in Broadcasters : Step(b)' \in {"idle", "send"}
  BY <1>1, <1>2, <1>3 DEF Fresh, WorkHere, WorkSafe, KnownInv
<1>6. (\E t \in Threads : Tells(t)') => \E t \in Threads : Tells(t)
  <2>1. ~Tells("reader")'
    BY <1>1 DEF Tells
  <2> QED
    BY <1>3, <2>1
<1>7. NothingNew
  BY <1>1, <1>2, <1>4, <1>5, <1>6 DEF NothingNew
<1> QED
  BY <1>3, <1>7, QuietWork DEF WorkHere, SessionNext

LEMMA ResetWork ==
  ASSUME WorkHere, JobsOK', NEW t \in Threads, Common(t), ResetWindow(t)
  PROVE  WorkSafe'
<1>1. GoesOn(t) /\ OthersStay(t) /\ Step(t) = "reset" /\ StepOK(t)
  BY CommonCalls, StepsOK DEF WorkHere, InStep, GoesOn, Moves, ResetWindow, At, Step
<1>2. t # "reader" /\ Changes(t)
  BY <1>1, ReaderSteps DEF Changes
<1>3. /\ authorizes # 0 /\ call["reader"].by # "authorize" /\ NoOther(t) /\ ~(pendingDiff > 0)
      /\ call'["reader"] = call["reader"] /\ Step("reader")' = Step("reader")
  BY <1>1, <1>2, ChangerFacts, StepStays, ThreadsDiffer
<1>4. \/ t = "hook" /\ Step(t)' = "tell" /\ call[t].by = "hook"
      \/ t \in Broadcasters /\ Step(t)' = "record" /\ call'[t].job = call[t].job
  BY <1>1, <1>2, ThreadsDiffer DEF GoesOn, After, StepOK
<1>5. UNCHANGED <<difficulty, prevDiff, recent, pendingDiff, told, before, jobDiff, work, authorizes>> /\ retarget' = FALSE
  BY DEF ResetWindow, SetWindow, fieldVars, minerVars, boundVars
<1>6. KeepsToJobs
  BY <1>1, <1>4, StepStays, ThreadsDiffer DEF KeepsToJobs
<1>7. Step("hook")' # "restore" \/ Step("hook")' = Step("hook")
  BY <1>1, <1>4, StepStays, ThreadsDiffer
<1>8. Tells(t)' => Tells(t)
  BY <1>1, <1>4, ThreadsDiffer DEF Tells
<1>9. \A u \in Threads : Tells(u)' => Tells(u)
  BY <1>1, <1>8, OthersSame
<1>10. NothingNew
  BY <1>3, <1>5, <1>7, <1>9 DEF NothingNew, Young, Ahead, Fresh
<1> QED
  BY <1>6, <1>10, QuietWork DEF WorkHere, SessionNext

LEMMA NewJobWork ==
  ASSUME WorkHere, JobsOK', NEW b \in Broadcasters, NEW clean \in BOOLEAN, NewJob(b, clean)
  PROVE  WorkSafe'
<1>1. Becomes(b, "broadcast", "send") /\ OthersStay(b) /\ call'[b].job = latest' /\ latest' = latest + 1
  BY NewJobCalls DEF WorkHere, InStep, Becomes, Moves, NewJob
<1>2. UNCHANGED <<difficulty, prevDiff, recent, pendingDiff, retarget, told, before, jobDiff, work, authorizes>>
  BY DEF NewJob, fieldVars, vardiffVars, minerVars, boundVars
<1>3. \A u \in Threads : u # b => call'[u] = call[u] /\ Step(u)' = Step(u) /\ (Tells(u)' <=> Tells(u))
  BY <1>1, OthersSame
<1>4. KeepsToJobs
  BY <1>1, <1>3, ThreadsDiffer DEF KeepsToJobs, Becomes, WorkHere, JobsOK
<1>5. Young' = Young /\ Ahead' = Ahead /\ Fresh' = Fresh
  BY <1>2, <1>3, ThreadsDiffer DEF Young, Ahead, Fresh
<1>6. Fresh' => Fresh /\ \A c \in Broadcasters : Step(c)' \in {"idle", "send"}
  BY <1>1, <1>3, <1>5, ThreadsDiffer DEF Becomes, WorkHere, WorkSafe, KnownInv
<1>7. \A u \in Threads : Tells(u)' => Tells(u)
  BY <1>1, <1>3 DEF Becomes, Tells
<1>8. NothingNew
  BY <1>2, <1>5, <1>6, <1>7 DEF NothingNew
<1>9. SessionNext
  BY DEF SessionNext
<1> QED
  BY <1>4, <1>8, <1>9, QuietWork DEF WorkHere

LEMMA SendWork ==
  ASSUME WorkHere, JobsOK', NEW b \in Broadcasters, SendJob(b), ~(state = "authorized" /\ FlushesPending(b))
  PROVE  WorkSafe'
<1>1. /\ OthersStay(b) /\ Step(b) = "send"
      /\ Step(b)' = "idle" \/ (Step(b)' = "record" /\ call'[b].job = call[b].job /\ state = "authorized")
  BY SendCalls DEF WorkHere, InStep, Becomes, Moves
<1>2. UNCHANGED <<difficulty, prevDiff, recent, pendingDiff, retarget, told, before, jobDiff, work, authorizes>>
  BY DEF SendJob, fieldVars, vardiffVars, minerVars, boundVars
<1>3. \A u \in Threads : u # b => call'[u] = call[u] /\ Step(u)' = Step(u) /\ (Tells(u)' <=> Tells(u))
  BY <1>1, OthersSame
<1>4. KeepsToJobs
  BY <1>1, <1>3, ThreadsDiffer DEF KeepsToJobs
<1>5. Young' = Young /\ Ahead' = Ahead /\ Fresh' = Fresh
  BY <1>2, <1>3, ThreadsDiffer DEF Young, Ahead, Fresh
<1>6. state = "authorized" => ~Fresh
  <2>1. MuFree
    BY DEF SendJob
  <2>2. Idle("reader") => Step("reader") = "idle"
    BY DEF Step
  <2>3. state = "authorized" => authorizes # 0
    BY DEF WorkHere, InStep, ChangeInv
  <2> QED
    BY <2>1, <2>2, <2>3 DEF MuFree, Fresh
<1>7. Fresh' => Fresh /\ \A c \in Broadcasters : Step(c)' \in {"idle", "send"}
  BY <1>1, <1>3, <1>5, <1>6, ThreadsDiffer DEF WorkHere, WorkSafe, KnownInv
<1>8. \A u \in Threads : Tells(u)' => Tells(u)
  BY <1>1, <1>3 DEF Tells
<1>9. NothingNew
  BY <1>2, <1>5, <1>7, <1>8 DEF NothingNew
<1>10. SessionNext
  BY DEF SessionNext
<1> QED
  BY <1>4, <1>9, <1>10, QuietWork DEF WorkHere

\* Nothing moves.
LEMMA StillWork ==
  ASSUME WorkHere, JobsOK', Subscribe \/ UNCHANGED sessionVars
  PROVE  WorkSafe'
<1>1. UNCHANGED <<difficulty, prevDiff, recent, pendingDiff, retarget, told, before, jobDiff, work, authorizes, call, config>>
  BY DEF Subscribe, sessionVars, fieldVars, vardiffVars, minerVars, boundVars
<1>2. \A t \in Threads : Step(t)' = Step(t) /\ call'[t] = call[t] /\ (Tells(t)' <=> Tells(t))
  BY <1>1, CallStays DEF WorkHere, InStep, Tells
<1>3. KeepsToJobs
  BY <1>2, ThreadsDiffer DEF KeepsToJobs
<1>4. Young' = Young /\ Ahead' = Ahead /\ Fresh' = Fresh
  BY <1>1, <1>2, ThreadsDiffer DEF Young, Ahead, Fresh
<1>5. NothingNew
  BY <1>1, <1>2, <1>4, ThreadsDiffer DEF NothingNew, WorkHere, WorkSafe, KnownInv
<1> QED
  BY <1>3, <1>5, QuietWork DEF WorkHere, SessionNext

\* A difficulty set before any work was sent.
LEMMA FreshWork ==
  ASSUME WorkHere, authorizes = 0, ~Ahead', UNCHANGED <<told, before, work>>,
         \A b \in Broadcasters : Step(b)' = Step(b)
  PROVE  WorkSafe'
<1>1. told = 0 /\ before = 0 /\ BroadcastWork = {} /\ \A b \in Broadcasters : Step(b) \in {"idle", "send"}
  BY DEF WorkHere, WorkSafe, KnownInv, Fresh, Young
<1>2. told' = 0 /\ before' = 0 /\ BroadcastWork' = {} /\ Known' = {} /\ \A b \in Broadcasters : Step(b)' \in {"idle", "send"}
  BY <1>1 DEF BroadcastWork, Known
<1>3. KnownInv'
  BY <1>2 DEF KnownInv
<1>4. NotifyInv'
  BY <1>2 DEF NotifyInv
<1>5. WorkAcceptable' /\ CalmInv'
  BY <1>2 DEF WorkAcceptable, CalmInv
<1> QED
  BY <1>3, <1>4, <1>5 DEF WorkSafe

LEMMA AuthorizeWork ==
  ASSUME WorkHere, OneChanger', NEW p \in Passwords, Authorize(p) \/ AuthorizeRejected(p)
  PROVE  WorkSafe'
<1>1. authorizes = 0 /\ Step("reader") = "idle" /\ UNCHANGED <<told, before, work, pendingDiff>>
      /\ (retarget' => retarget)
  <2>1. authorizes \in Nat
    BY DEF WorkHere, InStep, FieldsOK
  <2>2. CASE Authorize(p)
    BY <2>1, <2>2 DEF OneChanger, Authorize, ReaderFree, Step, minerVars, vardiffVars, SetWindow
  <2>3. CASE AuthorizeRejected(p)
    BY <2>1, <2>3 DEF OneChanger, AuthorizeRejected, ReaderFree, Step, minerVars, SetWindow
  <2> QED
    BY <2>2, <2>3
<1>2. ~(pendingDiff > 0) /\ ~retarget
  BY <1>1 DEF WorkHere, InStep, ChangeInv
<1>3. Step("reader")' \in {"idle", "tell"} /\ \A b \in Broadcasters : Step(b)' = Step(b)
  <2>1. CASE Authorize(p)
    BY <2>1, AuthorizeCalls, StayKeepsJobs, ThreadsDiffer DEF Becomes, Moves, WorkHere, InStep
  <2>2. CASE AuthorizeRejected(p)
    BY <1>1, <2>2, CallStays, ThreadsDiffer DEF AuthorizeRejected, WorkHere, InStep
  <2> QED
    BY <2>1, <2>2
<1>4. ~Ahead'
  BY <1>1, <1>2, <1>3 DEF Ahead
<1> QED
  BY <1>1, <1>3, <1>4, FreshWork

\* A difficulty set between jobs the miner has.
LEMMA ChangeWork ==
  ASSUME WorkHere, JobsOK', [SessionNext]_sessionVars, Young \/ Ahead, Known \subseteq {difficulty}, ~Young', ~Ahead', ~Fresh',
         prevDiff' = difficulty, recent' = TRUE, UNCHANGED <<told, before, jobDiff, work>>, KeepsToJobs,
         \A w \in BroadcastWork : Mineable(w.job) => Strong(w.job, w.diff)
  PROVE  WorkSafe'
<1>1. Known' = Known /\ BroadcastWork' = BroadcastWork /\ (\A j : RecordedDiff(j)' = RecordedDiff(j)) /\ \A j, d : Strong(j, d)' <=> Strong(j, d)
  BY DEF Known, BroadcastWork, RecordedDiff, Strong
<1>2. \A j \in Nat : Mineable(j)' => Mineable(j)
  BY MineableLess DEF WorkHere
<1>3. KnownInv'
  BY <1>1 DEF KnownInv
<1>4. NotifyInv'
  <2>1. ASSUME NEW b \in Broadcasters, Step(b)' = "notify", Mineable(call[b].job)'
        PROVE  \E r \in RecordedDiff(call[b].job)' : (\A d \in Known' : r <= d \/ difficulty' <= d) /\ (Young' \/ Ahead' => r <= difficulty')
    <3>1. Step(b) = "notify" /\ call'[b].job = call[b].job /\ call[b].job \in Nat
      BY <2>1, JobsAreNat DEF KeepsToJobs, WorkHere
    <3>2. Mineable(call[b].job)
      BY <1>2, <2>1, <3>1 DEF Mineable
    <3>3. PICK r \in RecordedDiff(call[b].job) : (\A d \in Known : r <= d \/ difficulty <= d) /\ (Young \/ Ahead => r <= difficulty)
      BY <3>1, <3>2 DEF WorkSafe, NotifyInv, WorkHere
    <3> QED
      BY <1>1, <3>1, <3>3
  <2> QED
    BY <2>1 DEF NotifyInv
<1>5. WorkAcceptable'
  BY <1>1, <1>2, JobsAreNat DEF WorkAcceptable, WorkHere
<1>6. CalmInv'
  BY DEF CalmInv
<1> QED
  BY <1>3, <1>4, <1>5, <1>6 DEF WorkSafe

LEMMA RestoreWork ==
  ASSUME WorkHere, JobsOK', SetInitialDifficulty
  PROVE  WorkSafe'
<1>1. /\ Step("hook") = "restore" /\ call["hook"].by = "hook" /\ OthersStay("hook")
      /\ IF storedDiff = 0 THEN Step("hook")' = "idle" ELSE Step("hook")' = "reset"
  BY RestoreCalls DEF WorkHere, InStep, Becomes, Moves
<1>2. /\ NoOther("hook") /\ ~(pendingDiff > 0) /\ authorizes # 0 /\ call["reader"].by # "authorize" /\ ~Ahead
      /\ KeepsToJobs /\ call'["reader"] = call["reader"] /\ Step("reader")' = Step("reader")
      /\ \A b \in Broadcasters : Step(b)' = Step(b)
  BY <1>1, ChangerFacts, StayKeepsJobs, StepStays, ThreadsDiffer DEF Changes
<1>3. UNCHANGED <<pendingDiff, retarget, told, before, jobDiff, work, authorizes>>
  BY DEF SetInitialDifficulty, vardiffVars, minerVars, boundVars
<1>4. ~Young' /\ ~Ahead' /\ ~Fresh'
  BY <1>1, <1>2, <1>3 DEF Young, Ahead, Fresh
<1>5. ~ \E t \in Threads : Tells(t)
  BY <1>1, <1>2 DEF NoOther, Tells, Changes
<1>6. Young
  BY <1>1 DEF Young
<1>7. CASE storedDiff = 0
  <2>1. UNCHANGED <<difficulty, prevDiff, recent>>
    BY <1>7 DEF SetInitialDifficulty, fieldVars
  <2>2. ~ \E t \in Threads : Tells(t)'
    <3>1. ~Tells("hook")'
      BY <1>1, <1>7 DEF Tells
    <3> QED
      BY <1>1, <1>5, <3>1, OthersSame
  <2>3. NothingNew
    BY <1>3, <1>4, <2>1, <2>2 DEF NothingNew
  <2> QED
    BY <1>2, <2>3, QuietWork DEF WorkHere, SessionNext
<1>8. CASE storedDiff # 0
  <2>1. prevDiff' = difficulty /\ recent' = TRUE
    BY <1>8 DEF SetInitialDifficulty, ChangeDifficulty
  <2>2. before = 0 /\ told = difficulty
    BY <1>2, <1>5, <1>6 DEF WorkHere, WorkSafe, KnownInv, InStep, StepInv
  <2>3. Known \subseteq {difficulty} /\ \A w \in BroadcastWork : Mineable(w.job) => Strong(w.job, w.diff)
    BY <1>6, <2>2 DEF Known, WorkHere, WorkSafe, CalmInv
  <2> QED
    BY <1>2, <1>3, <1>4, <1>6, <2>1, <2>3, ChangeWork DEF SessionNext
<1> QED
  BY <1>7, <1>8

LEMMA FlushWork ==
  ASSUME WorkHere, JobsOK', NEW b \in Broadcasters, SendJob(b), state = "authorized", FlushesPending(b)
  PROVE  WorkSafe'
<1>1. Step(b) = "send" /\ OthersStay(b) /\ Step(b)' = "tell" /\ call'[b].job = call[b].job
  BY SendCalls DEF WorkHere, InStep, Becomes, Moves
<1>2. /\ UNCHANGED <<retarget, told, before, jobDiff, work, authorizes>>
      /\ pendingDiff' = 0 /\ pendingDiff > 0 /\ prevDiff' = difficulty /\ recent' = TRUE
  BY DEF SendJob, FlushesPending, ChangeDifficulty, vardiffVars, minerVars, boundVars
<1>3. (\A t \in Threads : ~Changes(t)) /\ authorizes # 0 /\ ~retarget
  BY <1>2 DEF WorkHere, InStep, ChangeInv
<1>4. /\ call["reader"].by # "authorize" /\ Step("reader") \notin {"retarget", "queue"} /\ Step("hook") # "restore"
      /\ call'["reader"] = call["reader"] /\ Step("reader")' = Step("reader") /\ Step("hook")' = Step("hook")
  BY <1>1, <1>3, StepStays, ThreadsDiffer DEF Changes
<1>5. KeepsToJobs
  BY <1>1, StepStays, ThreadsDiffer DEF KeepsToJobs
<1>6. Ahead /\ ~Young' /\ ~Ahead' /\ ~Fresh'
  BY <1>2, <1>3, <1>4 DEF Ahead, Young, Fresh
<1>7. told = difficulty /\ before = 0
  <2>1. \A t \in Threads : ~Tells(t)
    BY <1>3 DEF Tells, Changes
  <2> QED
    BY <1>3, <1>6, <2>1 DEF WorkHere, WorkSafe, KnownInv, InStep, StepInv
<1>8. Known \subseteq {difficulty}
  BY <1>7 DEF Known
<1>9. ASSUME NEW w \in BroadcastWork, Mineable(w.job) PROVE Strong(w.job, w.diff)
  <2>1. call[b].clean
    BY DEF FlushesPending, WorkHere, Bounded
  <2>2. call[b].job <= tipJob /\ tipJob \in Nat /\ call[b].job \in 1..latest /\ w.job \in 1..latest /\ latest \in Nat
    BY <1>1, <2>1, JobsAreNat DEF WorkHere, JobsOK
  <2>3. w.job >= tipJob
    BY <1>9 DEF Mineable
  <2>4. w.job >= call[b].job
    BY <2>2, <2>3
  <2> QED
    BY <1>1, <1>6, <1>9, <2>4 DEF WorkHere, WorkSafe, CalmInv
<1>10. [SessionNext]_sessionVars
  BY DEF SessionNext
<1> QED
  BY <1>2, <1>5, <1>6, <1>8, <1>9, <1>10, ChangeWork

LEMMA TellWork ==
  ASSUME WorkHere, JobsOK', NEW t \in Threads, Common(t), SendDifficulty(t)
  PROVE  WorkSafe'
<1>1. GoesOn(t) /\ OthersStay(t) /\ Step(t) = "tell" /\ StepOK(t)
  BY CommonCalls, StepsOK DEF WorkHere, InStep, GoesOn, Moves, SendDifficulty, At, Step
<1>2. Changes(t) /\ Tells(t)
  BY <1>1 DEF Changes, Tells
<1>3. NoOther(t) /\ ~(pendingDiff > 0) /\ ~retarget /\ authorizes # 0
      /\ (t # "reader" => call["reader"].by # "authorize" /\ ~Ahead /\ (t # "hook" => Step("hook") # "restore"))
      /\ (t = "reader" => call["reader"].by = "authorize" /\ Step("hook") # "restore")
  BY <1>1, <1>2, ChangerFacts, ReaderSteps DEF Ahead
<1>4. \/ t = "reader" /\ Step(t)' = "notify" /\ call'[t].by = "authorize"
      \/ t = "hook" /\ Step(t)' = "idle"
      \/ t \in Broadcasters /\ Step(t)' = "reset" /\ call'[t].by = "broadcast" /\ call'[t].job = call[t].job
  BY <1>1, <1>3, ThreadsDiffer DEF GoesOn, After, StepOK
<1>5. /\ UNCHANGED <<difficulty, prevDiff, recent, pendingDiff, retarget, jobDiff, work, authorizes>>
      /\ told' = difficulty /\ before' = told
  <2>1. call[t].diff = difficulty
    BY <1>2 DEF WorkHere, InStep, StepInv
  <2> QED
    BY <2>1 DEF SendDifficulty, fieldVars, vardiffVars, boundVars
<1>6. Known' \subseteq {difficulty} \cup Known
  BY <1>5 DEF Known
<1>7. BroadcastWork' = BroadcastWork /\ (\A j : RecordedDiff(j)' = RecordedDiff(j)) /\ \A j, d : Strong(j, d)' <=> Strong(j, d)
  BY <1>5 DEF BroadcastWork, RecordedDiff, Strong
<1>8. ~Ahead' /\ ~Fresh' /\ (Young' => t = "reader")
  <2>1. CASE t = "reader"
    <3>1. Step(t)' = "notify"
      BY <1>4, <2>1, ThreadsDiffer
    <3> QED
      BY <1>3, <1>5, <2>1, <3>1 DEF Ahead, Fresh
  <2>2. CASE t # "reader"
    <3>1. call'["reader"] = call["reader"] /\ Step("reader")' = Step("reader") /\ (t # "hook" => Step("hook")' = Step("hook"))
      BY <1>1, <2>2, StepStays, ThreadsDiffer
    <3>2. Step("hook")' # "restore"
      BY <1>3, <1>4, <2>2, <3>1, ThreadsDiffer
    <3> QED
      BY <1>3, <1>5, <2>2, <3>1, <3>2 DEF Ahead, Fresh, Young
  <2> QED
    BY <2>1, <2>2
<1>9. t = "reader" => told = 0 /\ Fresh
  BY <1>1, <1>3 DEF Fresh, WorkHere, WorkSafe, KnownInv
<1>10. told = 0 \/ recent
  BY <1>2 DEF WorkHere, WorkSafe, KnownInv
<1>11. ~ \E u \in Threads : Tells(u)'
  <2>1. ~Tells(t)'
    BY <1>1, <1>4, ThreadsDiffer DEF Tells
  <2>2. \A u \in Threads : u # t => ~Tells(u)
    BY <1>3 DEF NoOther, Tells, Changes
  <2> QED
    BY <1>1, <2>1, <2>2, OthersSame
<1>12. KnownInv'
  <2>1. Known \subseteq {difficulty} \cup (IF recent THEN {prevDiff} ELSE {})
    BY DEF WorkHere, WorkSafe, KnownInv
  <2> QED
    BY <1>5, <1>6, <1>8, <1>9, <1>10, <1>11, <2>1 DEF KnownInv
<1>13. NotifyInv'
  <2>1. ASSUME NEW b \in Broadcasters, Step(b)' = "notify", Mineable(call[b].job)'
        PROVE  \E r \in RecordedDiff(call[b].job)' : (\A d \in Known' : r <= d \/ difficulty' <= d) /\ (Young' \/ Ahead' => r <= difficulty')
    <3>1. b # t
      BY <1>4, <2>1, ThreadsDiffer
    <3>2. Step(b) = "notify" /\ call'[b].job = call[b].job /\ call[b].job \in Nat
      BY <1>1, <2>1, <3>1, StepStays, JobsAreNat, ThreadsDiffer DEF WorkHere
    <3>3. Mineable(call[b].job) /\ t # "reader"
      <4>1. [SessionNext]_sessionVars
        BY DEF SessionNext
      <4>2. t # "reader"
        BY <1>9, <3>2 DEF WorkHere, WorkSafe, KnownInv
      <4> QED
        BY <2>1, <3>2, <4>1, <4>2, MineableLess DEF Mineable, WorkHere
    <3>4. PICK r \in RecordedDiff(call[b].job) : \A d \in Known : r <= d \/ difficulty <= d
      BY <3>2, <3>3 DEF WorkSafe, NotifyInv, WorkHere
    <3>5. difficulty <= difficulty
      BY SessionAssumption DEF WorkHere, InStep, FieldsOK
    <3> QED
      BY <1>5, <1>6, <1>7, <1>8, <3>2, <3>3, <3>4, <3>5
  <2> QED
    BY <2>1 DEF NotifyInv
<1>14. \A j \in Nat : Mineable(j)' => Mineable(j)
  BY MineableLess DEF WorkHere, SessionNext
<1>15. WorkAcceptable'
  BY <1>5, <1>7, <1>14, JobsAreNat DEF WorkHere, WorkSafe, WorkAcceptable
<1>16. CalmInv'
  <2>1. Young' => BroadcastWork' = {}
    BY <1>7, <1>8, <1>9 DEF WorkHere, WorkSafe, KnownInv
  <2> QED
    BY <1>8, <2>1 DEF CalmInv
<1> QED
  BY <1>12, <1>13, <1>15, <1>16 DEF WorkSafe

LEMMA RecordedGood ==
  ASSUME WorkHere
  PROVE  RecordedAt <= difficulty /\ \A d \in Known : RecordedAt <= d \/ difficulty <= d
<1>1. difficulty \in Nat /\ prevDiff \in Nat
  <2>1. difficulty \in Diffs /\ prevDiff \in Diffs \cup {0}
    BY DEF WorkHere, InStep, FieldsOK
  <2> QED
    BY <2>1, SessionAssumption
<1>2. \A d \in Known : d # 0 /\ (d = difficulty \/ (recent /\ d = prevDiff))
  BY DEF WorkHere, WorkSafe, KnownInv, Known
<1> QED
  BY <1>1, <1>2 DEF RecordedAt

LEMMA RecordWorkStep ==
  ASSUME WorkHere, LateInv, RecordHoldsHistory, NEW b \in Broadcasters, Common(b), RecordJobDifficulty(b)
  PROVE  WorkSafe'
<1>1. GoesOn(b) /\ OthersStay(b) /\ Step(b) = "record" /\ Step(b)' = "notify" /\ b \in Threads
  BY CommonCalls, ThreadsDiffer DEF WorkHere, InStep, GoesOn, Moves, RecordJobDifficulty, At, Step, After
<1>2. call'[b].job = call[b].job
  BY <1>1 DEF GoesOn
<1>3. UNCHANGED <<difficulty, prevDiff, recent, pendingDiff, retarget, told, before, work, authorizes, latest, tipJob>>
  BY DEF RecordJobDifficulty, fieldVars, vardiffVars, minerVars, jobVars, boundVars
<1>4. \A u \in Threads : u # b => call'[u] = call[u] /\ Step(u)' = Step(u) /\ (Tells(u)' <=> Tells(u))
  BY <1>1, OthersSame
<1>5. Young' = Young /\ Ahead' = Ahead /\ Fresh' = Fresh /\ ~Fresh
  <2>1. ~Fresh
    BY <1>1 DEF WorkHere, WorkSafe, KnownInv
  <2>2. Young' = Young /\ Ahead' = Ahead /\ Fresh' = Fresh
    BY <1>3, <1>4, ThreadsDiffer DEF Young, Ahead, Fresh
  <2> QED
    BY <2>1, <2>2
<1>6. Known' = Known /\ BroadcastWork' = BroadcastWork /\ \A j : Mineable(j)' <=> Mineable(j)
  BY <1>3 DEF Known, BroadcastWork, Mineable
<1>7. /\ \A j : Mineable(j) => RecordedDiff(j) \subseteq RecordedDiff(j)'
      /\ \A j : j = call[b].job => RecordedAt \in RecordedDiff(j)'
  BY <1>1, RecordKeeps DEF WorkHere, InStep
<1>8. \A j, d : Mineable(j) /\ Strong(j, d) => Strong(j, d)'
  BY <1>7 DEF Strong
<1>9. \A u \in Threads : Tells(u)' => Tells(u)
  BY <1>1, <1>4 DEF Tells
<1>10. KnownInv'
  BY <1>3, <1>5, <1>6, <1>9 DEF WorkHere, WorkSafe, KnownInv
<1>11. NotifyInv'
  <2>1. ASSUME NEW c \in Broadcasters, Step(c)' = "notify", Mineable(call[c].job)', NEW j, j = call[c].job, call'[c].job = j
        PROVE  \E r \in RecordedDiff(j)' : (\A d \in Known' : r <= d \/ difficulty' <= d) /\ (Young' \/ Ahead' => r <= difficulty')
    <3>1. CASE c = b
      BY <1>3, <1>6, <1>7, <2>1, <3>1, RecordedGood
    <3>2. CASE c # b
      <4>1. Step(c) = "notify" /\ Mineable(j)
        BY <1>4, <1>6, <2>1, <3>2, ThreadsDiffer DEF Mineable
      <4>2. PICK r \in RecordedDiff(j) : (\A d \in Known : r <= d \/ difficulty <= d) /\ (Young \/ Ahead => r <= difficulty)
        BY <2>1, <4>1 DEF WorkSafe, NotifyInv, WorkHere
      <4>3. r \in RecordedDiff(j)'
        BY <1>7, <4>1, <4>2
      <4> QED
        BY <1>3, <1>5, <1>6, <4>2, <4>3
    <3> QED
      BY <3>1, <3>2
  <2>2. \A c \in Broadcasters : call'[c].job = call[c].job
    BY <1>2, <1>4, ThreadsDiffer
  <2>3. ASSUME NEW c \in Broadcasters, Step(c)' = "notify", Mineable(call[c].job)'
        PROVE  \E r \in RecordedDiff(call[c].job)' : (\A d \in Known' : r <= d \/ difficulty' <= d) /\ (Young' \/ Ahead' => r <= difficulty')
    <3>1. PICK j : j = call[c].job /\ j = call'[c].job
      BY <2>2
    <3>2. \E r \in RecordedDiff(j)' : (\A d \in Known' : r <= d \/ difficulty' <= d) /\ (Young' \/ Ahead' => r <= difficulty')
      BY <2>1, <2>3, <3>1
    <3>3. RecordedDiff(j)' = RecordedDiff(call[c].job)'
      BY <3>1 DEF RecordedDiff
    <3> QED
      BY <3>2, <3>3
  <2> QED
    BY <2>3 DEF NotifyInv
<1>12. WorkAcceptable'
  BY <1>3, <1>6, <1>8 DEF WorkHere, WorkSafe, WorkAcceptable
<1>13. CalmInv'
  <2>1. ASSUME Young', NEW w \in BroadcastWork', Mineable(w.job)' PROVE Strong(w.job, w.diff)'
    BY <1>5, <1>6, <1>8, <2>1 DEF WorkHere, WorkSafe, CalmInv
  <2>2. ASSUME Ahead', NEW c \in Broadcasters, Step(c)' # "idle", NEW w \in BroadcastWork', w.job >= call'[c].job, Mineable(w.job)'
        PROVE  Strong(w.job, w.diff)'
    <3>1. Step(c) # "idle" /\ call'[c].job = call[c].job
      BY <1>1, <1>2, <1>4, <2>2, ThreadsDiffer
    <3> QED
      BY <1>5, <1>6, <1>8, <2>2, <3>1 DEF WorkHere, WorkSafe, CalmInv
  <2> QED
    BY <2>1, <2>2 DEF CalmInv
<1> QED
  BY <1>10, <1>11, <1>12, <1>13 DEF WorkSafe

\* What one notify adds to the miner's work.
LEMMA NotifyAdds ==
  ASSUME WorkHere, NEW t \in Threads, SendNotify(t), Step(t) = "notify"
  PROVE  /\ t # "hook"
         /\ t = "reader" => call[t].by = "authorize" /\ BroadcastWork' \subseteq BroadcastWork
         /\ t \in Broadcasters => \A w \in BroadcastWork' : w \in BroadcastWork \/ (w.job = call[t].job /\ w.diff \in Known)
<1>1. StepOK(t) /\ (t = "reader" => call[t].by = "authorize") /\ t # "hook" /\ (t \in Broadcasters => call[t].by = "broadcast")
  BY StepsOK, ReaderSteps, ThreadsDiffer DEF WorkHere, InStep, StepOK
<1>2. CASE t = "reader"
  <2>1. \A w \in work' : w \in work \/ w.by = "authorize"
    BY <1>1, <1>2 DEF SendNotify, Notify
  <2> QED
    BY <1>1, <1>2, <2>1, ThreadsDiffer DEF BroadcastWork
<1>3. CASE t \in Broadcasters
  <2>1. \A w \in work' : w \in work \/ (w.job = call[t].job /\ w.diff \in Known)
    BY <1>1, <1>3 DEF SendNotify, Notify, Known
  <2> QED
    BY <1>1, <1>3, <2>1, ThreadsDiffer DEF BroadcastWork
<1> QED
  BY <1>1, <1>2, <1>3, ThreadsDiffer

LEMMA AboveBoth ==
  ASSUME NEW r \in Nat, NEW d \in Nat, NEW e \in Nat, r <= d \/ e <= d, r <= e PROVE r <= d
OBVIOUS

LEMMA NotifyWork ==
  ASSUME WorkHere, NEW t \in Threads, Common(t), SendNotify(t)
  PROVE  WorkSafe'
<1>1. GoesOn(t) /\ OthersStay(t) /\ Step(t) = "notify"
  BY CommonCalls DEF WorkHere, InStep, GoesOn, Moves, SendNotify, At, Step
<1>2. UNCHANGED <<difficulty, prevDiff, recent, pendingDiff, retarget, told, before, authorizes, latest, tipJob, jobDiff>>
  BY DEF SendNotify, fieldVars, vardiffVars, jobVars, boundVars
<1>3. \A u \in Threads : u # t => call'[u] = call[u] /\ Step(u)' = Step(u) /\ (Tells(u)' <=> Tells(u))
  BY <1>1, OthersSame
<1>4. /\ t # "hook" /\ (t = "reader" => call[t].by = "authorize")
      /\ \A w \in BroadcastWork' : w \in BroadcastWork \/ (t \in Broadcasters /\ w.job = call[t].job /\ w.diff \in Known)
  BY <1>1, NotifyAdds, ThreadsDiffer
<1>5. Step(t)' \in {"idle", "hook"} /\ (t \in Broadcasters => Step(t)' = "idle")
  BY <1>1, <1>4, StepsOK, ThreadsDiffer DEF GoesOn, After, StepOK, WorkHere, InStep
<1>6. (Young' => Young) /\ (Ahead' => Ahead) /\ ~Fresh'
  <2>1. CASE t = "reader"
    <3>1. Young /\ authorizes # 0
      BY <1>1, <1>4, <2>1, ChangerFacts DEF Young, Changes
    <3>2. Step("reader")' \in {"idle", "hook"}
      BY <1>5, <2>1
    <3> QED
      BY <1>2, <3>1, <3>2 DEF Ahead, Fresh
  <2>2. CASE t # "reader"
    <3>1. Young' = Young /\ Ahead' = Ahead /\ Fresh' = Fresh
      BY <1>2, <1>3, <1>4, <2>2, ThreadsDiffer DEF Young, Ahead, Fresh
    <3>2. ~Fresh
      BY <1>1, <1>4, <2>2, ThreadsDiffer DEF WorkHere, WorkSafe, KnownInv
    <3> QED
      BY <3>1, <3>2
  <2> QED
    BY <2>1, <2>2
<1>7. Known' = Known /\ (\A j : Mineable(j)' <=> Mineable(j)) /\ (\A j : RecordedDiff(j)' = RecordedDiff(j)) /\ \A j, d : Strong(j, d)' <=> Strong(j, d)
  BY <1>2 DEF Known, Mineable, RecordedDiff, Strong
<1>8. \A u \in Threads : Tells(u)' => Tells(u)
  BY <1>3, <1>5 DEF Tells
<1>9. KnownInv'
  BY <1>2, <1>6, <1>7, <1>8 DEF WorkHere, WorkSafe, KnownInv
<1>10. \A c \in Broadcasters : Step(c)' # "idle" => Step(c)' = Step(c) /\ call'[c] = call[c]
  BY <1>3, <1>5, ThreadsDiffer
<1>11. NotifyInv'
  <2>1. ASSUME NEW b \in Broadcasters, Step(b)' = "notify", Mineable(call[b].job)'
        PROVE  \E r \in RecordedDiff(call[b].job)' : (\A d \in Known' : r <= d \/ difficulty' <= d) /\ (Young' \/ Ahead' => r <= difficulty')
    <3>1. Step(b) = "notify" /\ call'[b].job = call[b].job
      BY <1>10, <2>1
    <3>2. Mineable(call[b].job)
      BY <1>2, <2>1, <3>1 DEF Mineable
    <3>3. PICK r \in RecordedDiff(call[b].job) : (\A d \in Known : r <= d \/ difficulty <= d) /\ (Young \/ Ahead => r <= difficulty)
      BY <3>1, <3>2 DEF WorkSafe, NotifyInv, WorkHere
    <3> QED
      BY <1>2, <1>6, <1>7, <3>1, <3>3
  <2> QED
    BY <2>1 DEF NotifyInv
\* The work just added.
<1>12. ASSUME NEW w, t \in Broadcasters, w.job = call[t].job, w.diff \in Known, Mineable(w.job)
       PROVE  (difficulty <= w.diff \/ Strong(w.job, w.diff)) /\ (Young \/ Ahead => Strong(w.job, w.diff))
  <2>1. PICK r \in RecordedDiff(call[t].job) : (\A d \in Known : r <= d \/ difficulty <= d) /\ (Young \/ Ahead => r <= difficulty)
    BY <1>1, <1>12 DEF WorkHere, WorkSafe, NotifyInv
  <2>2. r \in Nat /\ w.diff \in Nat /\ difficulty \in Nat
    <3>1. \A i \in DOMAIN jobDiff : jobDiff[i] \in JobEntry
      BY DEF WorkHere, JobsOK
    <3>2. r \in Diffs
      BY <2>1, <3>1 DEF RecordedDiff, JobEntry
    <3>3. w.diff \in Diffs /\ difficulty \in Diffs
      BY <1>12 DEF Known, WorkHere, InStep, FieldsOK
    <3> QED
      BY <3>2, <3>3, SessionAssumption
  <2>3. r <= w.diff \/ difficulty <= w.diff
    BY <1>12, <2>1
  <2>4. Young \/ Ahead => r <= w.diff
    BY <2>1, <2>2, <2>3, AboveBoth
  <2> QED
    BY <1>12, <2>1, <2>3, <2>4 DEF Strong
<1>13. WorkAcceptable'
  BY <1>2, <1>4, <1>7, <1>12 DEF WorkHere, WorkSafe, WorkAcceptable
<1>14. CalmInv'
  <2>1. ASSUME Young', NEW w \in BroadcastWork', Mineable(w.job)' PROVE Strong(w.job, w.diff)'
    BY <1>4, <1>6, <1>7, <1>12, <2>1 DEF WorkHere, WorkSafe, CalmInv
  <2>2. ASSUME Ahead', NEW c \in Broadcasters, Step(c)' # "idle", NEW w \in BroadcastWork', w.job >= call'[c].job, Mineable(w.job)'
        PROVE  Strong(w.job, w.diff)'
    BY <1>4, <1>6, <1>7, <1>10, <1>12, <2>2 DEF WorkHere, WorkSafe, CalmInv
  <2> QED
    BY <2>1, <2>2 DEF CalmInv
<1> QED
  BY <1>9, <1>11, <1>13, <1>14 DEF WorkSafe

\* Time passes while no handler runs.
LEMMA TimeWork ==
  ASSUME WorkHere, MomentsPass \/ RetargetDue
  PROVE  WorkSafe'
<1>1. UNCHANGED <<difficulty, prevDiff, pendingDiff, told, jobDiff, work, authorizes, latest, tipJob, call, config>> /\ AllIdle
  BY DEF MomentsPass, RetargetDue, fieldVars, vardiffVars, minerVars, jobVars, boundVars
<1>2. \A t \in Threads : Step(t)' = Step(t) /\ call'[t] = call[t] /\ Step(t) = "idle" /\ call[t].by = "nobody"
  <2>1. ASSUME NEW t \in Threads PROVE Step(t) = "idle" /\ call[t].by = "nobody"
    BY <1>1, StepsOK DEF AllIdle, Step, StepOK, WorkHere, InStep, Delivery
  <2> QED
    BY <1>1, <2>1, CallStays DEF WorkHere, InStep
<1>3. BroadcastWork' = BroadcastWork /\ (\A j : Mineable(j)' <=> Mineable(j)) /\ (\A j : RecordedDiff(j)' = RecordedDiff(j)) /\ \A j, d : Strong(j, d)' <=> Strong(j, d)
  BY <1>1 DEF BroadcastWork, Mineable, RecordedDiff, Strong
<1>4. Young' = Young /\ Fresh' = Fresh
  BY <1>1, <1>2, ThreadsDiffer DEF Young, Fresh
<1>5. (~ \E t \in Threads : Tells(t)) /\ ~ \E t \in Threads : Tells(t)'
  BY <1>2 DEF Tells
<1>6. told = difficulty \/ told = 0
  BY <1>5 DEF WorkHere, InStep, StepInv
<1>7. KnownInv'
  <2>1. CASE MomentsPass
    <3>1. recent' = FALSE /\ before' = 0 /\ Ahead' = Ahead
      BY <1>2, <2>1, ThreadsDiffer DEF MomentsPass, Ahead, vardiffVars
    <3>2. Known' \subseteq {difficulty'}
      BY <1>1, <1>6, <3>1 DEF Known
    <3> QED
      BY <1>1, <1>2, <1>3, <1>4, <1>5, <3>1, <3>2, ThreadsDiffer DEF WorkHere, WorkSafe, KnownInv
  <2>2. CASE RetargetDue
    <3>1. recent' = recent /\ before' = before /\ ~recent
      BY <2>2 DEF RetargetDue, fieldVars, minerVars
    <3>2. Known' = Known
      BY <1>1, <3>1 DEF Known
    <3> QED
      BY <1>1, <1>2, <1>3, <1>4, <1>5, <3>1, <3>2, ThreadsDiffer DEF WorkHere, WorkSafe, KnownInv
  <2> QED
    BY <2>1, <2>2
<1>8. NotifyInv'
  BY <1>2, ThreadsDiffer DEF NotifyInv
<1>9. WorkAcceptable'
  BY <1>1, <1>3 DEF WorkHere, WorkSafe, WorkAcceptable
<1>10. CalmInv'
  BY <1>2, <1>3, <1>4, ThreadsDiffer DEF WorkHere, WorkSafe, CalmInv
<1> QED
  BY <1>7, <1>8, <1>9, <1>10 DEF WorkSafe

LEMMA SessionWork ==
  ASSUME CallOK, FieldsOK, OneChanger => ChangeInv /\ StepInv, JobsOK, DistinctJobs, LateInv, RecordHoldsHistory,
         Bounded => WorkSafe, [SessionNext]_sessionVars
  PROVE  Bounded' => WorkSafe'
<1> SUFFICES ASSUME Bounded' PROVE WorkSafe'
  OBVIOUS
<1>1. JobsOK' /\ OneChanger'
  BY SessionJobs DEF Bounded
<1>2. OneChanger /\ config' = config
  <2>1. CASE SessionNext
    BY <1>1, <2>1, OneChangerBefore
  <2>2. CASE UNCHANGED sessionVars
    BY <1>1, <2>2 DEF sessionVars, boundVars, OneChanger
  <2> QED
    BY <2>1, <2>2
<1>3. WorkHere
  BY <1>2 DEF Bounded, WorkHere, InStep
<1>4. ~config.acceptSuggest /\ config.onNewBlock
  BY <1>3 DEF WorkHere, Bounded
<1>5. CASE Subscribe \/ UNCHANGED sessionVars
  BY <1>1, <1>3, <1>5, StillWork
<1>6. CASE StartHook \/ SetInitialDifficulty \/ Submit \/ VardiffRecordShare \/ QueueDifficulty
  BY <1>1, <1>3, <1>6, StartHookWork, RestoreWork, ReaderWork
<1>7. CASE \E p \in Passwords : Authorize(p) \/ AuthorizeRejected(p)
  BY <1>1, <1>3, <1>7, AuthorizeWork
<1>8. CASE SendMidBlockDifficulty
  BY <1>3, <1>4, <1>8, MidblockCalls DEF WorkHere, InStep
<1>9. CASE \E d \in Diffs : SuggestDifficulty(d)
  BY <1>4, <1>9 DEF SuggestDifficulty
<1>10. CASE \E b \in Broadcasters : SendJob(b)
  BY <1>1, <1>3, <1>10, SendWork, FlushWork
<1>11. CASE \E b \in Broadcasters, clean \in BOOLEAN : NewJob(b, clean)
  BY <1>1, <1>3, <1>11, NewJobWork
<1>12. ASSUME NEW t \in Threads, Common(t) PROVE WorkSafe'
  <2>1. RecordJobDifficulty(t) => t \in Broadcasters
    BY <1>3, <1>12, CommonCalls DEF RecordJobDifficulty, At, Step, WorkHere, InStep
  <2> QED
    BY <1>1, <1>3, <1>12, <2>1, TellWork, ResetWork, RecordWorkStep, NotifyWork DEF Common
<1>13. CASE MomentsPass \/ RetargetDue
  BY <1>3, <1>13, TimeWork
<1> QED
  BY <1>5, <1>6, <1>7, <1>8, <1>9, <1>10, <1>11, <1>12, <1>13 DEF SessionNext

-----------------------------------------------------------------------------
SessionInv ==
  /\ CallOK /\ FieldsOK /\ JobsOK /\ DistinctJobs
  /\ OneChanger => ChangeInv /\ StepInv

RecordInv == LateInv /\ (Bounded => WorkSafe)

LEMMA SessionStarts ==
  ASSUME SessionInit
  PROVE  SessionInv /\ (RecordHoldsHistory => RecordInv)
<1>1. \A t \in Threads : call[t] = Done /\ Step(t) = "idle"
  BY DEF SessionInit, Step, Idle, Done
<1>2. CallOK
  BY <1>1 DEF CallOK, SessionInit, Fits, Done
<1>3. FieldsOK
  BY <1>1, SessionAssumption DEF SessionInit, FieldsOK
<1>4. JobsOK
  BY <1>1, ThreadsDiffer, SessionAssumption DEF SessionInit, JobsOK
<1>5. DistinctJobs /\ (DOMAIN jobDiff = {})
  BY <1>1, ThreadsDiffer DEF SessionInit, DistinctJobs, Unrecorded
<1>6. \A t \in Threads : ~Changes(t) /\ ~Tells(t) /\ ~Resets(t)
  BY <1>1 DEF Changes, Tells, Resets, Done
<1>7. ChangeInv /\ StepInv
  BY <1>1, <1>6, ThreadsDiffer DEF SessionInit, ChangeInv, StepInv, NoOther, Done
<1>8. LateInv
  BY <1>5 DEF LateInv
<1>9. WorkSafe
  <2>1. BroadcastWork = {} /\ Known = {} /\ ~Ahead /\ before = 0 /\ told = 0
    BY <1>1, ThreadsDiffer DEF SessionInit, BroadcastWork, Known, Ahead
  <2> QED
    BY <1>1, <1>6, <2>1, ThreadsDiffer DEF WorkSafe, KnownInv, NotifyInv, WorkAcceptable, CalmInv
<1> QED
  BY <1>2, <1>3, <1>4, <1>5, <1>7, <1>8, <1>9 DEF SessionInv, RecordInv

LEMMA SessionInvAlways == SessionSpec => []SessionInv
<1>1. SessionInit => SessionInv
  BY SessionStarts
<1>2. SessionInv /\ [SessionNext]_sessionVars => SessionInv'
  BY SessionFields, SessionJobs, SessionDistinct, SessionInStep DEF SessionInv
<1> QED
  BY <1>1, <1>2, PTL DEF SessionSpec

LEMMA RecordInvAlways == RecordHoldsHistory => (SessionSpec => []RecordInv)
<1> SUFFICES ASSUME RecordHoldsHistory PROVE SessionSpec => []RecordInv
  OBVIOUS
<1>1. SessionInit => RecordInv
  BY SessionStarts
<1>2. SessionInv /\ RecordInv /\ [SessionNext]_sessionVars => RecordInv'
  BY SessionDistinct, SessionWork DEF SessionInv, RecordInv, RecordHoldsHistory
<1> QED
  BY <1>1, <1>2, SessionInvAlways, PTL DEF SessionSpec

\* Every difficulty is one vardiff's bounds allow, every job one that was made, and
\* recordJobDifficulty never keeps more than maxJobDiffs jobs.
THEOREM SessionTypeAlways == SessionSpec => []SessionTypeOK
<1>1. SessionInv => SessionTypeOK
  <2>1. SessionInv => tipJob \in Nat /\ latest \in Nat /\ currentJob \in Nat
    BY DEF SessionInv, JobsOK
  <2> QED
    BY <2>1 DEF SessionInv, FieldsOK, JobsOK, SessionTypeOK, JobEntry, WorkItem
<1> QED
  BY <1>1, SessionInvAlways, PTL

\* Between handlers vardiff retargets from the difficulty the session has or is about to
\* get: no retarget, restore, password or flush leaves the two apart.
THEOREM VardiffInStepAlways == SessionSpec => []VardiffInStep
<1>1. SessionInv => VardiffInStep
  <2> SUFFICES ASSUME SessionInv, OneChanger, AllIdle PROVE vardiff = IF pendingDiff > 0 THEN pendingDiff ELSE difficulty
    BY DEF VardiffInStep
  <2>1. \A t \in Threads : Step(t) = "idle" /\ ~Resets(t)
    BY DEF AllIdle, Step, Resets
  <2> QED
    BY <2>1, ThreadsDiffer DEF SessionInv, StepInv
<1> QED
  BY <1>1, SessionInvAlways, PTL

\* Between handlers the session judges shares by the difficulty its miner was told last.
THEOREM MinerInStepAlways == SessionSpec => []MinerInStep
<1>1. SessionInv => MinerInStep
  <2> SUFFICES ASSUME SessionInv, OneChanger, AllIdle, state = "authorized" PROVE told = difficulty
    BY DEF MinerInStep
  <2>1. \A t \in Threads : ~Tells(t)
    BY DEF AllIdle, Step, Tells
  <2> QED
    BY <2>1 DEF SessionInv, ChangeInv, StepInv
<1> QED
  BY <1>1, SessionInvAlways, PTL

\* A share of a broadcast job, worked at the difficulty the miner had for it, is accepted for
\* as long as the JobManager has the job, where the difficulty changes with a new block only:
\* the record of job difficulties outlives the jobs as long as it has room for the
\* JobManager's and for one more of every other goroutine that broadcasts.
THEOREM BroadcastWorkAcceptedAlways ==
  ASSUME IsFiniteSet(Broadcasters), MaxJobHistory + Cardinality(Broadcasters) <= MaxJobDiffs + 1
  PROVE  SessionSpec => []BroadcastWorkAccepted
<1>1. RecordHoldsHistory
  BY DEF RecordHoldsHistory
<1>2. SessionInv /\ RecordInv => BroadcastWorkAccepted
  <2> SUFFICES ASSUME SessionInv, RecordInv, Bounded, NEW w \in work, w.by = "broadcast", Mineable(w.job)
               PROVE  MeetsDifficulty(w.job, w.diff)
    BY DEF BroadcastWorkAccepted, Bounded
  <2>1. difficulty <= w.diff \/ Strong(w.job, w.diff)
    BY DEF RecordInv, WorkSafe, WorkAcceptable, BroadcastWork
  <2>2. w.diff >= difficulty \/ \E r \in RecordedDiff(w.job) : w.diff >= r
    BY <2>1 DEF Strong
  <2> QED
    BY <2>2 DEF MeetsDifficulty
<1> QED
  BY <1>1, <1>2, SessionInvAlways, RecordInvAlways, PTL
=============================================================================

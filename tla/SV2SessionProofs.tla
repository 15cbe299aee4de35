------------------------- MODULE SV2SessionProofs -------------------------
(* Theorems about two parts of a Stratum V2 session, for any difficulties, senders,  *)
(* payload lengths and bounds: its shares (SV2Shares), and, in the second part, its   *)
(* connection (SV2Link).  See the README for the arguments.                          *)
EXTENDS SV2Shares, SV2Link, TLAPS

ChannelType ==
  /\ vardiffOnNewBlock \in BOOLEAN /\ inGrace \in BOOLEAN /\ overlapped \in BOOLEAN
  /\ poolDifficulty \in Diffs /\ prevDiff \in Diffs \cup {0} /\ pendingDiff \in Diffs \cup {0}
  /\ changes \in Nat

VardiffType == vardiff \in [diff : Diffs, shares : Nat, due : BOOLEAN]
AcksType == acks \in [last : Int, sum : Int]
SharesType == shares \in [accepted : Nat, rejected : Nat]

ReaderType ==
  /\ reader \in [pc : {"idle", "judge", "grace", "record", "retarget", "pend"},
                 diff : Diffs \cup {0}, seen : Nat, seq : Nat]
  /\ reader.pc = "pend" => reader.diff \in Diffs

SendType ==
  /\ send \in [Senders -> [pc : {"idle", "reset", "target"}, diff : Diffs \cup {0}, change : Nat]]
  /\ \A t \in Senders : send[t].pc # "idle" => send[t].diff \in Diffs

MinerType == miner \in [diff : Diffs, seen : Nat, seq : Nat, left : Nat]
Share == [diff : Diffs, seen : Nat, seq : Nat]

TypeOK ==
  ChannelType /\ VardiffType /\ AcksType /\ SharesType /\ ReaderType /\ SendType /\ MinerType
  /\ wire \in Seq(Share)

LEMMA InitTypeOK == Init => TypeOK
<1> SUFFICES ASSUME Init PROVE TypeOK
  OBVIOUS
<1> USE SharesAssumption
<1>1. ChannelType
  BY DEF Init, ChannelType
<1>2. VardiffType
  BY DEF Init, VardiffType
<1>3. AcksType
  BY DEF Init, AcksType
<1>4. SharesType
  BY DEF Init, SharesType
<1>5. ReaderType
  BY DEF Init, IdleReader, ReaderType
<1>6. SendType
  BY DEF Init, IdleSend, SendType
<1>7. MinerType
  BY DEF Init, MinerType
<1>8. wire \in Seq(Share)
  BY DEF Init
<1> QED
  BY <1>1, <1>2, <1>3, <1>4, <1>5, <1>6, <1>7, <1>8 DEF TypeOK

\* One lemma per variable, with a step per action that assigns to it.
LEMMA ChannelStep == TypeOK /\ [Next]_vars => ChannelType'
<1> SUFFICES ASSUME TypeOK, [Next]_vars PROVE ChannelType'
  OBVIOUS
<1> USE SharesAssumption DEF ChannelType
<1>1. ChannelType
  BY DEF TypeOK
<1>2. CASE UNCHANGED <<vardiffOnNewBlock, channelVars, overlapped>>
  BY <1>1, <1>2 DEF channelVars
<1>3. CASE LowDiffGraceEnds
  BY <1>1, <1>3 DEF LowDiffGraceEnds
<1>4. CASE SetPendingDiff
  <2>1. reader.diff \in Diffs
    BY <1>4 DEF SetPendingDiff, TypeOK, ReaderType
  <2> QED
    BY <1>1, <1>4, <2>1 DEF SetPendingDiff
<1>5. ASSUME NEW t \in Senders, NEW future \in BOOLEAN, SendJob(t, future) PROVE ChannelType'
  BY <1>1, <1>5 DEF SendJob, FlushPendingDiff
<1> QED
  BY <1>2, <1>3, <1>4, <1>5 DEF Next, Read, Mine, RetargetTime, ReadShare, ValidateShare, LowDiffGrace,
     RecordShare, Retarget, ResetWindow, SetTarget, vars

LEMMA VardiffStep == TypeOK /\ [Next]_vars => VardiffType'
<1> SUFFICES ASSUME TypeOK, [Next]_vars PROVE VardiffType'
  OBVIOUS
<1>1. VardiffType
  BY DEF TypeOK
<1>2. CASE UNCHANGED vardiff
  BY <1>1, <1>2 DEF VardiffType
<1>3. CASE RetargetTime
  BY <1>1, <1>3 DEF RetargetTime, VardiffType
<1>4. CASE Retarget
  <2>1. ASSUME NEW n \in Nat, vardiff' = [vardiff EXCEPT !.shares = n] PROVE VardiffType'
    BY <1>1, <2>1 DEF VardiffType
  <2>2. ASSUME NEW n \in Nat, vardiff' = [vardiff EXCEPT !.shares = n, !.due = FALSE] PROVE VardiffType'
    BY <1>1, <2>2 DEF VardiffType
  <2>3. ASSUME NEW d \in Diffs, vardiff' = [diff |-> d, shares |-> 0, due |-> FALSE] PROVE VardiffType'
    BY <2>3 DEF VardiffType
  <2>4. vardiff.shares + 1 \in Nat /\ MinShares \in Nat
    BY <1>1, SharesAssumption DEF VardiffType
  <2> QED
    BY <1>4, <2>1, <2>2, <2>3, <2>4 DEF Retarget
<1>5. ASSUME NEW t \in Senders, ResetWindow(t) PROVE VardiffType'
  <2>1. send[t].diff \in Diffs
    BY <1>5 DEF ResetWindow, TypeOK, SendType
  <2> QED
    BY <1>5, <2>1 DEF ResetWindow, VardiffType
<1> QED
  BY <1>2, <1>3, <1>4, <1>5 DEF Next, Read, Mine, LowDiffGraceEnds, ReadShare, ValidateShare, LowDiffGrace,
     RecordShare, SetPendingDiff, SendJob, SetTarget, vars

LEMMA CountsStep == TypeOK /\ [Next]_vars => AcksType' /\ SharesType'
<1> SUFFICES ASSUME TypeOK, [Next]_vars PROVE AcksType' /\ SharesType'
  OBVIOUS
<1>1. AcksType /\ SharesType
  BY DEF TypeOK
<1>2. CASE UNCHANGED countVars
  BY <1>1, <1>2 DEF countVars, AcksType, SharesType
<1>3. CASE RecordRejection
  <2>1. AcksType'
    BY <1>1, <1>3 DEF RecordRejection, AcksType
  <2>2. SharesType'
    BY <1>1, <1>3 DEF RecordRejection, SharesType
  <2> QED
    BY <2>1, <2>2
<1>4. CASE RecordShare
  <2>1. SharesType'
    BY <1>1, <1>4 DEF RecordShare, SharesType
  <2>2. reader.seq \in Int
    BY DEF TypeOK, ReaderType
  <2>3. AcksType'
    BY <1>1, <1>4, <2>2 DEF RecordShare, Ack, AcksType
  <2> QED
    BY <2>1, <2>3
<1> QED
  BY <1>2, <1>3, <1>4 DEF Next, Read, Mine, RetargetTime, LowDiffGraceEnds, ReadShare, ValidateShare,
     LowDiffGrace, Retarget, SetPendingDiff, SendJob, ResetWindow, SetTarget, vars, countVars

LEMMA ReaderStep == TypeOK /\ [Next]_vars => ReaderType'
<1> SUFFICES ASSUME TypeOK, [Next]_vars PROVE ReaderType'
  OBVIOUS
<1>1. ReaderType
  BY DEF TypeOK
<1>2. CASE reader' = IdleReader
  BY <1>2 DEF IdleReader, ReaderType
<1>3. CASE UNCHANGED reader
  BY <1>1, <1>3 DEF ReaderType
<1>4. CASE ReadShare
  <2>1. Head(wire) \in Share
    BY <1>4 DEF ReadShare, TypeOK
  <2> QED
    BY <1>2, <1>4, <2>1 DEF ReadShare, RecordRejection, ReaderType, Share
<1>5. CASE ValidateShare
  BY <1>1, <1>5 DEF ValidateShare, ReaderType
<1>6. CASE LowDiffGrace
  BY <1>1, <1>2, <1>6 DEF LowDiffGrace, RecordRejection, ReaderType
<1>7. CASE RecordShare
  BY <1>1, <1>2, <1>7 DEF RecordShare, ReaderType
<1>8. CASE Retarget
  <2>1. CASE UNCHANGED reader \/ reader' = IdleReader
    BY <1>2, <1>3, <2>1
  <2>2. ASSUME NEW d \in Diffs, reader' = [reader EXCEPT !.pc = "pend", !.diff = d] PROVE ReaderType'
    BY <1>1, <2>2 DEF ReaderType
  <2> QED
    BY <1>8, <2>1, <2>2 DEF Retarget
<1> QED
  BY <1>2, <1>3, <1>4, <1>5, <1>6, <1>7, <1>8 DEF Next, Read, Mine, RetargetTime, LowDiffGraceEnds,
     SetPendingDiff, SendJob, ResetWindow, SetTarget, vars

LEMMA SendStep == TypeOK /\ [Next]_vars => SendType'
<1> SUFFICES ASSUME TypeOK, [Next]_vars PROVE SendType'
  OBVIOUS
<1>1. SendType
  BY DEF TypeOK
<1>2. CASE UNCHANGED send
  BY <1>1, <1>2 DEF SendType
<1>3. ASSUME NEW t \in Senders, NEW future \in BOOLEAN, SendJob(t, future) PROVE SendType'
  <2>1. pendingDiff \in Diffs /\ changes + 1 \in Nat
    BY <1>3, SharesAssumption DEF SendJob, TypeOK, ChannelType
  <2> QED
    BY <1>1, <1>3, <2>1 DEF SendJob, SendType
<1>4. ASSUME NEW t \in Senders, ResetWindow(t) PROVE SendType'
  BY <1>1, <1>4 DEF ResetWindow, SendType
<1>5. ASSUME NEW t \in Senders, SetTarget(t) PROVE SendType'
  BY <1>1, <1>5 DEF SetTarget, IdleSend, SendType
<1> QED
  BY <1>2, <1>3, <1>4, <1>5 DEF Next, Read, Mine, RetargetTime, LowDiffGraceEnds, ReadShare, ValidateShare,
     LowDiffGrace, RecordShare, Retarget, SetPendingDiff, vars

LEMMA MinerStep == TypeOK /\ [Next]_vars => MinerType' /\ wire' \in Seq(Share)
<1> SUFFICES ASSUME TypeOK, [Next]_vars PROVE MinerType' /\ wire' \in Seq(Share)
  OBVIOUS
<1>1. MinerType /\ wire \in Seq(Share)
  BY DEF TypeOK
<1>2. CASE Mine
  <2>1. [diff |-> miner.diff, seen |-> miner.seen, seq |-> miner.seq] \in Share
    BY <1>1 DEF MinerType, Share
  <2>2. wire' \in Seq(Share)
    BY <1>1, <1>2, <2>1 DEF Mine
  <2>3. MinerType'
    <3>1. miner.seq + 1 \in Nat /\ miner.left - 1 \in Nat
      BY <1>1, <1>2 DEF Mine, MinerType
    <3>2. miner' = [miner EXCEPT !.seq = miner.seq + 1, !.left = miner.left - 1]
      BY <1>2 DEF Mine
    <3> QED
      BY <1>1, <3>1, <3>2 DEF MinerType
  <2> QED
    BY <2>2, <2>3
<1>3. CASE ReadShare
  <2>1. wire' \in Seq(Share)
    BY <1>1, <1>3 DEF ReadShare
  <2>2. MinerType'
    BY <1>1, <1>3 DEF ReadShare, MinerType
  <2> QED
    BY <2>1, <2>2
<1>4. ASSUME NEW t \in Senders, SetTarget(t) PROVE MinerType' /\ wire' \in Seq(Share)
  <2>1. send[t].diff \in Diffs /\ send[t].change \in Nat
    BY <1>4 DEF SetTarget, TypeOK, SendType
  <2>2. MinerType'
    BY <1>1, <1>4, <2>1 DEF SetTarget, MinerType
  <2> QED
    BY <1>1, <1>4, <2>2 DEF SetTarget
<1>5. CASE UNCHANGED <<miner, wire>>
  BY <1>1, <1>5 DEF MinerType
<1> QED
  BY <1>2, <1>3, <1>4, <1>5 DEF Next, Read, RetargetTime, LowDiffGraceEnds, ValidateShare, LowDiffGrace,
     RecordShare, Retarget, SetPendingDiff, SendJob, ResetWindow, vars

LEMMA NextTypeOK == TypeOK /\ [Next]_vars => TypeOK'
BY ChannelStep, VardiffStep, CountsStep, ReaderStep, SendStep, MinerStep DEF TypeOK

-----------------------------------------------------------------------------
(* The three difficulties *)

\* The difficulty the reader decides on waits in "pend" or in pendingDiff, never both.
\* A sender that flushed one has the channel's difficulty in hand, and vardiff's again
\* once the window is reset; alone at work, it is the one that tells the miner.
StepInv ==
  /\ reader.pc \in {"retarget", "pend"} => pendingDiff = 0
  /\ ~overlapped =>
       /\ \A t, u \in Senders : send[t].pc # "idle" /\ send[u].pc # "idle" => t = u
       /\ \A t \in Senders : send[t].pc # "idle" => send[t].diff = poolDifficulty
       /\ (\A t \in Senders : send[t].pc = "idle") => miner.diff = poolDifficulty
       /\ (\A t \in Senders : send[t].pc # "reset") /\ pendingDiff = 0 /\ reader.pc # "pend"
            => vardiff.diff = poolDifficulty

LEMMA NextStep == TypeOK /\ StepInv /\ [Next]_vars => StepInv'
<1> SUFFICES ASSUME TypeOK, StepInv, [Next]_vars PROVE StepInv'
  OBVIOUS
<1>1. ReaderType /\ SendType /\ ChannelType
  BY DEF TypeOK
\* What the invariant speaks of, apart from the reader's stage.
<1> DEFINE Kept == /\ poolDifficulty' = poolDifficulty /\ pendingDiff' = pendingDiff
                   /\ send' = send /\ overlapped' = overlapped
                   /\ vardiff'.diff = vardiff.diff /\ miner'.diff = miner.diff
<1>2. CASE Kept /\ (reader'.pc = reader.pc \/ (reader'.pc \notin {"retarget", "pend"} /\ reader.pc # "pend"))
  BY <1>2 DEF StepInv
<1>0. Kept /\ reader' = reader => StepInv'
  BY DEF StepInv
<1>3. CASE UNCHANGED vars
  <2>1. Kept /\ reader' = reader
    BY <1>3 DEF vars, channelVars
  <2> QED
    BY <1>0, <2>1
<1>4. CASE Mine
  <2>1. miner'.diff = miner.diff
    BY <1>4 DEF Mine, TypeOK, MinerType
  <2> QED
    <3>1. Kept /\ reader' = reader
      BY <1>4, <2>1 DEF Mine, channelVars
    <3> QED
      BY <1>0, <3>1
<1>5. CASE RetargetTime
  <2>1. vardiff'.diff = vardiff.diff
    BY <1>5 DEF RetargetTime, TypeOK, VardiffType
  <2> QED
    <3>1. Kept /\ reader' = reader
      BY <1>5, <2>1 DEF RetargetTime, channelVars
    <3> QED
      BY <1>0, <3>1
<1>6. CASE LowDiffGraceEnds
  <2>1. Kept /\ reader' = reader
    BY <1>6 DEF LowDiffGraceEnds
  <2> QED
    BY <1>0, <2>1
<1>7. CASE ReadShare \/ ValidateShare \/ LowDiffGrace
  <2>1. reader.pc \in {"idle", "judge", "grace"}
    BY <1>7 DEF ReadShare, ValidateShare, LowDiffGrace
  <2>2. reader'.pc \in {"idle", "judge", "grace", "record"}
    BY <1>1, <1>7 DEF ReadShare, ValidateShare, LowDiffGrace, RecordRejection, IdleReader, ReaderType
  <2>3. Kept
    BY <1>7 DEF ReadShare, ValidateShare, LowDiffGrace, channelVars
  <2> QED
    BY <1>2, <2>1, <2>2, <2>3
<1>8. CASE RecordShare
  <2>1. Kept /\ reader.pc = "record"
    BY <1>8 DEF RecordShare, channelVars
  <2>2. reader'.pc = "idle" \/ (pendingDiff = 0 /\ reader'.pc = "retarget")
    <3>1. CASE pendingDiff > 0
      <4>1. reader' = IdleReader
        BY <1>8, <3>1 DEF RecordShare
      <4> QED
        <5>1. reader'.pc = "idle"
          BY <4>1 DEF IdleReader
        <5> QED
          BY <5>1
    <3>2. CASE ~(pendingDiff > 0)
      <4>1. pendingDiff = 0
        BY <1>1, <3>2, SharesAssumption DEF ChannelType
      <4>2. reader' = [reader EXCEPT !.pc = "retarget"]
        BY <1>8, <3>2 DEF RecordShare
      <4> QED
        BY <1>1, <4>1, <4>2 DEF ReaderType
    <3> QED
      BY <3>1, <3>2
  <2> QED
    BY <2>1, <2>2 DEF StepInv
<1>9. CASE Retarget
  <2>1. UNCHANGED <<poolDifficulty, pendingDiff, send, miner, overlapped>> /\ reader.pc = "retarget"
    BY <1>9 DEF Retarget, channelVars
  <2>2. (reader'.pc = "idle" /\ vardiff'.diff = vardiff.diff) \/ reader'.pc = "pend"
    <3>1. ASSUME NEW n, vardiff' = [vardiff EXCEPT !.shares = n]
                        \/ vardiff' = [vardiff EXCEPT !.shares = n, !.due = FALSE]
          PROVE  vardiff'.diff = vardiff.diff
      BY <3>1 DEF TypeOK, VardiffType
    <3>2. ASSUME NEW d, reader' = [reader EXCEPT !.pc = "pend", !.diff = d] PROVE reader'.pc = "pend"
      BY <1>1, <3>2 DEF ReaderType
    <3>3. reader' = IdleReader => reader'.pc = "idle"
      BY DEF IdleReader
    <3> QED
      BY <1>9, <3>1, <3>2, <3>3 DEF Retarget
  <2> QED
    BY <2>1, <2>2 DEF StepInv
<1>10. CASE SetPendingDiff
  <2>1. /\ UNCHANGED <<poolDifficulty, vardiff, send, miner, overlapped>>
        /\ pendingDiff' = reader.diff /\ reader'.pc = "idle"
    BY <1>10 DEF SetPendingDiff, IdleReader
  <2>2. pendingDiff' # 0
    BY <1>1, <1>10, <2>1, SharesAssumption DEF SetPendingDiff, ReaderType
  <2> QED
    BY <2>1, <2>2 DEF StepInv
<1>11. ASSUME NEW t \in Senders, NEW future \in BOOLEAN, SendJob(t, future) PROVE StepInv'
  <2>1. /\ poolDifficulty' = pendingDiff /\ pendingDiff' = 0 /\ pendingDiff > 0
        /\ UNCHANGED <<reader, miner, vardiff>>
    BY <1>11 DEF SendJob, FlushPendingDiff
  <2>2. /\ send'[t].pc = "reset" /\ send'[t].diff = pendingDiff
        /\ \A u \in Senders \ {t} : send'[u] = send[u]
    BY <1>1, <1>11 DEF SendJob, SendType
  <2>3. ~overlapped' => ~overlapped /\ \A u \in Senders \ {t} : send[u].pc = "idle"
    BY <1>11 DEF SendJob
  <2> QED
    BY <2>1, <2>2, <2>3 DEF StepInv
<1>12. ASSUME NEW t \in Senders, ResetWindow(t) PROVE StepInv'
  <2>1. /\ send[t].pc = "reset" /\ vardiff'.diff = send[t].diff
        /\ UNCHANGED <<poolDifficulty, pendingDiff, reader, miner, overlapped>>
    BY <1>12 DEF ResetWindow, channelVars
  <2>2. /\ send'[t].pc = "target" /\ send'[t].diff = send[t].diff
        /\ \A u \in Senders \ {t} : send'[u] = send[u]
    BY <1>1, <1>12 DEF ResetWindow, SendType
  <2> QED
    BY <2>1, <2>2 DEF StepInv
<1>13. ASSUME NEW t \in Senders, SetTarget(t) PROVE StepInv'
  <2>1. /\ send[t].pc = "target" /\ miner'.diff = send[t].diff
        /\ UNCHANGED <<poolDifficulty, pendingDiff, reader, vardiff, overlapped>>
    BY <1>13 DEF SetTarget, channelVars, TypeOK, MinerType
  <2>2. send'[t].pc = "idle" /\ \A u \in Senders \ {t} : send'[u] = send[u]
    BY <1>1, <1>13 DEF SetTarget, IdleSend, SendType
  <2> QED
    BY <2>1, <2>2 DEF StepInv
<1> QED
  BY <1>3, <1>4, <1>5, <1>6, <1>7, <1>8, <1>9, <1>10, <1>11, <1>12, <1>13 DEF Next, Read

\* Between two flushes vardiff, the channel and the miner agree on the difficulty, though
\* FlushPendingDiff lets go of the channel before it resets vardiff's window and the
\* reader may decide on another difficulty in between.
THEOREM DifficultyCorrect == Spec => []DifficultyInStep
<1>1. Init => TypeOK /\ StepInv
  BY InitTypeOK DEF Init, StepInv, IdleReader, IdleSend
<1>2. StepInv => DifficultyInStep
  BY DEF StepInv, DifficultyInStep
<1> QED
  BY <1>1, <1>2, NextTypeOK, NextStep, PTL DEF Spec

-----------------------------------------------------------------------------
(* What is acknowledged *)

First == miner.seq + miner.left - MaxSubmits
Done  == shares.accepted + shares.rejected
Judging == reader.pc \in {"judge", "grace", "record"}

\* The shares on the wire and the one in hand are the next ones, in order; what has been
\* acknowledged is at most the span from the first share to the last accepted one.
AckInv ==
  /\ miner.seq - Len(wire) = First + Done + (IF Judging THEN 1 ELSE 0)
  /\ \A k \in 1..Len(wire) : wire[k].seq = miner.seq - Len(wire) + k - 1
  /\ Judging => reader.seq = First + Done
  /\ First >= 0
  /\ \/ acks.last = -1 /\ acks.sum = 0 /\ shares.accepted = 0
     \/ /\ acks.last >= First /\ acks.last < First + Done
        /\ shares.accepted <= acks.sum /\ acks.sum <= acks.last - First + 1

LEMMA NextAck == TypeOK /\ AckInv /\ [Next]_vars => AckInv'
<1> SUFFICES ASSUME TypeOK, AckInv, [Next]_vars PROVE AckInv'
  OBVIOUS
<1>1. ReaderType /\ MinerType /\ AcksType /\ SharesType /\ wire \in Seq(Share) /\ Len(wire) \in Nat
  BY DEF TypeOK
<1>2. ReaderType' /\ MinerType' /\ AcksType' /\ SharesType' /\ wire' \in Seq(Share)
  BY NextTypeOK DEF TypeOK
<1>3. MaxSubmits \in Nat
  BY SharesAssumption
<1>4. First \in Int /\ Done \in Nat
  BY <1>1, <1>3 DEF First, Done, MinerType, SharesType
<1> DEFINE Counts == UNCHANGED <<acks, shares>>
           Mined == miner'.seq = miner.seq /\ miner'.left = miner.left
           Rejected == acks' = acks /\ shares'.accepted = shares.accepted
                       /\ shares'.rejected = shares.rejected + 1
<1>5. CASE Counts /\ Mined /\ wire' = wire /\ reader'.seq = reader.seq /\ Judging' = Judging
  BY <1>5 DEF AckInv, First, Done
<1>6. CASE Counts /\ Mined /\ wire' = wire /\ ~Judging' /\ ~Judging
  BY <1>6 DEF AckInv, First, Done
<1>7. CASE Rejected /\ Mined /\ wire' = wire /\ ~Judging' /\ Judging
  <2>1. Done' = Done + 1 /\ First' = First
    BY <1>1, <1>7 DEF Done, First, SharesType
  <2>2. miner'.seq - Len(wire') = First' + Done' + (IF Judging' THEN 1 ELSE 0)
    BY <1>1, <1>4, <1>7, <2>1 DEF AckInv, MinerType
  <2>3. \A k \in 1..Len(wire') : wire'[k].seq = miner'.seq - Len(wire') + k - 1
    BY <1>7 DEF AckInv
  <2>4. /\ First' >= 0
        /\ \/ acks'.last = -1 /\ acks'.sum = 0 /\ shares'.accepted = 0
           \/ /\ acks'.last >= First' /\ acks'.last < First' + Done'
              /\ shares'.accepted <= acks'.sum /\ acks'.sum <= acks'.last - First' + 1
    BY <1>1, <1>4, <1>7, <2>1 DEF AckInv, AcksType, SharesType
  <2> QED
    BY <1>7, <2>2, <2>3, <2>4 DEF AckInv
<1>8. RecordRejection => Rejected /\ ~Judging'
  BY <1>1 DEF RecordRejection, SharesType, Judging, IdleReader
<1>9. CASE Mine
  <2>1. /\ Len(wire') = Len(wire) + 1 /\ wire'[Len(wire) + 1].seq = miner.seq
        /\ \A k \in 1..Len(wire) : wire'[k] = wire[k]
    BY <1>1, <1>9 DEF Mine, Share
  <2>2. miner'.seq = miner.seq + 1 /\ miner'.left = miner.left - 1
    BY <1>1, <1>9 DEF Mine, MinerType
  <2>3. UNCHANGED <<acks, shares, reader>>
    BY <1>9 DEF Mine, countVars
  <2>4. First' = First /\ Done' = Done /\ Judging' = Judging
    BY <1>1, <1>3, <2>2, <2>3 DEF First, Done, Judging, MinerType
  <2>5. miner.seq - Len(wire) = miner'.seq - Len(wire')
    BY <1>1, <2>1, <2>2 DEF MinerType
  <2>6. \A k \in 1..Len(wire') : wire'[k].seq = miner'.seq - Len(wire') + k - 1
    <3>1. miner.seq \in Int
      BY <1>1 DEF MinerType
    <3>2. \A k \in 1..Len(wire) : wire[k].seq = miner.seq - Len(wire) + k - 1
      BY DEF AckInv
    <3>3. \A k \in 1..Len(wire) : wire'[k].seq = miner'.seq - Len(wire') + k - 1
      BY <2>1, <2>5, <3>2
    <3>4. wire'[Len(wire')].seq = miner'.seq - Len(wire') + Len(wire') - 1
      <4>1. Len(wire') \in Nat /\ wire'[Len(wire')].seq = miner.seq
        BY <1>1, <2>1
      <4>2. miner'.seq - Len(wire') + Len(wire') - 1 = miner.seq
        <5>1. miner'.seq = miner.seq + 1 /\ Len(wire') \in Int
          BY <2>2, <4>1
        <5> QED
          BY <3>1, <5>1
      <4> QED
        BY <4>1, <4>2
    <3> QED
      BY <1>1, <2>1, <3>3, <3>4
  <2> QED
    BY <2>3, <2>4, <2>5, <2>6 DEF AckInv
<1>10. CASE ReadShare
  <2>1. /\ Len(wire') = Len(wire) - 1 /\ \A k \in 1..Len(wire') : wire'[k] = wire[k + 1]
        /\ Head(wire) = wire[1] /\ Len(wire) \in Nat \ {0}
    BY <1>1, <1>10 DEF ReadShare
  <2>2. ~Judging /\ Mined
    BY <1>10 DEF ReadShare, Judging
  <2>3. wire[1].seq = miner.seq - Len(wire) /\ miner.seq - Len(wire) = First + Done
    BY <1>1, <1>4, <2>1, <2>2 DEF AckInv, MinerType
  <2>4. ASSUME NEW k \in 1..Len(wire') PROVE wire'[k].seq = miner'.seq - Len(wire') + k - 1
    <3>1. k + 1 \in 1..Len(wire) /\ wire'[k] = wire[k + 1] /\ Len(wire') = Len(wire) - 1
      BY <2>1
    <3>2. wire[k + 1].seq = miner.seq - Len(wire) + (k + 1) - 1
      BY <3>1 DEF AckInv
    <3>3. miner.seq \in Int /\ miner'.seq = miner.seq
      BY <1>1, <2>2 DEF MinerType
    <3> QED
      BY <1>1, <3>1, <3>2, <3>3
  <2>5. CASE Counts /\ reader' = [pc |-> "judge", diff |-> Head(wire).diff, seen |-> Head(wire).seen,
                                  seq |-> Head(wire).seq]
    <3>1. Judging' /\ First' = First /\ Done' = Done /\ reader'.seq = First + Done
      BY <2>1, <2>2, <2>3, <2>5 DEF Judging, First, Done
    <3> QED
      BY <1>1, <1>4, <2>1, <2>2, <2>3, <2>4, <2>5, <3>1 DEF AckInv, MinerType
  <2>6. CASE RecordRejection
    <3>1. Done' = Done + 1 /\ First' = First /\ ~Judging'
      BY <1>1, <1>8, <2>2, <2>6 DEF Done, First, SharesType
    <3> QED
      <4>1. miner'.seq - Len(wire') = First' + Done'
        <5>1. miner.seq \in Int
          BY <1>1 DEF MinerType
        <5> QED
          BY <1>1, <1>4, <2>1, <2>2, <2>3, <3>1, <5>1
      <4>2. acks' = acks /\ shares'.accepted = shares.accepted
        BY <1>8, <2>6
      <4>3. acks.last < First + Done => acks.last < First' + Done'
        BY <1>1, <1>4, <3>1 DEF AcksType
      <4> QED
        BY <1>4, <2>4, <3>1, <4>1, <4>2, <4>3 DEF AckInv
  <2> QED
    BY <1>10, <2>5, <2>6 DEF ReadShare, countVars
<1>11. CASE ValidateShare
  <2>1. Judging /\ Judging' /\ reader'.seq = reader.seq
    BY <1>1, <1>11 DEF ValidateShare, Judging, ReaderType
  <2> QED
    BY <1>5, <1>11, <2>1 DEF ValidateShare, countVars
<1>12. CASE LowDiffGrace
  <2>1. CASE RecordRejection
    BY <1>7, <1>8, <1>12, <2>1 DEF LowDiffGrace, Judging
  <2>2. CASE reader' = [reader EXCEPT !.pc = "record"] /\ UNCHANGED countVars
    <3>1. Judging /\ Judging' /\ reader'.seq = reader.seq
      BY <1>1, <1>12, <2>2 DEF LowDiffGrace, Judging, ReaderType
    <3> QED
      BY <1>5, <1>12, <2>2, <3>1 DEF LowDiffGrace, countVars
  <2> QED
    BY <1>12, <2>1, <2>2 DEF LowDiffGrace
<1>13. CASE RecordShare
  <2>1. Judging /\ Mined /\ wire' = wire
    BY <1>13 DEF RecordShare, Judging
  <2>2. ~Judging'
    BY <1>1, <1>13 DEF RecordShare, Judging, IdleReader, ReaderType
  <2>3. shares'.accepted = shares.accepted + 1 /\ shares'.rejected = shares.rejected
    BY <1>1, <1>13 DEF RecordShare, SharesType
  <2>4. Done' = Done + 1 /\ First' = First
    BY <1>1, <2>1, <2>3 DEF Done, First, SharesType
  <2>5. reader.seq = First + Done
    BY <2>1 DEF AckInv
  <2>6. /\ acks'.last = First + Done
        /\ acks'.sum = acks.sum + (IF acks.last >= 0 /\ reader.seq > acks.last THEN reader.seq - acks.last ELSE 1)
    BY <1>13, <2>5 DEF RecordShare, Ack
  <2>7. /\ acks'.last >= First' /\ acks'.last < First' + Done'
        /\ shares'.accepted <= acks'.sum /\ acks'.sum <= acks'.last - First' + 1
    <3>1. acks.last \in Int /\ acks.sum \in Int /\ shares.accepted \in Nat
      BY <1>1 DEF AcksType, SharesType
    <3>2. CASE acks.last = -1 /\ acks.sum = 0 /\ shares.accepted = 0
      <4>1. acks'.sum = 1 /\ shares'.accepted = 1
        BY <2>3, <2>6, <3>2
      <4>2. First >= 0
        BY DEF AckInv
      <4> QED
        BY <1>4, <2>4, <2>6, <4>1, <4>2
    <3>3. CASE /\ acks.last >= First /\ acks.last < First + Done
               /\ shares.accepted <= acks.sum /\ acks.sum <= acks.last - First + 1
      <4>1. acks.last >= 0 /\ reader.seq > acks.last
        BY <1>4, <2>5, <3>1, <3>3 DEF AckInv
      <4>2. acks'.sum = acks.sum + (First + Done - acks.last)
        BY <1>4, <2>5, <2>6, <3>1, <4>1
      <4> QED
        BY <1>4, <2>3, <2>4, <2>6, <3>1, <3>3, <4>2
    <3> QED
      BY <3>2, <3>3 DEF AckInv
  <2> QED
    BY <1>1, <1>4, <2>1, <2>2, <2>4, <2>7 DEF AckInv, MinerType
<1>14. CASE Retarget
  <2>1. reader.pc = "retarget" /\ reader'.pc \in {"idle", "pend"}
    <3>1. ASSUME NEW d, reader' = [reader EXCEPT !.pc = "pend", !.diff = d] PROVE reader'.pc = "pend"
      BY <1>1, <3>1 DEF ReaderType
    <3>2. reader' = IdleReader => reader'.pc = "idle"
      BY DEF IdleReader
    <3> QED
      BY <1>14, <3>1, <3>2 DEF Retarget
  <2> QED
    BY <1>6, <1>14, <2>1 DEF Retarget, countVars, Judging
<1>15. CASE SetPendingDiff
  BY <1>6, <1>15 DEF SetPendingDiff, countVars, Judging, IdleReader
<1>16. CASE UNCHANGED <<acks, shares, reader, miner, wire>>
  BY <1>5, <1>16 DEF Judging
<1>17. ASSUME NEW t \in Senders, SetTarget(t) PROVE AckInv'
  <2>1. Mined
    BY <1>1, <1>17 DEF SetTarget, MinerType
  <2> QED
    BY <1>5, <1>17, <2>1 DEF SetTarget, countVars, Judging
<1> QED
  BY <1>9, <1>10, <1>11, <1>12, <1>13, <1>14, <1>15, <1>16, <1>17
  DEF Next, Read, RetargetTime, LowDiffGraceEnds, SendJob, ResetWindow, countVars, vars

\* The cumulative acknowledgement covers every accepted share and no share that was not
\* submitted, whatever number the miner starts from and whichever shares are refused.
THEOREM AcksCorrect == Spec => []AcksCoverAccepted
<1>1. Init => TypeOK /\ AckInv
  BY InitTypeOK, SharesAssumption DEF Init, AckInv, First, Done, Judging, IdleReader
<1>2. TypeOK /\ AckInv => AcksCoverAccepted
  <2> SUFFICES ASSUME TypeOK, AckInv PROVE AcksCoverAccepted
    OBVIOUS
  <2>1. AcksType /\ SharesType /\ First \in Int
    BY SharesAssumption DEF TypeOK, First, MinerType
  <2> QED
    BY <2>1 DEF AckInv, Done, AcksType, SharesType, AcksCoverAccepted
<1> QED
  BY <1>1, <1>2, NextTypeOK, NextAck, PTL DEF Spec

-----------------------------------------------------------------------------
(* The grace of an honest share *)

\* d was the difficulty after change n, as far as anybody can still ask: of the last two.
Told(d, n) ==
  n <= changes /\ (n = changes => d = poolDifficulty) /\ (n = changes - 1 => d = prevDiff)

\* Whatever the miner was told, and whatever it mined, is of the change it says.
ToldInv ==
  /\ Told(miner.diff, miner.seen)
  /\ \A k \in 1..Len(wire) : Told(wire[k].diff, wire[k].seen)
  /\ \A t \in Senders : send[t].pc # "idle" => Told(send[t].diff, send[t].change)
  /\ reader.pc \in {"judge", "grace"} => Told(reader.diff, reader.seen) /\ reader.diff \in Diffs
  /\ reader.pc = "grace" => reader.seen < changes

LEMMA NextTold == TypeOK /\ ToldInv /\ [Next]_vars => ToldInv'
<1> SUFFICES ASSUME TypeOK, ToldInv, [Next]_vars PROVE ToldInv'
  OBVIOUS
<1>1. ChannelType /\ ReaderType /\ SendType /\ MinerType /\ wire \in Seq(Share) /\ Len(wire) \in Nat
  BY DEF TypeOK
<1> DEFINE Same == UNCHANGED <<changes, poolDifficulty, prevDiff>>
<1>2. ASSUME Same, UNCHANGED <<miner, wire, send>>,
             reader'.pc \in {"judge", "grace"} => Told(reader'.diff, reader'.seen) /\ reader'.diff \in Diffs,
             reader'.pc = "grace" => reader'.seen < changes
      PROVE  ToldInv'
  BY <1>2 DEF ToldInv, Told
<1>3. CASE Same /\ UNCHANGED <<miner, wire, send, reader>>
  BY <1>3 DEF ToldInv, Told
<1>4. ASSUME Same, UNCHANGED <<miner, wire, send>>, reader'.pc \notin {"judge", "grace"} PROVE ToldInv'
  BY <1>2, <1>4
<1>5. CASE Mine
  <2>1. Same /\ UNCHANGED <<send, reader>> /\ miner'.diff = miner.diff /\ miner'.seen = miner.seen
    BY <1>1, <1>5 DEF Mine, channelVars, MinerType
  <2>2. ASSUME NEW k \in 1..Len(wire') PROVE Told(wire'[k].diff, wire'[k].seen)
    <3>1. /\ Len(wire') = Len(wire) + 1 /\ \A i \in 1..Len(wire) : wire'[i] = wire[i]
          /\ wire'[Len(wire) + 1].diff = miner.diff /\ wire'[Len(wire) + 1].seen = miner.seen
      BY <1>1, <1>5 DEF Mine
    <3>2. CASE k \in 1..Len(wire)
      BY <3>1, <3>2 DEF ToldInv
    <3>3. CASE k = Len(wire) + 1
      BY <3>1, <3>3 DEF ToldInv
    <3> QED
      BY <1>1, <3>1, <3>2, <3>3
  <2> QED
    BY <2>1, <2>2 DEF ToldInv, Told
<1>6. CASE ReadShare
  <2>1. Same /\ UNCHANGED <<send, miner>> /\ wire # <<>> /\ wire' = Tail(wire)
    BY <1>6 DEF ReadShare, channelVars
  <2>2. /\ Len(wire') = Len(wire) - 1 /\ \A k \in 1..Len(wire') : wire'[k] = wire[k + 1]
        /\ Head(wire) = wire[1] /\ 1 \in 1..Len(wire)
    BY <1>1, <2>1
  <2>3. \A k \in 1..Len(wire') : k + 1 \in 1..Len(wire)
    BY <1>1, <2>2
  <2>4. \A k \in 1..Len(wire') : Told(wire'[k].diff, wire'[k].seen)
    BY <2>2, <2>3 DEF ToldInv
  <2>7. Head(wire) \in Share
    BY <1>1, <2>2
  <2>5. Told(Head(wire).diff, Head(wire).seen) /\ Head(wire).diff \in Diffs
    BY <2>2, <2>7 DEF ToldInv, Share
  <2>6. \/ reader'.pc = "idle"
        \/ reader'.pc = "judge" /\ reader'.diff = Head(wire).diff /\ reader'.seen = Head(wire).seen
    BY <1>6 DEF ReadShare, RecordRejection, IdleReader
  <2> QED
    BY <2>1, <2>4, <2>5, <2>6 DEF ToldInv, Told
\* A share of the last change is as hard as the target asks.
<1>7. CASE ValidateShare
  <2>1. /\ reader.pc = "judge" /\ reader'.diff = reader.diff /\ reader'.seen = reader.seen
        /\ reader'.pc = (IF reader.diff >= poolDifficulty THEN "record" ELSE "grace")
    BY <1>1, <1>7 DEF ValidateShare, ReaderType
  <2>2. Told(reader.diff, reader.seen) /\ reader.diff \in Diffs
    BY <2>1 DEF ToldInv
  <2>3. Diffs \subseteq Nat
    BY SharesAssumption
  <2>4. reader'.pc = "grace" => reader.seen < changes
    <3> SUFFICES ASSUME reader'.pc = "grace" PROVE reader.seen < changes
      OBVIOUS
    <3>1. reader.diff # poolDifficulty
      BY <1>1, <2>1, <2>2, <2>3 DEF ChannelType
    <3> QED
      BY <1>1, <2>2, <3>1 DEF Told, ChannelType, ReaderType
  <2>5. Same /\ UNCHANGED <<miner, wire, send>>
    BY <1>7 DEF ValidateShare, channelVars
  <2> QED
    BY <1>2, <2>1, <2>2, <2>4, <2>5
<1>8. CASE LowDiffGrace \/ RecordShare \/ Retarget \/ SetPendingDiff
  <2>1. Same /\ UNCHANGED <<miner, wire, send>>
    BY <1>8 DEF LowDiffGrace, RecordShare, Retarget, SetPendingDiff, channelVars
  <2>2. reader'.pc \in {"idle", "record", "retarget", "pend"}
    <3>1. CASE LowDiffGrace
      BY <1>1, <3>1 DEF LowDiffGrace, RecordRejection, IdleReader, ReaderType
    <3>2. CASE RecordShare
      BY <1>1, <3>2 DEF RecordShare, IdleReader, ReaderType
    <3>3. CASE Retarget
      <4>1. ASSUME NEW d, reader' = [reader EXCEPT !.pc = "pend", !.diff = d] PROVE reader'.pc = "pend"
        BY <1>1, <4>1 DEF ReaderType
      <4>2. reader' = IdleReader => reader'.pc = "idle"
        BY DEF IdleReader
      <4> QED
        BY <3>3, <4>1, <4>2 DEF Retarget
    <3>4. CASE SetPendingDiff
      BY <3>4 DEF SetPendingDiff, IdleReader
    <3> QED
      BY <1>8, <3>1, <3>2, <3>3, <3>4
  <2> QED
    BY <1>4, <2>1, <2>2
<1>9. ASSUME NEW t \in Senders, ResetWindow(t) PROVE ToldInv'
  <2>1. Same /\ UNCHANGED <<miner, wire, reader>> /\ send[t].pc = "reset" /\ send' = [send EXCEPT ![t].pc = "target"]
    BY <1>9 DEF ResetWindow, channelVars
  <2>2. \A u \in Senders : /\ send'[u].diff = send[u].diff /\ send'[u].change = send[u].change
                           /\ send'[u].pc # "idle" => send[u].pc # "idle"
    BY <1>1, <2>1 DEF SendType
  <2> QED
    BY <2>1, <2>2 DEF ToldInv, Told
<1>10. ASSUME NEW t \in Senders, SetTarget(t) PROVE ToldInv'
  <2>1. Same /\ UNCHANGED <<wire, reader>> /\ send[t].pc = "target"
    BY <1>10 DEF SetTarget, channelVars
  <2>2. miner'.diff = send[t].diff /\ miner'.seen = send[t].change
    BY <1>1, <1>10 DEF SetTarget, MinerType
  <2>3. \A u \in Senders : send'[u].pc # "idle" => send'[u] = send[u]
    BY <1>1, <1>10 DEF SetTarget, SendType, IdleSend
  <2> QED
    BY <2>1, <2>2, <2>3 DEF ToldInv, Told
\* A change: what was of the last one is now of the one before.
<1>11. ASSUME NEW t \in Senders, NEW future \in BOOLEAN, SendJob(t, future) PROVE ToldInv'
  <2>1. /\ changes' = changes + 1 /\ prevDiff' = poolDifficulty /\ poolDifficulty' = pendingDiff
        /\ UNCHANGED <<reader, miner, wire>>
    BY <1>11 DEF SendJob, FlushPendingDiff
  <2>2. ASSUME NEW d, NEW n \in Nat, Told(d, n)
        PROVE  n <= changes' /\ (n = changes' => d = poolDifficulty') /\ (n = changes' - 1 => d = prevDiff')
    BY <1>1, <2>1, <2>2 DEF Told, ChannelType
  <2>3. \A u \in Senders : \/ u # t /\ send'[u] = send[u]
                           \/ u = t /\ send'[u].diff = pendingDiff /\ send'[u].change = changes + 1
    BY <1>1, <1>11 DEF SendJob, SendType
  <2>4. Told(miner.diff, miner.seen)'
    <3>1. miner.seen \in Nat /\ Told(miner.diff, miner.seen)
      BY <1>1 DEF MinerType, ToldInv
    <3> QED
      BY <2>1, <2>2, <3>1 DEF Told
  <2>5. ASSUME NEW k \in 1..Len(wire) PROVE Told(wire[k].diff, wire[k].seen)'
    <3>1. wire[k] \in Share
      BY <1>1
    <3>2. wire[k].seen \in Nat /\ Told(wire[k].diff, wire[k].seen)
      BY <3>1 DEF Share, ToldInv
    <3> QED
      BY <2>1, <2>2, <3>2 DEF Told
  <2>6. ASSUME NEW u \in Senders, send'[u].pc # "idle" PROVE Told(send[u].diff, send[u].change)'
    <3>1. CASE u = t
      BY <1>1, <2>1, <2>3, <3>1 DEF Told, ChannelType
    <3>2. CASE u # t
      <4>1. send'[u] = send[u] /\ send[u].change \in Nat /\ Told(send[u].diff, send[u].change)
        BY <1>1, <2>3, <2>6, <3>2 DEF ToldInv, SendType
      <4> QED
        BY <2>1, <2>2, <4>1 DEF Told
    <3> QED
      BY <3>1, <3>2
  <2>7. reader.pc \in {"judge", "grace"} => Told(reader.diff, reader.seen)'
    <3>1. reader.seen \in Nat /\ (reader.pc \in {"judge", "grace"} => Told(reader.diff, reader.seen))
      BY <1>1 DEF ReaderType, ToldInv
    <3> QED
      BY <2>1, <2>2, <3>1 DEF Told
  <2>8. reader.pc = "grace" => reader.seen < changes'
    BY <1>1, <2>1 DEF ToldInv, ReaderType, ChannelType
  <2> QED
    BY <2>1, <2>4, <2>5, <2>6, <2>7, <2>8 DEF ToldInv
<1> QED
  BY <1>3, <1>5, <1>6, <1>7, <1>8, <1>9, <1>10, <1>11
  DEF Next, Read, RetargetTime, LowDiffGraceEnds, channelVars, vars

\* An honest share is refused only after its target has changed and the grace is over, or
\* after two changes, however many senders flush at a time.
THEOREM HonestShareKeptCorrect == Spec => HonestShareKept
<1> DEFINE Kept == reader.pc = "grace" /\ reader'.pc = "idle" =>
                     LET behind == changes - reader.seen IN (behind >= 1 /\ ~inGrace) \/ behind >= 2
<1>1. Init => TypeOK /\ ToldInv
  <2> SUFFICES ASSUME Init PROVE ToldInv
    BY InitTypeOK
  <2>1. /\ changes = 0 /\ miner.seen = 0 /\ miner.diff = StartDiff /\ poolDifficulty = StartDiff /\ wire = <<>>
        /\ reader.pc = "idle" /\ \A t \in Senders : send[t].pc = "idle"
    BY DEF Init, IdleReader, IdleSend
  <2> QED
    BY <2>1 DEF ToldInv, Told
<1>2. TypeOK /\ ToldInv /\ [Next]_vars => [Kept]_vars
  <2> SUFFICES ASSUME TypeOK, ToldInv, Next, reader.pc = "grace", reader'.pc = "idle"
               PROVE  LET behind == changes - reader.seen IN (behind >= 1 /\ ~inGrace) \/ behind >= 2
    BY DEF Kept
  <2>1. LowDiffGrace
    BY DEF Next, Mine, RetargetTime, LowDiffGraceEnds, Read, ReadShare, ValidateShare, RecordShare, Retarget,
       SetPendingDiff, ResetWindow, SetTarget, SendJob
  <2>2. ~(prevDiff > 0 /\ inGrace /\ reader.diff >= prevDiff)
    <3>1. reader \in [pc : {"idle", "judge", "grace", "record", "retarget", "pend"},
                      diff : Diffs \cup {0}, seen : Nat, seq : Nat]
      BY DEF TypeOK, ReaderType
    <3>2. ASSUME reader' = [reader EXCEPT !.pc = "record"] PROVE reader'.pc = "record"
      BY <3>1, <3>2
    <3> QED
      BY <2>1, <3>2 DEF LowDiffGrace
  <2>3. /\ reader.seen < changes /\ reader.seen \in Nat /\ changes \in Nat
        /\ (reader.seen = changes - 1 => reader.diff = prevDiff) /\ reader.diff \in Nat \ {0}
    BY SharesAssumption DEF ToldInv, Told, TypeOK, ReaderType, ChannelType
  <2>4. CASE reader.seen = changes - 1
    <3>1. ~inGrace
      BY <2>2, <2>3, <2>4
    <3> QED
      BY <2>3, <2>4, <3>1
  <2>5. CASE reader.seen # changes - 1
    BY <2>3, <2>5
  <2> QED
    BY <2>4, <2>5
<1> QED
  BY <1>1, <1>2, NextTypeOK, NextTold, PTL DEF Spec, HonestShareKept

-----------------------------------------------------------------------------
(* SV2Link: the connection that carries them.                                 *)
\* Fields one after the other, from offset a to offset b.
Chain(s, a, b) ==
  /\ s[1][1] = a
  /\ \A i \in 1..Len(s) : s[i][1] + s[i][2] = IF i = Len(s) THEN b ELSE s[i + 1][1]

LEMMA ChainsJoin ==
  ASSUME NEW S, NEW s \in Seq(S), NEW t \in Seq(S), s # <<>>, t # <<>>,
         NEW a, NEW b, NEW c, Chain(s, a, b), Chain(t, b, c)
  PROVE  Chain(s \o t, a, c)
<1>0. s \o t \in Seq(S) /\ Len(s \o t) = Len(s) + Len(t) /\ Len(s) \in Nat \ {0} /\ Len(t) \in Nat \ {0}
  OBVIOUS
<1>a. PICK u : u = s \o t
  OBVIOUS
<1>1. \A i \in 1..Len(s) : u[i] = s[i]
  BY <1>a
<1>2. \A i \in 1..Len(t) : u[Len(s) + i] = t[i]
  BY <1>a
<1>3. Len(u) = Len(s) + Len(t)
  BY <1>a, <1>0
<1>5. PICK m, n : m = Len(s) /\ n = Len(t) /\ m \in Nat \ {0} /\ n \in Nat \ {0}
  BY <1>0
<1>6. /\ \A i \in 1..m : s[i][1] + s[i][2] = IF i = m THEN b ELSE s[i + 1][1]
      /\ \A i \in 1..n : t[i][1] + t[i][2] = IF i = n THEN c ELSE t[i + 1][1]
      /\ t[1][1] = b
  BY <1>5 DEF Chain
<1>7. \A i \in 1..m : u[i] = s[i]
  BY <1>5, <1>1
<1>8. \A i \in 1..n : u[m + i] = t[i]
  BY <1>5, <1>2
<1>4. ASSUME NEW i \in 1..m + n PROVE u[i][1] + u[i][2] = IF i = m + n THEN c ELSE u[i + 1][1]
  <2>1. CASE i < m
    <3>1. i \in 1..m /\ i + 1 \in 1..m /\ i # m + n /\ i # m
      BY <1>5, <2>1
    <3>2. u[i] = s[i] /\ u[i + 1] = s[i + 1]
      BY <3>1, <1>7
    <3> QED
      BY <1>6, <3>1, <3>2
  <2>2. CASE i = m
    <3>1. i \in 1..m /\ i # m + n /\ 1 \in 1..n
      BY <1>5, <2>2
    <3>2. u[i] = s[i] /\ u[i + 1] = t[1]
      BY <3>1, <1>7, <1>8, <2>2
    <3> QED
      BY <1>6, <3>1, <3>2, <2>2
  <2>3. CASE i > m
    <3>0. PICK k : k = i - m
      OBVIOUS
    <3>1. k \in 1..n /\ (i = m + n <=> k = n) /\ i = m + k /\ (k # n => k + 1 \in 1..n) /\ i + 1 = m + (k + 1)
      BY <1>5, <2>3, <3>0
    <3>2. u[i] = t[k] /\ (k # n => u[i + 1] = t[k + 1])
      BY <3>1, <1>8
    <3> QED
      BY <1>6, <3>1, <3>2
  <2> QED
    BY <1>5, <2>1, <2>2, <2>3
<1>9. u[1][1] = a
  BY <1>7, <1>5 DEF Chain
<1> QED
  BY <1>3, <1>4, <1>5, <1>9, <1>a DEF Chain

LEMMA Chain1 ==
  ASSUME NEW w, NEW a, NEW b, Len(w) = 1, w[1][1] = a,
         w[1][1] + w[1][2] = b
  PROVE  Chain(w, a, b)
BY DEF Chain

LEMMA Chain2 ==
  ASSUME NEW w, NEW a, NEW b, Len(w) = 2, w[1][1] = a,
         w[1][1] + w[1][2] = w[2][1], w[2][1] + w[2][2] = b
  PROVE  Chain(w, a, b)
<1>1. ASSUME NEW i \in 1..2 PROVE w[i][1] + w[i][2] = IF i = 2 THEN b ELSE w[i + 1][1]
  <2>1. i = 1 \/ i = 2
    OBVIOUS
  <2> QED
    BY <2>1
<1> QED
  BY <1>1 DEF Chain

LEMMA Chain3 ==
  ASSUME NEW w, NEW a, NEW b, Len(w) = 3, w[1][1] = a,
         w[1][1] + w[1][2] = w[2][1], w[2][1] + w[2][2] = w[3][1], w[3][1] + w[3][2] = b
  PROVE  Chain(w, a, b)
<1>1. ASSUME NEW i \in 1..3 PROVE w[i][1] + w[i][2] = IF i = 3 THEN b ELSE w[i + 1][1]
  <2>1. i = 1 \/ i = 2 \/ i = 3
    OBVIOUS
  <2> QED
    BY <2>1
<1> QED
  BY <1>1 DEF Chain

LEMMA Chain4 ==
  ASSUME NEW w, NEW a, NEW b, Len(w) = 4, w[1][1] = a,
         w[1][1] + w[1][2] = w[2][1], w[2][1] + w[2][2] = w[3][1], w[3][1] + w[3][2] = w[4][1],
         w[4][1] + w[4][2] = b
  PROVE  Chain(w, a, b)
<1>1. ASSUME NEW i \in 1..4 PROVE w[i][1] + w[i][2] = IF i = 4 THEN b ELSE w[i + 1][1]
  <2>1. i = 1 \/ i = 2 \/ i = 3 \/ i = 4
    OBVIOUS
  <2> QED
    BY <2>1
<1> QED
  BY <1>1 DEF Chain

LEMMA Chain5 ==
  ASSUME NEW w, NEW a, NEW b, Len(w) = 5, w[1][1] = a,
         w[1][1] + w[1][2] = w[2][1], w[2][1] + w[2][2] = w[3][1], w[3][1] + w[3][2] = w[4][1],
         w[4][1] + w[4][2] = w[5][1], w[5][1] + w[5][2] = b
  PROVE  Chain(w, a, b)
<1>1. ASSUME NEW i \in 1..5 PROVE w[i][1] + w[i][2] = IF i = 5 THEN b ELSE w[i + 1][1]
  <2>1. i = 1 \/ i = 2 \/ i = 3 \/ i = 4 \/ i = 5
    OBVIOUS
  <2> QED
    BY <2>1
<1> QED
  BY <1>1 DEF Chain

LEMMA Chain6 ==
  ASSUME NEW w, NEW a, NEW b, Len(w) = 6, w[1][1] = a,
         w[1][1] + w[1][2] = w[2][1], w[2][1] + w[2][2] = w[3][1], w[3][1] + w[3][2] = w[4][1],
         w[4][1] + w[4][2] = w[5][1], w[5][1] + w[5][2] = w[6][1], w[6][1] + w[6][2] = b
  PROVE  Chain(w, a, b)
<1>1. ASSUME NEW i \in 1..6 PROVE w[i][1] + w[i][2] = IF i = 6 THEN b ELSE w[i + 1][1]
  <2>1. i = 1 \/ i = 2 \/ i = 3 \/ i = 4 \/ i = 5 \/ i = 6
    OBVIOUS
  <2> QED
    BY <2>1
<1> QED
  BY <1>1 DEF Chain

LEMMA ThreeJoin ==
  ASSUME NEW S, NEW r \in Seq(S), NEW s \in Seq(S), NEW t \in Seq(S), r # <<>>, s # <<>>, t # <<>>,
         NEW a, NEW b, NEW c, NEW d, Chain(r, a, b), Chain(s, b, c), Chain(t, c, d)
  PROVE  Chain((r \o s) \o t, a, d)
<1>1. r \o s \in Seq(S) /\ r \o s # <<>>
  OBVIOUS
<1>2. Chain(r \o s, a, c)
  BY ChainsJoin
<1> QED
  BY <1>1, <1>2, ChainsJoin

\* The fields fill the buffer, of size n.
Filled(e, n) == e.size = n /\ n \in Nat /\ Chain(e.writes, 0, n)

LEMMA SetupConnectionSuccessFills == Filled(EncodeSetupConnectionSuccess, 6)
<1> DEFINE e == EncodeSetupConnectionSuccess
           w == e.writes
<1>1. w = << <<0, 2>>, <<2, 4>> >> /\ e.size = 6
  BY DEF EncodeSetupConnectionSuccess
<1> HIDE DEF w, e
<1>2. Len(w) = 2 /\ w[1] = <<0, 2>> /\ w[2] = <<2, 4>>
  BY <1>1
<1>3. /\ w[1][1] = 0 /\ w[1][1] + w[1][2] = w[2][1]
      /\ w[2][1] + w[2][2] = 6
  BY <1>2
<1>4. Chain(w, 0, 6)
  BY <1>2, <1>3, Chain2
<1> QED
  BY <1>1, <1>4 DEF Filled, w, e

LEMMA SetupConnectionErrorFills == Filled(EncodeSetupConnectionError(20), 25)
<1> DEFINE e == EncodeSetupConnectionError(20)
           w == e.writes
<1>1. w = << <<0, 4>>, <<4, 21>> >> /\ e.size = 25
  BY DEF EncodeSetupConnectionError, EncodeStr
<1> HIDE DEF w, e
<1>2. Len(w) = 2 /\ w[1] = <<0, 4>> /\ w[2] = <<4, 21>>
  BY <1>1
<1>3. /\ w[1][1] = 0 /\ w[1][1] + w[1][2] = w[2][1]
      /\ w[2][1] + w[2][2] = 25
  BY <1>2
<1>4. Chain(w, 0, 25)
  BY <1>2, <1>3, Chain2
<1> QED
  BY <1>1, <1>4 DEF Filled, w, e

LEMMA OpenErrorFills == Filled(EncodeOpenStandardMiningChannelError(20), 25)
<1> DEFINE e == EncodeOpenStandardMiningChannelError(20)
           w == e.writes
<1>1. w = << <<0, 4>>, <<4, 21>> >> /\ e.size = 25
  BY DEF EncodeOpenStandardMiningChannelError, EncodeStr
<1> HIDE DEF w, e
<1>2. Len(w) = 2 /\ w[1] = <<0, 4>> /\ w[2] = <<4, 21>>
  BY <1>1
<1>3. /\ w[1][1] = 0 /\ w[1][1] + w[1][2] = w[2][1]
      /\ w[2][1] + w[2][2] = 25
  BY <1>2
<1>4. Chain(w, 0, 25)
  BY <1>2, <1>3, Chain2
<1> QED
  BY <1>1, <1>4 DEF Filled, w, e

LEMMA OpenExtendedSuccessFills == Filled(EncodeOpenExtendedMiningChannelSuccess(4), 51)
<1> DEFINE e == EncodeOpenExtendedMiningChannelSuccess(4)
           w == e.writes
<1>1. w = << <<0, 4>>, <<4, 4>>, <<8, 32>>, <<40, 2>>, <<42, 5>>, <<47, 4>> >> /\ e.size = 51
  BY DEF EncodeOpenExtendedMiningChannelSuccess, EncodeU256, EncodeB0_32
<1> HIDE DEF w, e
<1>2. Len(w) = 6 /\ w[1] = <<0, 4>> /\ w[2] = <<4, 4>> /\ w[3] = <<8, 32>> /\ w[4] = <<40, 2>> /\ w[5] = <<42, 5>> /\ w[6] = <<47, 4>>
  BY <1>1
<1>3. /\ w[1][1] = 0 /\ w[1][1] + w[1][2] = w[2][1]
      /\ w[2][1] + w[2][2] = w[3][1] /\ w[3][1] + w[3][2] = w[4][1] /\ w[4][1] + w[4][2] = w[5][1]
      /\ w[5][1] + w[5][2] = w[6][1] /\ w[6][1] + w[6][2] = 51
  BY <1>2
<1>4. Chain(w, 0, 51)
  BY <1>2, <1>3, Chain6
<1> QED
  BY <1>1, <1>4 DEF Filled, w, e

LEMMA OpenStandardSuccessFills == Filled(EncodeOpenStandardMiningChannelSuccess(4), 49)
<1> DEFINE e == EncodeOpenStandardMiningChannelSuccess(4)
           w == e.writes
<1>1. w = << <<0, 4>>, <<4, 4>>, <<8, 32>>, <<40, 5>>, <<45, 4>> >> /\ e.size = 49
  BY DEF EncodeOpenStandardMiningChannelSuccess, EncodeU256, EncodeB0_32
<1> HIDE DEF w, e
<1>2. Len(w) = 5 /\ w[1] = <<0, 4>> /\ w[2] = <<4, 4>> /\ w[3] = <<8, 32>> /\ w[4] = <<40, 5>> /\ w[5] = <<45, 4>>
  BY <1>1
<1>3. /\ w[1][1] = 0 /\ w[1][1] + w[1][2] = w[2][1]
      /\ w[2][1] + w[2][2] = w[3][1] /\ w[3][1] + w[3][2] = w[4][1] /\ w[4][1] + w[4][2] = w[5][1]
      /\ w[5][1] + w[5][2] = 49
  BY <1>2
<1>4. Chain(w, 0, 49)
  BY <1>2, <1>3, Chain5
<1> QED
  BY <1>1, <1>4 DEF Filled, w, e

LEMMA SetTargetFills == Filled(EncodeSetTarget, 36)
<1> DEFINE e == EncodeSetTarget
           w == e.writes
<1>1. w = << <<0, 4>>, <<4, 32>> >> /\ e.size = 36
  BY DEF EncodeSetTarget, EncodeU256
<1> HIDE DEF w, e
<1>2. Len(w) = 2 /\ w[1] = <<0, 4>> /\ w[2] = <<4, 32>>
  BY <1>1
<1>3. /\ w[1][1] = 0 /\ w[1][1] + w[1][2] = w[2][1]
      /\ w[2][1] + w[2][2] = 36
  BY <1>2
<1>4. Chain(w, 0, 36)
  BY <1>2, <1>3, Chain2
<1> QED
  BY <1>1, <1>4 DEF Filled, w, e

LEMMA SetNewPrevHashFills == Filled(EncodeSetNewPrevHash, 48)
<1> DEFINE e == EncodeSetNewPrevHash
           w == e.writes
<1>1. w = << <<0, 4>>, <<4, 4>>, <<8, 32>>, <<40, 4>>, <<44, 4>> >> /\ e.size = 48
  BY DEF EncodeSetNewPrevHash
<1> HIDE DEF w, e
<1>2. Len(w) = 5 /\ w[1] = <<0, 4>> /\ w[2] = <<4, 4>> /\ w[3] = <<8, 32>> /\ w[4] = <<40, 4>> /\ w[5] = <<44, 4>>
  BY <1>1
<1>3. /\ w[1][1] = 0 /\ w[1][1] + w[1][2] = w[2][1]
      /\ w[2][1] + w[2][2] = w[3][1] /\ w[3][1] + w[3][2] = w[4][1] /\ w[4][1] + w[4][2] = w[5][1]
      /\ w[5][1] + w[5][2] = 48
  BY <1>2
<1>4. Chain(w, 0, 48)
  BY <1>2, <1>3, Chain5
<1> QED
  BY <1>1, <1>4 DEF Filled, w, e

LEMMA SubmitSharesSuccessFills == Filled(EncodeSubmitSharesSuccess, 20)
<1> DEFINE e == EncodeSubmitSharesSuccess
           w == e.writes
<1>1. w = << <<0, 4>>, <<4, 4>>, <<8, 4>>, <<12, 8>> >> /\ e.size = 20
  BY DEF EncodeSubmitSharesSuccess
<1> HIDE DEF w, e
<1>2. Len(w) = 4 /\ w[1] = <<0, 4>> /\ w[2] = <<4, 4>> /\ w[3] = <<8, 4>> /\ w[4] = <<12, 8>>
  BY <1>1
<1>3. /\ w[1][1] = 0 /\ w[1][1] + w[1][2] = w[2][1]
      /\ w[2][1] + w[2][2] = w[3][1] /\ w[3][1] + w[3][2] = w[4][1] /\ w[4][1] + w[4][2] = 20
  BY <1>2
<1>4. Chain(w, 0, 20)
  BY <1>2, <1>3, Chain4
<1> QED
  BY <1>1, <1>4 DEF Filled, w, e

LEMMA SubmitSharesErrorFills == Filled(EncodeSubmitSharesError(20), 29)
<1> DEFINE e == EncodeSubmitSharesError(20)
           w == e.writes
<1>1. w = << <<0, 4>>, <<4, 4>>, <<8, 21>> >> /\ e.size = 29
  BY DEF EncodeSubmitSharesError, EncodeStr
<1> HIDE DEF w, e
<1>2. Len(w) = 3 /\ w[1] = <<0, 4>> /\ w[2] = <<4, 4>> /\ w[3] = <<8, 21>>
  BY <1>1
<1>3. /\ w[1][1] = 0 /\ w[1][1] + w[1][2] = w[2][1]
      /\ w[2][1] + w[2][2] = w[3][1] /\ w[3][1] + w[3][2] = 29
  BY <1>2
<1>4. Chain(w, 0, 29)
  BY <1>2, <1>3, Chain3
<1> QED
  BY <1>1, <1>4 DEF Filled, w, e

\* The head of a job and its OPTION.
JobHead == << <<0, 4>>, <<4, 4>> >>

LEMMA HeadChains == JobHead \in Seq(Nat \X Nat) /\ JobHead # <<>> /\ Chain(JobHead, 0, 8)
<1>1. JobHead \in Seq(Nat \X Nat) /\ JobHead # <<>> /\ Len(JobHead) = 2 /\ JobHead[1] = <<0, 4>> /\ JobHead[2] = <<4, 4>>
  BY DEF JobHead
<1>2. JobHead[1][1] = 0 /\ JobHead[1][1] + JobHead[1][2] = JobHead[2][1] /\ JobHead[2][1] + JobHead[2][2] = 8
  BY <1>1
<1> QED
  BY <1>1, <1>2, Chain2

LEMMA OptionChains ==
  ASSUME NEW set \in BOOLEAN
  PROVE  /\ Option(set, 8) \in Seq(Nat \X Nat) /\ Option(set, 8) # <<>>
         /\ Chain(Option(set, 8), 8, 8 + OptionLen(set)) /\ OptionLen(set) \in {1, 5}
<1> DEFINE w == Option(set, 8)
<1>1. CASE set
  <2>1. w = << <<8, 1>>, <<9, 4>> >> /\ OptionLen(set) = 5
    BY <1>1 DEF Option, OptionLen
  <2> HIDE DEF w
  <2>2. w \in Seq(Nat \X Nat) /\ w # <<>> /\ Len(w) = 2 /\ w[1] = <<8, 1>> /\ w[2] = <<9, 4>>
    BY <2>1
  <2>3. w[1][1] = 8 /\ w[1][1] + w[1][2] = w[2][1] /\ w[2][1] + w[2][2] = 13
    BY <2>2
  <2>4. Chain(w, 8, 13)
    BY <2>2, <2>3, Chain2
  <2> QED
    BY <2>1, <2>2, <2>4 DEF w
<1>2. CASE ~set
  <2>1. w = << <<8, 1>> >> /\ OptionLen(set) = 1
    BY <1>2 DEF Option, OptionLen
  <2> HIDE DEF w
  <2>2. w \in Seq(Nat \X Nat) /\ w # <<>> /\ Len(w) = 1 /\ w[1] = <<8, 1>>
    BY <2>1
  <2>3. w[1][1] = 8 /\ w[1][1] + w[1][2] = 9
    BY <2>2
  <2>4. Chain(w, 8, 9)
    BY <2>2, <2>3, Chain1
  <2> QED
    BY <2>1, <2>2, <2>4 DEF w
<1> QED
  BY <1>1, <1>2

LEMMA NewMiningJobFills ==
  ASSUME NEW set \in BOOLEAN
  PROVE  Filled(EncodeNewMiningJob(set), 44 + OptionLen(set))
<1> DEFINE e      == EncodeNewMiningJob(set)
           option == Option(set, 8)
           off    == 8 + OptionLen(set)
           tail   == << <<off, 4>>, <<off + 4, 32>> >>
<1>0. OptionLen(set) \in Nat
  BY OptionChains
<1>1. off \in Nat /\ 44 + OptionLen(set) = off + 36
  BY <1>0
<1>2. e.writes = (JobHead \o option) \o tail /\ e.size = 4 + 4 + OptionLen(set) + 4 + 32
  BY DEF EncodeNewMiningJob, JobHead
<1>3. e.size = off + 36
  <2> HIDE DEF e
  <2> QED
    BY <1>0, <1>2
<1>4. option \in Seq(Nat \X Nat) /\ option # <<>> /\ Chain(option, 8, off)
  BY OptionChains
<1> HIDE DEF e, option, off
<1>5. /\ tail \in Seq(Nat \X Nat) /\ tail # <<>> /\ Len(tail) = 2
      /\ tail[1] = <<off, 4>> /\ tail[2] = <<off + 4, 32>>
  BY <1>1
<1> HIDE DEF tail
<1>6. tail[1][1] = off /\ tail[1][1] + tail[1][2] = tail[2][1] /\ tail[2][1] + tail[2][2] = off + 36
  BY <1>1, <1>5
<1>7. Chain(tail, off, off + 36)
  BY <1>5, <1>6, Chain2
<1>8. Chain((JobHead \o option) \o tail, 0, off + 36)
  BY <1>4, <1>5, <1>7, HeadChains, ThreeJoin
<1> QED
  BY <1>1, <1>2, <1>3, <1>8 DEF Filled, e

LEMMA NewExtendedMiningJobFills ==
  ASSUME NEW set \in BOOLEAN, NEW path \in Nat, NEW prefix \in Nat, NEW suffix \in Nat
  PROVE  \E n \in Nat : Filled(EncodeNewExtendedMiningJob(set, path, prefix, suffix), n)
<1> DEFINE e      == EncodeNewExtendedMiningJob(set, path, prefix, suffix)
           option == Option(set, 8)
           off    == 8 + OptionLen(set)
           p      == EncodeSeqU256(path)
           c1     == EncodeB0_64K(prefix)
           c2     == EncodeB0_64K(suffix)
           tail   == << <<off, 4>>, <<off + 4, 1>>, <<off + 5, p>>, <<off + 4 + 1 + p, c1>>, <<off + 4 + 1 + p + c1, c2>> >>
           n      == off + 5 + p + c1 + c2
<1>0. p \in Nat /\ c1 \in Nat /\ c2 \in Nat
  BY DEF EncodeSeqU256, EncodeB0_64K
<1>9. OptionLen(set) \in Nat
  BY OptionChains
<1>1. off \in Nat
  BY <1>9
<1>2. e.writes = (JobHead \o option) \o tail /\ e.size = 4 + 4 + OptionLen(set) + 4 + 1 + p + c1 + c2
  BY DEF EncodeNewExtendedMiningJob, JobHead
<1> HIDE DEF p, c1, c2
<1>3. e.size = n /\ n \in Nat
  <2>1. PICK x \in Nat : x = OptionLen(set)
    BY <1>9
  <2>2. e.size = 4 + 4 + x + 4 + 1 + p + c1 + c2 /\ n = (8 + x) + 5 + p + c1 + c2
    BY <1>2, <2>1
  <2> HIDE DEF e, n
  <2> QED
    BY <1>0, <2>1, <2>2
<1>4. option \in Seq(Nat \X Nat) /\ option # <<>> /\ Chain(option, 8, off)
  BY OptionChains
<1> HIDE DEF e, option, off
<1>5. /\ tail \in Seq(Nat \X Nat) /\ tail # <<>> /\ Len(tail) = 5
      /\ tail[1] = <<off, 4>> /\ tail[2] = <<off + 4, 1>> /\ tail[3] = <<off + 5, p>>
      /\ tail[4] = <<off + 4 + 1 + p, c1>> /\ tail[5] = <<off + 4 + 1 + p + c1, c2>>
  BY <1>0, <1>1
<1> HIDE DEF tail
<1>6. /\ tail[1][1] = off /\ tail[1][1] + tail[1][2] = tail[2][1] /\ tail[2][1] + tail[2][2] = tail[3][1]
      /\ tail[3][1] + tail[3][2] = tail[4][1] /\ tail[4][1] + tail[4][2] = tail[5][1]
      /\ tail[5][1] + tail[5][2] = n
  BY <1>0, <1>1, <1>5
<1> HIDE DEF n
<1>7. Chain(tail, off, n)
  BY <1>5, <1>6, Chain5
<1>8. Chain((JobHead \o option) \o tail, 0, n)
  BY <1>4, <1>5, <1>7, HeadChains, ThreeJoin
<1> QED
  BY <1>2, <1>3, <1>8 DEF Filled, e

\* What a frame is made of.
LEMMA FramesMade ==
  ASSUME NEW kind \in Kinds, NEW extended \in BOOLEAN, NEW set \in BOOLEAN
  PROVE  FrameOf(kind, extended, set) \in Frames
BY DEF Frames

LEMMA FrameFields ==
  ASSUME NEW f \in Frames
  PROVE  f.kind \in Kinds /\ f.extended \in BOOLEAN /\ f.set \in BOOLEAN
<1>1. PICK kind \in Kinds, extended \in BOOLEAN, set \in BOOLEAN : f = FrameOf(kind, extended, set)
  BY DEF Frames
<1> QED
  BY <1>1 DEF FrameOf

LEMMA OptionSize ==
  ASSUME NEW set \in BOOLEAN
  PROVE  OptionLen(set) \in Nat
BY DEF OptionLen

LEMMA FieldsFill ==
  ASSUME NEW f \in Frames
  PROVE  \E n \in Nat : Filled(Payload(f), n)
<1>0. f.kind \in Kinds /\ f.extended \in BOOLEAN /\ f.set \in BOOLEAN
  BY FrameFields
<1>1. CASE f.kind = "job"
  <2>1. CASE f.extended
    <3>1. Payload(f) = EncodeNewExtendedMiningJob(f.set, Path, Coinb1, Coinb2)
      BY <1>1, <2>1 DEF Payload
    <3>2. Path \in Nat /\ Coinb1 \in Nat /\ Coinb2 \in Nat
      BY LinkAssumption
    <3> QED
      BY <1>0, <3>1, <3>2, NewExtendedMiningJobFills
  <2>2. CASE ~f.extended
    <3>1. Payload(f) = EncodeNewMiningJob(f.set)
      BY <1>1, <2>2 DEF Payload
    <3>0. PICK set \in BOOLEAN : set = f.set
      BY <1>0
    <3>2. OptionLen(set) \in Nat
      BY OptionSize
    <3>3. 44 + OptionLen(f.set) \in Nat
      BY <3>0, <3>2
    <3> QED
      BY <1>0, <3>1, <3>3, NewMiningJobFills
  <2> QED
    BY <1>0, <2>1, <2>2
<1>2. CASE f.kind = "openOk"
  <2>1. CASE f.extended
    <3>1. Payload(f) = EncodeOpenExtendedMiningChannelSuccess(4)
      BY <1>2, <2>1 DEF Payload
    <3> QED
      BY <3>1, OpenExtendedSuccessFills
  <2>2. CASE ~f.extended
    <3>1. Payload(f) = EncodeOpenStandardMiningChannelSuccess(4)
      BY <1>2, <2>2 DEF Payload
    <3> QED
      BY <3>1, OpenStandardSuccessFills
  <2> QED
    BY <1>0, <2>1, <2>2
<1>3. CASE f.kind = "setupOk"
  <2>1. Payload(f) = EncodeSetupConnectionSuccess
    BY <1>3 DEF Payload
  <2> QED
    BY <2>1, SetupConnectionSuccessFills
<1>4. CASE f.kind = "setupError"
  <2>1. Payload(f) = EncodeSetupConnectionError(20)
    BY <1>4 DEF Payload
  <2> QED
    BY <2>1, SetupConnectionErrorFills
<1>5. CASE f.kind = "openError"
  <2>1. Payload(f) = EncodeOpenStandardMiningChannelError(20)
    BY <1>5 DEF Payload
  <2> QED
    BY <2>1, OpenErrorFills
<1>6. CASE f.kind = "target"
  <2>1. Payload(f) = EncodeSetTarget
    BY <1>6 DEF Payload
  <2> QED
    BY <2>1, SetTargetFills
<1>7. CASE f.kind = "prevhash"
  <2>1. Payload(f) = EncodeSetNewPrevHash
    BY <1>7 DEF Payload
  <2> QED
    BY <2>1, SetNewPrevHashFills
<1>8. CASE f.kind = "ack"
  <2>1. Payload(f) = EncodeSubmitSharesSuccess
    BY <1>8 DEF Payload
  <2> QED
    BY <2>1, SubmitSharesSuccessFills
<1>9. CASE f.kind = "refused"
  <2>1. Payload(f) = EncodeSubmitSharesError(20)
    BY <1>9 DEF Payload
  <2> QED
    BY <2>1, SubmitSharesErrorFills
<1> QED
  BY <1>0, <1>1, <1>2, <1>3, <1>4, <1>5, <1>6, <1>7, <1>8, <1>9 DEF Kinds

LEMMA ChunksNat == ASSUME NEW f \in Frames PROVE ChunksOf[f] \in Nat
<1>1. ChunksOf[f] = (Payload(f).size + PayloadPerChunk - 1) \div PayloadPerChunk
  BY DEF ChunksOf
<1>2. Payload(f).size \in Nat
  BY FieldsFill DEF Filled
<1> QED
  BY <1>1, <1>2 DEF PayloadPerChunk

\* No frame has a byte of its payload unwritten or written twice.
LEMMA AllFilled == FilledFrames = Frames
<1> SUFFICES ASSUME NEW f \in Frames PROVE Fills(Payload(f))
  BY DEF FilledFrames
<1>1. PICK n \in Nat : Filled(Payload(f), n)
  BY FieldsFill
<1> QED
  BY <1>1 DEF Filled, Chain, Fills

LEMMA SeqsJoin ==
  ASSUME NEW S, NEW s \in Seq(S), NEW t \in Seq(S)
  PROVE  s \o t \in Seq(S) /\ Len(s \o t) = Len(s) + Len(t) /\ Len(s) \in Nat /\ Len(t) \in Nat
OBVIOUS

\* The frames of a push: some, if there is a channel.
LEMMA JobFrames ==
  ASSUME NEW retarget \in BOOLEAN, NEW newBlock \in BOOLEAN, channels \in Seq(BOOLEAN)
  PROVE  /\ JobForAll(retarget, newBlock) \in Seq(Frames)
         /\ channels # <<>> => JobForAll(retarget, newBlock) # <<>>
<1> DEFINE j(x) == JobFor(x, retarget, newBlock)
           n == Len(j(FALSE))
<1>1. \A x \in BOOLEAN : j(x) \in Seq(Frames) /\ Len(j(x)) = n /\ n \in {1, 2, 3}
  <2> DEFINE t    == IF retarget THEN <<Frame("target")>> ELSE <<>>
             h    == IF newBlock THEN <<Frame("prevhash")>> ELSE <<>>
             b(x) == <<FrameOf("job", x, ~newBlock)>>
  <2>1. Frame("target") \in Frames /\ Frame("prevhash") \in Frames
    BY FramesMade DEF Kinds, Frame
  <2>2. t \in Seq(Frames) /\ h \in Seq(Frames) /\ Len(t) \in {0, 1} /\ Len(h) \in {0, 1}
    BY <2>1
  <2>3. ASSUME NEW x \in BOOLEAN PROVE b(x) \in Seq(Frames) /\ Len(b(x)) = 1
    <3>1. FrameOf("job", x, ~newBlock) \in Frames
      BY FramesMade DEF Kinds
    <3> QED
      BY <3>1
  <2>4. ASSUME NEW x \in BOOLEAN PROVE j(x) = (t \o b(x)) \o h
    BY DEF JobFor
  <2> HIDE DEF t, h, b, j
  <2>5. ASSUME NEW x \in BOOLEAN PROVE j(x) \in Seq(Frames) /\ Len(j(x)) = Len(t) + 1 + Len(h)
    <3>1. PICK u \in Seq(Frames) : u = b(x) /\ Len(u) = 1
      BY <2>3
    <3>0. t \in Seq(Frames) /\ u \in Seq(Frames)
      BY <2>2, <3>1
    <3>2. t \o u \in Seq(Frames) /\ Len(t \o u) = Len(t) + 1
      <4>1. t \o u \in Seq(Frames) /\ Len(t \o u) = Len(t) + Len(u)
        BY ONLY <3>0, SeqsJoin
      <4> QED
        BY <3>1, <4>1
    <3>3. (t \o u) \o h \in Seq(Frames) /\ Len((t \o u) \o h) = Len(t) + 1 + Len(h)
      BY <2>2, <3>2, SeqsJoin
    <3> QED
      BY <2>4, <3>1, <3>3
  <2>6. n = Len(t) + 1 + Len(h)
    BY <2>5
  <2>7. n \in {1, 2, 3}
    <3>1. PICK lt \in {0, 1}, lh \in {0, 1} : n = lt + 1 + lh
      BY <2>2, <2>6
    <3>2. lt + 1 + lh = 1 \/ lt + 1 + lh = 2 \/ lt + 1 + lh = 3
      OBVIOUS
    <3> QED
      BY <3>1, <3>2
  <2> QED
    BY <2>5, <2>6, <2>7
<1>2. JobForAll(retarget, newBlock) = [k \in 1..n * Len(channels) |-> j(channels[((k - 1) \div n) + 1])[((k - 1) % n) + 1]]
  BY DEF JobForAll
<1> HIDE DEF j, n
<1>3. n * Len(channels) \in Nat /\ (channels # <<>> => n * Len(channels) # 0)
  BY <1>1
<1>4. ASSUME NEW k \in 1..n * Len(channels)
      PROVE  ((k - 1) \div n) + 1 \in 1..Len(channels) /\ ((k - 1) % n) + 1 \in 1..n
  <2>1. CASE n = 1
    BY <2>1
  <2>2. CASE n = 2
    BY <2>2
  <2>3. CASE n = 3
    BY <2>3
  <2> QED
    BY <1>1, <2>1, <2>2, <2>3
<1>5. ASSUME NEW k \in 1..n * Len(channels)
      PROVE  j(channels[((k - 1) \div n) + 1])[((k - 1) % n) + 1] \in Frames
  <2>1. channels[((k - 1) \div n) + 1] \in BOOLEAN
    BY <1>4
  <2> QED
    BY <1>1, <1>4, <2>1
<1>6. PICK m \in Nat : m = n * Len(channels)
  BY <1>3
<1>7. PICK q : q = JobForAll(retarget, newBlock)
  OBVIOUS
<1>8. q \in [1..m -> Frames]
  BY <1>2, <1>5, <1>6, <1>7
<1>9. q \in Seq(Frames) /\ Len(q) = m
  BY <1>8
<1> QED
  BY <1>3, <1>6, <1>7, <1>9

LEMMA InOrder == \A x, y, z \in Nat : x <= y /\ y <= z => x <= z
OBVIOUS

LEMMA BothLess == \A x, y \in Nat : x <= y => x - 1 <= y - 1
OBVIOUS

LEMMA NextUpTo == \A x, y \in Nat : x <= y /\ x # y => x + 1 \in 1..y
OBVIOUS

LEMMA OneLess == \A x, y \in Nat : (x - y + 1) + 1 = x - (y - 1) + 1
OBVIOUS

\* The segments d of a socket, read in turn with left chunks of s[1] to come: segment k
\* is part pt[k] of the frame s[ix[k]], and what is written next is part b of the a-th.
Flow(C, d, s, left, a, b, ix, pt) ==
  /\ ix \in [1..Len(d) + 1 -> Nat] /\ pt \in [1..Len(d) + 1 -> Nat]
  /\ ix[1] = 1 /\ pt[1] = IF left = 0 THEN 0 ELSE C[s[1]] - left + 1
  /\ ix[Len(d) + 1] = a /\ pt[Len(d) + 1] = b
  /\ \A k \in 1..Len(d) :
       /\ ix[k] \in 1..Len(s) /\ pt[k] <= C[s[ix[k]]]
       /\ d[k].part = pt[k] /\ d[k].kind = s[ix[k]].kind
       /\ ix[k + 1] = IF pt[k] = C[s[ix[k]]] THEN ix[k] + 1 ELSE ix[k]
       /\ pt[k + 1] = IF pt[k] = C[s[ix[k]]] THEN 0 ELSE pt[k] + 1
  /\ \A j, k \in 1..Len(d) + 1 : j <= k => ix[j] <= ix[k]

LEMMA AppendedAt ==
  ASSUME NEW S, NEW s \in Seq(S), NEW x \in S
  PROVE  /\ Append(s, x) \in Seq(S) /\ Append(s, x) # <<>>
         /\ Len(Append(s, x)) = Len(s) + 1 /\ Len(s) \in Nat
         /\ Append(s, x)[Len(s) + 1] = x /\ \A i \in 1..Len(s) : Append(s, x)[i] = s[i]
OBVIOUS

LEMMA TailAt ==
  ASSUME NEW S, NEW s \in Seq(S), s # <<>>
  PROVE  /\ Tail(s) \in Seq(S) /\ Len(Tail(s)) = Len(s) - 1 /\ Len(s) \in Nat \ {0}
         /\ \A i \in 1..Len(s) - 1 : Tail(s)[i] = s[i + 1]
OBVIOUS

\* One more segment, of a frame that is in s.
LEMMA FlowWritten ==
  ASSUME NEW F, NEW C \in [F -> Nat], NEW D, NEW d \in Seq(D), NEW x \in D, NEW s \in Seq(F), NEW left \in Nat,
         NEW a, NEW b, NEW ix, NEW pt, Flow(C, d, s, left, a, b, ix, pt),
         a \in 1..Len(s), b <= C[s[a]], x.part = b, x.kind = s[a].kind
  PROVE  \E ix2, pt2 : Flow(C, Append(d, x), s, left, IF b = C[s[a]] THEN a + 1 ELSE a,
                            IF b = C[s[a]] THEN 0 ELSE b + 1, ix2, pt2)
<1>6. PICK p, q : p = (IF b = C[s[a]] THEN a + 1 ELSE a) /\ q = IF b = C[s[a]] THEN 0 ELSE b + 1
  OBVIOUS
<1>0. PICK n \in Nat : n = Len(d)
  OBVIOUS
<1>1. PICK e : e = Append(d, x)
  OBVIOUS
<1>2. Len(e) = n + 1 /\ e[n + 1] = x /\ \A i \in 1..n : e[i] = d[i]
  BY <1>0, <1>1, AppendedAt
<1>3. /\ ix \in [1..n + 1 -> Nat] /\ pt \in [1..n + 1 -> Nat] /\ a \in Nat /\ b \in Nat
      /\ ix[1] = 1 /\ pt[1] = IF left = 0 THEN 0 ELSE C[s[1]] - left + 1
      /\ ix[n + 1] = a /\ pt[n + 1] = b
  BY <1>0 DEF Flow
<1>4. \A k \in 1..n :
         /\ ix[k] \in 1..Len(s) /\ pt[k] <= C[s[ix[k]]]
         /\ d[k].part = pt[k] /\ d[k].kind = s[ix[k]].kind
         /\ ix[k + 1] = IF pt[k] = C[s[ix[k]]] THEN ix[k] + 1 ELSE ix[k]
         /\ pt[k + 1] = IF pt[k] = C[s[ix[k]]] THEN 0 ELSE pt[k] + 1
  BY <1>0 DEF Flow
<1>5. \A j, k \in 1..n + 1 : j <= k => ix[j] <= ix[k]
  BY <1>0 DEF Flow
<1>7. p \in Nat /\ q \in Nat /\ a <= p
  BY <1>3, <1>6
<1>8. PICK u \in [1..n + 2 -> Nat], v \in [1..n + 2 -> Nat] :
        /\ u[n + 2] = p /\ v[n + 2] = q
        /\ \A k \in 1..n + 1 : u[k] = ix[k] /\ v[k] = pt[k]
  <2> DEFINE ix2 == [k \in 1..n + 2 |-> IF k = n + 2 THEN p ELSE ix[k]]
             pt2 == [k \in 1..n + 2 |-> IF k = n + 2 THEN q ELSE pt[k]]
  <2>1. ASSUME NEW k \in 1..n + 2 PROVE /\ (IF k = n + 2 THEN p ELSE ix[k]) \in Nat
                                        /\ (IF k = n + 2 THEN q ELSE pt[k]) \in Nat
    <3>1. k # n + 2 => k \in 1..n + 1
      OBVIOUS
    <3> QED
      BY <3>1, <1>3, <1>7
  <2>2. ix2 \in [1..n + 2 -> Nat] /\ pt2 \in [1..n + 2 -> Nat]
    BY <2>1
  <2>3. /\ ix2[n + 2] = p /\ pt2[n + 2] = q
        /\ \A k \in 1..n + 1 : ix2[k] = ix[k] /\ pt2[k] = pt[k]
    OBVIOUS
  <2> QED
    BY <2>2, <2>3
<1>9. u[1] = 1 /\ v[1] = IF left = 0 THEN 0 ELSE C[s[1]] - left + 1
  BY <1>3, <1>8
<1>10. ASSUME NEW k \in 1..n + 1
       PROVE  /\ u[k] \in 1..Len(s) /\ v[k] <= C[s[u[k]]]
              /\ e[k].part = v[k] /\ e[k].kind = s[u[k]].kind
              /\ u[k + 1] = IF v[k] = C[s[u[k]]] THEN u[k] + 1 ELSE u[k]
              /\ v[k + 1] = IF v[k] = C[s[u[k]]] THEN 0 ELSE v[k] + 1
  <2>1. CASE k = n + 1
    <3>1. u[k] = a /\ v[k] = b /\ u[k + 1] = p /\ v[k + 1] = q /\ e[k] = x
      BY <2>1, <1>2, <1>3, <1>8
    <3> QED
      BY <3>1, <1>6
  <2>2. CASE k # n + 1
    <3>1. k \in 1..n /\ k + 1 \in 1..n + 1
      BY <2>2
    <3>2. u[k] = ix[k] /\ v[k] = pt[k] /\ u[k + 1] = ix[k + 1] /\ v[k + 1] = pt[k + 1] /\ e[k] = d[k]
      BY <3>1, <1>2, <1>8
    <3> QED
      BY <3>1, <3>2, <1>4
  <2> QED
    BY <2>1, <2>2
<1>11. ASSUME NEW j \in 1..n + 2, NEW k \in 1..n + 2, j <= k PROVE u[j] <= u[k]
  <2>1. CASE k = n + 2
    <3>1. CASE j = n + 2
      BY <2>1, <3>1, <1>8
    <3>2. CASE j # n + 2
      <4>1. j \in 1..n + 1 /\ n + 1 \in 1..n + 1
        BY <3>2
      <4>2. u[j] = ix[j] /\ ix[j] <= a /\ u[k] = p
        <5>1. u[j] = ix[j] /\ u[k] = p
          BY <4>1, <2>1, <1>8
        <5>2. ix[j] <= ix[n + 1] /\ ix[n + 1] = a
          <6>1. j <= n + 1
            BY <4>1
          <6> QED
            BY <6>1, <4>1, <1>3, <1>5
        <5> QED
          BY <5>1, <5>2
      <4>3. ix[j] \in Nat
        BY <4>1, <1>3
      <4>4. PICK m \in Nat : m = ix[j] /\ m <= a
        BY <4>2, <4>3
      <4>5. a \in Nat /\ p \in Nat /\ a <= p
        BY <1>7, <1>3
      <4>6. m <= p
        BY <4>4, <4>5, InOrder
      <4> QED
        BY <4>2, <4>4, <4>6
    <3> QED
      BY <3>1, <3>2
  <2>2. CASE k # n + 2
    <3>1. j \in 1..n + 1 /\ k \in 1..n + 1
      BY <2>2, <1>11
    <3> QED
      BY <3>1, <1>5, <1>8, <1>11
  <2> QED
    BY <2>1, <2>2
<1>12. Flow(C, e, s, left, p, q, u, v)
  <2>1. Len(e) + 1 = n + 2
    BY <1>2
  <2> QED
    BY <2>1, <1>2, <1>8, <1>9, <1>10, <1>11 DEF Flow
<1> QED
  BY <1>1, <1>6, <1>12

\* One more frame to come.
LEMMA FlowGrows ==
  ASSUME NEW F, NEW C \in [F -> Nat], NEW D, NEW d \in Seq(D), NEW s \in Seq(F), NEW f \in F, NEW left \in Nat,
         left > 0 => s # <<>>,
         NEW a, NEW b, NEW ix, NEW pt, Flow(C, d, s, left, a, b, ix, pt)
  PROVE  Flow(C, d, Append(s, f), left, a, b, ix, pt)
<1>1. PICK t : t = Append(s, f)
  OBVIOUS
<1>2. Len(t) = Len(s) + 1 /\ Len(s) \in Nat /\ \A i \in 1..Len(s) : t[i] = s[i]
  BY <1>1, AppendedAt
<1>3. left > 0 => t[1] = s[1]
  <2>1. left > 0 => 1 \in 1..Len(s)
    OBVIOUS
  <2> QED
    BY <2>1, <1>2
<1>4. \A k \in 1..Len(d) : ix[k] \in 1..Len(s) /\ ix[k] \in 1..Len(t) /\ t[ix[k]] = s[ix[k]]
  <2> SUFFICES ASSUME NEW k \in 1..Len(d) PROVE ix[k] \in 1..Len(s) /\ ix[k] \in 1..Len(t) /\ t[ix[k]] = s[ix[k]]
    OBVIOUS
  <2>1. ix[k] \in 1..Len(s)
    BY DEF Flow
  <2> QED
    BY <2>1, <1>2
<1>5. pt[1] = IF left = 0 THEN 0 ELSE C[t[1]] - left + 1
  BY <1>3 DEF Flow
<1>6. \A k \in 1..Len(d) :
       /\ ix[k] \in 1..Len(t) /\ pt[k] <= C[t[ix[k]]]
       /\ d[k].part = pt[k] /\ d[k].kind = t[ix[k]].kind
       /\ ix[k + 1] = IF pt[k] = C[t[ix[k]]] THEN ix[k] + 1 ELSE ix[k]
       /\ pt[k + 1] = IF pt[k] = C[t[ix[k]]] THEN 0 ELSE pt[k] + 1
  <2> SUFFICES ASSUME NEW k \in 1..Len(d)
      PROVE  /\ ix[k] \in 1..Len(t) /\ pt[k] <= C[t[ix[k]]]
             /\ d[k].part = pt[k] /\ d[k].kind = t[ix[k]].kind
             /\ ix[k + 1] = IF pt[k] = C[t[ix[k]]] THEN ix[k] + 1 ELSE ix[k]
             /\ pt[k + 1] = IF pt[k] = C[t[ix[k]]] THEN 0 ELSE pt[k] + 1
    OBVIOUS
  <2>1. ix[k] \in 1..Len(t) /\ t[ix[k]] = s[ix[k]]
    BY <1>4
  <2>2. /\ pt[k] <= C[s[ix[k]]]
        /\ d[k].part = pt[k] /\ d[k].kind = s[ix[k]].kind
        /\ ix[k + 1] = IF pt[k] = C[s[ix[k]]] THEN ix[k] + 1 ELSE ix[k]
        /\ pt[k + 1] = IF pt[k] = C[s[ix[k]]] THEN 0 ELSE pt[k] + 1
    BY DEF Flow
  <2> QED
    BY <2>1, <2>2
<1> QED
  BY <1>1, <1>5, <1>6 DEF Flow

\* One segment less: the reader finds the part it expects.
ToRead(F, C, D, d, s, left, a, b, ix, pt, rest) ==
  /\ C \in [F -> Nat] /\ d \in Seq(D) /\ d # <<>> /\ s \in Seq(F) /\ left \in Nat /\ a \in Nat
  /\ left > 0 => left <= C[s[1]]
  /\ Flow(C, d, s, left, a, b, ix, pt)
  /\ rest \in Nat /\ rest = IF left = 0 THEN C[s[1]] ELSE left - 1

LEMMA FlowRead ==
  ASSUME NEW F, NEW C, NEW D, NEW d, NEW s, NEW left, NEW a, NEW b, NEW ix, NEW pt, NEW rest,
         ToRead(F, C, D, d, s, left, a, b, ix, pt, rest)
  PROVE  /\ s # <<>> /\ a > 0
         /\ d[1].kind = s[1].kind /\ d[1].part = IF left = 0 THEN 0 ELSE C[s[1]] - left + 1
         /\ rest # 0 => \E ix2, pt2 : Flow(C, Tail(d), s, rest, a, b, ix2, pt2)
         /\ rest = 0 => \E ix2, pt2 : Flow(C, Tail(d), Tail(s), 0, a - 1, b, ix2, pt2)
<1>f. /\ C \in [F -> Nat] /\ d \in Seq(D) /\ d # <<>> /\ s \in Seq(F) /\ left \in Nat /\ a \in Nat
      /\ left > 0 => left <= C[s[1]]
      /\ Flow(C, d, s, left, a, b, ix, pt)
      /\ rest \in Nat /\ rest = IF left = 0 THEN C[s[1]] ELSE left - 1
  BY DEF ToRead
<1> USE <1>f
<1>0. PICK n \in Nat : n = Len(d) - 1 /\ Len(d) = n + 1
  <2>1. Len(d) \in Nat \ {0}
    BY TailAt
  <2>2. Len(d) - 1 \in Nat /\ Len(d) = (Len(d) - 1) + 1
    BY <2>1
  <2> QED
    BY <2>2
<1>e. PICK e : e = Tail(d)
  OBVIOUS
<1>2. Len(e) = n
  BY <1>0, <1>e, TailAt
<1>1. \A i \in 1..n : e[i] = d[i + 1]
  BY <1>0, <1>e, TailAt
<1>3. /\ ix \in [1..n + 2 -> Nat] /\ pt \in [1..n + 2 -> Nat]
      /\ ix[1] = 1 /\ pt[1] = IF left = 0 THEN 0 ELSE C[s[1]] - left + 1
      /\ ix[n + 2] = a /\ pt[n + 2] = b
  <2>1. Len(d) + 1 = n + 2
    BY <1>0
  <2> QED
    BY <2>1 DEF Flow
<1>4. \A k \in 1..n + 1 :
         /\ ix[k] \in 1..Len(s) /\ pt[k] <= C[s[ix[k]]]
         /\ d[k].part = pt[k] /\ d[k].kind = s[ix[k]].kind
         /\ ix[k + 1] = IF pt[k] = C[s[ix[k]]] THEN ix[k] + 1 ELSE ix[k]
         /\ pt[k + 1] = IF pt[k] = C[s[ix[k]]] THEN 0 ELSE pt[k] + 1
  BY <1>0 DEF Flow
<1>5. \A j, k \in 1..n + 2 : j <= k => ix[j] <= ix[k]
  <2>1. Len(d) + 1 = n + 2
    BY <1>0
  <2> QED
    BY <2>1 DEF Flow
<1>6. 1 \in 1..n + 1 /\ 1 \in 1..n + 2 /\ 2 \in 1..n + 2 /\ n + 2 \in 1..n + 2 /\ 1 + 1 = 2
  OBVIOUS
<1>7. 1 \in 1..Len(s) /\ s # <<>> /\ a > 0
  <2>1. 1 \in 1..Len(s)
    BY <1>3, <1>4, <1>6
  <2>2. ix[1] <= ix[n + 2]
    BY <1>5, <1>6
  <2> QED
    BY <2>1, <2>2, <1>3
<1>8. C[s[1]] \in Nat
  BY <1>7
<1>9. d[1].kind = s[1].kind /\ d[1].part = IF left = 0 THEN 0 ELSE C[s[1]] - left + 1
  BY <1>3, <1>4, <1>6
<1>10. /\ ix[2] = IF pt[1] = C[s[1]] THEN 2 ELSE 1
       /\ pt[2] = IF pt[1] = C[s[1]] THEN 0 ELSE pt[1] + 1
  <2>1. /\ ix[1 + 1] = IF pt[1] = C[s[ix[1]]] THEN ix[1] + 1 ELSE ix[1]
        /\ pt[1 + 1] = IF pt[1] = C[s[ix[1]]] THEN 0 ELSE pt[1] + 1
    BY <1>4, <1>6
  <2> QED
    BY <2>1, <1>3, <1>6
<1>11. rest = 0 <=> pt[1] = C[s[1]]
  <2>1. PICK c \in Nat : c = C[s[1]]
    BY <1>8
  <2>2. CASE left = 0
    <3>1. rest = c /\ pt[1] = 0
      BY <1>3, <2>1, <2>2
    <3> QED
      BY <2>1, <3>1
  <2>3. CASE left # 0
    <3>1. rest = left - 1 /\ pt[1] = c - left + 1
      BY <1>3, <2>1, <2>3
    <3> QED
      BY <2>1, <2>3, <3>1
  <2> QED
    BY <2>2, <2>3
<1>12. \A k \in 1..n : k + 1 \in 1..n + 1 /\ k + 1 \in 1..n + 2 /\ (k + 1) + 1 \in 1..n + 2
  OBVIOUS
<1>13. \A k \in 1..n + 1 : k + 1 \in 1..n + 2 /\ 2 <= k + 1
  OBVIOUS
<1>14. ASSUME rest # 0 PROVE \E ix2, pt2 : Flow(C, Tail(d), s, rest, a, b, ix2, pt2)
  <2> DEFINE ix2 == [k \in 1..n + 1 |-> ix[k + 1]]
             pt2 == [k \in 1..n + 1 |-> pt[k + 1]]
  <2>1. PICK u, v : u = ix2 /\ v = pt2
    OBVIOUS
  <2>2. \A k \in 1..n + 1 : u[k] = ix[k + 1] /\ v[k] = pt[k + 1]
    BY <2>1
  <2>3. u \in [1..n + 1 -> Nat] /\ v \in [1..n + 1 -> Nat]
    BY <2>1, <1>3, <1>13
  <2>4. u[1] = 1 /\ v[1] = C[s[1]] - rest + 1
    <3>0. 1 \in 1..n + 1 /\ u[1] = ix[2] /\ v[1] = pt[2]
      BY <2>2, <1>6
    <3>1. pt[1] # C[s[1]] /\ ix[2] = 1 /\ pt[2] = pt[1] + 1
      BY <1>10, <1>11, <1>14
    <3>2. CASE left = 0
      BY <3>0, <3>1, <3>2, <1>3
    <3>3. CASE left # 0
      <4>1. PICK c \in Nat : c = C[s[1]]
        BY <1>8
      <4>2. v[1] = (c - left + 1) + 1 /\ rest = left - 1
        BY <3>0, <3>1, <3>3, <4>1, <1>3
      <4>3. (c - left + 1) + 1 = c - (left - 1) + 1
        BY <4>1, OneLess
      <4> QED
        BY <3>0, <3>1, <4>1, <4>2, <4>3
    <3> QED
      BY <3>2, <3>3
  <2>5. u[n + 1] = a /\ v[n + 1] = b
    <3>1. n + 1 \in 1..n + 1 /\ (n + 1) + 1 = n + 2
      OBVIOUS
    <3> QED
      BY <3>1, <2>2, <1>3
  <2>6. ASSUME NEW k \in 1..n
        PROVE  /\ u[k] \in 1..Len(s) /\ v[k] <= C[s[u[k]]]
               /\ e[k].part = v[k] /\ e[k].kind = s[u[k]].kind
               /\ u[k + 1] = IF v[k] = C[s[u[k]]] THEN u[k] + 1 ELSE u[k]
               /\ v[k + 1] = IF v[k] = C[s[u[k]]] THEN 0 ELSE v[k] + 1
    <3>1. PICK j : j = k + 1
      OBVIOUS
    <3>2. j \in 1..n + 1 /\ k \in 1..n + 1
      BY <3>1
    <3>3. u[k] = ix[j] /\ v[k] = pt[j] /\ u[j] = ix[j + 1] /\ v[j] = pt[j + 1] /\ e[k] = d[j]
      BY <3>1, <3>2, <2>2, <1>1
    <3>4. /\ ix[j] \in 1..Len(s) /\ pt[j] <= C[s[ix[j]]]
          /\ d[j].part = pt[j] /\ d[j].kind = s[ix[j]].kind
          /\ ix[j + 1] = IF pt[j] = C[s[ix[j]]] THEN ix[j] + 1 ELSE ix[j]
          /\ pt[j + 1] = IF pt[j] = C[s[ix[j]]] THEN 0 ELSE pt[j] + 1
      BY <3>2, <1>4
    <3> QED
      BY <3>1, <3>3, <3>4
  <2>7. ASSUME NEW j \in 1..n + 1, NEW k \in 1..n + 1, j <= k PROVE u[j] <= u[k]
    <3>1. j + 1 \in 1..n + 2 /\ k + 1 \in 1..n + 2 /\ j + 1 <= k + 1
      BY <2>7, <1>13
    <3>2. ix[j + 1] <= ix[k + 1]
      BY <3>1, <1>5
    <3> QED
      BY <3>2, <2>2
  <2>8. Flow(C, e, s, rest, a, b, u, v)
    BY <1>2, <1>14, <2>3, <2>4, <2>5, <2>6, <2>7 DEF Flow
  <2> QED
    BY <1>e, <2>8
<1>15. ASSUME rest = 0 PROVE \E ix2, pt2 : Flow(C, Tail(d), Tail(s), 0, a - 1, b, ix2, pt2)
  <2>0. PICK t : t = Tail(s) /\ Len(t) = Len(s) - 1 /\ \A i \in 1..Len(s) - 1 : t[i] = s[i + 1]
    BY <1>7, TailAt
  <2>a. Len(s) \in Nat
    OBVIOUS
  <2> DEFINE ix2 == [k \in 1..n + 1 |-> ix[k + 1] - 1]
             pt2 == [k \in 1..n + 1 |-> pt[k + 1]]
  <2>1. PICK u, v : u = ix2 /\ v = pt2
    OBVIOUS
  <2>2. \A k \in 1..n + 1 : u[k] = ix[k + 1] - 1 /\ v[k] = pt[k + 1]
    BY <2>1
  <2>b. \A k \in 1..n + 1 : ix[k + 1] \in Nat /\ 2 <= ix[k + 1]
    <3> SUFFICES ASSUME NEW k \in 1..n + 1 PROVE ix[k + 1] \in Nat /\ 2 <= ix[k + 1]
      OBVIOUS
    <3>1. k + 1 \in 1..n + 2 /\ 2 <= k + 1
      BY <1>13
    <3>2. ix[2] <= ix[k + 1]
      BY <3>1, <1>5, <1>6
    <3> QED
      BY <3>1, <3>2, <1>3, <1>10, <1>11, <1>15
  <2>3. u \in [1..n + 1 -> Nat] /\ v \in [1..n + 1 -> Nat]
    <3>1. \A k \in 1..n + 1 : ix[k + 1] - 1 \in Nat /\ pt[k + 1] \in Nat
      BY <1>3, <1>13, <2>b
    <3> QED
      BY <3>1, <2>1
  <2>4. u[1] = 1 /\ v[1] = 0
    BY <2>2, <1>6, <1>10, <1>11, <1>15
  <2>5. u[n + 1] = a - 1 /\ v[n + 1] = b
    <3>1. n + 1 \in 1..n + 1 /\ (n + 1) + 1 = n + 2
      OBVIOUS
    <3> QED
      BY <3>1, <2>2, <1>3
  <2>6. ASSUME NEW k \in 1..n
        PROVE  /\ u[k] \in 1..Len(t) /\ v[k] <= C[t[u[k]]]
               /\ e[k].part = v[k] /\ e[k].kind = t[u[k]].kind
               /\ u[k + 1] = IF v[k] = C[t[u[k]]] THEN u[k] + 1 ELSE u[k]
               /\ v[k + 1] = IF v[k] = C[t[u[k]]] THEN 0 ELSE v[k] + 1
    <3>1. PICK j : j = k + 1
      OBVIOUS
    <3>2. j \in 1..n + 1 /\ k \in 1..n + 1
      BY <3>1
    <3>3. u[k] = ix[j] - 1 /\ v[k] = pt[j] /\ u[j] = ix[j + 1] - 1 /\ v[j] = pt[j + 1] /\ e[k] = d[j]
      BY <3>1, <3>2, <2>2, <1>1
    <3>4. ix[j] \in 1..Len(s) /\ 2 <= ix[j] /\ ix[j] \in Nat
      BY <3>1, <3>2, <1>4, <2>b
    <3>5. u[k] \in 1..Len(s) - 1 /\ u[k] + 1 = ix[j]
      <4>1. PICK m : m = ix[j]
        OBVIOUS
      <4>2. PICK l : l = Len(s)
        OBVIOUS
      <4>3. m \in 2..l /\ l \in Nat
        BY <3>4, <4>1, <4>2, <2>a
      <4>4. m - 1 \in 1..l - 1 /\ (m - 1) + 1 = m
        BY <4>3
      <4> QED
        BY <3>3, <4>1, <4>2, <4>4
    <3>6. t[u[k]] = s[ix[j]]
      BY <3>5, <2>0
    <3>7. /\ pt[j] <= C[s[ix[j]]] /\ d[j].part = pt[j] /\ d[j].kind = s[ix[j]].kind
          /\ ix[j + 1] = IF pt[j] = C[s[ix[j]]] THEN ix[j] + 1 ELSE ix[j]
          /\ pt[j + 1] = IF pt[j] = C[s[ix[j]]] THEN 0 ELSE pt[j] + 1
      BY <3>2, <1>4
    <3>8. PICK m, y : m = ix[j] /\ y = ix[j + 1]
      OBVIOUS
    <3>9. u[k] = m - 1 /\ u[j] = y - 1 /\ (y = m + 1 => u[j] = u[k] + 1) /\ (y = m => u[j] = u[k])
      <4>1. m \in Nat
        BY <3>4, <3>8
      <4>2. u[k] = m - 1 /\ u[j] = y - 1
        BY <3>3, <3>8
      <4>3. (m + 1) - 1 = (m - 1) + 1
        BY <4>1
      <4> QED
        BY <4>2, <4>3
    <3>10. u[k] \in 1..Len(t) /\ v[k] <= C[t[u[k]]] /\ e[k].part = v[k] /\ e[k].kind = t[u[k]].kind
      BY <3>3, <3>5, <3>6, <3>7, <2>0
    <3>11. v[j] = IF v[k] = C[t[u[k]]] THEN 0 ELSE v[k] + 1
      BY <3>3, <3>6, <3>7
    <3>12. u[j] = IF v[k] = C[t[u[k]]] THEN u[k] + 1 ELSE u[k]
      <4>1. y = IF v[k] = C[t[u[k]]] THEN m + 1 ELSE m
        BY <3>3, <3>6, <3>7, <3>8
      <4> QED
        BY <3>9, <4>1
    <3> QED
      BY <3>1, <3>10, <3>11, <3>12
  <2>7. ASSUME NEW j \in 1..n + 1, NEW k \in 1..n + 1, j <= k PROVE u[j] <= u[k]
    <3>1. j + 1 \in 1..n + 2 /\ k + 1 \in 1..n + 2 /\ j + 1 <= k + 1
      BY <2>7, <1>13
    <3>2. ix[j + 1] <= ix[k + 1]
      BY <3>1, <1>5
    <3>3. ix[j + 1] \in Nat /\ ix[k + 1] \in Nat
      BY <2>b
    <3>4. u[j] = ix[j + 1] - 1 /\ u[k] = ix[k + 1] - 1
      BY <2>2
    <3>5. ix[j + 1] - 1 <= ix[k + 1] - 1
      BY <3>2, <3>3, BothLess
    <3> QED
      BY <3>4, <3>5
  <2>8. Flow(C, e, t, 0, a - 1, b, u, v)
    BY <1>2, <2>3, <2>4, <2>5, <2>6, <2>7 DEF Flow
  <2> QED
    BY <1>e, <2>0, <2>8
<1> QED
  BY <1>7, <1>9, <1>14, <1>15
-----------------------------------------------------------------------------
(* The invariants of a connection *)

Todo == [frames : Seq(Frames), out : Nat]
Segments == [part : Nat, kind : Kinds]
Peers == [step : {"new", "hello", "ready"}, left : Nat, broken : BOOLEAN, stalled : BOOLEAN, gone : BOOLEAN]
Steps == {"handshake", "list", "setup", "serve", "return", "done"}

LinkShape ==
  /\ step \in Steps /\ closed \in BOOLEAN /\ window \in Nat /\ channels \in Seq(BOOLEAN)
  /\ todo \in [Writers -> Todo] /\ writeMu \in Writers \cup {Nobody}
  /\ down \in Seq(Segments) /\ sent \in Seq(Frames)
  /\ peer \in Peers

\* Who holds the lock is in the middle of writing, and nobody else is.
LockInv ==
  /\ writeMu # Nobody => todo[writeMu].frames # <<>>
  /\ \A w \in Writers : w # writeMu => todo[w].out = 0

\* A served miner that reads: one interval after it was last read or written to, a
\* keepalive is due or being written.
KeptInv ==
  ~peer.stalled /\ ~peer.gone /\ step = "serve" /\ channels # <<>> =>
    /\ window \in {0, 1}
    /\ window = 1 /\ ~closed => due \/ todo["keeper"].frames # <<>>

\* What is in the socket is what the miner expects, and the lock's holder, or whoever
\* takes the lock, goes on from there.
UnderWay ==
  /\ sent # <<>> /\ todo[writeMu].frames[1] = sent[Len(sent)]
  /\ todo[writeMu].out \in 1..ChunksOf[sent[Len(sent)]]
NextFrame == IF writeMu = Nobody THEN Len(sent) + 1 ELSE Len(sent)
NextPart == IF writeMu = Nobody THEN 0 ELSE todo[writeMu].out
InTurn ==
  /\ peer.left > 0 => sent # <<>> /\ peer.left <= ChunksOf[sent[1]]
  /\ writeMu # Nobody => UnderWay
  /\ \E ix, pt : Flow(ChunksOf, down, sent, peer.left, NextFrame, NextPart, ix, pt)
StreamInv ==
  /\ ~peer.broken
  /\ closed => down = <<>>
  /\ ~closed /\ ~peer.gone => InTurn

LinkInv == LockInv /\ KeptInv /\ StreamInv

LEMMA WritersNamed ==
  /\ "reader" \in Writers /\ "keeper" \in Writers /\ Nobody \notin Writers
  /\ \A p \in Pushers : p \in Writers /\ p # "keeper" /\ p # "reader"
BY LinkAssumption DEF Writers, Nobody

LEMMA ChunksOfFrames == ChunksOf \in [Frames -> Nat]
<1>1. \A f \in Frames : ChunksOf[f] \in Nat
  BY ChunksNat
<1>2. ChunksOf = [f \in Frames |-> ChunksOf[f]]
  BY DEF ChunksOf
<1> QED
  BY <1>1, <1>2

LEMMA FlowPositive ==
  ASSUME NEW C, NEW D, NEW d \in Seq(D), NEW s, NEW left, NEW a, NEW b, NEW ix, NEW pt, Flow(C, d, s, left, a, b, ix, pt)
  PROVE  a \in Nat /\ a >= 1
<1>1. 1 \in 1..Len(d) + 1 /\ Len(d) + 1 \in 1..Len(d) + 1
  OBVIOUS
<1> QED
  BY <1>1 DEF Flow

LEMMA LinkInitially == LinkInit => LinkShape /\ LinkInv
<1> SUFFICES ASSUME LinkInit PROVE LinkShape /\ LinkInv
  OBVIOUS
<1>1. Idle \in Todo /\ Idle.out = 0
  BY DEF Idle, Todo
<1>2. todo \in [Writers -> Todo] /\ \A w \in Writers : todo[w].out = 0
  BY <1>1 DEF LinkInit
<1>3. LinkShape
  <2>1. peer \in Peers
    BY DEF LinkInit, Peers
  <2>2. step \in Steps /\ closed \in BOOLEAN /\ window \in Nat /\ writeMu = Nobody
    BY DEF LinkInit, Steps
  <2>3. channels \in Seq(BOOLEAN) /\ down \in Seq(Segments) /\ sent \in Seq(Frames)
    BY DEF LinkInit
  <2> QED
    BY <1>2, <2>1, <2>2, <2>3 DEF LinkShape
<1>4. LockInv /\ KeptInv
  BY <1>2 DEF LinkInit, LockInv, KeptInv
<1>5. InTurn
  <2>1. down = <<>> /\ sent = <<>> /\ peer.left = 0 /\ writeMu = Nobody
    BY DEF LinkInit
  <2>2. NextFrame = 1 /\ NextPart = 0
    BY <2>1 DEF NextFrame, NextPart
  <2> DEFINE one == [k \in 1..1 |-> 1]
             none == [k \in 1..1 |-> 0]
  <2>3. one \in [1..1 -> Nat] /\ none \in [1..1 -> Nat] /\ one[1] = 1 /\ none[1] = 0
    OBVIOUS
  <2> HIDE DEF one, none
  <2>4. Flow(ChunksOf, <<>>, <<>>, 0, 1, 0, one, none)
    BY <2>3 DEF Flow
  <2> QED
    BY <2>1, <2>2, <2>4 DEF InTurn
<1> QED
  BY <1>3, <1>4, <1>5 DEF LinkInv, StreamInv, LinkInit

-----------------------------------------------------------------------------
(* What the steps do *)

LEMMA ReaderEffect ==
  ASSUME LinkShape, HandleSetupConnection \/ HandleOpenChannel \/ HandleSubmitShares
  PROVE  /\ ~closed /\ todo["reader"].frames = <<>>
         /\ todo' = todo \/ \E q \in Seq(Frames) : todo' = [todo EXCEPT !["reader"] = [frames |-> q, out |-> 0]]
         /\ window' = 0 /\ step' \in Steps /\ channels' \in Seq(BOOLEAN)
         /\ UNCHANGED <<closed, writeMu, down, sent, peer, due>>
<1>0. /\ Frame("setupOk") \in Frames /\ Frame("setupError") \in Frames /\ Frame("openError") \in Frames
      /\ Frame("ack") \in Frames /\ Frame("refused") \in Frames /\ Frame("prevhash") \in Frames
  BY FramesMade DEF Frame, Kinds
<1>r. ASSUME NEW type, Reads(type)
      PROVE  ~closed /\ todo["reader"].frames = <<>> /\ window' = 0 /\ UNCHANGED <<closed, writeMu, down, sent, peer, due>>
  BY <1>r DEF Reads
<1>1. CASE HandleSetupConnection
  <2>1. PICK type : Reads(type)
    BY <1>1 DEF HandleSetupConnection
  <2>2. /\ step' \in Steps /\ channels' = channels
        /\ \/ todo' = todo
           \/ Reply(<<Frame("setupOk")>>)
           \/ Reply(<<Frame("setupError")>>)
    BY <1>1 DEF HandleSetupConnection, Steps
  <2>3. <<Frame("setupOk")>> \in Seq(Frames) /\ <<Frame("setupError")>> \in Seq(Frames)
    BY <1>0
  <2>4. todo' = todo \/ \E q \in Seq(Frames) : Reply(q)
    BY <2>2, <2>3
  <2>5. channels' \in Seq(BOOLEAN)
    BY <2>2 DEF LinkShape
  <2> QED
    BY <2>1, <2>2, <2>4, <2>5, <1>r DEF Reply
<1>2. CASE HandleOpenChannel
  <2>1. PICK type \in {"open", "openExtended"} :
          /\ Reads(type)
          /\ \/ todo' = todo /\ channels' = channels
             \/ channels' = Append(channels, type = "openExtended") /\ Reply(FirstJob(type = "openExtended"))
             \/ channels' = channels /\ Reply(<<Frame("openError")>>)
    BY <1>2 DEF HandleOpenChannel
  <2>2. PICK extended \in BOOLEAN : extended = (type = "openExtended")
    OBVIOUS
  <2>3. FirstJob(extended) \in Seq(Frames) /\ <<Frame("openError")>> \in Seq(Frames)
    <3>1. FrameOf("openOk", extended, FALSE) \in Frames /\ FrameOf("job", extended, FALSE) \in Frames
      BY FramesMade DEF Kinds
    <3>2. /\ \A x, y, z \in Frames : <<x, y, z>> \in Seq(Frames)
          /\ \A x \in Frames : <<x>> \in Seq(Frames)
      OBVIOUS
    <3>3. <<FrameOf("openOk", extended, FALSE), FrameOf("job", extended, FALSE), Frame("prevhash")>> \in Seq(Frames)
      BY <1>0, <3>1, <3>2
    <3> QED
      BY <1>0, <3>2, <3>3 DEF FirstJob
  <2>4. Append(channels, extended) \in Seq(BOOLEAN) /\ channels \in Seq(BOOLEAN)
    BY DEF LinkShape
  <2>5. todo' = todo \/ \E q \in Seq(Frames) : Reply(q)
    BY <2>1, <2>2, <2>3
  <2>6. channels' \in Seq(BOOLEAN)
    BY <2>1, <2>2, <2>4
  <2>7. step' \in Steps
    BY <1>2 DEF HandleOpenChannel, LinkShape
  <2> QED
    BY <2>1, <2>5, <2>6, <2>7, <1>r DEF Reply
<1>3. CASE HandleSubmitShares
  <2>1. PICK type :
          /\ Reads(type)
          /\ todo' = todo \/ \E frames \in {<<>>, <<Frame("ack")>>, <<Frame("refused")>>} : Reply(frames)
    BY <1>3 DEF HandleSubmitShares
  <2>2. <<>> \in Seq(Frames) /\ <<Frame("ack")>> \in Seq(Frames) /\ <<Frame("refused")>> \in Seq(Frames)
    BY <1>0
  <2>3. todo' = todo \/ \E q \in Seq(Frames) : Reply(q)
    BY <2>1, <2>2
  <2>4. step' \in Steps /\ channels' \in Seq(BOOLEAN)
    BY <1>3 DEF HandleSubmitShares, LinkShape
  <2> QED
    BY <2>1, <2>3, <2>4, <1>r DEF Reply
<1> QED
  BY <1>1, <1>2, <1>3

LEMMA WriteEffect ==
  ASSUME LinkShape, NEW w \in Writers, Write(w)
  PROVE  \E f \in Frames, part \in Nat :
           /\ f = todo[w].frames[1] /\ part = todo[w].out
           /\ ~closed /\ todo[w].frames # <<>> /\ writeMu \in {w, Nobody}
           /\ writeMu' = IF part = ChunksOf[f] THEN Nobody ELSE w
           /\ sent' = IF part = 0 THEN Append(sent, f) ELSE sent
           /\ down' = Append(down, [part |-> part, kind |-> f.kind])
           /\ [part |-> part, kind |-> f.kind] \in Segments
           /\ todo' \in [Writers -> Todo] /\ \A v \in Writers \ {w} : todo'[v] = todo[v]
           /\ todo'[w].out = IF part = ChunksOf[f] THEN 0 ELSE part + 1
           /\ part # ChunksOf[f] => todo'[w].frames = todo[w].frames
           /\ window' = IF todo'[w].frames = <<>> THEN 0 ELSE window
           /\ UNCHANGED <<step, closed, channels, peer, due>>
<1> DEFINE f    == todo[w].frames[1]
           part == todo[w].out
           last == part = ChunksOf[f]
<1>1. WriteSegment(w) /\ ExtendReadDeadline(w) /\ UNCHANGED <<step, closed, channels, peer, due>>
  BY DEF Write
<1>2. /\ todo[w].frames # <<>> /\ ~closed /\ HoldWriteMu(w, last)
      /\ sent' = IF part = 0 THEN Append(sent, f) ELSE sent
      /\ down' = Append(down, [part |-> part, kind |-> f.kind])
      /\ todo' = [todo EXCEPT ![w] = IF last THEN [frames |-> Tail(@.frames), out |-> 0] ELSE [frames |-> @.frames, out |-> @.out + 1]]
  BY <1>1 DEF WriteSegment
<1>3. /\ writeMu \in {w, Nobody} /\ writeMu' = IF last THEN Nobody ELSE w
  BY <1>2 DEF HoldWriteMu
<1>4. todo[w] \in Todo /\ todo \in [Writers -> Todo]
  BY DEF LinkShape
<1>5. f \in Frames /\ part \in Nat /\ todo[w].frames \in Seq(Frames)
  BY <1>2, <1>4 DEF Todo
<1>6. f.kind \in Kinds
  BY <1>5, FrameFields
<1>7. [part |-> part, kind |-> f.kind] \in Segments
  BY <1>5, <1>6 DEF Segments
<1>8. PICK t : t = IF last THEN [frames |-> Tail(todo[w].frames), out |-> 0] ELSE [frames |-> todo[w].frames, out |-> todo[w].out + 1]
  OBVIOUS
<1>9. /\ t \in Todo /\ t.out = (IF last THEN 0 ELSE part + 1) /\ (~last => t.frames = todo[w].frames)
  <2>1. CASE last
    <3>1. Tail(todo[w].frames) \in Seq(Frames)
      BY <1>2, <1>5
    <3> QED
      BY <2>1, <3>1, <1>8 DEF Todo
  <2>2. CASE ~last
    BY <2>2, <1>4, <1>5, <1>8 DEF Todo
  <2> QED
    BY <2>1, <2>2
<1>10. todo' = [todo EXCEPT ![w] = t]
  <2>1. CASE last
    <3>1. t = [frames |-> Tail(todo[w].frames), out |-> 0]
      BY <2>1, <1>8
    <3> QED
      BY <2>1, <3>1, <1>2
  <2>2. CASE ~last
    <3>1. t = [frames |-> todo[w].frames, out |-> todo[w].out + 1]
      BY <2>2, <1>8
    <3> QED
      BY <2>2, <3>1, <1>2
  <2> QED
    BY <2>1, <2>2
<1>11. todo' \in [Writers -> Todo] /\ todo'[w] = t /\ \A v \in Writers \ {w} : todo'[v] = todo[v]
  BY <1>4, <1>9, <1>10
<1>12. window' = IF todo'[w].frames = <<>> THEN 0 ELSE window
  BY <1>1 DEF ExtendReadDeadline
<1> QED
  BY <1>1, <1>2, <1>3, <1>5, <1>7, <1>9, <1>11, <1>12

LEMMA BothEndsAgree == SameKey
BY DEF SameKey, TransportCiphers, MinerCiphers

LEMMA ReceiveEffect ==
  ASSUME LinkShape, Receive
  PROVE  /\ down # <<>> /\ ~peer.gone /\ down' = Tail(down)
         /\ UNCHANGED <<step, closed, window, channels, todo, writeMu, due>>
         /\ \/ /\ IF peer.left = 0 THEN down[1].part = 0
                  ELSE down[1].kind = sent[1].kind /\ down[1].part = ChunksOf[sent[1]] - peer.left + 1
               /\ \E left : /\ left = IF peer.left = 0 THEN ChunksOf[sent[1]] ELSE peer.left - 1
                            /\ peer' = [peer EXCEPT !.left = left]
                            /\ sent' = IF left = 0 THEN Tail(sent) ELSE sent
            \/ /\ ~(IF peer.left = 0 THEN down[1].part = 0
                    ELSE down[1].kind = sent[1].kind /\ down[1].part = ChunksOf[sent[1]] - peer.left + 1)
               /\ peer' = [peer EXCEPT !.broken = TRUE] /\ sent' = sent
<1>1. Head(down) = down[1]
  BY DEF Receive, LinkShape
<1> QED
  BY <1>1, BothEndsAgree DEF Receive, serverVars

LEMMA RefillEffect ==
  ASSUME LinkShape, LockInv, NEW w \in Writers, todo[w].frames = <<>>, NEW q \in Seq(Frames),
         todo' = [todo EXCEPT ![w] = [frames |-> q, out |-> 0]], writeMu' = writeMu
  PROVE  /\ todo' \in [Writers -> Todo] /\ todo'[w].frames = q /\ \A v \in Writers \ {w} : todo'[v] = todo[v]
         /\ LockInv'
         /\ writeMu # Nobody => todo'[writeMu] = todo[writeMu]
<1>1. [frames |-> q, out |-> 0] \in Todo
  BY DEF Todo
<1>2. /\ todo' \in [Writers -> Todo] /\ todo'[w] = [frames |-> q, out |-> 0]
      /\ \A v \in Writers \ {w} : todo'[v] = todo[v]
  BY <1>1 DEF LinkShape
<1>3. writeMu # Nobody => writeMu \in Writers \ {w}
  BY DEF LinkShape, LockInv
<1>4. LockInv'
  BY <1>2, <1>3 DEF LockInv
<1> QED
  BY <1>2, <1>3, <1>4

\* The keeper's and the pushers' frames.
LEMMA WorkEffect ==
  ASSUME LinkShape, NEW w, NEW newBlock \in BOOLEAN, Work(w, newBlock)
  PROVE  \E q \in Seq(Frames) : /\ todo' = [todo EXCEPT ![w] = [frames |-> q, out |-> 0]]
                                /\ channels # <<>> => q # <<>>
<1>1. PICK retarget \in BOOLEAN : todo' = [todo EXCEPT ![w] = [frames |-> JobForAll(retarget, newBlock), out |-> 0]]
  BY DEF Work
<1>2. channels \in Seq(BOOLEAN)
  BY DEF LinkShape
<1> QED
  BY <1>1, <1>2, JobFrames

-----------------------------------------------------------------------------
(* The steps keep the invariant *)

LEMMA TurnKept ==
  ASSUME LinkShape, StreamInv, UNCHANGED <<closed, down, sent, writeMu>>, peer'.left = peer.left,
         peer'.broken = peer.broken, peer.gone => peer'.gone,
         writeMu # Nobody => todo'[writeMu] = todo[writeMu]
  PROVE  StreamInv'
<1>1. ~peer'.broken /\ (closed' => down' = <<>>)
  BY DEF StreamInv
<1>2. ASSUME ~closed', ~peer'.gone PROVE InTurn'
  <2>1. InTurn
    BY <1>2 DEF StreamInv
  <2>2. NextFrame' = NextFrame /\ NextPart' = NextPart
    BY DEF NextFrame, NextPart
  <2>3. PICK ix, pt : Flow(ChunksOf, down, sent, peer.left, NextFrame, NextPart, ix, pt)
    BY <2>1 DEF InTurn
  <2>4. Flow(ChunksOf, down', sent', peer'.left, NextFrame', NextPart', ix, pt)
    BY <2>2, <2>3
  <2>5. writeMu' # Nobody => UnderWay'
    BY <2>1 DEF InTurn, UnderWay
  <2>6. peer'.left > 0 => sent' # <<>> /\ peer'.left <= ChunksOf[sent'[1]]
    BY <2>1 DEF InTurn
  <2> QED
    BY <2>4, <2>5, <2>6 DEF InTurn
<1> QED
  BY <1>1, <1>2 DEF StreamInv

LEMMA PeerKeeps ==
  ASSUME LinkShape, LinkInv,
         Hello \/ PerformSV2ServerHandshake \/ ListSession \/ ReadFails \/ Stall \/ Leave
  PROVE  LinkShape' /\ LinkInv'
<1>1. /\ UNCHANGED <<closed, channels, todo, writeMu, down, sent, due>>
      /\ step' \in Steps /\ (step' = step \/ step' # "serve")
      /\ window' \in {0, window} /\ (step' = "serve" => window' = window)
      /\ peer' \in Peers /\ peer'.left = peer.left /\ peer'.broken = peer.broken
      /\ (peer.gone => peer'.gone) /\ (peer.stalled => peer'.stalled)
  BY DEF Hello, PerformSV2ServerHandshake, ListSession, ReadFails, Stall, Leave,
         serverVars, writeVars, LinkShape, Steps, Peers
<1>2. LinkShape'
  BY <1>1 DEF LinkShape
<1>3. LockInv' /\ KeptInv'
  BY <1>1 DEF LinkInv, LockInv, KeptInv
<1>4. StreamInv'
  BY <1>1, TurnKept DEF LinkInv
<1> QED
  BY <1>2, <1>3, <1>4 DEF LinkInv

LEMMA CloseKeeps ==
  ASSUME LinkShape, LinkInv, Return \/ Stop
  PROVE  LinkShape' /\ LinkInv'
<1>1. CASE UNCHANGED <<closed, down, sent>>
  <2>1. /\ UNCHANGED <<closed, channels, todo, writeMu, down, sent, due, window, peer>>
        /\ step' \in Steps /\ (step' = step \/ step' # "serve")
    BY <1>1 DEF Return, Stop, Close, LinkShape, Steps
  <2>2. LinkShape'
    BY <2>1 DEF LinkShape
  <2>3. LockInv' /\ KeptInv'
    BY <2>1 DEF LinkInv, LockInv, KeptInv
  <2>4. StreamInv'
    BY <2>1, TurnKept DEF LinkInv
  <2> QED
    BY <2>2, <2>3, <2>4 DEF LinkInv
<1>2. CASE Close
  <2>1. /\ UNCHANGED <<channels, todo, writeMu, due, window, peer>>
        /\ closed' = TRUE /\ down' = <<>> /\ sent' = <<>>
        /\ step' \in Steps /\ (step' = step \/ step' # "serve")
    BY <1>2 DEF Return, Stop, Close, LinkShape, Steps
  <2>2. LinkShape'
    <3>1. down' \in Seq(Segments) /\ sent' \in Seq(Frames)
      BY <2>1
    <3> QED
      BY <2>1, <3>1 DEF LinkShape
  <2>3. LockInv' /\ KeptInv'
    BY <2>1 DEF LinkInv, LockInv, KeptInv
  <2>4. StreamInv'
    BY <2>1 DEF LinkInv, StreamInv
  <2> QED
    BY <2>2, <2>3, <2>4 DEF LinkInv
<1> QED
  BY <1>1, <1>2 DEF Return, Stop

LEMMA ReaderKeeps ==
  ASSUME LinkShape, LinkInv, HandleSetupConnection \/ HandleOpenChannel \/ HandleSubmitShares
  PROVE  LinkShape' /\ LinkInv'
<1>1. /\ ~closed /\ todo["reader"].frames = <<>>
      /\ window' = 0 /\ step' \in Steps /\ channels' \in Seq(BOOLEAN)
      /\ UNCHANGED <<closed, writeMu, down, sent, peer, due>>
  BY ReaderEffect
<1>2. LockInv /\ StreamInv
  BY DEF LinkInv
<1>3. /\ todo' \in [Writers -> Todo] /\ LockInv' /\ (writeMu # Nobody => todo'[writeMu] = todo[writeMu])
  <2>1. CASE todo' = todo
    BY <2>1, <1>1, <1>2 DEF LinkShape, LockInv
  <2>2. CASE \E q \in Seq(Frames) : todo' = [todo EXCEPT !["reader"] = [frames |-> q, out |-> 0]]
    BY <2>2, <1>1, <1>2, WritersNamed, RefillEffect
  <2> QED
    BY <2>1, <2>2, ReaderEffect
<1>4. LinkShape'
  BY <1>1, <1>3 DEF LinkShape
<1>5. KeptInv'
  BY <1>1 DEF KeptInv
<1>6. StreamInv'
  BY <1>1, <1>2, <1>3, TurnKept
<1> QED
  BY <1>3, <1>4, <1>5, <1>6 DEF LinkInv

LEMMA KeepaliveKeeps ==
  ASSUME LinkShape, LinkInv, Keepalive
  PROVE  LinkShape' /\ LinkInv'
<1>1. /\ todo["keeper"].frames = <<>>
      /\ IF closed THEN todo' = todo ELSE Work("keeper", FALSE)
      /\ UNCHANGED <<step, closed, window, channels, writeMu, down, sent, peer>>
  BY DEF Keepalive, serverVars
<1>2. LockInv /\ KeptInv /\ StreamInv
  BY DEF LinkInv
<1>3. CASE closed
  <2>1. UNCHANGED <<todo, closed, window, channels, writeMu, down, sent, peer, step>>
    BY <1>1, <1>3
  <2>2. LinkShape' /\ LockInv' /\ KeptInv'
    BY <2>1, <1>2, <1>3 DEF LinkShape, LockInv, KeptInv
  <2>3. StreamInv'
    BY <2>1, <1>2, TurnKept
  <2> QED
    BY <2>2, <2>3 DEF LinkInv
<1>4. CASE ~closed
  <2>1. PICK q \in Seq(Frames) : /\ todo' = [todo EXCEPT !["keeper"] = [frames |-> q, out |-> 0]]
                                 /\ channels # <<>> => q # <<>>
    BY <1>1, <1>4, WorkEffect
  <2>2. /\ todo' \in [Writers -> Todo] /\ todo'["keeper"].frames = q /\ LockInv'
        /\ writeMu # Nobody => todo'[writeMu] = todo[writeMu]
    BY <1>1, <1>2, <2>1, WritersNamed, RefillEffect
  <2>3. LinkShape'
    BY <1>1, <2>2 DEF LinkShape
  <2>4. KeptInv'
    BY <1>1, <1>2, <2>1, <2>2 DEF KeptInv
  <2>5. StreamInv'
    BY <1>1, <1>2, <2>2, TurnKept
  <2> QED
    BY <2>2, <2>3, <2>4, <2>5 DEF LinkInv
<1> QED
  BY <1>3, <1>4

LEMMA PushKeeps ==
  ASSUME LinkShape, LinkInv, NEW p \in Pushers, UpdateTemplate(p)
  PROVE  LinkShape' /\ LinkInv'
<1>1. /\ todo[p].frames = <<>> /\ \E newBlock \in BOOLEAN : Work(p, newBlock)
      /\ UNCHANGED <<step, closed, window, channels, writeMu, down, sent, peer, due>>
  BY DEF UpdateTemplate, serverVars
<1>2. LockInv /\ KeptInv /\ StreamInv
  BY DEF LinkInv
<1>3. p \in Writers /\ p # "keeper" /\ "keeper" \in Writers
  BY WritersNamed
<1>4. PICK q \in Seq(Frames) : todo' = [todo EXCEPT ![p] = [frames |-> q, out |-> 0]]
  BY <1>1, WorkEffect
<1>5. /\ todo' \in [Writers -> Todo] /\ todo'["keeper"] = todo["keeper"] /\ LockInv'
      /\ writeMu # Nobody => todo'[writeMu] = todo[writeMu]
  BY <1>1, <1>2, <1>3, <1>4, RefillEffect
<1>6. LinkShape'
  BY <1>1, <1>5 DEF LinkShape
<1>7. KeptInv'
  BY <1>1, <1>2, <1>5 DEF KeptInv
<1>8. StreamInv'
  BY <1>1, <1>2, <1>5, TurnKept
<1> QED
  BY <1>5, <1>6, <1>7, <1>8 DEF LinkInv

\* If the keeper has frames left while a miner that reads has read all there is, then
\* nobody holds the lock: it is not yet time for the next interval.
LEMMA TickKeeps ==
  ASSUME LinkShape, LinkInv, Tick
  PROVE  LinkShape' /\ LinkInv'
<1>1. /\ ~closed /\ window' = window + 1 /\ due' = (due \/ (step = "serve" /\ channels # <<>>))
      /\ \A w \in Writers : todo[w].frames # <<>> => Blocked(w)
      /\ peer.stalled \/ down = <<>>
      /\ ~due \/ todo["keeper"].frames # <<>>
      /\ UNCHANGED <<step, closed, channels, todo, writeMu, down, sent, peer>>
  BY DEF Tick, writeVars
<1>2. LockInv /\ KeptInv /\ StreamInv
  BY DEF LinkInv
<1>3. LinkShape'
  BY <1>1 DEF LinkShape
<1>4. LockInv'
  BY <1>1, <1>2 DEF LockInv
<1>5. ASSUME ~peer.stalled PROVE \A w \in Writers : todo[w].frames = <<>>
  <2>1. Len(down) # Cap
    BY <1>1, <1>5, LinkAssumption
  <2>2. writeMu = Nobody
    <3>1. ASSUME writeMu # Nobody PROVE FALSE
      <4>1. writeMu \in Writers /\ todo[writeMu].frames # <<>>
        BY <3>1, <1>2 DEF LinkShape, LockInv
      <4> QED
        BY <4>1, <2>1, <1>1 DEF Blocked
    <3> QED
      BY <3>1
  <2> QED
    BY <1>1, <2>1, <2>2 DEF Blocked
<1>6. KeptInv'
  <2> SUFFICES ASSUME ~peer.stalled, ~peer.gone, step = "serve", channels # <<>> PROVE window' = 1 /\ due'
    BY <1>1 DEF KeptInv
  <2>1. todo["keeper"].frames = <<>>
    BY <1>5, WritersNamed
  <2>2. window = 0
    BY <2>1, <1>1, <1>2 DEF KeptInv
  <2>3. due'
    BY <1>1, Zenon
  <2>4. window' = 1
    BY <2>2, <1>1
  <2> QED
    BY <2>3, <2>4
<1>7. StreamInv'
  BY <1>1, <1>2, TurnKept
<1> QED
  BY <1>3, <1>4, <1>6, <1>7 DEF LinkInv

LEMMA FailKeeps ==
  ASSUME LinkShape, LinkInv, NEW w \in Writers, WriteFails(w)
  PROVE  LinkShape' /\ LinkInv'
<1>1. /\ writeMu \in {w, Nobody} /\ (closed \/ peer.gone) /\ writeMu' = Nobody
      /\ todo' = [todo EXCEPT ![w] = Idle]
      /\ UNCHANGED <<step, closed, window, channels, down, sent, peer, due>>
  BY DEF WriteFails, serverVars
<1>2. LockInv /\ KeptInv /\ StreamInv
  BY DEF LinkInv
<1>3. Idle \in Todo /\ Idle.out = 0
  BY DEF Idle, Todo
<1>4. /\ todo' \in [Writers -> Todo] /\ todo'[w].out = 0 /\ \A v \in Writers \ {w} : todo'[v] = todo[v]
  BY <1>1, <1>3 DEF LinkShape
<1>5. LinkShape'
  BY <1>1, <1>4 DEF LinkShape
<1>6. LockInv'
  BY <1>1, <1>2, <1>4, WritersNamed DEF LockInv
<1>7. KeptInv' /\ StreamInv'
  BY <1>1, <1>2 DEF KeptInv, StreamInv
<1> QED
  BY <1>5, <1>6, <1>7 DEF LinkInv

LEMMA SomethingWasSent ==
  ASSUME LinkShape, InTurn, writeMu # Nobody
  PROVE  Len(sent) \in 1..Len(sent) /\ sent[Len(sent)] \in Frames
<1>1. sent \in Seq(Frames) /\ sent # <<>>
  BY DEF InTurn, UnderWay, LinkShape
<1> QED
  BY <1>1

\* A writer goes on with the frame it holds the lock for, or begins one.
LEMMA WriteInTurn ==
  ASSUME LinkShape, LockInv, InTurn, NEW w \in Writers, NEW f \in Frames, NEW part \in Nat,
         f = todo[w].frames[1], part = todo[w].out, todo[w].frames # <<>>, writeMu \in {w, Nobody},
         writeMu' = IF part = ChunksOf[f] THEN Nobody ELSE w,
         sent' = IF part = 0 THEN Append(sent, f) ELSE sent,
         down' = Append(down, [part |-> part, kind |-> f.kind]),
         [part |-> part, kind |-> f.kind] \in Segments,
         todo'[w].out = IF part = ChunksOf[f] THEN 0 ELSE part + 1,
         part # ChunksOf[f] => todo'[w].frames = todo[w].frames,
         peer' = peer
  PROVE  InTurn'
<1> DEFINE C == ChunksOf
           x == [part |-> part, kind |-> f.kind]
<1>0. C \in [Frames -> Nat] /\ C[f] \in Nat
  BY ChunksOfFrames
<1>1. down \in Seq(Segments) /\ sent \in Seq(Frames) /\ peer.left \in Nat /\ Nobody # w
  BY WritersNamed DEF LinkShape, Peers
<1>2. x \in Segments /\ x.part = part /\ x.kind = f.kind
  OBVIOUS
<1> HIDE DEF C, x
<1>3. PICK ix, pt : Flow(C, down, sent, peer.left, NextFrame, NextPart, ix, pt)
  BY DEF InTurn, C
<1>4. \E a : /\ a = Len(sent') /\ a \in 1..Len(sent') /\ sent' \in Seq(Frames) /\ sent'[a] = f /\ part <= C[f]
             /\ peer.left > 0 => sent' # <<>> /\ sent'[1] = sent[1]
             /\ \E i, p : Flow(C, down, sent', peer.left, a, part, i, p)
  <2>1. CASE part = 0
    <3>1. writeMu = Nobody
      <4> SUFFICES ASSUME writeMu = w PROVE FALSE
        OBVIOUS
      <4>1. todo[w].out \in 1..ChunksOf[sent[Len(sent)]]
        BY <1>1 DEF InTurn, UnderWay
      <4>2. todo[w].out = 0
        BY <2>1
      <4> QED
        BY <4>1, <4>2
    <3>2. NextFrame = Len(sent) + 1 /\ NextPart = part
      BY <3>1, <2>1 DEF NextFrame, NextPart
    <3>3. peer.left > 0 => sent # <<>>
      BY DEF InTurn
    <3>4. Flow(C, down, Append(sent, f), peer.left, Len(sent) + 1, part, ix, pt)
      BY <1>0, <1>1, <1>3, <3>2, <3>3, FlowGrows
    <3>a. Append(sent, f) \in Seq(Frames) /\ Len(sent) \in Nat /\ sent' = Append(sent, f)
      BY <2>1, <1>1, AppendedAt
    <3>5. PICK t \in Seq(Frames), n \in Nat : t = sent' /\ t = Append(sent, f) /\ n = Len(sent)
      BY <3>a
    <3>6. t \in Seq(Frames) /\ Len(t) = n + 1 /\ t[n + 1] = f /\ t # <<>> /\ (sent # <<>> => t[1] = sent[1])
      BY <3>5, <1>1
    <3>7. n + 1 \in 1..Len(t)
      BY <3>6
    <3> QED
      BY <3>3, <3>4, <3>5, <3>6, <3>7, <2>1, <1>0
  <2>2. CASE part # 0
    <3>1. writeMu = w
      BY <2>2, <1>1 DEF LockInv
    <3>2. UnderWay /\ sent' = sent
      BY <2>2, <3>1, <1>1 DEF InTurn
    <3>3. NextFrame = Len(sent) /\ NextPart = part
      BY <3>1, <1>1 DEF NextFrame, NextPart
    <3>4. sent # <<>> /\ f = sent[Len(sent)] /\ part <= C[f] /\ Len(sent) \in 1..Len(sent)
      BY <3>1, <3>2, <1>1, SomethingWasSent DEF UnderWay, C
    <3> QED
      BY <3>2, <3>3, <3>4, <1>1, <1>3
  <2> QED
    BY <2>1, <2>2
<1>5. PICK a : /\ a = Len(sent') /\ a \in 1..Len(sent') /\ sent' \in Seq(Frames) /\ sent'[a] = f /\ part <= C[f]
               /\ peer.left > 0 => sent' # <<>> /\ sent'[1] = sent[1]
               /\ \E i, p : Flow(C, down, sent', peer.left, a, part, i, p)
  BY <1>4
<1>6. PICK i, p : Flow(C, Append(down, x), sent', peer.left, IF part = C[f] THEN a + 1 ELSE a,
                       IF part = C[f] THEN 0 ELSE part + 1, i, p)
  <2>0. PICK s \in Seq(Frames) : s = sent'
    BY <1>5
  <2>1. PICK i, p : Flow(C, down, s, peer.left, a, part, i, p)
    BY <2>0, <1>5
  <2>a. a \in 1..Len(s) /\ s[a] = f /\ part <= C[s[a]]
    BY <2>0, <1>5
  <2>2. \E i2, p2 : Flow(C, Append(down, x), s, peer.left, IF part = C[s[a]] THEN a + 1 ELSE a,
                         IF part = C[s[a]] THEN 0 ELSE part + 1, i2, p2)
    BY <1>0, <1>1, <1>2, <2>1, <2>a, FlowWritten
  <2> QED
    BY <2>0, <2>2, <2>a
<1>7. /\ NextFrame' = IF part = C[f] THEN a + 1 ELSE a
      /\ NextPart' = IF part = C[f] THEN 0 ELSE part + 1
  BY <1>1, <1>5 DEF NextFrame, NextPart, C
<1>8. down' = Append(down, x) /\ peer'.left = peer.left
  BY DEF x
<1>9. Flow(C, down', sent', peer'.left, NextFrame', NextPart', i, p)
  BY <1>6, <1>7, <1>8
<1>10. writeMu' # Nobody => UnderWay'
  <2> SUFFICES ASSUME writeMu' # Nobody PROVE UnderWay'
    OBVIOUS
  <2>1. writeMu' = w /\ part # C[f] /\ todo'[w].frames = todo[w].frames /\ todo'[w].out = part + 1
    BY DEF C
  <2>2. part + 1 \in 1..C[f]
    <3>1. PICK c : c = C[f]
      OBVIOUS
    <3>2. c \in Nat /\ part \in Nat /\ part <= c /\ part # c
      BY <3>1, <2>1, <1>0, <1>5
    <3>3. part + 1 \in 1..c
      BY <3>2, NextUpTo
    <3> QED
      BY <3>1, <3>3
  <2>3. sent' # <<>> /\ sent'[Len(sent')] = f
    BY <1>5
  <2> QED
    BY <2>1, <2>2, <2>3 DEF UnderWay, C
<1>11. peer'.left > 0 => sent' # <<>> /\ peer'.left <= C[sent'[1]]
  BY <1>5, <1>8 DEF InTurn, C
<1> QED
  BY <1>9, <1>10, <1>11 DEF InTurn, C

LEMMA WriteKeeps ==
  ASSUME LinkShape, LinkInv, NEW w \in Writers, Write(w)
  PROVE  LinkShape' /\ LinkInv'
<1>1. PICK f \in Frames, part \in Nat :
        /\ f = todo[w].frames[1] /\ part = todo[w].out
        /\ ~closed /\ todo[w].frames # <<>> /\ writeMu \in {w, Nobody}
        /\ writeMu' = IF part = ChunksOf[f] THEN Nobody ELSE w
        /\ sent' = IF part = 0 THEN Append(sent, f) ELSE sent
        /\ down' = Append(down, [part |-> part, kind |-> f.kind])
        /\ [part |-> part, kind |-> f.kind] \in Segments
        /\ todo' \in [Writers -> Todo] /\ \A v \in Writers \ {w} : todo'[v] = todo[v]
        /\ todo'[w].out = IF part = ChunksOf[f] THEN 0 ELSE part + 1
        /\ part # ChunksOf[f] => todo'[w].frames = todo[w].frames
        /\ window' = IF todo'[w].frames = <<>> THEN 0 ELSE window
        /\ UNCHANGED <<step, closed, channels, peer, due>>
  BY WriteEffect
<1>2. LockInv /\ KeptInv /\ StreamInv
  BY DEF LinkInv
<1>3. LinkShape'
  <2>1. down' \in Seq(Segments) /\ sent' \in Seq(Frames)
    BY <1>1 DEF LinkShape
  <2> QED
    BY <2>1, <1>1 DEF LinkShape
<1>4. LockInv'
  BY <1>1, <1>2, WritersNamed DEF LockInv
<1>5. KeptInv'
  <2>1. CASE w = "keeper"
    BY <2>1, <1>1, <1>2 DEF KeptInv
  <2>2. CASE w # "keeper"
    <3>1. todo'["keeper"] = todo["keeper"]
      BY <2>2, <1>1, WritersNamed
    <3> QED
      BY <3>1, <1>1, <1>2 DEF KeptInv
  <2> QED
    BY <2>1, <2>2
<1>6. StreamInv'
  <2>1. ASSUME ~peer.gone PROVE InTurn'
    <3>1. InTurn
      BY <2>1, <1>1, <1>2 DEF StreamInv
    <3>2. peer' = peer
      BY <1>1
    <3> QED
      BY <3>1, <3>2, <1>1, <1>2, WriteInTurn
  <2> QED
    BY <2>1, <1>1, <1>2 DEF StreamInv
<1> QED
  BY <1>3, <1>4, <1>5, <1>6 DEF LinkInv

LEMMA ReceiveKeeps ==
  ASSUME LinkShape, LinkInv, Receive
  PROVE  LinkShape' /\ LinkInv'
<1> DEFINE C == ChunksOf
           fits == IF peer.left = 0 THEN down[1].part = 0
                   ELSE down[1].kind = sent[1].kind /\ down[1].part = C[sent[1]] - peer.left + 1
           rest == IF peer.left = 0 THEN C[sent[1]] ELSE peer.left - 1
<1>1. /\ down # <<>> /\ ~peer.gone /\ down' = Tail(down)
      /\ UNCHANGED <<step, closed, window, channels, todo, writeMu, due>>
      /\ \/ fits /\ peer' = [peer EXCEPT !.left = rest] /\ sent' = (IF rest = 0 THEN Tail(sent) ELSE sent)
         \/ ~fits
  BY ReceiveEffect
<1>2. LockInv /\ KeptInv /\ StreamInv
  BY DEF LinkInv
<1>3. InTurn /\ ~closed
  BY <1>1, <1>2 DEF StreamInv, LinkShape
<1>4. C \in [Frames -> Nat] /\ down \in Seq(Segments) /\ sent \in Seq(Frames) /\ peer.left \in Nat /\ peer \in Peers
  BY ChunksOfFrames DEF LinkShape, Peers
<1>5. PICK ix, pt : Flow(C, down, sent, peer.left, NextFrame, NextPart, ix, pt)
  BY <1>3 DEF InTurn
<1>6. NextFrame \in Nat /\ NextFrame >= 1
  BY <1>4, <1>5, FlowPositive
<1>7. 1 \in 1..Len(sent)
  <2>1. 1 \in 1..Len(down)
    BY <1>1, <1>4
  <2>2. ix[1] = 1 /\ ix[1] \in 1..Len(sent)
    BY <1>5, <2>1 DEF Flow
  <2> QED
    BY <2>2
<1>8. C[sent[1]] \in Nat /\ (peer.left > 0 => peer.left <= C[sent[1]])
  BY <1>3, <1>4, <1>7 DEF InTurn
<1>9. PICK left \in Nat : left = rest
  BY <1>4, <1>8
<1> HIDE DEF C
<1>10. /\ sent # <<>> /\ fits
       /\ left # 0 => \E i, p : Flow(C, Tail(down), sent, left, NextFrame, NextPart, i, p)
       /\ left = 0 => \E i, p : Flow(C, Tail(down), Tail(sent), 0, NextFrame - 1, NextPart, i, p)
  <2>1. left = IF peer.left = 0 THEN C[sent[1]] ELSE peer.left - 1
    BY <1>9
  <2> HIDE DEF rest
  <2>3. PICK old \in Nat, a \in Nat : old = peer.left /\ a = NextFrame
    BY <1>4, <1>6
  <2>4. PICK b : b = NextPart
    OBVIOUS
  <2>5. /\ Flow(C, down, sent, old, a, b, ix, pt) /\ down # <<>>
        /\ (old > 0 => old <= C[sent[1]]) /\ left = IF old = 0 THEN C[sent[1]] ELSE old - 1
    BY <2>1, <2>3, <2>4, <1>1, <1>5, <1>8
  <2>2. /\ sent # <<>>
        /\ down[1].kind = sent[1].kind
        /\ down[1].part = IF old = 0 THEN 0 ELSE C[sent[1]] - old + 1
        /\ left # 0 => \E i, p : Flow(C, Tail(down), sent, left, a, b, i, p)
        /\ left = 0 => \E i, p : Flow(C, Tail(down), Tail(sent), 0, a - 1, b, i, p)
    <3>1. /\ C \in [Frames -> Nat] /\ down \in Seq(Segments) /\ sent \in Seq(Frames) /\ left \in Nat
          /\ old \in Nat /\ a \in Nat
      BY <2>3, <1>4, <1>9
    <3>2. ToRead(Frames, C, Segments, down, sent, old, a, b, ix, pt, left)
      BY <2>5, <3>1 DEF ToRead
    <3> QED
      BY <3>2, FlowRead
  <2>6. fits
    BY <2>2, <2>3
  <2> QED
    BY <2>2, <2>3, <2>4, <2>6
<1>11. peer' = [peer EXCEPT !.left = left] /\ sent' = IF left = 0 THEN Tail(sent) ELSE sent
  BY <1>1, <1>9, <1>10
<1> HIDE DEF fits, rest
<1>12. peer' \in Peers /\ peer'.left = left /\ peer'.stalled = peer.stalled /\ peer'.gone = peer.gone /\ peer'.broken = peer.broken
  BY <1>4, <1>9, <1>11 DEF Peers
<1>13. down' \in Seq(Segments) /\ sent' \in Seq(Frames)
  BY <1>1, <1>4, <1>10, <1>11, TailAt
<1>14. LinkShape'
  BY <1>1, <1>12, <1>13 DEF LinkShape
<1>15. LockInv' /\ KeptInv'
  BY <1>1, <1>2, <1>12 DEF LockInv, KeptInv
<1>16. CASE left # 0
  <2>1. sent' = sent
    BY <1>11, <1>16
  <2>2. NextFrame' = NextFrame /\ NextPart' = NextPart
    BY <2>1, <1>1 DEF NextFrame, NextPart
  <2>3. writeMu' # Nobody => UnderWay'
    BY <2>1, <1>1, <1>3 DEF InTurn, UnderWay
  <2>4. PICK i, p : Flow(C, down', sent', peer'.left, NextFrame', NextPart', i, p)
    BY <2>1, <2>2, <1>1, <1>10, <1>12, <1>16
  <2>5. peer'.left <= C[sent'[1]]
    BY <2>1, <1>8, <1>9, <1>12, <1>4 DEF rest
  <2>6. InTurn'
    BY <2>1, <2>3, <2>4, <2>5, <1>10 DEF InTurn, C
  <2> QED
    BY <2>6, <1>1, <1>2, <1>3, <1>12, <1>14, <1>15 DEF LinkInv, StreamInv
<1>17. CASE left = 0
  <2>0. PICK t \in Seq(Frames), n \in Nat : t = sent' /\ t = Tail(sent) /\ n = Len(t) /\ n + 1 = Len(sent)
                                             /\ \A i \in 1..n : t[i] = sent[i + 1]
    <3>1. sent' = Tail(sent) /\ sent # <<>>
      BY <1>10, <1>11, <1>17
    <3>2. /\ Tail(sent) \in Seq(Frames) /\ Len(Tail(sent)) = Len(sent) - 1 /\ Len(sent) \in Nat \ {0}
          /\ \A i \in 1..Len(sent) - 1 : Tail(sent)[i] = sent[i + 1]
      BY <3>1, <1>4, TailAt
    <3>3. Len(sent) - 1 \in Nat /\ (Len(sent) - 1) + 1 = Len(sent)
      BY <3>2
    <3> QED
      BY <3>1, <3>2, <3>3
  <2>2. NextFrame' = NextFrame - 1 /\ NextPart' = NextPart
    <3>1. Len(sent') = n /\ Len(sent) = n + 1
      BY <2>0
    <3>2. todo' = todo /\ writeMu' = writeMu
      BY <1>1
    <3> QED
      BY <3>1, <3>2 DEF NextFrame, NextPart
  <2>4. PICK i, p : Flow(C, down', sent', peer'.left, NextFrame', NextPart', i, p)
    <3>1. PICK i, p : Flow(C, Tail(down), Tail(sent), 0, NextFrame - 1, NextPart, i, p)
      BY <1>10, <1>17
    <3>2. down' = Tail(down) /\ sent' = Tail(sent) /\ peer'.left = 0
      BY <2>0, <1>1, <1>12, <1>17
    <3> QED
      BY <2>2, <3>1, <3>2
  <2>3. writeMu' # Nobody => UnderWay'
    <3> SUFFICES ASSUME writeMu # Nobody PROVE UnderWay'
      BY <1>1
    <3>1. NextFrame' >= 1
      BY <2>4, <1>13, FlowPositive
    <3>2. NextFrame' = n
      BY <2>0, <1>1 DEF NextFrame
    <3>3. n \in 1..n /\ t[n] = sent[n + 1] /\ n + 1 = Len(sent)
      BY <3>1, <3>2, <2>0
    <3>4. sent' # <<>> /\ sent'[Len(sent')] = sent[Len(sent)]
      <4>0. n # 0 /\ n = Len(t) /\ t = sent' /\ sent' \in Seq(Frames)
        BY <3>3, <2>0
      <4>1. t # <<>>
        BY <4>0
      <4> QED
        BY <4>0, <4>1, <3>3
    <3> QED
      BY <3>4, <1>1, <1>3 DEF InTurn, UnderWay
  <2>6. InTurn'
    BY <2>3, <2>4, <1>12, <1>17 DEF InTurn, C
  <2> QED
    BY <2>6, <1>1, <1>2, <1>3, <1>12, <1>14, <1>15 DEF LinkInv, StreamInv
<1> QED
  BY <1>16, <1>17

LEMMA LinkKept == ASSUME LinkShape, LinkInv, [LinkNext]_linkVars PROVE LinkShape' /\ LinkInv'
<1>1. CASE Hello \/ PerformSV2ServerHandshake \/ ListSession \/ ReadFails \/ Stall \/ Leave
  BY <1>1, PeerKeeps
<1>2. CASE HandleSetupConnection \/ HandleOpenChannel \/ HandleSubmitShares
  BY <1>2, ReaderKeeps
<1>3. CASE Return \/ Stop
  BY <1>3, CloseKeeps
<1>4. CASE Keepalive
  BY <1>4, KeepaliveKeeps
<1>5. CASE Tick
  BY <1>5, TickKeeps
<1>6. CASE Receive
  BY <1>6, ReceiveKeeps
<1>7. CASE \E p \in Pushers : UpdateTemplate(p)
  BY <1>7, PushKeeps
<1>8. CASE \E w \in Writers : WriteStep(w)
  BY <1>8, WriteKeeps, FailKeeps DEF WriteStep
<1>9. CASE UNCHANGED linkVars
  <2>1. UNCHANGED <<step, closed, window, channels, todo, writeMu, down, sent, peer, due>>
    BY <1>9 DEF linkVars, serverVars, writeVars
  <2>2. LinkShape' /\ LockInv' /\ KeptInv'
    BY <2>1 DEF LinkInv, LinkShape, LockInv, KeptInv
  <2>3. StreamInv'
    BY <2>1, TurnKept DEF LinkInv
  <2> QED
    BY <2>2, <2>3 DEF LinkInv
<1> QED
  BY <1>1, <1>2, <1>3, <1>4, <1>5, <1>6, <1>7, <1>8, <1>9 DEF LinkNext

-----------------------------------------------------------------------------
(* The theorems *)

\* Every frame of every writer reaches the miner whole and in turn, whoever else writes:
\* Codec.WriteFrame keeps writeMu from a frame's header to its last chunk, and the
\* encoders fill the payloads they size.
THEOREM FramesArriveWholeAlways ==
  LinkSpec => []FramesArriveWhole
<1>1. LinkInit => LinkShape /\ LinkInv
  BY LinkInitially
<1>2. LinkShape /\ LinkInv /\ [LinkNext]_linkVars => LinkShape' /\ LinkInv'
  BY LinkKept
<1>3. LinkShape /\ LinkInv => FramesArriveWhole
  <2>1. FilledFrames = Frames
    BY AllFilled
  <2>2. LinkShape => \A k \in DOMAIN sent : sent[k] \in Frames
    BY DEF LinkShape
  <2> QED
    BY <2>1, <2>2 DEF LinkInv, StreamInv, FramesArriveWhole
<1> QED
  BY <1>1, <1>2, <1>3, PTL DEF LinkSpec

\* A served miner that reads and has nothing to say is never at its deadline: keepaliveLoop
\* writes to it every interval, and a write moves the deadline.  The read timeout is longer
\* than one interval (600 s and 60 s by default).
THEOREM QuietMinerKeptAlways ==
  ASSUME Window > 1
  PROVE  LinkSpec => []QuietMinerKept
<1>1. LinkInit => LinkShape /\ LinkInv
  BY LinkInitially
<1>2. LinkShape /\ LinkInv /\ [LinkNext]_linkVars => LinkShape' /\ LinkInv'
  BY LinkKept
<1>3. LinkShape /\ LinkInv => QuietMinerKept
  BY LinkAssumption DEF LinkInv, KeptInv, QuietMinerKept
<1> QED
  BY <1>1, <1>2, <1>3, PTL DEF LinkSpec

-----------------------------------------------------------------------------
(* The decoders *)

\* It has read no byte that was not there; it is at off, or has given up because the
\* payload does not have need bytes.
ReadUpTo(r, len, off, need) ==
  /\ off \in Nat /\ need \in Nat /\ len \in Nat
  /\ need <= len => r = [len |-> len, off |-> off, ok |-> TRUE, safe |-> TRUE]
  /\ need > len => \E o : r = [len |-> len, off |-> o, ok |-> FALSE, safe |-> TRUE]

LEMMA TakeReads ==
  ASSUME NEW r, NEW len, NEW off, NEW need, ReadUpTo(r, len, off, need), NEW checked \in Nat, NEW read \in Nat,
         NEW most \in Nat, off + checked <= most, most = need \/ (most = off + checked /\ need <= most),
         off + read <= most
  PROVE  ReadUpTo(Take(r, checked, read), len, off + read, most)
<1>0. off \in Nat /\ need \in Nat /\ len \in Nat
  BY DEF ReadUpTo
<1>1. CASE most <= len
  <2>1. need <= len /\ ~(off + checked > len) /\ off + read <= len
    BY <1>0, <1>1
  <2>2. r = [len |-> len, off |-> off, ok |-> TRUE, safe |-> TRUE]
    BY <2>1 DEF ReadUpTo
  <2>3. Take(r, checked, read) = [r EXCEPT !.off = off + read, !.safe = TRUE]
    BY <2>1, <2>2 DEF Take
  <2>4. Take(r, checked, read) = [len |-> len, off |-> off + read, ok |-> TRUE, safe |-> TRUE]
    BY <2>2, <2>3
  <2> QED
    BY <2>4, <1>0, <1>1 DEF ReadUpTo
<1>2. CASE most > len
  <2>1. \E k \in BOOLEAN : \E o : r = [len |-> len, off |-> o, ok |-> k, safe |-> TRUE] /\ (k => o + checked > len)
    <3>1. CASE need <= len
      <4>1. r = [len |-> len, off |-> off, ok |-> TRUE, safe |-> TRUE]
        BY <3>1 DEF ReadUpTo
      <4>2. off + checked > len
        BY <3>1, <1>0, <1>2
      <4> QED
        BY <4>1, <4>2
    <3>2. CASE need > len
      <4>1. PICK o : r = [len |-> len, off |-> o, ok |-> FALSE, safe |-> TRUE]
        BY <3>2 DEF ReadUpTo
      <4> QED
        BY <4>1
    <3> QED
      BY <3>1, <3>2, <1>0
  <2>2. PICK k \in BOOLEAN : \E o : r = [len |-> len, off |-> o, ok |-> k, safe |-> TRUE] /\ (k => o + checked > len)
    BY <2>1
  <2>3. PICK o : r = [len |-> len, off |-> o, ok |-> k, safe |-> TRUE] /\ (k => o + checked > len)
    BY <2>2
  <2>4. Take(r, checked, read) = [r EXCEPT !.ok = FALSE]
    BY <2>3 DEF Take
  <2>5. Take(r, checked, read) = [len |-> len, off |-> o, ok |-> FALSE, safe |-> TRUE]
    BY <2>3, <2>4
  <2>6. off + read \in Nat /\ ~(most <= len)
    BY <1>0, <1>2
  <2> QED
    BY <2>5, <2>6, <1>0 DEF ReadUpTo
<1> QED
  BY <1>0, <1>1, <1>2

LEMMA NeedReads ==
  ASSUME NEW r, NEW len, NEW n \in Nat, ReadUpTo(r, len, 0, 0)
  PROVE  ReadUpTo(Need(r, n), len, 0, n)
BY TakeReads DEF Need

LEMMA FixedReads ==
  ASSUME NEW r, NEW len, NEW off \in Nat, NEW need \in Nat, NEW n \in Nat, ReadUpTo(r, len, off, need),
         NEW to \in Nat, to = off + n, to <= need
  PROVE  ReadUpTo(Fixed(r, n), len, to, need)
<1>1. off <= need /\ off + n <= need
  OBVIOUS
<1>2. ReadUpTo(Fixed(r, n), len, off + n, need)
  BY <1>1, TakeReads DEF Fixed
<1> QED
  BY <1>2

LEMMA RoomReads ==
  ASSUME NEW r, NEW len, NEW off \in Nat, NEW need \in Nat, NEW n \in Nat, NEW most \in Nat,
         ReadUpTo(r, len, off, need), most = IF need <= off + n THEN off + n ELSE need
  PROVE  ReadUpTo(Room(r, n), len, off + n, most)
<1>1. off + n <= most /\ (most = need \/ (most = off + n /\ need <= most)) /\ off \in Nat /\ n \in Nat
  OBVIOUS
<1>2. ReadUpTo(Take(r, n, n), len, off + n, most)
  BY <1>1, TakeReads
<1> QED
  BY <1>2 DEF Room

LEMMA StrReads ==
  ASSUME NEW r, NEW len, NEW off \in Nat, NEW need \in Nat, NEW s \in Nat, NEW most \in Nat,
         ReadUpTo(r, len, off, need), most = IF need <= off + 1 + s THEN off + 1 + s ELSE need
  PROVE  ReadUpTo(DecodeStr(r, s), len, off + 1 + s, most)
<1>1. PICK m \in Nat : m = IF need <= off + 1 THEN off + 1 ELSE need
  OBVIOUS
<1>2. PICK t : t = Room(r, 1) /\ ReadUpTo(t, len, off + 1, m)
  BY <1>1, RoomReads
<1>3. PICK o \in Nat : o = off + 1 /\ o + s = off + 1 + s
  OBVIOUS
<1>4. most = IF m <= o + s THEN o + s ELSE m
  BY <1>1, <1>3
<1>5. ReadUpTo(Room(t, s), len, o + s, most)
  BY <1>2, <1>3, <1>4, RoomReads
<1> QED
  BY <1>2, <1>3, <1>5 DEF DecodeStr

LEMMA SetupReads ==
  ASSUME NEW r, NEW len, ReadUpTo(r, len, 0, 0), NEW s \in Nat
  PROVE  ReadUpTo(DecodeSetupConnection(r, s), len, 16 + 5 * s, 16 + 5 * s)
<1> DEFINE a == Fixed(Need(r, 9), 1)
           b == Fixed(a, 2)
           c == Fixed(b, 2)
           flags == Fixed(c, 4)
           host == DecodeStr(flags, s)
           port == Room(host, 2)
           vendor == DecodeStr(port, s)
           hardware == DecodeStr(vendor, s)
           firmware == DecodeStr(hardware, s)
           device == DecodeStr(firmware, s)
<1>a. DecodeSetupConnection(r, s) = device
  BY DEF DecodeSetupConnection
<1>0. ReadUpTo(Need(r, 9), len, 0, 9)
  BY NeedReads
<1>1. ReadUpTo(a, len, 1, 9)
  BY <1>0, FixedReads
<1> HIDE DEF a
<1>2. ReadUpTo(b, len, 3, 9)
  BY <1>0, <1>1, FixedReads
<1> HIDE DEF b
<1>3. ReadUpTo(c, len, 5, 9)
  BY <1>0, <1>2, FixedReads
<1> HIDE DEF c
<1>4. ReadUpTo(flags, len, 9, 9)
  BY <1>3, FixedReads
<1> HIDE DEF flags
<1>5. ReadUpTo(host, len, 10 + s, 10 + s)
  BY <1>4, StrReads
<1> HIDE DEF host
<1>6. ReadUpTo(port, len, 12 + s, 12 + s)
  BY <1>5, RoomReads
<1> HIDE DEF port
<1>7. ReadUpTo(vendor, len, 13 + 2 * s, 13 + 2 * s)
  BY <1>6, StrReads
<1> HIDE DEF vendor
<1>8. ReadUpTo(hardware, len, 14 + 3 * s, 14 + 3 * s)
  BY <1>7, StrReads
<1> HIDE DEF hardware
<1>9. ReadUpTo(firmware, len, 15 + 4 * s, 15 + 4 * s)
  BY <1>8, StrReads
<1> HIDE DEF firmware
<1>10. ReadUpTo(device, len, 16 + 5 * s, 16 + 5 * s)
  BY <1>9, StrReads
<1> QED
  BY <1>a, <1>10

LEMMA OpenReads ==
  ASSUME NEW r, NEW len, ReadUpTo(r, len, 0, 0), NEW s \in Nat
  PROVE  ReadUpTo(DecodeOpenStandardMiningChannel(r, s), len, 41 + s, 41 + s)
<1> DEFINE id   == Fixed(Need(r, 9), 4)
           user == DecodeStr(id, s)
           rate == Room(user, 4)
<1>a. DecodeOpenStandardMiningChannel(r, s) = Room(rate, 32)
  BY DEF DecodeOpenStandardMiningChannel, DecodeU256
<1>0. ReadUpTo(Need(r, 9), len, 0, 9)
  BY NeedReads
<1>1. ReadUpTo(id, len, 4, 9)
  BY <1>0, FixedReads
<1> HIDE DEF id
<1>2. PICK m \in Nat : m = IF 9 <= 5 + s THEN 5 + s ELSE 9
  OBVIOUS
<1>3. ReadUpTo(user, len, 5 + s, m)
  BY <1>1, <1>2, StrReads
<1> HIDE DEF user
<1>4. ReadUpTo(rate, len, 9 + s, 9 + s)
  BY <1>2, <1>3, RoomReads
<1> HIDE DEF rate
<1>5. ReadUpTo(Room(rate, 32), len, 41 + s, 41 + s)
  BY <1>4, RoomReads
<1> QED
  BY <1>a, <1>5

LEMMA OpenExtendedReads ==
  ASSUME NEW r, NEW len, ReadUpTo(r, len, 0, 0), NEW s \in Nat
  PROVE  ReadUpTo(DecodeOpenExtendedMiningChannel(r, s), len, 43 + s, 43 + s)
<1>1. PICK t : t = DecodeOpenStandardMiningChannel(r, s) /\ ReadUpTo(t, len, 41 + s, 41 + s)
  BY OpenReads
<1>2. ReadUpTo(Room(t, 2), len, 43 + s, 43 + s)
  BY <1>1, RoomReads
<1> QED
  BY <1>1, <1>2 DEF DecodeOpenExtendedMiningChannel

LEMMA ShareFieldsRead ==
  ASSUME NEW r, NEW len, NEW need \in Nat, ReadUpTo(r, len, 0, need), 24 <= need
  PROVE  ReadUpTo(ShareFields(r), len, 24, need)
<1> DEFINE a == Fixed(r, 4)
           b == Fixed(a, 4)
           c == Fixed(b, 4)
           d == Fixed(c, 4)
           e == Fixed(d, 4)
<1>a. ShareFields(r) = Fixed(e, 4)
  BY DEF ShareFields
<1>0. 0 + 4 <= need /\ 4 + 4 <= need /\ 8 + 4 <= need /\ 12 + 4 <= need /\ 16 + 4 <= need /\ 20 + 4 <= need
  OBVIOUS
<1>1. ReadUpTo(a, len, 4, need)
  BY FixedReads
<1> HIDE DEF a
<1>2. ReadUpTo(b, len, 8, need)
  BY <1>0, <1>1, FixedReads
<1> HIDE DEF b
<1>3. ReadUpTo(c, len, 12, need)
  BY <1>0, <1>2, FixedReads
<1> HIDE DEF c
<1>4. ReadUpTo(d, len, 16, need)
  BY <1>0, <1>3, FixedReads
<1> HIDE DEF d
<1>5. ReadUpTo(e, len, 20, need)
  <2>1. 20 = 16 + 4 /\ 20 <= need
    OBVIOUS
  <2> QED
    BY <2>1, <1>4, FixedReads
<1> HIDE DEF e
<1>6. ReadUpTo(Fixed(e, 4), len, 24, need)
  <2>1. 24 = 20 + 4 /\ 24 <= need
    OBVIOUS
  <2> QED
    BY <2>1, <1>5, FixedReads
<1> QED
  BY <1>a, <1>6

LEMMA SubmitReads ==
  ASSUME NEW r, NEW len, ReadUpTo(r, len, 0, 0)
  PROVE  ReadUpTo(DecodeSubmitSharesStandard(r), len, 24, 24)
<1>1. ReadUpTo(Need(r, 24), len, 0, 24)
  BY NeedReads
<1> QED
  BY <1>1, ShareFieldsRead DEF DecodeSubmitSharesStandard

\* An extranonce of more than 32 bytes is refused.
LEMMA SubmitExtendedReads ==
  ASSUME NEW r, NEW len, ReadUpTo(r, len, 0, 0), NEW s \in Nat
  PROVE  /\ s <= 32 => ReadUpTo(DecodeSubmitSharesExtended(r, s), len, 25 + s, 25 + s)
         /\ s > 32 => /\ DecodeSubmitSharesExtended(r, s).ok = FALSE
                      /\ DecodeSubmitSharesExtended(r, s).safe = TRUE
<1>1. ReadUpTo(Need(r, 25), len, 0, 25)
  BY NeedReads
<1>2. PICK t : t = ShareFields(Need(r, 25)) /\ ReadUpTo(t, len, 24, 25)
  BY <1>1, ShareFieldsRead
<1>3. PICK u : u = Room(t, 1) /\ ReadUpTo(u, len, 25, 25)
  BY <1>2, RoomReads
<1>4. DecodeSubmitSharesExtended(r, s) = IF s > 32 THEN [u EXCEPT !.ok = FALSE] ELSE Room(u, s)
  BY <1>2, <1>3 DEF DecodeSubmitSharesExtended, DecodeB0_32
<1>5. ReadUpTo(Room(u, s), len, 25 + s, 25 + s)
  BY <1>3, RoomReads
<1>6. [u EXCEPT !.ok = FALSE].ok = FALSE /\ [u EXCEPT !.ok = FALSE].safe = TRUE
  BY <1>3 DEF ReadUpTo
<1> QED
  BY <1>4, <1>5, <1>6

\* Every message of the miner is read to its end and no further.
LEMMA DecodedSafely ==
  ASSUME NEW p \in Payloads, NEW type \in Requests
  PROVE  DecodedAs(type, p).safe /\ (DecodedAs(type, p).ok <=> DecodedAs(type, p).complete)
<1> DEFINE len  == Length(type, p)
           r    == [len |-> len, off |-> 0, ok |-> TRUE, safe |-> TRUE]
           d    == Decoder(type, r, p.str)
<1>0. p.str \in Nat /\ p.cut \in Int /\ len \in Nat
  BY PayloadAssumption
<1>1. ReadUpTo(r, len, 0, 0)
  BY <1>0 DEF ReadUpTo
<1>2. DecodedAs(type, p) = [ok |-> d.ok, safe |-> d.safe, complete |-> Complete(type, p)]
  BY DEF DecodedAs, Decode
<1>3. len = WholeLength(type, p.str) - p.cut
  BY DEF Length
<1> HIDE DEF len, r
<1>4. ASSUME NEW whole \in Nat, WholeLength(type, p.str) = whole, ReadUpTo(d, len, whole, whole),
             type = "submitExtended" => p.str <= 32
      PROVE  d.safe /\ (d.ok <=> Complete(type, p))
  <2>1. CASE whole <= len
    <3>1. d.safe /\ d.ok
      BY <2>1, <1>4 DEF ReadUpTo
    <3>2. p.cut <= 0
      BY <2>1, <1>0, <1>3, <1>4
    <3> QED
      BY <3>1, <3>2, <1>4 DEF Complete
  <2>2. CASE whole > len
    <3>1. d.safe /\ ~d.ok
      <4>1. PICK o : d = [len |-> len, off |-> o, ok |-> FALSE, safe |-> TRUE]
        BY <2>2, <1>4 DEF ReadUpTo
      <4> HIDE DEF d
      <4> QED
        BY <4>1
    <3>2. ~(p.cut <= 0)
      BY <2>2, <1>0, <1>3, <1>4
    <3> QED
      BY <3>1, <3>2 DEF Complete
  <2> QED
    BY <2>1, <2>2, <1>0
<1>5. d.safe /\ (d.ok <=> Complete(type, p))
  <2>1. CASE type = "setup"
    <3>1. WholeLength(type, p.str) = 16 + 5 * p.str
      BY <2>1, <1>0 DEF WholeLength
    <3>2. d = DecodeSetupConnection(r, p.str)
      BY <2>1 DEF Decoder
    <3> QED
      <4>1. 16 + 5 * p.str \in Nat /\ ReadUpTo(d, len, 16 + 5 * p.str, 16 + 5 * p.str)
        BY <3>2, <1>0, <1>1, SetupReads
      <4> QED
        BY <2>1, <3>1, <4>1, <1>4
  <2>2. CASE type = "open"
    <3>1. WholeLength(type, p.str) = 41 + p.str
      BY <2>2, <1>0 DEF WholeLength
    <3>2. d = DecodeOpenStandardMiningChannel(r, p.str)
      BY <2>2 DEF Decoder
    <3> QED
      <4>1. 41 + p.str \in Nat /\ ReadUpTo(d, len, 41 + p.str, 41 + p.str)
        BY <3>2, <1>0, <1>1, OpenReads
      <4> QED
        BY <2>2, <3>1, <4>1, <1>4
  <2>3. CASE type = "openExtended"
    <3>1. WholeLength(type, p.str) = 43 + p.str
      BY <2>3, <1>0 DEF WholeLength
    <3>2. d = DecodeOpenExtendedMiningChannel(r, p.str)
      BY <2>3 DEF Decoder
    <3> QED
      <4>1. 43 + p.str \in Nat /\ ReadUpTo(d, len, 43 + p.str, 43 + p.str)
        BY <3>2, <1>0, <1>1, OpenExtendedReads
      <4> QED
        BY <2>3, <3>1, <4>1, <1>4
  <2>4. CASE type = "submit"
    <3>1. WholeLength(type, p.str) = 24
      BY <2>4 DEF WholeLength
    <3>2. d = DecodeSubmitSharesStandard(r)
      BY <2>4 DEF Decoder
    <3> QED
      BY <2>4, <3>1, <3>2, <1>0, <1>1, <1>4, SubmitReads
  <2>5. CASE type = "submitExtended"
    <3>1. WholeLength(type, p.str) = 25 + p.str
      BY <2>5, <1>0 DEF WholeLength
    <3>2. d = DecodeSubmitSharesExtended(r, p.str)
      BY <2>5 DEF Decoder
    <3>3. CASE p.str <= 32
      <4>1. 25 + p.str \in Nat /\ ReadUpTo(d, len, 25 + p.str, 25 + p.str)
        <5>1. PICK s \in Nat : s = p.str
          BY <1>0
        <5>2. ReadUpTo(DecodeSubmitSharesExtended(r, s), len, 25 + s, 25 + s)
          BY <5>1, <3>3, <1>1, SubmitExtendedReads
        <5> HIDE DEF d
        <5> QED
          BY <5>1, <5>2, <3>2
      <4> QED
        BY <3>1, <3>3, <4>1, <1>4
    <3>4. CASE p.str > 32
      <4>1. ~d.ok /\ d.safe
        BY <3>2, <3>4, <1>0, <1>1, SubmitExtendedReads
      <4> QED
        BY <2>5, <3>4, <4>1, <1>0 DEF Complete
    <3> QED
      BY <3>3, <3>4, <1>0
  <2> QED
    BY <2>1, <2>2, <2>3, <2>4, <2>5 DEF Requests
<1> QED
  BY <1>2, <1>5

\* A step decodes a message of the miner or leaves the last result.
LEMMA DecodedStep ==
  ASSUME [LinkNext]_linkVars
  PROVE  decoded' = decoded \/ \E type \in Requests, p \in Payloads : decoded' = DecodedAs(type, p)
<1>r. ASSUME NEW type \in Requests \cup {"other"}, Reads(type)
      PROVE  decoded' = decoded \/ \E t \in Requests, p \in Payloads : decoded' = DecodedAs(t, p)
  <2>1. PICK p \in Payloads : decoded' = IF type = "other" THEN decoded ELSE DecodedAs(type, p)
    BY <1>r DEF Reads
  <2> QED
    BY <2>1
<1>1. CASE HandleSetupConnection
  <2>1. PICK type \in {"setup", "other"} : Reads(type)
    BY <1>1 DEF HandleSetupConnection
  <2>2. type \in Requests \cup {"other"}
    BY DEF Requests
  <2> QED
    BY <2>1, <2>2, <1>r
<1>2. CASE HandleOpenChannel
  <2>1. PICK type \in {"open", "openExtended"} : Reads(type)
    BY <1>2 DEF HandleOpenChannel
  <2>2. type \in Requests \cup {"other"}
    BY DEF Requests
  <2> QED
    BY <2>1, <2>2, <1>r
<1>3. CASE HandleSubmitShares
  <2>1. PICK type \in {"submit", "submitExtended", "other"} : Reads(type)
    BY <1>3 DEF HandleSubmitShares
  <2>2. type \in Requests \cup {"other"}
    BY DEF Requests
  <2> QED
    BY <2>1, <2>2, <1>r
<1>4. CASE \/ Hello \/ PerformSV2ServerHandshake \/ ListSession \/ ReadFails \/ Return \/ Stop
           \/ Keepalive \/ Tick \/ Receive \/ Stall \/ Leave
  BY <1>4 DEF Hello, PerformSV2ServerHandshake, ListSession, ReadFails, Return, Stop, Close,
              Keepalive, Tick, Receive, Stall, Leave, serverVars
<1>5. CASE \E p \in Pushers : UpdateTemplate(p)
  BY <1>5 DEF UpdateTemplate, serverVars
<1>6. CASE \E w \in Writers : WriteStep(w)
  BY <1>6 DEF WriteStep, Write, WriteFails, serverVars
<1>7. CASE UNCHANGED linkVars
  BY <1>7 DEF linkVars, serverVars
<1> QED
  BY <1>1, <1>2, <1>3, <1>4, <1>5, <1>6, <1>7 DEF LinkNext

\* No payload makes a decoder read beyond its end, and a decoder accepts exactly the
\* messages that have all their fields, whatever lengths the miner gives.
THEOREM DecodersInBoundsAlways ==
  LinkSpec => []DecodersInBounds
<1>1. LinkInit => DecodersInBounds
  BY DEF LinkInit, DecodersInBounds
<1>2. DecodersInBounds /\ [LinkNext]_linkVars => DecodersInBounds'
  <2> SUFFICES ASSUME DecodersInBounds, [LinkNext]_linkVars PROVE DecodersInBounds'
    OBVIOUS
  <2>1. CASE decoded' = decoded
    BY <2>1 DEF DecodersInBounds
  <2>2. CASE \E type \in Requests, p \in Payloads : decoded' = DecodedAs(type, p)
    BY <2>2, DecodedSafely DEF DecodersInBounds
  <2> QED
    BY <2>1, <2>2, DecodedStep
<1> QED
  BY <1>1, <1>2, PTL DEF LinkSpec
=============================================================================

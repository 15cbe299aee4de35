------------------------------ MODULE SV2Shares ------------------------------
(***************************************************************************)
(* pkg/stratumv2: the shares of one Stratum V2 channel and its difficulty.    *)
(* The session's reader judges a share by the channel's target, records it    *)
(* and lets vardiff look at the pace; a new difficulty waits in pendingDiff   *)
(* until a job goes out (UpdateTemplate's goroutines, keepaliveLoop), which   *)
(* applies it, resets vardiff's window and tells the miner.  Each step holds  *)
(* c.mu or v.mu for itself only.                                              *)
(*                                                                          *)
(* Difficulties are small numbers.  The pace of the shares is a choice: a     *)
(* retarget that is due finds the variance acceptable or picks another        *)
(* difficulty.  Whether a share's job is still honoured is SV2Work's matter   *)
(* and a choice here.  A share is exactly as hard as the miner was last told, *)
(* and travels to the reader behind the shares before it.                     *)
(***************************************************************************)
EXTENDS Integers, Sequences

CONSTANTS
  Diffs,        \* minDiff..maxDiff
  StartDiff,
  Senders,      \* UpdateTemplate's goroutines and keepaliveLoop
  MinShares,    \* shares vardiff waits for
  FirstSeqs,    \* sequence numbers a miner may begin with
  MaxSubmits,   \* bound: shares
  MaxChanges,   \* bound: new difficulties
  MaxInFlight   \* bound: shares on their way to the reader

ASSUME SharesAssumption ==
  /\ Diffs \subseteq Nat \ {0} /\ StartDiff \in Diffs
  /\ MinShares \in Nat \ {0} /\ FirstSeqs \subseteq Nat
  /\ MaxSubmits \in Nat /\ MaxChanges \in Nat /\ MaxInFlight \in Nat

VARIABLES
  vardiffOnNewBlock,
  poolDifficulty,   \* of the target shares are judged by
  prevDiff,         \* 0: none
  inGrace,          \* lowDiffGrace has not passed since diffChangedAt
  pendingDiff,      \* 0: none
  vardiff,          \* currentDiff, len(shareTimes), retargetTime has passed
  acks,             \* lastAckedSeq (-1: none yet), new_submits_accepted_count summed up
  shares,           \* accepted and rejected
  reader,           \* what the reader is doing, with which share
  send,             \* what each sender is doing, with which difficulty
  changes,          \* difficulties applied
  miner,            \* what it mines at, the change that told it, its next sequence number
  wire,             \* its shares on the way
  overlapped        \* two senders have been at work at a time

channelVars == <<poolDifficulty, prevDiff, inGrace, pendingDiff, changes>>
countVars == <<acks, shares>>
vars == <<vardiffOnNewBlock, channelVars, vardiff, countVars, reader, send, miner, wire, overlapped>>

IdleReader == [pc |-> "idle", diff |-> 0, seen |-> 0, seq |-> 0]
IdleSend == [pc |-> "idle", diff |-> 0, change |-> 0]

Init ==
  /\ vardiffOnNewBlock \in BOOLEAN
  /\ poolDifficulty = StartDiff /\ prevDiff = 0 /\ inGrace = FALSE /\ pendingDiff = 0 /\ changes = 0
  /\ vardiff = [diff |-> StartDiff, shares |-> 0, due |-> FALSE]
  /\ acks = [last |-> -1, sum |-> 0] /\ shares = [accepted |-> 0, rejected |-> 0]
  /\ reader = IdleReader
  /\ send = [t \in Senders |-> IdleSend]
  /\ \E first \in FirstSeqs : miner = [diff |-> StartDiff, seen |-> 0, seq |-> first, left |-> MaxSubmits]
  /\ wire = <<>>
  /\ overlapped = FALSE

-----------------------------------------------------------------------------
(* The miner and the clock *)

Mine ==
  /\ miner.left > 0 /\ Len(wire) < MaxInFlight
  /\ wire' = Append(wire, [diff |-> miner.diff, seen |-> miner.seen, seq |-> miner.seq])
  /\ miner' = [miner EXCEPT !.seq = @ + 1, !.left = @ - 1]
  /\ UNCHANGED <<vardiffOnNewBlock, channelVars, vardiff, countVars, reader, send, overlapped>>

RetargetTime ==
  /\ ~vardiff.due
  /\ vardiff' = [vardiff EXCEPT !.due = TRUE]
  /\ UNCHANGED <<vardiffOnNewBlock, channelVars, countVars, reader, send, miner, wire, overlapped>>

LowDiffGraceEnds ==
  /\ inGrace
  /\ inGrace' = FALSE
  /\ UNCHANGED <<vardiffOnNewBlock, poolDifficulty, prevDiff, pendingDiff, changes, vardiff, countVars,
                 reader, send, miner, wire, overlapped>>

-----------------------------------------------------------------------------
(* handleSubmitShares, handleSubmitSharesExtended *)

RecordRejection ==
  /\ shares' = [shares EXCEPT !.rejected = @ + 1]
  /\ reader' = IdleReader
  /\ UNCHANGED acks

\* A share of a job that is gone, or gone too long, is refused.
ReadShare ==
  /\ reader.pc = "idle" /\ wire # <<>>
  /\ wire' = Tail(wire)
  /\ LET s == Head(wire) IN
     \/ RecordRejection
     \/ /\ reader' = [pc |-> "judge", diff |-> s.diff, seen |-> s.seen, seq |-> s.seq]
        /\ UNCHANGED countVars
  /\ UNCHANGED <<vardiffOnNewBlock, channelVars, vardiff, send, miner, overlapped>>

\* ValidateShare, with the target of the moment.
ValidateShare ==
  /\ reader.pc = "judge"
  /\ reader' = [reader EXCEPT !.pc = IF reader.diff >= poolDifficulty THEN "record" ELSE "grace"]
  /\ UNCHANGED <<vardiffOnNewBlock, channelVars, vardiff, countVars, send, miner, wire, overlapped>>

\* A share of the difficulty before is good for a while after the change.
LowDiffGrace ==
  /\ reader.pc = "grace"
  /\ IF prevDiff > 0 /\ inGrace /\ reader.diff >= prevDiff
     THEN reader' = [reader EXCEPT !.pc = "record"] /\ UNCHANGED countVars
     ELSE RecordRejection
  /\ UNCHANGED <<vardiffOnNewBlock, channelVars, vardiff, send, miner, wire, overlapped>>

\* Everything up to the share is acknowledged, the first share for itself alone.
Ack(seq) ==
  acks' = [last |-> seq, sum |-> acks.sum + (IF acks.last >= 0 /\ seq > acks.last THEN seq - acks.last ELSE 1)]

\* RecordShare, under c.mu; vardiff looks at the share unless a difficulty waits.
RecordShare ==
  /\ reader.pc = "record"
  /\ shares' = [shares EXCEPT !.accepted = @ + 1]
  /\ Ack(reader.seq)
  /\ reader' = IF pendingDiff > 0 THEN IdleReader ELSE [reader EXCEPT !.pc = "retarget"]
  /\ UNCHANGED <<vardiffOnNewBlock, channelVars, vardiff, send, miner, wire, overlapped>>

\* VarDiff.RecordShare, under v.mu: too few shares or too early, within the
\* variance, or another difficulty, which vardiff takes as the current one at once.
Retarget ==
  /\ reader.pc = "retarget"
  /\ LET n == vardiff.shares + 1 IN
     IF n < MinShares \/ ~vardiff.due
     THEN /\ vardiff' = [vardiff EXCEPT !.shares = IF n < MinShares THEN n ELSE MinShares]
          /\ reader' = IdleReader
     ELSE \/ /\ vardiff' = [vardiff EXCEPT !.shares = MinShares, !.due = FALSE]
             /\ reader' = IdleReader
          \/ \E d \in Diffs \ {vardiff.diff} :
               /\ changes < MaxChanges
               /\ vardiff' = [diff |-> d, shares |-> 0, due |-> FALSE]
               /\ reader' = [reader EXCEPT !.pc = "pend", !.diff = d]
  /\ UNCHANGED <<vardiffOnNewBlock, channelVars, countVars, send, miner, wire, overlapped>>

\* c.mu again: the difficulty waits for the next job.
SetPendingDiff ==
  /\ reader.pc = "pend"
  /\ pendingDiff' = reader.diff
  /\ reader' = IdleReader
  /\ UNCHANGED <<vardiffOnNewBlock, poolDifficulty, prevDiff, inGrace, changes, vardiff, countVars,
                 send, miner, wire, overlapped>>

-----------------------------------------------------------------------------
(* sendJobToChannel, sendExtendedJobToChannel *)

\* Mutant: a waiting difficulty goes out with a new block's job only.
ShouldFlushAtBlock(future) == ~vardiffOnNewBlock \/ future

\* future: the job of a new block, staged before its SetNewPrevHash.
ShouldFlush(future) == ~vardiffOnNewBlock \/ ~future

\* Mutant: the difficulty before is read after the change.
FlushThenPrevDiff ==
  /\ poolDifficulty' = pendingDiff /\ prevDiff' = pendingDiff /\ inGrace' = TRUE
  /\ pendingDiff' = 0
  /\ changes' = changes + 1

\* FlushPendingDiff, its part under c.mu.
FlushPendingDiff ==
  /\ prevDiff' = poolDifficulty /\ inGrace' = TRUE
  /\ poolDifficulty' = pendingDiff /\ pendingDiff' = 0
  /\ changes' = changes + 1

\* A job that goes out while a difficulty waits; other jobs touch nothing here.
SendJob(t, future) ==
  /\ send[t].pc = "idle" /\ pendingDiff > 0
  /\ ShouldFlush(future)
  /\ FlushPendingDiff
  /\ send' = [send EXCEPT ![t] = [pc |-> "reset", diff |-> pendingDiff, change |-> changes + 1]]
  /\ overlapped' = (overlapped \/ \E u \in Senders \ {t} : send[u].pc # "idle")
  /\ UNCHANGED <<vardiffOnNewBlock, vardiff, countVars, reader, miner, wire>>

\* Mutant: vardiff goes on from the difficulty before.
ResetWindowToPrev(t) ==
  /\ send[t].pc = "reset"
  /\ vardiff' = [diff |-> prevDiff, shares |-> 0, due |-> FALSE]
  /\ send' = [send EXCEPT ![t].pc = "target"]
  /\ UNCHANGED <<vardiffOnNewBlock, channelVars, countVars, reader, miner, wire, overlapped>>

\* ResetWindow, after c.mu was released.
ResetWindow(t) ==
  /\ send[t].pc = "reset"
  /\ vardiff' = [diff |-> send[t].diff, shares |-> 0, due |-> FALSE]
  /\ send' = [send EXCEPT ![t].pc = "target"]
  /\ UNCHANGED <<vardiffOnNewBlock, channelVars, countVars, reader, miner, wire, overlapped>>

\* The SetTarget frame, and the job behind it.
SetTarget(t) ==
  /\ send[t].pc = "target"
  /\ miner' = [miner EXCEPT !.diff = send[t].diff, !.seen = send[t].change]
  /\ send' = [send EXCEPT ![t] = IdleSend]
  /\ UNCHANGED <<vardiffOnNewBlock, channelVars, vardiff, countVars, reader, wire, overlapped>>

Read == ReadShare \/ ValidateShare \/ LowDiffGrace \/ RecordShare \/ Retarget \/ SetPendingDiff

Next ==
  \/ Mine \/ RetargetTime \/ LowDiffGraceEnds \/ Read
  \/ \E t \in Senders : ResetWindow(t) \/ SetTarget(t) \/ \E future \in BOOLEAN : SendJob(t, future)

Spec == Init /\ [][Next]_vars

\* The reader and whoever is sending go on, and refreshes of the work keep coming,
\* from the job manager or from keepaliveLoop.
FairSpec ==
  /\ Spec /\ WF_vars(Read)
  /\ \A t \in Senders : WF_vars(ResetWindow(t) \/ SetTarget(t))
  /\ WF_vars(\E t \in Senders : SendJob(t, FALSE))

-----------------------------------------------------------------------------
(* Properties *)

\* As long as no two senders flush at a time, nothing that the reader does between
\* their steps leaves vardiff, the channel and the miner with different difficulties:
\* vardiff goes on from the one in force and the miner was told it.
DifficultyInStep ==
  ~overlapped /\ (\A t \in Senders : send[t].pc = "idle") =>
    /\ miner.diff = poolDifficulty
    /\ pendingDiff = 0 /\ reader.pc # "pend" => vardiff.diff = poolDifficulty

\* A share as hard as the miner had been told when it mined it is refused only when
\* the target has changed since and the grace is over, or has changed twice; two
\* senders that flush at a time do not shorten it.
HonestShareKept ==
  [][reader.pc = "grace" /\ reader'.pc = "idle" =>
       LET behind == changes - reader.seen IN
       (behind >= 1 /\ ~inGrace) \/ behind >= 2]_vars

\* The acknowledged counts cover every accepted share and never claim a share that
\* was not submitted; they do count the refused shares between two accepted ones.
AcksCoverAccepted ==
  /\ shares.accepted <= acks.sum
  /\ acks.sum <= shares.accepted + shares.rejected

\* What vardiff decides reaches the miner, with on_new_block at the next refresh.
PendingReachesMiner ==
  pendingDiff > 0 ~> pendingDiff = 0 /\ (overlapped \/ miner.diff = poolDifficulty)
=============================================================================

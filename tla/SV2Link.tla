------------------------------- MODULE SV2Link -------------------------------
(***************************************************************************)
(* pkg/stratumv2: one Stratum V2 connection, from Accept to its end: the       *)
(* Noise handshake, SetupConnection, the read loop, and the encrypted frames   *)
(* that the reader, the UpdateTemplate goroutines and keepaliveLoop write to   *)
(* one socket.  A frame is an encrypted header and encrypted chunks, each      *)
(* sealed with the next nonce and with no length of its own: a reader that      *)
(* takes one segment out of turn cannot read anything after it.  No write has  *)
(* a deadline; a full socket blocks its writer.                                *)
(*                                                                          *)
(* The miner is external: it reads as the protocol says, or stops reading and  *)
(* writing for good (stalled), or leaves.  Time is counted in keepalive         *)
(* intervals, which are on: what can be read, written or drained is done before *)
(* the next one.                                                              *)
(***************************************************************************)
EXTENDS SV2Messages, FiniteSets

CONSTANTS
  Pushers,     \* goroutines running UpdateTemplate
  Payloads,    \* payloads the miner's messages may have: [cut, str] (see Length)
  Path, Coinb1, Coinb2, \* sizes of an extended job: merkle path, coinbase halves
  MaxChannels, \* maxChannelsPerSession
  Window,      \* read deadline, in keepalive intervals
  Cap          \* segments the socket takes in before a write blocks

ASSUME LinkAssumption ==
  /\ {"reader", "keeper", "nobody"} \cap Pushers = {}
  /\ Path \in Nat /\ Coinb1 \in Nat /\ Coinb2 \in Nat /\ Coinb1 < 2^16 /\ Coinb2 < 2^16
  /\ MaxChannels \in Nat /\ Window \in Nat \ {0} /\ Cap \in Nat \ {0}

Writers == Pushers \cup {"reader", "keeper"}
Requests == {"setup", "open", "openExtended", "submit", "submitExtended"}

VARIABLES
  step,     \* where handleConn and Run are
  closed,   \* the server closed the connection
  stopped,  \* Server.Stop was called
  listed,   \* the session is in srv.sessions
  window,   \* intervals since the read deadline was set
  channels, \* kinds of the open channels
  todo,     \* per writer: frames it still writes, and how many segments of the first are out
  writeMu,  \* the writer that holds Codec.writeMu
  down,     \* segments in the socket
  sent,     \* frames whose header was written and which the miner has not read yet
  decoded,  \* what the last decoder did
  peer,     \* the miner's side: handshake, chunks it still expects, what became of it
  due       \* keepaliveLoop's ticker has fired

serverVars == <<step, closed, stopped, listed, window, channels, decoded>>
writeVars  == <<todo, writeMu, down, sent>>
linkVars == <<serverVars, writeVars, peer, due>>

Nobody == "nobody"
Idle == [frames |-> <<>>, out |-> 0]

LinkInit ==
  /\ step = "handshake" /\ closed = FALSE /\ stopped = FALSE /\ listed = FALSE
  /\ window = 0 /\ channels = <<>>
  /\ todo = [w \in Writers |-> Idle] /\ writeMu = Nobody /\ down = <<>> /\ sent = <<>>
  /\ decoded = [ok |-> TRUE, safe |-> TRUE, complete |-> TRUE]
  /\ peer = [step |-> "new", left |-> 0, broken |-> FALSE, stalled |-> FALSE, gone |-> FALSE]
  /\ due = FALSE

-----------------------------------------------------------------------------
(* The Noise handshake: what each side hashes and derives, as terms *)

\* newSV2HandshakeState
HandshakeState == [h |-> << <<"name">> >>, ck |-> << <<"name">> >>, keyed |-> FALSE, n |-> 0]

MixHash(s, data) == [s EXCEPT !.h = Append(@, data)]

\* mixKey, initializeKey: a new chaining key, a new cipher with nonce 0.
MixKey(s, secret) == [s EXCEPT !.ck = Append(@, secret), !.keyed = TRUE, !.n = 0]

Sealed(s, x) == IF s.keyed THEN <<"seal", s.ck, s.n, s.h, x>> ELSE x

\* encryptAndHash; decryptAndHash hashes the same text.
EncryptAndHash(s, x) == [MixHash(s, Sealed(s, x)) EXCEPT !.n = IF s.keyed THEN @ + 1 ELSE @]

\* bip324EllswiftXDH: the initiator's encoding first.
Shared(initiator, responder) == <<"dh", initiator, responder>>

\* buildSignatureNoiseMessage: the authority's signature of the static key.
Certificate == <<"signed", "authority", "static">>

\* The state after "e, ee, s, es, SIGNATURE", which both sides go through.
Transcript(e, re, s) ==
  LET hello  == EncryptAndHash(MixHash(HandshakeState, <<"ell", e>>), <<"nothing">>)
      ee     == MixKey(MixHash(hello, <<"ell", re>>), Shared(e, re))
      static == EncryptAndHash(ee, <<"ell", s>>)
      es     == MixKey(static, Shared(e, s))
  IN  EncryptAndHash(es, Certificate)

\* hkdf2(ck, nil): the responder reads with the first key and writes with the second.
TransportCiphers(t) == [send |-> <<t.ck, 2>>, recv |-> <<t.ck, 1>>]

\* The initiator's: writes with the first, reads with the second.
MinerCiphers(t) == [send |-> <<t.ck, 1>>, recv |-> <<t.ck, 2>>]

\* Both ends have gone through the same transcript.
TheTranscript == Transcript("miner", "server", "static")
SameKey == TransportCiphers(TheTranscript).send = MinerCiphers(TheTranscript).recv
           /\ TransportCiphers(TheTranscript).recv = MinerCiphers(TheTranscript).send

\* The miner connects and sends its ephemeral key.
Hello ==
  /\ peer.step = "new" /\ ~peer.stalled
  /\ peer' = [peer EXCEPT !.step = "hello"]
  /\ UNCHANGED <<serverVars, writeVars, due>>

\* PerformSV2ServerHandshake: one message each way, within the deadline.
PerformSV2ServerHandshake ==
  /\ step = "handshake" /\ peer.step = "hello"
  /\ step' = "list"
  /\ peer' = [peer EXCEPT !.step = "ready"]
  /\ UNCHANGED <<closed, stopped, listed, window, channels, decoded, writeVars, due>>

\* handleConn: the session is listed, whether or not Stop was called, and run.
ListSession ==
  /\ step = "list"
  /\ step' = "setup" /\ listed' = TRUE /\ window' = 0
  /\ UNCHANGED <<closed, stopped, channels, decoded, writeVars, peer, due>>

-----------------------------------------------------------------------------
(* Frames *)

Kinds == {"setupOk", "setupError", "openOk", "openError", "target", "job", "prevhash", "ack", "refused"}
FrameOf(kind, extended, set) == [kind |-> kind, extended |-> extended, set |-> set]
Frame(kind) == FrameOf(kind, FALSE, FALSE)
Frames == {FrameOf(kind, extended, set) : kind \in Kinds, extended \in BOOLEAN, set \in BOOLEAN}

\* The payload of each frame.
Payload(f) ==
  CASE f.kind = "setupOk"    -> EncodeSetupConnectionSuccess
    [] f.kind = "setupError" -> EncodeSetupConnectionError(20)
    [] f.kind = "openOk"     -> IF f.extended THEN EncodeOpenExtendedMiningChannelSuccess(4)
                                              ELSE EncodeOpenStandardMiningChannelSuccess(4)
    [] f.kind = "openError"  -> EncodeOpenStandardMiningChannelError(20)
    [] f.kind = "target"     -> EncodeSetTarget
    [] f.kind = "job"        -> IF f.extended THEN EncodeNewExtendedMiningJob(f.set, Path, Coinb1, Coinb2)
                                              ELSE EncodeNewMiningJob(f.set)
    [] f.kind = "prevhash"   -> EncodeSetNewPrevHash
    [] f.kind = "ack"        -> EncodeSubmitSharesSuccess
    [] f.kind = "refused"    -> EncodeSubmitSharesError(20)

PayloadPerChunk == 65519

\* The chunks of a payload.
ChunksOf == [f \in Frames |-> (Payload(f).size + PayloadPerChunk - 1) \div PayloadPerChunk]

\* Mutant: the lock is for a segment, not for a frame.
LockPerSegment(w, last) == writeMu = Nobody /\ UNCHANGED writeMu

\* writeMu is held from a frame's first segment to its last.
HoldWriteMu(w, last) == writeMu \in {w, Nobody} /\ writeMu' = IF last THEN Nobody ELSE w

\* Codec.WriteFrame, one segment: the header, then a chunk, each sealed and written in
\* one step, so that its place in the socket is its nonce.
WriteSegment(w) ==
  LET f == todo[w].frames[1]
      last == todo[w].out = ChunksOf[f]
  IN  /\ todo[w].frames # <<>> /\ ~closed /\ Len(down) < Cap
      /\ HoldWriteMu(w, last)
      /\ sent' = IF todo[w].out = 0 THEN Append(sent, f) ELSE sent
      /\ down' = Append(down, [part |-> todo[w].out, kind |-> f.kind])
      /\ todo' = [todo EXCEPT ![w] = IF last THEN [frames |-> Tail(@.frames), out |-> 0] ELSE [frames |-> @.frames, out |-> @.out + 1]]

\* Mutant: a keepalive does not move the deadline.
ExtendUnlessKeeper(w) == window' = IF w # "keeper" /\ todo'[w].frames = <<>> THEN 0 ELSE window

\* extendReadDeadline, after the last frame of a push or of a keepalive; Run sets the
\* deadline for the next read.
ExtendReadDeadline(w) == window' = IF todo'[w].frames = <<>> THEN 0 ELSE window

Write(w) ==
  /\ WriteSegment(w)
  /\ ExtendReadDeadline(w)
  /\ UNCHANGED <<step, closed, stopped, listed, channels, decoded, peer, due>>

\* Mutant: a failed write leaves the lock locked.
FailsLocked(w) ==
  /\ todo[w].frames # <<>> /\ writeMu \in {w, Nobody}
  /\ closed \/ peer.gone
  /\ todo' = [todo EXCEPT ![w] = Idle]
  /\ writeMu' = w
  /\ UNCHANGED <<serverVars, down, sent, peer, due>>

\* A write to a closed connection, or to one the miner left, fails; the writer gives up.
WriteFails(w) ==
  /\ todo[w].frames # <<>> /\ writeMu \in {w, Nobody}
  /\ closed \/ peer.gone
  /\ todo' = [todo EXCEPT ![w] = Idle]
  /\ writeMu' = Nobody
  /\ UNCHANGED <<serverVars, down, sent, peer, due>>

-----------------------------------------------------------------------------
(* The session's reader *)

\* A message of the miner, with length prefixes of str: a whole one, or one that is cut
\* bytes short (longer, if cut is negative).
Length(type, p) == WholeLength(type, p.str) - p.cut
Complete(type, p) == p.cut <= 0 /\ (type = "submitExtended" => p.str <= 32)

ASSUME PayloadAssumption ==
  \A p \in Payloads : p.str \in Nat /\ p.cut \in Int /\ \A type \in Requests : Length(type, p) \in Nat

DecodedAs(type, p) ==
  LET r == Decode(type, p.str, Length(type, p)) IN [ok |-> r.ok, safe |-> r.safe, complete |-> Complete(type, p)]

Reply(frames) == todo' = [todo EXCEPT !["reader"] = [frames |-> frames, out |-> 0]]

\* A message of the miner comes in, and is decoded if it is one of those expected; Run
\* has set the deadline anew.
Reads(type) ==
  /\ ~closed /\ todo["reader"].frames = <<>>
  /\ peer.step = "ready" /\ ~peer.stalled /\ ~peer.gone
  /\ \E p \in Payloads : decoded' = IF type = "other" THEN decoded ELSE DecodedAs(type, p)
  /\ window' = 0
  /\ UNCHANGED <<closed, stopped, listed, writeMu, down, sent, peer, due>>

\* handleSetupConnection: the first frame must be a SetupConnection that asks for
\* nothing the server lacks; anything else ends the session, with an answer if it could
\* be decoded.
HandleSetupConnection ==
  /\ step = "setup"
  /\ \E type \in {"setup", "other"} :
       /\ Reads(type)
       /\ IF type = "setup" /\ decoded'.ok
          THEN \/ Reply(<<Frame("setupOk")>>) /\ step' = "serve"
               \/ Reply(<<Frame("setupError")>>) /\ step' = "return"
          ELSE UNCHANGED todo /\ step' = "return"
  /\ UNCHANGED channels

FirstJob(extended) == <<FrameOf("openOk", extended, FALSE), FrameOf("job", extended, FALSE), Frame("prevhash")>>

\* handleOpenChannel, handleOpenExtendedChannel: the channel is entered, then the miner
\* is told, then it is sent its first job.
HandleOpenChannel ==
  /\ step = "serve"
  /\ \E type \in {"open", "openExtended"} :
       /\ Reads(type)
       /\ IF ~decoded'.ok THEN UNCHANGED <<todo, channels>>
          ELSE \/ /\ Len(channels) < MaxChannels
                  /\ channels' = Append(channels, type = "openExtended")
                  /\ Reply(FirstJob(type = "openExtended"))
               \/ Reply(<<Frame("openError")>>) /\ UNCHANGED channels
  /\ UNCHANGED step

\* handleSubmitShares, handleSubmitSharesExtended: an acknowledgement, nothing until the
\* next one, or a refusal; any other message is passed over.
HandleSubmitShares ==
  /\ step = "serve"
  /\ \E type \in {"submit", "submitExtended", "other"} :
       /\ Reads(type)
       /\ IF type = "other" \/ ~decoded'.ok THEN UNCHANGED todo
          ELSE \E frames \in {<<>>, <<Frame("ack")>>, <<Frame("refused")>>} :
                 /\ channels = <<>> => frames = <<Frame("refused")>>
                 /\ Reply(frames)
  /\ UNCHANGED <<step, channels>>

\* Mutant: no deadline is set once the setup is done.
ReadFailsInSetup ==
  /\ step \in {"handshake", "setup", "serve"} /\ ~closed /\ todo["reader"].frames = <<>>
  /\ \/ window = Window /\ step # "serve"
     \/ peer.gone
  /\ step' = "return"
  /\ UNCHANGED <<closed, stopped, listed, window, channels, decoded, writeVars, peer, due>>

\* The deadline of a read runs out, in the handshake, in the setup or in Run, or the
\* miner has left.
ReadFails ==
  /\ step \in {"handshake", "setup", "serve"} /\ ~closed /\ todo["reader"].frames = <<>>
  /\ \/ window = Window
     \/ peer.gone
  /\ step' = "return"
  /\ UNCHANGED <<closed, stopped, listed, window, channels, decoded, writeVars, peer, due>>

\* Session.Close: what is still in the socket is not followed further.
Close ==
  /\ closed' = TRUE
  /\ down' = <<>> /\ sent' = <<>>
  /\ UNCHANGED <<window, channels, decoded, todo, writeMu, peer, due>>

\* Run returns once its answer is out; handleConn strikes the session.
Return ==
  /\ todo["reader"].frames = <<>>
  /\ step = "return" \/ (closed /\ step \in {"setup", "serve"})
  /\ step' = "done" /\ listed' = FALSE
  /\ Close
  /\ UNCHANGED stopped

\* Server.Stop closes the session if it is listed.
Stop ==
  /\ ~stopped
  /\ stopped' = TRUE
  /\ IF listed THEN Close ELSE UNCHANGED <<closed, down, sent, window, channels, decoded, todo, writeMu, peer, due>>
  /\ UNCHANGED <<step, listed>>

-----------------------------------------------------------------------------
(* Pushes and keepalives *)

\* The frames of a job for every channel: a new target if one is pending, the job, and
\* the prev-hash of a new block.
JobFor(extended, retarget, newBlock) ==
  (IF retarget THEN <<Frame("target")>> ELSE <<>>) \o <<FrameOf("job", extended, ~newBlock)>>
  \o (IF newBlock THEN <<Frame("prevhash")>> ELSE <<>>)
JobForAll(retarget, newBlock) ==
  LET n == Len(JobFor(FALSE, retarget, newBlock))
  IN  [k \in 1..n * Len(channels) |-> JobFor(channels[((k - 1) \div n) + 1], retarget, newBlock)[((k - 1) % n) + 1]]
Work(w, newBlock) ==
  \E retarget \in BOOLEAN : todo' = [todo EXCEPT ![w] = [frames |-> JobForAll(retarget, newBlock), out |-> 0]]

UpdateTemplate(p) ==
  /\ listed /\ ~closed /\ channels # <<>> /\ todo[p].frames = <<>>
  /\ \E newBlock \in BOOLEAN : Work(p, newBlock)
  /\ UNCHANGED <<serverVars, writeMu, down, sent, peer, due>>

\* keepaliveLoop, a tick: the last job again.
Keepalive ==
  /\ due /\ todo["keeper"].frames = <<>>
  /\ due' = FALSE
  /\ IF closed THEN UNCHANGED todo ELSE Work("keeper", FALSE)
  /\ UNCHANGED <<serverVars, writeMu, down, sent, peer>>

Blocked(w) == todo[w].frames # <<>> /\ (Len(down) = Cap \/ writeMu \notin {w, Nobody})

\* An interval passes with everybody waiting.
Tick ==
  /\ ~closed
  /\ step \in {"handshake", "setup", "serve"} /\ window < Window
  /\ \A w \in Writers : todo[w].frames # <<>> => Blocked(w)
  /\ peer.stalled \/ (down = <<>> /\ peer.step # "hello")
  /\ ~due \/ todo["keeper"].frames # <<>>
  /\ window' = window + 1
  /\ due' = (due \/ (step = "serve" /\ channels # <<>>))
  /\ UNCHANGED <<step, closed, stopped, listed, channels, decoded, writeVars, peer>>

-----------------------------------------------------------------------------
(* The miner *)

\* The next segment, opened with the next nonce: a header when no frame is under way,
\* a chunk of it otherwise.
Receive ==
  LET seg == Head(down)
      f == sent[1]
      fits == /\ SameKey
              /\ IF peer.left = 0 THEN seg.part = 0
                 ELSE seg.kind = f.kind /\ seg.part = ChunksOf[f] - peer.left + 1
      left == IF peer.left = 0 THEN ChunksOf[f] ELSE peer.left - 1
  IN  /\ down # <<>> /\ ~peer.stalled /\ ~peer.broken /\ ~peer.gone
      /\ down' = Tail(down)
      /\ peer' = IF fits THEN [peer EXCEPT !.left = left] ELSE [peer EXCEPT !.broken = TRUE]
      /\ sent' = IF fits /\ left = 0 THEN Tail(sent) ELSE sent
      /\ UNCHANGED <<serverVars, todo, writeMu, due>>

\* The miner hangs, or its network is gone, without an end of the connection.
Stall ==
  /\ ~peer.stalled /\ ~peer.gone
  /\ peer' = [peer EXCEPT !.stalled = TRUE]
  /\ UNCHANGED <<serverVars, writeVars, due>>

\* It leaves, perhaps in the middle of a message.
Leave ==
  /\ ~peer.gone /\ ~peer.stalled
  /\ peer' = [peer EXCEPT !.gone = TRUE]
  /\ UNCHANGED <<serverVars, writeVars, due>>

WriteStep(w) == Write(w) \/ WriteFails(w)

LinkNext ==
  \/ Hello \/ PerformSV2ServerHandshake \/ ListSession
  \/ HandleSetupConnection \/ HandleOpenChannel \/ HandleSubmitShares
  \/ ReadFails \/ Return \/ Stop \/ Keepalive \/ Tick \/ Receive \/ Stall \/ Leave
  \/ \E p \in Pushers : UpdateTemplate(p)
  \/ \E w \in Writers : WriteStep(w)

LinkSpec == LinkInit /\ [][LinkNext]_linkVars

\* handleConn's goroutine, keepaliveLoop and the pushes run on, time passes, and a miner
\* that has not stalled reads.  Nothing says that it writes.
FairLinkSpec ==
  /\ LinkSpec
  /\ WF_linkVars(PerformSV2ServerHandshake \/ ListSession \/ ReadFails \/ Return \/ WriteStep("reader"))
  /\ WF_linkVars(Keepalive \/ WriteStep("keeper"))
  /\ \A p \in Pushers : WF_linkVars(WriteStep(p))
  /\ WF_linkVars(Receive)
  /\ WF_linkVars(Tick)

-----------------------------------------------------------------------------
(* Properties *)

\* The fields of a message fill its buffer: each begins where the one before ends.
Fills(e) ==
  /\ e.writes[1][1] = 0
  /\ \A i \in 1..Len(e.writes) :
       e.writes[i][1] + e.writes[i][2] = IF i = Len(e.writes) THEN e.size ELSE e.writes[i + 1][1]

FilledFrames == {f \in Frames : Fills(Payload(f))}

\* Whoever writes, and whatever else is being written, the miner can open every
\* segment and reads frames in the order their writers took the lock, whole ones:
\* the encoders leave no byte of a payload unwritten and write none twice.
FramesArriveWhole == ~peer.broken /\ \A k \in DOMAIN sent : sent[k] \in FilledFrames

\* No payload makes a decoder read beyond its end, and it accepts exactly the messages
\* that have all their fields.
DecodersInBounds == decoded.safe /\ (decoded.ok <=> decoded.complete)

\* A miner with a channel that reads and has nothing to say is not timed out.
QuietMinerKept ==
  window = Window /\ step = "serve" /\ channels # <<>> => peer.stalled \/ peer.gone

\* A miner that hangs is dropped, in the handshake, in the setup and while it is served,
\* unless the reader itself hangs in a write to it.
ReaderHangs == peer.stalled /\ todo["reader"].frames # <<>> /\ Len(down) = Cap
SilentMinerDropped == peer.stalled ~> (step = "done" \/ ReaderHangs)

\* Closing the connection frees every writer, those in a write and those who wait for
\* the lock.
CloseFreesWriters == closed ~> (\A w \in Writers : todo[w].frames = <<>>)
=============================================================================

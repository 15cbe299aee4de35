---------------------------- MODULE SV2Messages ----------------------------
(***************************************************************************)
(* pkg/stratumv2/messages.go and the wire types of codec.go.  A payload is    *)
(* its length and what its length prefixes say; what its fields hold is left  *)
(* out.                                                                      *)
(*                                                                          *)
(* A decoder goes over a payload with an offset: before it reads some bytes    *)
(* it makes sure that enough are there, and gives up otherwise.  Reading        *)
(* beyond the payload is a panic, which no goroutine of the engine recovers     *)
(* from.  An encoder is the size of the buffer it makes and the               *)
(* <<offset, width>> of each field it writes there; copy() drops what does not *)
(* fit, binary.PutUint panics.                                                *)
(***************************************************************************)
EXTENDS Integers, Sequences

-----------------------------------------------------------------------------
(* Decoding *)

\* r: the payload's length, the offset, whether the decoder has not given up, and
\* whether all it has read was there.  It makes sure of `checked` bytes and reads `read`.
Take(r, checked, read) ==
  IF ~r.ok \/ r.off + checked > r.len THEN [r EXCEPT !.ok = FALSE]
  ELSE [r EXCEPT !.off = r.off + read, !.safe = r.safe /\ r.off + read <= r.len]

Need(r, n)  == Take(r, n, 0)   \* len(payload) < n: errShort
Fixed(r, n) == Take(r, 0, n)   \* getU16LE, getU32LE
Room(r, n)  == Take(r, n, n)   \* a check, then a read

\* decodeSTR0_255: a length byte, then that many.
DecodeStr(r, s) == Room(Room(r, 1), s)

\* decodeB0_32
DecodeB0_32(r, s) == IF s > 32 THEN [Room(r, 1) EXCEPT !.ok = FALSE] ELSE Room(Room(r, 1), s)

\* decodeU256
DecodeU256(r) == Room(r, 32)

\* Each decoder, on a payload whose length prefixes are all s.
DecodeSetupConnection(r, s) ==
  LET flags == Fixed(Fixed(Fixed(Fixed(Need(r, 9), 1), 2), 2), 4)
      port  == Room(DecodeStr(flags, s), 2)
  IN  DecodeStr(DecodeStr(DecodeStr(DecodeStr(port, s), s), s), s)

DecodeOpenStandardMiningChannel(r, s) == DecodeU256(Room(DecodeStr(Fixed(Need(r, 9), 4), s), 4))

DecodeOpenExtendedMiningChannel(r, s) == Room(DecodeOpenStandardMiningChannel(r, s), 2)

\* channel_id, sequence_number, job_id, nonce, ntime and version.
ShareFields(r) == Fixed(Fixed(Fixed(Fixed(Fixed(Fixed(r, 4), 4), 4), 4), 4), 4)

DecodeSubmitSharesStandard(r) == ShareFields(Need(r, 24))

\* Mutant: the room for the extranonce is not checked.
SubmitExtendedOf24(r, s) == Fixed(Fixed(DecodeSubmitSharesStandard(r), 1), s)

DecodeSubmitSharesExtended(r, s) == DecodeB0_32(ShareFields(Need(r, 25)), s)

Decoder(m, r, s) ==
  CASE m = "setup" -> DecodeSetupConnection(r, s)
    [] m = "open" -> DecodeOpenStandardMiningChannel(r, s)
    [] m = "openExtended" -> DecodeOpenExtendedMiningChannel(r, s)
    [] m = "submit" -> DecodeSubmitSharesStandard(r)
    [] m = "submitExtended" -> DecodeSubmitSharesExtended(r, s)

\* What the decoder of m makes of a payload of len bytes.
Decode(m, s, len) == Decoder(m, [len |-> len, off |-> 0, ok |-> TRUE, safe |-> TRUE], s)

\* The bytes of a whole message, as the protocol has it.
WholeLength(m, s) ==
  CASE m = "setup"          -> 1 + 2 + 2 + 4 + (1 + s) + 2 + 4 * (1 + s)
    [] m = "open"           -> 4 + (1 + s) + 4 + 32
    [] m = "openExtended"   -> 4 + (1 + s) + 4 + 32 + 2
    [] m = "submit"         -> 6 * 4
    [] m = "submitExtended" -> 6 * 4 + (1 + s)

-----------------------------------------------------------------------------
(* Encoding *)

\* encodeSTR0_255, encodeB0_32, encodeU256, encodeB0_64K, encodeSeqU256: bytes of a
\* value of n.  Of a merkle path no more than 255 hashes are sent.
EncodeStr(n)     == 1 + n
EncodeB0_32(n)   == 1 + n
EncodeU256       == 32
EncodeB0_64K(n)  == 2 + n
EncodeSeqU256(n) == 1 + 32 * (IF n > 255 THEN 255 ELSE n)

EncodeSetupConnectionSuccess == [size |-> 6, writes |-> << <<0, 2>>, <<2, 4>> >>]

EncodeSetupConnectionError(code) ==
  [size |-> 4 + EncodeStr(code), writes |-> << <<0, 4>>, <<4, EncodeStr(code)>> >>]

EncodeOpenStandardMiningChannelSuccess(prefix) ==
  LET off == 8 + EncodeU256
  IN  [size   |-> 4 + 4 + EncodeU256 + EncodeB0_32(prefix) + 4,
       writes |-> << <<0, 4>>, <<4, 4>>, <<8, EncodeU256>>,
                     <<off, EncodeB0_32(prefix)>>, <<off + EncodeB0_32(prefix), 4>> >>]

EncodeOpenStandardMiningChannelError(code) ==
  [size |-> 4 + EncodeStr(code), writes |-> << <<0, 4>>, <<4, EncodeStr(code)>> >>]

EncodeOpenExtendedMiningChannelSuccess(prefix) ==
  LET off == 8 + EncodeU256
  IN  [size   |-> 4 + 4 + EncodeU256 + 2 + EncodeB0_32(prefix) + 4,
       writes |-> << <<0, 4>>, <<4, 4>>, <<8, EncodeU256>>, <<off, 2>>,
                     <<off + 2, EncodeB0_32(prefix)>>, <<off + 2 + EncodeB0_32(prefix), 4>> >>]

EncodeSetTarget == [size |-> 4 + EncodeU256, writes |-> << <<0, 4>>, <<4, EncodeU256>> >>]

EncodeSetNewPrevHash ==
  [size |-> 4 + 4 + 32 + 4 + 4, writes |-> << <<0, 4>>, <<4, 4>>, <<8, 32>>, <<40, 4>>, <<44, 4>> >>]

\* OPTION[u32] from off: a flag, and the value if there is one.
Option(set, off) == IF set THEN << <<off, 1>>, <<off + 1, 4>> >> ELSE << <<off, 1>> >>
OptionLen(set) == IF set THEN 5 ELSE 1

EncodeNewMiningJob(minNtimeSet) ==
  LET off == 8 + OptionLen(minNtimeSet)
  IN  [size   |-> 4 + 4 + OptionLen(minNtimeSet) + 4 + 32,
       writes |-> << <<0, 4>>, <<4, 4>> >> \o Option(minNtimeSet, 8) \o << <<off, 4>>, <<off + 4, 32>> >>]

EncodeNewExtendedMiningJob(minNtimeSet, path, prefix, suffix) ==
  LET off  == 8 + OptionLen(minNtimeSet)
      bulk == off + 4 + 1 + EncodeSeqU256(path)
  IN  [size   |-> 4 + 4 + OptionLen(minNtimeSet) + 4 + 1
                    + EncodeSeqU256(path) + EncodeB0_64K(prefix) + EncodeB0_64K(suffix),
       writes |-> << <<0, 4>>, <<4, 4>> >> \o Option(minNtimeSet, 8)
                  \o << <<off, 4>>, <<off + 4, 1>>, <<off + 5, EncodeSeqU256(path)>>,
                        <<bulk, EncodeB0_64K(prefix)>>, <<bulk + EncodeB0_64K(prefix), EncodeB0_64K(suffix)>> >>]

EncodeSubmitSharesSuccess ==
  [size |-> 4 + 4 + 4 + 8, writes |-> << <<0, 4>>, <<4, 4>>, <<8, 4>>, <<12, 8>> >>]

EncodeSubmitSharesError(code) ==
  [size |-> 4 + 4 + EncodeStr(code), writes |-> << <<0, 4>>, <<4, 4>>, <<8, EncodeStr(code)>> >>]
=============================================================================

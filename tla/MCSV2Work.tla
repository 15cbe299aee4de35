----------------------------- MODULE MCSV2Work -----------------------------
(* One of two channels has a worker whose coinbase can be built.  Neither the *)
(* callbacks nor the UpdateTemplate goroutines differ among themselves.       *)
EXTENDS SV2Work

CONSTANTS poll, zmq, push1, push2

MCFeeders == {poll, zmq}
MCPushers == {push1, push2}
Alike == Permutations(MCFeeders) \cup Permutations(MCPushers)
=============================================================================

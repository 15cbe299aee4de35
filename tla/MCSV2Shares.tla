---------------------------- MODULE MCSV2Shares ----------------------------
(* A channel whose difficulty may rise and fall twice while shares travel.   *)
EXTENDS SV2Shares
=============================================================================

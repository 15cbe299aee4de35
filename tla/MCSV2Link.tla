----------------------------- MODULE MCSV2Link -----------------------------
EXTENDS SV2Link
MCPayloads == {[cut |-> 0, str |-> 0], [cut |-> -1, str |-> 33], [cut |-> 1, str |-> 0], [cut |-> 9, str |-> 8]}
=============================================================================

---------------------------- MODULE MCEngineLife ----------------------------
(* Small instance of EngineLife for TLC. *)
EXTENDS EngineLife

CONSTANTS c1, c2, p1, p2

MCConfigs == {c1, c2}

\* The second configuration moves the coin to another port; disabling keeps the first.
MCPort == [c \in MCConfigs \cup {Disabled} |-> IF c = c2 THEN p2 ELSE p1]

\* Bound: the coin begins with its first configuration and a ready node, and no runner
\* yet.  The other files and states of the node come with the changes.
MCInit == Init /\ file = c1 /\ node = "ready"

MCFairSpec == MCInit /\ [][Next]_vars /\ Fairness
=============================================================================

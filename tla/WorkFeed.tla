------------------------------ MODULE WorkFeed ------------------------------
(***************************************************************************)
(* What a coin's job manager promises to the share validator and to the    *)
(* Stratum servers: a single stream of numbered jobs, each built on one     *)
(* chain tip.  A job is marked clean exactly when its tip differs from the  *)
(* tip of the job issued before it, every job keeps its number for ever,    *)
(* and the feed honours shares for the newest History jobs and no others.   *)
(***************************************************************************)
EXTENDS Integers, FiniteSets

CONSTANTS
  Tips,      \* block hashes a template may build on
  NoTip,     \* the tip before the first template, not one of Tips
  History    \* how many of the newest jobs are honoured, at least one

VARIABLES
  issued,    \* number of jobs issued so far; also the newest job's number
  tip,       \* tip of the newest job
  clean,     \* whether the newest job told the miners to drop older work
  honoured   \* job number -> tip, for the jobs shares are accepted for

feedVars == <<issued, tip, clean, honoured>>

Init ==
  /\ issued = 0
  /\ tip = NoTip
  /\ clean = FALSE
  /\ honoured = [n \in {} |-> NoTip]

\* The window of job numbers still honoured once n jobs have been issued.
Window(n) == {i \in 1..n : n - i < History}

Issue(t) ==
  /\ issued' = issued + 1
  /\ tip' = t
  /\ clean' = (t # tip)
  /\ honoured' = [n \in Window(issued + 1) |-> IF n = issued + 1 THEN t ELSE honoured[n]]

Next == \E t \in Tips : Issue(t)

Spec == Init /\ [][Next]_feedVars
=============================================================================

-------------------------- MODULE MCStratumSession --------------------------
(* The configuration a solo coin gets by default, and that of a pool whose    *)
(* miners are told of a change at once and may suggest one.                   *)
EXTENDS StratumSession
Default == [solo |-> TRUE, onNewBlock |-> TRUE, acceptSuggest |-> FALSE]
Prompt  == [solo |-> FALSE, onNewBlock |-> FALSE, acceptSuggest |-> TRUE]
MCConfigs == {Default, Prompt}
MCDefault == {Default}
MCMaxJobs(c) == IF c = Prompt THEN 2 ELSE 4
=============================================================================

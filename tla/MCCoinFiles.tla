---------------------------- MODULE MCCoinFiles ----------------------------
(* The files of one coin app, written by four handlers.                      *)
EXTENDS CoinFiles
=============================================================================

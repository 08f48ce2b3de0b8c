---------------------------- MODULE MCWssClient ----------------------------
(* WssClient for TLC: both kinds of owner, at most two network failures and *)
(* one failed lookup, with at most one other handler waiting when the       *)
(* network or a timer makes one ready.                                      *)
EXTENDS WssClient
=============================================================================

----------------------------- MODULE MCCtiItems -----------------------------
(* A small instance of CtiItems for TLC.                                   *)
EXTENDS CtiItems
=============================================================================

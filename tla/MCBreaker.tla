----------------------------- MODULE MCBreaker -----------------------------
(***************************************************************************)
(* Small instances of Breaker for TLC.                                     *)
(***************************************************************************)
EXTENDS Breaker

CONSTANTS poller, other
=============================================================================

---------------------------- MODULE MCKMessage ----------------------------
(***************************************************************************)
(* TLC's instances of KMessage.  The .cfg files scale the constants of the *)
(* code down and keep their order: ResyncGap <= CacheSize < 2*(ResyncGap-1),*)
(* so that a window can overflow, and First just below SerialMod, so that  *)
(* serials wrap in the middle of a behaviour.                              *)
(***************************************************************************)
EXTENDS KMessageProps

\* A window of two maximal jumps does not fit: the overflow branch is reached.
ASSUME OverflowReachable == CacheSize < 2 * (ResyncGap - 1)
===========================================================================

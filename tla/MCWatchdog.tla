----------------------------- MODULE MCWatchdog -----------------------------
(* Instances of Watchdog for TLC.                                          *)
EXTENDS Watchdog
=============================================================================

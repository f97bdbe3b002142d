-------------------------- MODULE MCStaleDetector ---------------------------
(* TLC instances of StaleDetector; the configurations give the constants.  *)
EXTENDS StaleDetector
=============================================================================

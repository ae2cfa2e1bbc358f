------------------------ MODULE MCFingerprintWorker ------------------------
(* Two clients, so that one callback can replace another, and a counter     *)
(* that overflows after a few requests: every sum of two requests fits.     *)
EXTENDS FingerprintWorker
=============================================================================

---------------------------- MODULE MCRecoveryScan -----------------------------
(* RecoveryScan on a small instance, given by MCRecoveryScan.cfg.            *)
EXTENDS RecoveryScan
================================================================================

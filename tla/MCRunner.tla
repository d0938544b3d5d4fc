------------------------------- MODULE MCRunner --------------------------------
(* Runner on small instances, given by the configurations MCRunner_*.cfg.   *)
EXTENDS Runner
================================================================================

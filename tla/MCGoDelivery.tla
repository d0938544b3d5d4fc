----------------------------- MODULE MCGoDelivery ------------------------------
(* GoDelivery on small instances, given by MCGoDelivery_*.cfg.               *)
EXTENDS GoDelivery
================================================================================

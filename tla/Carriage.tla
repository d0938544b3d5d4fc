------------------------------- MODULE Carriage --------------------------------
(***************************************************************************)
(* The two encodings that carry a text outside of the reducers: storage    *)
(* frames carry a block (Framing), SSE messages an event (Sse).  They share *)
(* nothing, so a behavior is about the one or the other.                   *)
(***************************************************************************)
EXTENDS Framing, Sse

vars == <<framingVars, sseVars>>

FramingIdle == /\ step = "idle" /\ texts = <<<<>>>> /\ limit = 0
               /\ remaining = <<>> /\ lo = 1 /\ hi = 0 /\ take = 0
               /\ frames = <<>> /\ rows = {} /\ group = <<>>

SseIdle == /\ sender = "nobody" /\ event = Nothing
           /\ wire = <<>> /\ received = Nothing

Init == (FramingInit /\ SseIdle) \/ (FramingIdle /\ SseInit)

Next == \/ FramingStep /\ UNCHANGED sseVars
        \/ sender # "nobody" /\ SseStep /\ UNCHANGED framingVars

Spec == Init /\ [][Next]_vars
================================================================================

------------------------------- MODULE EventLog --------------------------------
(***************************************************************************)
(* What an EventBridge (src/sdks/go/runner/bridge.go) promises of one      *)
(* task: a log that begins with a start, to which events are appended with *)
(* increasing seq while the task runs, that one verdict closes, and that   *)
(* disappears as a whole.                                                  *)
(***************************************************************************)
EXTENDS Integers, Sequences

VARIABLES log,    \* the events of the task, each a record with op and seq
          status  \* absent, running, completed or failed

logVars == <<log, status>>

LogInit == log = <<>> /\ status = "absent"

Create == /\ status = "absent"
          /\ status' = "running"
          /\ Len(log') = 1
          /\ log'[1].op = "start"

Extend == /\ status = "running"
          /\ UNCHANGED status
          /\ Len(log') = Len(log) + 1
          /\ SubSeq(log', 1, Len(log)) = log
          /\ log'[Len(log)].seq < log'[Len(log) + 1].seq

Close == /\ status = "running"
         /\ status' \in {"completed", "failed"}
         /\ UNCHANGED log

Remove == log' = <<>> /\ status' = "absent"

LogNext == Create \/ Extend \/ Close \/ Remove

LogSpec == LogInit /\ [][LogNext]_logVars
================================================================================

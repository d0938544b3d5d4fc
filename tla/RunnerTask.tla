------------------------------ MODULE RunnerTask -------------------------------
(***************************************************************************)
(* The coroutines of the instance that owns the task (runner/runner.py):   *)
(* run() up to the start event, _execute with its business, heartbeat and  *)
(* pulse tasks, _finalize, and the live delivery of _stream_live.          *)
(* run() before delivery and _execute never overlap, so one program        *)
(* counter, work, follows both.                                            *)
(***************************************************************************)
EXTENDS RunnerProcess

CONSTANTS MaxEvents,  \* bound on the events applied to context.snapshot
          Attached    \* the consumer is still there when execute starts

ASSUME TaskAssumption == /\ MaxEvents \in Nat
                         /\ Attached \in BOOLEAN

VARIABLES work,       \* the next step of run(), then of _execute
          cancel,     \* a CancelledError is about to be raised at that step
          source,     \* CompletionSource
          failed,     \* effective_error is not None
          biz,        \* business_task
          beat,       \* heartbeat_task
          pulse,      \* _pulse_task
          emitted,    \* context.emitter.offset
          published,  \* context.published_seq
          inflight,   \* the seq of the patch business_task is publishing
          snapshot,   \* the seqs applied to context.snapshot
          handed,     \* the snapshot given to complete
          unsaved,    \* the ops of the result's terminal events not persisted
          live,       \* the live coroutine
          cursor,     \* how many stored events it has delivered
          extra       \* the unpersisted ops it delivered

contextVars == <<emitted, published, inflight, snapshot>>
outcomeVars == <<source, failed, handed, unsaved>>
asideVars == <<biz, beat, pulse>>
deliveryVars == <<cursor, extra>>
taskVars == <<work, cancel, live, contextVars, outcomeVars, asideVars, deliveryVars>>

StartSteps == {"init_state", "init_touch", "init_complete", "pre_start",
               "start_xadd", "start_hset", "restart_xadd", "restart_hset"}
FinalSteps == {"complete", "error_xadd", "error_hset", "end_xadd", "end_hset",
               "mark_status", "mark_heartbeat", "stop_beat"}
WorkSteps == StartSteps \cup FinalSteps
                 \cup {"spawned", "waiting", "gathering", "done", "dead"}
BizOver == {"returned", "raised", "cancelled"}

ControlTypeOK ==
    /\ work \in WorkSteps
    /\ cancel \in BOOLEAN
    /\ biz \in BizOver \cup {"none", "active", "stream_hset"}
    /\ beat \in {"none", "looping", "failed", "stopped"}
    /\ pulse \in {"running", "raised", "none"}
    /\ live \in {"starting", "raising", "reading", "idle", "returned", "raised", "closed"}

ContextTypeOK ==
    /\ emitted \in Nat
    /\ published \in Nat
    /\ inflight \in Nat
    /\ snapshot \in SUBSET Nat
    /\ source \in {"none", "pre_start", "execute", "cancelled", "shutdown", "heartbeat_timeout"}
    /\ failed \in BOOLEAN
    /\ handed \in SUBSET Nat
    /\ unsaved \in SUBSET {"error", "end"}
    /\ cursor \in Nat
    /\ extra \in SUBSET {"error", "end"}

TaskTypeOK == ControlTypeOK /\ ContextTypeOK

TaskInit ==
    /\ work = "init_state" /\ cancel = FALSE
    /\ source = "none" /\ failed = FALSE /\ handed = {} /\ unsaved = {}
    /\ biz = "none" /\ beat = "none" /\ pulse = "running"
    /\ emitted = 0 /\ published = 0 /\ inflight = 0 /\ snapshot = {}
    /\ live = "starting" /\ cursor = 0 /\ extra = {}

Closing == closer[Owner] # "open"

\* The owner's event loop runs the coroutine at step pc.
At(pc) == /\ Up(Owner)
          /\ ~cancel
          /\ work = pc

--------------------------------------------------------------------------------
(* run(): start() and initialize, then pre_start and the start event        *)

InitRefused ==
    /\ At("init_state")
    /\ Closing \/ loopStalled
    /\ work' = "init_complete"
    /\ UNCHANGED <<redisVars, processVars, cancel, live, contextVars, outcomeVars, asideVars, deliveryVars>>

InitState ==
    /\ At("init_state")
    /\ ~Closing /\ ~loopStalled
    /\ HsetTask
    /\ work' = "init_touch"
    /\ UNCHANGED <<stream, heartbeat, claim, processVars, cancel, live, contextVars,
                   outcomeVars, asideVars, deliveryVars>>

InitTouch ==
    /\ At("init_touch")
    /\ Zadd
    /\ work' = "pre_start"
    /\ UNCHANGED <<state, stream, claim, processVars, cancel, live, contextVars,
                   outcomeVars, asideVars, deliveryVars>>

\* run() raised before the task existed: complete is all it still calls.
InitComplete ==
    /\ At("init_complete")
    /\ Completes(Task)
    /\ work' = "dead" /\ live' = "raised"
    /\ Calm
    /\ UNCHANGED <<redisVars, process, loopStalled, closer, cancel, contextVars,
                   outcomeVars, asideVars, deliveryVars>>

PreStart ==
    /\ At("pre_start")
    /\ \/ /\ work' = "start_xadd"
          /\ UNCHANGED <<source, failed, live>>
       \/ /\ work' = "restart_xadd" /\ source' = "pre_start" /\ failed' = TRUE
          /\ live' \in {"starting", "raising"}
    /\ UNCHANGED <<redisVars, processVars, cancel, contextVars, handed, unsaved, asideVars, deliveryVars>>

\* The emitter numbers an event and the snapshot takes it before the XADD.
NumberEvent == /\ emitted' = emitted + 1
               /\ snapshot' = snapshot \cup {emitted + 1}

StartXadd ==
    /\ At("start_xadd") \/ At("restart_xadd")
    /\ NumberEvent
    /\ Xadd("start", emitted + 1, Task)
    /\ work' = IF work = "start_xadd" THEN "start_hset" ELSE "restart_hset"
    /\ UNCHANGED <<state, heartbeat, claim, processVars, cancel, live, published, inflight,
                   outcomeVars, asideVars, deliveryVars>>

Delivering == IF Attached THEN "reading" ELSE "closed"

\* A published start spawns _execute; a best-effort one precedes _finalize.
StartHset ==
    /\ At("start_hset") \/ At("restart_hset")
    /\ HsetSeq(emitted)
    /\ published' = emitted
    /\ IF work = "start_hset" THEN work' = "spawned" /\ live' = Delivering
                              ELSE work' = "complete" /\ live' = live
    /\ UNCHANGED <<stream, heartbeat, claim, processVars, cancel, emitted, inflight, snapshot,
                   outcomeVars, asideVars, deliveryVars>>

--------------------------------------------------------------------------------
(* _execute                                                                 *)

\* The coroutine's first step: without a pulse task it raises RuntimeError.
ExecBegin ==
    /\ At("spawned")
    /\ IF pulse = "none" THEN work' = "dead" /\ UNCHANGED <<biz, beat>>
                         ELSE work' = "waiting" /\ biz' = "active" /\ beat' = "looping"
    /\ UNCHANGED <<redisVars, processVars, cancel, live, contextVars, outcomeVars, pulse, deliveryVars>>

CancelSource == IF Closing THEN "shutdown" ELSE "cancelled"

\* Mutant of AfterWait: the business task is left to itself.
AfterWaitUngathered == "complete"

\* The finally clause stops a business task that is still running.
AfterWait == IF biz \in BizOver THEN "complete" ELSE "gathering"

PulseLost == loopStalled \/ pulse # "running"

WakeSource == CASE PulseLost -> "heartbeat_timeout"
                [] ~PulseLost /\ beat # "failed" /\ biz = "cancelled" -> CancelSource
                [] OTHER -> "execute"

ExecWake ==
    /\ At("waiting")
    /\ pulse # "running" \/ beat = "failed" \/ biz \in BizOver
    /\ source' = WakeSource
    /\ failed' = (PulseLost \/ beat = "failed" \/ biz # "returned")
    /\ work' = AfterWait
    /\ UNCHANGED <<redisVars, processVars, cancel, live, contextVars, handed, unsaved,
                   asideVars, deliveryVars>>

ExecGather ==
    /\ At("gathering")
    /\ biz' = "cancelled"
    /\ work' = "complete"
    /\ UNCHANGED <<redisVars, processVars, cancel, live, contextVars, outcomeVars, beat, pulse, deliveryVars>>

--------------------------------------------------------------------------------
(* business_task, heartbeat_task and _pulse_task                            *)

\* It runs on its own until _execute cancels it and gathers it.
BizRuns == Up(Owner) /\ work # "gathering"

\* The emitter numbers a patch, unless the application numbers it itself with
\* the least seq that _run_business accepts.
PatchSeq == \/ Calm /\ inflight' = emitted + 1 /\ emitted' = emitted + 1
            \/ Disturb("renumber") /\ inflight' = published + 1 /\ UNCHANGED emitted

BizXadd ==
    /\ BizRuns /\ biz = "active"
    /\ Cardinality(snapshot) < MaxEvents
    /\ PatchSeq
    /\ IF inflight' <= published
         THEN biz' = "raised" /\ UNCHANGED <<stream, snapshot>>
         ELSE /\ biz' = "stream_hset"
              /\ snapshot' = snapshot \cup {inflight'}
              /\ Xadd("patch", inflight', Task)
    /\ UNCHANGED <<state, heartbeat, claim, process, loopStalled, closer, completedBy, work, cancel,
                   live, published, outcomeVars, beat, pulse, deliveryVars>>

BizHset ==
    /\ BizRuns /\ biz = "stream_hset"
    /\ HsetSeq(inflight)
    /\ published' = inflight
    /\ biz' = "active"
    /\ UNCHANGED <<stream, heartbeat, claim, processVars, work, cancel, live, emitted, inflight, snapshot,
                   outcomeVars, beat, pulse, deliveryVars>>

\* prepare or stream returns, raises, or raises CancelledError.
BizEnds ==
    /\ BizRuns /\ biz = "active"
    /\ biz' \in BizOver
    /\ UNCHANGED <<redisVars, processVars, work, cancel, live, contextVars, outcomeVars, beat, pulse, deliveryVars>>

\* An XADD that was not applied, or an EXPIRE or HSET after it.
BizFault ==
    /\ BizRuns
    /\ Disturb("fault")
    /\ \/ /\ biz = "active" /\ Cardinality(snapshot) < MaxEvents /\ emitted + 1 > published
          /\ NumberEvent /\ UNCHANGED state
       \/ biz = "stream_hset" /\ (HsetSeq(inflight) \/ UNCHANGED state) /\ UNCHANGED <<emitted, snapshot>>
    /\ biz' = "raised"
    /\ UNCHANGED <<stream, heartbeat, claim, process, loopStalled, closer, completedBy, work, cancel,
                   live, published, inflight, outcomeVars, beat, pulse, deliveryVars>>

BeatTouch ==
    /\ Up(Owner) /\ beat = "looping"
    /\ ~loopStalled
    /\ Zadd
    /\ UNCHANGED <<state, stream, claim, processVars, taskVars>>

BeatFails ==
    /\ Up(Owner) /\ beat = "looping"
    /\ \/ loopStalled /\ Calm /\ UNCHANGED heartbeat
       \/ ~loopStalled /\ Disturb("fault") /\ (Zadd \/ UNCHANGED heartbeat)
    /\ beat' = "failed"
    /\ UNCHANGED <<state, stream, claim, process, loopStalled, closer, completedBy, work, cancel, live,
                   contextVars, outcomeVars, biz, pulse, deliveryVars>>

PulseFails ==
    /\ Up(Owner) /\ pulse = "running"
    /\ loopStalled
    /\ pulse' = "raised"
    /\ UNCHANGED <<redisVars, processVars, work, cancel, live, contextVars, outcomeVars, biz, beat, deliveryVars>>

--------------------------------------------------------------------------------
(* _finalize, run by _execute or, when pre_start failed, by run()           *)

Complete ==
    /\ At("complete")
    /\ Completes(Task)
    /\ handed' = snapshot
    /\ failed' \in {failed, TRUE}
    /\ work' = IF failed' THEN "error_xadd" ELSE "end_xadd"
    /\ Calm
    /\ UNCHANGED <<redisVars, process, loopStalled, closer, cancel, live, contextVars, source, unsaved,
                   asideVars, deliveryVars>>

TerminalXadd ==
    /\ At("error_xadd") \/ At("end_xadd")
    /\ emitted' = emitted + 1
    /\ IF work = "error_xadd" THEN Xadd("error", emitted + 1, Task) /\ work' = "error_hset"
                              ELSE Xadd("end", emitted + 1, Task) /\ work' = "end_hset"
    /\ UNCHANGED <<state, heartbeat, claim, processVars, cancel, live, published, inflight, snapshot,
                   outcomeVars, asideVars, deliveryVars>>

TerminalHset ==
    /\ At("error_hset") \/ At("end_hset")
    /\ HsetSeq(emitted)
    /\ published' = emitted
    /\ work' = IF work = "error_hset" THEN "end_xadd" ELSE "mark_status"
    /\ UNCHANGED <<stream, heartbeat, claim, processVars, cancel, live, emitted, inflight, snapshot,
                   outcomeVars, asideVars, deliveryVars>>

MarkStatus ==
    /\ At("mark_status")
    /\ HsetStatus(IF failed THEN "failed" ELSE "completed")
    /\ work' = "mark_heartbeat"
    /\ UNCHANGED <<stream, heartbeat, claim, processVars, cancel, live, contextVars, outcomeVars,
                   asideVars, deliveryVars>>

\* _finalize returns: _execute stops its heartbeat, run() delivers or re-raises.
Finalized ==
    IF source = "pre_start"
      THEN work' = "done" /\ live' = IF live = "raising" THEN "raised" ELSE Delivering
      ELSE work' = "stop_beat" /\ live' = live

MarkHeartbeat ==
    /\ At("mark_heartbeat")
    /\ Zrem
    /\ Finalized
    /\ UNCHANGED <<state, stream, claim, processVars, cancel, contextVars, outcomeVars, asideVars, deliveryVars>>

BeatStopped == IF beat = "looping" THEN "stopped" ELSE beat

StopBeat ==
    /\ At("stop_beat")
    /\ beat' = BeatStopped
    /\ work' = "done"
    /\ UNCHANGED <<redisVars, processVars, cancel, live, contextVars, outcomeVars, biz, pulse, deliveryVars>>

--------------------------------------------------------------------------------
(* A Redis command of run(), _execute or _finalize raises.  publish raises  *)
(* after its XADD when the EXPIRE or the HSET that follow it raise.         *)

UnsavedAfterFault == IF work \in {"error_xadd", "error_hset"} THEN {"error", "end"} ELSE {"end"}

\* Mutant of InitFault: initialize outside of run()'s try.
InitFaultEscapes ==
    /\ At("init_state") \/ At("init_touch")
    /\ Disturb("fault")
    /\ work' = "dead" /\ live' = "raised"
    /\ UNCHANGED <<redisVars, process, loopStalled, closer, completedBy, cancel,
                   contextVars, outcomeVars, asideVars, deliveryVars>>

\* initialize raises: run() goes to complete.
InitFault ==
    /\ At("init_state") \/ At("init_touch")
    /\ Disturb("fault")
    /\ \/ UNCHANGED <<state, heartbeat>>
       \/ work = "init_state" /\ HsetTask /\ UNCHANGED heartbeat
       \/ work = "init_touch" /\ Zadd /\ UNCHANGED state
    /\ work' = "init_complete"
    /\ UNCHANGED <<stream, claim, process, loopStalled, closer, completedBy, cancel, live,
                   contextVars, outcomeVars, asideVars, deliveryVars>>

\* _publish_start raises: run() tries once more, then finalizes.
StartFault ==
    /\ \E pc \in {"start_xadd", "start_hset", "restart_xadd", "restart_hset"} : At(pc)
    /\ Disturb("fault")
    /\ IF work \in {"start_xadd", "restart_xadd"}
         THEN NumberEvent /\ UNCHANGED state
         ELSE (HsetSeq(emitted) \/ UNCHANGED state) /\ UNCHANGED <<emitted, snapshot>>
    /\ work' = IF work \in {"start_xadd", "start_hset"} THEN "restart_xadd" ELSE "complete"
    /\ source' = "pre_start" /\ failed' = TRUE
    /\ UNCHANGED <<stream, heartbeat, claim, process, loopStalled, closer, completedBy, cancel, live,
                   published, inflight, handed, unsaved, asideVars, deliveryVars>>

\* Mutant of TerminalFault: the end does not depend on the error's result.
TerminalFaultIgnored ==
    /\ \E pc \in {"error_xadd", "error_hset", "end_xadd", "end_hset"} : At(pc)
    /\ Disturb("fault")
    /\ unsaved' = unsaved \cup {IF work \in {"error_xadd", "error_hset"} THEN "error" ELSE "end"}
    /\ work' = IF work \in {"error_xadd", "error_hset"} THEN "end_xadd" ELSE "mark_status"
    /\ UNCHANGED <<redisVars, process, loopStalled, closer, completedBy, cancel, live,
                   contextVars, source, failed, handed, asideVars, deliveryVars>>

\* _publish_terminal returns False: end is attempted only after a saved error.
TerminalFault ==
    /\ \E pc \in {"error_xadd", "error_hset", "end_xadd", "end_hset"} : At(pc)
    /\ Disturb("fault")
    /\ unsaved' = UnsavedAfterFault
    /\ work' = "mark_status"
    /\ IF work \in {"error_hset", "end_hset"} THEN HsetSeq(emitted) \/ UNCHANGED state
                                              ELSE UNCHANGED state
    /\ UNCHANGED <<stream, heartbeat, claim, process, loopStalled, closer, completedBy, cancel, live,
                   contextVars, source, failed, handed, asideVars, deliveryVars>>

\* _finalize swallows what mark_terminal raises.
MarkFault ==
    /\ At("mark_status") \/ At("mark_heartbeat")
    /\ Disturb("fault")
    /\ \/ UNCHANGED state
       \/ work = "mark_status" /\ HsetStatus(IF failed THEN "failed" ELSE "completed")
    /\ Finalized
    /\ UNCHANGED <<stream, heartbeat, claim, process, loopStalled, closer, completedBy, cancel,
                   contextVars, outcomeVars, asideVars, deliveryVars>>

--------------------------------------------------------------------------------
(* Cancellation: of the request while run() has not spawned _execute, or    *)
(* of the execute task by aclose().  It is raised at the pending await; a   *)
(* command that is sent may be applied all the same.                        *)

InRequest == work \in StartSteps \/ (work \in FinalSteps /\ source = "pre_start")
Executing == work \in (FinalSteps \cup {"spawned", "waiting", "gathering"}) /\ source # "pre_start"

CancelRequest ==
    /\ Up(Owner) /\ ~cancel
    /\ InRequest
    /\ Disturb("cancel")
    /\ cancel' = TRUE
    /\ UNCHANGED <<redisVars, process, loopStalled, closer, completedBy, work, live,
                   contextVars, outcomeVars, asideVars, deliveryVars>>

CancelAt(pcs) == /\ Up(Owner) /\ cancel
                 /\ work \in pcs
                 /\ cancel' = FALSE

\* except BaseException in run() takes the cancellation for the start error; the
\* start event is numbered and in the snapshot before its first await.
CancelStart ==
    /\ CancelAt({"init_state", "init_touch", "pre_start", "start_xadd", "start_hset"})
    /\ IF work = "start_xadd" THEN NumberEvent ELSE UNCHANGED <<emitted, snapshot>>
    /\ \/ UNCHANGED <<state, heartbeat>>
       \/ work = "init_state" /\ HsetTask /\ UNCHANGED heartbeat
       \/ work = "init_touch" /\ Zadd /\ UNCHANGED state
       \/ work = "start_hset" /\ HsetSeq(emitted) /\ UNCHANGED heartbeat
    /\ IF work \in {"init_state", "init_touch"}
         THEN work' = "init_complete" /\ UNCHANGED <<source, failed, live>>
         ELSE work' = "restart_xadd" /\ source' = "pre_start" /\ failed' = TRUE /\ live' = "raising"
    /\ UNCHANGED <<stream, claim, processVars, published, inflight, handed, unsaved,
                   asideVars, deliveryVars>>

\* _execute records it as the outcome of the business task.
CancelWait ==
    /\ CancelAt({"waiting"})
    /\ source' = CancelSource /\ failed' = TRUE
    /\ work' = AfterWait
    /\ UNCHANGED <<redisVars, processVars, live, contextVars, handed, unsaved, asideVars, deliveryVars>>

\* _invoke_complete catches it as an error of the callback.
CancelComplete ==
    /\ CancelAt({"init_complete", "complete"})
    /\ Completes(Task)
    /\ IF work = "complete"
         THEN work' = "error_xadd" /\ failed' = TRUE /\ handed' = snapshot /\ live' = live
         ELSE work' = "dead" /\ live' = "raised" /\ UNCHANGED <<failed, handed>>
    /\ Calm
    /\ UNCHANGED <<redisVars, process, loopStalled, closer, contextVars, source, unsaved,
                   asideVars, deliveryVars>>

\* Elsewhere nothing catches it: the coroutine ends there, and only the
\* finally clause around _finalize stops the heartbeat task.
CancelEnds ==
    /\ CancelAt({"restart_xadd", "restart_hset", "spawned", "gathering"}
                   \cup (FinalSteps \ {"complete"}))
    /\ \/ UNCHANGED <<state, heartbeat>>
       \/ work = "restart_hset" /\ HsetSeq(emitted) /\ UNCHANGED heartbeat
       \/ work = "mark_heartbeat" /\ Zrem /\ UNCHANGED state
    /\ work' = "dead"
    /\ beat' = IF work \in FinalSteps THEN BeatStopped ELSE beat
    /\ biz' = IF work = "gathering" THEN "cancelled" ELSE biz
    /\ live' = IF live \in {"starting", "raising"} THEN "raised" ELSE live
    /\ UNCHANGED <<stream, claim, processVars, contextVars, outcomeVars, pulse, deliveryVars>>

--------------------------------------------------------------------------------
(* _stream_live                                                             *)

StoredOps(n) == {stream[i].op : i \in 1..n}

\* XREAD finds events after the cursor: the generator yields the next one and
\* returns after an end.
LiveDeliver ==
    /\ Up(Owner) /\ live = "reading"
    /\ cursor < Len(stream)
    /\ cursor' = cursor + 1
    /\ live' = IF stream[cursor + 1].op = "end" THEN "returned" ELSE "reading"
    /\ UNCHANGED <<redisVars, processVars, work, cancel, contextVars, outcomeVars, asideVars, extra>>

\* XREAD's block interval ends without events; the reply is on its way.
LiveRead ==
    /\ Up(Owner) /\ live = "reading"
    /\ cursor = Len(stream)
    /\ live' = "idle"
    /\ UNCHANGED <<redisVars, processVars, work, cancel, contextVars, outcomeVars, asideVars, deliveryVars>>

\* Mutant of LiveIdle: it pings without looking at the execution.
LiveIdlePings ==
    /\ Up(Owner) /\ live = "idle"
    /\ live' = "reading"
    /\ UNCHANGED <<redisVars, processVars, work, cancel, contextVars, outcomeVars, asideVars, deliveryVars>>

\* Mutant of LiveIdle: it hands over what it may have delivered.
LiveIdleAgain ==
    /\ Up(Owner) /\ live = "idle"
    /\ CASE work = "done" -> /\ live' = "returned"
                             /\ extra' = unsaved
         [] work = "dead" -> live' = "raised" /\ extra' = extra
         [] OTHER -> live' = "reading" /\ extra' = extra
    /\ UNCHANGED <<redisVars, processVars, work, cancel, contextVars, outcomeVars, asideVars, cursor>>

\* The coroutine resumes without events: it looks at the execution, or pings.
LiveIdle ==
    /\ Up(Owner) /\ live = "idle"
    /\ CASE work = "done" -> /\ live' = "returned"
                             /\ extra' = unsaved \ StoredOps(cursor)
         [] work = "dead" -> live' = "raised" /\ extra' = extra
         [] OTHER -> live' = "reading" /\ extra' = extra
    /\ UNCHANGED <<redisVars, processVars, work, cancel, contextVars, outcomeVars, asideVars, cursor>>

\* The consumer closes the generator, or XREAD raises.
LiveClosed ==
    /\ Up(Owner) /\ live \in {"reading", "idle"}
    /\ \/ live' = "closed" /\ Calm
       \/ live' = "raised" /\ Disturb("fault")
    /\ UNCHANGED <<redisVars, process, loopStalled, closer, completedBy, work, cancel, contextVars,
                   outcomeVars, asideVars, deliveryVars>>

--------------------------------------------------------------------------------
(* The heartbeat's score falls heartbeat_timeout behind the clock.  While   *)
(* the heartbeat task loops in a running event loop it does not; before it  *)
(* starts and after it fails, a callback has to be that slow.               *)

Beating == Up(Owner) /\ beat = "looping" /\ ~loopStalled
Engaged == Up(Owner) /\ ~loopStalled /\ (InRequest \/ Executing)

HeartbeatAges == /\ heartbeat = "fresh"
                 /\ ~Beating
                 /\ heartbeat' = "expired"
                 /\ UNCHANGED <<state, stream, claim, process, loopStalled, closer, completedBy, taskVars>>

HeartbeatExpires == HeartbeatAges /\ ~Engaged /\ Calm

HeartbeatLate == HeartbeatAges /\ Engaged /\ Disturb("late")

--------------------------------------------------------------------------------
\* The owner's memory goes with its process; what it handed to complete and
\* delivered does not.
TaskLost ==
    /\ work' = "dead" /\ cancel' = FALSE /\ source' = "none" /\ unsaved' = {}
    /\ biz' = "none" /\ beat' = "none" /\ pulse' = "none"
    /\ emitted' = 0 /\ published' = 0 /\ inflight' = 0 /\ snapshot' = {}
    /\ live' = "closed" /\ cursor' = 0
    /\ UNCHANGED <<failed, handed, extra>>
================================================================================

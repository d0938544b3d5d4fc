-------------------------------- MODULE Runner ---------------------------------
(***************************************************************************)
(* One task of the Python Runner: the coroutines of its owner              *)
(* (RunnerTask), a timeout scanner in every instance (RunnerRecovery),     *)
(* aclose(), and the Redis keys they share (RunnerRedis).                  *)
(***************************************************************************)
EXTENDS RunnerTask, RunnerRecovery

vars == <<redisVars, processVars, taskVars, recoveryVars>>

TypeOK == RedisTypeOK /\ ProcessTypeOK /\ TaskTypeOK /\ RecoveryTypeOK

Init == RedisInit /\ ProcessInit /\ TaskInit /\ RecoveryInit

--------------------------------------------------------------------------------
(* aclose(): cancel the scanner and the execute tasks, await the former,    *)
(* then the latter, then stop the pulse.                                    *)

CloseBegin(r) ==
    LET owns == r = Owner /\ Executing
    IN  /\ r \in Mortal /\ Up(r)
        /\ closer[r] = "open"
        /\ Disturb("close")
        /\ closer' = [closer EXCEPT ![r] = IF owns THEN "closing_execute" ELSE "closing"]
        /\ scanCancel' = [scanCancel EXCEPT ![r] = TRUE]
        /\ cancel' = (cancel \/ owns)
        /\ UNCHANGED <<redisVars, process, loopStalled, completedBy, work, live, contextVars, outcomeVars,
                       asideVars, deliveryVars, scan, seen>>

CloseEnd(r) ==
    /\ Up(r)
    /\ closer[r] \in {"closing", "closing_execute"}
    /\ scan[r] = "off"
    /\ closer[r] = "closing_execute" => work \in {"done", "dead"}
    /\ closer' = [closer EXCEPT ![r] = "closed"]
    /\ pulse' = IF r = Owner THEN "none" ELSE pulse
    /\ UNCHANGED <<redisVars, process, loopStalled, completedBy, budget, happened, work, cancel, live,
                   contextVars, outcomeVars, biz, beat, deliveryVars, recoveryVars>>

--------------------------------------------------------------------------------

\* The coroutine of run() before delivery, then of _execute.
WorkStep == \/ InitRefused \/ InitState \/ InitTouch \/ InitComplete
            \/ PreStart \/ StartXadd \/ StartHset
            \/ ExecBegin \/ ExecWake \/ ExecGather
            \/ Complete \/ TerminalXadd \/ TerminalHset \/ MarkStatus \/ MarkHeartbeat \/ StopBeat
            \/ CancelStart \/ CancelWait \/ CancelComplete \/ CancelEnds

BizStep == BizXadd \/ BizHset \/ BizEnds

BeatStep == BeatTouch \/ BeatFails

LiveStep == LiveDeliver \/ LiveRead \/ LiveIdle \/ LiveClosed

TaskFault == InitFault \/ StartFault \/ TerminalFault \/ MarkFault \/ BizFault

TaskStep == \/ WorkStep \/ BizStep \/ BeatStep \/ PulseFails \/ LiveStep
            \/ TaskFault \/ CancelRequest
            \/ HeartbeatExpires \/ HeartbeatLate

ScanStep(r) == \/ ScanExpired(r) \/ ScanClaim(r) \/ ScanStatus(r) \/ ScanForget(r)
               \/ RecoverComplete(r) \/ RecoverLastSeq(r) \/ RecoverInitialModel(r)
               \/ RecoverXadd(r) \/ RecoverHset(r) \/ RecoverMark(r)
               \/ ScanRelease(r) \/ ScanCancelled(r)

RecoveryStep == \/ \E r \in Runners : ScanStep(r) \/ ScanFault(r)
                \/ ClaimExpires
                \/ ClaimOverrun

CrashStep == \E r \in Runners : /\ Crash(r)
                                /\ ScanLost(r)
                                /\ IF r = Owner THEN TaskLost ELSE UNCHANGED taskVars

ProcessStep == \/ \E r \in Runners : Stall(r) \/ Resume(r)
               \/ WatchdogFires
               \/ StateExpires

CloseStep == \E r \in Runners : CloseBegin(r) \/ CloseEnd(r)

Next == \/ TaskStep /\ UNCHANGED recoveryVars
        \/ RecoveryStep /\ UNCHANGED taskVars
        \/ ProcessStep /\ UNCHANGED <<taskVars, recoveryVars>>
        \/ CrashStep
        \/ CloseStep

Spec == Init /\ [][Next]_vars

\* A running event loop runs every coroutine that can go on, callbacks and
\* business end, Redis answers, and the clock reaches every timeout.  Nothing
\* makes a disturbance happen, a stalled loop resume or a consumer leave.
Fairness ==
    /\ WF_vars(WorkStep /\ UNCHANGED recoveryVars)
    /\ WF_vars(BizStep /\ UNCHANGED recoveryVars)
    /\ WF_vars((beat = "looping" /\ loopStalled /\ BeatFails) /\ UNCHANGED recoveryVars)
    /\ WF_vars(PulseFails /\ UNCHANGED recoveryVars)
    /\ WF_vars((LiveRead \/ LiveDeliver \/ LiveIdle) /\ UNCHANGED recoveryVars)
    /\ WF_vars(HeartbeatExpires /\ UNCHANGED recoveryVars)
    /\ WF_vars(ClaimExpires /\ UNCHANGED taskVars)
    /\ \A r \in Runners : WF_vars(ScanStep(r) /\ UNCHANGED taskVars)
    /\ \A r \in Runners : WF_vars(CloseEnd(r))

FairSpec == Spec /\ Fairness

--------------------------------------------------------------------------------
(* Safety                                                                   *)

\* "end" means that the completion phase has run: every end event, stored or
\* handed to the live consumer unsaved, comes from a writer that had invoked
\* complete (_finalize, _recover_task; the last paragraph of docs/runner.md).
EndAfterComplete ==
    /\ \A i \in DOMAIN stream : stream[i].op = "end" => stream[i].by \in completedBy
    /\ "end" \in extra => Task \in completedBy

\* What complete persists covers what consumers have seen: once the owner has
\* called complete with its snapshot, no patch of the business task reaches
\* the stream that the snapshot lacks (the apply before publish of
\* _run_business, the gather before _finalize).
SnapshotCoversStream ==
    Task \in completedBy =>
        \A i \in DOMAIN stream :
            stream[i].op = "patch" => stream[i].seq \in handed

\* A failed task never shows a clean end: each end of a writer whose outcome is
\* a failure follows an error of the same writer (_publish_terminal's result
\* gates the end; the order of _recover_task).
ErrorBeforeEnd ==
    \A i \in DOMAIN stream :
        stream[i].op = "end" /\ (stream[i].by = Task => failed) =>
            \E j \in 1..(i - 1) : stream[j].op = "error" /\ stream[j].by = stream[i].by

\* At most one running instance recovers the task at a time (claim_recovery,
\* release_recovery), as long as no recovery outlasts recovery_claim_ttl and
\* no loop stalls.
ClaimExclusive ==
    happened \cap {"slow", "stall"} = {} =>
        \A r, s \in Runners : Held(r) /\ Held(s) => r = s

Increasing(strictly) ==
    \A i, j \in DOMAIN stream :
        i < j => stream[i].seq < stream[j].seq \/ (~strictly /\ stream[i].seq = stream[j].seq)

\* The seq of the stored events increases as long as nothing disturbs the task,
\* and never falls back when instances crash (the order of XADD and HSET in
\* publish, the offset recovery starts from).
SeqOrder == /\ happened = {} => Increasing(TRUE)
            /\ happened \subseteq {"crash"} => Increasing(FALSE)

\* The same for every run, as spec/protocol.md states it.
SeqStrictlyIncreasing == Increasing(TRUE)

\* A completed task's log holds no error: recovery and the owner do not both
\* decide the outcome, unless the owner is taken for dead while it is alive.
VerdictMatchesLog ==
    state.status = "completed" /\ happened \cap {"stall", "late"} = {} =>
        \A i \in DOMAIN stream : stream[i].op # "error"

\* A live delivery that returns has delivered end, stored or unsaved.
LiveEndsWithEnd ==
    live = "returned" => "end" \in StoredOps(cursor) \cup extra

\* A live consumer is shown one end, as the last event, and no terminal event
\* twice, although owner and recovery may both store theirs and one that counts
\* as unsaved may be stored; the delivery returns only when there is an end, and
\* an end that it hands over of a failed task comes with the error or after that
\* was stored (_stream_live, the results of _publish_terminal).
LiveShowsOneEnd ==
    /\ \A i \in 1..cursor : stream[i].op = "end" => i = cursor /\ extra = {}
    /\ extra # {} => "end" \in extra /\ extra \cap StoredOps(cursor) = {}
    /\ extra # {} /\ failed => "error" \in StoredOps(Len(stream)) \cup extra
    /\ live = "returned" => "end" \in StoredOps(Len(stream)) \cup extra

\* complete is called on every path of run() and _execute, whatever callbacks
\* and Redis commands raise, as long as neither coroutine is cancelled.
CompleteUnlessCancelled ==
    Up(Owner) /\ work \in {"done", "dead"} /\ happened \cap {"cancel", "close"} = {} => Task \in completedBy

\* The same with cancellation and shutdown, as docs/runner.md states it.
CompleteOnEveryPath == Up(Owner) /\ work \in {"done", "dead"} => Task \in completedBy

\* A task that counts as running can be found by the scanners: neither its owner
\* nor any of them takes its heartbeat out of the index before a verdict is stored,
\* whatever commands raise or callers are cancelled between the two.  Only if
\* initialize itself is interrupted, nothing having been published, is there such
\* a task without a heartbeat (initialize, mark_terminal, forget_heartbeat).
RunningIsIndexed ==
    state.status = "running" /\ heartbeat = "absent" =>
        stream = <<>> /\ work \in {"init_touch", "init_complete", "dead"}

--------------------------------------------------------------------------------
(* Steps and liveness                                                       *)

\* A terminal status is never replaced by another one, unless the owner was
\* taken for dead while it is alive: not by a late scanner, and not when the
\* hash of the running task had expired before.
VerdictStands ==
    [][state.status \in {"completed", "failed"} /\ happened \cap {"stall", "late"} = {}
         => state'.status = state.status]_vars

\* A task whose heartbeat is indexed does not stay running: its owner or a
\* scanner decides it.
RunningIsDecided ==
    (state.status = "running" /\ heartbeat # "absent") ~> state.status # "running"

\* The heartbeat index does not keep the task for ever.
HeartbeatForgotten == <>[](heartbeat = "absent")

\* A live delivery under way ends, unless its process stops.
DeliveryEnds == live = "reading" ~> live \in {"returned", "raised", "closed"} \/ ~Up(Owner)

\* aclose() returns, unless its process stops.
CloseFinishes == \A r \in Runners : closer[r] \in {"closing", "closing_execute"} ~> closer[r] = "closed" \/ ~Up(r)
================================================================================

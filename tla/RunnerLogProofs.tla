---------------------------- MODULE RunnerLogProofs -----------------------------
(***************************************************************************)
(* Theorems about what the Python Runner leaves behind, for any instances, *)
(* any disturbances and any bounds: that complete is called, what it is    *)
(* given, what the log holds and in which order, the status, and that a    *)
(* running task stays where scanners find it.                              *)
(***************************************************************************)
EXTENDS RunnerProofs

--------------------------------------------------------------------------------
(* complete is called                                                       *)

\* The inductive invariant behind CompleteUnlessCancelled.  Without a
\* cancellation and without aclose() no CancelledError is on its way and the
\* pulse task is there when _execute begins, so that a coroutine that ended
\* where nothing catches has called complete first.
CompleteInv ==
    process[Owner] # "down" /\ happened \cap {"cancel", "close"} = {} =>
        /\ ~cancel /\ pulse # "none" /\ closer[Owner] = "open"
        /\ work = "dead" => Task \in completedBy

\* A step that raises no CancelledError, keeps the pulse task and aclose(), and
\* ends the coroutine only with the callback invoked keeps CompleteInv.
LEMMA CompleteQuiet ==
    ASSUME CompleteInv, happened \subseteq happened', completedBy \subseteq completedBy',
           process'[Owner] # "down" => process[Owner] # "down",
           cancel' => cancel, pulse' = "none" => pulse = "none", closer'[Owner] = closer[Owner],
           work' = "dead" => work = "dead" \/ Task \in completedBy'
    PROVE  CompleteInv'
  BY DEF CompleteInv

\* The owner's coroutines.
LEMMA CompleteTask ==
    ASSUME TypeOK, CompleteInv, TaskStep
    PROVE  CompleteInv'
  <1> USE DEF redisVars, processVars, outcomeVars, asideVars, contextVars, deliveryVars, At, Calm, Disturb
  <1>1. CASE InitRefused \/ InitState \/ InitTouch \/ InitComplete \/ PreStart \/ StartXadd \/ StartHset
    BY <1>1, CompleteQuiet DEF InitRefused, InitState, InitTouch, InitComplete, Completes, PreStart, StartXadd,
                               StartHset
  <1>2. CASE ExecBegin
    <2>1. CASE pulse = "none"
      BY <1>2, <2>1 DEF ExecBegin, CompleteInv
    <2>2. CASE pulse # "none"
      BY <1>2, <2>2, CompleteQuiet DEF ExecBegin
    <2> QED BY <2>1, <2>2
  <1>3. CASE ExecWake \/ ExecGather \/ BizStep \/ BeatStep \/ PulseFails
    <2>1. CASE ExecWake \/ ExecGather
      BY <2>1, CompleteQuiet DEF ExecWake, AfterWait, ExecGather
    <2>2. CASE BizStep
      BY <2>2, CompleteQuiet DEF BizStep, BizXadd, PatchSeq, BizHset, BizEnds
    <2>3. CASE BeatStep \/ PulseFails
      BY <2>3, CompleteQuiet DEF BeatStep, BeatTouch, BeatFails, PulseFails, taskVars
    <2> QED BY <1>3, <2>1, <2>2, <2>3
  <1>4. CASE Complete \/ TerminalXadd \/ TerminalHset \/ MarkStatus \/ MarkHeartbeat \/ StopBeat
    <2>1. CASE Complete
      BY <2>1, CompleteQuiet DEF Complete, Completes
    <2>4. CASE TerminalXadd
      BY <2>4, CompleteQuiet DEF TerminalXadd
    <2>2. CASE TerminalHset \/ MarkStatus \/ StopBeat
      BY <2>2, CompleteQuiet DEF TerminalHset, MarkStatus, StopBeat
    <2>3. CASE MarkHeartbeat
      BY <2>3, CompleteQuiet DEF MarkHeartbeat, Finalized
    <2> QED BY <1>4, <2>1, <2>2, <2>3, <2>4
  <1>5. CASE CancelRequest
    BY <1>5 DEF CancelRequest, CompleteInv
  <1>6. CASE CancelStart \/ CancelWait \/ CancelComplete \/ CancelEnds
    <2>1. process[Owner] = "up" /\ cancel /\ UNCHANGED <<process, happened>>
      BY <1>6 DEF CancelStart, CancelWait, CancelComplete, CancelEnds, CancelAt, Up
    <2> QED BY <2>1 DEF CompleteInv
  <1>7. CASE TaskFault
    BY <1>7, CompleteQuiet
    DEF TaskFault, InitFault, StartFault, TerminalFault, MarkFault, Finalized, BizFault
  <1>8. CASE LiveStep \/ HeartbeatExpires \/ HeartbeatLate
    BY <1>8, CompleteQuiet
    DEF LiveStep, LiveDeliver, LiveRead, LiveIdle, LiveClosed, HeartbeatExpires, HeartbeatLate, HeartbeatAges,
        taskVars
  <1> QED BY <1>1, <1>2, <1>3, <1>4, <1>5, <1>6, <1>7, <1>8 DEF TaskStep, WorkStep

\* Scanners, processes and aclose().
LEMMA CompleteRest ==
    ASSUME TypeOK, CompleteInv,
           \/ RecoveryStep /\ UNCHANGED taskVars
           \/ ProcessStep /\ UNCHANGED <<taskVars, recoveryVars>>
           \/ CrashStep \/ CloseStep
    PROVE  CompleteInv'
  <1> USE DEF redisVars, processVars, taskVars, asideVars, Calm, Disturb
  <1>1. process \in [Runners -> {"up", "stalled", "down"}]
    BY DEF TypeOK, ProcessTypeOK
  <1>2. CASE RecoveryStep /\ UNCHANGED taskVars
    <2>1. /\ happened \subseteq happened' /\ completedBy \subseteq completedBy'
          /\ UNCHANGED <<process, closer>>
      BY <1>2 DEF RecoveryStep, ScanStep, ScanExpired, ScanClaim, ScanStatus, ScanForget, RecoverComplete,
                  Completes, RecoverLastSeq, RecoverInitialModel, RecoverXadd, RecoverHset, RecoverMark,
                  ScanRelease, ScanCancelled, ScanFault, ClaimExpires, ClaimOverrun, ClaimEnds
    <2> QED BY <1>2, <2>1, CompleteQuiet
  <1>3. CASE ProcessStep /\ UNCHANGED <<taskVars, recoveryVars>>
    <2>1. /\ happened \subseteq happened' /\ UNCHANGED <<completedBy, closer>>
          /\ process'[Owner] # "down" => process[Owner] # "down"
      BY <1>1, <1>3, ProcessAssumption DEF ProcessStep, Stall, Resume, Up, WatchdogFires, StateExpires
    <2> QED BY <1>3, <2>1, CompleteQuiet
  <1>4. CASE CrashStep
    <2>1. PICK r \in Runners : Crash(r) /\ IF r = Owner THEN TaskLost ELSE UNCHANGED taskVars
      BY <1>4 DEF CrashStep
    <2>2. CASE r = Owner
      BY <1>1, <2>1, <2>2, ProcessAssumption DEF Crash, CompleteInv
    <2>3. CASE r # Owner
      <3>1. happened \subseteq happened' /\ UNCHANGED <<completedBy, closer, taskVars>>
            /\ process'[Owner] = process[Owner]
        BY <1>1, <2>1, <2>3 DEF Crash
      <3> QED BY <3>1, CompleteQuiet
    <2> QED BY <2>2, <2>3
  <1>5. ASSUME NEW r \in Runners, CloseBegin(r)
        PROVE  CompleteInv'
    BY <1>5 DEF CloseBegin, CompleteInv
  <1>6. ASSUME NEW r \in Runners, CloseEnd(r)
        PROVE  CompleteInv'
    <2>1. UNCHANGED <<process, happened, cancel, work, completedBy>>
      BY <1>6 DEF CloseEnd
    <2>2. CASE r = Owner
      BY <1>6, <2>1, <2>2 DEF CloseEnd, CompleteInv
    <2>3. CASE r # Owner
      BY <1>6, <2>1, <2>3, CompleteQuiet DEF CloseEnd
    <2> QED BY <2>2, <2>3
  <1> QED BY <1>2, <1>3, <1>4, <1>5, <1>6 DEF CloseStep

\* CompleteInv holds in every reachable state.
LEMMA CompleteAlways == Spec => []CompleteInv
  <1>1. Init => CompleteInv
    BY ProcessAssumption DEF Init, ProcessInit, TaskInit, CompleteInv
  <1>2. TypeOK /\ CompleteInv /\ [Next]_vars => CompleteInv'
    <2> SUFFICES ASSUME TypeOK, CompleteInv, [Next]_vars
                 PROVE  CompleteInv'
      OBVIOUS
    <2>1. CASE UNCHANGED vars
      BY <2>1 DEF vars, processVars, taskVars, asideVars, CompleteInv
    <2> QED BY <2>1, CompleteTask, CompleteRest DEF Next
  <1> QED BY <1>1, <1>2, TypeCorrect, PTL DEF Spec

\* Whatever the callbacks and the Redis commands raise, and on whatever path
\* run() and _execute end, they have called complete, unless one of them was
\* cancelled.
THEOREM CompleteIsCalled == Spec => []CompleteUnlessCancelled
  <1>1. CompleteInv /\ EndInv => CompleteUnlessCancelled
    BY DEF CompleteInv, EndInv, Completed, CompleteUnlessCancelled, Up
  <1> QED BY <1>1, CompleteAlways, EndAlways, PTL

--------------------------------------------------------------------------------
(* What complete is given                                                   *)

\* The inductive invariant behind SnapshotCoversStream.  The business task runs
\* only while _execute waits for it or gathers it; until complete is called the
\* snapshot has every patch of the stream, and after it no patch is stored.
PatchesIn(seqs) == \A i \in DOMAIN stream : stream[i].op = "patch" => stream[i].seq \in seqs
Prelude == StartSteps \cup {"spawned"}
Uncompleted == Prelude \cup {"waiting", "gathering", "complete"}
BizRunning == {"active", "stream_hset"}

SnapshotInv ==
    /\ work \in Uncompleted => Task \notin completedBy /\ PatchesIn(snapshot)
    /\ work \in Prelude => biz = "none" /\ PatchesIn({})
    /\ biz \in BizRunning => work \in {"waiting", "gathering"}
    /\ Task \in completedBy => PatchesIn(handed)

\* A step that stores no patch.
NoPatch == \A i \in DOMAIN stream' :
               stream'[i].op = "patch" => i \in DOMAIN stream /\ stream'[i] = stream[i]

\* Neither does an XADD of another event.
LEMMA XaddNoPatch ==
    ASSUME TypeOK, NEW op, NEW n, NEW w, Xadd(op, n, w), op # "patch"
    PROVE  NoPatch
  <1>1. /\ stream \in Seq(Event)
        /\ stream' = Append(stream, [op |-> op, seq |-> n, by |-> w])
    BY DEF TypeOK, RedisTypeOK, Xadd
  <1>2. ASSUME NEW i \in DOMAIN stream', stream'[i].op = "patch"
        PROVE  i \in DOMAIN stream /\ stream'[i] = stream[i]
    <2>1. i # Len(stream) + 1
      BY <1>1, <1>2
    <2>2. i \in 1..Len(stream)
      BY <1>1, <2>1
    <2> QED BY <1>1, <2>2
  <1> QED BY <1>2 DEF NoPatch

\* A step that stores no patch, hands nothing to complete and starts neither
\* run() nor the business task anew keeps SnapshotInv.
LEMMA SnapshotQuiet ==
    ASSUME SnapshotInv, NoPatch, snapshot \subseteq snapshot' \/ work' \notin Uncompleted,
           handed' = handed, Task \in completedBy' => Task \in completedBy,
           work' \in Uncompleted => work \in Uncompleted,
           work' \in Prelude => work \in Prelude /\ biz' = biz,
           \/ UNCHANGED <<work, biz>>
           \/ biz' \notin BizRunning
           \/ work' \in {"waiting", "gathering"}
    PROVE  SnapshotInv'
  BY DEF SnapshotInv, PatchesIn, NoPatch

\* run() up to the spawn of _execute.
LEMMA SnapshotStart ==
    ASSUME TypeOK, SnapshotInv,
           InitRefused \/ InitState \/ InitTouch \/ InitComplete \/ PreStart \/ StartXadd \/ StartHset
    PROVE  SnapshotInv'
  <1> USE DEF redisVars, processVars, contextVars, outcomeVars, asideVars, deliveryVars, At, Uncompleted, Prelude,
              StartSteps
  <1>1. UNCHANGED stream => NoPatch
    BY DEF NoPatch
  <1>2. CASE InitRefused \/ InitState \/ InitTouch
    <2>1. biz = "none"
      BY <1>2 DEF InitRefused, InitState, InitTouch, SnapshotInv
    <2> QED BY <1>1, <1>2, <2>1, SnapshotQuiet DEF InitRefused, InitState, InitTouch, BizRunning
  <1>3. CASE InitComplete
    BY <1>3 DEF InitComplete, Completes, SnapshotInv, PatchesIn, BizRunning
  <1>4. CASE PreStart
    <2>1. biz = "none"
      BY <1>4 DEF PreStart, SnapshotInv
    <2> QED BY <1>1, <1>4, <2>1, SnapshotQuiet DEF PreStart, BizRunning
  <1>5. CASE StartXadd
    <2>1. NoPatch
      BY <1>5, XaddNoPatch DEF StartXadd
    <2>2. snapshot \subseteq snapshot' /\ work' \in Prelude /\ work \in Prelude
      BY <1>5 DEF StartXadd, NumberEvent
    <2>3. biz = "none"
      BY <2>2 DEF SnapshotInv
    <2> QED BY <1>5, <2>1, <2>2, <2>3, SnapshotQuiet DEF StartXadd, BizRunning
  <1>6. CASE StartHset
    <2>1. biz = "none"
      BY <1>6 DEF StartHset, SnapshotInv
    <2> QED BY <1>1, <1>6, <2>1, SnapshotQuiet DEF StartHset, BizRunning
  <1> QED BY <1>2, <1>3, <1>4, <1>5, <1>6

\* _execute and its business task, up to the call of complete.
LEMMA SnapshotExecute ==
    ASSUME TypeOK, SnapshotInv,
           ExecBegin \/ ExecWake \/ ExecGather \/ BizStep \/ BizFault
    PROVE  SnapshotInv'
  <1> USE DEF redisVars, processVars, contextVars, outcomeVars, asideVars, deliveryVars, At, Uncompleted, Prelude,
              StartSteps, BizRunning, BizOver
  <1>1. UNCHANGED stream => NoPatch
    BY DEF NoPatch
  <1>2. CASE ExecBegin
    <2>1. biz = "none" /\ UNCHANGED <<stream, snapshot, handed, completedBy>>
      BY <1>2 DEF ExecBegin, SnapshotInv
    <2> QED BY <1>1, <1>2, <2>1, SnapshotQuiet DEF ExecBegin
  <1>3. CASE ExecWake
    BY <1>1, <1>3, SnapshotQuiet DEF ExecWake, AfterWait
  <1>4. CASE ExecGather
    BY <1>1, <1>4, SnapshotQuiet DEF ExecGather
  <1>5. CASE BizXadd
    <2>1. work \in {"waiting", "gathering"} /\ work' = work /\ UNCHANGED <<completedBy, handed>>
      BY <1>5 DEF BizXadd, SnapshotInv
    <2>2. CASE UNCHANGED <<stream, snapshot>> /\ biz' = "raised"
      BY <1>1, <1>5, <2>1, <2>2, SnapshotQuiet
    <2>3. CASE /\ biz' = "stream_hset"
               /\ snapshot' = snapshot \cup {inflight'}
               /\ Xadd("patch", inflight', Task)
      <3>1. /\ stream \in Seq(Event)
            /\ stream' = Append(stream, [op |-> "patch", seq |-> inflight', by |-> Task])
        BY <2>3 DEF TypeOK, RedisTypeOK, Xadd
      <3>2. PatchesIn(snapshot)
        BY <2>1 DEF SnapshotInv
      <3>3. PatchesIn(snapshot)'
        <4> SUFFICES ASSUME NEW i \in DOMAIN stream', stream'[i].op = "patch"
                     PROVE  stream'[i].seq \in snapshot'
          BY DEF PatchesIn
        <4>1. CASE i \in 1..Len(stream)
          BY <2>3, <3>1, <3>2, <4>1 DEF PatchesIn
        <4>2. CASE i = Len(stream) + 1
          BY <2>3, <3>1, <4>2
        <4> QED BY <3>1, <4>1, <4>2
      <3> QED BY <2>1, <2>3, <3>3 DEF SnapshotInv
    <2> QED BY <1>5, <2>2, <2>3 DEF BizXadd
  <1>6. CASE BizHset \/ BizEnds
    <2>1. work \in {"waiting", "gathering"} /\ work' = work
      BY <1>6 DEF BizHset, BizEnds, SnapshotInv
    <2>2. UNCHANGED <<stream, snapshot, handed, completedBy>>
      BY <1>6 DEF BizHset, BizEnds
    <2> QED BY <1>1, <2>1, <2>2, SnapshotQuiet
  <1>7. CASE BizFault
    <2>1. work \in {"waiting", "gathering"} /\ work' = work
      BY <1>7 DEF BizFault, SnapshotInv
    <2>2. snapshot \subseteq snapshot'
      BY <1>7 DEF BizFault, NumberEvent
    <2>3. UNCHANGED <<stream, handed, completedBy>>
      BY <1>7 DEF BizFault
    <2> QED BY <1>1, <2>1, <2>2, <2>3, SnapshotQuiet
  <1> QED BY <1>2, <1>3, <1>4, <1>5, <1>6, <1>7 DEF BizStep

\* _finalize, cancellation and failed commands.
LEMMA SnapshotFinalize ==
    ASSUME TypeOK, SnapshotInv,
           \/ Complete \/ TerminalXadd \/ TerminalHset \/ MarkStatus \/ MarkHeartbeat \/ StopBeat
           \/ CancelRequest \/ CancelStart \/ CancelWait \/ CancelComplete \/ CancelEnds
           \/ InitFault \/ StartFault \/ TerminalFault \/ MarkFault
    PROVE  SnapshotInv'
  <1> USE DEF redisVars, processVars, contextVars, outcomeVars, asideVars, deliveryVars, At, CancelAt, Uncompleted,
              Prelude, StartSteps, FinalSteps
  <1>1. UNCHANGED stream => NoPatch
    BY DEF NoPatch
  <1>2. CASE Complete
    <2>1. biz \notin BizRunning /\ PatchesIn(snapshot)
      BY <1>2 DEF Complete, SnapshotInv
    <2> QED BY <1>2, <2>1 DEF Complete, SnapshotInv, PatchesIn
  <1>3. CASE TerminalXadd
    <2>1. NoPatch
      BY <1>3, XaddNoPatch DEF TerminalXadd
    <2>2. work \notin {"waiting", "gathering"} /\ work' \notin Uncompleted
      BY <1>3 DEF TerminalXadd
    <2>3. biz' \notin BizRunning
      BY <1>3, <2>2 DEF TerminalXadd, SnapshotInv
    <2> QED BY <1>3, <2>1, <2>2, <2>3, SnapshotQuiet DEF TerminalXadd
  <1>4. CASE TerminalHset \/ MarkStatus \/ StopBeat
    <2>1. /\ work \notin {"waiting", "gathering"} /\ work' \notin Uncompleted /\ biz' = biz
          /\ UNCHANGED <<stream, handed, completedBy>>
      BY <1>4 DEF TerminalHset, MarkStatus, StopBeat
    <2>2. biz' \notin BizRunning
      BY <2>1 DEF SnapshotInv
    <2> QED BY <1>1, <2>1, <2>2, SnapshotQuiet
  <1>5. CASE MarkHeartbeat
    BY <1>1, <1>5, SnapshotQuiet DEF MarkHeartbeat, Finalized, SnapshotInv
  <1>6. CASE CancelRequest
    BY <1>1, <1>6, SnapshotQuiet DEF CancelRequest
  <1>7. CASE CancelStart
    <2>1. biz = "none" /\ work \in Prelude /\ work' \in Prelude
      BY <1>7 DEF CancelStart, SnapshotInv
    <2>2. snapshot \subseteq snapshot'
      BY <1>7 DEF CancelStart, NumberEvent
    <2> QED BY <1>1, <1>7, <2>1, <2>2, SnapshotQuiet DEF CancelStart, BizRunning
  <1>8. CASE CancelWait
    BY <1>1, <1>8, SnapshotQuiet DEF CancelWait, AfterWait, BizRunning, BizOver
  <1>9. CASE CancelComplete
    <2>1. biz \notin BizRunning
      BY <1>9 DEF CancelComplete, SnapshotInv
    <2>2. CASE work = "complete"
      BY <1>9, <2>1, <2>2 DEF CancelComplete, SnapshotInv, PatchesIn
    <2>3. CASE work = "init_complete"
      BY <1>9, <2>1, <2>3 DEF CancelComplete, SnapshotInv, PatchesIn
    <2> QED BY <1>9, <2>2, <2>3 DEF CancelComplete
  <1>10. CASE CancelEnds
    <2>1. work' = "dead" /\ (biz' = "cancelled" \/ (biz' = biz /\ work # "gathering"))
      BY <1>10 DEF CancelEnds
    <2>2. work # "waiting"
      BY <1>10 DEF CancelEnds
    <2>3. biz' \notin BizRunning
      BY <2>1, <2>2 DEF SnapshotInv, BizRunning
    <2> QED BY <1>1, <1>10, <2>1, <2>3, SnapshotQuiet DEF CancelEnds
  <1>11. CASE InitFault
    BY <1>1, <1>11, SnapshotQuiet DEF InitFault, SnapshotInv, BizRunning
  <1>12. CASE StartFault
    <2>1. biz = "none"
      BY <1>12 DEF StartFault, SnapshotInv
    <2>2. snapshot \subseteq snapshot'
      BY <1>12 DEF StartFault, NumberEvent
    <2> QED BY <1>1, <1>12, <2>1, <2>2, SnapshotQuiet DEF StartFault, BizRunning
  <1>13. CASE TerminalFault
    BY <1>1, <1>13, SnapshotQuiet DEF TerminalFault, SnapshotInv
  <1>14. CASE MarkFault
    BY <1>1, <1>14, SnapshotQuiet DEF MarkFault, Finalized, SnapshotInv
  <1> QED BY <1>2, <1>3, <1>4, <1>5, <1>6, <1>7, <1>8, <1>9, <1>10, <1>11, <1>12, <1>13, <1>14

\* What is not the owner's: the heartbeat, delivery, scanners, processes and
\* aclose().
LEMMA SnapshotRest ==
    ASSUME TypeOK, SnapshotInv,
           \/ BeatStep \/ PulseFails \/ LiveStep \/ HeartbeatExpires \/ HeartbeatLate
           \/ RecoveryStep /\ UNCHANGED taskVars
           \/ ProcessStep /\ UNCHANGED <<taskVars, recoveryVars>>
           \/ CrashStep \/ CloseStep
    PROVE  SnapshotInv'
  <1> USE DEF redisVars, processVars, taskVars, contextVars, outcomeVars, asideVars, deliveryVars
  <1>1. UNCHANGED stream => NoPatch
    BY DEF NoPatch
  <1>2. CASE BeatStep \/ PulseFails
    BY <1>1, <1>2, SnapshotQuiet DEF BeatStep, BeatTouch, BeatFails, PulseFails
  <1>3. CASE LiveStep
    BY <1>1, <1>3, SnapshotQuiet DEF LiveStep, LiveDeliver, LiveRead, LiveIdle, LiveClosed
  <1>4. CASE HeartbeatExpires \/ HeartbeatLate
    BY <1>1, <1>4, SnapshotQuiet DEF HeartbeatExpires, HeartbeatLate, HeartbeatAges
  <1>5. ASSUME NEW r \in Runners, ScanStep(r) \/ ScanFault(r), UNCHANGED taskVars
        PROVE  SnapshotInv'
    <2>1. CASE RecoverComplete(r)
      BY <1>1, <1>5, <2>1, RunnersAssumption, SnapshotQuiet DEF RecoverComplete, Completes
    <2>2. CASE RecoverXadd(r)
      <3>1. Publishing[scan[r]] # "patch"
        BY <2>2 DEF RecoverXadd, ScanAt, Publishing
      <3>2. NoPatch
        BY <2>2, <3>1, XaddNoPatch DEF RecoverXadd
      <3> QED BY <1>5, <2>2, <3>2, SnapshotQuiet DEF RecoverXadd
    <2>3. CASE ~RecoverComplete(r) /\ ~RecoverXadd(r)
      <3>1. UNCHANGED <<stream, completedBy>>
        BY <1>5, <2>3 DEF ScanStep, ScanExpired, ScanClaim, ScanStatus, ScanForget, RecoverLastSeq,
                          RecoverInitialModel, RecoverHset, RecoverMark, ScanRelease, ScanCancelled, ScanFault
      <3> QED BY <1>1, <1>5, <3>1, SnapshotQuiet
    <2> QED BY <2>1, <2>2, <2>3
  <1>6. CASE (ClaimExpires \/ ClaimOverrun) /\ UNCHANGED taskVars
    BY <1>1, <1>6, SnapshotQuiet DEF ClaimExpires, ClaimOverrun, ClaimEnds
  <1>7. CASE ProcessStep /\ UNCHANGED <<taskVars, recoveryVars>>
    BY <1>1, <1>7, SnapshotQuiet DEF ProcessStep, Stall, Resume, WatchdogFires, StateExpires
  <1>8. CASE CrashStep
    <2>1. PICK r \in Runners : Crash(r) /\ IF r = Owner THEN TaskLost ELSE UNCHANGED taskVars
      BY <1>8 DEF CrashStep
    <2>2. CASE TaskLost
      BY <1>1, <2>1, <2>2, SnapshotQuiet
      DEF Crash, TaskLost, Uncompleted, Prelude, StartSteps, BizRunning
    <2>3. CASE UNCHANGED taskVars
      BY <1>1, <2>1, <2>3, SnapshotQuiet DEF Crash
    <2> QED BY <2>1, <2>2, <2>3
  <1>9. CASE CloseStep
    BY <1>1, <1>9, SnapshotQuiet DEF CloseStep, CloseBegin, CloseEnd
  <1> QED BY <1>2, <1>3, <1>4, <1>5, <1>6, <1>7, <1>8, <1>9 DEF RecoveryStep

\* SnapshotInv holds in every reachable state.
LEMMA SnapshotAlways == Spec => []SnapshotInv
  <1>1. Init => SnapshotInv
    BY DEF Init, RedisInit, ProcessInit, TaskInit, SnapshotInv, PatchesIn, BizRunning
  <1>2. TypeOK /\ SnapshotInv /\ [Next]_vars => SnapshotInv'
    <2> SUFFICES ASSUME TypeOK, SnapshotInv, [Next]_vars
                 PROVE  SnapshotInv'
      OBVIOUS
    <2>1. CASE TaskStep
      BY <2>1, SnapshotStart, SnapshotExecute, SnapshotFinalize, SnapshotRest DEF TaskStep, WorkStep, TaskFault
    <2>2. CASE UNCHANGED vars
      BY <2>2 DEF vars, redisVars, processVars, taskVars, contextVars, outcomeVars, asideVars, SnapshotInv, PatchesIn
    <2> QED BY <2>1, <2>2, SnapshotRest DEF Next
  <1> QED BY <1>1, <1>2, TypeCorrect, PTL DEF Spec

\* The snapshot the owner hands to complete has every patch that the stream
\* holds then and ever after, whether the business task ended, failed, was
\* cancelled or lost its heartbeat.
THEOREM CompleteCovers == Spec => []SnapshotCoversStream
  <1>1. SnapshotInv => SnapshotCoversStream
    BY DEF SnapshotInv, PatchesIn, SnapshotCoversStream
  <1> QED BY <1>1, SnapshotAlways, PTL

--------------------------------------------------------------------------------
(* What goes with a process, and what run() and _execute have told          *)

\* A crash ends the coroutines of the process.  As long as _execute has no
\* outcome, no failure of run() is recorded as the completion source.
Unspawned == {"init_state", "init_touch", "init_complete", "pre_start", "start_xadd", "start_hset",
              "spawned", "waiting", "gathering"}

ProcessInv ==
    /\ process[Owner] = "down" => work = "dead"
    /\ \A r \in Runners : process[r] = "down" => scan[r] = "off"
    /\ work \in Unspawned => source # "pre_start"

\* A step of a running owner.
LEMMA ProcessTask ==
    ASSUME TypeOK, ProcessInv, TaskStep, UNCHANGED recoveryVars
    PROVE  ProcessInv'
  <1> USE DEF processVars, recoveryVars, outcomeVars, At, Unspawned
  <1>1. ASSUME UNCHANGED process, process[Owner] = "up",
               work' \in Unspawned => (work \in Unspawned /\ source' = source) \/ source' # "pre_start"
        PROVE  ProcessInv'
    BY <1>1 DEF ProcessInv
  <1>2. CASE InitRefused \/ InitState \/ InitTouch \/ InitComplete \/ PreStart \/ StartXadd \/ StartHset
    BY <1>1, <1>2 DEF InitRefused, InitState, InitTouch, InitComplete, PreStart, StartXadd, StartHset, Up
  <1>3. CASE ExecBegin \/ ExecWake \/ ExecGather
    BY <1>1, <1>3 DEF ExecBegin, ExecWake, AfterWait, WakeSource, CancelSource, ExecGather, Up
  <1>4. CASE BizStep \/ BeatStep \/ PulseFails
    BY <1>1, <1>4 DEF BizStep, BizXadd, BizHset, BizEnds, BizRuns, BeatStep, BeatTouch, BeatFails, PulseFails,
                      taskVars, Up
  <1>5. CASE Complete \/ TerminalXadd \/ TerminalHset \/ MarkStatus \/ StopBeat
    BY <1>1, <1>5 DEF Complete, TerminalXadd, TerminalHset, MarkStatus, StopBeat, Up
  <1>6. CASE MarkHeartbeat
    BY <1>1, <1>6 DEF MarkHeartbeat, Finalized, Up
  <1>7. CASE CancelRequest \/ CancelStart \/ CancelWait \/ CancelComplete \/ CancelEnds
    BY <1>1, <1>7 DEF CancelRequest, CancelStart, CancelWait, AfterWait, CancelSource, CancelComplete, CancelEnds,
                      CancelAt, Up
  <1>8. CASE TaskFault
    BY <1>1, <1>8 DEF TaskFault, InitFault, StartFault, TerminalFault, MarkFault, Finalized, BizFault, BizRuns, Up
  <1>9. CASE LiveStep
    BY <1>1, <1>9 DEF LiveStep, LiveDeliver, LiveRead, LiveIdle, LiveClosed, Up
  <1>10. CASE HeartbeatExpires \/ HeartbeatLate
    BY <1>10 DEF HeartbeatExpires, HeartbeatLate, HeartbeatAges, taskVars, ProcessInv
  <1> QED BY <1>2, <1>3, <1>4, <1>5, <1>6, <1>7, <1>8, <1>9, <1>10 DEF TaskStep, WorkStep

\* A step of a scanner whose instance runs, or of the environment.
LEMMA ProcessRest ==
    ASSUME TypeOK, ProcessInv,
           \/ RecoveryStep /\ UNCHANGED taskVars
           \/ ProcessStep /\ UNCHANGED <<taskVars, recoveryVars>>
           \/ CrashStep \/ CloseStep
    PROVE  ProcessInv'
  <1> USE DEF processVars, recoveryVars, taskVars, outcomeVars
  <1>1. /\ process \in [Runners -> {"up", "stalled", "down"}] /\ scan \in [Runners -> ScanSteps]
        /\ Owner \in Runners
    BY ProcessAssumption DEF TypeOK, ProcessTypeOK, RecoveryTypeOK
  <1>2. CASE RecoveryStep /\ UNCHANGED taskVars
    <2>1. UNCHANGED <<process, scan>>
          \/ \E r \in Runners : /\ process[r] = "up" /\ UNCHANGED process
                                /\ \A q \in Runners : q # r => scan'[q] = scan[q]
      <3>1. ASSUME NEW r \in Runners, ScanStep(r)
            PROVE  /\ process[r] = "up" /\ UNCHANGED process
                   /\ \A q \in Runners : q # r => scan'[q] = scan[q]
        BY <1>1, <3>1
        DEF ScanStep, ScanExpired, ScanClaim, ScanStatus, ScanForget, RecoverComplete, RecoverLastSeq,
            RecoverInitialModel, RecoverXadd, RecoverHset, RecoverMark, ScanRelease, ScanCancelled, ScanAt,
            ScanGoto, Up
      <3>2. ASSUME NEW r \in Runners, ScanFault(r)
            PROVE  /\ process[r] = "up" /\ UNCHANGED process
                   /\ \A q \in Runners : q # r => scan'[q] = scan[q]
        BY <1>1, <3>2 DEF ScanFault, ScanAt, ScanGoto, Up
      <3>3. CASE ClaimExpires \/ ClaimOverrun
        BY <3>3 DEF ClaimExpires, ClaimOverrun, ClaimEnds
      <3> QED BY <1>2, <3>1, <3>2, <3>3 DEF RecoveryStep
    <2> QED BY <1>2, <2>1 DEF ProcessInv
  <1>3. CASE ProcessStep /\ UNCHANGED <<taskVars, recoveryVars>>
    <2>1. ASSUME NEW r \in Runners, process'[r] = "down"
          PROVE  process[r] = "down"
      BY <1>1, <1>3, <2>1 DEF ProcessStep, Stall, Resume, WatchdogFires, StateExpires
    <2> QED BY <1>1, <1>3, <2>1 DEF ProcessInv
  <1>4. CASE CrashStep
    <2>1. PICK r \in Runners : /\ Crash(r) /\ ScanLost(r)
                               /\ IF r = Owner THEN TaskLost ELSE UNCHANGED taskVars
      BY <1>4 DEF CrashStep
    <2>2. \A q \in Runners : process'[q] = "down" => scan'[q] = "off"
      BY <1>1, <2>1 DEF Crash, ScanLost, ScanGoto, ProcessInv
    <2>3. CASE r = Owner
      BY <2>1, <2>2, <2>3 DEF TaskLost, ProcessInv, Unspawned
    <2>4. CASE r # Owner
      BY <1>1, <2>1, <2>2, <2>4 DEF Crash, ProcessInv
    <2> QED BY <2>3, <2>4
  <1>5. CASE CloseStep
    BY <1>5 DEF CloseStep, CloseBegin, CloseEnd, ProcessInv
  <1> QED BY <1>2, <1>3, <1>4, <1>5

\* ProcessInv holds in every reachable state.
LEMMA ProcessAlways == Spec => []ProcessInv
  <1>1. Init => ProcessInv
    BY ProcessAssumption DEF Init, ProcessInit, TaskInit, RecoveryInit, ProcessInv
  <1>2. TypeOK /\ ProcessInv /\ [Next]_vars => ProcessInv'
    <2> SUFFICES ASSUME TypeOK, ProcessInv, [Next]_vars
                 PROVE  ProcessInv'
      OBVIOUS
    <2>1. CASE UNCHANGED vars
      BY <2>1 DEF vars, processVars, taskVars, outcomeVars, recoveryVars, ProcessInv
    <2> QED BY <2>1, ProcessTask, ProcessRest DEF Next
  <1> QED BY <1>1, <1>2, TypeCorrect, PTL DEF Spec

\* Only aclose() cancels a scanner.
ShutdownInv == "close" \notin happened => \A r \in Runners : ~scanCancel[r]

\* ShutdownInv holds in every reachable state.
LEMMA ShutdownAlways == Spec => []ShutdownInv
  <1>1. Init => ShutdownInv
    BY DEF Init, RecoveryInit, ShutdownInv
  <1>2. TypeOK /\ ShutdownInv /\ [Next]_vars => ShutdownInv'
    <2> SUFFICES ASSUME TypeOK, ShutdownInv, [Next]_vars
                 PROVE  ShutdownInv'
      OBVIOUS
    <2> USE DEF redisVars, processVars, recoveryVars, Calm, Disturb
    <2>1. scanCancel \in [Runners -> BOOLEAN]
      BY DEF TypeOK, RecoveryTypeOK
    <2>2. CASE TaskStep /\ UNCHANGED recoveryVars
      BY <2>2, TaskHappens DEF ShutdownInv
    <2>3. CASE RecoveryStep /\ UNCHANGED taskVars
      <3>1. ASSUME NEW r \in Runners, ScanStep(r) \/ ScanFault(r)
            PROVE  /\ happened \subseteq happened'
                   /\ scanCancel' = scanCancel \/ scanCancel' = [scanCancel EXCEPT ![r] = FALSE]
        BY <3>1 DEF ScanStep, ScanExpired, ScanClaim, ScanStatus, ScanForget, RecoverComplete, RecoverLastSeq,
                    RecoverInitialModel, RecoverXadd, RecoverHset, RecoverMark, ScanRelease, ScanCancelled, ScanFault
      <3>2. CASE ClaimExpires \/ ClaimOverrun
        BY <3>2 DEF ClaimExpires, ClaimOverrun, ClaimEnds, ShutdownInv
      <3> QED BY <2>1, <2>3, <3>1, <3>2 DEF RecoveryStep, ShutdownInv
    <2>4. CASE ProcessStep /\ UNCHANGED <<taskVars, recoveryVars>>
      BY <2>4 DEF ProcessStep, Stall, Resume, WatchdogFires, StateExpires, ShutdownInv
    <2>5. CASE CrashStep
      BY <2>1, <2>5 DEF CrashStep, Crash, ScanLost, ShutdownInv
    <2>6. CASE CloseStep
      BY <2>6 DEF CloseStep, CloseBegin, CloseEnd, ShutdownInv
    <2>7. CASE UNCHANGED vars
      BY <2>7 DEF vars, ShutdownInv
    <2> QED BY <2>2, <2>3, <2>4, <2>5, <2>6, <2>7 DEF Next
  <1> QED BY <1>1, <1>2, TypeCorrect, PTL DEF Spec

--------------------------------------------------------------------------------
(* An end of a failure follows its error                                    *)

\* The inductive invariant behind ErrorBeforeEnd.  The outcome is settled before
\* anything terminal is stored, and whoever is about to store the end of a
\* failure has stored the error.
HasError(w) == \E j \in DOMAIN stream : stream[j].op = "error" /\ stream[j].by = w
HasEnd(w) == \E j \in DOMAIN stream : stream[j].op = "end" /\ stream[j].by = w

AfterEnd == {"end_hset", "mark_status", "mark_heartbeat", "stop_beat", "done", "dead"}
AfterError == {"error_hset", "end_xadd"} \cup AfterEnd
Erred == work = "error_hset" \/ (work = "end_xadd" /\ failed)

ErrorInv ==
    /\ ErrorBeforeEnd
    /\ HasError(Task) => failed /\ work \in AfterError
    /\ HasEnd(Task) => work \in AfterEnd
    /\ Erred => HasError(Task)
    /\ work = "error_xadd" => failed
    /\ \A r \in Runners : scan[r] \in {"error_hset", "end_xadd"} => HasError(r)

\* A step that stores nothing keeps ErrorInv when it settles the outcome before
\* anything terminal is stored, and no counter goes past an XADD by itself.
LEMMA ErrorQuiet ==
    ASSUME ErrorInv, stream' = stream, failed' = failed \/ work \notin AfterError,
           work \in AfterError => work' \in AfterError, work \in AfterEnd => work' \in AfterEnd,
           Erred' => Erred,
           work' = "error_xadd" => failed' \/ (work = "error_xadd" /\ failed' = failed),
           \A r \in Runners : scan'[r] \in {"error_hset", "end_xadd"} => scan[r] \in {"error_hset", "end_xadd"}
    PROVE  ErrorInv'
  <1>1. HasError(Task)' = HasError(Task) /\ HasEnd(Task)' = HasEnd(Task)
        /\ \A r \in Runners : HasError(r)' = HasError(r)
    BY DEF HasError, HasEnd
  <1>2. ErrorBeforeEnd'
    <2> SUFFICES ASSUME NEW i \in DOMAIN stream, stream[i].op = "end", stream[i].by = Task => failed'
                 PROVE  \E j \in 1..(i - 1) : stream[j].op = "error" /\ stream[j].by = stream[i].by
      BY DEF ErrorBeforeEnd
    <2>1. stream[i].by = Task => work \in AfterEnd
      BY DEF ErrorInv, HasEnd
    <2>2. ASSUME stream[i].by = Task PROVE failed
      <3>1. work \in AfterError
        BY <2>1, <2>2 DEF AfterError
      <3>2. failed' = failed
        BY <3>1
      <3>3. failed'
        BY <2>2
      <3> QED BY <3>2, <3>3
    <2> QED BY <2>2 DEF ErrorInv, ErrorBeforeEnd
  <1> QED BY <1>1, <1>2 DEF ErrorInv, AfterError

\* A step that stores an event keeps ErrorInv when it stores the end of a
\* failure after the error only.
LEMMA ErrorXadd ==
    ASSUME TypeOK, ErrorInv, NEW op, NEW n, NEW w, Xadd(op, n, w), failed' = failed,
           op = "end" /\ (w = Task => failed) => HasError(w),
           op = "end" /\ w = Task => work' \in AfterEnd,
           op = "error" /\ w = Task => failed /\ work' \in AfterError,
           work \in AfterError => work' \in AfterError, work \in AfterEnd => work' \in AfterEnd,
           Erred' => Erred \/ (op = "error" /\ w = Task),
           work' = "error_xadd" => work = "error_xadd",
           \A r \in Runners : scan'[r] \in {"error_hset", "end_xadd"}
                                  => scan[r] \in {"error_hset", "end_xadd"} \/ (op = "error" /\ w = r)
    PROVE  ErrorInv'
  <1> DEFINE e == [op |-> op, seq |-> n, by |-> w]
             m == Len(stream) + 1
  <1>1. /\ stream \in Seq(Event) /\ Len(stream) \in Nat /\ DOMAIN stream = 1..Len(stream)
        /\ DOMAIN stream' = 1..m /\ stream'[m] = e
        /\ \A i \in 1..Len(stream) : stream'[i] = stream[i]
    BY LenProperties, AppendProperties DEF TypeOK, RedisTypeOK, Xadd
  <1> HIDE DEF m
  <1>2. m \in Nat /\ m = Len(stream) + 1
    BY <1>1 DEF m
  <1>3. ASSUME NEW x
        PROVE  /\ HasError(x)' <=> HasError(x) \/ (op = "error" /\ w = x)
               /\ HasEnd(x)' <=> HasEnd(x) \/ (op = "end" /\ w = x)
    BY <1>1, <1>2 DEF HasError, HasEnd
  <1>4. ErrorBeforeEnd'
    <2> SUFFICES ASSUME NEW i \in DOMAIN stream', stream'[i].op = "end", stream'[i].by = Task => failed
                 PROVE  \E j \in 1..(i - 1) : stream'[j].op = "error" /\ stream'[j].by = stream'[i].by
      BY DEF ErrorBeforeEnd
    <2>1. CASE i = m
      <3>1. PICK j \in DOMAIN stream : stream[j].op = "error" /\ stream[j].by = w
        BY <1>1, <2>1 DEF HasError
      <3> QED BY <1>1, <1>2, <2>1, <3>1
    <2>2. CASE i # m
      <3>1. i \in DOMAIN stream /\ stream'[i] = stream[i]
        BY <1>1, <1>2, <2>2
      <3>2. PICK j \in 1..(i - 1) : stream[j].op = "error" /\ stream[j].by = stream[i].by
        BY <3>1 DEF ErrorInv, ErrorBeforeEnd
      <3> QED BY <1>1, <3>1, <3>2
    <2> QED BY <2>1, <2>2
  <1>5. HasError(Task)' => failed' /\ work' \in AfterError
    BY <1>3 DEF ErrorInv
  <1>6. HasEnd(Task)' => work' \in AfterEnd
    BY <1>3 DEF ErrorInv
  <1>7. Erred' => HasError(Task)'
    BY <1>3 DEF ErrorInv
  <1>8. \A r \in Runners : scan'[r] \in {"error_hset", "end_xadd"} => HasError(r)'
    BY <1>3 DEF ErrorInv
  <1> QED BY <1>4, <1>5, <1>6, <1>7, <1>8 DEF ErrorInv

\* The owner's steps before _finalize.
LEMMA ErrorExecute ==
    ASSUME TypeOK, ErrorInv, UNCHANGED recoveryVars,
           \/ InitRefused \/ InitState \/ InitTouch \/ InitComplete \/ PreStart \/ StartXadd \/ StartHset
           \/ ExecBegin \/ ExecWake \/ ExecGather \/ BizStep \/ BeatStep \/ PulseFails
    PROVE  ErrorInv'
  <1> USE DEF processVars, recoveryVars, outcomeVars, redisVars, At, AfterError, AfterEnd, Erred
  <1>1. CASE InitRefused \/ InitState \/ InitTouch \/ InitComplete
    BY <1>1, ErrorQuiet DEF InitRefused, InitState, InitTouch, InitComplete
  <1>2. CASE PreStart \/ StartHset
    BY <1>2, ErrorQuiet DEF PreStart, StartHset
  <1>3. CASE StartXadd
    BY <1>3, ErrorXadd DEF StartXadd
  <1>4. CASE ExecBegin \/ ExecGather
    BY <1>4, ErrorQuiet DEF ExecBegin, ExecGather
  <1>5. CASE ExecWake
    BY <1>5, ErrorQuiet DEF ExecWake, AfterWait
  <1>6. CASE BizXadd
    <2>1. CASE UNCHANGED stream
      BY <1>6, <2>1, ErrorQuiet DEF BizXadd
    <2>2. CASE Xadd("patch", inflight', Task)
      BY <1>6, <2>2, ErrorXadd DEF BizXadd
    <2> QED BY <1>6, <2>1, <2>2 DEF BizXadd
  <1>7. CASE BizHset \/ BizEnds
    BY <1>7, ErrorQuiet DEF BizHset, BizEnds
  <1>8. CASE BeatTouch \/ BeatFails \/ PulseFails
    BY <1>8, ErrorQuiet DEF BeatTouch, BeatFails, PulseFails, taskVars
  <1> QED BY <1>1, <1>2, <1>3, <1>4, <1>5, <1>6, <1>7, <1>8 DEF BizStep, BeatStep

\* _finalize, cancellation, failed commands and delivery.
LEMMA ErrorFinalize ==
    ASSUME TypeOK, ErrorInv, UNCHANGED recoveryVars,
           \/ Complete \/ TerminalXadd \/ TerminalHset \/ MarkStatus \/ MarkHeartbeat \/ StopBeat
           \/ CancelRequest \/ CancelStart \/ CancelWait \/ CancelComplete \/ CancelEnds
           \/ TaskFault \/ LiveStep \/ HeartbeatExpires \/ HeartbeatLate
    PROVE  ErrorInv'
  <1> USE DEF processVars, recoveryVars, outcomeVars, redisVars, At, CancelAt, FinalSteps, AfterError, AfterEnd, Erred
  <1>1. CASE Complete
    BY <1>1, ErrorQuiet DEF Complete
  <1>2. CASE TerminalXadd
    <2>1. CASE work = "error_xadd"
      <3>1. failed
        BY <1>2, <2>1 DEF TerminalXadd, ErrorInv
      <3> QED BY <1>2, <2>1, <3>1, ErrorXadd DEF TerminalXadd
    <2>2. CASE work = "end_xadd"
      <3>1. failed => HasError(Task)
        BY <2>2 DEF ErrorInv
      <3> QED BY <1>2, <2>2, <3>1, ErrorXadd DEF TerminalXadd
    <2> QED BY <1>2, <2>1, <2>2 DEF TerminalXadd
  <1>3. CASE TerminalHset
    BY <1>3, ErrorQuiet DEF TerminalHset
  <1>4. CASE MarkStatus \/ StopBeat
    BY <1>4, ErrorQuiet DEF MarkStatus, StopBeat
  <1>5. CASE MarkHeartbeat
    BY <1>5, ErrorQuiet DEF MarkHeartbeat, Finalized
  <1>6. CASE CancelRequest \/ CancelStart \/ CancelWait
    BY <1>6, ErrorQuiet DEF CancelRequest, CancelStart, CancelWait, AfterWait
  <1>7. CASE CancelComplete
    BY <1>7, ErrorQuiet DEF CancelComplete
  <1>8. CASE CancelEnds
    BY <1>8, ErrorQuiet DEF CancelEnds
  <1>9. CASE InitFault \/ StartFault \/ BizFault
    BY <1>9, ErrorQuiet DEF InitFault, StartFault, BizFault
  <1>10. CASE TerminalFault
    BY <1>10, ErrorQuiet DEF TerminalFault
  <1>11. CASE MarkFault
    BY <1>11, ErrorQuiet DEF MarkFault, Finalized
  <1>12. CASE LiveStep
    BY <1>12, ErrorQuiet DEF LiveStep, LiveDeliver, LiveRead, LiveIdle, LiveClosed
  <1>13. CASE HeartbeatExpires \/ HeartbeatLate
    BY <1>13, ErrorQuiet DEF HeartbeatExpires, HeartbeatLate, HeartbeatAges, taskVars
  <1> QED BY <1>1, <1>2, <1>3, <1>4, <1>5, <1>6, <1>7, <1>8, <1>9, <1>10, <1>11, <1>12, <1>13 DEF TaskFault

\* Scanners, processes and aclose().
LEMMA ErrorRest ==
    ASSUME TypeOK, ErrorInv,
           \/ RecoveryStep /\ UNCHANGED taskVars
           \/ ProcessStep /\ UNCHANGED <<taskVars, recoveryVars>>
           \/ CrashStep \/ CloseStep
    PROVE  ErrorInv'
  <1> USE DEF processVars, redisVars, taskVars, outcomeVars, recoveryVars, ScanAt, ScanGoto, AfterError, AfterEnd, Erred
  <1>1. scan \in [Runners -> ScanSteps]
    BY DEF TypeOK, RecoveryTypeOK
  <1>2. ASSUME NEW r \in Runners, ScanStep(r) \/ ScanFault(r), UNCHANGED taskVars
        PROVE  ErrorInv'
    <2>1. CASE ScanExpired(r) \/ ScanClaim(r) \/ ScanStatus(r) \/ ScanForget(r)
      BY <1>1, <1>2, <2>1, ErrorQuiet DEF ScanExpired, ScanClaim, ScanStatus, ScanForget
    <2>2. CASE RecoverComplete(r) \/ RecoverMark(r) \/ ScanRelease(r) \/ ScanCancelled(r)
      BY <1>1, <1>2, <2>2, ErrorQuiet DEF RecoverComplete, RecoverMark, ScanRelease, ScanCancelled
    <2>3. CASE RecoverLastSeq(r) \/ RecoverInitialModel(r)
      BY <1>1, <1>2, <2>3, ErrorQuiet DEF RecoverLastSeq, RecoverInitialModel
    <2>4. CASE RecoverHset(r)
      BY <1>1, <1>2, <2>4, ErrorQuiet DEF RecoverHset, AfterHset
    <2>5. CASE ScanFault(r)
      BY <1>1, <1>2, <2>5, ErrorQuiet DEF ScanFault
    <2>6. CASE RecoverXadd(r)
      <3>1. r # Task /\ scan[r] \in {"start_xadd", "error_xadd", "end_xadd"}
        BY <2>6, RunnersAssumption DEF RecoverXadd, Publishing
      <3>2. Publishing[scan[r]] = "end" => HasError(r)
        BY <3>1 DEF Publishing, ErrorInv
      <3>3. /\ Publishing[scan[r]] = "error" <=> scan[r] = "error_xadd"
            /\ scan' = [scan EXCEPT ![r] = AfterXadd[scan[r]]]
            /\ AfterXadd[scan[r]] = "error_hset" <=> scan[r] = "error_xadd"
            /\ AfterXadd[scan[r]] # "end_xadd"
        BY <2>6, <3>1 DEF RecoverXadd, Publishing, AfterXadd
      <3>4. \A q \in Runners : scan'[q] \in {"error_hset", "end_xadd"} =>
                scan[q] \in {"error_hset", "end_xadd"} \/ (Publishing[scan[r]] = "error" /\ r = q)
        BY <1>1, <3>3
      <3> QED BY <1>2, <2>6, <3>1, <3>2, <3>4, ErrorXadd DEF RecoverXadd
    <2> QED BY <1>2, <2>1, <2>2, <2>3, <2>4, <2>5, <2>6 DEF ScanStep
  <1>3. CASE (ClaimExpires \/ ClaimOverrun) /\ UNCHANGED taskVars
    BY <1>3, ErrorQuiet DEF ClaimExpires, ClaimOverrun, ClaimEnds
  <1>4. CASE ProcessStep /\ UNCHANGED <<taskVars, recoveryVars>>
    BY <1>4, ErrorQuiet DEF ProcessStep, Stall, Resume, WatchdogFires, StateExpires
  <1>5. CASE CrashStep
    <2>1. PICK r \in Runners : /\ Crash(r) /\ ScanLost(r)
                               /\ IF r = Owner THEN TaskLost ELSE UNCHANGED taskVars
      BY <1>5 DEF CrashStep
    <2>2. stream' = stream /\ failed' = failed /\ (work' = work \/ work' = "dead")
      BY <2>1 DEF Crash, TaskLost
    <2>3. \A q \in Runners : scan'[q] \in {"error_hset", "end_xadd"} => scan[q] \in {"error_hset", "end_xadd"}
      BY <1>1, <2>1 DEF ScanLost
    <2> QED BY <2>2, <2>3, ErrorQuiet
  <1>6. CASE CloseStep
    BY <1>6, ErrorQuiet DEF CloseStep, CloseBegin, CloseEnd
  <1> QED BY <1>2, <1>3, <1>4, <1>5, <1>6 DEF RecoveryStep

\* ErrorInv holds in every reachable state.
LEMMA ErrorAlways == Spec => []ErrorInv
  <1>1. Init => ErrorInv
    BY DEF Init, RedisInit, TaskInit, RecoveryInit, ErrorInv, ErrorBeforeEnd, HasError, HasEnd, Erred
  <1>2. TypeOK /\ ErrorInv /\ [Next]_vars => ErrorInv'
    <2> SUFFICES ASSUME TypeOK, ErrorInv, [Next]_vars
                 PROVE  ErrorInv'
      OBVIOUS
    <2>1. CASE TaskStep /\ UNCHANGED recoveryVars
      BY <2>1, ErrorExecute, ErrorFinalize DEF TaskStep, WorkStep
    <2>2. CASE UNCHANGED vars
      BY <2>2, ErrorQuiet DEF vars, redisVars, taskVars, outcomeVars, recoveryVars, Erred
    <2> QED BY <2>1, <2>2, ErrorRest DEF Next
  <1> QED BY <1>1, <1>2, TypeCorrect, PTL DEF Spec

\* Clients never see a clean end of a task that failed: whoever ends it as a
\* failure, the owner or the recovery of another instance, stored its error
\* first, whichever commands raised in between.
THEOREM FailuresAreShown == Spec => []ErrorBeforeEnd
  <1>1. ErrorInv => ErrorBeforeEnd
    BY DEF ErrorInv
  <1> QED BY <1>1, ErrorAlways, PTL

--------------------------------------------------------------------------------
(* The verdict                                                              *)

\* The inductive invariant behind VerdictMatchesLog and VerdictStands.  While no
\* loop stalls and no callback outlasts heartbeat_timeout, a heartbeat that
\* expires is that of an owner whose coroutines are over; whoever read it so,
\* claims, decides and publishes later, but the owner does nothing any more.
Alive == happened \cap {"stall", "late"} = {}
Over == work \in {"done", "dead"}
Decided == state.status \in {"completed", "failed"}
Marked == {"mark_heartbeat", "stop_beat", "done", "dead"}
Recovers == Recovered \cup {"complete"}
Scans == TrySteps \cup {"claim"}

VerdictInv ==
    Alive =>
        /\ process[Owner] # "stalled" /\ ~loopStalled
        /\ heartbeat = "expired" => Over
        /\ \A r \in Runners : scan[r] \in Scans => Over
        /\ \A i \in DOMAIN stream : stream[i].by \in Runners => Over
        /\ Decided => work \in Marked
        /\ state.status = "completed" => /\ \A r \in Runners : scan[r] \notin Recovers
                                         /\ \A i \in DOMAIN stream : stream[i].op # "error"

\* A step that decides nothing, ends no heartbeat and lets no scanner go on
\* keeps VerdictInv when what it stores is the owner's and no error.
LEMMA VerdictQuiet ==
    ASSUME VerdictInv, happened \subseteq happened',
           process'[Owner] # "stalled" \/ process'[Owner] = process[Owner], loopStalled' => loopStalled,
           heartbeat' = "expired" => heartbeat = "expired",
           Over => Over', work \in Marked => work' \in Marked,
           \/ state'.status = state.status
           \/ state'.status \in {"absent", "running"}
           \/ state'.status = "failed" /\ state.status # "completed" /\ work' \in Marked,
           \A r \in Runners : /\ scan'[r] \in Scans => scan[r] \in Scans
                              /\ scan'[r] \in Recovers => scan[r] \in Recovers,
           stream' = stream \/ \E op, n, w : /\ Xadd(op, n, w) /\ TypeOK
                                             /\ w \in Runners => Over
                                             /\ op = "error" => state.status # "completed"
    PROVE  VerdictInv'
  <1> SUFFICES ASSUME Alive'
               PROVE  VerdictInv'
    BY DEF VerdictInv
  <1>1. Alive
    BY DEF Alive
  <1>2. ASSUME NEW i \in DOMAIN stream'
        PROVE  /\ stream'[i].by \in Runners => Over
               /\ state'.status = "completed" => stream'[i].op # "error"
    <2>1. state'.status = "completed" => state.status = "completed"
      OBVIOUS
    <2>2. CASE stream' = stream
      BY <1>1, <1>2, <2>1, <2>2 DEF VerdictInv
    <2>3. CASE stream' # stream
      <3>1. PICK op, n, w : /\ Xadd(op, n, w) /\ TypeOK
                            /\ w \in Runners => Over
                            /\ op = "error" => state.status # "completed"
        BY <2>3
      <3>2. /\ stream \in Seq(Event)
            /\ stream' = Append(stream, [op |-> op, seq |-> n, by |-> w])
        BY <3>1 DEF TypeOK, RedisTypeOK, Xadd
      <3>3. CASE i = Len(stream) + 1
        BY <2>1, <3>1, <3>2, <3>3
      <3>4. CASE i # Len(stream) + 1
        <4>1. i \in DOMAIN stream /\ stream'[i] = stream[i]
          BY <3>2, <3>4
        <4> QED BY <1>1, <2>1, <4>1 DEF VerdictInv
      <3> QED BY <3>3, <3>4
    <2> QED BY <2>2, <2>3
  <1>3. Decided' => work' \in Marked
    BY <1>1 DEF VerdictInv, Decided
  <1>4. state'.status = "completed" => \A r \in Runners : scan'[r] \notin Recovers
    BY <1>1 DEF VerdictInv
  <1> QED BY <1>1, <1>2, <1>3, <1>4 DEF VerdictInv

\* The owner writes its verdict before it is over: no scanner has got hold of
\* the task and every event is the owner's, an error only if it failed.
LEMMA VerdictMark ==
    ASSUME TypeOK, VerdictInv, ErrorInv, work = "mark_status", work' \in Marked,
           HsetStatus(IF failed THEN "failed" ELSE "completed"), happened \subseteq happened',
           UNCHANGED <<stream, heartbeat, process, loopStalled, scan>>
    PROVE  VerdictInv'
  <1> SUFFICES ASSUME Alive'
               PROVE  VerdictInv'
    BY DEF VerdictInv
  <1>1. Alive /\ ~Over
    BY DEF Alive, Over
  <1>2. \A r \in Runners : scan[r] \notin Scans /\ scan[r] \notin Recovers
    BY <1>1 DEF VerdictInv, Scans, Recovers, Recovered, TrySteps
  <1>3. ASSUME NEW i \in DOMAIN stream, ~failed
        PROVE  stream[i].op # "error"
    <2>1. stream[i].by \in Writers
      <3>1. stream[i] \in Event
        BY <1>3, ElementOfSeq, LenProperties DEF TypeOK, RedisTypeOK
      <3> QED BY <3>1 DEF Event
    <2>2. stream[i].by = Task
      BY <1>1, <1>3, <2>1 DEF VerdictInv, Writers
    <2> QED BY <1>3, <2>2 DEF ErrorInv, HasError
  <1>4. state'.status = IF failed THEN "failed" ELSE "completed"
    BY DEF TypeOK, RedisTypeOK, State, HsetStatus
  <1>5. \A i \in DOMAIN stream : stream[i].by \notin Runners
    BY <1>1 DEF VerdictInv
  <1>6. process'[Owner] # "stalled" /\ ~loopStalled' /\ (heartbeat' = "expired" => Over')
    BY <1>1 DEF VerdictInv
  <1> QED BY <1>2, <1>3, <1>4, <1>5, <1>6 DEF VerdictInv

\* The owner's steps before _finalize.
LEMMA VerdictExecute ==
    ASSUME TypeOK, VerdictInv, UNCHANGED recoveryVars,
           \/ InitRefused \/ InitState \/ InitTouch \/ InitComplete \/ PreStart \/ StartXadd \/ StartHset
           \/ ExecBegin \/ ExecWake \/ ExecGather \/ BizStep \/ BeatStep \/ PulseFails
    PROVE  VerdictInv'
  <1> USE DEF processVars, recoveryVars, redisVars, At, Calm, Disturb, Over, Marked
  <1>1. ASSUME NEW n, HsetSeq(n)
        PROVE  state'.status = state.status
    BY <1>1 DEF TypeOK, RedisTypeOK, State, HsetSeq
  <1>2. Task \notin Runners
    BY RunnersAssumption
  <1>3. CASE InitRefused \/ InitComplete \/ PreStart
    BY <1>3, VerdictQuiet DEF InitRefused, InitComplete, PreStart
  <1>4. CASE InitState
    BY <1>4, VerdictQuiet DEF InitState, HsetTask
  <1>5. CASE InitTouch
    BY <1>5, VerdictQuiet DEF InitTouch, Zadd
  <1>6. CASE StartXadd
    BY <1>2, <1>6, VerdictQuiet DEF StartXadd
  <1>7. CASE StartHset
    BY <1>1, <1>7, VerdictQuiet DEF StartHset
  <1>8. CASE ExecBegin \/ ExecGather
    BY <1>8, VerdictQuiet DEF ExecBegin, ExecGather
  <1>9. CASE ExecWake
    BY <1>9, VerdictQuiet DEF ExecWake, AfterWait
  <1>10. CASE BizXadd
    <2>1. happened \subseteq happened'
      BY <1>10 DEF BizXadd, PatchSeq
    <2>2. stream' = stream \/ Xadd("patch", inflight', Task)
      BY <1>10 DEF BizXadd
    <2> QED BY <1>2, <1>10, <2>1, <2>2, VerdictQuiet DEF BizXadd
  <1>11. CASE BizHset
    BY <1>1, <1>11, VerdictQuiet DEF BizHset
  <1>12. CASE BizEnds
    BY <1>12, VerdictQuiet DEF BizEnds
  <1>13. CASE BeatTouch \/ BeatFails \/ PulseFails
    BY <1>13, VerdictQuiet DEF BeatTouch, BeatFails, PulseFails, Zadd, taskVars
  <1> QED BY <1>3, <1>4, <1>5, <1>6, <1>7, <1>8, <1>9, <1>10, <1>11, <1>12, <1>13 DEF BizStep, BeatStep

\* _finalize, cancellation and delivery.
LEMMA VerdictFinalize ==
    ASSUME TypeOK, VerdictInv, ErrorInv, UNCHANGED recoveryVars,
           \/ Complete \/ TerminalXadd \/ TerminalHset \/ MarkStatus \/ MarkHeartbeat \/ StopBeat
           \/ CancelRequest \/ CancelStart \/ CancelWait \/ CancelComplete \/ CancelEnds \/ LiveStep
    PROVE  VerdictInv'
  <1> USE DEF processVars, recoveryVars, redisVars, At, Calm, Disturb, CancelAt, FinalSteps, Over, Marked
  <1>1. ASSUME NEW n, HsetSeq(n)
        PROVE  state'.status = state.status
    BY <1>1 DEF TypeOK, RedisTypeOK, State, HsetSeq
  <1>2. CASE Complete
    BY <1>2, VerdictQuiet DEF Complete
  <1>3. CASE TerminalXadd
    <2>1. CASE Alive
      <3>1. Task \notin Runners /\ state.status # "completed"
        BY <1>3, <2>1, RunnersAssumption DEF TerminalXadd, VerdictInv, Decided
      <3> QED BY <1>3, <3>1, VerdictQuiet DEF TerminalXadd
    <2>2. CASE ~Alive
      BY <1>3, <2>2 DEF TerminalXadd, VerdictInv, Alive
    <2> QED BY <2>1, <2>2
  <1>4. CASE TerminalHset
    BY <1>1, <1>4, VerdictQuiet DEF TerminalHset
  <1>5. CASE MarkStatus
    BY <1>5, VerdictMark DEF MarkStatus
  <1>6. CASE MarkHeartbeat
    BY <1>6, VerdictQuiet DEF MarkHeartbeat, Finalized, Zrem
  <1>7. CASE StopBeat
    BY <1>7, VerdictQuiet DEF StopBeat
  <1>8. CASE CancelRequest \/ CancelWait
    BY <1>8, VerdictQuiet DEF CancelRequest, CancelWait, AfterWait
  <1>9. CASE CancelComplete
    BY <1>9, VerdictQuiet DEF CancelComplete
  <1>10. CASE CancelEnds
    BY <1>1, <1>10, VerdictQuiet DEF CancelEnds, Zrem
  <1>11. CASE LiveStep
    BY <1>11, VerdictQuiet DEF LiveStep, LiveDeliver, LiveRead, LiveIdle, LiveClosed
  <1>12. CASE CancelStart
    <2>1. state'.status \in {state.status, "running"}
      BY <1>1, <1>12 DEF CancelStart, HsetTask
    <2> QED BY <1>12, <2>1, VerdictQuiet DEF CancelStart, Zadd
  <1> QED BY <1>2, <1>3, <1>4, <1>5, <1>6, <1>7, <1>8, <1>9, <1>10, <1>11, <1>12

\* Failed commands of the owner, and its heartbeat.
LEMMA VerdictFault ==
    ASSUME TypeOK, VerdictInv, ErrorInv, ProcessInv, UNCHANGED recoveryVars,
           TaskFault \/ HeartbeatExpires \/ HeartbeatLate
    PROVE  VerdictInv'
  <1> USE DEF processVars, recoveryVars, redisVars, At, Calm, Disturb, Over, Marked
  <1>1. ASSUME NEW n, HsetSeq(n)
        PROVE  state'.status = state.status
    BY <1>1 DEF TypeOK, RedisTypeOK, State, HsetSeq
  <1>2. CASE InitFault
    BY <1>2, VerdictQuiet DEF InitFault, HsetTask, Zadd
  <1>3. CASE StartFault
    BY <1>1, <1>3, VerdictQuiet DEF StartFault
  <1>4. CASE TerminalFault
    BY <1>1, <1>4, VerdictQuiet DEF TerminalFault
  <1>5. CASE BizFault
    BY <1>1, <1>5, VerdictQuiet DEF BizFault
  <1>6. CASE MarkFault
    <2>1. CASE UNCHANGED state
      BY <1>6, <2>1, VerdictQuiet DEF MarkFault, Finalized
    <2>2. CASE work = "mark_status" /\ HsetStatus(IF failed THEN "failed" ELSE "completed")
      <3>1. work' \in Marked
        BY <1>6 DEF MarkFault, Finalized
      <3> QED BY <1>6, <2>2, <3>1, VerdictMark DEF MarkFault
    <2> QED BY <1>6, <2>1, <2>2 DEF MarkFault
  <1>7. CASE HeartbeatExpires
    <2>1. CASE Alive
      <3>1. process[Owner] \in {"up", "stalled", "down"} /\ work \in WorkSteps
        BY ProcessAssumption DEF TypeOK, ProcessTypeOK, TaskTypeOK, ControlTypeOK
      <3>2. ~loopStalled /\ process[Owner] # "stalled"
        BY <2>1 DEF VerdictInv
      <3>3. CASE process[Owner] = "down"
        <4>1. Over
          BY <3>3 DEF ProcessInv
        <4> QED BY <1>7, <2>1, <4>1 DEF HeartbeatExpires, HeartbeatAges, taskVars, VerdictInv, Alive, Decided
      <3>4. CASE process[Owner] = "up"
        <4>1. ~InRequest /\ ~Executing
          BY <1>7, <3>2, <3>4 DEF HeartbeatExpires, Engaged, Up
        <4>2. Over
          BY <3>1, <4>1 DEF InRequest, Executing, WorkSteps, FinalSteps, StartSteps, ProcessInv, Unspawned
        <4> QED BY <1>7, <2>1, <4>2 DEF HeartbeatExpires, HeartbeatAges, taskVars, VerdictInv, Alive, Decided
      <3> QED BY <3>1, <3>2, <3>3, <3>4
    <2>2. CASE ~Alive
      BY <1>7, <2>2 DEF HeartbeatExpires, VerdictInv, Alive
    <2> QED BY <2>1, <2>2
  <1>8. CASE HeartbeatLate
    BY <1>8 DEF HeartbeatLate, VerdictInv, Alive
  <1> QED BY <1>2, <1>3, <1>4, <1>5, <1>6, <1>7, <1>8 DEF TaskFault

\* A scanner reads, claims, decides and publishes: whoever is past its reads
\* recovers a task that is over.
LEMMA VerdictScan ==
    ASSUME TypeOK, VerdictInv, UNCHANGED taskVars, NEW r \in Runners, ScanStep(r) \/ ScanFault(r)
    PROVE  VerdictInv'
  <1> USE DEF processVars, redisVars, taskVars, Calm, Disturb, Over, Marked, ScanAt, ScanGoto
  <1>1. scan \in [Runners -> ScanSteps]
    BY DEF TypeOK, RecoveryTypeOK
  <1>2. ASSUME NEW n, HsetSeq(n)
        PROVE  state'.status = state.status
    BY <1>2 DEF TypeOK, RedisTypeOK, State, HsetSeq
  <1>3. HsetStatus("failed") => state'.status = "failed"
    BY DEF TypeOK, RedisTypeOK, State, HsetStatus
  <1>4. CASE ~Alive
    <2>1. happened \subseteq happened'
      BY DEF ScanStep, ScanExpired, ScanClaim, ScanStatus, ScanForget, RecoverComplete, RecoverLastSeq,
             RecoverInitialModel, RecoverXadd, RecoverHset, RecoverMark, ScanRelease, ScanCancelled, ScanFault
    <2> QED BY <1>4, <2>1 DEF VerdictInv, Alive
  <1>5. CASE Alive
    <2>1. scan[r] \in Scans => Over
      BY <1>5 DEF VerdictInv
    <2>2. scan[r] \in Recovers => scan[r] \in Scans /\ state.status # "completed"
      BY <1>5 DEF VerdictInv, Recovers, Recovered, Scans, TrySteps
    <2>3. CASE ScanExpired(r)
      BY <1>1, <1>5, <2>3 DEF ScanExpired, VerdictInv, Alive, Recovers, Recovered, Decided
    <2>4. CASE ScanClaim(r)
      BY <1>1, <2>1, <2>4, VerdictQuiet DEF ScanClaim, Scans, TrySteps, Recovers, Recovered
    <2>5. CASE ScanStatus(r)
      BY <1>1, <1>5, <2>1, <2>5 DEF ScanStatus, VerdictInv, Alive, Recovers, Recovered, Scans, TrySteps, Decided
    <2>6. CASE ScanForget(r)
      BY <1>1, <2>6, VerdictQuiet DEF ScanForget, Zrem, Scans, TrySteps, Recovers, Recovered
    <2>7. CASE RecoverComplete(r)
      BY <1>1, <2>7, VerdictQuiet DEF RecoverComplete, Scans, TrySteps, Recovers, Recovered
    <2>8. CASE RecoverLastSeq(r)
      BY <1>1, <2>8, VerdictQuiet DEF RecoverLastSeq, Scans, TrySteps, Recovers, Recovered
    <2>9. CASE RecoverInitialModel(r)
      BY <1>1, <2>9, VerdictQuiet DEF RecoverInitialModel, Scans, TrySteps, Recovers, Recovered
    <2>10. CASE RecoverXadd(r)
      <3>1. scan[r] \in {"start_xadd", "error_xadd", "end_xadd"}
        BY <2>10 DEF RecoverXadd, Publishing
      <3>2. AfterXadd[scan[r]] \in {"start_hset", "error_hset", "end_hset"}
        BY <3>1 DEF AfterXadd
      <3>3. Over /\ state.status # "completed" /\ scan[r] \in Recovers
        BY <2>1, <2>2, <3>1 DEF Recovers, Recovered
      <3>4. \A q \in Runners : /\ scan'[q] \in Scans => scan[q] \in Scans
                               /\ scan'[q] \in Recovers => scan[q] \in Recovers
        BY <1>1, <2>2, <2>10, <3>2, <3>3 DEF RecoverXadd
      <3>5. Xadd(Publishing[scan[r]], seen[r] + 1, r)
        BY <2>10 DEF RecoverXadd
      <3> QED BY <2>10, <3>3, <3>4, <3>5, VerdictQuiet DEF RecoverXadd
    <2>11. CASE RecoverHset(r)
      <3>1. scan[r] \in Recovers
        BY <2>11 DEF RecoverHset, AfterHset, Recovers, Recovered
      <3>2. \A q \in Runners : /\ scan'[q] \in Scans => scan[q] \in Scans
                               /\ scan'[q] \in Recovers => scan[q] \in Recovers
        BY <1>1, <2>2, <2>11, <3>1 DEF RecoverHset
      <3> QED BY <1>2, <2>11, <3>2, VerdictQuiet DEF RecoverHset
    <2>12. CASE RecoverMark(r)
      <3>1. scan[r] \in Recovers
        BY <2>12 DEF RecoverMark, Recovers, Recovered
      <3>2. \A q \in Runners : /\ scan'[q] \in Scans => scan[q] \in Scans
                               /\ scan'[q] \in Recovers => scan[q] \in Recovers
        BY <1>1, <2>2, <2>12, <3>1 DEF RecoverMark
      <3>3. work' \in Marked /\ state.status # "completed"
        BY <2>1, <2>2, <2>12, <3>1 DEF RecoverMark
      <3> QED BY <1>3, <2>12, <3>2, <3>3, VerdictQuiet DEF RecoverMark, Zrem
    <2>13. CASE ScanRelease(r)
      BY <1>1, <2>13, VerdictQuiet DEF ScanRelease, Scans, TrySteps, Recovers, Recovered
    <2>14. CASE ScanFault(r) \/ ScanCancelled(r)
      <3>1. \A q \in Runners : /\ scan'[q] \in Scans => scan[q] \in Scans
                               /\ scan'[q] \in Recovers => scan[q] \in Recovers
        BY <1>1, <2>14 DEF ScanFault, ScanCancelled, Scans, TrySteps, Recovers, Recovered
      <3>2. \/ state'.status = state.status
            \/ state'.status = "failed" /\ state.status # "completed" /\ work' \in Marked
        <4>1. CASE scan[r] = "mark_status" /\ HsetStatus("failed")
          BY <1>3, <2>1, <2>2, <4>1 DEF Recovers, Recovered
        <4> QED BY <1>2, <2>14, <4>1 DEF ScanFault, ScanCancelled, Unanswered
      <3>3. heartbeat' = "expired" => heartbeat = "expired"
        BY <2>14 DEF ScanFault, ScanCancelled, Unanswered, Zrem
      <3> QED BY <2>14, <3>1, <3>2, <3>3, VerdictQuiet DEF ScanFault, ScanCancelled
    <2> QED BY <2>3, <2>4, <2>5, <2>6, <2>7, <2>8, <2>9, <2>10, <2>11, <2>12, <2>13, <2>14 DEF ScanStep
  <1> QED BY <1>4, <1>5

\* The claim, processes and aclose().
LEMMA VerdictRest ==
    ASSUME TypeOK, VerdictInv,
           \/ (ClaimExpires \/ ClaimOverrun) /\ UNCHANGED taskVars
           \/ ProcessStep /\ UNCHANGED <<taskVars, recoveryVars>>
           \/ CrashStep \/ CloseStep
    PROVE  VerdictInv'
  <1> USE DEF processVars, redisVars, taskVars, recoveryVars, Calm, Disturb, Over, Marked
  <1>1. /\ process \in [Runners -> {"up", "stalled", "down"}] /\ scan \in [Runners -> ScanSteps]
        /\ Owner \in Runners
    BY ProcessAssumption DEF TypeOK, ProcessTypeOK, RecoveryTypeOK
  <1>2. CASE (ClaimExpires \/ ClaimOverrun) /\ UNCHANGED taskVars
    BY <1>2, VerdictQuiet DEF ClaimExpires, ClaimOverrun, ClaimEnds
  <1>3. CASE ProcessStep /\ UNCHANGED <<taskVars, recoveryVars>>
    <2>1. ASSUME NEW r \in Runners, Stall(r)
          PROVE  VerdictInv'
      BY <2>1 DEF Stall, VerdictInv, Alive
    <2>2. ASSUME NEW r \in Runners, Resume(r)
          PROVE  VerdictInv'
      BY <1>1, <1>3, <2>2, VerdictQuiet DEF Resume
    <2>3. CASE WatchdogFires
      BY <2>3 DEF WatchdogFires, VerdictInv, Alive
    <2>4. CASE StateExpires
      BY <1>3, <2>4, VerdictQuiet DEF StateExpires, NoState
    <2> QED BY <1>3, <2>1, <2>2, <2>3, <2>4 DEF ProcessStep
  <1>4. CASE CrashStep
    <2>1. PICK r \in Runners : /\ Crash(r) /\ ScanLost(r)
                               /\ IF r = Owner THEN TaskLost ELSE UNCHANGED taskVars
      BY <1>4 DEF CrashStep
    <2>2. work' = work \/ work' = "dead"
      BY <2>1 DEF TaskLost
    <2>3. process'[Owner] # "stalled" \/ process'[Owner] = process[Owner]
      BY <1>1, <2>1 DEF Crash
    <2>4. \A q \in Runners : /\ scan'[q] \in Scans => scan[q] \in Scans
                             /\ scan'[q] \in Recovers => scan[q] \in Recovers
      BY <1>1, <2>1 DEF ScanLost, ScanGoto, Scans, TrySteps, Recovers, Recovered
    <2> QED BY <2>1, <2>2, <2>3, <2>4, VerdictQuiet DEF Crash
  <1>5. CASE CloseStep
    BY <1>5, VerdictQuiet DEF CloseStep, CloseBegin, CloseEnd
  <1> QED BY <1>2, <1>3, <1>4, <1>5

\* VerdictInv holds in every reachable state.
LEMMA VerdictAlways == Spec => []VerdictInv
  <1>1. Init => VerdictInv
    BY ProcessAssumption DEF Init, RedisInit, NoState, ProcessInit, TaskInit, RecoveryInit, VerdictInv, Scans,
                             TrySteps, Recovers, Recovered, Decided
  <1>2. TypeOK /\ VerdictInv /\ ErrorInv /\ ProcessInv /\ [Next]_vars => VerdictInv'
    <2> SUFFICES ASSUME TypeOK, VerdictInv, ErrorInv, ProcessInv, [Next]_vars
                 PROVE  VerdictInv'
      OBVIOUS
    <2>1. CASE TaskStep /\ UNCHANGED recoveryVars
      BY <2>1, VerdictExecute, VerdictFinalize, VerdictFault DEF TaskStep, WorkStep
    <2>2. CASE RecoveryStep /\ UNCHANGED taskVars
      BY <2>2, VerdictScan, VerdictRest DEF RecoveryStep
    <2>3. CASE UNCHANGED vars
      BY <2>3, VerdictQuiet DEF vars, redisVars, processVars, taskVars, recoveryVars, Over
    <2> QED BY <2>1, <2>2, <2>3, VerdictRest DEF Next
  <1> QED BY <1>1, <1>2, TypeCorrect, ErrorAlways, ProcessAlways, PTL DEF Spec

\* The status and the log tell one story: a task marked completed has no error
\* in its log, whoever crashed, retried or cancelled, unless a living owner was
\* taken for dead.
THEOREM StatusMatchesLog == Spec => []VerdictMatchesLog
  <1>1. VerdictInv => VerdictMatchesLog
    BY DEF VerdictInv, Alive, VerdictMatchesLog
  <1> QED BY <1>1, VerdictAlways, PTL

\* A verdict is final: no step of an owner, of a scanner or of the clock replaces
\* it, unless a living owner was taken for dead.
THEOREM StatusStands == Spec => VerdictStands
  <1> DEFINE Stays == Decided /\ Alive => state'.status = state.status
  <1>1. TypeOK /\ VerdictInv /\ [Next]_vars => Stays
    <2> SUFFICES ASSUME TypeOK, VerdictInv, [Next]_vars, Decided, Alive
                 PROVE  state'.status = state.status
      OBVIOUS
    <2> USE DEF redisVars, At, Marked
    <2>1. ASSUME NEW n, HsetSeq(n)
          PROVE  state'.status = state.status
      BY <2>1 DEF TypeOK, RedisTypeOK, State, HsetSeq
    <2>2. work \in Marked
      BY DEF VerdictInv
    <2>3. ASSUME NEW r \in Runners, ScanStep(r) \/ ScanFault(r)
          PROVE  state'.status = state.status
      <3>1. scan[r] = "mark_status" => state.status = "failed"
        BY DEF VerdictInv, Decided, Recovers, Recovered
      <3>2. HsetStatus("failed") => state'.status = "failed"
        BY DEF TypeOK, RedisTypeOK, State, HsetStatus
      <3>3. CASE ScanFault(r)
        BY <2>1, <3>1, <3>2, <3>3 DEF ScanFault, Unanswered
      <3>4. CASE ScanStep(r)
        BY <2>1, <3>1, <3>2, <3>4
        DEF ScanStep, ScanExpired, ScanClaim, ScanStatus, ScanForget, RecoverComplete, RecoverLastSeq,
            RecoverInitialModel, RecoverXadd, RecoverHset, RecoverMark, ScanRelease, ScanCancelled, Unanswered
      <3> QED BY <2>3, <3>3, <3>4
    <2>4. CASE (ClaimExpires \/ ClaimOverrun) /\ UNCHANGED taskVars
      BY <2>4 DEF ClaimExpires, ClaimOverrun, ClaimEnds
    <2>5. CASE ProcessStep \/ CrashStep \/ CloseStep
      BY <2>5 DEF ProcessStep, Stall, Resume, WatchdogFires, StateExpires, Decided, CrashStep, Crash, CloseStep,
                  CloseBegin, CloseEnd
    <2>6. CASE TaskStep
      <3>1. CASE InitRefused \/ InitState \/ InitTouch \/ InitComplete \/ PreStart \/ StartXadd \/ StartHset
                 \/ ExecBegin \/ ExecWake \/ ExecGather
        BY <2>2, <3>1 DEF InitRefused, InitState, InitTouch, InitComplete, PreStart, StartXadd, StartHset,
                          ExecBegin, ExecWake, ExecGather
      <3>2. CASE Complete \/ TerminalXadd \/ TerminalHset \/ MarkStatus \/ MarkHeartbeat \/ StopBeat
        BY <2>2, <3>2 DEF Complete, TerminalXadd, TerminalHset, MarkStatus, MarkHeartbeat, StopBeat
      <3>3. CASE CancelRequest \/ CancelStart \/ CancelWait \/ CancelComplete \/ CancelEnds
        BY <2>1, <2>2, <3>3 DEF CancelRequest, CancelAt, CancelStart, CancelWait, CancelComplete, CancelEnds
      <3>4. CASE BizStep \/ BeatStep \/ PulseFails
        BY <2>1, <3>4 DEF BizStep, BizXadd, BizHset, BizEnds, BeatStep, BeatTouch, BeatFails, PulseFails
      <3>5. CASE TaskFault
        BY <2>1, <2>2, <3>5 DEF TaskFault, InitFault, StartFault, TerminalFault, MarkFault, BizFault
      <3>6. CASE LiveStep \/ HeartbeatExpires \/ HeartbeatLate
        BY <3>6 DEF LiveStep, LiveDeliver, LiveRead, LiveIdle, LiveClosed, HeartbeatExpires, HeartbeatLate,
                    HeartbeatAges
      <3> QED BY <2>6, <3>1, <3>2, <3>3, <3>4, <3>5, <3>6 DEF TaskStep, WorkStep
    <2>7. CASE UNCHANGED vars
      BY <2>7 DEF vars
    <2> QED BY <2>3, <2>4, <2>5, <2>6, <2>7 DEF Next, RecoveryStep
  <1>2. [Stays]_vars => [state.status \in {"completed", "failed"} /\ happened \cap {"stall", "late"} = {}
                             => state'.status = state.status]_vars
    BY DEF Decided, Alive
  <1> QED BY <1>1, <1>2, VerdictAlways, TypeCorrect, PTL DEF Spec, VerdictStands

--------------------------------------------------------------------------------
(* The order of the log                                                     *)

\* The inductive invariant behind SeqOrder.  While nothing but crashes disturbs
\* the task, the owner is at most one event ahead of the stored last_seq, and
\* only between an XADD and its HSET; nobody recovers the task before its owner
\* crashed, and then one instance at a time, from the stored last_seq.
Quiet == happened \subseteq {"crash"}
HsetSteps == {"start_hset", "restart_hset", "error_hset", "end_hset"}
Numbered(n) == \A i \in DOMAIN stream : stream[i].seq <= n
Ahead == work \in HsetSteps \/ biz = "stream_hset"
Undisturbed == /\ pulse = "running" /\ beat # "failed" /\ ~loopStalled
               /\ ~cancel /\ closer[Owner] = "open"
               /\ work \notin {"gathering", "dead", "init_complete"}

Orderly ==
    /\ Undisturbed
    /\ Increasing(TRUE) /\ Numbered(emitted)
    /\ published = state.last_seq
    /\ emitted = IF Ahead THEN published + 1 ELSE published
    /\ biz = "stream_hset" => inflight = emitted
    /\ work \in {"mark_heartbeat", "stop_beat", "done"} => Decided
    /\ work = "init_state" => emitted = 0
    /\ \A r \in Runners : scan[r] \notin Recovers

Resumed(r) ==
    /\ scan[r] \in {"initial_model"} \cup DOMAIN Publishing => seen[r] = state.last_seq
    /\ scan[r] \in DOMAIN AfterHset => seen[r] = state.last_seq + 1

Resumable ==
    /\ happened # {}
    /\ Increasing(FALSE) /\ Numbered(state.last_seq + 1)
    /\ \A r \in Runners : Resumed(r)

OrderInv == Quiet => IF process[Owner] # "down" THEN Orderly ELSE Resumable

\* An event that goes on numbering keeps the log in order, strictly when it
\* takes a number of its own.
LEMMA OrderXadd ==
    ASSUME TypeOK, NEW strictly \in BOOLEAN, Increasing(strictly), NEW m \in Nat, NEW n \in Nat, Numbered(m),
           IF strictly THEN m < n ELSE m <= n, NEW op, NEW w, Xadd(op, n, w)
    PROVE  Increasing(strictly)' /\ \A i \in DOMAIN stream' : stream'[i].seq <= n
  <1>1. /\ stream \in Seq(Event) /\ Len(stream) \in Nat /\ DOMAIN stream = 1..Len(stream)
        /\ DOMAIN stream' = 1..(Len(stream) + 1)
        /\ stream'[Len(stream) + 1].seq = n
        /\ \A i \in 1..Len(stream) : stream'[i] = stream[i]
    BY LenProperties, AppendProperties DEF TypeOK, RedisTypeOK, Xadd
  <1>2. \A i \in 1..Len(stream) : stream[i].seq \in Nat /\ stream[i].seq <= m
    <2>1. \A i \in 1..Len(stream) : stream[i] \in Event
      BY <1>1, ElementOfSeq
    <2> QED BY <1>1, <2>1 DEF Event, Numbered
  <1>3. ASSUME NEW i \in DOMAIN stream', NEW j \in DOMAIN stream', i < j
        PROVE  stream'[i].seq < stream'[j].seq \/ (~strictly /\ stream'[i].seq = stream'[j].seq)
    <2>1. i \in 1..Len(stream)
      BY <1>1, <1>3
    <2>2. CASE j \in 1..Len(stream)
      BY <1>1, <1>3, <2>1, <2>2 DEF Increasing
    <2>3. CASE j = Len(stream) + 1
      BY <1>1, <1>2, <2>1, <2>3
    <2> QED BY <1>1, <2>2, <2>3
  <1>4. ASSUME NEW i \in DOMAIN stream'
        PROVE  stream'[i].seq <= n
    <2>1. CASE i \in 1..Len(stream)
      BY <1>1, <1>2, <2>1
    <2>2. CASE i = Len(stream) + 1
      BY <1>1, <2>2
    <2> QED BY <1>1, <2>1, <2>2
  <1> QED BY <1>3, <1>4 DEF Increasing

\* A step of the owner that stores nothing keeps Orderly when published follows
\* last_seq and the number in use, if any, stays in use.
LEMMA OrderQuiet ==
    ASSUME Orderly, Undisturbed', stream' = stream, emitted' = emitted, scan' = scan, published' = state'.last_seq,
           emitted = IF Ahead' THEN published' + 1 ELSE published',
           biz' = "stream_hset" => biz = "stream_hset" /\ inflight' = inflight,
           work' \in {"mark_heartbeat", "stop_beat", "done"} => Decided',
           work' = "init_state" => work = "init_state"
    PROVE  Orderly'
  BY DEF Orderly, Increasing, Numbered

\* A step that stores the next event of the owner keeps it.
LEMMA OrderNext ==
    ASSUME TypeOK, Orderly, Undisturbed', emitted = published, emitted' = emitted + 1, NEW op,
           Xadd(op, emitted + 1, Task), UNCHANGED <<state, published, scan>>, Ahead',
           biz' = "stream_hset" => inflight' = emitted',
           work' \notin {"init_state", "mark_heartbeat", "stop_beat", "done"}
    PROVE  Orderly'
  <1>1. emitted \in Nat /\ emitted + 1 \in Nat /\ emitted < emitted + 1
    BY DEF TypeOK, TaskTypeOK, ContextTypeOK
  <1>2. Increasing(TRUE)' /\ \A i \in DOMAIN stream' : stream'[i].seq <= emitted + 1
    BY <1>1, OrderXadd DEF Orderly
  <1> QED BY <1>1, <1>2 DEF Orderly, Numbered

\* The owner's steps, of which the faults, the cancellations and those of a
\* stalled or closing instance are not quiet.
LEMMA OrderOwner ==
    ASSUME TypeOK, Orderly, SnapshotInv, Quiet', TaskStep, UNCHANGED recoveryVars
    PROVE  Orderly'
  <1> USE DEF recoveryVars, redisVars, processVars, contextVars, outcomeVars, asideVars, At, Undisturbed, HsetSteps
  <1>1. /\ emitted \in Nat /\ published \in Nat
        /\ \A n : HsetSeq(n) => state'.last_seq = n /\ state'.status = state.status
        /\ \A s : HsetStatus(s) => state'.last_seq = state.last_seq /\ state'.status = s
    BY DEF TypeOK, TaskTypeOK, ContextTypeOK, RedisTypeOK, State, HsetSeq, HsetStatus
  <1>2. Undisturbed /\ published = state.last_seq /\ emitted = IF Ahead THEN published + 1 ELSE published
    BY DEF Orderly
  <1>3. /\ work \in Uncompleted \/ biz \notin BizRunning
        /\ biz \in BizRunning => work \in {"waiting", "gathering"}
        /\ work \in Prelude => biz = "none"
    BY DEF SnapshotInv, Uncompleted
  <1>4. ASSUME NEW kind, Disturb(kind)
        PROVE  kind = "crash"
    BY <1>4 DEF Disturb, Quiet
  <1>5. CASE InitRefused \/ InitComplete
    BY <1>2, <1>5 DEF InitRefused, InitComplete, Closing
  <1>6. CASE InitState
    <2>1. emitted = 0 /\ biz = "none" /\ state'.last_seq = 0
      BY <1>3, <1>6 DEF InitState, HsetTask, Orderly, Prelude, StartSteps
    <2> QED BY <1>1, <1>2, <1>6, <2>1, OrderQuiet DEF InitState, Ahead
  <1>7. CASE InitTouch
    BY <1>2, <1>7, OrderQuiet DEF InitTouch, Ahead
  <1>8. CASE PreStart
    BY <1>2, <1>8, OrderQuiet DEF PreStart, Ahead
  <1>9. CASE StartXadd
    <2>1. biz = "none"
      BY <1>3, <1>9 DEF StartXadd, Prelude, StartSteps
    <2> QED BY <1>1, <1>2, <1>9, <2>1, OrderNext DEF StartXadd, NumberEvent, Ahead
  <1>10. CASE StartHset
    <2>1. biz = "none"
      BY <1>3, <1>10 DEF StartHset, Prelude, StartSteps
    <2> QED BY <1>1, <1>2, <1>10, <2>1, OrderQuiet DEF StartHset, Ahead
  <1>11. CASE ExecBegin
    <2>1. biz = "none"
      BY <1>3, <1>11 DEF ExecBegin, Prelude
    <2> QED BY <1>2, <1>11, <2>1, OrderQuiet DEF ExecBegin, Ahead
  <1>12. CASE ExecWake
    <2>1. biz \in BizOver /\ work' = "complete"
      BY <1>2, <1>12 DEF ExecWake, AfterWait
    <2> QED BY <1>2, <1>12, <2>1, OrderQuiet DEF ExecWake, BizOver, Ahead
  <1>13. CASE ExecGather
    BY <1>2, <1>13 DEF ExecGather
  <1>14. CASE BizXadd
    <2>1. work = "waiting" /\ emitted = published
      BY <1>2, <1>3, <1>14 DEF BizXadd, BizRunning, Ahead
    <2>2. inflight' = emitted + 1 /\ emitted' = emitted + 1
      BY <1>4, <1>14 DEF BizXadd, PatchSeq
    <2>3. biz' = "stream_hset" /\ Xadd("patch", emitted + 1, Task)
      BY <1>1, <1>14, <2>1, <2>2 DEF BizXadd
    <2> QED BY <1>2, <1>14, <2>1, <2>2, <2>3, OrderNext DEF BizXadd, Ahead
  <1>15. CASE BizHset
    <2>1. work = "waiting" /\ inflight = emitted
      BY <1>2, <1>3, <1>15 DEF BizHset, BizRunning, Orderly
    <2> QED BY <1>1, <1>2, <1>15, <2>1, OrderQuiet DEF BizHset, Ahead
  <1>16. CASE BizEnds
    <2>1. work = "waiting"
      BY <1>2, <1>3, <1>16 DEF BizEnds, BizRunning
    <2> QED BY <1>2, <1>16, <2>1, OrderQuiet DEF BizEnds, BizOver, Ahead
  <1>17. CASE BeatStep \/ PulseFails
    <2>1. BeatTouch
      BY <1>2, <1>4, <1>17 DEF BeatStep, BeatFails, PulseFails
    <2> QED BY <2>1 DEF BeatTouch, taskVars, Orderly, Increasing, Numbered, Ahead, Decided
  <1>18. CASE Complete
    <2>1. biz \notin BizRunning
      BY <1>3, <1>18 DEF Complete
    <2> QED BY <1>2, <1>18, <2>1, OrderQuiet DEF Complete, BizRunning, Ahead
  <1>19. CASE TerminalXadd
    <2>1. biz \notin BizRunning
      BY <1>3, <1>19 DEF TerminalXadd
    <2> QED BY <1>1, <1>2, <1>19, <2>1, OrderNext DEF TerminalXadd, BizRunning, Ahead
  <1>20. CASE TerminalHset
    <2>1. biz \notin BizRunning
      BY <1>3, <1>20 DEF TerminalHset
    <2> QED BY <1>1, <1>2, <1>20, <2>1, OrderQuiet DEF TerminalHset, BizRunning, Ahead
  <1>21. CASE MarkStatus
    <2>1. biz \notin BizRunning
      BY <1>3, <1>21 DEF MarkStatus
    <2>2. state'.last_seq = state.last_seq /\ Decided'
      BY <1>1, <1>21 DEF MarkStatus, Decided
    <2> QED BY <1>2, <1>21, <2>1, <2>2, OrderQuiet DEF MarkStatus, BizRunning, Ahead
  <1>22. CASE MarkHeartbeat \/ StopBeat
    <2>1. biz \notin BizRunning /\ Decided
      BY <1>3, <1>22 DEF MarkHeartbeat, StopBeat, Orderly
    <2> QED BY <1>2, <1>22, <2>1, OrderQuiet DEF MarkHeartbeat, Finalized, StopBeat, BeatStopped, BizRunning, Ahead,
                                                 Decided
  <1>23. CASE CancelRequest \/ CancelStart \/ CancelWait \/ CancelComplete \/ CancelEnds
    BY <1>2, <1>4, <1>23 DEF CancelRequest, CancelStart, CancelWait, CancelComplete, CancelEnds, CancelAt
  <1>24. CASE TaskFault
    BY <1>4, <1>24 DEF TaskFault, InitFault, StartFault, TerminalFault, MarkFault, BizFault
  <1>25. CASE LiveStep
    <2>1. UNCHANGED <<redisVars, loopStalled, closer, work, cancel, contextVars, asideVars, scan>>
      BY <1>25 DEF LiveStep, LiveDeliver, LiveRead, LiveIdle, LiveClosed
    <2> QED BY <2>1 DEF Orderly, Increasing, Numbered, Ahead, Decided
  <1>26. CASE HeartbeatExpires \/ HeartbeatLate
    <2>1. UNCHANGED <<state, stream, loopStalled, closer, work, cancel, contextVars, asideVars, scan>>
      BY <1>26 DEF HeartbeatExpires, HeartbeatLate, HeartbeatAges, taskVars
    <2> QED BY <2>1 DEF Orderly, Increasing, Numbered, Ahead, Decided
  <1> QED BY <1>5, <1>6, <1>7, <1>8, <1>9, <1>10, <1>11, <1>12, <1>13, <1>14, <1>15, <1>16, <1>17, <1>18, <1>19,
             <1>20, <1>21, <1>22, <1>23, <1>24, <1>25, <1>26 DEF TaskStep, WorkStep, BizStep

\* All that happens to an owner that crashed is that its heartbeat expires.
LEMMA OrderLost ==
    ASSUME OrderInv, Quiet, process[Owner] = "down", TaskStep, UNCHANGED recoveryVars
    PROVE  OrderInv'
  <1> USE DEF At, Up
  <1>1. ~WorkStep
    BY DEF WorkStep, InitRefused, InitState, InitTouch, InitComplete, PreStart, StartXadd, StartHset, ExecBegin,
           ExecWake, ExecGather, Complete, TerminalXadd, TerminalHset, MarkStatus, MarkHeartbeat, StopBeat,
           CancelStart, CancelWait, CancelComplete, CancelEnds, CancelAt
  <1>2. ~BizStep /\ ~BeatStep /\ ~PulseFails /\ ~LiveStep
    BY DEF BizStep, BizXadd, BizHset, BizEnds, BizRuns, BeatStep, BeatTouch, BeatFails, PulseFails,
           LiveStep, LiveDeliver, LiveRead, LiveIdle, LiveClosed
  <1>3. ~TaskFault /\ ~CancelRequest
    BY DEF TaskFault, InitFault, StartFault, TerminalFault, MarkFault, BizFault, BizRuns, CancelRequest
  <1>4. CASE HeartbeatExpires \/ HeartbeatLate
    <2>1. UNCHANGED <<state, stream, process, recoveryVars>> /\ happened \subseteq happened'
      BY <1>4 DEF HeartbeatExpires, HeartbeatLate, HeartbeatAges, Calm, Disturb
    <2>2. Resumable
      BY DEF OrderInv
    <2>3. Resumable'
      BY <2>1, <2>2 DEF Resumable, Increasing, Numbered, Resumed, recoveryVars
    <2> QED BY <2>1, <2>3 DEF OrderInv
  <1> QED BY <1>1, <1>2, <1>3, <1>4 DEF TaskStep

\* A scanner waits for the owner's crash, and is then alone.
LEMMA OrderScan ==
    ASSUME TypeOK, OrderInv, ClaimInv, VerdictInv, ProcessInv, ShutdownInv, NEW r \in Runners,
           ScanStep(r) \/ ScanFault(r), UNCHANGED taskVars, Quiet'
    PROVE  OrderInv'
  <1> USE DEF processVars, redisVars, ScanAt, ScanGoto, Calm
  <1>1. /\ scan \in [Runners -> ScanSteps] /\ seen \in [Runners -> Nat] /\ state \in State
        /\ Owner \in Runners
    BY ProcessAssumption DEF TypeOK, RecoveryTypeOK, RedisTypeOK
  <1>2. ~ScanFault(r) /\ ~ScanCancelled(r)
    BY DEF ScanFault, ScanCancelled, Disturb, Quiet, ShutdownInv
  <1>3. UNCHANGED <<process, happened, loopStalled, closer>>
    BY <1>2 DEF ScanStep, ScanExpired, ScanClaim, ScanStatus, ScanForget, RecoverComplete, RecoverLastSeq,
                RecoverInitialModel, RecoverXadd, RecoverHset, RecoverMark, ScanRelease
  <1>4. Quiet /\ Alive /\ InTime
    BY <1>3 DEF Quiet, Alive, InTime
  <1>5. CASE process[Owner] # "down"
    <2>1. Orderly /\ scan[r] \notin Recovers /\ \A q \in Runners : scan[q] \notin Recovers
      BY <1>4, <1>5 DEF OrderInv, Orderly
    <2>2. scan[r] = "status" => state.status # "running"
      <3>1. scan[r] = "status" => work = "done"
        BY <1>4, <2>1 DEF VerdictInv, Scans, TrySteps, Over, Orderly, Undisturbed
      <3> QED BY <2>1, <3>1 DEF Orderly, Decided
    <2>3. UNCHANGED <<state, stream>> /\ scan'[r] \notin Recovers /\ \A q \in Runners \ {r} : scan'[q] = scan[q]
      BY <1>1, <1>2, <2>1, <2>2
      DEF ScanStep, ScanExpired, ScanClaim, ScanStatus, ScanForget, RecoverComplete, RecoverLastSeq,
          RecoverInitialModel, RecoverXadd, Publishing, RecoverHset, AfterHset, RecoverMark, ScanRelease,
          Recovers, Recovered
    <2>4. \A q \in Runners : scan'[q] \notin Recovers
      BY <2>1, <2>3
    <2>5. Undisturbed' /\ Ahead' = Ahead /\ Decided' = Decided
      BY <1>3, <2>1, <2>3 DEF taskVars, asideVars, Orderly, Undisturbed, Ahead, Decided
    <2>6. Increasing(TRUE)' /\ Numbered(emitted)'
      BY <2>1, <2>3 DEF taskVars, contextVars, Orderly, Increasing, Numbered
    <2> QED BY <1>3, <1>5, <2>1, <2>3, <2>4, <2>5, <2>6 DEF OrderInv, Orderly, taskVars, contextVars, asideVars
  <1>6. CASE process[Owner] = "down"
    <2>1. Resumable
      BY <1>4, <1>6 DEF OrderInv
    <2>2. SUFFICES Increasing(FALSE)' /\ Numbered(state.last_seq + 1)' /\ \A q \in Runners : Resumed(q)'
      BY <1>3, <1>6, <2>1 DEF OrderInv, Resumable
    <2>3. stream' = stream => Increasing(FALSE)'
      BY <2>1 DEF Resumable, Increasing
    <2>4. UNCHANGED stream /\ state'.last_seq = state.last_seq => Numbered(state.last_seq + 1)'
      BY <2>1 DEF Resumable, Numbered
    <2>5. ASSUME NEW q \in Runners, state'.last_seq = state.last_seq,
                 q # r \/ (UNCHANGED seen /\ scan'[r] \notin {"initial_model"} \cup DOMAIN Publishing \cup DOMAIN AfterHset)
          PROVE  Resumed(q)'
      <3>1. q # r => scan'[q] = scan[q] /\ seen'[q] = seen[q]
        BY <1>1, <1>2
        DEF ScanStep, ScanExpired, ScanClaim, ScanStatus, ScanForget, RecoverComplete, RecoverLastSeq,
            RecoverInitialModel, RecoverXadd, RecoverHset, RecoverMark, ScanRelease
      <3> QED BY <2>1, <2>5, <3>1 DEF Resumable, Resumed
    <2>6. CASE ScanExpired(r) \/ ScanClaim(r) \/ ScanStatus(r) \/ ScanForget(r)
      <3>1. /\ UNCHANGED <<stream, state, seen>>
            /\ scan'[r] \notin {"initial_model"} \cup DOMAIN Publishing \cup DOMAIN AfterHset
        BY <1>1, <2>6 DEF ScanExpired, ScanClaim, ScanStatus, ScanForget, Publishing, AfterHset
      <3> QED BY <2>3, <2>4, <2>5, <3>1
    <2>7. CASE RecoverComplete(r) \/ RecoverMark(r) \/ ScanRelease(r)
      <3>1. /\ UNCHANGED <<stream, seen>> /\ state'.last_seq = state.last_seq
            /\ scan'[r] \notin {"initial_model"} \cup DOMAIN Publishing \cup DOMAIN AfterHset
        BY <1>1, <2>7 DEF RecoverComplete, RecoverMark, HsetStatus, State, ScanRelease, Publishing, AfterHset
      <3> QED BY <2>3, <2>4, <2>5, <3>1
    <2>8. CASE RecoverLastSeq(r) \/ RecoverInitialModel(r)
      <3>1. UNCHANGED <<stream, state>>
        BY <2>8 DEF RecoverLastSeq, RecoverInitialModel
      <3>2. /\ scan'[r] \in {"initial_model", "start_xadd", "error_xadd"}
            /\ seen'[r] = state.last_seq
        BY <1>1, <2>1, <2>8 DEF RecoverLastSeq, RecoverInitialModel, Resumable, Resumed
      <3>3. Resumed(r)'
        BY <3>1, <3>2 DEF Resumed, AfterHset
      <3> QED BY <2>3, <2>4, <2>5, <3>1, <3>3
    <2>9. CASE RecoverXadd(r)
      <3>1. scan[r] \in {"start_xadd", "error_xadd", "end_xadd"} /\ state' = state
        BY <2>9 DEF RecoverXadd, Publishing
      <3>2. seen[r] = state.last_seq /\ seen[r] \in Nat /\ state.last_seq + 1 \in Nat
        BY <1>1, <2>1, <3>1 DEF Resumable, Resumed, Publishing, State
      <3>3. Increasing(FALSE)' /\ \A i \in DOMAIN stream' : stream'[i].seq <= seen[r] + 1
        <4>1. Xadd(Publishing[scan[r]], seen[r] + 1, r)
          BY <2>9 DEF RecoverXadd
        <4>2. Increasing(FALSE) /\ Numbered(seen[r] + 1)
          BY <2>1, <3>2 DEF Resumable
        <4>3. seen[r] + 1 \in Nat /\ seen[r] + 1 <= seen[r] + 1
          BY <3>2
        <4> QED BY <4>1, <4>2, <4>3, OrderXadd
      <3>4. scan'[r] \in {"start_hset", "error_hset", "end_hset"} /\ seen'[r] = seen[r] + 1
        BY <1>1, <2>9, <3>1 DEF RecoverXadd, AfterXadd
      <3>5. Resumed(r)'
        BY <3>1, <3>2, <3>4 DEF Resumed, Publishing
      <3> QED BY <2>5, <3>1, <3>2, <3>3, <3>5 DEF Numbered
    <2>10. CASE RecoverHset(r)
      <3>1. scan[r] \in {"start_hset", "error_hset", "end_hset"} /\ Up(r)
        BY <2>10 DEF RecoverHset, AfterHset
      <3>2. seen[r] = state.last_seq + 1 /\ state'.last_seq = seen[r] /\ state.last_seq \in Nat
        BY <1>1, <2>1, <2>10, <3>1 DEF RecoverHset, HsetSeq, State, Resumable, Resumed, AfterHset
      <3>3. stream' = stream /\ Numbered(state.last_seq + 1)'
        <4>1. stream' = stream
          BY <2>10 DEF RecoverHset
        <4>2. ASSUME NEW i \in DOMAIN stream
              PROVE  stream[i].seq <= state'.last_seq + 1
          <5>1. stream[i] \in Event /\ stream[i].seq <= state.last_seq + 1
            BY <2>1, <4>2, ElementOfSeq, LenProperties DEF Resumable, Numbered, TypeOK, RedisTypeOK
          <5> QED BY <3>2, <5>1 DEF Event
        <4> QED BY <4>1, <4>2 DEF Numbered
      <3>4. scan'[r] \in {"error_xadd", "end_xadd", "mark_status"} /\ seen' = seen
        BY <1>1, <2>10, <3>1 DEF RecoverHset, AfterHset
      <3>5. Resumed(r)'
        BY <3>2, <3>4 DEF Resumed, AfterHset
      <3>6. ASSUME NEW q \in Runners, q # r
            PROVE  Resumed(q)'
        <4>1. ~Held(q)
          BY <1>4, <3>1, <3>6 DEF ClaimInv, Held, Recovering, TrySteps
        <4>2. process[q] = "up" \/ scan[q] = "off"
          <5>1. process[q] \in {"up", "stalled", "down"}
            BY DEF TypeOK, ProcessTypeOK
          <5> QED BY <1>4, <5>1 DEF ClaimInv, ProcessInv
        <4>3. scan'[q] = scan[q] /\ scan[q] \notin TrySteps
          BY <1>1, <2>10, <3>6, <4>1, <4>2 DEF RecoverHset, Held, Up, Recovering, TrySteps
        <4> QED BY <4>3 DEF Resumed, TrySteps, Publishing, AfterHset
      <3> QED BY <2>3, <3>3, <3>5, <3>6
    <2> QED BY <1>2, <2>6, <2>7, <2>8, <2>9, <2>10 DEF ScanStep
  <1> QED BY <1>5, <1>6

\* A crash of the owner leaves at most one event ahead of last_seq, and nobody
\* in the middle of a recovery; other crashes leave the log alone.
LEMMA OrderRest ==
    ASSUME TypeOK, OrderInv, VerdictInv, Quiet',
           \/ (ClaimExpires \/ ClaimOverrun) /\ UNCHANGED taskVars
           \/ ProcessStep /\ UNCHANGED <<taskVars, recoveryVars>>
           \/ CrashStep \/ CloseStep
    PROVE  OrderInv'
  <1>1. /\ process \in [Runners -> {"up", "stalled", "down"}] /\ scan \in [Runners -> ScanSteps]
        /\ closer \in [Runners -> {"open", "closing", "closing_execute", "closed"}]
        /\ Owner \in Runners
    BY ProcessAssumption DEF TypeOK, ProcessTypeOK, RecoveryTypeOK
  <1>2. ASSUME NEW kind, Disturb(kind)
        PROVE  kind = "crash"
    BY <1>2 DEF Disturb, Quiet
  <1>3. ASSUME UNCHANGED <<state, stream, happened, loopStalled, work, cancel, contextVars, biz, beat, recoveryVars>>,
               process'[Owner] = "down" <=> process[Owner] = "down",
               Orderly => pulse' = pulse /\ closer'[Owner] = closer[Owner]
        PROVE  OrderInv'
    <2>1. CASE process[Owner] # "down"
      <3>1. Quiet => Orderly
        BY <2>1 DEF OrderInv
      <3>2. Orderly => Orderly'
        BY <1>3, <2>1
        DEF Orderly, Undisturbed, Increasing, Numbered, Ahead, Decided, contextVars, recoveryVars
      <3> QED BY <1>3, <2>1, <3>1, <3>2 DEF OrderInv, Quiet
    <2>2. CASE process[Owner] = "down"
      <3>1. Quiet => Resumable
        BY <2>2 DEF OrderInv
      <3>2. Resumable => Resumable'
        BY <1>3 DEF Resumable, Increasing, Numbered, Resumed, recoveryVars
      <3> QED BY <1>3, <2>2, <3>1, <3>2 DEF OrderInv, Quiet
    <2> QED BY <2>1, <2>2
  <1>4. CASE (ClaimExpires \/ ClaimOverrun) /\ UNCHANGED taskVars
    BY <1>2, <1>3, <1>4 DEF ClaimExpires, ClaimOverrun, ClaimEnds, Calm, taskVars, asideVars
  <1>5. CASE ProcessStep /\ UNCHANGED <<taskVars, recoveryVars>>
    <2>1. CASE StateExpires \/ \E r \in Runners : Stall(r)
      BY <1>2, <2>1 DEF StateExpires, Stall
    <2>2. ASSUME NEW r \in Runners, Resume(r)
          PROVE  OrderInv'
      BY <1>1, <1>3, <1>5, <2>2 DEF Resume, Calm, redisVars, taskVars, asideVars
    <2>3. CASE WatchdogFires
      <3>1. ~Alive
        BY <2>3 DEF WatchdogFires, VerdictInv
      <3> QED BY <2>3, <3>1 DEF WatchdogFires, Calm, Alive, Quiet
    <2> QED BY <1>5, <2>1, <2>2, <2>3 DEF ProcessStep
  <1>6. CASE CrashStep
    <2>1. PICK r \in Runners : /\ Crash(r) /\ ScanLost(r)
                               /\ IF r = Owner THEN TaskLost ELSE UNCHANGED taskVars
      BY <1>6 DEF CrashStep
    <2>2. /\ happened' = happened \cup {"crash"} /\ Quiet
          /\ UNCHANGED <<state, stream, loopStalled, closer>>
          /\ process' = [process EXCEPT ![r] = "down"]
      BY <2>1 DEF Crash, Disturb, Quiet, redisVars
    <2>3. /\ scan'[r] = "off"
          /\ \A q \in Runners \ {r} : scan'[q] = scan[q] /\ seen'[q] = seen[q]
      BY <1>1, <2>1 DEF ScanLost, ScanGoto, TypeOK, RecoveryTypeOK
    <2>4. CASE process'[Owner] # "down"
      <3>1. Orderly /\ r # Owner
        BY <1>1, <2>2, <2>4 DEF OrderInv
      <3>2. \A q \in Runners : scan'[q] \notin Recovers
        BY <2>3, <3>1 DEF Orderly, Recovers, Recovered
      <3>3. UNCHANGED taskVars
        BY <2>1, <3>1
      <3>4. Undisturbed' /\ Ahead' = Ahead /\ Decided' = Decided
        BY <2>2, <3>1, <3>3 DEF taskVars, asideVars, Orderly, Undisturbed, Ahead, Decided
      <3>5. Increasing(TRUE)' /\ Numbered(emitted)'
        BY <2>2, <3>1, <3>3 DEF taskVars, contextVars, Orderly, Increasing, Numbered
      <3> QED BY <2>2, <2>4, <3>1, <3>2, <3>3, <3>4, <3>5
              DEF OrderInv, Orderly, taskVars, contextVars, asideVars
    <2>5. CASE process'[Owner] = "down" /\ process[Owner] # "down"
      <3>1. Orderly
        BY <2>2, <2>5 DEF OrderInv
      <3>2. Increasing(FALSE) /\ Numbered(state.last_seq + 1)
        <4>1. emitted <= state.last_seq + 1 /\ emitted \in Nat /\ state.last_seq + 1 \in Nat
          BY <3>1 DEF Orderly, TypeOK, RedisTypeOK, State, TaskTypeOK, ContextTypeOK
        <4>2. \A i \in DOMAIN stream : stream[i].seq \in Nat
          <5>1. \A i \in DOMAIN stream : stream[i] \in Event
            BY ElementOfSeq, LenProperties DEF TypeOK, RedisTypeOK
          <5> QED BY <5>1 DEF Event
        <4> QED BY <3>1, <4>1, <4>2 DEF Orderly, Increasing, Numbered
      <3>3. Increasing(FALSE)' /\ Numbered(state.last_seq + 1)'
        BY <2>2, <3>2 DEF Increasing, Numbered
      <3>4. \A q \in Runners : Resumed(q)'
        <4>1. \A q \in Runners : scan'[q] \notin Recovers
          BY <2>3, <3>1 DEF Orderly, Recovers, Recovered
        <4> QED BY <4>1 DEF Resumed, Publishing, AfterHset, Recovers, Recovered
      <3> QED BY <2>2, <2>5, <3>3, <3>4 DEF OrderInv, Resumable
    <2>6. CASE process'[Owner] = "down" /\ process[Owner] = "down"
      <3>1. Resumable
        BY <2>2, <2>6 DEF OrderInv
      <3>2. Increasing(FALSE)' /\ Numbered(state.last_seq + 1)'
        BY <2>2, <3>1 DEF Resumable, Increasing, Numbered
      <3>3. \A q \in Runners : Resumed(q)'
        BY <2>2, <2>3, <3>1 DEF Resumable, Resumed, Publishing, AfterHset
      <3> QED BY <2>2, <2>6, <3>2, <3>3 DEF OrderInv, Resumable
    <2> QED BY <2>4, <2>5, <2>6
  <1>7. CASE CloseStep
    <2>1. PICK r \in Runners : CloseBegin(r) \/ CloseEnd(r)
      BY <1>7 DEF CloseStep
    <2>2. CloseEnd(r)
      BY <1>2, <2>1 DEF CloseBegin
    <2>3. r = Owner => closer[Owner] # "open" /\ process[Owner] = "up"
      BY <2>2 DEF CloseEnd, Up
    <2>4. r # Owner => pulse' = pulse /\ closer'[Owner] = closer[Owner]
      BY <1>1, <2>2 DEF CloseEnd
    <2>5. UNCHANGED <<state, stream, happened, process, loopStalled, work, cancel, contextVars, biz, beat,
                      recoveryVars>>
      BY <2>2 DEF CloseEnd, redisVars
    <2>6. ~Orderly \/ r # Owner
      BY <2>3 DEF Orderly, Undisturbed
    <2> QED BY <1>3, <2>4, <2>5, <2>6
  <1> QED BY <1>4, <1>5, <1>6, <1>7

\* OrderInv holds in every reachable state.
LEMMA OrderAlways == Spec => []OrderInv
  <1>1. Init => OrderInv
    BY ProcessAssumption
    DEF Init, RedisInit, NoState, ProcessInit, TaskInit, RecoveryInit, OrderInv, Orderly, Undisturbed, Increasing,
        Numbered, Ahead, HsetSteps, Recovers, Recovered
  <1>2. TypeOK /\ OrderInv /\ SnapshotInv /\ ClaimInv /\ VerdictInv /\ ProcessInv /\ ShutdownInv /\ [Next]_vars
          => OrderInv'
    <2> SUFFICES ASSUME TypeOK, OrderInv, SnapshotInv, ClaimInv, VerdictInv, ProcessInv, ShutdownInv, [Next]_vars,
                        Quiet'
                 PROVE  OrderInv'
      BY DEF OrderInv
    <2>1. CASE TaskStep /\ UNCHANGED recoveryVars
      <3>1. process' = process /\ happened \subseteq happened'
        BY <2>1, TaskHappens
      <3>2. Quiet
        BY <3>1 DEF Quiet
      <3>3. CASE process[Owner] # "down"
        BY <2>1, <3>1, <3>2, <3>3, OrderOwner DEF OrderInv
      <3>4. CASE process[Owner] = "down"
        BY <2>1, <3>2, <3>4, OrderLost
      <3> QED BY <3>3, <3>4
    <2>2. CASE RecoveryStep /\ UNCHANGED taskVars
      BY <2>2, OrderScan, OrderRest DEF RecoveryStep
    <2>3. CASE UNCHANGED vars
      BY <2>3 DEF vars, redisVars, processVars, taskVars, contextVars, asideVars, recoveryVars, OrderInv, Quiet,
                  Orderly, Undisturbed, Increasing, Numbered, Ahead, Decided, Resumable, Resumed
    <2> QED BY <2>1, <2>2, <2>3, OrderRest DEF Next
  <1> QED BY <1>1, <1>2, TypeCorrect, SnapshotAlways, ClaimAlways, VerdictAlways, ProcessAlways, ShutdownAlways, PTL DEF Spec

\* The log's seq strictly increases until something disturbs the task, and never
\* falls back through crashes: the recovery goes on where the hash stands, at most
\* one event behind the stream.
THEOREM LogOrdered == Spec => []SeqOrder
  <1>1. OrderInv /\ TypeOK => SeqOrder
    <2> SUFFICES ASSUME OrderInv, TypeOK, Quiet
                 PROVE  Increasing(FALSE) /\ (happened = {} => Increasing(TRUE))
      BY DEF SeqOrder, Quiet
    <2> QED BY DEF OrderInv, Orderly, Resumable, Increasing
  <1> QED BY <1>1, OrderAlways, TypeCorrect, PTL

--------------------------------------------------------------------------------
(* A running task is indexed                                                *)

\* Nobody works on the task: nothing was published, and no scanner has seen it.
Untouched == /\ stream = <<>> /\ biz \notin BizRunning
             /\ \A r \in Runners : scan[r] \in {"idle", "off"}
Interrupted == {"init_touch", "init_complete", "dead"}

\* Whoever is about to remove the heartbeat has seen or stored that the task is
\* not running any more; before initialize has indexed it, nobody works on it.
IndexInv ==
    /\ work = "init_state" => heartbeat = "absent" /\ beat # "looping" /\ Untouched
    /\ state.status = "running" /\ heartbeat = "absent" => work \in Interrupted /\ Untouched
    /\ work = "mark_heartbeat" => state.status # "running"
    /\ \A r \in Runners : scan[r] \in {"forget", "mark_heartbeat"} => state.status # "running"

\* A step of the owner that stores no status, removes no heartbeat, and goes on from
\* an initialization that was interrupted only to its end, keeps IndexInv.
LEMMA IndexQuiet ==
    ASSUME IndexInv, UNCHANGED scan,
           state'.status = "running" => state.status = "running",
           heartbeat' = "absent" => heartbeat = "absent" \/ state.status # "running",
           work' = "mark_heartbeat" => work = "mark_heartbeat" \/ state'.status # "running",
           work' = "init_state" =>
               /\ work = "init_state"
               /\ beat # "looping" /\ heartbeat = "absent" => beat' # "looping" /\ heartbeat' = "absent",
           work \in Interrupted \cup {"init_state"} /\ biz \notin BizRunning =>
               /\ heartbeat' # "absent" \/ work' \in Interrupted \cup {"init_state"}
               /\ UNCHANGED stream /\ biz' \notin BizRunning
    PROVE  IndexInv'
  BY DEF IndexInv, Untouched, Interrupted

\* run() up to the start event, and the coroutines of _execute.
LEMMA IndexExecute ==
    ASSUME TypeOK, IndexInv, UNCHANGED scan,
           \/ InitRefused \/ InitState \/ InitTouch \/ InitComplete \/ PreStart \/ StartXadd \/ StartHset
           \/ ExecBegin \/ ExecWake \/ ExecGather \/ BizStep \/ BeatStep \/ PulseFails
    PROVE  IndexInv'
  <1> USE DEF redisVars, processVars, outcomeVars, asideVars, contextVars, deliveryVars, At, Calm,
              BizRunning, Interrupted, BizOver
  <1>1. state \in State
    BY DEF TypeOK, RedisTypeOK
  <1>2. CASE InitState
    BY <1>2 DEF InitState, HsetTask, IndexInv, Untouched
  <1>3. CASE InitRefused \/ InitTouch \/ InitComplete \/ PreStart
    BY <1>3, IndexQuiet DEF InitRefused, InitTouch, Zadd, InitComplete, PreStart
  <1>4. CASE StartXadd \/ StartHset
    BY <1>1, <1>4, IndexQuiet DEF StartXadd, StartHset, HsetSeq, State
  <1>5. CASE ExecBegin \/ ExecWake \/ ExecGather
    BY <1>5, IndexQuiet DEF ExecBegin, ExecWake, AfterWait, ExecGather
  <1>6. CASE BizStep
    BY <1>1, <1>6, IndexQuiet DEF BizStep, BizXadd, BizHset, BizEnds, HsetSeq, State
  <1>7. CASE BeatStep \/ PulseFails
    BY <1>7, IndexQuiet DEF BeatStep, BeatTouch, BeatFails, Zadd, PulseFails, taskVars
  <1> QED BY <1>2, <1>3, <1>4, <1>5, <1>6, <1>7

\* _finalize, cancellation, faults and the delivery.
LEMMA IndexFinalize ==
    ASSUME TypeOK, IndexInv, UNCHANGED scan,
           \/ Complete \/ TerminalXadd \/ TerminalHset \/ MarkStatus \/ MarkHeartbeat \/ StopBeat
           \/ CancelRequest \/ CancelStart \/ CancelWait \/ CancelComplete \/ CancelEnds
           \/ TaskFault \/ LiveStep \/ HeartbeatExpires \/ HeartbeatLate
    PROVE  IndexInv'
  <1> USE DEF redisVars, processVars, outcomeVars, asideVars, contextVars, deliveryVars, At, Calm,
              BizRunning, Interrupted, BizOver
  <1>1. state \in State
    BY DEF TypeOK, RedisTypeOK
  <1>2. CASE Complete \/ TerminalXadd \/ TerminalHset \/ MarkStatus \/ StopBeat
    <2>1. CASE Complete \/ TerminalXadd \/ StopBeat
      BY <2>1, IndexQuiet DEF Complete, TerminalXadd, StopBeat
    <2>2. CASE TerminalHset \/ MarkStatus
      BY <1>1, <2>2, IndexQuiet DEF TerminalHset, MarkStatus, HsetSeq, HsetStatus, State
    <2> QED BY <1>2, <2>1, <2>2
  <1>3. CASE MarkHeartbeat
    <2>1. state.status # "running"
      BY <1>3 DEF MarkHeartbeat, IndexInv
    <2> QED BY <1>3, <2>1, IndexQuiet DEF MarkHeartbeat, Zrem, Finalized
  <1>4. CASE CancelRequest \/ CancelWait
    BY <1>4, IndexQuiet DEF CancelRequest, CancelWait, CancelAt, AfterWait
  <1>5. CASE CancelComplete
    BY <1>5, IndexQuiet DEF CancelComplete, CancelAt
  <1>6. CASE CancelEnds
    <2>1. state'.status = state.status
      BY <1>1, <1>6 DEF CancelEnds, HsetSeq, State
    <2>2. heartbeat' = "absent" => heartbeat = "absent" \/ state.status # "running"
      BY <1>6 DEF CancelEnds, IndexInv
    <2> QED BY <1>6, <2>1, <2>2, IndexQuiet DEF CancelEnds, CancelAt, FinalSteps
  <1>7. CASE InitFault
    <2>1. CASE work = "init_state"
      BY <1>7, <2>1 DEF InitFault, HsetTask, IndexInv, Untouched
    <2>2. CASE work # "init_state"
      BY <1>7, <2>2, IndexQuiet DEF InitFault, Zadd
    <2> QED BY <2>1, <2>2
  <1>8. CASE StartFault \/ TerminalFault
    BY <1>1, <1>8, IndexQuiet DEF StartFault, TerminalFault, HsetSeq, State
  <1>9. CASE MarkFault
    BY <1>1, <1>9, IndexQuiet DEF MarkFault, Finalized, HsetStatus, State
  <1>10. CASE BizFault
    BY <1>1, <1>10, IndexQuiet DEF BizFault, HsetSeq, State
  <1>11. CASE LiveStep
    BY <1>11, IndexQuiet DEF LiveStep, LiveDeliver, LiveRead, LiveIdle, LiveClosed
  <1>12. CASE HeartbeatExpires \/ HeartbeatLate
    BY <1>12, IndexQuiet DEF HeartbeatExpires, HeartbeatLate, HeartbeatAges, taskVars
  <1>13. CASE CancelStart
    <2>1. CASE work = "init_state"
      BY <1>13, <2>1 DEF CancelStart, HsetTask, IndexInv, Untouched
    <2>2. CASE work # "init_state"
      <3>1. state'.status = state.status /\ (heartbeat' = heartbeat \/ heartbeat' = "fresh")
        BY <1>1, <1>13, <2>2 DEF CancelStart, Zadd, HsetSeq, State
      <3> QED BY <1>13, <2>2, <3>1, IndexQuiet DEF CancelStart, CancelAt
    <2> QED BY <2>1, <2>2
  <1> QED BY <1>2, <1>3, <1>4, <1>5, <1>6, <1>7, <1>8, <1>9, <1>10, <1>11, <1>12, <1>13 DEF TaskFault

\* A scanner works only on what was indexed, and forgets only what is decided.
LEMMA IndexScan ==
    ASSUME TypeOK, IndexInv, UNCHANGED taskVars, NEW r \in Runners, ScanStep(r) \/ ScanFault(r)
    PROVE  IndexInv'
  <1> DEFINE rests == scan[r] \in {"idle", "off"}
             leaves == {"forget", "mark_heartbeat"}
  <1> USE DEF ScanAt, ScanGoto, Unanswered
  <1>1. state \in State /\ scan \in [Runners -> ScanSteps]
    BY DEF TypeOK, RedisTypeOK, RecoveryTypeOK
  <1>2. UNCHANGED <<work, biz, beat>> /\ \A s \in Runners \ {r} : scan'[s] = scan[s]
    BY <1>1 DEF taskVars, asideVars, ScanStep, ScanExpired, ScanClaim, ScanStatus, ScanForget, RecoverComplete,
                RecoverLastSeq, RecoverInitialModel, RecoverXadd, RecoverHset, RecoverMark,
                ScanRelease, ScanCancelled, ScanFault
  <1>3. CASE rests
    <2>1. UNCHANGED <<state, stream, heartbeat>> /\ scan'[r] \notin leaves
          /\ (heartbeat # "expired" => scan'[r] \in {"idle", "off"})
      BY <1>1, <1>3
      DEF redisVars, ScanStep, ScanExpired, ScanClaim, ScanStatus, ScanForget, RecoverComplete, RecoverLastSeq,
          RecoverInitialModel, RecoverXadd, RecoverHset, RecoverMark, ScanRelease, ScanCancelled, ScanFault,
          Publishing, AfterHset, ReleaseSteps, TrySteps, ScanSteps
    <2> QED BY <1>1, <1>2, <1>3, <2>1 DEF IndexInv, Untouched
  <1>4. CASE ~rests
    <2>1. work # "init_state" /\ ~(state.status = "running" /\ heartbeat = "absent")
      BY <1>4 DEF IndexInv, Untouched
    <2>2. state'.status = "running" => state.status = "running"
      BY <1>1, <1>4
      DEF redisVars, ScanStep, ScanExpired, ScanClaim, ScanStatus, ScanForget, RecoverComplete, RecoverLastSeq,
          RecoverInitialModel, RecoverXadd, RecoverHset, RecoverMark, ScanRelease, ScanCancelled, ScanFault,
          HsetSeq, HsetStatus, State
    <2>3. heartbeat' = heartbeat \/ scan[r] \in leaves
      BY <1>4
      DEF redisVars, ScanStep, ScanExpired, ScanClaim, ScanStatus, ScanForget, RecoverComplete, RecoverLastSeq,
          RecoverInitialModel, RecoverXadd, RecoverHset, RecoverMark, ScanRelease, ScanCancelled, ScanFault
    <2>4. scan'[r] \in leaves => state'.status # "running"
      BY <1>1, <1>4
      DEF redisVars, ScanStep, ScanExpired, ScanClaim, ScanStatus, ScanForget, RecoverComplete, RecoverLastSeq,
          RecoverInitialModel, RecoverXadd, RecoverHset, RecoverMark, ScanRelease, ScanCancelled, ScanFault,
          AfterXadd, AfterHset, Publishing, HsetStatus, State
    <2>5. scan[r] \in leaves => state.status # "running"
      BY DEF IndexInv
    <2> QED BY <1>2, <2>1, <2>2, <2>3, <2>4, <2>5 DEF IndexInv
  <1> QED BY <1>3, <1>4

\* Claims, processes, crashes and aclose().
LEMMA IndexRest ==
    ASSUME TypeOK, IndexInv,
           \/ (ClaimExpires \/ ClaimOverrun) /\ UNCHANGED taskVars
           \/ ProcessStep /\ UNCHANGED <<taskVars, recoveryVars>>
           \/ CrashStep \/ CloseStep
    PROVE  IndexInv'
  <1> USE DEF redisVars, taskVars, asideVars, recoveryVars, BizRunning
  <1>1. CASE \/ (ClaimExpires \/ ClaimOverrun) /\ UNCHANGED taskVars
             \/ CloseStep
             \/ ProcessStep /\ UNCHANGED <<taskVars, recoveryVars>>
    <2>1. UNCHANGED <<work, biz, beat, stream, heartbeat, scan>> /\ (state'.status = "running" => state' = state)
      BY <1>1 DEF ClaimExpires, ClaimOverrun, ClaimEnds, CloseStep, CloseBegin, CloseEnd, ProcessStep, Stall,
                  Resume, WatchdogFires, StateExpires, NoState
    <2> QED BY <2>1 DEF IndexInv, Untouched
  <1>2. CASE CrashStep
    <2>1. PICK r \in Runners : /\ Crash(r) /\ ScanLost(r)
                               /\ IF r = Owner THEN TaskLost ELSE UNCHANGED taskVars
      BY <1>2 DEF CrashStep
    <2>2. UNCHANGED redisVars /\ (UNCHANGED <<work, biz, beat>> \/ (work' = "dead" /\ biz' = "none"))
      <3>1. UNCHANGED redisVars
        BY <2>1 DEF Crash
      <3>2. CASE r = Owner
        <4>1. TaskLost
          BY <2>1, <3>2
        <4> QED BY <3>1, <4>1 DEF TaskLost
      <3>3. CASE r # Owner
        <4>1. UNCHANGED taskVars
          BY <2>1, <3>3
        <4> QED BY <3>1, <4>1
      <3> QED BY <3>2, <3>3
    <2>3. \A s \in Runners : scan'[s] = scan[s] \/ scan'[s] = "off"
      BY <2>1 DEF ScanLost, ScanGoto, TypeOK, RecoveryTypeOK
    <2> QED BY <2>2, <2>3 DEF IndexInv, Untouched, Interrupted
  <1> QED BY <1>1, <1>2

\* IndexInv holds in every reachable state.
LEMMA IndexAlways == Spec => []IndexInv
  <1>1. Init => IndexInv
    BY DEF Init, RedisInit, NoState, TaskInit, RecoveryInit, IndexInv, Untouched, BizRunning
  <1>2. TypeOK /\ IndexInv /\ [Next]_vars => IndexInv'
    <2> SUFFICES ASSUME TypeOK, IndexInv, [Next]_vars
                 PROVE  IndexInv'
      OBVIOUS
    <2>1. CASE UNCHANGED vars
      BY <2>1 DEF vars, redisVars, taskVars, asideVars, recoveryVars, IndexInv, Untouched
    <2>2. CASE TaskStep /\ UNCHANGED recoveryVars
      BY <2>2, IndexExecute, IndexFinalize DEF TaskStep, WorkStep, recoveryVars
    <2>3. CASE RecoveryStep /\ UNCHANGED taskVars
      BY <2>3, IndexScan, IndexRest DEF RecoveryStep
    <2> QED BY <2>1, <2>2, <2>3, IndexRest DEF Next
  <1> QED BY <1>1, <1>2, TypeCorrect, PTL DEF Spec

\* A task that counts as running can be found by the scanners, whatever commands
\* raise and whoever is cancelled, unless initialize was interrupted before it
\* indexed the task and anything was published (initialize, mark_terminal,
\* forget_heartbeat).
THEOREM RunningFound == Spec => []RunningIsIndexed
  <1>1. IndexInv => RunningIsIndexed
    BY DEF IndexInv, Untouched, Interrupted, RunningIsIndexed
  <1> QED BY <1>1, IndexAlways, PTL

--------------------------------------------------------------------------------
(* What the live consumer is shown                                          *)

Opened == {"starting", "raising", "reading", "idle"}
Settled == {"mark_status", "mark_heartbeat", "stop_beat", "done"}
Ops == StoredOps(Len(stream))

\* There is an end, stored or to be handed over, and of a failure an error, too.
Shown == "end" \in unsaved \cup Ops /\ (failed => "error" \in unsaved \cup Ops)

\* An open delivery has shown no end yet; what it may hand over when the execution
\* is done completes the stream, and nothing changes once it was handed over.  A
\* delivery begins only when run() has published the start, or has failed to.
DeliveryInv ==
    /\ InRequest => live \in {"starting", "raising"}
    /\ cursor \in 0..Len(stream)
    /\ live \in Opened => extra = {} /\ "end" \notin StoredOps(cursor)
    /\ unsaved # {} => "end" \in unsaved /\ work \in Settled \cup {"dead"}
    /\ work \in Settled \cup {"end_hset"} => Shown
    /\ extra # {} => work \in {"done", "dead"}
    /\ LiveShowsOneEnd

\* The stream stays as it is or takes one more event.
Extended == stream' = stream \/ \E op \in EventOps, n \in Nat, w \in Writers : Xadd(op, n, w)

LEMMA Extends ==
    ASSUME TypeOK, Extended
    PROVE  /\ Len(stream) \in Nat /\ Len(stream') \in Nat /\ Len(stream) <= Len(stream')
           /\ \A i \in 1..Len(stream) : stream'[i] = stream[i]
  <1>1. stream \in Seq(Event) /\ Len(stream) \in Nat
    BY LenProperties DEF TypeOK, RedisTypeOK
  <1>2. CASE stream' = stream
    BY <1>1, <1>2
  <1>3. ASSUME NEW op \in EventOps, NEW n \in Nat, NEW w \in Writers, Xadd(op, n, w)
        PROVE  /\ Len(stream') = Len(stream) + 1
               /\ \A i \in 1..Len(stream) : stream'[i] = stream[i]
    <2>1. PICK e \in Event : stream' = Append(stream, e)
      BY <1>3 DEF Xadd, Event
    <2> QED BY <1>1, <2>1, AppendProperties
  <1> QED BY <1>1, <1>2, <1>3 DEF Extended

\* What was stored stays stored, and what was delivered is what it was.
LEMMA OpsExtend ==
    ASSUME TypeOK, Extended, DeliveryInv
    PROVE  /\ Ops \subseteq Ops'
           /\ cursor' = cursor => /\ StoredOps(cursor)' = StoredOps(cursor) /\ cursor' \in 0..Len(stream')
                                  /\ \A i \in 1..cursor : stream'[i] = stream[i]
  <1>1. /\ Len(stream) \in Nat /\ Len(stream') \in Nat /\ Len(stream) <= Len(stream')
        /\ \A i \in 1..Len(stream) : stream'[i] = stream[i]
    BY Extends
  <1>2. cursor \in 0..Len(stream)
    BY DEF DeliveryInv
  <1>3. Ops \subseteq Ops'
    BY <1>1 DEF Ops, StoredOps
  <1>4. \A i \in 1..cursor : stream'[i] = stream[i]
    BY <1>1, <1>2
  <1>5. cursor' = cursor => StoredOps(cursor)' = StoredOps(cursor)
    BY <1>4 DEF StoredOps
  <1> QED BY <1>1, <1>2, <1>3, <1>4, <1>5

\* A step that shows nothing keeps DeliveryInv when it changes what is unsaved, or
\* settles the outcome, only with an end to show.
LEMMA DeliveryQuiet ==
    ASSUME TypeOK, DeliveryInv, Extended, UNCHANGED <<cursor, extra>>,
           live' = live \/ (live \in Opened /\ live' \in Opened \cup {"raised", "closed"}),
           unsaved' # {} => "end" \in unsaved' /\ work' \in Settled \cup {"dead"},
           work' \in Settled \cup {"end_hset"} =>
               Shown' \/ (work \in Settled \cup {"end_hset"} /\ failed' = failed /\ unsaved' = unsaved),
           work \in {"done", "dead"} => work' \in {"done", "dead"} /\ failed' = failed,
           InRequest' => InRequest /\ (live' = live \/ live' \in {"starting", "raising"})
    PROVE  DeliveryInv'
  <1>1. /\ Ops \subseteq Ops' /\ StoredOps(cursor)' = StoredOps(cursor) /\ cursor' \in 0..Len(stream')
        /\ \A i \in 1..cursor : stream'[i] = stream[i]
    BY OpsExtend
  <1>2. live' \in Opened => live \in Opened
    OBVIOUS
  <1>3. work' \in Settled \cup {"end_hset"} => Shown'
    BY <1>1 DEF DeliveryInv, Shown
  <1>4. live' = "returned" => live = "returned"
    BY DEF Opened
  <1>5. LiveShowsOneEnd'
    <2>1. \A i \in DOMAIN stream' : i \in 1..cursor => stream'[i] = stream[i]
      BY <1>1
    <2>2. \A i \in 1..cursor' : stream'[i].op = "end" => i = cursor' /\ extra' = {}
      BY <1>1 DEF DeliveryInv, LiveShowsOneEnd
    <2>3. extra' # {} => "end" \in extra' /\ extra' \cap StoredOps(cursor)' = {}
      BY <1>1 DEF DeliveryInv, LiveShowsOneEnd
    <2>4. extra' # {} /\ failed' => "error" \in Ops' \cup extra'
      BY <1>1 DEF DeliveryInv, LiveShowsOneEnd, Ops
    <2>5. live' = "returned" => "end" \in Ops' \cup extra'
      BY <1>1, <1>4 DEF DeliveryInv, LiveShowsOneEnd, Ops
    <2> QED BY <2>2, <2>3, <2>4, <2>5 DEF LiveShowsOneEnd, Ops
  <1>6. live' \in Opened => extra' = {} /\ "end" \notin StoredOps(cursor)'
    BY <1>1, <1>2 DEF DeliveryInv
  <1>7. extra' # {} => work' \in {"done", "dead"}
    BY DEF DeliveryInv
  <1> QED BY <1>1, <1>3, <1>5, <1>6, <1>7 DEF DeliveryInv

\* The coroutine of the delivery.
LEMMA DeliveryLive ==
    ASSUME TypeOK, DeliveryInv, LiveStep
    PROVE  DeliveryInv'
  <1> USE DEF redisVars, outcomeVars, contextVars, deliveryVars
  <1>1. cursor \in 0..Len(stream) /\ Len(stream) \in Nat
    BY LenProperties DEF DeliveryInv, TypeOK, RedisTypeOK
  <1>2. CASE LiveDeliver
    <2>1. /\ live = "reading" /\ cursor < Len(stream) /\ cursor' = cursor + 1
          /\ live' = IF stream[cursor + 1].op = "end" THEN "returned" ELSE "reading"
          /\ UNCHANGED <<stream, work, source, unsaved, failed, extra>>
      BY <1>2 DEF LiveDeliver
    <2>2. extra = {} /\ \A i \in 1..cursor : stream[i].op # "end"
      BY <2>1 DEF DeliveryInv, Opened, StoredOps
    <2>3. cursor' \in 0..Len(stream) /\ \A i \in 1..cursor' : i \in 1..cursor \/ i = cursor'
      BY <1>1, <2>1
    <2>4. \A i \in 1..cursor' : stream[i].op = "end" => i = cursor'
      BY <2>2, <2>3
    <2>5. live' = "returned" => "end" \in StoredOps(Len(stream))
      BY <1>1, <2>1 DEF StoredOps
    <2>6. live' \in Opened => "end" \notin StoredOps(cursor)'
      BY <2>1, <2>2, <2>3 DEF Opened, StoredOps
    <2>7. Shown' <=> Shown
      BY <2>1 DEF Shown, Ops, StoredOps
    <2>8. "end" \in StoredOps(Len(stream)) => "end" \in StoredOps(Len(stream))'
      BY <2>1 DEF StoredOps
    <2>9. LiveShowsOneEnd'
      BY <2>1, <2>2, <2>4, <2>5, <2>8 DEF LiveShowsOneEnd
    <2>10. ~InRequest'
      BY <2>1 DEF DeliveryInv, InRequest
    <2> QED BY <2>1, <2>2, <2>3, <2>6, <2>7, <2>9, <2>10 DEF DeliveryInv
  <1>3. CASE LiveRead \/ LiveClosed
    <2>1. /\ live \in {"reading", "idle"} /\ live' \in Opened \cup {"raised", "closed"}
          /\ UNCHANGED <<stream, work, source, unsaved, failed, extra, cursor>>
      BY <1>3 DEF LiveRead, LiveClosed, Opened
    <2>2. ~InRequest'
      BY <2>1 DEF DeliveryInv, InRequest
    <2> QED BY <2>1, <2>2, DeliveryQuiet DEF Extended, DeliveryInv, Opened
  <1>4. CASE LiveIdle
    <2>1. live = "idle" /\ UNCHANGED <<stream, work, source, unsaved, failed, cursor>>
      BY <1>4 DEF LiveIdle
    <2>5. ~InRequest'
      BY <2>1 DEF DeliveryInv, InRequest
    <2>2. extra = {} /\ "end" \notin StoredOps(cursor)
      BY <2>1 DEF DeliveryInv, Opened
    <2>3. CASE work = "done"
      <3>1. live' = "returned" /\ extra' = unsaved \ StoredOps(cursor)
        BY <1>4, <2>3 DEF LiveIdle
      <3>2. Shown
        BY <2>3 DEF DeliveryInv, Settled
      <3>3. unsaved # {} => "end" \in extra'
        BY <2>2, <3>1 DEF DeliveryInv
      <3>4. StoredOps(cursor) \subseteq Ops
        BY <1>1 DEF StoredOps, Ops
      <3>5. "end" \in Ops \cup extra'
        BY <2>2, <3>1, <3>2 DEF Shown
      <3>6. failed => "error" \in Ops \cup extra'
        BY <3>1, <3>2, <3>4 DEF Shown
      <3>7. \A i \in 1..cursor : stream[i].op # "end"
        BY <2>2 DEF StoredOps
      <3>8. StoredOps(cursor)' = StoredOps(cursor) /\ Ops' = Ops
        BY <2>1 DEF StoredOps, Ops
      <3>9. LiveShowsOneEnd'
        BY <2>1, <3>1, <3>3, <3>5, <3>6, <3>7, <3>8 DEF LiveShowsOneEnd, Ops
      <3> QED BY <1>1, <2>1, <2>3, <2>5, <3>1, <3>2, <3>8, <3>9 DEF DeliveryInv, Shown, Opened
    <2>4. CASE work # "done"
      <3>1. extra' = extra /\ live' \in Opened \cup {"raised", "closed"}
        BY <1>4, <2>4 DEF LiveIdle, Opened
      <3> QED BY <2>1, <2>5, <3>1, DeliveryQuiet DEF Extended, DeliveryInv, Opened
    <2> QED BY <2>3, <2>4
  <1> QED BY <1>2, <1>3, <1>4 DEF LiveStep

\* The owner's steps before _finalize.
LEMMA DeliveryExecute ==
    ASSUME TypeOK, DeliveryInv, ProcessInv,
           \/ InitRefused \/ InitState \/ InitTouch \/ InitComplete \/ PreStart \/ StartXadd \/ StartHset
           \/ ExecBegin \/ ExecWake \/ ExecGather \/ BizStep \/ BeatStep \/ PulseFails
    PROVE  DeliveryInv'
  <1> USE DEF processVars, outcomeVars, redisVars, contextVars, deliveryVars, At, Opened, Settled, Extended,
              InRequest, StartSteps, FinalSteps
  <1>1. /\ unsaved # {} => "end" \in unsaved /\ work \in Settled \cup {"dead"}
        /\ InRequest => live \in {"starting", "raising"}
        /\ work \in {"spawned", "waiting", "gathering"} => source # "pre_start"
    BY DEF DeliveryInv, ProcessInv, Unspawned
  <1>2. /\ Task \in Writers /\ emitted \in Nat /\ inflight \in Nat /\ published \in Nat
        /\ {"start", "patch"} \subseteq EventOps
        /\ live \in {"starting", "raising", "reading", "idle", "returned", "raised", "closed"}
    BY DEF Writers, EventOps, TypeOK, TaskTypeOK, ContextTypeOK, ControlTypeOK
  <1>3. CASE InitRefused \/ InitState \/ InitTouch
    BY <1>1, <1>3, DeliveryQuiet DEF InitRefused, InitState, InitTouch
  <1>4. CASE InitComplete \/ PreStart
    <2>1. live \in Opened
      BY <1>1, <1>4 DEF InitComplete, PreStart
    <2> QED BY <1>1, <1>4, <2>1, DeliveryQuiet DEF InitComplete, PreStart
  <1>5. CASE StartXadd
    BY <1>1, <1>2, <1>5, DeliveryQuiet DEF StartXadd
  <1>6. CASE StartHset
    BY <1>1, <1>6, DeliveryQuiet DEF StartHset, Delivering
  <1>7. CASE ExecBegin \/ ExecGather \/ ExecWake
    <2>1. CASE ExecBegin
      BY <1>1, <2>1, DeliveryQuiet DEF ExecBegin
    <2>2. CASE ExecGather
      BY <1>1, <2>2, DeliveryQuiet DEF ExecGather
    <2>3. CASE ExecWake
      <3>1. source' # "pre_start"
        BY <2>3 DEF ExecWake, WakeSource, CancelSource
      <3> QED BY <1>1, <2>3, <3>1, DeliveryQuiet DEF ExecWake, AfterWait
    <2> QED BY <1>7, <2>1, <2>2, <2>3
  <1>8. CASE BizXadd
    <2>1. inflight' \in Nat
      BY <1>2, <1>8 DEF BizXadd, PatchSeq
    <2> QED BY <1>1, <1>2, <1>8, <2>1, DeliveryQuiet DEF BizXadd
  <1>9. CASE BizHset \/ BizEnds
    BY <1>1, <1>9, DeliveryQuiet DEF BizHset, BizEnds
  <1>10. CASE BeatStep \/ PulseFails
    BY <1>1, <1>10, DeliveryQuiet DEF BeatStep, BeatTouch, BeatFails, PulseFails, taskVars
  <1> QED BY <1>3, <1>4, <1>5, <1>6, <1>7, <1>8, <1>9, <1>10 DEF BizStep
\* _finalize, cancellation, failed commands and the clock of the heartbeat.
LEMMA DeliveryFinalize ==
    ASSUME TypeOK, DeliveryInv, ErrorInv, ProcessInv,
           \/ Complete \/ TerminalXadd \/ TerminalHset \/ MarkStatus \/ MarkHeartbeat \/ StopBeat
           \/ CancelRequest \/ CancelStart \/ CancelWait \/ CancelComplete \/ CancelEnds
           \/ TaskFault \/ HeartbeatExpires \/ HeartbeatLate
    PROVE  DeliveryInv'
  <1> USE DEF processVars, outcomeVars, redisVars, contextVars, deliveryVars, At, Opened, Settled, Extended,
              InRequest, StartSteps, FinalSteps
  <1>1. /\ unsaved # {} => "end" \in unsaved /\ work \in Settled \cup {"dead"}
        /\ InRequest => live \in {"starting", "raising"}
    BY DEF DeliveryInv
  <1>2. /\ Task \in Writers /\ emitted \in Nat /\ {"error", "end"} \subseteq EventOps
        /\ live \in {"starting", "raising", "reading", "idle", "returned", "raised", "closed"}
    BY DEF Writers, EventOps, TypeOK, TaskTypeOK, ContextTypeOK, ControlTypeOK
  <1>3. work \in Unspawned => source # "pre_start"
    BY DEF ProcessInv
  <1>4. CASE Complete \/ TerminalHset \/ MarkStatus \/ StopBeat
    <2>1. CASE Complete
      BY <1>1, <2>1, DeliveryQuiet DEF Complete
    <2>2. CASE TerminalHset
      BY <1>1, <2>2, DeliveryQuiet DEF TerminalHset
    <2>3. CASE MarkStatus \/ StopBeat
      BY <1>1, <2>3, DeliveryQuiet DEF MarkStatus, StopBeat
    <2> QED BY <1>4, <2>1, <2>2, <2>3
  <1>5. CASE TerminalXadd
    <2>1. CASE work = "error_xadd"
      BY <1>1, <1>2, <1>5, <2>1, DeliveryQuiet DEF TerminalXadd
    <2>2. CASE work = "end_xadd"
      <3>1. /\ Xadd("end", emitted + 1, Task) /\ work' = "end_hset"
            /\ UNCHANGED <<live, unsaved, failed, source, cursor, extra>>
        BY <1>5, <2>2 DEF TerminalXadd
      <3>2. failed => "error" \in Ops
        <4>1. failed => HasError(Task)
          BY <2>2 DEF ErrorInv, Erred
        <4> QED BY <4>1 DEF HasError, Ops, StoredOps
      <3>3. Extended
        BY <1>2, <3>1
      <3>4. "end" \in Ops'
        <4>1. stream \in Seq(Event) /\ Len(stream) \in Nat
          BY LenProperties DEF TypeOK, RedisTypeOK
        <4>2. Len(stream') = Len(stream) + 1 /\ stream'[Len(stream) + 1].op = "end"
          BY <3>1, <4>1, AppendProperties DEF Xadd
        <4> QED BY <4>1, <4>2 DEF Ops, StoredOps
      <3>5. Ops \subseteq Ops'
        BY <3>3, OpsExtend
      <3>6. Shown'
        BY <3>1, <3>2, <3>4, <3>5 DEF Shown
      <3> QED BY <1>1, <2>2, <3>1, <3>3, <3>6, DeliveryQuiet
    <2> QED BY <1>5, <2>1, <2>2 DEF TerminalXadd
  <1>6. CASE MarkHeartbeat \/ MarkFault
    <2>1. work \in Settled /\ work' \in Settled /\ UNCHANGED <<stream, unsaved, failed, source, cursor, extra>>
      BY <1>6 DEF MarkHeartbeat, MarkFault, Finalized
    <2>2. live' = live \/ (live \in {"starting", "raising"} /\ live' \in Opened \cup {"raised", "closed"})
      BY <1>1, <1>6 DEF MarkHeartbeat, MarkFault, Finalized, Delivering
    <2>3. ~InRequest' \/ live' = live
      BY <1>6 DEF MarkHeartbeat, MarkFault, Finalized
    <2>4. work \notin {"done", "dead"} /\ (InRequest' => InRequest)
      BY <1>6, <2>1 DEF MarkHeartbeat, MarkFault, Finalized
    <2> QED BY <1>1, <2>1, <2>2, <2>3, <2>4, DeliveryQuiet
  <1>7. CASE CancelRequest
    BY <1>1, <1>7, DeliveryQuiet DEF CancelRequest
  <1>8. CASE CancelStart
    BY <1>1, <1>3, <1>8, DeliveryQuiet DEF CancelStart, CancelAt
  <1>9. CASE CancelWait
    <2>1. source' # "pre_start"
      BY <1>9 DEF CancelWait, CancelSource
    <2> QED BY <1>1, <1>9, <2>1, DeliveryQuiet DEF CancelWait, CancelAt, AfterWait
  <1>10. CASE CancelComplete
    BY <1>1, <1>10, DeliveryQuiet DEF CancelComplete, CancelAt
  <1>11. CASE CancelEnds
    BY <1>1, <1>2, <1>11, DeliveryQuiet DEF CancelEnds, CancelAt
  <1>12. CASE InitFault \/ StartFault \/ BizFault
    BY <1>1, <1>12, DeliveryQuiet DEF InitFault, StartFault, BizFault
  <1>13. CASE TerminalFault
    <2>1. /\ work \in {"error_xadd", "error_hset", "end_xadd", "end_hset"}
          /\ work' = "mark_status" /\ unsaved' = UnsavedAfterFault
          /\ UNCHANGED <<stream, live, failed, source, cursor, extra>>
      BY <1>13 DEF TerminalFault
    <2>2. failed => "error" \in UnsavedAfterFault \cup Ops
      <3>1. CASE work \in {"error_xadd", "error_hset"}
        BY <3>1 DEF UnsavedAfterFault
      <3>2. CASE work = "end_xadd"
        <4>1. failed => HasError(Task)
          BY <3>2 DEF ErrorInv, Erred
        <4> QED BY <4>1 DEF HasError, Ops, StoredOps
      <3>3. CASE work = "end_hset"
        BY <1>1, <3>3 DEF DeliveryInv, Shown
      <3> QED BY <2>1, <3>1, <3>2, <3>3
    <2>3. Shown'
      BY <2>1, <2>2 DEF Shown, Ops, StoredOps, UnsavedAfterFault
    <2>4. "end" \in unsaved'
      BY <2>1 DEF UnsavedAfterFault
    <2> QED BY <1>1, <2>1, <2>3, <2>4, DeliveryQuiet
  <1>14. CASE HeartbeatExpires \/ HeartbeatLate
    BY <1>1, <1>14, DeliveryQuiet DEF HeartbeatExpires, HeartbeatLate, HeartbeatAges, taskVars
  <1> QED BY <1>4, <1>5, <1>6, <1>7, <1>8, <1>9, <1>10, <1>11, <1>12, <1>13, <1>14 DEF TaskFault

\* Scanners, processes and aclose().
LEMMA DeliveryRest ==
    ASSUME TypeOK, DeliveryInv,
           \/ RecoveryStep /\ UNCHANGED taskVars
           \/ ProcessStep /\ UNCHANGED <<taskVars, recoveryVars>>
           \/ CrashStep \/ CloseStep
    PROVE  DeliveryInv'
  <1> USE DEF processVars, outcomeVars, redisVars, contextVars, deliveryVars, taskVars, Opened, Settled, InRequest
  <1>1. /\ unsaved # {} => "end" \in unsaved /\ work \in Settled \cup {"dead"}
        /\ live \in {"starting", "raising", "reading", "idle", "returned", "raised", "closed"}
    BY DEF DeliveryInv, TypeOK, TaskTypeOK, ControlTypeOK
  <1>2. CASE Extended /\ UNCHANGED <<work, live, unsaved, failed, source, cursor, extra>>
    BY <1>1, <1>2, DeliveryQuiet
  <1>3. CASE RecoveryStep /\ UNCHANGED taskVars
    <2>1. Extended
      <3>1. CASE UNCHANGED stream
        BY <3>1 DEF Extended
      <3>2. ASSUME NEW r \in Runners, RecoverXadd(r)
            PROVE  Extended
        <4>1. Publishing[scan[r]] \in EventOps /\ seen[r] + 1 \in Nat /\ r \in Writers
          BY <3>2 DEF RecoverXadd, ScanAt, Publishing, EventOps, Writers, TypeOK, RecoveryTypeOK
        <4> QED BY <3>2, <4>1 DEF RecoverXadd, Extended
      <3> QED BY <1>3, <3>1, <3>2
          DEF RecoveryStep, ScanStep, ScanExpired, ScanClaim, ScanStatus, ScanForget, RecoverComplete,
              RecoverLastSeq, RecoverInitialModel, RecoverHset, RecoverMark, ScanRelease,
              ScanCancelled, ScanFault, ClaimExpires, ClaimOverrun, ClaimEnds
    <2> QED BY <1>2, <1>3, <2>1
  <1>4. CASE ProcessStep /\ UNCHANGED <<taskVars, recoveryVars>>
    <2>1. Extended
      BY <1>4 DEF ProcessStep, Stall, Resume, WatchdogFires, StateExpires, Extended
    <2> QED BY <1>2, <1>4, <2>1
  <1>5. CASE CloseStep
    <2>1. UNCHANGED <<stream, work, live, unsaved, failed, source, cursor, extra>>
      BY <1>5 DEF CloseStep, CloseBegin, CloseEnd
    <2> QED BY <1>2, <2>1 DEF Extended
  <1>6. CASE CrashStep
    <2>1. PICK r \in Runners : Crash(r) /\ IF r = Owner THEN TaskLost ELSE UNCHANGED taskVars
      BY <1>6 DEF CrashStep
    <2>2. UNCHANGED stream
      BY <2>1 DEF Crash
    <2>3. CASE r = Owner
      <3>1. /\ work' = "dead" /\ unsaved' = {} /\ live' = "closed" /\ cursor' = 0
            /\ UNCHANGED <<failed, extra>>
        BY <2>1, <2>3 DEF TaskLost
      <3>2. Len(stream) \in Nat
        BY LenProperties DEF TypeOK, RedisTypeOK
      <3>3. StoredOps(cursor)' = {} /\ Ops' = Ops
        BY <2>2, <3>1 DEF StoredOps, Ops
      <3>4. LiveShowsOneEnd'
        BY <2>2, <3>1, <3>3 DEF DeliveryInv, LiveShowsOneEnd, Ops
      <3> QED BY <2>2, <3>1, <3>2, <3>4 DEF DeliveryInv, StartSteps, FinalSteps
    <2>4. CASE r # Owner
      <3>1. UNCHANGED taskVars
        BY <2>1, <2>4
      <3> QED BY <1>2, <2>2, <3>1 DEF Extended
    <2> QED BY <2>3, <2>4
  <1> QED BY <1>3, <1>4, <1>5, <1>6

\* DeliveryInv holds in every reachable state.
LEMMA DeliveryAlways == Spec => []DeliveryInv
  <1>1. Init => DeliveryInv
    <2> SUFFICES ASSUME Init PROVE DeliveryInv
      OBVIOUS
    <2>1. stream = <<>> /\ cursor = 0 /\ StoredOps(0) = {}
      BY DEF Init, RedisInit, TaskInit, StoredOps
    <2> QED BY <2>1 DEF Init, TaskInit, DeliveryInv, LiveShowsOneEnd, Settled
  <1>2. TypeOK /\ ErrorInv /\ ProcessInv /\ DeliveryInv /\ [Next]_vars => DeliveryInv'
    <2> SUFFICES ASSUME TypeOK, ErrorInv, ProcessInv, DeliveryInv, [Next]_vars
                 PROVE  DeliveryInv'
      OBVIOUS
    <2>1. CASE UNCHANGED vars
      <3>1. UNCHANGED <<stream, work, live, unsaved, failed, source, cursor, extra>>
        BY <2>1 DEF vars, redisVars, taskVars, outcomeVars, deliveryVars
      <3>2. unsaved # {} => "end" \in unsaved /\ work \in Settled \cup {"dead"}
        BY DEF DeliveryInv
      <3> QED BY <3>1, <3>2, DeliveryQuiet DEF Extended, InRequest
    <2>2. CASE TaskStep /\ UNCHANGED recoveryVars
      BY <2>2, DeliveryExecute, DeliveryFinalize, DeliveryLive DEF TaskStep, WorkStep
    <2> QED BY <2>1, <2>2, DeliveryRest DEF Next
  <1> QED BY <1>1, <1>2, TypeCorrect, ErrorAlways, ProcessAlways, PTL DEF Spec

\* A live consumer is shown one end, as the last event, and no terminal event
\* twice; its delivery returns only when there is an end, and an end that it hands
\* over of a failed task comes with the error or after that was stored
\* (_stream_live, the results of _publish_terminal).
THEOREM OneEndShown == Spec => []LiveShowsOneEnd
  <1>1. DeliveryInv => LiveShowsOneEnd
    BY DEF DeliveryInv
  <1> QED BY <1>1, DeliveryAlways, PTL
================================================================================

----------------------------- MODULE RunnerProofs ------------------------------
(***************************************************************************)
(* Theorems about Runner for every set of instances, every disturbance and *)
(* every bound.                                                            *)
(***************************************************************************)
EXTENDS Runner, SequenceTheorems, TLAPS

--------------------------------------------------------------------------------
(* Type correctness                                                         *)

\* What XADD appends keeps the stream a sequence of events.
LEMMA XaddType ==
    ASSUME stream \in Seq(Event), NEW op \in EventOps, NEW n \in Nat, NEW w \in Writers, Xadd(op, n, w)
    PROVE  stream' \in Seq(Event)
  BY AppendProperties DEF Xadd, Event

\* A disturbance, or none, keeps the types of what counts them.
LEMMA DisturbType ==
    ASSUME TypeOK, NEW kind, Disturb(kind)
    PROVE  budget' \in Nat /\ happened' \in SUBSET Kinds
  BY ProcessAssumption DEF TypeOK, ProcessTypeOK, Disturb

\* A step without a disturbance keeps their types.
LEMMA CalmType ==
    ASSUME TypeOK, Calm
    PROVE  budget' \in Nat /\ happened' \in SUBSET Kinds
  BY DEF TypeOK, ProcessTypeOK, Calm

\* HSET of last_seq or of the status keeps the hash a hash.
LEMMA HsetType ==
    ASSUME TypeOK
    PROVE  /\ \A n \in Nat : HsetSeq(n) => state' \in State
           /\ \A s \in {"completed", "failed"} : HsetStatus(s) => state' \in State
  BY DEF TypeOK, RedisTypeOK, State, HsetSeq, HsetStatus

\* The steps of run() up to the spawn of _execute keep every type.
LEMMA StartType ==
    ASSUME TypeOK, UNCHANGED recoveryVars,
           InitRefused \/ InitState \/ InitTouch \/ InitComplete \/ PreStart \/ StartXadd \/ StartHset
    PROVE  TypeOK'
  <1> USE DEF TypeOK, RedisTypeOK, ProcessTypeOK, TaskTypeOK, ControlTypeOK, ContextTypeOK, RecoveryTypeOK,
              redisVars, processVars, recoveryVars, contextVars, outcomeVars, asideVars, deliveryVars,
              WorkSteps, StartSteps, FinalSteps, At, Calm
  <1>1. CASE InitRefused
    BY <1>1 DEF InitRefused
  <1>2. CASE InitState
    BY <1>2 DEF InitState, HsetTask, State
  <1>3. CASE InitTouch
    BY <1>3 DEF InitTouch, Zadd
  <1>4. CASE InitComplete
    BY <1>4 DEF InitComplete, Completes, Writers
  <1>5. CASE PreStart
    <2>1. RedisTypeOK' /\ ProcessTypeOK' /\ RecoveryTypeOK'
      BY <1>5 DEF PreStart
    <2>2. TaskTypeOK'
      <3>1. CASE work' = "start_xadd" /\ UNCHANGED <<source, failed, live>>
        BY <1>5, <3>1 DEF PreStart
      <3>2. CASE /\ work' = "restart_xadd" /\ source' = "pre_start" /\ failed' = TRUE
                 /\ live' \in {"starting", "raising"}
        BY <1>5, <3>2 DEF PreStart
      <3> QED BY <1>5, <3>1, <3>2 DEF PreStart
    <2> QED BY <2>1, <2>2
  <1>6. CASE StartXadd
    <2>1. Task \in Writers /\ "start" \in EventOps /\ emitted + 1 \in Nat
      BY DEF Writers, EventOps
    <2>2. stream' \in Seq(Event)
      BY <1>6, <2>1, XaddType DEF StartXadd
    <2> QED BY <1>6, <2>2 DEF StartXadd, NumberEvent
  <1>7. CASE StartHset
    <2>1. RedisTypeOK' /\ ProcessTypeOK' /\ RecoveryTypeOK'
      BY <1>7, HsetType DEF StartHset
    <2>2. TaskTypeOK'
      BY <1>7 DEF StartHset, Delivering
    <2> QED BY <2>1, <2>2
  <1> QED BY <1>1, <1>2, <1>3, <1>4, <1>5, <1>6, <1>7

\* _execute keeps every type.
LEMMA ExecuteType ==
    ASSUME TypeOK, UNCHANGED recoveryVars,
           ExecBegin \/ ExecWake \/ ExecGather \/ BizXadd \/ BizHset \/ BizEnds \/ BeatTouch \/ BeatFails \/ PulseFails
    PROVE  TypeOK'
  <1> USE DEF TypeOK, RedisTypeOK, ProcessTypeOK, TaskTypeOK, ControlTypeOK, ContextTypeOK, RecoveryTypeOK, redisVars, processVars,
              recoveryVars, contextVars, outcomeVars, asideVars, deliveryVars,
              At, WorkSteps, StartSteps, FinalSteps, BizOver
  <1>1. CASE ExecBegin
    <2>1. RedisTypeOK' /\ ProcessTypeOK' /\ RecoveryTypeOK'
      BY <1>1 DEF ExecBegin
    <2>2. TaskTypeOK'
      BY <1>1 DEF ExecBegin
    <2> QED BY <2>1, <2>2
  <1>2. CASE ExecWake
    <2>1. RedisTypeOK' /\ ProcessTypeOK' /\ RecoveryTypeOK'
      BY <1>2 DEF ExecWake
    <2>2. TaskTypeOK'
      BY <1>2 DEF ExecWake, AfterWait, PulseLost, WakeSource, CancelSource
    <2> QED BY <2>1, <2>2
  <1>3. CASE ExecGather
    <2>1. RedisTypeOK' /\ ProcessTypeOK' /\ RecoveryTypeOK'
      BY <1>3 DEF ExecGather
    <2>2. TaskTypeOK'
      BY <1>3 DEF ExecGather
    <2> QED BY <2>1, <2>2
  <1>4. CASE BizXadd
    <2>1. PICK n \in Nat : inflight' = n /\ emitted' \in Nat
      BY <1>4 DEF BizXadd, PatchSeq
    <2>2. budget' \in Nat /\ happened' \in SUBSET Kinds
      BY <1>4, ProcessAssumption DEF BizXadd, PatchSeq, Calm, Disturb
    <2>3. stream' \in Seq(Event)
      <3>1. Task \in Writers /\ "patch" \in EventOps
        BY DEF Writers, EventOps
      <3>2. CASE UNCHANGED stream
        BY <3>2
      <3>3. CASE Xadd("patch", n, Task)
        BY <2>1, <3>1, <3>3, XaddType
      <3> QED BY <1>4, <2>1, <3>2, <3>3 DEF BizXadd
    <2>4. snapshot' \in SUBSET Nat /\ biz' \in {"raised", "stream_hset"}
      BY <1>4, <2>1 DEF BizXadd
    <2>5. RedisTypeOK' /\ ProcessTypeOK' /\ RecoveryTypeOK'
      BY <1>4, <2>2, <2>3 DEF BizXadd
    <2>6. TaskTypeOK'
      BY <1>4, <2>1, <2>4 DEF BizXadd
    <2> QED BY <2>5, <2>6
  <1>5. CASE BizHset
    <2>1. RedisTypeOK' /\ ProcessTypeOK' /\ RecoveryTypeOK'
      BY <1>5 DEF BizHset, HsetSeq, State
    <2>2. TaskTypeOK'
      BY <1>5 DEF BizHset
    <2> QED BY <2>1, <2>2
  <1>6. CASE BizEnds
    <2>1. RedisTypeOK' /\ ProcessTypeOK' /\ RecoveryTypeOK'
      BY <1>6 DEF BizEnds
    <2>2. TaskTypeOK'
      BY <1>6 DEF BizEnds
    <2> QED BY <2>1, <2>2
  <1>7. CASE BeatTouch
    <2>1. RedisTypeOK' /\ ProcessTypeOK' /\ RecoveryTypeOK'
      BY <1>7 DEF BeatTouch, Zadd
    <2>2. TaskTypeOK'
      BY <1>7 DEF BeatTouch, taskVars
    <2> QED BY <2>1, <2>2
  <1>8. CASE BeatFails
    <2>1. budget' \in Nat /\ happened' \in SUBSET Kinds
      BY <1>8, DisturbType, CalmType DEF BeatFails
    <2>2. heartbeat' \in {"absent", "fresh", "expired"}
      BY <1>8 DEF BeatFails, Zadd
    <2>3. RedisTypeOK' /\ ProcessTypeOK' /\ RecoveryTypeOK'
      BY <1>8, <2>1, <2>2 DEF BeatFails
    <2>4. TaskTypeOK'
      BY <1>8 DEF BeatFails
    <2> QED BY <2>3, <2>4
  <1>9. CASE PulseFails
    <2>1. RedisTypeOK' /\ ProcessTypeOK' /\ RecoveryTypeOK'
      BY <1>9 DEF PulseFails
    <2>2. TaskTypeOK'
      BY <1>9 DEF PulseFails
    <2> QED BY <2>1, <2>2
  <1> QED BY <1>1, <1>2, <1>3, <1>4, <1>5, <1>6, <1>7, <1>8, <1>9

\* _finalize keeps every type.
LEMMA FinalizeType ==
    ASSUME TypeOK, UNCHANGED recoveryVars,
           Complete \/ TerminalXadd \/ TerminalHset \/ MarkStatus \/ MarkHeartbeat \/ StopBeat
    PROVE  TypeOK'
  <1> USE DEF TypeOK, RedisTypeOK, ProcessTypeOK, TaskTypeOK, ControlTypeOK, ContextTypeOK, RecoveryTypeOK, redisVars, processVars,
              recoveryVars, contextVars, outcomeVars, asideVars, deliveryVars,
              At, WorkSteps, StartSteps, FinalSteps, BizOver
  <1>1. CASE Complete
    <2>1. completedBy' \in SUBSET Writers
      BY <1>1 DEF Complete, Completes, Writers
    <2>2. failed' \in BOOLEAN
      BY <1>1 DEF Complete
    <2>3. RedisTypeOK' /\ ProcessTypeOK' /\ RecoveryTypeOK'
      BY <1>1, <2>1 DEF Complete, Calm
    <2>4. TaskTypeOK'
      BY <1>1, <2>2 DEF Complete
    <2> QED BY <2>3, <2>4
  <1>2. CASE TerminalXadd
    <2>1. Task \in Writers /\ "error" \in EventOps /\ "end" \in EventOps /\ emitted + 1 \in Nat
      BY DEF Writers, EventOps
    <2>2. stream' \in Seq(Event)
      <3>1. CASE Xadd("error", emitted + 1, Task)
        BY <2>1, <3>1, XaddType
      <3>2. CASE Xadd("end", emitted + 1, Task)
        BY <2>1, <3>2, XaddType
      <3> QED BY <1>2, <3>1, <3>2 DEF TerminalXadd
    <2>3. RedisTypeOK' /\ ProcessTypeOK' /\ RecoveryTypeOK'
      BY <1>2, <2>2 DEF TerminalXadd
    <2>4. TaskTypeOK'
      BY <1>2 DEF TerminalXadd
    <2> QED BY <2>3, <2>4
  <1>3. CASE TerminalHset
    <2>1. RedisTypeOK' /\ ProcessTypeOK' /\ RecoveryTypeOK'
      BY <1>3 DEF TerminalHset, HsetSeq, State
    <2>2. TaskTypeOK'
      BY <1>3 DEF TerminalHset
    <2> QED BY <2>1, <2>2
  <1>4. CASE MarkStatus
    <2>1. RedisTypeOK' /\ ProcessTypeOK' /\ RecoveryTypeOK'
      BY <1>4 DEF MarkStatus, HsetStatus, State
    <2>2. TaskTypeOK'
      BY <1>4 DEF MarkStatus
    <2> QED BY <2>1, <2>2
  <1>5. CASE MarkHeartbeat
    <2>1. RedisTypeOK' /\ ProcessTypeOK' /\ RecoveryTypeOK'
      BY <1>5 DEF MarkHeartbeat, Zrem
    <2>2. TaskTypeOK'
      BY <1>5 DEF MarkHeartbeat, Finalized, Delivering
    <2> QED BY <2>1, <2>2
  <1>6. CASE StopBeat
    <2>1. RedisTypeOK' /\ ProcessTypeOK' /\ RecoveryTypeOK'
      BY <1>6 DEF StopBeat
    <2>2. TaskTypeOK'
      BY <1>6 DEF StopBeat, BeatStopped
    <2> QED BY <2>1, <2>2
  <1> QED BY <1>1, <1>2, <1>3, <1>4, <1>5, <1>6

\* A cancellation keeps every type.
LEMMA CancelType ==
    ASSUME TypeOK, UNCHANGED recoveryVars,
           CancelRequest \/ CancelStart \/ CancelWait \/ CancelComplete \/ CancelEnds
    PROVE  TypeOK'
  <1> USE DEF TypeOK, RedisTypeOK, ProcessTypeOK, TaskTypeOK, ControlTypeOK, ContextTypeOK, RecoveryTypeOK, redisVars, processVars,
              recoveryVars, contextVars, outcomeVars, asideVars, deliveryVars,
              At, WorkSteps, StartSteps, FinalSteps, BizOver
  <1>1. CASE CancelRequest
    <2>1. budget' \in Nat /\ happened' \in SUBSET Kinds
      BY <1>1, DisturbType, CalmType DEF CancelRequest
    <2>3. RedisTypeOK' /\ ProcessTypeOK' /\ RecoveryTypeOK'
      BY <1>1, <2>1 DEF CancelRequest
    <2>4. TaskTypeOK'
      BY <1>1 DEF CancelRequest
    <2> QED BY <2>3, <2>4
  <1>2. CASE CancelStart
    <2>1. state' \in State /\ heartbeat' \in {"absent", "fresh", "expired"}
      <3>1. CASE UNCHANGED <<state, heartbeat>>
        BY <3>1
      <3>2. CASE HsetTask /\ UNCHANGED heartbeat
        BY <3>2 DEF HsetTask, State
      <3>3. CASE Zadd /\ UNCHANGED state
        BY <3>3 DEF Zadd
      <3>4. CASE HsetSeq(emitted) /\ UNCHANGED heartbeat
        BY <3>4, HsetType
      <3> QED BY <1>2, <3>1, <3>2, <3>3, <3>4 DEF CancelStart
    <2>2. RedisTypeOK' /\ ProcessTypeOK' /\ RecoveryTypeOK'
      BY <1>2, <2>1 DEF CancelStart
    <2>3. emitted' \in Nat /\ snapshot' \in SUBSET Nat
      <3>1. CASE NumberEvent
        BY <3>1 DEF NumberEvent
      <3>2. CASE UNCHANGED <<emitted, snapshot>>
        BY <3>2
      <3> QED BY <1>2, <3>1, <3>2 DEF CancelStart
    <2>4. cancel' = FALSE /\ UNCHANGED <<published, inflight, handed, unsaved, asideVars, deliveryVars>>
      BY <1>2 DEF CancelStart, CancelAt
    <2>5. CASE work \in {"init_state", "init_touch"}
      <3>1. work' = "init_complete" /\ UNCHANGED <<source, failed, live>>
        BY <1>2, <2>5 DEF CancelStart
      <3>2. ControlTypeOK'
        BY <2>4, <3>1
      <3>3. ContextTypeOK'
        BY <2>3, <2>4, <3>1
      <3> QED BY <2>2, <3>2, <3>3
    <2>6. CASE work \notin {"init_state", "init_touch"}
      <3>1. work' = "restart_xadd" /\ source' = "pre_start" /\ failed' = TRUE /\ live' = "raising"
        BY <1>2, <2>6 DEF CancelStart
      <3>2. ControlTypeOK' /\ ContextTypeOK'
        BY <2>3, <2>4, <3>1
      <3> QED BY <2>2, <3>2
    <2> QED BY <2>5, <2>6
  <1>3. CASE CancelWait
    <2>1. RedisTypeOK' /\ ProcessTypeOK' /\ RecoveryTypeOK'
      BY <1>3 DEF CancelWait
    <2>2. TaskTypeOK'
      BY <1>3 DEF CancelWait, CancelAt, CancelSource, AfterWait
    <2> QED BY <2>1, <2>2
  <1>4. CASE CancelComplete
    <2>1. completedBy' \in SUBSET Writers
      BY <1>4 DEF CancelComplete, Completes, Writers
    <2>3. RedisTypeOK' /\ ProcessTypeOK' /\ RecoveryTypeOK'
      BY <1>4, <2>1 DEF CancelComplete, Calm
    <2>4. CASE work = "complete"
      <3>1. work' = "error_xadd" /\ failed' = TRUE /\ handed' = snapshot /\ live' = live
        BY <1>4, <2>4 DEF CancelComplete
      <3>3. cancel' = FALSE /\ UNCHANGED <<contextVars, source, unsaved, asideVars, deliveryVars>>
        BY <1>4 DEF CancelComplete, CancelAt
      <3>2. ControlTypeOK'
        BY <3>1, <3>3
      <3>4. ContextTypeOK'
        BY <3>1, <3>3
      <3> QED BY <2>3, <3>2, <3>4
    <2>5. CASE work # "complete"
      BY <1>4, <2>3, <2>5 DEF CancelComplete, CancelAt
    <2> QED BY <2>4, <2>5
  <1>5. CASE CancelEnds
    <2>3. state' \in State /\ heartbeat' \in {"absent", "fresh", "expired"}
      BY <1>5, HsetType DEF CancelEnds, Zrem
    <2>1. RedisTypeOK' /\ ProcessTypeOK' /\ RecoveryTypeOK'
      BY <1>5, <2>3 DEF CancelEnds
    <2>2. TaskTypeOK'
      BY <1>5 DEF CancelEnds, CancelAt, BeatStopped
    <2> QED BY <2>1, <2>2
  <1> QED BY <1>1, <1>2, <1>3, <1>4, <1>5

\* A Redis command of the owner that raises keeps every type.
LEMMA FaultType ==
    ASSUME TypeOK, UNCHANGED recoveryVars,
           InitFault \/ StartFault \/ TerminalFault \/ MarkFault \/ BizFault
    PROVE  TypeOK'
  <1> USE DEF TypeOK, RedisTypeOK, ProcessTypeOK, TaskTypeOK, ControlTypeOK, ContextTypeOK, RecoveryTypeOK, redisVars, processVars,
              recoveryVars, contextVars, outcomeVars, asideVars, deliveryVars,
              At, WorkSteps, StartSteps, FinalSteps, BizOver
  <1>1. CASE InitFault
    <2>1. budget' \in Nat /\ happened' \in SUBSET Kinds
      BY <1>1, DisturbType, CalmType DEF InitFault
    <2>2. state' \in State /\ heartbeat' \in {"absent", "fresh", "expired"}
      <3>1. CASE UNCHANGED <<state, heartbeat>>
        BY <3>1
      <3>2. CASE HsetTask /\ UNCHANGED heartbeat
        BY <3>2 DEF HsetTask, State
      <3>3. CASE Zadd /\ UNCHANGED state
        BY <3>3 DEF Zadd
      <3> QED BY <1>1, <3>1, <3>2, <3>3 DEF InitFault
    <2>3. RedisTypeOK' /\ ProcessTypeOK' /\ RecoveryTypeOK'
      BY <1>1, <2>1, <2>2 DEF InitFault
    <2>4. TaskTypeOK'
      BY <1>1 DEF InitFault
    <2> QED BY <2>3, <2>4
  <1>2. CASE StartFault
    <2>1. budget' \in Nat /\ happened' \in SUBSET Kinds
      BY <1>2, DisturbType, CalmType DEF StartFault
    <2>2. state' \in State
      BY <1>2, HsetType DEF StartFault
    <2>5. emitted' \in Nat /\ snapshot' \in SUBSET Nat
      <3>1. CASE NumberEvent
        BY <3>1 DEF NumberEvent
      <3>2. CASE UNCHANGED <<emitted, snapshot>>
        BY <3>2
      <3> QED BY <1>2, <3>1, <3>2 DEF StartFault
    <2>3. RedisTypeOK' /\ ProcessTypeOK' /\ RecoveryTypeOK'
      BY <1>2, <2>1, <2>2 DEF StartFault
    <2>4. TaskTypeOK'
      BY <1>2, <2>5 DEF StartFault
    <2> QED BY <2>3, <2>4
  <1>3. CASE TerminalFault
    <2>1. budget' \in Nat /\ happened' \in SUBSET Kinds
      BY <1>3, DisturbType, CalmType DEF TerminalFault
    <2>2. state' \in State
      BY <1>3, HsetType DEF TerminalFault
    <2>3. RedisTypeOK' /\ ProcessTypeOK' /\ RecoveryTypeOK'
      BY <1>3, <2>1, <2>2 DEF TerminalFault
    <2>4. TaskTypeOK'
      BY <1>3 DEF TerminalFault, UnsavedAfterFault
    <2> QED BY <2>3, <2>4
  <1>4. CASE MarkFault
    <2>1. budget' \in Nat /\ happened' \in SUBSET Kinds
      BY <1>4, DisturbType, CalmType DEF MarkFault
    <2>2. state' \in State
      BY <1>4, HsetType DEF MarkFault
    <2>3. RedisTypeOK' /\ ProcessTypeOK' /\ RecoveryTypeOK'
      BY <1>4, <2>1, <2>2 DEF MarkFault
    <2>4. TaskTypeOK'
      BY <1>4 DEF MarkFault, Finalized, Delivering
    <2> QED BY <2>3, <2>4
  <1>5. CASE BizFault
    <2>1. budget' \in Nat /\ happened' \in SUBSET Kinds
      BY <1>5, DisturbType, CalmType DEF BizFault
    <2>2. state' \in State
      BY <1>5, HsetType DEF BizFault
    <2>5. emitted' \in Nat /\ snapshot' \in SUBSET Nat
      <3>1. CASE NumberEvent
        BY <3>1 DEF NumberEvent
      <3>2. CASE UNCHANGED <<emitted, snapshot>>
        BY <3>2
      <3> QED BY <1>5, <3>1, <3>2 DEF BizFault
    <2>3. RedisTypeOK' /\ ProcessTypeOK' /\ RecoveryTypeOK'
      BY <1>5, <2>1, <2>2 DEF BizFault
    <2>4. TaskTypeOK'
      BY <1>5, <2>5 DEF BizFault
    <2> QED BY <2>3, <2>4
  <1> QED BY <1>1, <1>2, <1>3, <1>4, <1>5

\* The live delivery and the heartbeat's age keep every type.
LEMMA LiveType ==
    ASSUME TypeOK, UNCHANGED recoveryVars,
           LiveDeliver \/ LiveRead \/ LiveIdle \/ LiveClosed \/ HeartbeatExpires \/ HeartbeatLate
    PROVE  TypeOK'
  <1> USE DEF TypeOK, RedisTypeOK, ProcessTypeOK, TaskTypeOK, ControlTypeOK, ContextTypeOK, RecoveryTypeOK, redisVars, processVars,
              recoveryVars, contextVars, outcomeVars, asideVars, deliveryVars,
              At, WorkSteps, StartSteps, FinalSteps, BizOver
  <1>1. CASE LiveDeliver
    <2>1. RedisTypeOK' /\ ProcessTypeOK' /\ RecoveryTypeOK'
      BY <1>1 DEF LiveDeliver
    <2>2. TaskTypeOK'
      BY <1>1 DEF LiveDeliver
    <2> QED BY <2>1, <2>2
  <1>2. CASE LiveRead
    <2>1. RedisTypeOK' /\ ProcessTypeOK' /\ RecoveryTypeOK'
      BY <1>2 DEF LiveRead
    <2>2. TaskTypeOK'
      BY <1>2 DEF LiveRead
    <2> QED BY <2>1, <2>2
  <1>3. CASE LiveIdle
    <2>1. RedisTypeOK' /\ ProcessTypeOK' /\ RecoveryTypeOK'
      BY <1>3 DEF LiveIdle
    <2>2. TaskTypeOK'
      BY <1>3 DEF LiveIdle
    <2> QED BY <2>1, <2>2
  <1>4. CASE LiveClosed
    <2>1. budget' \in Nat /\ happened' \in SUBSET Kinds
      BY <1>4, DisturbType, CalmType DEF LiveClosed
    <2>3. RedisTypeOK' /\ ProcessTypeOK' /\ RecoveryTypeOK'
      BY <1>4, <2>1 DEF LiveClosed
    <2>4. TaskTypeOK'
      BY <1>4 DEF LiveClosed
    <2> QED BY <2>3, <2>4
  <1>5. CASE HeartbeatExpires
    <2>1. RedisTypeOK' /\ ProcessTypeOK' /\ RecoveryTypeOK'
      BY <1>5 DEF HeartbeatExpires, HeartbeatAges, Calm
    <2>2. TaskTypeOK'
      BY <1>5 DEF HeartbeatExpires, HeartbeatAges, taskVars
    <2> QED BY <2>1, <2>2
  <1>6. CASE HeartbeatLate
    <2>1. budget' \in Nat /\ happened' \in SUBSET Kinds
      BY <1>6, DisturbType, CalmType DEF HeartbeatLate
    <2>3. RedisTypeOK' /\ ProcessTypeOK' /\ RecoveryTypeOK'
      BY <1>6, <2>1 DEF HeartbeatLate, HeartbeatAges
    <2>4. TaskTypeOK'
      BY <1>6 DEF HeartbeatLate, HeartbeatAges, taskVars
    <2> QED BY <2>3, <2>4
  <1> QED BY <1>1, <1>2, <1>3, <1>4, <1>5, <1>6

\* The scanner's control moves within its steps.
LEMMA GotoType ==
    ASSUME TypeOK, NEW r \in Runners, NEW step \in ScanSteps, ScanGoto(r, step)
    PROVE  scan' \in [Runners -> ScanSteps]
  BY DEF TypeOK, RecoveryTypeOK, ScanGoto

\* A command whose answer is not read leaves a hash and a heartbeat entry.
LEMMA UnansweredType ==
    ASSUME TypeOK, NEW r \in Runners, Unanswered(r)
    PROVE  state' \in State /\ heartbeat' \in {"absent", "fresh", "expired"}
  <1>1. state \in State /\ heartbeat \in {"absent", "fresh", "expired"} /\ seen[r] \in Nat
    BY DEF TypeOK, RedisTypeOK, RecoveryTypeOK
  <1> QED BY <1>1, HsetType DEF Unanswered, Zrem

\* A scanner's step keeps every type.
LEMMA ScanType ==
    ASSUME TypeOK, UNCHANGED taskVars, NEW r \in Runners, ScanStep(r)
    PROVE  TypeOK'
  <1> USE DEF TypeOK, RedisTypeOK, ProcessTypeOK, RecoveryTypeOK, redisVars, processVars, recoveryVars, ScanAt
  <1>1. TaskTypeOK'
    BY DEF TaskTypeOK, ControlTypeOK, ContextTypeOK, taskVars, contextVars, outcomeVars, asideVars, deliveryVars
  <1>2. /\ {"idle", "claim", "off"} \subseteq ScanSteps
        /\ TrySteps \subseteq ScanSteps
        /\ ReleaseSteps \subseteq ScanSteps
    BY DEF ScanSteps
  <1> HIDE DEF RecoveryTypeOK
  <1>3. RecoveryTypeOK
    BY DEF TypeOK
  <1>4. CASE ScanExpired(r)
    <2>1. scan' \in [Runners -> ScanSteps]
      BY <1>4, <1>2, GotoType DEF ScanExpired
    <2> QED BY <1>1, <1>3, <1>4, <2>1 DEF ScanExpired, RecoveryTypeOK
  <1>5. CASE ScanClaim(r)
    <2>1. "status" \in ScanSteps
      BY DEF ScanSteps, TrySteps
    <2>2. scan' \in [Runners -> ScanSteps]
      BY <1>5, <1>2, <2>1, GotoType DEF ScanClaim
    <2>3. claim' \in Runners \cup {NoOne}
      BY <1>5 DEF ScanClaim, SetClaim
    <2> QED BY <1>1, <1>3, <1>5, <2>2, <2>3 DEF ScanClaim, RecoveryTypeOK
  <1>6. CASE ScanStatus(r)
    <2>1. {"complete", "forget"} \subseteq ScanSteps
      BY DEF ScanSteps, TrySteps
    <2>2. scan' \in [Runners -> ScanSteps]
      BY <1>6, <2>1, GotoType DEF ScanStatus
    <2> QED BY <1>1, <1>3, <1>6, <2>2 DEF ScanStatus, RecoveryTypeOK
  <1>7. CASE ScanForget(r)
    <2>1. "release" \in ScanSteps
      BY DEF ScanSteps, ReleaseSteps
    <2>2. scan' \in [Runners -> ScanSteps]
      BY <1>7, <2>1, GotoType DEF ScanForget
    <2> QED BY <1>1, <1>3, <1>7, <2>2 DEF ScanForget, Zrem, RecoveryTypeOK
  <1>8. CASE RecoverComplete(r)
    <2>1. "last_seq" \in ScanSteps /\ r \in Writers
      BY DEF ScanSteps, TrySteps, Writers
    <2>2. scan' \in [Runners -> ScanSteps]
      BY <1>8, <2>1, GotoType DEF RecoverComplete
    <2>3. completedBy' \in SUBSET Writers
      BY <1>8, <2>1 DEF RecoverComplete, Completes
    <2> QED BY <1>1, <1>3, <1>8, <2>2, <2>3 DEF RecoverComplete, Calm, RecoveryTypeOK
  <1>9. CASE RecoverLastSeq(r)
    <2>1. {"initial_model", "error_xadd"} \subseteq ScanSteps
      BY DEF ScanSteps, TrySteps
    <2>2. scan' \in [Runners -> ScanSteps]
      BY <1>9, <2>1, GotoType DEF RecoverLastSeq
    <2>3. seen' \in [Runners -> Nat]
      BY <1>9, <1>3 DEF RecoverLastSeq, State, RecoveryTypeOK
    <2> QED BY <1>1, <1>3, <1>9, <2>2, <2>3 DEF RecoverLastSeq, RecoveryTypeOK
  <1>10. CASE RecoverInitialModel(r)
    <2>1. {"start_xadd", "error_xadd"} \subseteq ScanSteps
      BY DEF ScanSteps, TrySteps
    <2>2. scan' \in [Runners -> ScanSteps]
      BY <1>10, <2>1, GotoType DEF RecoverInitialModel
    <2> QED BY <1>1, <1>3, <1>10, <2>2 DEF RecoverInitialModel, RecoveryTypeOK
  <1>11. CASE RecoverXadd(r)
    <2>1. scan[r] \in {"start_xadd", "error_xadd", "end_xadd"}
      BY <1>11 DEF RecoverXadd, Publishing
    <2>2. Publishing[scan[r]] \in EventOps /\ AfterXadd[scan[r]] \in ScanSteps
      BY <2>1 DEF Publishing, AfterXadd, EventOps, ScanSteps, TrySteps
    <2>3. seen[r] + 1 \in Nat /\ r \in Writers
      BY <1>3 DEF RecoveryTypeOK, Writers
    <2>4. scan' \in [Runners -> ScanSteps]
      BY <1>11, <2>2, GotoType DEF RecoverXadd
    <2>5. stream' \in Seq(Event)
      BY <1>11, <2>2, <2>3, XaddType DEF RecoverXadd
    <2>6. seen' \in [Runners -> Nat]
      BY <1>11, <1>3, <2>3 DEF RecoverXadd, RecoveryTypeOK
    <2> QED BY <1>1, <1>3, <1>11, <2>4, <2>5, <2>6 DEF RecoverXadd, RecoveryTypeOK
  <1>12. CASE RecoverHset(r)
    <2>1. scan[r] \in {"start_hset", "error_hset", "end_hset"}
      BY <1>12 DEF RecoverHset, AfterHset
    <2>2. AfterHset[scan[r]] \in ScanSteps
      BY <2>1 DEF AfterHset, ScanSteps, TrySteps
    <2>3. scan' \in [Runners -> ScanSteps]
      BY <1>12, <2>2, GotoType DEF RecoverHset
    <2>4. state' \in State
      BY <1>12, <1>3, HsetType DEF RecoverHset, RecoveryTypeOK
    <2> QED BY <1>1, <1>3, <1>12, <2>3, <2>4 DEF RecoverHset, RecoveryTypeOK
  <1>13. CASE RecoverMark(r)
    <2>1. "mark_heartbeat" \in ScanSteps /\ "release" \in ScanSteps
      BY DEF ScanSteps, TrySteps, ReleaseSteps
    <2>2. scan' \in [Runners -> ScanSteps]
      BY <1>13, <2>1, GotoType DEF RecoverMark
    <2>3. state' \in State
      BY <1>13, HsetType DEF RecoverMark
    <2>4. heartbeat' \in {"absent", "fresh", "expired"}
      BY <1>13 DEF RecoverMark, Zrem
    <2> QED BY <1>1, <1>3, <1>13, <2>2, <2>3, <2>4 DEF RecoverMark, RecoveryTypeOK
  <1>14. CASE ScanRelease(r)
    <2>1. scan' \in [Runners -> ScanSteps]
      BY <1>14, <1>2, GotoType DEF ScanRelease
    <2> QED BY <1>1, <1>3, <1>14, <2>1 DEF ScanRelease, DelClaim, RecoveryTypeOK
  <1>15. CASE ScanCancelled(r)
    <2>1. "release_off" \in ScanSteps
      BY DEF ScanSteps, ReleaseSteps
    <2>2. scan' \in [Runners -> ScanSteps]
      BY <1>15, <1>2, <2>1, GotoType DEF ScanCancelled
    <2>3. state' \in State /\ heartbeat' \in {"absent", "fresh", "expired"}
      BY <1>15, UnansweredType DEF ScanCancelled
    <2>4. claim' \in Runners \cup {NoOne}
      BY <1>15 DEF ScanCancelled, SetClaim
    <2> QED BY <1>1, <1>3, <1>15, <2>2, <2>3, <2>4 DEF ScanCancelled, RecoveryTypeOK
  <1> QED BY <1>4, <1>5, <1>6, <1>7, <1>8, <1>9, <1>10, <1>11, <1>12, <1>13, <1>14, <1>15 DEF ScanStep

\* A failed command of a scan and the end of a claim keep every type.
LEMMA ScanFaultType ==
    ASSUME TypeOK, UNCHANGED taskVars,
           (\E r \in Runners : ScanFault(r)) \/ ClaimExpires \/ ClaimOverrun
    PROVE  TypeOK'
  <1> USE DEF TypeOK, RedisTypeOK, ProcessTypeOK, redisVars, processVars, recoveryVars
  <1>1. TaskTypeOK'
    BY DEF TaskTypeOK, ControlTypeOK, ContextTypeOK, taskVars, contextVars, outcomeVars, asideVars, deliveryVars
  <1>2. CASE ClaimExpires \/ ClaimOverrun
    <2>1. budget' \in Nat /\ happened' \in SUBSET Kinds
      BY <1>2, DisturbType, CalmType DEF ClaimExpires, ClaimOverrun
    <2> QED BY <1>1, <1>2, <2>1 DEF ClaimExpires, ClaimOverrun, ClaimEnds, RecoveryTypeOK
  <1>3. ASSUME NEW r \in Runners, ScanFault(r)
        PROVE  TypeOK'
    <2>1. budget' \in Nat /\ happened' \in SUBSET Kinds
      BY <1>3, DisturbType DEF ScanFault
    <2>2. "idle" \in ScanSteps /\ "release" \in ScanSteps
      BY DEF ScanSteps, ReleaseSteps
    <2>3. scan' \in [Runners -> ScanSteps]
      BY <1>3, <2>2, GotoType DEF ScanFault
    <2>4. claim' \in Runners \cup {NoOne}
      BY <1>3 DEF ScanFault, SetClaim, DelClaim
    <2>5. state' \in State /\ heartbeat' \in {"absent", "fresh", "expired"}
      BY <1>3, UnansweredType DEF ScanFault
    <2> QED BY <1>1, <1>3, <2>1, <2>3, <2>4, <2>5 DEF ScanFault, RecoveryTypeOK
  <1> QED BY <1>2, <1>3

\* Processes and aclose() keep every type.
LEMMA ProcessType ==
    ASSUME TypeOK,
           (ProcessStep /\ UNCHANGED <<taskVars, recoveryVars>>) \/ CrashStep \/ CloseStep
    PROVE  TypeOK'
  <1> USE DEF TypeOK, RedisTypeOK, ProcessTypeOK, RecoveryTypeOK, redisVars, recoveryVars
  <1>1. CASE ProcessStep /\ UNCHANGED <<taskVars, recoveryVars>>
    <2>1. TaskTypeOK' /\ RecoveryTypeOK'
      BY <1>1 DEF TaskTypeOK, ControlTypeOK, ContextTypeOK, taskVars, contextVars, outcomeVars, asideVars,
                  deliveryVars
    <2>2. ASSUME NEW r \in Runners, Stall(r) \/ Resume(r)
          PROVE  RedisTypeOK' /\ ProcessTypeOK'
      <3>1. budget' \in Nat /\ happened' \in SUBSET Kinds
        BY <2>2, DisturbType, CalmType DEF Stall, Resume
      <3> QED BY <2>2, <3>1 DEF Stall, Resume
    <2>3. CASE WatchdogFires
      BY <2>1, <2>3 DEF WatchdogFires, Calm
    <2>4. CASE StateExpires
      <3>1. budget' \in Nat /\ happened' \in SUBSET Kinds
        BY <2>4, DisturbType DEF StateExpires
      <3>2. state' \in State
        BY <2>4 DEF StateExpires, NoState, State
      <3> QED BY <2>1, <2>4, <3>1, <3>2 DEF StateExpires
    <2> QED BY <1>1, <2>1, <2>2, <2>3, <2>4 DEF ProcessStep
  <1>2. CASE CrashStep
    <2>1. PICK r \in Runners : /\ Crash(r)
                               /\ ScanLost(r)
                               /\ IF r = Owner THEN TaskLost ELSE UNCHANGED taskVars
      BY <1>2 DEF CrashStep
    <2>2. budget' \in Nat /\ happened' \in SUBSET Kinds
      BY <2>1, DisturbType DEF Crash
    <2>3. RedisTypeOK' /\ ProcessTypeOK'
      BY <2>1, <2>2 DEF Crash
    <2>4. "off" \in ScanSteps
      BY DEF ScanSteps
    <2>5. RecoveryTypeOK'
      BY <2>1, <2>4 DEF ScanLost, ScanGoto
    <2>6. TaskTypeOK'
      <3>1. CASE TaskLost
        BY <3>1 DEF TaskLost, TaskTypeOK, ControlTypeOK, ContextTypeOK, WorkSteps
      <3>2. CASE UNCHANGED taskVars
        BY <3>2 DEF TaskTypeOK, ControlTypeOK, ContextTypeOK, taskVars, contextVars, outcomeVars, asideVars,
                    deliveryVars
      <3> QED BY <2>1, <3>1, <3>2
    <2> QED BY <2>3, <2>5, <2>6
  <1>3. ASSUME NEW r \in Runners, CloseBegin(r)
        PROVE  TypeOK'
    <2>1. budget' \in Nat /\ happened' \in SUBSET Kinds
      BY <1>3, DisturbType DEF CloseBegin
    <2>2. closer' \in [Runners -> {"open", "closing", "closing_execute", "closed"}]
      BY <1>3 DEF CloseBegin
    <2>3. cancel' \in BOOLEAN
      BY <1>3 DEF CloseBegin, TaskTypeOK, ControlTypeOK, Executing
    <2>4. RedisTypeOK' /\ ProcessTypeOK' /\ RecoveryTypeOK'
      BY <1>3, <2>1, <2>2 DEF CloseBegin
    <2>5. TaskTypeOK'
      BY <1>3, <2>3 DEF CloseBegin, TaskTypeOK, ControlTypeOK, ContextTypeOK, contextVars, outcomeVars,
                        asideVars, deliveryVars
    <2> QED BY <2>4, <2>5
  <1>4. ASSUME NEW r \in Runners, CloseEnd(r)
        PROVE  TypeOK'
    <2>1. RedisTypeOK' /\ ProcessTypeOK' /\ RecoveryTypeOK'
      BY <1>4 DEF CloseEnd
    <2>2. TaskTypeOK'
      BY <1>4 DEF CloseEnd, TaskTypeOK, ControlTypeOK, ContextTypeOK, contextVars, outcomeVars, deliveryVars
    <2> QED BY <2>1, <2>2
  <1> QED BY <1>1, <1>2, <1>3, <1>4 DEF CloseStep

\* Every step of the task, its scanners, its processes and its environment
\* keeps every type.
LEMMA TypeStep == TypeOK /\ [Next]_vars => TypeOK'
  <1> SUFFICES ASSUME TypeOK, [Next]_vars
               PROVE  TypeOK'
    OBVIOUS
  <1>1. CASE TaskStep /\ UNCHANGED recoveryVars
    BY <1>1, StartType, ExecuteType, FinalizeType, CancelType, FaultType, LiveType
    DEF TaskStep, WorkStep, BizStep, BeatStep, LiveStep, TaskFault
  <1>2. CASE RecoveryStep /\ UNCHANGED taskVars
    BY <1>2, ScanType, ScanFaultType DEF RecoveryStep
  <1>3. CASE (ProcessStep /\ UNCHANGED <<taskVars, recoveryVars>>) \/ CrashStep \/ CloseStep
    BY <1>3, ProcessType
  <1>4. CASE UNCHANGED vars
    BY <1>4 DEF vars, TypeOK, RedisTypeOK, ProcessTypeOK, TaskTypeOK, ControlTypeOK, ContextTypeOK,
                RecoveryTypeOK, redisVars, processVars, taskVars, recoveryVars, contextVars, outcomeVars,
                asideVars, deliveryVars
  <1> QED BY <1>1, <1>2, <1>3, <1>4 DEF Next

\* Every variable of a Runner and of Redis has its type in every state the
\* coroutines, the scanners and the environment can reach.
THEOREM TypeCorrect == Spec => []TypeOK
  <1>1. Init => TypeOK
    <2> SUFFICES ASSUME Init
                 PROVE  TypeOK
      OBVIOUS
    <2>1. RedisTypeOK
      BY DEF Init, RedisInit, RedisTypeOK, NoState, State
    <2>2. ProcessTypeOK
      BY ProcessAssumption DEF Init, ProcessInit, ProcessTypeOK
    <2>3. TaskTypeOK
      BY DEF Init, TaskInit, TaskTypeOK, ControlTypeOK, ContextTypeOK, WorkSteps, StartSteps
    <2>4. RecoveryTypeOK
      BY DEF Init, RecoveryInit, RecoveryTypeOK, ScanSteps
    <2> QED BY <2>1, <2>2, <2>3, <2>4 DEF TypeOK
  <1> QED BY <1>1, TypeStep, PTL DEF Spec

--------------------------------------------------------------------------------
(* An end event comes from a writer that has invoked complete               *)

\* The steps of the owner, and of a scanner, that follow its complete.
Completed == (FinalSteps \ {"complete"}) \cup {"done"}
Recovered == {"last_seq", "initial_model", "start_xadd", "start_hset", "error_xadd", "error_hset",
              "end_xadd", "end_hset", "mark_status", "mark_heartbeat"}

EndInv == /\ EndAfterComplete
          /\ work \in Completed => Task \in completedBy
          /\ \A r \in Runners : scan[r] \in Recovered => r \in completedBy

\* A step that stores nothing and moves a program counter past complete only
\* with the callback invoked keeps EndInv.
LEMMA EndQuiet ==
    ASSUME EndInv, stream' = stream, completedBy \subseteq completedBy',
           extra' = extra \/ work \in Completed,
           work' \in Completed => work \in Completed \/ Task \in completedBy',
           \A r \in Runners : scan'[r] \in Recovered => scan[r] \in Recovered \/ r \in completedBy'
    PROVE  EndInv'
  BY DEF EndInv, EndAfterComplete

\* A step that stores one event keeps EndInv when only such a writer stores end.
LEMMA EndXadd ==
    ASSUME TypeOK, EndInv, NEW op, NEW n, NEW w, Xadd(op, n, w), UNCHANGED <<completedBy, extra>>,
           op = "end" => w \in completedBy,
           work' \in Completed => work \in Completed,
           \A r \in Runners : scan'[r] \in Recovered => scan[r] \in Recovered
    PROVE  EndInv'
  <1>1. /\ stream \in Seq(Event)
        /\ stream' = Append(stream, [op |-> op, seq |-> n, by |-> w])
    BY DEF TypeOK, RedisTypeOK, Xadd
  <1>2. ASSUME NEW i \in DOMAIN stream', stream'[i].op = "end"
        PROVE  stream'[i].by \in completedBy
    <2>1. CASE i \in 1..Len(stream)
      BY <1>1, <1>2, <2>1 DEF EndInv, EndAfterComplete
    <2>2. CASE i = Len(stream) + 1
      BY <1>1, <1>2, <2>2
    <2> QED BY <1>1, <2>1, <2>2
  <1> QED BY <1>2 DEF EndInv, EndAfterComplete

\* The owner's steps before _finalize.
LEMMA EndExecute ==
    ASSUME TypeOK, EndInv, UNCHANGED recoveryVars,
           \/ InitRefused \/ InitState \/ InitTouch \/ InitComplete \/ PreStart \/ StartXadd \/ StartHset
           \/ ExecBegin \/ ExecWake \/ ExecGather \/ BizStep \/ BeatStep \/ PulseFails
    PROVE  EndInv'
  <1> USE DEF processVars, recoveryVars, outcomeVars, deliveryVars, redisVars, At, Completed, FinalSteps
  <1>1. CASE InitRefused \/ InitState \/ InitTouch \/ PreStart \/ StartHset
    BY <1>1, EndQuiet DEF InitRefused, InitState, InitTouch, PreStart, StartHset
  <1>2. CASE InitComplete
    BY <1>2, EndQuiet DEF InitComplete, Completes
  <1>3. CASE StartXadd
    BY <1>3, EndXadd DEF StartXadd
  <1>4. CASE ExecBegin \/ ExecWake \/ ExecGather
    BY <1>4, EndQuiet DEF ExecBegin, ExecWake, ExecGather, AfterWait
  <1>5. CASE BizXadd
    <2>1. CASE UNCHANGED stream
      BY <1>5, <2>1, EndQuiet DEF BizXadd
    <2>2. CASE Xadd("patch", inflight', Task)
      BY <1>5, <2>2, EndXadd DEF BizXadd
    <2> QED BY <1>5, <2>1, <2>2 DEF BizXadd
  <1>6. CASE BizHset \/ BizEnds \/ BeatTouch \/ BeatFails \/ PulseFails
    BY <1>6, EndQuiet DEF BizHset, BizEnds, BeatTouch, BeatFails, PulseFails, taskVars
  <1> QED BY <1>1, <1>2, <1>3, <1>4, <1>5, <1>6 DEF BizStep, BeatStep

\* _finalize, cancellation, failed commands and delivery.
LEMMA EndFinalize ==
    ASSUME TypeOK, EndInv, UNCHANGED recoveryVars,
           \/ Complete \/ TerminalXadd \/ TerminalHset \/ MarkStatus \/ MarkHeartbeat \/ StopBeat
           \/ CancelRequest \/ CancelStart \/ CancelWait \/ CancelComplete \/ CancelEnds
           \/ TaskFault \/ LiveStep \/ HeartbeatExpires \/ HeartbeatLate
    PROVE  EndInv'
  <1> USE DEF processVars, recoveryVars, outcomeVars, deliveryVars, redisVars, At, Completed, FinalSteps
  <1>1. CASE Complete \/ CancelComplete
    BY <1>1, EndQuiet DEF Complete, CancelComplete, Completes
  <1>2. CASE TerminalXadd
    <2>1. Task \in completedBy
      BY <1>2 DEF TerminalXadd, EndInv
    <2>2. CASE work = "error_xadd"
      BY <1>2, <2>1, <2>2, EndXadd DEF TerminalXadd
    <2>3. CASE work = "end_xadd"
      BY <1>2, <2>1, <2>3, EndXadd DEF TerminalXadd
    <2> QED BY <1>2, <2>2, <2>3 DEF TerminalXadd
  <1>3. CASE TerminalHset \/ MarkStatus \/ MarkHeartbeat \/ StopBeat
    BY <1>3, EndQuiet DEF TerminalHset, MarkStatus, MarkHeartbeat, Finalized, StopBeat
  <1>4. CASE CancelRequest \/ CancelStart \/ CancelWait \/ CancelEnds
    BY <1>4, EndQuiet DEF CancelRequest, CancelStart, CancelWait, CancelEnds, CancelAt, AfterWait
  <1>5. CASE InitFault \/ StartFault \/ BizFault
    BY <1>5, EndQuiet DEF InitFault, StartFault, BizFault
  <1>6. CASE TerminalFault \/ MarkFault
    BY <1>6, EndQuiet DEF TerminalFault, MarkFault
  <1>7. CASE LiveStep
    BY <1>7, EndQuiet DEF LiveStep, LiveDeliver, LiveRead, LiveIdle, LiveClosed
  <1>8. CASE HeartbeatExpires \/ HeartbeatLate
    BY <1>8, EndQuiet DEF HeartbeatExpires, HeartbeatLate, HeartbeatAges, taskVars
  <1> QED BY <1>1, <1>2, <1>3, <1>4, <1>5, <1>6, <1>7, <1>8 DEF TaskFault

\* The scanners and the claim.
LEMMA EndRecovery ==
    ASSUME TypeOK, EndInv, RecoveryStep, UNCHANGED taskVars
    PROVE  EndInv'
  <1> USE DEF processVars, redisVars, taskVars, deliveryVars, ScanAt, ScanGoto, Recovered, RecoveryTypeOK
  <1>1. scan \in [Runners -> ScanSteps]
    BY DEF TypeOK
  <1>2. ASSUME NEW r \in Runners, ScanStep(r) \/ ScanFault(r)
        PROVE  EndInv'
    <2>1. CASE ScanExpired(r) \/ ScanClaim(r) \/ ScanStatus(r) \/ ScanForget(r) \/ ScanRelease(r)
               \/ ScanCancelled(r)
      BY <1>1, <2>1, EndQuiet
      DEF ScanExpired, ScanClaim, ScanStatus, ScanForget, ScanRelease, ScanCancelled
    <2>2. CASE RecoverComplete(r)
      BY <1>1, <2>2, EndQuiet DEF RecoverComplete, Completes
    <2>3. CASE RecoverLastSeq(r) \/ RecoverInitialModel(r) \/ RecoverMark(r)
      BY <1>1, <2>3, EndQuiet DEF RecoverLastSeq, RecoverInitialModel, RecoverMark
    <2>4. CASE RecoverHset(r)
      BY <1>1, <2>4, EndQuiet DEF RecoverHset, AfterHset
    <2>5. CASE RecoverXadd(r)
      <3>1. scan[r] \in Recovered
        BY <2>5 DEF RecoverXadd, Publishing
      <3>2. r \in completedBy
        BY <3>1 DEF EndInv
      <3>3. \A q \in Runners : scan'[q] \in Recovered => scan[q] \in Recovered
        BY <1>1, <2>5, <3>1 DEF RecoverXadd
      <3> QED BY <2>5, <3>2, <3>3, EndXadd DEF RecoverXadd
    <2>6. CASE ScanFault(r)
      BY <1>1, <2>6, EndQuiet DEF ScanFault
    <2> QED BY <1>2, <2>1, <2>2, <2>3, <2>4, <2>5, <2>6 DEF ScanStep
  <1>3. CASE ClaimExpires \/ ClaimOverrun
    BY <1>3, EndQuiet DEF ClaimExpires, ClaimOverrun, ClaimEnds, recoveryVars
  <1> QED BY <1>2, <1>3 DEF RecoveryStep

\* Processes and aclose().
LEMMA EndProcess ==
    ASSUME TypeOK, EndInv,
           (ProcessStep /\ UNCHANGED <<taskVars, recoveryVars>>) \/ CrashStep \/ CloseStep
    PROVE  EndInv'
  <1> USE DEF redisVars, taskVars, recoveryVars, deliveryVars
  <1>1. CASE ProcessStep /\ UNCHANGED <<taskVars, recoveryVars>>
    BY <1>1, EndQuiet DEF ProcessStep, Stall, Resume, WatchdogFires, StateExpires
  <1>2. CASE CrashStep
    <2>1. PICK r \in Runners : /\ Crash(r)
                               /\ ScanLost(r)
                               /\ IF r = Owner THEN TaskLost ELSE UNCHANGED taskVars
      BY <1>2 DEF CrashStep
    <2>2. scan \in [Runners -> ScanSteps]
      BY DEF TypeOK, RecoveryTypeOK
    <2>3. extra' = extra /\ (work' \in Completed => work \in Completed)
      BY <2>1 DEF TaskLost, Completed, FinalSteps
    <2> QED BY <2>1, <2>2, <2>3, EndQuiet DEF Crash, ScanLost, ScanGoto, Recovered
  <1>3. CASE CloseStep
    BY <1>3, EndQuiet DEF CloseStep, CloseBegin, CloseEnd
  <1> QED BY <1>1, <1>2, <1>3

\* Whoever is past its complete has invoked it, in every reachable state.
LEMMA EndAlways == Spec => []EndInv
  <1>1. Init => EndInv
    BY DEF Init, RedisInit, ProcessInit, TaskInit, RecoveryInit, EndInv, EndAfterComplete, Completed,
           FinalSteps, Recovered
  <1>2. TypeOK /\ EndInv /\ [Next]_vars => EndInv'
    <2> SUFFICES ASSUME TypeOK, EndInv, [Next]_vars
                 PROVE  EndInv'
      OBVIOUS
    <2>1. CASE TaskStep /\ UNCHANGED recoveryVars
      BY <2>1, EndExecute, EndFinalize DEF TaskStep, WorkStep
    <2>2. CASE RecoveryStep /\ UNCHANGED taskVars
      BY <2>2, EndRecovery
    <2>3. CASE (ProcessStep /\ UNCHANGED <<taskVars, recoveryVars>>) \/ CrashStep \/ CloseStep
      BY <2>3, EndProcess
    <2>4. CASE UNCHANGED vars
      BY <2>4 DEF vars, redisVars, processVars, taskVars, recoveryVars, deliveryVars, EndInv, EndAfterComplete
    <2> QED BY <2>1, <2>2, <2>3, <2>4 DEF Next
  <1> QED BY <1>1, <1>2, TypeCorrect, PTL DEF Spec

\* "end" means that the completion phase has run, whatever crashes, stalls,
\* faults, cancellations and timeouts the task meets.
THEOREM EndMeansCompleted == Spec => []EndAfterComplete
  <1>1. EndInv => EndAfterComplete
    BY DEF EndInv
  <1> QED BY <1>1, EndAlways, PTL

--------------------------------------------------------------------------------
(* One running instance at a time recovers the task                         *)

InTime == happened \cap {"slow", "stall"} = {}

\* As long as no recovery outlasts the claim and no loop stalls, the instance
\* that is between its claim and its release is the one the claim is set for.
ClaimInv == InTime => \A r \in Runners : process[r] # "stalled" /\ (Held(r) => claim = r)

\* What happened stays happened, so a step that starts from a late state, or
\* that makes it late, has nothing to keep.
LEMMA ClaimQuiet ==
    ASSUME ClaimInv, happened \subseteq happened', process' = process, claim' = claim,
           \A r \in Runners : Recovering(r)' => Recovering(r)
    PROVE  ClaimInv'
  BY DEF ClaimInv, InTime, Held, Up

\* What happened to the task stays happened; the owner's steps start and stop no
\* process and leave the claim alone.
LEMMA TaskHappens ==
    ASSUME TaskStep
    PROVE  happened \subseteq happened' /\ UNCHANGED <<process, claim>>
  <1> USE DEF redisVars, processVars, Calm, Disturb
  <1>1. CASE WorkStep
    BY <1>1 DEF WorkStep, InitRefused, InitState, InitTouch, InitComplete, PreStart, StartXadd, StartHset,
                ExecBegin, ExecWake, ExecGather, Complete, TerminalXadd, TerminalHset, MarkStatus,
                MarkHeartbeat, StopBeat, CancelStart, CancelWait, CancelComplete, CancelEnds
  <1>2. CASE BizStep \/ BeatStep \/ PulseFails \/ LiveStep
    BY <1>2 DEF BizStep, BizXadd, PatchSeq, BizHset, BizEnds, BeatStep, BeatTouch, BeatFails, PulseFails,
                LiveStep, LiveDeliver, LiveRead, LiveIdle, LiveClosed
  <1>3. CASE TaskFault \/ CancelRequest \/ HeartbeatExpires \/ HeartbeatLate
    BY <1>3 DEF TaskFault, InitFault, StartFault, TerminalFault, MarkFault, BizFault, CancelRequest,
                HeartbeatExpires, HeartbeatLate, HeartbeatAges
  <1> QED BY <1>1, <1>2, <1>3 DEF TaskStep

\* The owner's steps neither claim nor recover.
LEMMA ClaimTask ==
    ASSUME ClaimInv, TaskStep, UNCHANGED recoveryVars
    PROVE  ClaimInv'
  <1>1. \A r \in Runners : Recovering(r)' => Recovering(r)
    BY DEF recoveryVars, Recovering
  <1> QED BY <1>1, TaskHappens, ClaimQuiet

\* A scanner takes the claim when it is free, and frees it when it is its own.
LEMMA ClaimScan ==
    ASSUME TypeOK, ClaimInv, NEW r \in Runners, ScanStep(r) \/ ScanFault(r)
    PROVE  ClaimInv'
  <1> USE DEF redisVars, processVars, Calm, Disturb, ScanAt, ScanGoto, Recovering, TrySteps, ReleaseSteps
  <1>1. scan \in [Runners -> ScanSteps] /\ NoOne \notin Runners
    BY RunnersAssumption DEF TypeOK, RecoveryTypeOK
  <1>2. CASE ScanExpired(r)
    BY <1>1, <1>2, ClaimQuiet DEF ScanExpired
  <1>3. CASE ScanClaim(r)
    <2>1. CASE SetClaim(r)
      BY <1>1, <1>3, <2>1 DEF ScanClaim, SetClaim, ClaimInv, InTime, Held, Up
    <2>2. CASE UNCHANGED claim /\ ScanGoto(r, "idle")
      BY <1>1, <1>3, <2>2, ClaimQuiet DEF ScanClaim
    <2> QED BY <1>3, <2>1, <2>2 DEF ScanClaim
  <1>4. CASE ScanStatus(r) \/ ScanForget(r) \/ RecoverComplete(r) \/ RecoverLastSeq(r) \/ RecoverInitialModel(r)
    BY <1>1, <1>4, ClaimQuiet
    DEF ScanStatus, ScanForget, RecoverComplete, RecoverLastSeq, RecoverInitialModel
  <1>5. CASE RecoverXadd(r) \/ RecoverHset(r) \/ RecoverMark(r)
    <2>1. Recovering(r) /\ UNCHANGED <<process, claim, happened>>
          /\ \A q \in Runners : q # r => scan'[q] = scan[q]
      BY <1>1, <1>5 DEF RecoverXadd, RecoverHset, RecoverMark, Publishing, AfterHset
    <2> QED BY <2>1, ClaimQuiet
  <1>6. CASE ScanRelease(r)
    BY <1>1, <1>6 DEF ScanRelease, DelClaim, ClaimInv, InTime, Held, Up
  <1>7. CASE ScanCancelled(r)
    <2>1. UNCHANGED <<process, happened>>
      BY <1>7 DEF ScanCancelled
    <2>2. CASE scan[r] = "claim" /\ SetClaim(r)
      <3>1. scan' = [scan EXCEPT ![r] = "off"]
        BY <1>7, <2>2 DEF ScanCancelled
      <3> QED BY <1>1, <2>1, <2>2, <3>1 DEF SetClaim, ClaimInv, InTime, Held, Up
    <2>3. CASE UNCHANGED claim
      BY <1>1, <1>7, <2>1, <2>3, ClaimQuiet DEF ScanCancelled
    <2> QED BY <1>7, <2>2, <2>3 DEF ScanCancelled
  <1>8. CASE ScanFault(r)
    <2>1. happened \subseteq happened' /\ UNCHANGED process
      BY <1>8 DEF ScanFault
    <2>2. CASE scan[r] = "claim"
      <3>1. scan' = [scan EXCEPT ![r] = "idle"] /\ (SetClaim(r) \/ UNCHANGED claim)
        BY <1>8, <2>2 DEF ScanFault
      <3> QED BY <1>1, <2>1, <2>2, <3>1 DEF SetClaim, ClaimInv, InTime, Held, Up
    <2>3. CASE scan[r] \in ReleaseSteps
      <3>1. Up(r) /\ scan' = [scan EXCEPT ![r] = "idle"] /\ (DelClaim \/ UNCHANGED claim)
        BY <1>8, <2>3 DEF ScanFault
      <3> QED BY <1>1, <2>1, <2>3, <3>1 DEF DelClaim, ClaimInv, InTime, Held, Up
    <2>4. CASE scan[r] # "claim" /\ scan[r] \notin ReleaseSteps
      <3>1. scan' = [scan EXCEPT ![r] = "release"] /\ UNCHANGED claim /\ scan[r] \in TrySteps
        BY <1>1, <1>8, <2>4 DEF ScanFault, ScanSteps
      <3> QED BY <1>1, <2>1, <3>1, ClaimQuiet
    <2> QED BY <2>2, <2>3, <2>4
  <1> QED BY <1>2, <1>3, <1>4, <1>5, <1>6, <1>7, <1>8 DEF ScanStep

\* The claim runs out under a running recovery only when that is slow; crashes,
\* stalls and aclose() do not touch it.
LEMMA ClaimRest ==
    ASSUME TypeOK, ClaimInv,
           \/ ClaimExpires \/ ClaimOverrun
           \/ ProcessStep /\ UNCHANGED <<taskVars, recoveryVars>>
           \/ CrashStep \/ CloseStep
    PROVE  ClaimInv'
  <1> USE DEF redisVars, recoveryVars, Calm, Disturb, Recovering
  <1>1. CASE ClaimExpires
    BY <1>1, RunnersAssumption
    DEF ClaimExpires, ClaimEnds, ClaimInv, InTime, Held, Up, TypeOK, RedisTypeOK
  <1>2. CASE ClaimOverrun
    BY <1>2 DEF ClaimOverrun, ClaimInv, InTime
  <1>3. CASE ProcessStep /\ UNCHANGED <<taskVars, recoveryVars>>
    <2>1. ASSUME NEW r \in Runners, Stall(r)
          PROVE  ClaimInv'
      BY <2>1 DEF Stall, ClaimInv, InTime
    <2>2. ASSUME NEW r \in Runners, Resume(r)
          PROVE  ClaimInv'
      BY <2>2 DEF Resume, ClaimInv, InTime
    <2>3. CASE WatchdogFires \/ StateExpires
      BY <1>3, <2>3, ClaimQuiet DEF WatchdogFires, StateExpires
    <2> QED BY <1>3, <2>1, <2>2, <2>3 DEF ProcessStep
  <1>4. CASE CrashStep
    <2>1. PICK r \in Runners : Crash(r) /\ ScanLost(r)
      BY <1>4 DEF CrashStep
    <2>2. scan \in [Runners -> ScanSteps] /\ process \in [Runners -> {"up", "stalled", "down"}]
      BY DEF TypeOK, RecoveryTypeOK, ProcessTypeOK
    <2> QED BY <2>1, <2>2 DEF Crash, ScanLost, ScanGoto, ClaimInv, InTime, Held, Up
  <1>5. CASE CloseStep
    BY <1>5, ClaimQuiet DEF CloseStep, CloseBegin, CloseEnd
  <1> QED BY <1>1, <1>2, <1>3, <1>4, <1>5

\* The claim is its holder's in every reachable state.
LEMMA ClaimAlways == Spec => []ClaimInv
  <1>1. Init => ClaimInv
    BY DEF Init, RedisInit, ProcessInit, RecoveryInit, ClaimInv, InTime, Held, Recovering, TrySteps,
           ReleaseSteps
  <1>2. TypeOK /\ ClaimInv /\ [Next]_vars => ClaimInv'
    <2> SUFFICES ASSUME TypeOK, ClaimInv, [Next]_vars
                 PROVE  ClaimInv'
      OBVIOUS
    <2>1. CASE TaskStep /\ UNCHANGED recoveryVars
      BY <2>1, ClaimTask
    <2>2. CASE RecoveryStep /\ UNCHANGED taskVars
      BY <2>2, ClaimScan, ClaimRest DEF RecoveryStep
    <2>3. CASE (ProcessStep /\ UNCHANGED <<taskVars, recoveryVars>>) \/ CrashStep \/ CloseStep
      BY <2>3, ClaimRest
    <2>4. CASE UNCHANGED vars
      BY <2>4, ClaimQuiet DEF vars, redisVars, processVars, recoveryVars, Recovering
    <2> QED BY <2>1, <2>2, <2>3, <2>4 DEF Next
  <1> QED BY <1>1, <1>2, TypeCorrect, PTL DEF Spec

\* The Redis claim keeps two running instances from recovering the task at the
\* same time, for any number of instances, as long as recoveries end within
\* recovery_claim_ttl and no loop stalls.
THEOREM OneRecovery == Spec => []ClaimExclusive
  <1>1. ClaimInv => ClaimExclusive
    BY DEF ClaimInv, InTime, ClaimExclusive
  <1> QED BY <1>1, ClaimAlways, PTL
================================================================================

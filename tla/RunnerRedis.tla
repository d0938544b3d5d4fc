------------------------------ MODULE RunnerRedis ------------------------------
(***************************************************************************)
(* The Redis keys of one task and the commands RedisEventBridge issues     *)
(* (src/sdks/python/src/agentue/runner/redis_bridge.py).  Redis executes    *)
(* one command at a time, so each operator below is the effect of one      *)
(* command; a bridge method that issues several is several steps of its    *)
(* caller, except that an EXPIRE is part of the command it follows.         *)
(***************************************************************************)
EXTENDS Integers, Sequences, FiniteSets

CONSTANTS Runners,  \* Runner instances, one event loop (process) each
          Task,     \* the writer name of the coroutine that owns the task
          NoOne     \* the recovery claim is free

ASSUME RunnersAssumption == /\ Task \notin Runners
                            /\ NoOne \notin Runners

VARIABLES state,      \* the hash {prefix}:{task}:state
          stream,     \* the stream {prefix}:{task}:events
          heartbeat,  \* the task's entry of the sorted set {prefix}:heartbeats
          claim       \* the key {prefix}:{task}:recovery-claim, with its holder

redisVars == <<state, stream, heartbeat, claim>>

Writers == Runners \cup {Task}
EventOps == {"start", "patch", "error", "end"}
Event == [op : EventOps, seq : Nat, by : Writers]

State == [status : {"absent", "running", "completed", "failed"},
          last_seq : Nat, initial_model : BOOLEAN]

\* Mutant of NoState: a hash without last_seq counts as -1.
NoStateNegative == [status |-> "absent", last_seq |-> -1, initial_model |-> FALSE]

\* The hash when it was never written or has expired: every HGET is None.
NoState == [status |-> "absent", last_seq |-> 0, initial_model |-> FALSE]

RedisTypeOK ==
    /\ state \in State
    /\ stream \in Seq(Event)
    /\ heartbeat \in {"absent", "fresh", "expired"}
    /\ claim \in Runners \cup {NoOne}

RedisInit == /\ state = NoState
             /\ stream = <<>>
             /\ heartbeat = "absent"
             /\ claim = NoOne

\* initialize: HSET status/last_seq/initial_model, EXPIRE; then touch.
HsetTask == state' = [status |-> "running", last_seq |-> 0, initial_model |-> TRUE]

\* touch: ZADD of the current time.
Zadd == heartbeat' = "fresh"

\* publish: XADD and EXPIRE, unconditionally; then HSET last_seq.
Xadd(op, n, w) == stream' = Append(stream, [op |-> op, seq |-> n, by |-> w])
HsetSeq(n) == state' = [state EXCEPT !.last_seq = n]

\* Mutant of SetClaim: SET without NX.
SetClaimAlways(r) == claim' = r

\* claim_recovery: SET key 1 NX EX recovery_claim_ttl.
\* release_recovery: DEL, whoever holds the claim.
SetClaim(r) == /\ claim = NoOne
               /\ claim' = r
DelClaim == claim' = NoOne

\* mark_terminal: HSET status, EXPIRE; then ZREM.  forget_heartbeat: ZREM.
HsetStatus(s) == state' = [state EXCEPT !.status = s]
Zrem == heartbeat' = "absent"
================================================================================

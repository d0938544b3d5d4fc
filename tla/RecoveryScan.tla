----------------------------- MODULE RecoveryScan ------------------------------
(***************************************************************************)
(* recover_timeouts over several tasks (runner/runner.py): each instance   *)
(* reads the expired part of the heartbeat index once and works it off,    *)
(* task by task, while owners and other instances go on changing what it   *)
(* read.  What the recovery of one task publishes is one step here; it is  *)
(* taken apart in RunnerRecovery.                                          *)
(***************************************************************************)
EXTENDS SequencesExt, Integers

CONSTANTS Tasks,
          Runners,  \* the instances that scan
          Mortal,   \* those of them that may crash
          Broken,   \* tasks whose recovery always raises, on an initial model that is not valid
          NoOne,    \* a claim is free
          Budget    \* bound on disturbances

ASSUME ScanAssumption == /\ IsFiniteSet(Tasks)
                         /\ NoOne \notin Runners
                         /\ Mortal \subseteq Runners
                         /\ Broken \subseteq Tasks
                         /\ Budget \in Nat

VARIABLES status,     \* of each task's state hash
          owner,      \* what the task's own execution is doing
          index,      \* the sorted set of heartbeats, the oldest first
          expired,    \* how many of them are older than heartbeat_timeout
          claim,      \* the recovery claim of each task
          at,         \* the next step of each scanner
          list,       \* the tasks its scan has left, the one in hand first
          completed,  \* how often complete was called to recover a task, up to twice
          happened,   \* the kinds of disturbance so far
          budget      \* disturbances left

redisVars == <<status, index, expired, claim>>
scanVars == <<at, list>>
disturbed == <<happened, budget>>
vars == <<redisVars, owner, scanVars, completed, disturbed>>

TrySteps == {"status", "forget", "complete", "publish", "mark_status", "mark_heartbeat"}
InHand == TrySteps \cup {"release", "raise"}

TypeOK == /\ status \in [Tasks -> {"running", "completed", "failed", "absent"}]
          /\ owner \in [Tasks -> {"alive", "marking", "done", "dead"}]
          /\ index \in Seq(Tasks) /\ IsInjective(index)
          /\ expired \in 0..Len(index)
          /\ claim \in [Tasks -> Runners \cup {NoOne}]
          /\ at \in [Runners -> InHand \cup {"idle", "claim", "off"}]
          /\ list \in [Runners -> Seq(Tasks)]
          /\ \A r \in Runners : at[r] \in InHand \cup {"claim"} => list[r] # <<>>
          /\ completed \in [Tasks -> 0..2]
          /\ happened \subseteq {"late", "crash", "fault", "slow"}
          /\ budget \in 0..Budget

Init == /\ status = [t \in Tasks |-> "running"]
        /\ owner = [t \in Tasks |-> "alive"]
        /\ index \in SetToSeqs(Tasks)
        /\ expired = 0
        /\ claim = [t \in Tasks |-> NoOne]
        /\ at = [r \in Runners |-> "idle"]
        /\ list = [r \in Runners |-> <<>>]
        /\ completed = [t \in Tasks |-> 0]
        /\ happened = {}
        /\ budget = Budget

Disturb(kind) == budget > 0 /\ budget' = budget - 1 /\ happened' = happened \cup {kind}

--------------------------------------------------------------------------------
\* The heartbeat index.

Expired == {index[i] : i \in 1..expired}
Without(t) == RemoveFirst(index, t)

\* Mutant of Zrem: the task stays in the index.
ZremNothing(t) == UNCHANGED <<index, expired>>
Zrem(t) == /\ index' = Without(t)
           /\ expired' = IF t \in Expired THEN expired - 1 ELSE expired

\* Time passes.  An owner that is alive renews its heartbeat in time, unless a
\* callback keeps it from that.
Ages == /\ expired < Len(index)
        /\ expired' = expired + 1
        /\ IF owner[index[expired + 1]] = "alive" THEN Disturb("late") ELSE UNCHANGED disturbed
        /\ UNCHANGED <<status, index, claim, owner, scanVars, completed>>

--------------------------------------------------------------------------------
\* The owner of a task (RunnerTask).

\* The heartbeat task goes on until mark_terminal is through.  What a touch after
\* its ZREM leaves, a finished task in the index, is what OwnerDies leaves before.
Touch(t) == /\ owner[t] = "alive"
            /\ index' = Append(Without(t), t)
            /\ expired' = IF t \in Expired THEN expired - 1 ELSE expired
            /\ UNCHANGED <<status, claim, owner, scanVars, completed, disturbed>>

\* mark_terminal: HSET, then ZREM.
OwnerMarks(t) == /\ owner[t] = "alive"
                 /\ owner' = [owner EXCEPT ![t] = "marking"]
                 /\ status' = [status EXCEPT ![t] = "completed"]
                 /\ UNCHANGED <<index, expired, claim, scanVars, completed, disturbed>>

OwnerLeaves(t) == /\ owner[t] = "marking"
                  /\ owner' = [owner EXCEPT ![t] = "done"]
                  /\ Zrem(t)
                  /\ UNCHANGED <<status, claim, scanVars, completed, disturbed>>

OwnerDies(t) == /\ owner[t] \in {"alive", "marking"}
                /\ owner' = [owner EXCEPT ![t] = "dead"]
                /\ UNCHANGED <<redisVars, scanVars, completed, disturbed>>

\* EXPIRE task_ttl, after a day: only what cannot be recovered gets that old.
StateExpires(t) == /\ t \in Broken /\ (owner[t] = "dead" \/ t \in Expired) /\ status[t] # "absent"
                   /\ status' = [status EXCEPT ![t] = "absent"]
                   /\ UNCHANGED <<index, expired, claim, owner, scanVars, completed, disturbed>>

--------------------------------------------------------------------------------
\* A scanner.

ScanAt(r, step) == at[r] = step
Goto(r, step) == at' = [at EXCEPT ![r] = step]
InHandOf(r) == Head(list[r])

\* Mutant of Scan: whoever is in the index counts as expired.
ScanAll(r) == /\ ScanAt(r, "idle")
              /\ list' = [list EXCEPT ![r] = index]
              /\ Goto(r, IF index = <<>> THEN "idle" ELSE "claim")
              /\ UNCHANGED <<redisVars, owner, completed, disturbed>>
\* Mutant of Scan: the youngest of the expired is left out.
ScanExclusive(r) == /\ ScanAt(r, "idle")
                    /\ list' = [list EXCEPT ![r] = SubSeq(index, 1, expired - 1)]
                    /\ Goto(r, IF expired < 2 THEN "idle" ELSE "claim")
                    /\ UNCHANGED <<redisVars, owner, completed, disturbed>>
\* expired_task_ids: ZRANGEBYSCORE, the oldest heartbeat first.
Scan(r) == /\ ScanAt(r, "idle")
           /\ list' = [list EXCEPT ![r] = SubSeq(index, 1, expired)]
           /\ Goto(r, IF expired = 0 THEN "idle" ELSE "claim")
           /\ UNCHANGED <<redisVars, owner, completed, disturbed>>

\* On to the next task of the list.
Advance(r) == /\ list' = [list EXCEPT ![r] = Tail(@)]
              /\ Goto(r, IF Len(list[r]) = 1 THEN "idle" ELSE "claim")

\* The exception leaves the loop over the list; _scan_forever logs it.
Abandon(r) == list' = [list EXCEPT ![r] = <<>>] /\ Goto(r, "idle")

\* Mutant of Claim: the claim is not looked at.
ClaimAlways(r) == /\ ScanAt(r, "claim")
                  /\ claim' = [claim EXCEPT ![InHandOf(r)] = r]
                  /\ Goto(r, "status")
                  /\ UNCHANGED <<status, index, expired, owner, list, completed, disturbed>>
Claim(r) == /\ ScanAt(r, "claim")
            /\ IF claim[InHandOf(r)] = NoOne
                 THEN claim' = [claim EXCEPT ![InHandOf(r)] = r] /\ Goto(r, "status") /\ UNCHANGED list
                 ELSE UNCHANGED claim /\ Advance(r)
            /\ UNCHANGED <<status, index, expired, owner, completed, disturbed>>

\* Mutant of Check: the heartbeat decides, not the status.
CheckHeartbeat(r) == /\ ScanAt(r, "status")
                     /\ Goto(r, IF InHandOf(r) \in Expired THEN "complete" ELSE "forget")
                     /\ UNCHANGED <<redisVars, owner, list, completed, disturbed>>
Check(r) == /\ ScanAt(r, "status")
            /\ Goto(r, IF status[InHandOf(r)] = "running" THEN "complete" ELSE "forget")
            /\ UNCHANGED <<redisVars, owner, list, completed, disturbed>>

Forget(r) == /\ ScanAt(r, "forget")
             /\ Zrem(InHandOf(r))
             /\ Goto(r, "release")
             /\ UNCHANGED <<status, claim, owner, list, completed, disturbed>>

Complete(r) == /\ ScanAt(r, "complete")
               /\ completed' = [completed EXCEPT ![InHandOf(r)] = IF @ = 2 THEN 2 ELSE @ + 1]
               /\ Goto(r, "publish")
               /\ UNCHANGED <<redisVars, owner, list, disturbed>>

\* last_seq, initial_model, then start, error and end.
Publish(r) == /\ ScanAt(r, "publish")
              /\ Goto(r, IF InHandOf(r) \in Broken THEN "raise" ELSE "mark_status")
              /\ UNCHANGED <<redisVars, owner, list, completed, disturbed>>

\* Mutant of MarkStatus: the outcome is not stored.
MarkNoStatus(r) == /\ ScanAt(r, "mark_status")
                   /\ Goto(r, "mark_heartbeat")
                   /\ UNCHANGED <<redisVars, owner, list, completed, disturbed>>
\* mark_terminal: HSET, then ZREM.
MarkStatus(r) == /\ ScanAt(r, "mark_status")
                 /\ status' = [status EXCEPT ![InHandOf(r)] = "failed"]
                 /\ Goto(r, "mark_heartbeat")
                 /\ UNCHANGED <<index, expired, claim, owner, list, completed, disturbed>>

MarkHeartbeat(r) == /\ ScanAt(r, "mark_heartbeat")
                    /\ Zrem(InHandOf(r))
                    /\ Goto(r, "release")
                    /\ UNCHANGED <<status, claim, owner, list, completed, disturbed>>

DelClaim(r) == claim' = [claim EXCEPT ![InHandOf(r)] = NoOne]

\* The finally clause, with and without an exception on its way.
Release(r) == /\ at[r] \in {"release", "raise"}
              /\ DelClaim(r)
              /\ IF at[r] = "release" THEN Advance(r) ELSE Abandon(r)
              /\ UNCHANGED <<status, index, expired, owner, completed, disturbed>>

\* A Redis command raises, applied or not; _scan_forever logs it and scans again.
Fault(r) ==
    /\ at[r] \in (InHand \cup {"claim"}) \ {"complete"}
    /\ Disturb("fault")
    /\ IF at[r] \in TrySteps THEN Goto(r, "raise") /\ UNCHANGED list ELSE Abandon(r)
    /\ \/ UNCHANGED redisVars
       \/ /\ at[r] = "claim" /\ claim[InHandOf(r)] = NoOne
          /\ claim' = [claim EXCEPT ![InHandOf(r)] = r]
          /\ UNCHANGED <<status, index, expired>>
       \/ at[r] \in {"release", "raise"} /\ DelClaim(r) /\ UNCHANGED <<status, index, expired>>
       \/ at[r] \in {"forget", "mark_heartbeat"} /\ Zrem(InHandOf(r)) /\ UNCHANGED <<status, claim>>
       \/ /\ at[r] = "mark_status" /\ status' = [status EXCEPT ![InHandOf(r)] = "failed"]
          /\ UNCHANGED <<index, expired, claim>>
    /\ UNCHANGED <<owner, completed>>

Crash(r) == /\ r \in Mortal /\ at[r] # "off"
            /\ Disturb("crash")
            /\ Goto(r, "off")
            /\ list' = [list EXCEPT ![r] = <<>>]
            /\ UNCHANGED <<redisVars, owner, completed>>

\* EX recovery_claim_ttl, which outlasts a recovery unless complete is slow.
Held(t) == claim[t] # NoOne /\ at[claim[t]] \in InHand /\ InHandOf(claim[t]) = t
ClaimExpires(t) == /\ claim[t] # NoOne
                   /\ claim' = [claim EXCEPT ![t] = NoOne]
                   /\ IF Held(t) THEN Disturb("slow") ELSE UNCHANGED disturbed
                   /\ UNCHANGED <<status, index, expired, owner, scanVars, completed>>

--------------------------------------------------------------------------------

OwnerStep(t) == Touch(t) \/ OwnerMarks(t) \/ OwnerLeaves(t) \/ OwnerDies(t)

ScanStep(r) == \/ Scan(r) \/ Claim(r) \/ Check(r) \/ Forget(r) \/ Complete(r) \/ Publish(r)
               \/ MarkStatus(r) \/ MarkHeartbeat(r) \/ Release(r)

Next == \/ Ages
        \/ \E t \in Tasks : OwnerStep(t) \/ StateExpires(t) \/ ClaimExpires(t)
        \/ \E r \in Runners : ScanStep(r) \/ Fault(r) \/ Crash(r)

Spec == Init /\ [][Next]_vars

\* Scanners that run go on, time passes, and an owner renews its heartbeat unless
\* it is late already: a loop that stalls may resume or not.  No owner has to end
\* or to die, and no disturbance has to happen.
FairSpec == /\ Spec
            /\ \A r \in Runners : WF_vars(ScanStep(r))
            /\ WF_vars(Ages /\ UNCHANGED disturbed)
            /\ \A t \in Tasks : /\ WF_vars(t \notin Expired /\ Touch(t))
                                /\ WF_vars(OwnerLeaves(t))
                                /\ WF_vars(StateExpires(t))
                                /\ WF_vars(ClaimExpires(t) /\ UNCHANGED disturbed)

--------------------------------------------------------------------------------

\* No two scanners have one task in hand, however stale their lists are, as long
\* as no recovery outlasts its claim (recover_timeouts, docs/runner.md).
OneScannerPerTask ==
    "slow" \notin happened =>
        \A r, s \in Runners : at[r] \in InHand /\ at[s] \in InHand /\ InHandOf(r) = InHandOf(s) => r = s

\* Unless a scanner is disturbed, complete is called once for a task that can be
\* recovered, though every instance may have it in its list and its owner come
\* back (recover_timeouts, docs/runner.md).
RecoveredOnce == happened \subseteq {"late"} => \A t \in Tasks \ Broken : completed[t] < 2

\* A task whose owner was never late is recovered only when that owner is dead,
\* although lists are stale (recover_timeouts and the owner's heartbeat).
AliveIsSpared == "late" \notin happened => \A t \in Tasks : owner[t] # "dead" => completed[t] = 0

\* A task that counts as running is in the index, where a later scan finds it,
\* however late an owner or a scanner takes it out and whichever command raises
\* before it does (mark_terminal, forget_heartbeat).
NoneIsLost == \A t \in Tasks : status[t] = "running" => Contains(index, t)

\* A task of an owner that is dead, or late, is decided unless the owner comes
\* back first, also behind a task whose recovery fails each time and makes every
\* scan abandon its list (_scan_forever).
SilentAreDecided ==
    \A t \in Tasks :
        status[t] = "running" /\ (owner[t] = "dead" \/ t \in Expired)
            ~> status[t] # "running" \/ (owner[t] = "alive" /\ t \notin Expired)

\* Nothing stays in the index for ever once its owner has gone: the owner and
\* each scanner may have left it there (mark_terminal, forget_heartbeat).
IndexEmpties == \A t \in Tasks : owner[t] \in {"done", "dead"} ~> ~Contains(index, t)
================================================================================

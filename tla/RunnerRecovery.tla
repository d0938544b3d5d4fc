---------------------------- MODULE RunnerRecovery -----------------------------
(***************************************************************************)
(* The timeout scanner of each Runner instance: _scan_forever,             *)
(* recover_timeouts and _recover_task (runner/runner.py).  A scanner       *)
(* decides on what it read and acts some steps later; the claim and the    *)
(* status are its only checks.                                             *)
(***************************************************************************)
EXTENDS RunnerProcess

VARIABLES scan,       \* the next step of each scanner
          seen,       \* emitter.offset of its recovery
          scanCancel  \* a CancelledError is about to be raised at that step

recoveryVars == <<scan, seen, scanCancel>>

\* Inside the try whose finally releases the claim.
TrySteps == {"status", "forget", "complete", "last_seq", "initial_model", "start_xadd", "start_hset",
             "error_xadd", "error_hset", "end_xadd", "end_hset", "mark_status", "mark_heartbeat"}
ReleaseSteps == {"release", "release_off"}
ScanSteps == TrySteps \cup ReleaseSteps \cup {"idle", "claim", "off"}

RecoveryTypeOK == /\ scan \in [Runners -> ScanSteps]
                  /\ seen \in [Runners -> Nat]
                  /\ scanCancel \in [Runners -> BOOLEAN]

RecoveryInit == /\ scan = [r \in Runners |-> "idle"]
                /\ seen = [r \in Runners |-> 0]
                /\ scanCancel = [r \in Runners |-> FALSE]

\* The scanner of r, running and not cancelled, is at one of steps.
ScanAt(r, steps) == /\ Up(r)
                    /\ ~scanCancel[r]
                    /\ scan[r] \in steps

ScanGoto(r, step) == scan' = [scan EXCEPT ![r] = step]

\* expired_task_ids: the list is read once, before any of it is claimed.
ScanExpired(r) ==
    /\ ScanAt(r, {"idle"})
    /\ ScanGoto(r, IF heartbeat = "expired" THEN "claim" ELSE "idle")
    /\ UNCHANGED <<redisVars, processVars, seen, scanCancel>>

\* Mutant of ScanClaim: the claim is taken inside the try that releases it.
ScanClaimInTry(r) ==
    /\ ScanAt(r, {"claim"})
    /\ \/ SetClaim(r) /\ ScanGoto(r, "status")
       \/ claim # NoOne /\ UNCHANGED claim /\ ScanGoto(r, "release")
    /\ UNCHANGED <<state, stream, heartbeat, processVars, seen, scanCancel>>

ScanClaim(r) ==
    /\ ScanAt(r, {"claim"})
    /\ \/ SetClaim(r) /\ ScanGoto(r, "status")
       \/ claim # NoOne /\ UNCHANGED claim /\ ScanGoto(r, "idle")
    /\ UNCHANGED <<state, stream, heartbeat, processVars, seen, scanCancel>>

\* Mutants of ScanStatus: no check; a check of the heartbeat instead; recovery
\* without complete.
ScanStatusTo(r, step) == /\ ScanAt(r, {"status"})
                         /\ ScanGoto(r, step)
                         /\ UNCHANGED <<redisVars, processVars, seen, scanCancel>>
ScanStatusUnchecked(r) == ScanStatusTo(r, "complete")
ScanStatusByHeartbeat(r) == ScanStatusTo(r, IF heartbeat = "expired" THEN "complete" ELSE "forget")
ScanStatusNoComplete(r) == ScanStatusTo(r, IF state.status = "running" THEN "last_seq" ELSE "forget")

ScanStatus(r) ==
    /\ ScanAt(r, {"status"})
    /\ ScanGoto(r, IF state.status = "running" THEN "complete" ELSE "forget")
    /\ UNCHANGED <<redisVars, processVars, seen, scanCancel>>

\* Mutant of ScanForget: the stale heartbeat stays in the index.
ScanForgetNothing(r) ==
    /\ ScanAt(r, {"forget"})
    /\ ScanGoto(r, "release")
    /\ UNCHANGED <<redisVars, processVars, seen, scanCancel>>

ScanForget(r) ==
    /\ ScanAt(r, {"forget"})
    /\ Zrem
    /\ ScanGoto(r, "release")
    /\ UNCHANGED <<state, stream, claim, processVars, seen, scanCancel>>

\* _invoke_complete: whatever the callback raises is ignored, a CancelledError
\* of aclose() included.
RecoverComplete(r) ==
    /\ Up(r) /\ scan[r] = "complete"
    /\ Completes(r)
    /\ ScanGoto(r, "last_seq")
    /\ scanCancel' = [scanCancel EXCEPT ![r] = FALSE]
    /\ Calm
    /\ UNCHANGED <<redisVars, process, loopStalled, closer, seen>>

\* Mutant of RecoverLastSeq: a fresh emitter, without the stored offset.
RecoverFromZero(r) ==
    /\ ScanAt(r, {"last_seq"})
    /\ ScanGoto(r, "error_xadd")
    /\ UNCHANGED <<redisVars, processVars, seen, scanCancel>>

RecoverLastSeq(r) ==
    /\ ScanAt(r, {"last_seq"})
    /\ seen' = [seen EXCEPT ![r] = state.last_seq]
    /\ ScanGoto(r, IF state.last_seq = 0 THEN "initial_model" ELSE "error_xadd")
    /\ UNCHANGED <<redisVars, processVars, scanCancel>>

RecoverInitialModel(r) ==
    /\ ScanAt(r, {"initial_model"})
    /\ ScanGoto(r, IF state.initial_model THEN "start_xadd" ELSE "error_xadd")
    /\ UNCHANGED <<redisVars, processVars, seen, scanCancel>>

Publishing == [start_xadd |-> "start", error_xadd |-> "error", end_xadd |-> "end"]
AfterXadd == [start_xadd |-> "start_hset", error_xadd |-> "error_hset", end_xadd |-> "end_hset"]
AfterHset == [start_hset |-> "error_xadd", error_hset |-> "end_xadd", end_hset |-> "mark_status"]

RecoverXadd(r) ==
    /\ ScanAt(r, DOMAIN Publishing)
    /\ seen' = [seen EXCEPT ![r] = seen[r] + 1]
    /\ Xadd(Publishing[scan[r]], seen[r] + 1, r)
    /\ ScanGoto(r, AfterXadd[scan[r]])
    /\ UNCHANGED <<state, heartbeat, claim, processVars, scanCancel>>

RecoverHset(r) ==
    /\ ScanAt(r, DOMAIN AfterHset)
    /\ HsetSeq(seen[r])
    /\ ScanGoto(r, AfterHset[scan[r]])
    /\ UNCHANGED <<stream, heartbeat, claim, processVars, seen, scanCancel>>

\* Mutant of RecoverMark: only the heartbeat is removed.
RecoverMarkHeartbeat(r) ==
    /\ ScanAt(r, {"mark_status"})
    /\ Zrem
    /\ ScanGoto(r, "release")
    /\ UNCHANGED <<state, stream, claim, processVars, seen, scanCancel>>

RecoverMark(r) ==
    /\ ScanAt(r, {"mark_status", "mark_heartbeat"})
    /\ IF scan[r] = "mark_status"
         THEN HsetStatus("failed") /\ UNCHANGED heartbeat /\ ScanGoto(r, "mark_heartbeat")
         ELSE Zrem /\ UNCHANGED state /\ ScanGoto(r, "release")
    /\ UNCHANGED <<stream, claim, processVars, seen, scanCancel>>

\* release_recovery, in the finally clause.  After it the scan ends when an
\* exception or a cancellation is on its way.
ScanRelease(r) ==
    /\ ScanAt(r, ReleaseSteps)
    /\ DelClaim
    /\ ScanGoto(r, IF scan[r] = "release" THEN "idle" ELSE "off")
    /\ UNCHANGED <<state, stream, heartbeat, processVars, seen, scanCancel>>

\* A command whose answer the scan does not get is applied or not.
Unanswered(r) ==
    \/ UNCHANGED <<state, heartbeat>>
    \/ scan[r] \in DOMAIN AfterHset /\ HsetSeq(seen[r]) /\ UNCHANGED heartbeat
    \/ scan[r] = "mark_status" /\ HsetStatus("failed") /\ UNCHANGED heartbeat
    \/ scan[r] \in {"mark_heartbeat", "forget"} /\ Zrem /\ UNCHANGED state

\* A Redis command of the scan raises.  Inside the try the claim is released;
\* _scan_forever logs it and scans again, also when it replaces the
\* CancelledError that was on its way through the finally clause.
ScanFault(r) ==
    /\ ScanAt(r, ScanSteps \ {"idle", "complete", "off"})
    /\ Disturb("fault")
    /\ CASE scan[r] = "claim" -> ScanGoto(r, "idle") /\ (SetClaim(r) \/ UNCHANGED claim)
         [] scan[r] \in ReleaseSteps ->
              ScanGoto(r, "idle") /\ (DelClaim \/ UNCHANGED claim)
         [] OTHER -> ScanGoto(r, "release") /\ UNCHANGED claim
    /\ Unanswered(r)
    /\ UNCHANGED <<stream, process, loopStalled, closer, completedBy, seen, scanCancel>>

\* aclose() cancelled the scanner: inside the try it still releases the claim.
\* A claim that is set all the same stays until it expires.
ScanCancelled(r) ==
    /\ Up(r) /\ scanCancel[r]
    /\ scan[r] \notin {"complete", "off"}
    /\ scanCancel' = [scanCancel EXCEPT ![r] = FALSE]
    /\ ScanGoto(r, IF scan[r] \in TrySteps THEN "release_off" ELSE "off")
    /\ (scan[r] = "claim" /\ SetClaim(r)) \/ UNCHANGED claim
    /\ Unanswered(r)
    /\ UNCHANGED <<stream, processVars, seen>>

\* The scanner goes with its process.
ScanLost(r) == /\ ScanGoto(r, "off")
               /\ seen' = [seen EXCEPT ![r] = 0]
               /\ scanCancel' = [scanCancel EXCEPT ![r] = FALSE]

--------------------------------------------------------------------------------
(* The claim's EX recovery_claim_ttl.  It outlasts a recovery that its      *)
(* holder is running, unless a callback is that slow.                       *)

Recovering(r) == scan[r] \in TrySteps \cup ReleaseSteps

Held(r) == Up(r) /\ Recovering(r)

ClaimEnds == /\ claim # NoOne
             /\ claim' = NoOne
             /\ UNCHANGED <<state, stream, heartbeat, process, loopStalled, closer, completedBy, recoveryVars>>

ClaimExpires == ClaimEnds /\ ~Held(claim) /\ Calm

ClaimOverrun == ClaimEnds /\ Held(claim) /\ Disturb("slow")
================================================================================

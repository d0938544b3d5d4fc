----------------------------- MODULE RunnerProcess -----------------------------
(***************************************************************************)
(* What every Runner instance lives with: its process, whose event loop    *)
(* may stall or die, the watchdog thread that observes the stall, and the  *)
(* disturbances of the environment.  A disturbance is an event that the    *)
(* timing options (runner/types.py) are chosen to make rare; the model     *)
(* takes at most Budget of them, of the kinds in Allowed; one of a kind in *)
(* Grave takes the whole Budget.                                           *)
(***************************************************************************)
EXTENDS RunnerRedis

CONSTANTS Owner,    \* the instance whose run() owns the task
          Mortal,   \* the instances that may crash, stall or be closed
          Allowed,  \* the kinds of disturbance that may happen
          Grave,    \* the kinds that happen alone
          Budget    \* how many disturbances may happen

(***************************************************************************)
(*   crash     the process dies; a restarted one is another instance       *)
(*   stall     a callback blocks the event loop                             *)
(*   late      a callback without a heartbeat outlasts heartbeat_timeout    *)
(*   slow      a recovery outlasts recovery_claim_ttl                       *)
(*   ttl       the task outlasts task_ttl                                   *)
(*   fault     a Redis command raises, applied or not                       *)
(*   renumber  the stream callback numbers an event without the emitter     *)
(*   cancel    the request that iterates run() is cancelled before execute  *)
(*   close     the application calls aclose()                               *)
(***************************************************************************)
Kinds == {"crash", "stall", "late", "slow", "ttl", "fault", "renumber", "cancel", "close"}

ASSUME ProcessAssumption == /\ Owner \in Runners
                            /\ Mortal \subseteq Runners
                            /\ Allowed \subseteq Kinds
                            /\ Grave \subseteq Allowed
                            /\ Budget \in Nat

VARIABLES process,      \* each instance's event loop: up, stalled or down
          loopStalled,  \* the owner's _loop_stalled event, set by its watchdog
          closer,       \* where each instance's aclose() is
          completedBy,  \* the writers that have invoked the complete callback
          budget,       \* disturbances left
          happened      \* kinds of disturbance that happened

processVars == <<process, loopStalled, closer, completedBy, budget, happened>>

ProcessTypeOK ==
    /\ process \in [Runners -> {"up", "stalled", "down"}]
    /\ loopStalled \in BOOLEAN
    /\ closer \in [Runners -> {"open", "closing", "closing_execute", "closed"}]
    /\ completedBy \in SUBSET Writers
    /\ budget \in Nat
    /\ happened \in SUBSET Kinds

ProcessInit == /\ process = [r \in Runners |-> "up"]
               /\ loopStalled = FALSE
               /\ closer = [r \in Runners |-> "open"]
               /\ completedBy = {}
               /\ budget = Budget
               /\ happened = {}

Up(r) == process[r] = "up"

Disturb(kind) == /\ kind \in Allowed
                 /\ budget > 0
                 /\ kind \in Grave => budget = Budget
                 /\ budget' = IF kind \in Grave THEN 0 ELSE budget - 1
                 /\ happened' = happened \cup {kind}

Calm == UNCHANGED <<budget, happened>>

Completes(w) == completedBy' = completedBy \cup {w}

Crash(r) == /\ r \in Mortal
            /\ process[r] # "down"
            /\ Disturb("crash")
            /\ process' = [process EXCEPT ![r] = "down"]
            /\ UNCHANGED <<redisVars, loopStalled, closer, completedBy>>

Stall(r) == /\ r \in Mortal
            /\ Up(r)
            /\ Disturb("stall")
            /\ process' = [process EXCEPT ![r] = "stalled"]
            /\ UNCHANGED <<redisVars, loopStalled, closer, completedBy>>

Resume(r) == /\ process[r] = "stalled"
             /\ process' = [process EXCEPT ![r] = "up"]
             /\ Calm
             /\ UNCHANGED <<redisVars, loopStalled, closer, completedBy>>

\* The observer thread sees no pulse for heartbeat_timeout.
WatchdogFires == /\ process[Owner] = "stalled"
                 /\ ~loopStalled
                 /\ loopStalled' = TRUE
                 /\ Calm
                 /\ UNCHANGED <<redisVars, process, closer, completedBy>>

\* Only initialize and mark_terminal refresh the state hash's EXPIRE; publish
\* refreshes the stream's alone.
StateExpires == /\ state.status = "running"
                /\ Disturb("ttl")
                /\ state' = NoState
                /\ UNCHANGED <<stream, heartbeat, claim, process, loopStalled, closer, completedBy>>
================================================================================

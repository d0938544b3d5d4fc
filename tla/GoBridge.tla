------------------------------- MODULE GoBridge --------------------------------
(***************************************************************************)
(* RedisEventBridge of the Go SDK (src/sdks/go/runner/redis_bridge.go) for *)
(* one task: a hash and a stream that three Lua scripts change.  Redis runs *)
(* a script atomically, so each is one step; what it answers is an         *)
(* operator of its own.                                                    *)
(***************************************************************************)
EXTENDS Integers, Sequences, FiniteSets

CONSTANTS Producers,  \* host processes that publish the task
          NoEvent,    \* the hash has no last_event
          Budget      \* bound on lost answers, removals and reconnections

\* A patch is a set, an append or an error.  An event's data is its op and who
\* encoded it.
Ops == {"start", "patch", "end"}
Event == [op : Ops, seq : Nat, by : Producers]
Verdicts == {"completed", "failed"}

ASSUME BridgeAssumption == NoEvent \notin Event /\ Budget \in Nat

VARIABLES hash,    \* {prefix}:{task}:state
          events,  \* {prefix}:{task}:events; events[i] has the cursor base + i
          base,    \* the last cursor of the streams that were removed
          budget   \* disturbances left

bridgeVars == <<hash, events, base, budget>>

Hash == [status : Verdicts \cup {"absent", "running"}, last_seq : Nat,
         last_event : Event \cup {NoEvent}, last_cursor : Nat]

\* HGETALL is empty: the task is not found.
NoHash == [status |-> "absent", last_seq |-> 0, last_event |-> NoEvent, last_cursor |-> 0]

BridgeTypeOK == /\ hash \in Hash
                /\ events \in Seq(Event)
                /\ base \in Nat
                /\ budget \in Nat

BridgeInit == hash = NoHash /\ events = <<>> /\ base = 0 /\ budget = Budget

Disturb == budget > 0 /\ budget' = budget - 1

\* XADD, then HSET of what the script remembers of it.
Store(event, status) ==
    /\ events' = Append(events, event)
    /\ hash' = [status |-> status, last_seq |-> event.seq, last_event |-> event,
                last_cursor |-> base + Len(events) + 1]

\* initializeScript
InitializeAnswer == IF hash.status = "absent" THEN "ok" ELSE "conflict"

RunInitialize(event) ==
    IF InitializeAnswer = "ok" THEN Store(event, "running") ELSE UNCHANGED <<hash, events>>

\* publishScript knows the retry of the last event and otherwise stores what
\* continues a running task.
Repeats(event) == hash.status # "absent" /\ event.seq = hash.last_seq /\ event = hash.last_event

\* Mutants of Publishes: a closed task still accepts; the retry is stored again.
PublishesClosed(event) == hash.status # "absent" /\ event.seq > hash.last_seq
PublishesAgain(event) == hash.status = "running" /\ event.seq >= hash.last_seq
Publishes(event) == hash.status = "running" /\ event.seq > hash.last_seq

\* Mutant of PublishAnswer: the retry is refused.
PublishAnswerOnce(event) == CASE hash.status = "absent" -> "not_found"
                              [] Publishes(event) -> "ok"
                              [] OTHER -> "conflict"
PublishAnswer(event) == CASE hash.status = "absent" -> "not_found"
                          [] hash.status # "absent" /\ (Repeats(event) \/ Publishes(event)) -> "ok"
                          [] OTHER -> "conflict"

RunPublish(event) ==
    IF Publishes(event) THEN Store(event, hash.status) ELSE UNCHANGED <<hash, events>>

\* markTerminalScript
MarkAnswer(verdict) == CASE hash.status = "absent" -> "not_found"
                         [] hash.status \in {"running", verdict} -> "ok"
                         [] OTHER -> "conflict"

\* Mutant of RunMark: HSET without looking at the status.
RunMarkBlind(verdict) == /\ hash' = [hash EXCEPT !.status = verdict]
                         /\ UNCHANGED events
RunMark(verdict) ==
    /\ hash' = IF MarkAnswer(verdict) = "ok" THEN [hash EXCEPT !.status = verdict] ELSE hash
    /\ UNCHANGED events

\* Delete, or the EXPIRE that every script renews for both keys at once.
RemoveTask ==
    /\ hash.status # "absent"
    /\ Disturb
    /\ hash' = NoHash
    /\ events' = <<>>
    /\ base' = base + Len(events)
================================================================================

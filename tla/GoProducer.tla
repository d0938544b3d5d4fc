------------------------------ MODULE GoProducer -------------------------------
(***************************************************************************)
(* The hosts that publish a task through the Go bridge.  The host program  *)
(* is outside of the repository (docs/runner.md, Language coverage): this  *)
(* is how redis_bridge_test.go and the SDK's README use the bridge.  A     *)
(* host sends a call, Redis runs it at any later time, and the answer may  *)
(* be lost, whereupon the call is sent once more.                          *)
(***************************************************************************)
EXTENDS GoBridge

CONSTANT MaxSeq  \* bound on the seq a host reaches

ASSUME ProducerAssumption == MaxSeq \in Nat

VARIABLES role,    \* idle, active or stopped
          offset,  \* the seq a host has published or read
          call,    \* the call it is making
          draft,   \* the event of that call, then the last one it published
          answer,  \* what Redis answered to the call
          receipt  \* the cursor in that answer

producerVars == <<role, offset, call, draft, answer, receipt>>

ProducerTypeOK ==
    /\ role \in [Producers -> {"idle", "active", "stopped"}]
    /\ offset \in [Producers -> Nat]
    /\ call \in [Producers -> {"none", "initialize", "publish"} \cup Verdicts]
    /\ draft \in [Producers -> Event \cup {NoEvent}]
    /\ answer \in [Producers -> {"none", "ok", "conflict", "not_found"}]
    /\ receipt \in [Producers -> Nat]
    /\ \A p \in Producers : /\ call[p] \in {"initialize", "publish"} => draft[p] # NoEvent
                            /\ answer[p] # "none" => call[p] # "none"

ProducerInit == /\ role = [p \in Producers |-> "idle"]
                /\ offset = [p \in Producers |-> 0]
                /\ call = [p \in Producers |-> "none"]
                /\ draft = [p \in Producers |-> NoEvent]
                /\ answer = [p \in Producers |-> "none"]
                /\ receipt = [p \in Producers |-> 0]

Sends(p, kind, event) == /\ call' = [call EXCEPT ![p] = kind]
                         /\ draft' = [draft EXCEPT ![p] = event]

Create(p) ==
    /\ role[p] = "idle"
    /\ role' = [role EXCEPT ![p] = "active"]
    /\ Sends(p, "initialize", [op |-> "start", seq |-> 1, by |-> p])
    /\ UNCHANGED <<bridgeVars, offset, answer, receipt>>

\* A host that continues a task starts from State().LastSeq.
TakeOver(p) ==
    /\ role[p] = "idle"
    /\ hash.status = "running"
    /\ role' = [role EXCEPT ![p] = "active"]
    /\ offset' = [offset EXCEPT ![p] = hash.last_seq]
    /\ UNCHANGED <<bridgeVars, call, draft, answer, receipt>>

Ready(p) == role[p] = "active" /\ call[p] = "none"

SendPublish(p) ==
    /\ Ready(p)
    /\ offset[p] < MaxSeq
    /\ draft[p] # NoEvent => draft[p].op # "end"
    /\ \E op \in {"patch", "end"} : Sends(p, "publish", [op |-> op, seq |-> offset[p] + 1, by |-> p])
    /\ UNCHANGED <<bridgeVars, role, offset, answer, receipt>>

SendMark(p) ==
    /\ Ready(p)
    /\ \E verdict \in Verdicts : Sends(p, verdict, draft[p])
    /\ UNCHANGED <<bridgeVars, role, offset, answer, receipt>>

\* Redis runs the script of the call.
Answers(p, reply) == /\ answer' = [answer EXCEPT ![p] = reply]
                     /\ receipt' = [receipt EXCEPT ![p] = hash'.last_cursor]

Run(p) ==
    /\ answer[p] = "none"
    /\ \/ call[p] = "initialize" /\ RunInitialize(draft[p]) /\ Answers(p, InitializeAnswer)
       \/ call[p] = "publish" /\ RunPublish(draft[p]) /\ Answers(p, PublishAnswer(draft[p]))
       \/ call[p] \in Verdicts /\ RunMark(call[p]) /\ Answers(p, MarkAnswer(call[p]))
    /\ UNCHANGED <<base, budget, role, offset, call, draft>>

\* The answer is lost: the call is sent once more.
AnswerLost(p) ==
    /\ answer[p] # "none"
    /\ Disturb
    /\ answer' = [answer EXCEPT ![p] = "none"]
    /\ receipt' = [receipt EXCEPT ![p] = 0]
    /\ UNCHANGED <<hash, events, base, role, offset, call, draft>>

\* A host that is refused, or has marked the task, stops.
Return(p) ==
    /\ answer[p] # "none"
    /\ IF answer[p] = "ok" /\ call[p] \notin Verdicts
         THEN /\ offset' = [offset EXCEPT ![p] = draft[p].seq]
              /\ UNCHANGED <<role, draft>>
         ELSE /\ role' = [role EXCEPT ![p] = "stopped"]
              /\ offset' = [offset EXCEPT ![p] = 0]
              /\ draft' = [draft EXCEPT ![p] = NoEvent]
    /\ call' = [call EXCEPT ![p] = "none"]
    /\ answer' = [answer EXCEPT ![p] = "none"]
    /\ receipt' = [receipt EXCEPT ![p] = 0]
    /\ UNCHANGED bridgeVars

ProducerStep(p) == \/ Create(p) \/ TakeOver(p) \/ SendPublish(p) \/ SendMark(p)
                   \/ Run(p) \/ AnswerLost(p) \/ Return(p)
================================================================================

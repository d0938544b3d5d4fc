------------------------------ MODULE GoDelivery -------------------------------
(***************************************************************************)
(* One task of the Go SDK: hosts that publish it (GoProducer), clients     *)
(* that follow it through Replayer (GoReplayer), and the bridge between    *)
(* them (GoBridge).                                                        *)
(***************************************************************************)
EXTENDS GoProducer, GoReplayer

vars == <<bridgeVars, producerVars, replayerVars>>

TypeOK == BridgeTypeOK /\ ProducerTypeOK /\ ReplayerTypeOK

Init == BridgeInit /\ ProducerInit /\ ReplayerInit

Next == \/ \E p \in Producers : ProducerStep(p) /\ UNCHANGED replayerVars
        \/ \E c \in Clients : ClientStep(c) /\ UNCHANGED producerVars
        \/ RemoveTask /\ UNCHANGED <<producerVars, replayerVars>>

Spec == Init /\ [][Next]_vars

\* Stream goes on as long as its context lives and Redis answers.  No host has
\* to go on, and no client to come back.
FairSpec == Spec /\ \A c \in Clients : WF_vars(StreamStep(c) /\ UNCHANGED producerVars)

--------------------------------------------------------------------------------

\* The bridge is an event log: it grows by events of increasing seq while the
\* task runs, a verdict closes it for good, and it goes as a whole
\* (initializeScript, publishScript, markTerminalScript, Delete).
Log == INSTANCE EventLog WITH log <- events, status <- hash.status
ImplementsEventLog == Log!LogSpec

\* What publishScript remembers of the stream is the stream's last event, so a
\* retry is recognised and Replayer knows when it has delivered everything.
HashMatchesStream ==
    IF hash.status = "absent"
      THEN events = <<>>
      ELSE /\ events # <<>>
           /\ hash.last_cursor = base + Len(events)
           /\ hash.last_event = events[Len(events)]
           /\ hash.last_seq = events[Len(events)].seq

\* An acknowledged event is stored, once, under the cursor its host was given,
\* whether it was the call or a retry that stored it.
AcknowledgedIsStored ==
    \A p \in Producers :
        call[p] \in {"initialize", "publish"} /\ answer[p] = "ok" /\ receipt[p] > base =>
            /\ receipt[p] - base \in DOMAIN events
            /\ \A i \in DOMAIN events : events[i] = draft[p] <=> base + i = receipt[p]

\* A host that has the task to itself is never refused an event, however many
\* answers it loses and though the task may be closed by its own verdict.
SoleProducerIsAccepted ==
    \A p \in Producers :
        answer[p] = "conflict" /\ call[p] = "publish" => \E q \in Producers \ {p} : role[q] # "idle"

\* What a client has is what the stream holds up to its Last-Event-ID, resumed
\* or not, and pings carry the seq of that event.  If the task was removed since
\* the delivery was opened, and created again, this needs the new start, which a
\* resumed delivery does not pass on.
ViewIsPrefix ==
    \A c \in Clients :
        /\ phase[c] \in {"reading", "delivering", "ended"}
        /\ timeline[c] = base \/ (~resumed[c] /\ lastId[c] > base)
        => /\ view[c] = SubSeq(events, 1, Upto(lastId[c]))
           /\ view[c] # <<>> => lastSeq[c] = view[c][Len(view[c])].seq

\* A delivery that ended has delivered an end that is stored, or all of a log
\* that is closed.
EndedIsWhole ==
    \A c \in Clients :
        phase[c] = "ended" /\ timeline[c] = base =>
            /\ view[c] # <<>>
            /\ \/ view[c][Len(view[c])].op = "end"
               \/ hash.status \in Verdicts /\ view[c] = events

\* A delivery of a task that has its verdict ends, unless the task is removed.
ClosedLogEnds ==
    \A c \in Clients :
        hash.status \in Verdicts /\ phase[c] \in Streaming
            ~> phase[c] \notin Streaming \/ hash.status \notin Verdicts

\* A delivery of a log that holds an end ends, wherever it starts.
StoredEndEnds ==
    \A c \in Clients :
        (\E i \in DOMAIN events : events[i].op = "end") /\ phase[c] \in Streaming ~> phase[c] \notin Streaming
================================================================================

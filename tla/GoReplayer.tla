------------------------------ MODULE GoReplayer -------------------------------
(***************************************************************************)
(* Replayer.Stream (src/sdks/go/runner/replay.go), one delivery at a time  *)
(* for each client, and what the client has of the task: the model it      *)
(* built, as the events it was reduced from, and the id of the last event  *)
(* with one, from which it resumes.                                        *)
(***************************************************************************)
EXTENDS GoBridge

CONSTANTS Clients,
          ReadCount  \* the bound of one XREAD

ASSUME ReplayerAssumption == ReadCount \in Nat \ {0}

VARIABLES phase,     \* where the delivery is
          resumed,   \* it was opened with a cursor
          cursor,    \* the last cursor it has passed
          batch,     \* stored events it has read and not delivered
          lastSeq,   \* the seq its pings carry
          view,      \* the events the client's model was reduced from
          lastId,    \* the client's Last-Event-ID, 0 without one
          timeline   \* base when the delivery was opened

replayerVars == <<phase, resumed, cursor, batch, lastSeq, view, lastId, timeline>>

Streaming == {"resuming", "reading", "delivering"}
Item == [cursor : Nat, event : Event]

ReplayerTypeOK ==
    /\ phase \in [Clients -> Streaming \cup {"off", "ended", "failed"}]
    /\ resumed \in [Clients -> BOOLEAN]
    /\ cursor \in [Clients -> Nat]
    /\ batch \in [Clients -> Seq(Item)]
    /\ lastSeq \in [Clients -> Nat]
    /\ view \in [Clients -> Seq(Event)]
    /\ lastId \in [Clients -> Nat]
    /\ timeline \in [Clients -> Nat]

ReplayerInit == /\ phase = [c \in Clients |-> "off"]
                /\ resumed = [c \in Clients |-> FALSE]
                /\ cursor = [c \in Clients |-> 0]
                /\ batch = [c \in Clients |-> <<>>]
                /\ lastSeq = [c \in Clients |-> 0]
                /\ view = [c \in Clients |-> <<>>]
                /\ lastId = [c \in Clients |-> 0]
                /\ timeline = [c \in Clients |-> 0]

Goto(c, next) == phase' = [phase EXCEPT ![c] = next]

\* How many events of the stream have a cursor up to id.
Upto(id) == IF id > base THEN id - base ELSE 0

\* State, then the start of the delivery.
Open(c) ==
    /\ phase[c] = "off"
    /\ Goto(c, CASE hash.status = "absent" -> "failed"
                 [] hash.status # "absent" /\ lastId[c] = 0 -> "reading"
                 [] OTHER -> "resuming")
    /\ resumed' = [resumed EXCEPT ![c] = lastId[c] # 0]
    /\ cursor' = [cursor EXCEPT ![c] = lastId[c]]
    /\ timeline' = [timeline EXCEPT ![c] = base]
    /\ UNCHANGED <<bridgeVars, lastSeq, batch, view, lastId>>

\* Mutant of Rebuilt: the snapshot lacks the event at the cursor.
RebuiltBefore(id) == SubSeq(events, 1, Upto(id) - 1)
\* What EventsThrough(id) returns and snapshotThrough reduces.
Rebuilt(id) == SubSeq(events, 1, Upto(id))

\* snapshotThrough, and a start without id.
Rebuild(c) ==
    /\ phase[c] = "resuming"
    /\ IF Upto(cursor[c]) = 0
         THEN Goto(c, "failed") /\ UNCHANGED <<view, lastSeq>>
         ELSE /\ Goto(c, "reading")
              /\ view' = [view EXCEPT ![c] = Rebuilt(cursor[c])]
              /\ lastSeq' = [lastSeq EXCEPT ![c] = events[Upto(cursor[c])].seq]
    /\ UNCHANGED <<bridgeVars, resumed, cursor, batch, lastId, timeline>>

\* XREAD: at most ReadCount events after the cursor.
Unread(c) ==
    LET from == Upto(cursor[c])
        rest == Len(events) - from
    IN  [i \in 1..(IF rest < ReadCount THEN rest ELSE ReadCount) |->
            [cursor |-> base + from + i, event |-> events[from + i]]]

Read(c) ==
    /\ phase[c] = "reading"
    /\ batch' = [batch EXCEPT ![c] = Unread(c)]
    /\ Goto(c, "delivering")
    /\ UNCHANGED <<bridgeVars, resumed, cursor, lastSeq, view, lastId, timeline>>

\* A start establishes the model, any other event goes on from it.
Reduced(model, event) == IF event.op = "start" THEN <<event>> ELSE Append(model, event)

\* A resumed delivery has its start already.
Skip(c) ==
    /\ phase[c] = "delivering" /\ batch[c] # <<>>
    /\ resumed[c] /\ Head(batch[c]).event.op = "start"
    /\ cursor' = [cursor EXCEPT ![c] = Head(batch[c]).cursor]
    /\ batch' = [batch EXCEPT ![c] = Tail(batch[c])]
    /\ UNCHANGED <<bridgeVars, phase, resumed, lastSeq, view, lastId, timeline>>

Deliver(c) ==
    LET item == Head(batch[c])
    IN  /\ phase[c] = "delivering" /\ batch[c] # <<>>
        /\ ~(resumed[c] /\ item.event.op = "start")
        /\ view' = [view EXCEPT ![c] = Reduced(view[c], item.event)]
        /\ lastId' = [lastId EXCEPT ![c] = item.cursor]
        /\ cursor' = [cursor EXCEPT ![c] = item.cursor]
        /\ lastSeq' = [lastSeq EXCEPT ![c] = item.event.seq]
        /\ batch' = [batch EXCEPT ![c] = Tail(batch[c])]
        /\ Goto(c, IF item.event.op = "end" THEN "ended" ELSE "delivering")
        /\ UNCHANGED <<bridgeVars, resumed, timeline>>

\* Mutants of Drained: a terminal status ends the delivery whatever it has
\* delivered; nothing but a stored end does.
DrainedAtOnce(c) == hash.status \in Verdicts
DrainedNever(c) == FALSE
Drained(c) == hash.status \in Verdicts /\ cursor[c] = hash.last_cursor

\* State after the batch: an end without id, or a ping at most.
Check(c) ==
    /\ phase[c] = "delivering" /\ batch[c] = <<>>
    /\ Goto(c, CASE hash.status = "absent" -> "failed"
                 [] Drained(c) -> "ended"
                 [] OTHER -> "reading")
    /\ UNCHANGED <<bridgeVars, resumed, cursor, batch, lastSeq, view, lastId, timeline>>

\* The connection breaks, or was closed by the server, and the client opens
\* another one.
Reconnect(c) ==
    /\ phase[c] # "off"
    /\ Disturb
    /\ Goto(c, "off")
    /\ resumed' = [resumed EXCEPT ![c] = FALSE]
    /\ cursor' = [cursor EXCEPT ![c] = 0]
    /\ lastSeq' = [lastSeq EXCEPT ![c] = 0]
    /\ batch' = [batch EXCEPT ![c] = <<>>]
    /\ timeline' = [timeline EXCEPT ![c] = 0]
    /\ UNCHANGED <<hash, events, base, view, lastId>>

StreamStep(c) == Rebuild(c) \/ Read(c) \/ Skip(c) \/ Deliver(c) \/ Check(c)

ClientStep(c) == Open(c) \/ StreamStep(c) \/ Reconnect(c)
================================================================================

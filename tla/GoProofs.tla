------------------------------- MODULE GoProofs --------------------------------
(***************************************************************************)
(* Theorems about GoDelivery, for any hosts, clients, bounds and budget:   *)
(* types, hash and stream, the refinement of EventLog; then what hosts and *)
(* clients may rely on: acknowledgements, refusals, and the model of a     *)
(* client that resumes.                                                    *)
(***************************************************************************)
EXTENDS GoDelivery, SequenceTheorems, TLAPS

--------------------------------------------------------------------------------
(* Type correctness                                                         *)

\* What a script stores keeps the hash a hash and the stream a sequence.
LEMMA StoreType ==
    ASSUME BridgeTypeOK, NEW e \in Event, NEW s \in Verdicts \cup {"running"}, Store(e, s)
    PROVE  hash' \in Hash /\ events' \in Seq(Event)
  <1>1. events' \in Seq(Event)
    BY AppendProperties DEF BridgeTypeOK, Store
  <1>2. Len(events) \in Nat
    BY LenProperties DEF BridgeTypeOK
  <1>3. e.seq \in Nat
    BY DEF Event
  <1>4. hash' \in Hash
    BY <1>2, <1>3 DEF BridgeTypeOK, Store, Hash
  <1> QED BY <1>1, <1>4

\* Whatever script a host's call runs, the bridge keeps its types.
LEMMA RunType ==
    ASSUME TypeOK, NEW p \in Producers, Run(p)
    PROVE  hash' \in Hash /\ events' \in Seq(Event)
  <1>1. UNCHANGED <<hash, events>> => hash' \in Hash /\ events' \in Seq(Event)
    BY DEF TypeOK, BridgeTypeOK
  <1>2. CASE call[p] = "initialize" /\ RunInitialize(draft[p])
    <2>1. draft[p] \in Event
      BY <1>2 DEF TypeOK, ProducerTypeOK
    <2> QED BY <1>1, <1>2, <2>1, StoreType DEF RunInitialize, TypeOK
  <1>3. CASE call[p] = "publish" /\ RunPublish(draft[p])
    <2>1. draft[p] \in Event
      BY <1>3 DEF TypeOK, ProducerTypeOK
    <2>2. Publishes(draft[p]) => hash.status = "running"
      BY DEF Publishes
    <2> QED BY <1>1, <1>3, <2>1, <2>2, StoreType DEF RunPublish, TypeOK
  <1>4. CASE call[p] \in Verdicts /\ RunMark(call[p])
    <2>1. hash' \in Hash
      BY <1>4 DEF RunMark, TypeOK, BridgeTypeOK, Hash
    <2> QED BY <1>4, <2>1 DEF RunMark, TypeOK, BridgeTypeOK
  <1> QED BY <1>2, <1>3, <1>4 DEF Run

\* A host's step keeps every type.
LEMMA ProducerType ==
    ASSUME TypeOK, NEW p \in Producers, ProducerStep(p), UNCHANGED replayerVars
    PROVE  TypeOK'
  <1>1. ReplayerTypeOK'
    BY DEF TypeOK, ReplayerTypeOK, replayerVars
  <1>2. CASE Create(p)
    <2>1. [op |-> "start", seq |-> 1, by |-> p] \in Event
      BY DEF Event, Ops
    <2> QED BY <1>1, <1>2, <2>1, BridgeAssumption
            DEF Create, Sends, TypeOK, BridgeTypeOK, ProducerTypeOK, bridgeVars
  <1>3. CASE TakeOver(p)
    <2>1. hash.last_seq \in Nat
      BY DEF TypeOK, BridgeTypeOK, Hash
    <2> QED BY <1>1, <1>3, <2>1 DEF TakeOver, TypeOK, BridgeTypeOK, ProducerTypeOK, bridgeVars
  <1>4. CASE SendPublish(p)
    <2>1. \A op \in {"patch", "end"} : [op |-> op, seq |-> offset[p] + 1, by |-> p] \in Event
      BY DEF Event, Ops, TypeOK, ProducerTypeOK
    <2> QED BY <1>1, <1>4, <2>1, BridgeAssumption
            DEF SendPublish, Sends, TypeOK, BridgeTypeOK, ProducerTypeOK, bridgeVars
  <1>5. CASE SendMark(p)
    BY <1>1, <1>5 DEF SendMark, Sends, TypeOK, BridgeTypeOK, ProducerTypeOK, bridgeVars, Verdicts
  <1>6. CASE Run(p)
    <2>1. InitializeAnswer \in {"ok", "conflict"}
      BY DEF InitializeAnswer
    <2>2. PublishAnswer(draft[p]) \in {"ok", "conflict", "not_found"}
      BY DEF PublishAnswer
    <2>3. MarkAnswer(call[p]) \in {"ok", "conflict", "not_found"}
      BY DEF MarkAnswer
    <2>4. hash' \in Hash /\ events' \in Seq(Event)
      BY <1>6, RunType
    <2>5. hash'.last_cursor \in Nat
      BY <2>4 DEF Hash
    <2>6. answer' \in [Producers -> {"none", "ok", "conflict", "not_found"}] /\ receipt' \in [Producers -> Nat]
      BY <1>6, <2>1, <2>2, <2>3, <2>5 DEF Run, Answers, TypeOK, ProducerTypeOK
    <2>7. \A q \in Producers : /\ call'[q] \in {"initialize", "publish"} => draft'[q] # NoEvent
                               /\ answer'[q] # "none" => call'[q] # "none"
      BY <1>6 DEF Run, Answers, TypeOK, ProducerTypeOK, Verdicts
    <2>8. BridgeTypeOK'
      BY <1>6, <2>4 DEF Run, TypeOK, BridgeTypeOK
    <2>9. ProducerTypeOK'
      BY <1>6, <2>6, <2>7 DEF Run, TypeOK, ProducerTypeOK
    <2> QED BY <1>1, <2>8, <2>9 DEF TypeOK
  <1>7. CASE AnswerLost(p)
    BY <1>1, <1>7, BridgeAssumption DEF AnswerLost, Disturb, TypeOK, BridgeTypeOK, ProducerTypeOK
  <1>8. CASE Return(p)
    <2>1. CASE answer[p] = "ok" /\ call[p] \notin Verdicts
      <3>1. draft[p] \in Event
        BY <1>8, <2>1 DEF Return, TypeOK, ProducerTypeOK
      <3>2. draft[p].seq \in Nat
        BY <3>1 DEF Event
      <3> QED BY <1>1, <1>8, <2>1, <3>2 DEF Return, TypeOK, BridgeTypeOK, ProducerTypeOK, bridgeVars
    <2>2. CASE ~(answer[p] = "ok" /\ call[p] \notin Verdicts)
      <3>1. BridgeTypeOK'
        BY <1>8 DEF Return, TypeOK, BridgeTypeOK, bridgeVars
      <3>2. \A q \in Producers : /\ call'[q] \in {"initialize", "publish"} => draft'[q] # NoEvent
                                 /\ answer'[q] # "none" => call'[q] # "none"
        BY <1>8, <2>2 DEF Return, TypeOK, ProducerTypeOK
      <3>3. ProducerTypeOK'
        BY <1>8, <2>2, <3>2 DEF Return, TypeOK, ProducerTypeOK
      <3> QED BY <1>1, <3>1, <3>3 DEF TypeOK
    <2> QED BY <2>1, <2>2
  <1> QED BY <1>2, <1>3, <1>4, <1>5, <1>6, <1>7, <1>8 DEF ProducerStep

\* No delivery and no client is ahead of the stream.
Bounded ==
    \A c \in Clients :
        /\ timeline[c] <= base
        /\ cursor[c] <= base + Len(events)
        /\ lastId[c] <= base + Len(events)
        /\ \A i \in 1..Len(batch[c]) : batch[c][i].cursor <= base + Len(events)

\* The stream never loses cursors.
LEMMA BoundedKept ==
    ASSUME TypeOK, Bounded, TypeOK', UNCHANGED replayerVars,
           base \in Nat, base' \in Nat, base <= base',
           base + Len(events) <= base' + Len(events')
    PROVE  Bounded'
  <1> SUFFICES ASSUME NEW c \in Clients
               PROVE  /\ timeline[c] <= base'
                      /\ cursor[c] <= base' + Len(events')
                      /\ lastId[c] <= base' + Len(events')
                      /\ \A i \in 1..Len(batch[c]) : batch[c][i].cursor <= base' + Len(events')
    BY DEF Bounded, replayerVars
  <1>1. Len(events) \in Nat /\ Len(events') \in Nat
    BY LenProperties DEF TypeOK, BridgeTypeOK
  <1>2. cursor[c] \in Nat /\ lastId[c] \in Nat /\ timeline[c] \in Nat
    BY DEF TypeOK, ReplayerTypeOK
  <1>3. \A i \in 1..Len(batch[c]) : batch[c][i].cursor \in Nat
    <2>1. batch[c] \in Seq(Item)
      BY DEF TypeOK, ReplayerTypeOK
    <2>2. \A i \in 1..Len(batch[c]) : batch[c][i] \in Item
      BY <2>1, ElementOfSeq
    <2> QED BY <2>2 DEF Item
  <1> QED BY <1>1, <1>2, <1>3 DEF Bounded

\* What XREAD returns is a batch of stored events.
LEMMA UnreadType ==
    ASSUME TypeOK, Bounded, NEW c \in Clients
    PROVE  /\ Unread(c) \in Seq(Item)
           /\ \A i \in 1..Len(Unread(c)) : Unread(c)[i].cursor <= base + Len(events)
  <1>1. Len(events) \in Nat /\ base \in Nat /\ cursor[c] \in Nat /\ cursor[c] <= base + Len(events)
    BY LenProperties DEF TypeOK, BridgeTypeOK, ReplayerTypeOK, Bounded
  <1> DEFINE from == Upto(cursor[c])
             rest == Len(events) - from
             n == IF rest < ReadCount THEN rest ELSE ReadCount
  <1>2. from \in 0..Len(events) /\ rest \in Nat
    BY <1>1 DEF Upto
  <1>3. n \in Nat /\ n <= rest
    BY <1>2, ReplayerAssumption
  <1>4. \A i \in 1..n : [cursor |-> base + from + i, event |-> events[from + i]] \in Item
    <2> SUFFICES ASSUME NEW i \in 1..n
                 PROVE  base + from + i \in Nat /\ events[from + i] \in Event
      BY DEF Item
    <2>1. from + i \in 1..Len(events)
      BY <1>1, <1>2, <1>3
    <2>2. events[from + i] \in Event
      BY <2>1, ElementOfSeq DEF TypeOK, BridgeTypeOK
    <2> QED BY <1>1, <1>2, <1>3, <2>2
  <1>5. Unread(c) = [i \in 1..n |-> [cursor |-> base + from + i, event |-> events[from + i]]]
    BY DEF Unread
  <1>6. Unread(c) \in Seq(Item) /\ Len(Unread(c)) = n
    BY <1>3, <1>4, <1>5
  <1> QED BY <1>1, <1>2, <1>3, <1>5, <1>6

\* The head of a batch is a stored event, and the rest is a batch.
LEMMA HeadType ==
    ASSUME TypeOK, Bounded, NEW c \in Clients, batch[c] # <<>>
    PROVE  /\ Head(batch[c]) \in Item
           /\ Head(batch[c]).cursor <= base + Len(events)
           /\ Tail(batch[c]) \in Seq(Item)
           /\ \A i \in 1..Len(Tail(batch[c])) : Tail(batch[c])[i].cursor <= base + Len(events)
  <1>1. batch[c] \in Seq(Item)
    BY DEF TypeOK, ReplayerTypeOK
  <1>2. Len(batch[c]) \in Nat \ {0}
    BY <1>1, EmptySeq
  <1>3. Head(batch[c]) = batch[c][1]
    BY <1>1
  <1>4. Head(batch[c]) \in Item /\ Tail(batch[c]) \in Seq(Item) /\ Len(Tail(batch[c])) = Len(batch[c]) - 1
        /\ \A i \in 1..Len(Tail(batch[c])) : Tail(batch[c])[i] = batch[c][i + 1]
    BY <1>1, HeadTailProperties
  <1> QED BY <1>2, <1>3, <1>4 DEF Bounded

\* A snapshot at a cursor is a prefix of the stream.
LEMMA RebuiltType ==
    ASSUME TypeOK, NEW id \in Nat, id <= base + Len(events)
    PROVE  /\ Upto(id) \in 0..Len(events)
           /\ Rebuilt(id) \in Seq(Event)
           /\ Len(Rebuilt(id)) = Upto(id)
           /\ \A i \in 1..Upto(id) : Rebuilt(id)[i] = events[i] /\ events[i] \in Event
  <1>1. Len(events) \in Nat /\ base \in Nat
    BY LenProperties DEF TypeOK, BridgeTypeOK
  <1>2. Upto(id) \in 0..Len(events)
    BY <1>1 DEF Upto
  <1>3. \A i \in 1..Upto(id) : events[i] \in Event
    BY <1>1, <1>2, ElementOfSeq DEF TypeOK, BridgeTypeOK
  <1>4. /\ SubSeq(events, 1, Upto(id)) \in Seq(Event)
        /\ Len(SubSeq(events, 1, Upto(id))) = IF 1 <= Upto(id) THEN Upto(id) - 1 + 1 ELSE 0
        /\ \A i \in 1..(Upto(id) - 1 + 1) : SubSeq(events, 1, Upto(id))[i] = events[1 + i - 1]
    BY <1>2, <1>3, SubSeqProperties
  <1> QED BY <1>2, <1>3, <1>4 DEF Rebuilt

\* A client's step keeps every type and passes no cursor that is not stored.
LEMMA ClientType ==
    ASSUME TypeOK, Bounded, NEW c \in Clients, ClientStep(c), UNCHANGED producerVars
    PROVE  TypeOK' /\ Bounded'
  <1> USE DEF Goto
  <1>1. ProducerTypeOK'
    BY DEF TypeOK, ProducerTypeOK, producerVars
  <1>2. base \in Nat /\ Len(events) \in Nat
    BY LenProperties DEF TypeOK, BridgeTypeOK
  <1>3. BridgeTypeOK' /\ UNCHANGED <<events, base>>
    BY DEF TypeOK, BridgeTypeOK, ClientStep, StreamStep, Open, Rebuild, Read, Skip, Deliver, Check, Reconnect,
           Disturb, bridgeVars
  <1>4. CASE Open(c)
    <2>1. ReplayerTypeOK'
      BY <1>2, <1>4 DEF Open, TypeOK, ReplayerTypeOK, Streaming
    <2>2. Bounded'
      BY <1>2, <1>3, <1>4 DEF Open, TypeOK, ReplayerTypeOK, Bounded
    <2> QED BY <1>1, <1>3, <2>1, <2>2 DEF TypeOK
  <1>5. CASE Rebuild(c)
    <2>1. cursor[c] \in Nat /\ cursor[c] <= base + Len(events)
      BY DEF TypeOK, ReplayerTypeOK, Bounded
    <2>2. Upto(cursor[c]) \in 0..Len(events) /\ Rebuilt(cursor[c]) \in Seq(Event)
          /\ \A i \in 1..Upto(cursor[c]) : events[i] \in Event
      BY <2>1, RebuiltType
    <2>3. Upto(cursor[c]) # 0 => events[Upto(cursor[c])].seq \in Nat
      BY <1>2, <2>2 DEF Event
    <2>4. ReplayerTypeOK'
      BY <1>5, <2>2, <2>3 DEF Rebuild, TypeOK, ReplayerTypeOK, Streaming
    <2>5. Bounded'
      BY <1>3, <1>5 DEF Rebuild, Bounded
    <2> QED BY <1>1, <1>3, <2>4, <2>5 DEF TypeOK
  <1>6. CASE Read(c)
    <2>1. ReplayerTypeOK'
      BY <1>6, UnreadType DEF Read, TypeOK, ReplayerTypeOK, Streaming
    <2>2. Bounded'
      BY <1>3, <1>6, UnreadType DEF Read, TypeOK, ReplayerTypeOK, Bounded
    <2> QED BY <1>1, <1>3, <2>1, <2>2 DEF TypeOK
  <1>7. CASE Skip(c)
    <2>1. /\ Head(batch[c]).cursor \in Nat
          /\ Head(batch[c]).cursor <= base + Len(events)
          /\ Tail(batch[c]) \in Seq(Item)
          /\ \A i \in 1..Len(Tail(batch[c])) : Tail(batch[c])[i].cursor <= base + Len(events)
      BY <1>7, HeadType DEF Skip, Item
    <2>2. ReplayerTypeOK'
      BY <1>7, <2>1 DEF Skip, TypeOK, ReplayerTypeOK
    <2>3. Bounded'
      BY <1>3, <1>7, <2>1 DEF Skip, TypeOK, ReplayerTypeOK, Bounded
    <2> QED BY <1>1, <1>3, <2>2, <2>3 DEF TypeOK
  <1>8. CASE Deliver(c)
    <2>1. /\ Head(batch[c]).cursor \in Nat /\ Head(batch[c]).event \in Event
          /\ Head(batch[c]).cursor <= base + Len(events)
          /\ Tail(batch[c]) \in Seq(Item)
          /\ \A i \in 1..Len(Tail(batch[c])) : Tail(batch[c])[i].cursor <= base + Len(events)
      BY <1>8, HeadType DEF Deliver, Item
    <2>2. Head(batch[c]).event.seq \in Nat
      BY <2>1 DEF Event
    <2>3. Reduced(view[c], Head(batch[c]).event) \in Seq(Event)
      BY <2>1, AppendProperties DEF Reduced, TypeOK, ReplayerTypeOK
    <2>4. ReplayerTypeOK'
      BY <1>8, <2>1, <2>2, <2>3 DEF Deliver, TypeOK, ReplayerTypeOK, Streaming
    <2>5. Bounded'
      BY <1>3, <1>8, <2>1 DEF Deliver, TypeOK, ReplayerTypeOK, Bounded
    <2> QED BY <1>1, <1>3, <2>4, <2>5 DEF TypeOK
  <1>9. CASE Check(c)
    <2>1. ReplayerTypeOK'
      BY <1>9 DEF Check, TypeOK, ReplayerTypeOK, Streaming
    <2>2. Bounded'
      BY <1>3, <1>9 DEF Check, Bounded
    <2> QED BY <1>1, <1>3, <2>1, <2>2 DEF TypeOK
  <1>10. CASE Reconnect(c)
    <2>1. ReplayerTypeOK'
      BY <1>10, EmptySeq DEF Reconnect, TypeOK, ReplayerTypeOK
    <2>2. ASSUME NEW d \in Clients
          PROVE  /\ timeline'[d] <= base /\ cursor'[d] <= base + Len(events)
                 /\ lastId'[d] <= base + Len(events)
      BY <1>2, <1>10 DEF Reconnect, TypeOK, ReplayerTypeOK, Bounded
    <2>3. ASSUME NEW d \in Clients, NEW i \in 1..Len(batch'[d])
          PROVE  batch'[d][i].cursor <= base + Len(events)
      <3>1. d # c
        <4>1. SUFFICES ASSUME d = c PROVE FALSE
          OBVIOUS
        <4>2. batch'[d] = <<>>
          BY <1>10, <4>1 DEF Reconnect, TypeOK, ReplayerTypeOK
        <4> QED BY <2>3, <4>2
      <3>2. batch'[d] = batch[d]
        BY <1>10, <3>1 DEF Reconnect, TypeOK, ReplayerTypeOK
      <3> QED BY <2>3, <3>2 DEF Bounded
    <2> QED BY <1>1, <1>3, <2>1, <2>2, <2>3 DEF TypeOK, Bounded
  <1> QED BY <1>4, <1>5, <1>6, <1>7, <1>8, <1>9, <1>10 DEF ClientStep, StreamStep

\* Every step of hosts, clients and Redis keeps the types and the bounds.
LEMMA TypeStep == TypeOK /\ Bounded /\ [Next]_vars => TypeOK' /\ Bounded'
  <1> SUFFICES ASSUME TypeOK, Bounded, [Next]_vars
               PROVE  TypeOK' /\ Bounded'
    OBVIOUS
  <1>1. base \in Nat /\ Len(events) \in Nat
    BY LenProperties DEF TypeOK, BridgeTypeOK
  <1>2. ASSUME NEW p \in Producers, ProducerStep(p), UNCHANGED replayerVars
        PROVE  TypeOK' /\ Bounded'
    <2>1. TypeOK'
      BY <1>2, ProducerType
    <2>2. base' = base /\ Len(events) <= Len(events')
      <3>1. CASE Run(p)
        <4>1. UNCHANGED events \/ events' = Append(events, draft[p])
          BY <3>1 DEF Run, RunInitialize, RunPublish, RunMark, Store
        <4>2. Len(Append(events, draft[p])) = Len(events) + 1
          BY DEF TypeOK, BridgeTypeOK
        <4> QED BY <1>1, <3>1, <4>1, <4>2 DEF Run
      <3>2. CASE ~Run(p)
        BY <1>1, <1>2, <3>2
           DEF ProducerStep, Create, TakeOver, SendPublish, SendMark, AnswerLost, Return, bridgeVars
      <3> QED BY <3>1, <3>2
    <2>3. Len(events') \in Nat
      BY <2>1, LenProperties DEF TypeOK, BridgeTypeOK
    <2> QED BY <1>1, <1>2, <2>1, <2>2, <2>3, BoundedKept
  <1>3. ASSUME NEW c \in Clients, ClientStep(c), UNCHANGED producerVars
        PROVE  TypeOK' /\ Bounded'
    BY <1>3, ClientType
  <1>4. CASE RemoveTask /\ UNCHANGED <<producerVars, replayerVars>>
    <2>1. NoHash \in Hash
      BY DEF NoHash, Hash
    <2>2. BridgeTypeOK' /\ base' = base + Len(events) /\ events' = <<>>
      BY <1>1, <1>4, <2>1, EmptySeq DEF RemoveTask, Disturb, TypeOK, BridgeTypeOK
    <2>3. ProducerTypeOK' /\ ReplayerTypeOK'
      BY <1>4 DEF TypeOK, ProducerTypeOK, ReplayerTypeOK, producerVars, replayerVars
    <2>4. TypeOK'
      BY <2>2, <2>3 DEF TypeOK
    <2>5. base' \in Nat /\ base <= base' /\ base + Len(events) <= base' + Len(events')
      BY <1>1, <2>2, EmptySeq
    <2> QED BY <1>1, <1>4, <2>4, <2>5, BoundedKept
  <1>5. CASE UNCHANGED vars
    <2>1. TypeOK'
      BY <1>5 DEF vars, bridgeVars, producerVars, replayerVars, TypeOK, BridgeTypeOK, ProducerTypeOK, ReplayerTypeOK
    <2>2. UNCHANGED <<events, base>> /\ UNCHANGED replayerVars
      BY <1>5 DEF vars, bridgeVars
    <2> QED BY <1>1, <2>1, <2>2, BoundedKept
  <1> QED BY <1>2, <1>3, <1>4, <1>5 DEF Next

\* Types and bounds hold of every reachable state.
LEMMA TypeInv == Spec => [](TypeOK /\ Bounded)
  <1>1. Init => TypeOK /\ Bounded
    <2> SUFFICES ASSUME Init PROVE TypeOK /\ Bounded
      OBVIOUS
    <2>1. BridgeTypeOK
      BY BridgeAssumption, EmptySeq DEF Init, BridgeInit, BridgeTypeOK, NoHash, Hash
    <2>2. ProducerTypeOK
      BY DEF Init, ProducerInit, ProducerTypeOK
    <2>3. ReplayerTypeOK
      BY EmptySeq DEF Init, ReplayerInit, ReplayerTypeOK
    <2>4. Bounded
      BY EmptySeq DEF Init, ReplayerInit, BridgeInit, Bounded
    <2> QED BY <2>1, <2>2, <2>3, <2>4 DEF TypeOK
  <1> QED BY <1>1, TypeStep, PTL DEF Spec

\* Every variable of the bridge, of the hosts and of the deliveries has its type.
THEOREM TypeCorrect == Spec => []TypeOK
  BY TypeInv, PTL

--------------------------------------------------------------------------------
(* The bridge and its abstract log                                          *)

\* The inductive invariant behind HashMatchesStream: the stream begins with its
\* one start, its seq increases, and hosts send a start only to create a task.
SoundCalls == \A p \in Producers : /\ call[p] = "initialize" => draft[p].op = "start"
                                   /\ call[p] = "publish" => draft[p].op # "start"

LogInv ==
    /\ HashMatchesStream
    /\ \A i \in 1..Len(events) : events[i].op = "start" <=> i = 1
    /\ \A i, j \in 1..Len(events) : i < j => events[i].seq < events[j].seq
    /\ SoundCalls

\* What Store does to the stream, index by index.
LEMMA Stored ==
    ASSUME BridgeTypeOK, NEW e \in Event, NEW s, Store(e, s)
    PROVE  /\ Len(events) \in Nat
           /\ Len(events') = Len(events) + 1
           /\ events'[Len(events) + 1] = e
           /\ \A i \in 1..Len(events) : events'[i] = events[i]
  BY AppendProperties, LenProperties DEF BridgeTypeOK, Store

\* The only effects a call can have: none, the creation of an absent task, an
\* event that continues a running one, or its verdict.
LEMMA RunEffect ==
    ASSUME TypeOK, LogInv, NEW p \in Producers, Run(p)
    PROVE  \/ UNCHANGED <<hash, events>>
           \/ /\ call[p] = "initialize" /\ hash.status = "absent" /\ events = <<>>
              /\ draft[p] \in Event /\ draft[p].op = "start"
              /\ Store(draft[p], "running")
           \/ /\ call[p] = "publish" /\ hash.status = "running" /\ draft[p].seq > hash.last_seq
              /\ draft[p] \in Event /\ draft[p].op # "start"
              /\ Store(draft[p], "running")
           \/ /\ call[p] \in Verdicts /\ hash.status = "running" /\ UNCHANGED events
              /\ hash' = [hash EXCEPT !.status = call[p]]
  <1>1. CASE call[p] = "initialize" /\ RunInitialize(draft[p])
    BY <1>1 DEF RunInitialize, InitializeAnswer, LogInv, SoundCalls, HashMatchesStream, TypeOK, ProducerTypeOK
  <1>2. CASE call[p] = "publish" /\ RunPublish(draft[p])
    BY <1>2 DEF RunPublish, Publishes, LogInv, SoundCalls, TypeOK, ProducerTypeOK
  <1>3. CASE call[p] \in Verdicts /\ RunMark(call[p])
    <2>1. CASE hash.status = "running"
      BY <1>3, <2>1 DEF RunMark, MarkAnswer
    <2>2. CASE hash.status # "running"
      <3>1. hash.status # call[p] => MarkAnswer(call[p]) # "ok"
        BY <2>2 DEF MarkAnswer
      <3>2. hash.status = call[p] => [hash EXCEPT !.status = call[p]] = hash
        BY DEF TypeOK, BridgeTypeOK, Hash
      <3> QED BY <1>3, <3>1, <3>2 DEF RunMark
    <2> QED BY <2>1, <2>2
  <1> QED BY <1>1, <1>2, <1>3 DEF Run

\* An appended event keeps the order and the hash's memory of the last event.
LEMMA StoreLog ==
    ASSUME BridgeTypeOK, LogInv, NEW e \in Event, Store(e, "running"), base' = base,
           \/ hash.status = "absent" /\ e.op = "start"
           \/ hash.status = "running" /\ e.op # "start" /\ e.seq > hash.last_seq
    PROVE  /\ HashMatchesStream'
           /\ (\A i \in 1..Len(events) : events[i].op = "start" <=> i = 1)'
           /\ (\A i, j \in 1..Len(events) : i < j => events[i].seq < events[j].seq)'
  <1> DEFINE n == Len(events)
  <1>1. /\ n \in Nat /\ Len(events') = n + 1 /\ events'[n + 1] = e
        /\ \A i \in 1..n : events'[i] = events[i]
    BY Stored
  <1>2. hash.status = "absent" => n = 0
    BY EmptySeq DEF LogInv, SoundCalls, HashMatchesStream
  <1>3. hash.status = "running" => n > 0 /\ hash.last_seq = events[n].seq
    BY <1>1, EmptySeq DEF LogInv, SoundCalls, HashMatchesStream, BridgeTypeOK
  <1>4. events' # <<>>
    BY <1>1, EmptySeq
  <1>5. HashMatchesStream'
    <2>1. /\ hash'.status = "running" /\ hash'.last_seq = e.seq /\ hash'.last_event = e
          /\ hash'.last_cursor = base + n + 1
      BY DEF Store
    <2>2. base + Len(events') = base + n + 1
      BY <1>1 DEF BridgeTypeOK
    <2>3. events'[Len(events')] = e
      BY <1>1
    <2> QED BY <1>4, <2>1, <2>2, <2>3 DEF HashMatchesStream
  <1>6. ASSUME NEW i \in 1..Len(events')
        PROVE  events'[i].op = "start" <=> i = 1
    <2>1. CASE i = n + 1
      BY <1>1, <1>2, <1>3, <2>1
    <2>2. CASE i # n + 1
      <3>1. i \in 1..n
        BY <1>1, <1>6, <2>2
      <3> QED BY <1>1, <3>1 DEF LogInv
    <2> QED BY <2>1, <2>2
  <1>7. ASSUME NEW i \in 1..Len(events'), NEW j \in 1..Len(events'), i < j
        PROVE  events'[i].seq < events'[j].seq
    <2>1. i \in 1..n
      BY <1>1, <1>7
    <2>2. CASE j = n + 1
      <3>1. hash.status = "running" /\ n > 0
        BY <1>1, <1>2, <1>3, <2>1
      <3>2. events[i].seq <= events[n].seq
        <4>1. events[i] \in Event /\ events[n] \in Event
          BY <1>1, <2>1, <3>1, ElementOfSeq DEF BridgeTypeOK
        <4> QED BY <1>1, <2>1, <3>1, <4>1 DEF LogInv, Event
      <3>3. events[i].seq \in Nat /\ events[n].seq \in Nat /\ e.seq \in Nat
        <4>1. events[i] \in Event /\ events[n] \in Event
          BY <1>1, <2>1, <3>1, ElementOfSeq DEF BridgeTypeOK
        <4> QED BY <4>1 DEF Event
      <3> QED BY <1>1, <1>3, <2>1, <2>2, <3>1, <3>2, <3>3
    <2>3. CASE j # n + 1
      <3>1. j \in 1..n
        BY <1>1, <1>7, <2>3
      <3> QED BY <1>1, <1>7, <2>1, <3>1 DEF LogInv
    <2> QED BY <2>2, <2>3
  <1> QED BY <1>5, <1>6, <1>7

\* A step that leaves the bridge alone only has to send sound calls.
LEMMA SameLog ==
    ASSUME LogInv, UNCHANGED <<hash, events, base>>,
           SoundCalls'
    PROVE  LogInv'
  <1>1. HashMatchesStream'
    BY DEF LogInv, SoundCalls, HashMatchesStream
  <1> QED BY <1>1 DEF LogInv

\* Every step keeps the hash and the stream in agreement.
LEMMA LogStep == TypeOK /\ LogInv /\ [Next]_vars => LogInv'
  <1> SUFFICES ASSUME TypeOK, LogInv, [Next]_vars
               PROVE  LogInv'
    OBVIOUS
  <1>1. ASSUME UNCHANGED <<hash, events, base, call, draft>> PROVE LogInv'
    BY <1>1 DEF LogInv, SoundCalls, HashMatchesStream
  <1>2. ASSUME NEW p \in Producers, ProducerStep(p) PROVE LogInv'
    <2>1. CASE Run(p)
      <3>1. UNCHANGED <<base, call, draft>>
        BY <2>1 DEF Run
      <3>2. CASE UNCHANGED <<hash, events>>
        BY <1>1, <3>1, <3>2
      <3>3. CASE call[p] = "initialize" /\ hash.status = "absent" /\ draft[p] \in Event
                 /\ draft[p].op = "start" /\ Store(draft[p], "running")
        BY <3>1, <3>3, StoreLog DEF LogInv, SoundCalls, TypeOK
      <3>4. CASE call[p] = "publish" /\ hash.status = "running" /\ draft[p].seq > hash.last_seq
                 /\ draft[p] \in Event /\ draft[p].op # "start" /\ Store(draft[p], "running")
        BY <3>1, <3>4, StoreLog DEF LogInv, SoundCalls, TypeOK
      <3>5. CASE call[p] \in Verdicts /\ hash.status = "running" /\ UNCHANGED events
                 /\ hash' = [hash EXCEPT !.status = call[p]]
        BY <3>1, <3>5 DEF LogInv, SoundCalls, HashMatchesStream, TypeOK, BridgeTypeOK, Hash, Verdicts
      <3> QED BY <2>1, <3>2, <3>3, <3>4, <3>5, RunEffect
    <2>2. CASE TakeOver(p) \/ AnswerLost(p)
      BY <1>1, <2>2 DEF TakeOver, AnswerLost, bridgeVars
    <2>3. CASE Create(p)
      <3>1. UNCHANGED <<hash, events, base>>
        BY <2>3 DEF Create, bridgeVars
      <3>2. SoundCalls'
        BY <2>3 DEF Create, Sends, LogInv, SoundCalls, TypeOK, ProducerTypeOK
      <3> QED BY <3>1, <3>2, SameLog
    <2>4. CASE SendPublish(p)
      <3>1. UNCHANGED <<hash, events, base>>
        BY <2>4 DEF SendPublish, bridgeVars
      <3>2. SoundCalls'
        BY <2>4 DEF SendPublish, Sends, LogInv, SoundCalls, TypeOK, ProducerTypeOK
      <3> QED BY <3>1, <3>2, SameLog
    <2>5. CASE SendMark(p) \/ Return(p)
      <3>1. UNCHANGED <<hash, events, base>>
        BY <2>5 DEF SendMark, Return, bridgeVars
      <3>2. \A q \in Producers : \/ call'[q] \notin {"initialize", "publish"}
                                 \/ call'[q] = call[q] /\ draft'[q] = draft[q]
        BY <2>5 DEF SendMark, Return, Sends, TypeOK, ProducerTypeOK, Verdicts
      <3>3. SoundCalls'
        BY <3>2 DEF LogInv, SoundCalls
      <3> QED BY <3>1, <3>3, SameLog
    <2> QED BY <1>2, <2>1, <2>2, <2>3, <2>4, <2>5 DEF ProducerStep
  <1>3. ASSUME NEW c \in Clients, ClientStep(c), UNCHANGED producerVars PROVE LogInv'
    BY <1>1, <1>3 DEF ClientStep, StreamStep, Open, Rebuild, Read, Skip, Deliver, Check, Reconnect,
                      bridgeVars, producerVars
  <1>4. CASE RemoveTask /\ UNCHANGED <<producerVars, replayerVars>>
    <2>1. events' = <<>> /\ hash'.status = "absent" /\ UNCHANGED <<call, draft>>
      BY <1>4 DEF RemoveTask, NoHash, producerVars
    <2>2. 1..Len(events') = {}
      BY <2>1
    <2> QED BY <2>1, <2>2 DEF LogInv, SoundCalls, HashMatchesStream
  <1>5. CASE UNCHANGED vars
    BY <1>1, <1>5 DEF vars, bridgeVars, producerVars
  <1> QED BY <1>2, <1>3, <1>4, <1>5 DEF Next

\* LogInv holds of every reachable state.
LEMMA LogAlways == Spec => []LogInv
  <1>1. Init => LogInv
    <2> SUFFICES ASSUME Init PROVE LogInv
      OBVIOUS
    <2>1. events = <<>> /\ hash.status = "absent" /\ \A p \in Producers : call[p] = "none"
      BY DEF Init, BridgeInit, ProducerInit, NoHash
    <2>2. 1..Len(events) = {}
      BY <2>1
    <2> QED BY <2>1, <2>2 DEF LogInv, SoundCalls, HashMatchesStream
  <1> QED BY <1>1, LogStep, TypeInv, PTL DEF Spec

\* The three scripts keep the hash's last event, seq and cursor those of the
\* stream, whatever hosts compete, retry and remove.
THEOREM HashAgrees == Spec => []HashMatchesStream
  <1>1. LogInv => HashMatchesStream
    BY DEF LogInv
  <1> QED BY <1>1, LogAlways, PTL

\* The bridge implements the abstract log: every step of hosts, clients and
\* Redis is a step of EventLog or leaves the log alone.
THEOREM BridgeRefinesLog == Spec => ImplementsEventLog
  <1>1. Init => Log!LogInit
    BY DEF Init, BridgeInit, NoHash, Log!LogInit
  <1>2. TypeOK /\ TypeOK' /\ LogInv /\ [Next]_vars => [Log!LogNext]_(Log!logVars)
    <2> SUFFICES ASSUME TypeOK, TypeOK', LogInv, [Next]_vars
                 PROVE  Log!LogNext \/ UNCHANGED <<events, hash.status>>
      BY DEF Log!logVars
    <2>1. ASSUME UNCHANGED <<hash, events>> PROVE UNCHANGED <<events, hash.status>>
      BY <2>1
    <2>2. ASSUME NEW p \in Producers, Run(p)
          PROVE  Log!LogNext \/ UNCHANGED <<events, hash.status>>
      <3>1. CASE UNCHANGED <<hash, events>>
        BY <3>1
      <3>2. CASE hash.status = "absent" /\ events = <<>> /\ draft[p] \in Event
                 /\ draft[p].op = "start" /\ Store(draft[p], "running")
        <4>1. Len(events') = 1 /\ events'[1] = draft[p]
          BY <3>2 DEF Store
        <4>2. hash'.status = "running"
          BY <3>2 DEF Store
        <4>3. Log!Create
          BY <3>2, <4>1, <4>2 DEF Log!Create
        <4> QED BY <4>3 DEF Log!LogNext
      <3>3. CASE hash.status = "running" /\ draft[p].seq > hash.last_seq
                 /\ draft[p] \in Event /\ Store(draft[p], "running")
        <4>1. /\ Len(events) \in Nat /\ Len(events') = Len(events) + 1
              /\ events'[Len(events) + 1] = draft[p]
              /\ \A i \in 1..Len(events) : events'[i] = events[i]
          BY <3>3, Stored DEF TypeOK
        <4>2. hash'.status = "running"
          BY <3>3 DEF Store
        <4>3. Len(events) > 0 /\ hash.last_seq = events[Len(events)].seq
          BY <3>3, <4>1, EmptySeq DEF LogInv, SoundCalls, HashMatchesStream, TypeOK, BridgeTypeOK
        <4>4. events'[Len(events)].seq < events'[Len(events) + 1].seq
          <5>1. events[Len(events)].seq \in Nat /\ draft[p].seq \in Nat
            BY <3>3, <4>3 DEF TypeOK, BridgeTypeOK, Hash, Event
          <5> QED BY <3>3, <4>1, <4>3, <5>1
        <4>5. SubSeq(events', 1, Len(events)) = events
          <5>1. events \in Seq(Event) /\ \A i \in 1..Len(events) : events'[i] \in Event
            BY <4>1, ElementOfSeq DEF TypeOK, BridgeTypeOK
          <5>2. /\ SubSeq(events', 1, Len(events)) \in Seq(Event)
                /\ Len(SubSeq(events', 1, Len(events))) = Len(events)
                /\ \A i \in 1..Len(events) : SubSeq(events', 1, Len(events))[i] = events[i]
            BY <4>1, <5>1, SubSeqProperties
          <5> QED BY <5>1, <5>2, SeqEqual
        <4>6. Log!Extend
          BY <3>3, <4>1, <4>2, <4>4, <4>5 DEF Log!Extend
        <4> QED BY <4>6 DEF Log!LogNext
      <3>4. CASE call[p] \in Verdicts /\ hash.status = "running" /\ UNCHANGED events
                 /\ hash' = [hash EXCEPT !.status = call[p]]
        <4>1. hash'.status = call[p]
          BY <3>4 DEF TypeOK, BridgeTypeOK, Hash
        <4>2. Log!Close
          BY <3>4, <4>1 DEF Log!Close, Verdicts
        <4> QED BY <4>2 DEF Log!LogNext
      <3> QED BY <2>2, <3>1, <3>2, <3>3, <3>4, RunEffect
    <2>3. ASSUME NEW p \in Producers, ProducerStep(p), ~Run(p) PROVE UNCHANGED <<hash, events>>
      BY <2>3 DEF ProducerStep, Create, TakeOver, SendPublish, SendMark, AnswerLost, Return, bridgeVars
    <2>4. ASSUME NEW c \in Clients, ClientStep(c) PROVE UNCHANGED <<hash, events>>
      BY <2>4 DEF ClientStep, StreamStep, Open, Rebuild, Read, Skip, Deliver, Check, Reconnect, bridgeVars
    <2>5. CASE RemoveTask
      <3>1. Log!Remove
        BY <2>5 DEF RemoveTask, NoHash, Log!Remove
      <3> QED BY <3>1 DEF Log!LogNext
    <2>6. CASE UNCHANGED vars
      BY <2>6 DEF vars, bridgeVars
    <2> QED BY <2>1, <2>2, <2>3, <2>4, <2>5, <2>6 DEF Next
  <1> QED BY <1>1, <1>2, TypeInv, LogAlways, PTL DEF Spec, ImplementsEventLog, Log!LogSpec

--------------------------------------------------------------------------------
(* What a call may do to the bridge                                         *)

\* An event of the stream keeps its place when a call stores another one.
LEMMA RunKeeps ==
    ASSUME TypeOK, LogInv, NEW p \in Producers, Run(p)
    PROVE  /\ base' = base /\ Len(events) \in Nat /\ Len(events') \in Nat
           /\ Len(events) <= Len(events')
           /\ \A i \in 1..Len(events) : events'[i] = events[i]
  <1>1. base' = base /\ Len(events) \in Nat
    BY LenProperties DEF Run, TypeOK, BridgeTypeOK
  <1>2. CASE UNCHANGED events
    BY <1>1, <1>2
  <1>3. ASSUME draft[p] \in Event, Store(draft[p], "running")
        PROVE  /\ Len(events') \in Nat /\ Len(events) <= Len(events')
               /\ \A i \in 1..Len(events) : events'[i] = events[i]
    BY <1>1, <1>3, Stored DEF TypeOK
  <1> QED BY <1>1, <1>2, <1>3, RunEffect

\* An answer "ok" to a call that stores comes with the cursor of its event.
LEMMA RunReceipt ==
    ASSUME TypeOK, LogInv, NEW p \in Producers, Run(p),
           call[p] \in {"initialize", "publish"}, answer'[p] = "ok"
    PROVE  /\ receipt'[p] = base + Len(events')
           /\ Len(events') \in Nat \ {0}
           /\ events'[Len(events')] = draft[p]
  <1>1. base \in Nat /\ Len(events) \in Nat /\ draft[p] \in Event
    BY LenProperties DEF TypeOK, BridgeTypeOK, ProducerTypeOK
  <1>2. receipt'[p] = hash'.last_cursor
    BY DEF Run, Answers, TypeOK, ProducerTypeOK
  <1>3. ASSUME NEW s, Store(draft[p], s)
        PROVE  /\ receipt'[p] = base + Len(events')
               /\ Len(events') \in Nat \ {0}
               /\ events'[Len(events')] = draft[p]
    <2>1. Len(events') = Len(events) + 1 /\ events'[Len(events) + 1] = draft[p]
      BY <1>1, <1>3, Stored DEF TypeOK
    <2>2. hash'.last_cursor = base + Len(events) + 1
      BY <1>3 DEF Store
    <2> QED BY <1>1, <1>2, <2>1, <2>2
  <1>4. CASE call[p] = "initialize"
    <2>1. InitializeAnswer = "ok" /\ RunInitialize(draft[p])
      BY <1>4 DEF Run, Answers, TypeOK, ProducerTypeOK, Verdicts
    <2> QED BY <1>3, <2>1 DEF RunInitialize
  <1>5. CASE call[p] = "publish"
    <2>1. PublishAnswer(draft[p]) = "ok" /\ RunPublish(draft[p])
      BY <1>5 DEF Run, Answers, TypeOK, ProducerTypeOK, Verdicts
    <2>2. CASE Publishes(draft[p])
      BY <1>3, <2>1, <2>2 DEF RunPublish
    <2>3. CASE ~Publishes(draft[p])
      <3>1. Repeats(draft[p]) /\ UNCHANGED <<hash, events>>
        BY <2>1, <2>3 DEF PublishAnswer, RunPublish
      <3>2. /\ events # <<>>
            /\ hash.last_cursor = base + Len(events)
            /\ hash.last_event = events[Len(events)]
        BY <3>1 DEF LogInv, HashMatchesStream, Repeats
      <3>3. Len(events) # 0
        BY <3>2, EmptySeq DEF TypeOK, BridgeTypeOK
      <3> QED BY <1>1, <1>2, <3>1, <3>2, <3>3 DEF Repeats
    <2> QED BY <2>2, <2>3
  <1> QED BY <1>4, <1>5

--------------------------------------------------------------------------------
(* Acknowledgements                                                         *)

\* The inductive invariant behind AcknowledgedIsStored: a receipt that is not of
\* a removed stream names the place of the event, and only an active host calls.
\* That no other place holds it follows from the order of the stream.
ReceiptOf(p) ==
    call[p] \in {"initialize", "publish"} /\ answer[p] = "ok" /\ receipt[p] > base =>
        receipt[p] - base \in 1..Len(events) /\ events[receipt[p] - base] = draft[p]

Active(p) == call[p] # "none" => role[p] = "active"

ReceiptInv == \A p \in Producers : Active(p) /\ ReceiptOf(p)

\* A host whose call, draft, answer and receipt stay keeps its receipt as long
\* as the stream keeps its events, or goes as a whole.
LEMMA ReceiptKept ==
    ASSUME TypeOK, TypeOK', NEW p \in Producers, ReceiptOf(p),
           call'[p] = call[p], draft'[p] = draft[p], answer'[p] = answer[p], receipt'[p] = receipt[p],
           \/ /\ base' = base /\ Len(events) <= Len(events')
              /\ \A i \in 1..Len(events) : events'[i] = events[i]
           \/ base + Len(events) <= base'
    PROVE  ReceiptOf(p)'
  <1>1. /\ base \in Nat /\ base' \in Nat /\ Len(events) \in Nat /\ Len(events') \in Nat
        /\ receipt[p] \in Nat
    BY LenProperties DEF TypeOK, BridgeTypeOK, ProducerTypeOK
  <1> QED BY <1>1 DEF ReceiptOf

\* A host that is not answered "ok" to such a call has no receipt to keep.
LEMMA NoReceipt ==
    ASSUME NEW p \in Producers, answer'[p] # "ok" \/ call'[p] \notin {"initialize", "publish"}
    PROVE  ReceiptOf(p)'
  BY DEF ReceiptOf

\* The step of a host, for that host and for the others.
LEMMA ReceiptProducer ==
    ASSUME TypeOK, TypeOK', LogInv, ReceiptInv, NEW p \in Producers, ProducerStep(p)
    PROVE  ReceiptInv'
  <1> USE DEF TypeOK, ProducerTypeOK, ReceiptInv
  <1>1. ASSUME NEW q \in Producers
        PROVE  Active(q)'
    <2>1. Active(p) /\ Active(q)
      OBVIOUS
    <2> QED BY <2>1 DEF ProducerStep, Active, Create, TakeOver, SendPublish, SendMark, Run, AnswerLost, Return,
                        Ready, Sends
  <1>2. ASSUME NEW q \in Producers, q # p
        PROVE  ReceiptOf(q)'
    <2>1. ReceiptOf(q)
      OBVIOUS
    <2>2. /\ call'[q] = call[q] /\ draft'[q] = draft[q]
          /\ answer'[q] = answer[q] /\ receipt'[q] = receipt[q]
      BY <1>2 DEF ProducerStep, Create, TakeOver, SendPublish, SendMark, Run, Answers, AnswerLost, Return, Sends
    <2>3. CASE Run(p)
      BY <2>1, <2>2, <2>3, RunKeeps, ReceiptKept
    <2>4. CASE ~Run(p)
      <3>1. UNCHANGED <<events, base>>
        BY <2>4 DEF ProducerStep, Create, TakeOver, SendPublish, SendMark, AnswerLost, Return, bridgeVars
      <3>2. Len(events) \in Nat
        BY LenProperties DEF BridgeTypeOK
      <3> QED BY <2>1, <2>2, <3>1, <3>2, ReceiptKept
    <2> QED BY <2>3, <2>4
  <1>3. ReceiptOf(p)'
    <2>1. CASE Run(p)
      <3>1. call'[p] = call[p] /\ draft'[p] = draft[p] /\ base' = base
        BY <2>1 DEF Run
      <3>2. CASE call[p] \in {"initialize", "publish"} /\ answer'[p] = "ok"
        <4>1. /\ receipt'[p] = base + Len(events') /\ Len(events') \in Nat \ {0}
              /\ events'[Len(events')] = draft[p]
          BY <2>1, <3>2, RunReceipt
        <4>2. receipt'[p] - base' = Len(events')
          BY <3>1, <4>1 DEF BridgeTypeOK
        <4> QED BY <3>1, <4>1, <4>2 DEF ReceiptOf
      <3>3. CASE ~(call[p] \in {"initialize", "publish"} /\ answer'[p] = "ok")
        BY <3>1, <3>3, NoReceipt
      <3> QED BY <3>2, <3>3
    <2>2. CASE Create(p) \/ SendPublish(p) \/ SendMark(p)
      <3>1. call[p] = "none"
        BY <2>2 DEF Create, SendPublish, SendMark, Ready, Active
      <3>2. answer'[p] = "none"
        BY <2>2, <3>1 DEF Create, SendPublish, SendMark
      <3> QED BY <3>2, NoReceipt
    <2>3. CASE TakeOver(p)
      <3>1. UNCHANGED <<events, base, call, draft, answer, receipt>>
        BY <2>3 DEF TakeOver, bridgeVars
      <3> QED BY <3>1 DEF ReceiptOf
    <2>4. CASE AnswerLost(p) \/ Return(p)
      <3>1. answer'[p] = "none"
        BY <2>4 DEF AnswerLost, Return
      <3> QED BY <3>1, NoReceipt
    <2> QED BY <2>1, <2>2, <2>3, <2>4 DEF ProducerStep
  <1> QED BY <1>1, <1>2, <1>3

\* Every step keeps the receipts.
LEMMA ReceiptStep ==
    TypeOK /\ TypeOK' /\ LogInv /\ ReceiptInv /\ [Next]_vars => ReceiptInv'
  <1> SUFFICES ASSUME TypeOK, TypeOK', LogInv, ReceiptInv, [Next]_vars
               PROVE  ReceiptInv'
    OBVIOUS
  <1>1. base \in Nat /\ Len(events) \in Nat
    BY LenProperties DEF TypeOK, BridgeTypeOK
  <1>2. ASSUME UNCHANGED producerVars,
               \/ UNCHANGED <<events, base>>
               \/ base + Len(events) <= base'
        PROVE  ReceiptInv'
    <2> SUFFICES ASSUME NEW p \in Producers
                 PROVE  Active(p)' /\ ReceiptOf(p)'
      BY DEF ReceiptInv
    <2>1. Active(p) /\ ReceiptOf(p)
      BY DEF ReceiptInv
    <2>2. Active(p)'
      BY <1>2, <2>1 DEF Active, producerVars
    <2>3. ReceiptOf(p)'
      BY <1>1, <1>2, <2>1, ReceiptKept DEF producerVars
    <2> QED BY <2>2, <2>3
  <1>3. ASSUME NEW p \in Producers, ProducerStep(p) PROVE ReceiptInv'
    BY <1>3, ReceiptProducer
  <1>4. ASSUME NEW c \in Clients, ClientStep(c), UNCHANGED producerVars PROVE ReceiptInv'
    BY <1>2, <1>4 DEF ClientStep, StreamStep, Open, Rebuild, Read, Skip, Deliver, Check, Reconnect, bridgeVars
  <1>5. CASE RemoveTask /\ UNCHANGED <<producerVars, replayerVars>>
    BY <1>1, <1>2, <1>5 DEF RemoveTask
  <1>6. CASE UNCHANGED vars
    BY <1>2, <1>6 DEF vars, bridgeVars
  <1> QED BY <1>3, <1>4, <1>5, <1>6 DEF Next

\* Receipts are sound in every reachable state.
LEMMA ReceiptAlways == Spec => []ReceiptInv
  <1>1. Init => ReceiptInv
    BY DEF Init, ProducerInit, ReceiptInv, Active, ReceiptOf
  <1> QED BY <1>1, ReceiptStep, TypeInv, LogAlways, PTL DEF Spec

\* A host that got "ok" for an event, to the call or to a retry, finds it in the
\* stream under the cursor it was given and nowhere else, as long as the task is
\* not removed.
THEOREM ReceiptsHold == Spec => []AcknowledgedIsStored
  <1>1. TypeOK /\ LogInv /\ ReceiptInv => AcknowledgedIsStored
    <2> SUFFICES ASSUME TypeOK, LogInv, ReceiptInv, NEW p \in Producers,
                        call[p] \in {"initialize", "publish"}, answer[p] = "ok", receipt[p] > base
                 PROVE  /\ receipt[p] - base \in DOMAIN events
                        /\ \A i \in DOMAIN events : events[i] = draft[p] <=> base + i = receipt[p]
      BY DEF AcknowledgedIsStored
    <2> DEFINE k == receipt[p] - base
    <2>1. k \in 1..Len(events) /\ events[k] = draft[p]
      BY DEF ReceiptInv, ReceiptOf
    <2>2. DOMAIN events = 1..Len(events) /\ base \in Nat /\ receipt[p] \in Nat /\ Len(events) \in Nat
      BY LenProperties DEF TypeOK, BridgeTypeOK, ProducerTypeOK
    <2>3. ASSUME NEW i \in 1..Len(events), events[i] = events[k]
          PROVE  i = k
      <3>1. events[k].seq \in Nat
        <4>1. events[k] \in Event
          BY <2>1, ElementOfSeq DEF TypeOK, BridgeTypeOK
        <4> QED BY <4>1 DEF Event
      <3>2. i < k => events[i].seq < events[k].seq
        BY <2>1 DEF LogInv
      <3>3. k < i => events[k].seq < events[i].seq
        BY <2>1 DEF LogInv
      <3> QED BY <2>1, <2>2, <2>3, <3>1, <3>2, <3>3
    <2> QED BY <2>1, <2>2, <2>3
  <1> QED BY <1>1, ReceiptAlways, TypeInv, LogAlways, PTL

--------------------------------------------------------------------------------
(* Refusals                                                                 *)

\* The inductive invariant behind SoleProducerIsAccepted: what a host that has
\* the task to itself knows of it.  Before it starts there is no task; until it
\* sends its verdict the task is not closed; and a running task is never ahead
\* of what the host published, or is publishing.
Sole(p) == \A q \in Producers \ {p} : role[q] = "idle"
Behind(seq) == hash.status = "running" => hash.last_seq <= seq
Knows(p) ==
    /\ role[p] = "idle" => hash.status = "absent"
    /\ role[p] = "active" /\ call[p] \notin Verdicts => hash.status \notin Verdicts
    /\ role[p] = "active" /\ call[p] = "none" => Behind(offset[p])
    /\ call[p] = "initialize" /\ answer[p] = "ok" => Behind(draft[p].seq)
    /\ call[p] = "publish" /\ hash.status = "running" => hash.last_seq < draft[p].seq \/ Repeats(draft[p])
    /\ call[p] = "publish" => answer[p] # "conflict"

SoleInv == \A p \in Producers : Sole(p) => Knows(p)

\* No host becomes idle again, so a host that is alone was alone before.
LEMMA SoleBefore ==
    ASSUME TypeOK, NEW q \in Producers, ProducerStep(q), NEW p \in Producers, Sole(p)'
    PROVE  /\ Sole(p)
           /\ q # p => role[q] = "idle" /\ role'[q] = "idle"
  BY DEF TypeOK, ProducerTypeOK, ProducerStep, Create, TakeOver, SendPublish, SendMark, Run, AnswerLost, Return,
         Ready, Sole

\* A host that is idle, and stays so, makes no call: it takes no step at all.
LEMMA IdleRests ==
    ASSUME TypeOK, ReceiptInv, NEW q \in Producers, ProducerStep(q), role[q] = "idle", role'[q] = "idle"
    PROVE  FALSE
  <1>1. call[q] = "none" /\ answer[q] = "none"
    BY DEF ReceiptInv, Active, TypeOK, ProducerTypeOK
  <1> QED BY <1>1 DEF TypeOK, ProducerTypeOK, ProducerStep, Create, TakeOver, SendPublish, SendMark, Run,
                      AnswerLost, Return, Ready, Verdicts

\* A lone host's own step.
LEMMA KnowsStep ==
    ASSUME TypeOK, LogInv, ReceiptInv, NEW p \in Producers, ProducerStep(p), Knows(p)
    PROVE  Knows(p)'
  <1> USE DEF Knows, Behind, Repeats
  <1>1. /\ p \in DOMAIN role /\ p \in DOMAIN call /\ p \in DOMAIN draft /\ p \in DOMAIN answer
        /\ p \in DOMAIN offset /\ offset[p] \in Nat /\ hash.last_seq \in Nat
        /\ call[p] \in {"initialize", "publish"} => draft[p] \in Event /\ draft[p].seq \in Nat
        /\ call[p] # "none" => role[p] = "active"
        /\ answer[p] # "none" => call[p] # "none"
    BY DEF TypeOK, BridgeTypeOK, ProducerTypeOK, Hash, Event, ReceiptInv, Active
  <1>2. CASE Create(p)
    BY <1>1, <1>2 DEF Create, Sends, bridgeVars, Verdicts
  <1>3. CASE TakeOver(p)
    BY <1>1, <1>3 DEF TakeOver, bridgeVars
  <1>4. CASE SendPublish(p)
    <2>1. PICK op \in {"patch", "end"} : Sends(p, "publish", [op |-> op, seq |-> offset[p] + 1, by |-> p])
      BY <1>4 DEF SendPublish
    <2>2. /\ call'[p] = "publish" /\ draft'[p].seq = offset[p] + 1
          /\ UNCHANGED <<hash, role, answer>> /\ role[p] = "active" /\ call[p] = "none"
      BY <1>1, <1>4, <2>1 DEF SendPublish, Sends, Ready, bridgeVars
    <2> QED BY <1>1, <2>2 DEF Verdicts
  <1>5. CASE SendMark(p)
    BY <1>1, <1>5 DEF SendMark, Sends, Ready, bridgeVars, Verdicts
  <1>6. CASE Run(p)
    <2>1. UNCHANGED <<base, role, offset, call, draft>> /\ role[p] = "active"
      BY <1>1, <1>6 DEF Run, Verdicts
    <2>2. CASE call[p] = "initialize"
      <3>1. /\ RunInitialize(draft[p]) /\ answer'[p] = InitializeAnswer
        BY <1>1, <1>6, <2>2 DEF Run, Answers, Verdicts
      <3>2. CASE hash.status = "absent"
        BY <1>1, <2>1, <2>2, <3>1, <3>2 DEF RunInitialize, InitializeAnswer, Store, Verdicts
      <3>3. CASE hash.status # "absent"
        BY <1>1, <2>1, <2>2, <3>1, <3>3 DEF RunInitialize, InitializeAnswer, Verdicts
      <3> QED BY <3>2, <3>3
    <2>3. CASE call[p] = "publish"
      <3>1. RunPublish(draft[p]) /\ answer'[p] = PublishAnswer(draft[p])
        BY <1>1, <1>6, <2>3 DEF Run, Answers, Verdicts
      <3>2. hash.status \notin Verdicts
        BY <2>1, <2>3 DEF Verdicts
      <3>3. CASE Publishes(draft[p])
        BY <1>1, <2>1, <2>3, <3>1, <3>2, <3>3 DEF RunPublish, Publishes, PublishAnswer, Store, Verdicts
      <3>4. CASE ~Publishes(draft[p])
        <4>1. UNCHANGED <<hash, events>>
          BY <3>1, <3>4 DEF RunPublish
        <4>2. hash.status = "running" => Repeats(draft[p])
          BY <1>1, <2>3, <3>4 DEF Publishes
        <4>3. hash.status \in {"absent", "running"}
          BY <3>2 DEF TypeOK, BridgeTypeOK, Hash
        <4>4. answer'[p] # "conflict"
          BY <3>1, <4>2, <4>3 DEF PublishAnswer
        <4> QED BY <1>1, <2>1, <2>3, <4>1, <4>4 DEF Verdicts
      <3> QED BY <3>3, <3>4
    <2>4. CASE call[p] \in Verdicts
      BY <1>1, <2>1, <2>4 DEF Verdicts
    <2> QED BY <1>6, <2>2, <2>3, <2>4 DEF Run
  <1>7. CASE AnswerLost(p)
    BY <1>1, <1>7 DEF AnswerLost
  <1>8. CASE Return(p)
    <2>1. UNCHANGED hash /\ call'[p] = "none"
      BY <1>1, <1>8 DEF Return, bridgeVars
    <2>2. CASE answer[p] = "ok" /\ call[p] \notin Verdicts
      <3>1. /\ call[p] \in {"initialize", "publish"} /\ role'[p] = "active" /\ role[p] = "active"
            /\ offset'[p] = draft[p].seq
        BY <1>1, <1>8, <2>2 DEF Return, TypeOK, ProducerTypeOK
      <3>2. Behind(draft[p].seq)
        BY <1>1, <2>2, <3>1
      <3> QED BY <2>1, <2>2, <3>1, <3>2 DEF Verdicts
    <2>3. CASE ~(answer[p] = "ok" /\ call[p] \notin Verdicts)
      <3>1. role'[p] = "stopped"
        BY <1>1, <1>8, <2>3 DEF Return
      <3> QED BY <2>1, <3>1
    <2> QED BY <2>2, <2>3
  <1> QED BY <1>2, <1>3, <1>4, <1>5, <1>6, <1>7, <1>8 DEF ProducerStep

\* Every step keeps what a lone host knows.
LEMMA SoleStep == TypeOK /\ LogInv /\ ReceiptInv /\ SoleInv /\ [Next]_vars => SoleInv'
  <1> SUFFICES ASSUME TypeOK, LogInv, ReceiptInv, SoleInv, [Next]_vars, NEW p \in Producers, Sole(p)'
               PROVE  Knows(p)'
    BY DEF SoleInv
  <1>1. ASSUME NEW q \in Producers, ProducerStep(q) PROVE Knows(p)'
    <2>1. Sole(p) /\ (q # p => role[q] = "idle" /\ role'[q] = "idle")
      BY <1>1, SoleBefore
    <2>2. q = p
      BY <1>1, <2>1, IdleRests
    <2> QED BY <1>1, <2>1, <2>2, KnowsStep DEF SoleInv
  <1>2. ASSUME UNCHANGED <<hash, producerVars>> PROVE Knows(p)'
    BY <1>2 DEF SoleInv, Sole, Knows, Behind, Repeats, producerVars
  <1>3. ASSUME NEW c \in Clients, ClientStep(c), UNCHANGED producerVars PROVE Knows(p)'
    BY <1>2, <1>3 DEF ClientStep, StreamStep, Open, Rebuild, Read, Skip, Deliver, Check, Reconnect, bridgeVars
  <1>4. CASE RemoveTask /\ UNCHANGED <<producerVars, replayerVars>>
    <2>1. hash'.status = "absent" /\ UNCHANGED producerVars
      BY <1>4 DEF RemoveTask, NoHash
    <2>2. Sole(p)
      BY <2>1 DEF Sole, producerVars
    <2> QED BY <2>1, <2>2 DEF SoleInv, Knows, Behind, producerVars, Verdicts
  <1>5. CASE UNCHANGED vars
    BY <1>2, <1>5 DEF vars, bridgeVars
  <1> QED BY <1>1, <1>3, <1>4, <1>5 DEF Next

\* A host that no other host competes with is never refused an event: not after
\* a lost answer, whose retry the script recognises, and not after the task was
\* removed.
THEOREM LoneHostAccepted == Spec => []SoleProducerIsAccepted
  <1>1. Init => SoleInv
    BY DEF Init, BridgeInit, ProducerInit, NoHash, SoleInv, Sole, Knows, Behind
  <1>2. SoleInv => SoleProducerIsAccepted
    BY DEF SoleInv, Sole, Knows, SoleProducerIsAccepted
  <1> QED BY <1>1, <1>2, SoleStep, TypeInv, LogAlways, ReceiptAlways, PTL DEF Spec

--------------------------------------------------------------------------------
(* What a client has                                                        *)

\* A prefix of a sequence, index by index.
LEMMA Prefix ==
    ASSUME NEW S, NEW s \in Seq(S), NEW k \in 0..Len(s)
    PROVE  /\ SubSeq(s, 1, k) \in Seq(S)
           /\ Len(SubSeq(s, 1, k)) = k
           /\ \A i \in 1..k : SubSeq(s, 1, k)[i] = s[i]
  <1>1. Len(s) \in Nat /\ \A i \in 1..k : s[i] \in S
    BY ElementOfSeq, LenProperties
  <1>2. /\ SubSeq(s, 1, k) \in Seq(S)
        /\ Len(SubSeq(s, 1, k)) = IF 1 <= k THEN k - 1 + 1 ELSE 0
        /\ \A i \in 1..(k - 1 + 1) : SubSeq(s, 1, k)[i] = s[1 + i - 1]
    BY <1>1, SubSeqProperties
  <1> QED BY <1>1, <1>2

\* Prefixes of sequences that agree that far are the same.
LEMMA PrefixSame ==
    ASSUME NEW S, NEW s \in Seq(S), NEW t \in Seq(S), NEW k \in 0..Len(s), k <= Len(t),
           \A i \in 1..k : s[i] = t[i]
    PROVE  SubSeq(s, 1, k) = SubSeq(t, 1, k)
  <1>1. Len(s) \in Nat /\ Len(t) \in Nat /\ k \in 0..Len(t)
    BY LenProperties
  <1> DEFINE u == SubSeq(s, 1, k)
             v == SubSeq(t, 1, k)
  <1>2. u \in Seq(S) /\ Len(u) = k /\ \A i \in 1..k : u[i] = s[i]
    BY Prefix
  <1>3. v \in Seq(S) /\ Len(v) = k /\ \A i \in 1..k : v[i] = t[i]
    BY <1>1, Prefix
  <1> HIDE DEF u, v
  <1>4. u = v
    BY <1>2, <1>3, SeqEqual
  <1> QED BY <1>4 DEF u, v

\* A prefix grows by the element behind it.
LEMMA PrefixNext ==
    ASSUME NEW S, NEW s \in Seq(S), NEW k \in 0..Len(s), k < Len(s)
    PROVE  /\ Append(SubSeq(s, 1, k), s[k + 1]) = SubSeq(s, 1, k + 1)
           /\ Len(SubSeq(s, 1, k + 1)) = k + 1
           /\ SubSeq(s, 1, k + 1)[k + 1] = s[k + 1]
           /\ SubSeq(s, 1, k + 1) # <<>>
  <1>1. Len(s) \in Nat /\ k + 1 \in 0..Len(s) /\ k + 1 \in 1..Len(s) /\ s[k + 1] \in S
    BY ElementOfSeq, LenProperties
  <1> DEFINE u == SubSeq(s, 1, k)
             v == SubSeq(s, 1, k + 1)
             w == Append(u, s[k + 1])
  <1>2. u \in Seq(S) /\ Len(u) = k /\ \A i \in 1..k : u[i] = s[i]
    BY Prefix
  <1>3. v \in Seq(S) /\ Len(v) = k + 1 /\ \A i \in 1..(k + 1) : v[i] = s[i]
    BY <1>1, Prefix
  <1> HIDE DEF u, v
  <1>4. /\ w \in Seq(S) /\ Len(w) = k + 1 /\ w[k + 1] = s[k + 1]
        /\ \A i \in 1..k : w[i] = s[i]
    BY <1>1, <1>2, AppendProperties
  <1> HIDE DEF w
  <1>5. \A i \in 1..(k + 1) : w[i] = v[i]
    BY <1>1, <1>3, <1>4
  <1>6. w = v
    BY <1>3, <1>4, <1>5, SeqEqual
  <1>7. v # <<>>
    BY <1>1, <1>3, EmptySeq
  <1> QED BY <1>1, <1>3, <1>6, <1>7 DEF u, v, w

\* The inductive invariant behind ViewIsPrefix and EndedIsWhole relates the
\* client's model and Last-Event-ID, the delivery's cursor and what it has read
\* to the stream.  A batch is what follows the cursor, or it was read before a
\* removal and none of it counts.  While no removal interferes, or the client
\* was not resumed, the delivery is where the client is.
Fresh(c) == \A i \in 1..Len(batch[c]) : /\ batch[c][i].cursor = base + Upto(cursor[c]) + i
                                        /\ batch[c][i].event = events[Upto(cursor[c]) + i]
Stale(c) == timeline[c] < base /\ \A i \in 1..Len(batch[c]) : batch[c][i].cursor <= base

Established(c) == phase[c] \in {"reading", "delivering", "ended"}
Follows(c) ==
    /\ lastId[c] = 0 => view[c] = <<>>
    /\ phase[c] = "resuming" => cursor[c] = lastId[c] /\ resumed[c]
    /\ phase[c] = "delivering" => /\ Fresh(c) \/ Stale(c)
                                  /\ \A i \in 1..Len(batch[c]) : batch[c][i].cursor # 0
    /\ Established(c) /\ (timeline[c] = base \/ ~resumed[c]) => cursor[c] = lastId[c]
    /\ Established(c) /\ timeline[c] = base /\ resumed[c] => cursor[c] > base

HasPrefix(c) ==
    Established(c) /\ (timeline[c] = base \/ (~resumed[c] /\ lastId[c] > base)) =>
        /\ view[c] = SubSeq(events, 1, Upto(lastId[c]))
        /\ view[c] # <<>> => lastSeq[c] = view[c][Len(view[c])].seq
HasWhole(c) ==
    phase[c] = "ended" /\ timeline[c] = base =>
        /\ view[c] # <<>>
        /\ \/ view[c][Len(view[c])].op = "end"
           \/ hash.status \in Verdicts /\ view[c] = events

Tracks(c) == Follows(c) /\ HasPrefix(c) /\ HasWhole(c)
DeliveryInv == \A c \in Clients : Tracks(c)

\* A step that is not this client's.
Rests(c) == /\ phase'[c] = phase[c] /\ resumed'[c] = resumed[c] /\ cursor'[c] = cursor[c]
            /\ batch'[c] = batch[c] /\ lastSeq'[c] = lastSeq[c] /\ view'[c] = view[c]
            /\ lastId'[c] = lastId[c] /\ timeline'[c] = timeline[c]

\* Where a client and its delivery may be.
LEMMA Places ==
    ASSUME TypeOK, Bounded, NEW c \in Clients
    PROVE  /\ base \in Nat /\ Len(events) \in Nat /\ events \in Seq(Event)
           /\ cursor[c] \in Nat /\ lastId[c] \in Nat /\ timeline[c] \in Nat /\ timeline[c] <= base
           /\ Upto(cursor[c]) \in 0..Len(events) /\ Upto(lastId[c]) \in 0..Len(events)
           /\ batch[c] \in Seq(Item) /\ Len(batch[c]) \in Nat
           /\ \A i \in 1..Len(batch[c]) : /\ batch[c][i].cursor \in Nat
                                          /\ batch[c][i].cursor <= base + Len(events)
  <1>1. /\ base \in Nat /\ Len(events) \in Nat /\ events \in Seq(Event)
        /\ cursor[c] \in Nat /\ lastId[c] \in Nat /\ timeline[c] \in Nat
        /\ batch[c] \in Seq(Item) /\ Len(batch[c]) \in Nat
    BY LenProperties DEF TypeOK, BridgeTypeOK, ReplayerTypeOK
  <1>2. /\ cursor[c] <= base + Len(events) /\ lastId[c] <= base + Len(events) /\ timeline[c] <= base
        /\ \A i \in 1..Len(batch[c]) : batch[c][i].cursor <= base + Len(events)
    BY DEF Bounded
  <1>3. \A i \in 1..Len(batch[c]) : batch[c][i] \in Item
    BY <1>1, ElementOfSeq
  <1> QED BY <1>1, <1>2, <1>3 DEF Upto, Item

\* A stream that keeps its events, and grows only while its task is open, takes
\* nothing from a client.
LEMMA TracksKept ==
    ASSUME TypeOK, TypeOK', Bounded, NEW c \in Clients, Tracks(c), Rests(c),
           base' = base, Len(events) <= Len(events'),
           \A i \in 1..Len(events) : events'[i] = events[i],
           hash.status \in Verdicts => hash'.status \in Verdicts /\ events' = events
    PROVE  Tracks(c)'
  <1>1. /\ base \in Nat /\ Len(events) \in Nat /\ events \in Seq(Event)
        /\ cursor[c] \in Nat /\ lastId[c] \in Nat
        /\ Upto(cursor[c]) \in 0..Len(events) /\ Upto(lastId[c]) \in 0..Len(events)
        /\ \A i \in 1..Len(batch[c]) : batch[c][i].cursor <= base + Len(events)
    BY Places
  <1>2. events' \in Seq(Event) /\ Len(events') \in Nat
    BY LenProperties DEF TypeOK, BridgeTypeOK
  <1>3. Upto(cursor[c])' = Upto(cursor[c]) /\ Upto(lastId[c])' = Upto(lastId[c])
    BY DEF Upto, Rests
  <1>4. Established(c)' = Established(c)
    BY DEF Established, Rests
  <1>5. Fresh(c) => Fresh(c)'
    <2> SUFFICES ASSUME Fresh(c), NEW i \in 1..Len(batch[c])
                 PROVE  events'[Upto(cursor[c]) + i] = events[Upto(cursor[c]) + i]
      BY <1>3 DEF Fresh, Rests
    <2>1. batch[c][i].cursor = base + Upto(cursor[c]) + i
      BY DEF Fresh
    <2>2. Upto(cursor[c]) + i <= Len(events)
      BY <1>1, <2>1
    <2>3. Upto(cursor[c]) + i \in 1..Len(events)
      BY <1>1, <2>2
    <2> QED BY <2>3
  <1>6. Stale(c) => Stale(c)'
    BY DEF Stale, Rests
  <1>7. Follows(c)'
    BY <1>4, <1>5, <1>6 DEF Tracks, Follows, Rests
  <1>8. SubSeq(events', 1, Upto(lastId[c])) = SubSeq(events, 1, Upto(lastId[c]))
    BY <1>1, <1>2, PrefixSame
  <1>9. HasPrefix(c)'
    BY <1>3, <1>4, <1>8 DEF Tracks, HasPrefix, Rests
  <1>10. HasWhole(c)'
    BY DEF Tracks, HasWhole, Rests
  <1> QED BY <1>7, <1>9, <1>10 DEF Tracks

\* A removal leaves every client behind the new stream's first cursor.
LEMMA TracksRemoved ==
    ASSUME TypeOK, TypeOK', Bounded, LogInv, NEW c \in Clients, Tracks(c), Rests(c), RemoveTask
    PROVE  Tracks(c)'
  <1>1. /\ base \in Nat /\ Len(events) \in Nat /\ events \in Seq(Event)
        /\ cursor[c] \in Nat /\ lastId[c] \in Nat /\ timeline[c] \in Nat /\ timeline[c] <= base
        /\ cursor[c] <= base + Len(events) /\ lastId[c] <= base + Len(events)
        /\ \A i \in 1..Len(batch[c]) : batch[c][i].cursor <= base + Len(events)
    BY Places DEF Bounded
  <1>2. base' = base + Len(events) /\ Len(events) # 0
    BY <1>1, EmptySeq DEF RemoveTask, LogInv, HashMatchesStream
  <1>3. timeline[c] < base' /\ lastId[c] <= base'
    BY <1>1, <1>2
  <1>4. Stale(c)'
    BY <1>1, <1>2, <1>3 DEF Stale, Rests
  <1>5. timeline'[c] # base' /\ ~(lastId'[c] > base')
    BY <1>1, <1>2, <1>3 DEF Rests
  <1>6. Follows(c)'
    BY <1>4, <1>5 DEF Tracks, Follows, Established, Rests
  <1>7. HasPrefix(c)' /\ HasWhole(c)'
    BY <1>5 DEF HasPrefix, HasWhole
  <1> QED BY <1>6, <1>7 DEF Tracks

\* The first item of a batch that follows the cursor is the next stored event,
\* and the rest of the batch follows that one.
LEMMA HeadNext ==
    ASSUME TypeOK, Bounded, NEW c \in Clients, batch[c] # <<>>
    PROVE  /\ Head(batch[c]) = batch[c][1]
           /\ Len(batch[c]) \in Nat \ {0} /\ Len(Tail(batch[c])) = Len(batch[c]) - 1
           /\ \A i \in 1..Len(Tail(batch[c])) : Tail(batch[c])[i] = batch[c][i + 1]
           /\ Head(batch[c]).cursor \in Nat /\ Head(batch[c]).event \in Event
           /\ Fresh(c) => LET next == Upto(cursor[c]) + 1
                          IN  /\ next \in 1..Len(events) /\ Head(batch[c]).event = events[next]
                              /\ Head(batch[c]).cursor = base + next
                              /\ Upto(Head(batch[c]).cursor) = next
                              /\ \A i \in 1..Len(Tail(batch[c])) :
                                    /\ Tail(batch[c])[i].cursor = base + next + i
                                    /\ Tail(batch[c])[i].event = events[next + i]
  <1>1. batch[c] \in Seq(Item) /\ Len(batch[c]) \in Nat \ {0}
    BY EmptySeq DEF TypeOK, ReplayerTypeOK
  <1>2. Head(batch[c]) = batch[c][1]
    BY <1>1
  <1>3. /\ Len(Tail(batch[c])) = Len(batch[c]) - 1
        /\ \A i \in 1..Len(Tail(batch[c])) : Tail(batch[c])[i] = batch[c][i + 1]
    BY <1>1, HeadTailProperties
  <1>4. Head(batch[c]).cursor \in Nat /\ Head(batch[c]).event \in Event
        /\ Head(batch[c]).cursor <= base + Len(events)
    BY HeadType DEF Item
  <1>5. base \in Nat /\ Len(events) \in Nat /\ Upto(cursor[c]) \in 0..Len(events)
    BY Places
  <1>6. ASSUME Fresh(c)
        PROVE  LET next == Upto(cursor[c]) + 1
               IN  /\ next \in 1..Len(events) /\ Head(batch[c]).event = events[next]
                   /\ Head(batch[c]).cursor = base + next
                   /\ Upto(Head(batch[c]).cursor) = next
                   /\ \A i \in 1..Len(Tail(batch[c])) :
                         /\ Tail(batch[c])[i].cursor = base + next + i
                         /\ Tail(batch[c])[i].event = events[next + i]
    <2> DEFINE next == Upto(cursor[c]) + 1
    <2>1. Head(batch[c]).event = events[next] /\ Head(batch[c]).cursor = base + next
      BY <1>1, <1>2, <1>5, <1>6 DEF Fresh
    <2>2. next \in 1..Len(events)
      BY <1>4, <1>5, <2>1
    <2>3. Upto(Head(batch[c]).cursor) = next
      BY <1>5, <2>1, <2>2 DEF Upto
    <2>4. ASSUME NEW i \in 1..Len(Tail(batch[c]))
          PROVE  /\ Tail(batch[c])[i].cursor = base + next + i
                 /\ Tail(batch[c])[i].event = events[next + i]
      <3>1. i + 1 \in 1..Len(batch[c]) /\ Tail(batch[c])[i] = batch[c][i + 1]
        BY <1>1, <1>3
      <3>2. /\ batch[c][i + 1].cursor = base + Upto(cursor[c]) + (i + 1)
            /\ batch[c][i + 1].event = events[Upto(cursor[c]) + (i + 1)]
        BY <1>6, <3>1 DEF Fresh
      <3>3. Upto(cursor[c]) + (i + 1) = next + i
        BY <1>5
      <3> QED BY <1>5, <3>1, <3>2, <3>3
    <2> QED BY <2>1, <2>2, <2>3, <2>4
  <1> QED BY <1>1, <1>2, <1>3, <1>4, <1>6

\* A batch that followed the cursor follows it when both move on by an item.
LEMMA TailFresh ==
    ASSUME TypeOK, Bounded, NEW c \in Clients, Fresh(c), batch[c] # <<>>, UNCHANGED <<events, base>>,
           cursor'[c] = Head(batch[c]).cursor, batch'[c] = Tail(batch[c])
    PROVE  Fresh(c)'
  <1> DEFINE next == Upto(cursor[c]) + 1
  <1>1. /\ Upto(Head(batch[c]).cursor) = next
        /\ \A i \in 1..Len(Tail(batch[c])) : /\ Tail(batch[c])[i].cursor = base + next + i
                                             /\ Tail(batch[c])[i].event = events[next + i]
    BY HeadNext
  <1>2. Upto(cursor[c])' = next
    BY <1>1 DEF Upto
  <1> HIDE DEF next
  <1> QED BY <1>1, <1>2 DEF Fresh

\* A delivery opens where its client is.
LEMMA TracksOpen ==
    ASSUME TypeOK, TypeOK', Bounded, NEW c \in Clients, Tracks(c), Open(c)
    PROVE  Tracks(c)'
  <1>1. /\ base \in Nat /\ lastId[c] \in Nat /\ events \in Seq(Event) /\ Len(events) \in Nat
        /\ base' = base /\ events' = events /\ hash' = hash
        /\ view'[c] = view[c] /\ lastId'[c] = lastId[c]
    BY Places DEF Open, bridgeVars
  <1>2. /\ cursor'[c] = lastId[c] /\ resumed'[c] = (lastId[c] # 0)
        /\ phase'[c] \in {"failed", "reading", "resuming"}
        /\ phase'[c] = "reading" => lastId[c] = 0
        /\ phase'[c] = "resuming" => lastId[c] # 0
    BY DEF Open, Goto, TypeOK, ReplayerTypeOK
  <1>3. Follows(c)'
    BY <1>1, <1>2 DEF Tracks, Follows, Established
  <1>4. HasPrefix(c)'
    <2> SUFFICES ASSUME phase'[c] = "reading"
                 PROVE  view[c] = SubSeq(events, 1, Upto(lastId[c])) /\ view[c] = <<>>
      BY <1>1, <1>2 DEF HasPrefix, Established, Upto
    <2>1. lastId[c] = 0 /\ view[c] = <<>> /\ Upto(lastId[c]) = 0
      BY <1>1, <1>2 DEF Tracks, Follows, Upto
    <2>2. SubSeq(events, 1, 0) \in Seq(Event) /\ Len(SubSeq(events, 1, 0)) = 0
      BY <1>1, Prefix
    <2> QED BY <2>1, <2>2, EmptySeq
  <1>5. HasWhole(c)'
    BY <1>2 DEF HasWhole
  <1> QED BY <1>3, <1>4, <1>5 DEF Tracks

\* A resumed delivery begins with the reduction of what is stored up to its
\* cursor.
LEMMA TracksRebuilt ==
    ASSUME TypeOK, TypeOK', Bounded, NEW c \in Clients, Tracks(c), Rebuild(c)
    PROVE  Tracks(c)'
  <1>1. /\ base \in Nat /\ lastId[c] \in Nat /\ events \in Seq(Event) /\ Len(events) \in Nat
        /\ Upto(lastId[c]) \in 0..Len(events)
        /\ base' = base /\ events' = events /\ hash' = hash
        /\ lastId'[c] = lastId[c] /\ resumed'[c] = resumed[c] /\ cursor'[c] = cursor[c]
    BY Places DEF Rebuild, bridgeVars
  <1>2. cursor[c] = lastId[c] /\ resumed[c]
    BY DEF Tracks, Follows, Rebuild
  <1>3. CASE Upto(cursor[c]) = 0
    <2>1. phase'[c] = "failed" /\ view'[c] = view[c]
      BY <1>3 DEF Rebuild, Goto, TypeOK, ReplayerTypeOK
    <2>2. Follows(c)'
      BY <1>1, <2>1 DEF Tracks, Follows, Established
    <2> QED BY <2>1, <2>2 DEF Tracks, HasPrefix, HasWhole, Established
  <1>4. CASE Upto(cursor[c]) # 0
    <2> DEFINE k == Upto(lastId[c])
    <2>1. /\ phase'[c] = "reading" /\ view'[c] = SubSeq(events, 1, k) /\ lastSeq'[c] = events[k].seq
      BY <1>2, <1>4 DEF Rebuild, Rebuilt, Goto, TypeOK, ReplayerTypeOK
    <2>2. lastId[c] > base /\ k \in 1..Len(events) /\ Upto(lastId[c])' = k
      BY <1>1, <1>2, <1>4 DEF Upto
    <2>3. SubSeq(events, 1, k)[k] = events[k] /\ Len(SubSeq(events, 1, k)) = k
      BY <1>1, <2>2, Prefix
    <2>4. Follows(c)'
      BY <1>1, <1>2, <2>1, <2>2 DEF Follows, Established
    <2>5. HasPrefix(c)'
      BY <1>1, <2>1, <2>2, <2>3 DEF HasPrefix
    <2> QED BY <2>1, <2>4, <2>5 DEF Tracks, HasWhole
  <1> QED BY <1>3, <1>4

\* What is read follows the cursor.
LEMMA TracksRead ==
    ASSUME TypeOK, TypeOK', Bounded, NEW c \in Clients, Tracks(c), Read(c)
    PROVE  Tracks(c)'
  <1>1. /\ base \in Nat /\ Len(events) \in Nat /\ Upto(cursor[c]) \in 0..Len(events)
        /\ base' = base /\ events' = events /\ hash' = hash
    BY Places DEF Read, bridgeVars
  <1>2. /\ phase[c] = "reading" /\ phase'[c] = "delivering" /\ batch'[c] = Unread(c)
        /\ resumed'[c] = resumed[c] /\ cursor'[c] = cursor[c] /\ lastSeq'[c] = lastSeq[c]
        /\ view'[c] = view[c] /\ lastId'[c] = lastId[c] /\ timeline'[c] = timeline[c]
    BY DEF Read, Goto, TypeOK, ReplayerTypeOK
  <1> DEFINE from == Upto(cursor[c])
             rest == Len(events) - from
             n == IF rest < ReadCount THEN rest ELSE ReadCount
  <1>3. n \in Nat
    BY <1>1, ReplayerAssumption
  <1>4. Unread(c) = [i \in 1..n |-> [cursor |-> base + from + i, event |-> events[from + i]]]
    BY DEF Unread
  <1>5. \A i \in 1..Len(batch'[c]) : /\ batch'[c][i].cursor = base + from + i
                                     /\ batch'[c][i].event = events[from + i]
    BY <1>2, <1>3, <1>4, LenProperties
  <1>6. Fresh(c)'
    BY <1>1, <1>2, <1>5 DEF Fresh, Upto
  <1>7. \A i \in 1..Len(batch'[c]) : batch'[c][i].cursor # 0
    <2>1. Len(batch'[c]) = n
      BY <1>2, <1>3, <1>4, LenProperties
    <2> QED BY <1>1, <1>3, <1>5, <2>1
  <1>8. Follows(c)'
    BY <1>1, <1>2, <1>6, <1>7 DEF Tracks, Follows, Established
  <1>9. HasPrefix(c)'
    BY <1>1, <1>2 DEF Tracks, HasPrefix, Established, Upto
  <1> QED BY <1>2, <1>8, <1>9 DEF Tracks, HasWhole

\* The start that a resumed delivery passes over is not of the stream it resumed.
LEMMA TracksSkipped ==
    ASSUME TypeOK, TypeOK', Bounded, LogInv, NEW c \in Clients, Tracks(c), Skip(c)
    PROVE  Tracks(c)'
  <1> DEFINE item == Head(batch[c])
  <1>1. /\ base \in Nat /\ Len(events) \in Nat /\ Upto(cursor[c]) \in 0..Len(events)
        /\ cursor[c] \in Nat /\ timeline[c] \in Nat
        /\ base' = base /\ events' = events /\ hash' = hash
    BY Places DEF Skip, bridgeVars
  <1>2. /\ phase[c] = "delivering" /\ phase'[c] = "delivering"
        /\ batch[c] # <<>> /\ resumed[c] /\ resumed'[c] = resumed[c] /\ item.event.op = "start"
        /\ cursor'[c] = item.cursor /\ batch'[c] = Tail(batch[c]) /\ lastSeq'[c] = lastSeq[c]
        /\ view'[c] = view[c] /\ lastId'[c] = lastId[c] /\ timeline'[c] = timeline[c]
    BY DEF Skip, TypeOK, ReplayerTypeOK
  <1>3. timeline[c] # base
    <2>1. CASE Fresh(c)
      <3>1. Upto(cursor[c]) + 1 \in 1..Len(events) /\ item.event = events[Upto(cursor[c]) + 1]
        BY <1>2, <2>1, HeadNext
      <3>2. Upto(cursor[c]) + 1 = 1
        BY <1>2, <3>1 DEF LogInv
      <3>3. ~(cursor[c] > base)
        BY <1>1, <3>2 DEF Upto
      <3> QED BY <1>2, <3>3 DEF Tracks, Follows, Established
    <2>2. CASE Stale(c)
      BY <1>1, <2>2 DEF Stale
    <2> QED BY <1>2, <2>1, <2>2 DEF Tracks, Follows
  <1>4. Fresh(c)' \/ Stale(c)'
    <2>1. CASE Fresh(c)
      BY <1>1, <1>2, <2>1, TailFresh
    <2>2. CASE Stale(c)
      BY <1>1, <1>2, <2>2, HeadNext DEF Stale
    <2> QED BY <1>2, <2>1, <2>2 DEF Tracks, Follows
  <1>5. \A i \in 1..Len(batch'[c]) : batch'[c][i].cursor # 0
    BY <1>2, HeadNext DEF Tracks, Follows
  <1>6. Follows(c)'
    BY <1>1, <1>2, <1>3, <1>4, <1>5 DEF Tracks, Follows, Established
  <1> QED BY <1>1, <1>2, <1>3, <1>6 DEF Tracks, HasPrefix, HasWhole

\* What is delivered goes on from what the client has.
LEMMA TracksDelivered ==
    ASSUME TypeOK, TypeOK', Bounded, LogInv, NEW c \in Clients, Tracks(c), Deliver(c)
    PROVE  Tracks(c)'
  <1> DEFINE item == Head(batch[c])
             k == Upto(cursor[c])
  <1>1. /\ base \in Nat /\ Len(events) \in Nat /\ events \in Seq(Event) /\ k \in 0..Len(events)
        /\ cursor[c] \in Nat /\ timeline[c] \in Nat /\ lastId[c] \in Nat
        /\ base' = base /\ events' = events /\ hash' = hash
    BY Places DEF Deliver, bridgeVars
  <1>2. /\ phase[c] = "delivering" /\ batch[c] # <<>> /\ ~(resumed[c] /\ item.event.op = "start")
        /\ phase'[c] = (IF item.event.op = "end" THEN "ended" ELSE "delivering")
        /\ cursor'[c] = item.cursor /\ lastId'[c] = item.cursor /\ lastSeq'[c] = item.event.seq
        /\ view'[c] = Reduced(view[c], item.event) /\ batch'[c] = Tail(batch[c])
        /\ resumed'[c] = resumed[c] /\ timeline'[c] = timeline[c]
    BY DEF Deliver, Goto, TypeOK, ReplayerTypeOK
  <1>3. item.cursor # 0 /\ \A i \in 1..Len(batch'[c]) : batch'[c][i].cursor # 0
    BY <1>2, HeadNext DEF Tracks, Follows
  <1>4. CASE Stale(c)
    <2>1. item.cursor <= base /\ timeline[c] < base
      BY <1>2, <1>4, HeadNext DEF Stale
    <2>2. Stale(c)'
      BY <1>1, <1>2, <1>4, HeadNext DEF Stale
    <2>3. Follows(c)'
      BY <1>1, <1>2, <1>3, <2>1, <2>2 DEF Follows, Established
    <2> QED BY <1>1, <1>2, <2>1, <2>3, HeadNext DEF Tracks, HasPrefix, HasWhole
  <1>5. CASE Fresh(c)
    <2>1. /\ k + 1 \in 1..Len(events) /\ item.event = events[k + 1]
          /\ item.cursor = base + (k + 1) /\ Upto(item.cursor) = k + 1
      BY <1>2, <1>5, HeadNext
    <2>2. Fresh(c)' /\ Upto(lastId[c])' = k + 1 /\ item.cursor > base
      <3>1. Fresh(c)'
        BY <1>1, <1>2, <1>5, TailFresh
      <3>2. item.cursor > base
        BY <1>1, <2>1
      <3> QED BY <1>1, <1>2, <2>1, <3>1, <3>2 DEF Upto
    <2>3. Follows(c)'
      BY <1>1, <1>2, <1>3, <2>2 DEF Follows, Established
    <2>4. ASSUME timeline[c] = base \/ ~resumed[c]
          PROVE  view'[c] = SubSeq(events, 1, k + 1)
      <3>1. cursor[c] = lastId[c]
        BY <1>2, <2>4 DEF Tracks, Follows, Established
      <3>2. CASE k = 0
        <4>1. item.event.op = "start"
          BY <2>1, <3>2 DEF LogInv
        <4>2. view'[c] = <<item.event>>
          BY <1>2, <4>1 DEF Reduced
        <4>3. Append(SubSeq(events, 1, 0), events[1]) = SubSeq(events, 1, 1)
          BY <1>1, <2>1, <3>2, PrefixNext
        <4>4. SubSeq(events, 1, 0) = <<>>
          BY <1>1, Prefix, EmptySeq
        <4>5. Append(<<>>, events[1]) = <<events[1]>>
          OBVIOUS
        <4> QED BY <2>1, <3>2, <4>2, <4>3, <4>4, <4>5
      <3>3. CASE k # 0
        <4>1. item.event.op # "start"
          BY <1>1, <2>1, <3>3 DEF LogInv
        <4>2. lastId[c] > base /\ Upto(lastId[c]) = k
          BY <1>1, <3>1, <3>3 DEF Upto
        <4>3. view[c] = SubSeq(events, 1, k)
          BY <1>2, <2>4, <4>2 DEF Tracks, HasPrefix, Established
        <4>4. view'[c] = Append(view[c], item.event)
          BY <1>2, <4>1 DEF Reduced
        <4> QED BY <1>1, <2>1, <4>3, <4>4, PrefixNext
      <3> QED BY <3>2, <3>3
    <2>5. ASSUME timeline[c] = base \/ ~resumed[c]
          PROVE  /\ view'[c] # <<>> /\ Len(view'[c]) = k + 1
                 /\ view'[c][k + 1] = item.event
      BY <1>1, <2>1, <2>4, <2>5, PrefixNext
    <2>6. HasPrefix(c)'
      <3>1. SubSeq(events, 1, k + 1) = SubSeq(events, 1, Upto(lastId[c]))'
        BY <1>1, <2>2
      <3> QED BY <1>1, <1>2, <2>4, <2>5, <3>1 DEF HasPrefix
    <2>7. HasWhole(c)'
      BY <1>1, <1>2, <2>5 DEF HasWhole
    <2> QED BY <2>3, <2>6, <2>7 DEF Tracks
  <1> QED BY <1>2, <1>4, <1>5 DEF Tracks, Follows

\* A delivery that ends because it has everything has everything.
LEMMA TracksChecked ==
    ASSUME TypeOK, TypeOK', Bounded, LogInv, NEW c \in Clients, Tracks(c), Check(c)
    PROVE  Tracks(c)'
  <1>1. /\ base \in Nat /\ Len(events) \in Nat /\ events \in Seq(Event) /\ lastId[c] \in Nat
        /\ base' = base /\ events' = events /\ hash' = hash
    BY Places DEF Check, bridgeVars
  <1>2. /\ phase[c] = "delivering" /\ phase'[c] \in {"failed", "ended", "reading"}
        /\ phase'[c] = "ended" => Drained(c)
        /\ resumed'[c] = resumed[c] /\ cursor'[c] = cursor[c] /\ lastSeq'[c] = lastSeq[c]
        /\ view'[c] = view[c] /\ lastId'[c] = lastId[c] /\ timeline'[c] = timeline[c]
    BY DEF Check, Goto, TypeOK, ReplayerTypeOK
  <1>3. Follows(c)'
    BY <1>1, <1>2 DEF Tracks, Follows, Established
  <1>4. HasPrefix(c)'
    BY <1>1, <1>2 DEF Tracks, HasPrefix, Established, Upto
  <1>5. HasWhole(c)'
    <2> SUFFICES ASSUME phase'[c] = "ended", timeline[c] = base
                 PROVE  view[c] # <<>> /\ hash.status \in Verdicts /\ view[c] = events
      BY <1>1, <1>2 DEF HasWhole
    <2>1. hash.status \in Verdicts /\ cursor[c] = hash.last_cursor
      BY <1>2 DEF Drained
    <2>2. events # <<>> /\ hash.last_cursor = base + Len(events)
      BY <2>1 DEF LogInv, HashMatchesStream, Verdicts
    <2>3. Len(events) # 0
      BY <1>1, <2>2, EmptySeq
    <2>4. lastId[c] = base + Len(events) /\ Upto(lastId[c]) = Len(events)
      BY <1>1, <1>2, <2>1, <2>2, <2>3 DEF Tracks, Follows, Established, Upto
    <2>5. view[c] = SubSeq(events, 1, Len(events))
      BY <1>2, <2>4 DEF Tracks, HasPrefix, Established
    <2>6. SubSeq(events, 1, Len(events)) = events
      <3>1. /\ SubSeq(events, 1, Len(events)) \in Seq(Event)
            /\ Len(SubSeq(events, 1, Len(events))) = Len(events)
            /\ \A i \in 1..Len(events) : SubSeq(events, 1, Len(events))[i] = events[i]
        BY <1>1, Prefix
      <3> QED BY <1>1, <3>1, SeqEqual
    <2> QED BY <2>1, <2>2, <2>5, <2>6
  <1> QED BY <1>3, <1>4, <1>5 DEF Tracks

\* Without a delivery only the client's model and Last-Event-ID count.
LEMMA TracksReconnected ==
    ASSUME TypeOK, NEW c \in Clients, Tracks(c), Reconnect(c)
    PROVE  Tracks(c)'
  <1>1. phase'[c] = "off" /\ view'[c] = view[c] /\ lastId'[c] = lastId[c]
    BY DEF Reconnect, Goto, TypeOK, ReplayerTypeOK
  <1> QED BY <1>1 DEF Tracks, Follows, HasPrefix, HasWhole, Established

\* Every step of hosts, clients and Redis keeps every client's model.
LEMMA DeliveryStep == TypeOK /\ TypeOK' /\ Bounded /\ LogInv /\ DeliveryInv /\ [Next]_vars => DeliveryInv'
  <1> SUFFICES ASSUME TypeOK, TypeOK', Bounded, LogInv, DeliveryInv, [Next]_vars, NEW d \in Clients
               PROVE  Tracks(d)'
    BY DEF DeliveryInv
  <1> Tracks(d)
    BY DEF DeliveryInv
  <1>1. base \in Nat /\ Len(events) \in Nat
    BY Places
  <1>2. ASSUME Rests(d), UNCHANGED <<events, base>>, hash.status \in Verdicts => hash'.status \in Verdicts
        PROVE  Tracks(d)'
    BY <1>1, <1>2, TracksKept
  <1>3. ASSUME NEW p \in Producers, ProducerStep(p), UNCHANGED replayerVars PROVE Tracks(d)'
    <2>1. Rests(d)
      BY <1>3 DEF Rests, replayerVars
    <2>2. CASE Run(p)
      <3>1. /\ base' = base /\ Len(events) <= Len(events')
            /\ \A i \in 1..Len(events) : events'[i] = events[i]
        BY <2>2, RunKeeps
      <3>2. hash.status \in Verdicts => hash'.status \in Verdicts /\ events' = events
        BY <2>2, RunEffect DEF Verdicts
      <3> QED BY <2>1, <3>1, <3>2, TracksKept
    <2>3. CASE ~Run(p)
      <3>1. UNCHANGED <<hash, events, base>>
        BY <1>3, <2>3 DEF ProducerStep, Create, TakeOver, SendPublish, SendMark, AnswerLost, Return, bridgeVars
      <3> QED BY <1>2, <2>1, <3>1
    <2> QED BY <2>2, <2>3
  <1>4. ASSUME NEW c \in Clients, ClientStep(c) PROVE Tracks(d)'
    <2>1. CASE c = d
      BY <1>4, <2>1, TracksOpen, TracksRebuilt, TracksRead, TracksSkipped, TracksDelivered, TracksChecked,
         TracksReconnected DEF ClientStep, StreamStep
    <2>2. CASE c # d
      <3>1. UNCHANGED <<hash, events, base>>
        BY <1>4 DEF ClientStep, StreamStep, Open, Rebuild, Read, Skip, Deliver, Check, Reconnect, bridgeVars
      <3>2. Rests(d)
        <4> USE <2>2 DEF Rests, Goto, TypeOK, ReplayerTypeOK
        <4>1. Open(c) => Rests(d)
          BY DEF Open
        <4>2. Rebuild(c) => Rests(d)
          BY DEF Rebuild
        <4>3. Read(c) \/ Skip(c) => Rests(d)
          BY DEF Read, Skip
        <4>4. Deliver(c) => Rests(d)
          BY DEF Deliver
        <4>5. Check(c) \/ Reconnect(c) => Rests(d)
          BY DEF Check, Reconnect
        <4> QED BY <1>4, <4>1, <4>2, <4>3, <4>4, <4>5 DEF ClientStep, StreamStep
      <3> QED BY <1>2, <3>1, <3>2
    <2> QED BY <2>1, <2>2
  <1>5. CASE RemoveTask /\ UNCHANGED <<producerVars, replayerVars>>
    BY <1>5, TracksRemoved DEF Rests, replayerVars
  <1>6. CASE UNCHANGED vars
    BY <1>2, <1>6 DEF vars, bridgeVars, replayerVars, Rests
  <1> QED BY <1>3, <1>4, <1>5, <1>6 DEF Next

\* Clients and deliveries are in step in every reachable state.
LEMMA DeliveryAlways == Spec => []DeliveryInv
  <1>1. Init => DeliveryInv
    BY DEF Init, ReplayerInit, DeliveryInv, Tracks, Follows, HasPrefix, HasWhole, Established
  <1> QED BY <1>1, DeliveryStep, TypeInv, LogAlways, PTL DEF Spec

\* What a client has been given, over any number of deliveries, is what the
\* stream holds up to its Last-Event-ID: no reconnection leaves out an event,
\* repeats one or takes one of a removed task for one of its successor.
THEOREM ResumedViews == Spec => []ViewIsPrefix
  <1>1. DeliveryInv => ViewIsPrefix
    BY DEF DeliveryInv, Tracks, HasPrefix, Established, ViewIsPrefix
  <1> QED BY <1>1, DeliveryAlways, PTL

\* A delivery never ends early: its client has a stored end, or all of a log
\* that is closed.
THEOREM EndedDeliveries == Spec => []EndedIsWhole
  <1>1. DeliveryInv => EndedIsWhole
    BY DEF DeliveryInv, Tracks, HasWhole, EndedIsWhole
  <1> QED BY <1>1, DeliveryAlways, PTL
================================================================================

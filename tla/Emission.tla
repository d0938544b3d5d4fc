------------------------------- MODULE Emission --------------------------------
(***************************************************************************)
(* The producing end of a stream: an application that describes its model  *)
(* by calls of a PatchEmitter (emitter.py, emitter.ts), whose events the   *)
(* clients of Reducers follow.  A stream of unknown origin is the one of   *)
(* Reducers.                                                               *)
(***************************************************************************)
EXTENDS Reducers

VARIABLES producer,  \* the SDK of the emitter, or none for a stream of any events
          offset,    \* the emitter's offset
          number,    \* the seq of the last event it made
          intent     \* the model the calls describe; None after a call that describes none

emitterVars == <<producer, offset, number, intent>>

--------------------------------------------------------------------------------
\* What applications call the emitter with.

Inlines == {[type |-> Word, content |-> value] : value \in {Word, Odd, Null}}
           \cup {Plain, [type |-> Word, tool |-> Object([status |-> Word])],
                 [type |-> Word, group_id |-> Odd]}
Documents == {model \in Models : /\ model.meta \in {<<>>, [error |-> Null]}
                                 /\ UniqueIds(model.blocks)
                                 /\ \A i \in DOMAIN model.blocks : model.blocks[i].fields = Plain}
FieldMasks == {<<"block", "content">>, <<"block", "tool", "status">>, <<"block", "id">>}
Flat == [type |-> Word, status |-> Word]

--------------------------------------------------------------------------------

NonNull(object) == [name \in {n \in DOMAIN object : object[n] # Null} |-> object[name]]
Trimmed(model) ==
    ModelOf(model.version, NonNull(model.meta),
            [i \in DOMAIN model.blocks |-> Block(model.blocks[i].id, NonNull(model.blocks[i].fields))],
            model.listed)

\* model_dump with exclude_none; TypeScript clones what it is given.
Dump(fields) == IF producer = "python" THEN NonNull(fields) ELSE fields
DumpModel(model) == IF producer = "python" THEN Trimmed(model) ELSE model

\* Mutant of DumpField: the dump of a field patch leaves out nulls, too.
DumpFieldNonNull(fields) == Dump(fields)
\* model_dump with exclude_unset: a field that was set to null is there.
DumpField(fields) == fields

\* Mutant of Makes: the number is the one before.
MakesLate(event, seq, wanted) ==
    /\ offset' = seq
    /\ IF producer = "python" /\ ~PyValidate(event)
         THEN count < MaxEvents /\ count' = count + 1 /\ UNCHANGED <<view, stopped, loose, number, intent>>
         ELSE Deliver(event) /\ number' = offset /\ intent' = wanted
    /\ UNCHANGED producer
\* A call takes its number, then builds the event, which the Python emitter
\* validates: a call that raises has used its number up.
Makes(event, seq, wanted) ==
    /\ offset' = seq
    /\ IF producer = "python" /\ ~PyValidate(event)
         THEN count < MaxEvents /\ count' = count + 1 /\ UNCHANGED <<view, stopped, loose, number, intent>>
         ELSE Deliver(event) /\ number' = seq /\ intent' = wanted
    /\ UNCHANGED producer

Calling == producer # "none" /\ intent # None

Start == \E model \in Documents : Calling /\ Makes(StartOf(DumpModel(model)), offset + 1, model)

\* A start that covers the events so far carries what they have made.
Restart ==
    /\ Calling
    /\ LET event == StartOf(DumpModel(intent))
       IN  Makes(event, offset, IF Contested(event) THEN None ELSE intent)

BlockSet ==
    \E id \in Ids, fields \in Inlines \cup {[ref |-> Word]} :
        LET block == Block(id, fields)
            proper == ~BadGroup(block) /\ (IsReference(block) => intent.version = "1.1")
        IN  /\ Calling
            /\ Makes(Event("set", <<>>, None, None, Block(id, Dump(fields))), offset + 1,
                     IF proper THEN PutBlock(intent, block) ELSE None)

FieldSet ==
    \E id \in Ids, fields \in Inlines \cup {Flat}, mask \in FieldMasks :
        LET value == ReadPath(fields, Tail(mask))
            proper == Inline(intent, id) /\ value # None
        IN  /\ Calling
            /\ Makes(Event("set", mask, None, None, Block(id, DumpField(fields))), offset + 1,
                     IF proper THEN PatchBlock(intent, id, Tail(mask), value) ELSE None)

BlockAppend ==
    \E id \in Ids, fields \in Inlines :
        LET old == intent.blocks[Position(intent.blocks, id)]
            value == Concatenated(IF "content" \in DOMAIN old.fields THEN old.fields["content"] ELSE None,
                                  fields["content"])
        IN  /\ Calling
            /\ "content" \in DOMAIN fields
            /\ Makes(Event("append", <<"block", "content">>, None, None, Block(id, Dump(fields))), offset + 1,
                     IF fields["content"] = Null THEN None
                     ELSE IF Holding(intent.blocks, id) = {} THEN PutBlock(intent, Block(id, fields))
                     ELSE IF IsReference(old) \/ value = None THEN None
                     ELSE PatchBlock(intent, id, <<"content">>, value))

Sets(name, value) ==
    /\ Calling
    /\ Makes(Event("set", <<"meta", name>>, None, [n \in {name} |-> value], None), offset + 1,
             PatchMeta(intent, <<name>>, value))

MetaSet == \E value \in {Word, Null} : Sets("status", value)

SetStats == \E stats \in {<<>>, [status |-> Word]} : Sets("stats", Object(stats))

Error ==
    /\ Calling
    /\ Makes(Event("error", <<"meta", "error">>, None, [error |-> Failure], None), offset + 1,
             PatchMeta(intent, <<"error">>, Failure))

Ping == Calling /\ Makes(Event("ping", <<>>, None, None, None), offset, intent)

End == Calling /\ Makes(Event("end", <<>>, None, None, None), offset + 1, intent)

\* A stream of any events.
Feed == producer = "none" /\ (\E event \in Events : Deliver(event)) /\ UNCHANGED emitterVars

EmissionInit ==
    /\ Init
    /\ producer \in {"none", "python", "typescript"}
    /\ producer # "none" => view["go"] \in Documents
    /\ offset = 1
    /\ number = 1
    /\ intent = IF producer = "none" THEN None ELSE view["go"]

EmissionNext == Feed \/ Start \/ Restart \/ BlockSet \/ FieldSet \/ BlockAppend
                \/ MetaSet \/ SetStats \/ Error \/ Ping \/ End

EmissionSpec == EmissionInit /\ [][EmissionNext]_<<vars, emitterVars>>

--------------------------------------------------------------------------------

\* What the application says is what every client has as it reads it, up to
\* fields that are null, whichever SDK says it and whichever SDK listens: no call
\* that means something makes an event that a client refuses (PatchEmitter and
\* the reducers together).
Mirrors ==
    producer # "none" /\ intent # None =>
        \A s \in Sdks : stopped[s] = "no" /\ Trimmed(AsRead(view[s])) = Trimmed(AsRead(intent))

\* seq orders the transitions of the model (spec/sse.md, section 2): an event
\* that changes it, as read, has a number of its own, above all before, whatever
\* calls failed, pings or covering starts there were.
TransitionsNumbered ==
    [][producer # "none" =>
          /\ number' >= number /\ number' <= offset'
          /\ \A s \in Sdks : Trimmed(AsRead(view'[s])) # Trimmed(AsRead(view[s])) => number' > number]_<<vars, emitterVars>>
================================================================================

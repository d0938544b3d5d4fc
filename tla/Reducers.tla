------------------------------- MODULE Reducers --------------------------------
(***************************************************************************)
(* One stream of events, followed by a client of each SDK.  A client whose *)
(* reducer refuses an event stops: Apply returns an error, apply_patch and *)
(* applyPatch raise.                                                       *)
(***************************************************************************)
EXTENDS GoReducer, PythonReducer, TypeScriptReducer

CONSTANTS Characters,  \* what texts and lists are made of
          MaxEvents    \* bound on the events of a stream

ASSUME ReducersAssumption == Characters # {} /\ MaxEvents \in Nat

Sdks == {"go", "python", "typescript"}

Reduce(s, model, event) == CASE s = "go" -> GoApply(model, event)
                             [] s = "python" -> PyApplyPatch(model, event)
                             [] s = "typescript" -> TsApplyPatch(model, event)

\* What each SDK checks of the model in a start.
ValidModel(s, model) == CASE s = "go" -> GoValidateModel(model)
                          [] s = "python" -> PyUIModel(model)
                          [] s = "typescript" -> TsParseUIModel(model)

StartOf(model) == Event("start", <<>>, model, None, None)

--------------------------------------------------------------------------------
\* The events of the streams, valid or not.

Deltas == {Text(<<ch>>) : ch \in Characters} \cup {List(<<ch>>) : ch \in Characters}
Word == Text(<<CHOOSE ch \in Characters : TRUE>>)
Odd == List(<<>>)
Plain == [type |-> Word]

Models == {Model(version, meta, blocks) :
               version \in {"1.0", "1.1"},
               meta \in {<<>>, [error |-> Object(<<>>)]},
               blocks \in {<<>>}
                          \cup {<<Block(id, Plain), Block(other, Plain)>> : id, other \in Ids}
                          \cup {<<Block(id, [ref |-> Word])>> : id \in Ids}}
          \cup {Model("1.1", [error |-> Null], <<>>)}

\* Models without a version, or without blocks.
Partials == {Model("none", <<>>, <<Block(id, [ref |-> Word])>>) : id \in Ids}
            \cup {ModelOf("1.0", <<>>, <<>>, FALSE)}

Starts == {Event("start", <<>>, model, None, None) : model \in Models \cup Partials}
          \cup {Event("start", <<"meta", "status">>, Model("1.1", <<>>, <<>>), None, None)}

\* Blocks as a whole: complete ones, a reference, and four that are neither.
Wholes == {[type |-> Word, content |-> value] : value \in Deltas \cup {Null}}
          \cup {Plain, [ref |-> Word]}
          \cup {[content |-> Word], [type |-> Text(<<>>)], [ref |-> Word, type |-> Word],
                [type |-> Word, group_id |-> Odd]}

\* What field patches carry, nested or flat.
Parts == {[content |-> Word], [content |-> Null], [type |-> Null], [group_id |-> Odd], [status |-> Word],
          [tool |-> Object([status |-> Null])], [tool |-> Word], [content |-> Word, ref |-> Word]}

BlockMasks == {<<"block", name>> : name \in {"content", "type", "group_id", "tool"}}
              \cup {<<"block", name, "status">> : name \in {"tool", "id", "ref"}}

Failure == Object([code |-> Word, message |-> Word])
Metas == {[status |-> Word], [error |-> Failure], [error |-> Object(<<>>)], [error |-> Word]}

Others == {Event("set", <<>>, None, None, Block(id, fields)) : id \in Ids, fields \in Wholes}
          \cup {Event("set", mask, None, None, Block(id, fields)) :
                    mask \in BlockMasks, id \in Ids, fields \in Parts}
          \cup {Event("append", <<"block", name>>, None, None, Block(id, fields)) :
                    name \in {"content", "type"}, id \in Ids, fields \in Wholes}
          \cup {Event("append", mask, None, None, Block(id, fields)) :
                    mask \in BlockMasks, id \in Ids, fields \in {[content |-> Word], [group_id |-> Odd]}}
          \cup {Event(op, <<"meta", name>>, None, meta, None) :
                    op \in {"set", "error"}, name \in {"status", "error"}, meta \in Metas}
          \cup {Event(op, <<>>, None, None, None) : op \in {"ping", "end"}}
          \cup {EventOf("ping", <<>>, None, None, None, TRUE)}
          \cup {EventOf("set", <<>>, None, None, Block(id, Plain), TRUE) : id \in Ids}

Events == Starts \cup Others

\* Where the SDKs disagree: a start with a mask (Go refuses it), a start whose
\* model has no version or no blocks (Python takes it), a group_id of another type
\* than string (Python takes it), an error without code and message (TypeScript
\* refuses it, and Go takes it in a model, too), an append of neither a string nor
\* a list (Go takes it for a new block), and a null in an empty slot (TypeScript
\* refuses it).
Malformed(meta) == "error" \in DOMAIN meta /\ ~TsValidateError(meta)
BadGroup(block) == ~OptionalText(block.fields, "group_id")
Contested(event) ==
    \/ event.null
    \/ event.op = "start" /\ \/ event.mask # <<>>
                             \/ event.model.version = "none" \/ ~event.model.listed
                             \/ Malformed(event.model.meta)
    \/ event.block # None /\ BadGroup(event.block)
    \/ event.op = "error" /\ event.meta # None /\ Malformed(event.meta)
    \/ event.op = "append" /\ ~Has(event.block.fields, event.mask[2], {"text", "list"})

\* A patch of a field that the validators of models constrain.
Loose(event) ==
    \/ event.op \in {"set", "append"} /\ event.mask \in {<<"block", "type">>, <<"block", "group_id">>}
    \/ event.op \in {"set", "error"} /\ event.meta # None /\ Malformed(event.meta)

--------------------------------------------------------------------------------

VARIABLES view,     \* the model each client has
          stopped,  \* whether its reducer refused an event, and which sort
          loose,    \* a constrained field was patched since the last start
          count     \* events so far

vars == <<view, stopped, loose, count>>

Init == /\ \E model \in Models : /\ \A s \in Sdks : ValidModel(s, model)
                                 /\ view = [s \in Sdks |-> model]
        /\ stopped = [s \in Sdks |-> "no"]
        /\ loose = FALSE
        /\ count = 0

Refuses(s, event) == stopped[s] = "no" /\ Reduce(s, view[s], event) = Refused

Deliver(event) ==
    /\ count < MaxEvents
    /\ count' = count + 1
    /\ view' = [s \in Sdks |-> IF stopped[s] # "no" \/ Refuses(s, event)
                                 THEN view[s] ELSE Reduce(s, view[s], event)]
    /\ stopped' = [s \in Sdks |-> IF ~Refuses(s, event) THEN stopped[s]
                                  ELSE IF Contested(event) THEN "contested" ELSE "refused"]
    /\ loose' = (event.op # "start" /\ (loose \/ Loose(event)))

Next == \E event \in Events : Deliver(event)

Spec == Init /\ [][Next]_vars

--------------------------------------------------------------------------------

Leaves == {Null, NilList} \cup [kind : {"text", "list"}, items : Seq(Characters)]
IsFlat(object) == /\ DOMAIN object \subseteq {"status", "code", "message"}
                  /\ \A name \in DOMAIN object : object[name] \in Leaves
AreFields(object, names) ==
    /\ DOMAIN object \subseteq names
    /\ \A name \in DOMAIN object :
           \/ object[name] \in Leaves
           \/ object[name] # None /\ object[name].kind = "object" /\ IsFlat(object[name].fields)

TypeOK ==
    /\ \A s \in Sdks :
           /\ view[s].version \in {"none", "1.0", "1.1"} /\ view[s].listed \in BOOLEAN
           /\ AreFields(view[s].meta, {"status", "error", "stats"})
           /\ \A i \in 1..Len(view[s].blocks) :
                  /\ view[s].blocks[i].id \in Ids
                  /\ AreFields(view[s].blocks[i].fields,
                               {"type", "ref", "group_id", "content", "tool", "status"})
    /\ stopped \in [Sdks -> {"no", "contested", "refused"}]
    /\ loose \in BOOLEAN
    /\ count \in 0..MaxEvents

\* A model as later events find it: a nil slice of Go is a list without items.
\* That it is null once encoded, where the other SDKs have [], no property hides:
\* each that compares models says that it compares them as read.
Filled(value) == IF value = NilList THEN List(<<>>) ELSE value
ReadFields(fields) == [name \in DOMAIN fields |-> Filled(fields[name])]
AsRead(model) ==
    ModelOf(model.version, ReadFields(model.meta),
            [i \in DOMAIN model.blocks |-> Block(model.blocks[i].id, ReadFields(model.blocks[i].fields))],
            model.listed)

\* Clients that follow the stream have the same model as read, whatever their
\* language (spec/protocol.md, section 6: the reducer is deterministic).
Agree == \A s, t \in Sdks : stopped[s] = "no" /\ stopped[t] = "no" => AsRead(view[s]) = AsRead(view[t])

\* An event that one reducer refuses is refused by all, up to the six
\* disagreements that Contested lists.
StopTogether ==
    \A s, t \in Sdks : stopped[s] = "refused" => stopped[t] # "no"

\* No reducer lets two blocks have one id.
IdsStayUnique == \A s \in Sdks : UniqueIds(view[s].blocks)

\* A reference stays bare and within models of version 1.1, or of none that is
\* said, whatever patches try to add to it.
ReferencesStayBare ==
    \A s \in Sdks : \A i \in DOMAIN view[s].blocks :
        IsReference(view[s].blocks[i]) => /\ DOMAIN view[s].blocks[i].fields = {"ref"}
                                          /\ view[s].version # "1.0"

\* A model can be sent in a start, as a resumed delivery does, unless one of the
\* fields that the validators constrain was patched.
SnapshotRestarts ==
    ~loose => \A s \in Sdks : stopped[s] = "no" => ValidModel(s, view[s])

\* Within a model blocks keep their places, and their ids.
PlacesKept ==
    [][\A s \in Sdks : \/ \E model \in Models \cup Partials : view'[s] = model
                       \/ \A i \in DOMAIN view[s].blocks :
                              /\ i \in DOMAIN view'[s].blocks
                              /\ view'[s].blocks[i].id = view[s].blocks[i].id]_vars
================================================================================

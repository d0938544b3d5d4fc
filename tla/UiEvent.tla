-------------------------------- MODULE UiEvent --------------------------------
(***************************************************************************)
(* What the three SDKs of AgentUE share: JSON values, blocks, models and   *)
(* events, and the walks through them that their reducers have in common.  *)
(* An object is a function from the names of its fields.  The path of a    *)
(* mask has one or two parts after its root.                               *)
(***************************************************************************)
EXTENDS Integers, Sequences

CONSTANTS Ids  \* ids of blocks, none of them empty

\* A slot of an event that is absent, a value that is not there.
None == [kind |-> "none"]

Null == [kind |-> "null"]
Text(chars) == [kind |-> "text", items |-> chars]
List(items) == [kind |-> "list", items |-> items]
Object(fields) == [kind |-> "object", fields |-> fields]

Has(object, name, kinds) == name \in DOMAIN object /\ object[name].kind \in kinds
HasName(object, name) == Has(object, name, {"text"}) /\ object[name].items # <<>>
\* A string or null, if it is there.
OptionalText(object, name) == name \in DOMAIN object => object[name].kind \in {"text", "null"}

\* A block is its id and its other fields, a model what the reducers look at of
\* it.  biz, and whatever else a model carries, is theirs to keep.  A version that
\* is absent is "none", and listed is whether there is a list of blocks.
Block(id, fields) == [id |-> id, fields |-> fields]
ModelOf(version, meta, blocks, listed) ==
    [version |-> version, meta |-> meta, blocks |-> blocks, listed |-> listed]
Model(version, meta, blocks) == ModelOf(version, meta, blocks, TRUE)
\* mask = <<>> is an event without one.  null: a slot that it leaves empty is
\* written down as null.
EventOf(op, mask, model, meta, block, null) ==
    [op |-> op, mask |-> mask, model |-> model, meta |-> meta, block |-> block, null |-> null]
Event(op, mask, model, meta, block) == EventOf(op, mask, model, meta, block, FALSE)

Refused == [kind |-> "refused"]

IsReference(block) == "ref" \in DOMAIN block.fields
UniqueIds(blocks) == \A i, j \in DOMAIN blocks : blocks[i].id = blocks[j].id => i = j

Holding(blocks, id) == {i \in DOMAIN blocks : blocks[i].id = id}
Position(blocks, id) == CHOOSE i \in Holding(blocks, id) : \A j \in Holding(blocks, id) : i <= j

\* Mutants of PutBlock: the new form of a block goes to the end; it is added to
\* the old one.
PutBlockLast(model, block) ==
    Model(model.version, model.meta,
          Append(SelectSeq(model.blocks, LAMBDA other : other.id # block.id), block))
PutBlockTwice(model, block) == Model(model.version, model.meta, Append(model.blocks, block))
\* The block with this id is replaced where it is, or added at the end, of a list
\* that is made if there is none.
PutBlock(model, block) ==
    Model(model.version, model.meta,
          IF Holding(model.blocks, block.id) = {}
            THEN Append(model.blocks, block)
            ELSE [model.blocks EXCEPT ![Position(model.blocks, block.id)] = block])

Inline(model, id) == /\ Holding(model.blocks, id) # {}
                     /\ ~IsReference(model.blocks[Position(model.blocks, id)])

With(object, name, value) ==
    [n \in DOMAIN object \cup {name} |-> IF n = name THEN value ELSE object[n]]

\* The value at path, or the flat field that the path's last part names.
ReadPath(source, path) ==
    LET leaf == path[Len(path)]
        nested == Len(path) = 2 /\ Has(source, path[1], {"object"}) /\ leaf \in DOMAIN source[path[1]].fields
    IN  IF nested THEN source[path[1]].fields[leaf]
        ELSE IF leaf \in DOMAIN source THEN source[leaf] ELSE None

\* Whatever is on the way and not an object becomes one.
WritePath(target, path, value) ==
    LET inner == IF Has(target, path[1], {"object"}) THEN target[path[1]].fields ELSE <<>>
    IN  IF Len(path) = 1
          THEN With(target, path[1], value)
          ELSE With(target, path[1], Object(With(inner, path[2], value)))

PatchMeta(model, path, value) ==
    ModelOf(model.version, WritePath(model.meta, path, value), model.blocks, model.listed)
PatchBlock(model, id, path, value) ==
    LET block == model.blocks[Position(model.blocks, id)]
    IN  PutBlock(model, Block(id, WritePath(block.fields, path, value)))

\* What append makes of a field.  Only strings and lists are appended, to their
\* own kind or to nothing.
Concatenated(old, delta) ==
    CASE delta.kind \notin {"text", "list"} -> None
      [] delta.kind \in {"text", "list"} /\ old \in {None, Null} -> delta
      [] OTHER -> IF old.kind = delta.kind THEN [kind |-> delta.kind, items |-> old.items \o delta.items]
                                           ELSE None

\* Mutant of Patched: a value that is not there is written, too.
PatchedUnread(model, event, source) ==
    LET path == Tail(event.mask)
        value == ReadPath(source, path)
    IN  CASE event.mask[1] = "meta" -> PatchMeta(model, path, value)
          [] OTHER -> IF event.mask[1] = "block" /\ Inline(model, event.block.id)
                        THEN PatchBlock(model, event.block.id, path, value)
                        ELSE Refused
\* A field patch: of meta, or of a block that is there and inline.
Patched(model, event, source) ==
    LET path == Tail(event.mask)
        value == ReadPath(source, path)
    IN  CASE value = None -> Refused
          [] value # None /\ event.mask[1] = "meta" -> PatchMeta(model, path, value)
          [] OTHER -> IF event.mask[1] = "block" /\ Inline(model, event.block.id)
                        THEN PatchBlock(model, event.block.id, path, value)
                        ELSE Refused
SetByMask(model, event) ==
    Patched(model, event, IF event.meta # None THEN event.meta ELSE event.block.fields)
================================================================================

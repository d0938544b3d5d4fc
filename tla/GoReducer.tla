------------------------------- MODULE GoReducer -------------------------------
(***************************************************************************)
(* Validation and reduction of events in the Go SDK                        *)
(* (src/sdks/go/ui/event.go, model.go, reducer.go).                        *)
(***************************************************************************)
EXTENDS UiEvent

GoValidateBlock(block) ==
    IF IsReference(block)
      THEN HasName(block.fields, "ref") /\ DOMAIN block.fields = {"ref"}
      ELSE HasName(block.fields, "type") /\ OptionalText(block.fields, "group_id")

GoValidateModel(model) ==
    /\ model.version \in {"1.0", "1.1"} /\ model.listed
    /\ \A i \in DOMAIN model.blocks : /\ GoValidateBlock(model.blocks[i])
                                      /\ IsReference(model.blocks[i]) => model.version = "1.1"
    /\ UniqueIds(model.blocks)

\* Mutant of GoValidateFieldPatch: only the payload is looked at.
GoValidateFieldPatchOfBlock(event) == ~IsReference(event.block)
GoValidateFieldPatch(event) == ~IsReference(event.block) /\ event.mask[2] \notin {"id", "ref"}

GoValidate(event) ==
    /\ event.op # "start" => event.model = None
    /\ CASE event.op = "start" ->
              /\ event.model # None /\ event.meta = None /\ event.block = None /\ event.mask = <<>>
              /\ GoValidateModel(event.model)
         [] event.op = "set" ->
              /\ (event.meta = None) # (event.block = None)
              /\ IF event.mask = <<>>
                   THEN event.block # None /\ GoValidateBlock(event.block)
                   ELSE /\ event.mask[1] = IF event.block # None THEN "block" ELSE "meta"
                        /\ event.block # None => GoValidateFieldPatch(event)
         [] event.op = "append" ->
              /\ event.block # None /\ event.meta = None
              /\ event.mask # <<>> /\ event.mask[1] = "block"
              /\ GoValidateFieldPatch(event)
         [] event.op = "error" ->
              /\ event.mask = <<"meta", "error">> /\ event.block = None
              /\ event.meta # None /\ Has(event.meta, "error", {"object"})
         [] OTHER -> event.meta = None /\ event.block = None /\ event.mask = <<>>

GoUpsertBlock(model, block) ==
    IF GoValidateBlock(block) /\ (IsReference(block) => model.version = "1.1")
      THEN PutBlock(model, block)
      ELSE Refused

\* A nil slice: a list with no items for every later append, null once encoded.
NilList == [kind |-> "list", items |-> <<>>, nil |-> TRUE]
\* append(old, added...) of nothing to nothing is nil.
GoConcatenated(old, delta) ==
    IF delta = List(<<>>) /\ old \in {None, Null, NilList} THEN NilList ELSE Concatenated(old, delta)

GoAppendByMask(model, event) ==
    LET field == event.mask[2]
        id == event.block.id
        block == model.blocks[Position(model.blocks, id)]
        value == GoConcatenated(IF field \in DOMAIN block.fields THEN block.fields[field] ELSE None,
                                event.block.fields[field])
    IN  CASE Len(event.mask) # 2 \/ field \notin DOMAIN event.block.fields -> Refused
          [] OTHER ->
               IF Holding(model.blocks, id) = {} THEN GoUpsertBlock(model, event.block)
               ELSE IF IsReference(block) \/ value = None THEN Refused
               ELSE PatchBlock(model, id, <<field>>, value)

GoApply(model, event) ==
    IF ~GoValidate(event) THEN Refused ELSE
      CASE event.op = "start" -> event.model
        [] event.op = "set" ->
             IF event.mask = <<>> THEN GoUpsertBlock(model, event.block) ELSE SetByMask(model, event)
        [] event.op = "error" -> SetByMask(model, event)
        [] event.op = "append" -> GoAppendByMask(model, event)
        [] OTHER -> model
================================================================================

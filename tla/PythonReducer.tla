----------------------------- MODULE PythonReducer -----------------------------
(***************************************************************************)
(* Validation and reduction of events in the Python SDK (event.py,         *)
(* model.py and apply.py of src/sdks/python/src/agentue).                  *)
(***************************************************************************)
EXTENDS UiEvent

\* ReferenceBlock forbids other fields; BaseBlock types none but its own.
PyValidateBlock(block) ==
    IF IsReference(block)
      THEN HasName(block.fields, "ref") /\ DOMAIN block.fields = {"ref"}
      ELSE HasName(block.fields, "type")

PyErrorInfo(meta) ==
    /\ Has(meta, "error", {"object"})
    /\ \A name \in {"code", "message"} : Has(meta["error"].fields, name, {"text"})

\* A version that is absent is 1.1, and blocks that are absent are none.
PyUIModel(model) ==
    /\ model.version \in {"none", "1.0", "1.1"}
    /\ "error" \in DOMAIN model.meta => Has(model.meta, "error", {"null"}) \/ PyErrorInfo(model.meta)
    /\ \A i \in DOMAIN model.blocks : /\ PyValidateBlock(model.blocks[i])
                                      /\ IsReference(model.blocks[i]) => model.version # "1.0"
    /\ UniqueIds(model.blocks)

\* Mutant of PyValidateFieldPatch: only the id is protected.
PyValidateFieldPatchOfId(event) == ~IsReference(event.block) /\ event.mask[2] # "id"
PyValidateFieldPatch(event) == ~IsReference(event.block) /\ event.mask[2] \notin {"id", "ref"}

PyValidate(event) ==
    /\ event.op # "start" => event.model = None
    /\ CASE event.op = "start" ->
              /\ event.model # None /\ event.meta = None /\ event.block = None
              /\ PyUIModel(event.model)
         [] event.op = "set" ->
              /\ (event.meta = None) # (event.block = None)
              /\ event.mask = <<>> => event.block # None
              /\ event.mask # <<>> => event.mask[1] = IF event.meta # None THEN "meta" ELSE "block"
              /\ event.block # None =>
                   IF event.mask = <<>> THEN PyValidateBlock(event.block) ELSE PyValidateFieldPatch(event)
         [] event.op = "append" ->
              /\ event.block # None /\ event.meta = None
              /\ event.mask # <<>> /\ event.mask[1] = "block"
              /\ PyValidateFieldPatch(event)
         [] event.op = "error" ->
              /\ event.mask = <<"meta", "error">> /\ event.block = None
              /\ event.meta # None /\ Has(event.meta, "error", {"object"})
         [] OTHER -> event.meta = None /\ event.block = None /\ event.mask = <<>>

\* Mutant of PyUpsertBlock: any version takes a reference.
PyUpsertBlockAnyVersion(model, block) ==
    IF PyValidateBlock(block) THEN PutBlock(model, block) ELSE Refused
PyUpsertBlock(model, block) ==
    IF PyValidateBlock(block) /\ (IsReference(block) => model.version = "1.1")
      THEN PutBlock(model, block)
      ELSE Refused

\* The delta is looked at before its block is.
PyAppendable(event) ==
    /\ Len(event.mask) = 2
    /\ Has(event.block.fields, event.mask[2], {"text", "list"})

PyApplyAppend(model, event) ==
    LET field == event.mask[2]
        id == event.block.id
        block == model.blocks[Position(model.blocks, id)]
        value == Concatenated(IF field \in DOMAIN block.fields THEN block.fields[field] ELSE None,
                              event.block.fields[field])
    IN  IF ~PyAppendable(event) THEN Refused
        ELSE IF Holding(model.blocks, id) = {} THEN
            IF PyValidateBlock(event.block) THEN PutBlock(model, event.block) ELSE Refused
        ELSE IF IsReference(block) \/ value = None THEN Refused
        ELSE PatchBlock(model, id, <<field>>, value)

PyApplyPatch(model, event) ==
    IF ~PyValidate(event) THEN Refused ELSE
      CASE event.op = "start" -> event.model
        [] event.op = "set" ->
             IF event.mask = <<>> THEN PyUpsertBlock(model, event.block) ELSE SetByMask(model, event)
        [] event.op = "error" -> SetByMask(model, event)
        [] event.op = "append" -> PyApplyAppend(model, event)
        [] OTHER -> model
================================================================================

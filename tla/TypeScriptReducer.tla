--------------------------- MODULE TypeScriptReducer ---------------------------
(***************************************************************************)
(* Validation and reduction of events in the TypeScript SDK (event.ts,     *)
(* model.ts and apply.ts of src/sdks/typescript/src/ui).                   *)
(***************************************************************************)
EXTENDS UiEvent

TsValidateBlock(block) ==
    IF IsReference(block)
      THEN HasName(block.fields, "ref") /\ DOMAIN block.fields = {"ref"}
      ELSE HasName(block.fields, "type") /\ OptionalText(block.fields, "group_id")

TsValidateError(meta) ==
    /\ Has(meta, "error", {"object"})
    /\ \A name \in {"code", "message"} : Has(meta["error"].fields, name, {"text"})

TsParseUIModel(model) ==
    /\ model.version \in {"1.0", "1.1"} /\ model.listed
    /\ "error" \in DOMAIN model.meta => Has(model.meta, "error", {"null"}) \/ TsValidateError(model.meta)
    /\ \A i \in DOMAIN model.blocks : /\ TsValidateBlock(model.blocks[i])
                                      /\ IsReference(model.blocks[i]) => model.version = "1.1"
    /\ UniqueIds(model.blocks)

TsValidateFieldPatch(event) == ~IsReference(event.block) /\ event.mask[2] \notin {"id", "ref"}

TsParsePatchEvent(event) ==
    /\ ~event.null
    /\ event.op # "start" => event.model = None
    /\ CASE event.op = "start" ->
              /\ event.model # None /\ event.meta = None /\ event.block = None
              /\ TsParseUIModel(event.model)
         [] event.op = "set" ->
              /\ (event.meta = None) # (event.block = None)
              /\ event.mask = <<>> => event.block # None
              /\ event.mask # <<>> => event.mask[1] = IF event.meta # None THEN "meta" ELSE "block"
              /\ event.block # None =>
                   IF event.mask = <<>> THEN TsValidateBlock(event.block) ELSE TsValidateFieldPatch(event)
         [] event.op = "append" ->
              /\ event.block # None /\ event.meta = None
              /\ event.mask # <<>> /\ event.mask[1] = "block"
              /\ TsValidateFieldPatch(event)
         [] event.op = "error" ->
              /\ event.mask = <<"meta", "error">> /\ event.block = None
              /\ event.meta # None /\ TsValidateError(event.meta)
         [] OTHER -> event.meta = None /\ event.block = None /\ event.mask = <<>>

\* Mutant of TsUpsertBlock: a block that is there stays.
TsUpsertBlockOnce(model, block) ==
    IF TsValidateBlock(block) /\ (IsReference(block) => model.version = "1.1")
      THEN IF Holding(model.blocks, block.id) = {} THEN PutBlock(model, block) ELSE model
      ELSE Refused
TsUpsertBlock(model, block) ==
    IF TsValidateBlock(block) /\ (IsReference(block) => model.version = "1.1")
      THEN PutBlock(model, block)
      ELSE Refused

TsApplyAppend(model, event) ==
    LET field == event.mask[2]
        id == event.block.id
        block == model.blocks[Position(model.blocks, id)]
        value == Concatenated(IF field \in DOMAIN block.fields THEN block.fields[field] ELSE None,
                              event.block.fields[field])
    IN  CASE Len(event.mask) # 2 \/ ~Has(event.block.fields, field, {"text", "list"}) -> Refused
          [] OTHER ->
               IF Holding(model.blocks, id) = {}
                 THEN IF TsValidateBlock(event.block) THEN PutBlock(model, event.block) ELSE Refused
                 ELSE IF IsReference(block) \/ value = None THEN Refused
                 ELSE PatchBlock(model, id, <<field>>, value)

TsApplyPatch(model, event) ==
    IF ~TsParsePatchEvent(event) THEN Refused ELSE
      CASE event.op = "start" -> event.model
        [] event.op = "set" ->
             IF event.mask = <<>> THEN TsUpsertBlock(model, event.block) ELSE SetByMask(model, event)
        [] event.op = "error" -> SetByMask(model, event)
        [] event.op = "append" -> TsApplyAppend(model, event)
        [] OTHER -> model
================================================================================

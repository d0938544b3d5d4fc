----------------------------- MODULE EmissionProofs ------------------------------
(***************************************************************************)
(* Theorems about the streams of Emission, those of an emitter and those   *)
(* of unknown origin, for any ids, any characters and any length: which    *)
(* refusals the clients share, what their models keep, that a model can be *)
(* started anew, and that an emitter's calls and its clients' models say   *)
(* the same.                                                               *)
(***************************************************************************)
EXTENDS ReducersProofs

--------------------------------------------------------------------------------
(* Blocks, fields and masks                                                 *)

\* PutBlock keeps every block but the one it puts, and the rest of the model.
LEMMA PutKeeps ==
    ASSUME NEW model, NEW block, IsSequence(model.blocks)
    PROVE  LET new == PutBlock(model, block)
           IN  /\ IsSequence(new.blocks)
               /\ new.version = model.version /\ new.meta = model.meta /\ new.listed
               /\ \A i \in DOMAIN new.blocks :
                      new.blocks[i] = block \/ (i \in DOMAIN model.blocks /\ new.blocks[i] = model.blocks[i])
  <1> DEFINE blocks == model.blocks
             new == PutBlock(model, block)
  <1>1. PICK S : blocks \in Seq(S)
    BY DEF IsSequence
  <1>2. blocks \in Seq(S \cup {block})
    BY <1>1
  <1>3. CASE Holding(blocks, block.id) = {}
    <2>1. new.blocks = Append(blocks, block)
      BY <1>3 DEF PutBlock, Model, ModelOf
    <2>2. new.blocks \in Seq(S \cup {block})
      BY <1>2, <2>1
    <2>3. \A i \in DOMAIN new.blocks : new.blocks[i] = block \/ (i \in DOMAIN blocks /\ new.blocks[i] = blocks[i])
      BY <1>2, <2>1
    <2> QED BY <2>2, <2>3 DEF PutBlock, Model, ModelOf, IsSequence
  <1>4. CASE Holding(blocks, block.id) # {}
    <2>1. new.blocks = [blocks EXCEPT ![Position(blocks, block.id)] = block]
      BY <1>4 DEF PutBlock, Model, ModelOf
    <2>2. new.blocks \in Seq(S \cup {block})
      <3>1. CASE Position(blocks, block.id) \in DOMAIN blocks
        BY <1>2, <2>1, <3>1
      <3>2. CASE Position(blocks, block.id) \notin DOMAIN blocks
        <4>1. new.blocks = blocks
          BY <1>2, <2>1, <3>2
        <4> QED BY <1>2, <4>1
      <3> QED BY <3>1, <3>2
    <2>3. \A i \in DOMAIN new.blocks : new.blocks[i] = block \/ (i \in DOMAIN blocks /\ new.blocks[i] = blocks[i])
      BY <2>1
    <2> QED BY <2>2, <2>3 DEF PutBlock, Model, ModelOf, IsSequence
  <1> QED BY <1>3, <1>4

\* A field patch changes one field of the object.
LEMMA WriteKeeps ==
    ASSUME NEW fields, NEW path, NEW value
    PROVE  LET new == WritePath(fields, path, value)
           IN  /\ DOMAIN new = DOMAIN fields \cup {path[1]}
               /\ \A name \in DOMAIN fields : name # path[1] => new[name] = fields[name]
               /\ Len(path) = 1 => new[path[1]] = value
  BY DEF WritePath, With

\* The masks of the streams' events.
Masks == {<<>>, <<"meta", "status">>, <<"meta", "error">>, <<"meta", "stats">>, <<"block", "id">>,
          <<"block", "content">>, <<"block", "type">>, <<"block", "group_id">>, <<"block", "tool">>,
          <<"block", "tool", "status">>, <<"block", "id", "status">>, <<"block", "ref", "status">>}

LEMMA MaskPath ==
    ASSUME NEW mask \in Masks, mask # <<>>
    PROVE  LET path == Tail(mask)
           IN  /\ path[1] = mask[2]
               /\ path[1] \in {"type", "group_id"} => mask \in {<<"block", "type">>, <<"block", "group_id">>}
               /\ path[1] = "error" => path = <<"error">>
  <1>1. ASSUME NEW a, NEW b, mask = <<a, b>>
        PROVE  Tail(mask) = <<b>> /\ mask[2] = b
    BY <1>1
  <1>2. ASSUME NEW a, NEW b, NEW c, mask = <<a, b, c>>
        PROVE  Tail(mask)[1] = b /\ mask[2] = b
    BY <1>2
  <1>3. CASE mask \in {<<"block", "tool", "status">>, <<"block", "id", "status">>, <<"block", "ref", "status">>}
    BY <1>2, <1>3
  <1>4. CASE mask \in {<<"meta", "status">>, <<"meta", "error">>, <<"meta", "stats">>, <<"block", "id">>}
    BY <1>1, <1>4
  <1>5. CASE mask \in {<<"block", "content">>, <<"block", "type">>, <<"block", "group_id">>, <<"block", "tool">>}
    BY <1>1, <1>5
  <1> QED BY <1>3, <1>4, <1>5 DEF Masks

--------------------------------------------------------------------------------
(* What the streams carry                                                   *)

\* No block has a group_id that two SDKs refuse and one takes.
Grouped(model) == \A i \in DOMAIN model.blocks : ~BadGroup(model.blocks[i])

\* Events of a stream, valid or not: their masks are among Masks, and their models
\* have sequences of blocks.
Streamed(event) ==
    /\ event.mask \in Masks
    /\ event.op = "start" => IsSequence(event.model.blocks) /\ Grouped(event.model)

\* So are the events of unknown origin.
LEMMA FedStreamed ==
    ASSUME NEW event \in Events
    PROVE  Streamed(event)
  <1>1. event.mask \in Masks
    <2>1. CASE event \in Starts
      BY <2>1 DEF Starts, Event, EventOf, Masks
    <2>2. CASE event \notin Starts
      BY <2>2 DEF Events, Others, Event, EventOf, Masks, BlockMasks
    <2> QED BY <2>1, <2>2
  <1>2. ASSUME event.op = "start"
        PROVE  Grouped(event.model)
    <2>1. event \in Starts
      BY <1>2 DEF Events, Others, Event, EventOf
    <2>2. ASSUME NEW model \in Models
          PROVE  Grouped(model)
      BY <2>2 DEF Models, Model, ModelOf, Grouped, BadGroup, OptionalText, Block, Plain
    <2>3. ASSUME NEW model \in Partials
          PROVE  Grouped(model)
      BY <2>3 DEF Partials, Model, ModelOf, Grouped, BadGroup, OptionalText, Block
    <2> QED BY <2>1, <2>2, <2>3 DEF Starts, Event, EventOf, Model, ModelOf, Grouped
  <1> QED BY <1>1, <1>2, StartSequence DEF Streamed

--------------------------------------------------------------------------------
(* One event                                                                *)

\* A field patch that a validator takes is of one field, neither the id nor ref,
\* of a block that is there and inline, or of meta.
LEMMA PatchedAs ==
    ASSUME NEW model, NEW event, Streamed(event), event.op \in {"set", "error"}, event.mask # <<>>,
           GoValidate(event) \/ PyValidate(event) \/ TsParsePatchEvent(event),
           SetByMask(model, event) # Refused
    PROVE  LET path == Tail(event.mask)
               value == ReadPath(IF event.meta # None THEN event.meta ELSE event.block.fields, path)
           IN  \/ /\ event.mask[1] = "meta" /\ event.meta # None /\ value # None
                  /\ SetByMask(model, event) = PatchMeta(model, path, value)
               \/ /\ event.mask[1] = "block" /\ event.op = "set"
                  /\ path[1] \notin {"id", "ref"} /\ Inline(model, event.block.id)
                  /\ SetByMask(model, event) = PatchBlock(model, event.block.id, path, value)
  <1> DEFINE path == Tail(event.mask)
             value == ReadPath(IF event.meta # None THEN event.meta ELSE event.block.fields, path)
  <1>1. path[1] = event.mask[2]
    BY MaskPath DEF Streamed
  <1>2. event.mask[1] \in {"meta", "block"}
    BY DEF Streamed, Masks
  <1>3. \/ event.mask[1] = "meta" /\ event.meta # None
        \/ event.mask[1] = "block" /\ event.op = "set" /\ event.mask[2] \notin {"id", "ref"}
    <2>1. CASE event.op = "error"
      <3>1. event.mask = <<"meta", "error">> /\ event.meta # None
        BY <2>1 DEF GoValidate, PyValidate, TsParsePatchEvent
      <3> QED BY <3>1
    <2>2. CASE event.op = "set"
      <3>1. /\ (event.meta = None) # (event.block = None)
            /\ event.mask[1] = IF event.meta # None THEN "meta" ELSE "block"
            /\ event.block # None => event.mask[2] \notin {"id", "ref"}
        BY <2>2 DEF GoValidate, PyValidate, TsParsePatchEvent, GoValidateFieldPatch, PyValidateFieldPatch, TsValidateFieldPatch
      <3> QED BY <2>2, <3>1
    <2> QED BY <2>1, <2>2
  <1> HIDE DEF path, value
  <1>4. SetByMask(model, event) =
          CASE value = None -> Refused
            [] value # None /\ event.mask[1] = "meta" -> PatchMeta(model, path, value)
            [] OTHER -> IF event.mask[1] = "block" /\ Inline(model, event.block.id)
                          THEN PatchBlock(model, event.block.id, path, value)
                          ELSE Refused
    BY DEF SetByMask, Patched, path, value
  <1>5. CASE event.mask[1] = "meta"
    BY <1>3, <1>4, <1>5 DEF path, value
  <1>6. CASE event.mask[1] = "block"
    BY <1>1, <1>3, <1>4, <1>6 DEF path, value
  <1> QED BY <1>2, <1>5, <1>6

\* An append that is taken adds a block that its SDK takes for a whole one and
\* that is no reference, or appends to one field, neither the id nor ref, of one
\* that is there and inline.
LEMMA AppendedAs ==
    ASSUME NEW s \in Sdks, NEW model, NEW event, event.op = "append", Reduce(s, model, event) # Refused
    PROVE  LET new == Reduce(s, model, event)
           IN  \/ /\ ~IsReference(event.block)
                  /\ CASE s = "go" -> GoValidateBlock(event.block)
                       [] s = "python" -> PyValidateBlock(event.block)
                       [] s = "typescript" -> TsValidateBlock(event.block)
                  /\ new = PutBlock(model, event.block)
               \/ /\ event.mask[2] \notin {"id", "ref"} /\ event.mask[1] = "block" /\ Len(event.mask) = 2
                  /\ Inline(model, event.block.id)
                  /\ \E value : new = PatchBlock(model, event.block.id, <<event.mask[2]>>, value)
  <1> DEFINE id == event.block.id
             field == event.mask[2]
             taken == CASE s = "go" -> GoAppendByMask(model, event)
                        [] s = "python" -> PyApplyAppend(model, event)
                        [] s = "typescript" -> TsApplyAppend(model, event)
  <1>1. /\ Reduce(s, model, event) = taken /\ ~IsReference(event.block)
        /\ event.mask[2] \notin {"id", "ref"} /\ event.mask[1] = "block"
    <2>1. CASE s = "go"
      BY <2>1 DEF Reduce, GoApply, GoValidate, GoValidateFieldPatch
    <2>2. CASE s = "python"
      BY <2>2 DEF Reduce, PyApplyPatch, PyValidate, PyValidateFieldPatch
    <2>3. CASE s = "typescript"
      BY <2>3 DEF Reduce, TsApplyPatch, TsParsePatchEvent, TsValidateFieldPatch
    <2> QED BY <2>1, <2>2, <2>3 DEF Sdks
  <1>2. /\ Len(event.mask) = 2
        /\ Holding(model.blocks, id) # {} => ~IsReference(Held(model, id))
    <2>1. CASE s = "go"
      BY <1>1, <2>1 DEF GoAppendByMask, Held
    <2>2. CASE s = "python"
      BY <1>1, <2>2 DEF PyApplyAppend, PyAppendable, Held
    <2>3. CASE s = "typescript"
      BY <1>1, <2>3 DEF TsApplyAppend, Held
    <2> QED BY <2>1, <2>2, <2>3 DEF Sdks
  <1>3. Holding(model.blocks, id) = {} =>
           CASE s = "go" -> GoValidateBlock(event.block)
             [] s = "python" -> PyValidateBlock(event.block)
             [] s = "typescript" -> TsValidateBlock(event.block)
    BY <1>1 DEF Sdks, GoAppendByMask, GoUpsertBlock, PyApplyAppend, TsApplyAppend
  <1> DEFINE value == Appended(s, OldField(model, id, field), event.block.fields[field])
  <1>4. Reduce(s, model, event) = IF Holding(model.blocks, id) = {} THEN PutBlock(model, event.block)
                                  ELSE PatchBlock(model, id, <<field>>, value)
    <2>1. Reduce(s, model, event) = Result(s, model, event)
      BY ReduceResult
    <2> QED BY <2>1 DEF Result
  <1> HIDE DEF taken, value
  <1>5. CASE Holding(model.blocks, id) = {}
    BY <1>1, <1>3, <1>4, <1>5
  <1>6. CASE Holding(model.blocks, id) # {}
    <2>1. Inline(model, id)
      BY <1>2, <1>6 DEF Inline, Held
    <2> QED BY <1>1, <1>2, <1>4, <1>6, <2>1
  <1> QED BY <1>5, <1>6

\* A whole block that is taken is put as it is.
LEMMA UpsertedAs ==
    ASSUME NEW s \in Sdks, NEW model, NEW event, event.op = "set", event.mask = <<>>,
           Reduce(s, model, event) # Refused
    PROVE  /\ IsReference(event.block) => model.version = "1.1"
           /\ CASE s = "go" -> GoValidateBlock(event.block)
                [] s = "python" -> PyValidateBlock(event.block)
                [] s = "typescript" -> TsValidateBlock(event.block)
           /\ Reduce(s, model, event) = PutBlock(model, event.block)
  <1>1. CASE s = "go"
    BY <1>1 DEF Reduce, GoApply, GoUpsertBlock
  <1>2. CASE s = "python"
    BY <1>2 DEF Reduce, PyApplyPatch, PyUpsertBlock
  <1>3. CASE s = "typescript"
    BY <1>3 DEF Reduce, TsApplyPatch, TsUpsertBlock
  <1> QED BY <1>1, <1>2, <1>3 DEF Sdks

\* A start that is taken is a model its SDK takes; a field patch goes through its
\* validator; the rest changes nothing.
LEMMA OtherwiseAs ==
    ASSUME NEW s \in Sdks, NEW model, NEW event, Reduce(s, model, event) # Refused
    PROVE  /\ event.op = "start" => Reduce(s, model, event) = event.model /\ ValidModel(s, event.model)
           /\ event.op = "error" => event.mask # <<>>
           /\ (event.op = "set" /\ event.mask # <<>>) \/ event.op = "error" =>
                 /\ Reduce(s, model, event) = SetByMask(model, event)
                 /\ GoValidate(event) \/ PyValidate(event) \/ TsParsePatchEvent(event)
           /\ event.op \notin {"start", "set", "error", "append"} => Reduce(s, model, event) = model
  <1>1. CASE s = "go"
    BY <1>1 DEF Reduce, GoApply, GoValidate, ValidModel
  <1>2. CASE s = "python"
    BY <1>2 DEF Reduce, PyApplyPatch, PyValidate, ValidModel
  <1>3. CASE s = "typescript"
    BY <1>3 DEF Reduce, TsApplyPatch, TsParsePatchEvent, ValidModel
  <1> QED BY <1>1, <1>2, <1>3 DEF Sdks

--------------------------------------------------------------------------------
(* References                                                               *)

\* What ReferencesStayBare says of one model.
Bare(model) ==
    \A i \in DOMAIN model.blocks :
        IsReference(model.blocks[i]) => DOMAIN model.blocks[i].fields = {"ref"} /\ model.version # "1.0"

\* A block that is put is none, or a bare one in a model that takes it; the patch
\* of an inline block leaves it inline.
LEMMA BarePut ==
    ASSUME NEW model, IsSequence(model.blocks), Bare(model), NEW block,
           IsReference(block) => DOMAIN block.fields = {"ref"} /\ model.version # "1.0"
    PROVE  Bare(PutBlock(model, block))
  BY PutKeeps DEF Bare

LEMMA BarePatch ==
    ASSUME NEW model, IsSequence(model.blocks), Bare(model), NEW id, NEW path, NEW value,
           Inline(model, id), path[1] # "ref"
    PROVE  Bare(PatchBlock(model, id, path, value))
  <1> DEFINE block == model.blocks[Position(model.blocks, id)]
             fields == WritePath(block.fields, path, value)
  <1>1. "ref" \notin DOMAIN block.fields
    BY DEF Inline, IsReference
  <1>2. DOMAIN fields = DOMAIN block.fields \cup {path[1]}
    BY WriteKeeps
  <1>3. Block(id, fields).fields = fields
    BY DEF Block
  <1> HIDE DEF fields
  <1>4. ~IsReference(Block(id, fields))
    BY <1>1, <1>2, <1>3 DEF IsReference
  <1> QED BY <1>4, BarePut DEF PatchBlock, fields

LEMMA BareStep ==
    ASSUME NEW s \in Sdks, NEW model, IsSequence(model.blocks), Bare(model), NEW event, Streamed(event),
           Reduce(s, model, event) # Refused
    PROVE  IsSequence(Reduce(s, model, event).blocks) /\ Bare(Reduce(s, model, event))
  <1> DEFINE new == Reduce(s, model, event)
  <1> HIDE DEF new
  <1>1. \A block : IsSequence(PutBlock(model, block).blocks)
    BY PutKeeps
  <1>2. \A id, path, value : IsSequence(PatchBlock(model, id, path, value).blocks)
    BY <1>1 DEF PatchBlock
  <1>3. CASE event.op = "start"
    <2>1. new = event.model /\ ValidModel(s, event.model)
      BY <1>3, OtherwiseAs DEF new
    <2>2. Bare(event.model)
      BY <2>1 DEF ValidModel, Sdks, GoValidateModel, GoValidateBlock, PyUIModel, PyValidateBlock, TsParseUIModel, TsValidateBlock, Bare
    <2> QED BY <1>3, <2>1, <2>2 DEF Streamed, new
  <1>4. CASE event.op = "set" /\ event.mask = <<>>
    <2>1. /\ IsReference(event.block) => DOMAIN event.block.fields = {"ref"} /\ model.version # "1.0"
          /\ new = PutBlock(model, event.block)
      BY <1>4, UpsertedAs DEF Sdks, GoValidateBlock, PyValidateBlock, TsValidateBlock, new
    <2> QED BY <1>1, <2>1, BarePut DEF new
  <1>5. CASE (event.op = "set" /\ event.mask # <<>>) \/ event.op = "error"
    <2>1. new = SetByMask(model, event) /\ event.mask # <<>>
          /\ (GoValidate(event) \/ PyValidate(event) \/ TsParsePatchEvent(event))
      BY <1>5, OtherwiseAs DEF new
    <2>2. \/ \E path, value : new = PatchMeta(model, path, value)
          \/ \E path, value : /\ path[1] # "ref" /\ Inline(model, event.block.id)
                              /\ new = PatchBlock(model, event.block.id, path, value)
      BY <1>5, <2>1, PatchedAs DEF new
    <2>3. CASE \E path, value : new = PatchMeta(model, path, value)
      BY <2>3 DEF PatchMeta, ModelOf, Bare, new
    <2> QED BY <1>2, <2>2, <2>3, BarePatch DEF new
  <1>6. CASE event.op = "append"
    <2>1. CASE ~IsReference(event.block) /\ new = PutBlock(model, event.block)
      BY <1>1, <2>1, BarePut DEF new
    <2>2. CASE /\ event.mask[2] \notin {"id", "ref"} /\ Inline(model, event.block.id)
               /\ \E value : new = PatchBlock(model, event.block.id, <<event.mask[2]>>, value)
      <3> DEFINE path == <<event.mask[2]>>
      <3>1. path[1] # "ref"
        BY <2>2
      <3>2. PICK value : new = PatchBlock(model, event.block.id, path, value)
        BY <2>2
      <3> HIDE DEF path
      <3>3. IsSequence(new.blocks) /\ Bare(new)
        BY <1>2, <2>2, <3>1, <3>2, BarePatch
      <3> QED BY <3>3 DEF new
    <2>3. \/ ~IsReference(event.block) /\ new = PutBlock(model, event.block)
          \/ /\ event.mask[2] \notin {"id", "ref"} /\ Inline(model, event.block.id)
             /\ \E value : new = PatchBlock(model, event.block.id, <<event.mask[2]>>, value)
      BY <1>6, AppendedAs DEF new
    <2> QED BY <2>1, <2>2, <2>3
  <1>7. CASE event.op \notin {"start", "set", "error", "append"}
    BY <1>7, OtherwiseAs
  <1> QED BY <1>3, <1>4, <1>5, <1>6, <1>7

--------------------------------------------------------------------------------
(* Disagreements                                                            *)

\* The results of the reducers' writes are no refusals.
LEMMA WrittenTaken ==
    ASSUME NEW model
    PROVE  /\ \A block : PutBlock(model, block) # Refused
           /\ \A path, value : PatchMeta(model, path, value) # Refused
           /\ \A id, path, value : PatchBlock(model, id, path, value) # Refused
  <1>1. \A version, meta, blocks, listed : ModelOf(version, meta, blocks, listed) # Refused
    <2> TAKE version, meta, blocks, listed
    <2>1. "version" \in DOMAIN ModelOf(version, meta, blocks, listed) /\ "version" \notin DOMAIN Refused
      BY DEF ModelOf, Refused
    <2> QED BY <2>1
  <1>2. \A block : PutBlock(model, block) # Refused
    BY <1>1 DEF PutBlock, Model
  <1>3. \A path, value : PatchMeta(model, path, value) # Refused
    BY <1>1 DEF PatchMeta
  <1>4. \A id, path, value : PatchBlock(model, id, path, value) # Refused
    BY <1>2 DEF PatchBlock
  <1> QED BY <1>2, <1>3, <1>4

\* A reducer refuses an event for models that read the same, or for neither.
LEMMA RefusedReads ==
    ASSUME NEW s \in Sdks, NEW a, NEW b, ReadAlike(a, b), Sound(a), Sound(b), a # Refused, b # Refused,
           NEW event
    PROVE  Reduce(s, a, event) = Refused <=> Reduce(s, b, event) = Refused
  <1> DEFINE id == event.block.id
             field == event.mask[2]
             delta == event.block.fields[field]
             value(r, m) == Appended(r, OldField(m, id, field), delta)
  <1>1. a.version = b.version
    BY DEF ReadAlike
  <1>2. /\ GoUpsertBlock(a, event.block) = Refused <=> GoUpsertBlock(b, event.block) = Refused
        /\ PyUpsertBlock(a, event.block) = Refused <=> PyUpsertBlock(b, event.block) = Refused
        /\ TsUpsertBlock(a, event.block) = Refused <=> TsUpsertBlock(b, event.block) = Refused
    BY <1>1, WrittenTaken DEF GoUpsertBlock, PyUpsertBlock, TsUpsertBlock
  <1>3. SetByMask(a, event) = Refused <=> SetByMask(b, event) = Refused
    <2>1. Inline(a, id) <=> Inline(b, id)
      BY ReadPlaces
    <2> QED BY <2>1, WrittenTaken DEF SetByMask, Patched
  <1>4. Holding(a.blocks, id) = Holding(b.blocks, id)
    BY ReadPlaces
  <1>5. ASSUME Holding(a.blocks, id) # {}
        PROVE  /\ IsReference(Held(a, id)) <=> IsReference(Held(b, id))
               /\ \A r : value(r, a) = None <=> value(r, b) = None
    <2>1. IsReference(Held(a, id)) <=> IsReference(Held(b, id))
      BY <1>5, ReadPlaces DEF Held
    <2>2. Filled(OldField(a, id, field)) = Filled(OldField(b, id, field))
      BY <1>5, OldFieldReads
    <2> QED BY <2>1, <2>2, AppendedReads
  <1>6. GoAppendByMask(a, event) = Refused <=> GoAppendByMask(b, event) = Refused
    <2>1. \A m \in {a, b} : GoAppendByMask(m, event) =
              IF Len(event.mask) # 2 \/ field \notin DOMAIN event.block.fields THEN Refused
              ELSE IF Holding(m.blocks, id) = {} THEN GoUpsertBlock(m, event.block)
              ELSE IF IsReference(Held(m, id)) \/ value("go", m) = None THEN Refused
              ELSE PatchBlock(m, id, <<field>>, value("go", m))
      BY DEF GoAppendByMask, Appended, OldField, Held
    <2> HIDE DEF value, id, field
    <2> QED BY <1>2, <1>4, <1>5, <2>1, WrittenTaken
  <1>7. PyApplyAppend(a, event) = Refused <=> PyApplyAppend(b, event) = Refused
    <2>1. \A m \in {a, b} : PyApplyAppend(m, event) =
              IF ~PyAppendable(event) THEN Refused
              ELSE IF Holding(m.blocks, id) = {}
                     THEN IF PyValidateBlock(event.block) THEN PutBlock(m, event.block) ELSE Refused
              ELSE IF IsReference(Held(m, id)) \/ value("python", m) = None THEN Refused
              ELSE PatchBlock(m, id, <<field>>, value("python", m))
      BY DEF PyApplyAppend, Appended, OldField, Held
    <2> HIDE DEF value, id, field
    <2> QED BY <1>4, <1>5, <2>1, WrittenTaken
  <1>8. TsApplyAppend(a, event) = Refused <=> TsApplyAppend(b, event) = Refused
    <2>1. \A m \in {a, b} : TsApplyAppend(m, event) =
              IF Len(event.mask) # 2 \/ ~Has(event.block.fields, field, {"text", "list"}) THEN Refused
              ELSE IF Holding(m.blocks, id) = {}
                     THEN IF TsValidateBlock(event.block) THEN PutBlock(m, event.block) ELSE Refused
              ELSE IF IsReference(Held(m, id)) \/ value("typescript", m) = None THEN Refused
              ELSE PatchBlock(m, id, <<field>>, value("typescript", m))
      BY DEF TsApplyAppend, Appended, OldField, Held
    <2> HIDE DEF value, id, field
    <2> QED BY <1>4, <1>5, <2>1, WrittenTaken
  <1>9. GoApply(a, event) = Refused <=> GoApply(b, event) = Refused
    BY <1>2, <1>3, <1>6 DEF GoApply
  <1>10. PyApplyPatch(a, event) = Refused <=> PyApplyPatch(b, event) = Refused
    BY <1>2, <1>3, <1>7 DEF PyApplyPatch
  <1>11. TsApplyPatch(a, event) = Refused <=> TsApplyPatch(b, event) = Refused
    BY <1>2, <1>3, <1>8 DEF TsApplyPatch
  <1> QED BY <1>9, <1>10, <1>11 DEF Reduce, Sdks

\* Every event but the contested ones is refused by all reducers or by none that
\* come to it with models that read the same.
LEMMA UncontestedSame ==
    ASSUME NEW s \in Sdks, NEW t \in Sdks, NEW a, NEW b, ReadAlike(a, b), Sound(a), Sound(b),
           a # Refused, b # Refused, NEW event, Streamed(event), ~Contested(event)
    PROVE  Reduce(s, a, event) = Refused <=> Reduce(t, b, event) = Refused
  <1>1. event.block # None =>
           /\ GoValidateBlock(event.block) <=> TsValidateBlock(event.block)
           /\ PyValidateBlock(event.block) <=> TsValidateBlock(event.block)
    BY DEF Contested, BadGroup, GoValidateBlock, PyValidateBlock, TsValidateBlock
  <1>2. /\ GoValidateFieldPatch(event) <=> TsValidateFieldPatch(event)
        /\ PyValidateFieldPatch(event) <=> TsValidateFieldPatch(event)
        /\ ~event.null
    BY DEF Contested, GoValidateFieldPatch, PyValidateFieldPatch, TsValidateFieldPatch
  <1>3. ASSUME event.op = "start"
        PROVE  Reduce(s, a, event) = Refused <=> Reduce(t, a, event) = Refused
    <2>1. /\ GoValidateModel(event.model) <=> TsParseUIModel(event.model)
          /\ PyUIModel(event.model) <=> TsParseUIModel(event.model)
      BY <1>3 DEF Streamed, Grouped, BadGroup, Contested, Malformed, GoValidateModel, PyUIModel, TsParseUIModel, GoValidateBlock, PyValidateBlock, TsValidateBlock, PyErrorInfo, TsValidateError
    <2>2. event.mask = <<>>
      BY <1>3 DEF Contested
    <2>3. /\ GoValidate(event) <=> TsParsePatchEvent(event)
          /\ PyValidate(event) <=> TsParsePatchEvent(event)
      BY <1>2, <1>3, <2>1, <2>2 DEF GoValidate, PyValidate, TsParsePatchEvent
    <2> QED BY <1>3, <2>3 DEF Reduce, Sdks, GoApply, PyApplyPatch, TsApplyPatch
  <1>4. ASSUME event.op = "set"
        PROVE  Reduce(s, a, event) = Refused <=> Reduce(t, a, event) = Refused
    <2>1. /\ GoValidate(event) <=> TsParsePatchEvent(event)
          /\ PyValidate(event) <=> TsParsePatchEvent(event)
      BY <1>1, <1>2, <1>4 DEF GoValidate, PyValidate, TsParsePatchEvent
    <2>2. TsParsePatchEvent(event) /\ event.mask = <<>> => event.block # None
      BY <1>4 DEF TsParsePatchEvent
    <2>3. TsParsePatchEvent(event) /\ event.mask = <<>> =>
             /\ GoUpsertBlock(a, event.block) = TsUpsertBlock(a, event.block)
             /\ PyUpsertBlock(a, event.block) = TsUpsertBlock(a, event.block)
      BY <1>1, <2>2 DEF GoUpsertBlock, PyUpsertBlock, TsUpsertBlock
    <2> QED BY <1>4, <2>1, <2>3 DEF Reduce, Sdks, GoApply, PyApplyPatch, TsApplyPatch
  <1>5. ASSUME event.op = "append"
        PROVE  Reduce(s, a, event) = Refused <=> Reduce(t, a, event) = Refused
    <2>1. /\ GoValidate(event) <=> TsParsePatchEvent(event)
          /\ PyValidate(event) <=> TsParsePatchEvent(event)
          /\ TsParsePatchEvent(event) => event.block # None /\ ~IsReference(event.block)
      BY <1>2, <1>5 DEF GoValidate, PyValidate, TsParsePatchEvent, TsValidateFieldPatch
    <2>2. Has(event.block.fields, event.mask[2], {"text", "list"})
      BY <1>5 DEF Contested
    <2> DEFINE id == event.block.id
               field == event.mask[2]
               delta == event.block.fields[field]
               old == OldField(a, id, field)
    <2>3. Appended("go", old, delta) = None <=> Concatenated(old, delta) = None
      <3>1. Concatenated(old, delta) = Appended("python", old, delta)
        BY DEF Appended
      <3> QED BY <3>1, AppendedReads
    <2>4. /\ Len(event.mask) = 2 => PyAppendable(event)
          /\ field \in DOMAIN event.block.fields
      BY <2>2 DEF PyAppendable, Has
    <2>5. GoAppendByMask(a, event) =
              IF Len(event.mask) # 2 THEN Refused
              ELSE IF Holding(a.blocks, id) = {} THEN GoUpsertBlock(a, event.block)
              ELSE IF IsReference(Held(a, id)) \/ Appended("go", old, delta) = None THEN Refused
              ELSE PatchBlock(a, id, <<field>>, Appended("go", old, delta))
      BY <2>4 DEF GoAppendByMask, Appended, OldField, Held
    <2>6. PyApplyAppend(a, event) =
              IF Len(event.mask) # 2 THEN Refused
              ELSE IF Holding(a.blocks, id) = {}
                     THEN IF PyValidateBlock(event.block) THEN PutBlock(a, event.block) ELSE Refused
              ELSE IF IsReference(Held(a, id)) \/ Concatenated(old, delta) = None THEN Refused
              ELSE PatchBlock(a, id, <<field>>, Concatenated(old, delta))
      BY <2>4 DEF PyApplyAppend, PyAppendable, OldField, Held
    <2>7. TsApplyAppend(a, event) =
              IF Len(event.mask) # 2 THEN Refused
              ELSE IF Holding(a.blocks, id) = {}
                     THEN IF TsValidateBlock(event.block) THEN PutBlock(a, event.block) ELSE Refused
              ELSE IF IsReference(Held(a, id)) \/ Concatenated(old, delta) = None THEN Refused
              ELSE PatchBlock(a, id, <<field>>, Concatenated(old, delta))
      BY <2>2 DEF TsApplyAppend, OldField, Held
    <2>8. TsParsePatchEvent(event) =>
             /\ GoAppendByMask(a, event) = Refused <=> TsApplyAppend(a, event) = Refused
             /\ PyApplyAppend(a, event) = TsApplyAppend(a, event)
      <3>1. TsParsePatchEvent(event) =>
               GoUpsertBlock(a, event.block) =
                   IF TsValidateBlock(event.block) THEN PutBlock(a, event.block) ELSE Refused
        BY <1>1, <2>1 DEF GoUpsertBlock
      <3> HIDE DEF id, field, delta, old
      <3> QED BY <1>1, <2>1, <2>3, <2>5, <2>6, <2>7, <3>1, WrittenTaken
    <2> QED BY <1>5, <2>1, <2>8 DEF Reduce, Sdks, GoApply, PyApplyPatch, TsApplyPatch
  <1>6. ASSUME event.op = "error"
        PROVE  Reduce(s, a, event) = Refused <=> Reduce(t, a, event) = Refused
    <2>1. event.meta # None /\ Has(event.meta, "error", {"object"}) => TsValidateError(event.meta)
      BY <1>6 DEF Contested, Malformed, Has
    <2>2. /\ GoValidate(event) <=> TsParsePatchEvent(event)
          /\ PyValidate(event) <=> TsParsePatchEvent(event)
      BY <1>2, <1>6, <2>1 DEF GoValidate, PyValidate, TsParsePatchEvent, TsValidateError
    <2> QED BY <1>6, <2>2 DEF Reduce, Sdks, GoApply, PyApplyPatch, TsApplyPatch
  <1>7. ASSUME event.op \notin {"start", "set", "append", "error"}
        PROVE  Reduce(s, a, event) = Refused <=> Reduce(t, a, event) = Refused
    <2>1. /\ GoValidate(event) <=> TsParsePatchEvent(event)
          /\ PyValidate(event) <=> TsParsePatchEvent(event)
      BY <1>2, <1>7 DEF GoValidate, PyValidate, TsParsePatchEvent
    <2> QED BY <1>7, <2>1 DEF Reduce, Sdks, GoApply, PyApplyPatch, TsApplyPatch
  <1> QED BY <1>3, <1>4, <1>5, <1>6, <1>7, RefusedReads

--------------------------------------------------------------------------------
(* What an emitter sends                                                    *)

\* A patch of an inline block changes the fields of that block, and nothing else.
LEMMA PatchKeeps ==
    ASSUME NEW model, IsSequence(model.blocks), NEW id, NEW path, NEW value, Inline(model, id)
    PROVE  LET new == PatchBlock(model, id, path, value)
           IN  /\ IsSequence(new.blocks)
               /\ new.version = model.version /\ new.meta = model.meta /\ new.listed
               /\ \A i \in DOMAIN new.blocks :
                      /\ i \in DOMAIN model.blocks
                      /\ \/ new.blocks[i] = model.blocks[i]
                         \/ /\ ~IsReference(model.blocks[i])
                            /\ new.blocks[i] = Block(id, WritePath(model.blocks[i].fields, path, value))
  <1> DEFINE at == Position(model.blocks, id)
             block == Block(id, WritePath(model.blocks[at].fields, path, value))
             new == PatchBlock(model, id, path, value)
  <1>1. new = PutBlock(model, block) /\ block.id = id
    BY DEF PatchBlock, Block
  <1>2. new.blocks = [model.blocks EXCEPT ![at] = block] /\ ~IsReference(model.blocks[at])
    BY <1>1 DEF PutBlock, Model, ModelOf, Inline
  <1> HIDE DEF new, at
  <1>3. \A i \in DOMAIN new.blocks :
            /\ i \in DOMAIN model.blocks
            /\ new.blocks[i] = model.blocks[i] \/ (i = at /\ new.blocks[i] = block)
    BY <1>2
  <1>4. /\ IsSequence(new.blocks)
        /\ new.version = model.version /\ new.meta = model.meta /\ new.listed
    BY <1>1, PutKeeps
  <1> QED BY <1>2, <1>3, <1>4 DEF new

LEMMA GroupedPut ==
    ASSUME NEW model, IsSequence(model.blocks), Grouped(model), NEW block, ~BadGroup(block)
    PROVE  IsSequence(PutBlock(model, block).blocks) /\ Grouped(PutBlock(model, block))
  BY PutKeeps DEF Grouped

LEMMA GroupedPatch ==
    ASSUME NEW model, IsSequence(model.blocks), Grouped(model), NEW id, NEW path, NEW value,
           Inline(model, id), path[1] # "group_id"
    PROVE  IsSequence(PatchBlock(model, id, path, value).blocks) /\ Grouped(PatchBlock(model, id, path, value))
  <1>1. ASSUME NEW block, ~BadGroup(block)
        PROVE  ~BadGroup(Block(id, WritePath(block.fields, path, value)))
    <2> DEFINE fields == WritePath(block.fields, path, value)
    <2>1. /\ DOMAIN fields = DOMAIN block.fields \cup {path[1]}
          /\ "group_id" \in DOMAIN block.fields => fields["group_id"] = block.fields["group_id"]
      <3>1. \A name \in DOMAIN block.fields : name # path[1] => fields[name] = block.fields[name]
        BY DEF WritePath, With
      <3> QED BY <3>1, WriteKeeps
    <2>2. Block(id, fields).fields = fields
      BY DEF Block
    <2> HIDE DEF fields
    <2>3. ~BadGroup(Block(id, fields))
      BY <1>1, <2>1, <2>2 DEF BadGroup, OptionalText
    <2> QED BY <2>3 DEF fields
  <1> QED BY <1>1, PatchKeeps DEF Grouped

\* What an emitter leaves out of a start makes no difference to it.
LEMMA DumpStreamed ==
    ASSUME NEW model, IsSequence(model.blocks), Grouped(model)
    PROVE  Streamed(StartOf(DumpModel(model)))
  <1>1. IsSequence(Trimmed(model).blocks) /\ Grouped(Trimmed(model))
    <2> DEFINE blocks == [i \in DOMAIN model.blocks |->
                             Block(model.blocks[i].id, NonNull(model.blocks[i].fields))]
    <2>1. Trimmed(model).blocks = blocks
      BY DEF Trimmed, Model, ModelOf
    <2>2. blocks \in Seq({blocks[i] : i \in DOMAIN model.blocks})
      BY DEF IsSequence
    <2>3. ASSUME NEW i \in DOMAIN model.blocks PROVE ~BadGroup(blocks[i])
      <3>1. ~BadGroup(model.blocks[i])
        BY DEF Grouped
      <3> QED BY <3>1 DEF BadGroup, OptionalText, NonNull, Block
    <2> HIDE DEF blocks
    <2>4. DOMAIN blocks = DOMAIN model.blocks
      BY DEF blocks
    <2> QED BY <2>1, <2>2, <2>3, <2>4 DEF IsSequence, Grouped
  <1>2. IsSequence(DumpModel(model).blocks) /\ Grouped(DumpModel(model))
    BY <1>1 DEF DumpModel
  <1> QED BY <1>2 DEF Streamed, StartOf, Event, EventOf, Masks

\* The model that the calls describe can be carried by a start.
IntentInv == intent # None => IsSequence(intent.blocks) /\ Grouped(intent)

LEMMA InlinesGrouped ==
    ASSUME NEW id, NEW fields
    PROVE  /\ ~BadGroup(Block(id, [ref |-> Word]))
           /\ fields \in Inlines /\ "content" \in DOMAIN fields => ~BadGroup(Block(id, fields))
  BY DEF Inlines, Plain, Block, BadGroup, OptionalText

\* A call sends an event of the emitter's, or changes no client; what it describes
\* remains a model.
LEMMA MakesStep ==
    ASSUME IntentInv, NEW event, NEW seq, NEW wanted, Makes(event, seq, wanted), Streamed(event),
           wanted # None => IsSequence(wanted.blocks) /\ Grouped(wanted)
    PROVE  /\ IntentInv'
           /\ Deliver(event) \/ UNCHANGED <<view, stopped, loose>>
  BY DEF Makes, IntentInv

LEMMA DocumentsGrouped ==
    ASSUME NEW model \in Models \cup Partials
    PROVE  IsSequence(model.blocks) /\ Grouped(model)
  <1>1. StartOf(model) \in Events /\ StartOf(model).op = "start" /\ StartOf(model).model = model
    <2>1. StartOf(model) \in Starts
      BY DEF StartOf, Starts
    <2>2. StartOf(model).op = "start" /\ StartOf(model).model = model
      BY DEF StartOf, Event, EventOf
    <2> QED BY <2>1, <2>2 DEF Events
  <1> QED BY <1>1, FedStreamed DEF Streamed

LEMMA EmissionStep ==
    ASSUME IntentInv, [EmissionNext]_<<vars, emitterVars>>
    PROVE  /\ IntentInv'
           /\ \/ \E event : Streamed(event) /\ Deliver(event)
              \/ UNCHANGED <<view, stopped, loose>>
  <1> DEFINE Outcome == /\ IntentInv'
                        /\ \/ \E event : Streamed(event) /\ Deliver(event)
                           \/ UNCHANGED <<view, stopped, loose>>
  <1>0. ASSUME NEW event, NEW seq, NEW wanted, Makes(event, seq, wanted), Streamed(event),
               wanted # None => IsSequence(wanted.blocks) /\ Grouped(wanted)
        PROVE  Outcome
    BY <1>0, MakesStep
  <1> SUFFICES Outcome
    OBVIOUS
  <1> HIDE DEF Outcome
  <1>1. CASE Feed
    BY <1>1, FedStreamed DEF Feed, emitterVars, IntentInv, Outcome
  <1>2. CASE Start
    <2>1. PICK model \in Documents : Calling /\ Makes(StartOf(DumpModel(model)), offset + 1, model)
      BY <1>2 DEF Start
    <2>2. IsSequence(model.blocks) /\ Grouped(model)
      BY DocumentsGrouped DEF Documents
    <2> QED BY <1>0, <2>1, <2>2, DumpStreamed
  <1>3. CASE Restart
    <2> DEFINE event == StartOf(DumpModel(intent))
    <2>1. Calling /\ Makes(event, offset, IF Contested(event) THEN None ELSE intent)
      BY <1>3 DEF Restart
    <2>2. IsSequence(intent.blocks) /\ Grouped(intent)
      BY <2>1 DEF Calling, IntentInv
    <2> QED BY <1>0, <2>1, <2>2, DumpStreamed
  <1>4. CASE BlockSet
    <2> DEFINE proper(block) == ~BadGroup(block) /\ (IsReference(block) => intent.version = "1.1")
    <2>1. PICK id \in Ids, fields \in Inlines \cup {[ref |-> Word]} :
              /\ Calling
              /\ Makes(Event("set", <<>>, None, None, Block(id, Dump(fields))), offset + 1,
                       IF proper(Block(id, fields)) THEN PutBlock(intent, Block(id, fields)) ELSE None)
      BY <1>4 DEF BlockSet
    <2>2. Streamed(Event("set", <<>>, None, None, Block(id, Dump(fields))))
      BY DEF Streamed, Event, EventOf, Masks
    <2> QED BY <1>0, <2>1, <2>2, GroupedPut DEF Calling, IntentInv
  <1>5. CASE FieldSet
    <2>1. PICK id \in Ids, fields \in Inlines \cup {Flat}, mask \in FieldMasks :
              LET value == ReadPath(fields, Tail(mask))
              IN  /\ Calling
                  /\ Makes(Event("set", mask, None, None, Block(id, DumpField(fields))), offset + 1,
                           IF Inline(intent, id) /\ value # None
                             THEN PatchBlock(intent, id, Tail(mask), value) ELSE None)
      BY <1>5 DEF FieldSet
    <2>2. mask \in Masks /\ mask # <<>> /\ mask # <<"block", "group_id">> /\ mask # <<"block", "type">>
      BY DEF FieldMasks, Masks
    <2>3. Streamed(Event("set", mask, None, None, Block(id, DumpField(fields))))
      BY <2>2 DEF Streamed, Event, EventOf
    <2>4. Tail(mask)[1] # "group_id"
      BY <2>2, MaskPath
    <2>5. IsSequence(intent.blocks) /\ Grouped(intent)
      BY <2>1 DEF Calling, IntentInv
    <2> QED BY <1>0, <2>1, <2>3, <2>4, <2>5, GroupedPatch
  <1>6. CASE BlockAppend
    <2> DEFINE old(id) == intent.blocks[Position(intent.blocks, id)]
               value(id, fields) ==
                   Concatenated(IF "content" \in DOMAIN old(id).fields THEN old(id).fields["content"] ELSE None,
                                fields["content"])
               wanted(id, fields) ==
                   IF fields["content"] = Null THEN None
                   ELSE IF Holding(intent.blocks, id) = {} THEN PutBlock(intent, Block(id, fields))
                   ELSE IF IsReference(old(id)) \/ value(id, fields) = None THEN None
                   ELSE PatchBlock(intent, id, <<"content">>, value(id, fields))
    <2>1. PICK id \in Ids, fields \in Inlines :
              /\ Calling
              /\ "content" \in DOMAIN fields
              /\ Makes(Event("append", <<"block", "content">>, None, None, Block(id, Dump(fields))), offset + 1,
                       wanted(id, fields))
      BY <1>6 DEF BlockAppend
    <2>2. Streamed(Event("append", <<"block", "content">>, None, None, Block(id, Dump(fields))))
      BY DEF Streamed, Event, EventOf, Masks
    <2>3. IsSequence(intent.blocks) /\ Grouped(intent)
      BY <2>1 DEF Calling, IntentInv
    <2>4. ~BadGroup(Block(id, fields))
      BY <2>1, InlinesGrouped
    <2>5. Holding(intent.blocks, id) # {} /\ ~IsReference(old(id)) => Inline(intent, id)
      BY DEF Inline
    <2>6. \A new : Inline(intent, id) =>
              /\ IsSequence(PatchBlock(intent, id, <<"content">>, new).blocks)
              /\ Grouped(PatchBlock(intent, id, <<"content">>, new))
      BY <2>3, GroupedPatch
    <2>7. wanted(id, fields) # None => IsSequence(wanted(id, fields).blocks) /\ Grouped(wanted(id, fields))
      <3> HIDE DEF value
      <3> QED BY <2>3, <2>4, <2>5, <2>6, GroupedPut
    <2> HIDE DEF wanted
    <2> QED BY <1>0, <2>1, <2>2, <2>7
  <1>7. CASE MetaSet \/ SetStats
    <2>1. PICK name, value : name \in {"status", "stats"} /\ Sets(name, value)
      BY <1>7 DEF MetaSet, SetStats
    <2>2. Streamed(Event("set", <<"meta", name>>, None, [n \in {name} |-> value], None))
      BY <2>1 DEF Streamed, Event, EventOf, Masks
    <2>3. IsSequence(PatchMeta(intent, <<name>>, value).blocks) /\ Grouped(PatchMeta(intent, <<name>>, value))
      BY <2>1 DEF Sets, Calling, IntentInv, PatchMeta, Model, ModelOf, Grouped
    <2> QED BY <1>0, <2>1, <2>2, <2>3 DEF Sets
  <1>8. CASE Error
    <2>1. Streamed(Event("error", <<"meta", "error">>, None, [error |-> Failure], None))
      BY DEF Streamed, Event, EventOf, Masks
    <2>2. IsSequence(PatchMeta(intent, <<"error">>, Failure).blocks) /\ Grouped(PatchMeta(intent, <<"error">>, Failure))
      BY <1>8 DEF Error, Calling, IntentInv, PatchMeta, Model, ModelOf, Grouped
    <2> QED BY <1>0, <1>8, <2>1, <2>2 DEF Error
  <1>9. CASE Ping \/ End
    <2>1. PICK op, seq : /\ op \in {"ping", "end"}
                        /\ Calling
                        /\ Makes(Event(op, <<>>, None, None, None), seq, intent)
      BY <1>9 DEF Ping, End
    <2>2. Streamed(Event(op, <<>>, None, None, None))
      BY <2>1 DEF Streamed, Event, EventOf, Masks
    <2> QED BY <1>0, <2>1, <2>2 DEF IntentInv, Calling
  <1>10. CASE UNCHANGED <<vars, emitterVars>>
    BY <1>10 DEF vars, emitterVars, IntentInv, Outcome
  <1> QED BY <1>1, <1>2, <1>3, <1>4, <1>5, <1>6, <1>7, <1>8, <1>9, <1>10 DEF EmissionNext

\* What the clients' models start from.
LEMMA EmissionStarts ==
    ASSUME EmissionInit
    PROVE  /\ IntentInv
           /\ \A s \in Sdks : /\ IsSequence(view[s].blocks) /\ UniqueIds(view[s].blocks)
                              /\ ValidModel(s, view[s]) /\ view[s] # Refused
           /\ stopped = [s \in Sdks |-> "no"]
  <1>1. PICK model \in Models : /\ \A s \in Sdks : ValidModel(s, model)
                                /\ view = [s \in Sdks |-> model]
    BY DEF EmissionInit, Init
  <1>2. IsSequence(model.blocks) /\ Grouped(model)
    BY DocumentsGrouped
  <1>3. UniqueIds(model.blocks)
    BY <1>1 DEF Sdks, ValidModel, GoValidateModel
  <1>4. view["go"] = model
    BY <1>1 DEF Sdks
  <1>5. model # Refused
    <2>1. "version" \in DOMAIN model /\ "version" \notin DOMAIN Refused
      BY DEF Models, Model, ModelOf, Refused
    <2> QED BY <2>1
  <1> QED BY <1>1, <1>2, <1>3, <1>4, <1>5 DEF EmissionInit, Init, IntentInv

--------------------------------------------------------------------------------
(* What the clients keep                                                    *)

BareInv == \A s \in Sdks : IsSequence(view[s].blocks) /\ Bare(view[s])

\* A reference stays bare and within models of version 1.1, or of none that is
\* said, whatever patches try to add to it (ReferenceBlock, and the field patches
\* of the three reducers).
THEOREM ReferencesBare == EmissionSpec => []ReferencesStayBare
  <1>1. EmissionInit => IntentInv /\ BareInv
    <2> SUFFICES ASSUME EmissionInit, NEW s \in Sdks PROVE IsSequence(view[s].blocks) /\ Bare(view[s])
      BY EmissionStarts DEF BareInv
    <2>1. IsSequence(view[s].blocks) /\ ValidModel(s, view[s])
      BY EmissionStarts
    <2>2. Bare(view[s])
      BY <2>1 DEF ValidModel, Sdks, GoValidateModel, GoValidateBlock, PyUIModel, PyValidateBlock, TsParseUIModel, TsValidateBlock, Bare
    <2> QED BY <2>1, <2>2
  <1>2. IntentInv /\ BareInv /\ [EmissionNext]_<<vars, emitterVars>> => IntentInv' /\ BareInv'
    <2> SUFFICES ASSUME IntentInv, BareInv, [EmissionNext]_<<vars, emitterVars>> PROVE IntentInv' /\ BareInv'
      OBVIOUS
    <2>1. ASSUME NEW event, Streamed(event), Deliver(event), NEW s \in Sdks
          PROVE  IsSequence(view'[s].blocks) /\ Bare(view'[s])
      <3>1. IsSequence(view[s].blocks) /\ Bare(view[s])
        BY DEF BareInv
      <3>2. view'[s] = view[s] \/ (view'[s] = Reduce(s, view[s], event) /\ view'[s] # Refused)
        BY <2>1 DEF Deliver, Refuses
      <3> QED BY <2>1, <3>1, <3>2, BareStep
    <2>2. UNCHANGED view => BareInv'
      BY DEF BareInv
    <2>3. \A s \in Sdks : IsSequence(view'[s].blocks) /\ Bare(view'[s])
      BY <2>1, <2>2, EmissionStep DEF BareInv
    <2> QED BY <2>3, EmissionStep DEF BareInv, Bare
  <1>3. BareInv => ReferencesStayBare
    BY DEF BareInv, Bare, ReferencesStayBare
  <1> QED BY <1>1, <1>2, <1>3, PTL DEF EmissionSpec

SoundInv == \A s \in Sdks : Sound(view[s]) /\ view[s] # Refused

LEMMA SoundAlways == EmissionSpec => [](IntentInv /\ SoundInv)
  <1>1. EmissionInit => IntentInv /\ SoundInv
    BY EmissionStarts DEF SoundInv, Sound
  <1>2. IntentInv /\ SoundInv /\ [EmissionNext]_<<vars, emitterVars>> => IntentInv' /\ SoundInv'
    <2> SUFFICES ASSUME IntentInv, SoundInv, [EmissionNext]_<<vars, emitterVars>> PROVE IntentInv' /\ SoundInv'
      OBVIOUS
    <2>1. ASSUME NEW event, Streamed(event), Deliver(event), NEW s \in Sdks
          PROVE  Sound(view'[s]) /\ view'[s] # Refused
      <3>1. SoundOrRefused(Reduce(s, view[s], event))
        BY <2>1, ReduceSound DEF Streamed, SoundInv
      <3>2. view'[s] = view[s] \/ (view'[s] = Reduce(s, view[s], event) /\ view'[s] # Refused)
        BY <2>1 DEF Deliver, Refuses
      <3> QED BY <3>1, <3>2 DEF SoundOrRefused, SoundInv
    <2>2. UNCHANGED view => \A s \in Sdks : Sound(view'[s]) /\ view'[s] # Refused
      BY DEF SoundInv
    <2>3. \A s \in Sdks : Sound(view'[s]) /\ view'[s] # Refused
      BY <2>1, <2>2, EmissionStep
    <2> QED BY <2>3, EmissionStep DEF SoundInv, Sound
  <1> QED BY <1>1, <1>2, PTL DEF EmissionSpec

\* No client ever has two blocks with one id, whatever an emitter is called with.
THEOREM EmittedIdsUnique == EmissionSpec => []IdsStayUnique
  <1>1. SoundInv => IdsStayUnique
    BY DEF SoundInv, Sound, IdsStayUnique
  <1> QED BY <1>1, SoundAlways, PTL

\* Clients of any two SDKs that follow the same stream have, as read, the same
\* model, also when the stream is an emitter's, whatever calls it refuses, and
\* whatever is never sent (PatchEmitter).
THEOREM EmittedAgree == EmissionSpec => []Agree
  <1>1. EmissionInit => Agree
    BY InitAgrees DEF EmissionInit
  <1>2. IntentInv /\ SoundInv /\ Agree /\ [EmissionNext]_<<vars, emitterVars>> => Agree'
    <2>1. UNCHANGED <<view, stopped>> /\ Agree => Agree'
      BY DEF Agree
    <2>2. SoundInv => AllSound
      BY DEF SoundInv, AllSound
    <2> QED BY <2>1, <2>2, EmissionStep, DeliverAgrees
  <1> QED BY <1>1, <1>2, SoundAlways, PTL DEF EmissionSpec

\* An event that one reducer refuses is refused by all, up to the six
\* disagreements that Contested lists: until then their clients' models read the
\* same.
THEOREM RefusedByAll == EmissionSpec => []StopTogether
  <1>1. EmissionInit => IntentInv /\ StopTogether
    BY EmissionStarts DEF StopTogether
  <1>2. IntentInv /\ SoundInv /\ Agree /\ StopTogether /\ [EmissionNext]_<<vars, emitterVars>> => IntentInv' /\ StopTogether'
    <2> SUFFICES ASSUME IntentInv, SoundInv, Agree, StopTogether, [EmissionNext]_<<vars, emitterVars>>
                 PROVE  IntentInv' /\ StopTogether'
      OBVIOUS
    <2>1. ASSUME NEW event, Streamed(event), Deliver(event), NEW s \in Sdks, NEW t \in Sdks,
                 stopped'[s] = "refused"
          PROVE  stopped'[t] # "no"
      <3>1. CASE stopped[t] # "no"
        BY <2>1, <3>1 DEF Deliver, Refuses
      <3>2. CASE stopped[t] = "no"
        <4>1. stopped[s] = "no" /\ Reduce(s, view[s], event) = Refused /\ ~Contested(event)
          BY <2>1, <3>2 DEF Deliver, Refuses, StopTogether
        <4>2. ReadAlike(view[s], view[t])
          BY <3>2, <4>1, AsReadAlike DEF Agree
        <4>3. /\ Sound(view[s]) /\ view[s] # Refused
              /\ Sound(view[t]) /\ view[t] # Refused
          BY DEF SoundInv
        <4>4. Refuses(t, event)
          BY <2>1, <3>2, <4>1, <4>2, <4>3, UncontestedSame DEF Refuses
        <4> QED BY <2>1, <4>4 DEF Deliver
      <3> QED BY <3>1, <3>2
    <2>2. UNCHANGED stopped => StopTogether'
      BY DEF StopTogether
    <2> QED BY <2>1, <2>2, EmissionStep DEF StopTogether
  <1> QED BY <1>1, <1>2, SoundAlways, EmittedAgree, PTL DEF EmissionSpec

--------------------------------------------------------------------------------
(* Starting anew                                                            *)

\* ValidModel by its parts.
ValidBlock(s, block) == CASE s = "go" -> GoValidateBlock(block)
                          [] s = "python" -> PyValidateBlock(block)
                          [] s = "typescript" -> TsValidateBlock(block)
ValidMeta(s, meta) == s # "go" /\ "error" \in DOMAIN meta => Has(meta, "error", {"null"}) \/ TsValidateError(meta)

\* A version and a list of blocks, which Python does not need.
Stated(s, model) == /\ model.version \in {"1.0", "1.1"} \/ (s = "python" /\ model.version = "none")
                    /\ model.listed \/ s = "python"

LEMMA ValidParts ==
    ASSUME NEW s \in Sdks, NEW model
    PROVE  ValidModel(s, model) <=>
               /\ Stated(s, model)
               /\ ValidMeta(s, model.meta)
               /\ \A i \in DOMAIN model.blocks : /\ ValidBlock(s, model.blocks[i])
                                                 /\ IsReference(model.blocks[i]) => model.version # "1.0"
               /\ UniqueIds(model.blocks)
  <1>1. CASE s = "go"
    BY <1>1 DEF ValidModel, Stated, ValidMeta, ValidBlock, GoValidateModel
  <1>2. CASE s = "python"
    BY <1>2 DEF ValidModel, Stated, ValidMeta, ValidBlock, PyUIModel, PyErrorInfo, TsValidateError
  <1>3. CASE s = "typescript"
    BY <1>3 DEF ValidModel, Stated, ValidMeta, ValidBlock, TsParseUIModel
  <1> QED BY <1>1, <1>2, <1>3 DEF Sdks

LEMMA ValidPut ==
    ASSUME NEW s \in Sdks, NEW model, Sound(model), ValidModel(s, model), NEW block, ValidBlock(s, block),
           IsReference(block) => model.version # "1.0"
    PROVE  ValidModel(s, PutBlock(model, block))
  <1> DEFINE new == PutBlock(model, block)
  <1>1. UniqueIds(new.blocks)
    BY PutSound DEF Sound
  <1>2. /\ new.version = model.version /\ new.meta = model.meta /\ new.listed
        /\ \A i \in DOMAIN new.blocks :
               new.blocks[i] = block \/ (i \in DOMAIN model.blocks /\ new.blocks[i] = model.blocks[i])
    BY PutKeeps DEF Sound
  <1> HIDE DEF new
  <1>3. ValidModel(s, new)
    BY <1>1, <1>2, ValidParts DEF Stated
  <1> QED BY <1>3 DEF new

\* Only patches of type, group_id and ref touch what the validators look at.
LEMMA ValidPatch ==
    ASSUME NEW s \in Sdks, NEW model, Sound(model), ValidModel(s, model), NEW id, NEW path, NEW value,
           Inline(model, id), path[1] \notin {"type", "group_id", "ref"}
    PROVE  ValidModel(s, PatchBlock(model, id, path, value))
  <1>1. ASSUME NEW block, ValidBlock(s, block), ~IsReference(block)
        PROVE  LET new == Block(id, WritePath(block.fields, path, value))
               IN  ValidBlock(s, new) /\ ~IsReference(new)
    <2> DEFINE fields == WritePath(block.fields, path, value)
               new == Block(id, fields)
    <2>1. /\ DOMAIN fields = DOMAIN block.fields \cup {path[1]}
          /\ \A name \in DOMAIN block.fields : name # path[1] => fields[name] = block.fields[name]
      BY DEF WritePath, With
    <2>2. new.fields = fields
      BY DEF Block
    <2> HIDE DEF fields, new
    <2>3. ~IsReference(new)
      BY <1>1, <2>1, <2>2 DEF IsReference
    <2>4. HasName(block.fields, "type") => HasName(new.fields, "type")
      BY <2>1, <2>2 DEF HasName, Has
    <2>5. OptionalText(block.fields, "group_id") => OptionalText(new.fields, "group_id")
      BY <2>1, <2>2 DEF OptionalText
    <2>6. ValidBlock(s, new)
      BY <1>1, <2>3, <2>4, <2>5 DEF ValidBlock, Sdks, GoValidateBlock, PyValidateBlock, TsValidateBlock
    <2> QED BY <2>3, <2>6 DEF fields, new
  <1> DEFINE new == PatchBlock(model, id, path, value)
  <1>2. UniqueIds(new.blocks)
    BY PatchSound DEF Sound
  <1>3. /\ new.version = model.version /\ new.meta = model.meta /\ new.listed
        /\ \A i \in DOMAIN new.blocks :
               /\ i \in DOMAIN model.blocks
               /\ \/ new.blocks[i] = model.blocks[i]
                  \/ /\ ~IsReference(model.blocks[i])
                     /\ new.blocks[i] = Block(id, WritePath(model.blocks[i].fields, path, value))
    BY PatchKeeps DEF Sound
  <1> HIDE DEF new
  <1>4. ValidModel(s, new)
    BY <1>1, <1>2, <1>3, ValidParts DEF Stated
  <1> QED BY <1>4 DEF new

\* A patch of meta leaves the error alone, or puts a whole one.
LEMMA ValidPatchMeta ==
    ASSUME NEW s \in Sdks, NEW model, ValidModel(s, model), NEW event, Streamed(event), event.mask # <<>>,
           event.meta # None, ~Malformed(event.meta),
           ReadPath(event.meta, Tail(event.mask)) # None
    PROVE  ValidModel(s, PatchMeta(model, Tail(event.mask), ReadPath(event.meta, Tail(event.mask))))
  <1> DEFINE path == Tail(event.mask)
             value == ReadPath(event.meta, path)
             meta == WritePath(model.meta, path, value)
  <1>1. path[1] = "error" => path = <<"error">>
    BY MaskPath DEF Streamed
  <1>2. /\ DOMAIN meta = DOMAIN model.meta \cup {path[1]}
        /\ \A name \in DOMAIN model.meta : name # path[1] => meta[name] = model.meta[name]
        /\ Len(path) = 1 => meta[path[1]] = value
    BY DEF WritePath, With
  <1>3. path = <<"error">> => "error" \in DOMAIN event.meta /\ value = event.meta["error"]
    <2>1. ASSUME NEW p, p = <<"error">>, ReadPath(event.meta, p) # None
          PROVE  "error" \in DOMAIN event.meta /\ ReadPath(event.meta, p) = event.meta["error"]
      <3>1. Len(p) = 1 /\ p[Len(p)] = "error"
        BY <2>1
      <3> QED BY <2>1, <3>1 DEF ReadPath
    <2> QED BY <2>1
  <1> HIDE DEF path, value, meta
  <1>4. ValidMeta(s, meta)
    <2>1. CASE path[1] # "error"
      <3>1. ValidMeta(s, model.meta)
        BY ValidParts
      <3> QED BY <1>2, <2>1, <3>1 DEF ValidMeta, Has, TsValidateError
    <2>2. CASE path = <<"error">>
      <3>1. Len(path) = 1 /\ path[1] = "error"
        BY <2>2
      <3>2. TsValidateError(event.meta) /\ meta["error"] = event.meta["error"] /\ "error" \in DOMAIN meta
        BY <1>2, <1>3, <2>2, <3>1 DEF Malformed
      <3> QED BY <3>2 DEF ValidMeta, Has, TsValidateError
    <2> QED BY <1>1, <2>1, <2>2
  <1>5. LET new == PatchMeta(model, path, value)
        IN  /\ new.version = model.version /\ new.blocks = model.blocks /\ new.meta = meta
            /\ new.listed = model.listed
    BY DEF PatchMeta, ModelOf, meta
  <1>6. ValidModel(s, PatchMeta(model, path, value))
    BY <1>4, <1>5, ValidParts DEF Stated
  <1> QED BY <1>6 DEF path, value

LEMMA ValidStep ==
    ASSUME NEW s \in Sdks, NEW model, Sound(model), ValidModel(s, model), NEW event, Streamed(event),
           event.op # "start" => ~Loose(event), Reduce(s, model, event) # Refused
    PROVE  ValidModel(s, Reduce(s, model, event))
  <1> DEFINE new == Reduce(s, model, event)
  <1> SUFFICES ValidModel(s, new)
    OBVIOUS
  <1> HIDE DEF new
  <1>1. CASE event.op = "start"
    BY <1>1, OtherwiseAs DEF new
  <1>2. CASE event.op = "set" /\ event.mask = <<>>
    <2>1. /\ ValidBlock(s, event.block) /\ (IsReference(event.block) => model.version = "1.1")
          /\ new = PutBlock(model, event.block)
      BY <1>2, UpsertedAs DEF ValidBlock, new
    <2> QED BY <2>1, ValidPut
  <1>3. CASE (event.op = "set" /\ event.mask # <<>>) \/ event.op = "error"
    <2> DEFINE path == Tail(event.mask)
               value == ReadPath(IF event.meta # None THEN event.meta ELSE event.block.fields, path)
    <2>1. new = SetByMask(model, event) /\ event.mask # <<>>
          /\ (GoValidate(event) \/ PyValidate(event) \/ TsParsePatchEvent(event))
      BY <1>3, OtherwiseAs DEF new
    <2>2. \/ /\ event.meta # None /\ value # None
             /\ new = PatchMeta(model, path, value)
          \/ /\ event.op = "set" /\ event.mask[1] = "block"
             /\ path[1] \notin {"id", "ref"} /\ Inline(model, event.block.id)
             /\ new = PatchBlock(model, event.block.id, path, value)
      BY <1>3, <2>1, PatchedAs DEF new
    <2>3. path[1] \in {"type", "group_id"} => event.mask \in {<<"block", "type">>, <<"block", "group_id">>}
      BY <2>1, MaskPath DEF Streamed
    <2>4. CASE event.meta # None /\ value # None /\ new = PatchMeta(model, path, value)
      BY <1>3, <2>1, <2>4, ValidPatchMeta DEF Loose
    <2> HIDE DEF path, value
    <2>5. CASE /\ event.op = "set" /\ path[1] \notin {"id", "ref"} /\ Inline(model, event.block.id)
               /\ new = PatchBlock(model, event.block.id, path, value)
      BY <2>3, <2>5, ValidPatch DEF Loose
    <2> QED BY <2>2, <2>4, <2>5
  <1>4. CASE event.op = "append"
    <2>1. CASE ~IsReference(event.block) /\ ValidBlock(s, event.block) /\ new = PutBlock(model, event.block)
      BY <2>1, ValidPut
    <2>2. CASE /\ event.mask[2] \notin {"id", "ref"} /\ event.mask[1] = "block" /\ Len(event.mask) = 2
               /\ Inline(model, event.block.id)
               /\ \E value : new = PatchBlock(model, event.block.id, <<event.mask[2]>>, value)
      <3>1. event.mask # <<>> /\ Tail(event.mask)[1] = event.mask[2]
        BY <2>2, MaskPath DEF Streamed
      <3>2. event.mask[2] \notin {"type", "group_id"}
        BY <1>4, <3>1, MaskPath DEF Streamed, Loose
      <3> DEFINE path == <<event.mask[2]>>
      <3>3. path[1] \notin {"type", "group_id", "ref"}
        BY <2>2, <3>2
      <3>4. PICK value : new = PatchBlock(model, event.block.id, path, value)
        BY <2>2
      <3> HIDE DEF path
      <3> QED BY <2>2, <3>3, <3>4, ValidPatch
    <2>3. \/ ~IsReference(event.block) /\ ValidBlock(s, event.block) /\ new = PutBlock(model, event.block)
          \/ /\ event.mask[2] \notin {"id", "ref"} /\ event.mask[1] = "block" /\ Len(event.mask) = 2
             /\ Inline(model, event.block.id)
             /\ \E value : new = PatchBlock(model, event.block.id, <<event.mask[2]>>, value)
      BY <1>4, AppendedAs DEF ValidBlock, new
    <2> QED BY <2>1, <2>2, <2>3
  <1>5. CASE event.op \notin {"start", "set", "error", "append"}
    BY <1>5, OtherwiseAs DEF new
  <1> QED BY <1>1, <1>2, <1>3, <1>4, <1>5

\* Unless one of the fields that the validators constrain was patched, every
\* client's model passes its own SDK's validation: it can be sent in a start, as
\* the snapshot that resumes a delivery is.
THEOREM SnapshotsRestart == EmissionSpec => []SnapshotRestarts
  <1>1. EmissionInit => SnapshotRestarts
    BY EmissionStarts DEF SnapshotRestarts
  <1>2. /\ IntentInv /\ SoundInv /\ SnapshotRestarts
        /\ [EmissionNext]_<<vars, emitterVars>>
        => SnapshotRestarts'
    <2> SUFFICES ASSUME IntentInv, SoundInv, SnapshotRestarts, [EmissionNext]_<<vars, emitterVars>>
                 PROVE  SnapshotRestarts'
      OBVIOUS
    <2>1. ASSUME NEW event, Streamed(event), Deliver(event), NEW s \in Sdks, ~loose', stopped'[s] = "no"
          PROVE  ValidModel(s, view'[s])
      <3>1. /\ stopped[s] = "no" /\ Reduce(s, view[s], event) # Refused
            /\ view'[s] = Reduce(s, view[s], event)
        BY <2>1 DEF Deliver, Refuses
      <3>2. CASE event.op = "start"
        <4>1. view'[s] = event.model /\ ValidModel(s, event.model)
          BY <3>1, <3>2, OtherwiseAs
        <4> QED BY <4>1
      <3>3. CASE event.op # "start"
        <4>1. ~loose /\ ~Loose(event)
          BY <2>1, <3>3 DEF Deliver
        <4>2. ValidModel(s, view[s]) /\ Sound(view[s])
          BY <3>1, <4>1 DEF SnapshotRestarts, SoundInv
        <4> QED BY <2>1, <3>1, <4>1, <4>2, ValidStep
      <3> QED BY <3>2, <3>3
    <2>2. UNCHANGED <<view, stopped, loose>> =>
              (~loose' => \A s \in Sdks : stopped'[s] = "no" => ValidModel(s, view'[s]))
      BY DEF SnapshotRestarts
    <2>3. ~loose' => \A s \in Sdks : stopped'[s] = "no" => ValidModel(s, view'[s])
      BY <2>1, <2>2, EmissionStep DEF SnapshotRestarts
    <2> QED BY <2>3 DEF SnapshotRestarts, ValidModel
  <1> QED BY <1>1, <1>2, SoundAlways, PTL DEF EmissionSpec

--------------------------------------------------------------------------------
(* Models that are alike up to nulls                                        *)

\* The fields of two objects as read, nulls aside.
Same(f, g) == NonNull(ReadFields(f)) = NonNull(ReadFields(g))

LEMMA NonNullSame ==
    ASSUME NEW f, NEW g
    PROVE  NonNull(f) = NonNull(g) <=>
               \A name : /\ name \in DOMAIN f /\ f[name] # Null => name \in DOMAIN g /\ g[name] = f[name]
                         /\ name \in DOMAIN g /\ g[name] # Null => name \in DOMAIN f /\ f[name] = g[name]
  <1> DEFINE F == NonNull(f)
             G == NonNull(g)
  <1>1. /\ DOMAIN F = {n \in DOMAIN f : f[n] # Null} /\ \A n \in DOMAIN F : F[n] = f[n]
        /\ DOMAIN G = {n \in DOMAIN g : g[n] # Null} /\ \A n \in DOMAIN G : G[n] = g[n]
        /\ F = [n \in DOMAIN F |-> F[n]] /\ G = [n \in DOMAIN G |-> G[n]]
    BY DEF NonNull
  <1> HIDE DEF F, G
  <1>3. F = G <=> DOMAIN F = DOMAIN G /\ \A n \in DOMAIN F : F[n] = G[n]
    BY <1>1
  <1>4. F = G <=> \A name : /\ name \in DOMAIN f /\ f[name] # Null => name \in DOMAIN g /\ g[name] = f[name]
                            /\ name \in DOMAIN g /\ g[name] # Null => name \in DOMAIN f /\ f[name] = g[name]
    BY <1>1, <1>3
  <1> QED BY <1>4 DEF F, G

LEMMA FilledNull == \A value : Filled(value) = Null <=> value = Null
  <1>1. NilList.kind = "list" /\ List(<<>>).kind = "list" /\ Null.kind = "null"
    BY DEF NilList, List, Null
  <1> QED BY <1>1 DEF Filled

LEMMA SameFields ==
    ASSUME NEW f, NEW g
    PROVE  Same(f, g) <=>
               \A name : /\ name \in DOMAIN f /\ f[name] # Null => name \in DOMAIN g /\ Filled(g[name]) = Filled(f[name])
                         /\ name \in DOMAIN g /\ g[name] # Null => name \in DOMAIN f /\ Filled(f[name]) = Filled(g[name])
  <1> DEFINE F == ReadFields(f)
             G == ReadFields(g)
  <1>1. /\ DOMAIN F = DOMAIN f /\ \A name \in DOMAIN f : F[name] = Filled(f[name])
        /\ DOMAIN G = DOMAIN g /\ \A name \in DOMAIN g : G[name] = Filled(g[name])
    BY DEF ReadFields
  <1>2. Same(f, g) <=> NonNull(F) = NonNull(G)
    BY DEF Same
  <1> HIDE DEF F, G
  <1> QED BY <1>1, <1>2, NonNullSame, FilledNull

LEMMA SameWith ==
    ASSUME NEW f, NEW g, Same(f, g), NEW name, NEW v, NEW w, Filled(v) = Filled(w)
    PROVE  Same(With(f, name, v), With(g, name, w))
  <1> DEFINE F == With(f, name, v)
             G == With(g, name, w)
  <1>1. /\ DOMAIN F = DOMAIN f \cup {name} /\ \A n \in DOMAIN F : F[n] = IF n = name THEN v ELSE f[n]
        /\ DOMAIN G = DOMAIN g \cup {name} /\ \A n \in DOMAIN G : G[n] = IF n = name THEN w ELSE g[n]
    BY DEF With
  <1> HIDE DEF F, G
  <1>2. Same(F, G)
    BY <1>1, SameFields
  <1> QED BY <1>2 DEF F, G

\* So are objects after a patch of both.
LEMMA SameWrite ==
    ASSUME NEW f, NEW g, Same(f, g), NEW path, NEW v, NEW w, Filled(v) = Filled(w),
           v = w \/ Len(path) = 1
    PROVE  Same(WritePath(f, path, v), WritePath(g, path, w))
  <1> DEFINE inner(h) == IF Has(h, path[1], {"object"}) THEN h[path[1]].fields ELSE <<>>
  <1>1. inner(f) = inner(g)
    <2>1. Has(f, path[1], {"object"}) => f[path[1]] # Null
      BY DEF Has, Null
    <2>2. Has(g, path[1], {"object"}) => g[path[1]] # Null
      BY DEF Has, Null
    <2>3. \A x, y : Filled(x) = Filled(y) /\ x.kind = "object" => x = y
      BY DEF Filled, NilList, List
    <2>4. Has(f, path[1], {"object"}) \/ Has(g, path[1], {"object"}) =>
              Has(f, path[1], {"object"}) /\ Has(g, path[1], {"object"}) /\ f[path[1]] = g[path[1]]
      BY <2>1, <2>2, <2>3, SameFields DEF Has
    <2> QED BY <2>4
  <1>2. \A h, x : WritePath(h, path, x) =
                    IF Len(path) = 1 THEN With(h, path[1], x)
                    ELSE With(h, path[1], Object(With(inner(h), path[2], x)))
    BY DEF WritePath
  <1> HIDE DEF inner
  <1> QED BY <1>1, <1>2, SameWith

\* Trimmed as read, by its parts.
Alike(a, b) ==
    /\ a.version = b.version /\ a.listed = b.listed
    /\ Same(a.meta, b.meta)
    /\ DOMAIN a.blocks = DOMAIN b.blocks
    /\ \A i \in DOMAIN a.blocks : a.blocks[i].id = b.blocks[i].id /\ Same(a.blocks[i].fields, b.blocks[i].fields)

LEMMA AlikeTrimmed ==
    ASSUME NEW a, NEW b
    PROVE  Alike(a, b) <=> Trimmed(AsRead(a)) = Trimmed(AsRead(b))
  <1> DEFINE kept(f) == NonNull(ReadFields(f))
             list(m) == [i \in DOMAIN m.blocks |-> Block(m.blocks[i].id, kept(m.blocks[i].fields))]
  <1>1. ASSUME NEW m
        PROVE  Trimmed(AsRead(m)) = ModelOf(m.version, kept(m.meta), list(m), m.listed)
    <2>1. /\ AsRead(m).version = m.version /\ AsRead(m).listed = m.listed
          /\ AsRead(m).meta = ReadFields(m.meta)
          /\ DOMAIN AsRead(m).blocks = DOMAIN m.blocks
          /\ \A i \in DOMAIN m.blocks : /\ AsRead(m).blocks[i].id = m.blocks[i].id
                                         /\ AsRead(m).blocks[i].fields = ReadFields(m.blocks[i].fields)
      BY DEF AsRead, ModelOf, Block
    <2>2. [i \in DOMAIN AsRead(m).blocks |->
               Block(AsRead(m).blocks[i].id, NonNull(AsRead(m).blocks[i].fields))] = list(m)
      BY <2>1
    <2> HIDE DEF list
    <2> QED BY <2>1, <2>2 DEF Trimmed
  <1>2. list(a) = list(b) <=>
            /\ DOMAIN a.blocks = DOMAIN b.blocks
            /\ \A i \in DOMAIN a.blocks :
                   Block(a.blocks[i].id, kept(a.blocks[i].fields)) = Block(b.blocks[i].id, kept(b.blocks[i].fields))
    <2>1. /\ DOMAIN list(a) = DOMAIN a.blocks
          /\ \A i \in DOMAIN a.blocks : list(a)[i] = Block(a.blocks[i].id, kept(a.blocks[i].fields))
          /\ DOMAIN list(b) = DOMAIN b.blocks
          /\ \A i \in DOMAIN b.blocks : list(b)[i] = Block(b.blocks[i].id, kept(b.blocks[i].fields))
      OBVIOUS
    <2>2. list(a) = [i \in DOMAIN list(a) |-> list(a)[i]] /\ list(b) = [i \in DOMAIN list(b) |-> list(b)[i]]
      OBVIOUS
    <2> HIDE DEF list, kept
    <2> QED BY <2>1, <2>2
  <1>3. \A id, other, f, g : Block(id, f) = Block(other, g) <=> id = other /\ f = g
    BY DEF Block
  <1>4. \A f, g : Same(f, g) <=> kept(f) = kept(g)
    BY DEF Same
  <1> HIDE DEF list, kept
  <1>5. Trimmed(AsRead(a)) = Trimmed(AsRead(b)) <=>
            a.version = b.version /\ kept(a.meta) = kept(b.meta) /\ list(a) = list(b) /\ a.listed = b.listed
    BY <1>1 DEF ModelOf
  <1> QED BY <1>2, <1>3, <1>4, <1>5 DEF Alike

\* Alike models have their blocks in the same places.
LEMMA AlikePlaces ==
    ASSUME NEW a, NEW b, Alike(a, b), NEW id
    PROVE  /\ Holding(a.blocks, id) = Holding(b.blocks, id)
           /\ Position(a.blocks, id) = Position(b.blocks, id)
  BY DEF Alike, Holding, Position

LEMMA AlikePut ==
    ASSUME NEW a, NEW b, Alike(a, b), IsSequence(a.blocks), IsSequence(b.blocks),
           NEW c, NEW d, c.id = d.id, Same(c.fields, d.fields)
    PROVE  Alike(PutBlock(a, c), PutBlock(b, d))
  <1>1. PICK S : a.blocks \in Seq(S) /\ b.blocks \in Seq(S)
    <2>1. PICK S, T : a.blocks \in Seq(S) /\ b.blocks \in Seq(T)
      BY DEF IsSequence
    <2>2. a.blocks \in Seq(S \cup T) /\ b.blocks \in Seq(S \cup T)
      BY <2>1
    <2> QED BY <2>2
  <1> DEFINE at == Position(a.blocks, c.id)
             A == PutBlock(a, c)
             B == PutBlock(b, d)
  <1>2. Len(a.blocks) = Len(b.blocks)
    BY <1>1 DEF Alike
  <1>3. CASE Holding(a.blocks, c.id) = {}
    <2>1. A.blocks = Append(a.blocks, c) /\ B.blocks = Append(b.blocks, d)
      BY <1>3, AlikePlaces DEF PutBlock, Model, ModelOf
    <2>2. /\ DOMAIN A.blocks = 1 .. Len(a.blocks) + 1 /\ DOMAIN B.blocks = 1 .. Len(a.blocks) + 1
          /\ A.blocks[Len(a.blocks) + 1] = c /\ B.blocks[Len(a.blocks) + 1] = d
          /\ \A i \in 1 .. Len(a.blocks) : A.blocks[i] = a.blocks[i] /\ B.blocks[i] = b.blocks[i]
      BY <1>1, <1>2, <2>1
    <2>3. DOMAIN a.blocks = 1 .. Len(a.blocks)
      BY <1>1
    <2>4. /\ A.version = a.version /\ A.meta = a.meta /\ A.listed = TRUE
          /\ B.version = b.version /\ B.meta = b.meta /\ B.listed = TRUE
      BY DEF PutBlock, Model, ModelOf
    <2> HIDE DEF A, B
    <2>5. \A i \in 1 .. Len(a.blocks) + 1 : i = Len(a.blocks) + 1 \/ i \in 1 .. Len(a.blocks)
      BY <1>1
    <2>6. Alike(A, B)
      BY <2>2, <2>3, <2>4, <2>5 DEF Alike
    <2> QED BY <2>6 DEF A, B
  <1>4. CASE Holding(a.blocks, c.id) # {}
    <2>1. A.blocks = [a.blocks EXCEPT ![at] = c] /\ B.blocks = [b.blocks EXCEPT ![at] = d]
      BY <1>4, AlikePlaces DEF PutBlock, Model, ModelOf
    <2>2. /\ A.version = a.version /\ A.meta = a.meta /\ A.listed = TRUE
          /\ B.version = b.version /\ B.meta = b.meta /\ B.listed = TRUE
      BY DEF PutBlock, Model, ModelOf
    <2> HIDE DEF A, B, at
    <2>3. DOMAIN A.blocks = DOMAIN a.blocks /\ DOMAIN B.blocks = DOMAIN a.blocks
      BY <2>1 DEF Alike
    <2>4. \A i \in DOMAIN a.blocks : /\ A.blocks[i] = IF i = at THEN c ELSE a.blocks[i]
                                     /\ B.blocks[i] = IF i = at THEN d ELSE b.blocks[i]
      BY <2>1 DEF Alike
    <2>5. \A i \in DOMAIN a.blocks : A.blocks[i].id = B.blocks[i].id /\ Same(A.blocks[i].fields, B.blocks[i].fields)
      BY <2>4 DEF Alike
    <2>6. Alike(A, B)
      BY <2>2, <2>3, <2>5 DEF Alike
    <2> QED BY <2>6 DEF A, B
  <1> QED BY <1>3, <1>4

LEMMA AlikePatch ==
    ASSUME NEW a, NEW b, Alike(a, b), Sound(a), Sound(b), NEW id, Inline(b, id),
           NEW path, NEW v, NEW w, Filled(v) = Filled(w), v = w \/ Len(path) = 1
    PROVE  Alike(PatchBlock(a, id, path, v), PatchBlock(b, id, path, w))
  <1> DEFINE at == Position(b.blocks, id)
             c == Block(id, WritePath(a.blocks[at].fields, path, v))
             d == Block(id, WritePath(b.blocks[at].fields, path, w))
  <1>1. at \in DOMAIN b.blocks
    BY PositionHeld DEF Sound, Inline
  <1>2. Same(a.blocks[at].fields, b.blocks[at].fields)
    BY <1>1 DEF Alike
  <1>3. c.id = d.id /\ Same(c.fields, d.fields)
    BY <1>2, SameWrite DEF Block
  <1>4. PatchBlock(a, id, path, v) = PutBlock(a, c) /\ PatchBlock(b, id, path, w) = PutBlock(b, d)
    BY AlikePlaces DEF PatchBlock
  <1> HIDE DEF c, d
  <1> QED BY <1>3, <1>4, AlikePut DEF Sound

LEMMA AlikePatchMeta ==
    ASSUME NEW a, NEW b, Alike(a, b), NEW path, NEW value
    PROVE  Alike(PatchMeta(a, path, value), PatchMeta(b, path, value))
  BY SameWrite DEF Alike, PatchMeta, ModelOf

--------------------------------------------------------------------------------
(* Events that every reducer takes                                          *)

LEMMA StartApplied ==
    ASSUME NEW s \in Sdks, NEW model, NEW new, ValidModel(s, new), "blocks" \in DOMAIN new
    PROVE  Reduce(s, model, StartOf(new)) = new
  <1>1. new # None
    BY DEF None
  <1>2. LET event == StartOf(new)
        IN  /\ event.op = "start" /\ event.mask = <<>> /\ event.model = new
            /\ event.meta = None /\ event.block = None /\ ~event.null
    BY DEF StartOf, Event, EventOf
  <1> QED BY <1>1, <1>2 DEF Reduce, Sdks, ValidModel, GoApply, GoValidate, PyApplyPatch, PyValidate, TsApplyPatch, TsParsePatchEvent

LEMMA PutApplied ==
    ASSUME NEW s \in Sdks, NEW model, NEW id, NEW fields, ValidBlock(s, Block(id, fields)),
           IsReference(Block(id, fields)) => model.version = "1.1"
    PROVE  Reduce(s, model, Event("set", <<>>, None, None, Block(id, fields))) = PutBlock(model, Block(id, fields))
  <1> DEFINE block == Block(id, fields)
             event == Event("set", <<>>, None, None, block)
  <1>1. block # None
    BY DEF Block, None
  <1> HIDE DEF block
  <1>2. event.op = "set" /\ event.mask = <<>> /\ event.model = None /\ event.meta = None /\ event.block = block
        /\ ~event.null
    BY DEF Event, EventOf
  <1> HIDE DEF event
  <1>3. Reduce(s, model, event) = PutBlock(model, block)
    <2>1. CASE s = "go"
      BY <1>1, <1>2, <2>1 DEF Reduce, GoApply, GoValidate, GoUpsertBlock, ValidBlock, block
    <2>2. CASE s = "python"
      BY <1>1, <1>2, <2>2 DEF Reduce, PyApplyPatch, PyValidate, PyUpsertBlock, ValidBlock, block
    <2>3. CASE s = "typescript"
      BY <1>1, <1>2, <2>3 DEF Reduce, TsApplyPatch, TsParsePatchEvent, TsUpsertBlock, ValidBlock, block
    <2> QED BY <2>1, <2>2, <2>3 DEF Sdks
  <1> QED BY <1>3 DEF event, block

LEMMA PatchApplied ==
    ASSUME NEW s \in Sdks, NEW model, NEW id, NEW fields, "ref" \notin DOMAIN fields,
           NEW mask, mask # <<>>, mask[1] = "block", mask[2] \notin {"id", "ref"},
           ReadPath(fields, Tail(mask)) # None, Inline(model, id)
    PROVE  Reduce(s, model, Event("set", mask, None, None, Block(id, fields)))
               = PatchBlock(model, id, Tail(mask), ReadPath(fields, Tail(mask)))
  <1> DEFINE block == Block(id, fields)
             event == Event("set", mask, None, None, block)
             value == ReadPath(fields, Tail(mask))
  <1>1. block # None /\ block.id = id /\ block.fields = fields
    BY DEF Block, None
  <1>2. ~IsReference(block)
    BY DEF Block, IsReference
  <1> HIDE DEF block
  <1>3. event.op = "set" /\ event.mask = mask /\ event.model = None /\ event.meta = None /\ event.block = block
        /\ ~event.null
    BY DEF Event, EventOf
  <1>4. mask # <<>> /\ mask[1] = "block" /\ mask[2] \notin {"id", "ref"}
    OBVIOUS
  <1> HIDE DEF event
  <1>5. SetByMask(model, event) = PatchBlock(model, id, Tail(mask), value)
    BY <1>1, <1>3, <1>4 DEF SetByMask, Patched
  <1> HIDE DEF value
  <1>6. Reduce(s, model, event) = SetByMask(model, event)
    <2>1. CASE s = "go"
      BY <1>1, <1>2, <1>3, <1>4, <2>1 DEF Reduce, GoApply, GoValidate, GoValidateFieldPatch
    <2>2. CASE s = "python"
      BY <1>1, <1>2, <1>3, <1>4, <2>2 DEF Reduce, PyApplyPatch, PyValidate, PyValidateFieldPatch
    <2>3. CASE s = "typescript"
      BY <1>1, <1>2, <1>3, <1>4, <2>3 DEF Reduce, TsApplyPatch, TsParsePatchEvent, TsValidateFieldPatch
    <2> QED BY <2>1, <2>2, <2>3 DEF Sdks
  <1> QED BY <1>5, <1>6 DEF event, block, value

\* The field that a delta meets.
Old(model, id) == OldField(model, id, "content")

LEMMA AppendApplied ==
    ASSUME NEW s \in Sdks, NEW model, NEW id, NEW fields, ValidBlock(s, Block(id, fields)),
           "ref" \notin DOMAIN fields, Has(fields, "content", {"text", "list"})
    PROVE  LET event == Event("append", <<"block", "content">>, None, None, Block(id, fields))
               value == Appended(s, Old(model, id), fields["content"])
           IN  /\ Holding(model.blocks, id) = {} => Reduce(s, model, event) = PutBlock(model, Block(id, fields))
               /\ Inline(model, id) /\ value # None =>
                      Reduce(s, model, event) = PatchBlock(model, id, <<"content">>, value)
  <1> DEFINE block == Block(id, fields)
             event == Event("append", <<"block", "content">>, None, None, block)
             value == Appended(s, Old(model, id), fields["content"])
             other == model.blocks[Position(model.blocks, id)]
             new == IF Holding(model.blocks, id) = {} THEN PutBlock(model, block)
                    ELSE IF IsReference(other) \/ value = None THEN Refused
                    ELSE PatchBlock(model, id, <<"content">>, value)
  <1>1. block # None /\ block.id = id /\ block.fields = fields
    BY DEF Block, None
  <1>2. ~IsReference(block) /\ ValidBlock(s, block)
    BY DEF Block, IsReference
  <1> HIDE DEF block
  <1>3. /\ event.op = "append" /\ event.model = None /\ event.meta = None /\ event.block = block
        /\ event.mask # <<>> /\ Len(event.mask) = 2 /\ event.mask[1] = "block" /\ event.mask[2] = "content"
        /\ ~event.null
    BY DEF Event, EventOf
  <1> HIDE DEF event
  <1>4. value = Appended(s, IF "content" \in DOMAIN other.fields THEN other.fields["content"] ELSE None,
                         fields["content"])
    BY DEF Old, OldField, Held
  <1> HIDE DEF value, other
  <1>5. Reduce(s, model, event) = new
    <2>1. CASE s = "go"
      <3>1. GoValidate(event) /\ GoValidateBlock(block)
        BY <1>1, <1>2, <1>3, <2>1 DEF GoValidate, GoValidateFieldPatch, ValidBlock
      <3>2. GoAppendByMask(model, event) = new
        BY <1>1, <1>2, <1>3, <1>4, <2>1, <3>1 DEF GoAppendByMask, GoUpsertBlock, Has, other, Appended
      <3> QED BY <1>3, <2>1, <3>1, <3>2 DEF Reduce, GoApply
    <2>2. CASE s = "python"
      <3>1. PyValidate(event) /\ PyValidateBlock(block) /\ PyAppendable(event)
        BY <1>1, <1>2, <1>3, <2>2 DEF PyValidate, PyValidateFieldPatch, ValidBlock, PyAppendable
      <3>2. PyApplyAppend(model, event) = new
        BY <1>1, <1>2, <1>3, <1>4, <2>2, <3>1 DEF PyApplyAppend, other, Appended
      <3> QED BY <1>3, <2>2, <3>1, <3>2 DEF Reduce, PyApplyPatch
    <2>3. CASE s = "typescript"
      <3>1. TsParsePatchEvent(event) /\ TsValidateBlock(block)
        BY <1>1, <1>2, <1>3, <2>3 DEF TsParsePatchEvent, TsValidateFieldPatch, ValidBlock
      <3>2. TsApplyAppend(model, event) = new
        BY <1>1, <1>2, <1>3, <1>4, <2>3, <3>1 DEF TsApplyAppend, other, Appended
      <3> QED BY <1>3, <2>3, <3>1, <3>2 DEF Reduce, TsApplyPatch
    <2> QED BY <2>1, <2>2, <2>3 DEF Sdks
  <1>6. Inline(model, id) => Holding(model.blocks, id) # {} /\ ~IsReference(other)
    BY DEF Inline, other
  <1> QED BY <1>5, <1>6 DEF event, block, value

LEMMA MetaApplied ==
    ASSUME NEW s \in Sdks, NEW model, NEW name, NEW meta, DOMAIN meta = {name}, meta[name] # None,
           name \in {"status", "stats", "error"},
           NEW op \in {"set", "error"}, op = "error" => name = "error" /\ TsValidateError(meta)
    PROVE  Reduce(s, model, Event(op, <<"meta", name>>, None, meta, None)) = PatchMeta(model, <<name>>, meta[name])
  <1> DEFINE mask == <<"meta", name>>
             event == Event(op, mask, None, meta, None)
  <1>1. meta # None
    BY DEF None
  <1>2. event.op = op /\ event.mask = mask /\ event.model = None /\ event.meta = meta /\ event.block = None
        /\ ~event.null
    BY DEF Event, EventOf
  <1>3. mask # <<>> /\ mask[1] = "meta" /\ Tail(mask) = <<name>>
    OBVIOUS
  <1>4. op = "error" => mask = <<"meta", "error">>
    OBVIOUS
  <1> HIDE DEF event, mask
  <1>5. ReadPath(meta, <<name>>) = meta[name]
    BY DEF ReadPath
  <1>6. SetByMask(model, event) = PatchMeta(model, <<name>>, meta[name])
    BY <1>1, <1>2, <1>3, <1>5 DEF SetByMask, Patched
  <1>7. Reduce(s, model, event) = SetByMask(model, event)
    <2>1. CASE s = "go"
      BY <1>1, <1>2, <1>3, <1>4, <2>1 DEF Reduce, GoApply, GoValidate, TsValidateError
    <2>2. CASE s = "python"
      BY <1>1, <1>2, <1>3, <1>4, <2>2 DEF Reduce, PyApplyPatch, PyValidate, TsValidateError
    <2>3. CASE s = "typescript"
      BY <1>1, <1>2, <1>3, <1>4, <2>3 DEF Reduce, TsApplyPatch, TsParsePatchEvent
    <2> QED BY <2>1, <2>2, <2>3 DEF Sdks
  <1> QED BY <1>6, <1>7 DEF event, mask

LEMMA PingApplied ==
    ASSUME NEW s \in Sdks, NEW model, NEW op \in {"ping", "end"}
    PROVE  Reduce(s, model, Event(op, <<>>, None, None, None)) = model
  BY DEF Reduce, Sdks, Event, EventOf, GoApply, GoValidate, PyApplyPatch, PyValidate, TsApplyPatch, TsParsePatchEvent

--------------------------------------------------------------------------------
(* The emitter and its clients                                              *)

\* A model that an SDK takes.
Fit(s, model) == "blocks" \in DOMAIN model /\ Sound(model) /\ ValidModel(s, model)

LEMMA FitTaken ==
    ASSUME NEW s, NEW model, Fit(s, model)
    PROVE  model # Refused /\ model # None
  BY DEF Fit, Refused, None

LEMMA FitPut ==
    ASSUME NEW s \in Sdks, NEW model, Fit(s, model), NEW block, ValidBlock(s, block),
           IsReference(block) => model.version = "1.1"
    PROVE  Fit(s, PutBlock(model, block))
  <1>1. "blocks" \in DOMAIN PutBlock(model, block)
    BY DEF PutBlock, Model, ModelOf
  <1> QED BY <1>1, PutSound, ValidPut DEF Fit

LEMMA FitPatch ==
    ASSUME NEW s \in Sdks, NEW model, Fit(s, model), NEW id, NEW path, NEW value,
           Inline(model, id), path[1] \notin {"type", "group_id", "ref"}
    PROVE  Fit(s, PatchBlock(model, id, path, value))
  <1>1. "blocks" \in DOMAIN PatchBlock(model, id, path, value)
    BY DEF PatchBlock, PutBlock, Model, ModelOf
  <1> QED BY <1>1, PatchSound, ValidPatch DEF Fit

LEMMA FitPatchMeta ==
    ASSUME NEW s \in Sdks, NEW model, Fit(s, model), NEW name \in {"status", "stats", "error"},
           NEW meta, DOMAIN meta = {name}, meta[name] # None, name = "error" => TsValidateError(meta)
    PROVE  Fit(s, PatchMeta(model, <<name>>, meta[name]))
  <1> DEFINE event == Event("set", <<"meta", name>>, None, meta, None)
  <1>1. Tail(<<"meta", name>>) = <<name>> /\ ReadPath(meta, <<name>>) = meta[name]
    BY DEF ReadPath
  <1>2. event.mask = <<"meta", name>> /\ event.meta = meta /\ Streamed(event)
    BY DEF Event, EventOf, Streamed, Masks
  <1>3. meta # None /\ ~Malformed(meta)
    BY DEF None, Malformed
  <1> HIDE DEF event
  <1>4. ValidModel(s, PatchMeta(model, <<name>>, meta[name]))
    <2>1. event.mask # <<>> /\ Tail(event.mask) = <<name>> /\ ReadPath(event.meta, Tail(event.mask)) = meta[name]
      BY <1>1, <1>2
    <2>2. ValidModel(s, PatchMeta(model, Tail(event.mask), ReadPath(event.meta, Tail(event.mask))))
      BY <1>2, <1>3, <2>1, ValidPatchMeta DEF Fit
    <2> QED BY <2>1, <2>2
  <1>5. "blocks" \in DOMAIN PatchMeta(model, <<name>>, meta[name])
    BY DEF PatchMeta, Model, ModelOf
  <1> QED BY <1>4, <1>5, PatchSound DEF Fit

\* A valid block without its nulls is valid.
LEMMA ValidTrim ==
    ASSUME NEW s \in Sdks, NEW block, ValidBlock(s, block), NEW new, new.fields = NonNull(block.fields)
    PROVE  ValidBlock(s, new) /\ (IsReference(new) <=> IsReference(block))
  <1> DEFINE old == block.fields
             fields == new.fields
  <1>1. /\ DOMAIN fields = {n \in DOMAIN old : old[n] # Null}
        /\ \A n \in DOMAIN fields : fields[n] = old[n]
    BY DEF NonNull
  <1> HIDE DEF old, fields
  <1>2. \A n : HasName(old, n) => HasName(fields, n)
    BY <1>1 DEF HasName, Has, Null
  <1>3. OptionalText(old, "group_id") => OptionalText(fields, "group_id")
    BY <1>1 DEF OptionalText
  <1>4. HasName(fields, "ref") /\ DOMAIN old = {"ref"} => DOMAIN fields = {"ref"}
    BY <1>1 DEF HasName, Has
  <1>5. "ref" \in DOMAIN fields => "ref" \in DOMAIN old
    BY <1>1
  <1>6. CASE "ref" \in DOMAIN old
    <2>1. HasName(old, "ref") /\ DOMAIN old = {"ref"}
      BY <1>6 DEF ValidBlock, Sdks, GoValidateBlock, PyValidateBlock, TsValidateBlock, IsReference, old
    <2>2. HasName(fields, "ref") /\ DOMAIN fields = {"ref"}
      BY <1>2, <1>4, <2>1
    <2> QED BY <1>6, <2>2 DEF ValidBlock, Sdks, GoValidateBlock, PyValidateBlock, TsValidateBlock, IsReference, old, fields
  <1>7. CASE "ref" \notin DOMAIN old
    <2>1. HasName(old, "type") /\ (s # "python" => OptionalText(old, "group_id"))
      BY <1>7 DEF ValidBlock, Sdks, GoValidateBlock, PyValidateBlock, TsValidateBlock, IsReference, old
    <2> QED BY <1>2, <1>3, <1>5, <1>7, <2>1 DEF ValidBlock, Sdks, GoValidateBlock, PyValidateBlock, TsValidateBlock, IsReference, old, fields
  <1> QED BY <1>6, <1>7

\* What an SDK leaves out of a model that another takes makes no difference.
LEMMA FitDump ==
    ASSUME NEW s \in Sdks, NEW model, Fit(s, model)
    PROVE  Fit(s, DumpModel(model)) /\ Alike(DumpModel(model), model)
  <1> DEFINE new == Trimmed(model)
             list == [i \in DOMAIN model.blocks |->
                         Block(model.blocks[i].id, NonNull(model.blocks[i].fields))]
  <1>1. /\ new.version = model.version /\ new.meta = NonNull(model.meta) /\ new.blocks = list
        /\ "blocks" \in DOMAIN new /\ new.listed = model.listed
    BY DEF Trimmed, ModelOf
  <1>2. /\ DOMAIN list = DOMAIN model.blocks
        /\ \A i \in DOMAIN model.blocks :
               list[i].id = model.blocks[i].id /\ list[i].fields = NonNull(model.blocks[i].fields)
    BY DEF Block
  <1>3. IsSequence(list)
    <2>1. list \in Seq({list[i] : i \in DOMAIN model.blocks})
      BY DEF Fit, Sound, IsSequence
    <2> QED BY <2>1 DEF IsSequence
  <1> HIDE DEF new, list
  <1>4. \A f : /\ DOMAIN NonNull(f) = {n \in DOMAIN f : f[n] # Null}
               /\ \A n \in DOMAIN NonNull(f) : NonNull(f)[n] = f[n]
    BY DEF NonNull
  <1>5. \A f : Same(NonNull(f), f)
    BY <1>4, SameFields
  <1>6. Alike(new, model)
    BY <1>1, <1>2, <1>5 DEF Alike
  <1>7. \A i \in DOMAIN list : ValidBlock(s, list[i]) /\ (IsReference(list[i]) => model.version # "1.0")
    <2>1. \A i \in DOMAIN list : ValidBlock(s, model.blocks[i]) /\ (IsReference(model.blocks[i]) => model.version # "1.0")
      BY <1>2, ValidParts DEF Fit
    <2> QED BY <1>2, <2>1, ValidTrim
  <1>8. ValidMeta(s, new.meta)
    <2>1. ValidMeta(s, model.meta)
      BY ValidParts DEF Fit
    <2>2. ASSUME NEW f, NEW g, DOMAIN g \subseteq DOMAIN f, \A n \in DOMAIN g : g[n] = f[n], ValidMeta(s, f)
          PROVE  ValidMeta(s, g)
      BY <2>2 DEF ValidMeta, Has, TsValidateError
    <2>3. DOMAIN NonNull(model.meta) \subseteq DOMAIN model.meta
      BY <1>4
    <2>4. ValidMeta(s, NonNull(model.meta))
      BY <1>4, <2>1, <2>2, <2>3
    <2> QED BY <1>1, <2>4
  <1>9. UniqueIds(list)
    BY <1>2 DEF Fit, Sound, UniqueIds
  <1>10. ValidModel(s, new)
    <2>1. Stated(s, model)
      BY ValidParts DEF Fit
    <2>2. Stated(s, new)
      BY <1>1, <2>1 DEF Stated
    <2> QED BY <1>1, <1>7, <1>8, <1>9, <2>2, ValidParts
  <1>11. Fit(s, new) /\ Alike(new, model)
    BY <1>1, <1>3, <1>6, <1>9, <1>10 DEF Fit, Sound
  <1>12. Alike(model, model)
    BY DEF Alike, Same
  <1> QED BY <1>11, <1>12 DEF DumpModel, new

\* An emitter sends what it is given, up to nulls.
LEMMA DumpBlock ==
    ASSUME NEW s \in Sdks, NEW id, NEW fields, ValidBlock(s, Block(id, fields))
    PROVE  /\ ValidBlock(s, Block(id, Dump(fields)))
           /\ IsReference(Block(id, Dump(fields))) <=> IsReference(Block(id, fields))
           /\ Same(Dump(fields), fields)
  <1>1. \A f : Block(id, f).fields = f
    BY DEF Block
  <1>2. \A f : /\ DOMAIN NonNull(f) = {n \in DOMAIN f : f[n] # Null}
               /\ \A n \in DOMAIN NonNull(f) : NonNull(f)[n] = f[n]
    BY DEF NonNull
  <1>3. Same(NonNull(fields), fields) /\ Same(fields, fields)
    BY <1>2, SameFields
  <1>4. CASE Dump(fields) = fields
    BY <1>3, <1>4
  <1>5. CASE Dump(fields) = NonNull(fields)
    <2>1. Block(id, NonNull(fields)).fields = NonNull(Block(id, fields).fields)
      BY <1>1
    <2> QED BY <1>3, <1>5, <2>1, ValidTrim
  <1> QED BY <1>4, <1>5 DEF Dump

\* A block that is inline in the one is inline in the other.
LEMMA AlikeInline ==
    ASSUME NEW s \in Sdks, NEW a, NEW b, Fit(s, a), Fit(s, b), Alike(a, b), NEW id, Inline(b, id)
    PROVE  Inline(a, id)
  <1> DEFINE at == Position(b.blocks, id)
  <1>1. at \in DOMAIN b.blocks /\ Position(a.blocks, id) = at /\ Holding(a.blocks, id) # {}
    BY PositionHeld, AlikePlaces DEF Fit, Sound, Inline
  <1> HIDE DEF at
  <1>2. at \in DOMAIN a.blocks /\ Same(a.blocks[at].fields, b.blocks[at].fields)
    BY <1>1 DEF Alike
  <1>3. ValidBlock(s, a.blocks[at])
    BY <1>2, ValidParts DEF Fit
  <1>4. IsReference(a.blocks[at]) => "ref" \in DOMAIN a.blocks[at].fields /\ a.blocks[at].fields["ref"] # Null
    <2>1. IsReference(a.blocks[at]) => HasName(a.blocks[at].fields, "ref")
      BY <1>3 DEF ValidBlock, Sdks, GoValidateBlock, PyValidateBlock, TsValidateBlock
    <2> QED BY <2>1 DEF HasName, Has, Null
  <1>5. IsReference(a.blocks[at]) => IsReference(b.blocks[at])
    BY <1>2, <1>4, SameFields DEF IsReference
  <1>6. ~IsReference(b.blocks[at])
    BY DEF Inline, at
  <1> QED BY <1>1, <1>5, <1>6 DEF Inline

\* A delta makes the same of both.
AppendAlike(s, a, b, id, delta) ==
    /\ Filled(Appended(s, Old(a, id), delta)) = Filled(Concatenated(Old(b, id), delta))
    /\ Appended(s, Old(a, id), delta) = None <=> Concatenated(Old(b, id), delta) = None

LEMMA AlikeConcatenated ==
    ASSUME NEW s, NEW a, NEW b, Alike(a, b), Sound(b), NEW id, Holding(b.blocks, id) # {}, NEW delta
    PROVE  AppendAlike(s, a, b, id, delta)
  <1> DEFINE at == Position(b.blocks, id)
             f == a.blocks[at].fields
             g == b.blocks[at].fields
  <1>1. at \in DOMAIN b.blocks /\ Position(a.blocks, id) = at
    BY PositionHeld, AlikePlaces DEF Sound
  <1>2. Same(f, g)
    BY <1>1 DEF Alike
  <1>3. /\ Old(a, id) = IF "content" \in DOMAIN f THEN f["content"] ELSE None
        /\ Old(b, id) = IF "content" \in DOMAIN g THEN g["content"] ELSE None
    BY <1>1 DEF Old, OldField, Held
  <1> HIDE DEF f, g
  <1>4. Filled(Old(a, id)) = Filled(Old(b, id)) \/ (Old(a, id) \in {None, Null} /\ Old(b, id) \in {None, Null})
    BY <1>2, <1>3, SameFields
  <1>5. \A old : Concatenated(old, delta) = Appended("python", old, delta)
    BY DEF Appended
  <1>6. CASE Filled(Old(a, id)) = Filled(Old(b, id))
    BY <1>5, <1>6, AppendedReads DEF AppendAlike
  <1>7. CASE Old(a, id) \in {None, Null} /\ Old(b, id) \in {None, Null}
    <2>1. Concatenated(Old(a, id), delta) = Concatenated(Old(b, id), delta)
      BY <1>7 DEF Concatenated
    <2>2. /\ Filled(Appended(s, Old(a, id), delta)) = Filled(Appended("python", Old(a, id), delta))
          /\ Appended(s, Old(a, id), delta) = None <=> Appended("python", Old(a, id), delta) = None
      BY AppendedReads
    <2> QED BY <1>5, <2>1, <2>2 DEF AppendAlike
  <1> QED BY <1>4, <1>6, <1>7

\* As long as every call meant something, no client has stopped, and each has the
\* model that the calls describe, which could be its next start.
MirrorInv ==
    producer # "none" /\ intent # None =>
        \A s \in Sdks : stopped[s] = "no" /\ Fit(s, intent) /\ Fit(s, view[s]) /\ Alike(view[s], intent)

LEMMA MirrorMakes ==
    ASSUME MirrorInv, Calling, NEW event, NEW seq, NEW wanted, Makes(event, seq, wanted),
           wanted # None => \A s \in Sdks : /\ Fit(s, wanted)
                                            /\ Fit(s, Reduce(s, view[s], event))
                                            /\ Alike(Reduce(s, view[s], event), wanted)
    PROVE  MirrorInv'
  <1> DEFINE Mirrored == producer' # "none" /\ intent' # None =>
                 \A s \in Sdks : /\ stopped'[s] = "no" /\ Fit(s, intent') /\ Fit(s, view'[s])
                                 /\ Alike(view'[s], intent')
  <1>1. CASE UNCHANGED <<view, stopped, intent, producer>>
    <2>1. Mirrored
      BY <1>1 DEF MirrorInv
    <2> QED BY <2>1 DEF MirrorInv, Fit, Sound, ValidModel, Alike, Same
  <1>2. CASE Deliver(event) /\ intent' = wanted
    <2>1. ASSUME NEW s \in Sdks, wanted # None
          PROVE  stopped'[s] = "no" /\ view'[s] = Reduce(s, view[s], event)
      <3>1. stopped[s] = "no"
        BY DEF Calling, MirrorInv
      <3>2. ~Refuses(s, event)
        BY <2>1, FitTaken DEF Refuses
      <3> QED BY <1>2, <3>1, <3>2 DEF Deliver
    <2>2. Mirrored
      BY <1>2, <2>1
    <2> QED BY <2>2 DEF MirrorInv, Fit, Sound, ValidModel, Alike, Same
  <1> QED BY <1>1, <1>2 DEF Makes

\* Documents are models for every SDK.
LEMMA FitDocument ==
    ASSUME NEW s \in Sdks, NEW model \in Documents
    PROVE  Fit(s, model)
  <1>1. IsSequence(model.blocks) /\ UniqueIds(model.blocks)
    BY DocumentsGrouped DEF Documents
  <1>2. Stated(s, model) /\ "blocks" \in DOMAIN model
    BY DEF Documents, Models, Model, ModelOf, Stated
  <1>3. ValidMeta(s, model.meta)
    BY DEF Documents, ValidMeta, Has, Null
  <1>4. HasName(Plain, "type") /\ DOMAIN Plain = {"type"}
    BY DEF Plain, HasName, Has, Word, Text
  <1>5. \A i \in DOMAIN model.blocks : ValidBlock(s, model.blocks[i]) /\ ~IsReference(model.blocks[i])
    <2>1. \A i \in DOMAIN model.blocks : model.blocks[i].fields = Plain
      BY DEF Documents
    <2>2. ASSUME NEW block, block.fields = Plain PROVE ValidBlock(s, block) /\ ~IsReference(block)
      <3>1. HasName(block.fields, "type") /\ DOMAIN block.fields = {"type"}
        BY <1>4, <2>2
      <3> QED BY <3>1 DEF ValidBlock, Sdks, GoValidateBlock, PyValidateBlock, TsValidateBlock, IsReference, OptionalText
    <2> QED BY <2>1, <2>2
  <1> QED BY <1>1, <1>2, <1>3, <1>5, ValidParts DEF Fit, Sound

\* The blocks that applications describe.
LEMMA InlineFields ==
    ASSUME NEW fields \in Inlines
    PROVE  /\ HasName(fields, "type") /\ "ref" \notin DOMAIN fields /\ "id" \notin DOMAIN fields
           /\ "content" \in DOMAIN fields => /\ "group_id" \notin DOMAIN fields
                                             /\ fields["content"] = Null \/ Has(fields, "content", {"text", "list"})
  BY DEF Inlines, Plain, HasName, Has, Word, Text, Odd, List

LEMMA MirrorStart ==
    ASSUME MirrorInv, Start \/ Restart
    PROVE  MirrorInv'
  <1>1. ASSUME NEW s \in Sdks, NEW model, Fit(s, model)
        PROVE  LET new == Reduce(s, view[s], StartOf(DumpModel(model))) IN Fit(s, new) /\ Alike(new, model)
    <2>1. Fit(s, DumpModel(model)) /\ Alike(DumpModel(model), model)
      BY <1>1, FitDump
    <2>2. Reduce(s, view[s], StartOf(DumpModel(model))) = DumpModel(model)
      BY <2>1, StartApplied DEF Fit
    <2> QED BY <2>1, <2>2
  <1>2. CASE Start
    <2>1. PICK model \in Documents : Calling /\ Makes(StartOf(DumpModel(model)), offset + 1, model)
      BY <1>2 DEF Start
    <2> QED BY <1>1, <2>1, FitDocument, MirrorMakes
  <1>3. CASE Restart
    <2> DEFINE event == StartOf(DumpModel(intent))
    <2>1. Calling /\ Makes(event, offset, IF Contested(event) THEN None ELSE intent)
      BY <1>3 DEF Restart
    <2>2. \A s \in Sdks : Fit(s, intent)
      BY <2>1 DEF Calling, MirrorInv
    <2> QED BY <1>1, <2>1, <2>2, MirrorMakes
  <1> QED BY <1>2, <1>3

LEMMA MirrorBlockSet ==
    ASSUME MirrorInv, BlockSet
    PROVE  MirrorInv'
  <1> DEFINE proper(block) == ~BadGroup(block) /\ (IsReference(block) => intent.version = "1.1")
             sent(id, fields) == Event("set", <<>>, None, None, Block(id, Dump(fields)))
  <1>1. PICK id \in Ids, fields \in Inlines \cup {[ref |-> Word]} :
            /\ Calling
            /\ Makes(sent(id, fields), offset + 1,
                     IF proper(Block(id, fields)) THEN PutBlock(intent, Block(id, fields)) ELSE None)
    BY DEF BlockSet
  <1>2. ASSUME NEW s \in Sdks, proper(Block(id, fields))
        PROVE  /\ Fit(s, PutBlock(intent, Block(id, fields)))
               /\ Fit(s, Reduce(s, view[s], sent(id, fields)))
               /\ Alike(Reduce(s, view[s], sent(id, fields)), PutBlock(intent, Block(id, fields)))
    <2>1. Fit(s, intent) /\ Fit(s, view[s]) /\ Alike(view[s], intent)
      BY <1>1 DEF Calling, MirrorInv
    <2>2. Block(id, fields).fields = fields /\ Block(id, fields).id = id /\ Block(id, Dump(fields)).id = id
          /\ Block(id, Dump(fields)).fields = Dump(fields)
      BY DEF Block
    <2>3. ValidBlock(s, Block(id, fields))
      <3>1. CASE fields \in Inlines
        BY <1>2, <2>2, <3>1, InlineFields DEF ValidBlock, Sdks, GoValidateBlock, PyValidateBlock, TsValidateBlock, IsReference, BadGroup
      <3>2. CASE fields = [ref |-> Word]
        <4>1. DOMAIN fields = {"ref"} /\ HasName(fields, "ref")
          BY <3>2 DEF HasName, Has, Word, Text
        <4> QED BY <2>2, <4>1 DEF ValidBlock, Sdks, GoValidateBlock, PyValidateBlock, TsValidateBlock, IsReference
      <3> QED BY <3>1, <3>2
    <2>4. /\ ValidBlock(s, Block(id, Dump(fields))) /\ Same(Dump(fields), fields)
          /\ IsReference(Block(id, Dump(fields))) <=> IsReference(Block(id, fields))
      BY <2>3, DumpBlock
    <2>5. IsReference(Block(id, fields)) => intent.version = "1.1" /\ view[s].version = "1.1"
      BY <1>2, <2>1 DEF Alike
    <2>6. Reduce(s, view[s], sent(id, fields)) = PutBlock(view[s], Block(id, Dump(fields)))
      BY <2>4, <2>5, PutApplied
    <2>7. Alike(PutBlock(view[s], Block(id, Dump(fields))), PutBlock(intent, Block(id, fields)))
      BY <2>1, <2>2, <2>4, AlikePut DEF Fit, Sound
    <2> QED BY <2>1, <2>3, <2>4, <2>5, <2>6, <2>7, FitPut
  <1> HIDE DEF proper, sent
  <1> QED BY <1>1, <1>2, MirrorMakes

LEMMA MirrorFieldSet ==
    ASSUME MirrorInv, FieldSet
    PROVE  MirrorInv'
  <1> DEFINE sent(id, fields, mask) == Event("set", mask, None, None, Block(id, fields))
  <1>1. PICK id \in Ids, fields \in Inlines \cup {Flat}, mask \in FieldMasks :
            LET value == ReadPath(fields, Tail(mask))
            IN  /\ Calling
                /\ Makes(sent(id, fields, mask), offset + 1,
                         IF Inline(intent, id) /\ value # None
                           THEN PatchBlock(intent, id, Tail(mask), value) ELSE None)
    BY DEF FieldSet, DumpField
  <1> DEFINE value == ReadPath(fields, Tail(mask))
             event == sent(id, fields, mask)
  <1>2. "ref" \notin DOMAIN fields /\ "id" \notin DOMAIN fields
    BY InlineFields DEF Flat
  <1>3. value # None => mask \in {<<"block", "content">>, <<"block", "tool", "status">>}
    <2>1. ASSUME NEW path, path = <<"id">> PROVE ReadPath(fields, path) = None
      <3>1. Len(path) = 1 /\ path[Len(path)] = "id"
        BY <2>1
      <3> QED BY <1>2, <3>1 DEF ReadPath
    <2>2. mask = <<"block", "id">> => Tail(mask) = <<"id">>
      OBVIOUS
    <2> QED BY <2>1, <2>2 DEF FieldMasks
  <1>4. Tail(mask)[1] \notin {"type", "group_id"} /\ (value # None => Tail(mask)[1] # "ref")
    <2>1. mask \in Masks /\ mask # <<>> /\ mask \notin {<<"block", "type">>, <<"block", "group_id">>}
      BY DEF FieldMasks, Masks
    <2>2. value # None => mask[2] # "ref"
      BY <1>3
    <2> QED BY <2>1, <2>2, MaskPath
  <1>5. ASSUME NEW s \in Sdks, Inline(intent, id), value # None
        PROVE  /\ Fit(s, PatchBlock(intent, id, Tail(mask), value))
               /\ Fit(s, Reduce(s, view[s], event))
               /\ Alike(Reduce(s, view[s], event), PatchBlock(intent, id, Tail(mask), value))
    <2>1. Fit(s, intent) /\ Fit(s, view[s]) /\ Alike(view[s], intent)
      BY <1>1 DEF Calling, MirrorInv
    <2>2. Inline(view[s], id)
      BY <1>5, <2>1, AlikeInline
    <2>3. Reduce(s, view[s], event) = PatchBlock(view[s], id, Tail(mask), value)
      <3>1. mask \in {<<"block", "content">>, <<"block", "tool", "status">>}
        BY <1>3, <1>5
      <3>2. mask # <<>> /\ mask[1] = "block" /\ mask[2] \notin {"id", "ref"}
        BY <3>1
      <3> QED BY <1>2, <1>5, <2>2, <3>2, PatchApplied
    <2> QED BY <1>4, <1>5, <2>1, <2>2, <2>3, FitPatch, AlikePatch DEF Fit
  <1> HIDE DEF sent
  <1> QED BY <1>1, <1>5, MirrorMakes

LEMMA MirrorAppend ==
    ASSUME MirrorInv, BlockAppend
    PROVE  MirrorInv'
  <1> DEFINE sent(id, fields) == Event("append", <<"block", "content">>, None, None, Block(id, Dump(fields)))
             value(id, fields) == Concatenated(Old(intent, id), fields["content"])
             wanted(id, fields) ==
                 IF fields["content"] = Null THEN None
                 ELSE IF Holding(intent.blocks, id) = {} THEN PutBlock(intent, Block(id, fields))
                 ELSE IF IsReference(intent.blocks[Position(intent.blocks, id)]) \/ value(id, fields) = None THEN None
                 ELSE PatchBlock(intent, id, <<"content">>, value(id, fields))
  <1>1. PICK id \in Ids, fields \in Inlines :
            /\ Calling
            /\ "content" \in DOMAIN fields
            /\ Makes(sent(id, fields), offset + 1, wanted(id, fields))
    BY DEF BlockAppend, Old, OldField, Held
  <1> DEFINE delta == fields["content"]
             event == sent(id, fields)
  <1>2. HasName(fields, "type") /\ "ref" \notin DOMAIN fields /\ "group_id" \notin DOMAIN fields
        /\ (delta # Null => Has(fields, "content", {"text", "list"}))
    BY <1>1, InlineFields
  <1>3. ASSUME delta # Null
        PROVE  Has(Dump(fields), "content", {"text", "list"}) /\ Dump(fields)["content"] = delta
               /\ "ref" \notin DOMAIN Dump(fields)
    BY <1>1, <1>2, <1>3 DEF Dump, NonNull, Has
  <1>4. ASSUME NEW s \in Sdks, wanted(id, fields) # None
        PROVE  /\ Fit(s, wanted(id, fields))
               /\ Fit(s, Reduce(s, view[s], event))
               /\ Alike(Reduce(s, view[s], event), wanted(id, fields))
    <2>1. Fit(s, intent) /\ Fit(s, view[s]) /\ Alike(view[s], intent)
      BY <1>1 DEF Calling, MirrorInv
    <2>2. Block(id, fields).fields = fields /\ Block(id, fields).id = id /\ Block(id, Dump(fields)).id = id
          /\ Block(id, Dump(fields)).fields = Dump(fields)
      BY DEF Block
    <2>3. ValidBlock(s, Block(id, fields)) /\ ~IsReference(Block(id, fields))
      BY <1>2, <2>2 DEF ValidBlock, Sdks, GoValidateBlock, PyValidateBlock, TsValidateBlock, IsReference, OptionalText
    <2>4. /\ ValidBlock(s, Block(id, Dump(fields))) /\ Same(Dump(fields), fields)
          /\ ~IsReference(Block(id, Dump(fields)))
      BY <2>3, DumpBlock
    <2>5. delta # Null /\ delta.kind \in {"text", "list"}
      BY <1>2, <1>4 DEF Has
    <2>6. CASE Holding(intent.blocks, id) = {}
      <3>1. wanted(id, fields) = PutBlock(intent, Block(id, fields))
        BY <2>5, <2>6
      <3>2. Holding(view[s].blocks, id) = {}
        BY <2>1, <2>6, AlikePlaces
      <3>3. Reduce(s, view[s], event) = PutBlock(view[s], Block(id, Dump(fields)))
        BY <1>3, <2>4, <2>5, <3>2, AppendApplied
      <3>4. Alike(PutBlock(view[s], Block(id, Dump(fields))), PutBlock(intent, Block(id, fields)))
        BY <2>1, <2>2, <2>4, AlikePut DEF Fit, Sound
      <3> HIDE DEF wanted, sent
      <3> QED BY <2>1, <2>3, <2>4, <3>1, <3>3, <3>4, FitPut
    <2>7. CASE Holding(intent.blocks, id) # {}
      <3> DEFINE new == value(id, fields)
      <3>1. /\ Inline(intent, id) /\ new # None
            /\ wanted(id, fields) = PatchBlock(intent, id, <<"content">>, new)
        BY <1>4, <2>7 DEF Inline
      <3>2. Inline(view[s], id)
        BY <2>1, <3>1, AlikeInline
      <3> DEFINE made == Appended(s, Old(view[s], id), Dump(fields)["content"])
      <3>3. Filled(made) = Filled(new) /\ made # None
        <4>1. Alike(view[s], intent) /\ Sound(intent)
          BY <2>1 DEF Fit
        <4>2. /\ Filled(Appended(s, Old(view[s], id), delta)) = Filled(new)
              /\ Appended(s, Old(view[s], id), delta) = None <=> new = None
          <5>1. AppendAlike(s, view[s], intent, id, delta)
            <6> HIDE DEF delta
            <6> QED BY <2>7, <4>1, AlikeConcatenated
          <5> QED BY <5>1 DEF AppendAlike
        <4>3. Dump(fields)["content"] = delta
          BY <1>3, <2>5
        <4> HIDE DEF new, delta
        <4> QED BY <3>1, <4>2, <4>3
      <3> HIDE DEF new, wanted
      <3>4. Reduce(s, view[s], event) = PatchBlock(view[s], id, <<"content">>, made)
        BY <1>3, <2>4, <2>5, <3>2, <3>3, AppendApplied
      <3>5. <<"content">>[1] \notin {"type", "group_id", "ref"} /\ Len(<<"content">>) = 1
        OBVIOUS
      <3> HIDE DEF event, made
      <3>6. Fit(s, PatchBlock(intent, id, <<"content">>, new)) /\ Fit(s, PatchBlock(view[s], id, <<"content">>, made))
        BY <2>1, <3>1, <3>2, <3>5, FitPatch
      <3>7. Alike(PatchBlock(view[s], id, <<"content">>, made), PatchBlock(intent, id, <<"content">>, new))
        BY <2>1, <3>1, <3>3, <3>5, AlikePatch DEF Fit
      <3> QED BY <3>1, <3>4, <3>6, <3>7
    <2> QED BY <2>6, <2>7
  <1> HIDE DEF sent, wanted
  <1> QED BY <1>1, <1>4, MirrorMakes

LEMMA MirrorMeta ==
    ASSUME MirrorInv, MetaSet \/ SetStats \/ Error
    PROVE  MirrorInv'
  <1>1. ASSUME NEW s \in Sdks, Calling, NEW name \in {"status", "stats", "error"}, NEW meta, DOMAIN meta = {name},
               meta[name] # None, name = "error" => TsValidateError(meta),
               NEW op \in {"set", "error"}, op = "error" => name = "error"
        PROVE  LET event == Event(op, <<"meta", name>>, None, meta, None)
                   wanted == PatchMeta(intent, <<name>>, meta[name])
               IN  /\ Fit(s, wanted) /\ Fit(s, Reduce(s, view[s], event))
                   /\ Alike(Reduce(s, view[s], event), wanted)
    <2>1. Fit(s, intent) /\ Fit(s, view[s]) /\ Alike(view[s], intent)
      BY <1>1 DEF Calling, MirrorInv
    <2>2. Reduce(s, view[s], Event(op, <<"meta", name>>, None, meta, None)) = PatchMeta(view[s], <<name>>, meta[name])
      BY <1>1, MetaApplied
    <2> QED BY <1>1, <2>1, <2>2, FitPatchMeta, AlikePatchMeta
  <1>2. CASE MetaSet \/ SetStats
    <2>1. PICK name, value : name \in {"status", "stats"} /\ Sets(name, value) /\ value # None
      <3>1. Word # None /\ Null # None /\ \A stats : Object(stats) # None
        BY DEF Word, Text, Null, Object, None
      <3> QED BY <1>2, <3>1 DEF MetaSet, SetStats
    <2> DEFINE meta == [n \in {name} |-> value]
    <2>2. DOMAIN meta = {name} /\ meta[name] = value
      OBVIOUS
    <2>3. Calling /\ Makes(Event("set", <<"meta", name>>, None, meta, None), offset + 1,
                           PatchMeta(intent, <<name>>, meta[name]))
      BY <2>1 DEF Sets
    <2> HIDE DEF meta
    <2> QED BY <1>1, <2>1, <2>2, <2>3, MirrorMakes
  <1>3. CASE Error
    <2> DEFINE meta == [error |-> Failure]
    <2>1. DOMAIN meta = {"error"} /\ meta["error"] = Failure
      OBVIOUS
    <2>2. Failure # None /\ TsValidateError(meta)
      BY DEF Failure, Object, Word, Text, None, TsValidateError, Has
    <2>3. Calling /\ Makes(Event("error", <<"meta", "error">>, None, meta, None), offset + 1,
                           PatchMeta(intent, <<"error">>, meta["error"]))
      BY <1>3, <2>1 DEF Error
    <2> HIDE DEF meta
    <2> QED BY <1>1, <2>1, <2>2, <2>3, MirrorMakes
  <1> QED BY <1>2, <1>3

LEMMA MirrorStep ==
    ASSUME MirrorInv, [EmissionNext]_<<vars, emitterVars>>
    PROVE  MirrorInv'
  <1>1. ASSUME UNCHANGED <<vars, emitterVars>> PROVE MirrorInv'
    <2>1. producer' # "none" /\ intent' # None =>
              \A s \in Sdks : /\ stopped'[s] = "no" /\ Fit(s, intent') /\ Fit(s, view'[s])
                              /\ Alike(view'[s], intent')
      BY <1>1 DEF vars, emitterVars, MirrorInv
    <2> QED BY <2>1 DEF MirrorInv, Fit, Sound, ValidModel, Alike, Same
  <1>2. CASE Feed
    BY <1>2 DEF Feed, emitterVars, MirrorInv
  <1>3. CASE Ping \/ End
    <2>1. PICK op, seq : /\ op \in {"ping", "end"}
                        /\ Calling
                        /\ Makes(Event(op, <<>>, None, None, None), seq, intent)
      BY <1>3 DEF Ping, End
    <2>2. \A s \in Sdks : /\ Fit(s, intent) /\ Fit(s, view[s]) /\ Alike(view[s], intent)
                          /\ Reduce(s, view[s], Event(op, <<>>, None, None, None)) = view[s]
      BY <2>1, PingApplied DEF Calling, MirrorInv
    <2> QED BY <2>1, <2>2, MirrorMakes
  <1> QED BY <1>1, <1>2, <1>3, MirrorStart, MirrorBlockSet, MirrorFieldSet, MirrorAppend, MirrorMeta DEF EmissionNext

LEMMA MirrorAlways == EmissionSpec => []MirrorInv
  <1>1. EmissionInit => MirrorInv
    <2> SUFFICES ASSUME EmissionInit, producer # "none", NEW s \in Sdks
                 PROVE  stopped[s] = "no" /\ Fit(s, intent) /\ Fit(s, view[s]) /\ Alike(view[s], intent)
      BY DEF MirrorInv
    <2>1. view["go"] \in Documents /\ intent = view["go"] /\ view[s] = view["go"] /\ stopped[s] = "no"
      BY DEF EmissionInit, Init, Sdks
    <2> QED BY <2>1, FitDocument DEF Alike, Same
  <1> QED BY <1>1, MirrorStep, PTL DEF EmissionSpec

\* What the application says is what every client has, as read and up to fields
\* that are null, whichever SDK says it and whichever SDK listens: no call that means
\* something makes an event that a client refuses.
THEOREM EmitterMirrors == EmissionSpec => []Mirrors
  <1>1. MirrorInv => Mirrors
    BY AlikeTrimmed DEF MirrorInv, Mirrors
  <1> QED BY <1>1, MirrorAlways, PTL

--------------------------------------------------------------------------------
(* Steps                                                                    *)

\* A call that is no start, no covering start and no ping takes a number.
LEMMA CallStep ==
    ASSUME BlockSet \/ FieldSet \/ BlockAppend \/ MetaSet \/ SetStats \/ Error \/ End
    PROVE  \E event, wanted : event.op # "start" /\ Streamed(event) /\ Makes(event, offset + 1, wanted)
  <1>1. \A op, mask, meta, block : op # "start" /\ mask \in Masks =>
            Event(op, mask, None, meta, block).op # "start" /\ Streamed(Event(op, mask, None, meta, block))
    BY DEF Event, EventOf, Streamed
  <1>2. {<<>>, <<"meta", "status">>, <<"meta", "stats">>, <<"meta", "error">>, <<"block", "content">>} \cup FieldMasks
            \subseteq Masks
    BY DEF Masks, FieldMasks
  <1>3. CASE BlockSet
    BY <1>1, <1>2, <1>3 DEF BlockSet
  <1>4. CASE FieldSet
    BY <1>1, <1>2, <1>4 DEF FieldSet
  <1>5. CASE BlockAppend
    BY <1>1, <1>2, <1>5 DEF BlockAppend
  <1>6. CASE MetaSet \/ SetStats
    BY <1>1, <1>2, <1>6 DEF MetaSet, SetStats, Sets
  <1>7. CASE Error
    BY <1>1, <1>2, <1>7 DEF Error
  <1>8. CASE End
    BY <1>1, <1>2, <1>8 DEF End
  <1> QED BY <1>3, <1>4, <1>5, <1>6, <1>7, <1>8

\* A covering start and a ping leave the clients as they are, up to nulls.
LEMMA CoverStep ==
    ASSUME MirrorInv, Restart \/ Ping
    PROVE  \E event, wanted : /\ Makes(event, offset, wanted)
                              /\ \A s \in Sdks : Alike(view'[s], view[s])
  <1>1. \A s \in Sdks : Alike(view[s], view[s])
    BY DEF Alike, Same
  <1>2. ASSUME NEW event, NEW wanted, Makes(event, offset, wanted),
               \A s \in Sdks : Alike(Reduce(s, view[s], event), view[s])
        PROVE  \A s \in Sdks : Alike(view'[s], view[s])
    BY <1>1, <1>2 DEF Makes, Deliver
  <1>3. CASE Restart
    <2> DEFINE event == StartOf(DumpModel(intent))
    <2>1. Calling /\ Makes(event, offset, IF Contested(event) THEN None ELSE intent)
      BY <1>3 DEF Restart
    <2>2. ASSUME NEW s \in Sdks PROVE Alike(Reduce(s, view[s], event), view[s])
      <3>1. Fit(s, intent) /\ Alike(view[s], intent)
        BY <2>1 DEF Calling, MirrorInv
      <3>2. Fit(s, DumpModel(intent)) /\ Alike(DumpModel(intent), intent)
        BY <3>1, FitDump
      <3>3. Reduce(s, view[s], event) = DumpModel(intent)
        BY <3>2, StartApplied DEF Fit
      <3> HIDE DEF event
      <3> QED BY <3>1, <3>2, <3>3 DEF Alike, Same
    <2> QED BY <1>2, <2>1, <2>2
  <1>4. CASE Ping
    <2>1. Makes(Event("ping", <<>>, None, None, None), offset, intent)
      BY <1>4 DEF Ping
    <2> QED BY <1>1, <1>2, <2>1, PingApplied
  <1> QED BY <1>3, <1>4

\* No event has a number that the emitter has not reached.
NumberInv == number \in Nat /\ offset \in Nat /\ number <= offset

LEMMA NumberStep ==
    ASSUME NumberInv, [EmissionNext]_<<vars, emitterVars>>
    PROVE  NumberInv'
  <1>1. ASSUME NEW event, NEW seq \in {offset, offset + 1}, NEW wanted, Makes(event, seq, wanted) PROVE NumberInv'
    BY <1>1 DEF Makes, NumberInv
  <1>2. CASE Start
    BY <1>1, <1>2 DEF Start
  <1>3. CASE Restart
    BY <1>1, <1>3 DEF Restart
  <1>4. CASE Ping
    BY <1>1, <1>4 DEF Ping
  <1>5. CASE BlockSet \/ FieldSet \/ BlockAppend \/ MetaSet \/ SetStats \/ Error \/ End
    BY <1>1, <1>5, CallStep
  <1>6. CASE Feed \/ UNCHANGED <<vars, emitterVars>>
    BY <1>6 DEF Feed, emitterVars, NumberInv
  <1> QED BY <1>2, <1>3, <1>4, <1>5, <1>6 DEF EmissionNext

\* seq orders the transitions of the model: an event of the emitter that changes
\* what a client's model reads has a number of its own, above all before, whatever calls
\* failed, pings or covering starts there were.
THEOREM NumbersOrder == EmissionSpec => TransitionsNumbered
  <1> DEFINE Numbered == producer # "none" =>
                 /\ number' >= number /\ number' <= offset'
                 /\ \A s \in Sdks : Trimmed(AsRead(view'[s])) # Trimmed(AsRead(view[s])) => number' > number
  <1>1. EmissionInit => NumberInv
    BY DEF EmissionInit, NumberInv
  <1>2. NumberInv /\ MirrorInv /\ [EmissionNext]_<<vars, emitterVars>> => [Numbered]_<<vars, emitterVars>>
    <2> SUFFICES ASSUME NumberInv, MirrorInv, EmissionNext PROVE Numbered
      OBVIOUS
    <2>1. ASSUME NEW event, NEW wanted, Makes(event, offset + 1, wanted) PROVE Numbered
      BY <2>1 DEF Makes, NumberInv
    <2>2. CASE Start
      BY <2>1, <2>2 DEF Start
    <2>3. CASE BlockSet \/ FieldSet \/ BlockAppend \/ MetaSet \/ SetStats \/ Error \/ End
      BY <2>1, <2>3, CallStep
    <2>4. CASE Restart \/ Ping
      <3>1. PICK event, wanted : Makes(event, offset, wanted) /\ \A s \in Sdks : Alike(view'[s], view[s])
        BY <2>4, CoverStep
      <3>2. number' >= number /\ number' <= offset'
        BY <3>1 DEF Makes, NumberInv
      <3> QED BY <3>1, <3>2, AlikeTrimmed
    <2>5. CASE Feed
      BY <2>5 DEF Feed
    <2> QED BY <2>2, <2>3, <2>4, <2>5 DEF EmissionNext
  <1>3. NumberInv /\ [EmissionNext]_<<vars, emitterVars>> => NumberInv'
    BY NumberStep
  <1>4. EmissionSpec => [][Numbered]_<<vars, emitterVars>>
    <2> HIDE DEF Numbered
    <2> QED BY <1>1, <1>2, <1>3, MirrorAlways, PTL DEF EmissionSpec
  <1> QED BY <1>4 DEF TransitionsNumbered

\* The blocks of a model are where they were, with the ids they had.
SamePlaces(old, new) ==
    \A i \in DOMAIN old.blocks : i \in DOMAIN new.blocks /\ new.blocks[i].id = old.blocks[i].id

LEMMA PutPlaces ==
    ASSUME NEW model, Sound(model), NEW block
    PROVE  SamePlaces(model, PutBlock(model, block))
  <1> DEFINE blocks == model.blocks
             new == PutBlock(model, block)
  <1>1. PICK S : blocks \in Seq(S)
    BY DEF Sound, IsSequence
  <1>2. CASE Holding(blocks, block.id) = {}
    <2>1. new.blocks = Append(blocks, block)
      BY <1>2 DEF PutBlock, Model, ModelOf
    <2>2. blocks \in Seq(S \cup {block})
      BY <1>1
    <2>3. \A i \in DOMAIN blocks : i \in DOMAIN new.blocks /\ new.blocks[i] = blocks[i]
      BY <2>1, <2>2
    <2> QED BY <2>3 DEF SamePlaces
  <1>3. CASE Holding(blocks, block.id) # {}
    <2>1. new.blocks = [blocks EXCEPT ![Position(blocks, block.id)] = block]
      BY <1>3 DEF PutBlock, Model, ModelOf
    <2>2. blocks[Position(blocks, block.id)].id = block.id
      BY <1>3, PositionHeld DEF Sound
    <2> QED BY <2>1, <2>2 DEF SamePlaces
  <1> QED BY <1>2, <1>3

LEMMA ReducePlaces ==
    ASSUME NEW s \in Sdks, NEW model, Sound(model), NEW event, Streamed(event), event.op # "start",
           Reduce(s, model, event) # Refused
    PROVE  SamePlaces(model, Reduce(s, model, event))
  <1> DEFINE new == Reduce(s, model, event)
  <1>1. \A id, path, value : SamePlaces(model, PatchBlock(model, id, path, value))
    BY PutPlaces DEF PatchBlock
  <1>2. \A path, value : SamePlaces(model, PatchMeta(model, path, value))
    BY DEF PatchMeta, Model, ModelOf, SamePlaces
  <1> SUFFICES SamePlaces(model, new)
    OBVIOUS
  <1> HIDE DEF new
  <1>3. CASE event.op = "set" /\ event.mask = <<>>
    <2>1. new = PutBlock(model, event.block)
      BY <1>3, UpsertedAs DEF new
    <2> QED BY <2>1, PutPlaces
  <1>4. CASE (event.op = "set" /\ event.mask # <<>>) \/ event.op = "error"
    <2>1. new = SetByMask(model, event) /\ new # Refused
      BY <1>4, OtherwiseAs DEF new
    <2> QED BY <1>1, <1>2, <2>1 DEF SetByMask, Patched
  <1>5. CASE event.op = "append"
    <2>1. \/ new = PutBlock(model, event.block)
          \/ \E value : new = PatchBlock(model, event.block.id, <<event.mask[2]>>, value)
      BY <1>5, AppendedAs DEF new
    <2> QED BY <1>1, <2>1, PutPlaces
  <1>6. CASE event.op \notin {"start", "set", "error", "append"}
    <2>1. new = model
      BY <1>6, OtherwiseAs DEF new
    <2> QED BY <2>1 DEF SamePlaces
  <1> QED BY <1>3, <1>4, <1>5, <1>6

\* Documents are among the models of starts, without their nulls, too.
LEMMA DumpDocument ==
    ASSUME NEW model \in Documents
    PROVE  DumpModel(model) \in Models
  <1>1. \A i \in DOMAIN model.blocks : model.blocks[i].fields = Plain
    BY DEF Documents
  <1>2. NonNull(Plain) = Plain
    <2>1. {n \in DOMAIN Plain : Plain[n] # Null} = {"type"}
      BY DEF Plain, Word, Text, Null
    <2> QED BY <2>1 DEF NonNull, Plain
  <1>3. model.meta \in {<<>>, [error |-> Null]} => NonNull(model.meta) = <<>>
    <2>1. model.meta \in {<<>>, [error |-> Null]}
      BY DEF Documents
    <2>2. CASE model.meta = <<>>
      BY <2>2 DEF NonNull
    <2>3. CASE model.meta = [error |-> Null]
      <3>1. {n \in DOMAIN model.meta : model.meta[n] # Null} = {}
        BY <2>3
      <3> QED BY <3>1 DEF NonNull
    <2> QED BY <2>1, <2>2, <2>3
  <1> DEFINE blocks == model.blocks
             Pairs == {<<Block(id, Plain), Block(other, Plain)>> : id, other \in Ids}
             Lone == {<<Block(id, [ref |-> Word])>> : id \in Ids}
  <1>4. model.version \in {"1.0", "1.1"} /\ blocks \in {<<>>} \cup Pairs
    <2>1. model.version \in {"1.0", "1.1"} /\ blocks \in {<<>>} \cup Pairs \cup Lone
      BY DEF Documents, Models, Model, ModelOf
    <2>2. ASSUME NEW id, blocks = <<Block(id, [ref |-> Word])>> PROVE FALSE
      <3>1. 1 \in DOMAIN blocks /\ blocks[1].fields = [ref |-> Word]
        BY <2>2 DEF Block
      <3>2. DOMAIN [ref |-> Word] = {"ref"} /\ DOMAIN Plain = {"type"}
        BY DEF Plain
      <3> QED BY <1>1, <3>1, <3>2
    <2> QED BY <2>1, <2>2
  <1>5. [i \in DOMAIN blocks |-> Block(blocks[i].id, NonNull(blocks[i].fields))] = blocks
    <2>1. CASE blocks = <<>>
      BY <2>1
    <2>2. ASSUME NEW id \in Ids, NEW other \in Ids, blocks = <<Block(id, Plain), Block(other, Plain)>>
          PROVE  [i \in DOMAIN blocks |-> Block(blocks[i].id, NonNull(blocks[i].fields))] = blocks
      <3>1. \A x : Block(x, Plain).id = x /\ Block(x, Plain).fields = Plain
        BY DEF Block
      <3>2. DOMAIN blocks = {1, 2} /\ blocks[1] = Block(id, Plain) /\ blocks[2] = Block(other, Plain)
        BY <2>2
      <3>3. \A i \in DOMAIN blocks : Block(blocks[i].id, NonNull(blocks[i].fields)) = blocks[i]
        BY <1>2, <3>1, <3>2
      <3>4. blocks = [i \in DOMAIN blocks |-> blocks[i]]
        BY <2>2
      <3> QED BY <3>3, <3>4
    <2> QED BY <1>4, <2>1, <2>2
  <1>6. Trimmed(model) = Model(model.version, <<>>, blocks)
    <2>1. NonNull(model.meta) = <<>>
      BY <1>3 DEF Documents
    <2>2. model.listed = TRUE
      BY DEF Documents, Models, Model, ModelOf
    <2> QED BY <1>5, <2>1, <2>2 DEF Trimmed, Model
  <1>7. Model(model.version, <<>>, blocks) \in Models
    BY <1>4 DEF Models
  <1> QED BY <1>6, <1>7 DEF DumpModel, Documents

\* Within a model blocks keep their places, and their ids: only a start of its own
\* moves them, never the one that covers the events so far.
THEOREM PlacesStay == EmissionSpec => PlacesKept
  <1> DEFINE Kept == \A s \in Sdks : \/ \E model \in Models \cup Partials : view'[s] = model
                                     \/ SamePlaces(view[s], view'[s])
             Listed == \A s \in Sdks : \/ \E model \in Models \cup Partials : view'[s] = model
                                       \/ \A i \in DOMAIN view[s].blocks :
                                              /\ i \in DOMAIN view'[s].blocks
                                              /\ view'[s].blocks[i].id = view[s].blocks[i].id
  <1>1. IntentInv /\ SoundInv /\ MirrorInv /\ [EmissionNext]_<<vars, emitterVars>> => Kept
    <2> SUFFICES ASSUME IntentInv, SoundInv, MirrorInv, [EmissionNext]_<<vars, emitterVars>> PROVE Kept
      OBVIOUS
    <2>1. ASSUME UNCHANGED view PROVE Kept
      BY <2>1 DEF SamePlaces
    <2>2. ASSUME NEW event, Streamed(event), event.op # "start", Deliver(event) PROVE Kept
      <3> SUFFICES ASSUME NEW s \in Sdks PROVE SamePlaces(view[s], view'[s])
        OBVIOUS
      <3>1. view'[s] = view[s] \/ (view'[s] = Reduce(s, view[s], event) /\ view'[s] # Refused)
        BY <2>2 DEF Deliver, Refuses
      <3>2. SamePlaces(view[s], view[s]) /\ Sound(view[s])
        BY DEF SamePlaces, SoundInv
      <3> QED BY <2>2, <3>1, <3>2, ReducePlaces
    <2>3. ASSUME NEW event, event.op = "start", Deliver(event), event.model \in Models \cup Partials PROVE Kept
      <3> SUFFICES ASSUME NEW s \in Sdks PROVE view'[s] = event.model \/ SamePlaces(view[s], view'[s])
        BY <2>3
      <3>1. view'[s] = view[s] \/ (view'[s] = Reduce(s, view[s], event) /\ Reduce(s, view[s], event) # Refused)
        BY <2>3 DEF Deliver, Refuses
      <3> QED BY <2>3, <3>1, OtherwiseAs DEF SamePlaces
    <2> HIDE DEF Kept
    <2>4. CASE Feed
      <3>1. PICK event \in Events : Deliver(event)
        BY <2>4 DEF Feed
      <3>2. event.op = "start" => event.model \in Models \cup Partials
        <4>1. event.op = "start" => event \in Starts
          BY DEF Events, Others, Event, EventOf
        <4>2. Model("1.1", <<>>, <<>>) \in Models
          BY DEF Models
        <4> QED BY <4>1, <4>2 DEF Starts, Event, EventOf
      <3> QED BY <2>2, <2>3, <3>1, <3>2, FedStreamed
    <2>5. CASE Start
      <3>1. PICK model \in Documents : Makes(StartOf(DumpModel(model)), offset + 1, model)
        BY <2>5 DEF Start
      <3>2. StartOf(DumpModel(model)).op = "start" /\ StartOf(DumpModel(model)).model = DumpModel(model)
        BY DEF StartOf, Event, EventOf
      <3> QED BY <2>1, <2>3, <3>1, <3>2, DumpDocument DEF Makes
    <2>6. CASE Restart \/ Ping
      <3>1. \A s \in Sdks : Alike(view'[s], view[s])
        BY <2>6, CoverStep
      <3> QED BY <3>1 DEF Kept, Alike, SamePlaces
    <2>7. CASE BlockSet \/ FieldSet \/ BlockAppend \/ MetaSet \/ SetStats \/ Error \/ End
      <3>1. PICK event, wanted : event.op # "start" /\ Streamed(event) /\ Makes(event, offset + 1, wanted)
        BY <2>7, CallStep
      <3> QED BY <2>1, <2>2, <3>1 DEF Makes
    <2>8. CASE UNCHANGED <<vars, emitterVars>>
      BY <2>1, <2>8 DEF vars
    <2> QED BY <2>4, <2>5, <2>6, <2>7, <2>8 DEF EmissionNext
  <1>2. EmissionSpec => [][Listed]_vars
    <2>1. Kept => Listed
      BY DEF SamePlaces
    <2>2. IntentInv /\ SoundInv /\ MirrorInv /\ [EmissionNext]_<<vars, emitterVars>> => [Listed]_vars
      <3> HIDE DEF Kept, Listed
      <3> QED BY <1>1, <2>1
    <2> HIDE DEF Listed
    <2> QED BY <2>2, SoundAlways, MirrorAlways, PTL DEF EmissionSpec
  <1> QED BY <1>2 DEF PlacesKept

--------------------------------------------------------------------------------
(* Types                                                                    *)

MetaNames == {"status", "error", "stats"}
BlockNames == {"type", "ref", "group_id", "content", "tool", "status"}

\* What TypeOK says of a value, a block and a model.
Typed(value) == \/ value \in Leaves
                \/ value # None /\ value.kind = "object" /\ IsFlat(value.fields)
TypedBlock(block) == block.id \in Ids /\ AreFields(block.fields, BlockNames)
TypedModel(model) ==
    /\ model.version \in {"none", "1.0", "1.1"} /\ model.listed \in BOOLEAN
    /\ AreFields(model.meta, MetaNames)
    /\ IsSequence(model.blocks)
    /\ \A i \in DOMAIN model.blocks : TypedBlock(model.blocks[i])

\* A status that may be written into an object is none.
TypedEvent(event) ==
    /\ Streamed(event)
    /\ event.op = "start" => TypedModel(event.model)
    /\ event.meta # None => AreFields(event.meta, MetaNames)
    /\ event.block # None => /\ TypedBlock(event.block)
                             /\ "status" \in DOMAIN event.block.fields => event.block.fields["status"] \in Leaves

LEMMA FieldsTyped ==
    ASSUME NEW object, NEW names
    PROVE  AreFields(object, names) <=> DOMAIN object \subseteq names /\ \A name \in DOMAIN object : Typed(object[name])
  BY DEF AreFields, Typed

LEMMA WordsTyped ==
    /\ Typed(Word) /\ Word \in Leaves
    /\ Typed(Null) /\ Null \in Leaves /\ Typed(Odd)
    /\ Typed(Failure) /\ Typed(Object(<<>>)) /\ Typed(Object([status |-> Word])) /\ Typed(Object([status |-> Null]))
    /\ \A delta \in Deltas : Typed(delta)
  <1>1. ASSUME NEW ch \in Characters
        PROVE  Text(<<ch>>) \in Leaves /\ List(<<ch>>) \in Leaves
    <2>1. <<ch>> \in Seq(Characters)
      OBVIOUS
    <2> QED BY <2>1 DEF Leaves, Text, List
  <1>2. Word \in Leaves
    BY <1>1, ReducersAssumption DEF Word
  <1>3. Null \in Leaves
    BY DEF Leaves
  <1>4. Odd \in Leaves
    <2>1. <<>> \in Seq(Characters)
      OBVIOUS
    <2> QED BY <2>1 DEF Leaves, Odd, List
  <1>5. \A f : IsFlat(f) => Typed(Object(f))
    BY DEF Typed, Object, None
  <1>6. IsFlat(<<>>)
    BY DEF IsFlat
  <1>7. IsFlat([status |-> Word]) /\ IsFlat([status |-> Null]) /\ IsFlat([code |-> Word, message |-> Word])
    BY <1>2, <1>3 DEF IsFlat
  <1>8. \A delta \in Deltas : delta \in Leaves
    BY <1>1 DEF Deltas
  <1> QED BY <1>2, <1>3, <1>4, <1>5, <1>6, <1>7, <1>8 DEF Typed, Failure

LEMMA WriteTyped ==
    ASSUME NEW object, NEW names, AreFields(object, names), NEW path, path[1] \in names, NEW value,
           Len(path) = 1 => Typed(value),
           Len(path) # 1 => path[2] = "status" /\ value \in Leaves
    PROVE  AreFields(WritePath(object, path, value), names)
  <1>1. ASSUME NEW v, Typed(v) PROVE AreFields(With(object, path[1], v), names)
    <2> DEFINE new == With(object, path[1], v)
    <2>1. /\ DOMAIN new = DOMAIN object \cup {path[1]}
          /\ \A n \in DOMAIN new : new[n] = IF n = path[1] THEN v ELSE object[n]
      BY DEF With
    <2> HIDE DEF new
    <2>2. AreFields(new, names)
      BY <1>1, <2>1, FieldsTyped
    <2> QED BY <2>2 DEF new
  <1>2. CASE Len(path) = 1
    BY <1>1, <1>2 DEF WritePath
  <1>3. CASE Len(path) # 1
    <2> DEFINE inner == IF Has(object, path[1], {"object"}) THEN object[path[1]].fields ELSE <<>>
               flat == With(inner, path[2], value)
    <2>1. IsFlat(inner)
      <3>1. CASE Has(object, path[1], {"object"})
        <4>1. Typed(object[path[1]]) /\ object[path[1]].kind = "object"
          BY <3>1, FieldsTyped DEF Has
        <4>2. object[path[1]] \notin Leaves
          BY <4>1 DEF Leaves, Null, NilList
        <4> QED BY <3>1, <4>1, <4>2 DEF Typed
      <3>2. CASE ~Has(object, path[1], {"object"})
        BY <3>2 DEF IsFlat
      <3> QED BY <3>1, <3>2
    <2>2. /\ DOMAIN flat = DOMAIN inner \cup {path[2]}
          /\ \A n \in DOMAIN flat : flat[n] = IF n = path[2] THEN value ELSE inner[n]
      BY DEF With
    <2>3. WritePath(object, path, value) = With(object, path[1], Object(flat))
      BY <1>3 DEF WritePath
    <2> HIDE DEF inner, flat
    <2>4. IsFlat(flat)
      BY <1>3, <2>1, <2>2 DEF IsFlat
    <2>5. Typed(Object(flat))
      BY <2>4 DEF Typed, Object, None
    <2> QED BY <1>1, <2>3, <2>5
  <1> QED BY <1>2, <1>3

LEMMA PutTyped ==
    ASSUME NEW model, TypedModel(model), NEW block, TypedBlock(block)
    PROVE  TypedModel(PutBlock(model, block))
  <1> DEFINE new == PutBlock(model, block)
  <1>1. /\ IsSequence(new.blocks)
        /\ new.version = model.version /\ new.meta = model.meta
        /\ \A i \in DOMAIN new.blocks :
               new.blocks[i] = block \/ (i \in DOMAIN model.blocks /\ new.blocks[i] = model.blocks[i])
    BY PutKeeps DEF TypedModel
  <1>3. new.listed \in BOOLEAN
    BY DEF PutBlock, Model, ModelOf
  <1> HIDE DEF new
  <1>2. TypedModel(new)
    BY <1>1, <1>3 DEF TypedModel
  <1> QED BY <1>2 DEF new

LEMMA PatchTyped ==
    ASSUME NEW model, TypedModel(model), NEW id \in Ids, Inline(model, id), NEW path, path[1] \in BlockNames,
           NEW value,
           Len(path) = 1 => Typed(value),
           Len(path) # 1 => path[2] = "status" /\ value \in Leaves
    PROVE  TypedModel(PatchBlock(model, id, path, value))
  <1> DEFINE new == PatchBlock(model, id, path, value)
  <1>1. /\ IsSequence(new.blocks)
        /\ new.version = model.version /\ new.meta = model.meta
        /\ \A i \in DOMAIN new.blocks :
               /\ i \in DOMAIN model.blocks
               /\ \/ new.blocks[i] = model.blocks[i]
                  \/ new.blocks[i] = Block(id, WritePath(model.blocks[i].fields, path, value))
    BY PatchKeeps DEF TypedModel
  <1>4. new.listed \in BOOLEAN
    BY DEF PatchBlock, PutBlock, Model, ModelOf
  <1> HIDE DEF new
  <1>2. ASSUME NEW block, TypedBlock(block) PROVE TypedBlock(Block(id, WritePath(block.fields, path, value)))
    BY <1>2, WriteTyped DEF TypedBlock, Block
  <1>3. TypedModel(new)
    BY <1>1, <1>2, <1>4 DEF TypedModel
  <1> QED BY <1>3 DEF new

LEMMA PatchMetaTyped ==
    ASSUME NEW model, TypedModel(model), NEW name \in MetaNames, NEW value, Typed(value)
    PROVE  TypedModel(PatchMeta(model, <<name>>, value))
  <1>1. AreFields(WritePath(model.meta, <<name>>, value), MetaNames)
    BY WriteTyped DEF TypedModel
  <1> QED BY <1>1 DEF PatchMeta, Model, ModelOf, TypedModel

LEMMA AppendedTyped ==
    ASSUME NEW r, NEW old, old = None \/ Typed(old), NEW delta, Typed(delta), Appended(r, old, delta) # None
    PROVE  Appended(r, old, delta) \in Leaves
  <1>1. ASSUME NEW value, Typed(value), value.kind \in {"text", "list"}
        PROVE  value \in Leaves /\ value.items \in Seq(Characters)
    <2>1. value = NilList => value.items \in Seq(Characters)
      BY DEF NilList
    <2>2. value # Null
      BY <1>1 DEF Null
    <2> QED BY <1>1, <2>1, <2>2 DEF Typed, Leaves
  <1>2. CASE Appended(r, old, delta) = NilList
    BY <1>2 DEF Leaves
  <1>3. CASE Appended(r, old, delta) = Concatenated(old, delta)
    <2>1. delta.kind \in {"text", "list"}
      BY <1>3 DEF Concatenated
    <2>2. CASE old \in {None, Null}
      BY <1>1, <1>3, <2>1, <2>2 DEF Concatenated
    <2>3. CASE old \notin {None, Null}
      <3>1. /\ old.kind = delta.kind
            /\ Concatenated(old, delta) = [kind |-> delta.kind, items |-> old.items \o delta.items]
        BY <1>3, <2>1, <2>3 DEF Concatenated
      <3>2. old.items \o delta.items \in Seq(Characters)
        BY <1>1, <2>1, <2>3, <3>1
      <3>3. [kind |-> delta.kind, items |-> old.items \o delta.items] \in [kind : {"text", "list"}, items : Seq(Characters)]
        BY <2>1, <3>2
      <3> QED BY <1>3, <3>1, <3>3 DEF Leaves
    <2> QED BY <2>2, <2>3
  <1> QED BY <1>2, <1>3 DEF Appended, GoConcatenated

\* The masks, by the field and the part of it that they name.
LEMMA MaskTyped ==
    ASSUME NEW mask \in Masks, mask # <<>>
    PROVE  LET path == Tail(mask)
           IN  /\ mask[1] \in {"meta", "block"}
               /\ mask[1] = "meta" => \E name \in MetaNames : path = <<name>>
               /\ mask[1] = "block" => /\ path[1] \in BlockNames \cup {"id"}
                                       /\ Len(path) = 1 \/ (Len(path) = 2 /\ path[2] = "status")
  <1>1. ASSUME NEW a, NEW b, mask = <<a, b>> PROVE Tail(mask) = <<b>>
    BY <1>1
  <1>2. ASSUME NEW a, NEW b, NEW c, mask = <<a, b, c>> PROVE Tail(mask) = <<b, c>>
    BY <1>2
  <1>3. CASE mask \in {<<"block", "tool", "status">>, <<"block", "id", "status">>, <<"block", "ref", "status">>}
    BY <1>2, <1>3 DEF BlockNames
  <1>4. CASE mask \in {<<"meta", "status">>, <<"meta", "error">>, <<"meta", "stats">>}
    BY <1>1, <1>4 DEF MetaNames
  <1>5. CASE mask \in {<<"block", "id">>, <<"block", "content">>, <<"block", "type">>, <<"block", "group_id">>,
                      <<"block", "tool">>}
    BY <1>1, <1>5 DEF BlockNames
  <1> QED BY <1>3, <1>4, <1>5 DEF Masks

\* What a patch carries for its path.
LEMMA ReadTyped ==
    ASSUME NEW object, NEW names, AreFields(object, names), NEW path, ReadPath(object, path) # None
    PROVE  /\ Len(path) = 1 => Typed(ReadPath(object, path))
           /\ Len(path) = 2 /\ path[2] = "status" /\ ("status" \in DOMAIN object => object["status"] \in Leaves) =>
                  ReadPath(object, path) \in Leaves
  <1>1. CASE Len(path) = 1
    <2>1. path[1] \in DOMAIN object /\ ReadPath(object, path) = object[path[1]]
      BY <1>1 DEF ReadPath
    <2> QED BY <1>1, <2>1, FieldsTyped
  <1>2. CASE Len(path) = 2 /\ path[2] = "status" /\ ("status" \in DOMAIN object => object["status"] \in Leaves)
    <2> DEFINE nested == Has(object, path[1], {"object"}) /\ "status" \in DOMAIN object[path[1]].fields
    <2>1. ReadPath(object, path) = IF nested THEN object[path[1]].fields["status"]
                                   ELSE IF "status" \in DOMAIN object THEN object["status"] ELSE None
      BY <1>2 DEF ReadPath
    <2>2. CASE nested
      <3>1. Typed(object[path[1]]) /\ object[path[1]].kind = "object"
        BY <2>2, FieldsTyped DEF Has
      <3>2. object[path[1]] \notin Leaves
        BY <3>1 DEF Leaves, Null, NilList
      <3>3. IsFlat(object[path[1]].fields)
        BY <3>1, <3>2 DEF Typed
      <3> QED BY <1>2, <2>1, <2>2, <3>3 DEF IsFlat
    <2>3. CASE ~nested
      BY <1>2, <2>1, <2>3
    <2> QED BY <2>2, <2>3
  <1> QED BY <1>1, <1>2

\* The parts that an event that is taken has.
LEMMA TakenParts ==
    ASSUME NEW s \in Sdks, NEW model, NEW event, Streamed(event), Reduce(s, model, event) # Refused
    PROVE  /\ event.op = "set" /\ event.mask = <<>> => event.block # None
           /\ event.op = "set" /\ event.mask # <<>> /\ event.mask[1] = "block" => event.meta = None /\ event.block # None
           /\ event.op = "append" => event.mask # <<>> /\ event.mask[1] = "block" /\ event.block # None
  <1>1. CASE s = "go"
    BY <1>1 DEF Reduce, GoApply, GoValidate
  <1>2. CASE s = "python"
    BY <1>2 DEF Reduce, PyApplyPatch, PyValidate
  <1>3. CASE s = "typescript"
    BY <1>3 DEF Reduce, TsApplyPatch, TsParsePatchEvent
  <1> QED BY <1>1, <1>2, <1>3 DEF Sdks

\* An append that is taken adds the block, or what Appended makes of the field.
LEMMA AppendedValue ==
    ASSUME NEW s \in Sdks, NEW model, NEW event, event.op = "append", Reduce(s, model, event) # Refused
    PROVE  LET new == Reduce(s, model, event)
               field == event.mask[2]
               id == event.block.id
               old == OldField(model, id, field)
               value == Appended(s, old, event.block.fields[field])
           IN  /\ field \in DOMAIN event.block.fields
               /\ \/ new = PutBlock(model, event.block)
                  \/ /\ Holding(model.blocks, id) # {} /\ ~IsReference(Held(model, id)) /\ value # None
                     /\ new = PatchBlock(model, id, <<field>>, value)
  <1> DEFINE field == event.mask[2]
             id == event.block.id
             old == OldField(model, id, field)
             value == Appended(s, old, event.block.fields[field])
  <1>1. CASE s = "go"
    BY <1>1 DEF Reduce, GoApply, GoAppendByMask, GoUpsertBlock, Appended, OldField, Held
  <1>2. CASE s = "python"
    <2>1. Reduce(s, model, event) = PyApplyAppend(model, event)
      BY <1>2 DEF Reduce, PyApplyPatch
    <2>2. field \in DOMAIN event.block.fields
      BY <2>1 DEF PyApplyAppend, PyAppendable, Has
    <2>3. value = Concatenated(old, event.block.fields[field])
      BY <1>2 DEF Appended
    <2>4. CASE Holding(model.blocks, id) = {}
      BY <2>1, <2>2, <2>4 DEF PyApplyAppend
    <2>5. CASE Holding(model.blocks, id) # {}
      <3>1. PyApplyAppend(model, event) = IF IsReference(Held(model, id)) \/ value = None THEN Refused
                                          ELSE PatchBlock(model, id, <<field>>, value)
        BY <2>1, <2>3, <2>5 DEF PyApplyAppend, OldField, Held
      <3> HIDE DEF value
      <3>2. ~IsReference(Held(model, id)) /\ value # None /\ Reduce(s, model, event) = PatchBlock(model, id, <<field>>, value)
        BY <2>1, <3>1
      <3> QED BY <2>2, <2>5, <3>2 DEF value
    <2> QED BY <2>4, <2>5
  <1>3. CASE s = "typescript"
    <2>1. Reduce(s, model, event) = TsApplyAppend(model, event)
      BY <1>3 DEF Reduce, TsApplyPatch
    <2>2. field \in DOMAIN event.block.fields
      BY <2>1 DEF TsApplyAppend, Has
    <2>3. value = Concatenated(old, event.block.fields[field])
      BY <1>3 DEF Appended
    <2>4. CASE Holding(model.blocks, id) = {}
      BY <2>1, <2>2, <2>4 DEF TsApplyAppend
    <2>5. CASE Holding(model.blocks, id) # {}
      <3>1. TsApplyAppend(model, event) = IF IsReference(Held(model, id)) \/ value = None THEN Refused
                                          ELSE PatchBlock(model, id, <<field>>, value)
        BY <2>1, <2>3, <2>5 DEF TsApplyAppend, OldField, Held
      <3> HIDE DEF value
      <3>2. ~IsReference(Held(model, id)) /\ value # None /\ Reduce(s, model, event) = PatchBlock(model, id, <<field>>, value)
        BY <2>1, <3>1
      <3> QED BY <2>2, <2>5, <3>2 DEF value
    <2> QED BY <2>4, <2>5
  <1> QED BY <1>1, <1>2, <1>3 DEF Sdks

LEMMA AppendTyped ==
    ASSUME NEW r, NEW model, TypedModel(model), UniqueIds(model.blocks), NEW block, TypedBlock(block),
           NEW field \in BlockNames, field \in DOMAIN block.fields, Holding(model.blocks, block.id) # {}
    PROVE  LET value == Appended(r, OldField(model, block.id, field), block.fields[field])
           IN  ~IsReference(Held(model, block.id)) /\ value # None =>
                   TypedModel(PatchBlock(model, block.id, <<field>>, value))
  <1> DEFINE before == OldField(model, block.id, field)
             value == Appended(r, before, block.fields[field])
  <1> SUFFICES ASSUME ~IsReference(Held(model, block.id)), value # None
               PROVE  TypedModel(PatchBlock(model, block.id, <<field>>, value))
    OBVIOUS
  <1>1. TypedBlock(Held(model, block.id))
    BY PositionHeld DEF TypedModel, Held
  <1>2. before = None \/ Typed(before)
    BY <1>1, FieldsTyped DEF TypedBlock, OldField
  <1>3. Typed(block.fields[field])
    BY FieldsTyped DEF TypedBlock
  <1>4. Inline(model, block.id)
    BY DEF Inline, Held
  <1> HIDE DEF before
  <1>5. Typed(value)
    BY <1>2, <1>3, AppendedTyped DEF Typed
  <1>6. Len(<<field>>) = 1 /\ <<field>>[1] = field /\ block.id \in Ids
    BY DEF TypedBlock
  <1> HIDE DEF value
  <1> QED BY <1>4, <1>5, <1>6, PatchTyped

LEMMA ReduceTyped ==
    ASSUME NEW s \in Sdks, NEW model, TypedModel(model), UniqueIds(model.blocks), NEW event, TypedEvent(event),
           Reduce(s, model, event) # Refused
    PROVE  TypedModel(Reduce(s, model, event))
  <1> DEFINE new == Reduce(s, model, event)
  <1> SUFFICES TypedModel(new)
    OBVIOUS
  <1>0. /\ event.op = "set" /\ event.mask = <<>> => event.block # None
        /\ event.op = "set" /\ event.mask # <<>> /\ event.mask[1] = "block" => event.meta = None /\ event.block # None
        /\ event.op = "append" => event.mask # <<>> /\ event.mask[1] = "block" /\ event.block # None
    BY TakenParts DEF TypedEvent
  <1> HIDE DEF new
  <1>1. CASE event.op = "start"
    BY <1>1, OtherwiseAs DEF new, TypedEvent
  <1>2. CASE event.op = "set" /\ event.mask = <<>>
    <2>1. new = PutBlock(model, event.block)
      BY <1>2, UpsertedAs DEF new
    <2> QED BY <1>0, <1>2, <2>1, PutTyped DEF TypedEvent
  <1>3. CASE (event.op = "set" /\ event.mask # <<>>) \/ event.op = "error"
    <2> DEFINE path == Tail(event.mask)
               value == ReadPath(IF event.meta # None THEN event.meta ELSE event.block.fields, path)
    <2>1. new = SetByMask(model, event) /\ new # Refused /\ event.mask # <<>>
          /\ (GoValidate(event) \/ PyValidate(event) \/ TsParsePatchEvent(event))
      BY <1>3, OtherwiseAs DEF new
    <2>2. \/ /\ event.mask[1] = "meta" /\ event.meta # None /\ value # None
             /\ new = PatchMeta(model, path, value)
          \/ /\ event.mask[1] = "block" /\ event.op = "set"
             /\ path[1] # "id" /\ Inline(model, event.block.id)
             /\ new = PatchBlock(model, event.block.id, path, value)
      BY <1>3, <2>1, PatchedAs DEF TypedEvent
    <2>3. event.mask[1] = "meta" => \E name \in MetaNames : path = <<name>>
      BY <2>1, MaskTyped DEF TypedEvent, Streamed
    <2>7. event.mask[1] = "block" => /\ path[1] \in BlockNames \cup {"id"}
                                     /\ Len(path) = 1 \/ (Len(path) = 2 /\ path[2] = "status")
      BY <2>1, MaskTyped DEF TypedEvent, Streamed
    <2>4. value # None
      BY <2>1 DEF SetByMask, Patched
    <2> HIDE DEF path
    <2>5. CASE event.mask[1] = "meta" /\ event.meta # None /\ new = PatchMeta(model, path, value)
      <3>1. PICK name \in MetaNames : path = <<name>>
        BY <2>3, <2>5
      <3>2. Len(path) = 1
        BY <3>1
      <3>3. Typed(value)
        BY <2>4, <2>5, <3>2, ReadTyped DEF TypedEvent
      <3> HIDE DEF value
      <3>4. TypedModel(PatchMeta(model, <<name>>, value))
        BY <3>3, PatchMetaTyped
      <3> QED BY <2>5, <3>1, <3>4
    <2>6. CASE /\ event.mask[1] = "block" /\ event.op = "set" /\ path[1] # "id" /\ Inline(model, event.block.id)
               /\ new = PatchBlock(model, event.block.id, path, value)
      <3>1. event.meta = None /\ event.block # None
        BY <1>0, <2>1, <2>6
      <3>2. /\ AreFields(event.block.fields, BlockNames) /\ event.block.id \in Ids
            /\ "status" \in DOMAIN event.block.fields => event.block.fields["status"] \in Leaves
            /\ value = ReadPath(event.block.fields, path)
        BY <3>1 DEF TypedEvent, TypedBlock
      <3> HIDE DEF value
      <3>3. /\ Len(path) = 1 => Typed(value)
            /\ Len(path) # 1 => path[2] = "status" /\ value \in Leaves
        BY <2>4, <2>6, <2>7, <3>2, ReadTyped
      <3>4. path[1] \in BlockNames /\ Inline(model, event.block.id)
        <4>1. path[1] \in BlockNames \cup {"id"} /\ path[1] # "id"
          BY <2>6, <2>7
        <4>2. Inline(model, event.block.id)
          BY <2>6
        <4> QED BY <4>1, <4>2
      <3>5. TypedModel(PatchBlock(model, event.block.id, path, value))
        BY <3>2, <3>3, <3>4, PatchTyped
      <3> QED BY <2>6, <3>5
    <2> QED BY <2>2, <2>5, <2>6
  <1>4. CASE event.op = "append"
    <2> DEFINE field == event.mask[2]
    <2>1. TypedBlock(event.block)
      BY <1>0, <1>4 DEF TypedEvent
    <2>2. field \in DOMAIN event.block.fields
      BY <1>4, AppendedValue
    <2>3. field \in BlockNames
      BY <2>1, <2>2 DEF TypedBlock, AreFields
    <2>4. TypedModel(PutBlock(model, event.block))
      BY <2>1, PutTyped
    <2> DEFINE id == event.block.id
               value == Appended(s, OldField(model, id, field), event.block.fields[field])
    <2>5. \/ new = PutBlock(model, event.block)
          \/ /\ Holding(model.blocks, id) # {} /\ ~IsReference(Held(model, id)) /\ value # None
             /\ new = PatchBlock(model, id, <<field>>, value)
      BY <1>4, AppendedValue DEF new
    <2>6. Holding(model.blocks, id) # {} /\ ~IsReference(Held(model, id)) /\ value # None =>
              TypedModel(PatchBlock(model, id, <<field>>, value))
      BY <2>1, <2>2, <2>3, AppendTyped
    <2> HIDE DEF value, field
    <2> QED BY <2>4, <2>5, <2>6
  <1>5. CASE event.op \notin {"start", "set", "error", "append"}
    BY <1>5, OtherwiseAs DEF new
  <1> QED BY <1>1, <1>2, <1>3, <1>4, <1>5

\* The objects that streams carry.
LEMMA PartsTyped ==
    ASSUME NEW fields \in Wholes \cup Parts \cup Inlines \cup {[group_id |-> Odd], Flat}
    PROVE  /\ AreFields(fields, BlockNames)
           /\ "status" \in DOMAIN fields => fields["status"] \in Leaves
  <1> USE WordsTyped, FieldsTyped DEF BlockNames
  <1>1. CASE fields \in {[type |-> Word, content |-> value] : value \in Deltas \cup {Null}}
    BY <1>1
  <1>2. CASE fields \in {Plain, [ref |-> Word], [content |-> Word], [type |-> Text(<<>>)], [ref |-> Word, type |-> Word],
                        [type |-> Word, group_id |-> Odd], [group_id |-> Odd], Flat}
    <2>1. Typed(Text(<<>>))
      <3>1. <<>> \in Seq(Characters)
        OBVIOUS
      <3> QED BY <3>1 DEF Typed, Leaves, Text
    <2>2. CASE fields = [type |-> Text(<<>>)]
      BY <2>1, <2>2
    <2> QED BY <1>2, <2>2 DEF Plain, Flat
  <1>3. CASE fields \in Parts
    BY <1>3 DEF Parts
  <1>4. CASE fields \in {[type |-> Word, content |-> value] : value \in {Word, Odd, Null}}
                       \cup {[type |-> Word, tool |-> Object([status |-> Word])]}
    BY <1>4
  <1> QED BY <1>1, <1>2, <1>3, <1>4 DEF Wholes, Inlines

LEMMA MetasTyped ==
    ASSUME NEW meta \in Metas \cup {<<>>, [error |-> Object(<<>>)], [error |-> Null]}
    PROVE  AreFields(meta, MetaNames)
  <1>1. CASE meta = <<>>
    BY <1>1, FieldsTyped
  <1>2. CASE meta # <<>>
    BY <1>2, WordsTyped, FieldsTyped DEF MetaNames, Metas
  <1> QED BY <1>1, <1>2

LEMMA ModelsTyped ==
    ASSUME NEW model \in Models \cup Partials
    PROVE  TypedModel(model)
  <1>1. IsSequence(model.blocks)
    BY DocumentsGrouped
  <1>2. /\ model.version \in {"none", "1.0", "1.1"} /\ model.listed \in BOOLEAN
        /\ AreFields(model.meta, MetaNames)
    <2>1. /\ model.version \in {"none", "1.0", "1.1"}
          /\ model.meta \in {<<>>, [error |-> Object(<<>>)], [error |-> Null]}
      BY DEF Models, Partials, Model, ModelOf
    <2>2. model.listed \in BOOLEAN
      <3>1. model \in Models => model.listed = TRUE
        BY DEF Models, Model, ModelOf
      <3>2. ASSUME NEW id, model = Model("none", <<>>, <<Block(id, [ref |-> Word])>>) PROVE model.listed = TRUE
        BY <3>2 DEF Model, ModelOf
      <3>3. model = ModelOf("1.0", <<>>, <<>>, FALSE) => model.listed = FALSE
        BY DEF ModelOf
      <3> QED BY <3>1, <3>2, <3>3 DEF Partials
    <2> QED BY <2>1, <2>2, MetasTyped
  <1>3. \A i \in DOMAIN model.blocks : \E id \in Ids, fields \in {Plain, [ref |-> Word]} :
            model.blocks[i] = Block(id, fields)
    <2>1. model.blocks \in {<<>>}
                          \cup {<<Block(id, Plain), Block(other, Plain)>> : id, other \in Ids}
                          \cup {<<Block(id, [ref |-> Word])>> : id \in Ids}
      BY DEF Models, Partials, Model, ModelOf
    <2>2. CASE model.blocks = <<>>
      BY <2>2
    <2>3. ASSUME NEW id \in Ids, NEW other \in Ids, model.blocks = <<Block(id, Plain), Block(other, Plain)>>
          PROVE  \A i \in DOMAIN model.blocks : model.blocks[i] \in {Block(id, Plain), Block(other, Plain)}
      BY <2>3
    <2>4. ASSUME NEW id \in Ids, model.blocks = <<Block(id, [ref |-> Word])>>
          PROVE  \A i \in DOMAIN model.blocks : model.blocks[i] = Block(id, [ref |-> Word])
      BY <2>4
    <2> QED BY <2>1, <2>2, <2>3, <2>4
  <1>4. Plain \in Wholes /\ [ref |-> Word] \in Wholes
    BY DEF Wholes
  <1>5. \A i \in DOMAIN model.blocks : TypedBlock(model.blocks[i])
    <2>1. ASSUME NEW id \in Ids, NEW fields \in {Plain, [ref |-> Word]} PROVE TypedBlock(Block(id, fields))
      BY <1>4, PartsTyped DEF TypedBlock, Block
    <2> QED BY <1>3, <2>1
  <1> QED BY <1>1, <1>2, <1>5 DEF TypedModel

LEMMA BlockEventTyped ==
    ASSUME NEW op, op # "start", NEW mask \in Masks, NEW id \in Ids, NEW fields, AreFields(fields, BlockNames),
           "status" \in DOMAIN fields => fields["status"] \in Leaves
    PROVE  TypedEvent(Event(op, mask, None, None, Block(id, fields)))
  BY DEF TypedEvent, Streamed, Event, EventOf, TypedBlock, Block

LEMMA MetaEventTyped ==
    ASSUME NEW op, op # "start", NEW mask \in Masks, NEW meta, meta = None \/ AreFields(meta, MetaNames)
    PROVE  TypedEvent(Event(op, mask, None, meta, None))
  BY DEF TypedEvent, Streamed, Event, EventOf

LEMMA StartTyped ==
    ASSUME NEW mask \in Masks, NEW model, TypedModel(model), Grouped(model)
    PROVE  TypedEvent(Event("start", mask, model, None, None))
  BY DEF TypedEvent, Streamed, Event, EventOf, TypedModel

LEMMA FedTyped ==
    ASSUME NEW event \in Events
    PROVE  TypedEvent(event)
  <1> DEFINE Blocks == Wholes \cup Parts \cup Inlines \cup {[group_id |-> Odd], Flat}
             Upserts == {Event("set", <<>>, None, None, Block(id, fields)) : id \in Ids, fields \in Wholes}
             Patches ==
                 {Event("set", mask, None, None, Block(id, fields)) :
                     mask \in BlockMasks, id \in Ids, fields \in Parts}
             Appends ==
                 {Event("append", <<"block", name>>, None, None, Block(id, fields)) :
                     name \in {"content", "type"}, id \in Ids, fields \in Wholes}
             Misses ==
                 {Event("append", mask, None, None, Block(id, fields)) :
                     mask \in BlockMasks, id \in Ids, fields \in {[content |-> Word], [group_id |-> Odd]}}
             MetaPatches ==
                 {Event(op, <<"meta", name>>, None, meta, None) :
                     op \in {"set", "error"}, name \in {"status", "error"}, meta \in Metas}
             Plainly == {Event(op, <<>>, None, None, None) : op \in {"ping", "end"}}
             NullPings == {EventOf("ping", <<>>, None, None, None, TRUE)}
             NullSets == {EventOf("set", <<>>, None, None, Block(id, Plain), TRUE) : id \in Ids}
  <1>1. \A op, mask, id, fields : op # "start" /\ mask \in Masks /\ id \in Ids /\ fields \in Blocks =>
            TypedEvent(Event(op, mask, None, None, Block(id, fields)))
    BY PartsTyped, BlockEventTyped
  <1>2. {<<>>} \cup BlockMasks \cup {<<"block", "content">>, <<"block", "type">>, <<"meta", "status">>, <<"meta", "error">>}
            \subseteq Masks
    BY DEF BlockMasks, Masks
  <1>3. [content |-> Word] \in Blocks
    BY DEF Wholes
  <1>4. CASE event \in Starts
    <2>1. Model("1.1", <<>>, <<>>) \in Models
      BY DEF Models
    <2>2. \A model \in Models \cup Partials : TypedModel(model) /\ Grouped(model)
      BY ModelsTyped, DocumentsGrouped
    <2> QED BY <1>2, <1>4, <2>1, <2>2, StartTyped DEF Starts
  <1>5. CASE event \in Upserts
    BY <1>1, <1>2, <1>5
  <1>6. CASE event \in Patches
    BY <1>1, <1>2, <1>6
  <1>7. CASE event \in Appends
    BY <1>1, <1>2, <1>7
  <1>8. CASE event \in Misses
    BY <1>1, <1>2, <1>3, <1>8
  <1>9. CASE event \in MetaPatches
    BY <1>2, <1>9, MetasTyped, MetaEventTyped
  <1>10. CASE event \in Plainly
    BY <1>2, <1>10, MetaEventTyped
  <1>11. CASE event \in NullPings \cup NullSets
    <2>1. Plain \in Wholes
      BY DEF Wholes
    <2>2. AreFields(Plain, BlockNames) /\ ("status" \in DOMAIN Plain => Plain["status"] \in Leaves)
      BY <2>1, PartsTyped
    <2>3. \A id \in Ids : TypedBlock(Block(id, Plain)) /\ Block(id, Plain).fields = Plain
      BY <2>2 DEF TypedBlock, Block
    <2>4. <<>> \in Masks
      BY DEF Masks
    <2>5. CASE event = EventOf("ping", <<>>, None, None, None, TRUE)
      BY <2>4, <2>5 DEF TypedEvent, Streamed, EventOf
    <2>6. ASSUME NEW id \in Ids, event = EventOf("set", <<>>, None, None, Block(id, Plain), TRUE)
          PROVE  TypedEvent(event)
      <3>1. /\ event.op = "set" /\ event.mask = <<>> /\ event.meta = None
            /\ event.block.id = id /\ event.block.fields = Plain
        BY <2>6 DEF EventOf, Block
      <3> QED BY <2>2, <2>4, <3>1 DEF TypedEvent, Streamed, TypedBlock
    <2> QED BY <1>11, <2>5, <2>6
  <1>12. Others = Upserts \cup Patches \cup Appends \cup Misses \cup MetaPatches \cup Plainly \cup NullPings \cup NullSets
    BY DEF Others
  <1> HIDE DEF Upserts, Patches, Appends, Misses, MetaPatches, Plainly, NullPings, NullSets
  <1> QED BY <1>4, <1>5, <1>6, <1>7, <1>8, <1>9, <1>10, <1>11, <1>12 DEF Events

\* Leaving out nulls keeps types.
LEMMA NonNullTyped ==
    ASSUME NEW object, NEW names, AreFields(object, names)
    PROVE  AreFields(NonNull(object), names)
  <1>1. /\ DOMAIN NonNull(object) \subseteq DOMAIN object
        /\ \A n \in DOMAIN NonNull(object) : NonNull(object)[n] = object[n]
    BY DEF NonNull
  <1> QED BY <1>1, FieldsTyped

LEMMA DumpTyped ==
    ASSUME NEW fields, AreFields(fields, BlockNames), "status" \in DOMAIN fields => fields["status"] \in Leaves
    PROVE  /\ AreFields(Dump(fields), BlockNames)
           /\ "status" \in DOMAIN Dump(fields) => Dump(fields)["status"] \in Leaves
  BY NonNullTyped DEF Dump, NonNull

LEMMA DumpModelTyped ==
    ASSUME NEW model, TypedModel(model), Grouped(model)
    PROVE  TypedEvent(StartOf(DumpModel(model)))
  <1> DEFINE new == Trimmed(model)
  <1>1. Streamed(StartOf(DumpModel(model)))
    BY DumpStreamed DEF TypedModel
  <1>2. TypedModel(new)
    <2>1. new.version = model.version /\ new.meta = NonNull(model.meta)
      BY DEF Trimmed, Model, ModelOf
    <2>5. new.listed = model.listed
      BY DEF Trimmed, ModelOf
    <2>2. new.blocks = [i \in DOMAIN model.blocks |-> Block(model.blocks[i].id, NonNull(model.blocks[i].fields))]
      BY DEF Trimmed, Model, ModelOf
    <2>3. IsSequence(new.blocks)
      <3>1. [i \in DOMAIN model.blocks |-> Block(model.blocks[i].id, NonNull(model.blocks[i].fields))]
                \in Seq({Block(model.blocks[i].id, NonNull(model.blocks[i].fields)) : i \in DOMAIN model.blocks})
        BY DEF TypedModel, IsSequence
      <3> QED BY <2>2, <3>1 DEF IsSequence
    <2>4. ASSUME NEW i \in DOMAIN new.blocks PROVE TypedBlock(new.blocks[i])
      <3>1. i \in DOMAIN model.blocks /\ new.blocks[i] = Block(model.blocks[i].id, NonNull(model.blocks[i].fields))
        BY <2>2
      <3>2. TypedBlock(model.blocks[i])
        BY <3>1 DEF TypedModel
      <3> QED BY <3>1, <3>2, NonNullTyped DEF TypedBlock, Block
    <2> HIDE DEF new
    <2> QED BY <2>1, <2>3, <2>4, <2>5, NonNullTyped DEF TypedModel
  <1>3. TypedModel(DumpModel(model))
    BY <1>2 DEF DumpModel
  <1> QED BY <1>1, <1>3 DEF TypedEvent, StartOf, Event, EventOf

\* The models of the clients and the one that the calls describe consist of
\* fields the SDKs know.
TypedInv ==
    /\ \A s \in Sdks : TypedModel(view[s])
    /\ intent # None => TypedModel(intent)
    /\ stopped \in [Sdks -> {"no", "contested", "refused"}]
    /\ loose \in BOOLEAN
    /\ count \in 0 .. MaxEvents

LEMMA TypedDeliver ==
    ASSUME TypedInv, SoundInv, NEW event, TypedEvent(event), Deliver(event)
    PROVE  /\ \A s \in Sdks : TypedModel(view'[s])
           /\ stopped' \in [Sdks -> {"no", "contested", "refused"}]
           /\ loose' \in BOOLEAN
           /\ count' \in 0 .. MaxEvents
  <1>1. ASSUME NEW s \in Sdks PROVE TypedModel(view'[s])
    <2>1. view'[s] = view[s] \/ (view'[s] = Reduce(s, view[s], event) /\ view'[s] # Refused)
      BY DEF Deliver, Refuses
    <2>2. TypedModel(view[s]) /\ UniqueIds(view[s].blocks)
      BY DEF TypedInv, SoundInv, Sound
    <2> QED BY <2>1, <2>2, ReduceTyped
  <1>2. stopped' \in [Sdks -> {"no", "contested", "refused"}] /\ loose' \in BOOLEAN
    BY DEF Deliver, TypedInv
  <1>3. count' \in 0 .. MaxEvents
    BY ReducersAssumption DEF Deliver, TypedInv
  <1> QED BY <1>1, <1>2, <1>3

LEMMA TypedMakes ==
    ASSUME TypedInv, SoundInv, NEW event, TypedEvent(event), NEW seq, NEW wanted, Makes(event, seq, wanted),
           wanted # None => TypedModel(wanted)
    PROVE  TypedInv'
  <1>1. CASE Deliver(event) /\ intent' = wanted
    <2>1. intent' # None => TypedModel(intent')
      BY <1>1
    <2> QED BY <1>1, <2>1, TypedDeliver DEF TypedInv, TypedModel, TypedBlock
  <1>2. CASE count < MaxEvents /\ count' = count + 1 /\ UNCHANGED <<view, stopped, loose, intent>>
    <2>1. count' \in 0 .. MaxEvents
      BY <1>2, ReducersAssumption DEF TypedInv
    <2> QED BY <1>2, <2>1 DEF TypedInv, TypedModel, TypedBlock
  <1> QED BY <1>1, <1>2 DEF Makes

\* What a call sends and what it describes are typed.
LEMMA TypedStep ==
    ASSUME TypedInv, SoundInv, IntentInv, MirrorInv, [EmissionNext]_<<vars, emitterVars>>
    PROVE  TypedInv'
  <1>0. Calling => TypedModel(intent) /\ Grouped(intent) /\ UniqueIds(intent.blocks)
    <2>1. "go" \in Sdks
      BY DEF Sdks
    <2> QED BY <2>1 DEF Calling, TypedInv, IntentInv, MirrorInv, Fit, Sound
  <1>1. CASE Feed
    <2>1. PICK event \in Events : Deliver(event) /\ intent' = intent
      BY <1>1 DEF Feed, emitterVars
    <2>2. intent' # None => TypedModel(intent')
      BY <2>1 DEF TypedInv
    <2> QED BY <2>1, <2>2, FedTyped, TypedDeliver DEF TypedInv, TypedModel, TypedBlock
  <1>2. CASE Start
    <2>1. PICK model \in Documents : Calling /\ Makes(StartOf(DumpModel(model)), offset + 1, model)
      BY <1>2 DEF Start
    <2>2. TypedModel(model) /\ Grouped(model)
      BY ModelsTyped, DocumentsGrouped DEF Documents
    <2> QED BY <2>1, <2>2, DumpModelTyped, TypedMakes
  <1>3. CASE Restart
    <2>1. PICK wanted \in {None, intent} : Calling /\ Makes(StartOf(DumpModel(intent)), offset, wanted)
      BY <1>3 DEF Restart
    <2> QED BY <1>0, <2>1, DumpModelTyped, TypedMakes
  <1>4. CASE BlockSet
    <2>1. PICK id \in Ids, fields \in Inlines \cup {[ref |-> Word]} :
              \E wanted \in {None, PutBlock(intent, Block(id, fields))} :
                  Calling /\ Makes(Event("set", <<>>, None, None, Block(id, Dump(fields))), offset + 1, wanted)
      BY <1>4 DEF BlockSet
    <2>2. AreFields(fields, BlockNames) /\ ("status" \in DOMAIN fields => fields["status"] \in Leaves)
      BY PartsTyped DEF Wholes
    <2>3. TypedEvent(Event("set", <<>>, None, None, Block(id, Dump(fields))))
      BY <2>2, DumpTyped, BlockEventTyped DEF Masks
    <2>4. TypedModel(PutBlock(intent, Block(id, fields)))
      BY <1>0, <2>1, <2>2, PutTyped DEF TypedBlock, Block
    <2> QED BY <2>1, <2>3, <2>4, TypedMakes
  <1>5. CASE FieldSet
    <2>1. PICK id \in Ids, fields \in Inlines \cup {Flat}, mask \in FieldMasks :
              LET value == ReadPath(fields, Tail(mask))
              IN  /\ Calling
                  /\ Makes(Event("set", mask, None, None, Block(id, fields)), offset + 1,
                           IF Inline(intent, id) /\ value # None
                             THEN PatchBlock(intent, id, Tail(mask), value) ELSE None)
      BY <1>5 DEF FieldSet, DumpField
    <2> DEFINE path == Tail(mask)
               value == ReadPath(fields, path)
    <2>2. AreFields(fields, BlockNames) /\ ("status" \in DOMAIN fields => fields["status"] \in Leaves)
      BY PartsTyped
    <2>3. mask \in Masks /\ mask # <<>> /\ mask[1] = "block"
      BY DEF FieldMasks, Masks
    <2>4. TypedEvent(Event("set", mask, None, None, Block(id, fields)))
      BY <2>2, <2>3, BlockEventTyped
    <2>5. path[1] \in BlockNames \cup {"id"} /\ (Len(path) = 1 \/ (Len(path) = 2 /\ path[2] = "status"))
      BY <2>3, MaskTyped
    <2>6. value # None => path[1] # "id"
      <3>1. ASSUME NEW p, p = <<"id">> PROVE ReadPath(fields, p) = None
        <4>1. Len(p) = 1 /\ p[Len(p)] = "id" /\ "id" \notin DOMAIN fields
          BY <3>1, InlineFields DEF Flat
        <4> QED BY <4>1 DEF ReadPath
      <3>2. path[1] = "id" => mask = <<"block", "id">>
        BY <2>3, MaskPath DEF FieldMasks
      <3>3. mask = <<"block", "id">> => path = <<"id">>
        OBVIOUS
      <3> QED BY <3>1, <3>2, <3>3
    <2> HIDE DEF path
    <2>7. ASSUME Inline(intent, id), value # None PROVE TypedModel(PatchBlock(intent, id, path, value))
      <3>1. /\ Len(path) = 1 => Typed(value)
            /\ Len(path) # 1 => path[2] = "status" /\ value \in Leaves
        BY <2>2, <2>5, <2>7, ReadTyped
      <3>2. path[1] \in BlockNames
        BY <2>5, <2>6, <2>7
      <3> HIDE DEF value
      <3> QED BY <1>0, <2>1, <2>7, <3>1, <3>2, PatchTyped
    <2> QED BY <2>1, <2>4, <2>7, TypedMakes DEF path
  <1>6. CASE BlockAppend
    <2> DEFINE old(id) == Held(intent, id)
               value(id, fields) == Appended("python", OldField(intent, id, "content"), fields["content"])
               wanted(id, fields) ==
                   IF fields["content"] = Null THEN None
                   ELSE IF Holding(intent.blocks, id) = {} THEN PutBlock(intent, Block(id, fields))
                   ELSE IF IsReference(old(id)) \/ value(id, fields) = None THEN None
                   ELSE PatchBlock(intent, id, <<"content">>, value(id, fields))
    <2>1. PICK id \in Ids, fields \in Inlines :
              /\ Calling
              /\ "content" \in DOMAIN fields
              /\ Makes(Event("append", <<"block", "content">>, None, None, Block(id, Dump(fields))), offset + 1,
                       wanted(id, fields))
      BY <1>6 DEF BlockAppend, Appended, OldField, Held
    <2>2. AreFields(fields, BlockNames) /\ ("status" \in DOMAIN fields => fields["status"] \in Leaves)
      BY PartsTyped
    <2>3. TypedEvent(Event("append", <<"block", "content">>, None, None, Block(id, Dump(fields))))
      BY <2>2, DumpTyped, BlockEventTyped DEF Masks
    <2> DEFINE block == Block(id, fields)
    <2>4. block.id = id /\ block.fields = fields /\ TypedBlock(block)
      BY <2>2 DEF TypedBlock, Block
    <2>5. TypedModel(PutBlock(intent, block))
      BY <1>0, <2>1, <2>4, PutTyped
    <2>6. Holding(intent.blocks, id) # {} /\ ~IsReference(old(id)) /\ value(id, fields) # None =>
              TypedModel(PatchBlock(intent, id, <<"content">>, value(id, fields)))
      <3>1. "content" \in BlockNames
        BY DEF BlockNames
      <3> HIDE DEF block
      <3> QED BY <1>0, <2>1, <2>4, <3>1, AppendTyped
    <2>7. wanted(id, fields) # None => TypedModel(wanted(id, fields))
      <3> HIDE DEF value
      <3> QED BY <2>5, <2>6
    <2> HIDE DEF wanted
    <2> QED BY <2>1, <2>3, <2>7, TypedMakes
  <1>7. CASE MetaSet \/ SetStats \/ Error
    <2>1. PICK op, name, value, meta :
              /\ op \in {"set", "error"} /\ name \in MetaNames
              /\ Typed(value) /\ DOMAIN meta = {name} /\ meta[name] = value /\ <<"meta", name>> \in Masks
              /\ Calling
              /\ Makes(Event(op, <<"meta", name>>, None, meta, None), offset + 1, PatchMeta(intent, <<name>>, value))
      <3> DEFINE Found(op, name, value, meta) ==
                   /\ op \in {"set", "error"} /\ name \in MetaNames
                   /\ Typed(value) /\ DOMAIN meta = {name} /\ meta[name] = value /\ <<"meta", name>> \in Masks
                   /\ Calling
                   /\ Makes(Event(op, <<"meta", name>>, None, meta, None), offset + 1, PatchMeta(intent, <<name>>, value))
      <3> SUFFICES \E op, name, value, meta : Found(op, name, value, meta)
        OBVIOUS
      <3>1. ASSUME NEW other \in {"status", "stats"}, NEW given, Sets(other, given)
            PROVE  LET object == [n \in {other} |-> given]
                   IN  /\ DOMAIN object = {other} /\ object[other] = given
                       /\ Calling
                       /\ Makes(Event("set", <<"meta", other>>, None, object, None), offset + 1,
                                PatchMeta(intent, <<other>>, given))
        BY <3>1 DEF Sets
      <3>2. {"status", "stats", "error"} \subseteq MetaNames
            /\ {<<"meta", "status">>, <<"meta", "stats">>, <<"meta", "error">>} \subseteq Masks
        BY DEF MetaNames, Masks
      <3>3. ASSUME NEW other \in {"status", "stats"}, NEW given, Typed(given), Sets(other, given)
            PROVE  \E op, name, value, meta : Found(op, name, value, meta)
        <4>1. Found("set", other, given, [n \in {other} |-> given])
          BY <3>1, <3>2, <3>3
        <4> QED BY <4>1
      <3>4. CASE MetaSet
        BY <3>3, <3>4, WordsTyped DEF MetaSet
      <3>5. CASE SetStats
        BY <3>3, <3>5, WordsTyped DEF SetStats
      <3>6. CASE Error
        <4>1. Found("error", "error", Failure, [error |-> Failure])
          BY <3>2, <3>6, WordsTyped DEF Error
        <4> QED BY <4>1
      <3> QED BY <1>7, <3>4, <3>5, <3>6
    <2>2. AreFields(meta, MetaNames)
      BY <2>1, FieldsTyped
    <2>3. TypedEvent(Event(op, <<"meta", name>>, None, meta, None))
      BY <2>1, <2>2, MetaEventTyped
    <2>4. TypedModel(PatchMeta(intent, <<name>>, value))
      BY <1>0, <2>1, PatchMetaTyped
    <2> QED BY <2>1, <2>3, <2>4, TypedMakes
  <1>8. CASE Ping \/ End
    <2>1. PICK op, seq : /\ op \in {"ping", "end"}
                        /\ Calling
                        /\ Makes(Event(op, <<>>, None, None, None), seq, intent)
      BY <1>8 DEF Ping, End
    <2>2. TypedEvent(Event(op, <<>>, None, None, None))
      BY <2>1, MetaEventTyped DEF Masks
    <2> QED BY <1>0, <2>1, <2>2, TypedMakes
  <1>9. CASE UNCHANGED <<vars, emitterVars>>
    BY <1>9 DEF vars, emitterVars, TypedInv, TypedModel, TypedBlock
  <1> QED BY <1>1, <1>2, <1>3, <1>4, <1>5, <1>6, <1>7, <1>8, <1>9 DEF EmissionNext

\* The models of the clients are models, whatever is sent and whoever sends it.
THEOREM ModelsKeepType == EmissionSpec => []TypeOK
  <1>1. EmissionInit => TypedInv
    <2> SUFFICES ASSUME EmissionInit PROVE TypedInv
      OBVIOUS
    <2>1. PICK model \in Models : view = [s \in Sdks |-> model]
      BY DEF EmissionInit, Init
    <2>2. TypedModel(model) /\ view["go"] = model
      BY <2>1, ModelsTyped DEF Sdks
    <2>3. 0 \in 0 .. MaxEvents
      BY ReducersAssumption
    <2> QED BY <2>1, <2>2, <2>3 DEF EmissionInit, Init, TypedInv
  <1>2. /\ TypedInv /\ SoundInv /\ IntentInv /\ MirrorInv
        /\ [EmissionNext]_<<vars, emitterVars>>
        => TypedInv'
    BY TypedStep
  <1>3. TypedInv => TypeOK
    <2>1. ASSUME NEW model, TypedModel(model), NEW i \in 1 .. Len(model.blocks)
          PROVE  model.blocks[i].id \in Ids /\ AreFields(model.blocks[i].fields, BlockNames)
      <3>1. i \in DOMAIN model.blocks
        BY <2>1 DEF TypedModel, IsSequence
      <3> QED BY <2>1, <3>1 DEF TypedModel, TypedBlock
    <2> QED BY <2>1 DEF TypedInv, TypeOK, TypedModel, MetaNames, BlockNames
  <1> QED BY <1>1, <1>2, <1>3, SoundAlways, MirrorAlways, PTL DEF EmissionSpec
================================================================================

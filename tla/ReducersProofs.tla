---------------------------- MODULE ReducersProofs -----------------------------
(***************************************************************************)
(* No reducer of the three lets two blocks have one id, and clients whose  *)
(* reducers refused nothing read the same model: for any ids, any          *)
(* characters and streams of any length.                                   *)
(***************************************************************************)
EXTENDS Emission, TLAPS

IsSequence(blocks) == \E S : blocks \in Seq(S)

\* What every reducer keeps of a model.
Sound(model) == IsSequence(model.blocks) /\ UniqueIds(model.blocks)

SoundOrRefused(result) == result = Refused \/ Sound(result)

\* Replacing the one block with an id, or adding it when there is none, keeps
\* ids unique.
LEMMA PutSound ==
    ASSUME NEW model, NEW block, Sound(model)
    PROVE  Sound(PutBlock(model, block))
  <1> DEFINE blocks == model.blocks
             new == PutBlock(model, block).blocks
  <1>1. PICK S : blocks \in Seq(S)
    BY DEF Sound, IsSequence
  <1>2. CASE Holding(blocks, block.id) = {}
    <2>1. new = Append(blocks, block)
      BY <1>2 DEF PutBlock, Model, ModelOf
    <2>2. blocks \in Seq(S \cup {block}) /\ block \in S \cup {block}
      BY <1>1
    <2>3. /\ new \in Seq(S \cup {block}) /\ Len(new) = Len(blocks) + 1
          /\ new[Len(blocks) + 1] = block
          /\ \A i \in 1..Len(blocks) : new[i] = blocks[i]
          /\ DOMAIN new = 1..Len(blocks) + 1 /\ DOMAIN blocks = 1..Len(blocks)
      BY <2>1, <2>2
    <2>4. \A i \in 1..Len(blocks) : blocks[i].id # block.id
      BY <1>2, <2>3 DEF Holding
    <2>5. UniqueIds(new)
      <3>1. UniqueIds(blocks)
        BY DEF Sound
      <3> HIDE DEF new
      <3> QED BY <2>3, <2>4, <3>1 DEF UniqueIds
    <2>6. IsSequence(new)
      <3> HIDE DEF new
      <3> QED BY <2>3 DEF IsSequence
    <2> QED BY <2>5, <2>6 DEF Sound
  <1>3. CASE Holding(blocks, block.id) # {}
    <2> DEFINE at == Position(blocks, block.id)
    <2>1. PICK k \in DOMAIN blocks : Holding(blocks, block.id) = {k}
      BY <1>3 DEF Holding, Sound, UniqueIds
    <2>2. k \in Nat
      BY <1>1, <2>1
    <2>3. at = k
      BY <2>1, <2>2 DEF Position
    <2>4. new = [blocks EXCEPT ![k] = block]
      BY <1>3, <2>3 DEF PutBlock, Model, ModelOf
    <2>5. blocks \in Seq(S \cup {block})
      BY <1>1
    <2>6. new \in Seq(S \cup {block}) /\ DOMAIN new = DOMAIN blocks
      BY <2>1, <2>4, <2>5
    <2>7. \A i \in DOMAIN blocks : new[i].id = blocks[i].id
      BY <2>1, <2>4 DEF Holding
    <2>8. UniqueIds(new)
      BY <2>6, <2>7 DEF Sound, UniqueIds
    <2> QED BY <2>6, <2>8 DEF Sound, IsSequence
  <1> QED BY <1>2, <1>3

\* Field patches leave the ids alone.
LEMMA PatchSound ==
    ASSUME NEW model, Sound(model), NEW path, NEW value
    PROVE  /\ Sound(PatchMeta(model, path, value))
           /\ \A id : Sound(PatchBlock(model, id, path, value))
  <1>1. Sound(PatchMeta(model, path, value))
    BY DEF PatchMeta, ModelOf, Sound
  <1>2. ASSUME NEW id PROVE Sound(PatchBlock(model, id, path, value))
    BY PutSound DEF PatchBlock
  <1> QED BY <1>1, <1>2

LEMMA SetSound ==
    ASSUME NEW model, Sound(model), NEW event
    PROVE  SoundOrRefused(SetByMask(model, event))
  BY PatchSound DEF SetByMask, Patched, SoundOrRefused

LEMMA UpsertSound ==
    ASSUME NEW model, Sound(model), NEW block
    PROVE  /\ SoundOrRefused(GoUpsertBlock(model, block))
           /\ SoundOrRefused(PyUpsertBlock(model, block))
           /\ SoundOrRefused(TsUpsertBlock(model, block))
  BY PutSound DEF GoUpsertBlock, PyUpsertBlock, TsUpsertBlock, SoundOrRefused

LEMMA AppendSound ==
    ASSUME NEW model, Sound(model), NEW event
    PROVE  /\ SoundOrRefused(GoAppendByMask(model, event))
           /\ SoundOrRefused(PyApplyAppend(model, event))
           /\ SoundOrRefused(TsApplyAppend(model, event))
  <1>1. SoundOrRefused(GoAppendByMask(model, event))
    BY PatchSound, UpsertSound DEF GoAppendByMask, SoundOrRefused
  <1>2. SoundOrRefused(PyApplyAppend(model, event))
    BY PatchSound, PutSound DEF PyApplyAppend, SoundOrRefused
  <1>3. SoundOrRefused(TsApplyAppend(model, event))
    BY PatchSound, PutSound DEF TsApplyAppend, SoundOrRefused
  <1> QED BY <1>1, <1>2, <1>3

\* A start carries a sequence of blocks.
LEMMA StartSequence ==
    ASSUME NEW event \in Events, event.op = "start"
    PROVE  IsSequence(event.model.blocks)
  <1>1. event \in Starts
    BY DEF Events, Others, Event, EventOf
  <1>2. ASSUME NEW model \in Models PROVE IsSequence(model.blocks)
    <2>0. CASE model = Model("1.1", [error |-> Null], <<>>)
      <3>1. model.blocks = <<>> /\ <<>> \in Seq({})
        BY <2>0 DEF Model, ModelOf
      <3> QED BY <3>1 DEF IsSequence
    <2> SUFFICES ASSUME model # Model("1.1", [error |-> Null], <<>>) PROVE IsSequence(model.blocks)
      BY <2>0
    <2>1. PICK version \in {"1.0", "1.1"}, meta \in {<<>>, [error |-> Object(<<>>)]},
               blocks \in {<<>>} \cup {<<Block(id, Plain), Block(other, Plain)>> : id, other \in Ids}
                                 \cup {<<Block(id, [ref |-> Word])>> : id \in Ids} :
                  model = Model(version, meta, blocks)
      BY <1>2 DEF Models
    <2>2. IsSequence(blocks)
      <3>1. CASE blocks = <<>>
        BY <3>1 DEF IsSequence
      <3>2. ASSUME NEW id \in Ids, NEW other \in Ids, blocks = <<Block(id, Plain), Block(other, Plain)>>
            PROVE  IsSequence(blocks)
        <4>1. blocks \in Seq({Block(id, Plain), Block(other, Plain)})
          BY <3>2
        <4> QED BY <4>1 DEF IsSequence
      <3>3. ASSUME NEW id \in Ids, blocks = <<Block(id, [ref |-> Word])>> PROVE IsSequence(blocks)
        <4>1. blocks \in Seq({Block(id, [ref |-> Word])})
          BY <3>3
        <4> QED BY <4>1 DEF IsSequence
      <3> QED BY <3>1, <3>2, <3>3
    <2> QED BY <2>1, <2>2 DEF Model, ModelOf
  <1>5. ASSUME NEW model \in Partials PROVE IsSequence(model.blocks)
    <2>1. CASE model = ModelOf("1.0", <<>>, <<>>, FALSE)
      <3>1. model.blocks = <<>> /\ <<>> \in Seq({})
        BY <2>1 DEF ModelOf
      <3> QED BY <3>1 DEF IsSequence
    <2>2. ASSUME NEW id \in Ids, model = Model("none", <<>>, <<Block(id, [ref |-> Word])>>)
          PROVE  IsSequence(model.blocks)
      <3>1. model.blocks = <<Block(id, [ref |-> Word])>>
        BY <2>2 DEF Model, ModelOf
      <3>2. model.blocks \in Seq({Block(id, [ref |-> Word])})
        BY <3>1
      <3> QED BY <3>2 DEF IsSequence
    <2> QED BY <1>5, <2>1, <2>2 DEF Partials
  <1>3. CASE \E model \in Models \cup Partials : event = Event("start", <<>>, model, None, None)
    BY <1>2, <1>5, <1>3 DEF Event, EventOf
  <1>4. CASE event = Event("start", <<"meta", "status">>, Model("1.1", <<>>, <<>>), None, None)
    <2>1. event.model.blocks = <<>> /\ <<>> \in Seq({})
      BY <1>4 DEF Event, EventOf, Model, ModelOf
    <2> QED BY <2>1 DEF IsSequence
  <1> QED BY <1>1, <1>3, <1>4 DEF Starts

LEMMA ReduceSound ==
    ASSUME NEW s \in Sdks, NEW model, Sound(model), NEW event,
           event.op = "start" => IsSequence(event.model.blocks)
    PROVE  SoundOrRefused(Reduce(s, model, event))
  <1>1. SoundOrRefused(GoApply(model, event))
    <2>1. CASE GoValidate(event) /\ event.op = "start"
      <3>1. UniqueIds(event.model.blocks)
        BY <2>1 DEF GoValidate, GoValidateModel
      <3> QED BY <2>1, <3>1 DEF GoApply, Sound, SoundOrRefused
    <2>2. CASE event.op # "start"
      BY <2>2, SetSound, UpsertSound, AppendSound DEF GoApply, SoundOrRefused
    <2> QED BY <2>1, <2>2 DEF GoApply, SoundOrRefused
  <1>2. SoundOrRefused(PyApplyPatch(model, event))
    <2>1. CASE PyValidate(event) /\ event.op = "start"
      <3>1. UniqueIds(event.model.blocks)
        BY <2>1 DEF PyValidate, PyUIModel
      <3> QED BY <2>1, <3>1 DEF PyApplyPatch, Sound, SoundOrRefused
    <2>2. CASE event.op # "start"
      BY <2>2, SetSound, UpsertSound, AppendSound DEF PyApplyPatch, SoundOrRefused
    <2> QED BY <2>1, <2>2 DEF PyApplyPatch, SoundOrRefused
  <1>3. SoundOrRefused(TsApplyPatch(model, event))
    <2>1. CASE TsParsePatchEvent(event) /\ event.op = "start"
      <3>1. UniqueIds(event.model.blocks)
        BY <2>1 DEF TsParsePatchEvent, TsParseUIModel
      <3> QED BY <2>1, <3>1 DEF TsApplyPatch, Sound, SoundOrRefused
    <2>2. CASE event.op # "start"
      BY <2>2, SetSound, UpsertSound, AppendSound DEF TsApplyPatch, SoundOrRefused
    <2> QED BY <2>1, <2>2 DEF TsApplyPatch, SoundOrRefused
  <1> QED BY <1>1, <1>2, <1>3 DEF Reduce, Sdks

AllSound == \A s \in Sdks : Sound(view[s])

LEMMA SoundStays == Spec => []AllSound
  <1>1. Init => AllSound
    <2> SUFFICES ASSUME Init PROVE AllSound
      OBVIOUS
    <2>1. PICK model \in Models : /\ \A s \in Sdks : ValidModel(s, model)
                                  /\ view = [s \in Sdks |-> model]
      BY DEF Init
    <2>2. StartOf(model) \in Events /\ StartOf(model).op = "start" /\ StartOf(model).model = model
      <3>1. StartOf(model) \in Starts
        BY DEF StartOf, Starts
      <3>2. StartOf(model).op = "start" /\ StartOf(model).model = model
        BY DEF StartOf, Event, EventOf
      <3> QED BY <3>1, <3>2 DEF Events
    <2>3. IsSequence(model.blocks)
      BY <2>2, StartSequence
    <2>4. UniqueIds(model.blocks)
      BY <2>1, <2>2 DEF Sdks, ValidModel, GoValidateModel
    <2> QED BY <2>1, <2>3, <2>4 DEF AllSound, Sound
  <1>2. AllSound /\ [Next]_vars => AllSound'
    <2>1. ASSUME AllSound, NEW event \in Events, Deliver(event), NEW s \in Sdks
          PROVE  Sound(view[s])'
      <3>1. CASE view'[s] = view[s]
        BY <2>1, <3>1 DEF AllSound, Sound
      <3>2. CASE view'[s] = Reduce(s, view[s], event) /\ view'[s] # Refused
        BY <2>1, <3>2, ReduceSound, StartSequence DEF AllSound, Sound, SoundOrRefused
      <3> QED BY <2>1, <3>1, <3>2 DEF Deliver, Refuses
    <2>2. ASSUME AllSound, UNCHANGED vars PROVE AllSound'
      BY <2>2 DEF AllSound, Sound, vars
    <2> QED BY <2>1, <2>2 DEF AllSound, Next
  <1> QED BY <1>1, <1>2, PTL DEF Spec

\* Whatever a stream carries, no client ever has two blocks with one id.
THEOREM IdsUnique == Spec => []IdsStayUnique
  <1>1. AllSound => IdsStayUnique
    BY DEF AllSound, Sound, IdsStayUnique
  <1> QED BY <1>1, SoundStays, PTL

--------------------------------------------------------------------------------

\* Objects, and models, that read the same.
SameRead(f, g) == DOMAIN f = DOMAIN g /\ \A name \in DOMAIN f : Filled(f[name]) = Filled(g[name])
ReadAlike(a, b) ==
    /\ a.version = b.version /\ a.listed = b.listed
    /\ SameRead(a.meta, b.meta)
    /\ DOMAIN a.blocks = DOMAIN b.blocks
    /\ \A i \in DOMAIN a.blocks : /\ a.blocks[i].id = b.blocks[i].id
                                   /\ SameRead(a.blocks[i].fields, b.blocks[i].fields)

LEMMA ReadFieldsSame ==
    ASSUME NEW f, NEW g
    PROVE  ReadFields(f) = ReadFields(g) <=> SameRead(f, g)
  <1>1. ASSUME ReadFields(f) = ReadFields(g) PROVE SameRead(f, g)
    <2>1. DOMAIN ReadFields(f) = DOMAIN f /\ DOMAIN ReadFields(g) = DOMAIN g
      BY DEF ReadFields
    <2>2. /\ \A name \in DOMAIN f : ReadFields(f)[name] = Filled(f[name])
          /\ \A name \in DOMAIN g : ReadFields(g)[name] = Filled(g[name])
      BY DEF ReadFields
    <2> QED BY <1>1, <2>1, <2>2 DEF SameRead
  <1>2. ASSUME SameRead(f, g) PROVE ReadFields(f) = ReadFields(g)
    BY <1>2 DEF SameRead, ReadFields
  <1> QED BY <1>1, <1>2

\* AsRead tells models apart by what ReadAlike compares.
LEMMA AsReadAlike ==
    ASSUME NEW a, NEW b
    PROVE  AsRead(a) = AsRead(b) <=> ReadAlike(a, b)
  <1> DEFINE shown(m) == [i \in DOMAIN m.blocks |-> Block(m.blocks[i].id, ReadFields(m.blocks[i].fields))]
  <1>1. \A m \in {a, b} : /\ AsRead(m).version = m.version /\ AsRead(m).listed = m.listed
                          /\ AsRead(m).meta = ReadFields(m.meta) /\ AsRead(m).blocks = shown(m)
    BY DEF AsRead, ModelOf
  <1>2. \A m \in {a, b} : /\ DOMAIN shown(m) = DOMAIN m.blocks
                          /\ \A i \in DOMAIN m.blocks :
                                 /\ shown(m)[i].id = m.blocks[i].id
                                 /\ shown(m)[i].fields = ReadFields(m.blocks[i].fields)
    BY DEF Block
  <1>3. ASSUME AsRead(a) = AsRead(b) PROVE ReadAlike(a, b)
    <2>1. a.version = b.version /\ a.listed = b.listed /\ ReadFields(a.meta) = ReadFields(b.meta)
          /\ shown(a) = shown(b)
      BY <1>1, <1>3
    <2> HIDE DEF shown
    <2>2. DOMAIN a.blocks = DOMAIN b.blocks
      BY <1>2, <2>1
    <2>3. ASSUME NEW i \in DOMAIN a.blocks
          PROVE  /\ a.blocks[i].id = b.blocks[i].id
                 /\ ReadFields(a.blocks[i].fields) = ReadFields(b.blocks[i].fields)
      BY <1>2, <2>1, <2>2
    <2> QED BY <2>1, <2>2, <2>3, ReadFieldsSame DEF ReadAlike
  <1>4. ASSUME ReadAlike(a, b) PROVE AsRead(a) = AsRead(b)
    <2>1. ReadFields(a.meta) = ReadFields(b.meta)
      BY <1>4, ReadFieldsSame DEF ReadAlike
    <2>2. \A i \in DOMAIN a.blocks :
              Block(a.blocks[i].id, ReadFields(a.blocks[i].fields))
                = Block(b.blocks[i].id, ReadFields(b.blocks[i].fields))
      BY <1>4, ReadFieldsSame DEF ReadAlike
    <2>3. shown(a) = shown(b)
      BY <1>4, <2>2 DEF ReadAlike
    <2> QED BY <1>4, <2>1, <2>3 DEF AsRead, ReadAlike
  <1> QED BY <1>3, <1>4

\* Where ids are unique, Position is the place of the one block with an id.
LEMMA PositionHeld ==
    ASSUME NEW blocks, IsSequence(blocks), UniqueIds(blocks), NEW id, Holding(blocks, id) # {}
    PROVE  /\ Position(blocks, id) \in DOMAIN blocks
           /\ Holding(blocks, id) = {Position(blocks, id)}
           /\ blocks[Position(blocks, id)].id = id
  <1>1. PICK k \in DOMAIN blocks : Holding(blocks, id) = {k} /\ blocks[k].id = id
    BY DEF Holding, UniqueIds
  <1>2. k \in Nat
    BY <1>1 DEF IsSequence
  <1>3. Position(blocks, id) = k
    BY <1>1, <1>2 DEF Position
  <1> QED BY <1>1, <1>3

\* Such models hold an id at the same place, and agree on what is a reference.
LEMMA ReadPlaces ==
    ASSUME NEW a, NEW b, ReadAlike(a, b), Sound(a), NEW id
    PROVE  /\ Holding(a.blocks, id) = Holding(b.blocks, id)
           /\ Position(a.blocks, id) = Position(b.blocks, id)
           /\ Inline(a, id) <=> Inline(b, id)
           /\ Holding(a.blocks, id) # {} =>
                 LET p == Position(a.blocks, id)
                 IN  /\ p \in DOMAIN a.blocks /\ a.blocks[p].id = id
                     /\ SameRead(a.blocks[p].fields, b.blocks[p].fields)
                     /\ IsReference(a.blocks[p]) <=> IsReference(b.blocks[p])
  <1> DEFINE p == Position(a.blocks, id)
  <1>1. Holding(a.blocks, id) = Holding(b.blocks, id) /\ p = Position(b.blocks, id)
    BY DEF ReadAlike, Holding, Position
  <1>2. ASSUME Holding(a.blocks, id) # {}
        PROVE  /\ p \in DOMAIN a.blocks /\ a.blocks[p].id = id
               /\ SameRead(a.blocks[p].fields, b.blocks[p].fields)
    BY <1>2, PositionHeld DEF Sound, ReadAlike
  <1>3. Holding(a.blocks, id) # {} => (IsReference(a.blocks[p]) <=> IsReference(b.blocks[p]))
    BY <1>1, <1>2 DEF IsReference, SameRead
  <1>4. Inline(a, id) <=> Inline(b, id)
    BY <1>1, <1>3 DEF Inline
  <1> QED BY <1>1, <1>2, <1>3, <1>4

LEMMA ReadPut ==
    ASSUME NEW a, NEW b, ReadAlike(a, b), Sound(a), Sound(b),
           NEW c, NEW d, c.id = d.id, SameRead(c.fields, d.fields)
    PROVE  ReadAlike(PutBlock(a, c), PutBlock(b, d))
  <1> DEFINE id == c.id
             n == PutBlock(a, c)
             m == PutBlock(b, d)
             p == Position(a.blocks, id)
  <1>1. /\ d.id = id
        /\ n.version = m.version /\ n.listed = m.listed /\ n.meta = a.meta /\ m.meta = b.meta
    BY DEF PutBlock, Model, ModelOf, ReadAlike
  <1>2. SameRead(n.meta, m.meta)
    BY <1>1 DEF ReadAlike
  <1>3. Holding(a.blocks, id) = Holding(b.blocks, id) /\ p = Position(b.blocks, id)
    BY ReadPlaces
  <1>4. DOMAIN n.blocks = DOMAIN m.blocks
        /\ \A i \in DOMAIN n.blocks : /\ n.blocks[i].id = m.blocks[i].id
                                      /\ SameRead(n.blocks[i].fields, m.blocks[i].fields)
    <2>1. CASE Holding(a.blocks, id) = {}
      <3>1. n.blocks = Append(a.blocks, c) /\ m.blocks = Append(b.blocks, d)
        BY <1>1, <1>3, <2>1 DEF PutBlock, Model, ModelOf
      <3>2. PICK S, T : a.blocks \in Seq(S) /\ b.blocks \in Seq(T)
        BY DEF Sound, IsSequence
      <3>3. Len(a.blocks) = Len(b.blocks) /\ Len(a.blocks) \in Nat
            /\ DOMAIN a.blocks = 1..Len(a.blocks) /\ DOMAIN b.blocks = 1..Len(a.blocks)
        BY <3>2 DEF ReadAlike
      <3>4. /\ DOMAIN n.blocks = 1..Len(a.blocks) + 1 /\ DOMAIN m.blocks = 1..Len(a.blocks) + 1
            /\ n.blocks[Len(a.blocks) + 1] = c /\ m.blocks[Len(a.blocks) + 1] = d
            /\ \A i \in 1..Len(a.blocks) : n.blocks[i] = a.blocks[i] /\ m.blocks[i] = b.blocks[i]
        <4>1. a.blocks \in Seq(S \cup {c}) /\ b.blocks \in Seq(T \cup {d})
          BY <3>2
        <4> QED BY <3>1, <3>3, <4>1
      <3> HIDE DEF n, m
      <3> QED BY <1>1, <3>3, <3>4 DEF ReadAlike
    <2>2. CASE Holding(a.blocks, id) # {}
      <3>1. n.blocks = [a.blocks EXCEPT ![p] = c] /\ m.blocks = [b.blocks EXCEPT ![p] = d]
        BY <1>1, <1>3, <2>2 DEF PutBlock, Model, ModelOf
      <3>2. DOMAIN n.blocks = DOMAIN a.blocks /\ DOMAIN m.blocks = DOMAIN b.blocks
        BY <3>1
      <3>3. \A i \in DOMAIN a.blocks : /\ n.blocks[i] = IF i = p THEN c ELSE a.blocks[i]
                                       /\ m.blocks[i] = IF i = p THEN d ELSE b.blocks[i]
        BY <3>1 DEF ReadAlike
      <3> HIDE DEF n, m, p
      <3> QED BY <1>1, <3>2, <3>3 DEF ReadAlike
    <2> QED BY <2>1, <2>2
  <1> QED BY <1>1, <1>2, <1>4 DEF ReadAlike

LEMMA ReadWrite ==
    ASSUME NEW f, NEW g, SameRead(f, g), NEW path, NEW v, NEW w, Filled(v) = Filled(w),
           v = w \/ Len(path) = 1
    PROVE  SameRead(WritePath(f, path, v), WritePath(g, path, w))
  <1>1. ASSUME NEW name, NEW x, NEW y, Filled(x) = Filled(y)
        PROVE  SameRead(With(f, name, x), With(g, name, y))
    BY <1>1 DEF SameRead, With
  <1>2. CASE Len(path) = 1
    BY <1>1, <1>2 DEF WritePath
  <1>3. CASE Len(path) # 1
    <2> DEFINE inner(h) == IF Has(h, path[1], {"object"}) THEN h[path[1]].fields ELSE <<>>
    <2>1. \A x, y : Filled(x) = Filled(y) /\ x.kind = "object" => x = y
      BY DEF Filled, NilList, List
    <2>2. inner(f) = inner(g)
      BY <2>1 DEF Has, SameRead
    <2>3. /\ WritePath(f, path, v) = With(f, path[1], Object(With(inner(f), path[2], v)))
          /\ WritePath(g, path, w) = With(g, path[1], Object(With(inner(g), path[2], w)))
      BY <1>3 DEF WritePath
    <2>4. Object(With(inner(f), path[2], v)) = Object(With(inner(g), path[2], w))
      BY <1>3, <2>2
    <2> HIDE DEF inner
    <2> QED BY <1>1, <2>3, <2>4
  <1> QED BY <1>2, <1>3

LEMMA ReadPatch ==
    ASSUME NEW a, NEW b, ReadAlike(a, b), Sound(a), Sound(b), NEW path,
           NEW v, NEW w, Filled(v) = Filled(w), v = w \/ Len(path) = 1
    PROVE  /\ ReadAlike(PatchMeta(a, path, v), PatchMeta(b, path, w))
           /\ \A id : Holding(a.blocks, id) # {} =>
                  ReadAlike(PatchBlock(a, id, path, v), PatchBlock(b, id, path, w))
  <1>1. ReadAlike(PatchMeta(a, path, v), PatchMeta(b, path, w))
    <2>1. SameRead(WritePath(a.meta, path, v), WritePath(b.meta, path, w))
      BY ReadWrite DEF ReadAlike
    <2> QED BY <2>1 DEF ReadAlike, PatchMeta, ModelOf
  <1>2. ASSUME NEW id, Holding(a.blocks, id) # {}
        PROVE  ReadAlike(PatchBlock(a, id, path, v), PatchBlock(b, id, path, w))
    <2> DEFINE p == Position(a.blocks, id)
               f == WritePath(a.blocks[p].fields, path, v)
               g == WritePath(b.blocks[p].fields, path, w)
    <2>1. p = Position(b.blocks, id) /\ SameRead(a.blocks[p].fields, b.blocks[p].fields)
      BY <1>2, ReadPlaces
    <2>2. SameRead(f, g)
      BY <2>1, ReadWrite
    <2>3. PatchBlock(a, id, path, v) = PutBlock(a, Block(id, f))
      BY DEF PatchBlock
    <2>4. PatchBlock(b, id, path, w) = PutBlock(b, Block(id, g))
      BY <2>1 DEF PatchBlock
    <2>5. Block(id, f).id = Block(id, g).id /\ SameRead(Block(id, f).fields, Block(id, g).fields)
      BY <2>2 DEF Block
    <2> HIDE DEF f, g
    <2> QED BY <2>3, <2>4, <2>5, ReadPut
  <1> QED BY <1>1, <1>2

\* What an append makes of a field in each SDK.
Appended(s, old, delta) == IF s = "go" THEN GoConcatenated(old, delta) ELSE Concatenated(old, delta)
Held(model, id) == model.blocks[Position(model.blocks, id)]
OldField(model, id, field) ==
    IF field \in DOMAIN Held(model, id).fields THEN Held(model, id).fields[field] ELSE None

\* Appending to what reads the same gives what reads the same, in any two SDKs.
LEMMA AppendedReads ==
    ASSUME NEW s, NEW t, NEW x, NEW y, Filled(x) = Filled(y), NEW delta
    PROVE  /\ Filled(Appended(s, x, delta)) = Filled(Appended(t, y, delta))
           /\ Appended(s, x, delta) = None <=> Appended(t, y, delta) = None
  <1>1. NilList # List(<<>>)
    <2>1. "nil" \in DOMAIN NilList /\ "nil" \notin DOMAIN List(<<>>)
      BY DEF NilList, List
    <2> QED BY <2>1
  <1>2. NilList \notin {None, Null} /\ List(<<>>) \notin {None, Null}
    <2>1. NilList.kind = "list" /\ List(<<>>).kind = "list" /\ None.kind = "none" /\ Null.kind = "null"
      BY DEF NilList, List, None, Null
    <2> QED BY <2>1
  <1>3. Concatenated(x, delta) = Concatenated(y, delta)
    <2>1. Concatenated(NilList, delta) = Concatenated(List(<<>>), delta)
      <3>1. NilList.kind = "list" /\ List(<<>>).kind = "list" /\ NilList.items = <<>> /\ List(<<>>).items = <<>>
        BY DEF NilList, List
      <3> QED BY <1>2, <3>1 DEF Concatenated
    <2>2. x = y \/ {x, y} = {NilList, List(<<>>)}
      BY DEF Filled
    <2> QED BY <2>1, <2>2
  <1>4. \A r, z : /\ Filled(Appended(r, z, delta)) = Filled(Concatenated(z, delta))
                  /\ Appended(r, z, delta) = None <=> Concatenated(z, delta) = None
    <2> TAKE r, z
    <2>1. CASE r = "go" /\ delta = List(<<>>) /\ z \in {None, Null, NilList}
      <3>1. Appended(r, z, delta) = NilList
        BY <2>1 DEF Appended, GoConcatenated
      <3>2. Concatenated(z, delta) = List(<<>>)
        <4>1. NilList.kind = "list" /\ List(<<>>).kind = "list" /\ NilList.items = <<>> /\ List(<<>>).items = <<>>
          BY DEF NilList, List
        <4>2. CASE z \in {None, Null}
          BY <2>1, <4>1, <4>2 DEF Concatenated
        <4>3. CASE z = NilList
          <5>1. Concatenated(z, delta) = [kind |-> "list", items |-> <<>> \o <<>>]
            BY <1>2, <2>1, <4>1, <4>3 DEF Concatenated
          <5>2. <<>> \o <<>> = <<>>
            OBVIOUS
          <5> QED BY <5>1, <5>2 DEF List
        <4> QED BY <2>1, <4>2, <4>3
      <3> QED BY <1>1, <1>2, <3>1, <3>2 DEF Filled
    <2>2. CASE ~(r = "go" /\ delta = List(<<>>) /\ z \in {None, Null, NilList})
      BY <2>2 DEF Appended, GoConcatenated
    <2> QED BY <2>1, <2>2
  <1> QED BY <1>3, <1>4

\* What a reducer makes of an event that it takes.
Result(s, model, event) ==
    LET id == event.block.id
        field == event.mask[2]
        value == Appended(s, OldField(model, id, field), event.block.fields[field])
    IN  CASE event.op = "start" -> event.model
          [] event.op = "set" -> IF event.mask = <<>> THEN PutBlock(model, event.block) ELSE SetByMask(model, event)
          [] event.op = "error" -> SetByMask(model, event)
          [] event.op = "append" -> IF Holding(model.blocks, id) = {} THEN PutBlock(model, event.block)
                                    ELSE PatchBlock(model, id, <<field>>, value)
          [] OTHER -> model

LEMMA ReduceResult ==
    ASSUME NEW s \in Sdks, NEW model, NEW event
    PROVE  Reduce(s, model, event) \in {Refused, Result(s, model, event)}
  <1>1. \A block : /\ GoUpsertBlock(model, block) \in {Refused, PutBlock(model, block)}
                   /\ PyUpsertBlock(model, block) \in {Refused, PutBlock(model, block)}
                   /\ TsUpsertBlock(model, block) \in {Refused, PutBlock(model, block)}
    BY DEF GoUpsertBlock, PyUpsertBlock, TsUpsertBlock
  <1> DEFINE field == event.mask[2]
             id == event.block.id
             value(r) == Appended(r, OldField(model, id, field), event.block.fields[field])
             appended(r) == IF Holding(model.blocks, id) = {} THEN PutBlock(model, event.block)
                                                              ELSE PatchBlock(model, id, <<field>>, value(r))
  <1>2. GoAppendByMask(model, event) \in {Refused, appended("go")}
    BY <1>1 DEF GoAppendByMask, Appended, OldField, Held
  <1>3. PyApplyAppend(model, event) \in {Refused, appended("python")}
    BY DEF PyApplyAppend, Appended, OldField, Held
  <1>4. TsApplyAppend(model, event) \in {Refused, appended("typescript")}
    BY DEF TsApplyAppend, Appended, OldField, Held
  <1>0. \A r : Result(r, model, event) =
              CASE event.op = "start" -> event.model
                [] event.op = "set" -> IF event.mask = <<>> THEN PutBlock(model, event.block)
                                                            ELSE SetByMask(model, event)
                [] event.op = "error" -> SetByMask(model, event)
                [] event.op = "append" -> appended(r)
                [] OTHER -> model
    BY DEF Result
  <1> HIDE DEF appended
  <1>5. GoApply(model, event) \in {Refused, Result("go", model, event)}
    BY <1>0, <1>1, <1>2 DEF GoApply
  <1>6. PyApplyPatch(model, event) \in {Refused, Result("python", model, event)}
    BY <1>0, <1>1, <1>3 DEF PyApplyPatch
  <1>7. TsApplyPatch(model, event) \in {Refused, Result("typescript", model, event)}
    BY <1>0, <1>1, <1>4 DEF TsApplyPatch
  <1> QED BY <1>5, <1>6, <1>7 DEF Reduce, Sdks

LEMMA SetReads ==
    ASSUME NEW a, NEW b, ReadAlike(a, b), Sound(a), Sound(b), NEW event
    PROVE  \/ SetByMask(a, event) = Refused /\ SetByMask(b, event) = Refused
           \/ ReadAlike(SetByMask(a, event), SetByMask(b, event))
  <1> DEFINE path == Tail(event.mask)
             value == ReadPath(IF event.meta # None THEN event.meta ELSE event.block.fields, path)
             id == event.block.id
  <1>1. ReadAlike(PatchMeta(a, path, value), PatchMeta(b, path, value))
    BY ReadPatch
  <1>2. Inline(a, id) <=> Inline(b, id)
    BY ReadPlaces
  <1>3. Inline(a, id) => ReadAlike(PatchBlock(a, id, path, value), PatchBlock(b, id, path, value))
    BY ReadPatch DEF Inline
  <1>4. \A m \in {a, b} : SetByMask(m, event) =
              IF value = None THEN Refused
              ELSE IF event.mask[1] = "meta" THEN PatchMeta(m, path, value)
              ELSE IF event.mask[1] = "block" /\ Inline(m, id) THEN PatchBlock(m, id, path, value) ELSE Refused
    BY DEF SetByMask, Patched
  <1> HIDE DEF path, value, id
  <1> QED BY <1>1, <1>2, <1>3, <1>4

LEMMA OldFieldReads ==
    ASSUME NEW a, NEW b, ReadAlike(a, b), Sound(a), NEW id, Holding(a.blocks, id) # {}, NEW field
    PROVE  Filled(OldField(a, id, field)) = Filled(OldField(b, id, field))
  <1>1. SameRead(Held(a, id).fields, Held(b, id).fields)
    BY ReadPlaces DEF Held
  <1> QED BY <1>1 DEF OldField, SameRead

\* Two reducers that take an event from models that read the same make of them
\* models that read the same.
LEMMA ReduceAgrees ==
    ASSUME NEW s \in Sdks, NEW t \in Sdks, NEW a, NEW b, ReadAlike(a, b), Sound(a), Sound(b), NEW event,
           Reduce(s, a, event) # Refused, Reduce(t, b, event) # Refused
    PROVE  ReadAlike(Reduce(s, a, event), Reduce(t, b, event))
  <1>1. Reduce(s, a, event) = Result(s, a, event) /\ Reduce(t, b, event) = Result(t, b, event)
    BY ReduceResult
  <1>2. ReadAlike(PutBlock(a, event.block), PutBlock(b, event.block))
    BY ReadPut DEF SameRead
  <1>3. CASE event.op = "start"
    BY <1>1, <1>3 DEF Result, ReadAlike, SameRead
  <1>4. CASE event.op = "set" /\ event.mask = <<>>
    BY <1>1, <1>2, <1>4 DEF Result
  <1>5. CASE (event.op = "set" /\ event.mask # <<>>) \/ event.op = "error"
    <2>1. Result(s, a, event) = SetByMask(a, event) /\ Result(t, b, event) = SetByMask(b, event)
      BY <1>5 DEF Result
    <2> QED BY <1>1, <2>1, SetReads
  <1>6. CASE event.op = "append"
    <2> DEFINE id == event.block.id
               field == event.mask[2]
               v == Appended(s, OldField(a, id, field), event.block.fields[field])
               w == Appended(t, OldField(b, id, field), event.block.fields[field])
    <2>1. Holding(a.blocks, id) = Holding(b.blocks, id)
      BY ReadPlaces
    <2>2. CASE Holding(a.blocks, id) = {}
      BY <1>1, <1>2, <1>6, <2>1, <2>2 DEF Result
    <2>3. CASE Holding(a.blocks, id) # {}
      <3>1. Filled(OldField(a, id, field)) = Filled(OldField(b, id, field))
        BY <2>3, OldFieldReads
      <3>2. Filled(v) = Filled(w)
        BY <3>1, AppendedReads
      <3>3. Result(s, a, event) = PatchBlock(a, id, <<field>>, v)
        BY <1>6, <2>3 DEF Result
      <3>4. Result(t, b, event) = PatchBlock(b, id, <<field>>, w)
        BY <1>6, <2>1, <2>3 DEF Result
      <3>5. Len(<<field>>) = 1
        OBVIOUS
      <3> HIDE DEF id, field, v, w
      <3> QED BY <1>1, <2>3, <3>2, <3>3, <3>4, <3>5, ReadPatch
    <2> QED BY <2>2, <2>3
  <1>7. CASE event.op \notin {"start", "set", "error", "append"}
    BY <1>1, <1>7 DEF Result
  <1> QED BY <1>3, <1>4, <1>5, <1>6, <1>7

\* One event leaves those that take it agreeing.
LEMMA DeliverAgrees ==
    ASSUME Agree, AllSound, NEW event, Deliver(event)
    PROVE  Agree'
  <1> SUFFICES ASSUME NEW s \in Sdks, NEW t \in Sdks, stopped'[s] = "no", stopped'[t] = "no"
               PROVE  AsRead(view'[s]) = AsRead(view'[t])
    BY DEF Agree, AsRead, ReadFields, Filled
  <1>1. \A x \in {s, t} : /\ stopped[x] = "no" /\ Reduce(x, view[x], event) # Refused
                          /\ view'[x] = Reduce(x, view[x], event)
    BY DEF Deliver, Refuses
  <1>2. ReadAlike(view[s], view[t])
    BY <1>1, AsReadAlike DEF Agree
  <1>3. Sound(view[s]) /\ Sound(view[t])
    BY DEF AllSound
  <1>4. ReadAlike(Reduce(s, view[s], event), Reduce(t, view[t], event))
    BY <1>1, <1>2, <1>3, ReduceAgrees
  <1> QED BY <1>1, <1>4, AsReadAlike

LEMMA InitAgrees == Init => Agree
  BY DEF Init, Agree

\* Clients of any two SDKs that follow the same stream have, as read, the same
\* model.
THEOREM ReducersAgree == Spec => []Agree
  <1>1. Agree /\ AllSound /\ [Next]_vars => Agree'
    <2>1. Agree /\ UNCHANGED vars => Agree'
      BY DEF Agree, vars
    <2> QED BY <2>1, DeliverAgrees DEF Next
  <1> QED BY <1>1, InitAgrees, SoundStays, PTL DEF Spec

================================================================================

# A verification of AgentUE

AgentUE streams the state of an agent's user interface as an ordered log of
patch events. This directory models the parts of it that have state and
concurrency, checks them with TLC and proves the central facts with TLAPS.
Paths are relative to the repository as it is seen under `src/`.

## 1. The system

| Part | State | Operations | Hard behaviour |
|---|---|---|---|
| Python Runner, execution (`sdks/python/src/agentue/runner/runner.py`) | the coroutine `run()`, then `_execute`; business, heartbeat and pulse tasks; `RunnerContext` (emitter offset, `published_seq`, `snapshot`) | `run`, `_execute`, `_run_business`, `_finalize`, `aclose` | cancellation at any await, a callback that stalls the event loop, a Redis command that raises before or after it was applied |
| Python Runner, live delivery (`_stream_live`) | a cursor and the control events it delivered | read the stream, deliver, ping, hand over unpersisted terminal events | its last read races the end of the execution |
| Python Runner, recovery (`recover_timeouts`, `_recover_task`) | one scanner per instance | scan the heartbeat index, claim, complete, append error and end, mark, release | several instances, a claim that runs out, an owner that is alive after all |
| Python `RedisEventBridge` (`runner/redis_bridge.py`) | per task a state hash, a stream and a claim; one sorted set of heartbeats | several Redis commands per method, not a transaction | a crash or fault between two commands; keys that expire |
| Watchdog (`python_stdx`, outside the repository) | `_loop_stalled` | set when no pulse came for `heartbeat_timeout` | runs in a thread of its own |
| `PatchEmitter` (`emitter.py`, `emitter.ts`) | the offset | number, dump and validate start, set, append, error, ping, end | the application may number patches itself; a refused call has used its number; nulls are dumped or left out |
| Go `RedisEventBridge` and `Replayer` (`sdks/go/runner`) | a hash and a stream per task, changed by Lua scripts; a cursor per delivery | `Initialize`, `Publish`, `MarkTerminal`, `Delete`, `State`, `Read`, `EventsThrough`, `Stream` | retries after a lost reply, a second producer, a resume from any cursor |
| Reducers (`apply.py`, `sdks/go/ui/reducer.go`, `sdks/typescript/src/ui/apply.ts`) | the snapshot the caller passes in | `Apply`, `apply_patch`, `applyPatch`: start, set, append, error | three implementations of one protocol, whose checks stand in different places |
| Validation of events and models (`event.py`, `model.py` and their Go and TypeScript counterparts) | none | parse, validate | references, masks, payloads nested or flat |
| Storage frame (`sdks/go/storage/frame.go`) | none; the host keeps the rows | `Frame`, `Unframe` | a byte budget that covers escapes and digits, characters of several bytes, rows of two revisions |
| SSE codecs (`sse.py`, `sse.ts`) | none | `encode_sse`, `encodeSse`, `decodeSse` | what each language takes for a line break |
| Schema, conformance cases, release scripts | none | | data and tooling |

How they interact in Python: the request iterates `run()`, which writes the
task's hash, publishes `start` and spawns `_execute`; from then on the two
coroutines share only the Redis stream and the future of the execution. Every
instance scans the heartbeat index; the claim key and the status field are all
that keeps two of them, and the owner, apart. `complete` is the application's
durable commit: what matters most is when it is called relative to the events
the consumer sees.

In Go the host program runs the agent and calls the bridge; each of its three
scripts is atomic. A replayer is created per request: it rebuilds the model at
the client's cursor and then alternates `Read` and `State` until it has
delivered an end. Hosts and replayers share only the two keys of the task.

### What makes it correct

- `end` tells consumers that the completion phase has run (`docs/runner.md`).
- What `complete` persists covers every patch consumers may have seen.
- A failed task shows an error before its end.
- A verdict, once stored, stands, and agrees with the log.
- The seq of stored events increases (`spec/protocol.md`).
- At most one instance recovers a task at a time, from however old a list; it
  completes it once, and spares owners that are alive.
- A running task is decided and, not before that, leaves the heartbeat index; its
  delivery ends, and shows one end.
- The Go bridge is an event log: one start, increasing seq, closed once by one
  verdict. An event that was acknowledged is stored exactly once.
- A client, however often it reconnects, holds a prefix of that log, all of it
  when a delivery of a closed task ends; and such a delivery does end.
- Clients of the three SDKs that reduce one log hold the same model, and refuse
  the same events.
- In that model ids are unique and keep their order, references have no body, and
  the model can be sent as the start of a resumed delivery.
- What an application says by calls of an emitter is what every client shows.
- A frame fits its budget, frames restore what was stored or are refused, and an
  event that is sent as SSE arrives.

The list of places where these could go wrong is `hazards` in `PROJECT.json`.

## 2. Modules

| Module | Models | Extends |
|---|---|---|
| `RunnerRedis` | the keys of one task and the effect of each command of the Python bridge | |
| `RunnerProcess` | each instance's process and event loop, the owner's watchdog, the budget of disturbances | `RunnerRedis` |
| `RunnerTask` | the owner's coroutines: `run()`, `_execute`, business, heartbeat, pulse, `_finalize`, cancellation, `_stream_live` | `RunnerProcess` |
| `RunnerRecovery` | the scanner of each instance, its claim, `_recover_task` | `RunnerProcess` |
| `Runner` | the composition with `aclose()`, the next-state relation, fairness, and every property | `RunnerTask`, `RunnerRecovery` |
| `MCRunner` | nothing of its own: the configurations `MCRunner_*.cfg` instantiate it | `Runner` |
| `RunnerProofs` | theorems: types, `end` after `complete`, one recovery | `Runner` |
| `RunnerLogProofs` | theorems: what `complete` gets, what the log holds, the status, the index, what a live consumer is shown | `RunnerProofs` |
| `RecoveryScan` | the scan of several instances over several tasks: the order of the heartbeat index, the list a scan reads once, claims, a task whose recovery always fails; with fairness and properties | |
| `MCRecoveryScan` | nothing of its own: `MCRecoveryScan.cfg` instantiates it | `RecoveryScan` |
| `ScanProofs` | the theorems | `RecoveryScan` |
| `EventLog` | the abstract specification of an `EventBridge`: a log that is created, extended, closed and removed | |
| `GoBridge` | the hash and the stream of a task, and the three Lua scripts: what each answers and what it stores | |
| `GoProducer` | hosts that create, take over, publish and close a task, with a script that runs any time after it was called and an answer that may be lost | `GoBridge` |
| `GoReplayer` | `Replayer.Stream`, one delivery at a time per client, and what the client keeps from one to the next | `GoBridge` |
| `GoDelivery` | the composition, fairness, the refinement mapping to `EventLog` and every property | `GoProducer`, `GoReplayer` |
| `MCGoDelivery` | nothing of its own: the configurations `MCGoDelivery_*.cfg` instantiate it | `GoDelivery` |
| `GoProofs` | theorems: types, hash and stream, the refinement, receipts, refusals, the views of clients | `GoDelivery` |
| `UiEvent` | JSON values, blocks, models, events, and the walks along a mask that the three reducers share | |
| `GoReducer`, `PythonReducer`, `TypeScriptReducer` | validation and reduction in each SDK, in the order of its own checks | `UiEvent` |
| `Reducers` | one stream of events, reduced by a client of each SDK, and every property | the three reducers |
| `Emission` | an application that calls a Python or TypeScript emitter, whose events are that stream, and the model its calls describe | `Reducers` |
| `MCReducers` | nothing of its own: `MCReducers.cfg` instantiates it | `Emission` |
| `ReducersProofs` | theorems: unique ids and agreement, of a stream of any events | `Emission` |
| `EmissionProofs` | theorems: every other property of the reducers and emitters, and those two of an emitter's stream | `ReducersProofs` |
| `Framing` | `Frame` with its binary search, `Unframe`, and a host's rows around them | |
| `Sse` | the encoders of Python and TypeScript and the decoder of TypeScript, as state machines over one event | |
| `Carriage` | the two side by side, since they share nothing but their purpose: a behaviour is about the one or the other | `Framing`, `Sse` |
| `MCCarriage` | the texts and numbers of `MCCarriage*.cfg` | `Carriage` |
| `FramingProofs` | theorems: the budget, the longest cut, the restored text | `Carriage` |
| `SseProofs` | theorem: an event arrives | `FramingProofs` |

### State and code

- `state`, `stream`, `heartbeat`, `claim` are the four Redis keys. The
  heartbeat's score is abstracted to fresh or expired, the initial model to
  whether it is there, an event to its operation, seq and writer.
- `work` is the await at which `run()`, then `_execute`, stands: `init_state`
  and `init_touch` (initialize), `pre_start`, `start_xadd` and `start_hset`
  (`_publish_start`), the same two as `restart_*` (`_publish_start_best_effort`),
  `spawned`, `waiting`, `gathering` (`_execute`), `complete` to
  `mark_heartbeat` (`_finalize`), `stop_beat`, then `done` or, when an exception
  left the coroutine, `dead`. The two coroutines never overlap, so one variable
  follows both.
- `biz`, `beat`, `pulse` are the three tasks `_execute` waits for; `source`,
  `failed`, `handed`, `unsaved` are the outcome `_finalize` builds.
- `scan[r]` is the await of the scanner of `r`, `seen[r]` its emitter's offset.
- `cancel` and `scanCancel` are a `CancelledError` that asyncio will raise at
  the pending await. Where it is caught is what the `Cancel*` actions say.
- `live`, `cursor`, `extra` are the delivery: how many stored events it
  delivered and which unpersisted terminal events it handed over.

In the Go modules:

- `hash` and `events` are the keys `:state` and `:events`. Stream ids only grow,
  so the cursor of `events[i]` is `base + i`, where `base` counts the events of
  the streams that were removed before. `status = "absent"` is a missing key.
- An event is its op, its seq and who encoded it: `publishScript` compares bytes,
  and two hosts encode different ones. A patch stands for set, append and error.
- `role`, `offset`, `call`, `draft`, `answer` and `receipt` are a host and the one
  call it is making. The host is outside of the repository: it follows
  `redis_bridge_test.go` and the README of the Go SDK.
- `phase` is where `Stream` is: `resuming` before `snapshotThrough`, `reading`
  before `Read`, `delivering` from there to `State`. `cursor`, `batch`, `resumed`
  and `lastSeq` are its locals. `view` and `lastId` are the client's: the model,
  as the events it was reduced from, and the last cursor it was sent.
  `timeline` is a ghost, `base` when the delivery was opened.

In the reducers:

- A JSON value is null, a text, a list or an object. Texts and lists are
  sequences, because `append` concatenates; an object is a function from the
  names of its fields. A number or boolean is left out because it meets the same
  fate as an empty object (not appended, not a name, written over by a path) and,
  as `meta.error`, as a text.
- A block is its id and its other fields. A model is its version, meta and blocks;
  `biz` and extension fields are only carried along. The version may be absent
  (`"none"`), and so may the list of blocks (`listed`), since the SDKs do not agree
  about such models. An event's `null` says that a slot it leaves empty is written
  as `null`.
- A mask is the sequence of its parts, of which there are one or two after the
  root: enough to tell a nested payload from a flat one, and a path through an
  object from one through a string.
- The three modules differ where the code does. What is the same in all three, to
  the order of the checks that can be told apart by their result, is in `UiEvent`:
  `ReadPath`, `WritePath`, `Patched`, `PutBlock`, `Concatenated`. Go's append of
  lists is `GoConcatenated`, whose result may be a nil slice, `NilList`.
- A refused event leaves the snapshot as it was, and its client stops, as
  `ApplyAll`, `apply_patches` and `applyPatches` do. `stopped` says which sort of
  event that was, `loose` that a field was patched which the validators of models
  constrain.

In the emitter, storage and transport:

- `offset` is the emitter's, `number` the seq of the last event it made. `intent`
  is a ghost: the model that the calls so far describe, computed from their
  arguments and never from an event. It is `None` after a call whose meaning the
  protocol does not define (an append to a number, a field of a block that does
  not exist), because there the reducers decide.
- A block's text is a sequence of bytes, named by what JSON makes of them: plain,
  a quote (two bytes), markup (six, as `json.Marshal` escapes it), or the bytes
  of a character of three. `lo`, `hi`, `take` and `remaining` are the locals of
  `Frame`; `Digits` says how long a number is.
- A frame's random id is its revision and place, which are unique. `rows` is the
  host's table during its replacement, one row at a time, and `group` what a
  reader got.
- An event is a sequence of the classes of characters that the codecs tell apart.
  A message is taken out of the response by the client, at the blank line.

In `RecoveryScan`:

- `index` is the sorted set of heartbeats, of which the first `expired` are older
  than `heartbeat_timeout`: `Ages` is the clock, and scores are only their order.
- `list[r]` is what is left of the list a scan of `r` read, `at[r]` the next
  command for its first task, which is what the loop of `recover_timeouts` has in
  hand. What `_recover_task` publishes is one step; `RunnerRecovery` takes it
  apart for one task.
- `Broken` tasks are those whose recovery raises each time. `_recover_task`
  validates the stored initial model as a `UIModel` (`runner.py:405`), and
  `initialize` stored its dump without validation: a model that was changed after
  it was constructed, so that two of its blocks have one id, is stored and refused
  by every recovery, and so may be a model of another version of the SDK.
- `Touch` renews the heartbeat of an owner that is alive. The heartbeat task still
  runs during `mark_terminal` (`runner.py:245`), so it may also put a finished task
  back into the index; for a scan that is the state an owner leaves that dies
  between the `HSET` and the `ZREM`, which `OwnerDies` has. The touch itself is an
  action of `RunnerTask`, and `HeartbeatForgotten` is about what follows.

### Grain

An action is what the event loop runs between two awaits, or one Redis command
with what the coroutine does when its reply arrives. Three simplifications:

- An `EXPIRE` belongs to the command it follows. What a failing one does, the
  method raising after its effect, is part of the fault actions.
- A command that is answered is applied before its coroutine goes on, except an
  empty `XREAD`, whose reply is a state of its own (`live = "idle"`), because
  `_stream_live` acts on it. A command that raises or whose coroutine is cancelled
  has been applied or not (`CancelStart`, `CancelEnds`, `Unanswered` and the
  faults).
- A batch of `XREAD` is delivered one event at a time, which is what the
  generator does; the size of the batch changes nothing else.

In Go a script is one step, and so are `State`, `Read` and `EventsThrough`. The
first `State` and the choice between start and resume are one step, because
nothing is read in between. `Delete` removes both keys with one command, and
every script renews the `EXPIRE` of both, so removal is one step as well.

### Disturbances

The timing options are chosen to make some events rare. `Allowed` names the
kinds a run admits and `Budget` their number (a kind in `Grave` takes all of
it); `happened` remembers them, so
that a property can say under which circumstances it holds. The kinds are
crash, stall, late (a callback without a heartbeat outlasts
`heartbeat_timeout`), slow (a recovery outlasts `recovery_claim_ttl`), ttl (the
state hash expires), fault (a command raises, applied or not), renumber (the
`stream` callback numbers an event itself), cancel and close. A restarted
process is simply another instance of `Runners`: it has none of the memory of
the first. In Go a disturbance is a lost answer, a removal of the task or a
reconnection of a client (which is also what an error of `Stream` leads to), and
`Budget` bounds their number.

## 3. Runs

Two instances, `a` (the owner) and `b`; one task. Two are enough for an owner
and a recoverer; `a` recovers its own task too, in the same process, which gives
two competing scanners. `MaxEvents` bounds the events in the snapshot (start
and patches); the log also takes the error and end of the owner and of every
recovery.

| Run | Admits | Checks |
|---|---|---|
| `disturbed` | two of crash, slow, fault, close, cancel, ttl, renumber, or one stall or late callback | `TypeOK`, `EndAfterComplete`, `ErrorBeforeEnd`, `SnapshotCoversStream`, `ClaimExclusive`, `SeqOrder`, `CompleteUnlessCancelled`, `VerdictMatchesLog`, `RunningIsIndexed`, and the action property `VerdictStands` |
| `delivery` | one crash, fault, cancel or ttl; an attached consumer; fairness | `RunningIsDecided`, `HeartbeatForgotten`, `DeliveryEnds`, `LiveShowsOneEnd` |
| `scan` | one crash, fault, late owner or slow recovery; two tasks, one of them broken; owners that end or die; fairness | `OneScannerPerTask`, `RecoveredOnce`, `AliveIsSpared`, `NoneIsLost`, `SilentAreDecided`, `IndexEmpties` |
| `seq` | one stall | violates `SeqStrictlyIncreasing` |
| `end` | nothing | violates `LiveEndsWithEnd` |
| `close` | one crash and one close; fairness | violates `CloseFinishes` |
| `complete` | one close | violates `CompleteOnEveryPath` |
| `go_log` | one lost answer, removal or reconnection; two hosts, one client; fairness | `HashMatchesStream`, `AcknowledgedIsStored`, `SoleProducerIsAccepted`, `ViewIsPrefix`, `EndedIsWhole`, the refinement `ImplementsEventLog`, and `ClosedLogEnds` |
| `go_resume` | one disturbance; fairness | violates `StoredEndEnds` |
| `reducers` | any three events after a start, ill-formed ones among them, or any three calls of an emitter | `TypeOK`, `Agree`, `StopTogether`, `IdsStayUnique`, `ReferencesStayBare`, `SnapshotRestarts`, `Mirrors`, and the action properties `PlacesKept` and `TransitionsNumbered` |
| `carriage` | blocks and events of up to four characters, ten byte budgets | `FramesFit`, `CutsAreLongest`, `RestoredAsStored`, `EventArrivesUnlessCut` |
| `sse` | events of up to three characters, any separator between two others, encoded by Python | violates `EventArrives` |

The types of the Go modules and of `RecoveryScan`, and `EndAfterComplete` with an
attached consumer, are left to their theorems (section 4).

`scan` has two tasks because what one task does to another needs no third: it may
be before or behind it in the index, and in one list with it. One of them is
broken, so a scan meets both orders of a recoverable and an unrecoverable task.
Two instances meet at each claim, one of them mortal. Deadlock is checked: an
index that is empty can still be scanned.

The Go runs let a host reach seq 2 or 3 and read two events at a time, so a
delivery takes several reads and may resume in the middle of a batch. Two hosts
are enough for one to take the task over, or to create it again, while the
other's call is in flight; clients do not influence each other, so there is one.
One disturbance keeps the liveness check within its time. With two of them and
`Spec` in place of `FairSpec` the same invariants and the refinement hold as well
(2,240,846 states).

`carriage` has texts of four characters: enough for one frame, several frames, and
more frames than have one digit, because numbers are written in base two there.
The ten budgets range from one that holds no envelope, over those that hold one
character of some kinds, to one that holds every text. A reader reads at most
three rows, so a group may be complete, short, or have a row twice.

`reducers` has two ids, so that an event hits or misses a block and a model can
hold an id twice; two characters, so that the order of concatenation shows; and
streams of three events after the first start, because the longest way to a
corner is to create a block, patch it and then replace or append to it; calls of
an emitter take the same three steps. The
events are every combination of the kinds of payload and mask that the
validators or the reducers tell apart, with starts whose model has no version or
no blocks and events with a slot that is null among them. The ids are symmetric
(`SYMMETRY`): no definition chooses among them or orders them, and every property
of the run is one of states or of single steps. It has 163,345 states.

In the Runner a budget of two reaches the combinations that matter, a crash of the owner and
a second failure during its recovery; a third only repeats them on another
recovery. `CHECK_DEADLOCK FALSE` is set where a crashed system rightly stops,
and where a closed one does.

### Fairness

`Fairness` in `Runner` is weak fairness of the coroutine of the task, of the
business task, of the pulse and heartbeat tasks once the watchdog has fired,
of the delivery, of every scanner, of `aclose()`, and of the two clocks
(heartbeat and claim). It says that an event loop that is up runs what is ready,
that callbacks and the application's generator end, that Redis answers, and
that time passes. It does not say that a stalled loop resumes, that a crash or
any other disturbance happens, or that a consumer leaves. `b` stays up in the
liveness runs: `docs/runner.md` requires one healthy process.

`FairSpec` in `GoDelivery` is weak fairness of `Stream`'s loop for each client,
and nothing else: its context lives and Redis answers. No host has to publish,
retry or close, and no client has to come back.

`FairSpec` in `RecoveryScan` is weak fairness of each scanner, of the clocks of
heartbeats and claims, of an owner's heartbeat as long as it is not late, of the
`ZREM` after its outcome, and of `task_ttl` for what nobody can recover. An owner
that was late may renew its heartbeat or never do so; no owner has to end, and no
disturbance has to happen. `SilentAreDecided` depends on more than this seems to
say: a broken task makes each scan of an instance abandon the tasks behind it,
after another call of `complete` for it, until a second instance holds its claim
at the right moment or `task_ttl`, a day, is over.

### The six violations

- `seq`: `publish` is an `XADD` and then an `HSET`. An owner that stalls between
  the two for its start event is recovered from `last_seq` 0, so the recovery
  publishes a second start with seq 1, against `spec/protocol.md:172`.
- `end`: `_stream_live` returns when a read was empty and the execution is done.
  If `end` was stored after the read and before the check, the delivery ends
  without it, against `spec/protocol.md:214`.
  What remains true is `LiveShowsOneEnd`: whatever it shows, it shows one end at
  most, last, and the end is there to be read when it returns. Of errors it says less
  than that line of the protocol, for the same reason: an error stored after the empty
  read stays in the log while the consumer is handed an end that could not be stored.
- `close`: a scanner cancelled inside `complete` takes the cancellation for a
  failure of the callback, goes on and scans again; `aclose()` waits for it for
  ever.
- `go_resume`: a client that was cut off after it received the stored end, and
  resumes from its cursor while the task is still running, reads nothing more;
  `Stream` sends pings until somebody calls `MarkTerminal`, against the comment
  on `Replayer` (`sdks/go/runner/replay.go:21`).
- `sse`: `encode_sse` cuts an event with `splitlines()`, which takes U+2028, U+2029
  and U+0085 for line breaks; `to_json` leaves them as they are inside strings.
  In the trace a separator stands between two characters of a string: the message
  has two `data` lines, and the client joins them with a line feed, which a JSON
  string may not hold, against `spec/sse.md:14`. `encodeSse` cuts at line feeds only.
- `complete`: an execute task that `aclose()` cancels before its first step never
  runs, so `complete` is not called, against `docs/runner.md:30`.

### Where the reducers disagree

`StopTogether` holds up to six kinds of events, which `Contested` lists:

- a `start` with a mask: only Go refuses it (`ui/event.go:83`);
- a `group_id` that is neither a string nor null: Python takes it, whose
  `BaseBlock` declares `parent_id` only (`model.py:21`);
- a `meta.error` without string `code` and `message`: as an event only TypeScript
  refuses it (`event.ts:199`), in a model Go alone accepts it (`ui/model.go:52`);
- an `append` of neither a string nor an array, to a block that does not exist: Go
  stores the block (`ui/reducer.go:124`), although `spec/protocol.md` says in
  section 5.3 that "the selected value MUST be a string or array";
- a `start` whose model has no version or no blocks: Python takes it, whose
  `UIModel` defaults both (`model.py:80`, `model.py:83`), Go (`ui/model.go:43`) and
  TypeScript (`model.ts:52`, `model.ts:57`) refuse it;
- a slot of the envelope that is `null` where it need not be there: only TypeScript
  refuses it, because for `event.ts:217` a null is not an absent slot.

`Agree`, `Mirrors` and `TransitionsNumbered` compare models as read (`AsRead`), and
that hides one difference. Where `append` adds an empty list to a field that is
absent or null, Go's `append(nil, added...)` (`ui/reducer.go:118`) leaves a nil
slice. For the reducer it is a list without items, to which later events append as
to any other, but it is encoded as `null`, where Python (`apply.py:81`) and
TypeScript (`apply.ts:58`) store and encode `[]`. So models that are the same as
read may differ by it as JSON, and a client that takes up a Go snapshot from its
JSON may append a string to that field, which the others refuse. `NilList` is that
value in the model, and `Agree` is not true without `AsRead`.

`SnapshotRestarts` has a proviso of its own, `~loose`: a field patch is not
validated as a block, so `set block.type` to null is accepted by all three, and
the resulting model by none.

## 4. Proofs

Every safety property, action property and refinement that a passing run checks
is proved for all values of the constants. The theorems assume only the named
assumptions on the constants, which say what the constants are (a bound is a
natural number, an owner is an instance), that `ReadCount` is positive, and that
there is a character.

Few of the properties are inductive. Each section names the invariant that is
proved instead and what it adds.

### Python Runner

For any set of instances, any owner, any budget, any kinds of disturbance and any
bound on events.

`RunnerProofs`:

- `TypeCorrect`: `Spec => []TypeOK`. `TypeOK` is inductive; one lemma per group
  of actions.
- `EndMeansCompleted`: `Spec => []EndAfterComplete`. That a writer is about to
  store an end says nothing about `complete`. `EndInv` adds that every program
  counter past the callback, in the owner and in each scanner, implies that the
  writer is in `completedBy`, and that what is unsaved is, too. Lemmas `EndQuiet`
  and `EndXadd` reduce a step to whether it stores an event and whether it moves
  a counter past the callback.
- `OneRecovery`: `Spec => []ClaimExclusive`. `ClaimInv` adds that, as long as
  nothing was slow or stalled, the claim is held by the running instance that is
  inside the recovery. `happened` only grows, so a step out of that proviso has
  nothing to keep (`ClaimQuiet`).

`RunnerLogProofs`:

- `CompleteIsCalled`: `Spec => []CompleteUnlessCancelled`. `CompleteInv` adds that
  without a cancellation and without `aclose()` no `CancelledError` is on its way,
  and the pulse task is there when `_execute` begins: an exception that nothing
  catches then comes after `complete`.
- `CompleteCovers`: `Spec => []SnapshotCoversStream`. `SnapshotInv` adds that until
  `complete` is called the snapshot has every patch of the stream (a patch is
  applied before it is published), that the business task runs only while
  `_execute` waits for it or gathers it, and that no patch is stored after that.
- `FailuresAreShown`: `Spec => []ErrorBeforeEnd`. `ErrorInv` adds that the outcome
  is settled before anything terminal is stored, and relates the place of the
  owner and of each scanner to what it has stored: who is about to store the end of
  a failure has stored its error.
- `StatusMatchesLog` and `StatusStands`: `Spec => []VerdictMatchesLog` and the
  action property `VerdictStands`. `VerdictInv` says that, as long as no living
  owner is taken for dead (`Alive`), a heartbeat that expires is that of an owner
  whose coroutines are over, so that whatever a scanner claims, decides and
  publishes comes after all the owner does; and that of a completed task no
  instance is in the recovery. Neither property needs the state hash to last.
- `LogOrdered`: `Spec => []SeqOrder`. `OrderInv` has two phases. While the owner
  lives the offset of its emitter is the greatest seq, and the log is strictly
  ordered (`Orderly`). After its crash the hash may be one event behind the
  stream, so a recovery may reuse one seq and never a smaller one (`Resumable`);
  what a scanner has numbered since is at least what the stream holds
  (`Resumed`). `ShutdownInv` says that only `aclose()` cancels a scanner, so a
  command of the recovery that is cut off is one of an instance that is closing.
- `RunningFound`: `Spec => []RunningIsIndexed`. `IndexInv` adds that whoever is
  about to take the heartbeat away has stored a verdict, or found one: the owner at
  `mark_heartbeat`, a scanner at the `ZREM` of a recovery or of a task that needs
  none. Only `initialize` makes a task running, before there is a heartbeat
  (`Untouched`), so what the scanner read stands; a task whose `initialize` was
  interrupted is the one that has no heartbeat (`Interrupted`).
- `OneEndShown`: `Spec => []LiveShowsOneEnd`. `DeliveryInv` adds that a delivery which
  is open has shown no end, that it does not begin before `run()` is through with
  the start event (`InRequest`), and that once the outcome is settled there is an end,
  stored or unsaved, and of a failure an error (`Shown`, from `ErrorInv`).
  `OpsExtend` says that what was delivered is not changed by later events.

### Go bridge, hosts and clients

For any sets of hosts and clients and any bounds.

`GoProofs`:

- `TypeCorrect`: `Spec => []TypeOK`, inductive together with `Bounded`: no
  delivery and no client is ahead of the stream.
- `HashAgrees`: `Spec => []HashMatchesStream`. `LogInv` adds what the scripts rely
  on from their callers (`SoundCalls`: `Initialize` is sent a start and `Publish`
  is not), and the order of the stream: its first event and no other is a start,
  and seq increases. `StoreLog` is the one lemma about storing an event.
- `BridgeRefinesLog`: `Spec => ImplementsEventLog`. From `LogInv`, `RunEffect` says
  that a call has one of four effects, and each of them is a step of `EventLog`
  under the mapping `log <- events`, `status <- hash.status`, or a stutter.
- `ReceiptsHold`: `Spec => []AcknowledgedIsStored`. `ReceiptInv` says that an
  answer `ok` that is under way names the draft's own place in the stream;
  uniqueness follows from the order of seq in `LogInv`.
- `LoneHostAccepted`: `Spec => []SoleProducerIsAccepted`. `Knows` is what a host
  that has the task to itself knows of it between its calls: before it starts
  there is no task, a running task is never ahead of its offset, and while it
  publishes the hash is behind its draft or holds that very draft, which is what a
  lost answer leaves.
- `ResumedViews` and `EndedDeliveries`: `Spec => []ViewIsPrefix` and
  `Spec => []EndedIsWhole`. `Tracks` says of each client that its view is the
  stream up to its last id (`HasPrefix`), that the batch in hand is what follows
  the cursor (`Follows`; after a removal, only events of the old stream), and that
  a delivery ends with an end or at the end of a closed log (`HasWhole`).

### Reducers and emitters

For any ids, any characters, and streams of any length.

`ReducersProofs`:

- `IdsUnique`: `Spec => []IdsStayUnique`. `AllSound` adds that the blocks are a
  sequence. `PutSound` shows that replacing or adding a block keeps ids unique,
  `PatchSound`, `UpsertSound` and `AppendSound` reduce each operation to it, and
  `ReduceSound` puts the three SDKs together.
- `ReducersAgree`: `Spec => []Agree`. `ReduceAgrees` compares the reducers by
  operation: whatever they check, and in whichever order, what they store if they
  accept an event is the same as read. It needs no assumption about the event, and
  of the models that they are sequences of blocks (`AllSound`). Where Go holds a
  nil slice it shows that walks, appends and block patches of models that read the
  same have results that read the same.

`EmissionProofs`, all of `EmissionSpec`, whose `Feed` sends any events:

- `EmittedIdsUnique` and `EmittedAgree`: `[]IdsStayUnique` and `[]Agree`, from
  `ReduceSound` and `ReduceAgrees`.
- `ReferencesBare`: `[]ReferencesStayBare`. `Bare` is kept by each of the three
  reducers for a reason of its own, because their checks stand in different places.
- `RefusedByAll`: `[]StopTogether`. By operation, the reducers refuse the same
  events but the six kinds in `Contested`. It rests on `Agree`: they look at models
  that read the same.
  What an emitter sends is never one of those that differ in `group_id`
  (`IntentInv`, `Grouped`).
- `SnapshotsRestart`: `[]SnapshotRestarts`. What a reducer stores passes the
  validator of models of its SDK, unless a field was patched (`loose`).
- `EmitterMirrors`: `[]Mirrors`. `MirrorInv` says that the model that the calls
  describe is `Fit` to be sent by either emitter, that nobody has stopped, and
  that each client's model is `Alike`: the same as read and up to nulls, field by
  field. For
  each call there is a lemma that the reducer accepts its event, and that patching
  alike models gives alike models (`SameWrite`, `AlikePatch` and their like).
- `NumbersOrder`: the action property `TransitionsNumbered`. `NumberInv` says that
  no event has a number above the emitter's offset; a call that was refused has
  advanced the offset, and pings and covering starts take none.
- `PlacesStay`: the action property `PlacesKept`, for each operation of each
  reducer.
- `ModelsKeepType`: `[]TypeOK`. `TypedInv` extends it to the model of the calls,
  and `TypedEvent` to the events they make.

### Recovery scan

`ScanProofs`, for any finite set of tasks, any instances, and any budget:

- `TypeCorrect`: `Spec => []TypeOK`. What takes work is the index: `WithoutType`
  says what taking a task out of it leaves, `ExpiredType` that the expired part
  stays a prefix.
- `OneScanner`: `Spec => []OneScannerPerTask`. `Claimed` adds that what a scanner
  has in hand is what it has claimed, as long as nothing was slow.
- `OwnersSpared`: `Spec => []AliveIsSpared`. A list may be old, but an owner that
  was never late and whose task is in it does not come back: `Spared` says that
  neither the expired prefix (`ExpiredLess`) nor any list holds a task whose owner
  is alive, and that an owner which leaves has stored its outcome first.
- `CompletedOnce`: `Spec => []RecoveredOnce`. `Once` adds that a completed task
  that still counts as running is in hand of the scanner about to store its
  outcome; `Claimed` makes that scanner the only one.
- `RunningKept`: `Spec => []NoneIsLost`. `Indexed` adds that an owner which is done and
  a scanner that is about to take a task out of the index have stored or found its
  outcome; `WithoutKeeps` is what that leaves of the index.

### Frames

`FramingProofs`, for any texts, any budgets, and any length of numbers that does
not shrink as they grow:

- `FramesFitBudget`: `Spec => []FramesFit`. `FramingInv` adds that what is not cut
  begins at the start of a character, that the search holds a piece that fits, and
  that frames and remaining bytes together are at most the bytes of the text,
  which is why the digits reserved for `len(block)` suffice.
- `CutsLongest`: `Spec => []CutsAreLongest`. `LongestInv` is the invariant of the
  binary search: no cut below `lo` is longer than `take`, and none above `hi`
  fits. It rests on `WidthGrows` (a longer piece takes no fewer bytes), on
  `AlignedGreatest`, and, for the first `hi`, on `WidthCovers` (a byte takes at
  least one).
- `RestoresText`: `Spec => []RestoredAsStored`. `Joined` says that the frames, put
  together, and the rest are the text; `Kept`, that the rows which exist and those
  which a reader has belong to the frames of a whole revision.
  `CompleteRevision` and `RestoredRevision` are what `Unframe` makes of some of
  these, in any order; the second counts places (`FS_Injection`).

`FlattenSeq` is a recursive function. What the proof needs of it, that it exists
and what it does to a longer sequence (`FlattenAppend`), is shown by the least
number for which it would not hold (`Least`), and that number exists because the
inclusion of finite sets is well-founded.

### SSE

`SseProofs`, for events of any text and any length:

- `EventsArrive`: `Spec => []EventArrivesUnlessCut`. `SseInv` says that the wire is
  empty or holds the rows of the event, and that what was received has the event's
  tokens and its cursor. That takes three facts about the text. The wire, split at
  line feeds, gives back the rows and then the blank line, since no row is empty or
  has a line feed in it (`Reads`). The fields of these rows are the id and the data
  lines (`FieldOfRows`). Put together again, the data lines have the tokens of the
  text (`SameTokens`), whichever breaks the encoder cut at and the decoder joins
  with, if it cut at none that stands in a string.

`Split` and `FlattenSeq` are recursive functions of a sequence, and what they do is
shown by induction over sequences. In place of the library's theorem, which takes
an operator, `Induct` takes a set of sequences that has the empty one and, with a
sequence, each that is longer by one element. The theorem assumes that a cursor is
not a line feed: both encoders refuse an `event_id` with a line break in it
(`sse.py:8`, `sse.ts:13`).

### Model-checked only

The liveness properties, which depend on fairness and so on `ENABLED`:
`RunningIsDecided`, `HeartbeatForgotten`, `DeliveryEnds`, `ClosedLogEnds`,
`SilentAreDecided`, `IndexEmpties`. The prover has no rules for them. What each of
the first kind rests on is proved: a running task can be found (`RunningFound`,
`RunningKept`), one recovery has it at a time (`OneRecovery`, `OneScanner`), and a
delivery that returns has an end to return for (`OneEndShown`, `EndedDeliveries`).

## 5. Not modelled

- Several tasks next to the execution of one: they share the pulse and
  `aclose()`. Their scan is `RecoveryScan`, at its own grain.
- A stalled owner under fairness command by command: `disturbed` has its safety,
  `scan` its liveness, as a late owner.
- The expiry of the stream, which every publish renews, and the replay by a
  client's own cursor in Python, where `run()` takes a cursor only for a new
  task.
- The content of events, models and snapshots in the Runner: a patch is its seq,
  a snapshot the set of seqs it has taken.
- In Go: the tasks besides one (they share nothing), what an event carries, the
  time between pings, a retry of the same bytes by another host, which is accepted
  (`redis_bridge_test.go:92`; an event's `by` makes the bytes of two hosts differ),
  errors of decoding, and a `seq` beyond 2^53, where Lua's
  comparison of doubles would no longer tell neighbours apart.
- In the reducers: the fields no reducer looks at (`ts`, `event_type`,
  `stream_id`, `biz`, `parent_id`, `task_id`, `trace_id`, `stats`), unknown
  keys, empty ids and masks, paths of three and more parts. Events may be refused
  for what these hold by some SDKs only: Go takes a `seq` that is missing or null
  for 0 and any integer for `ts`, and only Python and TypeScript check the types
  of a model's `meta.task_id`, `meta.trace_id` and `meta.stats`. `StopTogether` says nothing
  of that. Values are not
  shared here; Go's `writePath` and `appendByMask` store the event's own value in
  the snapshot (`ui/reducer.go:198`), where a later patch would change both.
- In frames and SSE: the id and the JSON that `Unframe` checks in the restored text,
  invalid UTF-8, the refusal of an `event_id` with a newline, comments and other
  fields of a message. A lone carriage return, which is legal between JSON tokens,
  is a line break to a browser's `EventSource` and not to `decodeSse`; only the
  latter is modelled.
- The components listed as `not_modelled` in `PROJECT.json`.

## 6. Plan

The order followed the weight of the behaviour: the Runner first, then the Go
bridge and replayer, the reducers, the scan, the emitters, and the encodings; then
the proofs. What is left:

1. Lemmas toward the liveness properties that do not need fairness: variants that
   decrease, such as the search of `Frame` or the list of a scan.
2. A heap of objects for the Go reducer, to state what its sharing of values may
   change.

# Verification of notemill-worker

notemill-worker is a container that takes voice messages from a queue, transcribes them and writes
notes. This directory holds TLA+ specifications of it, the TLC configurations that check them on
small instances, and proofs of the main results, checked by TLAPS, for every value of the
constants. Paths such as `mod.rs` are below `src/`; `mod.rs` alone is `src/input/queue/mod.rs`,
`sqlite.rs` is `src/input/queue/backends/sqlite.rs`.

    tlc -workers 2 -config driver_one.cfg MCQueueDriver
    tlc -workers 2 -config sink.cfg MCCouchdbSink
    tlc -workers 2 -config models.cfg MCModelStore
    tlc -workers 2 -config datapath.cfg MCDataPath
    tlapm SpeechProofs.tla

## The system

A producer (a bot, in another repository) puts an audio object in the bucket and enqueues a
`TranscribeJob`. Worker containers ("replicas") run one loop each: pop a job, look its `dedup_key`
up, fetch the audio, decode, segment, transcribe, write the note, record the outcome, enqueue a
`NotifyResult` for the producer, ack the job, delete the audio. Replicas share the SQLite file, the
bucket and the sink and nothing else; within one process a single thread runs the loop, and
one more thread per model pulls models that are missing.

| component | state it keeps | operations | interacts by | what must be right |
|---|---|---|---|---|
| queue backend (`sqlite.rs`, `transport.rs`) | the table of a queue, its dead-letter table | enqueue, pop with promotion, ack, nack_with_delay, dlq_requeue; the clock | SQL transactions shared by processes | the contract of the `Queue` trait: hidden while held, at most `max_receive` deliveries, nothing lost, nothing comes back |
| queue driver (`mod.rs`) | the step under way, `model_load_failures` | step, run_pipeline, finalise_* | awaits on all the stores | order of effects, idempotency, no lost or silent outcome, every row leaves |
| idempotency table (`processed.rs`, `sqlite.rs`) | one row per dedup_key | lookup, record | read and written by all replicas | a record is final, a replay says what the record says |
| notify queue | results for the producer | enqueue (best-effort) | the same SQLite file | the producer hears of a finished job |
| audio bucket (`bucket.rs`, `backends/fs.rs`) | objects | put, get, delete, head | files | audio stays as long as a delivery may need it; put is atomic |
| model registry (`models/registry.rs`) | status of each model | init_models, init_vad_models, pull threads, get | a lock shared with the pull threads | what is called ready is there and whole |
| model store (`models/manager.rs`, `download.rs`, `hash.rs`, `catalog.rs`) | files of the models, `config/models.toml` | pull, pull_vad, resolve, add | disk, network, the `admin models` process | what a crash leaves is not taken for a model; a model in use is not rewritten |
| model guard (`pipeline.rs`) | the loaded pipeline, last use | acquire, try_unload | called by the loop | no damaged model is loaded; memory is freed when idle |
| CouchDB sink (`output/couchdb.rs`, `state.rs`, naming in `commands/run/queue.rs`) | documents, revisions, a cached schema | write_note, doc_exists, ensure_state | HTTP, several replicas and the user's editor | a document never names a missing chunk, notes do not overwrite each other |
| pipeline (`pipeline.rs`, `preprocess/`, `pipeline/join.rs`) | none between jobs | run_one: segment, chunk, transcribe, join, write | called by the driver | no speech lost, none written twice, silence only where it is silent |
| other sinks (`output/file.rs`, `stdout.rs`, `concat.rs`), frontmatter | separator state, the open stream | write | files | notes stay apart, and stay |
| admin commands (`commands/admin`) | none | dlq list, dlq requeue; models list, pull, add | the same SQLite file and models directory from another process | a requeued row is delivered again, once; see the model store |
| decoder, engines, CLI, configuration, file mode | none that lasts | - | - | - |

What is hard: any number of replicas and the administrator interleave at every await; each store
call may fail on its own; a crash, a signal or a restart may come between any two effects;
receipts outlive the delivery they were given for, because a receipt is the row id; a record may
appear between a lookup and its use. The list of these places, line by line, with the properties
that cover them, is the `hazards` list of `PROJECT.json`.

## The modules

    QueueContract        abstract: what the Queue trait promises
      ^ refined by
    SqliteQueue          the two tables and the operations on them
      ^ extended by
    QueueDriver          replicas, stores, producer, administrator, clock, crashes
      v refines
    Finalization         abstract: the order record, notify, ack, delete

    CouchdbSink          names and requests of the notes: what one step, Process, of the driver does

    ModelStore           models directory, downloads, catalog, registry, guard: what Gate and Process rely on

    AudioBucket          abstract: what the Bucket trait promises
      ^ refined by
    FsBucket             the directory behind it, call by call

    Speech               run_one: segments, chunks, texts; what Process does before the sink
    TextSink             the sinks that append to one stream
    RetryDelay           next_visibility_sec, the delay of Settle

    MCQueueDriver, MCCouchdbSink, MCModelStore, MCDataPath    instances for TLC
    InductionLemmas                                           induction over numbers and loops
    SqliteQueueProofs, QueueDriverProofs, SingleReplicaProofs,
    CouchdbSinkProofs, ModelStoreProofs, DataPathProofs,
    SpeechProofs                                              proofs

**SqliteQueue.** A row is an id; `place[i]` says whether it is in the queue table, in the dead-letter
table, or gone. `count` is `receive_count`, `hidden[i]` says that `visible_at` lies in the future.
Each operation is one statement or one IMMEDIATE transaction in the code and one action here. `PopRow`
and `PopNone` are the two ends of `pop_blocking`, with the promotions its loop makes on the way:
the smallest deliverable id is returned and every exhausted visible row before it is moved. Time is
not counted: `Expire(i)` is the moment the clock passes `visible_at` of row i, at any time
after the row was hidden, so every visibility timeout and every backoff delay is covered. A row keeps its
name in the dead-letter table, where the code gives it a fresh id; a row is moved at most once, so
this loses nothing.

**QueueDriver.** `pc[w]` names the await at which the future of `step()` stands; an action is what
happens from one await to the next.

| action | code |
|---|---|
| `Pop` | pop, deserialization, the wire check (mod.rs:200-229) |
| `Lookup`, `ReplayNotify`, `ReplayAck` | the duplicate path (mod.rs:231-242, processed.rs:50) |
| `Gate` | the registry gate and what step does with ModelNotReady and ModelFatal (mod.rs:282-306) |
| `Fetch`, `Process` | run_pipeline (mod.rs:316-340, classify) |
| `Record`, `Notify`, `Settle`, `Delete` | the four finalise_* functions (mod.rs:342-502), which differ in the codes that skip the record (retries) and in those that delete the audio (`Deleting`) |
| `StoreError` | an error of a call made with `?`: run_loop logs it and starts over |
| `Shutdown`, `Crash`, `Restart` | select! in run_loop, a lost process, a new one |
| `PullEnds` | the background pull of the transcription model (registry.rs:131) |
| `Produce`, `Requeue`, `Tick` | the producer, `admin queue dlq --requeue`, the clock |

Calls that the code only logs when they fail (notify, delete) have a second branch
in their action. A failing call has no effect on its store; a call that took effect and
whose answer was lost is the call followed by `Shutdown` or `Crash`, or, for the sink, the output
error of `Process` that leaves a note behind. `Shutdown` is not possible inside the pipeline, which does
not await. A job is a model value with a `dedup_key`, an `audio_key` and three traits: wire-incompatible
(`Ahead`), undeserializable (`Poison`), enqueued without its audio (`Unput`). An outcome is a code and
whether it is terminal. Messages, durations, references and timestamps are left out.

**QueueContract** is written from the comments of the trait in `transport.rs`, and **Finalization**
states the order of effects without queues, retries or processes: a row is settled only after the outcome of its
key is decided and told, and audio is erased only after, besides, a row that carried its job is off the queue
(`gone`: acked or dead-lettered, since the ack of a stale receipt has no effect and is no error). Both are PROPERTYs of the
runs and are proved to be implemented.

**CouchdbSink** opens the step `Process` of the driver. An action is one request: `Head` (doc_exists on a candidate of
collision_free_path), `PutChunk`, `PutMain` (accepted, or 409 and round the loop), `Refresh`. `Take` is a delivery
for which the lookup has found no record, `Finish` the record; `GiveUp` is every way in which a
delivery ends before: an error, a crash, and, since it may follow any request, an answer that was lost. The user's editor
writes and deletes documents in between. Names are maps, `MessageDoc` and `TimeDoc`: the first one-to-one because dedup_keys
are (`tg:chat:message` with other dashes), the second arbitrary, so times may collide, also with the names
by message that note_stem falls back to. CouchDB's rule for `_rev` is `Accepts`. Chunk ids are hashes of the
text: a text stands for its id, so hash collisions are left out. The deployment (`naming`) is chosen at the start. What the
driver assumes of its sink, that "ok" means a note, is `RecordedHasNote` here.

**ModelStore.** The disk is three maps per model: what is under the final name, the `.part` of an archive and its
`.extracting` directory, each absent, partial, good (the bytes that the entry stands for) or bad. `step[p]` is where a pull is: one
per background thread of the worker, one for the `admin models` command. `CreateFile` to `StreamEnds` is the download, which for
a single file writes under the final name; `VerifyRejects` and `VerifyAccepts` the check of the sha256; `Unpack`, `Unpacked`, `Install` the
archive; `AppendTruncates`, `AppendEnds` the rewriting of the catalog. `Fails` is any `?` on the way, `AdminStops` and `WorkerStops` are a
kill between two of these. `Start` is init_models and init_vad_models, `Acquire` the lazy load by the factory, `IdlePoll` try_unload, `Tick` the
clock, whose count stops at the timeout. Assumed, since nothing in the code ensures it: two pulls of one model do not overlap (`Quiet`; a worker may start while the
command pulls, unless it would have to begin a pull of the same model), two
entries do not share a file name, leftovers of an unpacking can be removed. A process is killed, not the machine: writes do not disappear.

What the model shows and no property forbids: an unpinned file whose download was cut is taken for the model
(manager.rs:119), and so is one that the command is still downloading when the worker starts (manager.rs:268), which is then
rewritten under a worker that calls it ready, the one exception of `ReadyUntouched` (`HalfWritten`); an archive that `add` has installed before it was killed cannot be added again, since the rename meets the
directory; a catalog torn by a kill in `append_to_file` keeps every later process from starting; a download has no timeout, so a model
may be pulling for ever; and resolve_vad tells the operator to run `models pull` for a voice activity model (manager.rs:200), which looks
in the section of the transcription models only (manager.rs:90).

**AudioBucket** is written from the comments of bucket.rs: each call takes effect at one instant, put fails on a collision, a failing call
changes nothing. **FsBucket** has the calls of fs.rs one by one: `PutChecks` (try_exists), `PutCreates`, `PutWrites`, `PutRenames`;
`HeadStats`, then `HeadReads`. Clients die between calls. put looks for the key and renames over it later; that
this is still atomic rests on what fs.rs:89 says of the deployment, here a guard of `Request`: puts and deletes of one key do not overlap
and a key is not used again after its object was deleted (keys are ULIDs).

**Speech.** A sample is its position, so a sequence of samples says what was kept, dropped and heard twice. `Segment` is
Pipeline::segment with assemble_segments and classify; `Chunk` is SegmentChunker::chunk (`Split` is split_with_overlap), `Write` is join_texts and the
write. A loop is a recursive function of the number of turns (`Runs`, `Merged`, `Kept`, `Chunked`, `Joined`) and its body an operator (`AddWindow`,
`MergeRun`, `LongEnough`, `AddSegment`, `JoinPart`) that takes the value so far. The voice model's
probabilities are any, the transcriber hears one word in each sample: all different, to see what is lost or repeated, or all
alike, to see what the join takes for an overlap. `Fails` is any error on the way.

**TextSink.** `Begin` is what the sink decides before it opens the file, `Open`, `WritePrefix` and `WriteText` are its calls,
`Breaks` is one of them failing, with or without a part of its bytes written, or the process dying in it. `Launch` is a new process on what the
last one left. The metadata call on the first write may fail, and the file then counts as empty (file.rs:50-52); the history variable `unseen`
marks the notes that follow bytes the sink did not see. **RetryDelay** is one function and the receive counts of one job, for a base, a cap and a word size of which `DelayAssumption`
says what the code's constants satisfy: the base is more than one second, the cap no less and within the word.

## What the runs check

| run | instance | question |
|---|---|---|
| `driver_one` | 1 replica; jobs: two submissions of one message, a wire-incompatible one, a poison payload, one without audio; 2 rows, max_receive 2; errors decode, output, other | all safety properties, among them those that hold for a single replica only (`NoRerun`, `ProducerAgrees`, `NoSpuriousMissing`, `OutcomeStable`) |
| `driver_two` | 2 replicas; two submissions of one message; 2 rows, max_receive 2 | the properties that hold for any number of replicas, with stale receipts and races |
| `driver_live` | 1 replica under fairness; a job and a poison payload | every row leaves the queue |
| `sink` | a single replica with either naming, or two that name notes by message; two messages of one second, two deliveries each, one edit, an empty vault or one with the user's documents under the names | chunks, names, overwriting |
| `models` | one worker, the command, four models: a file without a sha256, an archive, a file that may be added, the voice activity model; a timeout of two ticks | what is on disk, in the registry and in memory, through kills and failures |
| `datapath` | bucket: two keys, two bodies, two clients; stream: four writes; speech: recordings of up to four windows, 90 settings; delay: 40 receives | the contract of the bucket, the notes of a stream, the speech of a recording, the retry delay: four parts without common state, so one instance runs each in turn (`part`) |
| `says_*` | the smallest instance that decides | six statements of documents and comments that the code does not keep |

The properties:

- `NoJobLost`, `NoSilentAck`: a row that was acked has a record, and its result was enqueued
  unless the enqueue failed and was logged.
- `AudioKept`: audio that was put is there until the outcome of its key is recorded.
- `OkHasNote`: no record and no notification says "ok" without a note.
- `KeepsOrder`: the driver implements `Finalization`: record, notify, ack, delete, and in particular no delete while the row is still in
  the queue, as a driver would do that only logs a failed ack. `KeepsContract`: the queue implements `QueueContract`.
- `NoRerun`, `ProducerAgrees`, `NoSpuriousMissing`, `OutcomeStable` (one replica): a recorded job is
  not transcribed again, what was told is what is recorded, audio does not disappear under a
  delivery, a record is final. Keys that also have a wire-incompatible job are exempt from two of them, since the
  wire check precedes the lookup and overwrites the record. A notification that could not be enqueued and was logged counts as told.
- `RowSettles`: every row is acked or dead-lettered.

- `NoDanglingChunk`: a document names a chunk that exists. `NoteKept`: a note is replaced only by its own message's or
  by the user. `RecordedHasNote`: a message recorded as "ok" has its note unless the user touched it. `NoLateWrite` (one
  replica): nothing is written once the outcome is recorded.

- `ReadyIntact`, `LoadedIntact`: a pinned model that is ready, or loaded, holds the pinned bytes. `WholeDirectories`: a directory under
  its final name is complete. `AddedInstalled`: an entry that was added has its model. `ReadyUntouched`: no step rewrites a
  ready model, except the download of a file without sha256 that was under way when the worker started. `IdleFreed`: an idle worker unloads.
- `KeepsBucketContract`: the directory implements `AudioBucket`, so no get or head sees a part of an object.
- `SegmentsAreSpeech`: the segments are, one by one and in order, the padded groups of speech as a quantified definition has them (`Groups`: no
  pause inside, a pause around). The thresholds are those of the code, in whole windows rounded down. The comment of the function
  says milliseconds, and both halves fail: a silence of 192 ms separates two segments when min_silence_ms is 200, and a
  run of 192 ms is kept when min_speech_ms is 200 (`ThresholdsInMs`; the comment of a test says ceil(200/32) = 6, but the ceiling is 7).
- `ChunksAreSegments`: chunks fit, overlap by what their flag says, and hold the segments' samples once, in order. `SpeechIsHeard`: what counts
  as speech reaches the text, and only a recording without a loud window is silent. `WordsOnce`: no word is written twice, when the overlap is at
  most MAX_WORDS words and paddings do not meet. `JoinLosesLittle`: at most MAX_WORDS words are lost at a flagged boundary, none elsewhere.
  A limit of zero samples is in the instance but outside `SpeechIsHeard` and `ChunksAreSegments`: nothing is heard then (chunker.rs:112 asserts the
  limit in debug builds, the configuration does not refuse it).
- `Separated`: notes of one stream never touch, except the first note of a process that could not read the metadata of its file.
  `WrittenStays`: notes stay, for the life of the process if it overwrites. `DelayDoubles`: the delay is the exact doubling up to the cap.

Disagreements between documents or comments and the code, each with a run that exhibits it:

- a model that failed three times does not stop the worker, since run_loop only logs the error (`FatalStops`);
- a signal drops the job at its next await (`ShutdownFinishesJob`);
- a producer-ahead job is acked and not dead-lettered (`AheadGoesToDlq`);
- two replicas can turn a recorded "ok" into "audio_missing" (`NoSpuriousMissing` with two replicas);
- two replicas that name notes by time can overwrite each other's notes (`NoteKept` in `says_collision_safe`);
- silences shorter than min_silence_ms separate segments, and runs shorter than min_speech_ms are kept (`ThresholdsInMs`).

Three more are in the models as the code has them, without a run:

- ARCHITECTURE.md:83 says that the producer hears nothing of a failure that is still retried; `Notify` comes before `Settle` whatever
  the outcome (mod.rs:432);
- ARCHITECTURE.md:99 says that the ack is best-effort and the delete runs when it has failed; a failed ack ends the step (`StoreError`,
  mod.rs:370), the replay does not delete either, and the audio stays. A driver that did what the text says would break
  `KeepsOrder`: its mutant `StoreErrorGoesOn` does;
- concat.rs:23-25 wants the first write to a file with content separated from it; a failing metadata call prevents that
  (file.rs:50-52), the exception in `Separated`.

### Bounds

`MaxId` = 2 rows: enough for a duplicate next to its original, and for a row with its requeued copy; every
property speaks of a row, or of the rows of one key. `MaxReceive` = 2: a first delivery, a redelivery,
and then the promotion, which is the boundary; `says_fatal_stops` needs 4 for the fourth pop.
`Worker` = 2: the races are between two holders of one row. `driver_two` has no pipeline errors and
no other jobs, which keeps it small; they are in `driver_one`, and the proofs cover their
combination. `model_load_failures` saturates at 3, the only value compared.
`sink` needs two messages for a collision, two deliveries of each for a retry that meets its own note, two suffixes, and
one edit: with the user's document under the name and the other replica's note it makes the third conflict, where put_main gives
up. It may stop when all deliveries are used up, so deadlock is not checked there.
Submissions of one message are symmetric, and so are the replicas.
Deadlock is checked for the driver: the bounded instances never stop, because a worker may always crash and restart.

`models`: a tick below, at and beyond the timeout; one model of each kind, since models meet only in the factory, which wants two.
It may stop: with a torn catalog no process starts. `datapath`: two clients for every race on a key; four writes for a first, a second and a failed one, and
one after a restart. Speech is scaled: windows of two samples of 2 ms, so that milliseconds fall between windows, four windows (speech, a pause of two, speech;
a short last window), pads of nothing, half a window and a window, MAX_WORDS = 2 with overlaps below, at and above it. The retry delay
is computed in 16 bits instead of 32 with the same base and cap: the product saturates well before the 40th receive. It may stop
when a recording is done, so deadlock is not checked.

### Fairness

`driver_live` assumes that a step under way goes on (`WF(Continue)`: SQLite calls return within the busy
timeout, HTTP calls have a global timeout), that a stopped container is restarted (`WF(Restart)`), that
the clock advances (`WF(Tick)`), and strong fairness of `Pop`: a worker that comes back again and again
pops in one of its lives. That does assume that pop itself succeeds now and then: a database from which nothing can ever be read
settles no row. No other store call is assumed to succeed, no crash to stay away, no
model to become ready, and nothing is assumed of the producer or of the administrator.

`models` assumes that time passes (`WF(Tick)`) and that the loop turns without a message while nothing is acquired
(`WF(IdlePoll)`): try_unload is called when a pop finds the queue empty. No download has to end and no job to come.

## What is proved

For every number of replicas, jobs, keys, audio objects and rows and every `max_receive`, from the
assumptions `QueueAssumption` (`MaxId`, `MaxReceive` natural numbers, `NoJob` not a job) and
`DriverAssumption` (the types of the maps, and that jobs which share their audio share their dedup_key):

- `QueueTypeCorrect`, `QueueKeepsContract` (SqliteQueueProofs): the tables implement the contract of the
  `Queue` trait whatever consumers do with the receipts they hold. The invariant is `QTypeOK /\ Allocated`: ids
  are handed out in order, and a row that is not allocated has never been received. The refinement step
  is one case per operation; `StateOf` gives the abstract state of a row in each table.
- `TypeCorrect`, `JobsNotLost`, `AcksNotSilent`, `AudioNotLost`, `OkNotInvented` (QueueDriverProofs), from the
  inductive invariant `IInv`. The safety properties alone are not inductive: a step that acks a row is safe only because
  the replica has recorded and told before. `Phase` says what each replica knows at each await (after the record the
  outcome is in the table, after the notification the key is told, ...) and `HoldsRow` that it holds the
  id of a row which it received and whose payload never changes. They survive the other replicas because
  records, notifications and notes are never withdrawn (`Stable`) and receipts keep their payload (`ReceiptStable`).
- `DriverKeepsContract`: every step of the whole system is a step of `QSpec`, so the contract holds there too.
- `DriverKeepsOrder` (QueueDriverProofs): `Spec => KeepsOrder`; every step is a step of `Finalization` or
  leaves its variables alone. For the delete `Phase` also says that the row a replica has acked is off the queue, and
  `OffStays` that it stays so: a requeue gives it a new row.

- `JobsNotRerun`, `ProducerToldTheRecord`, `AudioNotMissed`, `OutcomesStable` (SingleReplicaProofs): the four
  properties of one replica, from the further assumption `Alone` that there are not two. They need, on top of `IInv`,
  that the record of the key which a replica holds has not appeared since its lookup (`Fresh`), which only a second
  replica can make false; that audio which was put and is missing implies a record (`AudioKept`) is what makes a fetch that
  finds nothing honest (`Missing`). `Alone` is needed: `says_replicas_agree` shows what two replicas do.

- `SinkTypeCorrect`, `ChunksThere` (CouchdbSinkProofs) for every deployment, from `SinkAssumption`; `NotesKept`, `NotesThere` and
  `NothingLate` for the deployments in `Documented` (one replica, or none that names by time). The invariant says what a replica
  that has chosen a name may rely on (`Owns`): no note of another message appears there. With one replica this is so
  because nobody else writes notes, with names by message because names are one-to-one; `says_collision_safe` is
  the remaining case, and it fails there.

- `StoreTypeCorrect`, `ReadyModelsIntact`, `LoadedModelsIntact`, `DirectoriesWhole`, `AddedModelsInstalled`, `ReadyModelsUntouched` (ModelStoreProofs), for any models,
  archives and pins, from `ModelAssumption` and `TimeoutAssumption`. The properties are not inductive: that what is installed is good follows
  from what each step has done before, so the invariant says for each step of a pull what is in the `.part`, in
  the `.extracting` directory and under the final name, and that no pull which writes runs on a model that is ready, unless it is the command's download of a file without sha256.
- `BucketTypeCorrect`, `DirectoryImplementsBucket` (DataPathProofs), for any keys, bodies and clients, from `BucketAssumption`: the rename of put
  and the second read of head are the instants at which the calls take effect; between try_exists and the rename the key stays free,
  because changes of one key do not overlap; between the two reads of head an object can only disappear.
- `StreamTypeCorrect`, `NotesSeparated`, `NotesStay` (DataPathProofs), for any number of writes, from `NotesAssumption`: before the text of a
  note the stream is empty or ends in a separator, or the note is one of `unseen`, and a truncating open comes before any note of the process.

- `DelayNeverWraps` (DataPathProofs), for any base, cap, word size and number of receives, from `DelayAssumption`: as long as a product does not
  saturate it is exact, and once it does, both it and the exact doubling are beyond the cap (`CapHidesSaturation`); the bound on the shift is far
  enough out that the cap is reached before it (`ShiftEnough`).
- `SpeechTypeCorrect`, `SegmentsFound`, `ChunksFound`, `SpeechHeard`, `WordsWrittenOnce`, `JoinLosesAtMost` (SpeechProofs), for any
  recording, probabilities, thresholds, paddings, limits and overlaps, from `SpeechAssumption`.

The state of Speech is simple, and so is its inductive invariant `SpeechInv`: after each stage the segments, chunks and texts are the functions of the
recording and the setting that the stages compute (`Segs`, `Chks`, `FirstParts`). What these functions are is the work, a loop invariant for each loop:

| loop | what holds after each turn |
|---|---|
| runs of windows | `RunsUpTo`: the runs so far are apart and hold the windows of speech seen so far, no other |
| merging | `MergedUpTo`: no pause inside a group, a pause between two, every window of speech of the runs seen is in one; `GroupsFound` then shows that a list with these properties is the set `Groups` |
| dropping | `KeptUpTo`: exactly the groups that are long enough, still a pause apart |
| splitting, gathering | `Gathers`: what each finished chunk adds to the one before (`Adds`), followed by what is being gathered, is the samples of the segments so far; `Linked` says of the finished ones that they fit, and that one which follows a flagged one starts with its end and then *goes on*: the last sample of the one before does not come again |
| joining | `JoinedLoses` counts what was dropped against the flagged boundaries; in `JoinedExact` the text so far is the concatenation of `Adds` and ends with the last chunk's words |

`JoinedExact` is the point of dedup_overlap: the join does not know the overlap, it takes the longest repetition. When words do not repeat, the shared samples
are one, and by *goes on* there is no longer one, so what the join drops is what the chunker repeated (`RepeatedShared`). `WordsOnce` further needs that the segments
are in order, which is why `KeptUpTo` keeps the pause between them: paddings of at most half a pause cannot meet (`SegmentsInOrder`). With a limit of zero
samples the chunks are empty and so is the text (`ChunkedNothing`).

**Induction.** The induction theorems of the library take a predicate and cannot be instantiated, so InductionLemmas states them for sets: a set that holds zero and
with each number its successor holds all of them, by a least counterexample (`WFMin`). `Recursion` then makes a function from the steps of a loop: such a
function exists and is the only one (`CourseUnique`), so the CHOOSE behind a recursive definition has a value and it satisfies its equation.
Every loop above enters the proofs by a lemma of this form (`RunsCourse`, `MergedCourse`, `JoinedCourse`, `FlattenCourse`, ...).

Only model-checked: `RowSettles` and `IdleFreed`, since liveness under fairness is out of the prover's reach.

## What is left

The schema probe (`ensure_state`, `classify`) against a vault that changes while it is probed; a timed model of the polling cadence that relates the length
of a pull to `max_receive`; two pulls of one model on a shared volume, which today is an assumption of ModelStore.

## Not modelled, and why

The schema probe of the CouchDB sink and its cache (`ensure_state`, `state.rs`) read documents once, before the loop, to choose an
encoding. `models list` and `dlq --list` only read. A model given as a path is neither pulled nor verified. Decoding, the inference engines and the network are external; their errors are inputs. Parsing and
precedence of the configuration, the command line and the frontmatter text keep no state
that outlives a call; the one-shot file mode is resolve, pull_vad and run_one in a row, each of which is modelled. How long a pull may take
before the deliveries it holds up reach `max_receive` is a matter of seconds, which no module counts. The JSON shapes of the wire format are data the properties do not tell apart. Garbage collection
of audio that stays in the bucket after an error does not exist in the code. `Queue::nack` has no caller.

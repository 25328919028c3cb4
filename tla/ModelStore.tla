------------------------------ MODULE ModelStore ------------------------------
(***************************************************************************)
(* The directory of models, the processes that download into it, and the   *)
(* worker that loads from it (src/src/models, ModelGuard in pipeline.rs,   *)
(* the pipeline factory of commands/run/queue.rs).                         *)
(*                                                                         *)
(* One worker and one `admin models` process share the directory.  Every   *)
(* step of a download is an action of its own: either process may be       *)
(* killed between any two, every call may fail, and the server may send    *)
(* other bytes than the catalog pins.  What a process killed half-way      *)
(* leaves on disk is what the next one finds.                              *)
(*                                                                         *)
(* Assumed, because nothing in the code ensures it: two pulls of one model *)
(* do not overlap (no pull begins on a model that is not Quiet), two       *)
(* entries do not share a file name, and removing a leftover `.extracting` *)
(* directory succeeds.  A worker may start while the command downloads the *)
(* model it wants, and may find it on disk already.  A model given as a    *)
(* direct path is not pulled and not modelled.                             *)
(***************************************************************************)
EXTENDS Naturals

CONSTANTS
  Model,       \* the names a catalog may hold
  Archive,     \* those whose entry says is_directory: a tar.gz to unpack
  Embedded,    \* those of the catalog compiled into the program
  Pinned,      \* those whose entry has a sha256
  Vad,         \* the voice activity model, the only entry of section vad
  Admin,       \* the `admin models` process
  IdleTimeout  \* unload_after_ms, in ticks

ASSUME ModelAssumption ==
  /\ Archive \subseteq Model /\ Embedded \subseteq Model /\ Pinned \subseteq Model
  /\ Vad \in Embedded \ Archive
  /\ Model \ Embedded \subseteq Pinned  \* add pins what it downloaded
  /\ Admin \notin Model

ASSUME TimeoutAssumption == IdleTimeout \in Nat

\* A background pull is named by its model.
Puller == Model \union {Admin}
Content == {"absent", "partial", "good", "bad"}  \* good: the bytes the entry stands for
Status == {"unknown", "pulling", "ready", "failed"}
Step == {"idle", "look", "fetch", "write", "verify", "unpack", "unpacking",
         "install", "append", "appending", "resolve"}
Never == IdleTimeout + 1  \* last_used: None

VARIABLES
  installed,  \* per model, the file or directory under its final name
  part,       \* per model, <filename>.tar.gz.part
  extracting, \* per model, the directory <filename>.extracting
  catalog,    \* the names of the embedded catalog merged with config/models.toml
  torn,       \* config/models.toml exists and does not parse
  step,       \* where each puller is
  order,      \* what the admin process was asked: an operation on a model
  up,         \* the worker runs
  wanted,     \* the models of its configuration: one to transcribe, perhaps Vad
  status,     \* its registry
  pipeline,   \* what it has loaded: for each model, the bytes; "absent" if none
  age,        \* the time since last_used, capped at IdleTimeout
  busy        \* it transcribes a job

disk == <<installed, part, extracting>>
books == <<catalog, torn>>
guard == <<pipeline, age, busy>>
vars == <<disk, books, step, order, up, wanted, status, guard>>

Adding(p) == p = Admin /\ order.op = "add"
ModelOf(p) == IF p = Admin THEN order.model ELSE p
Thread(m) == step[m] # "idle"
Quiet(m) == ~Thread(m) /\ ~(step[Admin] # "idle" /\ order.model = m)

NothingLoaded == [m \in Model |-> "absent"]
Loaded == \E m \in Model : pipeline[m] # "absent"

Init ==
  /\ installed = NothingLoaded /\ part = NothingLoaded /\ extracting = NothingLoaded
  /\ catalog = Embedded /\ torn = FALSE
  /\ step = [p \in Puller |-> "idle"]
  /\ order = [op |-> "pull", model |-> Vad]
  /\ up = FALSE /\ wanted = {} /\ status = [m \in Model |-> "unknown"]
  /\ pipeline = NothingLoaded /\ age = Never /\ busy = FALSE

-----------------------------------------------------------------------------
(* Steps of a pull.  Failed ends one with an error, wherever it is.         *)

Mismatch(m, content) == m \in Pinned /\ content # "good"  \* verify_sha256
Goto(p, s) == step' = [step EXCEPT ![p] = s]
Set(name, m, content) == name' = [name EXCEPT ![m] = content]

\* The thread of the worker goes on to resolve the model; the command ends.
PullOk(p) == Goto(p, IF p = Admin THEN "idle" ELSE "resolve") /\ UNCHANGED status

PullErr(p) ==
  /\ Goto(p, "idle")
  /\ IF p = Admin THEN UNCHANGED status ELSE Set(status, p, "failed")

\* Mutant of Order: add does not ask whether the name is taken.
OrderUnasked(op, m) ==
  /\ step[Admin] = "idle" /\ ~torn /\ m # Vad /\ Quiet(m)
  /\ op = "pull" => m \in catalog
  /\ order' = [op |-> op, model |-> m]
  /\ Goto(Admin, IF op = "add" THEN "fetch" ELSE "look")
  /\ UNCHANGED <<disk, books, up, wanted, status, guard>>

\* `models pull` and `models add` of a transcription model: an unknown name, or
\* one that is taken, is an error.
Order(op, m) ==
  /\ step[Admin] = "idle" /\ ~torn /\ m # Vad /\ Quiet(m)
  /\ IF op = "add" THEN m \notin catalog ELSE m \in catalog
  /\ order' = [op |-> op, model |-> m]
  /\ Goto(Admin, IF op = "add" THEN "fetch" ELSE "look")
  /\ UNCHANGED <<disk, books, up, wanted, status, guard>>

\* Mutant of Present: what is there counts, whatever its sha256.
PresentUnverified(m) == installed[m] # "absent"

Present(m) ==
  /\ installed[m] # "absent"
  /\ m \in Archive \/ ~Mismatch(m, installed[m])

\* Mutant of LookBeforeLeap: a pull downloads what is already there.
LookNever(p) ==
  /\ step[p] = "look"
  /\ Goto(p, "fetch")
  /\ UNCHANGED <<disk, books, order, up, wanted, status, guard>>

\* What is there is kept; else what was left of an earlier unpacking is removed.
LookBeforeLeap(p) ==
  LET m == ModelOf(p) IN
  /\ step[p] = "look"
  /\ IF Present(m)
     THEN PullOk(p) /\ UNCHANGED extracting
     ELSE /\ Goto(p, "fetch") /\ UNCHANGED status
          /\ IF m \in Archive THEN Set(extracting, m, "absent") ELSE UNCHANGED extracting
  /\ UNCHANGED <<installed, part, books, order, up, wanted, guard>>

\* A file is downloaded under its final name, an archive beside it.
Download(m, content) ==
  IF m \in Archive THEN Set(part, m, content) /\ UNCHANGED installed
                   ELSE Set(installed, m, content) /\ UNCHANGED part

CreateFile(p) ==
  /\ step[p] = "fetch"
  /\ Download(ModelOf(p), "partial")
  /\ Goto(p, "write")
  /\ UNCHANGED <<extracting, books, order, up, wanted, status, guard>>

\* The bytes that add receives are those that its entry will pin.
StreamEnds(p) ==
  /\ step[p] = "write"
  /\ \E content \in IF Adding(p) THEN {"good"} ELSE {"good", "bad"} :
       Download(ModelOf(p), content)
  /\ Goto(p, "verify")
  /\ UNCHANGED <<extracting, books, order, up, wanted, status, guard>>

Downloaded(m) == IF m \in Archive THEN part[m] ELSE installed[m]

VerifyRejects(p) ==
  LET m == ModelOf(p) IN
  /\ step[p] = "verify"
  /\ ~Adding(p) /\ Mismatch(m, Downloaded(m))
  /\ Download(m, "absent")
  /\ PullErr(p)
  /\ UNCHANGED <<extracting, books, order, up, wanted, guard>>

VerifyAccepts(p) ==
  LET m == ModelOf(p) IN
  /\ step[p] = "verify"
  /\ Adding(p) \/ ~Mismatch(m, Downloaded(m))
  /\ IF Adding(p) /\ m \in Archive
     THEN Set(extracting, m, "absent") ELSE UNCHANGED extracting
  /\ IF m \in Archive THEN Goto(p, "unpack") /\ UNCHANGED status
     ELSE IF Adding(p) THEN Goto(p, "append") /\ UNCHANGED status ELSE PullOk(p)
  /\ UNCHANGED <<installed, part, books, order, up, wanted, guard>>

\* Mutant of Unpack: the archive is unpacked under the final name.
UnpackInPlace(p) ==
  /\ step[p] = "unpack"
  /\ Set(installed, ModelOf(p), "partial")
  /\ Goto(p, "unpacking")
  /\ UNCHANGED <<part, extracting, books, order, up, wanted, status, guard>>

Unpack(p) ==
  /\ step[p] = "unpack"
  /\ Set(extracting, ModelOf(p), "partial")
  /\ Goto(p, "unpacking")
  /\ UNCHANGED <<installed, part, books, order, up, wanted, status, guard>>

\* The last file is written and a single root directory is flattened.
Unpacked(p) ==
  LET m == ModelOf(p) IN
  /\ step[p] = "unpacking"
  /\ Set(extracting, m, part[m])
  /\ Goto(p, "install")
  /\ UNCHANGED <<installed, part, books, order, up, wanted, status, guard>>

\* A rename cannot replace a directory that is not empty (then see Fails).
Install(p) ==
  LET m == ModelOf(p) IN
  /\ step[p] = "install"
  /\ installed[m] = "absent"
  /\ Set(installed, m, extracting[m])
  /\ Set(extracting, m, "absent")
  /\ \E left \in {"absent", part[m]} : Set(part, m, left)
  /\ IF Adding(p) THEN Goto(p, "append") /\ UNCHANGED status ELSE PullOk(p)
  /\ UNCHANGED <<books, order, up, wanted, guard>>

\* std::fs::write truncates the catalog before it writes the new one.
AppendTruncates ==
  /\ step[Admin] = "append"
  /\ torn' = TRUE
  /\ Goto(Admin, "appending")
  /\ UNCHANGED <<disk, catalog, order, up, wanted, status, guard>>

AppendEnds ==
  /\ step[Admin] = "appending"
  /\ torn' = FALSE
  /\ catalog' = catalog \union {order.model}
  /\ Goto(Admin, "idle")
  /\ UNCHANGED <<disk, order, up, wanted, status, guard>>

\* Any call of a pull may fail: what is on disk stays.
Fails(p) ==
  /\ step[p] # "idle"
  /\ PullErr(p)
  /\ UNCHANGED <<disk, books, order, up, wanted, guard>>

AdminStops ==
  /\ step[Admin] # "idle"
  /\ Goto(Admin, "idle")
  /\ UNCHANGED <<disk, books, order, up, wanted, status, guard>>

-----------------------------------------------------------------------------
(* The worker: its registry, the lazy load and the idle unload.             *)

\* resolve and resolve_vad, for a name of the catalog.
Resolves(m) == m \in catalog /\ Present(m)

Registered(m) ==
  IF Resolves(m) THEN "ready" ELSE IF m \in catalog THEN "pulling" ELSE "failed"

\* init_models and init_vad_models, whatever the command is doing; the configuration
\* may name another model at every start.
Start ==
  /\ ~up /\ ~torn
  /\ \E m \in Model \ {Vad}, vad \in {{}, {Vad}} :
       LET models == {m} \union vad IN
       /\ \A w \in models : Registered(w) = "pulling" => Quiet(w)
       /\ wanted' = models
       /\ status' = [w \in Model |-> IF w \in models THEN Registered(w) ELSE "unknown"]
       /\ step' = [p \in Puller |-> IF p \in models /\ status'[p] = "pulling"
                                    THEN "look" ELSE step[p]]
  /\ up' = TRUE
  /\ UNCHANGED <<disk, books, order, guard>>

\* The end of pull_background.
ResolvePulled(m) ==
  /\ step[m] = "resolve"
  /\ Set(status, m, IF Resolves(m) THEN "ready" ELSE "failed")
  /\ Goto(m, "idle")
  /\ UNCHANGED <<disk, books, order, up, wanted, guard>>

\* A signal or a crash: the threads die with the process.
WorkerStops ==
  /\ up
  /\ up' = FALSE /\ wanted' = {}
  /\ status' = [m \in Model |-> "unknown"]
  /\ step' = [p \in Puller |-> IF p = Admin THEN step[p] ELSE "idle"]
  /\ pipeline' = NothingLoaded /\ age' = Never /\ busy' = FALSE
  /\ UNCHANGED <<disk, books, order>>

\* Mutant of Acquire: last_used is not set.
AcquireUntimed ==
  /\ up /\ ~busy
  /\ \/ Loaded /\ UNCHANGED pipeline
     \/ /\ ~Loaded /\ \A m \in wanted : status[m] = "ready"
        /\ pipeline' = [m \in Model |-> IF m \in wanted THEN installed[m] ELSE "absent"]
  /\ busy' = TRUE
  /\ UNCHANGED <<disk, books, step, order, up, wanted, status, age>>

\* Mutant of Acquire: the factory asks for the transcription model alone.
AcquireSkipsVad ==
  /\ up /\ ~busy
  /\ \/ Loaded /\ UNCHANGED pipeline
     \/ /\ ~Loaded /\ \A m \in wanted \ {Vad} : status[m] = "ready"
        /\ pipeline' = [m \in Model |-> IF m \in wanted THEN installed[m] ELSE "absent"]
  /\ age' = 0 /\ busy' = TRUE
  /\ UNCHANGED <<disk, books, step, order, up, wanted, status>>

\* acquire: the factory reads the models again from disk and verifies nothing.
Acquire ==
  /\ up /\ ~busy
  /\ \/ Loaded /\ UNCHANGED pipeline
     \/ /\ ~Loaded /\ \A m \in wanted : status[m] = "ready"
        /\ pipeline' = [m \in Model |-> IF m \in wanted THEN installed[m] ELSE "absent"]
  /\ age' = 0 /\ busy' = TRUE
  /\ UNCHANGED <<disk, books, step, order, up, wanted, status>>

JobEnds ==
  /\ busy /\ busy' = FALSE
  /\ UNCHANGED <<disk, books, step, order, up, wanted, status, pipeline, age>>

\* try_unload, on a turn of the loop that found no message.
IdlePoll ==
  /\ up /\ ~busy
  /\ age = IdleTimeout /\ Loaded
  /\ pipeline' = NothingLoaded /\ age' = Never
  /\ UNCHANGED <<disk, books, step, order, up, wanted, status, busy>>

\* Mutant of Tick: time counts although last_used is None.
TickWithoutUse ==
  /\ age # IdleTimeout
  /\ age' = age + 1
  /\ UNCHANGED <<disk, books, step, order, up, wanted, status, pipeline, busy>>

\* Time passes, during a job as well.
Tick ==
  /\ age < IdleTimeout
  /\ age' = age + 1
  /\ UNCHANGED <<disk, books, step, order, up, wanted, status, pipeline, busy>>

PullStep(p) ==
  \/ LookBeforeLeap(p) \/ CreateFile(p) \/ StreamEnds(p)
  \/ VerifyRejects(p) \/ VerifyAccepts(p)
  \/ Unpack(p) \/ Unpacked(p) \/ Install(p) \/ Fails(p)

Next ==
  \/ \E op \in {"pull", "add"}, m \in Model : Order(op, m)
  \/ \E p \in Puller : PullStep(p)
  \/ AppendTruncates \/ AppendEnds \/ AdminStops
  \/ \E m \in Model : ResolvePulled(m)
  \/ Start \/ WorkerStops \/ Acquire \/ JobEnds \/ IdlePoll \/ Tick

\* The loop of the worker turns and time passes; no download has to end.
Fairness == WF_vars(IdlePoll) /\ WF_vars(Tick)

Spec == Init /\ [][Next]_vars /\ Fairness

-----------------------------------------------------------------------------
(* What is promised.                                                        *)

StoreTypeOK ==
  /\ installed \in [Model -> Content] /\ part \in [Model -> Content]
  /\ extracting \in [Model -> Content]
  /\ catalog \in SUBSET Model /\ torn \in BOOLEAN
  /\ step \in [Puller -> Step]
  /\ order \in [op : {"pull", "add"}, model : Model]
  /\ up \in BOOLEAN /\ wanted \in SUBSET Model /\ status \in [Model -> Status]
  /\ pipeline \in [Model -> Content] /\ age \in 0..Never /\ busy \in BOOLEAN

\* The registry is never wrong about the disk: while it says that a pinned model
\* is ready, its file or directory holds the pinned bytes, whatever was killed or
\* failed before, in this process or in the command (registry.rs, manager.rs).
ReadyIntact == \A m \in Pinned : status[m] = "ready" => installed[m] = "good"

\* No job runs on a damaged model: neither the model nor the voice activity model
\* was read from a download in progress or from what one left behind, although
\* nothing is verified at the reload after an idle unload (queue.rs).
LoadedIntact == \A m \in Pinned : pipeline[m] \in {"absent", "good"}

\* The directory of a model, pinned or not, appears under its final name when all
\* of the archive is unpacked; resolve takes its presence as sufficient.
WholeDirectories == \A m \in Archive : installed[m] # "partial"

\* An entry that `models add` wrote into the catalog describes a model that is
\* installed, and the model stays installed.
AddedInstalled == \A m \in catalog \ Embedded : installed[m] = "good"

\* A file without sha256 that the command is downloading: resolve takes the part
\* that is there for the model (manager.rs:268-286).
HalfWritten(m) ==
  m \notin Pinned \union Archive /\ step[Admin] = "write" /\ order.model = m

\* No step of a pull or of the command rewrites a model the worker may load, with
\* one exception: a file without sha256 that the command was downloading already
\* when the worker started is ready, half-written, until that download ends.
ReadyUntouched ==
  [][\A m \in Model :
       status[m] = "ready" => installed'[m] = installed[m] \/ HalfWritten(m)]_vars

\* A worker without jobs gives the memory of the model back (unload_after_ms),
\* also when a job outlives the timeout.
IdleFreed == Loaded /\ ~busy ~> ~Loaded \/ busy
=============================================================================

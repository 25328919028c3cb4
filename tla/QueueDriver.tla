----------------------------- MODULE QueueDriver -----------------------------
(***************************************************************************)
(* The main loop of a worker container (QueueDriver of input/queue/mod.rs) *)
(* with the queue, the idempotency table, the notify queue, the bucket and *)
(* the sink it coordinates.  Worker is the set of replicas; they share the *)
(* stores and nothing else.                                                *)
(*                                                                         *)
(* pc[w] names the store call the future of step() is about to make, so an *)
(* action is what happens from one await to the next, and other replicas,  *)
(* the clock, the producer, a crash or a signal may come between any two.  *)
(* Every call may fail: where the code uses `?' the step is abandoned and  *)
(* run_loop goes on with the next one, where the code only logs, the step  *)
(* goes on.  A call that fails has no effect on its store.                 *)
(***************************************************************************)
EXTENDS SqliteQueue

CONSTANTS Worker,       \* replicas of the worker container
          Key,          \* values of dedup_key
          Audio,        \* values of audio_key
          KeyOf,        \* KeyOf[j] is the dedup_key of job j
          AudioOf,      \* AudioOf[j] is the audio_key of job j
          Ahead,        \* jobs that are wire-incompatible (producer ahead)
          Poison,       \* payloads that do not deserialize
          Unput,        \* jobs the producer enqueues without putting the audio
          ProcessError, \* the errors JobProcessor::process may return
          AtStart       \* statuses init_models may give the model of a new
                        \* process: on disk, missing, not in the catalog

ErrorKind == {"decode", "engine", "output", "io", "bucket", "queue", "other"}
ModelStatus == {"ready", "pulling", "failed"}

ASSUME DriverAssumption ==
  /\ KeyOf \in [Job -> Key]
  /\ AudioOf \in [Job -> Audio]
  /\ \A j1, j2 \in Job : AudioOf[j1] = AudioOf[j2] => KeyOf[j1] = KeyOf[j2]
  /\ Ahead \subseteq Job /\ Poison \subseteq Job /\ Unput \subseteq Job
  /\ Ahead \cap Poison = {}
  /\ ProcessError \subseteq ErrorKind
  /\ AtStart \subseteq ModelStatus

\* The third failed delivery while the model is Failed returns Error::Model.
FatalLimit == 3

VARIABLES
  pc,         \* where each worker is
  row,        \* the id its receipt names, 0 when it holds none
  out,        \* the outcome it is finalising or replaying
  model,      \* ModelRegistry entry of its transcription model
  failures,   \* model_load_failures, saturated at FatalLimit
  processed,  \* the processed_jobs table
  sent,       \* per dedup_key, the results enqueued on the notify queue
  dropped,    \* keys of which a terminal result was not enqueued, only logged
  audio,      \* the keys present in the bucket
  noted       \* keys of which a note has reached the sink

localVars == <<pc, row, out, model, failures>>
storeVars == <<processed, sent, dropped, audio, noted>>
vars == <<qvars, localVars, storeVars>>

-----------------------------------------------------------------------------
(* Outcomes.  ack tells the terminal ones (recorded and acked) from the    *)
(* retries (nacked); the producer sees the code alone.                     *)

Code == {"ok", "no_speech", "audio_missing", "decode_failed", "engine_failed",
         "output_failed", "internal", "wire_incompat"}
Outcome == [ack : BOOLEAN, code : Code]
Terminal(c) == [ack |-> TRUE, code |-> c]
Retry(c) == [ack |-> FALSE, code |-> c]
NoOutcome == Retry("internal")   \* out[w] while w has none

\* A key without a row in processed_jobs.
Unrecorded == "none"

Classify(e) ==
  CASE e = "decode" -> Terminal("decode_failed")
    [] e = "engine" -> Terminal("engine_failed")
    [] e = "output" -> Retry("output_failed")
    [] e \in {"io", "queue"} -> Retry("internal")
    [] OTHER -> Terminal("internal")

\* The codes whose finalisation ends with a bucket delete.
Deleting == {"ok", "no_speech", "wire_incompat"}

Pc == {"idle", "lookup", "gate", "fetch", "process", "record", "notify",
       "settle", "delete", "replay_notify", "replay_ack", "crashed", "stopped"}
Off == {"crashed", "stopped"}

Held(w) == payload[row[w]]
HeldKey(w) == KeyOf[Held(w)]
HeldAudio(w) == AudioOf[Held(w)]

TypeOK ==
  /\ QTypeOK
  /\ pc \in [Worker -> Pc]
  /\ row \in [Worker -> Id \cup {0}]
  /\ out \in [Worker -> Outcome]
  /\ model \in [Worker -> ModelStatus]
  /\ failures \in [Worker -> 0 .. FatalLimit]
  /\ processed \in [Key -> Code \cup {Unrecorded}]
  /\ sent \in [Key -> SUBSET Outcome]
  /\ dropped \subseteq Key
  /\ audio \subseteq Audio
  /\ noted \subseteq Key

Init ==
  /\ QInit
  /\ pc = [w \in Worker |-> "idle"]
  /\ row = [w \in Worker |-> 0]
  /\ out = [w \in Worker |-> NoOutcome]
  /\ model \in [Worker -> AtStart]
  /\ failures = [w \in Worker |-> 0]
  /\ processed = [k \in Key |-> Unrecorded]
  /\ sent = [k \in Key |-> {}]
  /\ dropped = {}
  /\ audio = {}
  /\ noted = {}

-----------------------------------------------------------------------------
(* Steps of the local state. *)

Goto(w, l) ==
  /\ pc' = [pc EXCEPT ![w] = l]
  /\ UNCHANGED <<row, out, model, failures>>

\* Go to l with outcome o.
Conclude(w, l, o) ==
  /\ pc' = [pc EXCEPT ![w] = l]
  /\ out' = [out EXCEPT ![w] = o]
  /\ UNCHANGED <<row, model, failures>>

\* The end of step(), by any of its exits; its locals are gone.
Leave(w, l) ==
  /\ pc' = [pc EXCEPT ![w] = l]
  /\ row' = [row EXCEPT ![w] = 0]
  /\ out' = [out EXCEPT ![w] = NoOutcome]

EndStep(w) == Leave(w, "idle") /\ UNCHANGED <<model, failures>>

\* `?' on a store call: run_loop logs the error and backs off.
Abandon(w) == EndStep(w) /\ UNCHANGED <<qvars, storeVars>>

-----------------------------------------------------------------------------
(* step(): pop, then the wire check, which precedes the dedup lookup. *)

\* The row is hidden and counted before serde reads the payload, so a payload
\* that does not deserialize fails the step and stays hidden.
Pop(w) ==
  /\ pc[w] = "idle"
  /\ UNCHANGED <<model, failures, storeVars>>
  /\ \/ /\ PopNone
        /\ UNCHANGED <<pc, row, out>>
     \/ \E i \in Id :
          /\ PopRow(i)
          /\ \/ /\ payload[i] \in Poison
                /\ UNCHANGED <<pc, row, out>>
             \/ /\ payload[i] \in Ahead
                /\ pc' = [pc EXCEPT ![w] = "record"]
                /\ row' = [row EXCEPT ![w] = i]
                /\ out' = [out EXCEPT ![w] = Terminal("wire_incompat")]
             \/ /\ payload[i] \notin Poison \cup Ahead
                /\ pc' = [pc EXCEPT ![w] = "lookup"]
                /\ row' = [row EXCEPT ![w] = i]
                /\ UNCHANGED out

\* Mutant: only a successful record counts as a duplicate.
LookupOkOnly(w) ==
  /\ pc[w] = "lookup"
  /\ \/ /\ processed[HeldKey(w)] # "ok"
        /\ Goto(w, "gate")
     \/ /\ processed[HeldKey(w)] = "ok"
        /\ Conclude(w, "replay_notify", Terminal("ok"))
  /\ UNCHANGED <<qvars, storeVars>>

\* Mutant: a duplicate is acked without replaying its result.
LookupNoReplay(w) ==
  /\ pc[w] = "lookup"
  /\ \/ /\ processed[HeldKey(w)] = Unrecorded
        /\ Goto(w, "gate")
     \/ /\ processed[HeldKey(w)] # Unrecorded
        /\ Conclude(w, "replay_ack", Terminal(processed[HeldKey(w)]))
  /\ UNCHANGED <<qvars, storeVars>>

Lookup(w) ==
  /\ pc[w] = "lookup"
  /\ \/ /\ processed[HeldKey(w)] = Unrecorded
        /\ Goto(w, "gate")
     \/ /\ processed[HeldKey(w)] # Unrecorded
        /\ Conclude(w, "replay_notify", Terminal(processed[HeldKey(w)]))
  /\ UNCHANGED <<qvars, storeVars>>

\* Mutant: every duplicate is reported as a success.
ReplayAsOk(w) ==
  /\ pc[w] = "replay_notify"
  /\ sent' = [sent EXCEPT ![HeldKey(w)] = @ \cup {Terminal("ok")}]
  /\ Goto(w, "replay_ack")
  /\ UNCHANGED <<qvars, processed, dropped, audio, noted>>

\* replay_notify, enqueued best-effort.
ReplayNotify(w) ==
  /\ pc[w] = "replay_notify"
  /\ \/ /\ sent' = [sent EXCEPT ![HeldKey(w)] = @ \cup {out[w]}]
        /\ UNCHANGED dropped
     \/ /\ dropped' = dropped \cup {HeldKey(w)}
        /\ UNCHANGED sent
  /\ Goto(w, "replay_ack")
  /\ UNCHANGED <<qvars, processed, audio, noted>>

\* The duplicate is acked; its audio is not deleted.
ReplayAck(w) ==
  /\ pc[w] = "replay_ack"
  /\ Ack(row[w])
  /\ EndStep(w)
  /\ UNCHANGED storeVars

-----------------------------------------------------------------------------
(* run_pipeline(). *)

\* The registry gate.  While the model is being pulled or has failed the step
\* returns without ack and without nack.
Gate(w) ==
  /\ pc[w] = "gate"
  /\ \/ /\ model[w] = "ready"
        /\ Goto(w, "fetch")
     \/ /\ model[w] = "pulling"
        /\ EndStep(w)
     \/ /\ model[w] = "failed"
        /\ Leave(w, "idle")
        /\ failures' = [failures EXCEPT ![w] = IF @ < FatalLimit THEN @ + 1 ELSE @]
        /\ UNCHANGED model
  /\ UNCHANGED <<qvars, storeVars>>

\* BucketAudioSource::fetch: a missing key is terminal, any other bucket error
\* is retried.
Fetch(w) ==
  /\ pc[w] = "fetch"
  /\ \/ /\ HeldAudio(w) \in audio
        /\ Goto(w, "process")
     \/ /\ HeldAudio(w) \notin audio
        /\ Conclude(w, "record", Terminal("audio_missing"))
     \/ Conclude(w, "notify", Retry("internal"))
  /\ UNCHANGED <<qvars, storeVars>>

\* Mutant: reports success with the note still in a buffer.
ProcessUnflushed(w) ==
  /\ pc[w] = "process"
  /\ \E o \in {Terminal("ok"), Terminal("no_speech")} : Conclude(w, "record", o)
  /\ UNCHANGED <<qvars, storeVars>>

\* ModelGuard::acquire and JobProcessor::process, which do not await.  An
\* output error may come after the note has reached the sink (a lost response).
Process(w) ==
  /\ pc[w] = "process"
  /\ \/ /\ noted' = noted \cup {HeldKey(w)}
        /\ Conclude(w, "record", Terminal("ok"))
     \/ /\ Conclude(w, "record", Terminal("no_speech"))
        /\ UNCHANGED noted
     \/ /\ Conclude(w, "notify", Retry("internal"))     \* model load failed
        /\ UNCHANGED noted
     \/ \E e \in ProcessError :
          /\ Conclude(w, IF Classify(e).ack THEN "record" ELSE "notify", Classify(e))
          /\ \/ UNCHANGED noted
             \/ /\ e = "output"
                /\ noted' = noted \cup {HeldKey(w)}
  /\ UNCHANGED <<qvars, processed, sent, dropped, audio>>

-----------------------------------------------------------------------------
(* The finalise_* functions: record, notify, ack or nack, delete.  Only    *)
(* terminal outcomes are recorded; INSERT OR REPLACE overwrites a record.  *)

\* Mutant: the no_speech branch forgets its record.
RecordNotSilence(w) ==
  /\ pc[w] = "record"
  /\ \/ /\ out[w].code # "no_speech"
        /\ processed' = [processed EXCEPT ![HeldKey(w)] = out[w].code]
     \/ /\ out[w].code = "no_speech"
        /\ UNCHANGED processed
  /\ Goto(w, "notify")
  /\ UNCHANGED <<qvars, sent, dropped, audio, noted>>

\* Mutant: acks right after the record and never notifies.
RecordThenSettle(w) ==
  /\ pc[w] = "record"
  /\ processed' = [processed EXCEPT ![HeldKey(w)] = out[w].code]
  /\ Goto(w, "settle")
  /\ UNCHANGED <<qvars, sent, dropped, audio, noted>>

Record(w) ==
  /\ pc[w] = "record"
  /\ processed' = [processed EXCEPT ![HeldKey(w)] = out[w].code]
  /\ Goto(w, "notify")
  /\ UNCHANGED <<qvars, sent, dropped, audio, noted>>

Notify(w) ==
  /\ pc[w] = "notify"
  /\ \/ /\ sent' = [sent EXCEPT ![HeldKey(w)] = @ \cup {out[w]}]
        /\ UNCHANGED dropped
     \/ /\ dropped' = dropped \cup {k \in {HeldKey(w)} : out[w].ack}
        /\ UNCHANGED sent
  /\ Goto(w, "settle")
  /\ UNCHANGED <<qvars, processed, audio, noted>>

\* Mutant: cleans the bucket up after a nack too.
SettleAlwaysDeletes(w) ==
  /\ pc[w] = "settle"
  /\ IF out[w].ack THEN Ack(row[w]) ELSE NackWithDelay(row[w])
  /\ Goto(w, "delete")
  /\ UNCHANGED storeVars

Settle(w) ==
  /\ pc[w] = "settle"
  /\ \/ /\ out[w].ack
        /\ Ack(row[w])
        /\ IF out[w].code \in Deleting THEN Goto(w, "delete") ELSE EndStep(w)
     \/ /\ ~out[w].ack
        /\ NackWithDelay(row[w])
        /\ EndStep(w)
  /\ UNCHANGED storeVars

\* bucket.delete, best-effort: a missing key is fine, a failure is only logged.
Delete(w) ==
  /\ pc[w] = "delete"
  /\ \/ audio' = audio \ {HeldAudio(w)}
     \/ UNCHANGED audio
  /\ EndStep(w)
  /\ UNCHANGED <<qvars, processed, sent, dropped, noted>>

\* Mutant: a failed ack is only logged, and the step goes on with the delete.
StoreErrorGoesOn(w) ==
  \/ /\ pc[w] \in {"lookup", "record", "settle", "replay_ack"}
     /\ Abandon(w)
  \/ /\ pc[w] = "settle"
     /\ out[w].code \in Deleting
     /\ Goto(w, "delete")
     /\ UNCHANGED <<qvars, storeVars>>

\* lookup, record, ack and nack_with_delay are called with `?'.
StoreError(w) ==
  /\ pc[w] \in {"lookup", "record", "settle", "replay_ack"}
  /\ Abandon(w)

-----------------------------------------------------------------------------
(* The process that hosts the loop. *)

\* A crash, a kill or a panic, anywhere; memory is lost.
Crash(w) ==
  /\ pc[w] \notin Off
  /\ Leave(w, "crashed")
  /\ failures' = [failures EXCEPT ![w] = 0]
  /\ UNCHANGED <<qvars, storeVars, model>>

\* SIGTERM or ctrl_c: select! polls the signal first each time the step future
\* is pending at an await, drops the future and returns from run_loop.  The
\* pipeline does not await, so it is not interrupted.
Shutdown(w) ==
  /\ pc[w] \notin Off \cup {"gate", "process"}
  /\ Leave(w, "stopped")
  /\ failures' = [failures EXCEPT ![w] = 0]
  /\ UNCHANGED <<qvars, storeVars, model>>

\* init_models: a model that is on disk is Ready (and stays on disk), one that
\* is missing is pulled, one that is not in the catalog has failed.
Restart(w) ==
  /\ pc[w] \in Off
  /\ pc' = [pc EXCEPT ![w] = "idle"]
  /\ \E s \in AtStart : model' = [model EXCEPT ![w] = IF @ = "ready" THEN @ ELSE s]
  /\ UNCHANGED <<qvars, storeVars, row, out, failures>>

\* pull_background, on its own thread: one attempt, whose result is final for
\* the life of the process.
PullEnds(w) ==
  /\ pc[w] \notin Off
  /\ model[w] = "pulling"
  /\ \E s \in {"ready", "failed"} : model' = [model EXCEPT ![w] = s]
  /\ UNCHANGED <<qvars, storeVars, pc, row, out, failures>>

-----------------------------------------------------------------------------
(* The producer, the administrator and the clock. *)

\* The producer puts the audio, then enqueues the job; when it enqueues the
\* same job again it does not put the audio again.
Produce(j) ==
  /\ Enqueue(j)
  /\ \/ /\ j \in Unput \/ \E i \in Id : payload[i] = j
        /\ UNCHANGED audio
     \/ /\ j \notin Unput /\ \A i \in Id : payload[i] # j
        /\ audio' = audio \cup {AudioOf[j]}
  /\ UNCHANGED <<localVars, processed, sent, dropped, noted>>

\* admin queue dlq --requeue.
Requeue(i) == DlqRequeue(i) /\ UNCHANGED <<localVars, storeVars>>

Tick(i) == Expire(i) /\ UNCHANGED <<localVars, storeVars>>

-----------------------------------------------------------------------------
\* What a worker does once it holds a delivery.
Continue(w) ==
  \/ Lookup(w) \/ ReplayNotify(w) \/ ReplayAck(w)
  \/ Gate(w) \/ Fetch(w) \/ Process(w)
  \/ Record(w) \/ Notify(w) \/ Settle(w) \/ Delete(w)
  \/ StoreError(w)

Next ==
  \/ \E w \in Worker :
       \/ Pop(w) \/ Continue(w)
       \/ Crash(w) \/ Shutdown(w) \/ Restart(w) \/ PullEnds(w)
  \/ \E j \in Job : Produce(j)
  \/ \E i \in Id : Requeue(i) \/ Tick(i)

Spec == Init /\ [][Next]_vars

\* A step under way goes on (store calls return), a stopped container is
\* restarted and the clock advances.  A worker may crash again and again, so
\* its pop is only infinitely often, not continuously, enabled: strong fairness
\* says that such a worker reaches its pop in one of its lives.
Fairness ==
  /\ \A w \in Worker :
       WF_vars(Continue(w)) /\ SF_vars(Pop(w)) /\ WF_vars(Restart(w))
  /\ \A i \in Id : WF_vars(Tick(i))

FairSpec == Spec /\ Fairness

-----------------------------------------------------------------------------
(* Safety, for any number of replicas. *)

\* A job leaves the queue for good only with its outcome recorded: every row
\* that was acked has a processed_jobs row for its dedup_key (mod.rs:342-502,
\* record before ack).
NoJobLost ==
  \A i \in Id : place[i] = "acked" => processed[KeyOf[payload[i]]] # Unrecorded

\* Audio is deleted only once the outcome of its job is recorded, so that a
\* delivery that finds no record also finds the audio its producer has put.
AudioKept ==
  \A i \in Id :
    payload[i] \in Job \ Unput =>
      \/ AudioOf[payload[i]] \in audio
      \/ processed[KeyOf[payload[i]]] # Unrecorded

\* Keys of which a terminal result is on the notify queue, or was given up
\* with a warning because the enqueue failed.
Told == {k \in Key : k \in dropped \/ \E o \in sent[k] : o.ack}

\* The producer hears of a job before the job disappears: an acked row has its
\* key told.
NoSilentAck ==
  \A i \in Id : place[i] = "acked" => KeyOf[payload[i]] \in Told

\* Whatever says "ok" - the record or a notification - has a note behind it.
OkHasNote ==
  \A k \in Key :
    processed[k] = "ok" \/ Terminal("ok") \in sent[k] => k \in noted

\* Rows that were acked or dead-lettered.
OffQueue == {i \in Id : place[i] \notin {"free", "queue"}}

Order ==
  INSTANCE Finalization WITH
    Row <- Id,
    Undecided <- Unrecorded,
    content <- payload,
    settled <- {i \in Id : place[i] = "acked"},
    gone <- OffQueue,
    outcome <- processed,
    told <- Told,
    stored <- audio

\* The driver finalises in the order record, notify, ack, delete
\* (mod.rs:342-502), on every path, whoever else holds the job: in particular the
\* audio is not deleted while the row it was delivered in is still in the queue,
\* as it would be after an ack that failed (mod.rs:370).
KeepsOrder == Order!Spec

-----------------------------------------------------------------------------
(* Safety of a single replica.                                             *)

\* Keys of which no job is wire-incompatible; the wire check comes before the
\* lookup, so a wire-incompatible job overwrites the record of its key.
CompatKey == {k \in Key : \A j \in Ahead : KeyOf[j] # k}

\* Keys whose producer has put the audio of every job.
PutKey == {k \in Key : \A j \in Unput : KeyOf[j] # k}

\* A job whose outcome is recorded is not transcribed again (step 2 of step():
\* the lookup and the record of another delivery never straddle the pipeline).
NoRerun ==
  \A w \in Worker : pc[w] = "process" => processed[HeldKey(w)] = Unrecorded

\* What the producer was told of a finished job is what the table says of it.
ProducerAgrees ==
  \A k \in CompatKey : \A o \in sent[k] : o.ack => processed[k] = o.code

\* A job whose audio was put is never reported as audio_missing: its audio is
\* not deleted under a delivery that still needs it.
NoSpuriousMissing ==
  \A k \in PutKey :
    /\ processed[k] # "audio_missing"
    /\ Terminal("audio_missing") \notin sent[k]

\* A recorded outcome is never replaced by another one.
OutcomeStable ==
  [][\A k \in CompatKey :
       processed[k] # Unrecorded => processed'[k] = processed[k]]_vars

-----------------------------------------------------------------------------
(* Liveness. *)

\* Every row leaves the queue: acked, or in the dead-letter table once its
\* deliveries are used up, through store failures, crashes, restarts, a model
\* that never becomes ready and payloads that do not deserialize.
RowSettles == \A i \in Id : place[i] = "queue" ~> place[i] # "queue"

-----------------------------------------------------------------------------
(* What the documentation says of the program and the code does not do.    *)

\* README.md:179: a model that fails three times shuts the worker down.
FatalStops ==
  [][\A w \in Worker :
       failures[w] = FatalLimit /\ pc[w] = "idle" => row'[w] = 0]_vars

\* mod.rs:5: shutdown lets the current job finish before exit.
ShutdownFinishesJob ==
  [][\A w \in Worker : pc[w] \notin Off /\ pc'[w] = "stopped" => row[w] = 0]_vars

\* ARCHITECTURE.md:51: a producer-ahead job is routed to the dead-letter queue.
AheadGoesToDlq ==
  \A i \in Id : payload[i] \in Ahead => place[i] # "acked"
=============================================================================

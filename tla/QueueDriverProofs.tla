-------------------------- MODULE QueueDriverProofs --------------------------
(***************************************************************************)
(* Proofs about the driver for every set of replicas, jobs, keys and audio *)
(* objects, every max_receive and every number of rows.                    *)
(*                                                                         *)
(* The safety invariants are about rows, keys and audio.  What makes them  *)
(* inductive is Phase: what each replica knows about its job at each await *)
(* (from the record on, the outcome is in the table; from the notify on,   *)
(* it is told).  Phase survives the steps of the other replicas because    *)
(* records, notifications and notes are never taken back (Stable).         *)
(***************************************************************************)
EXTENDS QueueDriver, SqliteQueueProofs

Holding == Pc \ ({"idle"} \cup Off)

\* A replica inside step() holds the receipt of a row that it has received.
Holds(w) ==
  pc[w] \in Holding =>
    /\ row[w] \in Id
    /\ Held(w) \in Job
    /\ count[row[w]] > 0

HoldsRow == \A w \in Worker : Holds(w)

\* What a replica that has reached an await knows of the job it holds.
Finalising == {"record", "notify", "settle", "delete", "replay_notify", "replay_ack"}
Recorded == {"notify", "settle", "delete", "replay_notify", "replay_ack"}
Notified == {"settle", "delete", "replay_ack"}

Knows(w) ==
  /\ pc[w] \in {"record", "delete", "replay_notify", "replay_ack"} => out[w].ack
  /\ pc[w] \in Recorded /\ out[w].ack => processed[HeldKey(w)] # Unrecorded
  /\ pc[w] \in Notified /\ out[w].ack => HeldKey(w) \in Told
  /\ pc[w] \in Finalising /\ out[w].code = "ok" => HeldKey(w) \in noted
  /\ pc[w] = "delete" => row[w] \in OffQueue

Phase == \A w \in Worker : Knows(w)

IInv ==
  /\ TypeOK
  /\ Allocated
  /\ HoldsRow
  /\ Phase
  /\ NoJobLost
  /\ NoSilentAck
  /\ AudioKept
  /\ OkHasNote

-----------------------------------------------------------------------------
(* Facts about the operators. *)

LEMMA TerminalType == \A c \in Code : Terminal(c) \in Outcome /\ Terminal(c).ack /\ Terminal(c).code = c
BY DEF Terminal, Outcome

LEMMA RetryType == \A c \in Code : Retry(c) \in Outcome /\ ~Retry(c).ack /\ Retry(c).code = c
BY DEF Retry, Outcome

LEMMA NoOutcomeType == NoOutcome \in Outcome /\ ~NoOutcome.ack /\ NoOutcome.code # "ok"
BY DEF NoOutcome, Retry, Outcome, Code

\* No pipeline error is a success.
LEMMA ClassifyType == \A e : Classify(e) \in Outcome /\ Classify(e).code # "ok"
BY DEF Classify, Terminal, Retry, Outcome, Code

\* A job has one key, and jobs that share their audio share it.
LEMMA KeyType ==
  /\ \A j \in Job : KeyOf[j] \in Key /\ AudioOf[j] \in Audio
  /\ \A j1, j2 \in Job : AudioOf[j1] = AudioOf[j2] => KeyOf[j1] = KeyOf[j2]
BY DriverAssumption

-----------------------------------------------------------------------------
(* The driver and its environment touch the queue through its operations.  *)

LEMMA QueueSteps == ASSUME TypeOK, HoldsRow, [Next]_vars PROVE [QNext]_qvars
<1>1. CASE UNCHANGED vars
  BY <1>1 DEF vars, qvars
<1>2. ASSUME NEW w \in Worker, Pop(w) PROVE QNext
  BY <1>2 DEF Pop, QNext
<1>3. ASSUME NEW w \in Worker, Continue(w) PROVE [QNext]_qvars
  <2>1. CASE ReplayAck(w)
    <3>1. row[w] \in Id /\ count[row[w]] > 0 /\ Ack(row[w])
      BY <2>1 DEF ReplayAck, HoldsRow, Holds, Holding, Pc, Off
    <3>2. QED
      BY <3>1 DEF QNext
  <2>2. CASE Settle(w)
    <3>1. row[w] \in Id /\ count[row[w]] > 0 /\ (Ack(row[w]) \/ NackWithDelay(row[w]))
      BY <2>2 DEF Settle, HoldsRow, Holds, Holding, Pc, Off
    <3>2. QED
      BY <3>1 DEF QNext
  <2>3. QED
    BY <1>3, <2>1, <2>2
       DEF Continue, Lookup, ReplayNotify, Gate, Fetch, Process, Record, Notify,
           Delete, StoreError, Abandon
<1>4. ASSUME NEW w \in Worker, Crash(w) \/ Shutdown(w) \/ Restart(w) \/ PullEnds(w)
      PROVE UNCHANGED qvars
  BY <1>4 DEF Crash, Shutdown, Restart, PullEnds
<1>5. ASSUME NEW j \in Job, Produce(j) PROVE QNext
  BY <1>5 DEF Produce, QNext
<1>6. ASSUME NEW i \in Id, Requeue(i) \/ Tick(i) PROVE QNext
  BY <1>6 DEF Requeue, Tick, QNext
<1>7. QED
  BY <1>1, <1>2, <1>3, <1>4, <1>5, <1>6 DEF Next

\* AUTOINCREMENT hands out an id that no row has had.
LEMMA FreshId ==
  ASSUME IInv, nextId <= MaxId
  PROVE  nextId \in Id /\ payload[nextId] = NoJob /\ place[nextId] = "free"
<1>1. nextId \in Id
  BY QueueAssumption DEF IInv, TypeOK, QTypeOK, Id
<1>2. payload[nextId] = NoJob
  BY <1>1 DEF IInv, Allocated, Id
<1>3. place[nextId] = "free"
  BY <1>1, <1>2, QueueAssumption DEF IInv, Allocated
<1>4. QED
  BY <1>1, <1>2, <1>3

\* A row that is off the queue never comes back to it: its job does, under the id
\* of another row.
LEMMA OffStays == ASSUME IInv, [Next]_vars PROVE OffQueue \subseteq OffQueue'
<1>0. TypeOK /\ HoldsRow /\ QTypeOK
  BY DEF IInv, TypeOK
<1>1. [QNext]_qvars
  BY <1>0, QueueSteps
<1>2. ASSUME NEW j \in Job, Enqueue(j) PROVE OffQueue \subseteq OffQueue'
  BY <1>0, <1>2, FreshId DEF Enqueue, Insert, OffQueue, QTypeOK
<1>3. ASSUME NEW i \in Id, DlqRequeue(i) PROVE OffQueue \subseteq OffQueue'
  BY <1>0, <1>3, FreshId DEF DlqRequeue, Insert, OffQueue, QTypeOK
<1>4. ASSUME PopNone \/ (\E i \in Id : PopRow(i)) PROVE OffQueue \subseteq OffQueue'
  BY <1>0, <1>4 DEF PopNone, PopRow, Promote, OffQueue
<1>5. ASSUME NEW i \in Id, Ack(i) PROVE OffQueue \subseteq OffQueue'
  BY <1>0, <1>5 DEF Ack, OffQueue, QTypeOK, qvars
<1>6. ASSUME NEW i \in Id, Expire(i) \/ NackWithDelay(i) PROVE OffQueue \subseteq OffQueue'
  BY <1>6 DEF Expire, NackWithDelay, OffQueue
<1>7. CASE UNCHANGED qvars
  BY <1>7 DEF qvars, OffQueue
<1>8. QED
  BY <1>1, <1>2, <1>3, <1>4, <1>5, <1>6, <1>7 DEF QNext

LEMMA QueueKept ==
  ASSUME IInv, [Next]_vars
  PROVE  /\ QTypeOK' /\ Allocated'
         /\ \A i \in Id : payload[i] \in Job =>
              payload'[i] = payload[i] /\ count'[i] >= count[i]
<1>1. QInv /\ [QNext]_qvars
  BY QueueSteps DEF IInv, TypeOK, QInv
<1>2. QED
  BY <1>1, QNextInv, ReceiptStable DEF QInv
-----------------------------------------------------------------------------
(* Type correctness.                                                       *)

LEMMA TypeNext == ASSUME IInv, [Next]_vars PROVE TypeOK'
<1> USE DEF TypeOK
<1>0. TypeOK /\ QTypeOK'
  BY QueueKept DEF IInv
<1>1. CASE UNCHANGED vars
  BY <1>0, <1>1 DEF vars, localVars, storeVars
<1>2. ASSUME NEW w \in Worker, Pop(w) PROVE TypeOK'
  BY <1>0, <1>2, TerminalType DEF Pop, Pc, Code, storeVars
<1>3. ASSUME NEW w \in Worker, Continue(w) PROVE TypeOK'
  <2>1. pc[w] \in Holding => HeldKey(w) \in Key /\ row[w] \in Id
    BY KeyType DEF IInv, HoldsRow, Holds, HeldKey
  <2>2. CASE Lookup(w)
    <3>1. HeldKey(w) \in Key
      BY <2>1, <2>2 DEF Lookup, Holding, Pc, Off
    <3>2. processed[HeldKey(w)] # Unrecorded => Terminal(processed[HeldKey(w)]) \in Outcome
      BY <1>0, <3>1, TerminalType
    <3>3. QED
      BY <1>0, <2>2, <3>2 DEF Lookup, Goto, Conclude, Pc, storeVars
  <2>3. CASE ReplayNotify(w)
    BY <1>0, <2>1, <2>3 DEF ReplayNotify, Goto, Pc, Holding, Off
  <2>4. CASE ReplayAck(w)
    BY <1>0, <2>4, NoOutcomeType DEF ReplayAck, EndStep, Leave, Pc, storeVars
  <2>5. CASE Gate(w)
    BY <1>0, <2>5, NoOutcomeType DEF Gate, Goto, EndStep, Leave, Pc, storeVars, FatalLimit
  <2>6. CASE Fetch(w)
    BY <1>0, <2>6, TerminalType, RetryType DEF Fetch, Goto, Conclude, Pc, storeVars, Code
  <2>7. CASE Process(w)
    <3>1. HeldKey(w) \in Key
      BY <2>1, <2>7 DEF Process, Holding, Pc, Off
    <3>2. \E l \in {"record", "notify"}, o \in Outcome : Conclude(w, l, o)
      BY <2>7, TerminalType, RetryType, ClassifyType DEF Process, Code
    <3>3. noted' \subseteq Key
      BY <1>0, <2>7, <3>1 DEF Process
    <3>4. QED
      BY <1>0, <2>7, <3>2, <3>3 DEF Process, Conclude, Pc
  <2>8. CASE Record(w)
    <3>1. HeldKey(w) \in Key /\ out[w].code \in Code
      BY <1>0, <2>1, <2>8 DEF Record, Holding, Pc, Off, Outcome
    <3>2. QED
      BY <1>0, <2>8, <3>1 DEF Record, Goto, Pc
  <2>9. CASE Notify(w)
    BY <1>0, <2>1, <2>9 DEF Notify, Goto, Pc, Holding, Off
  <2>10. CASE Settle(w)
    BY <1>0, <2>10, NoOutcomeType DEF Settle, Goto, EndStep, Leave, Pc, storeVars
  <2>11. CASE Delete(w)
    BY <1>0, <2>11, NoOutcomeType DEF Delete, EndStep, Leave, Pc
  <2>12. CASE StoreError(w)
    BY <1>0, <2>12, NoOutcomeType DEF StoreError, Abandon, EndStep, Leave, Pc, storeVars
  <2>13. QED
    BY <1>3, <2>2, <2>3, <2>4, <2>5, <2>6, <2>7, <2>8, <2>9, <2>10, <2>11, <2>12 DEF Continue
<1>4. ASSUME NEW w \in Worker, Crash(w) \/ Shutdown(w) PROVE TypeOK'
  BY <1>0, <1>4, NoOutcomeType DEF Crash, Shutdown, Leave, Pc, storeVars, FatalLimit
<1>5. ASSUME NEW w \in Worker, Restart(w) \/ PullEnds(w) PROVE TypeOK'
  <2>1. model' \in [Worker -> ModelStatus]
    BY <1>0, <1>5, DriverAssumption DEF Restart, PullEnds, ModelStatus
  <2>2. QED
    BY <1>0, <1>5, <2>1 DEF Restart, PullEnds, Pc, storeVars
<1>6. ASSUME NEW j \in Job, Produce(j) PROVE TypeOK'
  BY <1>0, <1>6, KeyType DEF Produce, localVars
<1>7. ASSUME NEW i \in Id, Requeue(i) \/ Tick(i) PROVE TypeOK'
  BY <1>0, <1>7 DEF Requeue, Tick, localVars, storeVars
<1>8. QED
  BY <1>1, <1>2, <1>3, <1>4, <1>5, <1>6, <1>7 DEF Next

-----------------------------------------------------------------------------
(* What is never taken back.                                               *)

LEMMA Stable ==
  ASSUME IInv, [Next]_vars
  PROVE  /\ \A k \in Key : processed[k] # Unrecorded => processed'[k] # Unrecorded
         /\ Told \subseteq Told'
         /\ noted \subseteq noted'
<1> DEFINE Goal ==
      /\ \A k \in Key : processed[k] # Unrecorded => processed'[k] # Unrecorded
      /\ \A k \in Key : sent[k] \subseteq sent'[k]
      /\ dropped \subseteq dropped'
      /\ noted \subseteq noted'
<1>0. TypeOK
  BY DEF IInv
<1>1. ASSUME UNCHANGED storeVars PROVE Goal
  BY <1>1 DEF storeVars
<1>2. ASSUME NEW w \in Worker, ReplayNotify(w) \/ Notify(w) PROVE Goal
  BY <1>0, <1>2 DEF ReplayNotify, Notify, TypeOK
<1>3. ASSUME NEW w \in Worker, Process(w) PROVE Goal
  BY <1>3 DEF Process
<1>4. ASSUME NEW w \in Worker, Record(w) PROVE Goal
  <2>1. out[w].code # Unrecorded
    BY <1>0 DEF TypeOK, Outcome, Code, Unrecorded
  <2>2. QED
    BY <1>0, <1>4, <2>1 DEF Record, TypeOK
<1>5. ASSUME NEW w \in Worker, Delete(w) PROVE Goal
  BY <1>5 DEF Delete
<1>6. ASSUME NEW j \in Job, Produce(j) PROVE Goal
  BY <1>6 DEF Produce
<1>7. ASSUME NEW w \in Worker, Continue(w) PROVE Goal
  <2>1. Lookup(w) \/ ReplayAck(w) \/ Gate(w) \/ Fetch(w) \/ Settle(w) \/ StoreError(w)
        => UNCHANGED storeVars
    BY DEF Lookup, ReplayAck, Gate, Fetch, Settle, StoreError, Abandon
  <2>2. QED
    BY <1>1, <1>2, <1>3, <1>4, <1>5, <1>7, <2>1 DEF Continue
<1>8. ASSUME NEW w \in Worker, Pop(w) \/ Crash(w) \/ Shutdown(w) \/ Restart(w) \/ PullEnds(w)
      PROVE Goal
  BY <1>1, <1>8 DEF Pop, Crash, Shutdown, Restart, PullEnds
<1>9. ASSUME NEW i \in Id, Requeue(i) \/ Tick(i) PROVE Goal
  BY <1>1, <1>9 DEF Requeue, Tick
<1>10. Goal
  BY <1>1, <1>6, <1>7, <1>8, <1>9 DEF Next, vars
<1>11. QED
  BY <1>10 DEF Told
-----------------------------------------------------------------------------
(* What each replica knows.                                                *)

\* The job a replica holds is the same after the step, whoever took it.
LEMMA HeldKept ==
  ASSUME IInv, [Next]_vars, NEW v \in Worker,
         pc[v] \in Holding, row'[v] = row[v]
  PROVE  /\ row'[v] \in Id /\ Held(v)' \in Job /\ count'[row'[v]] > 0
         /\ Held(v)' = Held(v) /\ HeldKey(v)' = HeldKey(v) /\ HeldKey(v) \in Key
<1>1. row[v] \in Id /\ payload[row[v]] \in Job /\ count[row[v]] > 0
  BY DEF IInv, HoldsRow, Holds, Held
<1>2. payload'[row[v]] = payload[row[v]] /\ count'[row[v]] >= count[row[v]]
  BY <1>1, QueueKept
<1>3. count[row[v]] \in Int /\ count'[row[v]] \in Int
  BY <1>1, QueueKept, QueueAssumption DEF IInv, TypeOK, QTypeOK
<1>4. count'[row[v]] > 0
  BY <1>1, <1>2, <1>3
<1>5. QED
  BY <1>1, <1>2, <1>4, KeyType DEF Held, HeldKey

LEMMA Bystander ==
  ASSUME IInv, [Next]_vars, NEW v \in Worker,
         pc'[v] = pc[v], row'[v] = row[v], out'[v] = out[v]
  PROVE  Holds(v)' /\ Knows(v)'
<1>1. Holds(v) /\ Knows(v)
  BY DEF IInv, HoldsRow, Phase
<1>2. CASE pc[v] \notin Holding
  BY <1>2 DEF Holds, Knows, Holding, Pc, Off, Finalising, Recorded, Notified
<1>3. CASE pc[v] \in Holding
  <2>1. Holds(v)'
    BY <1>3, HeldKept DEF Holds
  <2>2. Knows(v)'
    BY <1>1, <1>3, HeldKept, Stable, OffStays DEF Knows
  <2>3. QED
    BY <2>1, <2>2
<1>4. QED
  BY <1>2, <1>3

\* A replica outside step() holds nothing and claims nothing.
LEMMA Outside ==
  ASSUME NEW v \in Worker, pc'[v] \in {"idle"} \cup Off
  PROVE  Holds(v)' /\ Knows(v)'
BY DEF Holds, Knows, Holding, Pc, Off, Finalising, Recorded, Notified

LEMMA PhaseNext == ASSUME IInv, [Next]_vars PROVE HoldsRow' /\ Phase'
<1> DEFINE Good(v) == Holds(v)' /\ Knows(v)'
<1> DEFINE Same(v) == pc'[v] = pc[v] /\ row'[v] = row[v] /\ out'[v] = out[v]
<1> SUFFICES \A v \in Worker : Good(v)
  BY DEF HoldsRow, Phase
<1>0. TypeOK /\ HoldsRow /\ Phase /\ OkHasNote /\ Allocated
  BY DEF IInv
<1>1. \A v \in Worker : Same(v) => Good(v)
  BY Bystander
<1>2. ASSUME NEW w \in Worker, Pop(w) PROVE \A v \in Worker : Good(v)
  <2>1. \A v \in Worker \ {w} : Same(v)
    BY <1>0, <1>2 DEF Pop, TypeOK
  <2>2. ASSUME NEW i \in Id, PopRow(i), payload[i] \notin Poison, row'[w] = i,
               \/ pc'[w] = "record" /\ out'[w] = Terminal("wire_incompat")
               \/ pc'[w] = "lookup"
        PROVE Good(w)
    <3>1. place[i] = "queue"
      BY <2>2 DEF PopRow, Deliverable, Visible
    <3>2. payload'[i] \in Job /\ count'[i] > 0
      BY <1>0, <2>2, <3>1, QueueAssumption
         DEF PopRow, Allocated, TypeOK, QTypeOK
    <3>3. QED
      BY <2>2, <3>2, TerminalType
         DEF Holds, Knows, Held, Finalising, Recorded, Notified, Code
  <2>3. Good(w)
    <3>1. CASE UNCHANGED <<pc, row, out>>
      BY <1>1, <3>1
    <3>2. ASSUME NEW i \in Id, PopRow(i), payload[i] \notin Poison,
                 row' = [row EXCEPT ![w] = i],
                 \/ /\ pc' = [pc EXCEPT ![w] = "record"]
                    /\ out' = [out EXCEPT ![w] = Terminal("wire_incompat")]
                 \/ pc' = [pc EXCEPT ![w] = "lookup"]
          PROVE Good(w)
      BY <1>0, <2>2, <3>2 DEF TypeOK
    <3>3. QED
      BY <1>2, <3>1, <3>2, DriverAssumption DEF Pop
  <2>4. QED
    BY <1>1, <2>1, <2>3
<1>3. ASSUME NEW w \in Worker, Continue(w) PROVE \A v \in Worker : Good(v)
  <2>0. pc[w] \in Holding
    BY <1>3 DEF Continue, Lookup, ReplayNotify, ReplayAck, Gate, Fetch, Process,
                Record, Notify, Settle, Delete, StoreError, Holding, Pc, Off
  <2>1. \A v \in Worker \ {w} : Same(v)
    BY <1>0, <1>3
       DEF Continue, Lookup, ReplayNotify, ReplayAck, Gate, Fetch, Process, Record,
           Notify, Settle, Delete, StoreError, Abandon, EndStep, Leave, Goto, Conclude,
           TypeOK
  <2> SUFFICES Good(w)
    BY <1>1, <2>1
  <2>2. pc'[w] = "idle" => Good(w)
    BY Outside
  <2>3. row'[w] = row[w] => Holds(w)'
    BY <2>0, HeldKept DEF Holds
  <2>4. row'[w] = row[w] => HeldKey(w)' = HeldKey(w) /\ HeldKey(w) \in Key
    BY <2>0, HeldKept
  <2>5. Holds(w) /\ Knows(w)
    BY <1>0 DEF HoldsRow, Phase
  <2>6. \A l : Goto(w, l) => pc'[w] = l /\ row'[w] = row[w] /\ out'[w] = out[w]
    BY <1>0 DEF Goto, TypeOK
  <2>7. \A l, o : Conclude(w, l, o) => pc'[w] = l /\ row'[w] = row[w] /\ out'[w] = o
    BY <1>0 DEF Conclude, TypeOK
  <2>8. \A l : Leave(w, l) => pc'[w] = l
    BY <1>0 DEF Leave, TypeOK
  <2> USE DEF Knows, Finalising, Recorded, Notified
  <2>10. CASE Lookup(w)
    <3>1. CASE Goto(w, "gate")
      BY <2>3, <2>6, <3>1
    <3>2. CASE /\ processed[HeldKey(w)] # Unrecorded
               /\ Conclude(w, "replay_notify", Terminal(processed[HeldKey(w)]))
      <4>1. pc'[w] = "replay_notify" /\ row'[w] = row[w]
            /\ out'[w] = Terminal(processed[HeldKey(w)])
        BY <2>7, <3>2
      <4>2. processed[HeldKey(w)] \in Code
        BY <1>0, <2>4, <3>2, <4>1 DEF TypeOK
      <4>3. out'[w].ack /\ out'[w].code = processed[HeldKey(w)]
        BY <4>1, <4>2, TerminalType
      <4>4. processed'[HeldKey(w)] # Unrecorded /\ noted \subseteq noted'
        BY <2>4, <3>2, <4>1, Stable
      <4>5. Knows(w)'
        BY <1>0, <2>4, <4>1, <4>3, <4>4 DEF OkHasNote
      <4>6. QED
        BY <2>3, <4>1, <4>5
    <3>3. QED
      BY <2>10, <3>1, <3>2 DEF Lookup
  <2>11. CASE ReplayNotify(w)
    <3>1. pc[w] = "replay_notify" /\ pc'[w] = "replay_ack" /\ row'[w] = row[w]
          /\ out'[w] = out[w]
      BY <2>6, <2>11 DEF ReplayNotify
    <3>2. out[w].ack
      BY <2>5, <3>1
    <3>3. HeldKey(w) \in Told'
      BY <1>0, <2>4, <2>11, <3>1, <3>2 DEF ReplayNotify, Told, TypeOK
    <3>4. Knows(w)'
      BY <2>4, <2>5, <3>1, <3>2, <3>3, Stable
    <3>5. QED
      BY <2>3, <3>1, <3>4
  <2>12. CASE ReplayAck(w) \/ Delete(w) \/ StoreError(w)
    BY <2>2, <2>8, <2>12 DEF ReplayAck, Delete, StoreError, Abandon, EndStep
  <2>13. CASE Gate(w)
    <3>1. CASE Goto(w, "fetch")
      BY <2>3, <2>6, <3>1
    <3>2. QED
      BY <2>2, <2>8, <2>13, <3>1 DEF Gate, EndStep
  <2>14. CASE Fetch(w)
    <3>1. CASE Goto(w, "process")
      BY <2>3, <2>6, <3>1
    <3>2. CASE Conclude(w, "record", Terminal("audio_missing"))
      BY <2>3, <2>7, <3>2, TerminalType DEF Code
    <3>3. CASE Conclude(w, "notify", Retry("internal"))
      BY <2>3, <2>7, <3>3, RetryType DEF Code
    <3>4. QED
      BY <2>14, <3>1, <3>2, <3>3 DEF Fetch
  <2>15. CASE Process(w)
    <3>1. CASE noted' = noted \cup {HeldKey(w)} /\ Conclude(w, "record", Terminal("ok"))
      BY <2>3, <2>4, <2>7, <3>1, TerminalType DEF Code
    <3>2. CASE Conclude(w, "record", Terminal("no_speech"))
      BY <2>3, <2>7, <3>2, TerminalType DEF Code
    <3>3. CASE Conclude(w, "notify", Retry("internal"))
      BY <2>3, <2>7, <3>3, RetryType DEF Code
    <3>4. ASSUME NEW e \in ProcessError,
                 Conclude(w, IF Classify(e).ack THEN "record" ELSE "notify", Classify(e))
          PROVE Good(w)
      <4>1. row'[w] = row[w] /\ out'[w] = Classify(e)
            /\ pc'[w] = IF Classify(e).ack THEN "record" ELSE "notify"
        BY <2>7, <3>4
      <4>2. Classify(e).code # "ok"
        BY ClassifyType
      <4>3. QED
        BY <2>3, <4>1, <4>2
    <3>5. QED
      BY <2>15, <3>1, <3>2, <3>3, <3>4 DEF Process
  <2>16. CASE Record(w)
    <3>1. pc[w] = "record" /\ pc'[w] = "notify" /\ row'[w] = row[w] /\ out'[w] = out[w]
      BY <2>6, <2>16 DEF Record
    <3>2. processed'[HeldKey(w)] # Unrecorded
      BY <1>0, <2>4, <2>16, <3>1 DEF Record, TypeOK, Outcome, Code, Unrecorded
    <3>3. Knows(w)'
      BY <2>4, <2>5, <3>1, <3>2, Stable
    <3>4. QED
      BY <2>3, <3>1, <3>3
  <2>17. CASE Notify(w)
    <3>1. pc[w] = "notify" /\ pc'[w] = "settle" /\ row'[w] = row[w] /\ out'[w] = out[w]
      BY <2>6, <2>17 DEF Notify
    <3>2. out[w].ack => HeldKey(w) \in Told'
      BY <1>0, <2>4, <2>17, <3>1 DEF Notify, Told, TypeOK
    <3>3. Knows(w)'
      BY <2>4, <2>5, <3>1, <3>2, Stable
    <3>4. QED
      BY <2>3, <3>1, <3>3
  <2>18. CASE Settle(w)
    <3>1. CASE out[w].ack /\ Goto(w, "delete")
      <4>1. pc[w] = "settle" /\ pc'[w] = "delete" /\ row'[w] = row[w] /\ out'[w] = out[w]
        BY <2>6, <2>18, <3>1 DEF Settle
      <4>2. row'[w] \in OffQueue'
        <5>1. row[w] \in Id /\ Held(w) \in Job /\ Ack(row[w])
          BY <2>0, <2>5, <2>18, <3>1 DEF Settle, Holds
        <5>2. place'[row[w]] \notin {"free", "queue"}
          BY <1>0, <5>1, QueueAssumption DEF Ack, Held, Allocated, TypeOK, QTypeOK, qvars
        <5>3. QED
          BY <4>1, <5>1, <5>2 DEF OffQueue
      <4>3. Knows(w)'
        BY <2>4, <2>5, <3>1, <4>1, <4>2, Stable
      <4>4. QED
        BY <2>3, <4>1, <4>3
    <3>2. CASE EndStep(w)
      BY <2>2, <2>8, <3>2 DEF EndStep
    <3>3. QED
      BY <2>18, <3>1, <3>2 DEF Settle
  <2>19. QED
    BY <1>3, <2>10, <2>11, <2>12, <2>13, <2>14, <2>15, <2>16, <2>17, <2>18 DEF Continue
<1>4. ASSUME NEW w \in Worker, Crash(w) \/ Shutdown(w) \/ Restart(w) \/ PullEnds(w)
      PROVE \A v \in Worker : Good(v)
  <2>1. \A v \in Worker \ {w} : Same(v)
    BY <1>0, <1>4 DEF Crash, Shutdown, Restart, PullEnds, Leave, TypeOK
  <2>2. pc'[w] \in {"idle"} \cup Off \/ Same(w)
    BY <1>0, <1>4 DEF Crash, Shutdown, Restart, PullEnds, Leave, TypeOK, Off
  <2>3. QED
    BY <1>1, <2>1, <2>2, Outside
<1>5. CASE UNCHANGED <<pc, row, out>>
  BY <1>1, <1>5
<1>6. QED
  BY <1>2, <1>3, <1>4, <1>5 DEF Next, vars, localVars, Produce, Requeue, Tick
-----------------------------------------------------------------------------
(* The safety invariants.                                                  *)

\* A row becomes acked only by a replica that has notified its job.
LEMMA AckedBy ==
  ASSUME IInv, [Next]_vars, NEW i \in Id, place'[i] = "acked"
  PROVE  \/ place[i] = "acked"
         \/ \E w \in Worker :
              row[w] = i /\ out[w].ack /\ pc[w] \in {"settle", "replay_ack"}
<1> USE DEF Id
<1>0. TypeOK /\ QTypeOK
  BY DEF IInv, TypeOK
<1>1. SUFFICES ASSUME place[i] # "acked"
               PROVE \E w \in Worker :
                       row[w] = i /\ out[w].ack /\ pc[w] \in {"settle", "replay_ack"}
  OBVIOUS
<1>2. \A r : Ack(r) => r = i
  BY <1>0, <1>1 DEF Ack, QTypeOK, qvars
<1>3. ~ UNCHANGED place
  BY <1>1
<1>4. PICK w \in Worker : Pop(w) \/ Continue(w) \/ Crash(w) \/ Shutdown(w) \/ Restart(w) \/ PullEnds(w)
  <2>1. \A j \in Job : ~ Produce(j)
    BY <1>0, <1>1 DEF Produce, Enqueue, Insert, QTypeOK
  <2>2. \A r \in Id : ~ Requeue(r) /\ ~ Tick(r)
    BY <1>0, <1>1, <1>3 DEF Requeue, DlqRequeue, Insert, Tick, Expire, QTypeOK
  <2>3. QED
    BY <1>3, <2>1, <2>2 DEF Next, vars, qvars
<1>5. ~ Pop(w)
  BY <1>0, <1>1 DEF Pop, PopNone, PopRow, Promote
<1>6. ~ (Crash(w) \/ Shutdown(w) \/ Restart(w) \/ PullEnds(w))
  BY <1>3 DEF Crash, Shutdown, Restart, PullEnds, qvars
<1>7. ReplayAck(w) \/ Settle(w)
  BY <1>3, <1>4, <1>5, <1>6
     DEF Continue, Lookup, ReplayNotify, Gate, Fetch, Process, Record, Notify, Delete,
         StoreError, Abandon, qvars
<1>8. CASE ReplayAck(w)
  <2>1. Knows(w)
    BY DEF IInv, Phase
  <2>2. QED
    BY <1>2, <1>8, <2>1 DEF ReplayAck, Knows
<1>9. CASE Settle(w)
  BY <1>2, <1>3, <1>9 DEF Settle, NackWithDelay
<1>10. QED
  BY <1>7, <1>8, <1>9

LEMMA AckedNext == ASSUME IInv, [Next]_vars PROVE NoJobLost' /\ NoSilentAck'
<1> SUFFICES ASSUME NEW i \in Id, place'[i] = "acked"
             PROVE  /\ processed'[KeyOf[payload'[i]]] # Unrecorded
                    /\ KeyOf[payload'[i]] \in Told'
  BY DEF NoJobLost, NoSilentAck
<1>1. /\ payload[i] \in Job
      /\ processed[KeyOf[payload[i]]] # Unrecorded
      /\ KeyOf[payload[i]] \in Told
  <2>1. CASE place[i] = "acked"
    BY <2>1 DEF IInv, NoJobLost, NoSilentAck, Allocated
  <2>2. ASSUME NEW w \in Worker, row[w] = i, out[w].ack, pc[w] \in {"settle", "replay_ack"}
        PROVE  /\ payload[i] \in Job
               /\ processed[KeyOf[payload[i]]] # Unrecorded
               /\ KeyOf[payload[i]] \in Told
    <3>1. Holds(w) /\ Knows(w)
      BY DEF IInv, HoldsRow, Phase
    <3>2. QED
      BY <2>2, <3>1
         DEF Holds, Knows, Held, HeldKey, Holding, Pc, Off, Recorded, Notified
  <2>3. QED
    BY <2>1, <2>2, AckedBy
<1>2. payload'[i] = payload[i]
  BY <1>1, QueueKept
<1>3. KeyOf[payload[i]] \in Key
  BY <1>1, KeyType
<1>4. QED
  BY <1>1, <1>2, <1>3, Stable

LEMMA OkHasNoteNext == ASSUME IInv, [Next]_vars PROVE OkHasNote'
<1> DEFINE Ok(k) == processed[k] = "ok" \/ Terminal("ok") \in sent[k]
<1> SUFFICES ASSUME NEW k \in Key, Ok(k)' PROVE k \in noted'
  BY DEF OkHasNote
<1>0. TypeOK /\ OkHasNote /\ noted \subseteq noted'
  BY Stable DEF IInv
<1>1. CASE Ok(k)
  BY <1>0, <1>1 DEF OkHasNote
<1>2. CASE \E w \in Worker : pc[w] \in Finalising /\ out[w].code = "ok" /\ HeldKey(w) = k
  <2>1. PICK w \in Worker : pc[w] \in Finalising /\ out[w].code = "ok" /\ HeldKey(w) = k
    BY <1>2
  <2>2. Knows(w)
    BY DEF IInv, Phase
  <2>3. QED
    BY <1>0, <2>1, <2>2 DEF Knows
<1>3. CASE UNCHANGED <<processed, sent>>
  BY <1>1, <1>3
<1>4. ASSUME NEW w \in Worker, Record(w) PROVE k \in noted'
  BY <1>0, <1>1, <1>2, <1>4 DEF Record, TypeOK, Finalising
<1>5. ASSUME NEW w \in Worker, ReplayNotify(w) \/ Notify(w) PROVE k \in noted'
  <2>1. CASE sent' = [sent EXCEPT ![HeldKey(w)] = @ \cup {out[w]}]
    <3>1. processed' = processed
      BY <1>5 DEF ReplayNotify, Notify
    <3>2. CASE HeldKey(w) # k \/ out[w] # Terminal("ok")
      BY <1>0, <1>1, <2>1, <3>1, <3>2 DEF TypeOK
    <3>3. CASE HeldKey(w) = k /\ out[w] = Terminal("ok")
      BY <1>2, <1>5, <3>3, TerminalType DEF ReplayNotify, Notify, Finalising, Code
    <3>4. QED
      BY <3>2, <3>3
  <2>2. CASE UNCHANGED sent
    BY <1>3, <1>5, <2>2 DEF ReplayNotify, Notify
  <2>3. QED
    BY <1>5, <2>1, <2>2 DEF ReplayNotify, Notify
<1>6. ASSUME NEW w \in Worker, Continue(w) PROVE k \in noted'
  <2>1. CASE Record(w) \/ ReplayNotify(w) \/ Notify(w)
    BY <1>4, <1>5, <2>1
  <2>2. CASE UNCHANGED <<processed, sent>>
    BY <1>3, <2>2
  <2>3. QED
    BY <1>6, <2>1, <2>2
       DEF Continue, Lookup, ReplayAck, Gate, Fetch, Process, Settle, Delete, StoreError,
           Abandon, storeVars
<1>7. QED
  BY <1>3, <1>6
     DEF Next, vars, storeVars, Pop, Crash, Shutdown, Restart, PullEnds, Produce, Requeue, Tick

\* Audio disappears only when a replica that has finished its job deletes it.
LEMMA AudioKeptNext == ASSUME IInv, [Next]_vars PROVE AudioKept'
<1> SUFFICES ASSUME NEW i \in Id, NEW j \in Job, payload'[i] = j, j \notin Unput
             PROVE  AudioOf[j] \in audio' \/ processed'[KeyOf[j]] # Unrecorded
  BY DEF AudioKept
<1> DEFINE Kept == AudioOf[j] \in audio' \/ processed'[KeyOf[j]] # Unrecorded
           Same == audio' = audio /\ payload' = payload
<1>0. TypeOK /\ AudioKept /\ QTypeOK /\ KeyOf[j] \in Key
  BY KeyType DEF IInv, TypeOK
<1>1. processed[KeyOf[j]] # Unrecorded => Kept
  BY <1>0, Stable
<1>2. \A r \in Id : payload[r] = j => AudioOf[j] \in audio \/ processed[KeyOf[j]] # Unrecorded
  BY <1>0 DEF AudioKept
<1>3. ASSUME NEW r \in Id, payload[r] = j, audio \subseteq audio' PROVE Kept
  BY <1>1, <1>2, <1>3
<1>4. ASSUME NEW n \in Job, Produce(n) PROVE Kept
  <2>1. audio \subseteq audio'
    BY <1>4 DEF Produce
  <2>2. CASE payload[i] = j
    BY <1>3, <2>1, <2>2
  <2>3. CASE payload[i] # j
    <3>1. n = j
      BY <1>0, <1>4, <2>3, QueueAssumption DEF Produce, Enqueue, Insert, QTypeOK, Id
    <3>2. CASE \E r \in Id : payload[r] = j
      BY <1>3, <2>1, <3>2
    <3>3. CASE ~ \E r \in Id : payload[r] = j
      BY <1>4, <3>1, <3>3 DEF Produce
    <3>4. QED
      BY <3>2, <3>3
  <2>4. QED
    BY <2>2, <2>3
<1>5. ASSUME NEW d \in Id, Requeue(d) PROVE Kept
  <2>1. audio' = audio
    BY <1>5 DEF Requeue, storeVars
  <2>2. payload' = [payload EXCEPT ![nextId] = payload[d]]
    BY <1>5 DEF Requeue, DlqRequeue, Insert
  <2>3. payload[i] = j \/ payload[d] = j
    BY <1>0, <2>2 DEF QTypeOK
  <2>4. QED
    BY <1>3, <2>1, <2>3
<1>6. ASSUME NEW w \in Worker, Delete(w) PROVE Kept
  <2>1. payload' = payload
    BY <1>6 DEF Delete, qvars
  <2>2. Held(w) \in Job /\ processed[HeldKey(w)] # Unrecorded
    <3>1. Holds(w) /\ Knows(w)
      BY DEF IInv, HoldsRow, Phase
    <3>2. QED
      BY <1>6, <3>1 DEF Delete, Holds, Knows, Holding, Pc, Off, Recorded
  <2>3. CASE AudioOf[j] = HeldAudio(w)
    <3>1. KeyOf[j] = HeldKey(w)
      BY <2>2, <2>3, KeyType DEF HeldAudio, HeldKey
    <3>2. QED
      BY <1>1, <2>2, <3>1
  <2>4. CASE AudioOf[j] # HeldAudio(w)
    <3>1. AudioOf[j] \in audio => AudioOf[j] \in audio'
      BY <1>6, <2>4 DEF Delete
    <3>2. QED
      BY <1>1, <1>2, <2>1, <3>1
  <2>5. QED
    BY <2>3, <2>4
<1>7. ASSUME Same PROVE Kept
  BY <1>3, <1>7
<1>8. ASSUME NEW w \in Worker, Continue(w), ~ Delete(w) PROVE Same
  <2>1. payload' = payload
    BY <1>8
       DEF Continue, Lookup, ReplayNotify, ReplayAck, Gate, Fetch, Process, Record, Notify,
           Settle, StoreError, Abandon, qvars, Ack, NackWithDelay
  <2>2. audio' = audio
    BY <1>8
       DEF Continue, Lookup, ReplayNotify, ReplayAck, Gate, Fetch, Process, Record, Notify,
           Settle, StoreError, Abandon, storeVars
  <2>3. QED
    BY <2>1, <2>2
<1>9. ASSUME NEW w \in Worker, Pop(w) \/ Crash(w) \/ Shutdown(w) \/ Restart(w) \/ PullEnds(w)
      PROVE Same
  BY <1>9 DEF Pop, PopNone, PopRow, Crash, Shutdown, Restart, PullEnds, storeVars, qvars
<1>10. ASSUME NEW r \in Id, Tick(r) PROVE Same
  BY <1>10 DEF Tick, Expire, storeVars
<1>11. CASE UNCHANGED vars
  BY <1>7, <1>11 DEF vars, qvars, storeVars
<1>12. ASSUME NEW w \in Worker, Continue(w) PROVE Kept
  BY <1>6, <1>7, <1>8, <1>12
<1>13. QED
  BY <1>4, <1>5, <1>7, <1>9, <1>10, <1>11, <1>12 DEF Next

-----------------------------------------------------------------------------
(* The theorems.                                                           *)

LEMMA InitInv == Init => IInv
<1> SUFFICES ASSUME Init PROVE IInv
  OBVIOUS
<1>1. QTypeOK /\ Allocated
  BY QInitInv DEF Init, QInv
<1>2. TypeOK
  <2>1. model \in [Worker -> ModelStatus]
    BY DriverAssumption DEF Init
  <2>2. pc \in [Worker -> Pc] /\ row \in [Worker -> Id \cup {0}]
    BY DEF Init, Pc
  <2>3. out \in [Worker -> Outcome] /\ failures \in [Worker -> 0 .. FatalLimit]
    BY NoOutcomeType DEF Init, FatalLimit
  <2>4. processed \in [Key -> Code \cup {Unrecorded}] /\ sent \in [Key -> SUBSET Outcome]
    BY DEF Init
  <2>5. QED
    BY <1>1, <2>1, <2>2, <2>3, <2>4 DEF TypeOK, Init
<1>3. HoldsRow /\ Phase
  BY DEF Init, HoldsRow, Phase, Holds, Knows, Holding, Finalising, Recorded, Notified
<1>4. \A i \in Id : place[i] = "free" /\ payload[i] = NoJob
  BY DEF Init, QInit
<1>5. NoJobLost /\ NoSilentAck /\ AudioKept
  BY <1>4, QueueAssumption DEF NoJobLost, NoSilentAck, AudioKept
<1>6. OkHasNote
  BY DEF Init, OkHasNote, Unrecorded
<1>7. QED
  BY <1>1, <1>2, <1>3, <1>5, <1>6 DEF IInv

LEMMA NextInv == IInv /\ [Next]_vars => IInv'
BY TypeNext, QueueKept, PhaseNext, AckedNext, AudioKeptNext, OkHasNoteNext DEF IInv

THEOREM Invariance == Spec => []IInv
BY InitInv, NextInv, PTL DEF Spec

(* The variables of the driver and of the queue keep their types; no row is *)
(* delivered more than max_receive times.                                   *)
THEOREM TypeCorrect == Spec => []TypeOK
<1>1. IInv => TypeOK
  BY DEF IInv
<1>2. QED
  BY <1>1, Invariance, PTL

(* Every acked row has its outcome in processed_jobs, for any number of     *)
(* replicas, through crashes, shutdowns and failing stores.                 *)
THEOREM JobsNotLost == Spec => []NoJobLost
<1>1. IInv => NoJobLost
  BY DEF IInv
<1>2. QED
  BY <1>1, Invariance, PTL

(* Every acked row has a terminal result on the notify queue, unless its    *)
(* enqueue failed and was logged.                                           *)
THEOREM AcksNotSilent == Spec => []NoSilentAck
<1>1. IInv => NoSilentAck
  BY DEF IInv
<1>2. QED
  BY <1>1, Invariance, PTL

(* The audio of a job without an outcome is in the bucket once put there.   *)
THEOREM AudioNotLost == Spec => []AudioKept
<1>1. IInv => AudioKept
  BY DEF IInv
<1>2. QED
  BY <1>1, Invariance, PTL

(* A record or a notification of success has a note behind it.              *)
THEOREM OkNotInvented == Spec => []OkHasNote
<1>1. IInv => OkHasNote
  BY DEF IInv
<1>2. QED
  BY <1>1, Invariance, PTL

(* The driver with its environment uses the queue as its specification says, *)
(* so the queue keeps the contract of the Queue trait in the whole system.   *)
THEOREM DriverKeepsContract == Spec => KeepsContract
<1>1. IInv /\ [Next]_vars => [QNext]_qvars
  BY QueueSteps DEF IInv
<1>2. Init => QInit
  BY DEF Init
<1>3. Spec => QSpec
  BY <1>1, <1>2, Invariance, PTL DEF Spec, QSpec
<1>4. QED
  BY <1>3, QueueKeepsContract

-----------------------------------------------------------------------------
\* The driver implements Finalization: every step of a replica, of the producer,
\* of the administrator or of the clock is a step of the abstract order, or
\* leaves its variables alone.

Acked == {i \in Id : place[i] = "acked"}

\* The variables of Finalization, as the driver's.
orderVars == <<payload, Acked, OffQueue, processed, Told, audio>>

LEMMA OrderVars == (UNCHANGED orderVars) => (UNCHANGED Order!vars)
BY DEF orderVars, Order!vars, Acked

\* What a replica that holds a job knows of it.
LEMMA Knowledge ==
  ASSUME IInv, NEW w \in Worker, pc[w] \in Holding
  PROVE  /\ row[w] \in Id /\ Held(w) \in Job /\ HeldKey(w) \in Key
         /\ Held(w) = payload[row[w]] /\ HeldKey(w) = KeyOf[Held(w)]
         /\ out[w] \in Outcome
         /\ Knows(w)
BY KeyType DEF IInv, HoldsRow, Phase, Holds, Held, HeldKey, TypeOK

\* A step of a replica that keeps the stores and the place of every row is
\* invisible.
LEMMA Invisible ==
  ASSUME payload' = payload, UNCHANGED <<processed, sent, dropped, audio>>, place' = place
  PROVE  UNCHANGED orderVars
BY DEF orderVars, Acked, OffQueue, Told

\* Ack settles the row of a job that has been told.
LEMMA AckSettles ==
  ASSUME IInv, NEW r \in Id, Ack(r), payload[r] \in Job, KeyOf[payload[r]] \in Told,
         UNCHANGED <<processed, sent, dropped, audio>>
  PROVE  Order!Settle(r) \/ UNCHANGED orderVars
<1>1. CASE UNCHANGED qvars
  BY <1>1, Invisible DEF qvars
<1>2. CASE place' = [place EXCEPT ![r] = "acked"] /\ payload' = payload
  <2>1. Acked' = Acked \cup {r}
    BY <1>2 DEF IInv, TypeOK, QTypeOK, Acked
  <2>2. OffQueue' = OffQueue \cup {r}
    BY <1>2 DEF IInv, TypeOK, QTypeOK, OffQueue
  <2>3. Told' = Told
    BY DEF Told
  <2>4. payload[r] # NoJob
    BY QueueAssumption
  <2>5. QED
    BY <1>2, <2>1, <2>2, <2>3, <2>4 DEF Order!Settle, Acked
<1>3. QED
  BY <1>1, <1>2 DEF Ack

\* Enqueueing a result tells its key, if the result is terminal.
LEMMA NotifyTells ==
  ASSUME IInv, NEW w \in Worker, pc[w] \in {"notify", "replay_notify"},
         UNCHANGED <<qvars, processed, audio>>,
         \/ /\ sent' = [sent EXCEPT ![HeldKey(w)] = @ \cup {out[w]}]
            /\ UNCHANGED dropped
         \/ /\ dropped' = dropped \cup {k \in {HeldKey(w)} : out[w].ack}
            /\ UNCHANGED sent
  PROVE  Order!Tell(HeldKey(w)) \/ UNCHANGED orderVars
<1> DEFINE k == HeldKey(w)
<1>1. Knows(w) /\ k \in Key /\ sent \in [Key -> SUBSET Outcome]
  BY Knowledge DEF Holding, Pc, Off, IInv, TypeOK
<1>2. payload' = payload /\ Acked' = Acked /\ OffQueue' = OffQueue
  BY DEF qvars, Acked, OffQueue
<1>3. CASE out[w].ack
  <2>1. processed[k] # Unrecorded
    BY <1>1, <1>3 DEF Knows, Recorded
  <2>2. Told' = Told \cup {k}
    BY <1>1, <1>3 DEF Told
  <2>3. QED
    BY <1>2, <2>1, <2>2 DEF Order!Tell, Acked
<1>4. CASE ~ out[w].ack
  <2>1. Told' = Told
    BY <1>1, <1>4 DEF Told
  <2>2. QED
    BY <1>2, <2>1 DEF orderVars
<1>5. QED
  BY <1>3, <1>4

\* A new row is a job that arrives.
LEMMA InsertSubmits ==
  ASSUME IInv, NEW j \in Job, Insert(j),
         Acked' = Acked, OffQueue' = OffQueue,
         audio' \in {audio, audio \cup {AudioOf[j]}},
         UNCHANGED <<processed, sent, dropped>>
  PROVE  \E r \in Id : Order!Submit(r, j)
<1>1. nextId \in Id /\ payload[nextId] = NoJob
  BY FreshId DEF Insert
<1>2. payload' = [payload EXCEPT ![nextId] = j]
  BY DEF Insert
<1>3. Told' = Told
  BY DEF Told
<1>4. Order!Submit(nextId, j)
  BY <1>1, <1>2, <1>3 DEF Order!Submit, Acked
<1>5. QED
  BY <1>1, <1>4

-----------------------------------------------------------------------------
LEMMA OrderInit == Init => Order!Init
<1> SUFFICES ASSUME Init PROVE Order!Init
  OBVIOUS
<1>1. Told = {}
  BY DEF Init, Told
<1>2. Acked = {} /\ OffQueue = {}
  BY DEF Init, QInit, Acked, OffQueue
<1>3. QED
  BY <1>1, <1>2 DEF Init, QInit, Order!Init, Acked

LEMMA OrderNext == IInv /\ [Next]_vars => [Order!Next]_Order!vars
<1> SUFFICES ASSUME IInv, [Next]_vars PROVE Order!Next \/ UNCHANGED orderVars
  BY OrderVars
<1>0. TypeOK /\ QTypeOK
  BY DEF IInv, TypeOK
<1>1. CASE UNCHANGED vars
  BY <1>1, Invisible DEF vars, qvars, storeVars
<1>2. ASSUME NEW w \in Worker, Pop(w) PROVE Order!Next
  <2>1. payload' = payload /\ UNCHANGED storeVars
    BY <1>2 DEF Pop, PopNone, PopRow
  <2>2. PICK S \in SUBSET Visible : place' = Promote(S)
    BY <1>2 DEF Pop, PopNone, PopRow
  <2>3. Told' = Told /\ Acked' = Acked
    BY <2>1, <2>2 DEF storeVars, Told, Acked, Promote, Visible
  <2>4. OffQueue' = OffQueue \cup S
    BY <2>2 DEF OffQueue, Promote, Visible
  <2>5. S \subseteq Id /\ \A r \in S : payload[r] # NoJob
    BY QueueAssumption DEF Visible, IInv, Allocated
  <2>6. Order!GiveUp(S)
    BY <2>1, <2>3, <2>4, <2>5 DEF Order!GiveUp, Acked, storeVars
  <2>7. QED
    BY <2>5, <2>6 DEF Order!Next
<1>3. ASSUME NEW w \in Worker, Continue(w) PROVE Order!Next \/ UNCHANGED orderVars
  <2>1. CASE Lookup(w) \/ Gate(w) \/ Fetch(w) \/ Process(w) \/ StoreError(w)
    BY <2>1, Invisible
       DEF Lookup, Gate, Fetch, Process, StoreError, Abandon, qvars, storeVars
  <2>2. CASE Record(w)
    <3>1. HeldKey(w) \in Key /\ out[w].code \in Code
      BY <2>2, Knowledge DEF Record, Holding, Pc, Off, Outcome
    <3>2. Told' = Told /\ Acked' = Acked /\ OffQueue' = OffQueue
      BY <2>2 DEF Record, Told, Acked, OffQueue, qvars
    <3>3. Order!Decide(HeldKey(w), out[w].code)
      BY <2>2, <3>2 DEF Record, Order!Decide, Acked, qvars
    <3>4. QED
      BY <3>1, <3>3 DEF Order!Next
  <2>3. CASE ReplayNotify(w) \/ Notify(w)
    <3>1. pc[w] \in {"notify", "replay_notify"} /\ UNCHANGED <<qvars, processed, audio>>
      BY <2>3 DEF ReplayNotify, Notify
    <3>2. pc[w] \in Holding
      BY <3>1 DEF Holding, Pc, Off
    <3>3. HeldKey(w) \in Key /\ (pc[w] = "replay_notify" => out[w].ack)
      BY <3>1, <3>2, Knowledge DEF Knows
    <3>4. \/ /\ sent' = [sent EXCEPT ![HeldKey(w)] = @ \cup {out[w]}]
             /\ UNCHANGED dropped
          \/ /\ dropped' = dropped \cup {k \in {HeldKey(w)} : out[w].ack}
             /\ UNCHANGED sent
      <4>1. CASE Notify(w)
        BY <4>1 DEF Notify
      <4>2. CASE ReplayNotify(w)
        <5>1. {k \in {HeldKey(w)} : out[w].ack} = {HeldKey(w)}
          BY <3>3, <4>2 DEF ReplayNotify
        <5>2. QED
          BY <4>2, <5>1 DEF ReplayNotify
      <4>3. QED
        BY <2>3, <4>1, <4>2
    <3>5. Order!Tell(HeldKey(w)) \/ UNCHANGED orderVars
      BY <3>1, <3>4, NotifyTells
    <3>6. QED
      BY <3>3, <3>5 DEF Order!Next
  <2>4. ASSUME NEW r \in Id, row[w] = r, Ack(r), out[w].ack,
               pc[w] \in {"settle", "replay_ack"}, UNCHANGED storeVars
        PROVE  Order!Next \/ UNCHANGED orderVars
    <3>1. payload[r] \in Job /\ KeyOf[payload[r]] \in Told
      BY <2>4, Knowledge DEF Holding, Pc, Off, Knows, Notified, Held, HeldKey
    <3>2. Order!Settle(r) \/ UNCHANGED orderVars
      BY <2>4, <3>1, AckSettles DEF storeVars
    <3>3. QED
      BY <3>2 DEF Order!Next
  <2>5. CASE ReplayAck(w)
    <3>1. pc[w] \in Holding
      BY <2>5 DEF ReplayAck, Holding, Pc, Off
    <3>2. QED
      BY <2>4, <2>5, <3>1, Knowledge DEF ReplayAck, Knows
  <2>6. CASE Settle(w)
    <3>1. pc[w] \in Holding
      BY <2>6 DEF Settle, Holding, Pc, Off
    <3>2. CASE out[w].ack
      BY <2>4, <2>6, <3>1, <3>2, Knowledge DEF Settle
    <3>3. CASE ~ out[w].ack
      BY <2>6, <3>3, Invisible DEF Settle, NackWithDelay, storeVars
    <3>4. QED
      BY <3>2, <3>3
  <2>7. CASE Delete(w)
    <3>1. CASE audio' = audio
      BY <2>7, <3>1, Invisible DEF Delete, qvars
    <3>2. CASE audio' = audio \ {HeldAudio(w)}
      <4>1. Held(w) \in Job /\ KeyOf[Held(w)] \in Told /\ row[w] \in OffQueue
            /\ payload[row[w]] = Held(w)
        BY <2>7, Knowledge DEF Delete, Holding, Pc, Off, Knows, Notified
      <4>2. Told' = Told /\ Acked' = Acked /\ OffQueue' = OffQueue
        BY <2>7 DEF Delete, Told, Acked, OffQueue, qvars
      <4>3. Order!Erase(Held(w))
        BY <2>7, <3>2, <4>1, <4>2 DEF Delete, Order!Erase, HeldAudio, Acked, qvars
      <4>4. QED
        BY <4>1, <4>3 DEF Order!Next
    <3>3. QED
      BY <2>7, <3>1, <3>2 DEF Delete
  <2>8. QED
    BY <1>3, <2>1, <2>2, <2>3, <2>5, <2>6, <2>7 DEF Continue
<1>4. ASSUME NEW w \in Worker, Crash(w) \/ Shutdown(w) \/ Restart(w) \/ PullEnds(w)
      PROVE  UNCHANGED orderVars
  BY <1>4, Invisible DEF Crash, Shutdown, Restart, PullEnds, qvars, storeVars
<1>5. ASSUME NEW j \in Job, Produce(j) PROVE Order!Next
  <2>1. nextId \in Id /\ place[nextId] = "free"
    <3>1. nextId <= MaxId
      BY <1>5 DEF Produce, Enqueue, Insert
    <3>2. QED
      BY <3>1, FreshId
  <2>2. Acked' = Acked /\ OffQueue' = OffQueue
    BY <1>0, <1>5, <2>1 DEF Produce, Enqueue, QTypeOK, Acked, OffQueue
  <2>3. QED
    BY <1>5, <2>2, InsertSubmits DEF Produce, Enqueue, Order!Next
<1>6. ASSUME NEW i \in Id, Requeue(i) PROVE Order!Next
  <2>1. payload[i] \in Job /\ nextId \in Id /\ place[nextId] = "free"
    <3>1. nextId <= MaxId /\ place[i] = "dlq"
      BY <1>6 DEF Requeue, DlqRequeue, Insert
    <3>2. payload[i] \in Job
      BY <3>1 DEF IInv, Allocated
    <3>3. QED
      BY <3>1, <3>2, FreshId
  <2>2. Acked' = Acked /\ OffQueue' = OffQueue
    BY <1>0, <1>6, <2>1 DEF Requeue, DlqRequeue, QTypeOK, Acked, OffQueue
  <2>3. QED
    BY <1>6, <2>1, <2>2, InsertSubmits DEF Requeue, DlqRequeue, storeVars, Order!Next
<1>7. ASSUME NEW i \in Id, Tick(i) PROVE UNCHANGED orderVars
  BY <1>7, Invisible DEF Tick, Expire, storeVars
<1>8. QED
  BY <1>1, <1>2, <1>3, <1>4, <1>5, <1>6, <1>7 DEF Next

(* The driver keeps the order record, notify, ack, delete: no row is acked  *)
(* before the outcome of its job is in processed_jobs and told, and no      *)
(* audio deleted before, besides, the row it was delivered in is off the    *)
(* queue, for any number of replicas and whatever fails between.            *)
THEOREM DriverKeepsOrder == Spec => KeepsOrder
<1>1. Init => Order!Init
  BY OrderInit
<1>2. IInv /\ [Next]_vars => [Order!Next]_Order!vars
  BY OrderNext
<1>3. QED
  BY <1>1, <1>2, Invariance, PTL DEF Spec, KeepsOrder, Order!Spec
=============================================================================

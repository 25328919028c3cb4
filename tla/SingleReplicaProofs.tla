------------------------- MODULE SingleReplicaProofs -------------------------
(***************************************************************************)
(* What holds of a single replica, for every set of jobs, keys and audio   *)
(* objects, every max_receive and every number of rows.  Two replicas      *)
(* break each of these properties: the record of the key that a replica    *)
(* holds may then change between its lookup and its own record.            *)
(***************************************************************************)
EXTENDS QueueDriverProofs

Alone == \A u, v \in Worker : u = v

\* A replica that has found no record is still right when it acts on it.
Fresh(w) ==
  /\ pc[w] \in {"gate", "fetch", "process"} => processed[HeldKey(w)] = Unrecorded
  /\ pc[w] = "record" => Held(w) \in Ahead \/ processed[HeldKey(w)] = Unrecorded

\* What it is about to notify is what it has recorded.
Agrees(w) ==
  pc[w] \in {"notify", "replay_notify"} /\ out[w].ack /\ HeldKey(w) \in CompatKey
    => processed[HeldKey(w)] = out[w].code

\* It finds audio missing only when the producer has not put it.
Missing(w) ==
  pc[w] \in Finalising /\ out[w].code = "audio_missing" => HeldKey(w) \notin PutKey

Local(w) == Fresh(w) /\ Agrees(w) /\ Missing(w)

SInv ==
  /\ \A w \in Worker : Local(w)
  /\ ProducerAgrees
  /\ NoSpuriousMissing

-----------------------------------------------------------------------------
LEMMA WireKey == \A j \in Ahead : KeyOf[j] \notin CompatKey
BY DEF CompatKey

LEMMA UnputKey == \A j \in Unput : KeyOf[j] \notin PutKey
BY DEF PutKey

LEMMA ClassifyFound == \A e : Classify(e).code # "audio_missing"
BY DEF Classify, Terminal, Retry

\* A replica outside step() claims nothing.
LEMMA LocalOutside ==
  ASSUME NEW v \in Worker, pc'[v] \in {"idle"} \cup Off
  PROVE  Local(v)'
BY DEF Local, Fresh, Agrees, Missing, Off, Finalising

\* A step that leaves a replica and the table alone keeps what it knows.
LEMMA LocalKept ==
  ASSUME IInv, [Next]_vars, NEW v \in Worker, Local(v),
         pc'[v] = pc[v], row'[v] = row[v], out'[v] = out[v], processed' = processed
  PROVE  Local(v)'
<1>1. CASE pc[v] \notin Holding
  <2>1. pc[v] \in {"idle"} \cup Off
    BY <1>1 DEF IInv, TypeOK, Holding
  <2>2. QED
    BY <2>1, LocalOutside
<1>2. CASE pc[v] \in Holding
  <2>1. Held(v)' = Held(v) /\ HeldKey(v)' = HeldKey(v)
    BY <1>2, HeldKept
  <2>2. QED
    BY <2>1 DEF Local, Fresh, Agrees, Missing
<1>3. QED
  BY <1>1, <1>2

\* The properties of the two tables survive a step that does not touch them.
LEMMA TablesKept ==
  ASSUME ProducerAgrees, NoSpuriousMissing, UNCHANGED <<processed, sent>>
  PROVE  ProducerAgrees' /\ NoSpuriousMissing'
BY DEF ProducerAgrees, NoSpuriousMissing

\* A result may be enqueued when it agrees with the record.
LEMMA TablesNotified ==
  ASSUME IInv, ProducerAgrees, NoSpuriousMissing,
         NEW w \in Worker, Local(w), pc[w] \in {"notify", "replay_notify"},
         processed' = processed,
         sent' = sent \/ sent' = [sent EXCEPT ![HeldKey(w)] = @ \cup {out[w]}]
  PROVE  ProducerAgrees' /\ NoSpuriousMissing'
<1>1. CASE sent' = sent
  BY <1>1, TablesKept
<1>2. CASE sent' = [sent EXCEPT ![HeldKey(w)] = @ \cup {out[w]}]
  <2>0. \A k \in Key : \A o \in sent'[k] : o \in sent[k] \/ (k = HeldKey(w) /\ o = out[w])
    <3>1. sent \in [Key -> SUBSET Outcome]
      BY DEF IInv, TypeOK
    <3>2. \A k \in Key : k # HeldKey(w) => sent'[k] = sent[k]
      BY <1>2, <3>1
    <3>3. HeldKey(w) \in Key => sent'[HeldKey(w)] = sent[HeldKey(w)] \cup {out[w]}
      BY <1>2, <3>1
    <3>4. QED
      BY <3>2, <3>3
  <2>1. ProducerAgrees'
    <3>1. SUFFICES ASSUME NEW k \in CompatKey, NEW o \in sent'[k], o.ack
                   PROVE  processed[k] = o.code
      BY DEF ProducerAgrees, CompatKey
    <3>2. k \in Key
      BY DEF CompatKey
    <3>3. CASE o \in sent[k]
      BY <3>1, <3>3 DEF ProducerAgrees
    <3>4. CASE k = HeldKey(w) /\ o = out[w]
      BY <3>1, <3>4 DEF Local, Agrees
    <3>5. QED
      BY <2>0, <3>2, <3>3, <3>4
  <2>2. NoSpuriousMissing'
    <3>1. SUFFICES ASSUME NEW k \in PutKey
                   PROVE  /\ processed[k] # "audio_missing"
                          /\ Terminal("audio_missing") \notin sent'[k]
      BY DEF NoSpuriousMissing, PutKey
    <3>2. k \in Key /\ processed[k] # "audio_missing" /\ Terminal("audio_missing") \notin sent[k]
      BY DEF NoSpuriousMissing, PutKey
    <3>3. ~ (k = HeldKey(w) /\ Terminal("audio_missing") = out[w])
      BY TerminalType DEF Local, Missing, Finalising, Code
    <3>4. QED
      BY <2>0, <3>2, <3>3
  <2>3. QED
    BY <2>1, <2>2
<1>3. QED
  BY <1>1, <1>2

\* An outcome may be recorded when the key of a compatible job has none.
LEMMA RecordsOnce ==
  ASSUME IInv, NEW w \in Worker, Local(w), pc[w] = "record"
  PROVE  HeldKey(w) \in CompatKey => processed[HeldKey(w)] = Unrecorded
BY WireKey DEF Local, Fresh, HeldKey

LEMMA TablesRecorded ==
  ASSUME IInv, ProducerAgrees, NoSpuriousMissing,
         NEW w \in Worker, Local(w), pc[w] = "record", sent' = sent,
         processed' = [processed EXCEPT ![HeldKey(w)] = out[w].code]
  PROVE  ProducerAgrees' /\ NoSpuriousMissing'
<1>0. processed \in [Key -> Code \cup {Unrecorded}] /\ sent \in [Key -> SUBSET Outcome]
  BY DEF IInv, TypeOK
<1>1. \A k \in Key : k # HeldKey(w) => processed'[k] = processed[k]
  BY <1>0
<1>2. ProducerAgrees'
  <2>1. SUFFICES ASSUME NEW k \in CompatKey, NEW o \in sent[k], o.ack
                 PROVE  processed'[k] = o.code
    BY DEF ProducerAgrees, CompatKey
  <2>2. k \in Key /\ processed[k] = o.code /\ o \in Outcome
    BY <1>0, <2>1 DEF ProducerAgrees, CompatKey
  <2>3. k # HeldKey(w)
    BY <2>2, RecordsOnce DEF Outcome, Code, Unrecorded
  <2>4. QED
    BY <1>1, <2>2, <2>3
<1>3. NoSpuriousMissing'
  <2>1. SUFFICES ASSUME NEW k \in PutKey
                 PROVE  /\ processed'[k] # "audio_missing"
                        /\ Terminal("audio_missing") \notin sent[k]
    BY DEF NoSpuriousMissing, PutKey
  <2>2. k \in Key /\ processed[k] # "audio_missing" /\ Terminal("audio_missing") \notin sent[k]
    BY DEF NoSpuriousMissing, PutKey
  <2>3. CASE k # HeldKey(w)
    BY <1>1, <2>2, <2>3
  <2>4. CASE k = HeldKey(w)
    <3>1. out[w].code # "audio_missing"
      BY <2>4 DEF Local, Missing, Finalising
    <3>2. QED
      BY <1>0, <2>2, <2>4, <3>1
  <2>5. QED
    BY <2>3, <2>4
<1>4. QED
  BY <1>2, <1>3

-----------------------------------------------------------------------------
(* The steps of the replica that acts.                                     *)

LEMMA LocalContinue ==
  ASSUME IInv, SInv, [Next]_vars, NEW w \in Worker, Continue(w)
  PROVE  Local(w)' /\ ProducerAgrees' /\ NoSpuriousMissing'
<1> DEFINE Goal == Local(w)' /\ ProducerAgrees' /\ NoSpuriousMissing'
<1>0. TypeOK /\ Knows(w) /\ Local(w) /\ ProducerAgrees /\ NoSpuriousMissing
  BY DEF IInv, Phase, SInv
<1>1. pc[w] \in Holding
  BY DEF Continue, Lookup, ReplayNotify, ReplayAck, Gate, Fetch, Process,
         Record, Notify, Settle, Delete, StoreError, Holding, Pc, Off
<1>2. row'[w] = row[w] => Held(w)' = Held(w) /\ HeldKey(w)' = HeldKey(w) /\ HeldKey(w) \in Key
  BY <1>1, HeldKept
<1>3. Held(w) \in Job /\ HeldKey(w) = KeyOf[Held(w)] /\ row[w] \in Id
  BY <1>1 DEF IInv, HoldsRow, Holds, HeldKey
<1>4. \A l : Goto(w, l) => pc'[w] = l /\ row'[w] = row[w] /\ out'[w] = out[w]
  BY <1>0 DEF Goto, TypeOK
<1>5. \A l, o : Conclude(w, l, o) => pc'[w] = l /\ row'[w] = row[w] /\ out'[w] = o
  BY <1>0 DEF Conclude, TypeOK
<1>6. EndStep(w) => Local(w)'
  <2>1. EndStep(w) => pc'[w] = "idle"
    BY <1>0 DEF EndStep, Leave, TypeOK
  <2>2. QED
    BY <2>1, LocalOutside
<1>7. UNCHANGED <<processed, sent>> => ProducerAgrees' /\ NoSpuriousMissing'
  BY <1>0, TablesKept
<1>8. CASE Lookup(w)
  <2>1. ProducerAgrees' /\ NoSpuriousMissing' /\ processed' = processed /\ pc[w] = "lookup"
    BY <1>7, <1>8 DEF Lookup, storeVars
  <2>2. CASE processed[HeldKey(w)] = Unrecorded /\ Goto(w, "gate")
    BY <1>2, <1>4, <2>1, <2>2 DEF Local, Fresh, Agrees, Missing, Finalising
  <2>3. CASE /\ processed[HeldKey(w)] # Unrecorded
             /\ Conclude(w, "replay_notify", Terminal(processed[HeldKey(w)]))
    <3>1. pc'[w] = "replay_notify" /\ row'[w] = row[w]
          /\ out'[w] = Terminal(processed[HeldKey(w)])
      BY <1>5, <2>3
    <3>2. processed[HeldKey(w)] \in Code
      BY <1>0, <1>2, <2>3, <3>1 DEF TypeOK
    <3>3. out'[w].code = processed[HeldKey(w)]
      BY <3>1, <3>2, TerminalType
    <3>4. HeldKey(w) \in PutKey => processed[HeldKey(w)] # "audio_missing"
      BY <1>0 DEF NoSpuriousMissing
    <3>5. QED
      BY <1>2, <2>1, <3>1, <3>3, <3>4 DEF Local, Fresh, Agrees, Missing, PutKey, CompatKey
  <2>4. QED
    BY <1>8, <2>1, <2>2, <2>3 DEF Lookup
<1>9. CASE ReplayNotify(w) \/ Notify(w)
  <2>1. /\ pc[w] \in {"notify", "replay_notify"}
        /\ processed' = processed
        /\ sent' = sent \/ sent' = [sent EXCEPT ![HeldKey(w)] = @ \cup {out[w]}]
    BY <1>9 DEF ReplayNotify, Notify
  <2>2. pc'[w] \in {"settle", "replay_ack"} /\ row'[w] = row[w] /\ out'[w] = out[w]
    BY <1>4, <1>9 DEF ReplayNotify, Notify
  <2>3. Local(w)'
    BY <1>0, <1>2, <2>1, <2>2 DEF Local, Fresh, Agrees, Missing, Finalising, PutKey
  <2>4. QED
    BY <1>0, <2>1, <2>3, TablesNotified
<1>10. CASE ReplayAck(w) \/ Delete(w) \/ StoreError(w)
  BY <1>6, <1>7, <1>10 DEF ReplayAck, Delete, StoreError, Abandon, storeVars
<1>11. CASE Gate(w)
  <2>1. pc[w] = "gate" /\ UNCHANGED <<processed, sent>>
    BY <1>11 DEF Gate, storeVars
  <2>2. CASE Goto(w, "fetch")
    BY <1>0, <1>2, <1>4, <1>7, <2>1, <2>2 DEF Local, Fresh, Agrees, Missing, Finalising
  <2>3. CASE Leave(w, "idle")
    <3>1. pc'[w] = "idle"
      BY <1>0, <2>3 DEF Leave, TypeOK
    <3>2. QED
      BY <1>7, <2>1, <3>1, LocalOutside
  <2>4. QED
    BY <1>11, <2>2, <2>3 DEF Gate, EndStep
<1>12. CASE Fetch(w)
  <2>1. pc[w] = "fetch" /\ UNCHANGED <<processed, sent>>
    BY <1>12 DEF Fetch, storeVars
  <2>2. processed[HeldKey(w)] = Unrecorded
    BY <1>0, <2>1 DEF Local, Fresh
  <2>3. CASE Goto(w, "process")
    BY <1>2, <1>4, <1>7, <2>1, <2>2, <2>3 DEF Local, Fresh, Agrees, Missing, Finalising
  <2>4. CASE HeldAudio(w) \notin audio /\ Conclude(w, "record", Terminal("audio_missing"))
    <3>1. pc'[w] = "record" /\ row'[w] = row[w]
      BY <1>5, <2>4
    <3>2. Held(w) \in Unput
      BY <1>3, <2>2, <2>4 DEF IInv, AudioKept, HeldAudio, Held
    <3>3. HeldKey(w) \notin PutKey
      BY <1>3, <3>2, UnputKey
    <3>4. QED
      BY <1>2, <1>7, <2>1, <2>2, <3>1, <3>3 DEF Local, Fresh, Agrees, Missing, PutKey
  <2>5. CASE Conclude(w, "notify", Retry("internal"))
    <3>1. pc'[w] = "notify" /\ ~out'[w].ack /\ out'[w].code = "internal"
      BY <1>5, <2>5, RetryType DEF Code
    <3>2. QED
      BY <1>7, <2>1, <3>1 DEF Local, Fresh, Agrees, Missing
  <2>6. QED
    BY <1>12, <2>3, <2>4, <2>5 DEF Fetch
<1>13. CASE Process(w)
  <2>1. pc[w] = "process" /\ UNCHANGED <<processed, sent>>
    BY <1>13 DEF Process
  <2>2. processed[HeldKey(w)] = Unrecorded
    BY <1>0, <2>1 DEF Local, Fresh
  <2>3. ASSUME NEW l, NEW o, Conclude(w, l, o), o.code # "audio_missing",
               l = "record" \/ (l = "notify" /\ ~o.ack)
        PROVE  Goal
    <3>1. pc'[w] = l /\ row'[w] = row[w] /\ out'[w] = o
      BY <1>5, <2>3
    <3>2. QED
      BY <1>2, <1>7, <2>1, <2>2, <2>3, <3>1 DEF Local, Fresh, Agrees, Missing
  <2>4. CASE Conclude(w, "record", Terminal("ok")) \/ Conclude(w, "record", Terminal("no_speech"))
    BY <2>3, <2>4, TerminalType DEF Code
  <2>5. CASE Conclude(w, "notify", Retry("internal"))
    BY <2>3, <2>5, RetryType DEF Code
  <2>6. ASSUME NEW e, Conclude(w, IF Classify(e).ack THEN "record" ELSE "notify", Classify(e))
        PROVE  Goal
    <3>1. CASE Classify(e).ack
      BY <2>3, <2>6, <3>1, ClassifyFound
    <3>2. CASE ~Classify(e).ack
      BY <2>3, <2>6, <3>2, ClassifyFound
    <3>3. QED
      BY <3>1, <3>2
  <2>7. QED
    BY <1>13, <2>4, <2>5, <2>6 DEF Process
<1>14. CASE Record(w)
  <2>1. /\ pc[w] = "record"
        /\ sent' = sent
        /\ processed' = [processed EXCEPT ![HeldKey(w)] = out[w].code]
    BY <1>14 DEF Record
  <2>2. pc'[w] = "notify" /\ row'[w] = row[w] /\ out'[w] = out[w]
    BY <1>4, <1>14 DEF Record
  <2>3. processed'[HeldKey(w)] = out[w].code
    BY <1>0, <1>2, <2>1, <2>2 DEF TypeOK
  <2>4. Local(w)'
    BY <1>0, <1>2, <2>1, <2>2, <2>3 DEF Local, Fresh, Agrees, Missing, Finalising, PutKey
  <2>5. QED
    BY <1>0, <2>1, <2>4, TablesRecorded
<1>15. CASE Settle(w)
  <2>1. pc[w] = "settle" /\ UNCHANGED <<processed, sent>>
    BY <1>15 DEF Settle, storeVars
  <2>2. CASE Goto(w, "delete")
    BY <1>0, <1>2, <1>4, <1>7, <2>1, <2>2
       DEF Local, Fresh, Agrees, Missing, Finalising, PutKey
  <2>3. QED
    BY <1>6, <1>7, <1>15, <2>1, <2>2 DEF Settle
<1>16. QED
  BY <1>8, <1>9, <1>10, <1>11, <1>12, <1>13, <1>14, <1>15 DEF Continue

LEMMA LocalPop ==
  ASSUME IInv, SInv, [Next]_vars, NEW w \in Worker, Pop(w)
  PROVE  Local(w)'
<1>0. TypeOK /\ Local(w)
  BY DEF IInv, SInv
<1>1. pc[w] = "idle" /\ processed' = processed
  BY DEF Pop, storeVars
<1>2. CASE UNCHANGED <<pc, row, out>>
  BY <1>1, <1>2, LocalOutside
<1>3. ASSUME NEW i \in Id, PopRow(i), payload[i] \in Ahead,
             pc' = [pc EXCEPT ![w] = "record"], row' = [row EXCEPT ![w] = i],
             out' = [out EXCEPT ![w] = Terminal("wire_incompat")]
      PROVE  Local(w)'
  <2>1. pc'[w] = "record" /\ row'[w] = i /\ out'[w].code = "wire_incompat"
    BY <1>0, <1>3, TerminalType DEF TypeOK, Code
  <2>2. payload'[i] = payload[i]
    BY <1>3 DEF PopRow
  <2>3. Held(w)' \in Ahead
    BY <1>3, <2>1, <2>2 DEF Held
  <2>4. QED
    BY <2>1, <2>3 DEF Local, Fresh, Agrees, Missing
<1>4. CASE pc' = [pc EXCEPT ![w] = "lookup"]
  <2>1. pc'[w] = "lookup"
    BY <1>0, <1>4 DEF TypeOK
  <2>2. QED
    BY <2>1 DEF Local, Fresh, Agrees, Missing, Finalising
<1>5. QED
  BY <1>2, <1>3, <1>4 DEF Pop

LEMMA SNext ==
  ASSUME Alone, IInv, SInv, [Next]_vars
  PROVE  SInv'
<1> DEFINE Goal == (\A v \in Worker : Local(v)') /\ ProducerAgrees' /\ NoSpuriousMissing'
<1> SUFFICES Goal
  BY DEF SInv
<1>0. TypeOK /\ (\A v \in Worker : Local(v)) /\ ProducerAgrees /\ NoSpuriousMissing
  BY DEF IInv, SInv
<1>1. UNCHANGED <<processed, sent>> => ProducerAgrees' /\ NoSpuriousMissing'
  BY <1>0, TablesKept
<1>2. ASSUME NEW w \in Worker, Continue(w) PROVE Goal
  BY <1>2, LocalContinue DEF Alone
<1>3. ASSUME NEW w \in Worker, Pop(w) PROVE Goal
  <2>1. UNCHANGED <<processed, sent>>
    BY <1>3 DEF Pop, storeVars
  <2>2. QED
    BY <1>1, <1>3, <2>1, LocalPop DEF Alone
<1>4. ASSUME NEW w \in Worker, Crash(w) \/ Shutdown(w) \/ Restart(w) \/ PullEnds(w) PROVE Goal
  <2>1. UNCHANGED <<processed, sent>>
    BY <1>4 DEF Crash, Shutdown, Restart, PullEnds, storeVars
  <2>2. \/ pc'[w] \in {"idle"} \cup Off
        \/ pc'[w] = pc[w] /\ row'[w] = row[w] /\ out'[w] = out[w]
    BY <1>0, <1>4 DEF Crash, Shutdown, Restart, PullEnds, Leave, TypeOK, Off
  <2>3. Local(w)'
    BY <1>0, <2>1, <2>2, LocalOutside, LocalKept
  <2>4. QED
    BY <1>1, <2>1, <2>3 DEF Alone
<1>5. CASE UNCHANGED <<pc, row, out, processed, sent>>
  BY <1>0, <1>1, <1>5, LocalKept
<1>6. QED
  BY <1>2, <1>3, <1>4, <1>5
     DEF Next, vars, localVars, storeVars, Produce, Requeue, Tick

LEMMA SInit == ASSUME Init PROVE SInv
BY DEF Init, SInv, Local, Fresh, Agrees, Missing, Finalising, ProducerAgrees, NoSpuriousMissing,
       CompatKey, PutKey, Unrecorded

-----------------------------------------------------------------------------
(* The theorems.                                                           *)

THEOREM SInvariance == ASSUME Alone PROVE Spec => [](IInv /\ SInv)
<1>1. IInv /\ SInv /\ [Next]_vars => SInv'
  BY SNext
<1>2. QED
  BY <1>1, SInit, Invariance, PTL DEF Spec

(* One replica never transcribes a job whose outcome is recorded.           *)
THEOREM JobsNotRerun == ASSUME Alone PROVE Spec => []NoRerun
<1>1. SInv => NoRerun
  BY DEF SInv, Local, Fresh, NoRerun
<1>2. QED
  BY <1>1, SInvariance, PTL

(* With one replica the producer is told what processed_jobs says.          *)
THEOREM ProducerToldTheRecord == ASSUME Alone PROVE Spec => []ProducerAgrees
<1>1. SInv => ProducerAgrees
  BY DEF SInv
<1>2. QED
  BY <1>1, SInvariance, PTL

(* One replica never reports audio_missing for a job whose audio was put.   *)
THEOREM AudioNotMissed == ASSUME Alone PROVE Spec => []NoSpuriousMissing
<1>1. SInv => NoSpuriousMissing
  BY DEF SInv
<1>2. QED
  BY <1>1, SInvariance, PTL

(* One replica never replaces the outcome it has recorded for a job.        *)
THEOREM OutcomesStable == ASSUME Alone PROVE Spec => OutcomeStable
<1>1. IInv /\ SInv /\ [Next]_vars =>
        [\A k \in CompatKey : processed[k] # Unrecorded => processed'[k] = processed[k]]_vars
  <2> SUFFICES ASSUME IInv, SInv, [Next]_vars, NEW k \in CompatKey, processed[k] # Unrecorded
               PROVE  processed'[k] = processed[k]
    OBVIOUS
  <2>0. k \in Key /\ TypeOK
    BY DEF CompatKey, IInv
  <2>1. ASSUME NEW w \in Worker, Record(w) PROVE processed'[k] = processed[k]
    <3>1. HeldKey(w) # k
      BY <2>1, RecordsOnce DEF SInv, Record
    <3>2. QED
      BY <2>0, <2>1, <3>1 DEF Record, TypeOK
  <2>2. CASE processed' = processed
    BY <2>2
  <2>3. QED
    BY <2>1, <2>2
       DEF Next, vars, storeVars, Continue, Lookup, ReplayNotify, ReplayAck, Gate, Fetch, Process,
           Notify, Settle, Delete, StoreError, Abandon, Pop, Crash, Shutdown, Restart, PullEnds,
           Produce, Requeue, Tick
<1>2. QED
  BY <1>1, SInvariance, PTL DEF Spec, OutcomeStable
=============================================================================

-------------------------- MODULE SqliteQueueProofs --------------------------
(***************************************************************************)
(* Proofs about the queue tables alone, for every number of ids, payloads, *)
(* consumers and every max_receive.                                        *)
(***************************************************************************)
EXTENDS SqliteQueue, TLAPS

QInv == QTypeOK /\ Allocated

LEMMA QInitInv == QInit => QInv
BY QueueAssumption DEF QInit, QInv, QTypeOK, Allocated, Id, Place

LEMMA QNextInv == QInv /\ [QNext]_qvars => QInv'
<1> SUFFICES ASSUME QInv, [QNext]_qvars PROVE QInv'
  OBVIOUS
<1> USE QueueAssumption DEF QInv, QTypeOK, Allocated, Id, Place
<1>1. CASE UNCHANGED qvars
  BY <1>1 DEF qvars
<1>2. ASSUME NEW j \in Job, Enqueue(j) PROVE QInv'
  BY <1>2 DEF Enqueue, Insert
<1>3. CASE PopNone
  BY <1>3 DEF PopNone, Promote, Visible
<1>4. ASSUME NEW i \in Id, PopRow(i) PROVE QInv'
  BY <1>4 DEF PopRow, Promote, Visible, Deliverable, Exhausted
<1>5. ASSUME NEW i \in Id, Expire(i) PROVE QInv'
  BY <1>5 DEF Expire
<1>6. ASSUME NEW i \in Id, DlqRequeue(i) PROVE QInv'
  BY <1>6 DEF DlqRequeue, Insert
<1>7. ASSUME NEW i \in Id, Ack(i) PROVE QInv'
  BY <1>7 DEF Ack, qvars
<1>8. ASSUME NEW i \in Id, NackWithDelay(i) PROVE QInv'
  BY <1>8 DEF NackWithDelay
<1>9. QED
  BY <1>1, <1>2, <1>3, <1>4, <1>5, <1>6, <1>7, <1>8 DEF QNext

(* No step of the queue disturbs what a receipt stands for: the payload of *)
(* the row and the fact that it was received.                              *)
LEMMA ReceiptStable ==
  ASSUME QInv, [QNext]_qvars, NEW i \in Id, payload[i] \in Job
  PROVE  payload'[i] = payload[i] /\ count'[i] >= count[i]
<1> USE QueueAssumption DEF QInv, QTypeOK, Allocated, Id, Place
<1>1. CASE UNCHANGED qvars
  BY <1>1 DEF qvars
<1>2. ASSUME NEW j \in Job, Enqueue(j) PROVE payload'[i] = payload[i] /\ count'[i] >= count[i]
  BY <1>2 DEF Enqueue, Insert
<1>3. CASE PopNone
  BY <1>3 DEF PopNone
<1>4. ASSUME NEW r \in Id, PopRow(r) PROVE payload'[i] = payload[i] /\ count'[i] >= count[i]
  BY <1>4 DEF PopRow
<1>5. ASSUME NEW r \in Id, DlqRequeue(r) PROVE payload'[i] = payload[i] /\ count'[i] >= count[i]
  BY <1>5 DEF DlqRequeue, Insert
<1>6. ASSUME NEW r \in Id, Expire(r) \/ Ack(r) \/ NackWithDelay(r)
      PROVE payload'[i] = payload[i] /\ count'[i] >= count[i]
  BY <1>6 DEF Expire, Ack, NackWithDelay, qvars
<1>7. QED
  BY <1>1, <1>2, <1>3, <1>4, <1>5, <1>6 DEF QNext

(* Type correctness and allocation of the queue tables (backends/sqlite.rs): *)
(* in particular no row is ever delivered more than max_receive times.      *)
THEOREM QueueTypeCorrect == QSpec => [](QTypeOK /\ Allocated)
<1>1. QInit => QInv
  BY QInitInv
<1>2. QInv /\ [QNext]_qvars => QInv'
  BY QNextInv
<1>3. QED
  BY <1>1, <1>2, PTL DEF QSpec, QInv

-----------------------------------------------------------------------------
(* The tables implement the contract of the Queue trait.                   *)

\* The tables' own state determines the message's, row by row.
LEMMA StateOf ==
  ASSUME QTypeOK, NEW i \in Id
  PROVE  /\ place[i] = "free" => MessageState(i) = "unsent"
         /\ place[i] = "queue" /\ hidden[i] => MessageState(i) = "invisible"
         /\ place[i] = "queue" /\ ~hidden[i] => MessageState(i) = "visible"
         /\ place[i] = "dlq" => MessageState(i) = "dead"
         /\ place[i] \in {"acked", "requeued"} => MessageState(i) = "removed"
BY DEF QTypeOK, MessageState, Place

LEMMA StateOfNext ==
  ASSUME QTypeOK', NEW i \in Id
  PROVE  /\ place'[i] = "free" => MessageState(i)' = "unsent"
         /\ place'[i] = "queue" /\ hidden'[i] => MessageState(i)' = "invisible"
         /\ place'[i] = "queue" /\ ~hidden'[i] => MessageState(i)' = "visible"
         /\ place'[i] = "dlq" => MessageState(i)' = "dead"
         /\ place'[i] \in {"acked", "requeued"} => MessageState(i)' = "removed"
BY DEF QTypeOK, MessageState, Place

\* A row whose columns a step leaves alone is a message whose state it leaves
\* alone.
LEMMA StateKept ==
  ASSUME QTypeOK, QTypeOK', NEW i \in Id,
         place'[i] = place[i], hidden'[i] = hidden[i]
  PROVE  MessageState(i)' = MessageState(i)
BY DEF MessageState

LEMMA ContractInit == QInit => Contract!Init
<1> SUFFICES ASSUME QInit PROVE Contract!Init
  OBVIOUS
<1>1. QTypeOK
  BY QInitInv DEF QInv
<1>2. \A i \in Id : MessageState(i) = "unsent"
  BY <1>1, StateOf DEF QInit
<1>3. QED
  BY <1>2 DEF QInit, Contract!Init

LEMMA ContractNext == QInv /\ QInv' /\ [QNext]_qvars => [Contract!Next]_Contract!vars
<1> SUFFICES ASSUME QInv, QInv', [QNext]_qvars PROVE [Contract!Next]_Contract!vars
  OBVIOUS
<1> DEFINE S == [i \in Id |-> MessageState(i)]
<1> QTypeOK /\ QTypeOK'
  BY DEF QInv
<1> USE DEF QTypeOK
<1>1. CASE UNCHANGED qvars
  <2>1. \A i \in Id : MessageState(i)' = MessageState(i)
    BY <1>1, StateKept DEF qvars
  <2>2. QED
    BY <1>1, <2>1 DEF qvars, Contract!vars
<1>2. ASSUME NEW j \in Job, Enqueue(j) PROVE Contract!Next
  <2>1. nextId \in Id /\ place[nextId] = "free" /\ ~hidden[nextId]
    BY <1>2, QueueAssumption DEF Enqueue, Insert, QInv, Allocated, Id, Place
  <2>2. S[nextId] = "unsent" /\ S'[nextId] = "visible"
    BY <1>2, <2>1, StateOf, StateOfNext DEF Enqueue, Insert
  <2>3. \A i \in Id : i # nextId => S'[i] = S[i]
    BY <1>2, <2>1, StateKept DEF Enqueue, Insert
  <2>4. S' = [S EXCEPT ![nextId] = "visible"]
    BY <2>1, <2>2, <2>3
  <2>5. Contract!Send(nextId)
    BY <1>2, <2>2, <2>4, <2>1 DEF Contract!Send, Contract!Move, Enqueue, Insert
  <2>6. QED
    BY <2>1, <2>5 DEF Contract!Next
<1>3. CASE PopNone
  <2>1. Visible \in SUBSET Contract!Spent
    BY <1>3, StateOf, QueueAssumption
       DEF PopNone, Contract!Spent, Visible, Deliverable, Exhausted, Id
  <2>2. \A i \in Visible : S'[i] = "dead"
    BY <1>3, StateOfNext DEF PopNone, Promote, Visible
  <2>3. \A i \in Id \ Visible : S'[i] = S[i]
    BY <1>3, StateKept DEF PopNone, Promote
  <2>4. S' = Contract!Buried(Visible)
    BY <2>2, <2>3 DEF Contract!Buried, Visible
  <2>5. Contract!Bury
    BY <1>3, <2>1, <2>4 DEF Contract!Bury, PopNone
  <2>6. QED
    BY <2>5 DEF Contract!Next
<1>4. ASSUME NEW r \in Id, PopRow(r) PROVE Contract!Next
  <2> DEFINE D == {j \in Visible : Exhausted(j) /\ j < r}
  <2>1. place[r] = "queue" /\ ~hidden[r] /\ count[r] < MaxReceive /\ r \notin D
    BY <1>4, QueueAssumption DEF PopRow, Visible, Deliverable, Exhausted, Id
  <2>2. S[r] = "visible" /\ S'[r] = "invisible"
    BY <1>4, <2>1, StateOf, StateOfNext DEF PopRow, Promote
  <2>3. D \in SUBSET Contract!Spent
    BY StateOf, QueueAssumption DEF Contract!Spent, Visible, Exhausted, Id
  <2>4. \A i \in D : S'[i] = "dead"
    BY <1>4, <2>1, StateOfNext DEF PopRow, Promote, Visible
  <2>5. \A i \in Id : i \notin D /\ i # r => S'[i] = S[i]
    BY <1>4, StateKept DEF PopRow, Promote
  <2>6. S' = [Contract!Buried(D) EXCEPT ![r] = "invisible"]
    BY <2>1, <2>2, <2>4, <2>5 DEF Contract!Buried, Visible
  <2>7. Contract!Deliver(r)
    BY <1>4, <2>1, <2>2, <2>3, <2>6 DEF Contract!Deliver, PopRow
  <2>8. QED
    BY <2>7 DEF Contract!Next
<1>5. ASSUME NEW r \in Id, Expire(r) PROVE Contract!Next
  <2>1. S[r] = "invisible" /\ S'[r] = "visible"
    BY <1>5, StateOf, StateOfNext DEF Expire
  <2>2. \A i \in Id : i # r => S'[i] = S[i]
    BY <1>5, StateKept DEF Expire
  <2>3. S' = [S EXCEPT ![r] = "visible"]
    BY <2>1, <2>2
  <2>4. Contract!Reappear(r)
    BY <1>5, <2>1, <2>3 DEF Contract!Reappear, Contract!Move, Expire
  <2>5. QED
    BY <2>4 DEF Contract!Next
<1>6. ASSUME NEW r \in Id, DlqRequeue(r) PROVE Contract!Next
  <2>1. nextId \in Id /\ place[nextId] = "free" /\ ~hidden[nextId] /\ nextId # r
    BY <1>6, QueueAssumption DEF DlqRequeue, Insert, QInv, Allocated, Id, Place
  <2>2. S[nextId] = "unsent" /\ S'[nextId] = "visible" /\ S[r] = "dead" /\ S'[r] = "removed"
    BY <1>6, <2>1, StateOf, StateOfNext DEF DlqRequeue, Insert
  <2>3. \A i \in Id : i # nextId /\ i # r => S'[i] = S[i]
    BY <1>6, <2>1, StateKept DEF DlqRequeue, Insert
  <2>4. S' = [S EXCEPT ![r] = "removed", ![nextId] = "visible"]
    BY <2>1, <2>2, <2>3
  <2>5. Contract!Revive(r, nextId)
    BY <1>6, <2>2, <2>4 DEF Contract!Revive, DlqRequeue, Insert
  <2>6. QED
    BY <2>1, <2>5 DEF Contract!Next
<1>7. ASSUME NEW r \in Id, count[r] > 0, Ack(r) PROVE [Contract!Next]_Contract!vars
  <2>1. CASE place[r] # "queue"
    <3>1. UNCHANGED qvars
      BY <1>7, <2>1 DEF Ack
    <3>2. \A i \in Id : S'[i] = S[i]
      BY <3>1, StateKept DEF qvars
    <3>3. QED
      BY <3>1, <3>2 DEF qvars, Contract!vars
  <2>2. CASE place[r] = "queue"
    <3>1. S[r] \in {"visible", "invisible"} /\ S'[r] = "removed"
      BY <1>7, <2>2, StateOf, StateOfNext DEF Ack
    <3>2. \A i \in Id : i # r => S'[i] = S[i]
      BY <1>7, <2>2, StateKept DEF Ack
    <3>3. S' = [S EXCEPT ![r] = "removed"]
      BY <3>1, <3>2
    <3>4. Contract!Remove(r)
      BY <1>7, <2>2, <3>1, <3>3 DEF Contract!Remove, Contract!Settleable, Contract!Move, Ack
    <3>5. QED
      BY <3>4 DEF Contract!Next
  <2>3. QED
    BY <2>1, <2>2
<1>8. ASSUME NEW r \in Id, count[r] > 0, NackWithDelay(r) PROVE [Contract!Next]_Contract!vars
  <2>1. CASE place[r] # "queue"
    <3>1. \A i \in Id : S'[i] = S[i]
      <4>1. S'[r] = S[r]
        BY <1>8, <2>1, StateOf, StateOfNext DEF NackWithDelay, Place
      <4>2. \A i \in Id : i # r => S'[i] = S[i]
        BY <1>8, StateKept DEF NackWithDelay
      <4>3. QED
        BY <4>1, <4>2
    <3>2. QED
      BY <1>8, <3>1 DEF NackWithDelay, Contract!vars
  <2>2. CASE place[r] = "queue"
    <3>1. S[r] \in {"visible", "invisible"} /\ S'[r] = "invisible"
      BY <1>8, <2>2, StateOf, StateOfNext DEF NackWithDelay
    <3>2. \A i \in Id : i # r => S'[i] = S[i]
      BY <1>8, StateKept DEF NackWithDelay
    <3>3. S' = [S EXCEPT ![r] = "invisible"]
      BY <3>1, <3>2
    <3>4. Contract!Postpone(r)
      BY <1>8, <3>1, <3>3 DEF Contract!Postpone, Contract!Settleable, Contract!Move, NackWithDelay
    <3>5. QED
      BY <3>4 DEF Contract!Next
  <2>3. QED
    BY <2>1, <2>2
<1>9. QED
  BY <1>1, <1>2, <1>3, <1>4, <1>5, <1>6, <1>7, <1>8 DEF QNext

(* The SQLite tables keep the contract of the Queue trait, for any number of *)
(* messages and consumers, stale receipts included.                         *)
THEOREM QueueKeepsContract == QSpec => KeepsContract
<1>1. QInit => QInv /\ Contract!Init
  BY QInitInv, ContractInit
<1>2. QInv /\ [QNext]_qvars => QInv'
  BY QNextInv
<1>3. QInv /\ QInv' /\ [QNext]_qvars => [Contract!Next]_Contract!vars
  BY ContractNext
<1>4. QED
  BY <1>1, <1>2, <1>3, PTL DEF QSpec, KeepsContract, Contract!Spec
=============================================================================

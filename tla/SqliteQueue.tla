----------------------------- MODULE SqliteQueue -----------------------------
(***************************************************************************)
(* The transcribe queue of backends/sqlite.rs: the table queue_<name>, its *)
(* dead-letter table queue_<name>_dlq, and the operations consumers and    *)
(* the administrator run on them.  Each operation is one SQLite statement  *)
(* or one IMMEDIATE transaction, hence one atomic step here, whatever the  *)
(* number of processes that share the database file.                       *)
(*                                                                         *)
(* Abstractions.  A payload is a member of Job.  The clock is left out:    *)
(* hidden[i] says that visible_at of row i is in the future, and Expire(i) *)
(* is the moment the clock passes it, which nothing else in the system can *)
(* influence.  A row of the dead-letter table keeps the name it had in the *)
(* queue (each queue row is promoted at most once).                        *)
(***************************************************************************)
EXTENDS Integers

CONSTANTS Job,          \* the payloads
          NoJob,        \* the payload of an id that is not allocated yet
          MaxId,        \* bound: AUTOINCREMENT ids that are ever allocated
          MaxReceive    \* max_receive of the queue

ASSUME QueueAssumption ==
  /\ MaxId \in Nat
  /\ MaxReceive \in Nat
  /\ NoJob \notin Job

VARIABLES place,        \* where each id's row is
          payload,      \* its payload column
          count,        \* its receive_count column
          hidden,       \* is its visible_at in the future?
          nextId        \* the next AUTOINCREMENT id

qvars == <<place, payload, count, hidden, nextId>>

Id == 1 .. MaxId

\* "free": not allocated; "acked": deleted by ack; "requeued": deleted from the
\* dead-letter table after its payload went back to the queue under a new id.
Place == {"free", "queue", "dlq", "acked", "requeued"}

QTypeOK ==
  /\ place \in [Id -> Place]
  /\ payload \in [Id -> Job \cup {NoJob}]
  /\ count \in [Id -> 0 .. MaxReceive]
  /\ hidden \in [Id -> BOOLEAN]
  /\ nextId \in 1 .. (MaxId + 1)

QInit ==
  /\ place = [i \in Id |-> "free"]
  /\ payload = [i \in Id |-> NoJob]
  /\ count = [i \in Id |-> 0]
  /\ hidden = [i \in Id |-> FALSE]
  /\ nextId = 1

-----------------------------------------------------------------------------
(* INSERT of a row that is visible at once and was never received. *)
Insert(j) ==
  /\ nextId <= MaxId
  /\ nextId' = nextId + 1
  /\ payload' = [payload EXCEPT ![nextId] = j]
  /\ UNCHANGED <<count, hidden>>

\* Queue::enqueue.
Enqueue(j) ==
  /\ Insert(j)
  /\ place' = [place EXCEPT ![nextId] = "queue"]

\* dlq_requeue: copy the payload under a new id with receive_count 0, and
\* delete the dead-letter row, in one transaction.
DlqRequeue(i) ==
  /\ place[i] = "dlq"
  /\ Insert(payload[i])
  /\ place' = [place EXCEPT ![nextId] = "queue", ![i] = "requeued"]

-----------------------------------------------------------------------------
Visible == {i \in Id : place[i] = "queue" /\ ~hidden[i]}

\* Mutant: compares the count before the increment.
ExhaustedLate(i) == count[i] > MaxReceive

Exhausted(i) == count[i] + 1 > MaxReceive

Deliverable == {i \in Visible : ~Exhausted(i)}

\* The rows of S leave the queue for the dead-letter table.
Promote(S) == [i \in Id |-> IF i \in S THEN "dlq" ELSE place[i]]

\* Mutant: counts the delivery but leaves visible_at alone.
PopRowVisible(i) ==
  /\ i \in Deliverable
  /\ \A j \in Deliverable : i <= j
  /\ place' = Promote({j \in Visible : Exhausted(j) /\ j < i})
  /\ count' = [count EXCEPT ![i] = @ + 1]
  /\ UNCHANGED <<payload, hidden, nextId>>

\* pop_blocking that returns row i: the smallest deliverable id.  The loop has
\* promoted every exhausted visible row with a smaller id in this transaction.
PopRow(i) ==
  /\ i \in Deliverable
  /\ \A j \in Deliverable : i <= j
  /\ place' = Promote({j \in Visible : Exhausted(j) /\ j < i})
  /\ count' = [count EXCEPT ![i] = @ + 1]
  /\ hidden' = [hidden EXCEPT ![i] = TRUE]
  /\ UNCHANGED <<payload, nextId>>

\* Mutant: gives up on the first exhausted row instead of promoting it.
PopNoneKeeps ==
  /\ Visible # {}
  /\ Deliverable = {}
  /\ UNCHANGED qvars

\* pop_blocking that returns None, having promoted every visible row.
PopNone ==
  /\ Visible # {}
  /\ Deliverable = {}
  /\ place' = Promote(Visible)
  /\ UNCHANGED <<payload, count, hidden, nextId>>

\* Mutant: deletes the row from the dead-letter table as well.
AckAnywhere(i) ==
  /\ place' = [place EXCEPT ![i] = "acked"]
  /\ hidden' = [hidden EXCEPT ![i] = FALSE]
  /\ UNCHANGED <<payload, count, nextId>>

\* DELETE ... WHERE id = i.  A receipt is the row id alone, so whoever holds
\* one may settle a later delivery of the row; a row that has left the queue
\* table is not touched.
Ack(i) ==
  \/ /\ place[i] = "queue"
     /\ place' = [place EXCEPT ![i] = "acked"]
     /\ hidden' = [hidden EXCEPT ![i] = FALSE]
     /\ UNCHANGED <<payload, count, nextId>>
  \/ /\ place[i] # "queue"
     /\ UNCHANGED qvars

\* UPDATE ... SET visible_at = now + delay WHERE id = i; the delays the driver
\* asks for are positive.
NackWithDelay(i) ==
  /\ hidden' = [hidden EXCEPT ![i] = (place[i] = "queue")]
  /\ UNCHANGED <<place, payload, count, nextId>>

\* The clock reaches visible_at of row i.
Expire(i) ==
  /\ place[i] = "queue"
  /\ hidden[i]
  /\ hidden' = [hidden EXCEPT ![i] = FALSE]
  /\ UNCHANGED <<place, payload, count, nextId>>

-----------------------------------------------------------------------------
\* Any number of processes, each holding the receipts of what it popped: a
\* row has been received at least once before somebody settles it.
QNext ==
  \/ \E j \in Job : Enqueue(j)
  \/ PopNone
  \/ \E i \in Id :
       \/ PopRow(i) \/ Expire(i) \/ DlqRequeue(i)
       \/ count[i] > 0 /\ (Ack(i) \/ NackWithDelay(i))

QSpec == QInit /\ [][QNext]_qvars

\* Ids are allocated in order, and a row that exists or existed has a job.
Allocated ==
  \A i \in Id :
    /\ i >= nextId => payload[i] = NoJob
    /\ place[i] # "free" => payload[i] \in Job
    /\ place[i] = "free" => i >= nextId /\ count[i] = 0 /\ ~hidden[i]

\* The state of each message in the terms of the Queue trait.
MessageState(i) ==
  CASE place[i] = "free" -> "unsent"
    [] place[i] = "queue" -> IF hidden[i] THEN "invisible" ELSE "visible"
    [] place[i] = "dlq" -> "dead"
    [] OTHER -> "removed"

Contract ==
  INSTANCE QueueContract WITH
    Msg <- Id,
    deliveries <- count,
    state <- [i \in Id |-> MessageState(i)]

\* The queue keeps the contract of the Queue trait (transport.rs:7-14) whatever
\* its consumers do with the receipts they hold.
KeepsContract == Contract!Spec
=============================================================================

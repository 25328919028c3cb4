--------------------------- MODULE ModelStoreProofs ---------------------------
(***************************************************************************)
(* The directory of models and the registry of the worker, for any catalog *)
(* and any number of models.  StoreInv is inductive: it says where each    *)
(* pull is and what it has on disk by then, that no two pulls are on one   *)
(* model, and what a status, a directory or an added entry vouches for.    *)
(***************************************************************************)
EXTENDS ModelStore, TLAPS

\* No background pull is on the model of the command.
Exclusive ==
  \A m \in Model : step[m] # "idle" /\ step[Admin] # "idle" => order.model # m

\* The worker pulls what it waits for, and nothing that the command added.
ThreadOK ==
  \A m \in Model : step[m] # "idle" => up /\ status[m] = "pulling" /\ m \in Embedded

OrderOK ==
  step[Admin] # "idle" =>
    /\ step[Admin] # "resolve"
    /\ order.op = "add" => order.model \notin catalog
    /\ order.op = "pull" => order.model \in catalog
    /\ step[Admin] \in {"append", "appending"} =>
         order.op = "add" /\ installed[order.model] = "good"
    /\ step[Admin] # "look" /\ order.op = "pull" => order.model \in Embedded
    /\ step[Admin] # "look" /\ status[order.model] = "ready" =>
         /\ order.op = "pull" /\ order.model \notin Archive
         /\ step[Admin] = "verify" \/ HalfWritten(order.model)

Whole(m, content) == content \in {"good", "bad"} /\ (m \in Pinned => content = "good")

\* What a pull has on disk when it comes to a step.
StageOK(p) ==
  /\ step[p] = "fetch" /\ ~Adding(p) => ~Present(ModelOf(p))
  /\ step[p] = "write" /\ ModelOf(p) \notin Archive => installed[ModelOf(p)] = "partial"
  /\ step[p] \in {"write", "verify", "unpack", "unpacking", "install"}
       /\ ~Adding(p) /\ ModelOf(p) \in Archive => installed[ModelOf(p)] = "absent"
  /\ step[p] = "verify" => /\ Downloaded(ModelOf(p)) \in {"good", "bad"}
                           /\ Adding(p) => Downloaded(ModelOf(p)) = "good"
  /\ step[p] \in {"unpack", "unpacking"} =>
       ModelOf(p) \in Archive /\ Whole(ModelOf(p), part[ModelOf(p)])
  /\ step[p] = "install" =>
       ModelOf(p) \in Archive /\ Whole(ModelOf(p), extracting[ModelOf(p)])

\* What a status, a directory, an added entry and the loaded pipeline vouch for.
ModelOK(m) ==
  /\ status[m] = "ready" => m \in catalog /\ Present(m)
  /\ m \in Archive => installed[m] = "absent" \/ Whole(m, installed[m])
  /\ m \in catalog \ Embedded => installed[m] = "good"
  /\ m \in Pinned => pipeline[m] \in {"absent", "good"}

StoreInv ==
  /\ StoreTypeOK
  /\ Embedded \subseteq catalog
  /\ Exclusive
  /\ ThreadOK
  /\ OrderOK
  /\ \A p \in Puller : StageOK(p)
  /\ \A m \in Model : ModelOK(m)

-----------------------------------------------------------------------------
\* The model of a pull is a model, and two pulls are on two models.
LEMMA PullersApart ==
  ASSUME StoreInv, NEW p \in Puller, step[p] # "idle"
  PROVE  /\ ModelOf(p) \in Model
         /\ \A q \in Puller : q # p /\ step[q] # "idle" => ModelOf(q) # ModelOf(p)
  BY ModelAssumption DEF StoreInv, StoreTypeOK, Exclusive, ModelOf, Puller

\* A model that a pull has begun to fetch is not ready, unless the command had
\* written enough of it when the worker started, and is of the embedded catalog
\* unless it is being added.
LEMMA FetchedNotReady ==
  ASSUME StoreInv, NEW p \in Puller, step[p] \notin {"idle", "look"}
  PROVE  /\ status[ModelOf(p)] = "ready" =>
              /\ ~Adding(p) /\ ModelOf(p) \notin Archive
              /\ step[p] = "verify" \/ (step[p] = "write" /\ HalfWritten(ModelOf(p)))
         /\ ~Adding(p) => ModelOf(p) \in Embedded
         /\ Adding(p) => ModelOf(p) \notin catalog /\ ModelOf(p) \in Pinned
  <1>1. CASE p = Admin
    <2>1. ModelOf(p) = order.model /\ order.model \in Model /\ order.op \in {"pull", "add"}
      BY <1>1 DEF StoreInv, StoreTypeOK, ModelOf
    <2>2. OrderOK /\ Embedded \subseteq catalog
      BY DEF StoreInv
    <2>3. Adding(p) <=> order.op = "add"
      BY <1>1 DEF Adding
    <2>4. order.op = "add" => order.model \notin catalog /\ order.model \in Pinned
      BY <1>1, <2>1, <2>2, ModelAssumption DEF OrderOK
    <2>5. order.op = "pull" => order.model \in Embedded
      BY <1>1, <2>2 DEF OrderOK
    <2>6. status[order.model] = "ready" =>
            /\ order.op = "pull" /\ order.model \notin Archive
            /\ step[p] = "verify" \/ (step[p] = "write" /\ HalfWritten(order.model))
      BY <1>1, <2>2 DEF OrderOK, HalfWritten
    <2>7. QED
      BY <2>1, <2>3, <2>4, <2>5, <2>6
  <1>2. CASE p # Admin
    BY <1>2, ModelAssumption DEF StoreInv, ThreadOK, ModelOf, Adding, Puller
  <1>3. QED
    BY <1>1, <1>2

LEMMA StoreInit == Init => StoreInv
  <1> SUFFICES ASSUME Init PROVE StoreInv
    OBVIOUS
  <1> USE ModelAssumption DEF Init, NothingLoaded
  <1>a. NothingLoaded \in [Model -> Content]
    BY DEF Content
  <1>b. step \in [Puller -> Step] /\ status \in [Model -> Status]
    BY DEF Puller, Step, Status
  <1>c. order \in [op : {"pull", "add"}, model : Model] /\ age \in 0..Never
    BY TimeoutAssumption DEF Never
  <1>1. StoreTypeOK
    BY <1>a, <1>b, <1>c DEF StoreTypeOK
  <1>2. Embedded \subseteq catalog /\ Exclusive /\ ThreadOK /\ OrderOK
    BY DEF Exclusive, ThreadOK, OrderOK, Puller
  <1>3. \A p \in Puller : StageOK(p)
    BY DEF StageOK
  <1>4. \A m \in Model : ModelOK(m)
    BY DEF ModelOK
  <1>5. QED
    BY <1>1, <1>2, <1>3, <1>4 DEF StoreInv

LEMMA OrderPreserves ==
  ASSUME StoreInv, NEW op \in {"pull", "add"}, NEW m \in Model, Order(op, m)
  PROVE  StoreInv'
  <1> USE DEF Order, Goto, disk, books, guard
  <1>1. StoreTypeOK'
    BY DEF StoreInv, StoreTypeOK, Puller, Step
  <1>2. Exclusive' /\ ThreadOK' /\ OrderOK' /\ (Embedded \subseteq catalog)'
    BY ModelAssumption
    DEF StoreInv, StoreTypeOK, Exclusive, ThreadOK, OrderOK, Quiet, Thread, Puller, ModelOK, HalfWritten
  <1>3. (\A p \in Puller : StageOK(p))'
    BY ModelAssumption
    DEF StoreInv, StoreTypeOK, StageOK, Puller, ModelOf, Adding, Downloaded, Whole, Mismatch, Present
  <1>4. (\A n \in Model : ModelOK(n))'
    BY DEF StoreInv, ModelOK, Present, Mismatch, Whole
  <1>5. QED
    BY <1>1, <1>2, <1>3, <1>4 DEF StoreInv

LEMMA LookBeforeLeapPreserves ==
  ASSUME StoreInv, NEW p \in Puller, LookBeforeLeap(p)
  PROVE  StoreInv'
  <1> USE DEF LookBeforeLeap, PullOk, Goto, Set, disk, books, guard
  <1>0. /\ ModelOf(p) \in Model
        /\ \A q \in Puller : q # p /\ step[q] # "idle" => ModelOf(q) # ModelOf(p)
    BY PullersApart
  <1>1. StoreTypeOK'
    BY <1>0 DEF StoreInv, StoreTypeOK, Puller, Step, Content, Status, ModelOf
  <1>2. Exclusive' /\ ThreadOK' /\ OrderOK' /\ (Embedded \subseteq catalog)'
    BY <1>0, ModelAssumption
    DEF StoreInv, StoreTypeOK, Exclusive, ThreadOK, OrderOK, Puller, ModelOK, ModelOf, Adding,
        Mismatch, Present, StageOK, Whole, Downloaded, HalfWritten
  <1>3. (\A q \in Puller : StageOK(q))'
    BY <1>0, ModelAssumption
    DEF StoreInv, StoreTypeOK, StageOK, Puller, ModelOf, Adding, Downloaded, Whole, OrderOK, Mismatch, Present
  <1>4. (\A n \in Model : ModelOK(n))'
    BY <1>0, FetchedNotReady, ModelAssumption
    DEF StoreInv, StoreTypeOK, StageOK, ModelOK, Present, Mismatch, Whole, ModelOf, Puller, Adding
  <1>5. QED
    BY <1>1, <1>2, <1>3, <1>4 DEF StoreInv

LEMMA CreateFilePreserves ==
  ASSUME StoreInv, NEW p \in Puller, CreateFile(p)
  PROVE  StoreInv'
  <1> USE DEF CreateFile, Download, Goto, Set, disk, books, guard
  <1>0. /\ ModelOf(p) \in Model
        /\ \A q \in Puller : q # p /\ step[q] # "idle" => ModelOf(q) # ModelOf(p)
    BY PullersApart
  <1>1. StoreTypeOK'
    BY <1>0 DEF StoreInv, StoreTypeOK, Puller, Step, Content, Status, ModelOf
  <1>2. Exclusive' /\ ThreadOK' /\ OrderOK' /\ (Embedded \subseteq catalog)'
    BY <1>0, ModelAssumption
    DEF StoreInv, StoreTypeOK, Exclusive, ThreadOK, OrderOK, Puller, ModelOK, ModelOf, Adding,
        Mismatch, Present, StageOK, Whole, Downloaded, HalfWritten
  <1>3. (\A q \in Puller : StageOK(q))'
    BY <1>0, ModelAssumption
    DEF StoreInv, StoreTypeOK, StageOK, Puller, ModelOf, Adding, Downloaded, Whole, OrderOK, Mismatch, Present
  <1>4. (\A n \in Model : ModelOK(n))'
    BY <1>0, FetchedNotReady, ModelAssumption
    DEF StoreInv, StoreTypeOK, StageOK, ModelOK, Present, Mismatch, Whole, ModelOf, Puller, Adding
  <1>5. QED
    BY <1>1, <1>2, <1>3, <1>4 DEF StoreInv

LEMMA StreamEndsPreserves ==
  ASSUME StoreInv, NEW p \in Puller, StreamEnds(p)
  PROVE  StoreInv'
  <1> USE DEF StreamEnds, Download, Goto, Set, disk, books, guard
  <1>0. /\ ModelOf(p) \in Model
        /\ \A q \in Puller : q # p /\ step[q] # "idle" => ModelOf(q) # ModelOf(p)
    BY PullersApart
  <1>1. StoreTypeOK'
    BY <1>0 DEF StoreInv, StoreTypeOK, Puller, Step, Content, Status, ModelOf
  <1>2. Exclusive' /\ ThreadOK' /\ OrderOK' /\ (Embedded \subseteq catalog)'
    BY <1>0, ModelAssumption
    DEF StoreInv, StoreTypeOK, Exclusive, ThreadOK, OrderOK, Puller, ModelOK, ModelOf, Adding,
        Mismatch, Present, StageOK, Whole, Downloaded, HalfWritten
  <1>3. (\A q \in Puller : StageOK(q))'
    BY <1>0, ModelAssumption
    DEF StoreInv, StoreTypeOK, StageOK, Puller, ModelOf, Adding, Downloaded, Whole, OrderOK, Mismatch, Present
  <1>4. (\A n \in Model : ModelOK(n))'
    BY <1>0, FetchedNotReady, ModelAssumption
    DEF StoreInv, StoreTypeOK, StageOK, ModelOK, Present, Mismatch, Whole, ModelOf, Puller, Adding
  <1>5. QED
    BY <1>1, <1>2, <1>3, <1>4 DEF StoreInv

LEMMA VerifyRejectsPreserves ==
  ASSUME StoreInv, NEW p \in Puller, VerifyRejects(p)
  PROVE  StoreInv'
  <1> USE DEF VerifyRejects, Download, PullErr, Goto, Set, disk, books, guard
  <1>0. /\ ModelOf(p) \in Model
        /\ \A q \in Puller : q # p /\ step[q] # "idle" => ModelOf(q) # ModelOf(p)
    BY PullersApart
  <1>1. StoreTypeOK'
    BY <1>0 DEF StoreInv, StoreTypeOK, Puller, Step, Content, Status, ModelOf
  <1>2. Exclusive' /\ ThreadOK' /\ OrderOK' /\ (Embedded \subseteq catalog)'
    BY <1>0, ModelAssumption
    DEF StoreInv, StoreTypeOK, Exclusive, ThreadOK, OrderOK, Puller, ModelOK, ModelOf, Adding,
        Mismatch, Present, StageOK, Whole, Downloaded, HalfWritten
  <1>3. (\A q \in Puller : StageOK(q))'
    BY <1>0, ModelAssumption
    DEF StoreInv, StoreTypeOK, StageOK, Puller, ModelOf, Adding, Downloaded, Whole, OrderOK, Mismatch, Present
  <1>a. status[ModelOf(p)] # "ready"
    <2> SUFFICES ASSUME status[ModelOf(p)] = "ready" PROVE FALSE
      OBVIOUS
    <2>1. ModelOf(p) \notin Archive /\ ~Adding(p)
      BY FetchedNotReady
    <2>2. ~Mismatch(ModelOf(p), installed[ModelOf(p)])
      BY <1>0, <2>1 DEF StoreInv, ModelOK, Present
    <2>3. QED
      BY <2>1, <2>2 DEF Downloaded
  <1>b. catalog' = catalog /\ extracting' = extracting /\ pipeline' = pipeline
        /\ \A n \in Model : n # ModelOf(p) => installed'[n] = installed[n] /\ status'[n] = status[n]
    BY <1>0 DEF StoreInv, StoreTypeOK, ModelOf
  <1>c. /\ status'[ModelOf(p)] # "ready"
        /\ installed'[ModelOf(p)] \in {"absent", installed[ModelOf(p)]}
    BY <1>0, <1>a DEF StoreInv, StoreTypeOK, ModelOf, Status, Content
  <1>d. ModelOf(p) \notin catalog \ Embedded
    BY <1>0, FetchedNotReady
  <1>4. (\A n \in Model : ModelOK(n))'
    BY <1>0, <1>b, <1>c, <1>d DEF StoreInv, ModelOK, Present, Mismatch, Whole
  <1>5. QED
    BY <1>1, <1>2, <1>3, <1>4 DEF StoreInv

LEMMA VerifyAcceptsPreserves ==
  ASSUME StoreInv, NEW p \in Puller, VerifyAccepts(p)
  PROVE  StoreInv'
  <1> USE DEF VerifyAccepts, PullOk, Goto, Set, disk, books, guard
  <1>0. /\ ModelOf(p) \in Model
        /\ \A q \in Puller : q # p /\ step[q] # "idle" => ModelOf(q) # ModelOf(p)
    BY PullersApart
  <1>1. StoreTypeOK'
    BY <1>0 DEF StoreInv, StoreTypeOK, Puller, Step, Content, Status, ModelOf
  <1>2. Exclusive' /\ ThreadOK' /\ OrderOK' /\ (Embedded \subseteq catalog)'
    BY <1>0, ModelAssumption
    DEF StoreInv, StoreTypeOK, Exclusive, ThreadOK, OrderOK, Puller, ModelOK, ModelOf, Adding,
        Mismatch, Present, StageOK, Whole, Downloaded, HalfWritten
  <1>3. (\A q \in Puller : StageOK(q))'
    BY <1>0, ModelAssumption
    DEF StoreInv, StoreTypeOK, StageOK, Puller, ModelOf, Adding, Downloaded, Whole, OrderOK, Mismatch, Present
  <1>4. (\A n \in Model : ModelOK(n))'
    BY <1>0, FetchedNotReady, ModelAssumption
    DEF StoreInv, StoreTypeOK, StageOK, ModelOK, Present, Mismatch, Whole, ModelOf, Puller, Adding
  <1>5. QED
    BY <1>1, <1>2, <1>3, <1>4 DEF StoreInv

LEMMA UnpackPreserves ==
  ASSUME StoreInv, NEW p \in Puller, Unpack(p)
  PROVE  StoreInv'
  <1> USE DEF Unpack, Goto, Set, disk, books, guard
  <1>0. /\ ModelOf(p) \in Model
        /\ \A q \in Puller : q # p /\ step[q] # "idle" => ModelOf(q) # ModelOf(p)
    BY PullersApart
  <1>1. StoreTypeOK'
    BY <1>0 DEF StoreInv, StoreTypeOK, Puller, Step, Content, Status, ModelOf
  <1>2. Exclusive' /\ ThreadOK' /\ OrderOK' /\ (Embedded \subseteq catalog)'
    BY <1>0, ModelAssumption
    DEF StoreInv, StoreTypeOK, Exclusive, ThreadOK, OrderOK, Puller, ModelOK, ModelOf, Adding,
        Mismatch, Present, StageOK, Whole, Downloaded, HalfWritten
  <1>3. (\A q \in Puller : StageOK(q))'
    BY <1>0, ModelAssumption
    DEF StoreInv, StoreTypeOK, StageOK, Puller, ModelOf, Adding, Downloaded, Whole, OrderOK, Mismatch, Present
  <1>4. (\A n \in Model : ModelOK(n))'
    BY <1>0, FetchedNotReady, ModelAssumption
    DEF StoreInv, StoreTypeOK, StageOK, ModelOK, Present, Mismatch, Whole, ModelOf, Puller, Adding
  <1>5. QED
    BY <1>1, <1>2, <1>3, <1>4 DEF StoreInv

LEMMA UnpackedPreserves ==
  ASSUME StoreInv, NEW p \in Puller, Unpacked(p)
  PROVE  StoreInv'
  <1> USE DEF Unpacked, Goto, Set, disk, books, guard
  <1>0. /\ ModelOf(p) \in Model
        /\ \A q \in Puller : q # p /\ step[q] # "idle" => ModelOf(q) # ModelOf(p)
    BY PullersApart
  <1>1. StoreTypeOK'
    BY <1>0 DEF StoreInv, StoreTypeOK, Puller, Step, Content, Status, ModelOf
  <1>2. Exclusive' /\ ThreadOK' /\ OrderOK' /\ (Embedded \subseteq catalog)'
    BY <1>0, ModelAssumption
    DEF StoreInv, StoreTypeOK, Exclusive, ThreadOK, OrderOK, Puller, ModelOK, ModelOf, Adding,
        Mismatch, Present, StageOK, Whole, Downloaded, HalfWritten
  <1>3. (\A q \in Puller : StageOK(q))'
    BY <1>0, ModelAssumption
    DEF StoreInv, StoreTypeOK, StageOK, Puller, ModelOf, Adding, Downloaded, Whole, OrderOK, Mismatch, Present
  <1>4. (\A n \in Model : ModelOK(n))'
    BY <1>0, FetchedNotReady, ModelAssumption
    DEF StoreInv, StoreTypeOK, StageOK, ModelOK, Present, Mismatch, Whole, ModelOf, Puller, Adding
  <1>5. QED
    BY <1>1, <1>2, <1>3, <1>4 DEF StoreInv

LEMMA InstallPreserves ==
  ASSUME StoreInv, NEW p \in Puller, Install(p)
  PROVE  StoreInv'
  <1> USE DEF Install, PullOk, Goto, Set, disk, books, guard
  <1>0. /\ ModelOf(p) \in Model
        /\ \A q \in Puller : q # p /\ step[q] # "idle" => ModelOf(q) # ModelOf(p)
    BY PullersApart
  <1>1. StoreTypeOK'
    BY <1>0 DEF StoreInv, StoreTypeOK, Puller, Step, Content, Status, ModelOf
  <1>2. Exclusive' /\ ThreadOK' /\ OrderOK' /\ (Embedded \subseteq catalog)'
    BY <1>0, ModelAssumption
    DEF StoreInv, StoreTypeOK, Exclusive, ThreadOK, OrderOK, Puller, ModelOK, ModelOf, Adding,
        Mismatch, Present, StageOK, Whole, Downloaded, HalfWritten
  <1>3. (\A q \in Puller : StageOK(q))'
    BY <1>0, ModelAssumption
    DEF StoreInv, StoreTypeOK, StageOK, Puller, ModelOf, Adding, Downloaded, Whole, OrderOK, Mismatch, Present
  <1>4. (\A n \in Model : ModelOK(n))'
    BY <1>0, FetchedNotReady, ModelAssumption
    DEF StoreInv, StoreTypeOK, StageOK, ModelOK, Present, Mismatch, Whole, ModelOf, Puller, Adding
  <1>5. QED
    BY <1>1, <1>2, <1>3, <1>4 DEF StoreInv

LEMMA FailsPreserves ==
  ASSUME StoreInv, NEW p \in Puller, Fails(p)
  PROVE  StoreInv'
  <1> USE DEF Fails, PullErr, Goto, Set, disk, books, guard
  <1>0. /\ ModelOf(p) \in Model
        /\ \A q \in Puller : q # p /\ step[q] # "idle" => ModelOf(q) # ModelOf(p)
    BY PullersApart
  <1>1. StoreTypeOK'
    BY <1>0 DEF StoreInv, StoreTypeOK, Puller, Step, Content, Status, ModelOf
  <1>2. Exclusive' /\ ThreadOK' /\ OrderOK' /\ (Embedded \subseteq catalog)'
    BY <1>0, ModelAssumption
    DEF StoreInv, StoreTypeOK, Exclusive, ThreadOK, OrderOK, Puller, ModelOK, ModelOf, Adding,
        Mismatch, Present, StageOK, Whole, Downloaded, HalfWritten
  <1>3. (\A q \in Puller : StageOK(q))'
    BY <1>0, ModelAssumption
    DEF StoreInv, StoreTypeOK, StageOK, Puller, ModelOf, Adding, Downloaded, Whole, OrderOK, Mismatch, Present
  <1>4. (\A n \in Model : ModelOK(n))'
    BY <1>0, FetchedNotReady, ModelAssumption
    DEF StoreInv, StoreTypeOK, StageOK, ModelOK, Present, Mismatch, Whole, ModelOf, Puller, Adding
  <1>5. QED
    BY <1>1, <1>2, <1>3, <1>4 DEF StoreInv

LEMMA AppendPreserves ==
  ASSUME StoreInv, AppendTruncates \/ AppendEnds
  PROVE  StoreInv'
  <1> USE DEF AppendTruncates, AppendEnds, Goto, disk, books, guard
  <1>a. (catalog \in SUBSET Model)' /\ (torn \in BOOLEAN)'
    BY DEF StoreInv, StoreTypeOK
  <1>1. StoreTypeOK'
    BY <1>a DEF StoreInv, StoreTypeOK, Puller, Step
  <1>2. Exclusive' /\ ThreadOK' /\ OrderOK' /\ (Embedded \subseteq catalog)'
    BY ModelAssumption
    DEF StoreInv, StoreTypeOK, Exclusive, ThreadOK, OrderOK, Puller, ModelOK, HalfWritten
  <1>3. (\A q \in Puller : StageOK(q))'
    BY ModelAssumption
    DEF StoreInv, StoreTypeOK, StageOK, Puller, ModelOf, Adding, Downloaded, Whole, Mismatch, Present
  <1>4. (\A n \in Model : ModelOK(n))'
    BY ModelAssumption
    DEF StoreInv, StoreTypeOK, ModelOK, Present, Mismatch, Whole, OrderOK, ThreadOK
  <1>5. QED
    BY <1>1, <1>2, <1>3, <1>4 DEF StoreInv

LEMMA AdminStopsPreserves ==
  ASSUME StoreInv, AdminStops
  PROVE  StoreInv'
  <1> USE DEF AdminStops, Goto, disk, books, guard
  <1>1. StoreTypeOK'
    BY ModelAssumption, TimeoutAssumption
    DEF StoreInv, StoreTypeOK, Puller, Step, Content, Status, Never
  <1>2. Exclusive' /\ ThreadOK' /\ OrderOK' /\ (Embedded \subseteq catalog)'
    BY ModelAssumption
    DEF StoreInv, StoreTypeOK, Exclusive, ThreadOK, OrderOK, Puller, ModelOK, HalfWritten
  <1>3. (\A q \in Puller : StageOK(q))'
    BY ModelAssumption
    DEF StoreInv, StoreTypeOK, StageOK, Puller, ModelOf, Adding, Downloaded, Whole, Mismatch, Present
  <1>4. (\A n \in Model : ModelOK(n))'
    BY ModelAssumption
    DEF StoreInv, StoreTypeOK, ModelOK, Present, Mismatch, Whole, OrderOK, ThreadOK
  <1>5. QED
    BY <1>1, <1>2, <1>3, <1>4 DEF StoreInv

LEMMA ResolvePulledPreserves ==
  ASSUME StoreInv, NEW m \in Model, ResolvePulled(m)
  PROVE  StoreInv'
  <1> USE DEF ResolvePulled, Resolves, Goto, Set, disk, books, guard
  <1>1. StoreTypeOK'
    BY ModelAssumption, TimeoutAssumption
    DEF StoreInv, StoreTypeOK, Puller, Step, Content, Status, Never
  <1>2. Exclusive' /\ ThreadOK' /\ OrderOK' /\ (Embedded \subseteq catalog)'
    BY ModelAssumption
    DEF StoreInv, StoreTypeOK, Exclusive, ThreadOK, OrderOK, Puller, ModelOK, HalfWritten
  <1>3. (\A q \in Puller : StageOK(q))'
    BY ModelAssumption
    DEF StoreInv, StoreTypeOK, StageOK, Puller, ModelOf, Adding, Downloaded, Whole, Mismatch, Present
  <1>4. (\A n \in Model : ModelOK(n))'
    BY ModelAssumption
    DEF StoreInv, StoreTypeOK, ModelOK, Present, Mismatch, Whole, OrderOK, ThreadOK
  <1>5. QED
    BY <1>1, <1>2, <1>3, <1>4 DEF StoreInv

LEMMA StartPreserves ==
  ASSUME StoreInv, Start
  PROVE  StoreInv'
  <1> USE DEF Start, Registered, Resolves, disk, books, guard
  <1>1. StoreTypeOK'
    BY ModelAssumption, TimeoutAssumption
    DEF StoreInv, StoreTypeOK, Puller, Step, Content, Status, Never, Quiet, Thread, Present, Mismatch
  <1>a. PICK m \in Model \ {Vad}, vad \in {{}, {Vad}} :
          LET models == {m} \union vad IN
          /\ \A w \in models : Registered(w) = "pulling" => Quiet(w)
          /\ wanted' = models
          /\ status' = [w \in Model |-> IF w \in models THEN Registered(w) ELSE "unknown"]
          /\ step' = [p \in Puller |-> IF p \in models /\ status'[p] = "pulling"
                                       THEN "look" ELSE step[p]]
    OBVIOUS
  <1>b. \A n \in Model : status'[n] \in {"ready", "pulling"} => n \in {m} \union vad /\ n \in catalog
    BY <1>a
  <1>c. Exclusive'
    BY <1>a, <1>b, ModelAssumption DEF StoreInv, StoreTypeOK, Exclusive, Puller, Quiet, Thread
  <1>d. ThreadOK'
    <2> SUFFICES ASSUME NEW n \in Model, step'[n] # "idle"
                 PROVE  up' /\ status'[n] = "pulling" /\ n \in Embedded
      BY DEF ThreadOK
    <2>1. CASE n \in {m} \union vad
      BY <1>a, <1>b, <2>1, ModelAssumption
      DEF StoreInv, StoreTypeOK, ThreadOK, ModelOK, Present, Mismatch, Whole, Quiet, Thread, Puller
    <2>2. CASE n \notin {m} \union vad
      BY <1>a, <2>2 DEF StoreInv, StoreTypeOK, ThreadOK, Puller
    <2>3. QED
      BY <2>1, <2>2
  <1>e. OrderOK'
    <2>1. step'[Admin] = step[Admin]
      BY <1>a, ModelAssumption DEF Puller
    <2>2. ASSUME step[Admin] \notin {"idle", "look"}, status'[order.model] = "ready"
          PROVE  /\ order.op = "pull" /\ order.model \notin Archive
                 /\ step[Admin] = "verify" \/ HalfWritten(order.model)
      <3>1. order.model \in Model /\ order.op \in {"pull", "add"}
        BY DEF StoreInv, StoreTypeOK
      <3>2. order.model \in catalog /\ Present(order.model)
        BY <1>a, <2>2, <3>1
      <3>3. order.op = "pull" /\ step[Admin] \notin {"append", "appending", "resolve"}
        BY <2>2, <3>1, <3>2 DEF StoreInv, OrderOK
      <3>4. StageOK(Admin) /\ ~Adding(Admin) /\ ModelOf(Admin) = order.model
        BY <3>3 DEF StoreInv, Adding, ModelOf, Puller
      <3>5. step[Admin] \in {"write", "verify", "unpack", "unpacking", "install"}
        BY <2>2, <3>2, <3>3, <3>4 DEF StoreInv, StoreTypeOK, StageOK, Step, Puller
      <3>6. order.model \notin Archive
        BY <3>2, <3>4, <3>5 DEF StageOK, Present
      <3>7. QED
        BY <3>2, <3>3, <3>4, <3>5, <3>6 DEF StageOK, Present, Mismatch, HalfWritten
    <2>3. QED
      BY <2>1, <2>2 DEF StoreInv, OrderOK, HalfWritten
  <1>2. Exclusive' /\ ThreadOK' /\ OrderOK' /\ (Embedded \subseteq catalog)'
    BY <1>c, <1>d, <1>e DEF StoreInv
  <1>3. (\A q \in Puller : StageOK(q))'
    BY ModelAssumption
    DEF StoreInv, StoreTypeOK, StageOK, Puller, ModelOf, Adding, Downloaded, Whole, Mismatch, Present
  <1>4. (\A n \in Model : ModelOK(n))'
    BY ModelAssumption
    DEF StoreInv, StoreTypeOK, ModelOK, Present, Mismatch, Whole, OrderOK, ThreadOK, Quiet, Thread, Present, Mismatch, Whole
  <1>5. QED
    BY <1>1, <1>2, <1>3, <1>4 DEF StoreInv

LEMMA WorkerStopsPreserves ==
  ASSUME StoreInv, WorkerStops
  PROVE  StoreInv'
  <1> USE DEF WorkerStops, NothingLoaded, disk, books, guard
  <1>a. (step \in [Puller -> Step])' /\ (status \in [Model -> Status])'
    BY DEF StoreInv, StoreTypeOK, Puller, Step, Status
  <1>b. (pipeline \in [Model -> Content])' /\ (age \in 0..Never)'
    BY TimeoutAssumption DEF StoreInv, StoreTypeOK, Content, Never
  <1>c. (wanted \in SUBSET Model)' /\ (up \in BOOLEAN)' /\ (busy \in BOOLEAN)'
    OBVIOUS
  <1>1. StoreTypeOK'
    BY <1>a, <1>b, <1>c DEF StoreInv, StoreTypeOK
  <1>2. Exclusive' /\ ThreadOK' /\ OrderOK' /\ (Embedded \subseteq catalog)'
    BY ModelAssumption
    DEF StoreInv, StoreTypeOK, Exclusive, ThreadOK, OrderOK, Puller, ModelOK, HalfWritten
  <1>3. (\A q \in Puller : StageOK(q))'
    BY ModelAssumption
    DEF StoreInv, StoreTypeOK, StageOK, Puller, ModelOf, Adding, Downloaded, Whole, Mismatch, Present
  <1>4. (\A n \in Model : ModelOK(n))'
    BY ModelAssumption
    DEF StoreInv, StoreTypeOK, ModelOK, Present, Mismatch, Whole, OrderOK, ThreadOK
  <1>5. QED
    BY <1>1, <1>2, <1>3, <1>4 DEF StoreInv

LEMMA GuardPreserves ==
  ASSUME StoreInv, Acquire \/ JobEnds \/ IdlePoll \/ Tick
  PROVE  StoreInv'
  <1> USE DEF Acquire, JobEnds, IdlePoll, Tick, NothingLoaded, disk, books, guard
  <1>a. (pipeline \in [Model -> Content])'
    BY DEF StoreInv, StoreTypeOK, Content
  <1>b. (age \in 0..Never)'
    BY TimeoutAssumption DEF StoreInv, StoreTypeOK, Never
  <1>c. (busy \in BOOLEAN)'
    BY DEF StoreInv, StoreTypeOK
  <1>1. StoreTypeOK'
    BY <1>a, <1>b, <1>c DEF StoreInv, StoreTypeOK
  <1>2. Exclusive' /\ ThreadOK' /\ OrderOK' /\ (Embedded \subseteq catalog)'
    BY ModelAssumption
    DEF StoreInv, StoreTypeOK, Exclusive, ThreadOK, OrderOK, Puller, ModelOK, HalfWritten
  <1>3. (\A q \in Puller : StageOK(q))'
    BY ModelAssumption
    DEF StoreInv, StoreTypeOK, StageOK, Puller, ModelOf, Adding, Downloaded, Whole, Mismatch, Present
  <1>4. (\A n \in Model : ModelOK(n))'
    BY ModelAssumption
    DEF StoreInv, StoreTypeOK, ModelOK, Present, Mismatch, Whole, OrderOK, ThreadOK
  <1>5. QED
    BY <1>1, <1>2, <1>3, <1>4 DEF StoreInv

LEMMA StoreNext == StoreInv /\ [Next]_vars => StoreInv'
  <1> SUFFICES ASSUME StoreInv, [Next]_vars PROVE StoreInv'
    OBVIOUS
  <1>1. CASE UNCHANGED vars
    BY <1>1
    DEF StoreInv, StoreTypeOK, Exclusive, ThreadOK, OrderOK, StageOK, ModelOK, ModelOf, Adding,
        Downloaded, Whole, Present, Mismatch, HalfWritten, vars, disk, books, guard
  <1>2. CASE \E p \in Puller : PullStep(p)
    BY <1>2, LookBeforeLeapPreserves, CreateFilePreserves, StreamEndsPreserves,
       VerifyRejectsPreserves, VerifyAcceptsPreserves, UnpackPreserves, UnpackedPreserves,
       InstallPreserves, FailsPreserves
    DEF PullStep
  <1>3. CASE \E op \in {"pull", "add"}, m \in Model : Order(op, m)
    BY <1>3, OrderPreserves
  <1>4. CASE Next /\ ~(\E p \in Puller : PullStep(p))
                  /\ ~(\E op \in {"pull", "add"}, m \in Model : Order(op, m))
    BY <1>4, AppendPreserves, AdminStopsPreserves, ResolvePulledPreserves, StartPreserves,
       WorkerStopsPreserves, GuardPreserves
    DEF Next
  <1>5. QED
    BY <1>1, <1>2, <1>3, <1>4

-----------------------------------------------------------------------------
\* What the invariant says of a model the registry calls ready.
LEMMA ReadyMeansWhole == StoreInv => ReadyIntact /\ LoadedIntact
  BY ModelAssumption
  DEF StoreInv, ModelOK, Present, Mismatch, Whole, ReadyIntact, LoadedIntact

\* Type correctness of the directory, the registry and the guard.
THEOREM StoreTypeCorrect == Spec => []StoreTypeOK
  <1>1. StoreInv => StoreTypeOK
    BY DEF StoreInv
  <1>2. QED
    BY <1>1, StoreInit, StoreNext, PTL DEF Spec

\* The registry is never wrong about a pinned model on disk, across crashes of the
\* worker and of the command and failures of every call (registry.rs, manager.rs,
\* download.rs).
THEOREM ReadyModelsIntact == Spec => []ReadyIntact
  <1>1. QED
    BY ReadyMeansWhole, StoreInit, StoreNext, PTL DEF Spec

\* No pipeline is built from a damaged model, although the reload after an idle
\* unload verifies nothing (queue.rs).
THEOREM LoadedModelsIntact == Spec => []LoadedIntact
  <1>1. QED
    BY ReadyMeansWhole, StoreInit, StoreNext, PTL DEF Spec

\* A directory appears under its final name whole or not at all (pull_archive), so
\* that its presence is a sufficient check.
THEOREM DirectoriesWhole == Spec => []WholeDirectories
  <1>1. StoreInv => WholeDirectories
    BY ModelAssumption DEF StoreInv, ModelOK, Whole, WholeDirectories
  <1>2. QED
    BY <1>1, StoreInit, StoreNext, PTL DEF Spec

\* What `models add` registers is installed and stays so (add, append_to_file).
THEOREM AddedModelsInstalled == Spec => []AddedInstalled
  <1>1. StoreInv => AddedInstalled
    BY DEF StoreInv, StoreTypeOK, ModelOK, AddedInstalled
  <1>2. QED
    BY <1>1, StoreInit, StoreNext, PTL DEF Spec

\* No pull and no command rewrites the file or the directory of a ready model, but
\* for the end of a download without a sha256 that was under way at the start.
THEOREM ReadyModelsUntouched == Spec => ReadyUntouched
  <1>1. StoreInv /\ [Next]_vars =>
          [\A m \in Model : status[m] = "ready" => installed'[m] = installed[m] \/ HalfWritten(m)]_vars
    <2> SUFFICES ASSUME StoreInv, Next, NEW m \in Model, status[m] = "ready"
                 PROVE  installed'[m] = installed[m] \/ HalfWritten(m)
      OBVIOUS
    <2>1. CASE \E p \in Puller : PullStep(p)
      <3> PICK p \in Puller : PullStep(p)
        BY <2>1
      <3>1. CASE step[p] \in {"idle", "look"}
        BY <3>1 DEF PullStep, LookBeforeLeap, CreateFile, StreamEnds, VerifyRejects,
          VerifyAccepts, Unpack, Unpacked, Install, Fails, disk
      <3>2. CASE step[p] \notin {"idle", "look"}
        <4>1. CASE ModelOf(p) # m
          BY <4>1 DEF PullStep, LookBeforeLeap, CreateFile, StreamEnds, VerifyRejects,
            VerifyAccepts, Unpack, Unpacked, Install, Fails, disk, Download, Set,
            StoreInv, StoreTypeOK
        <4>2. CASE ModelOf(p) = m
          <5>1. m \notin Archive /\ (step[p] = "verify" \/ HalfWritten(m))
            BY <3>2, <4>2, FetchedNotReady
          <5>2. ~Mismatch(m, installed[m])
            BY <5>1 DEF StoreInv, ModelOK, Present
          <5>3. CASE step[p] = "verify"
            BY <4>2, <5>1, <5>2, <5>3 DEF PullStep, LookBeforeLeap, CreateFile, StreamEnds,
              VerifyRejects, VerifyAccepts, Unpack, Unpacked, Install, Fails, disk, Downloaded
          <5>4. QED
            BY <5>1, <5>3
        <4>3. QED
          BY <4>1, <4>2
      <3>3. QED
        BY <3>1, <3>2
    <2>2. CASE ~(\E p \in Puller : PullStep(p))
      BY <2>2 DEF Next, Order, AppendTruncates, AppendEnds, AdminStops, ResolvePulled, Start,
        WorkerStops, Acquire, JobEnds, IdlePoll, Tick, disk
    <2>3. QED
      BY <2>1, <2>2
  <1>2. QED
    BY <1>1, StoreInit, StoreNext, PTL DEF Spec, ReadyUntouched
=============================================================================

---------------------------- MODULE DataPathProofs ----------------------------
(***************************************************************************)
(* Proofs about the three smaller components of the data path, which share *)
(* no state: the audio bucket, the appending sinks and the retry delay.    *)
(*                                                                         *)
(* The directory implements the bucket, for any keys, bodies and clients.  *)
(* FsInv is inductive: a put that has found its key free still finds it    *)
(* free when it renames, and a head in its second half sees the object of  *)
(* its first half or none.                                                 *)
(*                                                                         *)
(* The appending sinks, for any number of notes and processes.  TInv says  *)
(* what the separator state knows of the stream: before the text of a note *)
(* the stream is empty or ends in a separator, and a truncating open comes *)
(* before any note of the process.                                         *)
(*                                                                         *)
(* The retry delay, for any base, cap and width: by induction on the       *)
(* receive count, the capped product is the exact delay.                   *)
(***************************************************************************)
EXTENDS FsBucket, TextSink, RetryDelay, InductionLemmas

-----------------------------------------------------------------------------
\* The audio bucket.

\* Puts and deletes of a key do not overlap (the assumption in Request).
Exclusive ==
  \A c, d \in Client : c # d /\ call[c].at \in Changing /\ call[d].at \in Changing
                         => call[c].key # call[d].key

ClientOK(c) ==
  /\ call[c].at \in {"put", "create", "write", "rename"} =>
       call[c].body \in Body /\ call[c].key \notin spent
  /\ call[c].at \notin {"put", "create", "write", "rename", "idle"} => call[c].body = Nothing
  /\ call[c].at \in {"create", "write", "rename"} => stored[call[c].key] = Nothing
  /\ At(c, "rename") => tmp[c] = call[c].body
  /\ At(c, "etag") =>
       /\ call[c].size \in Body
       /\ \/ stored[call[c].key] = call[c].size
          \/ stored[call[c].key] = Nothing /\ call[c].key \in spent

FsInv ==
  /\ BTypeOK
  /\ Exclusive
  /\ \A c \in Client : ClientOK(c)
  /\ \A k \in spent : stored[k] = Nothing

LEMMA FsInit == BInit => FsInv
  BY BucketAssumption DEF BInit, FsInv, BTypeOK, Exclusive, ClientOK, Idle, At, Changing

\* What is known of a client in the middle of a call.
LEMMA CallTyped ==
  ASSUME FsInv, NEW c \in Client, ~At(c, "idle")
  PROVE  /\ call[c] \in [at : {"put", "create", "write", "rename", "get", "delete", "head", "etag"},
                          key : Key, body : Body \union {Nothing}, size : Body \union {Nothing}]
         /\ ClientOK(c)
  BY DEF FsInv, BTypeOK, At, Idle

LEMMA RequestPreserves ==
  ASSUME FsInv, NEW c \in Client, NEW at \in {"put", "get", "delete", "head"}, NEW k \in Key,
         NEW b \in Body \union {Nothing}, Request(c, at, k, b)
  PROVE  FsInv'
  <1> USE BucketAssumption DEF Request, At, Idle
  <1>1. BTypeOK'
    BY DEF FsInv, BTypeOK
  <1>2. Exclusive'
    BY DEF FsInv, BTypeOK, Exclusive, Changing
  <1>3. (\A d \in Client : ClientOK(d))'
    BY DEF FsInv, BTypeOK, ClientOK
  <1>4. (\A j \in spent : stored[j] = Nothing)'
    BY DEF FsInv
  <1>5. QED
    BY <1>1, <1>2, <1>3, <1>4 DEF FsInv

LEMMA PutChecksPreserves ==
  ASSUME FsInv, NEW c \in Client, PutChecks(c)
  PROVE  FsInv'
  <1> USE BucketAssumption DEF PutChecks, Return, Goto, At, Idle
  <1>0. ~At(c, "idle")
    OBVIOUS
  <1>1. BTypeOK'
    BY <1>0, CallTyped DEF FsInv, BTypeOK, ClientOK
  <1>2. Exclusive'
    BY <1>0, CallTyped DEF FsInv, BTypeOK, Exclusive, Changing
  <1>3. (\A d \in Client : ClientOK(d))'
    BY <1>0, CallTyped DEF FsInv, BTypeOK, ClientOK, Exclusive, Changing
  <1>4. (\A j \in spent : stored[j] = Nothing)'
    BY <1>0, CallTyped DEF FsInv, BTypeOK, ClientOK, Changing
  <1>5. QED
    BY <1>1, <1>2, <1>3, <1>4 DEF FsInv

LEMMA PutCreatesPreserves ==
  ASSUME FsInv, NEW c \in Client, PutCreates(c)
  PROVE  FsInv'
  <1> USE BucketAssumption DEF PutCreates, Goto, At, Idle
  <1>0. ~At(c, "idle")
    OBVIOUS
  <1>1. BTypeOK'
    BY <1>0, CallTyped DEF FsInv, BTypeOK, ClientOK
  <1>2. Exclusive'
    BY <1>0, CallTyped DEF FsInv, BTypeOK, Exclusive, Changing
  <1>3. (\A d \in Client : ClientOK(d))'
    BY <1>0, CallTyped DEF FsInv, BTypeOK, ClientOK, Exclusive, Changing
  <1>4. (\A j \in spent : stored[j] = Nothing)'
    BY <1>0, CallTyped DEF FsInv, BTypeOK, ClientOK, Changing
  <1>5. QED
    BY <1>1, <1>2, <1>3, <1>4 DEF FsInv

LEMMA PutWritesPreserves ==
  ASSUME FsInv, NEW c \in Client, PutWrites(c)
  PROVE  FsInv'
  <1> USE BucketAssumption DEF PutWrites, Goto, At, Idle
  <1>0. ~At(c, "idle")
    OBVIOUS
  <1>1. BTypeOK'
    BY <1>0, CallTyped DEF FsInv, BTypeOK, ClientOK
  <1>2. Exclusive'
    BY <1>0, CallTyped DEF FsInv, BTypeOK, Exclusive, Changing
  <1>3. (\A d \in Client : ClientOK(d))'
    BY <1>0, CallTyped DEF FsInv, BTypeOK, ClientOK, Exclusive, Changing
  <1>4. (\A j \in spent : stored[j] = Nothing)'
    BY <1>0, CallTyped DEF FsInv, BTypeOK, ClientOK, Changing
  <1>5. QED
    BY <1>1, <1>2, <1>3, <1>4 DEF FsInv

LEMMA PutRenamesPreserves ==
  ASSUME FsInv, NEW c \in Client, PutRenames(c)
  PROVE  FsInv'
  <1> USE BucketAssumption DEF PutRenames, Return, At, Idle
  <1>0. ~At(c, "idle")
    OBVIOUS
  <1>1. BTypeOK'
    BY <1>0, CallTyped DEF FsInv, BTypeOK, ClientOK
  <1>2. Exclusive'
    BY <1>0, CallTyped DEF FsInv, BTypeOK, Exclusive, Changing
  <1>3. (\A d \in Client : ClientOK(d))'
    BY <1>0, CallTyped DEF FsInv, BTypeOK, ClientOK, Exclusive, Changing
  <1>4. (\A j \in spent : stored[j] = Nothing)'
    BY <1>0, CallTyped DEF FsInv, BTypeOK, ClientOK, Changing
  <1>5. QED
    BY <1>1, <1>2, <1>3, <1>4 DEF FsInv

LEMMA GetsPreserves ==
  ASSUME FsInv, NEW c \in Client, Gets(c)
  PROVE  FsInv'
  <1> USE BucketAssumption DEF Gets, Return, At, Idle
  <1>0. ~At(c, "idle")
    OBVIOUS
  <1>1. BTypeOK'
    BY <1>0, CallTyped DEF FsInv, BTypeOK, ClientOK
  <1>2. Exclusive'
    BY <1>0, CallTyped DEF FsInv, BTypeOK, Exclusive, Changing
  <1>3. (\A d \in Client : ClientOK(d))'
    BY <1>0, CallTyped DEF FsInv, BTypeOK, ClientOK, Exclusive, Changing
  <1>4. (\A j \in spent : stored[j] = Nothing)'
    BY <1>0, CallTyped DEF FsInv, BTypeOK, ClientOK, Changing
  <1>5. QED
    BY <1>1, <1>2, <1>3, <1>4 DEF FsInv

LEMMA DeletesPreserves ==
  ASSUME FsInv, NEW c \in Client, Deletes(c)
  PROVE  FsInv'
  <1> USE BucketAssumption DEF Deletes, Return, At, Idle
  <1>0. ~At(c, "idle")
    OBVIOUS
  <1>1. BTypeOK'
    BY <1>0, CallTyped DEF FsInv, BTypeOK, ClientOK
  <1>2. Exclusive'
    BY <1>0, CallTyped DEF FsInv, BTypeOK, Exclusive, Changing
  <1>3. (\A d \in Client : ClientOK(d))'
    BY <1>0, CallTyped DEF FsInv, BTypeOK, ClientOK, Exclusive, Changing
  <1>4. (\A j \in spent : stored[j] = Nothing)'
    BY <1>0, CallTyped DEF FsInv, BTypeOK, ClientOK, Changing
  <1>5. QED
    BY <1>1, <1>2, <1>3, <1>4 DEF FsInv

LEMMA HeadStatsPreserves ==
  ASSUME FsInv, NEW c \in Client, HeadStats(c)
  PROVE  FsInv'
  <1> USE BucketAssumption DEF HeadStats, Return, At, Idle
  <1>0. ~At(c, "idle")
    OBVIOUS
  <1>1. BTypeOK'
    BY <1>0, CallTyped DEF FsInv, BTypeOK, ClientOK
  <1>2. Exclusive'
    BY <1>0, CallTyped DEF FsInv, BTypeOK, Exclusive, Changing
  <1>3. (\A d \in Client : ClientOK(d))'
    BY <1>0, CallTyped DEF FsInv, BTypeOK, ClientOK, Exclusive, Changing
  <1>4. (\A j \in spent : stored[j] = Nothing)'
    BY <1>0, CallTyped DEF FsInv, BTypeOK, ClientOK, Changing
  <1>5. QED
    BY <1>1, <1>2, <1>3, <1>4 DEF FsInv

LEMMA HeadReadsPreserves ==
  ASSUME FsInv, NEW c \in Client, HeadReads(c)
  PROVE  FsInv'
  <1> USE BucketAssumption DEF HeadReads, Return, At, Idle
  <1>0. ~At(c, "idle")
    OBVIOUS
  <1>1. BTypeOK'
    BY <1>0, CallTyped DEF FsInv, BTypeOK, ClientOK
  <1>2. Exclusive'
    BY <1>0, CallTyped DEF FsInv, BTypeOK, Exclusive, Changing
  <1>3. (\A d \in Client : ClientOK(d))'
    BY <1>0, CallTyped DEF FsInv, BTypeOK, ClientOK, Exclusive, Changing
  <1>4. (\A j \in spent : stored[j] = Nothing)'
    BY <1>0, CallTyped DEF FsInv, BTypeOK, ClientOK, Changing
  <1>5. QED
    BY <1>1, <1>2, <1>3, <1>4 DEF FsInv

LEMMA ErrsPreserves ==
  ASSUME FsInv, NEW c \in Client, Errs(c)
  PROVE  FsInv'
  <1> USE BucketAssumption DEF Errs, Return, At, Idle
  <1>0. ~At(c, "idle")
    OBVIOUS
  <1>1. BTypeOK'
    BY <1>0, CallTyped DEF FsInv, BTypeOK, ClientOK
  <1>2. Exclusive'
    BY <1>0, CallTyped DEF FsInv, BTypeOK, Exclusive, Changing
  <1>3. (\A d \in Client : ClientOK(d))'
    BY <1>0, CallTyped DEF FsInv, BTypeOK, ClientOK, Exclusive, Changing
  <1>4. (\A j \in spent : stored[j] = Nothing)'
    BY <1>0, CallTyped DEF FsInv, BTypeOK, ClientOK, Changing
  <1>5. QED
    BY <1>1, <1>2, <1>3, <1>4 DEF FsInv

LEMMA DiesPreserves ==
  ASSUME FsInv, NEW c \in Client, Dies(c)
  PROVE  FsInv'
  <1> USE BucketAssumption DEF Dies, At, Idle
  <1>0. ~At(c, "idle")
    OBVIOUS
  <1>1. BTypeOK'
    BY <1>0, CallTyped DEF FsInv, BTypeOK, ClientOK
  <1>2. Exclusive'
    BY <1>0, CallTyped DEF FsInv, BTypeOK, Exclusive, Changing
  <1>3. (\A d \in Client : ClientOK(d))'
    BY <1>0, CallTyped DEF FsInv, BTypeOK, ClientOK, Exclusive, Changing
  <1>4. (\A j \in spent : stored[j] = Nothing)'
    BY <1>0, CallTyped DEF FsInv, BTypeOK, ClientOK, Changing
  <1>5. QED
    BY <1>1, <1>2, <1>3, <1>4 DEF FsInv

LEMMA FsNext == FsInv /\ [BNext]_fvars => FsInv'
  <1> SUFFICES ASSUME FsInv, [BNext]_fvars PROVE FsInv'
    OBVIOUS
  <1>1. CASE UNCHANGED fvars
    BY <1>1 DEF FsInv, BTypeOK, Exclusive, ClientOK, Changing, At, fvars
  <1>2. CASE BNext
    BY <1>2, RequestPreserves, PutChecksPreserves, PutCreatesPreserves, PutWritesPreserves,
       PutRenamesPreserves, GetsPreserves, DeletesPreserves, HeadStatsPreserves,
       HeadReadsPreserves, ErrsPreserves, DiesPreserves
    DEF BNext
  <1>3. QED
    BY <1>1, <1>2

-----------------------------------------------------------------------------
\* A call that returns or dies is no longer asked; nobody else's call changes.
LEMMA AskedSettles ==
  ASSUME FsInv, NEW c \in Client, call' = [call EXCEPT ![c] = Idle]
  PROVE  [x \in Client |-> Asked(x)]' = [[x \in Client |-> Asked(x)] EXCEPT ![c] = Nothing]
  BY DEF FsInv, BTypeOK, Asked, At, Idle

\* The steps inside a put and a head do not change what was asked.
LEMMA AskedKept ==
  ASSUME FsInv, NEW c \in Client,
         (PutChecks(c) /\ stored[call[c].key] = Nothing) \/ PutCreates(c) \/ PutWrites(c)
           \/ (HeadStats(c) /\ stored[call[c].key] # Nothing)
  PROVE  [x \in Client |-> Asked(x)]' = [x \in Client |-> Asked(x)]
  <1>1. ~At(c, "idle")
    BY DEF PutChecks, PutCreates, PutWrites, HeadStats, At
  <1>2. Asked(c)' = Asked(c)
    BY <1>1, CallTyped
    DEF FsInv, BTypeOK, Asked, At, PutChecks, PutCreates, PutWrites, HeadStats, Goto
  <1>3. \A d \in Client : d # c => call'[d] = call[d]
    BY DEF FsInv, BTypeOK, PutChecks, PutCreates, PutWrites, HeadStats, Goto
  <1>4. \A d \in Client : Asked(d)' = Asked(d)
    BY <1>2, <1>3 DEF Asked, At
  <1>5. QED
    BY <1>4

LEMMA AskedWhenBusy ==
  ASSUME FsInv, NEW c \in Client, ~At(c, "idle")
  PROVE  /\ Asked(c) # Nothing
         /\ Asked(c).key = call[c].key
         /\ Asked(c).body = call[c].body
         /\ Asked(c).op = CASE At(c, "etag") -> "head"
                            [] call[c].at \in {"create", "write", "rename"} -> "put"
                            [] OTHER -> call[c].at
  <1>1. Asked(c) \in [op : {"put", "get", "delete", "head"}, key : Key, body : Body \union {Nothing}]
    BY CallTyped DEF Asked, At
  <1>2. Asked(c) # Nothing
    BY <1>1, BucketAssumption
  <1>3. QED
    BY <1>2 DEF Asked

\* Each step of the directory is a step of the bucket, or none.
LEMMA StepRefines == FsInv /\ [BNext]_fvars => [Bucket!BucketNext]_(Bucket!Bvars)
  <1> DEFINE same == UNCHANGED <<stored, [x \in Client |-> Asked(x)], answer>>
  <1> SUFFICES ASSUME FsInv, [BNext]_fvars PROVE Bucket!BucketNext \/ same
    BY DEF Bucket!Bvars
  <1>1. CASE UNCHANGED fvars
    BY <1>1 DEF fvars, Asked, At
  <1>2. ASSUME NEW c \in Client, NEW at \in {"put", "get", "delete", "head"}, NEW k \in Key,
               NEW b \in Body \union {Nothing}, Request(c, at, k, b)
        PROVE  Bucket!BucketNext
    <2> DEFINE ask == [op |-> at, key |-> k, body |-> b]
    <2>1. ask \in Bucket!Call
      BY <1>2, BucketAssumption DEF Request, Bucket!Call
    <2>2. [x \in Client |-> Asked(x)]' = [[x \in Client |-> Asked(x)] EXCEPT ![c] = ask]
      BY <1>2 DEF Request, FsInv, BTypeOK, Asked, At
    <2>3. Bucket!Ask(c, ask)
      BY <1>2, <2>2 DEF Bucket!Ask, Request, Asked
    <2>4. QED
      BY <2>1, <2>3 DEF Bucket!BucketNext
  <1>3. ASSUME NEW c \in Client, PutRenames(c) PROVE Bucket!Put(c)
    BY <1>3, CallTyped, AskedSettles, AskedWhenBusy
    DEF PutRenames, Return, At, ClientOK, Bucket!Put, Bucket!Answer
  <1>4. ASSUME NEW c \in Client, PutChecks(c), stored[call[c].key] # Nothing
        PROVE  Bucket!PutCollides(c)
    BY <1>4, AskedSettles, AskedWhenBusy
    DEF PutChecks, Return, At, Bucket!PutCollides, Bucket!Answer
  <1>5. ASSUME NEW c \in Client, Deletes(c) PROVE Bucket!Delete(c)
    BY <1>5, AskedSettles, AskedWhenBusy DEF Deletes, Return, At, Bucket!Delete, Bucket!Answer
  <1>6. ASSUME NEW c \in Client, Gets(c) \/ (HeadStats(c) /\ stored[call[c].key] = Nothing)
        PROVE  Bucket!Read(c)
    BY <1>6, AskedSettles, AskedWhenBusy
    DEF Gets, HeadStats, Return, At, Bucket!Read, Bucket!Answer
  <1>7. ASSUME NEW c \in Client, HeadReads(c) PROVE Bucket!Read(c) \/ Bucket!Fail(c)
    <2>1. CASE stored[call[c].key] = Nothing
      <3>1. Return(c, "error") /\ UNCHANGED stored
        <4>1. call[c].size # Nothing
          BY <1>7, CallTyped, BucketAssumption DEF HeadReads, At, ClientOK
        <4>2. QED
          BY <1>7, <2>1, <4>1 DEF HeadReads
      <3>2. QED
        BY <1>7, <3>1, AskedSettles, AskedWhenBusy
        DEF HeadReads, Return, At, Bucket!Fail, Bucket!Answer
    <2>2. CASE stored[call[c].key] # Nothing
      <3>1. stored[call[c].key] = call[c].size
        BY <1>7, <2>2, CallTyped DEF HeadReads, At, ClientOK
      <3>2. Return(c, stored[call[c].key]) /\ UNCHANGED stored
        BY <1>7, <2>2, <3>1 DEF HeadReads
      <3>3. QED
        BY <1>7, <3>2, AskedSettles, AskedWhenBusy
        DEF HeadReads, Return, At, Bucket!Read, Bucket!Answer
    <2>3. QED
      BY <2>1, <2>2
  <1>8. ASSUME NEW c \in Client, Errs(c) PROVE Bucket!Fail(c)
    BY <1>8, AskedSettles, AskedWhenBusy DEF Errs, Return, Bucket!Fail, Bucket!Answer
  <1>9. ASSUME NEW c \in Client, Dies(c) PROVE Bucket!Die(c)
    BY <1>9, AskedSettles, AskedWhenBusy DEF Dies, Bucket!Die
  <1>10. ASSUME NEW c \in Client,
                (PutChecks(c) /\ stored[call[c].key] = Nothing) \/ PutCreates(c) \/ PutWrites(c)
                  \/ (HeadStats(c) /\ stored[call[c].key] # Nothing)
         PROVE  same
    BY <1>10, AskedKept DEF PutChecks, PutCreates, PutWrites, HeadStats
  <1> HIDE DEF same
  <1>11. CASE BNext
    <2> PICK c \in Client :
          \/ \E at \in {"put", "get", "delete", "head"}, k \in Key,
               b \in Body \union {Nothing} : Request(c, at, k, b)
          \/ PutChecks(c) \/ PutCreates(c) \/ PutWrites(c) \/ PutRenames(c)
          \/ Gets(c) \/ Deletes(c) \/ HeadStats(c) \/ HeadReads(c)
          \/ Errs(c) \/ Dies(c)
      BY <1>11 DEF BNext
    <2>1. CASE \E at \in {"put", "get", "delete", "head"}, k \in Key,
               b \in Body \union {Nothing} : Request(c, at, k, b)
      BY <2>1, <1>2
    <2>2. CASE PutChecks(c) \/ HeadStats(c)
      BY <2>2, <1>4, <1>6, <1>10 DEF Bucket!BucketNext
    <2>3. CASE PutCreates(c) \/ PutWrites(c)
      BY <2>3, <1>10
    <2>4. CASE PutRenames(c) \/ Gets(c) \/ Deletes(c) \/ HeadReads(c) \/ Errs(c) \/ Dies(c)
      BY <2>4, <1>3, <1>5, <1>6, <1>7, <1>8, <1>9 DEF Bucket!BucketNext
    <2>5. QED
      BY <2>1, <2>2, <2>3, <2>4
  <1>12. QED
    BY <1>1, <1>11

\* Types, and no partial object under a key, whoever dies in the middle of a put.
THEOREM BucketTypeCorrect == BSpec => []BTypeOK
  <1>1. FsInv => BTypeOK
    BY DEF FsInv
  <1>2. QED
    BY <1>1, FsInit, FsNext, PTL DEF BSpec

\* The directory with its system calls implements the atomic bucket of bucket.rs,
\* while puts and deletes of a key do not overlap and keys are not used again.
THEOREM DirectoryImplementsBucket == BSpec => KeepsBucketContract
  <1>1. BInit => Bucket!BucketInit
    BY DEF BInit, Bucket!BucketInit, Asked, At, Idle
  <1>2. QED
    BY <1>1, FsInit, FsNext, StepRefines, PTL DEF BSpec, KeepsBucketContract, Bucket!BucketSpec

-----------------------------------------------------------------------------
\* The appending sinks.

Ends == out = << >> \/ out[Len(out)] = Sep

PhaseOK ==
  /\ phase # "none" => alive /\ primed = "yes" /\ notes > 0
  /\ primed = "no" => stdout /\ out = << >>
  /\ primed = "unset" /\ alive => ~stdout /\ (overwrite => written = {})
  /\ phase = "open" /\ truncate => written = {}
  /\ phase = "open" /\ ~prefix /\ separator => truncate \/ out = << >> \/ notes \in unseen
  /\ phase = "text" /\ separator => Ends \/ notes \in unseen

TInv == TTypeOK /\ PhaseOK /\ Separated /\ WrittenStays

LEMMA EmptyStream == << >> \in Seq(0..MaxNotes)
  OBVIOUS

LEMMA SinkInit == TInit => TInv
  <1> SUFFICES ASSUME TInit PROVE TInv
    OBVIOUS
  <1>a. stdout \in BOOLEAN /\ overwrite \in BOOLEAN /\ separator \in BOOLEAN
    BY DEF TInit
  <1>b. alive \in BOOLEAN /\ truncate \in BOOLEAN /\ prefix \in BOOLEAN
    BY DEF TInit
  <1>c. out \in Seq(0..MaxNotes)
    BY EmptyStream DEF TInit
  <1>1. TTypeOK
    BY <1>a, <1>b, <1>c, NotesAssumption DEF TInit, TTypeOK
  <1>2. PhaseOK
    BY DEF TInit, PhaseOK
  <1>3. Separated /\ WrittenStays
    BY DEF TInit, Separated, WrittenStays
  <1>4. QED
    BY <1>1, <1>2, <1>3 DEF TInv

\* What one more piece does to a stream.
LEMMA Appended ==
  ASSUME TInv, NEW n \in 0..MaxNotes, out' = Append(out, n)
  PROVE  /\ Len(out') = Len(out) + 1 /\ Len(out) \in Nat
         /\ \A i \in 1..Len(out) : out'[i] = out[i]
         /\ out'[Len(out) + 1] = n
         /\ out' # << >> /\ out' \in Seq(0..MaxNotes)
  BY DEF TInv, TTypeOK

LEMMA SeparatorAppended ==
  ASSUME TInv, out' = Append(out, Sep), UNCHANGED <<separator, unseen, written>>
  PROVE  Separated' /\ WrittenStays' /\ Ends'
  BY Appended DEF TInv, TTypeOK, Separated, Touch, WrittenStays, Ends, Sep

\* Bytes of a note go where there is nothing or a separator before them, or where
\* the sink failed to see what there is.
LEMMA NoteAppended ==
  ASSUME TInv, separator => Ends \/ notes \in unseen, out' = Append(out, notes),
         UNCHANGED <<separator, unseen>>,
         written' \in {written, written \union {notes}}
  PROVE  Separated' /\ WrittenStays'
  BY Appended DEF TInv, TTypeOK, Separated, Touch, WrittenStays, Ends, Sep

LEMMA SinkNext == TInv /\ [TNext]_tvars => TInv'
  <1> SUFFICES ASSUME TInv, [TNext]_tvars PROVE TInv'
    OBVIOUS
  <1> USE NotesAssumption DEF config
  <1>1. CASE UNCHANGED tvars
    BY <1>1 DEF TInv, TTypeOK, PhaseOK, Separated, Touch, WrittenStays, Ends, tvars
  <1>2. CASE Launch
    <2>1. out' = << >> \/ out' = out
      BY <1>2 DEF Launch
    <2>2. out' \in Seq(0..MaxNotes)
      BY <2>1, EmptyStream DEF TInv, TTypeOK
    <2>3. alive' \in BOOLEAN
      BY <1>2 DEF Launch
    <2>4. TTypeOK'
      BY <1>2, <2>2, <2>3 DEF Launch, TInv, TTypeOK
    <2>5. out' = out \/ (out' = << >> /\ written' = {})
      BY <1>2 DEF Launch
    <2>6. written' = {} \/ written' = written
      BY <1>2 DEF Launch
    <2>7. PhaseOK'
      <3>1. CASE stdout
        BY <1>2, <3>1 DEF Launch, TInv, TTypeOK, PhaseOK, Ends
      <3>2. CASE ~stdout
        BY <1>2, <3>2 DEF Launch, TInv, TTypeOK, PhaseOK, Ends
      <3>3. QED
        BY <3>1, <3>2
    <2>8. Separated' /\ WrittenStays'
      <3>1. CASE out' = out
        BY <1>2, <2>6, <3>1 DEF Launch, TInv, Separated, Touch, WrittenStays
      <3>2. CASE out' = << >> /\ written' = {}
        BY <3>2, Len(<< >>) = 0 DEF Separated, Touch, WrittenStays
      <3>3. QED
        BY <2>5, <3>1, <3>2
    <2>9. QED
      BY <2>4, <2>7, <2>8 DEF TInv
  <1>3. CASE Begin
    <2>1. truncate' \in BOOLEAN /\ prefix' \in BOOLEAN
      BY <1>3 DEF Begin
    <2>2. TTypeOK'
      <3>1. notes' = notes + 1 /\ notes + 1 \in 1..MaxNotes
        BY <1>3 DEF Begin, TInv, TTypeOK
      <3>2. unseen' \subseteq unseen \union {notes + 1}
        BY <1>3 DEF Begin
      <3>3. notes' \in 0..MaxNotes /\ unseen' \subseteq 1..MaxNotes
        BY <3>1, <3>2 DEF TInv, TTypeOK
      <3>4. out' = out /\ alive' = alive /\ written' = written /\ UNCHANGED config
        BY <1>3 DEF Begin
      <3>5. primed' \in {"unset", "no", "yes"} /\ phase' \in {"none", "open", "prefix", "text"}
        BY <1>3 DEF Begin
      <3>6. QED
        BY <2>1, <3>3, <3>4, <3>5 DEF TInv, TTypeOK
    <2>3. PhaseOK'
      <3>1. truncate' => written' = {}
        BY <1>3 DEF Begin, TInv, TTypeOK, PhaseOK
      <3>2. ~prefix' /\ separator' => ~Primed(FALSE) \/ notes' \in unseen'
        BY <1>3 DEF Begin
      <3>3. ~Primed(FALSE) => truncate' \/ out = << >>
        BY <1>3 DEF Begin, Primed, TInv, TTypeOK, PhaseOK
      <3>4. phase' = "open" /\ primed' = "yes" /\ alive' = alive /\ alive /\ notes' > 0 /\ out' = out
        BY <1>3 DEF Begin, TInv, TTypeOK
      <3>5. QED
        BY <3>1, <3>2, <3>3, <3>4 DEF PhaseOK
    <2>4. Separated' /\ WrittenStays'
      <3>1. out' = out /\ separator' = separator /\ written' = written /\ unseen \subseteq unseen'
        BY <1>3 DEF Begin
      <3>2. QED
        BY <3>1 DEF TInv, Separated, WrittenStays, Touch
    <2>5. QED
      BY <2>2, <2>3, <2>4 DEF TInv
  <1>4. CASE Open
    <2>1. CASE truncate
      <3>1. out' = << >> /\ written' = {}
        BY <1>4, <2>1 DEF Open, TInv, PhaseOK
      <3>2. TTypeOK'
        BY <1>4, <3>1, EmptyStream DEF Open, TInv, TTypeOK
      <3>3. PhaseOK'
        BY <1>4, <3>1 DEF Open, TInv, TTypeOK, PhaseOK, Ends
      <3>4. Separated' /\ WrittenStays'
        BY <3>1, Len(<< >>) = 0 DEF Separated, Touch, WrittenStays
      <3>5. QED
        BY <3>2, <3>3, <3>4 DEF TInv
    <2>2. CASE ~truncate
      <3>1. out' = out
        BY <1>4, <2>2 DEF Open
      <3>2. TTypeOK'
        BY <1>4, <3>1 DEF Open, TInv, TTypeOK
      <3>3. PhaseOK'
        BY <1>4, <2>2, <3>1 DEF Open, TInv, TTypeOK, PhaseOK, Ends
      <3>4. Separated' /\ WrittenStays'
        BY <1>4, <3>1 DEF Open, TInv, Separated, Touch, WrittenStays
      <3>5. QED
        BY <3>2, <3>3, <3>4 DEF TInv
    <2>3. QED
      BY <2>1, <2>2
  <1>5. CASE WritePrefix
    <2>1. out' = Append(out, Sep) /\ UNCHANGED <<separator, unseen, written>>
      BY <1>5 DEF WritePrefix, Piece
    <2>2. TTypeOK' /\ PhaseOK'
      BY <1>5, <2>1, SeparatorAppended, Appended DEF WritePrefix, TInv, TTypeOK, PhaseOK, Sep
    <2>3. QED
      BY <2>1, <2>2, SeparatorAppended DEF TInv
  <1>6. CASE WriteText
    <2>1. out' = Append(out, notes)
      BY <1>6 DEF WriteText, Piece
    <2>2. TTypeOK' /\ PhaseOK'
      BY <1>6, <2>1, Appended DEF WriteText, TInv, TTypeOK, PhaseOK, Ends
    <2>3. QED
      BY <1>6, <2>1, <2>2, NoteAppended DEF WriteText, TInv, PhaseOK
  <1>7. CASE Breaks
    <2>1. CASE out' = out
      BY <1>7, <2>1 DEF Breaks, TInv, TTypeOK, PhaseOK, Separated, Touch, WrittenStays
    <2>2. CASE phase = "prefix" /\ out' = Append(out, Sep)
      BY <1>7, <2>2, SeparatorAppended, Appended DEF Breaks, TInv, TTypeOK, PhaseOK, Sep
    <2>3. CASE phase = "text" /\ out' = Append(out, notes)
      BY <1>7, <2>3, NoteAppended, Appended DEF Breaks, TInv, TTypeOK, PhaseOK
    <2>4. QED
      BY <1>7, <2>1, <2>2, <2>3 DEF Breaks, Piece, TInv, TTypeOK
  <1>8. CASE Exits
    BY <1>8 DEF Exits, TInv, TTypeOK, PhaseOK, Separated, Touch, WrittenStays, Ends
  <1>9. QED
    BY <1>1, <1>2, <1>3, <1>4, <1>5, <1>6, <1>7, <1>8 DEF TNext

\* Types of the sink.
THEOREM StreamTypeCorrect == TSpec => []TTypeOK
  <1>1. QED
    BY SinkInit, SinkNext, PTL DEF TSpec, TInv

\* With a separator configured no two notes touch, through failed and partial
\* writes, kills and restarts, but where the first write of a process failed to see
\* what the file holds (concat.rs, file.rs, stdout.rs).
THEOREM NotesSeparated == TSpec => []Separated
  <1>1. QED
    BY SinkInit, SinkNext, PTL DEF TSpec, TInv

\* A note that was written stays; overwriting empties the file before the first
\* note of a process only (file.rs).
THEOREM NotesStay == TSpec => []WrittenStays
  <1>1. QED
    BY SinkInit, SinkNext, PTL DEF TSpec, TInv

-----------------------------------------------------------------------------
\* The retry delay.

\* The powers of two are a loop of doublings.
LEMMA PowersOfTwo ==
  /\ Pow2[0] = 1
  /\ \A n \in 1..Bits : Pow2[n] = 2 * Pow2[n - 1]
  /\ \A n \in 0..Bits : Pow2[n] \in Nat
<1> DEFINE F == [i \in 1..Bits |-> [p \in Nat |-> 2 * p]]
<1>0. Bits \in Nat
  BY DelayAssumption
<1>1. F \in Turns(Nat, Bits) /\ \A i \in 1..Bits, p \in Nat : F[i][p] = 2 * p
  BY DEF Turns
<1> HIDE DEF F
<1>2. PICK h : h \in Courses(Nat, Bits, 1, F)
  BY <1>0, <1>1, Recursion
<1>3. h = [n \in 0..Bits |-> IF n = 0 THEN 1 ELSE 2 * h[n - 1]]
  <2>1. h \in [0..Bits -> Nat] /\ h[0] = 1 /\ \A n \in 1..Bits : h[n] = F[n][h[n - 1]]
    BY <1>2 DEF Courses
  <2>2. ASSUME NEW n \in 1..Bits PROVE h[n] = 2 * h[n - 1]
    <3>1. n - 1 \in 0..Bits
      BY <1>0
    <3> QED BY <1>1, <2>1, <3>1
  <2> QED BY <1>0, <2>1, <2>2
<1>4. Pow2 = [n \in 0..Bits |-> IF n = 0 THEN 1 ELSE 2 * Pow2[n - 1]]
  BY <1>3 DEF Pow2
<1>5. /\ Pow2 = [n \in 0..Bits |-> Pow2[n]] /\ Pow2[0] = 1
      /\ \A n \in 1..Bits : Pow2[n] = 2 * Pow2[n - 1]
  BY <1>0, <1>4
<1>6. \A n \in 1..Bits : Pow2[n - 1] \in Nat => Pow2[n] = F[n][Pow2[n - 1]]
  BY <1>1, <1>5
<1>7. Pow2 \in Courses(Nat, Bits, 1, F)
  BY <1>0, <1>1, <1>5, <1>6, CourseUnique
<1>8. \A n \in 0..Bits : Pow2[n] \in Nat
  BY <1>0, <1>7 DEF Courses
<1> QED BY <1>5, <1>8

\* So is the exact delay.
LEMMA ExactDelays ==
  \A n \in 0..MaxReceives :
    /\ Exact[n] \in Nat
    /\ Exact[n] = IF n <= 1 THEN Base ELSE Least(2 * Exact[n - 1], Cap)
<1> DEFINE Turn(i, d) == IF i <= 1 THEN Base ELSE Least(2 * d, Cap)
           F == [i \in 1..MaxReceives |-> [d \in Nat |-> Turn(i, d)]]
<1>0. MaxReceives \in Nat /\ Base \in Nat /\ Cap \in Nat
  BY DelayAssumption
<1>1. F \in Turns(Nat, MaxReceives) /\ \A i \in 1..MaxReceives, d \in Nat : F[i][d] = Turn(i, d)
  BY <1>0 DEF Turns, Least
<1>9. \A d : Turn(0, d) = Base
  OBVIOUS
<1> HIDE DEF F, Turn
<1>2. PICK h : h \in Courses(Nat, MaxReceives, Base, F)
  BY <1>0, <1>1, Recursion
<1>3. h = [n \in 0..MaxReceives |-> Turn(n, h[n - 1])]
  <2>1. h \in [0..MaxReceives -> Nat] /\ h[0] = Base /\ \A n \in 1..MaxReceives : h[n] = F[n][h[n - 1]]
    BY <1>2 DEF Courses
  <2>2. ASSUME NEW n \in 1..MaxReceives PROVE h[n] = Turn(n, h[n - 1])
    <3>1. n - 1 \in 0..MaxReceives
      BY <1>0
    <3>2. h[n - 1] \in Nat /\ h[n] = F[n][h[n - 1]]
      BY <2>1, <3>1
    <3> QED BY <1>1, <3>2
  <2>3. h[0] = Turn(0, h[0 - 1])
    BY <1>9, <2>1
  <2> QED BY <1>0, <2>1, <2>2, <2>3
<1>4. Exact = [n \in 0..MaxReceives |-> Turn(n, Exact[n - 1])]
  BY <1>3 DEF Exact, Turn
<1>5. /\ Exact = [n \in 0..MaxReceives |-> Exact[n]] /\ Exact[0] = Base
      /\ \A n \in 0..MaxReceives : Exact[n] = Turn(n, Exact[n - 1])
  BY <1>0, <1>4, <1>9
<1>6. ASSUME NEW n \in 1..MaxReceives, Exact[n - 1] \in Nat PROVE Exact[n] = F[n][Exact[n - 1]]
  <2>1. n \in 0..MaxReceives
    BY <1>0
  <2> QED BY <1>1, <1>5, <1>6, <2>1
<1>7. Exact \in Courses(Nat, MaxReceives, Base, F)
  BY <1>0, <1>1, <1>5, <1>6, CourseUnique
<1>8. \A n \in 0..MaxReceives : Exact[n] \in Nat
  BY <1>0, <1>7 DEF Courses
<1> QED BY <1>5, <1>8 DEF Turn

\* The limit of the shift is reached only when the product is past CAP.
LEMMA ShiftEnough == Base * Pow2[Bits - 1] >= Cap
<1> DEFINE p == Pow2[Bits - 1]
<1>1. p \in Nat /\ Pow2[Bits] = 2 * p
  BY PowersOfTwo, DelayAssumption
<1>2. Cap <= 2 * p
  BY <1>1, DelayAssumption DEF MaxUint
<1> HIDE DEF p
<1>3. 2 * p <= Base * p
  BY <1>1, DelayAssumption
<1> QED BY <1>1, <1>2, <1>3, DelayAssumption DEF p

\* The cap hides the saturation.
LEMMA CapHidesSaturation ==
  \A n \in Nat : /\ Shift(n) \in 0..Bits - 1
                 /\ Pow2[Shift(n)] \in Nat
                 /\ NextVisibility(n) = Least(Base * Pow2[Shift(n)], Cap)
<1> SUFFICES ASSUME NEW n \in Nat
             PROVE  /\ Shift(n) \in 0..Bits - 1
                    /\ Pow2[Shift(n)] \in Nat
                    /\ NextVisibility(n) = Least(Base * Pow2[Shift(n)], Cap)
  OBVIOUS
<1>1. Shift(n) \in 0..Bits - 1
  BY DelayAssumption DEF Shift, Least
<1>2. Pow2[Shift(n)] \in Nat /\ MaxUint \in Int
  BY <1>1, PowersOfTwo, DelayAssumption DEF MaxUint
<1> DEFINE x == Base * Pow2[Shift(n)]
<1>3. x \in Nat
  BY <1>2, DelayAssumption
<1> HIDE DEF x
<1>4. Least(Least(x, MaxUint), Cap) = Least(x, Cap)
  BY <1>2, <1>3, DelayAssumption DEF Least
<1> QED BY <1>1, <1>2, <1>4 DEF NextVisibility, SaturatingMul, x

\* The delay that the code computes is the exact one for every receive count.
LEMMA DelaysExact == \A n \in 0..MaxReceives : NextVisibility(n) = Exact[n]
<1> DEFINE S == {n \in Nat : NextVisibility(n) = Exact[n]}
<1>0. MaxReceives \in Nat /\ Base \in Nat /\ Cap \in Nat /\ Bits \in Nat /\ Base <= Cap /\ 0 < Bits
  BY DelayAssumption
<1>1. ASSUME NEW n \in 0..MaxReceives, n <= 1 PROVE n \in S
  <2>1. Shift(n) = 0 /\ Pow2[Shift(n)] = 1
    BY <1>0, <1>1, PowersOfTwo DEF Shift, Least
  <2>2. NextVisibility(n) = Base
    BY <1>0, <2>1, CapHidesSaturation DEF Least
  <2> QED BY <1>1, <2>2, ExactDelays
<1>2. ASSUME NEW n \in 0..MaxReceives - 1, n \in S PROVE n + 1 \in S
  <2>1. CASE n = 0
    BY <1>0, <1>1, <2>1
  <2> DEFINE x == Base * Pow2[Shift(n)]
             y == Base * Pow2[Shift(n + 1)]
  <2>2. /\ n + 1 \in 0..MaxReceives /\ (n + 1) - 1 = n
        /\ NextVisibility(n) = Least(x, Cap) /\ NextVisibility(n + 1) = Least(y, Cap)
        /\ x \in Nat /\ y \in Nat
    BY <1>0, CapHidesSaturation
  <2>3. ASSUME n # 0 PROVE Exact[n + 1] = Least(2 * Exact[n], Cap)
    BY <2>2, <2>3, ExactDelays
  <2>4. CASE n # 0 /\ n <= Bits - 1
    <3>1. Shift(n) = n - 1 /\ Shift(n + 1) = n
      BY <1>0, <2>4 DEF Shift, Least
    <3>2. Pow2[n] = 2 * Pow2[n - 1] /\ Pow2[n - 1] \in Nat
      BY <1>0, <2>4, PowersOfTwo
    <3>3. y = 2 * x
      BY <1>0, <3>1, <3>2
    <3> HIDE DEF x, y
    <3>4. Least(y, Cap) = Least(2 * Least(x, Cap), Cap)
      BY <1>0, <2>2, <3>3 DEF Least
    <3> QED BY <1>2, <2>2, <2>3, <2>4, <3>4
  <2>5. CASE n > Bits - 1
    <3>1. Shift(n) = Bits - 1 \/ n = Bits
      BY <1>0, <2>5 DEF Shift, Least
    <3>2. Shift(n) = Bits - 1 /\ Shift(n + 1) = Bits - 1 /\ n # 0
      BY <1>0, <2>5 DEF Shift, Least
    <3>3. x >= Cap /\ y >= Cap
      BY <3>2, ShiftEnough
    <3> HIDE DEF x, y
    <3>4. Least(x, Cap) = Cap /\ Least(y, Cap) = Cap /\ Least(2 * Cap, Cap) = Cap
      BY <1>0, <2>2, <3>3 DEF Least
    <3> QED BY <1>2, <2>2, <2>3, <3>2, <3>4
  <2> QED BY <1>0, <2>1, <2>4, <2>5
<1>3. \A n \in 0..MaxReceives : n \in S
  <2>1. 0 \in S
    BY <1>0, <1>1
  <2> HIDE DEF S
  <2> QED BY <1>0, <1>2, <2>1, InductionUpTo
<1> QED BY <1>3

DelayInv == receives \in 0..MaxReceives /\ delay = NextVisibility(receives)

\* However often a job comes back, its delay is Base doubled with every receive up
\* to Cap, whatever the width: next_visibility_sec never wraps to a short delay.
THEOREM DelayNeverWraps == DSpec => []DelayDoubles
<1>1. DInit => DelayInv
  BY DelayAssumption DEF DInit, DelayInv
<1>2. DelayInv /\ [DNext]_dvars => DelayInv'
  BY DelayAssumption DEF DelayInv, DNext, Receive, dvars
<1>3. DelayInv => DelayDoubles
  BY DelaysExact DEF DelayInv, DelayDoubles
<1> QED BY <1>1, <1>2, <1>3, PTL DEF DSpec
=============================================================================

-------------------------- MODULE CouchdbSinkProofs --------------------------
(***************************************************************************)
(* Proofs about the notes in CouchDB for every set of messages, documents  *)
(* and texts, every number of deliveries and whatever the user does.       *)
(*                                                                         *)
(* NoDanglingChunk holds for every deployment.  The others need one of     *)
(* the deployments the documentation speaks of: a single replica, or any   *)
(* number of replicas that name notes by message.                          *)
(***************************************************************************)
EXTENDS CouchdbSink, TLAPS

ByMessage == \A w \in Replica : naming[w] # "datetime"
Documented == \A f \in Fleets :
  \/ \A u, v \in Replica : f[u] # "off" /\ f[v] # "off" => u = v
  \/ \A w \in Replica : f[w] # "datetime"

\* A replica at work has a message, and its text's chunk once it is put.
Working(w) ==
  pc[w] # "idle" =>
    /\ naming[w] # "off"
    /\ msg[w] \in Message
    /\ pc[w] = "head" => naming[w] = "datetime"
    /\ pc[w] \in {"put", "refresh"} => text[w] \in chunks

\* The note at d, if there is one, is of message m.
FreeFor(d, m) == docs[d].live /\ docs[d].by \in Message => docs[d].by = m

HasNote(m) == \E d \in DocsOf(m) : d \in edited \/ (docs[d].live /\ docs[d].by = m)

\* What a replica that has chosen a name may rely on.
Owns(w) ==
  /\ pc[w] \in {"chunk", "put", "refresh"} => FreeFor(Target(w), msg[w])
  /\ pc[w] = "written" => HasNote(msg[w])
  /\ OneRuns /\ pc[w] # "idle" => recorded[msg[w]] = "none"

TInv ==
  /\ SinkTypeOK
  /\ \A w \in Replica : Working(w)
  /\ NoDanglingChunk

OInv ==
  /\ \A w \in Replica : Owns(w)
  /\ ByMessage => \A m \in Message, d \in Doc : d # MessageDoc[m] => ~(docs[d].live /\ docs[d].by = m)
  /\ RecordedHasNote

-----------------------------------------------------------------------------
(* Types and chunks, for every deployment.                                 *)

LEMMA TargetType ==
  ASSUME SinkTypeOK, NEW w \in Replica, msg[w] \in Message
  PROVE  Target(w) \in Doc /\ Target(w) \in DocsOf(msg[w])
BY SinkAssumption DEF SinkTypeOK, Target, DocsOf

LEMMA Update ==
  ASSUME NEW S, NEW T, NEW f \in [S -> T], NEW x, NEW y \in T
  PROVE  [f EXCEPT ![x] = y] \in [S -> T]
OBVIOUS

\* A step of a replica leaves the other ones alone.
Same(v) ==
  pc'[v] = pc[v] /\ msg'[v] = msg[v] /\ suffix'[v] = suffix[v] /\ text'[v] = text[v]

Step(w) ==
  \/ \E m \in Message : Take(w, m)
  \/ Head(w) \/ PutChunk(w) \/ NoSpeech(w) \/ PutMain(w) \/ Refresh(w)
  \/ Finish(w) \/ GiveUp(w)

LEMMA NextSteps == Next <=> (\E w \in Replica : Step(w)) \/ (\E d \in Doc : Edit(d))
BY DEF Next, Step

LEMMA StepAlone ==
  ASSUME SinkTypeOK, NEW w \in Replica, Step(w), NEW v \in Replica, v # w
  PROVE  Same(v)
<1> USE DEF SinkTypeOK, Same, Goto, Leave, localVars
<1>1. CASE \E m \in Message : Take(w, m)
  BY <1>1 DEF Take
<1>2. CASE Head(w) \/ PutChunk(w) \/ NoSpeech(w) \/ Refresh(w)
  BY <1>2 DEF Head, PutChunk, NoSpeech, Refresh
<1>3. CASE PutMain(w)
  BY <1>3 DEF PutMain, Store, Conflict
<1>4. CASE Finish(w) \/ GiveUp(w)
  BY <1>4 DEF Finish, GiveUp
<1>5. QED
  BY <1>1, <1>2, <1>3, <1>4 DEF Step

\* Only a replica that works on a message acts, and it keeps the deployment.
LEMMA StepKeeps ==
  ASSUME NEW w \in Replica, Step(w)
  PROVE  /\ naming' = naming
         /\ chunks \subseteq chunks'
         /\ UNCHANGED userVars
         /\ PutMain(w) \/ docs' = docs
         /\ Finish(w) \/ recorded' = recorded
BY DEF Step, Take, Head, PutChunk, NoSpeech, PutMain, Store, Conflict, Refresh, Finish, GiveUp,
       jobVars, userVars

LEMMA DocsType ==
  ASSUME TInv, [Next]_vars
  PROVE  docs' \in [Doc -> DocState] /\ chunks' \subseteq Text /\ NoDanglingChunk'
<1>0. SinkTypeOK /\ NoDanglingChunk
  BY DEF TInv
<1>1. ASSUME NEW w \in Replica, PutMain(w)
      PROVE  docs' \in [Doc -> DocState] /\ chunks' \subseteq Text /\ NoDanglingChunk'
  <2>1. pc[w] = "put" /\ chunks' = chunks
    BY <1>1 DEF PutMain
  <2>2. msg[w] \in Message /\ text[w] \in chunks
    BY <2>1 DEF TInv, Working
  <2>3. CASE docs' = docs
    BY <1>0, <2>1, <2>3 DEF SinkTypeOK, NoDanglingChunk
  <2>4. CASE Store(w)
    BY <1>0, <2>1, <2>2, <2>4, TargetType DEF Store, SinkTypeOK, NoDanglingChunk, DocState
  <2>5. QED
    BY <1>1, <2>3, <2>4 DEF PutMain, Conflict
<1>2. ASSUME NEW w \in Replica, Step(w), docs' = docs
      PROVE  docs' \in [Doc -> DocState] /\ chunks' \subseteq Text /\ NoDanglingChunk'
  <2>1. chunks' \subseteq Text
    <3>1. CASE PutChunk(w)
      <4>1. pc[w] = "chunk"
        BY <3>1 DEF PutChunk
      <4>2. msg[w] \in Message
        BY <4>1 DEF TInv, Working
      <4>3. QED
        BY <1>0, <3>1, <4>2, SinkAssumption DEF PutChunk, SinkTypeOK
    <3>2. QED
      BY <1>0, <1>2, <3>1
         DEF Step, Take, Head, NoSpeech, PutMain, Refresh, Finish, GiveUp, SinkTypeOK
  <2>2. QED
    BY <1>0, <1>2, <2>1, StepKeeps DEF SinkTypeOK, NoDanglingChunk
<1>3. ASSUME NEW d \in Doc, Edit(d)
      PROVE  docs' \in [Doc -> DocState] /\ chunks' \subseteq Text /\ NoDanglingChunk'
  <2>1. PICK t \in chunks, l \in BOOLEAN :
          docs' = [docs EXCEPT ![d] = [rev |-> @.rev + 1, live |-> l, by |-> Editor, text |-> t]]
    BY <1>3 DEF Edit
  <2>2. QED
    BY <1>0, <1>3, <2>1 DEF Edit, SinkTypeOK, NoDanglingChunk, DocState
<1>4. CASE UNCHANGED vars
  BY <1>0, <1>4 DEF vars, SinkTypeOK, NoDanglingChunk
<1>5. QED
  BY <1>1, <1>2, <1>3, <1>4, NextSteps, StepKeeps

LEMMA TypeNext == ASSUME TInv, [Next]_vars PROVE SinkTypeOK' /\ \A w \in Replica : Working(w)'
<1> DEFINE Goal == SinkTypeOK' /\ \A w \in Replica : Working(w)'
<1>0. SinkTypeOK /\ (\A w \in Replica : Working(w))
  BY DEF TInv
<1>1. docs' \in [Doc -> DocState] /\ chunks' \subseteq Text
  BY DocsType
<1>2. ASSUME NEW w \in Replica, Step(w) PROVE Goal
  <2>1. \A v \in Replica : v # w => Working(v)'
    BY <1>0, <1>2, StepAlone, StepKeeps DEF Working, Same
  <2>2. naming' \in Fleets /\ edited' \subseteq Doc /\ edits' \in 0 .. MaxEdits
    BY <1>0, <1>2, StepKeeps DEF SinkTypeOK, userVars
  <2> DEFINE Local == /\ recorded' \in [Message -> {"none", "ok", "no_speech"}]
                      /\ tries' \in [Message -> 0 .. MaxReceive]
                      /\ pc' \in [Replica -> Pc]
                      /\ msg' \in [Replica -> Message \cup {Nothing}]
                      /\ suffix' \in [Replica -> 0 .. MaxSuffix]
                      /\ text' \in [Replica -> Text \cup {Nothing}]
                      /\ rev' \in [Replica -> Nat]
                      /\ attempt' \in [Replica -> 0 .. MaxAttempt - 1]
  <2> SUFFICES Local /\ Working(w)'
    BY <1>1, <2>1, <2>2 DEF SinkTypeOK
  <2>3. Working(w)
    BY <1>0
  <2> USE SinkAssumption DEF SinkTypeOK, Pc, MaxAttempt, Working, jobVars, localVars
  <2>4. ASSUME NEW m \in Message, Take(w, m) PROVE Local /\ Working(w)'
    BY <1>0, <2>4 DEF Take, Goto
  <2>5. CASE Head(w)
    <3>0. suffix[w] \in 0 .. MaxSuffix /\ suffix \in [Replica -> 0 .. MaxSuffix]
      BY <1>0
    <3>1. suffix[w] < MaxSuffix => suffix[w] + 1 \in 0 .. MaxSuffix
      BY <3>0
    <3>2. suffix' \in [Replica -> 0 .. MaxSuffix]
      <4>1. \/ suffix' = suffix
            \/ suffix[w] < MaxSuffix /\ suffix' = [suffix EXCEPT ![w] = suffix[w] + 1]
        BY <2>5 DEF Head
      <4>2. QED
        BY <3>0, <3>1, <4>1, Update
    <3>3. /\ pc' \in [Replica -> Pc]
          /\ pc[w] = "head" /\ pc'[w] \in {"head", "chunk"}
          /\ UNCHANGED <<naming, chunks, recorded, tries, msg, text, rev, attempt>>
      BY <1>0, <2>5 DEF Head, Goto
    <3>4. QED
      BY <1>0, <2>3, <3>2, <3>3
  <2>6. CASE PutChunk(w)
    BY <1>0, <2>3, <2>6 DEF PutChunk, Goto
  <2>7. CASE NoSpeech(w)
    BY <1>0, <2>3, <2>7 DEF NoSpeech, Goto
  <2>8. ASSUME Leave(w)
        PROVE  /\ pc'[w] = "idle" /\ pc' \in [Replica -> Pc]
               /\ msg' \in [Replica -> Message \cup {Nothing}]
               /\ suffix' \in [Replica -> 0 .. MaxSuffix]
               /\ text' \in [Replica -> Text \cup {Nothing}]
               /\ rev' \in [Replica -> Nat]
               /\ attempt' \in [Replica -> 0 .. MaxAttempt - 1]
    BY <1>0, <2>8 DEF Leave, Goto
  <2>9. CASE PutMain(w)
    <3>1. pc[w] = "put" /\ naming' = naming /\ chunks' = chunks /\ UNCHANGED <<recorded, tries>>
      BY <2>9 DEF PutMain
    <3>2. CASE Store(w)
      BY <1>0, <2>3, <3>1, <3>2 DEF Store, Goto
    <3>3. CASE attempt[w] + 1 < MaxAttempt /\ Conflict(w)
      <4>0. attempt[w] \in 0 .. 2 /\ attempt[w] + 1 < 3
        BY <1>0, <3>3
      <4>1. attempt[w] + 1 \in 0 .. MaxAttempt - 1
        BY <4>0
      <4>2. attempt' \in [Replica -> 0 .. MaxAttempt - 1]
        <5>1. attempt' = [attempt EXCEPT ![w] = attempt[w] + 1]
          BY <3>3 DEF Conflict
        <5>2. QED
          BY <1>0, <4>1, <5>1, Update
      <4>3. pc' \in [Replica -> Pc] /\ pc'[w] = "refresh" /\ UNCHANGED <<msg, suffix, text, rev>>
        BY <1>0, <3>3 DEF Conflict, Goto
      <4>4. QED
        BY <1>0, <2>3, <3>1, <4>2, <4>3
    <3>4. CASE Leave(w)
      BY <1>0, <2>8, <3>1, <3>4
    <3>5. QED
      BY <2>9, <3>2, <3>3, <3>4 DEF PutMain
  <2>10. CASE Refresh(w)
    <3>1. pc[w] = "refresh" /\ msg[w] \in Message
      BY <2>3, <2>10 DEF Refresh
    <3>2. docs[Target(w)].rev \in Nat
      BY <1>0, <3>1, TargetType DEF DocState
    <3>3. QED
      BY <1>0, <2>3, <2>10, <3>1, <3>2 DEF Refresh, Goto
  <2>11. CASE Finish(w)
    BY <1>0, <2>3, <2>8, <2>11 DEF Finish
  <2>12. CASE GiveUp(w)
    BY <1>0, <2>8, <2>12 DEF GiveUp
  <2>13. QED
    BY <1>2, <2>4, <2>5, <2>6, <2>7, <2>9, <2>10, <2>11, <2>12 DEF Step
<1>3. ASSUME NEW d \in Doc, Edit(d) PROVE Goal
  BY <1>0, <1>1, <1>3, SinkAssumption DEF Edit, SinkTypeOK, Working, jobVars, localVars
<1>4. CASE UNCHANGED vars
  BY <1>0, <1>4 DEF vars, SinkTypeOK, Working, jobVars, userVars, localVars
<1>5. QED
  BY <1>2, <1>3, <1>4, NextSteps

LEMMA TInit == Init => TInv
BY SinkAssumption
   DEF Init, TInv, SinkTypeOK, Working, NoDanglingChunk, DocState, Pc, MaxAttempt

THEOREM TInvariance == Spec => []TInv
<1>1. TInv /\ [Next]_vars => TInv'
  BY TypeNext, DocsType DEF TInv
<1>2. QED
  BY TInit, <1>1, PTL DEF Spec

(* The variables keep their types; put_main gives up after three conflicts. *)
THEOREM SinkTypeCorrect == Spec => []SinkTypeOK
<1>1. TInv => SinkTypeOK
  BY DEF TInv
<1>2. QED
  BY <1>1, TInvariance, PTL

(* In every deployment, a document of the vault that exists names a chunk   *)
(* that exists.                                                             *)
THEOREM ChunksThere == Spec => []NoDanglingChunk
<1>1. TInv => NoDanglingChunk
  BY DEF TInv
<1>2. QED
  BY <1>1, TInvariance, PTL

-----------------------------------------------------------------------------
(* Names, in the documented deployments.                                   *)

LEMMA EditorApart == \A m \in Message : m # Editor /\ MessageDoc[m] \in DocsOf(m)
BY SinkAssumption DEF DocsOf

\* The worker replaces a note only by one of the same message.
LEMMA OwnerKept ==
  ASSUME TInv, OInv, [Next]_vars, NEW d \in Doc
  PROVE  /\ docs'[d].by \in Message /\ docs'[d] # docs[d] =>
              \E w \in Replica :
                pc[w] = "put" /\ d = Target(w) /\ docs'[d].by = msg[w] /\ docs'[d].live
         /\ docs[d].live /\ docs[d].by \in Message /\ docs'[d] # docs[d] =>
              \/ d \in edited'
              \/ docs'[d].live /\ docs'[d].by = docs[d].by
         /\ docs'[d] # docs[d] => docs'[d].by = Editor \/ docs'[d].by \in Message
         /\ docs'[d] # docs[d] /\ docs'[d].by = Editor => d \in edited'
<1>0. SinkTypeOK
  BY DEF TInv
<1>1. SUFFICES ASSUME docs' # docs
               PROVE  \/ \E w \in Replica :
                           /\ pc[w] = "put" /\ msg[w] \in Message
                           /\ FreeFor(Target(w), msg[w])
                           /\ Target(w) # d => docs'[d] = docs[d]
                           /\ Target(w) = d => docs'[d].by = msg[w] /\ docs'[d].live
                      \/ d \in edited' /\ docs'[d].by = Editor
                      \/ docs'[d] = docs[d]
  BY EditorApart DEF FreeFor
<1>2. ASSUME NEW w \in Replica, Step(w)
      PROVE  /\ pc[w] = "put" /\ msg[w] \in Message
             /\ FreeFor(Target(w), msg[w])
             /\ Target(w) # d => docs'[d] = docs[d]
             /\ Target(w) = d => docs'[d].by = msg[w] /\ docs'[d].live
  <2>1. PutMain(w) /\ Store(w) /\ pc[w] = "put"
    BY <1>1, <1>2, StepKeeps DEF PutMain, Conflict
  <2>2. msg[w] \in Message
    BY <2>1 DEF TInv, Working
  <2>3. FreeFor(Target(w), msg[w])
    BY <2>1 DEF OInv, Owns
  <2>4. QED
    BY <1>0, <2>1, <2>2, <2>3 DEF Store, SinkTypeOK
<1>3. ASSUME NEW c \in Doc, Edit(c) PROVE (d \in edited' /\ docs'[d].by = Editor) \/ docs'[d] = docs[d]
  BY <1>0, <1>3 DEF Edit, SinkTypeOK
<1>4. QED
  BY <1>1, <1>2, <1>3, NextSteps DEF vars

LEMMA HasNoteKept ==
  ASSUME TInv, OInv, [Next]_vars, NEW m \in Message, HasNote(m)
  PROVE  HasNote(m)'
<1>1. PICK d \in DocsOf(m) : d \in edited \/ (docs[d].live /\ docs[d].by = m)
  BY DEF HasNote
<1>2. edited \subseteq edited'
  <2>1. \A w \in Replica : Step(w) => edited' = edited
    BY StepKeeps DEF userVars
  <2>2. QED
    BY <2>1, NextSteps DEF Edit, vars, userVars
<1>3. d \in Doc
  BY <1>1, SinkAssumption DEF DocsOf
<1>4. d \in edited' \/ (docs'[d].live /\ docs'[d].by = m)
  BY <1>1, <1>2, <1>3, OwnerKept
<1>5. QED
  BY <1>1, <1>4 DEF HasNote, DocsOf

LEMMA NamingKept == ASSUME [Next]_vars PROVE naming' = naming
BY StepKeeps, NextSteps DEF Edit, vars

\* Who alone runs, is undisturbed but by the user.
LEMMA AloneRuns ==
  ASSUME TInv, OneRuns, NEW w \in Replica, pc[w] # "idle", NEW v \in Replica, v # w
  PROVE  naming[v] = "off" /\ pc[v] = "idle"
BY DEF TInv, Working, OneRuns

\* In a documented deployment no other replica writes to a name that one has
\* chosen for another message.
LEMMA FreeKept ==
  ASSUME Documented, TInv, OInv, [Next]_vars, NEW w \in Replica,
         pc[w] \in {"chunk", "put", "refresh"}
  PROVE  LET d == Target(w) IN docs'[d].live /\ docs'[d].by \in Message => docs'[d].by = msg[w]
<1> DEFINE d == Target(w)
<1>0. SinkTypeOK /\ Working(w) /\ msg[w] \in Message
  BY DEF TInv, Working
<1>1. d \in Doc
  BY <1>0, TargetType
<1>2. FreeFor(d, msg[w])
  BY DEF OInv, Owns
<1>3. SUFFICES ASSUME docs'[d] # docs[d], docs'[d].by \in Message
               PROVE  docs'[d].by = msg[w]
  BY <1>2 DEF FreeFor
<1>4. PICK v \in Replica : pc[v] = "put" /\ d = Target(v) /\ docs'[d].by = msg[v]
  BY <1>1, <1>3, OwnerKept
<1>5. CASE OneRuns
  BY <1>4, <1>5, AloneRuns
<1>6. CASE ByMessage
  <2>1. d = MessageDoc[msg[v]] /\ d = MessageDoc[msg[w]]
    BY <1>4, <1>6 DEF ByMessage, Target
  <2>2. msg[v] \in Message
    BY <1>4 DEF TInv, Working
  <2>3. QED
    BY <1>0, <1>4, <2>1, <2>2, SinkAssumption
<1>7. QED
  BY <1>0, <1>5, <1>6 DEF Documented, OneRuns, ByMessage, SinkTypeOK

LEMMA NamesNext ==
  ASSUME TInv, OInv, [Next]_vars, ByMessage', NEW m \in Message, NEW d \in Doc, d # MessageDoc[m]
  PROVE  ~(docs'[d].live /\ docs'[d].by = m)
<1>1. ByMessage
  BY NamingKept DEF ByMessage
<1>2. SUFFICES ASSUME docs'[d] # docs[d], docs'[d].by = m PROVE FALSE
  BY <1>1 DEF OInv
<1>3. PICK w \in Replica : pc[w] = "put" /\ d = Target(w) /\ docs'[d].by = msg[w]
  BY <1>2, OwnerKept
<1>4. QED
  BY <1>1, <1>2, <1>3 DEF ByMessage, Target

\* A replica that does not move, or only goes from one request to the next,
\* still owns its document.
LEMMA OwnsKept ==
  ASSUME Documented, TInv, OInv, [Next]_vars, NEW w \in Replica,
         msg'[w] = msg[w], suffix'[w] = suffix[w],
         pc'[w] = pc[w] \/ pc'[w] = "idle"
           \/ (pc[w] \in {"chunk", "put", "refresh"} /\ pc'[w] \in {"put", "refresh", "silent"}),
         OneRuns /\ pc'[w] # "idle" => recorded' = recorded
  PROVE  Owns(w)'
<1>0. naming' = naming /\ (OneRuns' <=> OneRuns)
  BY NamingKept DEF OneRuns
<1>1. Target(w)' = Target(w)
  BY <1>0 DEF Target
<1>2. pc'[w] \in {"chunk", "put", "refresh"} => FreeFor(Target(w), msg[w])'
  BY <1>1, FreeKept DEF FreeFor
<1>3. pc'[w] = "written" => HasNote(msg[w])'
  <2>1. SUFFICES ASSUME pc[w] = "written" PROVE HasNote(msg[w])'
    OBVIOUS
  <2>2. PICK m : m = msg[w]
    OBVIOUS
  <2>3. m \in Message /\ HasNote(m)
    BY <2>1, <2>2 DEF TInv, Working, OInv, Owns
  <2>4. HasNote(m)'
    BY <2>3, HasNoteKept
  <2>5. QED
    BY <2>2, <2>4 DEF HasNote, DocsOf
<1>4. OneRuns' /\ pc'[w] # "idle" => recorded'[msg'[w]] = "none"
  BY <1>0 DEF OInv, Owns
<1>5. QED
  BY <1>2, <1>3, <1>4 DEF Owns, FreeFor, HasNote, DocsOf

LEMMA OwnsNext == ASSUME Documented, TInv, OInv, [Next]_vars PROVE \A w \in Replica : Owns(w)'
<1>0. SinkTypeOK /\ naming' = naming
  BY NamingKept DEF TInv
<1>1. ASSUME NEW w \in Replica, Step(w), NEW v \in Replica, v # w PROVE Owns(v)'
  <2>1. pc'[v] = pc[v] /\ msg'[v] = msg[v] /\ suffix'[v] = suffix[v]
    BY <1>0, <1>1, StepAlone DEF Same
  <2>2. OneRuns /\ pc[v] # "idle" => recorded' = recorded
    <3>1. Finish(w) => pc[w] # "idle"
      BY DEF Finish
    <3>2. QED
      BY <1>1, <3>1, AloneRuns, StepKeeps
  <2>3. QED
    BY <2>1, <2>2, OwnsKept
<1>2. ASSUME NEW w \in Replica, Step(w) PROVE Owns(w)'
  <2> USE DEF Goto
  <2>0. Leave(w) => Owns(w)'
    <3>1. Leave(w) => pc'[w] = "idle"
      BY <1>0 DEF Leave, SinkTypeOK
    <3>2. QED
      BY <3>1 DEF Owns
  <2>1. ASSUME NEW m \in Message, Take(w, m) PROVE Owns(w)'
    <3>1. msg'[w] = m /\ recorded'[m] = "none" /\ docs' = docs
      BY <1>0, <2>1 DEF Take, SinkTypeOK
    <3>2. CASE naming[w] = "datetime"
      <4>1. pc'[w] = "head"
        BY <1>0, <2>1, <3>2 DEF Take, SinkTypeOK
      <4>2. QED
        BY <3>1, <4>1 DEF Owns
    <3>3. CASE naming[w] # "datetime"
      <4>1. pc'[w] = "chunk" /\ Target(w)' = MessageDoc[m]
        BY <1>0, <2>1, <3>1, <3>3 DEF Take, SinkTypeOK, Target
      <4>2. FreeFor(MessageDoc[m], m)
        <5>1. SUFFICES ASSUME docs[MessageDoc[m]].live, docs[MessageDoc[m]].by \in Message
                       PROVE  docs[MessageDoc[m]].by = m
          BY DEF FreeFor
        <5>2. naming[w] # "off"
          BY <2>1 DEF Take
        <5>3. ByMessage
          BY <1>0, <3>3, <5>2 DEF Documented, ByMessage, SinkTypeOK
        <5>4. QED
          BY <5>1, <5>3, SinkAssumption DEF OInv
      <4>3. QED
        BY <3>1, <4>1, <4>2 DEF Owns, FreeFor
    <3>4. QED
      BY <3>2, <3>3
  <2>2. CASE Head(w)
    <3>1. recorded' = recorded /\ docs' = docs /\ msg' = msg
      BY <2>2 DEF Head, jobVars
    <3>2. pc[w] = "head" /\ pc'[w] \in {"head", "chunk"}
      BY <1>0, <2>2 DEF Head, SinkTypeOK
    <3>3. pc'[w] = "chunk" => ~docs[Target(w)].live /\ suffix' = suffix
      BY <1>0, <2>2 DEF Head, SinkTypeOK
    <3>4. pc'[w] = "chunk" => FreeFor(Target(w), msg[w])'
      BY <1>0, <3>1, <3>3 DEF FreeFor, Target
    <3>5. Owns(w)
      BY DEF OInv
    <3>6. QED
      BY <1>0, <3>1, <3>2, <3>4, <3>5 DEF Owns, OneRuns, FreeFor
  <2>3. CASE PutChunk(w) \/ NoSpeech(w) \/ Refresh(w)
    <3>1. /\ pc[w] \in {"chunk", "refresh"} /\ pc'[w] \in {"put", "silent"}
          /\ msg'[w] = msg[w] /\ suffix'[w] = suffix[w]
          /\ recorded' = recorded
      BY <1>0, <2>3 DEF PutChunk, NoSpeech, Refresh, localVars, jobVars, SinkTypeOK
    <3>2. QED
      BY <3>1, OwnsKept
  <2>4. CASE PutMain(w)
    <3>1. pc[w] = "put" /\ recorded' = recorded
      BY <2>4 DEF PutMain, jobVars
    <3>2. CASE Store(w)
      <4>1. /\ pc'[w] = "written" /\ msg' = msg
            /\ docs' = [docs EXCEPT ![Target(w)] =
                          [rev |-> @.rev + 1, live |-> TRUE, by |-> msg[w], text |-> text[w]]]
        BY <1>0, <3>2 DEF Store, localVars, SinkTypeOK
      <4>2. msg[w] \in Message
        BY <3>1 DEF TInv, Working
      <4>3. Target(w) \in Doc /\ Target(w) \in DocsOf(msg[w])
        BY <1>0, <4>2, TargetType
      <4>4. docs'[Target(w)].live /\ docs'[Target(w)].by = msg[w]
        BY <1>0, <4>1, <4>3 DEF SinkTypeOK
      <4>5. HasNote(msg[w])'
        BY <4>1, <4>3, <4>4 DEF HasNote, DocsOf
      <4>6. Owns(w)
        BY DEF OInv
      <4>7. QED
        BY <1>0, <3>1, <4>1, <4>5, <4>6 DEF Owns, OneRuns, HasNote, DocsOf
    <3>3. CASE Conflict(w)
      <4>1. pc'[w] = "refresh" /\ msg'[w] = msg[w] /\ suffix'[w] = suffix[w]
        BY <1>0, <3>3 DEF Conflict, SinkTypeOK
      <4>2. QED
        BY <3>1, <4>1, OwnsKept
    <3>4. QED
      BY <2>0, <2>4, <3>2, <3>3 DEF PutMain
  <2>5. CASE Finish(w) \/ GiveUp(w)
    BY <2>0, <2>5 DEF Finish, GiveUp
  <2>6. QED
    BY <1>2, <2>1, <2>2, <2>3, <2>4, <2>5 DEF Step
<1>3. ASSUME UNCHANGED <<pc, msg, suffix, recorded>>, NEW w \in Replica PROVE Owns(w)'
  BY <1>3, OwnsKept
<1>4. QED
  BY <1>1, <1>2, <1>3, NextSteps DEF Edit, vars, localVars, jobVars

LEMMA RecordedNext == ASSUME TInv, OInv, [Next]_vars PROVE RecordedHasNote'
<1> SUFFICES ASSUME NEW m \in Message, recorded'[m] = "ok" PROVE HasNote(m)'
  BY DEF RecordedHasNote, HasNote
<1>0. SinkTypeOK
  BY DEF TInv
<1>1. HasNote(m)
  <2>1. CASE recorded[m] = "ok"
    BY <2>1 DEF OInv, RecordedHasNote, HasNote
  <2>2. CASE recorded[m] # "ok"
    <3>1. PICK w \in Replica : Finish(w)
      BY <2>2, StepKeeps, NextSteps DEF Edit, vars, jobVars
    <3>2. msg[w] = m /\ pc[w] = "written"
      BY <1>0, <2>2, <3>1 DEF Finish, SinkTypeOK
    <3>3. QED
      BY <3>2 DEF OInv, Owns
  <2>3. QED
    BY <2>1, <2>2
<1>2. QED
  BY <1>1, HasNoteKept

LEMMA ONext == ASSUME Documented, TInv, OInv, [Next]_vars PROVE OInv'
<1>1. ByMessage' =>
        \A m \in Message, d \in Doc : d # MessageDoc[m] => ~(docs'[d].live /\ docs'[d].by = m)
  BY NamesNext
<1>2. QED
  BY <1>1, OwnsNext, RecordedNext DEF OInv

LEMMA OInit == Init => OInv
BY SinkAssumption DEF Init, OInv, Owns, RecordedHasNote

THEOREM OInvariance == ASSUME Documented PROVE Spec => [](TInv /\ OInv)
<1>1. TInv /\ OInv /\ [Next]_vars => OInv'
  BY ONext
<1>2. QED
  BY <1>1, OInit, TInvariance, PTL DEF Spec

(* In the documented deployments a message recorded as ok has its note,     *)
(* unless the user has touched a document of that name.                     *)
THEOREM NotesThere == ASSUME Documented PROVE Spec => []RecordedHasNote
<1>1. OInv => RecordedHasNote
  BY DEF OInv
<1>2. QED
  BY <1>1, OInvariance, PTL

(* In the documented deployments the worker replaces a note only by a note  *)
(* of the same message.                                                     *)
THEOREM NotesKept == ASSUME Documented PROVE Spec => NoteKept
<1>1. TInv /\ OInv /\ [Next]_vars =>
        [\A d \in Doc :
           docs[d].live /\ docs[d].by \in Message => docs'[d].by \in {docs[d].by, Editor}]_vars
  <2> SUFFICES ASSUME TInv, OInv, [Next]_vars, NEW d \in Doc,
                      docs[d].live, docs[d].by \in Message
               PROVE  docs'[d].by \in {docs[d].by, Editor}
    OBVIOUS
  <2>1. CASE docs'[d] = docs[d]
    BY <2>1
  <2>2. CASE docs'[d] # docs[d] /\ docs'[d].by # Editor
    <3>1. PICK w \in Replica : pc[w] = "put" /\ d = Target(w) /\ docs'[d].by = msg[w]
      BY <2>2, OwnerKept
    <3>2. FreeFor(d, msg[w])
      BY <3>1 DEF OInv, Owns
    <3>3. QED
      BY <3>1, <3>2 DEF FreeFor
  <2>3. QED
    BY <2>1, <2>2
<1>2. QED
  BY <1>1, OInvariance, PTL DEF Spec, NoteKept

(* One replica writes nothing for a message whose outcome is recorded.      *)
THEOREM NothingLate == ASSUME Documented PROVE Spec => NoLateWrite
<1> DEFINE A == OneRuns => \A d \in Doc :
                  docs'[d] # docs[d] /\ docs'[d].by \in Message => recorded[docs'[d].by] = "none"
<1>1. TInv /\ OInv /\ [Next]_vars => [A]_vars
  <2> SUFFICES ASSUME TInv, OInv, [Next]_vars, OneRuns, NEW d \in Doc,
                      docs'[d] # docs[d], docs'[d].by \in Message
               PROVE  recorded[docs'[d].by] = "none"
    OBVIOUS
  <2>1. PICK w \in Replica : pc[w] = "put" /\ docs'[d].by = msg[w]
    BY OwnerKept
  <2>2. QED
    BY <2>1 DEF OInv, Owns
<1>2. QED
  BY <1>1, OInvariance, PTL DEF Spec, NoLateWrite
=============================================================================

-------------------------------- MODULE Speech --------------------------------
(***************************************************************************)
(* From decoded audio to the text handed to the sink: Pipeline::run_one    *)
(* (pipeline.rs) with the stages it calls: voice activity segmentation     *)
(* (preprocess/vad.rs, deafness.rs), chunking (chunker.rs), transcription  *)
(* chunk by chunk, and the join of the texts (pipeline/join.rs).           *)
(*                                                                         *)
(* A sample is its position in the recording, so a sequence of positions   *)
(* says what was kept, dropped or heard twice.  Outside the code: the      *)
(* voice model gives each window a probability, any of a few levels; the   *)
(* transcriber hears one word in each sample, all of them different or all *)
(* the same.                                                               *)
(***************************************************************************)
EXTENDS Integers, Sequences, SequencesExt, FiniteSetsExt

CONSTANTS
  Rate,        \* SAMPLE_RATE
  Window,      \* WINDOW_SAMPLES
  SilenceMax,  \* SILENCE_MAX_PROB, as a level
  MaxWords,    \* MAX_WORDS
  Recording,   \* what may arrive: records of samples (their number) and prob
  Setting      \* records of vad, threshold, minSpeech, minSilence, pad (the last
               \* three in milliseconds), chunking, max, overlap (in samples)

\* The probabilities of the windows; the last window may be short.
ProbWindows(n) == (n + Window - 1) \div Window

\* WINDOW_MS, which is not zero.
WindowMs == (Window * 1000) \div Rate

ASSUME SpeechAssumption ==
  /\ {Rate, Window, SilenceMax, MaxWords} \subseteq Nat \ {0} /\ WindowMs > 0
  /\ \A r \in Recording :
       r \in [samples : Nat, prob : Seq(Nat)] /\ Len(r.prob) = ProbWindows(r.samples)
  /\ Setting \subseteq [vad : BOOLEAN, threshold : Nat, minSpeech : Nat, minSilence : Nat,
                        pad : Nat, chunking : BOOLEAN, max : Nat, overlap : Nat]

VARIABLES
  setting, recording,
  alike,      \* every sample holds the same word
  stage,      \* what run_one does next
  segments,   \* the samples of each segment, from and to: one before its first, and its last
  chunks, parts, transcript, outcome

inputs == <<setting, recording, alike>>
svars == <<inputs, stage, segments, chunks, parts, transcript, outcome>>

SInit ==
  /\ setting \in Setting /\ recording \in Recording /\ alike \in BOOLEAN
  /\ stage = "decode" /\ outcome = "running"
  /\ segments = << >> /\ chunks = << >> /\ parts = << >> /\ transcript = << >>

Goes(next) == stage' = next /\ UNCHANGED outcome
Ends(how) == stage' = "done" /\ outcome' = how

\* The source cannot be read or is not audio; a model, the engine or the sink fails.
Fails ==
  /\ stage \in {"decode", "transcribe"} \/ (stage = "segment" /\ setting.vad)
  /\ Ends("error")
  /\ UNCHANGED <<inputs, segments, chunks, parts, transcript>>

Decode ==
  /\ stage = "decode" /\ Goes("segment")
  /\ UNCHANGED <<inputs, segments, chunks, parts, transcript>>

-----------------------------------------------------------------------------
\* Segmentation, of a recording r under a setting s.  A run of windows is <<a, b>>:
\* windows a + 1 to b.  The loops are recursive functions, of the number of turns.
MsToWindows(ms) == ms \div WindowMs
PadSamples(s) == (s.pad * Rate) \div 1000

Talk(r, s) == {w \in 1..Len(r.prob) : r.prob[w] >= s.threshold}

AddWindow(runs, w, talk) ==
  IF w \notin talk THEN runs
  ELSE IF runs # << >> /\ Last(runs)[2] = w - 1
       THEN [runs EXCEPT ![Len(runs)] = <<@[1], w>>]
       ELSE Append(runs, <<w - 1, w>>)

Runs(windows, talk) ==
  LET after[w \in 0..windows] == IF w = 0 THEN << >> ELSE AddWindow(after[w - 1], w, talk)
  IN  after[windows]

\* Mutant of MergeRun: a silence as long as the minimum is bridged too.
MergeRunLonger(merged, run, least) ==
  IF merged # << >> /\ run[1] - Last(merged)[2] <= least
  THEN [merged EXCEPT ![Len(merged)] = <<@[1], run[2]>>]
  ELSE Append(merged, run)

MergeRun(merged, run, least) ==
  IF merged # << >> /\ run[1] - Last(merged)[2] < least
  THEN [merged EXCEPT ![Len(merged)] = <<@[1], run[2]>>]
  ELSE Append(merged, run)

Merged(runs, least) ==
  LET after[i \in 0..Len(runs)] == IF i = 0 THEN << >> ELSE MergeRun(after[i - 1], runs[i], least)
  IN  after[Len(runs)]

LongEnough(run, s) == run[2] - run[1] >= Max({1, MsToWindows(s.minSpeech)})

Kept(runs, s) ==
  LET after[i \in 0..Len(runs)] ==
        IF i = 0 THEN << >>
        ELSE IF LongEnough(runs[i], s) THEN Append(after[i - 1], runs[i]) ELSE after[i - 1]
  IN  after[Len(runs)]

\* Mutant of Pad: the end is not clamped.
PadUnclamped(run, r, s) ==
  <<Max({0, run[1] * Window - PadSamples(s)}), run[2] * Window + PadSamples(s)>>

Pad(run, r, s) ==
  <<Max({0, run[1] * Window - PadSamples(s)}), Min({run[2] * Window + PadSamples(s), r.samples})>>

\* assemble_segments.
Assembled(r, s) ==
  LET kept == Kept(Merged(Runs(Len(r.prob), Talk(r, s)), MsToWindows(s.minSilence)), s)
  IN  [i \in 1..Len(kept) |-> Pad(kept[i], r, s)]

Peak(r) == Max({0} \union {r.prob[w] : w \in 1..Len(r.prob)})

\* Mutant of Silent: below the threshold of speech is silence.
SilentBelowThreshold(r, s) == Peak(r) < s.threshold

Silent(r, s) == Peak(r) < SilenceMax

Whole(r) == <<0, r.samples>>

\* Without a segmenter, and when it found only faint sound, all of the recording.
Segment ==
  /\ stage = "segment"
  /\ LET found == Assembled(recording, setting) IN
     IF ~setting.vad
     THEN segments' = <<Whole(recording)>> /\ Goes("chunk")
     ELSE IF recording.samples = 0 \/ (found = << >> /\ Silent(recording, setting))
          THEN Ends("NoSpeech") /\ UNCHANGED segments
          ELSE /\ segments' = IF found = << >> THEN <<Whole(recording)>> ELSE found
               /\ Goes("chunk")
  /\ UNCHANGED <<inputs, chunks, parts, transcript>>

-----------------------------------------------------------------------------
\* Chunking.
Pcm(seg) == [i \in 1..seg[2] - seg[1] |-> seg[1] + i]
Samples(segs) == FlattenSeq([i \in 1..Len(segs) |-> Pcm(segs[i])])

NewChunk(pcm, shared) == [pcm |-> pcm, overlap |-> shared]

StepSamples(s) == Max({1, s.max - s.overlap})

\* split_with_overlap: a piece ends the loop when it reaches the end of the segment.
Starts(n, s) ==
  {i \in 0..n - 1 : i * StepSamples(s) < n /\ (i > 0 => (i - 1) * StepSamples(s) + s.max < n)}

Split(pcm, s) ==
  LET n == Len(pcm)
  IN  [i \in 1..Cardinality(Starts(n, s)) |->
        LET start == (i - 1) * StepSamples(s)
            end   == Min({start + s.max, n})
        IN  NewChunk(SubSeq(pcm, start + 1, end), end # n)]

Flush(acc) == IF acc.current = << >> THEN acc.ready ELSE Append(acc.ready, NewChunk(acc.current, FALSE))

\* Mutant of AddSegment: a long segment does not flush what was gathered before.
AddSegmentUnflushed(acc, pcm, s) ==
  IF Len(pcm) > s.max
  THEN [ready |-> acc.ready \o Split(pcm, s), current |-> acc.current]
  ELSE IF Len(acc.current) + Len(pcm) > s.max
       THEN [ready |-> Flush(acc), current |-> pcm]
       ELSE [acc EXCEPT !.current = @ \o pcm]

AddSegment(acc, pcm, s) ==
  IF Len(pcm) > s.max
  THEN [ready |-> Flush(acc) \o Split(pcm, s), current |-> << >>]
  ELSE IF Len(acc.current) + Len(pcm) > s.max
       THEN [ready |-> Flush(acc), current |-> pcm]
       ELSE [acc EXCEPT !.current = @ \o pcm]

Chunked(segs, s) ==
  LET after[i \in 0..Len(segs)] ==
        IF i = 0 THEN [ready |-> << >>, current |-> << >>]
        ELSE AddSegment(after[i - 1], Pcm(segs[i]), s)
  IN  Flush(after[Len(segs)])

Chunk ==
  /\ stage = "chunk"
  /\ chunks' = IF setting.chunking THEN Chunked(segments, setting)
               ELSE <<NewChunk(Samples(segments), FALSE)>>
  /\ Goes("transcribe")
  /\ UNCHANGED <<inputs, segments, parts, transcript>>

-----------------------------------------------------------------------------
\* Transcription and join.
Heard(pcm, same) == [i \in 1..Len(pcm) |-> IF same THEN 1 ELSE pcm[i]]
Part(c, same) == [words |-> Heard(c.pcm, same), overlap |-> c.overlap]

Transcribe ==
  /\ stage = "transcribe" /\ Len(parts) < Len(chunks)
  /\ parts' = Append(parts, Part(chunks[Len(parts) + 1], alike))
  /\ UNCHANGED <<inputs, stage, segments, chunks, transcript, outcome>>

\* Mutant of Repeated: the repetition may be of any length.
RepeatedAtLength(prev, next) ==
  Max({k \in 0..Min({Len(prev), Len(next)}) :
         SubSeq(prev, Len(prev) - k + 1, Len(prev)) = SubSeq(next, 1, k)})

\* dedup_overlap: how many words at the start of next repeat the end of prev.
Repeated(prev, next) ==
  Max({k \in 0..Min({MaxWords, Len(prev), Len(next)}) :
         SubSeq(prev, Len(prev) - k + 1, Len(prev)) = SubSeq(next, 1, k)})

\* Mutant of JoinPart: the flag of the part itself decides, not of the one before.
JoinPartOwnFlag(text, ps, i) ==
  LET next == ps[i].words IN
  IF i > 1 /\ ps[i].overlap
  THEN text \o SubSeq(next, Repeated(text, next) + 1, Len(next))
  ELSE text \o next

JoinPart(text, ps, i) ==
  LET next == ps[i].words IN
  IF i > 1 /\ ps[i - 1].overlap
  THEN text \o SubSeq(next, Repeated(text, next) + 1, Len(next))
  ELSE text \o next

\* join_texts.
Joined(ps) ==
  LET after[i \in 0..Len(ps)] == IF i = 0 THEN << >> ELSE JoinPart(after[i - 1], ps, i)
  IN  after[Len(ps)]

\* And the write of the note.
Write ==
  /\ stage = "transcribe" /\ Len(parts) = Len(chunks)
  /\ transcript' = Joined(parts)
  /\ Ends("Written")
  /\ UNCHANGED <<inputs, segments, chunks, parts>>

SNext == Decode \/ Segment \/ Chunk \/ Transcribe \/ Write \/ Fails

SSpec == SInit /\ [][SNext]_svars

-----------------------------------------------------------------------------
\* Types; a segment lies in the recording.
SpeechTypeOK ==
  /\ stage \in {"decode", "segment", "chunk", "transcribe", "done"}
  /\ outcome \in {"running", "Written", "NoSpeech", "error"}
  /\ outcome = "running" <=> stage # "done"
  /\ \A i \in 1..Len(segments) : 0 <= segments[i][1] /\ segments[i][1] <= segments[i][2]
                                 /\ segments[i][2] <= recording.samples
  /\ Len(parts) <= Len(chunks)

\* Speech as a listener groups it: from a speech window to a speech window, with
\* no pause of Pause windows inside, and none before Pause windows of silence
\* outside.
Pause(s) == Max({1, MsToWindows(s.minSilence)})
Groups(windows, talk, pause) ==
  {g \in (0..windows) \X (1..windows) :
     /\ g[1] < g[2] /\ {g[1] + 1, g[2]} \subseteq talk
     /\ \A w \in g[1] + 1 .. g[2] - pause : (w..w + pause - 1) \intersect talk # {}
     /\ ((g[1] + 1 - pause .. g[1]) \union (g[2] + 1 .. g[2] + pause)) \intersect talk = {}}
Spoken(r, s) == {g \in Groups(Len(r.prob), Talk(r, s), Pause(s)) : LongEnough(g, s)}

\* The loops of assemble_segments find exactly the groups of speech that are long
\* enough, in order, each padded and clamped (vad.rs:173-211).  Its thresholds are
\* those of the code, whole windows rounded down and one at the least; the comment
\* of the function says milliseconds, see ThresholdsInMs.
SegmentsAreSpeech ==
  LET spoken == Spoken(recording, setting) IN
  stage \in {"chunk", "transcribe"} /\ setting.vad /\ spoken # {} =>
    \E nth \in [1..Len(segments) -> spoken] :
      /\ \A i \in 1..Len(segments) : segments[i] = Pad(nth[i], recording, setting)
      /\ \A i \in 1..Len(segments) - 1 : nth[i][2] < nth[i + 1][1]
      /\ \A g \in spoken : \E i \in 1..Len(segments) : nth[i] = g

\* How many samples two pieces of one segment share.
Shared(s) == s.max - StepSamples(s)

\* A chunk without what it shares with the one before.
Follows(cs, i) == i > 1 /\ cs[i - 1].overlap
Fresh(cs, i, s) ==
  SubSeq(cs[i].pcm, IF Follows(cs, i) THEN Shared(s) + 1 ELSE 1, Len(cs[i].pcm))

\* With a limit of at least one sample the chunks are the segments: none is empty
\* or above the limit, a flagged chunk and the next share exactly the overlap,
\* which an overlap as long as the limit cuts down to all but one sample, and
\* without it they hold the samples of the segments, each once and in order
\* (chunker.rs:66, 111).
ChunksAreSegments ==
  stage = "transcribe" /\ setting.chunking /\ setting.max > 0 =>
    LET before(i) == chunks[i - 1].pcm
        shared == Shared(setting)
    IN /\ \A i \in 1..Len(chunks) :
            /\ Len(chunks[i].pcm) \in 1..setting.max
            /\ Follows(chunks, i) => SubSeq(chunks[i].pcm, 1, shared)
                                       = SubSeq(before(i), Len(before(i)) - shared + 1, Len(before(i)))
       /\ FlattenSeq([i \in 1..Len(chunks) |-> Fresh(chunks, i, setting)]) = Samples(segments)

\* End to end: a recording is called silent only if no window reaches the level
\* of silence, and every sample that counts is transcribed: those of the speech
\* that is long enough, or all of them when there is none (deafness.rs:44,
\* pipeline.rs:72).
SpeechIsHeard ==
  LET spoken == Spoken(recording, setting) IN
  /\ outcome = "NoSpeech" => \A w \in 1..Len(recording.prob) : recording.prob[w] < SilenceMax
  /\ outcome = "Written" /\ ~alike /\ (setting.chunking => setting.max > 0) =>
       \A p \in 1..recording.samples :
         \/ \E i \in 1..Len(transcript) : transcript[i] = p
         \/ setting.vad /\ spoken # {} /\ \A g \in spoken : p \notin g[1] * Window + 1 .. g[2] * Window

\* The text repeats nothing: when the overlap is at most MaxWords words and the
\* padding of two segments cannot meet, each word is written once and in order
\* (join.rs:15).
WordsOnce ==
  outcome = "Written" /\ ~alike
    /\ (setting.chunking => Shared(setting) <= MaxWords)
    /\ (setting.vad => 2 * PadSamples(setting) <= Pause(setting) * Window) =>
      \A i \in 1..Len(transcript) - 1 : transcript[i] < transcript[i + 1]

\* Words that the speaker did repeat: the join may take them for the overlap, but
\* at most MaxWords at a flagged boundary and none elsewhere (join.rs:54).
JoinLosesLittle ==
  outcome = "Written" =>
    Len(transcript) + MaxWords * Cardinality({i \in 1..Len(parts) : parts[i].overlap})
      >= Len(FlattenSeq([i \in 1..Len(parts) |-> parts[i].words]))

-----------------------------------------------------------------------------
(* What the comment of assemble_segments says and the code does not do. *)

LastsMs(samples, ms) == samples * 1000 >= ms * Rate

\* vad.rs:162-163: runs separated by less than min_silence_ms are merged, and runs
\* shorter than min_speech_ms dropped.  So of the segments of a recording of whole
\* windows, without padding, each pause lasts at least min_silence_ms and each
\* segment at least min_speech_ms.  The property asks for one of the two only: the
\* code keeps neither.
ThresholdsInMs ==
  stage = "chunk" /\ setting.vad /\ setting.pad = 0 /\ recording.samples % Window = 0
    /\ Assembled(recording, setting) # << >> =>
      \/ \A i \in 1..Len(segments) - 1 :
           LastsMs(segments[i + 1][1] - segments[i][2], setting.minSilence)
      \/ \A i \in 1..Len(segments) :
           LastsMs(segments[i][2] - segments[i][1], setting.minSpeech)
=============================================================================

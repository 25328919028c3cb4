------------------------------ MODULE MCDataPath ------------------------------
(* Four components of the data path that share no state, in one instance: each  *)
(* behaviour is one of the component that "part" names, the others at rest.     *)
EXTENDS FsBucket, TextSink, Speech, RetryDelay

CONSTANTS k1, k2, b1, b2, bot, worker

VARIABLE part

MCKey == {k1, k2}
MCBody == {b1, b2}
MCClient == {bot, worker}

\* Two samples to a window of 4 ms; up to four windows, the last one whole or short.
Recordings(n) == [samples : {n}, prob : [1..ProbWindows(n) -> 0..2]]
MCRecording == UNION {Recordings(n) : n \in 0..8}

\* Thresholds below, at and between whole windows, and pads of up to a window.
Vads(thresholds, speech, silence, pads) ==
  [vad : {TRUE}, threshold : thresholds, minSpeech : speech, minSilence : silence, pad : pads]
NoVad == [vad |-> FALSE, threshold |-> 1, minSpeech |-> 0, minSilence |-> 0, pad |-> 0]

\* <<max, overlap>>: none, a limit of zero, no overlap, one the join can and one it
\* cannot recognise, and overlaps of the limit and beyond.
NoChunker == <<0, 0>>
Chunkers == {<<0, 1>>, <<1, 0>>, <<3, 0>>, <<3, 1>>, <<4, 2>>, <<5, 3>>, <<2, 2>>, <<4, 9>>}
With(v, c) ==
  [vad |-> v.vad, threshold |-> v.threshold, minSpeech |-> v.minSpeech,
   minSilence |-> v.minSilence, pad |-> v.pad,
   chunking |-> c # NoChunker, max |-> c[1], overlap |-> c[2]]
MCSetting ==
  {With(v, c) : v \in Vads({1, 2}, {0, 11}, {0, 7, 11}, {0, 2, 4}), c \in {NoChunker, <<3, 1>>}}
    \union {With(v, c) : v \in {NoVad} \union Vads({1}, {0}, {4}, {2}), c \in {NoChunker} \union Chunkers}

\* A smaller choice: nothing or four whole windows, without padding.
MCWholeWindows == Recordings(0) \union Recordings(8)
MCUnpadded == {With(v, NoChunker) : v \in {NoVad} \union Vads({1}, {0, 7, 11}, {0, 7, 11}, {0})}

\* What a component starts with when another one is run.
Rest(name) ==
  /\ name # "bucket" => BInit
  /\ name # "sink" => TInit /\ ~stdout /\ ~overwrite /\ ~separator
  /\ name # "speech" => /\ SInit /\ ~alike /\ recording.samples = 0
                        /\ setting = With(NoVad, NoChunker)
  /\ name # "delay" => DInit

Init ==
  \/ part = "bucket" /\ Rest("bucket") /\ BInit
  \/ part = "sink" /\ Rest("sink") /\ TInit
  \/ part = "speech" /\ Rest("speech") /\ SInit
  \/ part = "delay" /\ Rest("delay") /\ DInit

Next ==
  /\ UNCHANGED part
  /\ \/ part = "bucket" /\ BNext /\ UNCHANGED <<tvars, svars, dvars>>
     \/ part = "sink" /\ TNext /\ UNCHANGED <<fvars, svars, dvars>>
     \/ part = "speech" /\ SNext /\ UNCHANGED <<fvars, tvars, dvars>>
     \/ part = "delay" /\ DNext /\ UNCHANGED <<fvars, tvars, svars>>

Spec == Init /\ [][Next]_<<part, fvars, tvars, svars, dvars>>
=============================================================================

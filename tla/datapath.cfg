SPECIFICATION Spec
CONSTANTS
  k1 = k1
  k2 = k2
  b1 = b1
  b2 = b2
  bot = bot
  worker = worker
  Key <- MCKey
  Body <- MCBody
  Client <- MCClient
  Nothing = Nothing
  Partial = Partial
  Mixed = Mixed
  MaxNotes = 4
  Rate = 500
  Window = 2
  SilenceMax = 1
  MaxWords = 2
  Recording <- MCRecording
  Setting <- MCSetting
  Base = 10
  Cap = 21600
  Bits = 16
  MaxReceives = 40
CHECK_DEADLOCK FALSE
INVARIANTS
  Separated
  WrittenStays
  SpeechTypeOK
  SegmentsAreSpeech
  ChunksAreSegments
  SpeechIsHeard
  WordsOnce
  JoinLosesLittle
  DelayDoubles
PROPERTIES
  KeepsBucketContract

\* Two replicas, two submissions of one message.
SPECIFICATION Spec
CONSTANTS
  first = first
  again = again
  ahead = ahead
  poison = poison
  unput = unput
  NoJob = NoJob
  Job = {first, again}
  w1 = w1
  w2 = w2
  Worker = {w1, w2}
  AtStart = {"ready"}
  MaxId = 2
  MaxReceive = 2
  Key <- MCKey
  Audio <- MCAudio
  KeyOf <- MCKeyOf
  AudioOf <- MCAudioOf
  Ahead <- MCAhead
  Poison <- MCPoison
  Unput <- MCUnput
  ProcessError = {}
INVARIANTS NoJobLost AudioKept NoSilentAck OkHasNote
PROPERTIES KeepsContract KeepsOrder
SYMMETRY MCSymmetry

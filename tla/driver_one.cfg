\* One replica, every kind of job, two deliveries per row.
SPECIFICATION Spec
CONSTANTS
  first = first
  again = again
  ahead = ahead
  poison = poison
  unput = unput
  NoJob = NoJob
  Job = {first, again, ahead, poison, unput}
  w1 = w1
  w2 = w2
  Worker = {w1}
  AtStart = {"ready", "pulling", "failed"}
  MaxId = 2
  MaxReceive = 2
  Key <- MCKey
  Audio <- MCAudio
  KeyOf <- MCKeyOf
  AudioOf <- MCAudioOf
  Ahead <- MCAhead
  Poison <- MCPoison
  Unput <- MCUnput
  ProcessError = {"decode", "output", "other"}
INVARIANTS TypeOK NoJobLost AudioKept NoSilentAck OkHasNote NoRerun ProducerAgrees NoSpuriousMissing
PROPERTIES OutcomeStable KeepsContract KeepsOrder
SYMMETRY MCJobSymmetry

\* ARCHITECTURE.md:401 against the code.
SPECIFICATION Spec
CONSTANTS
  first = first
  again = again
  ahead = ahead
  poison = poison
  unput = unput
  NoJob = NoJob
  Job = {first}
  w1 = w1
  w2 = w2
  Worker = {w1, w2}
  AtStart = {"ready"}
  MaxId = 1
  MaxReceive = 2
  Key <- MCKey
  Audio <- MCAudio
  KeyOf <- MCKeyOf
  AudioOf <- MCAudioOf
  Ahead <- MCAhead
  Poison <- MCPoison
  Unput <- MCUnput
  ProcessError = {"decode", "output", "other"}
INVARIANTS NoSpuriousMissing

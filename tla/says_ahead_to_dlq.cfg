\* ARCHITECTURE.md:51 against the code.
SPECIFICATION Spec
CONSTANTS
  first = first
  again = again
  ahead = ahead
  poison = poison
  unput = unput
  NoJob = NoJob
  Job = {ahead}
  w1 = w1
  w2 = w2
  Worker = {w1}
  AtStart = {"ready", "pulling", "failed"}
  MaxId = 2
  MaxReceive = 2
  Key <- MCKey
  Audio <- MCAudio
  KeyOf <- MCKeyOf
  AudioOf <- MCAudioOf
  Ahead <- MCAhead
  Poison <- MCPoison
  Unput <- MCUnput
  ProcessError = {"decode", "output", "other"}
INVARIANTS AheadGoesToDlq

SPECIFICATION Spec
CONSTANTS
  r1 = r1
  r2 = r2
  m1 = m1
  m2 = m2
  t1 = t1
  t2 = t2
  Editor = Editor
  Nothing = Nothing
  Replica <- MCReplica
  Message <- MCMessage
  Doc <- MCDoc
  MessageDoc <- MCMessageDoc
  TimeDoc <- MCTimeDoc
  MaxSuffix = 2
  Text <- MCText
  TextOf <- MCTextOf
  MaxReceive = 2
  MaxEdits = 1
  Vaults <- MCVaults
  Fleets <- MCTimeFleet
CHECK_DEADLOCK FALSE
PROPERTY NoteKept

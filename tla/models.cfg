SPECIFICATION Spec
CONSTANTS
  file = file
  archive = archive
  added = added
  vad = vad
  Admin = Admin
  Model <- MCModel
  Archive <- MCArchive
  Embedded <- MCEmbedded
  Pinned <- MCPinned
  Vad = vad
  IdleTimeout = 2
CHECK_DEADLOCK FALSE
INVARIANTS
  StoreTypeOK
  ReadyIntact
  LoadedIntact
  WholeDirectories
  AddedInstalled
PROPERTIES
  ReadyUntouched
  IdleFreed

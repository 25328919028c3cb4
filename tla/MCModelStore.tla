---------------------------- MODULE MCModelStore ----------------------------
(* The embedded catalog holds a file without a sha256, an archive and the voice *)
(* activity model; the command may add one more file.                           *)
EXTENDS ModelStore

CONSTANTS file, archive, added, vad

MCModel == {file, archive, added, vad}
MCArchive == {archive}
MCEmbedded == {file, archive, vad}
MCPinned == {archive, added, vad}
=============================================================================

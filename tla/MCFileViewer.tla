----------------------------- MODULE MCFileViewer -----------------------------
(* TLC instance of FileViewer: a directory with one below it.  The history *)
(* has the address of a file below, of the same name as one above; it is   *)
(* no longer there, so its streams fail.                                   *)
EXTENDS FileViewer, TLC

CONSTANTS top, sub, log, out

MCParentDir == (top :> top) @@ (sub :> top)
MCFilesIn == (top :> {log, out}) @@ (sub :> {})
MCMaxPieces == <<3, 1>>
MCKnown == {[path |-> sub, file |-> log]}
=============================================================================

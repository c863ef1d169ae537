------------------------- MODULE MCObservationLoop -------------------------
(***************************************************************************)
(* ObservationLoop for TLC: which sources a build has.                     *)
(***************************************************************************)
EXTENDS ObservationLoop

WindowAndFiles == <<"window", "files">>
ClipboardAndFiles == <<"clipboard", "files">>
FilesOnly == <<"files">>

=============================================================================

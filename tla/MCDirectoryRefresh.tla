------------------------- MODULE MCDirectoryRefresh -------------------------
(* DirectoryRefresh on two directories, one of which never answers, with   *)
(* the intervals in the order of the defaults: a run each 180 s, a         *)
(* cooldown of 600 s, a target of 900 s.                                   *)
EXTENDS DirectoryRefresh

CONSTANTS d1, d2

MCDirs == {d1, d2}
MCSilent == {d2}

=============================================================================

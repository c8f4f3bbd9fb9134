----------------------------- MODULE MCMapFiles -----------------------------
(***************************************************************************)
(* Small numbers of scans, maps, saves and faults; the configurations give *)
(* them.                                                                   *)
(***************************************************************************)
EXTENDS MapFiles
=============================================================================

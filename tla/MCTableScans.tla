---------------------------- MODULE MCTableScans ----------------------------
(***************************************************************************)
(* The instances of MCTableRows with the history variable of TableScans.   *)
(***************************************************************************)
EXTENDS MCTableRows, TableScans
=============================================================================

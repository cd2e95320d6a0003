----------------------------- MODULE MCImportJob -----------------------------
(* Small instances of ImportJob for TLC. *)
EXTENDS ImportJob
==============================================================================

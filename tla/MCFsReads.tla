----------------------------- MODULE MCFsReads -----------------------------
(***************************************************************************)
(* FsReads on the instance of MCFsJournal.                                 *)
(***************************************************************************)
EXTENDS FsReads, MCFsJournal
=============================================================================

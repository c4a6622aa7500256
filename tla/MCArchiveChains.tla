---------------------------- MODULE MCArchiveChains ----------------------------
(* Small instances of ArchiveChains for TLC.  MaxArchives bounds the length of  *)
(* a history: the archives that the runs create.                               *)
EXTENDS ArchiveChains
===============================================================================

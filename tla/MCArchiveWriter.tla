--------------------------- MODULE MCArchiveWriter ---------------------------
(* ArchiveWriter for TLC: an archive without and one with a predecessor. *)
EXTENDS ArchiveWriter

MCSalts == {<<>>, <<"previous hash">>}
==============================================================================

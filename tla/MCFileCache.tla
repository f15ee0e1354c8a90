---------------------------- MODULE MCFileCache -----------------------------
(***************************************************************************)
(* FileCache for TLC: pages of 2 bytes in files of at most 5 bytes, so that *)
(* a file spans up to three pages and ends inside or at the end of one.     *)
(***************************************************************************)
EXTENDS FileCache

MCBytes == {0, 1}
=============================================================================

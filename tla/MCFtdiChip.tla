---------------------------- MODULE MCFtdiChip ------------------------------
(* A buffer of three bytes and as many received, two opens and one        *)
(* purge: the pointers wrap, and a listener may outlive its close.         *)
EXTENDS FtdiChip
=============================================================================

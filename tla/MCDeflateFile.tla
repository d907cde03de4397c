---------------------------- MODULE MCDeflateFile ----------------------------
(***************************************************************************)
(* Model-checking instance of DeflateFile.                                 *)
(***************************************************************************)
EXTENDS DeflateFile

\* fd_nbytes_: an empty or 8-byte window, or -1 (to end of file, the default).
MCCounts == {-1, 0, 8}

\* fd_offset_: the default constructors' -1, the start of the file, and
\* two positions inside it.
MCOffsets == {-1, 0, 5, 9}
=============================================================================

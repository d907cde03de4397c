--------------------------- MODULE MCDeflateStream ---------------------------
(***************************************************************************)
(* Model-checking instance of DeflateStream: two byte values, a block of   *)
(* two bytes (so a buffer of three bytes spans two blocks and a compressed *)
(* stream spans up to three chunks), and a file of three bytes.            *)
(***************************************************************************)
EXTENDS DeflateStream

MCBytes == {"x", "y"}

MCRawFile == <<"x", "x", "y">>

\* A zlib stream of "xyy": header, runs of the two blocks, trailer.
MCZipFile == <<Hdr(FALSE), Run("x", 1), Run("y", 1), Run("y", 1),
               Trl(FALSE, <<"x", "y", "y">>)>>
=============================================================================

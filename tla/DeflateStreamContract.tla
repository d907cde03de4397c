------------------------ MODULE DeflateStreamContract ------------------------
(***************************************************************************)
(* What a DeflateBlockStreaming instance promises the code that iterates   *)
(* over it, without zlib, sources or iterators: once a source is bound,    *)
(* the caller receives the (de)compression of that source, in order, in    *)
(* pieces of at most one block, until it has all of it or the stream       *)
(* fails; binding a source starts over.  DeflateStream is checked to       *)
(* implement it (DeflateStream!ImplementsContract).                        *)
(***************************************************************************)
EXTENDS Sequences, SequencesExt

CONSTANT BlockSize      \* DEFLATE_BLOCK_SIZE

VARIABLES
  out,      \* the stream the bound source (de)compresses to
  taken,    \* what the caller has received since the source was bound
  status    \* "ready" (bound, not begun), "open" or "failed"

cvars == <<out, taken, status>>

Init == taken = <<>> /\ status = "ready"

\* The caller binds a source (construction, reset(), add_data()): any
\* stream may be the one to deliver.
Bind ==
  /\ taken' = <<>>
  /\ status' = "ready"

\* The next k elements of the stream, k at most one block.
Piece(k) == /\ k <= BlockSize /\ Len(taken) + k <= Len(out)
            /\ taken' = taken \o SubSeq(out, Len(taken) + 1, Len(taken) + k)

\* begin(): the stream opens with its first piece (possibly empty), or
\* fails.
Open ==
  /\ status = "ready"
  /\ \/ \E k \in 0..BlockSize : Piece(k) /\ status' = "open"
     \/ status' = "failed" /\ UNCHANGED taken
  /\ UNCHANGED out

\* The caller receives the next piece.
Take ==
  /\ status = "open"
  /\ \E k \in 1..BlockSize : Piece(k)
  /\ UNCHANGED <<out, status>>

\* A read error or corrupt input ends the stream early.
Fail ==
  /\ status = "open"
  /\ status' = "failed"
  /\ UNCHANGED <<out, taken>>

Next == Bind \/ Open \/ Take \/ Fail

\* A caller that keeps pulling from an open stream gets all of it.
Spec == Init /\ [][Next]_cvars /\ WF_cvars(Take)

=============================================================================

---------------------------- MODULE DeflateStream ----------------------------
(***************************************************************************)
(* One instance of the block-streaming codec of src/src/deflate_compressor.h *)
(* together with the caller's iterator over it.                            *)
(*                                                                         *)
(*  - DeflateBlockStreaming<Impl>: the state flag (NONE/INIT/END), the     *)
(*    codec (z_stream) and begin()/end() and the iterator's operator++,    *)
(*    read() and comparison;                                               *)
(*  - the four Impl variants, chosen once at construction: compress or     *)
(*    decompress, over a memory buffer (DeflateData) or over a window of a *)
(*    file (DeflateFile);                                                  *)
(*  - reset() and add_data(), which rebind the source of a used instance.  *)
(*                                                                         *)
(* Impl::init() and Impl::next() live in deflate_compressor.cc, which is   *)
(* not part of the repository's sources; they are modelled from the       *)
(* specification (sections 4.1 to 4.4).                                    *)
(*                                                                         *)
(* zlib is abstracted to tokens: a compressed stream is a header token,    *)
(* one run token per run of equal bytes in each flushed input slice, and  *)
(* a trailer token carrying the checksum of everything compressed (the     *)
(* checksum is ideal: it is the data itself).  A byte of a compressed file *)
(* or buffer is one token.                                                 *)
(***************************************************************************)
EXTENDS Integers, Sequences, SequencesExt

CONSTANTS
  Bytes,            \* the values of an uncompressed byte
  BlockSize,        \* DEFLATE_BLOCK_SIZE: capacity of cmpBuf and buffer
  MaxData,          \* longest buffer the caller binds with reset/add_data
  RawFile,          \* contents of the file a DeflateCompressFile reads
  ZipFile,          \* contents of the file a DeflateDecompressFile reads
  ReadSizes,        \* the buf_size values the caller passes to read()
  StaleIterators,   \* the caller may keep using an iterator after reset()
  AddDataAfterUse   \* the caller may call add_data() on a used instance

ASSUME BlockSize \in Nat \ {0}
ASSUME ReadSizes \subseteq Nat \ {0}
ASSUME StaleIterators \in BOOLEAN /\ AddDataAfterUse \in BOOLEAN

VARIABLES
  dir, medium,      \* which Impl this instance is (fixed at construction)
  gzip,             \* DeflateBlockStreaming::gzip
  state,            \* DeflateBlockStreaming::state
  codec,            \* DeflateBlockStreaming::strm, abstracted
  data, dataOffset, \* DeflateData::data / data_size and data_offset
  fdOffset, fdNbytes, \* DeflateFile::fd_offset and fd_nbytes
  it,               \* the caller's iterator: current_str, offset
  error,            \* the exception the last call on the stream raised
  src,              \* history: the source window bound by the last rebind
  consumed,         \* history: the bytes the caller took since then
  fresh,            \* history: no begin() since the last rebind
  used              \* history: begin() called since construction/reset()

vars == <<dir, medium, gzip, state, codec, data, dataOffset, fdOffset,
          fdNbytes, it, error, src, consumed, fresh, used>>

-----------------------------------------------------------------------------
(* The token abstraction of the zlib/gzip wire format.                     *)

Hdr(g)    == [t |-> "hdr", gzip |-> g]
Run(b, n) == [t |-> "run", v |-> b, n |-> n]
Trl(g, d) == [t |-> "trl", gzip |-> g, sum |-> d]

Expand(tok) == [i \in 1..tok.n |-> tok.v]

Min2(a, b) == IF a <= b THEN a ELSE b

\* Length of the run of equal bytes that starts s.
RunLen(s) == CHOOSE k \in 1..Len(s) :
               /\ \A i \in 1..k : s[i] = s[1]
               /\ k = Len(s) \/ s[k+1] # s[1]

\* The deflate body emitted for one input slice flushed with Z_PARTIAL_FLUSH.
RECURSIVE Deflate(_)
Deflate(s) ==
  IF s = <<>> THEN <<>>
  ELSE <<Run(s[1], RunLen(s))>> \o Deflate(SubSeq(s, RunLen(s) + 1, Len(s)))

File == IF dir = "compress" THEN RawFile ELSE ZipFile

-----------------------------------------------------------------------------
(* Reference definitions the properties compare the stream against.       *)

\* The whole stream compressing d in BlockSize slices produces.
RECURSIVE DeflateBlocks(_)
DeflateBlocks(d) ==
  IF Len(d) <= BlockSize THEN Deflate(d)
  ELSE Deflate(SubSeq(d, 1, BlockSize))
         \o DeflateBlocks(SubSeq(d, BlockSize + 1, Len(d)))

Compressed(g, d) == <<Hdr(g)>> \o DeflateBlocks(d) \o <<Trl(g, d)>>

\* What decompressing toks with framing g yields: nothing when the header
\* is not a g header, else every run before the input ends or is rejected.
Decompressed(g, toks) ==
  IF toks # <<>> /\ toks[1] # Hdr(g) THEN <<>>
  ELSE FlattenSeq([i \in DOMAIN toks |->
                     IF toks[i].t = "run" THEN Expand(toks[i]) ELSE <<>>])

\* The bytes of a file window [off, off + n), n = -1 meaning "to EOF".
Window(f, off, n) ==
  SubSeq(f, off + 1, IF n = -1 THEN Len(f) ELSE Min2(Len(f), off + n))

\* What the caller must receive from the source bound now.
Expected ==
  IF dir = "compress" THEN Compressed(gzip, src) ELSE Decompressed(gzip, src)

\* The buffers the caller may bind: raw data to compress; intact,
\* truncated and corrupted streams to decompress.
RawInputs == BoundedSeq(Bytes, MaxData)
Other(b) == CHOOSE o \in Bytes : o # b
Flip(c) == [c EXCEPT ![2] = Run(Other(c[2].v), c[2].n)]
Intact == {Compressed(g, d) : g \in BOOLEAN, d \in RawInputs}
ZipInputs ==
  Intact
  \cup UNION {{SubSeq(c, 1, k) : k \in 0..Len(c) - 1} : c \in Intact}
  \cup {Flip(c) : c \in {c \in Intact : c[2].t = "run"}}
MemInputs == IF dir = "compress" THEN RawInputs ELSE ZipInputs

\* The (fd_offset, fd_nbytes) pairs: open(filename) gives (0, -1).
Windows == (0..Len(File) + 1) \X (-1..Len(File))

-----------------------------------------------------------------------------
(* The codec: z_stream after deflateInit2/inflateInit2, abstracted.        *)
(* out is output zlib holds that has not been drained into cmpBuf yet,    *)
(* hist the input deflated / output inflated so far, fin the end of the   *)
(* zlib stream (Z_FINISH given / Z_STREAM_END seen), eof the end of the   *)
(* source, err a Z_DATA_ERROR.                                             *)

CodecInit ==
  [gzip |-> gzip, hdr |-> FALSE, hist |-> <<>>, out |-> <<>>,
   fin |-> FALSE, eof |-> FALSE, err |-> FALSE]

\* The next slice of the memory source, and whether it is the last.
MemSlice == SubSeq(data, dataOffset + 1, Min2(Len(data), dataOffset + BlockSize))
MemLast  == dataOffset + Len(MemSlice) >= Len(data)

\* pread of up to BlockSize bytes at fd_offset, clipped to fd_nbytes.
FileWant  == IF fdNbytes = -1 THEN BlockSize ELSE Min2(BlockSize, fdNbytes)
FileSlice == SubSeq(File, fdOffset + 1, Min2(Len(File), fdOffset + FileWant))
FileLast  == Len(FileSlice) < FileWant \/ fdNbytes - Len(FileSlice) = 0

Slice == IF medium = "memory" THEN MemSlice ELSE FileSlice
SliceIsLast == IF medium = "memory" THEN MemLast ELSE FileLast

\* deflate(&strm, last ? Z_FINISH : Z_PARTIAL_FLUSH) over one slice.
DeflateFeed(cd, s, last) ==
  [cd EXCEPT !.hdr  = TRUE,
             !.hist = @ \o s,
             !.out  = @ \o (IF cd.hdr THEN <<>> ELSE <<Hdr(cd.gzip)>>)
                        \o Deflate(s)
                        \o (IF last THEN <<Trl(cd.gzip, cd.hist \o s)>> ELSE <<>>),
             !.fin  = last,
             !.eof  = last]

\* inflate() consuming one token.
InflateToken(cd, tok) ==
  CASE cd.err \/ cd.fin  -> cd
    [] ~cd.hdr           -> IF tok = Hdr(cd.gzip) THEN [cd EXCEPT !.hdr = TRUE]
                                                  ELSE [cd EXCEPT !.err = TRUE]
    [] tok.t = "run"     -> [cd EXCEPT !.hist = @ \o Expand(tok),
                                       !.out  = @ \o Expand(tok)]
    [] tok = Trl(cd.gzip, cd.hist) -> [cd EXCEPT !.fin = TRUE]
    [] OTHER             -> [cd EXCEPT !.err = TRUE]

InflateFeed(cd, s, last) ==
  [FoldLeft(InflateToken, cd, s) EXCEPT !.eof = last]

\* The outcomes of Impl::next() from stream state st with codec cd: the
\* chunk returned (or the exception raised) and the state left behind.
Outcome(st, cd, dOff, fOff, fN, chunk, err) ==
  [state |-> st, codec |-> cd, dataOffset |-> dOff, fdOffset |-> fOff,
   fdNbytes |-> fN, chunk |-> chunk, error |-> err]

NextOutcomes(st, cd) ==
  IF st # "INIT" THEN
    {Outcome(st, cd, dataOffset, fdOffset, fdNbytes, <<>>, "none")}
  ELSE
    LET feed   == ~(cd.fin \/ cd.eof)
        n      == IF feed THEN Len(Slice) ELSE 0
        fed    == IF ~feed THEN cd
                  ELSE IF dir = "compress" THEN DeflateFeed(cd, Slice, SliceIsLast)
                  ELSE InflateFeed(cd, Slice, SliceIsLast)
        chunk  == SubSeq(fed.out, 1, Min2(BlockSize, Len(fed.out)))
        rest   == SubSeq(fed.out, Len(chunk) + 1, Len(fed.out))
        dOff   == IF medium = "memory" THEN dataOffset + n ELSE dataOffset
        fOff   == IF medium = "file" THEN fdOffset + n ELSE fdOffset
        fN     == IF medium = "file" /\ fdNbytes # -1 THEN fdNbytes - n ELSE fdNbytes
        done   == (fed.fin \/ fed.eof) /\ rest = <<>>
    IN  (IF fed.err
         THEN {Outcome("END", fed, dOff, fOff, fN, <<>>, "codec")}
         ELSE {Outcome(IF done THEN "END" ELSE "INIT",
                       [fed EXCEPT !.out = rest], dOff, fOff, fN, chunk, "none")})
        \cup
        (IF feed /\ medium = "file"
         THEN {Outcome("END", cd, dataOffset, fdOffset, fdNbytes, <<>>, "io")}
         ELSE {})

Apply(o) ==
  /\ state' = o.state
  /\ codec' = o.codec
  /\ dataOffset' = o.dataOffset
  /\ fdOffset' = o.fdOffset
  /\ fdNbytes' = o.fdNbytes
  /\ error' = o.error

-----------------------------------------------------------------------------
(* Construction.                                                           *)

NoIterator == [born |-> FALSE, valid |-> FALSE, cur |-> <<>>, off |-> 0,
               surface |-> "none", last |-> -1]

\* DeflateBlockStreaming(gzip_): state NONE, buffers allocated.
InitStream(g) ==
  /\ gzip = g
  /\ state = "NONE"
  /\ codec = [CodecInit EXCEPT !.gzip = g]
  /\ error = "none"

\* DeflateData(data_, data_size_): data_offset = 0.
InitData ==
  /\ medium = "memory"
  /\ data \in MemInputs
  /\ dataOffset = 0
  /\ fdOffset = 0 /\ fdNbytes = -1
  /\ src = data

\* DeflateFile(filename) / DeflateFile(fd_, fd_offset_, fd_nbytes_).
InitFile ==
  /\ medium = "file"
  /\ data = <<>> /\ dataOffset = 0
  /\ \E w \in Windows : fdOffset = w[1] /\ fdNbytes = w[2]
  /\ src = Window(File, fdOffset, fdNbytes)

Init ==
  /\ dir \in {"compress", "decompress"}
  /\ medium \in {"memory", "file"}
  /\ \E g \in BOOLEAN : InitStream(g)
  /\ InitData \/ InitFile
  /\ it = NoIterator
  /\ consumed = <<>>
  /\ fresh = TRUE
  /\ used = FALSE

-----------------------------------------------------------------------------
(* The caller's calls.                                                     *)

\* begin(): iterator(this, _init()).  init() sets the codec up for the
\* bound framing and returns the first chunk.  The caller iterates either
\* with operator++ or with read(), and begins once per binding.
Begin ==
  /\ fresh
  /\ \E o \in NextOutcomes("INIT", CodecInit), s \in {"iter", "read"} :
       /\ Apply(o)
       /\ IF o.error = "none"
          THEN /\ it' = [born |-> TRUE, valid |-> TRUE, cur |-> o.chunk,
                         off |-> 0, surface |-> s, last |-> -1]
               /\ consumed' = IF s = "iter" THEN o.chunk ELSE <<>>
          ELSE /\ it' = [it EXCEPT !.valid = FALSE]
               /\ consumed' = <<>>
  /\ fresh' = FALSE
  /\ used' = TRUE
  /\ UNCHANGED <<dir, medium, gzip, data, src>>

\* The iterator may be used: it is the one begun since the last rebind,
\* or (StaleIterators) any iterator the caller still holds.
Usable(s) ==
  /\ it.surface = s
  /\ it.valid \/ (StaleIterators /\ it.born)

\* iterator::operator++: current_str = obj->_next(); offset = 0.
Increment ==
  /\ Usable("iter")
  /\ \E o \in NextOutcomes(state, codec) :
       /\ Apply(o)
       /\ IF o.error = "none"
          THEN /\ it' = [it EXCEPT !.cur = o.chunk, !.off = 0]
               /\ consumed' = consumed \o o.chunk
          ELSE /\ it' = [it EXCEPT !.valid = FALSE]
               /\ UNCHANGED consumed
  /\ UNCHANGED <<dir, medium, gzip, data, src, fresh, used>>

\* iterator::read(buf, buf_size): when current_str is used up, pull the
\* next chunk once; copy min(remaining, buf_size) bytes and advance.
\* A variant of Copy that advances offset by buf_size, not by what it copied.
CopyNoClip(cur, off, k) ==
  LET n == Min2(Len(cur) - off, k)
  IN  /\ it' = [it EXCEPT !.cur = cur, !.off = off + k, !.last = n]
      /\ consumed' = consumed \o SubSeq(cur, off + 1, off + n)

Copy(cur, off, k) ==
  LET n == Min2(Len(cur) - off, k)
  IN  /\ it' = [it EXCEPT !.cur = cur, !.off = off + n, !.last = n]
      /\ consumed' = consumed \o SubSeq(cur, off + 1, off + n)

\* A variant of Read that returns 0 on an exhausted chunk without pulling.
ReadNoPull(k) ==
  /\ Usable("read")
  /\ IF Len(it.cur) - it.off # 0
     THEN Copy(it.cur, it.off, k)
     ELSE Copy(it.cur, it.off, 0)
  /\ UNCHANGED <<state, codec, dataOffset, fdOffset, fdNbytes, error>>
  /\ UNCHANGED <<dir, medium, gzip, data, src, fresh, used>>

Read(k) ==
  /\ Usable("read")
  /\ IF Len(it.cur) - it.off # 0
     THEN /\ Copy(it.cur, it.off, k)
          /\ UNCHANGED <<state, codec, dataOffset, fdOffset, fdNbytes, error>>
     ELSE \E o \in NextOutcomes(state, codec) :
            /\ Apply(o)
            /\ IF o.error = "none"
               THEN Copy(o.chunk, 0, k)
               ELSE /\ it' = [it EXCEPT !.valid = FALSE]
                    /\ UNCHANGED consumed
  /\ UNCHANGED <<dir, medium, gzip, data, src, fresh, used>>

\* DeflateCompressData::reset / DeflateDecompressData::reset:
\* gzip = gzip_; stream = 0; data_offset = 0; add_data(data_, data_size_).
\* The state flag and the codec are left as they are.
\* A variant of ResetData that does not rewind data_offset.
ResetDataKeepsOffset ==
  /\ medium = "memory"
  /\ \E d \in MemInputs, g \in BOOLEAN :
       /\ gzip' = g
       /\ data' = d
       /\ src' = d
  /\ it' = [it EXCEPT !.valid = FALSE]
  /\ consumed' = <<>>
  /\ fresh' = TRUE
  /\ used' = FALSE
  /\ UNCHANGED <<dir, medium, state, codec, dataOffset, fdOffset, fdNbytes, error>>

ResetData ==
  /\ medium = "memory"
  /\ \E d \in MemInputs, g \in BOOLEAN :
       /\ gzip' = g
       /\ dataOffset' = 0
       /\ data' = d
       /\ src' = d
  /\ it' = [it EXCEPT !.valid = FALSE]
  /\ consumed' = <<>>
  /\ fresh' = TRUE
  /\ used' = FALSE
  /\ UNCHANGED <<dir, medium, state, codec, fdOffset, fdNbytes, error>>

\* DeflateData::add_data: data = data_; data_size = data_size_.
AddData ==
  /\ medium = "memory"
  /\ AddDataAfterUse \/ ~used
  /\ \E d \in MemInputs :
       /\ data' = d
       /\ src' = d
  /\ it' = [it EXCEPT !.valid = FALSE]
  /\ consumed' = <<>>
  /\ fresh' = TRUE
  /\ UNCHANGED <<dir, medium, gzip, state, codec, dataOffset, fdOffset,
                 fdNbytes, error, used>>

\* DeflateCompressFile::reset / DeflateDecompressFile::reset: gzip = gzip_;
\* stream = 0; then add_fildes (fd_offset, fd_nbytes) or open(filename)
\* (0, -1).  The state flag and the codec are left as they are.
ResetFile ==
  /\ medium = "file"
  /\ \E w \in Windows, g \in BOOLEAN :
       /\ gzip' = g
       /\ fdOffset' = w[1]
       /\ fdNbytes' = w[2]
       /\ src' = Window(File, w[1], w[2])
  /\ it' = [it EXCEPT !.valid = FALSE]
  /\ consumed' = <<>>
  /\ fresh' = TRUE
  /\ used' = FALSE
  /\ UNCHANGED <<dir, medium, state, codec, data, dataOffset, error>>

Next ==
  \/ Begin
  \/ Increment
  \/ \E k \in ReadSizes : Read(k)
  \/ ResetData
  \/ AddData
  \/ ResetFile

Spec == Init /\ [][Next]_vars

\* A caller that keeps pulling from the iterator it holds.  Fairness is on
\* the pulls that do not fail in pread: a read error may happen, but
\* nothing forces it (a codec error is decided by the input, and is kept).
Pulling == (Increment \/ \E k \in ReadSizes : Read(k)) /\ error' # "io"
LiveSpec == Spec /\ WF_vars(Pulling)

-----------------------------------------------------------------------------
(* Properties.                                                             *)

TypeOK ==
  /\ dir \in {"compress", "decompress"}
  /\ medium \in {"memory", "file"}
  /\ gzip \in BOOLEAN
  /\ state \in {"NONE", "INIT", "END"}
  /\ error \in {"none", "io", "codec"}
  /\ dataOffset \in Nat
  /\ fdOffset \in Nat
  /\ fdNbytes \in -1..Len(File)
  /\ it.born \in BOOLEAN /\ it.valid \in BOOLEAN
  /\ it.surface \in {"none", "iter", "read"}
  /\ Len(it.cur) <= BlockSize
  /\ it.off \in 0..Len(it.cur)
  /\ fresh \in BOOLEAN /\ used \in BOOLEAN

\* The caller has stopped: the range loop met a chunk equal to end()'s
\* empty string (iterator::operator==), or read() returned 0.
Stopped ==
  \/ it.surface = "iter" /\ it.cur = <<>>
  \/ it.surface = "read" /\ it.last = 0

(***************************************************************************)
(* Every byte the caller takes from the iterator, by operator++/operator*  *)
(* or by read(), since the source was last bound (construction, reset(),   *)
(* add_data()) is the next byte of the compression (decompression) of     *)
(* that source, in order; and when the caller stops, because the loop met  *)
(* an empty chunk or read() returned 0, the stream is at END and the      *)
(* caller has everything.  This covers the chunking of Impl::next(), the  *)
(* source cursors (data_offset, fd_offset/fd_nbytes and the window clip), *)
(* the iterator's offset bookkeeping in read(), and reuse after reset().  *)
(***************************************************************************)
ConsumerSeesSource ==
  it.born /\ error = "none" =>
    /\ IsPrefix(consumed, Expected)
    /\ it.valid /\ Stopped => state = "END" /\ consumed = Expected

(***************************************************************************)
(* A caller that keeps pulling from a valid iterator is not kept in INIT   *)
(* forever: every Impl::next() makes progress towards END.                 *)
(***************************************************************************)
PullTerminates == []<>~(it.valid /\ state = "INIT")


-----------------------------------------------------------------------------
(* Refinement of the stream contract.  The contract's stream is Expected,  *)
(* what the caller has received is consumed, and the stream is ready from *)
(* a binding until begin(), failed once a call raised, and open otherwise. *)

ContractStatus ==
  CASE fresh            -> "ready"
    [] error # "none"   -> "failed"
    [] OTHER            -> "open"

Contract == INSTANCE DeflateStreamContract
              WITH out <- Expected, taken <- consumed, status <- ContractStatus

(***************************************************************************)
(* The instance with its caller implements DeflateStreamContract: every   *)
(* begin(), operator++, read(), reset() and add_data() is a step of the   *)
(* contract or leaves what it describes unchanged (the caller receives     *)
(* the next at most BlockSize bytes of the bound stream, or the stream     *)
(* fails, or a rebind starts over), and a caller that keeps pulling gets   *)
(* the whole stream unless it fails.                                       *)
(***************************************************************************)
ImplementsContract == Contract!Spec

=============================================================================

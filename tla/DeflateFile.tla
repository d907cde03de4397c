----------------------------- MODULE DeflateFile -----------------------------
(***************************************************************************)
(* Descriptor ownership of the file-backed streams (DeflateFile, the base  *)
(* of DeflateCompressFile and DeflateDecompressFile in                     *)
(* src/src/deflate_compressor.h) over the life of one instance:            *)
(* construction by path or by descriptor, reset() to another path or       *)
(* descriptor any number of times, and destruction.                        *)
(*                                                                         *)
(* The process's descriptor table is the set osOpen.  The caller owns the  *)
(* descriptors ExtFds, which are open throughout; io::open hands out the   *)
(* lowest free descriptor of PoolFds, and fails on a missing path or when *)
(* the pool is used up (EMFILE).                                           *)
(***************************************************************************)
EXTENDS Integers, FiniteSets

CONSTANTS
  Paths,      \* file names the caller passes
  Missing,    \* the ones io::open cannot open
  ExtFds,     \* descriptors the caller owns and passes to add_fildes
  PoolFds,    \* descriptors io::open may return
  Offsets,    \* fd_offset_ values the caller passes
  Counts,     \* fd_nbytes_ values the caller passes (-1: to EOF)
  Width       \* bits of off_t and size_t

ASSUME Missing \subseteq Paths
ASSUME ExtFds \cap PoolFds = {} /\ ExtFds \cup PoolFds \subseteq Nat

NoFd == -1

(***************************************************************************)
(* add_fildes takes fd_offset_ and fd_nbytes_ as size_t and stores them in *)
(* off_t fields: the off_t arguments of the default constructors (-1)      *)
(* wrap to 2^Width - 1 and back.                                           *)
(***************************************************************************)
SizeT(x) == x % 2^Width
OffT(u)  == IF u >= 2^(Width - 1) THEN u - 2^Width ELSE u

VARIABLES
  phase,      \* "none" before construction, "alive", "dead" after ~DeflateFile
  fd,         \* DeflateFile::fd
  fdOffset,   \* DeflateFile::fd_offset
  fdNbytes,   \* DeflateFile::fd_nbytes
  fdInternal, \* DeflateFile::fd_internal
  osOpen,     \* descriptors open in the process
  opened      \* history: descriptors this instance obtained from io::open

vars == <<phase, fd, fdOffset, fdNbytes, fdInternal, osOpen, opened>>

\* io::open(filename, O_RDONLY): the descriptor it returns, NoFd on failure.
OpenResult(p) ==
  IF p \in Missing \/ PoolFds \subseteq osOpen THEN NoFd
  ELSE CHOOSE f \in PoolFds \ osOpen : \A g \in PoolFds \ osOpen : f <= g

(***************************************************************************)
(* DeflateFile::open: fd = io::open(...); if fd < 0 throw DeflateIOError   *)
(* (fd already overwritten, the rest untouched); else fd_offset = 0,       *)
(* fd_nbytes = -1, fd_internal = true.                                     *)
(***************************************************************************)
Open(p) ==
  LET f == OpenResult(p) IN
  /\ fd' = f
  /\ IF f = NoFd
     THEN UNCHANGED <<fdOffset, fdNbytes, fdInternal, osOpen, opened>>
     ELSE /\ fdOffset' = 0
          /\ fdNbytes' = -1
          /\ fdInternal' = TRUE
          /\ osOpen' = osOpen \cup {f}
          /\ opened' = opened \cup {f}

\* DeflateFile::add_fildes: fd, fd_offset, fd_nbytes = the arguments;
\* fd_internal = false.
\* Variants of AddFildes: without clearing fd_internal, and with the fields
\* as wide as size_t.
AddFildesKeepsOwnership(e, off, n) ==
  /\ fd' = e
  /\ fdOffset' = OffT(SizeT(off))
  /\ fdNbytes' = OffT(SizeT(n))
  /\ UNCHANGED <<fdInternal, osOpen, opened>>

AddFildesUnsigned(e, off, n) ==
  /\ fd' = e
  /\ fdOffset' = SizeT(off)
  /\ fdNbytes' = SizeT(n)
  /\ fdInternal' = FALSE
  /\ UNCHANGED <<osOpen, opened>>

AddFildes(e, off, n) ==
  /\ fd' = e
  /\ fdOffset' = OffT(SizeT(off))
  /\ fdNbytes' = OffT(SizeT(n))
  /\ fdInternal' = FALSE
  /\ UNCHANGED <<osOpen, opened>>

Init ==
  /\ phase = "none"
  /\ fd = NoFd /\ fdOffset = 0 /\ fdNbytes = -1 /\ fdInternal = FALSE
  /\ osOpen = ExtFds
  /\ opened = {}

\* DeflateFile(filename): open(filename); a throw leaves no instance.
ConstructPath(p) ==
  /\ phase = "none"
  /\ OpenResult(p) # NoFd
  /\ Open(p)
  /\ phase' = "alive"

\* DeflateFile(fd_, fd_offset_, fd_nbytes_): add_fildes(...).  The default
\* constructors pass (0, -1, -1).
ConstructFd(e, off, n) ==
  /\ phase = "none"
  /\ AddFildes(e, off, n)
  /\ phase' = "alive"

\* reset(filename, gzip_) and add_file(filename): open(filename).
ResetPath(p) ==
  /\ phase = "alive"
  /\ Open(p)
  /\ UNCHANGED phase

\* reset(fd_, fd_offset_, fd_nbytes_, gzip_): add_fildes(...).
ResetFd(e, off, n) ==
  /\ phase = "alive"
  /\ AddFildes(e, off, n)
  /\ UNCHANGED phase

\* ~DeflateFile: if (fd_internal) io::close(fd).  close(-1) fails with EBADF.
Destroy ==
  /\ phase = "alive"
  /\ phase' = "dead"
  /\ osOpen' = IF fdInternal THEN osOpen \ {fd} ELSE osOpen
  /\ UNCHANGED <<fd, fdOffset, fdNbytes, fdInternal, opened>>

Next ==
  \/ \E p \in Paths : ConstructPath(p) \/ ResetPath(p)
  \/ \E e \in ExtFds, off \in Offsets, n \in Counts :
       ConstructFd(e, off, n) \/ ResetFd(e, off, n)
  \/ Destroy

Spec == Init /\ [][Next]_vars

-----------------------------------------------------------------------------
TypeOK ==
  /\ phase \in {"none", "alive", "dead"}
  /\ fd \in ExtFds \cup PoolFds \cup {NoFd}
  /\ fdOffset \in Offsets \cup {0}
  /\ fdNbytes \in Counts \cup {-1}
  /\ fdInternal \in BOOLEAN
  /\ osOpen \subseteq ExtFds \cup PoolFds
  /\ opened \subseteq PoolFds

(***************************************************************************)
(* The stream never closes a descriptor the caller owns: whatever mix of   *)
(* construction by path, reset to a caller's descriptor and reset to a     *)
(* path precedes ~DeflateFile, every caller descriptor is still open.      *)
(***************************************************************************)
NeverClosesForeign == ExtFds \subseteq osOpen

(***************************************************************************)
(* Once the instance is destroyed, no descriptor it opened is still open   *)
(* (spec 5: destruction closes the descriptor the stream owns).            *)
(***************************************************************************)
NoLeakAfterDestroy == phase = "dead" => opened \cap osOpen = {}

=============================================================================

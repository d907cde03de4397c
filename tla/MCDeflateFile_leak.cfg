\* Two caller descriptors (0 is what the default constructor passes), two
\* descriptors io::open can hand out, so repeated opens exhaust the pool.
CONSTANTS
  Paths = {"db.bin", "gone"}
  Missing = {"gone"}
  ExtFds = {0, 7}
  PoolFds = {3, 4}
  Offsets <- MCOffsets
  Width = 16
  Counts <- MCCounts

SPECIFICATION Spec

INVARIANT NoLeakAfterDestroy

\* After ~DeflateFile the instance takes no further steps.
CHECK_DEADLOCK FALSE

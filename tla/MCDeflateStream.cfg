CONSTANTS
  Bytes <- MCBytes
  BlockSize = 2
  MaxData = 3
  RawFile <- MCRawFile
  ZipFile <- MCZipFile
  ReadSizes = {1, 3}
  StaleIterators = FALSE
  AddDataAfterUse = FALSE

\* Spec with weak fairness on the caller's successful pulls.
SPECIFICATION LiveSpec

INVARIANT TypeOK
INVARIANT ConsumerSeesSource
PROPERTY PullTerminates
PROPERTY ImplementsContract

\* Two concurrent streams with bodies, trailers and resets, and one
\* connection-level frame at any moment: the mirror, the fingerprints and the
\* exchanges.  A refusal has a body of two frames, an answer none.
SPECIFICATION Spec
CONSTANTS
  None = None
  Streams = {s1, s2}
  BareBlocks = {TRUE, FALSE}
  MaxCtl = 1
  MaxBody = 1
  MaxPad = 0
  Window = 1
  FlowModulus = 2
  MaxFrame = 1
  RespLens = {0}
  ErrLen = 2
  SockBuf = 1
SYMMETRY StreamSymmetry
INVARIANTS
  TypeOK
  StableFingerprint
PROPERTIES
  ImplementsExchange
  MirrorBuiltOnce

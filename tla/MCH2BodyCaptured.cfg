\* Finding: BodyCaptured does not hold of the code.
SPECIFICATION Spec
CONSTANTS
  None = None
  Streams = {s1, s2}
  BareBlocks = {TRUE, FALSE}
  MaxCtl = 1
  MaxBody = 1
  MaxPad = 0
  Window = 1
  FlowModulus = 2
  MaxFrame = 1
  RespLens = {2}
  ErrLen = 1
  SockBuf = 1
SYMMETRY StreamSymmetry
INVARIANT BodyCaptured

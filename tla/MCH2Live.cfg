\* Two concurrent streams with padded bodies, trailers and resets, under the
\* fairness of the goroutines and of a reading client: flow control, the table
\* of streams, the order of frames, and what must happen.
SPECIFICATION FairSpec
CONSTANTS
  None = None
  Streams = {s1, s2}
  BareBlocks = {FALSE}
  MaxCtl = 0
  MaxBody = 1
  MaxPad = 1
  Window = 2
  FlowModulus = 2
  MaxFrame = 1
  RespLens = {2}
  ErrLen = 1
  SockBuf = 1
INVARIANTS
  DrainedOnReturn
  CreditConserved
  StreamTableExact
  ResponsesInOrder
PROPERTIES
  EveryRequestAnswered
  VanishedClientFreed
  CreditReturned

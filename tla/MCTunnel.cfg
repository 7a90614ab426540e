\* One connection with up to two pipelined requests beside one that negotiates.
SPECIFICATION FairSpec
CONSTANTS
  c1 = c1
  c2 = c2
  Conns = {c1, c2}
  Hosts = {a}
  NoHost = NoHost
  None = None
  OtherNames = {"content-type", "origin", "x"}
  Shapes <- MCShapes
  MaxReqs <- MCMaxReqs
  Origin <- MCOrigin
  MaxCut = 8
  SockBuf = 1
INVARIANTS
  TypeOK
  PipelineIntact
  OneLeafPerName
  OriginFaithful
PROPERTIES
  TunnelImplementsExchange
  RequestsAnswered

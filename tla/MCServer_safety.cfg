SPECIFICATION Spec
CONSTANTS
  c1 = c1
  c2 = c2
  c3 = c3
  ip1 = ip1
  ip2 = ip2
  Conn = {c1, c2, c3}
  Ip = {ip1, ip2}
  IpOf <- MCIpOf
  None = None
  Own = Own
  OpenMax = 3
  OwnFds = {0}
  HeapFd <- MCCleanHeap
  HeadSize = 2
  Sizes = {0, 1}
  MaxUnread = 2
INVARIANTS
  TypeOK
  MutualExclusion
  Handshake
  OneHolder
  HonorsMostRecent
  DeadIsSuperseded
  DescriptorsStand
PROPERTIES
  NoHealthyDrop
  RefinesRegistry
SYMMETRY MCSymmetry

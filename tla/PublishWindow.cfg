SPECIFICATION FairSpec
CONSTANTS
  disk = disk
  net = net
  o1 = o1
  o2 = o2
  o3 = o3
  Objects <- MCShared
  Remotes = {disk, net}
  Oids = {o1, o2, o3}
  BytesOf <- MCBytesOf
  ProbeLimit <- MCProbeLimit
  Capacities = {1, 2, 3}
  RemoteBytes = 2
  GlobalBytes = 3
  BatchSize = 2
  None = None
INVARIANTS TypeOK Accounted LimitsHeld NoGhostWaiter Settled
PROPERTIES FrontierHeld Returns

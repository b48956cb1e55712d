SPECIFICATION Spec
CONSTANTS
  disk = disk
  net = net
  o1 = o1
  o2 = o2
  o3 = o3
  Objects <- MCDistinct
  Remotes = {disk, net}
  Oids = {o1, o2, o3}
  BytesOf <- MCBytesOf
  ProbeLimit <- MCProbeLimit
  Capacities = {2}
  RemoteBytes = 2
  GlobalBytes = 3
  BatchSize = 2
  None = None
INVARIANTS EarlierErrorsWin

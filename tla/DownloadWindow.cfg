SPECIFICATION FairSpec
CONSTANTS
  disk = disk
  net1 = net1
  fetch = fetch
  repair = repair
  Windows = {fetch, repair}
  Remotes = {disk, net1}
  FileRemotes = {disk}
  Jobs <- MCJobs
  Downloads = {fetch}
  GlobalJobs = 2
  RemoteJobs = 1
  GlobalBytes = 2
  RemoteBytes = 2
  Workers = 1
  None = None
INVARIANTS Settled
PROPERTIES Returns

-------------------------- MODULE MCDownloadWindow --------------------------
(***************************************************************************)
(* A small instance of DownloadWindow: a download and a repair that share  *)
(* a network remote, with a buffer so large that one of them fills it.     *)
(***************************************************************************)
EXTENDS DownloadWindow

CONSTANTS disk, net1, fetch, repair

Job(r, b, c) == [remote |-> r, bytes |-> b, chunks |-> c]

MCJobs == [w \in Windows |->
  IF w = fetch THEN <<Job(net1, 2, 0), Job(disk, 0, 0), Job(net1, 1, 0)>>
  ELSE <<Job(net1, 1, 1)>>]
=============================================================================

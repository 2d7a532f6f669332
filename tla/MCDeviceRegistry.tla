-------------------------- MODULE MCDeviceRegistry --------------------------
(* Instance of DeviceRegistry for TLC.                                       *)
EXTENDS DeviceRegistry, TLC

CONSTANTS c1, c2, h1, h2, umemFd, fd1, fd2

Interchangeable ==
  Permutations({c1, c2}) \union Permutations({h1, h2}) \union Permutations({fd1, fd2})
=============================================================================

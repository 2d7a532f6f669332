SPECIFICATION Spec
CONSTANTS
  umemFd = umemFd
  fd1 = fd1
  fd2 = fd2
  Interface = {1}
  Queue = {0, 1}
  Fd = {umemFd, fd1, fd2}
  UmemFd = umemFd
  Config <- Configs
  Trusting = FALSE
SYMMETRY OwnSockets
INVARIANTS
  TypeOK
  RingsFit
  BoundAsAsked
  TakenTracked
  

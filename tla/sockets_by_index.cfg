SPECIFICATION Spec
CONSTANTS
  umemFd = umemFd
  fd1 = fd1
  fd2 = fd2
  Interface = {1, 2}
  Queue = {0, 1}
  Fd = {umemFd}
  UmemFd = umemFd
  Config <- Configs
  Trusting = TRUE
INVARIANT
  BoundAsAsked

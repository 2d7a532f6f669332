SPECIFICATION Spec
CONSTANTS
  c1 = c1
  c2 = c2
  h1 = h1
  h2 = h2
  umemFd = umemFd
  fd1 = fd1
  fd2 = fd2
  Ctx = {c1, c2}
  Fd = {umemFd, fd1, fd2}
  UmemFd = umemFd
  Handle = {h1, h2}
INVARIANTS
  TypeOK
  RegistryExact
  OneController
  RingsExclusive

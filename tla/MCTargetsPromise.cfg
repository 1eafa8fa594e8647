SPECIFICATION Spec
CONSTANTS
  W = 4
  MaxCap = 4
  CapBits = 2
  Memory = 20
  MaxPort = 4
  Localhost <- MCLocalhost
  Loopback <- MCLoopback
  Rfc1918 <- MCRfc1918
  Rfc4193 <- MCRfc4193
  LinkLocal <- MCLinkLocal
  TargetLists <- MCTargetLists
  ChunkLists <- MCChunkLists
INVARIANT AnyExpansionPromise

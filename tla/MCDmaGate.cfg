\* The two receive threads and a third caller, calls for one unit (what
\* the receive threads ask for) and for two, both outcomes of the ioctl, both
\* builds of the spin loop.  No symmetry: NotLockedOut is temporal.
SPECIFICATION Spec
CONSTANTS
  chan0 = chan0
  chan1 = chan1
  spare = spare
  Threads <- ThreeThreads
  Lens <- UpToTwo
  Builds <- AnyBuild
INVARIANTS
  TypeOK
  NeverShutBehind
  ReturnsPrefix
PROPERTIES
  NotLockedOut

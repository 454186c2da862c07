SPECIFICATION Spec
CONSTANTS
  Threads = {t1, t2}
  NoThread = NoThread
  Nodes = {n1, n2, n3}
  NoNode = NoNode
  Labels = {"x", "g"}
  Arity <- MCBinary
  Hashes = {0, 1}
  NoHash = NoHash
  Hash <- MCHash
  SweepInterval = 2
  MaxHeld = 2
INVARIANTS TypeOK OneSlotEach TableTracksReachable EqualityByAddress
PROPERTY ImplementsHashCons

\* Two ticks: the countdown may end before, between and after the two writes
\* of the worker.
CONSTANTS
  MaxTicks = 2
SPECIFICATION FairSpec
INVARIANTS
  RpcInv
  ReturnsVerdict
PROPERTIES
  ImplementsAtomicCall
  CallReturns

SPECIFICATION FairSpec
CONSTANTS
  NumPackets = 6
  AuOf <- MCStream
  FirstSeq = 12
  SeqMod = 16
  MaxNackRun = 4
  Window = 2
  MaxLoss = 2
  MaxDup = 1
  None = None
INVARIANTS FedOnce NackOnlyMissing FedWithoutHole
PROPERTIES GroupsResolve ImplementsReferenceChain WholeBehindBoundary

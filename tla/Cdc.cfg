CONSTANTS
  Words = {w1, w2, w3}
  NoWord = NoWord
  SYNC_DP = 3
SPECIFICATION CdcFairSpec
INVARIANTS CdcInv DataStable
PROPERTIES ImplementsChannel SenderRecovers

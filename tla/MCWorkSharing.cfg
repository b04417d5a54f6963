CONSTANTS
  Worker = {w0, w1}
  Nobody = Nobody
  Version = {v1, v2}
SPECIFICATION FairSpec
INVARIANTS TypeOK ClaimsDisjoint NoLostRequest NoPendingInstallation FinishIsSafe TransferComplete
PROPERTIES StacksFrozen SharingIsAtomic RequestAnswered SharerFreed

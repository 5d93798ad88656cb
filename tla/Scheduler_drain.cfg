\* Three jobs for one slot; one of them may catch its cancellation.
CONSTANTS
  j1 = j1
  j2 = j2
  j3 = j3
  Jobs = {j1, j2, j3}
  Cap = 1
  Stubborn = {j1}
SPECIFICATION FairSpec
INVARIANTS
  TypeOK
  SlotsConserved
  NoLostWakeup
  DrainLeavesNothing
  OutcomeIsTold
  CancellationLostOnlyLate
PROPERTIES
  InterruptedHasCause
  LaterJobsSpared
  DrainEnds

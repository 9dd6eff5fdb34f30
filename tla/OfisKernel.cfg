SPECIFICATION Spec
CONSTANTS
  NrTasklets = 3
  Barriers = {"my_barrier", "exec_barrier", "flag_barrier"}
  NrJobs = 3
INVARIANTS
  TypeOK
  FinishedIsComplete
  HeapIdleAtReset
  NobodyForgotten
PROPERTIES
  ActsAsDevice
  KeepsPromise
  AllReturn

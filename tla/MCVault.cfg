SPECIFICATION Spec
CONSTANTS
  None = None
  server = server
  shell = shell
  a = a
  b = b
  c = c
  good = good
  other = other
  weak = weak
  d1 = d1
  d2 = d2
  alien = alien
  Procs <- MCProcs
  Tasks <- MCTasks
  Home <- MCHome
  Passphrases <- MCPassphrases
  Strong <- MCStrong
  Configs <- MCConfigs
  Draws <- MCDraws
  Foreign <- MCForeign
  Presented <- MCPresented
INVARIANTS TypeOK DekIsPersisted AckedIsPersisted ReportedStateHolds
PROPERTIES Refinement OpenedByCredential

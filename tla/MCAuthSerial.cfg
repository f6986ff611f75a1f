SPECIFICATION Spec
CONSTANTS
  None = None
  server = server
  a = a
  b = b
  Procs <- MCProcs
  Home <- MCHome
  Tasks = {a}
  Emails = {alice, bob}
  Passwords = {pw1, pw2}
  Seeds = {seed1}
  Tokens = {tok1}
  MaxFailures = 2
  LockoutLifetime = 2
  SessionLifetime = 1
  MaxTime = 3
  MaxCount = 3
SYMMETRY Symmetry
INVARIANTS FailuresCounted SecretsInForce
PROPERTIES LockHolds AccountsPersist Refinement

SPECIFICATION Spec
CONSTANTS
  None = None
  server = server
  a = a
  b = b
  Procs <- MCProcs
  Home <- MCHome
  Tasks = {a, b}
  Emails = {alice}
  Passwords = {pw1, pw2}
  Seeds = {seed1}
  Tokens = {tok1}
  MaxFailures = 2
  LockoutLifetime = 1
  SessionLifetime = 1
  MaxTime = 1
  MaxCount = 3
SYMMETRY Symmetry
INVARIANTS TypeOK RecordsSound DeadlinesBounded
PROPERTY SessionsEnd

SPECIFICATION Spec
CONSTANTS
  None = None
  alice = alice
  bob = bob
  s = s
  k = k
  dek = dek
  one = one
  two = two
  Procs = {one, two}
  Fronts <- Apart
  Users = {alice, bob}
  Callers <- OneManager
  Secrets = {s}
  Keys = {k}
  Owner <- MCOwner
  Envelopes <- MCEnvelopes
INVARIANTS TypeOK RefusedInOrder RevokedIsDenied
PROPERTY Answered

SPECIFICATION Spec
CONSTANTS
  None = None
  alice = alice
  bob = bob
  s = s
  k = k
  dek = dek
  one = one
  two = two
  Procs = {one, two}
  Fronts <- Together
  Users = {alice, bob}
  Callers <- TwoManagers
  Secrets = {s}
  Keys = {k}
  Owner <- MCOwner
  Envelopes <- MCEnvelopes
INVARIANT RevokedIsDenied

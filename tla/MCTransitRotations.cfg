SPECIFICATION SpecCreated
CONSTANTS
  None = None
  alice = alice
  bob = bob
  Users = {alice, bob}
  Owner <- MCOwner
  Tasks = {a, b}
  Keys = {pay}
  Materials = {m1, m2, m3}
  Asked <- FewAsked
  MaxVersions = 2
  Interrupts = {}
SYMMETRY Symmetry
INVARIANT Decryptable

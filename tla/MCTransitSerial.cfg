SPECIFICATION Spec
CONSTANTS
  None = None
  alice = alice
  bob = bob
  Users = {alice, bob}
  Owner <- MCOwner
  Tasks = {a}
  Keys = {pay, log}
  Materials = {m1, m2, m3}
  Asked <- AllAsked
  MaxVersions = 3
  Interrupts = {"fault", "restart"}
SYMMETRY Symmetry
INVARIANTS Decryptable GrantsKept NoInheritedGrant
PROPERTIES UseIsEntitled Refinement

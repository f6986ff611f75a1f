SPECIFICATION Spec
CONSTANTS
  None = None
  alice = alice
  bob = bob
  Users = {alice, bob}
  Owner <- MCOwner
  Tasks = {a, b}
  Keys = {pay}
  Materials = {m1, m2, m3, m4}
  Asked <- FewAsked
  MaxVersions = 3
  Interrupts = {"fault", "restart"}
SYMMETRY Symmetry
INVARIANTS TypeOK InPlace

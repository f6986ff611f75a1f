SPECIFICATION Spec
CONSTANTS
  None = None
  Empty = Empty
  Garbage = Garbage
  alice = alice
  bob = bob
  Users = {alice, bob}
  Owner <- MCOwner
  Tasks = {a, b}
  Paths = {p, q}
  Values = {v1, v2, v3}
  Asked <- MCAsked
  Interrupts = {"fault", "restart"}
SYMMETRY Symmetry
INVARIANTS TypeOK ReadIsWritten WritesKept DeletedIsGone
PROPERTY Refinement

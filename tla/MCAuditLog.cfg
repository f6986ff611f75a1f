SPECIFICATION Spec
CONSTANTS
  None = None
  Broken = Broken
  Genesis = genesis
  Tasks = {a, b}
  Events = {"plain", "separated"}
  Hashes = {h1, h2, h3, h4}
  MaxLines = 3
  Hazards = {"fault", "restart", "tamper"}
SYMMETRY Symmetry
INVARIANTS TypeOK SameHistory
PROPERTIES DamagedStays AppendKeepsValid

SPECIFICATION Spec
CONSTANTS
  Prime = 5
  Configs <- MCConfigs
  Altered <- MCAltered
  MaxGiven = 3
  word = word
  alice = alice
  bob = bob
  Words = {word}
  Addresses = {alice, bob}
  Users <- MCUsers
  References <- MCReferences
  Numerals <- MCNumerals
  v1 = v1
  v2 = v2
  v3 = v3
  None = None
  Invalid = Invalid
INVARIANTS Rebuilds NothingInvented Hiding SameVersion SameKey

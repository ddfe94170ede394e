SPECIFICATION Spec
CONSTANTS
  n1 = n1
  n2 = n2
  Names <- MCNames
  Order <- MCOrder
  Calls = {c1, c2}
  Others = {"create", "start", "stop", "remove"}
  Keys = {"move", "toggle", "remove", "create", "rule"}
  None = None
SYMMETRY MCSlots
INVARIANTS
  KeysComeBack
PROPERTIES
  CursorFollows

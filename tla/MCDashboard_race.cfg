\* A create beside a start of another sandbox, from the keys.
SPECIFICATION Spec
CONSTANTS
  n1 = n1
  n2 = n2
  Names <- MCNames
  Order <- MCOrder
  Calls = {c1, c2}
  Others = {"stop"}
  Keys = {"toggle", "create"}
  None = None
SYMMETRY MCSlots
INVARIANTS
  NoRacingKeys

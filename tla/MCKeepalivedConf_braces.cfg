CONSTANTS
  Name = {i1, i2}
  Number = {n1, n2}
  Iface = {e1}
  Address = {a1, a2}
  Unset = Unset
  Braces = {"trailing", "alone", "inline"}
  Repeats = FALSE
  MaxLines = 8
SYMMETRY Renamings
SPECIFICATION Spec
INVARIANT MembershipAsMeant

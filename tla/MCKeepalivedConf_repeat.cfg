CONSTANTS
  Name = {i1, i2}
  Number = {n1, n2}
  Iface = {e1}
  Address = {a1, a2}
  Unset = Unset
  Braces = {"trailing"}
  Repeats = TRUE
  MaxLines = 8
SYMMETRY Renamings
SPECIFICATION Spec
INVARIANT MembershipOnce

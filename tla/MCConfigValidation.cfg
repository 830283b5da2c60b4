\* Every configuration over two groups and three values.
CONSTANTS
  Group <- MCGroup
  Value = {desktop, mobile, server}
  Null = Null
  Absent = Absent
  MaxListed = 2
SPECIFICATION Spec
INVARIANTS
  TypeOK
  BlamesTheCulprit
PROPERTIES
  ImplementsContract
  Returns
\* validate returns: the last state has no successor.
CHECK_DEADLOCK FALSE

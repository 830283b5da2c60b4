\* Every file of up to six events over two names, blocks up to three deep.
\* A file ends: nothing happens after Finish.
CONSTANTS
  Ident = {a, b}
  None = None
  MaxItems = 6
  MaxDepth = 3
SPECIFICATION Spec
SYMMETRY MCSymmetry
CHECK_DEADLOCK FALSE
INVARIANTS
  TypeOK
  RewritesAreBound
  ResolvesTheBinding
  LiveImportsKept
PROPERTIES
  ImportsAreExact

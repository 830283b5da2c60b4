\* Every file of up to size four: ifs, switches, blocks, functions and
\* declarations.
\* A file is compiled once.
CONSTANTS
  a = a
  b = b
  v = v
  impl = impl
  style = style
  Import <- MCImport
  Ident = {a, b, v}
  Files <- MCFiles
  MaxSize = 4
SPECIFICATION Spec
CHECK_DEADLOCK FALSE
INVARIANTS
  TypeOK
  RunsAsWritten
  NoErrorAtRuntime
  OnePassIsEnough
  OnlyVarsKeepDeadCode
  ImportsFollowTheCode

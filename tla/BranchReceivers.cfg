\* Methods, and values to be made, in the branches of a switch.
\* A file is compiled once.
CONSTANTS
  a = a
  b = b
  v = v
  impl = impl
  style = style
  Import <- MCImport
  Ident = {a, b, v}
  Files <- MCFiles
  MaxSize = 4
SPECIFICATION Spec
CHECK_DEADLOCK FALSE
INVARIANT PluginIsAnOptimization

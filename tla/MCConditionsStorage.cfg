\* Every interleaving of two tasks that create up to three objects.
CONSTANTS
  platform = platform
  runtime = runtime
  desktop = desktop
  mobile = mobile
  server = server
  Task = {t1, t2}
  Group = {platform, runtime}
  Value = {desktop, mobile, server}
  Undefined = Undefined
  Absent = Absent
  Inputs <- MCInputs
  MaxObjects = 3
SPECIFICATION Spec
INVARIANT TypeOK
PROPERTIES
  ImplementsByValue
  OnlyResetUnsets

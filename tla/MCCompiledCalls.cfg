\* Two calls, one of them any call of up to three values or keys; every
\* configuration and context.
CONSTANTS
  platform = platform
  runtime = runtime
  desktop = desktop
  mobile = mobile
  client = client
  typo = typo
  Site <- MCSite
  Group = {platform, runtime}
  Name = {desktop, mobile, client, typo}
  GroupOf <- MCGroupOf
  Default = Default
  Null = Null
  Absent = Absent
  NoBranch = NoBranch
  Pending = Pending
  Kept = Kept
  MaxNames = 3
  Programs <- MCPrograms
SPECIFICATION Spec
INVARIANTS
  TypeOK
  RefusalsAreJustified
  KeptCallsAreUndecided
  
PROPERTIES
  ImplementsRuntime
  ErrorsFailTheBuild
\* A failed build has no successor.
CHECK_DEADLOCK FALSE

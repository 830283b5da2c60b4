\* Does a misspelt value always fail the build, as README.md says?
CONSTANTS
  platform = platform
  runtime = runtime
  desktop = desktop
  mobile = mobile
  client = client
  typo = typo
  Site <- MCSite
  Group = {platform, runtime}
  Name = {desktop, mobile, client, typo}
  GroupOf <- MCGroupOf
  Default = Default
  Null = Null
  Absent = Absent
  NoBranch = NoBranch
  Pending = Pending
  Kept = Kept
  MaxNames = 2
  Programs <- MCPrograms
SPECIFICATION Spec
INVARIANT TyposFailTheBuild
CHECK_DEADLOCK FALSE

\* Three stories and a toolbar, for as long as one likes.
CONSTANTS
  platform = platform
  runtime = runtime
  tier = tier
  desktop = desktop
  mobile = mobile
  server = server
  free = free
  plain = plain
  phone = phone
  nested = nested
  Story = {plain, phone, nested}
  Group = {platform, runtime, tier}
  Value = {desktop, mobile, server, free}
  Undefined = Undefined
  Absent = Absent
  Configs <- MCConfigs
  Own <- MCOwn
SPECIFICATION Spec
INVARIANTS
  TypeOK
  InnermostDecides
  DecoratedStoriesRender

  

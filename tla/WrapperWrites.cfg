\* Does a write through the wrapper reach the branch?
CONSTANTS
  desktop = desktop
  mobile = mobile
  one = one
  other = other
  v1 = v1
  v2 = v2
  ParentOf <- WrapperParentOf
  TargetParent <- WrapperTargetParent
  Key = {desktop, mobile}
  Branch = {one, other}
  Prop = {title, prototype}
  Prototype = prototype
  Val = {v1, v2}
  Undefined = Undefined
  NoKey = NoKey
  TypeError = TypeError
  Unresolved = Unresolved
SPECIFICATION Spec
SYMMETRY Symmetry
PROPERTY WritesReachTheBranch

SPECIFICATION Spec
CONSTANTS
  Things = {kbd, dock, other}
  Targets = {kbd, dock}
  Interfaces = 2
  Receivers = {r}
  Unknown = Unknown
  MaxChanges = 3
INVARIANT
  OneEdgePerAttach
PROPERTIES
  AttachIsHeard

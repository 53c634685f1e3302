\* Two pages, one of which documents a class; Query is left out.
SPECIFICATION Spec
CONSTANTS
  Classes <- MCClasses
  Base <- MCBase
  Internal <- MCInternal
  ListNodes <- MCListNodes
  Pages <- MCPages
  None = None
INVARIANT
  UndocumentedReported

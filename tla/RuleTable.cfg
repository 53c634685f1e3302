SPECIFICATION Spec
CONSTANTS
  None = None
  plain = plain
  depth = depth
  text = text
  names = names
  flags = flags
  uses = uses
  style = style
  mine = mine
  good = good
  other = other
  bad = bad
  Rules = {plain, depth, text, names, flags, uses}
  CompilerRules = {style}
  Aliases = {mine}
  Kind <- MCKind
  Defaulted = {plain, depth, names, uses}
  Params = {good, other, bad}
  Wrong = {bad}
  Options <- MCOptions
  Objects <- MCObjects
  Files = {"local", "remote"}
  Located = {"local", "remote"}
  Visible = {"local"}
  MaxOptions = 3
INVARIANTS
  TypeOK
  TablesAgree
  AsAsked
  FreedReported

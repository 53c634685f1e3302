CONSTANTS
  NumSources = 3
  NumLines = 2
  MaxAnnotations = 2
  MaxViolations = 1
  Rules = {"rule", "warn"}
  Aliases = {"inst", "wall"}
  RuleOf <- MCRuleOf
  Unknown = {"none"}
  Kinds = {"on", "off", "wrong"}
  CompilerRules = {"warn"}
  Enabled = {"rule"}
  Params = {"p", "z"}
  Allowed <- MCAllowed
  Idle = {}
SPECIFICATION Spec
INVARIANTS TypeOK SectionsWellFormed ExemptedExactly

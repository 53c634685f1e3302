CONSTANTS
  NumSources = 1
  NumLines = 3
  MaxAnnotations = 3
  MaxViolations = 1
  Rules = {"rule"}
  Aliases = {"inst"}
  RuleOf <- MCRuleOf
  Unknown = {}
  Kinds = {"on", "off", "line"}
  CompilerRules = {}
  Enabled = {"rule"}
  Params = {"p", "q"}
  Allowed <- MCAllowed
  Idle = {}
SPECIFICATION Spec
INVARIANTS SectionsWellFormed ExemptedExactly UnusedAreUseless

CONSTANTS
  NumSources = 1
  NumLines = 2
  MaxAnnotations = 2
  MaxViolations = 0
  Rules = {"rule"}
  Aliases = {"inst"}
  RuleOf <- MCRuleOf
  Unknown = {}
  Kinds = {"on", "off"}
  CompilerRules = {}
  Enabled = {"rule"}
  Params = {"p", "z"}
  Allowed <- MCAllowed
  Idle = {}
SPECIFICATION Spec
INVARIANTS NeverWidened

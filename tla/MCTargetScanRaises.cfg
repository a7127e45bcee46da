CONSTANTS
  Probes = {cors, trace}
  OptionSets <- OptionChoices
  Budgets <- PlanBudgets
  MaxPages = 1
SPECIFICATION Spec
INVARIANTS ErrorsAreRetained
CHECK_DEADLOCK FALSE

CONSTANTS
  Probes = {cors, trace}
  OptionSets <- OptionChoices
  Budgets <- PlanBudgets
  MaxPages = 2
SPECIFICATION Spec
INVARIANTS OneVerdictPerCheck ProbesAreOptedIn SuccessIsEarned SuccessLeavesNothingOut
CHECK_DEADLOCK FALSE

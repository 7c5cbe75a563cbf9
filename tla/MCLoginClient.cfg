CONSTANTS
  a = a
  b = b
  Calls = {a, b}
  Budgets = {2, 4}
  DefaultBudget = 4
  CooldownMin = 2
  CooldownMax = 5
  MaxTime = 16
SPECIFICATION LoginSpec
SYMMETRY Symmetry
INVARIANTS LoginTypeOK BudgetKept LoginsSpaced

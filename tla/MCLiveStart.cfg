CONSTANTS
  Runs = {a, b}
  Handlers = {page, tab}
  Budgets <- All
SYMMETRY Alike
SPECIFICATION Spec
INVARIANTS OneActive RalphsAlone
CHECK_DEADLOCK FALSE

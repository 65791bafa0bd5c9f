SPECIFICATION Spec
CONSTANTS
  Names = {n}
  Requests = {a, b}
  None = None
  Limit = 1
  MaxSecret = 2
  MaxToken = 2
INVARIANT WindowIsFound

SPECIFICATION Spec
CONSTANTS
  tinfoil = tinfoil
  ppq = ppq
  canonical = canonical
  private = private
  Providers = {tinfoil, ppq}
  Spellings = {canonical, private}
  ModelOf <- MCModelOf
  Prices = {3, 20}
  Tokens = {0, 4, 9}
  Million = 5
  MaxAnswers = 2
  MaxEdits = 1
INVARIANT
  BookedAtThePrice
CHECK_DEADLOCK FALSE

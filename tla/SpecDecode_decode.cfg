SPECIFICATION FairSpec
CHECK_DEADLOCK FALSE
CONSTANTS
  a = a
  b = b
  end = end
  Token = {a, b, end}
  Mask = Mask
  Noise = Noise
  Stop = {end}
  Models <- Tables
  Greedy <- Table
  Prompts <- SomePrompts
  Budgets = {1, 2, 4}
  Blocks = {2, 3}
INVARIANT RoundsSeparate
PROPERTY ImplementsGreedy
PROPERTY Returns

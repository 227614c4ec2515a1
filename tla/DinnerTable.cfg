SPECIFICATION FairSpec
CONSTANTS
  N = 5
  Meals = 2
INVARIANTS TypeOK ChopsticksConsistent NoLostSignal
PROPERTIES DinnerEnds ImplementsDining

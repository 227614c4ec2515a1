SPECIFICATION FairSpec
CONSTANTS N = 5
          Meals = 2
INVARIANTS TypeOK NoLostWakeup HoldersAgree OneReaches OverMeansEaten
PROPERTIES ImplementsDining DinnerEnds EveryoneKeepsEating

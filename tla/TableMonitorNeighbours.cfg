SPECIFICATION Spec
CONSTANTS N = 5
          Meals = 1
INVARIANT NeighboursApart

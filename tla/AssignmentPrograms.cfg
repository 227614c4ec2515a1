SPECIFICATION Spec
CONSTANTS Items = {"a", "b"}
          MaxNodes = 4
          initialCapacity = 2
          MaxCount = 5
          Sizes = {1, 2, 3}
          TopN = 2
          Amounts = {1, 2, 3, 4}
          Customers = {"a", "b"}
          MaxTransactions = 5
          Dim = 2
          Within = 6
          Side = 2
          MaxPoints = 3
          MaxN = 7
\* The bounds stop some of the programs, and the searches end.
CHECK_DEADLOCK FALSE
INVARIANTS TypeOK NothingSkipped SitesAgree FullIsWet LargestKept DistancesRight ShortestFound LinesOnce
PROPERTIES ImplementsSequence ImplementsPointSET

\* A server waits for ever once its clients have nothing more to say.
SPECIFICATION FairSpec
CONSTANTS Clients = {c1, c2}
          Lines = 2
          FewerLines = 1
          Workers = {w1, w2}
          Capacity = 1
          Quitters = {c1}
INVARIANTS TypeOK LinesAccounted EchoedInOrder ListIsCurrent
PROPERTIES ImplementsService EveryLineAnswered WorkersLeave
CHECK_DEADLOCK FALSE

SPECIFICATION FairSpec
CONSTANTS Runs = 5
          Gamers = {Ping, Pong, Aha}
          Bounces = 7
INVARIANTS TypeOK OnePermit TestStillHolds TakerLeft
PROPERTIES ImplementsGame GameEnds

\* The server waits for ever once the clients have nothing more to say.
SPECIFICATION ServerFairSpec
CONSTANTS Clients = {c1, c2}
          Lines = 1
          Closes = FALSE
PROPERTY OwnThread
CHECK_DEADLOCK FALSE

\* The server waits for ever once the clients have nothing more to say.
SPECIFICATION Spec
CONSTANTS Clients = {c1, c2}
          Lines = 1
          Workers = {w1}
INVARIANT TaskPerLine
CHECK_DEADLOCK FALSE

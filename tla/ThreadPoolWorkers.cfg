\* The server waits for ever once the clients have nothing more to say.
SPECIFICATION Spec
CONSTANTS Clients = {c1, c2}
          Lines = 2
          Workers = {w1, w2}
INVARIANT WorkersConstantlyTry
CHECK_DEADLOCK FALSE

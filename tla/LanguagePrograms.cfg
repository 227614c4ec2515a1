SPECIFICATION Spec
CONSTANTS nthreads = 3
          MaxSentences = 5
          NTs = 2
          SBARQ = 0
          Hashes = {78683537, 40337, 2498}
          MaxLength = 3
          MaxWords = 3
          MaxChars = 4
          Estimates = {1, 3}
\* The programs end.
CHECK_DEADLOCK FALSE
INVARIANTS TypeOK OutputInOrder BestFound
PROPERTIES ProgramEnds

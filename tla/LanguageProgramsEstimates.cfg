SPECIFICATION Spec
CONSTANTS nthreads = 1
          MaxSentences = 1
          NTs = 1
          SBARQ = 0
          Hashes = {40337}
          MaxLength = 1
          MaxWords = 2
          MaxChars = 1
          Estimates = {1}
\* The programs end.
CHECK_DEADLOCK FALSE
INVARIANT EstimatesAreLogs

SPECIFICATION Spec
CONSTANTS
  Scripts <- MCScripts
  Answers <- MCAnswers
  States <- MCStates
  Reads = {24, 40, 64}
  Moments = {0, 3, 6, 70000}
  Delays = {0, 1, 4}
INVARIANTS CommandsDecoded ResultsDecoded RecordRestored
CHECK_DEADLOCK FALSE

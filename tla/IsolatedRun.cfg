\* A call with a timeout and one without, every way a child can end, under
\* fairness.
CONSTANTS
  Calls = {call1, call2}
  Timed = {call1}
SPECIFICATION CallSpec
CHECK_DEADLOCK FALSE
PROPERTIES
  ImplementsTimedCall
  TimedCallEnds
  NoProcessLeftBehind
  AnswerIsTaken

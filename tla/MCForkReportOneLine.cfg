\* The form the system prompt asks for; its report is dropped.
SPECIFICATION TextSpec
CONSTANTS
  Word = {word}
  MaxTokens = 3
INVARIANT OneLineReportIsCaptured
CHECK_DEADLOCK FALSE

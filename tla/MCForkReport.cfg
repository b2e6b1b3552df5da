\* All transcripts of up to six tokens over one word.
SPECIFICATION TextSpec
CONSTANTS
  Word = {word}
  MaxTokens = 6
INVARIANT CapturedWhenOnOwnLine
CHECK_DEADLOCK FALSE

CONSTANTS
  W = 3
  H = 2
  TabStop = 2
  BufMax = 3
  PosBase = 3
  BootText <- MCBootText
  Prompt <- MCPrompt
  Answers <- MCAnswers
  Notice <- MCNotice
  Letters = {"t"}
  MaxKeys = 4
SPECIFICATION Spec
INVARIANT TypeOK OnScreen ShowsPaper LineShown CursorTracked
CHECK_DEADLOCK FALSE

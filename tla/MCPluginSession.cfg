SPECIFICATION FairPluginSpec
CONSTANTS
  Execs = {e1, e2}
  First = e1
  NoExec = NoExec
  NoToken = NoToken
  Tokens <- MCTokens
  MaxBoots = 1
CONSTRAINT InOrder FewQuestions PreviewsLast
INVARIANTS OneRecovery MirrorIsTruthful QuestionIsAnswerable PublishedIsTrue NobodyIsLeftWaiting
PROPERTIES AcceptsAgain ImplementsSession WaitsEnd
CHECK_DEADLOCK FALSE

SPECIFICATION FairSpec
CONSTANTS
  Questions = {q1}
  None = none
  MaxConns = 2
  StoreFails = FALSE
CHECK_DEADLOCK FALSE
INVARIANTS TypeOK ToldTheRecord QuestionIsKnown
PROPERTY NobodyIsLeft

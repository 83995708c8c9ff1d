SPECIFICATION Spec
CONSTANTS
  Cases <- MCCases
  Openings <- MCOpenings
  Answers <- MCAnswers
  MaxTurns = 3

  
  
PROPERTY
  KeyIsPrefix
CHECK_DEADLOCK FALSE

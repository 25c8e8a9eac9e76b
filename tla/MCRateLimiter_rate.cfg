SPECIFICATION BoundedSpec
CONSTANTS
  Rate = 2
  Token = 3
  MaxTime = 24
INVARIANTS
  TypeOK
  AtMostTwiceTheRate
  WindowedRate

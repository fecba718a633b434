SPECIFICATION HangmanSpec
CONSTANTS
  NR_KEY = 4
  Words = {{0, 1}, {1, 3}}
  RKEY = 2
  COUNTDOWN = 2
  MISS_END = 2
  HALF_SECOND = 2
  MaxLag = 3
INVARIANTS
  NowBehindTick
  CountdownIsExact
  GuessesOnce
  ShownIsKnown
PROPERTIES
  GameEnds

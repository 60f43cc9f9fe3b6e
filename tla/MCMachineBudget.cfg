SPECIFICATION Spec
CONSTANTS
  DividerSize = 32
  CounterSize = 3
  BitWeight <- MCBitWeight
  Source = {"keyboard", "remote"}
  Row = {"d", "a"}
  Line = {0, 1}
  Game <- EdgeGames
  NoGame = NoGame
  Inputs <- MCInputs
  Presses <- MCPresses
  DmaLength = 3
INVARIANT PredictionIsTaken

SPECIFICATION CoreSpec
CONSTANTS
  DividerSize = 32
  CounterSize = 3
  BitWeight <- MCBitWeight
  Source = {"keyboard", "remote"}
  Row = {"d", "a"}
  Line = {0, 1}
  Game <- MCGames
  NoGame = NoGame
  Inputs <- MCInputs
  Presses <- MCPresses
  DmaLength = 3
  DotsPerLine = 40
  LinesPerFrame = 4
  VisibleLines = 2
  Mode2Dots = 12
  StartupMode3Dot = 16
  BaseMode3Dots = 8
  MaxMode3Dots = 16
  Extra = {0, 5}
  Penalty = {0, 4}
  Enables <- MCEnables
  Compare = {0, 1, 3}
  MaxLength <- MCMaxLength
  Low = 2
  High = 2
  MaxPace = 1
  MaxShift = 1
  Scores <- MCScores
  SecondsPerDay = 2
  DaysLow = 2
  MaxTime = 5
  Values = {0, 1}
  Headers <- MCHeaders
  Operands = {1, 15, 128, 153}
  NoProgram = NoProgram
  Color <- MCColor
  TileAt <- MCTileAt
INVARIANTS
  DividersAgree
  BudgetIsExact
  JoypadShowsInputs
  DmaIsExclusive
  HaltedTimerWakes
  StatLineIsCurrent
  FrameIsComplete
  ModeLocksMemory
  ChannelsAreSound
  BanksAreReachable
  SaveRestores
  ArithmeticIsExact
PROPERTY ClockKeepsTime

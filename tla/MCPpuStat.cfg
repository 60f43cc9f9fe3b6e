SPECIFICATION PpuSpec
CONSTANTS
  DotsPerLine = 40
  LinesPerFrame = 4
  VisibleLines = 2
  Mode2Dots = 12
  StartupMode3Dot = 16
  BaseMode3Dots = 8
  MaxMode3Dots = 16
  Extra = {0, 5}
  Penalty = {0, 4}
  Enables <- MCEnables
  Compare = {0, 1, 3}
PROPERTY SwitchClearsStatLine

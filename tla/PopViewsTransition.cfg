CONSTANTS
  hidden = hidden
  short = short
  tall = tall
  low = low
  high = high
  Frame = {hidden, short, tall}
  NoFrame = NoFrame
  Top <- MCTop
  Screen = 9
  Hidden = hidden
  MaxChanges = 2
  MaxTells = 2
  Pop = {low, high}
  Bottom <- MCBottom
SPECIFICATION Spec
PROPERTY
  TellsOfChanges
CHECK_DEADLOCK FALSE

SPECIFICATION Spec
CONSTANTS
  a = a  d = d  e = e  sp = sp  gt = gt  nl = nl
  MAX_ROWS = 3
  MAX_COLS = 3
  Typed <- MCTyped
  Blank = sp
  Prompt = gt
  LineFeed = nl
  Digits <- MCDigits
  Texts <- MCTexts
  Numbers <- MCNumbers
  LineSize = 4
INVARIANTS
  TypeOK
  ScreenShowsPaper
  LineOnScreen

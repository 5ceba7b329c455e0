CONSTANTS
  Height = 3
  Width = 3
  Screens <- MCScreens
  MaxWork = 2
  Texts <- MCTexts
  FirstFrames <- MCFirstFrames
  Frames <- MCFrames
SPECIFICATION LiveSpec
INVARIANT TypeOK
 
 
 
 
PROPERTY ImplementsDisplayClient
 
CHECK_DEADLOCK FALSE

SPECIFICATION ApiSpec
CONSTANTS
  MaxEdits = 2
  MaxRestarts = 0
PROPERTY HashChecked
CHECK_DEADLOCK FALSE

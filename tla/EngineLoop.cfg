\* One key and one button, and a splash screen of a few ticks.
CONSTANTS
  Keys = {space}
  Buttons = {button}
  Positions = {here, there}
  Origin = here
  EaseTime = 2
  DelayTime = 1
  MaxDelta = 2
  MaxHits = 2
SPECIFICATION Spec
INVARIANTS PressesReportedOnce
PROPERTIES SplashEnds
\* The application exits.
CHECK_DEADLOCK FALSE

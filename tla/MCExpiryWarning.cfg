SPECIFICATION Spec
CONSTANTS
  Instants <- MCInstants
  Starts <- MCStarts
  MaxTicks = 18
  Second = 2
  Minute = 4
  Hour = 8
  Day = 16
  Slack = 1
  Blur <- MCBlur
  MaxDuration = 127
  Settings <- MCSettings
  DefaultDays = 1
  Nothing = Nothing
  Never = Never
  Absent = Absent
  Broken = Broken
INVARIANTS
  WarningsAreRight
PROPERTIES
  NeverBack

SPECIFICATION Spec
CONSTANTS
  Milli = 2
  Second = 25
  Minute = 50
  Hour = 75
  MaxLease = 60
  MaxInt = 120
  Den = 10
  MaxNum = 20
  Mantissa = 6
  Product <- MCProduct
  BodyLimit = 30
  Caps = {0, 3, 31}
  Slack = 8
  Envelopes = {2, 3}
  MaxSize = 33
  Keys = {k1, k2}
  NoKey = NoKey
  Bearers <- MCBearers
INVARIANTS
  WithinBounds
  SameLeases

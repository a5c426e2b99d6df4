SPECIFICATION PingPongFairSpec
CONSTANTS
  Arguments <- PingPongArguments
PROPERTIES MeasuresMigrations EndsExactly

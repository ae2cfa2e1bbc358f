SPECIFICATION Spec
CONSTANTS
  cpuA = cpuA
  gpuA = gpuA
  cpuB = cpuB
  s1 = s1
  s2 = s2
  cpu = cpu
  gpu = gpu
  freq = freq
  fan = fan
  power = power
  dfltA = dfltA
  warm = warm
  hot = hot
  dfltG = dfltG
  glow = glow
  extra = extra
  None = None
  Unread = Unread
  Declared <- MCDeclared
  SensorOf <- MCSensorOf
  ThresholdsOf <- MCThresholdsOf
  Trigger <- MCTrigger
  Clear <- MCClear
  Wants <- MCWants
  Levels <- MCLevels
  Uses <- MCUses
  Controls = {cpu, gpu}
  Resources = {freq, fan, power}
  Sensors = {s1, s2}
  Configurations = {cpuA, gpuA, cpuB}
  Thresholds = {dfltA, warm, hot, dfltG, glow, extra}
  Temps = {0, 1, 2, 3}
  Zones = {s1}
  Timed = {}
  Flaky = {s1, s2}
  Unions = {s2}
  Polled = {freq, fan}
  Halts = {power}
INVARIANTS TypeOK NeverCrashes HighestSelected NeverBelowDemand NoVoteIsMissing MitigationInForce
PROPERTIES HysteresisSpec OneReadingPerRound

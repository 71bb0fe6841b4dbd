CONSTANTS
  Indexes = {0}
  Destinations = {d1, d2}
  Sizes = {1, 5, 6}
  lan_device = lan
  wan_device = wan
  Others = {dmz}
  rate = 3
  burst = 5
  VIGOR_TIME_SECONDS_MULTIPLIER = 2
  MaxTime = 6
  NoPort = NoPort
SPECIFICATION AlarmSpec
PROPERTY NoFalseAlarms
ACTION_CONSTRAINT LeastIndexFirst

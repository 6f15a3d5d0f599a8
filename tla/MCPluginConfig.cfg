SPECIFICATION Spec
CONSTANTS
  Configs <- SomeConfigs
  trim_lower <- HeaderNames
  trim <- ClusterNames
  Streams = {r1}
INVARIANTS
  StreamsGetUsableSettings
  SettingsAreOfOneConfig
CHECK_DEADLOCK FALSE

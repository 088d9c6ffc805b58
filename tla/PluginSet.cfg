CONSTANTS
  Plugins <- MCPlugins
  Loads <- MCLoads
  PluginOf <- MCPluginOf
  Names <- MCNames
  WellFormedNames <- MCWellFormedNames
  Classes <- MCClasses
SPECIFICATION Spec
INVARIANTS
  ExitMeansRegistered
  OneLoadWins
  CamerasCanBeOpened
PROPERTIES
  FirstComeFirstServed
  RetryIsRefused
CHECK_DEADLOCK FALSE

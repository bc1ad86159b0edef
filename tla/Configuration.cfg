SPECIFICATION ConfigSpec
CONSTANTS
  NoFile = NoFile
  Invalid = Invalid
  ConfigFile <- MCConfigFile
  Environment <- MCEnvironment
INVARIANTS
  MinimalConfigLoads

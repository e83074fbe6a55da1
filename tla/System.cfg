SPECIFICATION FairSpec
CONSTANTS
  Names = {"", "n"}
  Descriptions = {"d"}
  Networks = {"home"}
  MaxCommands = 4
  MaxBoots = 3
INVARIANTS SettingsInSync
PROPERTIES DefaultsOnlyWhenAsked StationRetried

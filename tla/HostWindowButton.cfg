SPECIFICATION WindowSpec
CONSTANTS
  Devices = {"card"}
  NameOf <- MCNames
  AltSettings <- MCAltSettings
INVARIANT ButtonHasEndpoint
CHECK_DEADLOCK FALSE

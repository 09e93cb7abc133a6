SPECIFICATION FairSpec
CONSTANTS
  ws = ws
  slow = slow
  Mods <- MCMods
  Workspace = ws
  Period <- MCPeriod
  AutoUpdate = {ws}
  Stamping = {slow}
  SecUnits = 2
  MaxEvents = 2
INVARIANTS WaitsRendered LagBounded
PROPERTIES ClickHandled DueUpdated

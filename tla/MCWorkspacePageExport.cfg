CONSTANTS
    Scopes = {"workspace", "platform"}
    Ids = {"p", "q"}
    Held <- MCHeld
    OtherProfiles <- MCOtherProfiles
    HandWritten <- MCHandWritten
    Formats = {"json"}
    Forms <- MCForms
    MaxOthers = 1
    MaxExports = 1
    MaxDrops = 1
    MaxOpened = 2
    MaxWrites = 2
    Workspaces = {"w", "v"}
    Names = {"a", "b"}
    Order <- MCOrder
    Selectors = {"", "s"}
    Matching <- MCMatching
    NameFilters = {{"a", "b"}, {"a"}}
    PageSizes = {1, 2}
    MaxSteps = 3
SPECIFICATION PageSpec
CHECK_DEADLOCK FALSE
PROPERTIES
    AnExportLosesNothing

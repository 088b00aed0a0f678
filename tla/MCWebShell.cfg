\* Three entries in the history of one tab.
SPECIFICATION Spec
CONSTANTS
    Segments <- MCSegments
    TypedPaths <- MCTypedPaths
    MaxEntries = 3
INVARIANTS
    LinksLeadToPages
    OneItemPerPage
    AdminIsTyped
    NavReachable
    KeysHaveEntries
PROPERTIES
    ToggleDoesWhatItSays

\* The texts of every page.
SPECIFICATION Spec
CONSTANTS
    Segments <- MCSegments
    TypedPaths <- MCTypedPaths
    MaxEntries = 3
INVARIANTS
    EveryKeyTranslated

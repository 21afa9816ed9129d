\* A registered message type whose id is 600, past the 512-entry cache.
CONSTANTS
    Types = {"Start", "Big"}
    IdOf <- MCIds
    Registered = {"Start", "Big"}
    CacheSize = 512
    None = None
    Garbage = Garbage
SPECIFICATION Spec
CONSTRAINT MCBound
INVARIANT DispatchMatchesTable

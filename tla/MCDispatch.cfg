\* PingActor's handler table (Start and Pong registered) receiving Start,
\* Shutdown, Ping and Pong in every order, up to four dispatches.
CONSTANTS
    Types = {"Start", "Shutdown", "Ping", "Pong"}
    IdOf <- MCIds
    Registered = {"Start", "Pong"}
    CacheSize = 512
    None = None
    Garbage = Garbage
SPECIFICATION Spec
CONSTRAINT MCBound
INVARIANT DispatchMatchesTable

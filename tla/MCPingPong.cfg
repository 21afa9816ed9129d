\* ping_pong.cpp with three round trips.
CONSTANTS
    PingA = PingA
    PongA = PongA
    Actors = {PingA, PongA}
    Groups = {}
    Mgr = Mgr
    Main = Main
    NoActor = NoActor
    Members <- PPMembers
    Managed <- PPManaged
    Kinds = {"Start", "Shutdown", "Ping", "Pong", "Timeout"}
    Handles <- PPHandles
    Script <- PPScript
    MaxN = 3
    MaxMsgs = 13
SPECIFICATION Spec
INVARIANT ReplyRouting WakeAtNextBoundary LeakCensus
PROPERTY PingPongCompletes
\* After the last Pong every worker waits in pop() and the main thread in
\* Manager::end for ever: the program really stops there (see
\* MCPingPongShutdown.cfg).
CHECK_DEADLOCK FALSE

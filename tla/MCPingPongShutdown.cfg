\* ping_pong.cpp: does manager->terminate() end the program?
CONSTANTS
    PingA = PingA
    PongA = PongA
    Actors = {PingA, PongA}
    Groups = {}
    Mgr = Mgr
    Main = Main
    NoActor = NoActor
    Members <- PPMembers
    Managed <- PPManaged
    Kinds = {"Start", "Shutdown", "Ping", "Pong", "Timeout"}
    Handles <- PPHandles
    Script <- PPScript
    MaxN = 1
    MaxMsgs = 13
SPECIFICATION Spec

PROPERTY ShutdownTakesEffect
\* Workers block in pop() once the exchange ends; the property, not deadlock, is the question.
CHECK_DEADLOCK FALSE

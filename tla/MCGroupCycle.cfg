\* A fast_send cycle across two threads: C's thread calls into M1 while the
\* group thread, inside M1's handler, calls into C.
CONSTANTS
    C = C
    G = G
    M1 = M1
    M2 = M2
    Actors = {C, M1, M2}
    Groups = {G}
    Mgr = Mgr
    Main = Main
    NoActor = NoActor
    Members <- GMembers
    Managed <- GManaged
    Kinds = {"Start", "Shutdown", "Work", "Done", "Tick"}
    Handles <- GHandles
    Script <- GCycleScript
    MaxN = 1
    MaxMsgs = 10
SPECIFICATION Spec
PROPERTY HandlersReturn
CHECK_DEADLOCK FALSE

\* C terminates one member of the group, then sends work to the other.
CONSTANTS
    C = C
    G = G
    M1 = M1
    M2 = M2
    Actors = {C, M1, M2}
    Groups = {G}
    Mgr = Mgr
    Main = Main
    NoActor = NoActor
    Members <- GMembers
    Managed <- GManaged
    Kinds = {"Start", "Shutdown", "Work", "Done", "Tick"}
    Handles <- GHandles
    Script <- GTermScript
    MaxN = 1
    MaxMsgs = 14
SPECIFICATION Spec
INVARIANT NoStranded
\* The group's thread ends waiting in pop() and the main thread in
\* Manager::end: nothing terminates the group, so the program stops there.
CHECK_DEADLOCK FALSE

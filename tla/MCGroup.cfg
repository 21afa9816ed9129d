\* Group fan-out at start-up, intra-group sends, forwarding with replies,
\* and a plain actor that terminates while replies are on their way.
CONSTANTS
    C = C
    G = G
    M1 = M1
    M2 = M2
    Actors = {C, M1, M2}
    Groups = {G}
    Mgr = Mgr
    Main = Main
    NoActor = NoActor
    Members <- GMembers
    Managed <- GManaged
    Kinds = {"Start", "Shutdown", "Work", "Done", "Tick"}
    Handles <- GHandles
    Script <- GScript
    MaxN = 1
    MaxMsgs = 16
SPECIFICATION Spec
INVARIANT ReplyRouting MessageOwnership GroupSerial LeakCensus
PROPERTY HandlersReturn
\* The group's thread ends waiting in pop() and the main thread in
\* Manager::end: nothing terminates the group, so the program stops there.
CHECK_DEADLOCK FALSE

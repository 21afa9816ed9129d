CONSTANTS
    A = A
    B = B
    PongA = PongA
    Client = Client
    SndA = SndA
    SndB = SndB
    RcvA = RcvA
    RcvB = RcvB
    MgrA = MgrA
    MgrB = MgrB
    None = None
    ProxyForwards = TRUE
    Procs <- MCProcs
    Apps <- MCApps
    Home <- RJHome
    NameOf <- RJName
    SenderOf <- RJSender
    ReceiverOf <- RJReceiver
    MgrOf <- RJMgr
    Managed <- RJManaged
    Registry <- RJRegistry
    Regs <- RJRegs
    MsgId <- RJMsgId
    Handles <- RJHandles
    Script <- RJScript
SPECIFICATION Spec
INVARIANT RemoteFifo
PROPERTY RejectContract ReceiverStops

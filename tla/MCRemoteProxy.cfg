CONSTANTS
    PingP = PingP
    PongP = PongP
    PingA = PingA
    PongA = PongA
    SndPing = SndPing
    SndPong = SndPong
    RcvPing = RcvPing
    RcvPong = RcvPong
    MgrPing = MgrPing
    MgrPong = MgrPong
    None = None
    Rounds = 5
    ProxyForwards = FALSE
    Procs <- MCProcs
    Apps <- MCApps
    Home <- RPHome
    NameOf <- RPName
    SenderOf <- RPSender
    ReceiverOf <- RPReceiver
    MgrOf <- RPMgr
    Managed <- RPManaged
    Registry <- RPRegistry
    Regs <- RPRegs
    MsgId <- RPMsgId
    Handles <- RPHandles
    Script <- RPScript
SPECIFICATION Spec
PROPERTY RemoteRoundTrip

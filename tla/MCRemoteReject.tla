--------------------------- MODULE MCRemoteReject ---------------------------
(***************************************************************************)
(* Spec scenarios S5 and S6 on the remote_pong process.  Process A is     *)
(* examples/remote_pong.cpp (PongActor "pong").  Process B has a client    *)
(* actor "client" whose Start handler sends, through remote refs to A,     *)
(* Ping(1) to "ghost" (no such actor), Hello to "pong" (Hello is           *)
(* registered in B only), then Ping(1) to "pong".  PongActor replies, then *)
(* calls terminate() on A's ZmqReceiver.                                   *)
(***************************************************************************)
EXTENDS Remote, TLC

CONSTANTS A, B, PongA, Client, SndA, SndB, RcvA, RcvB, MgrA, MgrB

MCProcs == {A, B}
MCApps == {PongA, Client}

RJHome(a) == IF a \in {PongA, SndA, RcvA, MgrA} THEN A ELSE B
RJName(a) == IF a = PongA THEN "pong" ELSE "client"
RJSender(p) == IF p = A THEN SndA ELSE SndB
RJReceiver(p) == IF p = A THEN RcvA ELSE RcvB
RJMgr(p) == IF p = A THEN MgrA ELSE MgrB
RJManaged(p) == IF p = A THEN <<SndA, PongA, RcvA>> ELSE <<SndB, Client, RcvB>>
RJRegistry(p) == IF p = A THEN "pong" :> PongA ELSE "client" :> Client
\* A registers Ping and Pong; the client also registers Hello (id 102),
\* which A does not know.
RJRegs(p) == IF p = A THEN <<"Ping", "Pong">> ELSE <<"Ping", "Pong", "Hello">>
RJMsgId(k) ==
    CASE k = "Ping" -> 100 [] k = "Pong" -> 101 [] k = "Hello" -> 102 [] OTHER -> 9
RJHandles(a) == IF a = PongA THEN {"Start", "Ping"} ELSE {"Start", "Pong"}

RJScript(a, k, n) ==
    CASE a = Client /\ k = "Start" ->
           << RSendOp(A, "ghost", "Ping", 1), RSendOp(A, "pong", "Hello", 0),
              RSendOp(A, "pong", "Ping", 1) >>
      [] a = PongA /\ k = "Ping" -> <<ReplyOp("Pong", n), TermOp(RcvA)>>
      [] OTHER -> <<>>
=============================================================================

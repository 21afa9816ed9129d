-------------------------- MODULE MCRemotePingPong --------------------------
(***************************************************************************)
(* examples/remote_ping.cpp and examples/remote_pong.cpp: two processes,  *)
(* PingP (endpoint tcp://localhost:5002) and PongP (tcp://localhost:5001), *)
(* each with a ZmqSender, one application actor and a ZmqReceiver.  Ping   *)
(* sends Ping(1) to the remote "pong" from its Start handler; Pong replies *)
(* Pong(n); Ping sends Ping(n+1) until it has Pong(Rounds), then calls     *)
(* terminate() on its Manager.                                             *)
(***************************************************************************)
EXTENDS Remote, TLC

CONSTANTS PingP, PongP, PingA, PongA, SndPing, SndPong, RcvPing, RcvPong,
          MgrPing, MgrPong, Rounds

MCProcs == {PingP, PongP}
MCApps == {PingA, PongA}

RPHome(a) == IF a \in {PingA, SndPing, RcvPing, MgrPing} THEN PingP ELSE PongP
RPName(a) == IF a = PingA THEN "ping" ELSE "pong"
RPSender(p) == IF p = PingP THEN SndPing ELSE SndPong
RPReceiver(p) == IF p = PingP THEN RcvPing ELSE RcvPong
RPMgr(p) == IF p = PingP THEN MgrPing ELSE MgrPong

\* PingManager / PongManager: manage(sender), manage(app), manage(receiver),
\* and register_actor of the app's name.
RPManaged(p) == <<RPSender(p), IF p = PingP THEN PingA ELSE PongA, RPReceiver(p)>>
RPRegistry(p) == IF p = PingP THEN "ping" :> PingA ELSE "pong" :> PongA

\* REGISTER_REMOTE_MESSAGE_1(Ping ...) and (Pong ...) in both programs.
RPRegs(p) == <<"Ping", "Pong">>

\* Pong declared with Ping's id, as a copied struct line would do.
RPMsgIdCopied(k) == CASE k = "Ping" -> 100 [] k = "Pong" -> 100 [] OTHER -> 9

\* Ping is Message_N<100>, Pong is Message_N<101>, Reject Message_N<9>.
RPMsgId(k) == CASE k = "Ping" -> 100 [] k = "Pong" -> 101 [] OTHER -> 9

RPHandles(a) == IF a = PingA THEN {"Start", "Pong"} ELSE {"Start", "Ping"}

\* PingActor::on_start, PingActor::on_pong (count >= 5 ends it),
\* PongActor::on_start (prints only), PongActor::on_ping.
RPScript(a, k, n) ==
    CASE a = PingA /\ k = "Start" -> <<RSendOp(PongP, "pong", "Ping", 1)>>
      [] a = PingA /\ k = "Pong"  ->
           IF n >= Rounds THEN <<TermOp(MgrPing)>>
           ELSE <<RSendOp(PongP, "pong", "Ping", n + 1)>>
      [] a = PongA /\ k = "Ping"  -> <<ReplyOp("Pong", n)>>
      [] OTHER -> <<>>

\* Spec property 8 and scenario S4: Ping eventually handles Pong(Rounds);
\* every reply has crossed back through the RemoteReplyProxy made for the
\* Ping it answers.
RemoteRoundTrip ==
    <>(\E i \in DOMAIN log : log[i].actor = PingA /\ log[i].kind = "Pong"
                             /\ log[i].n = Rounds)
=============================================================================

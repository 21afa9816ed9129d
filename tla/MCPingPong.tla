---------------------------- MODULE MCPingPong ----------------------------
(***************************************************************************)
(* The ping-pong program of src/examples/ping_pong.cpp on the runtime:    *)
(* PingPongManager manages PongActor then PingActor.  PingActor's Start   *)
(* handler sends Ping(1) to PongActor; PongActor replies Pong(n) to       *)
(* Ping(n); PingActor answers Pong(n) with Ping(n+1) until n reaches      *)
(* MaxN, then calls manager->terminate().                                  *)
(***************************************************************************)
EXTENDS Runtime

CONSTANTS PingA, PongA

PPHandles(a) == CASE a = PingA -> {"Start", "Pong"}
                  [] a = PongA -> {"Ping"}
                  [] OTHER -> {}

PPScript(a, k, n) ==
    CASE a = PingA /\ k = "Start" -> <<SendOp(PongA, "Ping", 1), WakeOp(PongA, 3, 0)>>
      [] a = PingA /\ k = "Pong"  -> IF n >= MaxN THEN <<TermOp(Mgr)>>
                                     ELSE <<SendOp(PongA, "Ping", n + 1)>>
      [] a = PongA /\ k = "Ping"  -> <<ReplyOp("Pong", n)>>
      [] OTHER -> <<>>

PPMembers == [g \in {} |-> <<>>]
PPManaged == <<PongA, PingA>>

\* The exchange completes: PingActor eventually handles Pong(MaxN), which
\* needs the Start sent by Manager::init before the threads exist, the
\* reply routed through reply_to, and every worker making progress.
PingPongCompletes ==
    <>(\E i \in DOMAIN msgs : /\ msgs[i].kind = "Pong" /\ msgs[i].n = MaxN
                              /\ msgs[i].st = "taken" /\ msgs[i].frees = 1)

\* PingActor's manager->terminate() ends the program: once the Manager has
\* been sent a Shutdown, every worker thread eventually exits (spec.md 4.4,
\* "Shutdown message handler", and scenario S1 "Manager terminates").
ShutdownTakesEffect ==
    (\E i \in DOMAIN msgs : msgs[i].kind = "Shutdown" /\ msgs[i].dest = Mgr)
        ~> (\A w \in Workers : pc[w] = "done")

\* Timer::wake_up_at(subscriber, interval) sleeps until the first multiple
\* of interval (in ms since midnight) strictly after the call: never zero,
\* never past a boundary, so an actor that re-arms it on every Timeout
\* wakes once per boundary.  Checked for every sleeping timer thread, at
\* every clock reading DoWake may see.
WakeAtNextBoundary ==
    \A i \in DOMAIN timers :
        LET w == timers[i]
            due == w.now + w.wait
        IN  /\ due > w.now /\ due % w.interval = 0
            /\ \A u \in (w.now + 1)..(due - 1) : u % w.interval # 0
=============================================================================

------------------------------ MODULE MCGroup ------------------------------
(***************************************************************************)
(* A Group G with members M1, M2 (added in that order) and a plain actor  *)
(* C, managed as <<C, G>> (spec.md scenario S3).  Members answer Work(n)  *)
(* with reply(Done(n)); M1's Start handler sends Work(1) to its sibling   *)
(* M2, which goes through the group's own mailbox.  The scripts differ in *)
(* what C does.                                                            *)
(***************************************************************************)
EXTENDS Runtime

CONSTANTS C, G, M1, M2

GMembers == [g \in {G} |-> <<M1, M2>>]
GManaged == <<C, G>>

GHandles(a) == CASE a = C -> {"Start", "Tick", "Done"}
                 [] a = M1 -> {"Start", "Work"}
                 [] a = M2 -> {"Work"}
                 [] OTHER -> {}

MemberScript(a, k, n) ==
    CASE a = M1 /\ k = "Start" -> <<SendOp(M2, "Work", 1)>>
      [] a \in {M1, M2} /\ k = "Work" -> <<ReplyOp("Done", n)>>
      [] OTHER -> <<>>

\* C's Start (run on the main thread by Manager::init) sends Work to both
\* members and a Tick to C.  On its own thread C then shuts the members
\* down synchronously through the group (what Actor::fast_terminate does
\* to a group) and terminates itself: its fast_send races with the group
\* thread, and the members' replies race with C's Shutdown.
GScript(a, k, n) ==
    IF a = C
    THEN CASE k = "Start" -> <<SendOp(M1, "Work", 0), SendOp(M2, "Work", 0),
                               SendOp(C, "Tick", 0)>>
           [] k = "Tick"  -> <<FastOp(G, "Shutdown", 0), TermOp(C)>>
           [] OTHER -> <<>>
    ELSE MemberScript(a, k, n)

\* C calls M1 synchronously (fast_send) from its own thread while M2 has
\* asynchronous work queued at the group.
GFastScript(a, k, n) ==
    IF a = C
    THEN CASE k = "Start" -> <<SendOp(M2, "Work", 0), SendOp(C, "Tick", 0)>>
           [] k = "Tick"  -> <<FastOp(M1, "Work", 0)>>
           [] OTHER -> <<>>
    ELSE MemberScript(a, k, n)

\* C terminates member M1 (m1->terminate()) and then sends Work to M2.
GTermScript(a, k, n) ==
    IF a = C
    THEN CASE k = "Start" -> <<TermOp(M1), SendOp(M2, "Work", 0)>>
           [] OTHER -> <<>>
    ELSE MemberScript(a, k, n)

\* C calls M1 synchronously from its own thread (its Tick handler, holding
\* C's mutex), while M1, running a forwarded Work on the group thread
\* (holding G's and M1's mutexes), calls C synchronously to report.
GCycleScript(a, k, n) ==
    CASE a = C /\ k = "Start" -> <<SendOp(M1, "Work", 0), SendOp(C, "Tick", 0)>>
      [] a = C /\ k = "Tick"  -> <<FastOp(M1, "Work", 1)>>
      [] a = M1 /\ k = "Work" /\ n = 0 -> <<FastOp(C, "Done", 0)>>
      [] OTHER -> <<>>
=============================================================================

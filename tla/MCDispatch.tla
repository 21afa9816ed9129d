----------------------------- MODULE MCDispatch -----------------------------
(* Message types of the runtime and of ping_pong.cpp: Start, Shutdown   *)
(* (id 5, Actor.cpp), Ping (100), Pong (101), and a type with a large id. *)
(* Start's id is fixed in actors/msg/Start.hpp, which the repository does *)
(* not contain; any id below 512 that no other type uses behaves alike.   *)
EXTENDS Dispatch

MCIds == [t \in Types |-> CASE t = "Start" -> 0
                            [] t = "Shutdown" -> 5
                            [] t = "Ping" -> 100
                            [] t = "Pong" -> 101
                            [] t = "Big" -> 600]

\* Sequences of up to four dispatches.
MCBound == Len(calls) <= 4
=============================================================================

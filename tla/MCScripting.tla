---------------------------- MODULE MCScripting -----------------------------
(* An instance of Scripting for TLC: two clients of one worker and one of   *)
(* another.                                                                 *)
EXTENDS Scripting, TLC

CONSTANTS c1, c2, c3, w1, w2, quick, endless, stubborn, broken

WorkerOf == c1 :> w1 @@ c2 :> w1 @@ c3 :> w2

Sent ==
  c1 :> [op : {"eval"}, script : {quick, endless, stubborn}] \cup [op : {"evalsha"}, script : {quick}]
  @@ c2 :> [op : {"eval"}, script : {quick}] \cup [op : {"evalsha", "flush"}, script : {NULL}]
           \cup [op : {"kill"}, script : {"all"}]
  @@ c3 :> [op : {"eval"}, script : {broken}] \cup [op : {"evalsha", "load", "kill"}, script : {quick}]
           \cup [op : {"flush"}, script : {NULL}]
=============================================================================

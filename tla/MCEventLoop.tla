----------------------------- MODULE MCEventLoop ----------------------------
(* Three tasks of two threads for TLC.                                      *)
EXTENDS EventLoop, TLC

CONSTANTS t1, t2, t3, th1, th2

TwoThreads == t1 :> th1 @@ t2 :> th1 @@ t3 :> th2
=============================================================================

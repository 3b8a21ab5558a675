----------------------------- MODULE MCSessions -----------------------------
(* Three connections of two workers, and a pattern that matches the channel.*)
EXTENDS Sessions, TLC

CONSTANTS c1, c2, c3, ch, pat

TwoWorkers == c1 :> 1 @@ c2 :> 2 @@ c3 :> 1

AllMatch == ch :> {pat}
=============================================================================

------------------------------- MODULE MCTimer ------------------------------
(* Milliseconds, and seconds of three of them.                               *)
(* The loops of timer_task_queue.cpp as they are written, for comparison.    *)
EXTENDS Timer

SomeDelays == {<<1, "ms", FALSE>>, <<2, "ms", TRUE>>, <<1, "s", FALSE>>}
Units == [u \in {"ms", "s"} |-> IF u = "ms" THEN 1 ELSE 3]

Swap(h, j, k) ==
  [q |-> [h.q EXCEPT ![j] = h.q[k], ![k] = h.q[j]],
   t |-> [h.t EXCEPT ![h.q[k]].index = j, ![h.q[j]].index = k]]

RECURSIVE LoopUp(_, _), LoopDown(_, _)

LoopUp(h, k) ==
  LET j == k \div 2
  IN  IF k <= 1 \/ When(h, j) <= When(h, k) THEN h
      ELSE LoopUp(Swap(h, j, k), j)

LoopDown(h, k) ==
  LET l == 2 * k
      j == IF l < Len(h.q) /\ When(h, l) > When(h, l + 1) THEN l + 1 ELSE l
  IN  IF l > Len(h.q) \/ When(h, k) <= When(h, j) THEN h
      ELSE LoopDown(Swap(h, j, k), j)

\* Arrays of tasks with any times, in order or not.
Heaps(n) ==
  {[q |-> [k \in 1..n |-> k], t |-> [k \in 1..n |-> [next |-> times[k], index |-> k]]] :
     times \in [1..n -> 1..3]}

\* FixUp and FixDown give what the loops give.
ASSUME LoopsAssumption ==
  \A n \in 0..6 : \A h \in Heaps(n) :
    /\ n > 0 => FixUp(h, n) = {LoopUp(h, n)}
    /\ FixDown(h, 1) = {LoopDown(h, 1)}
=============================================================================

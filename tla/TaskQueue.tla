------------------------------ MODULE TaskQueue -----------------------------
(***************************************************************************)
(* What ChannelService::AsyncIO promises: tasks posted by any thread run   *)
(* once each on the event loop, in the order they were posted.             *)
(***************************************************************************)
EXTENDS Sequences

CONSTANT Tasks

VARIABLES pending, ran

vars == <<pending, ran>>

Elements(s) == {s[i] : i \in DOMAIN s}

Init == pending = <<>> /\ ran = <<>>

Post(t) ==
  /\ t \notin Elements(pending) \cup Elements(ran)
  /\ pending' = Append(pending, t)
  /\ UNCHANGED ran

RunOne ==
  /\ pending # <<>>
  /\ ran' = Append(ran, Head(pending))
  /\ pending' = Tail(pending)

Next == RunOne \/ \E t \in Tasks : Post(t)

\* What is said of the steps, and that the posted tasks are run in the end.
Safety == Init /\ [][Next]_vars

Spec == Safety /\ WF_vars(RunOne)
=============================================================================

------------------------------ MODULE Contexts ------------------------------
(***************************************************************************)
(* Client connections (network.cpp, context.hpp) and the threads that      *)
(* serve them.  A connection belongs to one worker, which runs one handler *)
(* at a time; step[c] says where the handler of c is.                      *)
(*                                                                         *)
(* The read-write locks around the shared tables are taken as what         *)
(* SpinRWLock promises: a writer is one step that waits for the readers, a *)
(* reader is a step per element with the lock held.                        *)
(***************************************************************************)
EXTENDS Integers, Sequences, FiniteSets

CONSTANTS
  Clients,
  Worker,        \* Worker[c]: the thread that serves c
  NULL

VARIABLES
  m_clients,     \* table of contexts
  step,          \* "new": not connected; "closing", "closed", "gone": its end,
                 \* "idle": no handler runs; the rest: inside a handler
  server         \* "up" or "crashed"

contextVars == <<m_clients, step, server>>

ContextInit ==
  /\ m_clients = {}
  /\ step = [c \in Clients |-> "new"]
  /\ server = "up"

Resting == {"new", "gone", "closed", "idle"}

\* c's worker has no other handler under way.
Served(c) == \A d \in Clients \ {c} : Worker[d] = Worker[c] => step[d] \in Resting

Ready(c) == step[c] = "idle" /\ Served(c)

Goto(c, s) == step' = [step EXCEPT ![c] = s]

AddClientContext(c) ==
  /\ step[c] = "new" /\ Served(c)
  /\ m_clients' = m_clients \cup {c}
  /\ Goto(c, "idle")
  /\ UNCHANGED server

\* A closed channel leaves the table of the loop, with its handler.
DeleteChannel(c) ==
  /\ step[c] = "closed" /\ Served(c)
  /\ Goto(c, "gone")
  /\ UNCHANGED <<m_clients, server>>
=============================================================================

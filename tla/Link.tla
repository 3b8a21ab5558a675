-------------------------------- MODULE Link --------------------------------
(***************************************************************************)
(* The TCP connection between each slave and its master.  A connection has *)
(* two ends, closed one after the other; what the master writes is a       *)
(* stream the slave reads in order, which a broken connection truncates.   *)
(* A slave has one connection at a time: it reconnects once the master has *)
(* noticed that the previous one is gone.                                  *)
(*                                                                         *)
(* Log offsets count commands: every command of the log has length 1.      *)
(***************************************************************************)
EXTENDS Integers, Sequences

CONSTANTS
  Slaves,      \* instances configured with slaveof
  MasterKey,   \* server key of the master
  MaxCloses,   \* bound: connections that break or are given up
  MaxRestarts  \* bound: processes that die and start again

VARIABLES
  ends,        \* ends[s]: the ends that are open, of {"master", "slave"}
  request,     \* request[s]: the PSYNC s has sent, until the master reads it
  stream,      \* stream[s]: written by the master, not yet read by s
  strays,      \* strays[s]: the places of the log for which what the master has
               \* written last is not what its log has there (Sync)
  closes, restarts

connVars == <<ends, request, stream>>
linkVars == <<connVars, closes, restarts>>

PING == 0                   \* the command OnHeartbeat writes
FullResync(off) == [t |-> "FULLRESYNC", off |-> off]
Continue == [t |-> "CONTINUE"]
Snapshot(db) == [t |-> "SNAPSHOT", db |-> db]
Cmd(c) == [t |-> "CMD", cmd |-> c]
EOF == [t |-> "EOF"]

LinkInit ==
  /\ ends = [s \in Slaves |-> {}]
  /\ request = [s \in Slaves |-> <<>>]
  /\ stream = [s \in Slaves |-> <<>>]
  /\ strays = [s \in Slaves |-> {}]
  /\ closes = 0 /\ restarts = 0

Smaller(a, b) == IF a < b THEN a ELSE b

\* A log keeps at most `size' commands behind its end (swal_append).
Retain(start, end, size) == IF end - start >= size THEN end - size ELSE start

\* swal_replay reads from the ring cache: the process has one, of `size'
\* commands, which is said to begin at offset start.
FromCache(size, start, o) == size > 0 /\ o >= start

\* What the stream of s becomes when the master writes msgs to it.
Written(s, msgs) == IF "slave" \in ends[s] THEN stream[s] \o msgs ELSE stream[s]

\* The ends and streams after the master closes its end for the slaves in S:
\* what it has written before is still delivered.
MasterEndCloses(S) ==
  /\ ends' = [s \in Slaves |-> IF s \in S THEN ends[s] \ {"master"} ELSE ends[s]]
  /\ request' = [s \in Slaves |-> IF s \in S THEN <<>> ELSE request[s]]
  /\ stream' = [s \in Slaves |-> IF s \in S THEN Written(s, <<EOF>>) ELSE stream[s]]

\* The slave closes its end: it will read nothing more.
SlaveEndCloses(s) ==
  /\ ends' = [ends EXCEPT ![s] = @ \ {"slave"}]
  /\ stream' = [stream EXCEPT ![s] = <<>>]
  /\ UNCHANGED request

\* The connection breaks: what is in flight may be lost, both sides see it.
Break(s) ==
  /\ closes < MaxCloses
  /\ ends[s] = {"master", "slave"}
  /\ closes' = closes + 1
  /\ ends' = [ends EXCEPT ![s] = {"slave"}]
  /\ request' = [request EXCEPT ![s] = <<>>]
  /\ \E n \in 0..Len(stream[s]) :
       stream' = [stream EXCEPT ![s] = SubSeq(@, 1, n) \o <<EOF>>]
  /\ UNCHANGED restarts
=============================================================================

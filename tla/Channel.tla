------------------------------- MODULE Channel ------------------------------
(***************************************************************************)
(* The output side of a socket channel (channel.cpp): what is written goes *)
(* to the socket, or to m_outputBuffer when the socket is full, and the    *)
(* loop flushes the buffer when the socket can take more.  The callers are *)
(* replies, messages to subscribers (pubsub.cpp), and the master's stream  *)
(* and snapshot file to a slave (master.cpp).                              *)
(*                                                                         *)
(* Everything here runs on the channel's loop, one handler at a time; the  *)
(* peer reads, stops reading or goes away at any time.  Nothing in the     *)
(* program sets user_write_buffer_water_mark or async_write: they are 0    *)
(* and false here, and the flush timer is never armed.                     *)
(***************************************************************************)
EXTENDS Integers, Sequences, SequencesExt

CONSTANTS
  Sizes,        \* lengths of messages, in units
  SocketBuffer, \* units the socket holds
  Limit,        \* pubsub_client_output_buffer_limit
  FileSize,     \* units of a snapshot file
  MaxMessages   \* bound: messages written, replies included, after which
                \* nothing but replies to requests is written

ASSUME ChannelAssumption ==
  /\ Sizes \subseteq Nat \ {0}
  /\ SocketBuffer \in Nat \ {0} /\ Limit \in Nat \ {0}
  /\ FileSize \in Nat /\ MaxMessages \in Nat

Unlimited == -1

VARIABLES
  ch,           \* the Channel; role: what its peer is to the server
  wire,         \* units in the socket, not yet read by the peer
  peer,         \* "up", or "gone"
  got,          \* what the peer has read (history)
  accepted,     \* what writes have accepted (history)
  stranded,     \* detached with work pending, not enabled since (history)
  overflowed,   \* a message to a subscriber was refused (history)
  messages      \* counter of the bound

channelVars == <<ch, wire, peer, got, accepted, stranded, overflowed, messages>>

ChannelInit ==
  /\ ch = [role |-> "client", open |-> TRUE, output |-> <<>>, readable |-> TRUE, writable |-> FALSE,
           detached |-> FALSE, close_after_write |-> FALSE, file |-> <<>>,
           sending |-> FALSE, auto_disable |-> TRUE, max_size |-> Unlimited]
  /\ wire = <<>> /\ got = <<>> /\ accepted = <<>>
  /\ peer = "up"
  /\ stranded = FALSE /\ overflowed = FALSE
  /\ messages = 0

Prefix(s, n) == SubSeq(s, 1, n)
From(s, n) == SubSeq(s, n + 1, Len(s))

\* What write(2) and sendfile(2) take of n units: all that there is room for.
Room == SocketBuffer - Len(wire)
Taken(n, room) == IF n < room THEN n ELSE room

\* What an operation returns: the channel after it, the units it has put into
\* the socket, and whether it accepted what it was given.
Result(c, put, ok) == [ch |-> c, put |-> put, ok |-> ok]

EnableWriting(c) == [c EXCEPT !.writable = c.open]

\* DoClose(false): events, descriptor and file are gone, the buffer is kept.
DoClose(c) ==
  [c EXCEPT !.open = FALSE, !.readable = FALSE, !.writable = FALSE,
            !.sending = FALSE, !.file = <<>>]

\* (mutant of Close: what is buffered is dropped)
CloseNow(c) == DoClose(c)

\* Close: after the buffer is flushed.
Close(c) ==
  IF c.output # <<>> /\ c.open
  THEN [EnableWriting(c) EXCEPT !.close_after_write = TRUE]
  ELSE DoClose(c)

\* (mutant of DoFlush: only what fits as a whole is written)
DoFlushWhole(c) ==
  IF c.output = <<>> \/ (peer = "up" /\ Len(c.output) > Room) THEN Result(c, <<>>, TRUE)
  ELSE IF peer = "gone" THEN Result(DoClose(c), <<>>, TRUE)
  ELSE Result([c EXCEPT !.output = <<>>], c.output, TRUE)

\* DoFlush.  A short write enables nothing; an error closes the channel.
DoFlush(c) ==
  LET n == Taken(Len(c.output), Room)
  IN  IF c.output = <<>> \/ (peer = "up" /\ n = 0) THEN Result(c, <<>>, TRUE)
      ELSE IF peer = "gone" THEN Result(DoClose(c), <<>>, TRUE)
      ELSE Result([c EXCEPT !.output = From(@, n)], Prefix(c.output, n), TRUE)

Flush(c) == IF c.writable THEN Result(c, <<>>, FALSE) ELSE DoFlush(c)

\* (mutant of WriteNow: the rest of a short write waits for nothing)
WriteNowForgets(c, msg) ==
  LET n == Taken(Len(msg), Room)
  IN  IF c.sending THEN Result(c, <<>>, FALSE)
      ELSE IF c.output # <<>>
      THEN IF c.max_size > 0 /\ Len(c.output) + Len(msg) > c.max_size
           THEN Result(c, <<>>, FALSE)
           ELSE [Flush([c EXCEPT !.output = @ \o msg]) EXCEPT !.ok = TRUE]
      ELSE IF c.writable THEN Result([c EXCEPT !.output = msg], <<>>, TRUE)
      ELSE IF peer = "gone" THEN Result(DoClose(c), <<>>, TRUE)
      ELSE Result([c EXCEPT !.output = From(msg, n)], Prefix(msg, n), TRUE)

\* (mutant of WriteNow: buffered output does not go first)
WriteNowOvertakes(c, msg) ==
  LET n == Taken(Len(msg), Room)
  IN  IF c.sending THEN Result(c, <<>>, FALSE)
      ELSE IF peer = "gone" THEN Result(DoClose(c), <<>>, TRUE)
      ELSE LET d == [c EXCEPT !.output = @ \o From(msg, n)]
           IN  Result(IF d.output = <<>> THEN d ELSE EnableWriting(d), Prefix(msg, n), TRUE)

\* WriteNow: behind buffered output up to the limit, behind an enabled writable
\* event without one, or straight to the socket.
WriteNow(c, msg) ==
  LET n == Taken(Len(msg), Room)
      rest == [c EXCEPT !.output = From(msg, n)]
  IN  IF c.sending THEN Result(c, <<>>, FALSE)
      ELSE IF c.output # <<>>
      THEN IF c.max_size > 0 /\ Len(c.output) + Len(msg) > c.max_size
           THEN Result(c, <<>>, FALSE)
           ELSE [Flush([c EXCEPT !.output = @ \o msg]) EXCEPT !.ok = TRUE]
      ELSE IF c.writable THEN Result([c EXCEPT !.output = msg], <<>>, TRUE)
      ELSE IF peer = "gone" THEN Result(DoClose(c), <<>>, TRUE)
      ELSE Result(IF n < Len(msg) THEN EnableWriting(rest) ELSE rest, Prefix(msg, n), TRUE)

-----------------------------------------------------------------------------
(***************************************************************************)
(* The callers, on an open channel.                                        *)
(***************************************************************************)
Message(n) == [i \in 1..n |-> <<messages + 1, i>>]

\* The loop has something to do for the channel when the socket takes more.
Pending(c) == c.output # <<>> \/ c.sending \/ c.close_after_write

Takes(r, msg) ==
  /\ ch' = r.ch
  /\ wire' = wire \o r.put
  /\ accepted' = IF r.ok THEN accepted \o msg ELSE accepted
  /\ stranded' = (stranded /\ r.ch.open /\ ~r.ch.writable /\ Pending(r.ch))

Bounded == messages < MaxMessages
Numbered == messages' = messages + 1
Fresh == Bounded /\ Numbered /\ ch.open

\* async_write_message: a subscriber that cannot take a message is closed.
AsyncWriteMessage(n) ==
  /\ Fresh /\ ch.role = "subscriber"
  /\ LET r == WriteNow(ch, Message(n))
     IN  /\ Takes(IF r.ok THEN r ELSE [r EXCEPT !.ch = Close(@)], Message(n))
         /\ overflowed' = (overflowed \/ ~r.ok)
  /\ UNCHANGED <<peer, got>>

\* DetachFD: the loop no longer watches the socket.
DetachFD(c) ==
  IF c.open /\ ~c.detached
  THEN [c EXCEPT !.readable = FALSE, !.writable = FALSE, !.detached = TRUE]
  ELSE c

\* SYNC and PSYNC: the worker flushes the channel and lets it go ...
AddSlave ==
  LET r == Flush(ch)
      c == DetachFD(r.ch)
  IN  /\ ch' = IF r.ch.open THEN [c EXCEPT !.role = "moving"] ELSE r.ch
      /\ wire' = wire \o r.put
      /\ stranded' = (stranded \/ (r.ch.open /\ Pending(r.ch)))
      /\ UNCHANGED <<peer, got, accepted, overflowed, messages>>

\* ... and the replication thread takes it.
OnAddSlave ==
  /\ ch.open /\ ch.role = "moving"
  /\ ch' = [ch EXCEPT !.role = "slave", !.readable = TRUE, !.detached = FALSE,
                      !.auto_disable = FALSE]
  /\ UNCHANGED <<wire, peer, got, accepted, stranded, overflowed, messages>>

\* send_wal_toslave: the end of the log decides whether the event goes off by
\* itself once all is sent.
SendWAL(n, more) ==
  /\ Fresh /\ ch.role = "slave" /\ ~ch.sending
  /\ LET r == WriteNow(ch, Message(n))
         c == EnableWriting([r.ch EXCEPT !.auto_disable = ~more])
     IN  Takes([r EXCEPT !.ch = c], Message(n))
  /\ UNCHANGED <<peer, got, overflowed>>

\* SendFile, once the last file has been sent.
SendFile ==
  /\ Fresh /\ ch.role = "slave" /\ ~ch.sending
  /\ Takes(Result(EnableWriting([ch EXCEPT !.file = Message(FileSize), !.sending = TRUE]),
                  <<>>, TRUE), Message(FileSize))
  /\ UNCHANGED <<peer, got, overflowed>>

\* A handler closes the channel: QUIT, CLIENT KILL, an idle timeout, a slave
\* out of the log's window.
CloseChannel ==
  /\ ch.open /\ ~ch.close_after_write /\ ch.role # "moving"
  /\ ch' = Close(ch)
  /\ stranded' = FALSE
  /\ UNCHANGED <<wire, peer, got, accepted, overflowed, messages>>

\* A client that was blocked gets its reply, if it is owed one, and is
\* attached again; so is a client that was over its rate.
AttachFD(n) ==
  /\ ch.open /\ ch.detached /\ ch.role \in {"client", "subscriber"}
  /\ n > 0 => Bounded
  /\ messages' = IF n > 0 THEN messages + 1 ELSE messages
  /\ LET r == IF n > 0 THEN WriteNow(ch, Message(n)) ELSE Result(ch, <<>>, FALSE)
         c == IF r.ch.open THEN [r.ch EXCEPT !.readable = TRUE, !.detached = FALSE] ELSE r.ch
     IN  Takes([r EXCEPT !.ch = c], Message(n))
  /\ UNCHANGED <<peer, got, overflowed>>

-----------------------------------------------------------------------------
(***************************************************************************)
(* The loop.                                                               *)
(***************************************************************************)
\* OnWrite after DoFlush: an owed Close, then the file, as far as it goes;
\* ok if the handlers are told that the channel is writable.
AfterFlush(c, room) ==
  LET n == Taken(Len(c.file), room)
      sent == [c EXCEPT !.file = From(@, n), !.sending = n < Len(c.file)]
  IN  IF c.close_after_write THEN Result(Close(c), <<>>, FALSE)
      ELSE IF c.output # <<>> THEN Result(c, <<>>, FALSE)
      ELSE IF ~c.sending THEN Result(c, <<>>, TRUE)
      ELSE IF peer = "gone" THEN Result(Close(c), <<>>, FALSE)
      ELSE Result(sent, Prefix(c.file, n), ~sent.sending)

\* The end of OnWrite: the event goes off when nothing is left to write.
AutoDisable(c) ==
  [c EXCEPT !.writable = @ /\ ~(c.output = <<>> /\ c.auto_disable)]

Fires == ch.writable /\ (peer = "gone" \/ Room > 0)

\* The socket takes more, or reports an error: DoFlush, and the rest.
OnWrite ==
  /\ Fires
  /\ LET f == DoFlush(ch)
         w == AfterFlush(f.ch, Room - Len(f.put))
     IN  Takes(Result(IF w.ok THEN AutoDisable(w.ch) ELSE w.ch, f.put \o w.put, FALSE), <<>>)
  /\ UNCHANGED <<peer, got, overflowed, messages>>

\* Master::ChannelWritable, called by OnWrite, writes more of the log.
OnWriteSync(n, more) ==
  /\ Fires
  /\ Fresh /\ ch.role = "slave"
  /\ LET f == DoFlush(ch)
         w == AfterFlush(f.ch, Room - Len(f.put))
         r == WriteNow(w.ch, Message(n))
         c == EnableWriting([r.ch EXCEPT !.auto_disable = ~more])
     IN  /\ w.ok /\ w.ch.open
         /\ Takes(Result(AutoDisable(c), f.put \o w.put \o r.put, r.ok), Message(n))
  /\ UNCHANGED <<peer, got, overflowed>>

\* OnRead finds the end of the stream, or an error.
OnReadEOF ==
  /\ ch.readable /\ peer = "gone"
  /\ ch' = DoClose(ch)
  /\ stranded' = FALSE
  /\ UNCHANGED <<wire, peer, got, accepted, overflowed, messages>>

PeerReads ==
  /\ peer = "up" /\ wire # <<>>
  /\ got' = Append(got, Head(wire))
  /\ wire' = Tail(wire)
  /\ UNCHANGED <<ch, peer, accepted, stranded, overflowed, messages>>

PeerLeaves ==
  /\ peer = "up"
  /\ peer' = "gone"
  /\ UNCHANGED <<ch, wire, got, accepted, stranded, overflowed, messages>>

-----------------------------------------------------------------------------
\* What the loop does for the channel but reading: handlers of other
\* connections, tasks, timers and the writable event.
OutputNext ==
  \/ \E n \in Sizes : AsyncWriteMessage(n)
  \/ \E n \in Sizes, more \in BOOLEAN : SendWAL(n, more) \/ OnWriteSync(n, more)
  \/ \E n \in Sizes \cup {0} : AttachFD(n)
  \/ OnAddSlave \/ SendFile \/ CloseChannel
  \/ OnWrite \/ OnReadEOF

Loop == OnWrite \/ OnReadEOF
-----------------------------------------------------------------------------
(***************************************************************************)
(* Properties.                                                             *)
(***************************************************************************)
Units == (Nat \ {0}) \X (Nat \ {0})

ChannelTypeOK ==
  /\ ch.output \in Seq(Units) /\ ch.file \in Seq(Units)
  /\ wire \in Seq(Units) /\ got \in Seq(Units) /\ accepted \in Seq(Units)
  /\ {ch.open, ch.readable, ch.writable, ch.detached, ch.close_after_write,
      ch.sending, ch.auto_disable, stranded, overflowed} \subseteq BOOLEAN
  /\ ch.role \in {"client", "subscriber", "moving", "slave"}
  /\ ch.max_size = IF ch.role = "subscriber" THEN Limit ELSE Unlimited
  /\ Len(wire) <= SocketBuffer
  /\ ~ch.open => ~ch.readable /\ ~ch.writable /\ ~ch.sending
  /\ peer \in {"up", "gone"}
  /\ messages \in Nat

\* The peer gets what the channel accepted, whole and in order, whether it
\* went to the socket at once, through the buffer or from a file, and however
\* the writes were cut: what is sent, buffered and left of the file is what
\* was accepted; after a close, what is sent is a beginning of it.
Intact ==
  /\ IsPrefix(got \o wire, accepted)
  /\ ch.open => got \o wire \o ch.output \o ch.file = accepted

\* While output, a file or a close waits, the loop is told when the socket
\* takes more; unless the client was detached with it pending: the event is
\* not enabled again when the client is attached.
OutputWatched == ch.open /\ Pending(ch) /\ ~stranded => ch.writable

\* A channel that is closed while its peer is there has flushed its buffer.
CloseFlushes ==
  [][ch.open /\ ~ch'.open /\ peer = "up" => ch'.output = <<>>]_channelVars

\* A subscriber that missed a message will not go on without it: its channel
\* is closed, or will be once it is flushed.
GapCloses == overflowed => ch.close_after_write \/ ~ch.open

\* What is buffered is sent in the end if the peer reads, and so a close that
\* waits for it happens.
Drains == ch.open /\ Pending(ch) ~> ~ch.open \/ stranded \/ ~Pending(ch)
=============================================================================

-------------------------- MODULE ConnectionProofs --------------------------
(***************************************************************************)
(* Proofs about Channel and Connection, for any sizes of messages, socket, *)
(* limit and file, and any number of messages and requests: the flags of a *)
(* channel belong together (ChannelConsistent), what is accepted leaves    *)
(* whole and in order (Intact), a channel is closed only when its buffer   *)
(* is flushed (CloseFlushes), and requests are handled as they were sent,  *)
(* however the stream is cut (Framed).                                     *)
(***************************************************************************)
EXTENDS Connection, SequenceTheorems, FiniteSetTheorems, TLAPS

-----------------------------------------------------------------------------
(***************************************************************************)
(* Sequences.                                                              *)
(***************************************************************************)
\* What a piece of a sequence is.
Splits(s, n) == Prefix(s, n) \o From(s, n) = s

LEMMA Pieced ==
  ASSUME NEW S, NEW s \in Seq(S), NEW n \in 0..Len(s)
  PROVE  /\ Prefix(s, n) \in Seq(S) /\ From(s, n) \in Seq(S)
         /\ Len(Prefix(s, n)) = n /\ Len(From(s, n)) = Len(s) - n
         /\ \A i \in 1..n : Prefix(s, n)[i] = s[i]
         /\ \A i \in 1..(Len(s) - n) : From(s, n)[i] = s[n + i]
         /\ Splits(s, n)
<1>1. /\ Prefix(s, n) \in Seq(S) /\ From(s, n) \in Seq(S)
      /\ Len(Prefix(s, n)) = n /\ Len(From(s, n)) = Len(s) - n
  BY DEF Prefix, From
<1>2. /\ \A i \in 1..n : Prefix(s, n)[i] = s[i]
      /\ \A i \in 1..(Len(s) - n) : From(s, n)[i] = s[n + i]
  BY DEF Prefix, From
<1>3. Splits(s, n)
  <2>1. 1 \in 1..(Len(s) + 1) /\ n \in (1 - 1)..Len(s) /\ Len(s) \in n..Len(s)
    OBVIOUS
  <2>2. SubSeq(s, 1, n) \o SubSeq(s, n + 1, Len(s)) = SubSeq(s, 1, Len(s))
    BY <2>1, ConcatAdjacentSubSeq, Zenon
  <2>3. SubSeq(s, 1, Len(s)) = s
    BY SubSeqFull, Zenon
  <2> QED  BY <2>2, <2>3, Zenon DEF Prefix, From, Splits
<1> QED  BY <1>1, <1>2, <1>3

\* What is in front of something is a beginning of it.
LEMMA Beginning ==
  ASSUME NEW S, NEW s \in Seq(S), NEW t \in Seq(S)
  PROVE  IsPrefix(s, s \o t)
<1>1. /\ s \o t \in Seq(S) /\ Len(s \o t) = Len(s) + Len(t)
      /\ Len(s) \in Nat /\ Len(t) \in Nat
  BY ConcatProperties, LenProperties
<1>2. SubSeq(s, 1, Len(s)) = SubSeq(s \o t, 1, Len(s))
  <2>1. CASE Len(s) = 0
    BY <2>1, SubSeqEmpty
  <2>2. CASE Len(s) # 0
    BY <2>2, <1>1, SubSeqOfConcat1
  <2> QED  BY <2>1, <2>2
<1> QED  BY <1>1, <1>2 DEF IsPrefix

\* Concatenation is associative; a name for it, to be instantiated by.
Assoc(s, t, u) == (s \o t) \o u = s \o (t \o u)

LEMMA Associates ==
  ASSUME NEW S, NEW s \in Seq(S), NEW t \in Seq(S), NEW u \in Seq(S)
  PROVE  Assoc(s, t, u)
BY DEF Assoc

-----------------------------------------------------------------------------
(***************************************************************************)
(* The operations on a channel.                                            *)
(***************************************************************************)
Chan ==
  [role : {"client", "subscriber", "moving", "slave"}, open : BOOLEAN, output : Seq(Units),
   readable : BOOLEAN, writable : BOOLEAN, detached : BOOLEAN, close_after_write : BOOLEAN,
   file : Seq(Units), sending : BOOLEAN, auto_disable : BOOLEAN, max_size : {Limit, Unlimited}]

\* A channel as the code leaves it.
Fit(c) ==
  /\ c \in Chan
  /\ ~c.open => ~c.readable /\ ~c.writable /\ ~c.sending
  /\ ~c.sending => c.file = <<>>
  /\ c.max_size = IF c.role = "subscriber" THEN Limit ELSE Unlimited

Rest(c) == c.output \o c.file

Watched(c) == c.open /\ Pending(c) => c.writable

\* The open channel c becomes d when m is written to it and the units put go
\* into a socket with so much room.
Moves(c, d, put, m, room) ==
  /\ Fit(d)
  /\ put \in Seq(Units) /\ Len(put) <= room
  /\ \E rest \in Seq(Units) : put \o rest = Rest(c) \o m /\ (d.open => rest = Rest(d))
  /\ c.close_after_write => d.close_after_write
  /\ peer = "up" /\ ~d.open => d.output = <<>>

LEMMA RestType ==
  ASSUME NEW c, Fit(c)
  PROVE  /\ Rest(c) \in Seq(Units) /\ c.output \in Seq(Units) /\ c.file \in Seq(Units)
         /\ Rest(c) \o <<>> = Rest(c)
         /\ ~c.sending => Rest(c) = c.output
<1>1. c.output \in Seq(Units) /\ c.file \in Seq(Units)
  BY DEF Fit, Chan
<1>2. Rest(c) \in Seq(Units)
  BY <1>1, ConcatProperties DEF Rest
<1>3. c.output \o <<>> = c.output /\ Rest(c) \o <<>> = Rest(c)
  BY <1>1, <1>2, ConcatEmptySeq
<1> QED  BY <1>1, <1>2, <1>3 DEF Fit, Rest

\* A change that leaves output and file alone.
LEMMA SameMoves ==
  ASSUME NEW c, NEW d, NEW room \in Nat, Fit(c), Fit(d),
         d.output = c.output, d.open => d.file = c.file,
         c.close_after_write => d.close_after_write,
         peer = "up" /\ ~d.open => d.output = <<>>
  PROVE  Moves(c, d, <<>>, <<>>, room)
<1>1. Rest(c) \in Seq(Units) /\ Rest(c) \o <<>> = Rest(c)
  BY RestType
<1>2. <<>> \o Rest(c) = Rest(c)
  BY <1>1, ConcatEmptySeq
<1>3. d.open => Rest(c) = Rest(d)
  BY DEF Rest
<1>4. <<>> \in Seq(Units) /\ Len(<<>>) <= room
  BY EmptySeq
<1> QED  BY <1>1, <1>2, <1>3, <1>4, Zenon DEF Moves

\* One move after the other.
LEMMA MovesCompose ==
  ASSUME NEW c, NEW d, NEW e, NEW p, NEW q, NEW m, NEW l, NEW room \in Nat,
         Fit(c), d.open, m \in Seq(Units), l \in Seq(Units),
         Moves(c, d, p, m, room), Moves(d, e, q, l, room - Len(p))
  PROVE  Moves(c, e, p \o q, m \o l, room)
<1>1. Fit(d) /\ Fit(e) /\ p \in Seq(Units) /\ q \in Seq(Units) /\ Len(q) <= room - Len(p)
  BY DEF Moves
<1>2. PICK rest \in Seq(Units) : q \o rest = Rest(d) \o l /\ (e.open => rest = Rest(e))
  BY DEF Moves
<1>3. p \o Rest(d) = Rest(c) \o m
  BY DEF Moves
<1>4. Rest(c) \in Seq(Units) /\ Rest(d) \in Seq(Units)
  BY <1>1, RestType
<1>5. (p \o q) \o rest = Rest(c) \o (m \o l)
  <2>1. Assoc(p, q, rest) /\ Assoc(p, Rest(d), l) /\ Assoc(Rest(c), m, l)
    BY <1>1, <1>4, Associates, Zenon
  <2> QED  BY <1>2, <1>3, <2>1, Zenon DEF Assoc
<1>6. p \o q \in Seq(Units) /\ Len(p \o q) <= room
  <2>1. p \o q \in Seq(Units) /\ Len(p \o q) = Len(p) + Len(q) /\ Len(p) \in Nat /\ Len(q) \in Nat
    BY <1>1, ConcatProperties, LenProperties
  <2> QED  BY <1>1, <2>1
<1>7. c.close_after_write => e.close_after_write
  BY Zenon DEF Moves
<1>8. peer = "up" /\ ~e.open => e.output = <<>>
  BY Zenon DEF Moves
<1> QED  BY <1>1, <1>2, <1>5, <1>6, <1>7, <1>8, Zenon DEF Moves

LEMMA CloseFit ==
  ASSUME NEW c, Fit(c)
  PROVE  /\ Fit(DoClose(c)) /\ ~DoClose(c).open
         /\ DoClose(c).output = c.output /\ DoClose(c).close_after_write = c.close_after_write
         /\ Fit(EnableWriting(c)) /\ EnableWriting(c).writable = c.open
         /\ EnableWriting(c).open = c.open /\ EnableWriting(c).output = c.output
         /\ EnableWriting(c).file = c.file /\ EnableWriting(c).sending = c.sending
         /\ EnableWriting(c).close_after_write = c.close_after_write
BY EmptySeq DEF Fit, Chan, DoClose, EnableWriting

LEMMA CloseMoves ==
  ASSUME NEW c, NEW room \in Nat, Fit(c), c.open \/ peer # "up" \/ c.output = <<>>
  PROVE  /\ Moves(c, Close(c), <<>>, <<>>, room) /\ Watched(Close(c))
         /\ Close(c).close_after_write \/ ~Close(c).open
<1>1. CASE c.output # <<>> /\ c.open
  <2> DEFINE d == [EnableWriting(c) EXCEPT !.close_after_write = TRUE]
  <2>1. Close(c) = d
    BY <1>1 DEF Close
  <2>2. Fit(d) /\ d.open /\ d.writable /\ d.output = c.output /\ d.file = c.file
        /\ d.close_after_write
    BY <1>1 DEF Fit, Chan, EnableWriting
  <2> HIDE DEF d
  <2>3. Moves(c, d, <<>>, <<>>, room)
    BY <2>2, SameMoves
  <2> QED  BY <2>1, <2>2, <2>3 DEF Watched
<1>2. CASE ~(c.output # <<>> /\ c.open)
  <2> DEFINE d == DoClose(c)
  <2>1. Close(c) = d
    BY <1>2 DEF Close
  <2>2. Fit(d) /\ ~d.open /\ d.output = c.output /\ d.close_after_write = c.close_after_write
    BY CloseFit
  <2>3. peer = "up" /\ ~d.open => d.output = <<>>
    BY <1>2, <2>2
  <2> HIDE DEF d
  <2>4. Moves(c, d, <<>>, <<>>, room)
    BY <2>2, <2>3, SameMoves
  <2> QED  BY <2>1, <2>2, <2>4 DEF Watched
<1> QED  BY <1>1, <1>2

\* What is around a channel.
Socket ==
  /\ wire \in Seq(Units) /\ Len(wire) <= SocketBuffer
  /\ peer \in {"up", "gone"}

LEMMA RoomType ==
  ASSUME Socket
  PROVE  Room \in Nat
BY ChannelAssumption, LenProperties DEF Socket, Room

LEMMA TakenType ==
  ASSUME NEW n \in Nat, NEW room \in Nat
  PROVE  /\ Taken(n, room) \in 0..n /\ Taken(n, room) <= room
         /\ Taken(n, room) = 0 => n = 0 \/ room = 0
BY DEF Taken

\* DoFlush leaves the channel as it is, cuts its output, or closes it.
LEMMA DoFlushMoves ==
  ASSUME NEW c, Socket, Fit(c), c.open
  PROVE  LET r == DoFlush(c)
         IN  /\ Moves(c, r.ch, r.put, <<>>, Room)
             /\ r.ch.open => /\ r.ch.writable = c.writable /\ r.ch.sending = c.sending
                             /\ r.ch.close_after_write = c.close_after_write
                             /\ r.ch.role = c.role /\ r.ch.detached = c.detached
                             /\ r.ch.output # <<>> => c.output # <<>>
             /\ ~r.ch.open => peer = "gone" /\ r.ch.output # <<>> /\ r.put = <<>>
<1> DEFINE r == DoFlush(c)
           n == Taken(Len(c.output), Room)
<1>1. Room \in Nat /\ c.output \in Seq(Units) /\ Len(c.output) \in Nat
  BY RoomType, RestType, LenProperties
<1>2. n \in 0..Len(c.output) /\ n <= Room
  BY <1>1, TakenType
<1>3. CASE c.output = <<>> \/ (peer = "up" /\ n = 0)
  <2>1. r.ch = c /\ r.put = <<>>
    BY <1>3 DEF DoFlush, Result
  <2>2. Moves(c, c, <<>>, <<>>, Room)
    BY <1>1, SameMoves
  <2> QED  BY <2>1, <2>2
<1>4. CASE ~(c.output = <<>> \/ (peer = "up" /\ n = 0)) /\ peer = "gone"
  <2>1. r.ch = DoClose(c) /\ r.put = <<>>
    BY <1>4 DEF DoFlush, Result
  <2> DEFINE d == DoClose(c)
  <2>2. Fit(d) /\ ~d.open /\ d.output = c.output /\ d.close_after_write = c.close_after_write
    BY CloseFit
  <2> HIDE DEF d
  <2>3. Moves(c, d, <<>>, <<>>, Room)
    BY <1>1, <1>4, <2>2, SameMoves
  <2> QED  BY <1>4, <2>1, <2>2, <2>3 DEF d
<1>5. CASE ~(c.output = <<>> \/ (peer = "up" /\ n = 0)) /\ peer # "gone"
  <2> DEFINE o == From(c.output, n)
             p == Prefix(c.output, n)
             d == [c EXCEPT !.output = o]
  <2>1. r.ch = d /\ r.put = p
    BY <1>5 DEF DoFlush, Result
  <2> HIDE DEF n
  <2>2. o \in Seq(Units) /\ p \in Seq(Units) /\ Len(p) = n /\ p \o o = c.output
    <3>1. /\ Prefix(c.output, n) \in Seq(Units) /\ From(c.output, n) \in Seq(Units)
          /\ Len(Prefix(c.output, n)) = n /\ Splits(c.output, n)
      BY <1>1, <1>2, Pieced
    <3> QED  BY <3>1, Zenon DEF Splits
  <2> HIDE DEF o, p
  <2>3. /\ Fit(d) /\ d.open = c.open /\ d.output = o /\ d.file = c.file
        /\ d.writable = c.writable /\ d.sending = c.sending
        /\ d.close_after_write = c.close_after_write
        /\ d.role = c.role /\ d.detached = c.detached
    BY <2>2 DEF Fit, Chan
  <2> HIDE DEF d
  <2>4. p \o Rest(d) = Rest(c) \o <<>>
    <3>1. Assoc(p, o, c.file)
      BY <2>2, RestType, Associates, Zenon
    <3>2. Rest(c) \o <<>> = Rest(c)
      BY RestType
    <3> QED  BY <2>2, <2>3, <3>1, <3>2, Zenon DEF Rest, Assoc
  <2>5. Rest(d) \in Seq(Units)
    BY <2>3, RestType
  <2>6. Len(p) <= Room
    BY <1>2, <2>2
  <2>7. Moves(c, d, p, <<>>, Room)
    BY <2>2, <2>3, <2>4, <2>5, <2>6, Zenon DEF Moves
  <2> QED  BY <1>5, <2>1, <2>3, <2>7
<1> QED  BY <1>3, <1>4, <1>5

\* A message goes behind what is buffered.
LEMMA BufferMoves ==
  ASSUME NEW c, NEW msg, NEW room \in Nat, Fit(c), ~c.sending, msg \in Seq(Units),
         c.open
  PROVE  LET d == [c EXCEPT !.output = c.output \o msg]
         IN  /\ Moves(c, d, <<>>, msg, room)
             /\ d.output = c.output \o msg /\ d.file = c.file /\ d.open /\ d.writable = c.writable
             /\ d.role = c.role /\ d.detached = c.detached /\ d.sending = c.sending
             /\ d.close_after_write = c.close_after_write
<1> DEFINE o == c.output \o msg
           d == [c EXCEPT !.output = o]
<1>1. c.output \in Seq(Units) /\ c.file = <<>> /\ Rest(c) = c.output
  BY RestType DEF Fit
<1>2. o \in Seq(Units)
  BY <1>1, ConcatProperties
<1>3. <<>> \o o = o /\ o \o <<>> = o
  BY <1>2, ConcatEmptySeq
<1> HIDE DEF o
<1>4. /\ Fit(d) /\ d.output = o /\ d.file = c.file /\ d.open = c.open /\ d.writable = c.writable
      /\ d.role = c.role /\ d.detached = c.detached /\ d.sending = c.sending
      /\ d.close_after_write = c.close_after_write
  BY <1>2 DEF Fit, Chan
<1> HIDE DEF d
<1>5. Rest(d) = o
  BY <1>1, <1>3, <1>4, Zenon DEF Rest
<1>6. <<>> \o Rest(d) = Rest(c) \o msg
  BY <1>1, <1>3, <1>5, Zenon DEF o
<1>7. <<>> \in Seq(Units) /\ Len(<<>>) <= room
  BY EmptySeq
<1>8. Moves(c, d, <<>>, msg, room)
  BY <1>2, <1>4, <1>5, <1>6, <1>7, Zenon DEF Moves
<1> QED  BY <1>4, <1>8 DEF d, o

\* WriteNow: what is refused changes nothing; what is accepted is sent, buffered
\* and watched for, or lost with the connection.
Writes(c, r, msg) ==
  /\ Moves(c, r.ch, r.put, IF r.ok THEN msg ELSE <<>>, Room)
  /\ r.ok \in BOOLEAN
  /\ ~r.ok => r.ch = c
  /\ Watched(c) => Watched(r.ch)
  /\ r.ch.open => r.ch.role = c.role /\ r.ch.detached = c.detached

LEMMA WriteNowMoves ==
  ASSUME NEW c, NEW msg, Socket, Fit(c), c.open, msg \in Seq(Units)
  PROVE  Writes(c, WriteNow(c, msg), msg)
<1> DEFINE r == WriteNow(c, msg)
           n == Taken(Len(msg), Room)
           d == [c EXCEPT !.output = c.output \o msg]
           full == c.max_size > 0 /\ Len(c.output) + Len(msg) > c.max_size
<1>1. Room \in Nat /\ Len(msg) \in Nat /\ c.output \in Seq(Units) /\ <<>> \in Seq(Units)
  BY RoomType, RestType, LenProperties, EmptySeq
<1>2. n \in 0..Len(msg) /\ n <= Room
  BY <1>1, TakenType
<1>3. Moves(c, c, <<>>, <<>>, Room)
  BY <1>1, SameMoves
<1>4. ~c.sending => /\ Moves(c, d, <<>>, msg, Room)
                    /\ d.output = c.output \o msg /\ d.open /\ d.writable = c.writable
                    /\ d.role = c.role /\ d.detached = c.detached /\ d.sending = c.sending
                    /\ d.close_after_write = c.close_after_write
  BY <1>1, BufferMoves
<1>5. CASE c.sending \/ (c.output # <<>> /\ full)
  <2> SUFFICES Writes(c, r, msg)
    OBVIOUS
  <2>1. r.ch = c /\ r.put = <<>> /\ r.ok = FALSE
    BY <1>5 DEF WriteNow, Result
  <2> HIDE DEF r
  <2> QED  BY <1>3, <2>1 DEF Writes
<1>6. CASE ~c.sending /\ c.output # <<>> /\ ~full
  <2> DEFINE f == Flush(d)
  <2> SUFFICES Writes(c, r, msg)
    OBVIOUS
  <2>1. r = [f EXCEPT !.ok = TRUE]
    BY <1>6 DEF WriteNow
  <2>2. CASE c.writable
    <3>1. f = Result(d, <<>>, FALSE)
      BY <1>4, <1>6, <2>2, Zenon DEF Flush
    <3>2. r.ch = d /\ r.put = <<>> /\ r.ok = TRUE
      <4> HIDE DEF d, r, f
      <4> QED  BY <2>1, <3>1 DEF Result
    <3> HIDE DEF d, r
    <3> QED  BY <1>4, <1>6, <2>2, <3>2 DEF Watched, Writes
  <2>3. CASE ~c.writable
    <3>1. f = DoFlush(d)
      BY <1>4, <1>6, <2>3, Zenon DEF Flush
    <3>2. r.ch = DoFlush(d).ch /\ r.put = DoFlush(d).put /\ r.ok = TRUE
      BY <2>1, <3>1 DEF DoFlush, Result
    <3> HIDE DEF d, r, n
    <3>3. Fit(d) /\ d.open
      BY <1>4, <1>6 DEF Moves
    <3>4. /\ Moves(d, r.ch, r.put, <<>>, Room)
          /\ r.ch.open => r.ch.role = d.role /\ r.ch.detached = d.detached
      BY <3>2, <3>3, DoFlushMoves
    <3>5. Room - Len(<<>>) = Room
      BY <1>1
    <3>6. Moves(d, r.ch, r.put, <<>>, Room - Len(<<>>))
      BY <3>4, <3>5
    <3>7. Moves(c, r.ch, <<>> \o r.put, msg \o <<>>, Room)
      BY <1>1, <1>4, <1>6, <3>3, <3>6, MovesCompose
    <3>8. <<>> \o r.put = r.put /\ msg \o <<>> = msg
      BY <3>4, ConcatEmptySeq DEF Moves
    <3>9. Moves(c, r.ch, r.put, msg, Room)
      BY <3>7, <3>8, Zenon
    <3>10. ~Watched(c)
      BY <1>6, <2>3 DEF Watched, Pending
    <3> QED  BY <1>4, <1>6, <3>2, <3>4, <3>9, <3>10 DEF Writes
  <2> QED  BY <2>2, <2>3
<1>7. CASE ~c.sending /\ c.output = <<>> /\ c.writable
  <2> SUFFICES Writes(c, r, msg)
    OBVIOUS
  <2>1. r.ch = [c EXCEPT !.output = msg] /\ r.put = <<>> /\ r.ok = TRUE
    BY <1>7 DEF WriteNow, Result
  <2>2. c.output \o msg = msg
    BY <1>7, ConcatEmptySeq
  <2>3. r.ch = d
    BY <2>1, <2>2, Zenon
  <2> HIDE DEF d, r
  <2> QED  BY <1>4, <1>7, <2>1, <2>3 DEF Watched, Writes
<1>8. CASE ~c.sending /\ c.output = <<>> /\ ~c.writable /\ peer = "gone"
  <2> SUFFICES Writes(c, r, msg)
    OBVIOUS
  <2>1. r.ch = DoClose(c) /\ r.put = <<>> /\ r.ok = TRUE
    BY <1>8 DEF WriteNow, Result
  <2> DEFINE e == DoClose(c)
  <2>2. /\ Fit(e) /\ ~e.open /\ e.output = c.output
        /\ e.close_after_write = c.close_after_write
    BY CloseFit
  <2> HIDE DEF e
  <2>3. Rest(c) \o msg \in Seq(Units) /\ <<>> \o (Rest(c) \o msg) = Rest(c) \o msg
    BY RestType, ConcatProperties, ConcatEmptySeq
  <2>4. Len(<<>>) <= Room
    BY <1>1
  <2>5. Moves(c, e, <<>>, msg, Room)
    BY <1>1, <1>8, <2>2, <2>3, <2>4, Zenon DEF Moves
  <2> HIDE DEF r
  <2> QED  BY <2>1, <2>2, <2>5 DEF e, Watched, Writes
<1>9. CASE ~c.sending /\ c.output = <<>> /\ ~c.writable /\ peer # "gone"
  <2> SUFFICES Writes(c, r, msg)
    OBVIOUS
  <2> DEFINE o == From(msg, n)
             p == Prefix(msg, n)
             b == [c EXCEPT !.output = o]
             e == IF n < Len(msg) THEN EnableWriting(b) ELSE b
  <2>1. r.ch = e /\ r.put = p /\ r.ok = TRUE
    BY <1>9 DEF WriteNow, Result
  <2> HIDE DEF n
  <2>2. o \in Seq(Units) /\ p \in Seq(Units) /\ Len(p) = n /\ p \o o = msg
        /\ Len(o) = Len(msg) - n
    <3>1. /\ p \in Seq(Units) /\ o \in Seq(Units) /\ Len(p) = n /\ Splits(msg, n)
          /\ Len(o) = Len(msg) - n
      BY <1>1, <1>2, Pieced
    <3> QED  BY <3>1, Zenon DEF Splits
  <2> HIDE DEF o, p
  <2>3. /\ Fit(b) /\ b.open /\ b.output = o /\ b.file = <<>> /\ ~b.sending
        /\ b.close_after_write = c.close_after_write /\ b.role = c.role
        /\ b.detached = c.detached
    BY <1>9, <2>2 DEF Fit, Chan
  <2> HIDE DEF b
  <2>4. /\ Fit(e) /\ e.open /\ e.output = o /\ e.file = <<>> /\ ~e.sending
        /\ e.close_after_write = c.close_after_write /\ e.role = c.role
        /\ e.detached = c.detached
        /\ n < Len(msg) => e.writable
    BY <2>3 DEF Fit, Chan, EnableWriting
  <2> HIDE DEF e
  <2>5. Rest(e) = o
    BY <2>2, <2>4, ConcatEmptySeq DEF Rest
  <2>6. Rest(c) \o msg = msg
    <3>1. Rest(c) = <<>>
      BY <1>9, RestType
    <3> QED  BY <3>1, ConcatEmptySeq
  <2>7. Len(p) <= Room
    BY <1>2, <2>2
  <2>8. Moves(c, e, p, msg, Room)
    BY <2>2, <2>4, <2>5, <2>6, <2>7, Zenon DEF Moves
  <2>9. Watched(c) => Watched(e)
    <3>1. ~(n < Len(msg)) => o = <<>>
      BY <1>1, <1>2, <2>2, EmptySeq
    <3> QED  BY <1>9, <2>4, <3>1 DEF Watched, Pending
  <2> HIDE DEF r
  <2> QED  BY <2>1, <2>4, <2>8, <2>9 DEF Writes
<1> QED  BY <1>5, <1>6, <1>7, <1>8, <1>9

\* What OnWrite does behind DoFlush; when the handlers are told that the
\* channel is writable, nothing is left to write.
Wrote(c, w, put, room) ==
  /\ Moves(c, w.ch, put, <<>>, room)
  /\ Watched(w.ch)
  /\ w.ok \in BOOLEAN
  /\ w.ok => /\ w.ch.open /\ w.ch.writable /\ ~w.ch.sending /\ ~w.ch.close_after_write
             /\ w.ch.output = <<>>

LEMMA AfterFlushMoves ==
  ASSUME NEW c, NEW room \in Nat, Fit(c), c.open, c.writable
  PROVE  /\ Wrote(c, AfterFlush(c, room), AfterFlush(c, room).put, room)
         /\ AfterFlush(c, room).put \in Seq(Units)
<1> DEFINE w == AfterFlush(c, room)
           n == Taken(Len(c.file), room)
           o == From(c.file, n)
           p == Prefix(c.file, n)
           more == n < Len(c.file)
           d == [c EXCEPT !.file = o, !.sending = more]
<1> SUFFICES Wrote(c, w, w.put, room) /\ w.put \in Seq(Units)
  OBVIOUS
<1>1. Moves(c, c, <<>>, <<>>, room) /\ <<>> \in Seq(Units)
  BY SameMoves, EmptySeq
<1>2. Moves(c, Close(c), <<>>, <<>>, room) /\ Watched(Close(c))
  BY CloseMoves
<1>3. CASE c.close_after_write
  <2>1. w.ch = Close(c) /\ w.put = <<>> /\ w.ok = FALSE
    BY <1>3 DEF AfterFlush, Result
  <2> HIDE DEF w
  <2> QED  BY <1>1, <1>2, <2>1 DEF Wrote
<1>4. CASE ~c.close_after_write /\ c.output # <<>>
  <2>1. w.ch = c /\ w.put = <<>> /\ w.ok = FALSE
    BY <1>4 DEF AfterFlush, Result
  <2> HIDE DEF w
  <2> QED  BY <1>1, <2>1 DEF Wrote, Watched
<1>5. CASE ~c.close_after_write /\ c.output = <<>> /\ ~c.sending
  <2>1. w.ch = c /\ w.put = <<>> /\ w.ok = TRUE
    BY <1>5 DEF AfterFlush, Result
  <2> HIDE DEF w
  <2> QED  BY <1>1, <1>5, <2>1 DEF Wrote, Watched
<1>6. CASE ~c.close_after_write /\ c.output = <<>> /\ c.sending /\ peer = "gone"
  <2>1. w.ch = Close(c) /\ w.put = <<>> /\ w.ok = FALSE
    BY <1>6 DEF AfterFlush, Result
  <2> HIDE DEF w
  <2> QED  BY <1>1, <1>2, <2>1 DEF Wrote
<1>7. CASE ~c.close_after_write /\ c.output = <<>> /\ c.sending /\ peer # "gone"
  <2>1. w.ch = d /\ w.put = p /\ w.ok = ~d.sending
    BY <1>7 DEF AfterFlush, Result
  <2> HIDE DEF w, d
  <2>2. c.file \in Seq(Units) /\ Len(c.file) \in Nat
    BY RestType, LenProperties
  <2>3. n \in 0..Len(c.file) /\ n <= room
    BY <2>2, TakenType
  <2> HIDE DEF n
  <2>4. o \in Seq(Units) /\ p \in Seq(Units) /\ Len(p) = n /\ p \o o = c.file
        /\ Len(o) = Len(c.file) - n
    <3> DEFINE s == c.file
    <3>1. s \in Seq(Units) /\ n \in 0..Len(s)
      BY <2>2, <2>3
    <3> HIDE DEF s
    <3>2. /\ Prefix(s, n) \in Seq(Units) /\ From(s, n) \in Seq(Units)
          /\ Len(Prefix(s, n)) = n /\ Len(From(s, n)) = Len(s) - n
          /\ Splits(s, n)
      BY <3>1, Pieced
    <3> QED  BY <3>2, Zenon DEF Splits, s
  <2>5. more \in BOOLEAN /\ (~more => o = <<>>)
    BY <2>2, <2>3, <2>4, EmptySeq
  <2> HIDE DEF o, p, more
  <2>6. /\ Fit(d) /\ d.open /\ d.output = <<>> /\ d.file = o /\ d.writable
        /\ d.close_after_write = c.close_after_write
        /\ d.sending \in BOOLEAN
    BY <1>7, <2>4, <2>5 DEF Fit, Chan, d
  <2>8. Rest(d) = o /\ Rest(c) = c.file /\ Rest(c) \o <<>> = Rest(c)
    BY <1>7, <2>4, <2>2, <2>6, ConcatEmptySeq DEF Rest
  <2>9. p \o Rest(d) = Rest(c) \o <<>>
    BY <2>4, <2>8, Zenon
  <2>10. Len(p) <= room
    BY <2>3, <2>4
  <2>11. Moves(c, d, p, <<>>, room)
    BY <2>4, <2>6, <2>8, <2>9, <2>10, Zenon DEF Moves
  <2> QED  BY <1>7, <2>1, <2>4, <2>6, <2>11 DEF Wrote, Watched
<1> QED  BY <1>3, <1>4, <1>5, <1>6, <1>7

LEMMA OnWriteMoves ==
  ASSUME NEW c, NEW f, NEW w, Socket, Fit(c), c.open, c.writable, f = DoFlush(c),
         w = AfterFlush(f.ch, Room - Len(f.put))
  PROVE  /\ Wrote(c, w, f.put \o w.put, Room)
         /\ f.put \in Seq(Units) /\ w.put \in Seq(Units)
<1>1. /\ Moves(c, f.ch, f.put, <<>>, Room)
      /\ f.ch.open => f.ch.writable = c.writable
      /\ ~f.ch.open => peer = "gone" /\ f.ch.output # <<>> /\ f.put = <<>>
  BY DoFlushMoves
<1>2. /\ Fit(f.ch) /\ f.put \in Seq(Units) /\ Len(f.put) \in Nat /\ Len(f.put) <= Room
      /\ Room \in Nat /\ <<>> \in Seq(Units)
  BY <1>1, RoomType, LenProperties, EmptySeq DEF Moves
<1>3. CASE f.ch.open
  <2> DEFINE room == Room - Len(f.put)
  <2>1. room \in Nat
    BY <1>2
  <2>2. w = AfterFlush(f.ch, room)
    OBVIOUS
  <2> HIDE DEF room
  <2>3. Wrote(f.ch, w, w.put, room) /\ w.put \in Seq(Units)
    BY <1>1, <1>2, <1>3, <2>1, <2>2, AfterFlushMoves
  <2>4. Moves(f.ch, w.ch, w.put, <<>>, Room - Len(f.put))
    BY <2>3, Zenon DEF Wrote, room
  <2>5. Moves(c, w.ch, f.put \o w.put, <<>> \o <<>>, Room)
    BY <1>1, <1>2, <1>3, <2>4, MovesCompose, ZenonT(40)
  <2>6. <<>> \o <<>> = <<>>
    BY <1>2, ConcatEmptySeq
  <2> QED  BY <1>2, <2>3, <2>5, <2>6, Zenon DEF Wrote
<1>4. CASE ~f.ch.open
  <2> DEFINE d == w.ch
  <2>1. w.put = <<>> /\ w.ok = FALSE /\ (d = f.ch \/ d = DoClose(f.ch))
    BY <1>1, <1>4 DEF AfterFlush, Close, Result
  <2>2. /\ Fit(d) /\ ~d.open /\ d.close_after_write = f.ch.close_after_write
    BY <1>2, <1>4, <2>1, CloseFit
  <2>3. c.close_after_write => d.close_after_write
    BY <1>1, <2>2 DEF Moves
  <2> HIDE DEF d
  <2>4. Rest(c) \in Seq(Units) /\ Rest(c) \o <<>> = Rest(c) /\ <<>> \o Rest(c) = Rest(c)
    BY RestType, ConcatEmptySeq
  <2>5. Len(<<>>) <= Room
    BY <1>2
  <2>6. Moves(c, d, <<>>, <<>>, Room)
    BY <1>1, <1>2, <1>4, <2>2, <2>3, <2>4, <2>5, Zenon DEF Moves
  <2>7. f.put \o w.put = <<>>
    BY <1>1, <1>2, <1>4, <2>1, ConcatEmptySeq
  <2> QED  BY <1>2, <2>1, <2>2, <2>6, <2>7 DEF d, Wrote, Watched
<1> QED  BY <1>3, <1>4
-----------------------------------------------------------------------------
(***************************************************************************)
(* The channel's part of the invariant, and its actions.                   *)
(***************************************************************************)
CInv ==
  /\ Fit(ch) /\ Socket
  /\ got \in Seq(Units) /\ accepted \in Seq(Units)
  /\ stranded \in BOOLEAN /\ overflowed \in BOOLEAN /\ messages \in Nat
  /\ OutputWatched /\ GapCloses /\ Intact

CNext ==
  /\ CInv'
  /\ ch.open /\ ~ch'.open /\ peer = "up" => ch'.output = <<>>

\* A move of the channel, with what it did to the socket and the histories.
LEMMA MoveSteps ==
  ASSUME NEW put, NEW m, CInv, ch.open, m \in Seq(Units), Moves(ch, ch', put, m, Room),
         wire' = wire \o put, accepted' = accepted \o m, peer' = peer, got' = got,
         stranded' \in BOOLEAN, ~stranded' => Watched(ch'),
         overflowed' \in BOOLEAN, overflowed' => overflowed \/ ch'.close_after_write \/ ~ch'.open,
         messages' \in Nat
  PROVE  CNext
<1>1. /\ Fit(ch) /\ Fit(ch') /\ got \in Seq(Units) /\ wire \in Seq(Units) /\ accepted \in Seq(Units)
      /\ put \in Seq(Units) /\ Len(put) <= Room /\ Len(wire) \in Nat /\ Len(put) \in Nat
  BY LenProperties DEF CInv, Moves, Socket
<1>2. PICK rest \in Seq(Units) : put \o rest = Rest(ch) \o m /\ (ch'.open => rest = Rest(ch'))
  BY DEF Moves
<1>3. wire' \in Seq(Units) /\ accepted' \in Seq(Units) /\ Len(wire') <= SocketBuffer
  <2>1. wire \o put \in Seq(Units) /\ Len(wire \o put) = Len(wire) + Len(put)
        /\ accepted \o m \in Seq(Units)
    BY <1>1, ConcatProperties
  <2> QED  BY <1>1, <2>1, ChannelAssumption DEF Room
<1>4. Socket'
  BY <1>3 DEF Socket, CInv
<1>5. OutputWatched'
  BY DEF OutputWatched, Watched
<1>6. GapCloses'
  <2>1. ch.close_after_write => ch'.close_after_write
    BY DEF Moves
  <2> QED  BY <2>1 DEF GapCloses, CInv
<1> DEFINE g == got \o wire
<1>7. g \in Seq(Units) /\ Rest(ch) \in Seq(Units) /\ ch.output \in Seq(Units) /\ ch.file \in Seq(Units)
      /\ g \o Rest(ch) \in Seq(Units) /\ g \o put \in Seq(Units)
  <2>1. g \in Seq(Units)
    BY <1>1, ConcatProperties
  <2>2. Rest(ch) \in Seq(Units) /\ ch.output \in Seq(Units) /\ ch.file \in Seq(Units)
    BY <1>1, RestType
  <2> QED  BY <1>1, <2>1, <2>2, ConcatProperties
<1>8. (g \o ch.output) \o ch.file = accepted
  BY DEF CInv, Intact
<1> HIDE DEF g
<1>9. accepted' = (g \o put) \o rest
  <2>1. Assoc(g, ch.output, ch.file) /\ Assoc(g, Rest(ch), m) /\ Assoc(g, put, rest)
    BY <1>1, <1>7, Associates, Zenon
  <2> QED  BY <1>2, <1>8, <2>1, Zenon DEF Assoc, Rest
<1>10. g \o put = got' \o wire'
  <2>1. Assoc(got, wire, put)
    BY <1>1, Associates, Zenon
  <2> QED  BY <2>1, Zenon DEF Assoc, g
<1>11. IsPrefix(got' \o wire', accepted')
  <2>1. IsPrefix(g \o put, (g \o put) \o rest)
    BY <1>7, Beginning, Zenon
  <2> QED  BY <1>9, <1>10, <2>1, Zenon
<1>12. ch'.open => got' \o wire' \o ch'.output \o ch'.file = accepted'
  <2>1. SUFFICES ASSUME ch'.open PROVE ((g \o put) \o ch'.output) \o ch'.file = (g \o put) \o rest
    BY <1>9, <1>10, Zenon
  <2>2. ch'.output \in Seq(Units) /\ ch'.file \in Seq(Units)
    BY <1>1, RestType
  <2>3. Assoc(g \o put, ch'.output, ch'.file)
    BY <1>7, <2>2, Associates, Zenon
  <2> QED  BY <1>2, <2>1, <2>3, Zenon DEF Assoc, Rest
<1>13. Intact'
  BY <1>11, <1>12, Zenon DEF Intact
<1>14. ch.open /\ ~ch'.open /\ peer = "up" => ch'.output = <<>>
  BY DEF Moves
<1>15. CInv'
  BY <1>1, <1>3, <1>4, <1>5, <1>6, <1>13 DEF CInv
<1> QED  BY <1>14, <1>15, Zenon DEF CNext

LEMMA CFacts ==
  ASSUME CInv
  PROVE  /\ Fit(ch) /\ Socket /\ Room \in Nat /\ messages \in Nat /\ stranded \in BOOLEAN
         /\ overflowed \in BOOLEAN /\ <<>> \in Seq(Units)
         /\ wire \o <<>> = wire /\ accepted \o <<>> = accepted
         /\ stranded \/ Watched(ch)
         /\ \A n \in Nat : Message(n) \in Seq(Units)
<1>1. Fit(ch) /\ Socket /\ messages \in Nat /\ stranded \in BOOLEAN /\ overflowed \in BOOLEAN
      /\ wire \in Seq(Units) /\ accepted \in Seq(Units)
  BY DEF CInv, Socket
<1>2. Room \in Nat
  BY <1>1, RoomType
<1>3. <<>> \in Seq(Units) /\ wire \o <<>> = wire /\ accepted \o <<>> = accepted
  BY <1>1, EmptySeq, ConcatEmptySeq
<1>4. stranded \/ Watched(ch)
  BY <1>1 DEF CInv, OutputWatched, Watched
<1>5. \A n \in Nat : Message(n) \in Seq(Units)
  <2>1. ASSUME NEW n \in Nat PROVE Message(n) \in Seq(Units)
    <3>1. \A i \in 1..n : <<messages + 1, i>> \in Units
      BY <1>1 DEF Units
    <3> QED  BY <3>1, IsASeq DEF Message
  <2> QED  BY <2>1
<1> QED  BY <1>1, <1>2, <1>3, <1>4, <1>5

LEMMA TakesSteps ==
  ASSUME NEW r, NEW msg, CInv, ch.open, msg \in Seq(Units), Takes(r, msg),
         Moves(ch, r.ch, r.put, IF r.ok THEN msg ELSE <<>>, Room),
         r.ok \in BOOLEAN, Watched(ch) => Watched(r.ch),
         peer' = peer, got' = got, messages' \in Nat,
         overflowed' \in BOOLEAN, overflowed' => overflowed \/ r.ch.close_after_write \/ ~r.ch.open
  PROVE  CNext
<1> DEFINE m == IF r.ok THEN msg ELSE <<>>
<1>1. ch' = r.ch /\ wire' = wire \o r.put /\ accepted' = IF r.ok THEN accepted \o msg ELSE accepted
  BY DEF Takes
<1>2. accepted' = accepted \o m
  BY <1>1, CFacts
<1>3. m \in Seq(Units)
  BY CFacts
<1>4. stranded' = (stranded /\ r.ch.open /\ ~r.ch.writable /\ Pending(r.ch))
  BY DEF Takes
<1>5. stranded' \in BOOLEAN
  BY <1>4
<1>6. ~stranded' => Watched(ch')
  BY <1>1, <1>4, CFacts DEF Watched
<1> HIDE DEF m
<1>7. Moves(ch, ch', r.put, m, Room)
  BY <1>1 DEF m
<1> QED  BY <1>1, <1>2, <1>3, <1>5, <1>6, <1>7, MoveSteps

\* A result whose channel is changed further.
LEMMA ResultOf ==
  ASSUME NEW c, NEW msg, NEW r, r = WriteNow(c, msg), NEW d
  PROVE  /\ [r EXCEPT !.ch = d].ch = d
         /\ [r EXCEPT !.ch = d].put = r.put /\ [r EXCEPT !.ch = d].ok = r.ok
<1>1. \E x, y, z : r = [ch |-> x, put |-> y, ok |-> z]
  <2>1. CASE c.sending
    BY <2>1 DEF WriteNow, Result
  <2>2. CASE ~c.sending /\ c.output # <<>>
    <3> DEFINE f == Flush([c EXCEPT !.output = c.output \o msg])
    <3>1. r = Result(c, <<>>, FALSE) \/ r = [f EXCEPT !.ok = TRUE]
      BY <2>2 DEF WriteNow
    <3>2. \E x, y, z : f = [ch |-> x, put |-> y, ok |-> z]
      BY DEF Flush, DoFlush, Result
    <3> HIDE DEF f
    <3> QED  BY <3>1, <3>2 DEF Result
  <2>3. CASE ~c.sending /\ c.output = <<>>
    <3>1. CASE c.writable
      BY <2>3, <3>1 DEF WriteNow, Result
    <3>2. CASE ~c.writable /\ peer = "gone"
      BY <2>3, <3>2 DEF WriteNow, Result
    <3>3. CASE ~c.writable /\ peer # "gone"
      BY <2>3, <3>3 DEF WriteNow, Result
    <3> QED  BY <3>1, <3>2, <3>3
  <2> QED  BY <2>1, <2>2, <2>3
<1> QED  BY <1>1

\* A move and a change of flags, or the end of a closed channel.
LEMMA MovesOn ==
  ASSUME NEW c, NEW d, NEW e, NEW p, NEW m, NEW room,
         Moves(c, d, p, m, room), Fit(e), e.output = d.output,
         e.open => d.open /\ e.file = d.file,
         d.close_after_write => e.close_after_write,
         peer = "up" /\ ~e.open => e.output = <<>>
  PROVE  Moves(c, e, p, m, room)
<1>1. PICK rest \in Seq(Units) : p \o rest = Rest(c) \o m /\ (d.open => rest = Rest(d))
  BY DEF Moves
<1>2. e.open => Rest(e) = Rest(d)
  BY DEF Rest
<1>3. p \in Seq(Units) /\ Len(p) <= room /\ (c.close_after_write => d.close_after_write)
  BY DEF Moves
<1> QED  BY <1>1, <1>2, <1>3, Zenon DEF Moves

LEMMA ClosesMoves ==
  ASSUME NEW c, NEW d, NEW p, NEW m, NEW room \in Nat, Fit(c), m \in Seq(Units),
         Moves(c, d, p, m, room)
  PROVE  /\ Moves(c, Close(d), p, m, room) /\ Watched(Close(d))
         /\ Close(d).close_after_write \/ ~Close(d).open
<1>1. Fit(d) /\ (peer = "up" /\ ~d.open => d.output = <<>>) /\ p \in Seq(Units) /\ Len(p) \in Nat
      /\ Len(p) <= room
  BY LenProperties DEF Moves
<1> DEFINE left == room - Len(p)
<1>2. left \in Nat
  BY <1>1
<1> HIDE DEF left
<1>3. /\ Moves(d, Close(d), <<>>, <<>>, left) /\ Watched(Close(d))
      /\ Close(d).close_after_write \/ ~Close(d).open
  BY <1>1, <1>2, CloseMoves
<1>4. CASE d.open
  <2>1. <<>> \in Seq(Units) /\ p \o <<>> = p /\ m \o <<>> = m
    BY <1>1, EmptySeq, ConcatEmptySeq
  <2>2. Moves(d, Close(d), <<>>, <<>>, room - Len(p))
    BY <1>3, Zenon DEF left
  <2>3. Moves(c, Close(d), p \o <<>>, m \o <<>>, room)
    BY <1>4, <2>1, <2>2, MovesCompose
  <2> QED  BY <1>3, <2>1, <2>3, Zenon
<1>5. CASE ~d.open
  <2> DEFINE e == DoClose(d)
  <2>1. Close(d) = e
    BY <1>5 DEF Close
  <2>2. /\ Fit(e) /\ ~e.open /\ e.output = d.output
        /\ e.close_after_write = d.close_after_write
    BY <1>1, CloseFit
  <2> HIDE DEF e
  <2>3. Moves(c, e, p, m, room)
    BY <1>1, <1>5, <2>2, MovesOn
  <2> QED  BY <1>3, <2>1, <2>3
<1> QED  BY <1>4, <1>5

LEMMA AsyncWriteMessageSteps ==
  ASSUME CInv, NEW n \in Nat, AsyncWriteMessage(n)
  PROVE  CNext
<1> DEFINE msg == Message(n)
           r == WriteNow(ch, msg)
           q == IF r.ok THEN r ELSE [r EXCEPT !.ch = Close(r.ch)]
<1>1. /\ ch.open /\ messages' = messages + 1 /\ Takes(q, msg) /\ peer' = peer /\ got' = got
      /\ overflowed' = (overflowed \/ ~r.ok)
  BY DEF AsyncWriteMessage, Fresh, Numbered
<1>2. /\ Fit(ch) /\ Socket /\ Room \in Nat /\ messages \in Nat /\ overflowed \in BOOLEAN
      /\ msg \in Seq(Units) /\ <<>> \in Seq(Units)
  BY CFacts
<1> HIDE DEF msg
<1>3. Writes(ch, r, msg)
  BY <1>1, <1>2, WriteNowMoves
<1>4. /\ [r EXCEPT !.ch = Close(r.ch)].ch = Close(r.ch)
      /\ [r EXCEPT !.ch = Close(r.ch)].put = r.put /\ [r EXCEPT !.ch = Close(r.ch)].ok = r.ok
  BY ResultOf
<1> DEFINE m == IF r.ok THEN msg ELSE <<>>
<1>5. Moves(ch, r.ch, r.put, m, Room) /\ r.ok \in BOOLEAN
      /\ (Watched(ch) => Watched(r.ch))
  BY <1>3 DEF Writes
<1>6. m \in Seq(Units)
  BY <1>2
<1> HIDE DEF r, m
<1>7. /\ Moves(ch, Close(r.ch), r.put, m, Room) /\ Watched(Close(r.ch))
      /\ Close(r.ch).close_after_write \/ ~Close(r.ch).open
  BY <1>2, <1>5, <1>6, ClosesMoves
<1>8. /\ q.put = r.put /\ q.ok = r.ok
      /\ r.ok => q.ch = r.ch
      /\ ~r.ok => q.ch = Close(r.ch)
  BY <1>4
<1> HIDE DEF q
<1>9. /\ Moves(ch, q.ch, q.put, IF q.ok THEN msg ELSE <<>>, Room) /\ q.ok \in BOOLEAN
      /\ (Watched(ch) => Watched(q.ch))
  BY <1>5, <1>7, <1>8 DEF m
<1>10. /\ overflowed' \in BOOLEAN
       /\ overflowed' => overflowed \/ q.ch.close_after_write \/ ~q.ch.open
       /\ messages' \in Nat
  BY <1>1, <1>2, <1>5, <1>7, <1>8
<1> QED  BY <1>1, <1>2, <1>9, <1>10, TakesSteps

\* The flags that Moves and Watched do not look at.
Alike(c, d) ==
  /\ c.open = d.open /\ c.output = d.output /\ c.file = d.file /\ c.writable = d.writable
  /\ c.sending = d.sending /\ c.close_after_write = d.close_after_write

LEMMA AlikeMoves ==
  ASSUME NEW b, NEW c, NEW d, NEW p, NEW m, NEW room, Alike(b, c), Moves(b, d, p, m, room)
  PROVE  Moves(c, d, p, m, room) /\ (Watched(c) => Watched(b))
BY DEF Alike, Moves, Rest, Watched, Pending

LEMMA RepliesSteps ==
  ASSUME CInv, ch.open, NEW c, NEW n \in Nat, Fit(c), Alike(c, ch), Replies(c, n)
  PROVE  CNext
<1> DEFINE msg == Message(n)
           r == WriteNow(c, msg)
<1>1. /\ messages' = messages + 1 /\ Takes(r, msg) /\ peer' = peer /\ got' = got
      /\ overflowed' = overflowed
  BY DEF Replies, Numbered
<1>2. Socket /\ messages \in Nat /\ overflowed \in BOOLEAN /\ msg \in Seq(Units)
  BY CFacts
<1> HIDE DEF msg
<1>3. c.open
  BY DEF Alike
<1>4. Writes(c, r, msg)
  BY <1>2, <1>3, WriteNowMoves
<1> HIDE DEF r
<1>5. /\ Moves(c, r.ch, r.put, IF r.ok THEN msg ELSE <<>>, Room) /\ r.ok \in BOOLEAN
      /\ (Watched(c) => Watched(r.ch))
  BY <1>4 DEF Writes
<1>6. /\ Moves(ch, r.ch, r.put, IF r.ok THEN msg ELSE <<>>, Room)
      /\ (Watched(ch) => Watched(c))
  BY <1>5, AlikeMoves
<1>7. messages' \in Nat
  BY <1>1, <1>2
<1> QED  BY <1>1, <1>2, <1>5, <1>6, <1>7, TakesSteps

LEMMA UnknownCommandSteps ==
  ASSUME CInv, ch.open, NEW n \in Nat, UnknownCommand(n)
  PROVE  CNext
<1> DEFINE msg == Message(n)
           r == WriteNow(ch, msg)
           q == [r EXCEPT !.ch = Close(r.ch)]
           m == IF r.ok THEN msg ELSE <<>>
<1>1. /\ messages' = messages + 1 /\ Takes(q, msg) /\ peer' = peer /\ got' = got
      /\ overflowed' = overflowed
  BY DEF UnknownCommand, Numbered
<1>2. /\ Fit(ch) /\ Socket /\ Room \in Nat /\ messages \in Nat /\ overflowed \in BOOLEAN
      /\ msg \in Seq(Units) /\ <<>> \in Seq(Units)
  BY CFacts
<1> HIDE DEF msg
<1>3. Writes(ch, r, msg)
  BY <1>2, WriteNowMoves
<1>4. q.ch = Close(r.ch) /\ q.put = r.put /\ q.ok = r.ok
  BY ResultOf
<1>5. Moves(ch, r.ch, r.put, m, Room) /\ r.ok \in BOOLEAN
  BY <1>3 DEF Writes
<1>6. m \in Seq(Units)
  BY <1>2
<1> HIDE DEF r, m, q
<1>7. Moves(ch, Close(r.ch), r.put, m, Room) /\ Watched(Close(r.ch))
  BY <1>2, <1>5, <1>6, ClosesMoves
<1>8. /\ Moves(ch, q.ch, q.put, IF q.ok THEN msg ELSE <<>>, Room) /\ q.ok \in BOOLEAN
      /\ Watched(q.ch)
  BY <1>4, <1>5, <1>7 DEF m
<1>9. messages' \in Nat
  BY <1>1, <1>2
<1> QED  BY <1>1, <1>2, <1>8, <1>9, TakesSteps

\* Steps that only change the channel.
LEMMA FlagSteps ==
  ASSUME CInv, ch.open, Moves(ch, ch', <<>>, <<>>, Room),
         UNCHANGED <<wire, peer, got, accepted, overflowed, messages>>,
         stranded' \in BOOLEAN, ~stranded' => Watched(ch')
  PROVE  CNext
<1>1. wire' = wire \o <<>> /\ accepted' = accepted \o <<>> /\ <<>> \in Seq(Units)
      /\ overflowed' \in BOOLEAN /\ messages' \in Nat
  BY CFacts
<1> QED  BY <1>1, MoveSteps

LEMMA CloseSteps ==
  ASSUME CInv, ch.open, ch' = Close(ch), stranded' = FALSE,
         UNCHANGED <<wire, peer, got, accepted, overflowed, messages>>
  PROVE  CNext
<1>1. Fit(ch) /\ Room \in Nat
  BY CFacts
<1>2. Moves(ch, Close(ch), <<>>, <<>>, Room) /\ Watched(Close(ch))
  BY <1>1, CloseMoves
<1> QED  BY <1>2, FlagSteps

LEMMA OnReadEOFSteps ==
  ASSUME CInv, OnReadEOF
  PROVE  CNext
<1>1. Fit(ch) /\ Room \in Nat
  BY CFacts
<1>2. /\ ch' = DoClose(ch) /\ peer = "gone" /\ stranded' = FALSE /\ ch.open
      /\ UNCHANGED <<wire, peer, got, accepted, overflowed, messages>>
  BY <1>1 DEF OnReadEOF, Fit
<1>3. /\ Fit(ch') /\ ~ch'.open /\ ch'.output = ch.output
      /\ ch'.close_after_write = ch.close_after_write
  BY <1>1, <1>2, CloseFit
<1>4. Moves(ch, ch', <<>>, <<>>, Room)
  BY <1>1, <1>2, <1>3, SameMoves
<1>5. Watched(ch')
  BY <1>3 DEF Watched
<1> QED  BY <1>2, <1>4, <1>5, FlagSteps

LEMMA BlockSteps ==
  ASSUME CInv, ch.open, Block
  PROVE  CNext
<1>1. Fit(ch) /\ Room \in Nat /\ stranded \in BOOLEAN /\ (stranded \/ Watched(ch))
  BY CFacts
<1>2. /\ ch' = DetachFD(ch) /\ stranded' = (stranded \/ (~ch.detached /\ Pending(ch)))
      /\ UNCHANGED <<wire, peer, got, accepted, overflowed, messages>>
  BY DEF Block
<1>3. /\ Fit(ch') /\ ch'.open /\ ch'.output = ch.output /\ ch'.file = ch.file
      /\ ch'.close_after_write = ch.close_after_write /\ ch'.sending = ch.sending
      /\ ch.detached => ch' = ch
  BY <1>1, <1>2 DEF DetachFD, Fit, Chan
<1>4. Moves(ch, ch', <<>>, <<>>, Room)
  BY <1>1, <1>3, SameMoves
<1>5. ~stranded' => Watched(ch')
  BY <1>1, <1>2, <1>3 DEF Watched, Pending
<1>6. stranded' \in BOOLEAN
  BY <1>2
<1> QED  BY <1>2, <1>4, <1>5, <1>6, FlagSteps

LEMMA OnAddSlaveSteps ==
  ASSUME CInv, OnAddSlave
  PROVE  CNext
<1>1. Fit(ch) /\ Room \in Nat /\ stranded \in BOOLEAN /\ (stranded \/ Watched(ch))
  BY CFacts
<1>2. /\ ch.open /\ stranded' = stranded
      /\ UNCHANGED <<wire, peer, got, accepted, overflowed, messages>>
  BY DEF OnAddSlave
<1>3. /\ Fit(ch') /\ Alike(ch', ch)
  BY <1>1 DEF OnAddSlave, Fit, Chan, Alike
<1>4. Moves(ch, ch', <<>>, <<>>, Room)
  BY <1>1, <1>2, <1>3, SameMoves DEF Alike
<1>5. ~stranded' => Watched(ch')
  BY <1>1, <1>2, <1>3 DEF Watched, Pending, Alike
<1> QED  BY <1>1, <1>2, <1>4, <1>5, FlagSteps

LEMMA AddSlaveSteps ==
  ASSUME CInv, ch.open, ch.role = "client", AddSlave
  PROVE  CNext
<1> DEFINE r == Flush(ch)
<1>1. /\ Fit(ch) /\ Room \in Nat /\ Socket /\ stranded \in BOOLEAN /\ overflowed \in BOOLEAN
      /\ messages \in Nat /\ <<>> \in Seq(Units)
      /\ accepted \o <<>> = accepted
  BY CFacts
<1>2. /\ Moves(ch, r.ch, r.put, <<>>, Room)
      /\ r.ch.open => r.ch.role = ch.role
  <2>1. CASE ch.writable
    <3>1. r.ch = ch /\ r.put = <<>>
      BY <2>1 DEF Flush, Result
    <3> QED  BY <1>1, <3>1, SameMoves
  <2>2. CASE ~ch.writable
    <3>1. r = DoFlush(ch)
      BY <2>2 DEF Flush
    <3> QED  BY <1>1, <3>1, DoFlushMoves
  <2> QED  BY <2>1, <2>2
<1>3. /\ ch' = IF r.ch.open THEN [DetachFD(r.ch) EXCEPT !.role = "moving"] ELSE r.ch
      /\ wire' = wire \o r.put
      /\ stranded' = (stranded \/ (r.ch.open /\ Pending(r.ch)))
      /\ UNCHANGED <<peer, got, accepted, overflowed, messages>>
  BY DEF AddSlave
<1> HIDE DEF r
<1>4. Fit(r.ch)
  BY <1>2 DEF Moves
<1>5. CASE r.ch.open
  <2>1. /\ Fit(ch') /\ ch'.open /\ ch'.output = r.ch.output /\ ch'.file = r.ch.file
        /\ ch'.close_after_write = r.ch.close_after_write /\ ch'.sending = r.ch.sending
    BY <1>2, <1>3, <1>4, <1>5 DEF DetachFD, Fit, Chan
  <2>2. Moves(ch, ch', r.put, <<>>, Room)
    BY <1>2, <1>5, <2>1, MovesOn
  <2>3. ~stranded' => Watched(ch')
    BY <1>3, <1>5, <2>1 DEF Watched, Pending
  <2>4. stranded' \in BOOLEAN
    BY <1>3
  <2> QED  BY <1>1, <1>3, <2>2, <2>3, <2>4, MoveSteps
<1>6. CASE ~r.ch.open
  <2>1. ch' = r.ch /\ stranded' = stranded
    BY <1>1, <1>3, <1>6
  <2>2. Watched(ch')
    BY <1>6, <2>1 DEF Watched
  <2> QED  BY <1>1, <1>2, <1>3, <2>1, <2>2, MoveSteps
<1> QED  BY <1>5, <1>6

LEMMA SendWALSteps ==
  ASSUME CInv, NEW n \in Nat, NEW more \in BOOLEAN, SendWAL(n, more)
  PROVE  CNext
<1> DEFINE msg == Message(n)
           r == WriteNow(ch, msg)
           b == [r.ch EXCEPT !.auto_disable = ~more]
           d == EnableWriting(b)
           q == [r EXCEPT !.ch = d]
<1>1. /\ ch.open /\ messages' = messages + 1 /\ Takes(q, msg) /\ peer' = peer /\ got' = got
      /\ overflowed' = overflowed
  BY DEF SendWAL, Fresh, Numbered
<1>2. Fit(ch) /\ Socket /\ messages \in Nat /\ overflowed \in BOOLEAN /\ msg \in Seq(Units)
  BY CFacts
<1> HIDE DEF msg
<1>3. Writes(ch, r, msg)
  BY <1>1, <1>2, WriteNowMoves
<1>4. q.ch = d /\ q.put = r.put /\ q.ok = r.ok
  BY ResultOf
<1> HIDE DEF r, q
<1>5. Moves(ch, r.ch, r.put, IF r.ok THEN msg ELSE <<>>, Room) /\ r.ok \in BOOLEAN
  BY <1>3 DEF Writes
<1>6. Fit(r.ch) /\ (peer = "up" /\ ~r.ch.open => r.ch.output = <<>>)
  BY <1>5 DEF Moves
<1>7. /\ Fit(b) /\ b.open = r.ch.open /\ b.output = r.ch.output /\ b.file = r.ch.file
      /\ b.close_after_write = r.ch.close_after_write
  BY <1>6 DEF Fit, Chan
<1> HIDE DEF b
<1>8. /\ Fit(d) /\ d.open = r.ch.open /\ d.output = r.ch.output /\ d.file = r.ch.file
      /\ d.close_after_write = r.ch.close_after_write /\ d.writable = d.open
  BY <1>7, CloseFit
<1> HIDE DEF d
<1>9. Moves(ch, d, r.put, IF r.ok THEN msg ELSE <<>>, Room)
  BY <1>5, <1>6, <1>8, MovesOn
<1>10. /\ Moves(ch, q.ch, q.put, IF q.ok THEN msg ELSE <<>>, Room) /\ q.ok \in BOOLEAN
       /\ Watched(q.ch)
  BY <1>4, <1>5, <1>8, <1>9 DEF Watched
<1>11. messages' \in Nat
  BY <1>1, <1>2
<1> QED  BY <1>1, <1>2, <1>10, <1>11, TakesSteps

LEMMA SendFileSteps ==
  ASSUME CInv, SendFile
  PROVE  CNext
<1> DEFINE msg == Message(FileSize)
           b == [ch EXCEPT !.file = msg, !.sending = TRUE]
           d == EnableWriting(b)
           q == Result(d, <<>>, TRUE)
<1>1. /\ ch.open /\ ~ch.sending /\ messages' = messages + 1 /\ Takes(q, msg)
      /\ peer' = peer /\ got' = got /\ overflowed' = overflowed
  BY DEF SendFile, Fresh, Numbered
<1>2. /\ Fit(ch) /\ Room \in Nat /\ messages \in Nat /\ overflowed \in BOOLEAN
      /\ msg \in Seq(Units) /\ <<>> \in Seq(Units)
  BY CFacts, ChannelAssumption
<1> HIDE DEF msg
<1>3. q.ch = d /\ q.put = <<>> /\ q.ok = TRUE
  BY DEF Result
<1> HIDE DEF q
<1>4. /\ Fit(b) /\ b.open /\ b.output = ch.output /\ b.file = msg
      /\ b.close_after_write = ch.close_after_write
  BY <1>1, <1>2 DEF Fit, Chan
<1> HIDE DEF b
<1>5. /\ Fit(d) /\ d.open /\ d.output = ch.output /\ d.file = msg
      /\ d.close_after_write = ch.close_after_write /\ d.writable
  BY <1>4, CloseFit
<1> HIDE DEF d
<1>6. Rest(ch) = ch.output
  BY <1>1, <1>2, RestType
<1>7. Rest(d) = Rest(ch) \o msg /\ Rest(d) \in Seq(Units)
  BY <1>5, <1>6, RestType, Zenon DEF Rest
<1>8. <<>> \o Rest(d) = Rest(d) /\ Len(<<>>) <= Room
  BY <1>2, <1>7, ConcatEmptySeq
<1>9. Moves(ch, d, <<>>, msg, Room)
  BY <1>2, <1>5, <1>7, <1>8, Zenon DEF Moves
<1>10. /\ Moves(ch, q.ch, q.put, IF q.ok THEN msg ELSE <<>>, Room) /\ q.ok \in BOOLEAN
       /\ Watched(q.ch)
  BY <1>3, <1>5, <1>9 DEF Watched
<1>11. messages' \in Nat
  BY <1>1, <1>2
<1> QED  BY <1>1, <1>2, <1>10, <1>11, TakesSteps

LEMMA AttachFDSteps ==
  ASSUME CInv, NEW n \in Nat, AttachFD(n)
  PROVE  CNext
<1> DEFINE msg == Message(n)
           r == IF n > 0 THEN WriteNow(ch, msg) ELSE Result(ch, <<>>, FALSE)
           d == IF r.ch.open THEN [r.ch EXCEPT !.readable = TRUE, !.detached = FALSE] ELSE r.ch
           q == [r EXCEPT !.ch = d]
<1>1. /\ ch.open /\ messages' = (IF n > 0 THEN messages + 1 ELSE messages) /\ Takes(q, msg)
      /\ peer' = peer /\ got' = got /\ overflowed' = overflowed
  BY DEF AttachFD
<1>2. /\ Fit(ch) /\ Socket /\ Room \in Nat /\ messages \in Nat /\ overflowed \in BOOLEAN
      /\ msg \in Seq(Units)
  BY CFacts
<1> HIDE DEF msg
<1>3. /\ Moves(ch, r.ch, r.put, IF r.ok THEN msg ELSE <<>>, Room) /\ r.ok \in BOOLEAN
      /\ (Watched(ch) => Watched(r.ch))
      /\ q.ch = d /\ q.put = r.put /\ q.ok = r.ok
  <2>1. CASE n > 0
    <3> DEFINE w == WriteNow(ch, msg)
    <3>1. r = w
      BY <2>1
    <3>2. Writes(ch, w, msg)
      BY <1>1, <1>2, WriteNowMoves
    <3>3. ASSUME NEW e PROVE [w EXCEPT !.ch = e].ch = e /\ [w EXCEPT !.ch = e].put = w.put
                             /\ [w EXCEPT !.ch = e].ok = w.ok
      BY ResultOf
    <3>4. q.ch = d /\ q.put = r.put /\ q.ok = r.ok
      <4> HIDE DEF r, d, w
      <4> QED  BY <3>1, <3>3
    <3> HIDE DEF w, r, d, q
    <3> QED  BY <3>1, <3>2, <3>4 DEF Writes
  <2>2. CASE ~(n > 0)
    <3>1. r = Result(ch, <<>>, FALSE)
      BY <2>2
    <3>2. Moves(ch, ch, <<>>, <<>>, Room)
      BY <1>1, <1>2, SameMoves
    <3> HIDE DEF r, d
    <3> QED  BY <3>1, <3>2 DEF Result
  <2> QED  BY <2>1, <2>2
<1> HIDE DEF r, q
<1>4. Fit(r.ch) /\ (peer = "up" /\ ~r.ch.open => r.ch.output = <<>>)
  BY <1>3 DEF Moves
<1>5. Fit(d) /\ Alike(d, r.ch)
  BY <1>4 DEF Fit, Chan, Alike
<1> HIDE DEF d
<1>6. Moves(ch, d, r.put, IF r.ok THEN msg ELSE <<>>, Room)
  BY <1>3, <1>4, <1>5, MovesOn DEF Alike
<1>7. /\ Moves(ch, q.ch, q.put, IF q.ok THEN msg ELSE <<>>, Room) /\ q.ok \in BOOLEAN
      /\ (Watched(ch) => Watched(q.ch))
  BY <1>3, <1>5, <1>6 DEF Watched, Pending, Alike
<1>8. messages' \in Nat
  BY <1>1, <1>2
<1> QED  BY <1>1, <1>2, <1>7, <1>8, TakesSteps

LEMMA OnWriteSteps ==
  ASSUME CInv, OnWrite
  PROVE  CNext
<1> DEFINE f == DoFlush(ch)
           w == AfterFlush(f.ch, Room - Len(f.put))
           d == IF w.ok THEN AutoDisable(w.ch) ELSE w.ch
           p == f.put \o w.put
           q == Result(d, p, FALSE)
<1>1. /\ ch.writable /\ Takes(q, <<>>) /\ peer' = peer /\ got' = got /\ overflowed' = overflowed
      /\ messages' = messages
  BY DEF OnWrite, Fires
<1>2. /\ Fit(ch) /\ Socket /\ Room \in Nat /\ messages \in Nat /\ overflowed \in BOOLEAN
      /\ <<>> \in Seq(Units)
  BY CFacts
<1>3. ch.open
  BY <1>1, <1>2 DEF Fit
<1>4. Wrote(ch, w, p, Room)
  <2> HIDE DEF f, w, p
  <2>1. f = DoFlush(ch) /\ w = AfterFlush(f.ch, Room - Len(f.put)) /\ p = f.put \o w.put
    BY DEF f, w, p
  <2> QED  BY <1>1, <1>2, <1>3, <2>1, OnWriteMoves
<1>5. q.ch = d /\ q.put = p /\ q.ok = FALSE
  BY DEF Result
<1> HIDE DEF f, w, p, q
<1>6. Moves(ch, w.ch, p, <<>>, Room) /\ Watched(w.ch)
      /\ (w.ok => w.ch.open /\ ~w.ch.sending /\ ~w.ch.close_after_write /\ w.ch.output = <<>>)
  BY <1>4 DEF Wrote
<1>7. Fit(w.ch) /\ (peer = "up" /\ ~w.ch.open => w.ch.output = <<>>)
  BY <1>6 DEF Moves
<1>8. /\ Fit(d) /\ d.output = w.ch.output /\ d.open = w.ch.open /\ d.file = w.ch.file
      /\ d.close_after_write = w.ch.close_after_write /\ d.sending = w.ch.sending
      /\ ~w.ok => d = w.ch
  BY <1>6, <1>7 DEF AutoDisable, Fit, Chan
<1> HIDE DEF d
<1>9. Moves(ch, d, p, <<>>, Room)
  BY <1>6, <1>7, <1>8, MovesOn
<1>10. Watched(d)
  BY <1>6, <1>8 DEF Watched, Pending
<1>11. Moves(ch, q.ch, q.put, IF q.ok THEN <<>> ELSE <<>>, Room) /\ q.ok \in BOOLEAN /\ Watched(q.ch)
  BY <1>5, <1>9, <1>10
<1> QED  BY <1>1, <1>2, <1>3, <1>11, TakesSteps

LEMMA OnWriteSyncSteps ==
  ASSUME CInv, NEW n \in Nat, NEW more \in BOOLEAN, OnWriteSync(n, more)
  PROVE  CNext
<1> DEFINE f == DoFlush(ch)
           w == AfterFlush(f.ch, Room - Len(f.put))
           msg == Message(n)
           r == WriteNow(w.ch, msg)
           b == [r.ch EXCEPT !.auto_disable = ~more]
           c == EnableWriting(b)
           d == AutoDisable(c)
           p == f.put \o w.put
           q == Result(d, p \o r.put, r.ok)
<1>1. /\ ch.writable /\ ch.open /\ w.ok /\ Takes(q, msg) /\ peer' = peer /\ got' = got
      /\ overflowed' = overflowed /\ messages' = messages + 1
  BY DEF OnWriteSync, Fires, Fresh, Numbered
<1>2. /\ Fit(ch) /\ Socket /\ Room \in Nat /\ messages \in Nat /\ overflowed \in BOOLEAN
      /\ <<>> \in Seq(Units) /\ msg \in Seq(Units)
  BY CFacts
<1>3. Wrote(ch, w, p, Room) /\ p \in Seq(Units)
  <2> HIDE DEF f, w
  <2>1. f = DoFlush(ch) /\ w = AfterFlush(f.ch, Room - Len(f.put))
    BY DEF f, w
  <2>2. Wrote(ch, w, f.put \o w.put, Room) /\ f.put \in Seq(Units) /\ w.put \in Seq(Units)
    BY <1>1, <1>2, <2>1, OnWriteMoves
  <2> QED  BY <2>2, ConcatProperties
<1>4. q.ch = d /\ q.put = p \o r.put /\ q.ok = r.ok
  <2> HIDE DEF d, p, r
  <2> QED  BY DEF Result
<1> HIDE DEF f, w, p, q, msg
<1>5. /\ Moves(ch, w.ch, p, <<>>, Room)
      /\ w.ch.open /\ w.ch.writable /\ ~w.ch.sending /\ ~w.ch.close_after_write
      /\ w.ch.output = <<>>
  BY <1>1, <1>3 DEF Wrote
<1>6. Fit(w.ch) /\ Len(p) <= Room /\ Len(p) \in Nat
  BY <1>3, <1>5, LenProperties DEF Moves
<1> DEFINE e == [w.ch EXCEPT !.output = w.ch.output \o msg]
           left == Room - Len(p)
<1>7. r.ch = e /\ r.put = <<>> /\ r.ok = TRUE
  <2>1. w.ch.output \o msg = msg
    BY <1>2, <1>5, ConcatEmptySeq
  <2>2. r = Result([w.ch EXCEPT !.output = msg], <<>>, TRUE)
    BY <1>5 DEF WriteNow
  <2> QED  BY <2>1, <2>2 DEF Result
<1>8. left \in Nat
  BY <1>2, <1>6
<1> HIDE DEF r, left
<1>9. /\ Moves(w.ch, e, <<>>, msg, left) /\ e.open
      /\ e.output = w.ch.output \o msg /\ e.sending = w.ch.sending
      /\ e.close_after_write = w.ch.close_after_write
  BY <1>2, <1>5, <1>6, <1>8, BufferMoves
<1> HIDE DEF e
<1>10. Moves(ch, e, p, msg, Room)
  <2>1. Moves(w.ch, e, <<>>, msg, Room - Len(p))
    BY <1>9, Zenon DEF left
  <2>2. Moves(ch, e, p \o <<>>, <<>> \o msg, Room)
    BY <1>2, <1>5, <2>1, MovesCompose
  <2>3. p \o <<>> = p /\ <<>> \o msg = msg
    BY <1>2, <1>3, ConcatEmptySeq
  <2> QED  BY <2>2, <2>3, Zenon
<1>11. Fit(e)
  BY <1>9 DEF Moves
<1>12. /\ Fit(b) /\ b.open /\ b.output = e.output /\ b.file = e.file /\ b.sending = e.sending
       /\ b.close_after_write = e.close_after_write
  BY <1>7, <1>9, <1>11 DEF Fit, Chan
<1> HIDE DEF b
<1>13. /\ Fit(c) /\ c.open /\ c.writable /\ c.output = e.output /\ c.file = e.file
       /\ c.sending = e.sending /\ c.close_after_write = e.close_after_write
  BY <1>12, CloseFit
<1> HIDE DEF c
<1>14. /\ Fit(d) /\ d.open /\ d.output = e.output /\ d.file = e.file
       /\ d.sending = e.sending /\ d.close_after_write = e.close_after_write
       /\ c.output # <<>> => d.writable
  BY <1>13 DEF AutoDisable, Fit, Chan
<1> HIDE DEF d
<1>15. Moves(ch, d, p, msg, Room)
  BY <1>9, <1>10, <1>14, MovesOn
<1>16. Watched(d)
  BY <1>5, <1>9, <1>13, <1>14 DEF Watched, Pending
<1>17. p \o <<>> = p
  BY <1>3, ConcatEmptySeq
<1>18. q.put = p /\ q.ok = TRUE
  BY <1>4, <1>7, <1>17, Zenon
<1>19. /\ Moves(ch, q.ch, q.put, IF q.ok THEN msg ELSE <<>>, Room) /\ q.ok \in BOOLEAN
       /\ Watched(q.ch)
  BY <1>4, <1>15, <1>16, <1>18
<1>20. messages' \in Nat
  BY <1>1, <1>2
<1> QED  BY <1>1, <1>2, <1>19, <1>20, TakesSteps

\* The first of the one goes behind the other.
HeadMoved(s, t) == Append(s, Head(t)) \o Tail(t) = s \o t

LEMMA HeadMoves ==
  ASSUME NEW S, NEW s \in Seq(S), NEW t \in Seq(S), t # <<>>
  PROVE  /\ HeadMoved(s, t)
         /\ Append(s, Head(t)) \in Seq(S) /\ Tail(t) \in Seq(S) /\ Len(Tail(t)) <= Len(t)
<1>1. Append(s, Head(t)) \o Tail(t) = s \o t
  OBVIOUS
<1>2. Append(s, Head(t)) \in Seq(S) /\ Tail(t) \in Seq(S) /\ Len(Tail(t)) <= Len(t)
  OBVIOUS
<1> QED  BY <1>1, <1>2 DEF HeadMoved

LEMMA PeerReadsSteps ==
  ASSUME CInv, PeerReads
  PROVE  CNext
<1>1. /\ wire \in Seq(Units) /\ got \in Seq(Units) /\ wire # <<>> /\ Len(wire) <= SocketBuffer
      /\ got' = Append(got, Head(wire)) /\ wire' = Tail(wire)
      /\ UNCHANGED <<ch, peer, accepted, stranded, overflowed, messages>>
  BY DEF CInv, Socket, PeerReads
<1>2. /\ got' \o wire' = got \o wire
      /\ got' \in Seq(Units) /\ wire' \in Seq(Units) /\ Len(wire') <= Len(wire)
  <2>1. /\ HeadMoved(got, wire) /\ Append(got, Head(wire)) \in Seq(Units)
        /\ Tail(wire) \in Seq(Units) /\ Len(Tail(wire)) <= Len(wire)
    BY <1>1, HeadMoves, Zenon
  <2> QED  BY <1>1, <2>1, Zenon DEF HeadMoved
<1>3. Intact'
  BY <1>1, <1>2, Zenon DEF CInv, Intact
<1>4. Socket'
  BY <1>1, <1>2, ChannelAssumption, LenProperties DEF Socket, CInv
<1>5. CInv'
  BY <1>1, <1>2, <1>3, <1>4 DEF CInv, OutputWatched, GapCloses
<1> QED  BY <1>1, <1>5 DEF CNext

LEMMA PeerLeavesSteps ==
  ASSUME CInv, PeerLeaves
  PROVE  CNext
<1>1. peer' = "gone" /\ UNCHANGED <<ch, wire, got, accepted, stranded, overflowed, messages>>
  BY DEF PeerLeaves
<1>2. CInv'
  BY <1>1 DEF CInv, Socket, OutputWatched, GapCloses, Intact
<1> QED  BY <1>1, <1>2 DEF CNext

LEMMA StutterSteps ==
  ASSUME CInv, UNCHANGED channelVars
  PROVE  CNext
<1>1. CInv'
  BY DEF CInv, channelVars, Socket, OutputWatched, GapCloses, Intact
<1> QED  BY <1>1 DEF CNext, channelVars

LEMMA OutputSteps ==
  ASSUME CInv, OutputNext
  PROVE  CNext /\ ch.open
<1>1. ASSUME NEW n \in Sizes PROVE n \in Nat
  BY ChannelAssumption
<1>2. Fit(ch)
  BY CFacts
<1>3. CASE \E n \in Sizes : AsyncWriteMessage(n)
  BY <1>1, <1>3, AsyncWriteMessageSteps DEF AsyncWriteMessage, Fresh
<1>4. CASE \E n \in Sizes, more \in BOOLEAN : SendWAL(n, more)
  BY <1>1, <1>4, SendWALSteps DEF SendWAL, Fresh
<1>5. CASE \E n \in Sizes, more \in BOOLEAN : OnWriteSync(n, more)
  BY <1>1, <1>5, OnWriteSyncSteps DEF OnWriteSync, Fresh
<1>6. CASE \E n \in Sizes \cup {0} : AttachFD(n)
  BY <1>1, <1>6, AttachFDSteps DEF AttachFD
<1>7. CASE OnAddSlave
  BY <1>7, OnAddSlaveSteps DEF OnAddSlave
<1>8. CASE SendFile
  BY <1>8, SendFileSteps DEF SendFile, Fresh
<1>9. CASE CloseChannel
  BY <1>9, CloseSteps DEF CloseChannel
<1>10. CASE OnWrite
  <2>1. ch.open
    BY <1>2, <1>10 DEF OnWrite, Fires, Fit
  <2> QED  BY <1>10, <2>1, OnWriteSteps
<1>11. CASE OnReadEOF
  <2>1. ch.open
    BY <1>2, <1>11 DEF OnReadEOF, Fit
  <2> QED  BY <1>11, <2>1, OnReadEOFSteps
<1> QED  BY <1>3, <1>4, <1>5, <1>6, <1>7, <1>8, <1>9, <1>10, <1>11 DEF OutputNext

LEMMA ExecuteSteps ==
  ASSUME CInv, NEW r, NEW n \in Nat, Execute(r, n)
  PROVE  CNext
<1>1. CASE ~ch.open /\ UNCHANGED channelVars
  BY <1>1, StutterSteps
<1>2. CASE ch.open /\ Quit
  BY <1>2, CloseSteps DEF Quit
<1>3. CASE ch.open /\ UnknownCommand(n)
  BY <1>3, UnknownCommandSteps
<1>4. CASE ch.open /\ Subscribe(n)
  <2> DEFINE c == [ch EXCEPT !.role = "subscriber", !.max_size = Limit]
  <2>1. Fit(ch)
    BY CFacts
  <2>2. Fit(c) /\ Alike(c, ch)
    BY <2>1 DEF Fit, Chan, Alike
  <2>3. Replies(c, n)
    BY <1>4 DEF Subscribe
  <2> HIDE DEF c
  <2> QED  BY <1>4, <2>2, <2>3, RepliesSteps
<1>5. CASE ch.open /\ Block
  BY <1>5, BlockSteps
<1>6. CASE ch.open /\ ch.role = "client" /\ AddSlave
  BY <1>6, AddSlaveSteps
<1>7. CASE ch.open /\ Replies(ch, n)
  <2>1. Fit(ch) /\ Alike(ch, ch)
    BY CFacts DEF Alike
  <2> QED  BY <1>7, <2>1, RepliesSteps
<1> QED  BY <1>1, <1>2, <1>3, <1>4, <1>5, <1>6, <1>7 DEF Execute

LEMMA ChannelInitInv ==
  ASSUME ChannelInit
  PROVE  CInv
<1>1. <<>> \in Seq(Units) /\ Len(<<>>) = 0
  BY EmptySeq
<1>2. Fit(ch) /\ ch.output = <<>> /\ ch.file = <<>> /\ ~Pending(ch)
  BY <1>1 DEF ChannelInit, Fit, Chan, Pending
<1>3. Socket
  BY <1>1, ChannelAssumption DEF ChannelInit, Socket
<1>4. Intact
  <2>1. <<>> \o <<>> = <<>> /\ IsPrefix(<<>>, <<>> \o <<>>)
    BY <1>1, Beginning, ConcatEmptySeq
  <2> QED  BY <1>2, <2>1, Zenon DEF Intact, ChannelInit
<1> QED  BY <1>1, <1>2, <1>3, <1>4 DEF ChannelInit, CInv, OutputWatched, GapCloses
-----------------------------------------------------------------------------
(***************************************************************************)
(* The stream of requests.                                                 *)
(***************************************************************************)
Kinds == {"ping", "quit", "subscribe", "block", "psync", "broken"}

Size(r) == IF r \in {"subscribe", "broken"} THEN 3 ELSE 2

Part(r, k) ==
  IF r = "ping" THEN (IF k = 1 THEN "word" ELSE "CRLF")
  ELSE IF k = 1 THEN "*"
  ELSE IF r = "broken" THEN (IF k = 2 THEN "word" ELSE "CRLF")
  ELSE "$"

LEMMA Encodes ==
  ASSUME NEW r \in Kinds
  PROVE  /\ DOMAIN Encode(r) = 1..Size(r)
         /\ \A k \in 1..Size(r) : Encode(r)[k].p = Part(r, k)
<1>1. CASE r = "ping"
  BY <1>1 DEF Encode, Inline, Size, Part
<1>2. CASE r = "broken"
  <2>1. Encode(r) = <<[p |-> "*", r |-> r]>> \o Inline(r)
    BY <1>2 DEF Encode
  <2> QED  BY <1>2, <2>1 DEF Inline, Size, Part
<1>3. CASE r \notin {"ping", "broken"}
  <2>1. Encode(r) = <<[p |-> "*", r |-> r]>> \o [i \in 1..Argc(r) |-> [p |-> "$", r |-> r]]
    BY <1>3 DEF Encode, Bulk
  <2> QED  BY <1>3, <2>1 DEF Argc, Size, Part, Kinds
<1> QED  BY <1>1, <1>2, <1>3

\* The sequence s of pieces is what is left of the requests snt when h of them
\* have been handled; f says which part of its request a piece is.  A broken
\* request may have lost its first piece.
Parts(s, f, snt) ==
  \A k \in 1..Len(s) :
    /\ s[k].id \in 1..Len(snt) /\ s[k].r = snt[s[k].id]
    /\ f[k] \in 1..Size(s[k].r) /\ s[k].p = Part(s[k].r, f[k])

Joined(s, f) ==
  \A k \in 1..(Len(s) - 1) :
    IF f[k] < Size(s[k].r) THEN s[k + 1].id = s[k].id /\ f[k + 1] = f[k] + 1
                           ELSE s[k + 1].id = s[k].id + 1 /\ f[k + 1] = 1

Ordered(s) == \A j, k \in 1..Len(s) : j <= k => s[j].id <= s[k].id

Outer(s, f, snt, h) ==
  IF s = <<>> THEN h = Len(snt)
  ELSE /\ s[1].id = h + 1
       /\ f[1] = 1 \/ (f[1] = 2 /\ s[1].r = "broken")
       /\ s[Len(s)].id = Len(snt) /\ f[Len(s)] = Size(s[Len(s)].r)

Layout(s, f, snt, h) ==
  /\ s \in Seq(Pieces) /\ f \in [1..Len(s) -> Nat]
  /\ Parts(s, f, snt) /\ Joined(s, f) /\ Ordered(s) /\ Outer(s, f, snt, h)

\* The request in front of the stream has come to its end in it.
InFront(s, f, snt, h, r, m) ==
  /\ Len(s) \in Nat /\ h + 1 \in 1..Len(snt) /\ r \in Kinds /\ m \in 2..3 /\ m <= Len(s)
  /\ \A k \in 1..m : s[k].id = h + 1 /\ s[k].r = r /\ f[k] = (f[1] + k) - 1
                     /\ s[k].p = Part(r, (f[1] + k) - 1)
  /\ m < Len(s) => s[m + 1].id = h + 2 /\ f[m + 1] = 1
  /\ m = Len(s) => Len(snt) = h + 1

LEMMA FrontPieces ==
  ASSUME NEW s, NEW f, NEW snt, NEW h \in Nat, snt \in Seq(Requests), Layout(s, f, snt, h), s # <<>>
  PROVE  InFront(s, f, snt, h, snt[h + 1], (Size(snt[h + 1]) - f[1]) + 1)
<1> DEFINE r == snt[h + 1]
           m == (Size(r) - f[1]) + 1
           c == f[1]
<1>1. Len(s) \in Nat /\ Len(s) >= 1 /\ Len(snt) \in Nat
  BY LenProperties, EmptySeq DEF Layout
<1>2. s[1].id = h + 1 /\ s[1].r = r /\ h + 1 \in 1..Len(snt) /\ c \in 1..Size(r)
      /\ (c = 1 \/ (c = 2 /\ r = "broken"))
  BY <1>1 DEF Layout, Parts, Outer
<1>3. r \in Kinds
  BY <1>2, ElementOfSeq, ConnectionAssumption DEF Kinds
<1>4. Size(r) \in 2..3 /\ m \in 2..3 /\ c \in 1..2 /\ c < Size(r)
  BY <1>2, <1>3 DEF Size
<1>5. /\ \A k \in 1..Len(s) : s[k].r = snt[s[k].id] /\ s[k].p = Part(s[k].r, f[k])
      /\ \A k \in 1..(Len(s) - 1) :
           IF f[k] < Size(s[k].r) THEN s[k + 1].id = s[k].id /\ f[k + 1] = f[k] + 1
                                  ELSE s[k + 1].id = s[k].id + 1 /\ f[k + 1] = 1
      /\ s[Len(s)].id = Len(snt) /\ f[Len(s)] = Size(s[Len(s)].r)
  BY <1>1 DEF Layout, Parts, Joined, Outer
<1> HIDE DEF r, m, c
<1>6. Len(s) >= 2 /\ s[2].id = h + 1 /\ f[2] = c + 1
  <2>1. Len(s) # 1
    BY <1>2, <1>4, <1>5 DEF c
  <2>2. Len(s) >= 2
    <3>1. \A x \in Nat : x >= 1 /\ x # 1 => x >= 2
      OBVIOUS
    <3> QED  BY <1>1, <2>1, <3>1, Zenon
  <2>3. 1 \in 1..(Len(s) - 1)
    BY <1>1, <2>2
  <2> QED  BY <1>2, <1>4, <1>5, <2>2, <2>3 DEF c
<1>7. s[2].r = r
  BY <1>1, <1>5, <1>6 DEF r
<1>8. c + 2 <= Size(r) => Len(s) >= 3 /\ s[3].id = h + 1 /\ f[3] = c + 2 /\ s[3].r = r
  <2>1. SUFFICES ASSUME c + 2 <= Size(r) PROVE Len(s) >= 3 /\ s[3].id = h + 1 /\ f[3] = c + 2 /\ s[3].r = r
    OBVIOUS
  <2>2. Len(s) # 2
    BY <1>4, <1>5, <1>6, <1>7, <2>1
  <2>3. Len(s) >= 3
    <3>1. \A x \in Nat : x >= 2 /\ x # 2 => x >= 3
      OBVIOUS
    <3> QED  BY <1>1, <1>6, <2>2, <3>1, Zenon
  <2>4. 2 \in 1..(Len(s) - 1) /\ 3 \in 1..Len(s)
    BY <1>1, <2>3
  <2>5. s[3].id = s[2].id /\ f[3] = f[2] + 1
    BY <1>4, <1>5, <1>6, <1>7, <2>1, <2>4
  <2>6. s[3].r = r
    BY <1>5, <1>6, <2>4, <2>5 DEF r
  <2> QED  BY <1>4, <1>6, <2>3, <2>5, <2>6
<1>9. \A k \in 1..m : k <= Len(s) /\ s[k].id = h + 1 /\ s[k].r = r /\ f[k] = (c + k) - 1
  <2>1. SUFFICES ASSUME NEW k \in 1..m
                 PROVE  k <= Len(s) /\ s[k].id = h + 1 /\ s[k].r = r /\ f[k] = (c + k) - 1
    OBVIOUS
  <2>2. CASE k = 1
    BY <1>1, <1>2, <1>4, <2>2 DEF c
  <2>3. CASE k = 2
    BY <1>4, <1>6, <1>7, <2>3
  <2>4. CASE k = 3
    <3>1. c + 2 <= Size(r)
      BY <1>4, <2>4 DEF m, c
    <3> QED  BY <1>4, <1>8, <2>4, <3>1
  <2> QED  BY <1>4, <2>2, <2>3, <2>4
<1>10. \A k \in 1..m : s[k].p = Part(r, (c + k) - 1)
  BY <1>1, <1>4, <1>5, <1>9
<1>11. m <= Len(s) /\ f[m] = Size(r) /\ s[m].id = h + 1 /\ s[m].r = r
  <2>1. m \in 1..m /\ (c + m) - 1 = Size(r)
    BY <1>4 DEF m, c
  <2> QED  BY <1>9, <2>1
<1>12. m < Len(s) => s[m + 1].id = h + 2 /\ f[m + 1] = 1
  BY <1>1, <1>4, <1>5, <1>11
<1>13. m = Len(s) => Len(snt) = h + 1
  BY <1>5, <1>11
<1>14. InFront(s, f, snt, h, r, m)
  BY <1>1, <1>2, <1>3, <1>4, <1>9, <1>10, <1>11, <1>12, <1>13 DEF InFront, c
<1> QED  BY <1>14 DEF r, m

LEMMA LayoutDrops ==
  ASSUME NEW s, NEW f, NEW snt, NEW h, NEW d, NEW n,
         Layout(s, f, snt, h), d \in 0..Len(s),
         d = Len(s) => n = Len(snt),
         d < Len(s) => s[d + 1].id = n + 1 /\ (f[d + 1] = 1 \/ (f[d + 1] = 2 /\ s[d + 1].r = "broken"))
  PROVE  \E g : Layout(From(s, d), g, snt, n)
<1> DEFINE t == From(s, d)
           l == Len(s) - d
           g == [k \in 1..l |-> f[k + d]]
<1>1. s \in Seq(Pieces) /\ Len(s) \in Nat /\ f \in [1..Len(s) -> Nat]
  BY LenProperties DEF Layout
<1>2. t \in Seq(Pieces) /\ Len(t) = l /\ \A k \in 1..l : t[k] = s[d + k]
  BY <1>1, Pieced
<1>3. l \in Nat /\ d \in Nat /\ \A k \in 1..l : d + k \in 1..Len(s) /\ k + d = d + k
  BY <1>1
<1>4. g \in [1..l -> Nat] /\ \A k \in 1..l : g[k] = f[d + k]
  BY <1>1, <1>3
<1> HIDE DEF t, g
<1>5. Parts(t, g, snt)
  <2>1. SUFFICES ASSUME NEW k \in 1..l
                 PROVE  /\ t[k].id \in 1..Len(snt) /\ t[k].r = snt[t[k].id]
                        /\ g[k] \in 1..Size(t[k].r) /\ t[k].p = Part(t[k].r, g[k])
    BY <1>2 DEF Parts
  <2> DEFINE i == d + k
  <2>2. i \in 1..Len(s) /\ t[k] = s[i] /\ g[k] = f[i]
    BY <1>2, <1>3, <1>4
  <2> HIDE DEF i, l
  <2>3. /\ s[i].id \in 1..Len(snt) /\ s[i].r = snt[s[i].id]
        /\ f[i] \in 1..Size(s[i].r) /\ s[i].p = Part(s[i].r, f[i])
    BY <2>2 DEF Layout, Parts
  <2> QED  BY <2>2, <2>3
<1>6. Joined(t, g)
  <2>1. SUFFICES ASSUME NEW k \in 1..(l - 1)
                 PROVE  IF g[k] < Size(t[k].r) THEN t[k + 1].id = t[k].id /\ g[k + 1] = g[k] + 1
                                               ELSE t[k + 1].id = t[k].id + 1 /\ g[k + 1] = 1
    BY <1>2 DEF Joined
  <2>2. d + k \in 1..(Len(s) - 1) /\ d + (k + 1) = (d + k) + 1 /\ k \in 1..l /\ k + 1 \in 1..l
    BY <1>1, <1>3
  <2>3. IF f[d + k] < Size(s[d + k].r)
        THEN s[(d + k) + 1].id = s[d + k].id /\ f[(d + k) + 1] = f[d + k] + 1
        ELSE s[(d + k) + 1].id = s[d + k].id + 1 /\ f[(d + k) + 1] = 1
    BY <2>2 DEF Layout, Joined
  <2>4. t[k] = s[d + k] /\ t[k + 1] = s[(d + k) + 1] /\ g[k] = f[d + k] /\ g[k + 1] = f[(d + k) + 1]
    <3> DEFINE i == k + 1
               j == d + k
    <3>1. i \in 1..l /\ d + i = j + 1
      BY <2>2
    <3> HIDE DEF i, j
    <3>2. t[i] = s[j + 1] /\ g[i] = f[j + 1]
      BY <1>2, <1>4, <3>1
    <3>3. t[k] = s[j] /\ g[k] = f[j]
      BY <1>2, <1>4, <2>2 DEF j
    <3> QED  BY <3>2, <3>3 DEF i, j
  <2> QED  BY <2>3, <2>4
<1>7. Ordered(t)
  <2>1. SUFFICES ASSUME NEW j \in 1..l, NEW k \in 1..l, j <= k PROVE t[j].id <= t[k].id
    BY <1>2 DEF Ordered
  <2>2. d + j \in 1..Len(s) /\ d + k \in 1..Len(s) /\ d + j <= d + k
    BY <1>1, <1>3, <2>1
  <2> QED  BY <1>2, <2>2 DEF Layout, Ordered
<1>8. Outer(t, g, snt, n)
  <2>1. CASE d = Len(s)
    <3>1. t = <<>>
      BY <1>1, <1>2, <2>1, EmptySeq
    <3> QED  BY <2>1, <3>1 DEF Outer
  <2>2. CASE d # Len(s)
    <3>1. d < Len(s) /\ 1 \in 1..l /\ l \in 1..l /\ d + l = Len(s) /\ Len(s) # 0
      BY <1>1, <2>2
    <3>2. t # <<>> /\ s # <<>>
      BY <1>2, <3>1, EmptySeq
    <3>3. s[Len(s)].id = Len(snt) /\ f[Len(s)] = Size(s[Len(s)].r)
      BY <3>2 DEF Layout, Outer
    <3>4. t[1] = s[d + 1] /\ g[1] = f[d + 1] /\ t[l] = s[Len(s)] /\ g[l] = f[Len(s)]
      BY <1>2, <1>4, <3>1
    <3> QED  BY <1>2, <3>1, <3>2, <3>3, <3>4 DEF Outer
  <2> QED  BY <2>1, <2>2
<1>9. Layout(t, g, snt, n)
  BY <1>2, <1>4, <1>5, <1>6, <1>7, <1>8 DEF Layout
<1> QED  BY <1>9 DEF t

\* What the peer sends goes behind.
Sending(r, n) == [i \in 1..Size(r) |-> [p |-> Part(r, i), r |-> r, id |-> n]]

LEMMA LayoutAppends ==
  ASSUME NEW s, NEW f, NEW snt, NEW h \in Nat, NEW r \in Requests,
         snt \in Seq(Requests), Len(snt) < MaxRequests, h <= Len(snt), Layout(s, f, snt, h)
  PROVE  \E g : Layout(s \o Sending(r, Len(snt) + 1), g, Append(snt, r), h)
<1> DEFINE n == Len(snt) + 1
           e == Sending(r, n)
           t == s \o e
           l == Len(s)
           z == Size(r)
           sn == Append(snt, r)
           g == [k \in 1..(l + z) |-> IF k <= l THEN f[k] ELSE k - l]
<1>1. s \in Seq(Pieces) /\ l \in Nat /\ f \in [1..l -> Nat] /\ Len(snt) \in Nat /\ z \in 2..3
  BY LenProperties DEF Layout, Size
<1>2. /\ Len(sn) = n /\ sn[n] = r /\ n \in Nat
      /\ \A i \in 1..Len(snt) : sn[i] = snt[i]
  BY <1>1, AppendProperties
<1>3. e \in Seq(Pieces) /\ Len(e) = z
      /\ \A i \in 1..z : e[i].id = n /\ e[i].r = r /\ e[i].p = Part(r, i)
  <2>1. n \in 1..MaxRequests
    BY <1>1, ConnectionAssumption
  <2>2. \A i \in 1..z : [p |-> Part(r, i), r |-> r, id |-> n] \in Pieces
    BY <2>1 DEF Pieces, Part
  <2> HIDE DEF z, n
  <2>3. e \in Seq(Pieces)
    <3>1. e = [i \in 1..z |-> [p |-> Part(r, i), r |-> r, id |-> n]]
      BY DEF Sending, z
    <3>2. z \in Nat
      BY <1>1
    <3> QED  BY <2>2, <3>1, <3>2
  <2> QED  BY <1>1, <2>3 DEF Sending, z
<1> HIDE DEF e, z, n, sn
<1>4. t \in Seq(Pieces) /\ Len(t) = l + z
  BY <1>1, <1>3, ConcatProperties
<1>5. /\ \A k \in 1..l : t[k] = s[k]
      /\ \A k \in 1..z : t[l + k] = e[k]
  BY <1>1, <1>3, ConcatProperties
<1> HIDE DEF t
<1>6. /\ g \in [1..(l + z) -> Nat]
      /\ \A k \in 1..l : g[k] = f[k]
      /\ \A k \in 1..z : g[l + k] = k
  BY <1>1
<1> HIDE DEF g, l
<1>7. \A k \in 1..(l + z) : k \in 1..l \/ \E i \in 1..z : k = l + i
  <2>1. SUFFICES ASSUME NEW k \in 1..(l + z), k \notin 1..l PROVE \E i \in 1..z : k = l + i
    OBVIOUS
  <2>2. k - l \in 1..z /\ k = l + (k - l)
    BY <1>1, <2>1
  <2> QED  BY <2>2
<1>8. \A k \in 1..l : /\ t[k].id \in 1..Len(snt) /\ t[k].r = snt[t[k].id]
                      /\ g[k] \in 1..Size(t[k].r) /\ t[k].p = Part(t[k].r, g[k])
  BY <1>5, <1>6 DEF Layout, Parts, l
<1>9. \A k \in 1..z : /\ t[l + k].id = n /\ t[l + k].r = r /\ g[l + k] = k
                      /\ t[l + k].p = Part(r, k)
  BY <1>3, <1>5, <1>6
<1>10. Parts(t, g, sn)
  <2>1. SUFFICES ASSUME NEW k \in 1..(l + z)
                 PROVE  /\ t[k].id \in 1..Len(sn) /\ t[k].r = sn[t[k].id]
                        /\ g[k] \in 1..Size(t[k].r) /\ t[k].p = Part(t[k].r, g[k])
    BY <1>4 DEF Parts
  <2>2. CASE k \in 1..l
    <3>1. t[k].id \in 1..Len(sn)
      BY <1>1, <1>2, <1>8, <2>2 DEF n
    <3> QED  BY <1>2, <1>8, <2>2, <3>1
  <2>3. CASE k \notin 1..l
    <3>1. PICK i \in 1..z : k = l + i
      BY <1>7, <2>3
    <3>2. n \in 1..n
      BY <1>1, <1>2 DEF n
    <3> QED  BY <1>2, <1>9, <3>1, <3>2 DEF z
  <2> QED  BY <2>2, <2>3
<1>11. s # <<>> => /\ l >= 1 /\ t[l].id = Len(snt) /\ g[l] = Size(t[l].r)
                   /\ t[1] = s[1] /\ g[1] = f[1]
  <2>1. SUFFICES ASSUME s # <<>> PROVE l >= 1
    BY <1>1, <1>5, <1>6, <2>1, SMTT(30) DEF Layout, Outer, l
  <2> QED  BY <1>1, <2>1, EmptySeq DEF l
<1>12. s = <<>> => l = 0
  BY DEF l
<1>13. Joined(t, g)
  <2>1. SUFFICES ASSUME NEW k \in 1..((l + z) - 1)
                 PROVE  IF g[k] < Size(t[k].r) THEN t[k + 1].id = t[k].id /\ g[k + 1] = g[k] + 1
                                               ELSE t[k + 1].id = t[k].id + 1 /\ g[k + 1] = 1
    BY <1>4 DEF Joined
  <2>2. CASE k \in 1..(l - 1)
    <3>1. k \in 1..l /\ k + 1 \in 1..l
      BY <1>1, <2>2
    <3>2. t[k] = s[k] /\ t[k + 1] = s[k + 1] /\ g[k] = f[k] /\ g[k + 1] = f[k + 1]
      BY <1>5, <1>6, <3>1
    <3> QED  BY <2>2, <3>2 DEF Layout, Joined, l
  <2>3. CASE k = l /\ l >= 1
    <3>1. s # <<>>
      BY <1>12, <2>3, <1>1
    <3>2. 1 \in 1..z
      BY <1>1
    <3>3. t[l + 1].id = n /\ g[l + 1] = 1 /\ t[l].id = Len(snt) /\ g[l] = Size(t[l].r)
      BY <1>9, <1>11, <3>1, <3>2
    <3>4. ~(g[k] < Size(t[k].r))
      <4>1. Size(t[l].r) \in 2..3
        BY DEF Size
      <4> QED  BY <2>3, <3>3, <4>1
    <3> QED  BY <2>3, <3>3, <3>4 DEF n
  <2>4. CASE k > l
    <3> DEFINE i == k - l
    <3>1. i \in 1..z /\ i + 1 \in 1..z /\ k = l + i /\ k + 1 = l + (i + 1) /\ i < z
      BY <1>1, <2>1, <2>4
    <3> HIDE DEF i
    <3>2. t[k].id = n /\ t[k].r = r /\ g[k] = i /\ t[k + 1].id = n /\ g[k + 1] = i + 1
      BY <1>9, <3>1
    <3> QED  BY <3>1, <3>2 DEF z
  <2> QED  BY <1>1, <2>2, <2>3, <2>4
<1>14. Ordered(t)
  <2>1. SUFFICES ASSUME NEW j \in 1..(l + z), NEW k \in 1..(l + z), j <= k PROVE t[j].id <= t[k].id
    BY <1>4 DEF Ordered
  <2>2. CASE k \in 1..l
    <3>1. j \in 1..l
      BY <1>1, <2>1, <2>2
    <3>2. s[j].id <= s[k].id
      BY <2>1, <2>2, <3>1 DEF Layout, Ordered, l
    <3> QED  BY <1>5, <2>2, <3>1, <3>2
  <2>3. CASE k \notin 1..l
    <3>1. t[k].id = n
      BY <1>7, <1>9, <2>3
    <3>2. t[j].id \in 1..n
      BY <1>2, <1>4, <1>10 DEF Parts
    <3> QED  BY <1>2, <3>1, <3>2
  <2> QED  BY <2>2, <2>3
<1>15. Outer(t, g, sn, h)
  <2>1. z \in 1..z /\ 1 \in 1..z /\ l + z # 0
    BY <1>1
  <2>2. t # <<>> /\ t[l + z].id = n /\ t[l + z].r = r /\ g[l + z] = z
    BY <1>4, <1>9, <2>1, EmptySeq
  <2>3. t[1].id = h + 1 /\ (g[1] = 1 \/ (g[1] = 2 /\ t[1].r = "broken"))
    <3>1. CASE s # <<>>
      BY <1>11, <3>1 DEF Layout, Outer
    <3>2. CASE s = <<>>
      <4>1. h = Len(snt) /\ l = 0
        BY <1>12, <3>2 DEF Layout, Outer
      <4>2. l + 1 = 1
        BY <4>1
      <4> QED  BY <1>9, <2>1, <4>1, <4>2 DEF n
    <3> QED  BY <3>1, <3>2
  <2> QED  BY <1>2, <1>4, <2>2, <2>3 DEF Outer, z
<1>16. Layout(t, g, sn, h)
  BY <1>4, <1>6, <1>10, <1>13, <1>14, <1>15 DEF Layout
<1> QED  BY <1>16 DEF t, e, n, sn
-----------------------------------------------------------------------------
(***************************************************************************)
(* What Decode finds in the front of the stream.                           *)
(***************************************************************************)
LEMMA FirstOfSet ==
  ASSUME NEW at \in SUBSET Nat, NEW i \in at, \A j \in at : i <= j
  PROVE  (CHOOSE x \in at : \A j \in at : x <= j) = i
<1> DEFINE c == CHOOSE x \in at : \A j \in at : x <= j
<1>1. c \in at /\ \A j \in at : c <= j
  OBVIOUS
<1> HIDE DEF c
<1>2. c = i
  BY <1>1
<1> QED  BY <1>2 DEF c

LEMMA NothingToSkip ==
  ASSUME NEW b \in Seq(Pieces), b # <<>>, b[1].p # "CRLF"
  PROVE  SkipLineEnds(b) = b
<1> DEFINE start == {i \in DOMAIN b : ~IsLineEnd(b[i])}
<1>1. Len(b) \in Nat /\ Len(b) >= 1 /\ DOMAIN b = 1..Len(b)
  BY LenProperties, EmptySeq
<1>2. start \in SUBSET Nat /\ 1 \in start /\ \A j \in start : 1 <= j
  BY <1>1 DEF IsLineEnd
<1>3. SkipLineEnds(b) = IF start = {} THEN <<>>
                        ELSE From(b, (CHOOSE i \in start : \A j \in start : i <= j) - 1)
  BY DEF SkipLineEnds
<1> HIDE DEF start
<1>4. (CHOOSE i \in start : \A j \in start : i <= j) = 1
  BY <1>2, FirstOfSet
<1>5. SkipLineEnds(b) = From(b, 0)
  <2>1. start # {} /\ 1 - 1 = 0
    BY <1>2
  <2> QED  BY <1>3, <1>4, <2>1, Zenon
<1>6. From(b, 0) = b
  BY <1>1 DEF From
<1> QED  BY <1>5, <1>6

LEMMA DecodeFinds ==
  ASSUME NEW b \in Seq(Pieces), b # <<>>, NEW r \in Kinds, NEW c \in 1..2,
         c = 2 => r = "broken",
         \A k \in 1..Len(b) : k <= (Size(r) - c) + 1 => b[k].r = r /\ b[k].p = Part(r, (c + k) - 1)
  PROVE  LET m == (Size(r) - c) + 1
         IN  \/ Len(b) < m /\ Decode(b) = Frame(0, NoRequest, b)
             \/ Len(b) >= 2 /\ r = "broken" /\ c = 1 /\ Decode(b) = Frame(-1, NoRequest, From(b, 1))
             \/ Len(b) >= m /\ Decode(b) = Frame(1, r, From(b, m))
<1> DEFINE m == (Size(r) - c) + 1
<1>1. Len(b) \in Nat /\ Len(b) >= 1
  BY LenProperties, EmptySeq
<1>2. m \in 2..3 /\ Size(r) \in 2..3
  BY DEF Size
<1>3. b[1].r = r /\ b[1].p = Part(r, c)
  <2>1. (c + 1) - 1 = c /\ 1 <= m
    BY <1>2
  <2> QED  BY <1>1, <2>1
<1>4. Len(b) >= 2 => b[2].r = r /\ b[2].p = Part(r, c + 1)
  <2>1. (c + 2) - 1 = c + 1 /\ 2 <= m
    BY <1>2
  <2> QED  BY <1>1, <2>1
<1>6. b[1].p # "CRLF"
  BY <1>3 DEF Part
<1>7. Decode(b) = IF b[1].p = "*" THEN ProcessMultibulkBuffer(b) ELSE ProcessInlineBuffer(b)
  BY <1>6, NothingToSkip, Zenon DEF Decode
<1>8. CASE r # "ping" /\ c = 1
  <2> DEFINE n == 1 + Argc(b[1].r)
             x == Taken(n, Len(b))
             p == Prefix(b, x)
             at == {i \in 2..Len(p) : NotBulk(p[i])}
             i == FirstAt(p, NotBulk)
  <2>1. b[1].p = "*" /\ Decode(b) = ProcessMultibulkBuffer(b)
    BY <1>3, <1>7, <1>8 DEF Part
  <2>2. n \in 2..3 /\ x \in Nat /\ x <= Len(b) /\ x <= n /\ x >= 1 /\ (Len(b) >= n => x = n)
    BY <1>1, <1>3 DEF Argc, Taken
  <2>3. ProcessMultibulkBuffer(b) = IF i # 0 THEN Frame(-1, NoRequest, From(b, i - 1))
                                    ELSE IF Len(b) < n THEN Frame(0, NoRequest, b)
                                    ELSE Frame(1, b[1].r, From(b, n))
    BY DEF ProcessMultibulkBuffer
  <2>4. i = IF at = {} THEN 0 ELSE CHOOSE j \in at : \A k \in at : j <= k
    BY DEF FirstAt
  <2>5. Len(p) = x /\ \A k \in 1..x : p[k] = b[k]
    BY <1>1, <2>2 DEF Prefix
  <2>6. n = IF r = "subscribe" THEN 3 ELSE 2
    BY <1>3 DEF Argc
  <2> HIDE DEF i, p, x, n
  <2>7. CASE r # "broken"
    <3>1. n = m
      BY <1>8, <2>6, <2>7 DEF Size
    <3>2. \A k \in 2..x : p[k].p = "$"
      <4>1. SUFFICES ASSUME NEW k \in 2..x PROVE b[k].p = "$"
        BY <2>2, <2>5
      <4>2. k \in 1..Len(b) /\ k <= m /\ (c + k) - 1 = k /\ k # 1
        BY <1>1, <1>2, <1>8, <2>2, <3>1
      <4>3. b[k].p = Part(r, k)
        BY <4>2
      <4> QED  BY <1>8, <2>7, <4>2, <4>3 DEF Part
    <3>3. at = {}
      BY <2>5, <3>2 DEF NotBulk
    <3>4. i = 0
      BY <2>4, <3>3
    <3> QED  BY <1>1, <1>2, <1>3, <2>1, <2>3, <3>1, <3>4
  <2>8. CASE r = "broken"
    <3>1. n = 2 /\ m = 3
      BY <1>8, <2>6, <2>8 DEF Size
    <3>2. CASE Len(b) = 1
      <4>1. at = {}
        BY <2>2, <2>5, <3>2
      <4>2. i = 0
        BY <2>4, <4>1
      <4> QED  BY <2>1, <2>3, <3>1, <3>2, <4>2
    <3>3. CASE Len(b) # 1
      <4>1. Len(b) >= 2
        <5>1. \A y \in Nat : y >= 1 /\ y # 1 => y >= 2
          OBVIOUS
        <5> QED  BY <1>1, <3>3, <5>1, Zenon
      <4>2. x = 2 /\ p[2].p = "word"
        BY <1>4, <1>8, <2>2, <2>5, <2>8, <3>1, <4>1 DEF Part
      <4>3. at \in SUBSET Nat /\ 2 \in at /\ \A j \in at : 2 <= j
        BY <2>5, <4>2 DEF NotBulk
      <4> HIDE DEF at
      <4>4. i = 2
        BY <2>4, <4>3, FirstOfSet
      <4> QED  BY <1>8, <2>1, <2>3, <2>8, <4>1, <4>4
    <3> QED  BY <3>2, <3>3
  <2> QED  BY <2>7, <2>8
<1>9. CASE r = "ping" \/ c = 2
  <2> DEFINE at == {i \in 2..Len(b) : IsLineEnd(b[i])}
             i == FirstAt(b, IsLineEnd)
  <2>1. b[1].p = "word" /\ m = 2 /\ (Len(b) >= 2 => b[2].p = "CRLF") /\ (c = 1 => r # "broken")
    BY <1>3, <1>4, <1>9 DEF Part, Size
  <2>2. Decode(b) = IF i = 0 THEN Frame(0, NoRequest, b) ELSE Frame(1, b[1].r, From(b, i))
    BY <1>7, <2>1 DEF ProcessInlineBuffer
  <2>3. i = IF at = {} THEN 0 ELSE CHOOSE j \in at : \A k \in at : j <= k
    BY DEF FirstAt
  <2> HIDE DEF i
  <2>4. CASE Len(b) = 1
    <3>1. at = {}
      BY <2>4
    <3> QED  BY <2>1, <2>2, <2>3, <2>4, <3>1
  <2>5. CASE Len(b) # 1
    <3>1. Len(b) >= 2
      <4>1. \A y \in Nat : y >= 1 /\ y # 1 => y >= 2
        OBVIOUS
      <4> QED  BY <1>1, <2>5, <4>1, Zenon
    <3>2. at \in SUBSET Nat /\ 2 \in at /\ \A j \in at : 2 <= j
      BY <1>1, <2>1, <3>1 DEF IsLineEnd
    <3> HIDE DEF at
    <3>3. i = 2
      BY <2>3, <3>2, FirstOfSet
    <3> QED  BY <1>3, <2>1, <2>2, <3>1, <3>3
  <2> QED  BY <2>4, <2>5
<1> QED  BY <1>8, <1>9

Streams(b, q, snt, h) == \E f : Layout(b \o q, f, snt, h)

\* Nothing that is read is whole; what is not read begins with the next request,
\* or its rest.
Due(q, snt, h) ==
  /\ q # <<>> => q[1].id = h + 1
  /\ q = <<>> => h = Len(snt)

Decoded(b, q, snt, h) ==
  \/ Decode(b) = Frame(0, NoRequest, b) /\ Due(q, snt, h)
  \/ \E t \in Seq(Pieces) : Decode(b) = Frame(-1, NoRequest, t) /\ Streams(t, q, snt, h)
  \/ \E t \in Seq(Pieces) : /\ Decode(b) = Frame(1, snt[h + 1], t)
                            /\ h + 1 \in 1..Len(snt) /\ Streams(t, q, snt, h + 1)

Dropped(b, q, d) == From(b \o q, d) = From(b, d) \o q

LEMMA DropsFront ==
  ASSUME NEW b \in Seq(Pieces), NEW q \in Seq(Pieces), NEW d \in 0..Len(b)
  PROVE  Dropped(b, q, d) /\ From(b, d) \in Seq(Pieces)
<1> DEFINE s == b \o q
           t == From(s, d)
           u == From(b, d)
           l == Len(b) - d
<1>1. /\ s \in Seq(Pieces) /\ Len(s) = Len(b) + Len(q) /\ Len(b) \in Nat /\ Len(q) \in Nat
      /\ (\A k \in 1..Len(b) : s[k] = b[k]) /\ (\A k \in 1..Len(q) : s[Len(b) + k] = q[k])
  BY LenProperties, ConcatProperties
<1>2. d \in 0..Len(s) /\ l \in Nat /\ Len(s) - d = l + Len(q)
  BY <1>1
<1> HIDE DEF s
<1>3. u \in Seq(Pieces) /\ Len(u) = l /\ \A k \in 1..l : u[k] = b[d + k]
  BY Pieced
<1>4. t \in Seq(Pieces) /\ Len(t) = l + Len(q) /\ \A k \in 1..(l + Len(q)) : t[k] = s[d + k]
  BY <1>1, <1>2, Pieced, ZenonT(40)
<1> DEFINE v == u \o q
<1> HIDE DEF t, u, l
<1>5. /\ v \in Seq(Pieces) /\ Len(v) = l + Len(q)
      /\ (\A k \in 1..l : v[k] = u[k]) /\ (\A k \in 1..Len(q) : v[l + k] = q[k])
  <2>1. /\ v \in Seq(Pieces) /\ Len(v) = l + Len(q)
        /\ \A i \in 1..(l + Len(q)) : v[i] = IF i <= l THEN u[i] ELSE q[i - l]
    BY <1>3, ConcatProperties
  <2>2. \A k \in 1..l : k \in 1..(l + Len(q)) /\ k <= l
    BY <1>1, <1>2
  <2>3. \A k \in 1..Len(q) : l + k \in 1..(l + Len(q)) /\ ~(l + k <= l) /\ (l + k) - l = k
    BY <1>1, <1>2
  <2> HIDE DEF v
  <2> QED  BY <2>1, <2>2, <2>3
<1> HIDE DEF v
<1>6. \A k \in 1..(l + Len(q)) : t[k] = v[k]
  <2>1. SUFFICES ASSUME NEW k \in 1..(l + Len(q)) PROVE s[d + k] = v[k]
    BY <1>4
  <2>2. CASE k <= l
    <3>1. k \in 1..l /\ d + k \in 1..Len(b)
      BY <1>1, <1>2, <2>2 DEF l
    <3> QED  BY <1>1, <1>3, <1>5, <3>1
  <2>3. CASE k > l
    <3> DEFINE i == k - l
    <3>1. i \in 1..Len(q) /\ k = l + i /\ d + k = Len(b) + i
      BY <1>1, <1>2, <2>3 DEF l
    <3> HIDE DEF i
    <3> QED  BY <1>1, <1>5, <3>1
  <2> QED  BY <1>2, <2>2, <2>3
<1>7. t = v
  BY <1>4, <1>5, <1>6, SeqEqual
<1> QED  BY <1>3, <1>7, Zenon DEF Dropped, s, t, u, v

LEMMA DecodeFront ==
  ASSUME NEW b \in Seq(Pieces), NEW q \in Seq(Pieces), NEW snt \in Seq(Requests), NEW h \in Nat,
         Streams(b, q, snt, h)
  PROVE  Decoded(b, q, snt, h)
<1> DEFINE s == b \o q
<1>1. PICK f : Layout(s, f, snt, h)
  BY DEF Streams
<1>2. s \in Seq(Pieces) /\ Len(s) \in Nat /\ Len(b) \in Nat /\ Len(q) \in Nat
      /\ Len(s) = Len(b) + Len(q)
      /\ (\A k \in 1..Len(b) : s[k] = b[k]) /\ (\A k \in 1..Len(q) : s[Len(b) + k] = q[k])
  BY LenProperties, ConcatProperties
<1>3. q # <<>> => Len(q) >= 1 /\ q[1] = s[Len(b) + 1]
  <2>1. q # <<>> => Len(q) >= 1
    BY <1>2, EmptySeq
  <2> QED  BY <1>2, <2>1
<1>4. q = <<>> => Len(q) = 0
  BY EmptySeq
<1> HIDE DEF s
<1>5. CASE b = <<>>
  <2>1. Len(b) = 0
    BY <1>5
  <2>2. Decode(b) = Frame(0, NoRequest, b)
    <3>1. SkipLineEnds(b) = <<>>
      BY <1>5 DEF SkipLineEnds
    <3> QED  BY <1>5, <3>1 DEF Decode
  <2>3. s = <<>> <=> q = <<>>
    BY <1>2, <1>3, <1>4, <2>1, EmptySeq
  <2>4. q # <<>> => q[1] = s[1]
    BY <1>3, <2>1
  <2>5. Due(q, snt, h)
    BY <1>1, <2>3, <2>4 DEF Due, Layout, Outer
  <2> QED  BY <2>2, <2>5 DEF Decoded
<1>6. CASE b # <<>>
  <2> DEFINE r == snt[h + 1]
             c == f[1]
             m == (Size(r) - c) + 1
  <2>1. Len(b) >= 1 /\ s # <<>>
    BY <1>2, <1>6, EmptySeq
  <2>2. /\ h + 1 \in 1..Len(snt) /\ r \in Kinds /\ m \in 2..3 /\ m <= Len(s)
        /\ \A k \in 1..m : s[k].id = h + 1 /\ s[k].r = r /\ f[k] = (c + k) - 1
                           /\ s[k].p = Part(r, (c + k) - 1)
        /\ m < Len(s) => s[m + 1].id = h + 2 /\ f[m + 1] = 1
        /\ m = Len(s) => Len(snt) = h + 1
    <3>1. InFront(s, f, snt, h, r, m)
      BY <1>1, <2>1, FrontPieces
    <3> HIDE DEF r, m
    <3> QED  BY <3>1 DEF InFront
  <2>3. c \in 1..2 /\ (c = 2 => r = "broken")
    <3>1. s[1].r = r
      BY <2>2
    <3> QED  BY <1>1, <2>1, <3>1 DEF Layout, Outer
  <2> HIDE DEF r, c
  <2>4. \A k \in 1..Len(b) : k <= m => b[k].r = r /\ b[k].p = Part(r, (c + k) - 1)
    BY <1>2, <2>2
  <2>5. \/ Len(b) < m /\ Decode(b) = Frame(0, NoRequest, b)
        \/ Len(b) >= 2 /\ r = "broken" /\ c = 1 /\ Decode(b) = Frame(-1, NoRequest, From(b, 1))
        \/ Len(b) >= m /\ Decode(b) = Frame(1, r, From(b, m))
    BY <1>6, <2>2, <2>3, <2>4, DecodeFinds
  <2> HIDE DEF m
  <2>6. CASE Len(b) < m /\ Decode(b) = Frame(0, NoRequest, b)
    <3>1. q # <<>> /\ Len(b) + 1 \in 1..m
      BY <1>2, <1>4, <2>2, <2>6
    <3>2. q[1].id = h + 1
      BY <1>3, <2>2, <3>1
    <3> QED  BY <2>6, <3>1, <3>2 DEF Decoded, Due
  <2>7. CASE Len(b) >= 2 /\ r = "broken" /\ c = 1 /\ Decode(b) = Frame(-1, NoRequest, From(b, 1))
    <3>1. 1 \in 0..Len(s) /\ 1 \in 0..Len(b) /\ 1 < Len(s) /\ 1 # Len(s) /\ 2 \in 1..m
      BY <1>2, <2>2, <2>7
    <3>2. s[1 + 1].id = h + 1 /\ f[1 + 1] = 2 /\ s[1 + 1].r = "broken"
      BY <2>2, <2>7, <3>1
    <3>3. \E g : Layout(From(s, 1), g, snt, h)
      BY <1>1, <3>1, <3>2, LayoutDrops, Zenon
    <3>4. Dropped(b, q, 1) /\ From(b, 1) \in Seq(Pieces)
      BY <3>1, DropsFront
    <3>5. Streams(From(b, 1), q, snt, h)
      BY <3>3, <3>4, Zenon DEF Streams, Dropped, s
    <3> QED  BY <2>7, <3>4, <3>5, Zenon DEF Decoded
  <2>8. CASE Len(b) >= m /\ Decode(b) = Frame(1, r, From(b, m))
    <3>1. m \in 0..Len(s) /\ m \in 0..Len(b) /\ (h + 1) + 1 = h + 2
      BY <1>2, <2>2, <2>8
    <3>2. m = Len(s) => h + 1 = Len(snt)
      BY <2>2
    <3>3. m < Len(s) => s[m + 1].id = (h + 1) + 1 /\ f[m + 1] = 1
      BY <2>2, <3>1
    <3>4. \E g : Layout(From(s, m), g, snt, h + 1)
      BY <1>1, <3>1, <3>2, <3>3, LayoutDrops
    <3>5. Dropped(b, q, m) /\ From(b, m) \in Seq(Pieces)
      BY <3>1, DropsFront
    <3>6. Streams(From(b, m), q, snt, h + 1)
      BY <3>4, <3>5, Zenon DEF Streams, Dropped, s
    <3> QED  BY <2>2, <2>8, <3>5, <3>6, Zenon DEF Decoded, r
  <2> QED  BY <2>5, <2>6, <2>7, <2>8
<1> QED  BY <1>5, <1>6
-----------------------------------------------------------------------------
(***************************************************************************)
(* The invariant of the decoder: what it keeps, and what is not read yet,  *)
(* are the requests still to be handled; a closed channel has dropped what *)
(* it kept.                                                                *)
(***************************************************************************)
InOrder ==
  /\ sent \in Seq(Requests) /\ handled \in Seq(Requests)
  /\ Len(sent) <= MaxRequests /\ Len(handled) <= Len(sent)
  /\ \A i \in 1..Len(handled) : handled[i] = sent[i]

Behind(q, snt, h) ==
  /\ Ordered(q)
  /\ \A j \in 1..Len(q) : q[j].id \in (h + 1)..Len(snt)

Buffers ==
  /\ inbox \in Seq(Pieces) /\ input \in Seq(Pieces) /\ cumulation \in Seq(Pieces)
  /\ decoding \in {"no", "input", "cumulation"}
  /\ decoding # "input" => input = <<>>
  /\ decoding = "input" => cumulation = <<>>

Kept ==
  \/ Streams(Buffer, inbox, sent, Len(handled))
  \/ ~ch.open /\ decoding = "no"

QInv ==
  /\ InOrder /\ Buffers /\ Kept
  /\ Behind(inbox, sent, Len(handled))
  /\ decoding = "no" => Due(inbox, sent, Len(handled))

LEMMA QFacts ==
  ASSUME QInv
  PROVE  /\ Len(sent) \in Nat /\ Len(handled) \in Nat
         /\ sent \in Seq(Requests) /\ inbox \in Seq(Pieces) /\ Buffer \in Seq(Pieces)
         /\ decoding # "no" => Streams(Buffer, inbox, sent, Len(handled))
         /\ ch.open => Streams(Buffer, inbox, sent, Len(handled))
BY LenProperties DEF QInv, InOrder, Buffers, Kept, Buffer

LEMMA StreamsBehind ==
  ASSUME NEW b \in Seq(Pieces), NEW q \in Seq(Pieces), NEW snt \in Seq(Requests), NEW h \in Nat,
         Streams(b, q, snt, h)
  PROVE  Behind(q, snt, h)
<1> DEFINE s == b \o q
<1>1. PICK f : Layout(s, f, snt, h)
  BY DEF Streams
<1>2. s \in Seq(Pieces) /\ Len(s) \in Nat /\ Len(b) \in Nat /\ Len(q) \in Nat
      /\ Len(s) = Len(b) + Len(q)
      /\ (\A k \in 1..Len(q) : s[Len(b) + k] = q[k])
  BY LenProperties, ConcatProperties
<1> HIDE DEF s
<1>3. \A k \in 1..Len(q) : Len(b) + k \in 1..Len(s) /\ 1 \in 1..Len(s) /\ s # <<>>
  <2>1. \A k \in 1..Len(q) : Len(b) + k \in 1..Len(s) /\ 1 \in 1..Len(s)
    BY <1>2
  <2> QED  BY <2>1
<1>4. Ordered(q)
  <2>1. SUFFICES ASSUME NEW j \in 1..Len(q), NEW k \in 1..Len(q), j <= k PROVE q[j].id <= q[k].id
    BY DEF Ordered
  <2>2. Len(b) + j <= Len(b) + k
    BY <1>2, <2>1
  <2>3. s[Len(b) + j].id <= s[Len(b) + k].id
    BY <1>1, <1>3, <2>2 DEF Layout, Ordered
  <2> QED  BY <1>2, <2>3
<1>5. \A j \in 1..Len(q) : q[j].id \in (h + 1)..Len(snt)
  <2>1. SUFFICES ASSUME NEW j \in 1..Len(q) PROVE s[Len(b) + j].id \in (h + 1)..Len(snt)
    BY <1>2
  <2>2. s[Len(b) + j].id \in 1..Len(snt)
    BY <1>1, <1>3 DEF Layout, Parts
  <2>3. 1 <= Len(b) + j
    BY <1>2
  <2>4. s[1].id <= s[Len(b) + j].id /\ s[1].id = h + 1
    BY <1>1, <1>3, <2>3 DEF Layout, Ordered, Outer
  <2> QED  BY <2>2, <2>4
<1> QED  BY <1>4, <1>5 DEF Behind

\* A step of the decoder, which takes what it finds in front.
LEMMA ConsumeSteps ==
  ASSUME QInv, decoding # "no", NEW t \in Seq(Pieces), Consume(t),
         handled' \in Seq(Requests), Len(handled') <= Len(sent),
         \A i \in 1..Len(handled') : handled'[i] = sent[i],
         Streams(t, inbox, sent, Len(handled'))
  PROVE  QInv'
<1>1. UNCHANGED <<sent, inbox, decoding>> /\ Buffer' = t
  BY DEF Consume, Buffer
<1>2. InOrder'
  BY <1>1 DEF QInv, InOrder
<1>3. Buffers'
  BY <1>1 DEF QInv, Buffers, Consume
<1>4. Streams(Buffer, inbox, sent, Len(handled))'
  BY <1>1
<1>5. Behind(inbox, sent, Len(handled))'
  <2>1. Len(handled') \in Nat /\ inbox \in Seq(Pieces) /\ sent \in Seq(Requests)
    BY LenProperties, QFacts
  <2>2. Behind(inbox, sent, Len(handled'))
    BY <2>1, StreamsBehind
  <2> QED  BY <1>1, <2>2
<1> QED  BY <1>1, <1>2, <1>3, <1>4, <1>5 DEF QInv, Kept

LEMMA DecodedNow ==
  ASSUME QInv, decoding # "no"
  PROVE  Decoded(Buffer, inbox, sent, Len(handled))
BY QFacts, DecodeFront

LEMMA FrameFields ==
  ASSUME NEW x, NEW r, NEW t
  PROVE  Frame(x, r, t).ret = x /\ Frame(x, r, t).r = r /\ Frame(x, r, t).rest = t
BY DEF Frame

LEMMA DiscardSteps ==
  ASSUME QInv, Discard
  PROVE  QInv'
<1> DEFINE b == Buffer
           h == Len(handled)
<1>1. /\ decoding # "no" /\ Decode(b).ret # 1 /\ Decode(b).rest # b /\ Consume(Decode(b).rest)
      /\ handled' = handled
  BY DEF Discard
<1>2. Decoded(b, inbox, sent, h)
  BY <1>1, DecodedNow
<1> HIDE DEF b, h
<1>3. PICK t \in Seq(Pieces) : Decode(b) = Frame(-1, NoRequest, t) /\ Streams(t, inbox, sent, h)
  BY <1>1, <1>2, FrameFields DEF Decoded
<1>4. Consume(t)
  BY <1>1, <1>3, FrameFields
<1>5. Streams(t, inbox, sent, Len(handled'))
  BY <1>1, <1>3 DEF h
<1>6. handled' \in Seq(Requests) /\ Len(handled') <= Len(sent) /\ \A i \in 1..Len(handled') : handled'[i] = sent[i]
  BY <1>1 DEF QInv, InOrder
<1> QED  BY <1>1, <1>4, <1>5, <1>6, ConsumeSteps

LEMMA MessageReceivedSteps ==
  ASSUME QInv, NEW n, MessageReceived(n)
  PROVE  QInv' /\ \E r : Execute(r, n)
<1> DEFINE b == Buffer
           h == Len(handled)
           f == Decode(b)
<1>1. /\ decoding # "no" /\ f.ret = 1 /\ Consume(f.rest)
      /\ handled' = Append(handled, f.r) /\ Execute(f.r, n)
  BY DEF MessageReceived
<1>2. Decoded(b, inbox, sent, h)
  BY <1>1, DecodedNow
<1> HIDE DEF b, h
<1>3. PICK t \in Seq(Pieces) : /\ Decode(b) = Frame(1, sent[h + 1], t)
                               /\ h + 1 \in 1..Len(sent) /\ Streams(t, inbox, sent, h + 1)
  BY <1>1, <1>2, FrameFields DEF Decoded
<1>4. Consume(t) /\ handled' = Append(handled, sent[h + 1])
  BY <1>1, <1>3, FrameFields
<1>5. /\ handled \in Seq(Requests) /\ sent \in Seq(Requests) /\ sent[h + 1] \in Requests /\ h \in Nat
      /\ \A i \in 1..h : handled[i] = sent[i]
  BY <1>3, ElementOfSeq, LenProperties DEF QInv, InOrder, h
<1>6. handled' \in Seq(Requests) /\ Len(handled') = h + 1 /\ handled'[h + 1] = sent[h + 1]
      /\ \A i \in 1..h : handled'[i] = handled[i]
  BY <1>4, <1>5, AppendProperties DEF h
<1>7. \A i \in 1..Len(handled') : handled'[i] = sent[i]
  <2>1. SUFFICES ASSUME NEW i \in 1..(h + 1) PROVE handled'[i] = sent[i]
    BY <1>6
  <2>2. i \in 1..h \/ i = h + 1
    BY <1>5
  <2> QED  BY <1>5, <1>6, <2>2
<1>8. Streams(t, inbox, sent, Len(handled')) /\ Len(handled') <= Len(sent)
  BY <1>3, <1>6
<1>9. QInv'
  BY <1>1, <1>4, <1>6, <1>7, <1>8, ConsumeSteps
<1> QED  BY <1>1, <1>9

LEMMA CallEndsSteps ==
  ASSUME QInv, CallEnds
  PROVE  QInv' /\ UNCHANGED channelVars
<1> DEFINE b == Buffer
           h == Len(handled)
<1>1. /\ decoding # "no" /\ Decode(b).ret = 0
      /\ decoding' = "no" /\ input' = <<>>
      /\ cumulation' = IF decoding = "input" THEN input ELSE IF ch.open THEN cumulation ELSE <<>>
      /\ UNCHANGED <<channelVars, sent, inbox, handled>>
  BY DEF CallEnds
<1>2. Decoded(b, inbox, sent, h)
  BY <1>1, DecodedNow
<1>3. Due(inbox, sent, h)
  <2> HIDE DEF b, h
  <2> QED  BY <1>1, <1>2, FrameFields DEF Decoded
<1>4. Buffers'
  BY <1>1, EmptySeq DEF QInv, Buffers
<1>5. Kept'
  <2>1. ch' = ch
    BY <1>1 DEF channelVars
  <2>2. CASE decoding = "input" \/ ch.open
    <3>1. Buffer' = Buffer
      BY <1>1, <2>2 DEF Buffer
    <3>2. Streams(Buffer, inbox, sent, h)
      BY <1>1, QFacts
    <3>3. Streams(Buffer, inbox, sent, Len(handled))'
      BY <1>1, <3>1, <3>2
    <3> QED  BY <3>3 DEF Kept
  <2>3. CASE ~ch.open
    BY <1>1, <2>1, <2>3 DEF Kept
  <2> QED  BY <2>2, <2>3
<1>6. InOrder' /\ Behind(inbox, sent, Len(handled))' /\ Due(inbox, sent, Len(handled))'
  BY <1>1, <1>3 DEF QInv, InOrder
<1> QED  BY <1>1, <1>4, <1>5, <1>6 DEF QInv

LEMMA OnReadSteps ==
  ASSUME CInv, QInv, NEW n, OnRead(n)
  PROVE  QInv' /\ UNCHANGED channelVars
<1>1. /\ ch.readable /\ decoding = "no" /\ n \in 1..Len(inbox) /\ inbox' = From(inbox, n)
      /\ UNCHANGED <<channelVars, sent, handled>>
  BY DEF OnRead
<1>2. ch.open
  BY <1>1, CFacts DEF Fit
<1>3. /\ Streams(cumulation, inbox, sent, Len(handled)) /\ inbox \in Seq(Pieces)
      /\ cumulation \in Seq(Pieces) /\ input \in Seq(Pieces) /\ input = <<>>
      /\ Len(handled) \in Nat /\ sent \in Seq(Requests)
  BY <1>1, <1>2, QFacts DEF QInv, Buffers, Buffer
<1> DEFINE p == Prefix(inbox, n)
           q == From(inbox, n)
<1>4. Splits(inbox, n) /\ p \in Seq(Pieces) /\ q \in Seq(Pieces)
  <2>1. n \in 0..Len(inbox)
    BY <1>1, <1>3, LenProperties
  <2> QED  BY <1>3, <2>1, Pieced
<1>5. p \o q = inbox
  BY <1>4, Zenon DEF Splits
<1> HIDE DEF p, q
<1>6. /\ Buffer' \in Seq(Pieces) /\ Buffer' \o q = cumulation \o inbox
      /\ input' \in Seq(Pieces) /\ cumulation' \in Seq(Pieces)
      /\ (decoding' = "input" /\ cumulation' = <<>>) \/ (decoding' = "cumulation" /\ input' = <<>>)
  <2>1. CASE cumulation # <<>>
    <3>1. cumulation' = cumulation \o p /\ decoding' = "cumulation" /\ input' = input
      BY <2>1, Zenon DEF OnRead, p
    <3>2. Assoc(cumulation, p, q) /\ cumulation \o p \in Seq(Pieces)
      BY <1>3, <1>4, Associates, ConcatProperties
    <3>3. (cumulation \o p) \o q = cumulation \o inbox
      BY <1>5, <3>2, Zenon DEF Assoc
    <3>4. Buffer' = cumulation \o p
      BY <3>1 DEF Buffer
    <3> QED  BY <1>3, <3>1, <3>2, <3>3, <3>4, Zenon
  <2>2. CASE cumulation = <<>>
    <3>1. input' = p /\ decoding' = "input" /\ cumulation' = cumulation
      BY <2>2 DEF OnRead, p
    <3>2. Buffer' = p
      BY <3>1 DEF Buffer
    <3>3. cumulation \o inbox = inbox
      BY <1>3, <2>2, ConcatEmptySeq
    <3> QED  BY <1>3, <1>4, <1>5, <2>2, <3>1, <3>2, <3>3, Zenon
  <2> QED  BY <2>1, <2>2
<1>7. Buffers'
  BY <1>1, <1>4, <1>6 DEF Buffers, q
<1>8. Streams(Buffer', q, sent, Len(handled))
  BY <1>3, <1>6, Zenon DEF Streams
<1>9. Behind(q, sent, Len(handled))
  BY <1>3, <1>4, <1>6, <1>8, StreamsBehind
<1>10. /\ InOrder' /\ Streams(Buffer, inbox, sent, Len(handled))'
       /\ Behind(inbox, sent, Len(handled))'
  BY <1>1, <1>8, <1>9 DEF QInv, InOrder, q
<1> QED  BY <1>1, <1>6, <1>7, <1>10 DEF QInv, Kept

LEMMA BehindAppends ==
  ASSUME NEW q \in Seq(Pieces), NEW snt \in Seq(Requests), NEW h \in Nat, NEW r \in Requests,
         Len(snt) < MaxRequests, h <= Len(snt), Behind(q, snt, h)
  PROVE  LET e == Sending(r, Len(snt) + 1)
         IN  /\ e \in Seq(Pieces) /\ q \o e \in Seq(Pieces)
             /\ Behind(q \o e, Append(snt, r), h)
             /\ Due(q, snt, h) => Due(q \o e, Append(snt, r), h)
<1> DEFINE n == Len(snt) + 1
           z == Size(r)
           e == Sending(r, n)
           t == q \o e
           sn == Append(snt, r)
<1>1. Len(snt) \in Nat /\ Len(q) \in Nat /\ z \in 2..3 /\ n \in 1..MaxRequests
  BY LenProperties, ConnectionAssumption DEF Size
<1>2. e \in Seq(Pieces) /\ Len(e) = z /\ \A i \in 1..z : e[i].id = n
  <2>1. \A i \in 1..z : [p |-> Part(r, i), r |-> r, id |-> n] \in Pieces
    BY <1>1 DEF Pieces, Part
  <2> HIDE DEF z, n
  <2>2. e = [i \in 1..z |-> [p |-> Part(r, i), r |-> r, id |-> n]] /\ z \in Nat
    BY <1>1 DEF Sending, z
  <2> QED  BY <2>1, <2>2
<1>3. Len(sn) = n
  BY <1>1, AppendProperties
<1> HIDE DEF e, z, sn
<1>4. /\ t \in Seq(Pieces) /\ Len(t) = Len(q) + z
      /\ \A k \in 1..(Len(q) + z) : t[k] = IF k <= Len(q) THEN q[k] ELSE e[k - Len(q)]
  BY <1>2, ConcatProperties
<1> HIDE DEF t
<1>5. \A k \in 1..(Len(q) + z) : k > Len(q) => t[k].id = n
  <2>1. SUFFICES ASSUME NEW k \in 1..(Len(q) + z), k > Len(q) PROVE t[k].id = n
    OBVIOUS
  <2>2. k - Len(q) \in 1..z /\ ~(k <= Len(q))
    BY <1>1, <2>1
  <2> QED  BY <1>2, <1>4, <2>2
<1>6. \A k \in 1..(Len(q) + z) : k <= Len(q) => k \in 1..Len(q) /\ t[k] = q[k]
  BY <1>1, <1>4
<1>7. \A k \in 1..(Len(q) + z) : t[k].id \in (h + 1)..n
  <2>1. SUFFICES ASSUME NEW k \in 1..(Len(q) + z) PROVE t[k].id \in (h + 1)..n
    OBVIOUS
  <2>2. CASE k <= Len(q)
    <3>1. t[k].id \in (h + 1)..Len(snt)
      BY <1>6, <2>2 DEF Behind
    <3> QED  BY <1>1, <3>1
  <2>3. CASE k > Len(q)
    <3>1. t[k].id = n
      BY <1>5, <2>3
    <3> QED  BY <1>1, <3>1
  <2> QED  BY <1>1, <2>2, <2>3
<1>8. Ordered(t)
  <2>1. SUFFICES ASSUME NEW j \in 1..(Len(q) + z), NEW k \in 1..(Len(q) + z), j <= k
                 PROVE  t[j].id <= t[k].id
    BY <1>4 DEF Ordered
  <2>2. CASE k <= Len(q)
    <3>1. j <= Len(q)
      BY <1>1, <2>1, <2>2
    <3>2. q[j].id <= q[k].id
      BY <1>6, <2>1, <2>2, <3>1 DEF Behind, Ordered
    <3> QED  BY <1>6, <2>2, <3>1, <3>2
  <2>3. CASE k > Len(q)
    <3>1. t[k].id = n /\ t[j].id \in (h + 1)..n
      BY <1>5, <1>7, <2>3
    <3> QED  BY <1>1, <3>1
  <2> QED  BY <1>1, <2>2, <2>3
<1>9. Behind(t, sn, h)
  BY <1>3, <1>4, <1>7, <1>8 DEF Behind
<1>10. Due(q, snt, h) => Due(t, sn, h)
  <2>1. t # <<>> /\ 1 \in 1..(Len(q) + z)
    BY <1>1, <1>4, EmptySeq
  <2>2. SUFFICES ASSUME Due(q, snt, h) PROVE t[1].id = h + 1
    BY <2>1 DEF Due
  <2>3. CASE q = <<>>
    <3>1. Len(q) = 0 /\ h = Len(snt)
      BY <2>2, <2>3 DEF Due
    <3> QED  BY <1>5, <2>1, <3>1
  <2>4. CASE q # <<>>
    <3>1. 1 <= Len(q)
      BY <1>1, <2>4, EmptySeq
    <3> QED  BY <1>6, <2>1, <2>2, <2>4, <3>1 DEF Due
  <2> QED  BY <2>3, <2>4
<1> QED  BY <1>2, <1>4, <1>9, <1>10 DEF t, e, sn

LEMMA PeerSendsSteps ==
  ASSUME QInv, NEW r \in Requests, PeerSends(r)
  PROVE  QInv' /\ UNCHANGED channelVars
<1> DEFINE n == Len(sent) + 1
           e == Sending(r, n)
           h == Len(handled)
           sn == Append(sent, r)
           q == inbox \o e
<1>1. Len(sent) < MaxRequests /\ sent' = sn
      /\ UNCHANGED <<channelVars, input, cumulation, decoding, handled>>
  BY DEF PeerSends
<1>2. /\ sent \in Seq(Requests) /\ Len(sent) \in Nat /\ h \in Nat /\ inbox \in Seq(Pieces)
      /\ Buffer \in Seq(Pieces) /\ h <= Len(sent) /\ Behind(inbox, sent, h) /\ handled \in Seq(Requests)
  BY QFacts DEF QInv, InOrder
<1>3. sn \in Seq(Requests) /\ Len(sn) = n /\ \A i \in 1..Len(sent) : sn[i] = sent[i]
  BY <1>2, AppendProperties
<1>4. inbox' = q
  <2>1. r \in Kinds /\ Len(sent') = n
    BY <1>1, <1>3, ConnectionAssumption DEF Kinds
  <2>2. [i \in DOMAIN Encode(r) |-> [p |-> Encode(r)[i].p, r |-> r, id |-> Len(sent')]] = e
    <3>1. DOMAIN Encode(r) = 1..Size(r) /\ \A k \in 1..Size(r) : Encode(r)[k].p = Part(r, k)
      BY <2>1, Encodes
    <3> HIDE DEF n
    <3> QED  BY <2>1, <3>1 DEF Sending
  <2> HIDE DEF e
  <2> QED  BY <2>2, Zenon DEF PeerSends
<1>5. /\ e \in Seq(Pieces) /\ q \in Seq(Pieces) /\ Behind(q, sn, h)
      /\ Due(inbox, sent, h) => Due(q, sn, h)
  BY <1>1, <1>2, BehindAppends
<1>6. Streams(Buffer, inbox, sent, h) => Streams(Buffer, q, sn, h)
  <2>1. SUFFICES ASSUME NEW f, Layout(Buffer \o inbox, f, sent, h)
                 PROVE  \E g : Layout(Buffer \o q, g, sn, h)
    BY DEF Streams
  <2>2. \E g : Layout((Buffer \o inbox) \o e, g, sn, h)
    BY <1>1, <1>2, <2>1, LayoutAppends
  <2>3. Assoc(Buffer, inbox, e)
    BY <1>2, <1>5, Associates
  <2> QED  BY <2>2, <2>3, Zenon DEF Assoc
<1> HIDE DEF e, q
<1>7. Kept'
  <2>1. Buffer' = Buffer /\ ch' = ch
    BY <1>1 DEF Buffer, channelVars
  <2> QED  BY <1>1, <1>4, <1>6, <2>1 DEF QInv, Kept
<1>8. Buffers'
  BY <1>1, <1>4, <1>5 DEF QInv, Buffers
<1>9. InOrder'
  <2>1. n <= MaxRequests /\ h <= n /\ \A i \in 1..h : i \in 1..Len(sent)
    BY <1>1, <1>2, ConnectionAssumption
  <2> QED  BY <1>1, <1>2, <1>3, <2>1 DEF QInv, InOrder
<1>10. Behind(inbox, sent, Len(handled))' /\ (decoding' = "no" => Due(inbox, sent, Len(handled))')
  BY <1>1, <1>4, <1>5 DEF QInv
<1> QED  BY <1>1, <1>7, <1>8, <1>9, <1>10 DEF QInv

LEMMA CleanupSteps ==
  ASSUME QInv, decoding = "no", ch.open, Cleanup
  PROVE  QInv'
<1>1. /\ cumulation' = IF ch'.open THEN cumulation ELSE <<>>
      /\ UNCHANGED <<sent, inbox, input, decoding, handled>>
  BY DEF Cleanup
<1>2. Buffers'
  BY <1>1, EmptySeq DEF QInv, Buffers
<1>3. Kept'
  <2>1. CASE ch'.open
    <3>1. Buffer' = Buffer
      BY <1>1, <2>1 DEF Buffer
    <3>2. Streams(Buffer, inbox, sent, Len(handled))
      BY QFacts
    <3>3. Streams(Buffer, inbox, sent, Len(handled))'
      BY <1>1, <3>1, <3>2
    <3> QED  BY <3>3 DEF Kept
  <2>2. CASE ~ch'.open
    BY <1>1, <2>2 DEF Kept
  <2> QED  BY <2>1, <2>2
<1> QED  BY <1>1, <1>2, <1>3 DEF QInv, InOrder

LEMMA SameRequests ==
  ASSUME QInv, UNCHANGED requestVars, ch' = ch
  PROVE  QInv'
<1>1. Buffer' = Buffer
  BY DEF requestVars, Buffer
<1> QED  BY <1>1 DEF requestVars, QInv, InOrder, Buffers, Kept

\* Every step keeps both parts, and closes no channel with output left to send.
LEMMA NextSteps ==
  ASSUME CInv, QInv, [Next]_vars
  PROVE  CNext /\ QInv'
<1>1. ASSUME NEW r \in Requests, PeerSends(r) PROVE CNext /\ QInv'
  BY <1>1, PeerSendsSteps, StutterSteps
<1>2. ASSUME NEW n, OnRead(n) PROVE CNext /\ QInv'
  BY <1>2, OnReadSteps, StutterSteps
<1>3. CASE CallEnds
  BY <1>3, CallEndsSteps, StutterSteps
<1>4. CASE Discard
  <2>1. UNCHANGED channelVars
    BY <1>4 DEF Discard
  <2> QED  BY <1>4, <2>1, DiscardSteps, StutterSteps
<1>5. ASSUME NEW n \in Sizes, MessageReceived(n) PROVE CNext /\ QInv'
  <2>1. n \in Nat
    BY ChannelAssumption
  <2>2. QInv' /\ \E r : Execute(r, n)
    BY <1>5, MessageReceivedSteps
  <2> QED  BY <2>1, <2>2, ExecuteSteps
<1>6. CASE decoding = "no" /\ OutputNext /\ Cleanup
  <2>1. CNext /\ ch.open
    BY <1>6, OutputSteps
  <2> QED  BY <1>6, <2>1, CleanupSteps
<1>7. CASE PeerReads /\ UNCHANGED requestVars
  <2>1. ch' = ch
    BY <1>7 DEF PeerReads
  <2> QED  BY <1>7, <2>1, PeerReadsSteps, SameRequests
<1>8. CASE PeerLeaves /\ UNCHANGED requestVars
  <2>1. ch' = ch
    BY <1>8 DEF PeerLeaves
  <2> QED  BY <1>8, <2>1, PeerLeavesSteps, SameRequests
<1>9. CASE UNCHANGED vars
  <2>1. UNCHANGED channelVars /\ UNCHANGED requestVars /\ ch' = ch
    BY <1>9 DEF vars, channelVars
  <2> QED  BY <2>1, StutterSteps, SameRequests
<1> QED  BY <1>1, <1>2, <1>3, <1>4, <1>5, <1>6, <1>7, <1>8, <1>9 DEF Next

LEMMA InitInv ==
  ASSUME Init
  PROVE  CInv /\ QInv
<1>1. CInv
  BY ChannelInitInv DEF Init
<1>2. /\ sent = <<>> /\ inbox = <<>> /\ input = <<>> /\ cumulation = <<>> /\ handled = <<>>
      /\ decoding = "no" /\ Buffer = <<>>
  BY DEF Init, Buffer
<1>3. Streams(<<>>, <<>>, <<>>, 0)
  <2>1. <<>> \o <<>> = <<>> /\ Len(<<>>) = 0 /\ <<>> \in Seq(Pieces)
    BY EmptySeq
  <2>2. [k \in 1..0 |-> 0] \in [1..Len(<<>>) -> Nat]
    BY <2>1
  <2>3. Layout(<<>>, [k \in 1..0 |-> 0], <<>>, 0)
    BY <2>1, <2>2 DEF Layout, Parts, Joined, Ordered, Outer
  <2> QED  BY <2>1, <2>3 DEF Streams
<1>4. Len(<<>>) = 0 /\ <<>> \in Seq(Pieces) /\ <<>> \in Seq(Requests)
  BY EmptySeq
<1>5. InOrder /\ Buffers /\ Kept
  BY <1>2, <1>3, <1>4, ConnectionAssumption DEF InOrder, Buffers, Kept
<1>6. Behind(inbox, sent, Len(handled)) /\ Due(inbox, sent, Len(handled))
  BY <1>2, <1>4 DEF Behind, Due, Ordered
<1> QED  BY <1>1, <1>5, <1>6 DEF QInv
-----------------------------------------------------------------------------
(***************************************************************************)
(* Theorems.                                                               *)
(***************************************************************************)

\* CInv and QInv, which relate what the peer got to what was accepted and what
\* is buffered to what the peer asked for, are invariants.
THEOREM ConnectionInvariant == Spec => [](CInv /\ QInv)
<1>1. CInv /\ QInv /\ [Next]_vars => (CInv /\ QInv)'
  BY NextSteps DEF CNext
<1> QED  BY <1>1, InitInv, PTL DEF Spec

\* In every state every variable has its type, whatever an open channel still
\* has to send or to close is watched for, and a subscriber that missed a
\* message is on its way to be closed (Write, Flush, DoClose).
THEOREM ChannelTheorem == Spec => []ChannelConsistent
<1>1. CInv /\ QInv => ChannelConsistent
  <2> SUFFICES ASSUME CInv, QInv PROVE ChannelConsistent
    OBVIOUS
  <2>1. ChannelTypeOK
    BY DEF CInv, Fit, Chan, Socket, ChannelTypeOK
  <2>2. TypeOK
    BY <2>1 DEF TypeOK, QInv, InOrder, Buffers
  <2> QED  BY <2>2 DEF CInv, ChannelConsistent
<1> QED  BY <1>1, ConnectionInvariant, PTL

\* In every state what the peer has read and what is in the socket are a
\* beginning of what writes have accepted, and with the buffer and the rest of
\* the file all of it while the channel is open (WriteNow, DoFlush, OnWrite).
THEOREM IntactTheorem == Spec => []Intact
<1>1. CInv /\ QInv => Intact
  BY DEF CInv
<1> QED  BY <1>1, ConnectionInvariant, PTL

\* No step closes a channel whose peer is there with output left in its buffer
\* (Close, close_after_write).
THEOREM CloseTheorem == Spec => CloseFlushes
<1>1. CInv /\ QInv /\ [Next]_vars
        => [ch.open /\ ~ch'.open /\ peer = "up" => ch'.output = <<>>]_channelVars
  BY NextSteps DEF CNext
<1> QED  BY <1>1, ConnectionInvariant, PTL DEF Spec, CloseFlushes

LEMMA ArrivedBefore ==
  ASSUME QInv
  PROVE  /\ inbox = <<>> => Arrived = 1..Len(sent)
         /\ inbox # <<>> => /\ Arrived = 1..(inbox[1].id - 1)
                            /\ inbox[1].id \in (Len(handled) + 1)..Len(sent)
<1>1. /\ Len(sent) \in Nat /\ Len(handled) \in Nat /\ DOMAIN sent = 1..Len(sent)
      /\ DOMAIN inbox = 1..Len(inbox) /\ Len(inbox) \in Nat /\ inbox \in Seq(Pieces)
  BY QFacts, LenProperties
<1>2. Ordered(inbox) /\ \A j \in 1..Len(inbox) : inbox[j].id \in (Len(handled) + 1)..Len(sent)
  BY DEF QInv, Behind
<1>3. CASE inbox = <<>>
  <2>1. \A i \in DOMAIN sent : \A j \in DOMAIN inbox : inbox[j].id > i
    BY <1>1, <1>3, EmptySeq
  <2> QED  BY <1>1, <1>3, <2>1 DEF Arrived
<1>4. CASE inbox # <<>>
  <2> DEFINE a == inbox[1].id
  <2>1. 1 \in 1..Len(inbox)
    BY <1>1, <1>4, EmptySeq
  <2>2. a \in (Len(handled) + 1)..Len(sent) /\ a \in Nat
    BY <1>1, <1>2, <2>1
  <2>3. \A j \in 1..Len(inbox) : a <= inbox[j].id /\ inbox[j].id \in Nat
    <3>1. SUFFICES ASSUME NEW j \in 1..Len(inbox) PROVE a <= inbox[j].id /\ inbox[j].id \in Nat
      OBVIOUS
    <3>2. 1 <= j
      BY <1>1
    <3> QED  BY <1>1, <1>2, <2>1, <3>2 DEF Ordered
  <2> HIDE DEF a
  <2>4. \A i \in 1..Len(sent) : (\A j \in 1..Len(inbox) : inbox[j].id > i) <=> i < a
    <3>1. SUFFICES ASSUME NEW i \in 1..Len(sent)
                   PROVE  (\A j \in 1..Len(inbox) : inbox[j].id > i) <=> i < a
      OBVIOUS
    <3>2. ASSUME \A j \in 1..Len(inbox) : inbox[j].id > i PROVE i < a
      BY <1>1, <2>1, <2>2, <3>2 DEF a
    <3>3. ASSUME i < a, NEW j \in 1..Len(inbox) PROVE inbox[j].id > i
      BY <1>1, <2>2, <2>3, <3>3
    <3> QED  BY <3>2, <3>3
  <2>5. Arrived = {i \in 1..Len(sent) : i < a}
    BY <1>1, <2>4 DEF Arrived
  <2>6. {i \in 1..Len(sent) : i < a} = 1..(a - 1)
    BY <1>1, <2>2
  <2> QED  BY <1>4, <2>2, <2>5, <2>6 DEF a
<1> QED  BY <1>3, <1>4

\* In every state the requests handled are those the peer sent, each once,
\* whole and in order, however the stream was cut, and between two calls of the
\* decoder none that has arrived is left behind (Decode, CallDecode).
THEOREM FramedTheorem == Spec => []Framed
<1>1. CInv /\ QInv => Framed
  <2> SUFFICES ASSUME QInv PROVE Framed
    OBVIOUS
  <2> DEFINE h == Len(handled)
             l == Len(sent)
  <2>1. h \in Nat /\ l \in Nat /\ h <= l /\ sent \in Seq(Requests) /\ handled \in Seq(Requests)
        /\ \A i \in 1..h : handled[i] = sent[i]
    BY LenProperties DEF QInv, InOrder
  <2>2. IsPrefix(handled, sent)
    <3>1. SubSeq(handled, 1, h) = handled /\ SubSeq(sent, 1, h) = handled
      <4>1. SubSeq(handled, 1, h) = handled
        BY <2>1, SubSeqFull
      <4>2. SubSeq(sent, 1, h) \in Seq(Requests) /\ Len(SubSeq(sent, 1, h)) = h
            /\ \A i \in 1..h : SubSeq(sent, 1, h)[i] = sent[i]
        <5>1. h \in 0..l
          BY <2>1
        <5> HIDE DEF h, l
        <5> QED  BY <2>1, <5>1, Pieced DEF Prefix, l
      <4>3. SubSeq(sent, 1, h) = handled
        BY <2>1, <4>2, SeqEqual
      <4> QED  BY <4>1, <4>3
    <3> QED  BY <2>1, <3>1 DEF IsPrefix
  <2>3. Cardinality(1..l) = l /\ \A a \in 1..l : Cardinality(1..(a - 1)) = a - 1
    <3>1. Cardinality(1..l) = l
      <4>1. l \in Int /\ 1 \in Int
        BY <2>1
      <4>2. Cardinality(1..l) = IF 1 > l THEN 0 ELSE l - 1 + 1
        BY <4>1, FS_Interval
      <4> QED  BY <2>1, <4>2
    <3>2. ASSUME NEW a \in 1..l PROVE Cardinality(1..(a - 1)) = a - 1
      <4>1. a - 1 \in Int /\ 1 \in Int
        BY <2>1
      <4>2. Cardinality(1..(a - 1)) = IF 1 > a - 1 THEN 0 ELSE (a - 1) - 1 + 1
        BY <4>1, FS_Interval
      <4> QED  BY <2>1, <4>2
    <3> QED  BY <3>1, <3>2
  <2>4. CASE inbox = <<>>
    <3>1. Cardinality(Arrived) = l
      BY <2>3, <2>4, ArrivedBefore
    <3>2. decoding = "no" => h = l
      BY <2>4 DEF QInv, Due
    <3> QED  BY <2>1, <2>2, <3>1, <3>2 DEF Framed
  <2>5. CASE inbox # <<>>
    <3> DEFINE a == inbox[1].id
    <3>1. Arrived = 1..(a - 1) /\ a \in (h + 1)..l
      BY <2>5, ArrivedBefore
    <3>2. decoding = "no" => a = h + 1
      BY <2>5 DEF QInv, Due
    <3> HIDE DEF a
    <3>3. Cardinality(Arrived) = a - 1
      BY <2>1, <2>3, <3>1
    <3> QED  BY <2>1, <2>2, <3>1, <3>2, <3>3 DEF Framed
  <2> QED  BY <2>4, <2>5
<1> QED  BY <1>1, ConnectionInvariant, PTL
=============================================================================

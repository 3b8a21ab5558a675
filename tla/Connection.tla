----------------------------- MODULE Connection -----------------------------
(***************************************************************************)
(* A connection of the server as a whole: the socket channel (Channel),    *)
(* the decoder of requests (stack_frame_decoder.hpp,                       *)
(* redis_command_codec.cpp) and the handler they go to (network.cpp).      *)
(*                                                                         *)
(* The peer's requests are a stream that the loop reads in pieces: it may  *)
(* be cut anywhere.  A piece of the model is a line of the protocol, or an *)
(* argument with its line end; a cut within a piece is one before it, as   *)
(* the decoder takes no part of either.  CallDecode runs the handler for   *)
(* each request it finds, one after the other, with nothing else of the    *)
(* loop between them: one step of the model per request, for the peer may  *)
(* read, or leave, meanwhile.                                              *)
(***************************************************************************)
EXTENDS Channel, FiniteSets

CONSTANTS
  Requests,     \* what the peer may ask for
  MaxRequests   \* bound: requests sent

ASSUME ConnectionAssumption ==
  /\ Requests \subseteq {"ping", "quit", "subscribe", "block", "psync", "broken"}
  /\ MaxRequests \in Nat

VARIABLES
  sent,         \* the requests of the peer (history)
  inbox,        \* pieces sent and not yet read
  input,        \* m_inputBuffer, where a read has left more than was decoded
  cumulation,   \* m_cumulation: the beginning of a request, kept for later
  decoding,     \* what CallDecode runs on: "input", "cumulation", or "no"
  handled       \* requests that have reached the handler (history)

requestVars == <<sent, inbox, input, cumulation, decoding, handled>>
vars == <<channelVars, requestVars>>

Init ==
  /\ ChannelInit
  /\ sent = <<>> /\ inbox = <<>> /\ input = <<>> /\ cumulation = <<>> /\ handled = <<>>
  /\ decoding = "no"
-----------------------------------------------------------------------------
(***************************************************************************)
(* Requests and their encoding: a line typed by hand, an array of bulk     *)
(* strings, or an array whose argument is not a bulk string.               *)
(***************************************************************************)
Argc(r) == IF r = "subscribe" THEN 2 ELSE 1

Bulk(r) == <<[p |-> "*", r |-> r]>> \o [i \in 1..Argc(r) |-> [p |-> "$", r |-> r]]
Inline(r) == <<[p |-> "word", r |-> r], [p |-> "CRLF", r |-> r]>>

Encode(r) ==
  CASE r = "ping" -> Inline(r)
    [] r = "broken" -> <<[p |-> "*", r |-> r]>> \o Inline(r)
    [] OTHER -> Bulk(r)

PeerSends(r) ==
  /\ peer = "up" /\ Len(sent) < MaxRequests
  /\ "psync" \notin {sent[i] : i \in DOMAIN sent}
  /\ r = "psync" => \A i \in DOMAIN sent : sent[i] = "ping"
  /\ sent' = Append(sent, r)
  /\ inbox' = inbox \o [i \in DOMAIN Encode(r) |->
                          [p |-> Encode(r)[i].p, r |-> r, id |-> Len(sent')]]
  /\ UNCHANGED <<channelVars, input, cumulation, decoding, handled>>
-----------------------------------------------------------------------------
(***************************************************************************)
(* RedisCommandDecoder.  Decode yields ret: 1 with the request found, 0 if *)
(* more is needed, or -1 for a protocol error, and what is left to read.   *)
(***************************************************************************)
Frame(ret, r, rest) == [ret |-> ret, r |-> r, rest |-> rest]
NoRequest == "none"

\* The first place of buf, from the second on, where P holds; 0 if none.
FirstAt(buf, P(_)) ==
  LET at == {i \in 2..Len(buf) : P(buf[i])}
  IN  IF at = {} THEN 0 ELSE CHOOSE i \in at : \A j \in at : i <= j

IsLineEnd(piece) == piece.p = "CRLF"
NotBulk(piece) == piece.p # "$"

ProcessInlineBuffer(buf) ==
  LET i == FirstAt(buf, IsLineEnd)
  IN  IF i = 0 THEN Frame(0, NoRequest, buf) ELSE Frame(1, buf[1].r, From(buf, i))

ProcessMultibulkBuffer(buf) ==
  LET n == 1 + Argc(buf[1].r)
      i == FirstAt(Prefix(buf, Taken(n, Len(buf))), NotBulk)
  IN  IF i # 0 THEN Frame(-1, NoRequest, From(buf, i - 1))
      ELSE IF Len(buf) < n THEN Frame(0, NoRequest, buf)
      ELSE Frame(1, buf[1].r, From(buf, n))

\* Line ends between requests are skipped.
SkipLineEnds(buf) ==
  LET start == {i \in DOMAIN buf : ~IsLineEnd(buf[i])}
  IN  IF start = {} THEN <<>> ELSE From(buf, (CHOOSE i \in start : \A j \in start : i <= j) - 1)

\* (mutant of Decode: the read index is not set back)
DecodeForward(buf) ==
  LET b == SkipLineEnds(buf)
      f == IF b = <<>> THEN Frame(0, NoRequest, b)
           ELSE IF b[1].p = "*" THEN ProcessMultibulkBuffer(b) ELSE ProcessInlineBuffer(b)
  IN  IF f.ret = 0 THEN Frame(0, NoRequest, <<>>) ELSE f

Decode(buf) ==
  LET b == SkipLineEnds(buf)
  IN  IF b = <<>> THEN Frame(0, NoRequest, b)
      ELSE IF b[1].p = "*" THEN ProcessMultibulkBuffer(b) ELSE ProcessInlineBuffer(b)
-----------------------------------------------------------------------------
(***************************************************************************)
(* StackFrameDecoder.                                                      *)
(***************************************************************************)
\* OnRead and MessageReceived: what is read goes behind what was kept.
OnRead(n) ==
  /\ ch.readable /\ decoding = "no"
  /\ n \in 1..Len(inbox)
  /\ inbox' = From(inbox, n)
  /\ IF cumulation # <<>>
     THEN /\ cumulation' = cumulation \o Prefix(inbox, n)
          /\ decoding' = "cumulation"
          /\ UNCHANGED input
     ELSE /\ input' = Prefix(inbox, n)
          /\ decoding' = "input"
          /\ UNCHANGED cumulation
  /\ UNCHANGED <<channelVars, sent, handled>>

Buffer == IF decoding = "input" THEN input ELSE cumulation

Consume(rest) ==
  /\ IF decoding = "input" THEN input' = rest /\ UNCHANGED cumulation
                           ELSE cumulation' = rest /\ UNCHANGED input
  /\ UNCHANGED <<sent, inbox, decoding>>

\* (mutant of CallEnds: what is left of the input is not kept)
CallEndsEmpty ==
  /\ decoding # "no"
  /\ LET f == Decode(Buffer) IN f.ret = 0 /\ f.rest = Buffer
  /\ decoding' = "no"
  /\ input' = <<>>
  /\ cumulation' = IF decoding = "input" \/ ~ch.open THEN <<>> ELSE cumulation
  /\ UNCHANGED <<channelVars, sent, inbox, handled>>

\* No progress: more data is needed, and what is left of the input is kept.  A
\* channel closed meanwhile has run Cleanup, and Clear behind it.
CallEnds ==
  /\ decoding # "no"
  /\ LET f == Decode(Buffer) IN f.ret = 0 /\ f.rest = Buffer
  /\ decoding' = "no"
  /\ input' = <<>>
  /\ cumulation' = IF decoding = "input" THEN input
                   ELSE IF ch.open THEN cumulation ELSE <<>>
  /\ UNCHANGED <<channelVars, sent, inbox, handled>>

\* Line ends, or the part of a request that led to a protocol error, are gone;
\* nobody handles the exception, and decoding goes on behind them.
Discard ==
  /\ decoding # "no"
  /\ LET f == Decode(Buffer) IN f.ret # 1 /\ f.rest # Buffer /\ Consume(f.rest)
  /\ UNCHANGED <<channelVars, handled>>
-----------------------------------------------------------------------------
(***************************************************************************)
(* RedisRequestHandler::MessageReceived and the calls that matter to the   *)
(* connection.  What is called on a closed channel writes nothing.         *)
(***************************************************************************)
Replies(c, n) ==
  /\ Numbered
  /\ Takes(WriteNow(c, Message(n)), Message(n))
  /\ UNCHANGED <<peer, got, overflowed>>

\* Quit: its reply is not written.
Quit ==
  /\ ch' = Close(ch) /\ stranded' = FALSE
  /\ UNCHANGED <<wire, peer, got, accepted, overflowed, messages>>

\* An unknown command is answered, and the connection closed.
UnknownCommand(n) ==
  LET r == WriteNow(ch, Message(n))
  IN  /\ Numbered
      /\ Takes([r EXCEPT !.ch = Close(@)], Message(n))
      /\ UNCHANGED <<peer, got, overflowed>>

Subscribe(n) == Replies([ch EXCEPT !.role = "subscriber", !.max_size = Limit], n)

\* BLPop on empty lists.
Block ==
  /\ ch' = DetachFD(ch)
  /\ stranded' = (stranded \/ (~ch.detached /\ Pending(ch)))
  /\ UNCHANGED <<wire, peer, got, accepted, overflowed, messages>>

Execute(r, n) ==
  \/ ~ch.open /\ UNCHANGED channelVars
  \/ ch.open /\ r = "quit" /\ Quit
  \/ ch.open /\ r = "broken" /\ UnknownCommand(n)
  \/ ch.open /\ r = "subscribe" /\ Subscribe(n)
  \/ ch.open /\ r = "block" /\ ch.role = "client" /\ Block
  \/ ch.open /\ r = "psync" /\ ch.role = "client" /\ AddSlave
  \/ ch.open /\ r = "ping" /\ Replies(ch, n)
  \/ ch.open /\ r \in {"block", "psync"} /\ ch.role = "subscriber" /\ Replies(ch, n)

MessageReceived(n) ==
  /\ decoding # "no"
  /\ LET f == Decode(Buffer)
     IN  /\ f.ret = 1
         /\ Consume(f.rest)
         /\ handled' = Append(handled, f.r)
         /\ Execute(f.r, n)

\* A channel that is closed elsewhere finds no whole request in what was kept.
Cleanup ==
  /\ cumulation' = IF ch'.open THEN cumulation ELSE <<>>
  /\ UNCHANGED <<sent, inbox, input, decoding, handled>>
-----------------------------------------------------------------------------
Next ==
  \/ \E r \in Requests : PeerSends(r)
  \/ \E n \in 1..Len(inbox) : OnRead(n)
  \/ CallEnds \/ Discard
  \/ \E n \in Sizes : MessageReceived(n)
  \/ decoding = "no" /\ OutputNext /\ Cleanup
  \/ (PeerReads \/ PeerLeaves) /\ UNCHANGED requestVars

\* What the loop does for the channel by itself.
LoopRuns ==
  \/ \E n \in 1..Len(inbox) : OnRead(n)
  \/ CallEnds \/ Discard \/ \E n \in Sizes : MessageReceived(n)
  \/ decoding = "no" /\ Loop /\ Cleanup

\* The loop polls its events and runs to the end what it has begun; the peer
\* reads as long as it is there.
Spec ==
  /\ Init /\ [][Next]_vars
  /\ WF_vars(LoopRuns) /\ WF_vars(PeerReads /\ UNCHANGED requestVars)
-----------------------------------------------------------------------------
(***************************************************************************)
(* Properties.                                                             *)
(***************************************************************************)
Pieces == [p : {"*", "$", "word", "CRLF"}, r : Requests, id : 1..MaxRequests]

TypeOK ==
  /\ ChannelTypeOK
  /\ sent \in Seq(Requests) /\ handled \in Seq(Requests)
  /\ inbox \in Seq(Pieces) /\ input \in Seq(Pieces) /\ cumulation \in Seq(Pieces)
  /\ decoding \in {"no", "input", "cumulation"}
  /\ decoding # "input" => input = <<>>
  /\ decoding = "input" => cumulation = <<>>

\* The requests that have been read to their last piece.
Arrived == {i \in DOMAIN sent : \A j \in DOMAIN inbox : inbox[j].id > i}

\* However the stream was cut and whatever was refused on the way, the requests
\* handled are those the peer sent, each once, whole and in order, and none is
\* left behind in a buffer once the loop goes on to something else.
Framed ==
  /\ IsPrefix(handled, sent)
  /\ Len(handled) <= Cardinality(Arrived)
  /\ decoding = "no" => Len(handled) = Cardinality(Arrived)

\* What was sent is handled, unless the connection is closed or the client
\* blocked.
Handled == Len(handled) < Len(sent) ~> handled = sent \/ ~ch.readable

\* The flags of a channel belong together: whatever it still has to send or to
\* close is watched for, a subscriber that missed a message is on its way to
\* be closed, and a closed channel has no events (Write, Flush, DoClose).
ChannelConsistent == TypeOK /\ OutputWatched /\ GapCloses
=============================================================================

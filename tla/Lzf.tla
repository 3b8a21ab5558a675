-------------------------------- MODULE Lzf ---------------------------------
(***************************************************************************)
(* The compression of long strings (lzf_c.c, lzf_d.c): runs of literal     *)
(* bytes and references to earlier ones.  Both directions give nothing     *)
(* when they fail.                                                         *)
(***************************************************************************)
EXTENDS Integers, Sequences

MAX_LIT == 32
MAX_OFF == 8192
MAX_REF == 264

-----------------------------------------------------------------------------
\* A run of literal bytes ends with its length in front of it.
Closed(out, run) == IF run = <<>> THEN out ELSE out \o <<Len(run) - 1>> \o run
Literal(o, byte) ==
  LET run == Append(o.run, byte)
  IN  IF Len(run) = MAX_LIT THEN [o EXCEPT !.i = @ + 1, !.out = Closed(@, run), !.run = <<>>]
      ELSE [o EXCEPT !.i = @ + 1, !.run = run]
op(o) == Len(o.out) + 1 + Len(o.run)

\* How many bytes at i repeat those at ref, at least three.  Sixteen are
\* compared in one go, which may take in the last two.
Match(s, i, ref) ==
  LET maxlen == IF Len(s) - i - 1 > MAX_REF THEN MAX_REF ELSE Len(s) - i - 1
      most == IF maxlen \in 17..18 THEN 19 ELSE maxlen
  IN  CHOOSE n \in 3..most :
        /\ \A j \in 3..(n - 1) : s[ref + j] = s[i + j]
        /\ n = most \/ s[ref + n] # s[i + n]
BackRef(len, off) ==
  IF len < 9 THEN <<off \div 256 + 32 * (len - 2), off % 256>>
  ELSE <<off \div 256 + 224, len - 9, off % 256>>

\* The hash table is not initialised, and strings of other bytes share its
\* slots: what the loop finds there at byte i, htab[i], is anything.  It is a
\* place to refer to if it lies before i, not too far, and has the same bytes.
Refers(s, i, ref) ==
  /\ 1 < ref /\ ref < i /\ i - ref - 1 < MAX_OFF
  /\ i + 3 < Len(s)
  /\ \A j \in 0..2 : s[ref + j] = s[i + j]

\* One turn of the loop: a reference, or one more literal.  It stops two bytes
\* before the end, or when there is no room.
Reference(s, out_len, o, ref, len, closed) ==
  IF Len(closed) + 4 >= out_len THEN [o EXCEPT !.full = TRUE]
  ELSE [i |-> o.i + len, out |-> closed \o BackRef(len, o.i - ref - 1), run |-> <<>>, full |-> FALSE]
Shift(s, out_len, o) ==
  IF op(o) >= out_len THEN [o EXCEPT !.full = TRUE] ELSE Literal(o, s[o.i])
CompressTurn(s, out_len, htab, o) ==
  IF o.full \/ o.i >= Len(s) - 1 THEN o
  ELSE IF Refers(s, o.i, htab[o.i])
  THEN Reference(s, out_len, o, htab[o.i], Match(s, o.i, htab[o.i]), Closed(o.out, o.run))
  ELSE Shift(s, out_len, o)

\* The last bytes are literals.
Finished(s, out_len, o) ==
  LET end == IF o.i = Len(s) - 1 THEN Literal(Literal(o, s[o.i]), s[o.i + 1])
             ELSE IF o.i = Len(s) THEN Literal(o, s[o.i]) ELSE o
  IN  IF o.full \/ op(o) + 3 > out_len THEN <<>> ELSE Closed(end.out, end.run)

lzf_compress(s, out_len, htab) ==
  LET start == [i |-> 1, out |-> <<>>, run |-> <<>>, full |-> FALSE]
      after[n \in 0..Len(s)] == IF n = 0 THEN start ELSE CompressTurn(s, out_len, htab, after[n - 1])
  IN  Finished(s, out_len, after[Len(s)])

-----------------------------------------------------------------------------
\* The bytes a reference stands for, which may reach into themselves.
Copied(out, dist, n) == [j \in 1..n |-> out[Len(out) - dist + 1 + ((j - 1) % dist)]]

\* One turn, at byte i of c; none after the end, or after an error.
DecompressTurn(c, out_len, o) ==
  LET ctrl == c[o.i]
      long == ctrl \div 32 = 7
      at == IF long THEN o.i + 2 ELSE o.i + 1
      len == ctrl \div 32 + 2 + IF long THEN c[o.i + 1] ELSE 0
      dist == (ctrl % 32) * 256 + c[at] + 1
      error == IF ctrl < 32 THEN Len(o.out) + ctrl + 1 > out_len \/ o.i + ctrl + 1 > Len(c)
               ELSE at > Len(c) \/ Len(o.out) + len > out_len \/ dist > Len(o.out)
  IN  IF o.bad \/ o.i > Len(c) THEN o
      ELSE IF error THEN [o EXCEPT !.bad = TRUE]
      ELSE IF ctrl < 32
      THEN [i |-> o.i + ctrl + 2, out |-> o.out \o SubSeq(c, o.i + 1, o.i + ctrl + 1), bad |-> FALSE]
      ELSE [i |-> at + 1, out |-> o.out \o Copied(o.out, dist, len), bad |-> FALSE]

lzf_decompress(c, out_len) ==
  LET start == [i |-> 1, out |-> <<>>, bad |-> FALSE]
      after[n \in 0..Len(c)] == IF n = 0 THEN start ELSE DecompressTurn(c, out_len, after[n - 1])
  IN  IF after[Len(c)].bad THEN <<>> ELSE after[Len(c)].out
=============================================================================

------------------------------ MODULE RdbCodec ------------------------------
(***************************************************************************)
(* Lengths, integers, strings and scores in the files of Redis, as         *)
(* Snapshot writes and reads them (snapshot.cpp).  A file is a sequence of *)
(* bytes, of which the first pos have been read.                           *)
(***************************************************************************)
EXTENDS Integers, Sequences, FiniteSets, Lzf

CONSTANT Found(_)   \* what lzf_compress finds in the hash table at each byte of a string

Byte == 0..255

\* Read has n bytes to give; else it fails, and the file is at its end.
Enough(file, pos, n) == pos + n <= Len(file)

-----------------------------------------------------------------------------
RedisWriteLen(len) ==
  IF len < 64 THEN <<len>>
  ELSE IF len < 16384 THEN <<64 + len \div 256, len % 256>>
  ELSE <<128, len \div (256 * 65536), (len \div 65536) % 256, (len \div 256) % 256, len % 256>>

\* The four bytes after the first, the highest first (ntohl).
Long(file, pos) ==
  ((file[pos + 2] * 256 + file[pos + 3]) * 256 + file[pos + 4]) * 256 + file[pos + 5]

\* A length, or with encoded what kind of string follows.  REDIS_RDB_LENERR
\* is the highest number of 32 bits: a length of that much is an error too.
Length(n, pos) == [ok |-> TRUE, encoded |-> FALSE, val |-> n, pos |-> pos]
LenError(file) == [ok |-> FALSE, encoded |-> FALSE, val |-> 0, pos |-> Len(file)]
RedisReadLen(file, pos) ==
  IF ~Enough(file, pos, 1) THEN LenError(file)
  ELSE IF file[pos + 1] >= 192
  THEN [ok |-> TRUE, encoded |-> TRUE, val |-> file[pos + 1] - 192, pos |-> pos + 1]
  ELSE IF file[pos + 1] < 64 THEN Length(file[pos + 1], pos + 1)
  ELSE IF file[pos + 1] < 128
  THEN IF ~Enough(file, pos, 2) THEN LenError(file)
       ELSE Length((file[pos + 1] - 64) * 256 + file[pos + 2], pos + 2)
  ELSE IF ~Enough(file, pos, 5) \/ \A i \in 2..5 : file[pos + i] = 255 THEN LenError(file)
  ELSE Length(Long(file, pos), pos + 5)

-----------------------------------------------------------------------------
\* An integer of 8, 16 or 32 bits, the lowest byte first; nothing for others.
EncodeInteger(value) ==
  IF -128 <= value /\ value <= 127 THEN <<192, value % 256>>
  ELSE IF -32768 <= value /\ value <= 32767 THEN <<193, value % 256, (value \div 256) % 256>>
  ELSE IF -32768 <= value \div 65536 /\ value \div 65536 <= 32767
  THEN <<194, value % 256, (value \div 256) % 256, (value \div 65536) % 256,
         (value \div (256 * 65536)) % 256>>
  ELSE <<>>

Signed(byte) == IF byte < 128 THEN byte ELSE byte - 256

\* The bytes of each type, and what they say; abort() for any other type.
Width(enctype) == IF enctype = 0 THEN 1 ELSE IF enctype = 1 THEN 2 ELSE 4
RedisReadInteger(file, pos, enctype) ==
  IF ~Enough(file, pos, Width(enctype)) THEN [ok |-> FALSE, val |-> 0, pos |-> Len(file)]
  ELSE [ok |-> TRUE, pos |-> pos + Width(enctype),
        val |-> IF enctype = 0 THEN Signed(file[pos + 1])
                ELSE IF enctype = 1 THEN file[pos + 1] + 256 * Signed(file[pos + 2])
                ELSE file[pos + 1] + 256 * file[pos + 2] + 65536 * file[pos + 3]
                     + 256 * 65536 * Signed(file[pos + 4])]
-----------------------------------------------------------------------------
(***************************************************************************)
(* Strings.                                                                *)
(***************************************************************************)
\* stringfromll and ll2string, for numbers of at most ten digits.
Decimal(n) ==
  LET v == IF n < 0 THEN -n ELSE n
      digits == 1 + Cardinality({i \in 1..9 : v >= 10 ^ i})
  IN  (IF n < 0 THEN <<45>> ELSE <<>>)
        \o [i \in 1..digits |-> 48 + ((v \div 10 ^ (digits - i)) % 10)]

\* strtoll of digits.
Number(s) ==
  LET upto[i \in 0..Len(s)] == IF i = 0 THEN 0 ELSE 10 * upto[i - 1] + s[i] - 48
  IN  upto[Len(s)]

IsNumber(s) == s # <<>> /\ \A i \in DOMAIN s : s[i] \in 48..57

Signless(s) == IF s[1] = 45 THEN Tail(s) ELSE s
ValueOf(s) == IF s[1] = 45 THEN -Number(Tail(s)) ELSE Number(s)

\* (mutant of TryIntegerEncoding: any text of a number is stored as one)
TryIntegerEncodingLoose(s) == IF IsNumber(Signless(s)) THEN EncodeInteger(ValueOf(s)) ELSE <<>>

\* Only a text that comes back from its number as it was is stored as one.
TryIntegerEncoding(s) ==
  IF IsNumber(Signless(s)) /\ Decimal(ValueOf(s)) = s THEN EncodeInteger(ValueOf(s)) ELSE <<>>

\* A string takes one call of Write after the other, until one fails.
Verbatim(s) == <<RedisWriteLen(Len(s))>> \o IF s = <<>> THEN <<>> ELSE <<s>>
RedisWriteLzfStringObject(s, out) ==
  IF out = <<>> THEN Verbatim(s)
  ELSE <<<<195>>, RedisWriteLen(Len(out)), RedisWriteLen(Len(s)), out>>
RedisWriteRawString(s) ==
  IF Len(s) > 0 /\ Len(s) <= 11 /\ TryIntegerEncoding(s) # <<>> THEN <<TryIntegerEncoding(s)>>
  ELSE IF Len(s) > 20 THEN RedisWriteLzfStringObject(s, lzf_compress(s, Len(s) - 4, Found(s)))
  ELSE Verbatim(s)

NoString(file) == [ok |-> FALSE, val |-> <<>>, pos |-> Len(file)]
Read(file, pos, n) ==
  IF Enough(file, pos, n)
  THEN [ok |-> TRUE, val |-> SubSeq(file, pos + 1, pos + n), pos |-> pos + n]
  ELSE NoString(file)

Decompressed(file, c, len) ==
  IF c.ok /\ lzf_decompress(c.val, len) # <<>>
  THEN [ok |-> TRUE, val |-> lzf_decompress(c.val, len), pos |-> c.pos]
  ELSE NoString(file)
LzfString(file, clen, len) ==
  IF clen.ok /\ len.ok THEN Decompressed(file, Read(file, len.pos, clen.val), len.val) ELSE NoString(file)
RedisReadLzfStringObject(file, clen) == LzfString(file, clen, RedisReadLen(file, clen.pos))

\* A failed read of an integer gives an empty string, and passes for a success.
\* Strings of a fifth kind do not exist: abort().
IntegerString(v) == [ok |-> TRUE, val |-> IF v.ok THEN Decimal(v.val) ELSE <<>>, pos |-> v.pos]
StringOf(file, len) ==
  IF len.encoded /\ len.val \in 0..2 THEN IntegerString(RedisReadInteger(file, len.pos, len.val))
  ELSE IF len.encoded THEN RedisReadLzfStringObject(file, RedisReadLen(file, len.pos))
  ELSE IF len.ok THEN Read(file, len.pos, len.val)
  ELSE NoString(file)
RedisReadString(file, pos) == StringOf(file, RedisReadLen(file, pos))

-----------------------------------------------------------------------------
(***************************************************************************)
(* Scores: mantissa / 10^decimals, in lowest terms, or no finite number.   *)
(* Those for which %.17g needs an exponent are left out.                   *)
(***************************************************************************)
NaN == <<"nan">>
PosInf == <<"inf">>
NegInf == <<"-inf">>

\* The digits of n, behind zeros if they are fewer than len.
Padded(n, len) == [i \in 1..(len - Len(Decimal(n))) |-> 48] \o Decimal(n)
\* ll2string of an integer, snprintf of %.17g for others.
Printed(mantissa, decimals) ==
  LET v == IF mantissa < 0 THEN -mantissa ELSE mantissa
  IN  IF decimals = 0 THEN Decimal(mantissa)
      ELSE (IF mantissa < 0 THEN <<45>> ELSE <<>>) \o Decimal(v \div 10 ^ decimals) \o <<46>>
             \o Padded(v % 10 ^ decimals, decimals)

\* sscanf of %lg; a text that is no such number leaves val, which no caller
\* has set, as it is: some score.
Anything == <<"uninitialized">>
Scanned(s) ==
  LET point == {i \in DOMAIN s : s[i] = 46}
      digits == SelectSeq(s, LAMBDA b : b # 46)
  IN  IF digits = <<>> \/ Cardinality(point) > 1 THEN Anything
      ELSE IF ~IsNumber(Signless(digits)) THEN Anything
      ELSE <<ValueOf(digits), IF point = {} THEN 0 ELSE Len(s) - CHOOSE i \in point : TRUE>>

RedisWriteDouble(x) ==
  IF x = NaN THEN <<253>> ELSE IF x = PosInf THEN <<254>> ELSE IF x = NegInf THEN <<255>>
  ELSE <<Len(Printed(x[1], x[2]))>> \o Printed(x[1], x[2])

Special == [b \in 253..255 |-> IF b = 253 THEN NaN ELSE IF b = 254 THEN PosInf ELSE NegInf]
\* buf has 128 bytes, for a text and its end.  A longer text, which no writer
\* makes, overwrites the stack: here the load ends.
Score(text) ==
  IF ~text.ok THEN text
  ELSE IF Len(text.val) >= 128 THEN [text EXCEPT !.ok = FALSE]
  ELSE [text EXCEPT !.val = Scanned(text.val)]
DoubleOf(file, len) ==
  IF ~len.ok THEN len
  ELSE IF len.val[1] >= 253 THEN [ok |-> TRUE, val |-> Special[len.val[1]], pos |-> len.pos]
  ELSE Score(Read(file, len.pos, len.val[1]))
RedisReadDoubleValue(file, pos) == DoubleOf(file, Read(file, pos, 1))
=============================================================================

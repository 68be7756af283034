-------------------------------- MODULE Records --------------------------------
(***************************************************************************)
(* The bytes of a row (record.c): values are written into a payload, which *)
(* is copied to a leaf's cell and back as it stands; a condition reads the *)
(* fields and compares them with each other and with constants             *)
(* (compare_operands in expression.c).                                     *)
(*                                                                         *)
(* A text is the sequence of its bytes, none of them zero.  The bytes of a *)
(* payload count from 1, its columns' offsets from 0.                      *)
(***************************************************************************)
EXTENDS Integers, SequencesExt

CONSTANTS
  ByteMax,    \* 255
  IntSize     \* the bytes of an int32_t

Base == ByteMax + 1
Int32Max == (Base^IntSize \div 2) - 1
Int32Min == -Int32Max - 1

\* record_init: all zeros.
record_init(columns) ==
  [b \in 1..FoldLeft(LAMBDA sum, c : sum + c.size, 0, columns) |-> 0]

\* The bytes from a column's offset on replaced by `bytes`.
Overwrite(payload, column, bytes) ==
  [b \in DOMAIN payload |->
     IF b - column.offset \in DOMAIN bytes THEN bytes[b - column.offset] ELSE payload[b]]

\* An int32_t in memory, the low byte first.
BytesOf(n) == [b \in 1..IntSize |-> (n \div Base^(b - 1)) % Base]

\* strncpy: a short text is padded with zeros, a long one cut.
strncpy(text, size) == [b \in 1..size |-> IF b <= Len(text) THEN text[b] ELSE 0]

record_set_int(payload, column, n) == Overwrite(payload, column, BytesOf(n))

\* Mutant of record_set_text: a NUL ends the copy, also of a text as wide as its
\* field.
SetTextWithNul(payload, column, text) == Overwrite(payload, column, Append(text, 0))

record_set_text(payload, column, text) == Overwrite(payload, column, strncpy(text, column.size))

-----------------------------------------------------------------------------
\* Reading a field back.

record_get_int(payload, column) ==
  LET n == FoldLeft(LAMBDA sum, b : sum + payload[column.offset + b] * Base^(b - 1), 0,
                    [b \in 1..IntSize |-> b])
  IN  IF n > Int32Max THEN n - Base^IntSize ELSE n

\* A text ends at its first zero byte or at its column's width (text_value in
\* expression.c and copy_text_field in catalog.c).
TextLength(payload, column) ==
  LET zeros == {b \in 1..column.size : payload[column.offset + b] = 0}
  IN  IF zeros = {} THEN column.size ELSE Min(zeros) - 1

Field(payload, column) ==
  IF column.type = "INT" THEN record_get_int(payload, column)
  ELSE SubSeq(payload, column.offset + 1, column.offset + TextLength(payload, column))

\* The first byte that differs, of the first n, decides.
memcmp(a, b, n) ==
  LET differ == {k \in 1..n : a[k] # b[k]}
  IN  IF differ = {} THEN 0 ELSE a[Min(differ)] - b[Min(differ)]

Order(a, b) == IF a < b THEN -1 ELSE IF a > b THEN 1 ELSE 0

\* Mutant of compare_operands: a text equals every text it begins.
CompareShared(type, a, b) ==
  IF type = "INT" THEN Order(a, b) ELSE memcmp(a, b, Min({Len(a), Len(b)}))

compare_operands(type, a, b) ==
  IF type = "INT" THEN Order(a, b)
  ELSE LET order == memcmp(a, b, Min({Len(a), Len(b)}))
       IN  IF order # 0 THEN order ELSE Order(Len(a), Len(b))

-----------------------------------------------------------------------------
\* The order a reader expects of values: of two texts, one that begins the other
\* comes first, and otherwise the first place they differ in decides.
Begins(a, b) == Len(a) <= Len(b) /\ \A k \in DOMAIN a : a[k] = b[k]
Before(type, a, b) ==
  IF type = "INT" THEN a < b
  ELSE \/ Begins(a, b) /\ a # b
       \/ \E k \in DOMAIN a \cap DOMAIN b :
            a[k] < b[k] /\ \A j \in 1..(k - 1) : a[j] = b[j]

=============================================================================

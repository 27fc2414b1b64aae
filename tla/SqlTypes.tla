------------------------------ MODULE SqlTypes ------------------------------
(***************************************************************************)
(* The column types of the HMS SQL engine: coercion of what a statement    *)
(* gives to what a row holds, the JSON form of a value in the snapshot,    *)
(* and the comparisons of WHERE and ORDER BY.                              *)
(*                                                                         *)
(* A value is a pair of its Python type and its content: <<"int", 1>>,     *)
(* <<"num", 150>> for Decimal 1.50 (in hundredths), <<"date", 3>> for the  *)
(* third day, <<"datetime", 3>> for its midnight UTC, <<"text", "1.5">>,   *)
(* <<"bool", TRUE>>.  What Python reads from a text is given by constants. *)
(***************************************************************************)
EXTENDS Integers, Sequences

CONSTANTS
    Texts,      \* the texts of the model, in the order of Python's str comparison
    Numerals,   \* those that Decimal() accepts, with their value in hundredths
    DayTexts,   \* those that fromisoformat() accepts, with their day
    Spelling,   \* str() of the values that are not texts
    Like        \* the texts that a LIKE pattern matches

Null == <<"null", 0>>
Invalid == <<"invalid", 0>>     \* ValueError
Whole(n) == <<"int", n>>
Num(n) == <<"num", n>>
Text(s) == <<"text", s>>
Bool(b) == <<"bool", b>>
Date(d) == <<"date", d>>
Stamp(d) == <<"datetime", d>>

PlainType(name) == [name |-> name, precision |-> 0, scale |-> 0]
NumericType(precision, scale) ==
    [name |-> "NUMERIC", precision |-> precision, scale |-> scale]

-----------------------------------------------------------------------------
(* Coercion *)

ToText(v) ==
    CASE v[1] = "text" -> v
      [] v[1] \in {"int", "num", "bool"} -> Text(Spelling[v])
      [] OTHER -> Invalid

ToInteger(v) ==
    CASE v[1] = "bool" -> Whole(IF v[2] THEN 1 ELSE 0)
      [] v[1] = "int" -> v
      [] v[1] = "text" /\ v[2] \in DOMAIN Numerals -> IF Numerals[v[2]] % 100 = 0
                                                      THEN Whole(Numerals[v[2]] \div 100)
                                                      ELSE Invalid
      [] v[1] = "num" /\ v[2] % 100 = 0 -> Whole(v[2] \div 100)
      [] OTHER -> Invalid

\* Decimal(str(value))
ToDecimal(v) ==
    CASE v[1] = "num" -> v
      [] v[1] = "int" -> Num(100 * v[2])
      [] v[1] = "text" /\ v[2] \in DOMAIN Numerals -> Num(Numerals[v[2]])
      [] OTHER -> Invalid

\* Decimal.quantize of hundredths to a multiple of the quantum, half to even
Quantized(n, quantum) ==
    LET low == n \div quantum
        rest == n % quantum
        up == 2 * rest > quantum \/ (2 * rest = quantum /\ low % 2 = 1)
    IN  quantum * (IF up THEN low + 1 ELSE low)

\* NumericType._coerce: at most "scale" decimal places, and "precision" digits with them
ToNumeric(v, precision, scale) ==
    LET number == ToDecimal(v)
        result == Quantized(number[2], 10 ^ (2 - scale))
    IN  IF number = Invalid \/ result >= 100 * 10 ^ (precision - scale) THEN Invalid
        ELSE Num(result)

ToBoolean(v) ==
    CASE v[1] = "bool" -> v
      [] v[1] = "int" -> Bool(v[2] # 0)
      [] v[1] = "text" /\ v[2] \in {"1", "true"} -> Bool(TRUE)
      [] v[1] = "text" /\ v[2] \in {"0", "false"} -> Bool(FALSE)
      [] OTHER -> Invalid

\* A datetime is a date to Python and is kept as it is.
ToDate(v) ==
    CASE v[1] \in {"date", "datetime"} -> v
      [] v[1] = "text" /\ v[2] \in DOMAIN DayTexts -> Date(DayTexts[v[2]])
      [] OTHER -> Invalid

ToDateTime(v) ==
    CASE v[1] = "datetime" -> v
      [] v[1] = "date" -> Stamp(v[2])
      [] v[1] = "text" /\ v[2] \in DOMAIN DayTexts -> Stamp(DayTexts[v[2]])
      [] OTHER -> Invalid

Coerce(type, v) ==
    IF v = Null THEN Null ELSE
    CASE type.name = "TEXT" -> ToText(v)
      [] type.name = "INTEGER" -> ToInteger(v)
      [] type.name = "NUMERIC" -> ToNumeric(v, type.precision, type.scale)
      [] type.name = "BOOLEAN" -> ToBoolean(v)
      [] type.name = "DATE" -> ToDate(v)
      [] type.name = "DATETIME" -> ToDateTime(v)

-----------------------------------------------------------------------------
(* The durable form *)

\* serialize_value: JSON has no decimals and dates, they are written as tagged texts
Json(v) ==
    IF v[1] \in {"num", "date", "datetime"} THEN <<"tagged", v>> ELSE v

\* deserialize_value
FromJson(j) == IF j[1] = "tagged" THEN j[2] ELSE j

\* What from_dict makes of a durable value; date.fromisoformat refuses a datetime.
Restored(type, j) ==
    LET v == FromJson(j)
    IN  IF v = Null THEN Null ELSE
        CASE type.name = "TEXT" -> ToText(v)
          [] type.name = "INTEGER" -> ToInteger(v)
          [] type.name = "NUMERIC" -> ToDecimal(v)
          [] type.name = "BOOLEAN" -> ToBoolean(v)
          [] type.name = "DATE" -> IF v[1] = "datetime" THEN Invalid ELSE ToDate(v)
          [] type.name = "DATETIME" -> ToDateTime(v)

-----------------------------------------------------------------------------
(* Order and comparison *)

TextRank(s) == CHOOSE i \in DOMAIN Texts : Texts[i] = s

\* Where a value stands among the values it can be compared with
Rank(v) ==
    CASE v[1] = "int" -> 100 * v[2]
      [] v[1] = "bool" -> IF v[2] THEN 100 ELSE 0
      [] v[1] = "text" -> TextRank(v[2])
      [] OTHER -> v[2]

\* _sort_key: None first, then booleans, numbers, dates, texts
SortClass == [null |-> 0, bool |-> 1, int |-> 2, num |-> 2, date |-> 3, datetime |-> 3, text |-> 4]
SortsBefore(a, b) ==
    \/ SortClass[a[1]] < SortClass[b[1]]
    \/ SortClass[a[1]] = SortClass[b[1]] /\ Rank(a) < Rank(b)

\* What Python's == says of two values of the engine
Same(a, b) ==
    IF a[1] = b[1] THEN a = b
    ELSE {a[1], b[1]} \subseteq {"int", "num", "bool"} /\ Rank(a) = Rank(b)

\* A comparison with None on either side is false, whatever the operator.
IncomparableNull(l, r) == l = Null \/ r = Null

\* The right side becomes a Decimal, datetime or date where the left one is.
Converted(l, r) ==
    CASE l[1] = "num" -> ToDecimal(r)
      [] l[1] = "datetime" /\ r[1] = "text" -> ToDateTime(r)
      [] l[1] = "date" /\ r[1] = "text" -> ToDate(r)
      [] OTHER -> r

AsText(v) == IF v[1] = "text" THEN v ELSE Text(Spelling[v])
AsBool(v) == Bool(IF v[1] = "text" THEN TRUE ELSE Rank(v) # 0)

\* A text against another type compares the texts of both, a boolean their truth.
Aligned(l, r) ==
    IF (l[1] = "text") # (r[1] = "text") THEN <<AsText(l), AsText(r)>>
    ELSE IF (l[1] = "bool") # (r[1] = "bool") THEN <<AsBool(l), AsBool(r)>>
    ELSE <<l, r>>

\* A date against a datetime: unequal, and not ordered
Ordered(a, b) == SortClass[a[1]] = SortClass[b[1]] /\ (SortClass[a[1]] = 3 => a[1] = b[1])

Compare(l, sign, right) ==
    LET r == Converted(l, right)
        pair == Aligned(l, r)
        a == pair[1]
        b == pair[2]
    IN  /\ ~IncomparableNull(l, right)
        /\ r # Invalid
        /\ CASE sign = "=" -> Same(a, b)
             [] sign = "!=" -> ~Same(a, b)
             [] sign = "<" -> Ordered(a, b) /\ Rank(a) < Rank(b)
             [] sign = "<=" -> Ordered(a, b) /\ Rank(a) <= Rank(b)
             [] sign = ">" -> Ordered(a, b) /\ Rank(a) > Rank(b)
             [] sign = ">=" -> Ordered(a, b) /\ Rank(a) >= Rank(b)
=============================================================================

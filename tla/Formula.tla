------------------------------ MODULE Formula -------------------------------
(***************************************************************************)
(* The formulas of the desktop worksheet: FormulaEngine, and the           *)
(* recalculation that evaluates every formula of a grid with a cache and a *)
(* set of cells under evaluation.  A formula is its syntax tree; a text is *)
(* a number of equal letters, so that texts join and compare as the code's *)
(* strings do.  Fractions and the functions on texts and dates are left    *)
(* out.                                                                    *)
(***************************************************************************)
EXTENDS Integers, Sequences, FiniteSets

LOCAL INSTANCE SequencesExt
LOCAL INSTANCE FiniteSetsExt
LOCAL INSTANCE TLC

Num(n) == [kind |-> "num", n |-> n]
Text(n) == [kind |-> "text", n |-> n]
Bool(b) == [kind |-> "bool", n |-> IF b THEN 1 ELSE 0]
List(rows) == [kind |-> "list", rows |-> rows]
\* A text that begins with a comparison, such as ">=2".
Crit(op, v) == [kind |-> "crit", op |-> op, v |-> v]

\* FormulaError with the code the cell shows.
Err(code) == [kind |-> "err", code |-> code]
Value == Err("#VALUE!")
\* Any other Python exception; IFERROR does not catch it, the cell's evaluate() does.
Fails == Err("exception")
Raised(v) == v.kind = "err"

Empty == Text(0)

\* number(): an empty cell counts as 0.
Number(v) ==
    IF v.kind \in {"num", "bool"} THEN Num(v.n)
    ELSE IF v = Empty THEN Num(0) ELSE Value

IsNumber(v) == ~Raised(Number(v)) /\ v # Empty

AnyRaised(values) == \E i \in DOMAIN values : Raised(values[i])

\* flatten()
Flat(v) == IF v.kind = "list" THEN FlattenSeq(v.rows) ELSE <<v>>
FlatAll(args) == FlattenSeq([i \in DOMAIN args |-> Flat(args[i])])

\* The place of a value among texts: digits sort behind the empty text and before letters.
Rank(v) == CASE v.kind = "text" -> 10 * v.n
             [] v.kind = "num" -> 1
             [] v.kind = "bool" -> 2 + v.n

Compares(op, a, b) ==
    CASE op = "=" -> a = b [] op = "<>" -> a # b
      [] op = "<" -> a < b [] op = ">" -> a > b
      [] op = "<=" -> a <= b [] op = ">=" -> a >= b

\* criterion(): as numbers when both are, otherwise as texts.
Criterion(v, expression) ==
    LET op == IF expression.kind = "crit" THEN expression.op ELSE "="
        expected == IF expression.kind = "crit" THEN expression.v ELSE expression
    IN  IF ~Raised(Number(v)) /\ ~Raised(Number(expected))
        THEN Compares(op, Number(v).n, Number(expected).n)
        ELSE Compares(op, Rank(v), Rank(expected))

Hits(values, expression) == {i \in DOMAIN values : Criterion(values[i], expression)}

\* The sum of chosen values, up to one that is no number or is not there.
SumAt(values, chosen) ==
    IF \E i \in chosen \cap DOMAIN values : Raised(Number(values[i])) THEN Value
    ELSE IF ~(chosen \subseteq DOMAIN values) THEN Fails
    ELSE Num(MapThenSumSet(LAMBDA i : Number(values[i]).n, chosen))

Sum(values) == SumAt(values, DOMAIN values)

\* min() and max() of no values raise.
Extreme(values, op) ==
    LET numbers == [i \in DOMAIN values |-> Number(values[i])]
    IN  IF numbers = <<>> THEN Fails ELSE IF AnyRaised(numbers) THEN Value
        ELSE Num(CHOOSE n \in {numbers[i].n : i \in DOMAIN numbers} :
                    \A i \in DOMAIN numbers : Compares(op, n, numbers[i].n))

\* A Python index: a negative one counts from the end.
At(values, i) == IF i \in -Len(values)..(Len(values) - 1)
                 THEN values[(i % Len(values)) + 1] ELSE Value

CountIf(items, condition) == Num(Cardinality(Hits(Flat(items), condition)))
SumIf(items, condition, sums) == SumAt(Flat(sums), Hits(Flat(items), condition))

\* The rows that meet every pair of range and condition; the ranges have one size.
AllHits(pairs, size) ==
    {i \in 1..size : \A p \in 1..(Len(pairs) \div 2) :
        Criterion(Flat(pairs[2 * p - 1])[i], pairs[2 * p])}
SameSize(pairs, size) ==
    \A p \in 1..(Len(pairs) \div 2) : Len(Flat(pairs[2 * p - 1])) = size
Paired(items) == Len(items) >= 2 /\ Len(items) % 2 = 0

CountIfs(items) ==
    LET size == Len(Flat(items[1]))
    IN  IF ~Paired(items) \/ ~SameSize(items, size) THEN Value
        ELSE Num(Cardinality(AllHits(items, size)))

SumIfs(sums, items) ==
    LET size == Len(Flat(sums))
    IN  IF ~Paired(items) \/ ~SameSize(items, size) THEN Value
        ELSE SumAt(Flat(sums), AllHits(items, size))

FirstHit(values, wanted) == Min(Hits(values, wanted))

\* Only exact matches, of type 0, are supported.
Match(wanted, array, type) ==
    IF Raised(Number(type)) \/ Number(type).n # 0 THEN Value
    ELSE IF Hits(Flat(array), wanted) = {} THEN Err("#N/A")
    ELSE Num(FirstHit(Flat(array), wanted))

IsTable(v) == v.kind = "list" /\ v.rows # <<>>

\* INDEX counts from 1; 0 is the last row or column.
IndexOf(array, row, column) ==
    LET matrix == IF IsTable(array) THEN array.rows ELSE <<Flat(array)>>
        r == Number(row)
        c == Number(column)
    IN  IF Raised(r) \/ Raised(c) \/ r.n - 1 \notin -Len(matrix)..(Len(matrix) - 1) THEN Value
        ELSE At(At(matrix, r.n - 1), c.n - 1)

FirstColumn(rows) == [i \in DOMAIN rows |-> rows[i][1]]

VLookup(wanted, table, column) ==
    IF ~IsTable(table) \/ Raised(Number(column)) THEN Value
    ELSE IF table.rows[1] = <<>> THEN Fails
    ELSE IF Hits(FirstColumn(table.rows), wanted) = {} THEN Err("#N/A")
    ELSE At(table.rows[FirstHit(FirstColumn(table.rows), wanted)], Number(column).n - 1)

HLookup(wanted, table, row) ==
    IF ~IsTable(table) \/ Raised(Number(row)) THEN Value
    ELSE IF Hits(table.rows[1], wanted) = {} THEN Err("#N/A")
    ELSE IF Number(row).n - 1 \notin -Len(table.rows)..(Len(table.rows) - 1) THEN Value
    ELSE At(At(table.rows, Number(row).n - 1), FirstHit(table.rows[1], wanted) - 1)

XLookup(wanted, array, results, otherwise) ==
    IF Len(Flat(array)) # Len(Flat(results)) THEN Value
    ELSE IF Hits(Flat(array), wanted) = {} THEN otherwise
    ELSE Flat(results)[FirstHit(Flat(array), wanted)]

Choose(index, items) == IF Raised(Number(index)) THEN Value ELSE At(items, Number(index).n - 1)

\* Pairs of value and result, with a last one for anything else.
Switch(value, items) ==
    LET hits == {p \in 1..(Len(items) \div 2) : Criterion(value, items[2 * p - 1])}
    IN  IF hits # {} THEN items[2 * Min(hits)]
        ELSE IF Len(items) % 2 = 1 THEN items[Len(items)] ELSE Value

Truthy(v) == IF v.kind = "list" THEN v.rows # <<>> ELSE v.n # 0

Ifs(items) ==
    LET hits == {p \in 1..(Len(items) \div 2) : Truthy(items[2 * p - 1])}
    IN  IF Len(items) % 2 = 1 \/ hits = {} THEN Value ELSE items[2 * Min(hits)]

FunctionNames == {"SUM", "MIN", "MAX", "COUNT", "COUNTA", "COUNTIF", "SUMIF", "COUNTIFS", "SUMIFS",
          "MATCH", "INDEX", "VLOOKUP", "HLOOKUP", "XLOOKUP", "CHOOSE", "SWITCH", "IFS", "IF",
          "AND", "OR", "NOT"}

\* An argument that may be left out.
Given(args, i, default) == IF i \in DOMAIN args THEN args[i] ELSE default

\* _functions: the arguments are evaluated already, those of IF too.
Apply(name, args) ==
    CASE name = "SUM" -> Sum(FlatAll(args))
      [] name = "MIN" -> Extreme(FlatAll(args), "<=")
      [] name = "MAX" -> Extreme(FlatAll(args), ">=")
      [] name = "COUNT" -> Num(Cardinality({i \in DOMAIN FlatAll(args) : IsNumber(FlatAll(args)[i])}))
      [] name = "COUNTA" -> Num(Cardinality({i \in DOMAIN FlatAll(args) : FlatAll(args)[i] # Empty}))
      [] name = "COUNTIF" -> CountIf(args[1], args[2])
      [] name = "SUMIF" -> SumIf(args[1], args[2], Given(args, 3, args[1]))
      [] name = "COUNTIFS" -> CountIfs(args)
      [] name = "SUMIFS" -> SumIfs(args[1], Tail(args))
      [] name = "MATCH" -> Match(args[1], args[2], Given(args, 3, Num(0)))
      [] name = "INDEX" -> IndexOf(args[1], args[2], Given(args, 3, Num(1)))
      [] name = "VLOOKUP" -> VLookup(args[1], args[2], args[3])
      [] name = "HLOOKUP" -> HLookup(args[1], args[2], args[3])
      [] name = "XLOOKUP" -> XLookup(args[1], args[2], args[3], Given(args, 4, Value))
      [] name = "CHOOSE" -> Choose(args[1], Tail(args))
      [] name = "SWITCH" -> Switch(args[1], Tail(args))
      [] name = "IFS" -> Ifs(args)
      [] name = "IF" -> IF Truthy(args[1]) THEN args[2] ELSE Given(args, 3, Bool(FALSE))
      [] name = "AND" -> Bool(\A i \in DOMAIN FlatAll(args) : Truthy(FlatAll(args)[i]))
      [] name = "OR" -> Bool(\E i \in DOMAIN FlatAll(args) : Truthy(FlatAll(args)[i]))
      [] name = "NOT" -> Bool(~Truthy(args[1]))

\* visit_BinOp: "+" joins as soon as one side is a text, and an empty cell is one.
Operate(op, a, b) ==
    IF op = "+" /\ "text" \in {a.kind, b.kind}
    THEN IF a.kind = b.kind THEN Text(a.n + b.n) ELSE Fails
    ELSE IF Raised(Number(a)) \/ Raised(Number(b)) THEN Value
    ELSE
    CASE op = "+" -> Num(Number(a).n + Number(b).n)
      [] op = "-" -> Num(Number(a).n - Number(b).n)
      [] op = "*" -> Num(Number(a).n * Number(b).n)

\* visit_Compare works out all six comparisons, and values of different types have no order:
\* even "=" fails on them.  Comparisons of ranges are left out.
Compared(op, a, b) ==
    IF ~Raised(Number(a)) /\ ~Raised(Number(b)) THEN Bool(Compares(op, Number(a).n, Number(b).n))
    ELSE IF a.kind = b.kind THEN Bool(Compares(op, a.n, b.n)) ELSE Fails

-----------------------------------------------------------------------------
(* Evaluation.  A sheet is a matrix of contents: plain values and formulas. *)

Plain(v) == [formula |-> FALSE, value |-> v]
Calc(tree) == [formula |-> TRUE, tree |-> tree]

Const(v) == [node |-> "const", v |-> v]
Ref(row, col) == [node |-> "ref", row |-> row, col |-> col, lockRow |-> FALSE, lockCol |-> FALSE]
Span(from, to) == [node |-> "range", from |-> from, to |-> to]
Op(op, a, b) == [node |-> "op", op |-> op, args |-> <<a, b>>]
Test(op, a, b) == [node |-> "test", op |-> op, args |-> <<a, b>>]
Call(name, args) == [node |-> "call", name |-> name, args |-> args]
Bad == [node |-> "bad"]

Result(v, cache) == [v |-> v, cache |-> cache]

RECURSIVE Eval(_, _, _, _), ValueAt(_, _, _, _), EvalAll(_, _, _, _)

Inside(sheet, row, col) == row \in DOMAIN sheet /\ col \in DOMAIN sheet[1]

\* evaluate(): any other exception becomes #VALUE!.
Caught(r) == IF r.v = Fails THEN Result(Value, r.cache) ELSE r
Evaluate(sheet, tree, busy, cache) == Caught(Eval(sheet, tree, busy, cache))

\* Mutant: an error of a cell is cached as an empty value.
CachedWithErrors(at, r) == Result(r.v, (at :> (IF Raised(r.v) THEN Empty ELSE r.v)) @@ r.cache)

\* The value of a cell enters the cache, an error does not.
Cached(at, r) == Result(r.v, IF Raised(r.v) THEN r.cache ELSE (at :> r.v) @@ r.cache)

\* value_at: a cell under evaluation is a circular reference.
ValueAt(sheet, at, busy, cache) ==
    LET content == sheet[at[1]][at[2]]
    IN  IF at \in DOMAIN cache THEN Result(cache[at], cache)
        ELSE IF at \in busy THEN Result(Err("#REF!"), cache)
        ELSE IF ~content.formula THEN Result(content.value, cache)
        ELSE Cached(at, Evaluate(sheet, content.tree, busy \cup {at}, cache))

Args(values) == [kind |-> "args", args |-> values]

\* Arguments from left to right; the first error ends the evaluation.
WithArg(args, next) ==
    Result(IF Raised(next.v) THEN next.v ELSE Args(Append(args, next.v)), next.cache)
EvalAll(sheet, trees, busy, cache) ==
    FoldLeft(LAMBDA r, tree : IF Raised(r.v) THEN r
                              ELSE WithArg(r.v.args, Eval(sheet, tree, busy, r.cache)),
             Result(Args(<<>>), cache), trees)

Cells(from, to) == [i \in 1..(to.row - from.row + 1) |->
                        [j \in 1..(to.col - from.col + 1) |-> Ref(from.row + i - 1, from.col + j - 1)]]

\* Split a flat list of values into the rows of a range.
Shaped(values, width) ==
    IF width = 0 THEN <<>>
    ELSE [i \in 1..(Len(values) \div width) |-> SubSeq(values, (i - 1) * width + 1, i * width)]

\* visit_BinOp, visit_Compare and visit_Call on their arguments, once none of them raised.
Combined(tree, args) ==
    CASE tree.node = "range" -> List(Shaped(args, tree.to.col - tree.from.col + 1))
      [] tree.node = "op" -> Operate(tree.op, args[1], args[2])
      [] tree.node = "test" -> Compared(tree.op, args[1], args[2])
      [] tree.node = "call" -> Apply(tree.name, args)
Finished(tree, r) == IF Raised(r.v) THEN r ELSE Result(Combined(tree, r.v.args), r.cache)

\* _SafeFormula; the cells of a range are read from left to right as arguments are.
Eval(sheet, tree, busy, cache) ==
    CASE tree.node = "const" -> Result(tree.v, cache)
      [] tree.node = "bad" -> Result(Value, cache)
      [] tree.node = "ref" ->
            IF Inside(sheet, tree.row, tree.col)
            THEN ValueAt(sheet, <<tree.row, tree.col>>, busy, cache)
            ELSE Result(Err("#REF!"), cache)
      [] tree.node = "call" /\ tree.name = "IFERROR" ->
            LET r == Eval(sheet, tree.args[1], busy, cache)
            IN  IF Raised(r.v) /\ r.v # Fails THEN Eval(sheet, tree.args[2], busy, r.cache) ELSE r
      [] tree.node = "call" /\ tree.name \notin FunctionNames \cup {"IFERROR"} ->
            Result(Err("#NAME?"), cache)
      [] OTHER ->
            Finished(tree, EvalAll(sheet, IF tree.node = "range" THEN FlattenSeq(Cells(tree.from, tree.to))
                                          ELSE tree.args, busy, cache))

\* recalculate_formulas: all cells in reading order, one cache.
Positions(sheet) == FlattenSeq([r \in DOMAIN sheet |-> [c \in DOMAIN sheet[r] |-> <<r, c>>]])

Showing(done, at, r) == [cache |-> r.cache, shown |-> (at :> r.v) @@ done.shown]
Recalculated(sheet) ==
    LET final == FoldLeft(LAMBDA done, at : Showing(done, at, ValueAt(sheet, at, {}, done.cache)),
                          [cache |-> <<>>, shown |-> <<>>], Positions(sheet))
    IN  [r \in DOMAIN sheet |-> [c \in DOMAIN sheet[r] |-> final.shown[<<r, c>>]]]

=============================================================================

------------------------------ MODULE SqlSyntax ------------------------------
(***************************************************************************)
(* The recursive-descent parser of the HMS SQL engine, from tokens to      *)
(* statement trees.                                                        *)
(*                                                                         *)
(* A token is a pair of its kind and its value: a keyword, an identifier   *)
(* (a sequence, so that <<"t", "c">> is t.c), a literal (a value of the    *)
(* engine), a parameter, or punctuation.  Every parse operator takes the   *)
(* tokens, the position and the number of parameters met so far, and       *)
(* returns Bad (SyntaxError_) or a tree with the position behind it and    *)
(* the new number of parameters.  What stands behind a complete statement  *)
(* is not looked at.                                                       *)
(***************************************************************************)
EXTENDS SqlTypes, SequencesExt

Kw(word) == <<"keyword", word>>
Id(name) == <<"identifier", name>>
Lit(value) == <<"literal", value>>
Punct(sign) == <<"punct", sign>>
Param == <<"param", "?">>
Eof == <<"eof", "">>

None == [op |-> "none"]

Bad == [ok |-> FALSE]
Ok(at, n, tree) == [ok |-> TRUE, at |-> at, n |-> n, tree |-> tree]

Tok(s, at) == IF at <= Len(s) THEN s[at] ELSE Eof

IsIdentifier(token) == token[1] \in {"identifier", "keyword"}
NameOf(token) == IF token[1] = "keyword" THEN <<token[2]>> ELSE token[2]

\* Parsing goes on behind r, or has failed.
Then(r, Rest(_)) == IF r.ok THEN Rest(r) ELSE Bad

\* r must be followed by the token; the position moves behind it.
Expect(s, r, token) == IF r.ok /\ Tok(s, r.at) = token THEN [r EXCEPT !.at = @ + 1] ELSE Bad
Accept(s, r, token) == IF r.ok /\ Tok(s, r.at) = token THEN [r EXCEPT !.at = @ + 1] ELSE r

ExpectIdentifier(s, at, n) ==
    IF IsIdentifier(Tok(s, at)) THEN Ok(at + 1, n, NameOf(Tok(s, at))) ELSE Bad

-----------------------------------------------------------------------------
(* Literals, parameters, lists *)

ParseLiteralOrParam(s, at, n) ==
    LET token == Tok(s, at)
    IN  CASE token = Param -> Ok(at + 1, n + 1, [op |-> "param", index |-> n])
          [] token = Kw("NULL") -> Ok(at + 1, n, [op |-> "literal", value |-> Null])
          [] token \in {Kw("TRUE"), Kw("FALSE")} ->
                Ok(at + 1, n, [op |-> "literal", value |-> Bool(token = Kw("TRUE"))])
          [] token[1] = "literal" -> Ok(at + 1, n, [op |-> "literal", value |-> token[2]])
          [] OTHER -> Bad

\* One value or name, then as many as commas ask for.
RECURSIVE MoreValues(_, _, _), MoreNames(_, _, _)
MoreValues(s, r, found) ==
    IF ~r.ok THEN Bad
    ELSE IF Tok(s, r.at) # Punct(",") THEN Ok(r.at, r.n, Append(found, r.tree))
    ELSE MoreValues(s, ParseLiteralOrParam(s, r.at + 1, r.n), Append(found, r.tree))

MoreNames(s, r, found) ==
    IF ~r.ok THEN Bad
    ELSE IF Tok(s, r.at) # Punct(",") THEN Ok(r.at, r.n, Append(found, r.tree))
    ELSE MoreNames(s, ExpectIdentifier(s, r.at + 1, r.n), Append(found, r.tree))

\* ( value, ... ) and ( name, ... )
ValueList(s, r) ==
    Then(Expect(s, r, Punct("(")), LAMBDA open :
        Expect(s, MoreValues(s, ParseLiteralOrParam(s, open.at, open.n), <<>>), Punct(")")))

NameList(s, r) ==
    Then(Expect(s, r, Punct("(")), LAMBDA open :
        Expect(s, MoreNames(s, ExpectIdentifier(s, open.at, open.n), <<>>), Punct(")")))

-----------------------------------------------------------------------------
(* Expressions *)

Comparisons == {"=", "!=", "<>", "<", "<=", ">", ">="}

ParseOperand(s, at, n) ==
    LET token == Tok(s, at)
    IN  IF token[1] = "identifier" THEN Ok(at + 1, n, [op |-> "column", name |-> token[2]])
        ELSE IF token = Param THEN Bad
        ELSE ParseLiteralOrParam(s, at, n)

\* Behind its left operand: IS [NOT] NULL, [NOT] IN (...), [NOT] LIKE, or a comparison.
PredicateOf(s, left) ==
    LET is == Tok(s, left.at) = Kw("IS")
        negated == Tok(s, left.at + IF is THEN 1 ELSE 0) = Kw("NOT")
        at == left.at + (IF is THEN 1 ELSE 0) + (IF negated THEN 1 ELSE 0)
        token == Tok(s, at)
    IN  CASE is -> IF token = Kw("NULL")
                   THEN Ok(at + 1, left.n, [op |-> "isnull", operand |-> left.tree,
                                            negated |-> negated])
                   ELSE Bad
          [] ~is /\ token = Kw("IN") ->
                Then(ValueList(s, Ok(at + 1, left.n, None)), LAMBDA items :
                    Ok(items.at, items.n, [op |-> "in", operand |-> left.tree,
                                           items |-> items.tree, negated |-> negated]))
          [] ~is /\ token = Kw("LIKE") ->
                Then(ParseLiteralOrParam(s, at + 1, left.n), LAMBDA right :
                    Ok(right.at, right.n, [op |-> "like", operand |-> left.tree,
                                           pattern |-> right.tree, negated |-> negated]))
          [] ~is /\ ~negated /\ token[1] = "punct" /\ token[2] \in Comparisons ->
                Then(ParseLiteralOrParam(s, at + 1, left.n), LAMBDA right :
                    Ok(right.at, right.n, [op |-> "compare", left |-> left.tree,
                                           sign |-> IF token[2] = "<>" THEN "!=" ELSE token[2],
                                           right |-> right.tree]))
          [] OTHER -> Bad

\* One operand is the expression itself, several are joined in a BooleanExpression.
Joined(word, operands) ==
    IF Len(operands) = 1 THEN operands[1] ELSE [op |-> word, operands |-> operands]

RECURSIVE ParseOr(_, _, _), MoreOr(_, _, _), ParseAnd(_, _, _), MoreAnd(_, _, _),
          ParseNot(_, _, _), ParsePredicate(_, _, _)
ParseOr(s, at, n) == MoreOr(s, ParseAnd(s, at, n), <<>>)

MoreOr(s, r, found) ==
    IF ~r.ok THEN Bad
    ELSE IF Tok(s, r.at) # Kw("OR") THEN Ok(r.at, r.n, Joined("OR", Append(found, r.tree)))
    ELSE MoreOr(s, ParseAnd(s, r.at + 1, r.n), Append(found, r.tree))

ParseAnd(s, at, n) == MoreAnd(s, ParseNot(s, at, n), <<>>)

MoreAnd(s, r, found) ==
    IF ~r.ok THEN Bad
    ELSE IF Tok(s, r.at) # Kw("AND") THEN Ok(r.at, r.n, Joined("AND", Append(found, r.tree)))
    ELSE MoreAnd(s, ParseNot(s, r.at + 1, r.n), Append(found, r.tree))

\* Mutant: NOT reaches over the conjunction behind it.
NotOverAnd(s, at, n) ==
    IF Tok(s, at) # Kw("NOT") THEN ParsePredicate(s, at, n)
    ELSE Then(ParseAnd(s, at + 1, n), LAMBDA r : Ok(r.at, r.n, [op |-> "NOT", operand |-> r.tree]))

ParseNot(s, at, n) ==
    IF Tok(s, at) # Kw("NOT") THEN ParsePredicate(s, at, n)
    ELSE Then(ParseNot(s, at + 1, n), LAMBDA r : Ok(r.at, r.n, [op |-> "NOT", operand |-> r.tree]))

ParsePredicate(s, at, n) ==
    IF Tok(s, at) = Punct("(") THEN Expect(s, ParseOr(s, at + 1, n), Punct(")"))
    ELSE Then(ParseOperand(s, at, n), LAMBDA left : PredicateOf(s, left))

\* [WHERE expression]: None when the next token is not WHERE
Where(s, at, n) ==
    IF Tok(s, at) = Kw("WHERE") THEN ParseOr(s, at + 1, n) ELSE Ok(at, n, None)

-----------------------------------------------------------------------------
(* SELECT *)

RECURSIVE SelectList(_, _, _), Joins(_, _, _), OrderBy(_, _, _)

\* source [AS alias], ...: the alias is the plain name unless one is given
SelectList(s, at, found) ==
    LET source == ExpectIdentifier(s, at, 0)
        as == Tok(s, at + 1) = Kw("AS")
        alias == ExpectIdentifier(s, at + 2, 0)
        next == at + IF as THEN 3 ELSE 1
        item == [source |-> source.tree,
                 alias |-> IF as THEN alias.tree ELSE <<Last(source.tree)>>]
    IN  IF ~source.ok \/ (as /\ ~alias.ok) THEN Bad
        ELSE IF Tok(s, next) = Punct(",") THEN SelectList(s, next + 1, Append(found, item))
        ELSE Ok(next, 0, Append(found, item))

\* A table may be followed by a name that the parser drops (a table alias).
SkipAlias(s, at) == IF Tok(s, at)[1] = "identifier" THEN at + 1 ELSE at

Joins(s, at, found) ==
    LET on == SkipAlias(s, at + 2)
        wellFormed == /\ IsIdentifier(Tok(s, at + 1))
                      /\ Tok(s, on) = Kw("ON") /\ IsIdentifier(Tok(s, on + 1))
                      /\ Tok(s, on + 2) = Punct("=") /\ IsIdentifier(Tok(s, on + 3))
    IN  IF Tok(s, at) # Kw("JOIN") THEN Ok(at, 0, found)
        ELSE IF wellFormed THEN Joins(s, on + 4, Append(found,
                                [table |-> NameOf(Tok(s, at + 1)),
                                 onLeft |-> NameOf(Tok(s, on + 1)),
                                 onRight |-> NameOf(Tok(s, on + 3))]))
        ELSE Bad

OrderBy(s, at, found) ==
    LET direction == IF Tok(s, at + 1) = Kw("DESC") THEN "DESC" ELSE "ASC"
        next == IF Tok(s, at + 1) \in {Kw("DESC"), Kw("ASC")} THEN at + 2 ELSE at + 1
        key == [name |-> NameOf(Tok(s, at)), direction |-> direction]
    IN  IF ~IsIdentifier(Tok(s, at)) THEN Bad
        ELSE IF Tok(s, next) = Punct(",") THEN OrderBy(s, next + 1, Append(found, key))
        ELSE Ok(next, 0, Append(found, key))

\* SELECT 1: a number behind which the text ends, or punctuation stands
IsLiteralSelect(s, at) ==
    Tok(s, at)[1] = "literal" /\ Tok(s, at + 1)[1] \in {"eof", "punct"}

\* What is selected: COUNT(*), *, or a list
Selection(s, at) ==
    CASE Tok(s, at) = Kw("COUNT") ->
            Expect(s, Expect(s, Expect(s, Ok(at + 1, 0, <<>>), Punct("(")), Punct("*")), Punct(")"))
      [] Tok(s, at) = Punct("*") -> Ok(at + 1, 0, <<>>)
      [] OTHER -> SelectList(s, at, <<>>)

\* [LIMIT value] or [OFFSET value]
Bound(s, r, word) ==
    IF ~r.ok THEN Bad
    ELSE IF Tok(s, r.at) = Kw(word) THEN ParseLiteralOrParam(s, r.at + 1, r.n)
    ELSE Ok(r.at, r.n, None)

\* [ORDER BY name [direction], ...]
Ordering(s, r) ==
    IF Tok(s, r.at) # Kw("ORDER") THEN Ok(r.at, r.n, <<>>)
    ELSE IF Tok(s, r.at + 1) = Kw("BY") THEN OrderBy(s, r.at + 2, <<>>)
    ELSE Bad

ParseSelect(s, start) ==
    LET distinct == Tok(s, start) = Kw("DISTINCT")
        at == start + IF distinct THEN 1 ELSE 0
    IN  IF IsLiteralSelect(s, at) THEN Ok(at + 1, 0, [op |-> "constant", value |-> Tok(s, at)[2]])
        ELSE Then(Selection(s, at), LAMBDA list :
             Then(Expect(s, list, Kw("FROM")), LAMBDA from :
             Then(ExpectIdentifier(s, from.at, 0), LAMBDA table :
             Then(Joins(s, SkipAlias(s, table.at), <<>>), LAMBDA joins :
             Then(Where(s, joins.at, 0), LAMBDA where :
             Then(Ordering(s, where), LAMBDA order :
             Then(Bound(s, [order EXCEPT !.n = where.n], "LIMIT"), LAMBDA limit :
             Then(Bound(s, limit, "OFFSET"), LAMBDA offset :
                Accept(s, Ok(offset.at, offset.n,
                    [op |-> "select", table |-> table.tree, list |-> list.tree,
                     count |-> Tok(s, at) = Kw("COUNT"), distinct |-> distinct,
                     joins |-> joins.tree, where |-> where.tree, orderBy |-> order.tree,
                     limit |-> limit.tree, offset |-> offset.tree]), Punct(";"))))))))))

-----------------------------------------------------------------------------
(* INSERT, UPDATE, DELETE *)

ParseInsert(s, start) ==
    Then(Expect(s, Ok(start, 0, None), Kw("INTO")), LAMBDA into :
    Then(ExpectIdentifier(s, into.at, 0), LAMBDA table :
    Then(IF Tok(s, table.at) = Punct("(") THEN NameList(s, table) ELSE Ok(table.at, 0, <<>>),
         LAMBDA columns :
    Then(ValueList(s, Expect(s, columns, Kw("VALUES"))), LAMBDA values :
        Accept(s, Ok(values.at, values.n, [op |-> "insert", table |-> table.tree,
                          columns |-> columns.tree, values |-> values.tree]), Punct(";"))))))

RECURSIVE Assignments(_, _, _, _)
Assignments(s, at, n, found) ==
    IF ~IsIdentifier(Tok(s, at)) \/ Tok(s, at + 1) # Punct("=") THEN Bad
    ELSE Then(ParseLiteralOrParam(s, at + 2, n), LAMBDA value :
        LET all == Append(found, [column |-> NameOf(Tok(s, at)), value |-> value.tree])
        IN  IF Tok(s, value.at) = Punct(",") THEN Assignments(s, value.at + 1, value.n, all)
            ELSE Ok(value.at, value.n, all))

ParseUpdate(s, start) ==
    Then(Expect(s, ExpectIdentifier(s, start, 0), Kw("SET")), LAMBDA set :
    Then(Assignments(s, set.at, 0, <<>>), LAMBDA assignments :
    Then(Where(s, assignments.at, assignments.n), LAMBDA where :
        Accept(s, Ok(where.at, where.n, [op |-> "update", table |-> set.tree,
                          assignments |-> assignments.tree, where |-> where.tree]), Punct(";")))))

ParseDelete(s, start) ==
    Then(Expect(s, Ok(start, 0, None), Kw("FROM")), LAMBDA from :
    Then(ExpectIdentifier(s, from.at, 0), LAMBDA table :
    Then(Where(s, table.at, 0), LAMBDA where :
        Accept(s, Ok(where.at, where.n,
                     [op |-> "delete", table |-> table.tree, where |-> where.tree]), Punct(";")))))

-----------------------------------------------------------------------------
(* CREATE TABLE, ALTER TABLE, DROP TABLE *)

TypeNames == {"TEXT", "INTEGER", "BOOLEAN", "DATE", "DATETIME"}

\* type_from_name: VARCHAR and STRING are TEXT, NUMERIC is NUMERIC(18,4), and
\* arguments are an error with every other type.
TypeFromName(name, arguments) ==
    CASE name \in TypeNames /\ arguments = <<>> -> Ok(0, 0, PlainType(name))
      [] name \in {"VARCHAR", "STRING"} /\ arguments = <<>> -> Ok(0, 0, PlainType("TEXT"))
      [] name = "NUMERIC" -> Ok(0, 0, CASE Len(arguments) = 2 -> NumericType(arguments[1], arguments[2])
                                        [] Len(arguments) = 1 -> NumericType(arguments[1], 4)
                                        [] OTHER -> NumericType(18, 4))
      [] OTHER -> Bad

RECURSIVE TypeArguments(_, _, _)
TypeArguments(s, at, found) ==
    IF Tok(s, at + 1) = Punct(",") THEN TypeArguments(s, at + 2, Append(found, Tok(s, at)[2][2]))
    ELSE Expect(s, Ok(at + 1, 0, Append(found, Tok(s, at)[2][2])), Punct(")"))

ParseType(s, at) ==
    IF ~IsIdentifier(Tok(s, at)) THEN Bad
    ELSE Then(IF Tok(s, at + 1) = Punct("(") THEN TypeArguments(s, at + 2, <<>>)
              ELSE Ok(at + 1, 0, <<>>), LAMBDA arguments :
         Then(TypeFromName(Last(NameOf(Tok(s, at))), arguments.tree), LAMBDA type :
            Ok(arguments.at, 0, type.tree)))

\* A text or a number is coerced to the column's type, NULL, TRUE and FALSE are not.
ParseDefault(s, at, type) ==
    LET token == Tok(s, at)
        value == Coerce(type, token[2])
    IN  CASE token = Kw("NULL") -> Ok(at + 1, 0, Null)
          [] token \in {Kw("TRUE"), Kw("FALSE")} -> Ok(at + 1, 0, Bool(token = Kw("TRUE")))
          [] token[1] = "literal" -> IF value = Invalid THEN Bad ELSE Ok(at + 1, 0, value)
          [] OTHER -> Bad

\* The options of a column in any order; a later one overrides an earlier one.
RECURSIVE ColumnOptions(_, _, _)
ColumnOptions(s, at, column) ==
    CASE Tok(s, at) = Kw("PRIMARY") ->
            IF Tok(s, at + 1) # Kw("KEY") THEN Bad
            ELSE ColumnOptions(s, at + 2, [column EXCEPT !.primary_key = TRUE, !.nullable = FALSE])
      [] Tok(s, at) = Kw("UNIQUE") -> ColumnOptions(s, at + 1, [column EXCEPT !.unique = TRUE])
      [] Tok(s, at) = Kw("NOT") ->
            IF Tok(s, at + 1) # Kw("NULL") THEN Bad
            ELSE ColumnOptions(s, at + 2, [column EXCEPT !.nullable = FALSE])
      [] Tok(s, at) = Kw("NULL") -> ColumnOptions(s, at + 1, [column EXCEPT !.nullable = TRUE])
      [] Tok(s, at) = Kw("DEFAULT") ->
            Then(ParseDefault(s, at + 1, column.type), LAMBDA default :
                ColumnOptions(s, default.at, [column EXCEPT !.default = default.tree,
                                                            !.has_default = TRUE]))
      [] OTHER -> Ok(at, 0, column)

ParseColumnDefinition(s, at) ==
    IF ~IsIdentifier(Tok(s, at)) THEN Bad
    ELSE Then(ParseType(s, at + 1), LAMBDA type :
        ColumnOptions(s, type.at,
            [name |-> NameOf(Tok(s, at))[1], type |-> type.tree, nullable |-> TRUE,
             primary_key |-> FALSE, unique |-> FALSE, default |-> Null, has_default |-> FALSE]))

Plains(names) == [i \in DOMAIN names |-> names[i][1]]

\* FOREIGN KEY (column) REFERENCES table(column)
ParseForeignKey(s, at) ==
    Then(NameList(s, Expect(s, Ok(at, 0, None), Kw("KEY"))), LAMBDA column :
    Then(Expect(s, column, Kw("REFERENCES")), LAMBDA references :
    Then(ExpectIdentifier(s, references.at, 0), LAMBDA table :
    Then(NameList(s, table), LAMBDA target :
        IF Len(column.tree) # 1 \/ Len(target.tree) # 1 THEN Bad
        ELSE Ok(target.at, 0, [column |-> column.tree[1][1], table |-> table.tree[1],
                               target |-> target.tree[1][1]])))))

\* One entry of the parenthesised body, begun by this word
TableEntry(s, at, word) ==
    CASE word = Kw("PRIMARY") -> NameList(s, Expect(s, Ok(at + 1, 0, None), Kw("KEY")))
      [] word = Kw("UNIQUE") -> NameList(s, Ok(at + 1, 0, None))
      [] word = Kw("FOREIGN") -> ParseForeignKey(s, at + 1)
      [] OTHER -> ParseColumnDefinition(s, at)

Entered(table, word, tree) ==
    CASE word = Kw("PRIMARY") -> [table EXCEPT !.primary_key = @ \o Plains(tree)]
      [] word = Kw("UNIQUE") -> [table EXCEPT !.unique_constraints = @ \cup {Plains(tree)}]
      [] word = Kw("FOREIGN") -> [table EXCEPT !.foreign_keys = @ \cup {tree}]
      [] OTHER -> [table EXCEPT !.columns = Append(@, tree)]

\* The entries from this position on
RECURSIVE TableBody(_, _, _)
TableBody(s, at, table) ==
    Then(TableEntry(s, at, Tok(s, at)), LAMBDA r :
        LET entered == Entered(table, Tok(s, at), r.tree)
        IN  IF Tok(s, r.at) = Punct(",") THEN TableBody(s, r.at + 1, entered)
            ELSE Expect(s, Ok(r.at, 0, entered), Punct(")")))

\* Columns marked PRIMARY KEY join the key, and no key column is nullable.
WithKey(table) ==
    LET marked == SelectSeq(table.columns, LAMBDA c : c.primary_key
                                              /\ ~Contains(table.primary_key, c.name))
        key == table.primary_key \o [i \in DOMAIN marked |-> marked[i].name]
    IN  [table EXCEPT !.primary_key = key,
                      !.columns = [i \in DOMAIN @ |-> [@[i] EXCEPT !.nullable =
                                        @ /\ ~Contains(key, table.columns[i].name)]]]

ParseCreateTable(s, start) ==
    Then(IF Tok(s, start) = Kw("TABLE") THEN ExpectIdentifier(s, start + 1, 0) ELSE Bad, LAMBDA table :
    Then(Expect(s, table, Punct("(")), LAMBDA open :
    Then(TableBody(s, open.at, [columns |-> <<>>, primary_key |-> <<>>,
                                unique_constraints |-> {}, foreign_keys |-> {}]), LAMBDA body :
        Accept(s, Ok(body.at, 0, [op |-> "create", table |-> table.tree,
                                  definition |-> WithKey(body.tree)]), Punct(";")))))

ParseDropTable(s, start) ==
    IF Tok(s, start) # Kw("TABLE") \/ ~IsIdentifier(Tok(s, start + 1)) THEN Bad
    ELSE Accept(s, Ok(start + 2, 0, [op |-> "drop", table |-> NameOf(Tok(s, start + 1))]),
                Punct(";"))

\* ADD CONSTRAINT name UNIQUE (...) or ADD [COLUMN] column
ParseAlterTable(s, start) ==
    LET table == NameOf(Tok(s, start + 1))
        wellFormed == /\ Tok(s, start) = Kw("TABLE") /\ IsIdentifier(Tok(s, start + 1))
                      /\ Tok(s, start + 2) = Kw("ADD")
        constraint == Tok(s, start + 3) = Kw("CONSTRAINT")
    IN  CASE ~wellFormed -> Bad
          [] wellFormed /\ constraint ->
                Then(ExpectIdentifier(s, start + 4, 0), LAMBDA name :
                Then(NameList(s, Expect(s, name, Kw("UNIQUE"))), LAMBDA columns :
                    Accept(s, Ok(columns.at, 0, [op |-> "addUnique", table |-> table,
                                                 columns |-> Plains(columns.tree)]), Punct(";"))))
          [] OTHER ->
                Then(ParseColumnDefinition(s, start + IF Tok(s, start + 3) = Kw("COLUMN") THEN 4 ELSE 3),
                     LAMBDA column :
                    Accept(s, Ok(column.at, 0, [op |-> "addColumn", table |-> table,
                                                column |-> column.tree]), Punct(";")))

ParseStatement(s) ==
    CASE Tok(s, 1) = Kw("SELECT") -> ParseSelect(s, 2)
      [] Tok(s, 1) = Kw("INSERT") -> ParseInsert(s, 2)
      [] Tok(s, 1) = Kw("UPDATE") -> ParseUpdate(s, 2)
      [] Tok(s, 1) = Kw("DELETE") -> ParseDelete(s, 2)
      [] Tok(s, 1) = Kw("CREATE") -> ParseCreateTable(s, 2)
      [] Tok(s, 1) = Kw("DROP") -> ParseDropTable(s, 2)
      [] Tok(s, 1) = Kw("ALTER") -> ParseAlterTable(s, 2)
      [] OTHER -> Bad
=============================================================================

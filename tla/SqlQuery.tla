------------------------------ MODULE SqlQuery ------------------------------
(***************************************************************************)
(* The HMS SQL engine as one caller sees it: a statement is a text and its *)
(* parameters; it is parsed, executed against the tables and rows, and     *)
(* rolled back when it fails or recorded in the journal; the database can  *)
(* be closed and opened again, from its snapshot and its journal.          *)
(* Transactions of several statements, failing writes and stops are the    *)
(* subject of SqlEngine.                                                   *)
(*                                                                         *)
(* Two things vary: the text of a condition, typed group by group against  *)
(* an empty database, and the database, on which the statements of a fixed *)
(* repertoire run in any order.                                            *)
(***************************************************************************)
EXTENDS SqlSyntax, FiniteSets, FiniteSetsExt

CONSTANTS
    Heads,          \* how a typed statement begins
    Groups,         \* what may be typed next
    MaxGroups,      \* bound on what is typed
    SampleRows,     \* rows a typed condition is tried on
    SampleParams,   \* and its parameters
    Repertoire,     \* the statements run on the database
    ParamLists,     \* and their parameters
    MaxRows         \* bound on the rows of a table

VARIABLES
    text,       \* what was typed
    typed,      \* the number of groups in it (bound)
    db,         \* Schema: tables and rows, or not readable any more
    onDisk,     \* what the snapshot and the journal on top of it rebuild
    altered     \* history: an opened database was not the one that was closed

vars == <<text, typed, db, onDisk, altered>>

Empty == [readable |-> TRUE, tables |-> <<>>, rows |-> <<>>]
Unreadable == [readable |-> FALSE, tables |-> <<>>, rows |-> <<>>]

Failed == [ok |-> FALSE]
Done(d) == [ok |-> TRUE, db |-> d]

-----------------------------------------------------------------------------
(* Rows and expressions *)

\* row.get(name)
Get(row, name) == IF name \in DOMAIN row THEN row[name] ELSE Null

\* The values of a row under a sequence of names
Marker(row, names) == [i \in DOMAIN names |-> Get(row, names[i])]
SameMarker(a, b) == \A i \in DOMAIN a : Same(a[i], b[i])

Value(node, params) == IF node.op = "param" THEN params[node.index + 1] ELSE node.value

\* column_name: a qualified name loses its table
ColumnName(node) == Last(node.name)

RECURSIVE Matches(_, _, _)
Matches(node, row, params) ==
    CASE node.op = "none" -> TRUE
      [] node.op = "AND" -> \A i \in DOMAIN node.operands : Matches(node.operands[i], row, params)
      [] node.op = "OR" -> \E i \in DOMAIN node.operands : Matches(node.operands[i], row, params)
      [] node.op = "NOT" -> ~Matches(node.operand, row, params)
      [] node.op = "isnull" -> (Get(row, ColumnName(node.operand)) = Null) # node.negated
      [] node.op = "in" ->
            (\E i \in DOMAIN node.items : Same(Get(row, ColumnName(node.operand)),
                                               Value(node.items[i], params))) # node.negated
      [] node.op = "like" ->
            LET left == Get(row, ColumnName(node.operand))
                pattern == Value(node.pattern, params)
            IN  /\ left # Null /\ pattern # Null
                /\ (AsText(left)[2] \in Like[AsText(pattern)[2]]) # node.negated
      [] node.op = "compare" ->
            Compare(Get(row, ColumnName(node.left)), node.sign, Value(node.right, params))

-----------------------------------------------------------------------------
(* SELECT *)

\* The side of an ON clause that names a column of the rows so far, and the other.
OnKeys(rows, join) ==
    LET known == UNION {DOMAIN rows[i] : i \in DOMAIN rows}
        left == Last(join.onLeft)
        right == Last(join.onRight)
        swapped == \/ left \notin known /\ right \in known
                   \/ left \in known /\ right \in known /\ join.onLeft[1] = join.table[1]
    IN  IF swapped THEN <<right, left>> ELSE <<left, right>>

\* A row with each of its partners; one without keeps its place, and what it lacks is NULL.
JoinRow(left, partners, columns, key) ==
    LET added == columns \ {key}
    IN  IF partners # <<>>
        THEN [i \in DOMAIN partners |-> [c \in DOMAIN left \cup added |->
                IF c \in added THEN Get(partners[i], c) ELSE left[c]]]
        ELSE << [c \in DOMAIN left \cup added |-> Get(left, c)] >>

JoinTable(d, rows, join) ==
    LET table == join.table[1]
        keys == OnKeys(rows, join)
        columns == {d.tables[table].columns[i].name : i \in DOMAIN d.tables[table].columns}
        Partners(row) == SelectSeq(d.rows[table], LAMBDA r : /\ Get(row, keys[1]) # Null
                                                             /\ Same(Get(row, keys[1]), Get(r, keys[2])))
    IN  FoldLeft(LAMBDA merged, row : merged \o JoinRow(row, Partners(row), columns, keys[1]),
                 <<>>, rows)

JoinedRows(d, tree) ==
    FoldLeft(LAMBDA rows, join : JoinTable(d, rows, join), d.rows[tree.table[1]], tree.joins)

\* A stable sort on one key; the key is looked up as it was written, and a
\* qualified name is no column of a row.
SortedBy(rows, key) ==
    LET Key(i) == IF Len(key.name) = 1 THEN Get(rows[i], key.name[1]) ELSE Null
        Before(i, j) == IF key.direction = "DESC" THEN SortsBefore(Key(j), Key(i))
                        ELSE SortsBefore(Key(i), Key(j))
        order == SetToSortSeq(DOMAIN rows, LAMBDA i, j : Before(i, j) \/ (~Before(j, i) /\ i < j))
    IN  [i \in DOMAIN rows |-> rows[order[i]]]

\* The first row of every marker; the names are the aliases of the SELECT list.
Distinct(rows, tree) ==
    LET names == IF tree.list = <<>> THEN SetToSeq(UNION {DOMAIN rows[i] : i \in DOMAIN rows})
                 ELSE [i \in DOMAIN tree.list |-> tree.list[i].alias[1]]
        Repeated(i) == \E j \in 1..(i - 1) : SameMarker(Marker(rows[j], names), Marker(rows[i], names))
        first == {i \in DOMAIN rows : ~Repeated(i)}
    IN  [k \in 1..Cardinality(first) |-> rows[SetToSortSeq(first, <)[k]]]

\* Mutant: the rows are cut to the limit before the offset is skipped.
LimitThenOffset(rows, limit, offset) ==
    LET cut == IF limit = Null THEN rows ELSE SubSeq(rows, 1, Min({limit[2], Len(rows)}))
    IN  IF offset = Null THEN cut ELSE SubSeq(cut, offset[2] + 1, Len(cut))

Page(rows, limit, offset) ==
    LET rest == IF offset = Null THEN rows ELSE SubSeq(rows, offset[2] + 1, Len(rows))
    IN  IF limit = Null THEN rest
        ELSE SubSeq(rest, 1, Min({limit[2], Len(rest)}))

Projected(row, list) ==
    IF list = <<>> THEN row
    ELSE [a \in {list[i].alias[1] : i \in DOMAIN list} |->
            LET at == Max({i \in DOMAIN list : list[i].alias[1] = a})
            IN  Get(row, Last(list[at].source))]

\* The rows that were selected, in their order, once each, and the page of them
Listing(tree, params, selected) ==
    LET BoundOf(node) == IF node = None THEN Null ELSE Value(node, params)
        sorted == FoldLeft(SortedBy, selected, Reverse(tree.orderBy))
        page == Page(IF tree.distinct THEN Distinct(sorted, tree) ELSE sorted,
                     BoundOf(tree.limit), BoundOf(tree.offset))
    IN  IF tree.count THEN << ("count" :> Whole(Len(selected))) >>
        ELSE [i \in DOMAIN page |-> Projected(page[i], tree.list)]

ExecuteSelect(d, tree, params) ==
    Listing(tree, params, SelectSeq(JoinedRows(d, tree), LAMBDA row : Matches(tree.where, row, params)))

-----------------------------------------------------------------------------
(* What a row must satisfy *)

KeyOf(table, row) == Marker(row, table.primary_key)

\* coerce_row: a value for every column, a NULL only where the column allows it
CoerceRow(table, given, defaults) ==
    LET names == {table.columns[i].name : i \in DOMAIN table.columns}
        column == [n \in names |-> table.columns[CHOOSE i \in DOMAIN table.columns :
                                                    table.columns[i].name = n]]
        value == [n \in names |-> IF n \in DOMAIN given THEN Coerce(column[n].type, given[n])
                                  ELSE IF defaults /\ column[n].has_default
                                       THEN Coerce(column[n].type, column[n].default)
                                  ELSE Null]
        wrong == \/ \E n \in names : value[n] = Invalid
                 \/ \E n \in names : /\ value[n] = Null
                                     /\ ~column[n].nullable /\ ~column[n].primary_key
                 \/ ~(DOMAIN given \subseteq names)
    IN  IF wrong THEN Failed ELSE [ok |-> TRUE, row |-> value]

\* The groups of columns whose values may not repeat: each key or unique column,
\* a composite primary key, each UNIQUE constraint
UniqueGroups(table) ==
    {<<table.columns[i].name>> : i \in {j \in DOMAIN table.columns :
                                    table.columns[j].unique \/ table.columns[j].primary_key}}
    \cup (IF Len(table.primary_key) > 1 THEN {table.primary_key} ELSE {})
    \cup table.unique_constraints

\* Mutant: only the columns are looked at, not the composite key and constraints.
ColumnsOnly(table, row, rows, excluded) ==
    \A g \in {u \in UniqueGroups(table) : Len(u) = 1} :
        \/ \E i \in DOMAIN g : Get(row, g[i]) = Null
        \/ \A i \in DOMAIN rows \ excluded : ~SameMarker(Marker(rows[i], g), Marker(row, g))

\* check_unique: a group with a NULL never conflicts
CheckUnique(table, row, rows, excluded) ==
    \A g \in UniqueGroups(table) :
        \/ \E i \in DOMAIN g : Get(row, g[i]) = Null
        \/ \A i \in DOMAIN rows \ excluded : ~SameMarker(Marker(rows[i], g), Marker(row, g))

CheckForeignKeys(d, table, row) ==
    \A fk \in table.foreign_keys :
        \/ Get(row, fk.column) = Null
        \/ /\ fk.table \in DOMAIN d.tables
           /\ \E i \in DOMAIN d.rows[fk.table] :
                Same(Get(d.rows[fk.table][i], fk.target), Get(row, fk.column))

\* Mutant: the referencing rows are looked for in the table itself.
OwnRowsOnly(d, name, key) ==
    \E fk \in d.tables[name].foreign_keys :
        /\ fk.table = name
        /\ \E i \in DOMAIN d.rows[name] : \E k \in DOMAIN key :
                Same(Get(d.rows[name][i], fk.column), key[k])

\* children_reference: a row of another table whose foreign key holds a part of this key
ChildrenReference(d, name, key) ==
    \E other \in DOMAIN d.tables \ {name} : \E fk \in d.tables[other].foreign_keys :
        /\ fk.table = name
        /\ \E i \in DOMAIN d.rows[other] : \E k \in DOMAIN key :
                Same(Get(d.rows[other][i], fk.column), key[k])

-----------------------------------------------------------------------------
(* INSERT, UPDATE, DELETE *)

\* A coerced row that passes the checks is put where Put says.
Checked(d, name, coerced, excluded, Put(_)) ==
    IF ~coerced.ok THEN Failed
    ELSE IF /\ CheckUnique(d.tables[name], coerced.row, d.rows[name], excluded)
            /\ CheckForeignKeys(d, d.tables[name], coerced.row)
         THEN Done([d EXCEPT !.rows[name] = Put(coerced.row)])
         ELSE Failed

ExecuteInsert(d, name, tree, params) ==
    LET table == d.tables[name]
        columns == IF tree.columns # <<>> THEN Plains(tree.columns)
                   ELSE [i \in DOMAIN table.columns |-> table.columns[i].name]
        given == [c \in Range(columns) |->
                    Value(tree.values[CHOOSE i \in DOMAIN columns : columns[i] = c], params)]
    IN  IF Len(columns) # Len(tree.values) THEN Failed
        ELSE Checked(d, name, CoerceRow(table, given, TRUE), {}, LAMBDA new : Append(d.rows[name], new))

\* One row of an UPDATE, on top of the rows that it changed before.
UpdateRow(r, i, name, tree, params) ==
    LET d == r.db
        table == d.tables[name]
        row == d.rows[name][i]
        columns == {tree.assignments[k].column[1] : k \in DOMAIN tree.assignments}
        Assigned(c) == Value(tree.assignments[CHOOSE k \in DOMAIN tree.assignments :
                                tree.assignments[k].column[1] = c].value, params)
        candidate == [c \in DOMAIN row \cup columns |->
                        IF c \in columns THEN Assigned(c) ELSE row[c]]
        sameKey == IF table.primary_key = <<>> THEN {i}
                   ELSE {i} \cup {j \in DOMAIN d.rows[name] :
                            SameMarker(KeyOf(table, d.rows[name][j]), KeyOf(table, row))}
    IN  IF ~Matches(tree.where, row, params) THEN r
        ELSE Checked(d, name, CoerceRow(table, candidate, FALSE), sameKey,
                     LAMBDA new : [d.rows[name] EXCEPT ![i] = new])

ExecuteUpdate(d, name, tree, params) ==
    FoldLeft(LAMBDA r, i : IF r.ok THEN UpdateRow(r, i, name, tree, params) ELSE r,
             Done(d), [i \in DOMAIN d.rows[name] |-> i])

ExecuteDelete(d, name, tree, params) ==
    LET going == SelectSeq(d.rows[name], LAMBDA row : Matches(tree.where, row, params))
        refused == \E i \in DOMAIN going :
                        ChildrenReference(d, name, KeyOf(d.tables[name], going[i]))
    IN  IF refused THEN Failed
        ELSE Done([d EXCEPT !.rows[name] =
                        SelectSeq(@, LAMBDA row : ~Matches(tree.where, row, params))])

-----------------------------------------------------------------------------
(* CREATE TABLE, DROP TABLE, ALTER TABLE *)

CreateTable(d, name, definition) ==
    IF name \in DOMAIN d.tables THEN Failed
    ELSE Done([d EXCEPT !.tables = @ @@ (name :> definition), !.rows = @ @@ (name :> <<>>)])

DropTable(d, name) ==
    Done([d EXCEPT !.tables = Restrict(@, DOMAIN @ \ {name}),
                   !.rows = Restrict(@, DOMAIN @ \ {name})])

AddColumn(d, name, column) ==
    LET taken == \E i \in DOMAIN d.tables[name].columns : d.tables[name].columns[i].name = column.name
        entered == [column EXCEPT !.nullable = @ /\ ~column.primary_key]
        initial == IF column.has_default THEN column.default ELSE Null
    IN  IF taken THEN Failed
        ELSE Done([d EXCEPT
                !.tables[name].columns = Append(@, entered),
                !.tables[name].primary_key = IF column.primary_key THEN Append(@, column.name) ELSE @,
                !.rows[name] = [i \in DOMAIN @ |-> @[i] @@ (column.name :> initial)]])

\* Rows that are NULL in every column of the constraint do not conflict.
AddUniqueConstraint(d, name, columns) ==
    LET table == d.tables[name]
        known == Range(columns) \subseteq {table.columns[i].name : i \in DOMAIN table.columns}
        Shown(i) == Marker(d.rows[name][i], columns)
        clash == \E i, j \in DOMAIN d.rows[name] :
                    /\ i < j
                    /\ \E k \in DOMAIN columns : Shown(i)[k] # Null
                    /\ SameMarker(Shown(i), Shown(j))
    IN  IF ~known THEN Failed
        ELSE IF columns \in table.unique_constraints THEN Done(d)
        ELSE IF clash THEN Failed
        ELSE Done([d EXCEPT !.tables[name].unique_constraints = @ \cup {columns}])

\* Executor.execute
Outcome(d, name, tree, params) ==
    IF tree.op = "create" THEN CreateTable(d, name, tree.definition)
    ELSE IF name \notin DOMAIN d.tables THEN Failed
    ELSE
    CASE tree.op = "insert" -> ExecuteInsert(d, name, tree, params)
      [] tree.op = "update" -> ExecuteUpdate(d, name, tree, params)
      [] tree.op = "delete" -> ExecuteDelete(d, name, tree, params)
      [] tree.op = "drop" -> DropTable(d, name)
      [] tree.op = "addColumn" -> AddColumn(d, name, tree.column)
      [] tree.op = "addUnique" -> AddUniqueConstraint(d, name, tree.columns)

\* A transaction of its own: a statement that raises is rolled back.
Committed(d, r) == IF r.ok THEN r.db ELSE d

-----------------------------------------------------------------------------
(* The snapshot *)

\* _column_from_dict coerces the JSON form of the default as it stands: a decimal
\* or a date is a tagged text there, and no type accepts it.
ReloadedColumn(c) ==
    [c EXCEPT !.default = IF c.has_default /\ @ # Null THEN Coerce(c.type, Json(@)) ELSE @]

\* Table.to_dict and Table.from_dict: keys and constraints are written as they are.
ReloadedTable(table) ==
    [table EXCEPT !.columns = [i \in DOMAIN @ |-> ReloadedColumn(@[i])]]

\* Schema.to_dict and Schema.from_dict: every value goes through its JSON form.
Reloaded(d) ==
    LET tables == [t \in DOMAIN d.tables |-> ReloadedTable(d.tables[t])]
        TypeOf(t, n) == tables[t].columns[CHOOSE i \in DOMAIN tables[t].columns :
                                                tables[t].columns[i].name = n].type
        Row(t, row) == [n \in DOMAIN row |-> Restored(TypeOf(t, n), Json(row[n]))]
        rows == [t \in DOMAIN d.rows |-> [i \in DOMAIN d.rows[t] |-> Row(t, d.rows[t][i])]]
        broken == \/ \E t \in DOMAIN rows : \E i \in DOMAIN rows[t] : Invalid \in Range(rows[t][i])
                  \/ \E t \in DOMAIN tables : \E i \in DOMAIN tables[t].columns :
                        tables[t].columns[i].default = Invalid
    IN  IF broken THEN Unreadable ELSE [d EXCEPT !.tables = tables, !.rows = rows]

-----------------------------------------------------------------------------
(* The journal *)

\* The rows of a table that have a key
RowsOfKey(d, name, key) ==
    {i \in DOMAIN d.rows[name] : SameMarker(KeyOf(d.tables[name], d.rows[name][i]), key)}

\* _plain and deserialize_value: a row or a key as the journal hands it on
Logged(values) == [n \in DOMAIN values |-> FromJson(Json(values[n]))]

\* The keys that an UPDATE or a DELETE was about to change, in the order of their rows
Affected(d, name, tree, params) ==
    LET going == SelectSeq(d.rows[name], LAMBDA row : Matches(tree.where, row, params))
    IN  [i \in DOMAIN going |-> KeyOf(d.tables[name], going[i])]

\* Mutant: a replayed UPDATE does not look for the row it replaces.
ReplayAsInsert(disk, name, key, row) == [disk EXCEPT !.rows[name] = Append(@, row)]

\* A replayed UPDATE replaces the first row of its key, or adds one.
ReplayUpdate(disk, name, key, row) ==
    LET old == RowsOfKey(disk, name, key)
    IN  [disk EXCEPT !.rows[name] = IF old = {} THEN Append(@, row) ELSE [@ EXCEPT ![Min(old)] = row]]

\* A replayed DELETE removes every row of its keys.
ReplayDelete(disk, name, keys) ==
    [disk EXCEPT !.rows[name] = SelectSeq(@, LAMBDA row :
        \A k \in Range(keys) : ~SameMarker(KeyOf(disk.tables[name], row), Logged(k)))]

\* _record looks a row up after the statement, by the key that it had or was given, and takes the
\* first one; _apply_journal_operation puts it back.  A CREATE, DROP or ALTER is executed again.
Recorded(disk, before, after, name, tree, params) ==
    LET Found(key) == RowsOfKey(after, name, key)
        Row(key) == Logged(after.rows[name][Min(Found(key))])
    IN  CASE ~disk.readable -> disk
          [] disk.readable /\ tree.op = "insert" ->
                [disk EXCEPT !.rows[name] = Append(@, Row(KeyOf(after.tables[name], Last(after.rows[name]))))]
          [] disk.readable /\ tree.op = "update" ->
                FoldLeft(LAMBDA d, key : IF Found(key) = {} THEN d
                                         ELSE ReplayUpdate(d, name, Logged(key), Row(key)),
                         disk, Affected(before, name, tree, params))
          [] disk.readable /\ tree.op = "delete" ->
                ReplayDelete(disk, name, Affected(before, name, tree, params))
          [] OTHER -> LET again == Outcome(disk, name, tree, <<>>)
                      IN  IF again.ok THEN again.db ELSE Unreadable

\* An UPDATE that finds none of its rows again records nothing.
Records(before, after, name, tree, params) ==
    tree.op = "update" => \E key \in Range(Affected(before, name, tree, params)) :
                                RowsOfKey(after, name, key) # {}

-----------------------------------------------------------------------------
(* The caller *)

Init == text = <<>> /\ typed = 0 /\ db = Empty /\ onDisk = Empty /\ altered = FALSE

\* The next group of a statement's text.
Type(group) ==
    /\ db = Empty
    /\ typed < MaxGroups
    /\ typed = 0 <=> group \in Heads
    /\ text' = text \o group
    /\ typed' = typed + 1
    /\ UNCHANGED <<db, onDisk, altered>>

Parsed == [statement \in Repertoire |-> ParseStatement(statement)]

\* A statement that parses, with as many parameters as it has places for them.  Its record is the
\* one that makes the journal long enough for a compaction, or not.
Perform(r, params, compacts) ==
    LET name == r.tree.table[1]
        outcome == Outcome(db, name, r.tree, params)
        commits == outcome.ok /\ Records(db, db', name, r.tree, params)
    IN  /\ r.n = Len(params)
        /\ db' = Committed(db, outcome)
        /\ \A t \in DOMAIN db'.rows : Len(db'.rows[t]) <= MaxRows
        /\ compacts => commits
        /\ onDisk' = IF compacts THEN Reloaded(db')
                     ELSE IF commits THEN Recorded(onDisk, db, db', name, r.tree, params)
                     ELSE onDisk

\* A statement of the repertoire with its parameters.
Run(statement, params, compacts) ==
    /\ text = <<>>
    /\ db.readable
    /\ Parsed[statement].ok
    /\ Perform(Parsed[statement], params, compacts)
    /\ UNCHANGED <<text, typed, altered>>

\* The database is closed and opened again.
Reload ==
    /\ text = <<>>
    /\ db.readable
    /\ db' = onDisk
    /\ altered' = (altered \/ db' # db)
    /\ UNCHANGED <<text, typed, onDisk>>

Next ==
    \/ \E group \in Heads \cup Groups : Type(group)
    \/ \E statement \in Repertoire, params \in ParamLists, compacts \in BOOLEAN :
            Run(statement, params, compacts)
    \/ Reload

Spec == Init /\ [][Next]_vars

-----------------------------------------------------------------------------
(* What a typed condition means, read off its tokens *)

Depth(from, i) ==
    Cardinality({k \in from..(i - 1) : text[k] = Punct("(")})
        - Cardinality({k \in from..(i - 1) : text[k] = Punct(")")})

\* The k-th placeholder of the whole text stands for the k-th parameter.
Written(i) ==
    IF text[i] # Param THEN text[i][2]
    ELSE SampleParams[Cardinality({k \in 1..i : text[k] = Param})]

\* One predicate: column IS [NOT] NULL, column [NOT] IN (...), column < value
Holds(a, b, row) ==
    LET left == Get(row, Last(text[a][2]))
        negated == \E i \in a..b : text[i] = Kw("NOT")
        right == Written(b)
    IN  CASE text[a + 1] = Kw("IS") -> (left = Null) # negated
          [] \E i \in a..b : text[i] = Kw("IN") ->
                (\E i \in (a + 1)..b : text[i] = Param /\ left = Written(i)) # negated
          [] text[a + 1] = Punct("=") -> left = right /\ left # Null
          [] text[a + 1] = Punct("<") -> left # Null /\ right # Null /\ left[2] < right[2]

\* OR binds weakest, then AND, then NOT; parentheses bind strongest.
RECURSIVE Meaning(_, _, _)
Meaning(a, b, row) ==
    LET Split(word) == {i \in a..b : text[i] = Kw(word) /\ Depth(a, i) = 0}
        At(word) == Min(Split(word))
    IN  CASE Split("OR") # {} -> Meaning(a, At("OR") - 1, row) \/ Meaning(At("OR") + 1, b, row)
          [] Split("OR") = {} /\ Split("AND") # {} ->
                Meaning(a, At("AND") - 1, row) /\ Meaning(At("AND") + 1, b, row)
          [] OTHER -> IF text[a] = Kw("NOT") THEN ~Meaning(a + 1, b, row)
                      ELSE IF text[a] = Punct("(") THEN Meaning(a + 1, b - 1, row)
                      ELSE Holds(a, b, row)

\* What a parsed statement makes of its condition, and what its text says.
ConditionAgrees(r) ==
    LET where == Min({i \in DOMAIN text : text[i] = Kw("WHERE")})
        behind == {i \in where..(r.at - 1) : text[i] \in {Kw("ORDER"), Kw("LIMIT"), Punct(";")}}
        last == IF behind = {} THEN r.at - 1 ELSE Min(behind) - 1
    IN  (r.ok /\ r.tree.where # None) =>
            /\ r.n = Cardinality({i \in 1..(r.at - 1) : text[i] = Param})
            /\ \A row \in SampleRows :
                    Matches(r.tree.where, row, SampleParams) = Meaning(where + 1, last, row)

\* A statement that parses with a condition selects exactly the rows that its
\* text describes under SQL's precedence (parse_or, parse_and, parse_not,
\* parse_predicate, matches), and takes its parameters from left to right.
ConditionsMeanWhatTheySay == text # <<>> => ConditionAgrees(ParseStatement(text))

-----------------------------------------------------------------------------
(* Properties of the database *)

Answer(query, params) == ExecuteSelect(db, query.tree, params)

Sorted(rows, name) ==
    \A i, j \in DOMAIN rows : i < j => ~SortsBefore(rows[j][name], rows[i][name])

\* No two rows agree on a key, a unique column or a UNIQUE constraint, unless their
\* primary key is NULL (check_unique, add_unique_constraint): an UPDATE does not
\* compare a row with the others of its key, and all NULL keys are one key to it.
\* A replayed journal is not checked, so this ends where a reopening changed the rows.
NoRepeatedValues ==
    ~altered => \A t \in DOMAIN db.tables : \A g \in UniqueGroups(db.tables[t]) :
        \A i, j \in DOMAIN db.rows[t] :
            LET a == db.rows[t][i]
                b == db.rows[t][j]
            IN  (i < j /\ SameMarker(Marker(a, g), Marker(b, g))) =>
                    \/ \E k \in DOMAIN g : Get(a, g[k]) = Null
                    \/ Null \in Range(KeyOf(db.tables[t], a))

\* The references of a table's rows that point at no row
Dangling(d) ==
    {<<t, fk, row>> \in UNION {UNION {{<<t, fk, d.rows[t][i]>> : i \in DOMAIN d.rows[t]}
                                            : fk \in d.tables[t].foreign_keys}
                                    : t \in DOMAIN d.tables} :
        ~CheckForeignKeys(d, [foreign_keys |-> {fk}], row)}

\* The primary keys of a table's rows
Keys(d, t) == {KeyOf(d.tables[t], d.rows[t][i]) : i \in DOMAIN d.rows[t]}

\* No INSERT and no DELETE leaves a reference to a row that is not there
\* (check_foreign_keys, children_reference).  Only a statement that gives a row a
\* new key, or drops the table, can: neither looks at the references.  A reopening that
\* does not give back what was closed can too.
NoReferenceIsCut ==
    [][ \/ Dangling(db') \subseteq Dangling(db)
        \/ \E t \in DOMAIN db.tables : t \notin DOMAIN db'.tables
        \/ \E t \in DOMAIN db'.tables : Len(db'.rows[t]) = Len(db.rows[t])
                                         /\ Keys(db', t) # Keys(db, t)
        \/ Reload /\ altered' ]_db

\* A table in which the key does not tell the rows from each other: it has none, or it is NULL.
Ambiguous(d, t) == \E i, j \in DOMAIN d.rows[t] :
    i < j /\ SameMarker(KeyOf(d.tables[t], d.rows[t][i]), KeyOf(d.tables[t], d.rows[t][j]))

\* No statement, recorded in the journal or followed by a compaction, makes the files say
\* something else than the rows that callers see (_record, _apply_journal_operation,
\* to_dict, from_dict, coerce, serialize_value, deserialize_value).  Four kinds do: an UPDATE
\* that changes a primary key; an INSERT or UPDATE where several rows have the same key, which
\* only a NULL in it allows; and a compaction of a table that has a decimal or a date as a
\* default, or a datetime in a DATE column, whose snapshot cannot be read again.
ReopeningChangesNothing ==
    [][ onDisk = db =>
          \/ onDisk' = db'
          \/ \E t \in DOMAIN db.tables \cap DOMAIN db'.tables :
                \/ Len(db'.rows[t]) = Len(db.rows[t]) /\ Keys(db', t) # Keys(db, t)
                \/ db'.rows[t] # db.rows[t] /\ (Ambiguous(db, t) \/ Ambiguous(db', t))
          \/ /\ onDisk' = Unreadable
             /\ \E t \in DOMAIN db'.tables : \E i \in DOMAIN db'.tables[t].columns :
                    LET column == db'.tables[t].columns[i]
                    IN  \/ Json(column.default)[1] = "tagged"
                        \/ /\ column.type.name = "DATE"
                           /\ \E k \in DOMAIN db'.rows[t] :
                                Get(db'.rows[t][k], column.name)[1] = "datetime" ]_vars
=============================================================================

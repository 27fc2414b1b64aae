----------------------------- MODULE MCSqlQuery -----------------------------
(* SqlQuery with two related tables, a table of typed values and a repertoire *)
(* of statements on them; conditions of at most six groups over two columns.  *)
EXTENDS SqlQuery

MCTexts == <<"0", "1", "1.5", "2", "2024-01-01", "true", "x">>
MCNumerals == ("0" :> 0) @@ ("1" :> 100) @@ ("1.5" :> 150) @@ ("2" :> 200)
MCDayTexts == "2024-01-01" :> 1
MCSpelling == (<<"int", 1>> :> "1") @@ (<<"int", 2>> :> "2")
MCLike == "x" :> {"x"}

A == Id(<<"a">>)
B == Id(<<"t", "b">>)
T == Id(<<"t">>)
K(word) == <<Kw(word)>>
P(sign) == <<Punct(sign)>>

MCHeads == {<<Kw("UPDATE"), T, Kw("SET"), A, Punct("="), Param>>,
            <<Kw("SELECT"), Punct("*"), Kw("FROM"), T>>}
MCGroups == {K("WHERE"), K("AND"), K("OR"), K("NOT"), P("("), P(")"),
             <<A, Punct("="), Param>>,
             <<B, Punct("<"), Param>>,
             <<A, Kw("NOT"), Kw("IN"), Punct("("), Param, Punct(","), Param, Punct(")")>>,
             <<B, Kw("IS"), Kw("NULL")>>,
             <<Kw("LIMIT"), Param>>}
MCSampleRows == [{"a", "b"} -> {Null, Whole(1), Whole(2)}]
MCSampleParams == <<Whole(1), Whole(2), Null, Whole(1), Whole(2), Whole(1), Whole(2), Whole(1),
                    Whole(2), Whole(1), Whole(2), Whole(1), Whole(2)>>

N(name) == Id(<<name>>)
CreateParents == <<Kw("CREATE"), Kw("TABLE"), N("parents"), Punct("("),
    N("id"), N("INTEGER"), Kw("PRIMARY"), Kw("KEY"), Punct(","),
    N("code"), N("VARCHAR"), Kw("UNIQUE"), Punct(")")>>
CreateChildren == <<Kw("CREATE"), Kw("TABLE"), N("children"), Punct("("),
    N("parent"), N("INTEGER"), Punct(","), N("line"), N("INTEGER"), Punct(","),
    Kw("PRIMARY"), Kw("KEY"), Punct("("), N("parent"), Punct(","), N("line"), Punct(")"), Punct(","),
    Kw("FOREIGN"), Kw("KEY"), Punct("("), N("parent"), Punct(")"),
    Kw("REFERENCES"), N("parents"), Punct("("), N("id"), Punct(")"), Punct(")"), Punct(";")>>
CreateValues == <<Kw("CREATE"), Kw("TABLE"), N("readings"), Punct("("),
    N("amount"), N("NUMERIC"), Punct("("), Lit(Whole(2)), Punct(","), Lit(Whole(1)), Punct(")"),
    Kw("PRIMARY"), Kw("KEY"), Punct(","),
    N("at"), N("DATETIME"), Kw("NOT"), Kw("NULL"), Punct(","),
    N("day"), N("DATE"), Punct(","), N("note"), N("TEXT"), Kw("DEFAULT"), Lit(Text("x")), Punct(","),
    Kw("UNIQUE"), Punct("("), N("amount"), Punct(")"), Punct(")")>>
InsertParent == <<Kw("INSERT"), Kw("INTO"), N("parents"),
    Kw("VALUES"), Punct("("), Param, Punct(","), Param, Punct(")")>>
InsertChild == <<Kw("INSERT"), Kw("INTO"), N("children"),
    Punct("("), N("line"), Punct(","), N("parent"), Punct(")"),
    Kw("VALUES"), Punct("("), Param, Punct(","), Param, Punct(")")>>
InsertReading == <<Kw("INSERT"), Kw("INTO"), N("readings"),
    Punct("("), N("amount"), Punct(","), N("at"), Punct(","), N("day"), Punct(")"),
    Kw("VALUES"), Punct("("), Param, Punct(","), Lit(Text("2024-01-01")), Punct(","),
    Param, Punct(")")>>
Renumber(table, column) == <<Kw("UPDATE"), N(table), Kw("SET"), N(column), Punct("="), Param,
    Kw("WHERE"), N(column), Punct("="), Param>>
RecodeAll == <<Kw("UPDATE"), N("parents"), Kw("SET"), N("code"), Punct("="), Param>>
DeleteParent == <<Kw("DELETE"), Kw("FROM"), N("parents"),
    Kw("WHERE"), N("id"), Punct("="), Param, Punct(";")>>
DropChildren == <<Kw("DROP"), Kw("TABLE"), N("children")>>
AddFlag == <<Kw("ALTER"), Kw("TABLE"), N("readings"), Kw("ADD"), Kw("COLUMN"),
    N("ok"), N("BOOLEAN"), Kw("DEFAULT"), Kw("TRUE")>>
AddRate == <<Kw("ALTER"), Kw("TABLE"), N("readings"), Kw("ADD"), Kw("COLUMN"),
    N("rate"), N("NUMERIC"), Punct("("), Lit(Whole(2)), Punct(","), Lit(Whole(1)), Punct(")"),
    Kw("DEFAULT"), Lit(Text("1.5"))>>
AddCodeUnique == <<Kw("ALTER"), Kw("TABLE"), N("children"), Kw("ADD"), Kw("CONSTRAINT"),
    N("u"), Kw("UNIQUE"), Punct("("), N("line"), Punct(")")>>

MCRepertoire == {CreateParents, CreateChildren, CreateValues, InsertParent, InsertChild,
    InsertReading, Renumber("parents", "id"), Renumber("children", "line"), RecodeAll,
    DeleteParent, DropChildren, AddFlag, AddRate, AddCodeUnique}
MCParamLists == {<<>>} \cup {<<Whole(1)>>, <<Whole(2)>>, <<Text("1.5")>>}
    \cup {<<v, w>> : v \in {Whole(1), Text("2"), Null}, w \in {Whole(1), Whole(2)}}
    \cup {<<Whole(1), Stamp(1)>>, <<Text("1.5"), Text("2024-01-01")>>}

\* Where the files and the rows differ, only the reopening is left to see.  The readings,
\* which no other table refers to, are looked at on their own.
SpecFocus == Init /\ [][ /\ Next
                         /\ ~altered
                         /\ onDisk # db => Reload
                         /\ "readings" \in DOMAIN db'.tables => DOMAIN db'.tables = {"readings"} ]_vars

\* The pages of the children in the order of their lines
PageQuery == ParseStatement(<<Kw("SELECT"), N("line"), Kw("FROM"), N("children"), Kw("ORDER"),
    Kw("BY"), N("line"), Kw("LIMIT"), Param, Kw("OFFSET"), Param>>)

\* The pages of a listing, one behind the other, are the whole listing, and it is in
\* the order that was asked for (execute_select: sort, offset, limit).
PagesPartitionTheListing ==
    "children" \in DOMAIN db.tables =>
        \A query \in {PageQuery} :
            LET all == Answer(query, <<Whole(MaxRows), Whole(0)>>)
                pages == [k \in 1..MaxRows |-> Answer(query, <<Whole(1), Whole(k - 1)>>)]
            IN  /\ FlattenSeq(pages) = all
                /\ Len(all) = Len(db.rows["children"])
                /\ Sorted(all, "line")
=============================================================================

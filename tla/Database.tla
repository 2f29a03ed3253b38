------------------------------ MODULE Database ------------------------------
(***************************************************************************)
(* The database layer: filters (database/db_structs.hpp), the statements   *)
(* built from them (src/helpers.hpp), the connection that runs them        *)
(* (src/database_connection.cpp) and the calls the rest of the server      *)
(* makes (database/kdb.hpp).  A text is a sequence of characters.  A       *)
(* statement is kept as the conditions it states, each operand either a    *)
(* column, a text between single quotes or a bare text, because the        *)
(* quoting of operands is where a value can stop being itself.  The server *)
(* behind the connection, which reads and runs a statement, is external.   *)
(***************************************************************************)
EXTENDS Integers, Sequences, SequencesExt, FiniteSets, TLC

CONSTANTS Columns,   \* table -> the columns that can be written
          Numeric,   \* the columns, <<table, column>>, that hold numbers
          MaxRows,   \* bound: the rows a table may come to hold
          MaxId      \* bound: the rows a table may be given

VARIABLES tables,    \* table -> sequence of rows
          nextId,    \* table -> the id of its next row
          last       \* the last call on the KDB and what it returned

vars == <<tables, nextId, last>>

IndexOf(s, x) == SelectInSeq(s, LAMBDA y : y = x)

Digits == <<"0", "1", "2", "3", "4", "5", "6", "7", "8", "9">>
IsNumber(text) == text # <<>> /\ Range(text) \subseteq Range(Digits)
ToText(n) == << Digits[n + 1] >>
ToNumber(text) == FoldLeft(LAMBDA n, c : (10 * n) + IndexOf(Digits, c) - 1, 0, text)

\* No text: what the database stores where an outer join finds no row.
Null == << "null" >>

-----------------------------------------------------------------------------
(* Filters.                                                                *)

DoubleSingleQuotes(s) ==
  FlattenSeq([i \in DOMAIN s |-> IF s[i] = "'" THEN <<"'", "'">> ELSE << s[i] >>])

\* Pairs of a column and a text; a pair whose text is empty is left out.
Add(pairs) ==
  LET kept == SelectSeq(pairs, LAMBDA p : p[2] # <<>>)
  IN [i \in DOMAIN kept |-> << kept[i][1], DoubleSingleQuotes(kept[i][2]) >>]

CreateFilter(pairs) == Add(pairs)

-----------------------------------------------------------------------------
(* Statements.                                                             *)

Column(column) == [kind |-> "column", of |-> column]
Quoted(text)   == [kind |-> "quoted", of |-> text]
Bare(text)     == [kind |-> "bare", of |-> text]

Condition(left, sign, right) == [left |-> left, sign |-> sign, right |-> right]

\* The conditions one filter states, by its type.
FilterVisitor(f) ==
  CASE f.type = "MultiOption" ->
         << Condition(f.field, f.comparison, [i \in DOMAIN f.options |-> Bare(f.options[i])]) >>
    [] f.type = "CompBetween" ->
         << Condition(f.field, "BETWEEN", << Bare(f.from), Bare(f.to) >>) >>
    [] f.type \in {"Comp", "Comparison", "Generic"} ->
         << Condition(f.a, f.sign, << f.b >>) >>
    [] f.type = "Query" ->
         [i \in DOMAIN f.pairs |-> Condition(Column(f.pairs[i][1]), "=", << Quoted(f.pairs[i][2]) >>)]

\* Several filters joined by AND.  A filter that states nothing leaves an
\* AND with nothing beside it.
VariantFilter(filters) ==
  [ where  |-> FlattenSeq([i \in DOMAIN filters |-> FilterVisitor(filters[i])]),
    broken |-> \E i \in DOMAIN filters : FilterVisitor(filters[i]) = <<>> ]

Statement(table, fields) ==
  [ table |-> table, fields |-> fields, joins |-> <<>>, where |-> <<>>,
    order |-> <<>>, limit |-> 0, broken |-> FALSE ]

\* Slip: pairs of one column are alternatives wherever they stand.
SelectDatabaseAny(query) ==
  LET filter == query.filter
      columns == [i \in DOMAIN filter |-> Bare(filter[i][2])]
      plain   == Statement(query.table, query.fields)
  IN IF filter = <<>> THEN plain
     ELSE [ plain EXCEPT !.where =
              IF Len(filter) > 1
              THEN << Condition(Column(filter[1][1]), "IN", columns) >>
              ELSE FilterVisitor([type |-> "Query", pairs |-> filter]) ]

\* A select with pairs: when the first two are of one column, all texts are
\* alternatives for that column, without quotes.
SelectDatabase(query) ==
  LET filter == query.filter
      columns == [i \in DOMAIN filter |-> Bare(filter[i][2])]
      plain   == Statement(query.table, query.fields)
  IN IF filter = <<>> THEN plain
     ELSE [ plain EXCEPT !.where =
              IF Len(filter) > 1 /\ filter[1][1] = filter[2][1]
              THEN << Condition(Column(filter[1][1]), "IN", columns) >>
              ELSE FilterVisitor([type |-> "Query", pairs |-> filter]) ]

\* More than one comparison is answered with SELECT 1.
UNSUPPORTED(query) == [Statement("", query.fields) EXCEPT !.limit = 1]

SelectComparison(query) ==
  IF Len(query.filter) > 1 THEN UNSUPPORTED(query)
  ELSE [ Statement(query.table, query.fields) EXCEPT !.where = VariantFilter(query.filter).where ]

\* A select with filters of several types, an order and a limit, both lost
\* when there is no filter.
SelectVariant(query) ==
  LET parts == VariantFilter(query.filter)
  IN IF query.filter = <<>> THEN Statement(query.table, query.fields)
     ELSE [ Statement(query.table, query.fields) EXCEPT
              !.where = parts.where, !.broken = parts.broken,
              !.order = query.order, !.limit = query.limit ]

\* A select from joined tables.  The order and the limit are lost, and with
\* no filter in a list of filters so are the joins.
SelectJoin(query) ==
  LET parts == VariantFilter(query.filter)
  IN IF query.filter = <<>> THEN Statement(query.table, query.fields)
     ELSE [ Statement(query.table, query.fields) EXCEPT
              !.joins = query.joins, !.where = parts.where, !.broken = parts.broken ]

SelectSimpleJoin(query) ==
  [ Statement(query.table, query.fields) EXCEPT
      !.joins = query.joins,
      !.where = FilterVisitor([type |-> "Query", pairs |-> query.filter]) ]

\* Slip: single quotes of inserted values stay single.
ValuesStringRaw(values) ==
  [i \in DOMAIN values |->
     Quoted(IF values[i] = <<>> THEN <<"N", "U", "L", "L">> ELSE values[i])]

\* The values of an insertion; an empty one becomes the text NULL.
ValuesString(values) ==
  [i \in DOMAIN values |->
     Quoted(IF values[i] = <<>> THEN <<"N", "U", "L", "L">>
            ELSE DoubleSingleQuotes(values[i]))]

\* Rows of as many values as there are fields; with a value too many the
\* statement ends inside the quotes of that value.
InsertStatement(query) ==
  [ table |-> query.table, fields |-> query.fields, values |-> ValuesString(query.values),
    broken |-> Len(query.values) % Len(query.fields) # 0 ]

\* The assignments and the conditions of an update, its values as they are.
UpdateStatement(query) ==
  [ table |-> query.table, fields |-> query.fields,
    set   |-> [i \in DOMAIN query.values |-> Quoted(query.values[i])],
    where |-> FilterVisitor([type |-> "Query", pairs |-> query.filter]),
    broken |-> Len(query.values) # Len(query.fields) ]

\* The condition of a deletion is the first pair of its filter.
DeleteStatement(query) ==
  LET p == Head(query.filter)
  IN [table |-> query.table, where |-> << Condition(Column(p[1]), "=", << Quoted(p[2]) >>) >>]

-----------------------------------------------------------------------------
(* The database server (external).                                         *)

\* The text between quotes as the server reads it: two quotes are one, and
\* one alone ends the text too early.
RECURSIVE Unquote(_)
Unquote(text) ==
  CASE text = <<>> -> [ok |-> TRUE, text |-> <<>>]
    [] text # <<>> /\ Head(text) # "'" ->
         LET rest == Unquote(Tail(text)) IN [rest EXCEPT !.text = << Head(text) >> \o @]
    [] Len(text) > 1 /\ Head(text) = "'" /\ text[2] = "'" ->
         LET rest == Unquote(SubSeq(text, 3, Len(text))) IN [rest EXCEPT !.text = << "'" >> \o @]
    [] OTHER -> [ok |-> FALSE, text |-> <<>>]

Readable(e) ==
  CASE e.kind = "quoted" -> Unquote(e.of).ok
    [] e.kind = "bare"   -> IsNumber(e.of)
    [] e.kind = "column" -> TRUE

\* A column of numbers is compared with numbers, one of texts with texts
\* between quotes.
IsNumeric(column) == column \in Numeric \/ column[2] = "id"
Comparable(c) ==
  c.left.kind = "column" =>
    \A e \in Range(c.right) :
      CASE e.kind = "quoted" -> IsNumeric(c.left.of) => IsNumber(Unquote(e.of).text)
        [] e.kind = "bare"   -> IsNumeric(c.left.of)
        [] e.kind = "column" -> IsNumeric(c.left.of) = IsNumeric(e.of)

\* A combination of rows is a function from tables to rows.
ValueOf(e, rows) ==
  CASE e.kind = "quoted" -> Unquote(e.of).text
    [] e.kind = "bare"   -> e.of
    [] e.kind = "column" -> rows[e.of[1]][e.of[2]]

Holds(c, rows) ==
  LET a == ValueOf(c.left, rows)
      b == [i \in DOMAIN c.right |-> ValueOf(c.right[i], rows)]
  IN /\ a # Null /\ Null \notin Range(b)
     /\ CASE c.sign = "="  -> a = b[1]
          [] c.sign = "<>" -> a # b[1]
          [] c.sign = "<"  -> ToNumber(a) < ToNumber(b[1])
          [] c.sign = ">"  -> ToNumber(a) > ToNumber(b[1])
          [] c.sign = "IN" -> a \in Range(b)
          [] c.sign = "BETWEEN" -> ToNumber(a) \in ToNumber(b[1]) .. ToNumber(b[2])

\* The combinations a join makes of those it is given.
JoinRows(combinations, join) ==
  FlattenSeq(
    [i \in DOMAIN combinations |->
       LET rows    == combinations[i]
           matches == SelectSeq(tables[join.table], LAMBDA r :
                        rows[join.join_table][join.join_field] # Null
                          /\ r[join.field] = rows[join.join_table][join.join_field])
           none    == [f \in Columns[join.table] \cup {"id"} |-> Null]
       IN IF matches = <<>>
          THEN IF join.type = "INNER" THEN <<>> ELSE << rows @@ (join.table :> none) >>
          ELSE [j \in DOMAIN matches |-> rows @@ (join.table :> matches[j])]])

From(stmt) ==
  FoldLeft(JoinRows,
           [i \in DOMAIN tables[stmt.table] |-> stmt.table :> tables[stmt.table][i]],
           stmt.joins)

\* A statement the server cannot read: an operand, a missing condition, a
\* comparison of unlike types, or a column of a table that is not joined.
Refused(stmt) ==
  LET known == {stmt.table} \cup { j.table : j \in Range(stmt.joins) }
      used  == UNION { {c.left} \cup Range(c.right) : c \in Range(stmt.where) }
  IN \/ stmt.broken
     \/ \E e \in used : ~Readable(e) \/ (e.kind = "column" /\ e.of[1] \notin known)
     \/ \E c \in Range(stmt.where) : ~Comparable(c)
     \/ \E f \in Range(stmt.fields) : f[1] \notin known

RunSelect(stmt) ==
  LET found  == SelectSeq(From(stmt), LAMBDA rows : \A c \in Range(stmt.where) : Holds(c, rows))
      key(rows) == ToNumber(rows[stmt.order[1][1]][stmt.order[1][2]])
      sorted == IF stmt.order = <<>> THEN found
                ELSE SortSeq(found, LAMBDA x, y : IF stmt.order[2] = "ASC" THEN key(x) < key(y)
                                                  ELSE key(x) > key(y))
  IN IF stmt.limit = 0 THEN sorted ELSE SubSeq(sorted, 1, IF Len(sorted) < stmt.limit
                                                          THEN Len(sorted) ELSE stmt.limit)

-----------------------------------------------------------------------------
(* The calls.                                                              *)

\* What the text of a column is to the caller: none is empty.
CStr(text) == IF text = Null THEN <<>> ELSE text

\* One map from the query's fields per row.
Rows(stmt) ==
  IF stmt.table = "" THEN << Head(stmt.fields) :> <<"1">> >>
  ELSE LET found == RunSelect(stmt)
       IN [i \in DOMAIN found |->
             [f \in Range(stmt.fields) |-> CStr(found[i][f[1]][f[2]])]]

\* Run a select and return its rows; a refused statement throws.
DoSelect(op, query, stmt) ==
  /\ last' = IF stmt.table # "" /\ Refused(stmt)
             THEN [op |-> op, query |-> query, ok |-> FALSE, values |-> <<>>]
             ELSE [op |-> op, query |-> query, ok |-> TRUE, values |-> Rows(stmt)]
  /\ UNCHANGED <<tables, nextId>>

SelectPairs(query) == DoSelect("select", query, SelectDatabase(query))
SelectCompare(query) == DoSelect("compare", query, SelectComparison(query))
SelectMultiFilter(query) == DoSelect("variant", query, SelectVariant(query))
SelectJoined(query) == DoSelect("join", query, SelectJoin(query))
SelectSimple(query) == DoSelect("simple", query, SelectSimpleJoin(query))

\* The texts the server can store in a column.
Storable(table, field, text) == <<table, field>> \in Numeric => IsNumber(text)

\* The rows but those at these places.
RemoveAll(rows, places) ==
  FlattenSeq([i \in DOMAIN rows |-> IF i \in places THEN <<>> ELSE << rows[i] >>])

\* The row with this id and these values in these fields, other columns empty.
NewRow(table, id, fields, values) ==
  [f \in Columns[table] \cup {"id"} |->
     IF f = "id" THEN ToText(id)
     ELSE IF f \in Range(fields) THEN values[IndexOf(fields, f)] ELSE Null]

\* A statement runs in a transaction of its own: all of it is done or, when
\* the server refuses it, nothing.  The rows an insertion adds:
DoInsert(query) ==
  LET stmt   == InsertStatement(query)
      n      == Len(stmt.fields)
      texts  == [i \in DOMAIN stmt.values |-> Unquote(stmt.values[i].of).text]
      bad    == \/ stmt.broken
                \/ \E i \in DOMAIN texts :
                     \/ ~Readable(stmt.values[i])
                     \/ ~Storable(query.table, stmt.fields[((i - 1) % n) + 1], texts[i])
  IN [ ok   |-> ~bad,
       rows |-> IF bad THEN <<>>
                ELSE [k \in 1 .. Len(texts) \div n |->
                        NewRow(query.table, nextId[query.table] + k - 1, stmt.fields,
                               SubSeq(texts, (k - 1) * n + 1, k * n))] ]

\* The rows an update changes, by their place, as they will be.
DoUpdate(query) ==
  LET stmt    == UpdateStatement(query)
      rows    == tables[query.table]
      texts   == [i \in DOMAIN stmt.set |-> Unquote(stmt.set[i].of).text]
      hits    == { i \in DOMAIN rows : \A c \in Range(stmt.where) :
                                         Holds(c, query.table :> rows[i]) }
      bad     == \/ Refused([Statement(query.table, <<>>) EXCEPT !.where = stmt.where])
                 \/ stmt.broken
                 \/ \E i \in DOMAIN texts :
                      ~Readable(stmt.set[i]) \/ ~Storable(query.table, stmt.fields[i], texts[i])
      set(row) == [f \in DOMAIN row |->
                     IF f \in Range(stmt.fields) THEN texts[IndexOf(stmt.fields, f)] ELSE row[f]]
  IN [ ok |-> ~bad, rows |-> IF bad THEN <<>> ELSE [i \in hits |-> set(rows[i])] ]

\* The rows a deletion removes, by their place.
DoDelete(query) ==
  LET stmt == DeleteStatement(query)
      rows == tables[query.table]
      bad  == Refused([Statement(query.table, <<>>) EXCEPT !.where = stmt.where])
  IN [ ok |-> ~bad, gone |-> IF bad THEN {} ELSE
         { i \in DOMAIN rows : \A c \in Range(stmt.where) : Holds(c, query.table :> rows[i]) } ]

\* What a statement that returns something answers: the id of its first row.
FirstId(rows) ==
  IF DOMAIN rows = {} THEN <<>>
  ELSE << rows[CHOOSE i \in DOMAIN rows : \A j \in DOMAIN rows : i <= j]["id"] >>

\* insert, which returns true, or the id of the first row when asked.
Insert(query) ==
  LET result == DoInsert(query)
      count  == Len(result.rows)
  IN /\ Len(tables[query.table]) + count <= MaxRows
     /\ nextId[query.table] + count <= MaxId + 1
     /\ last' = [ op |-> "insert", query |-> query, ok |-> result.ok,
                  values |-> FirstId(result.rows) ]
     /\ tables' = [tables EXCEPT ![query.table] = @ \o result.rows]
     /\ nextId' = [nextId EXCEPT ![query.table] = @ + count]

\* update, which returns the id of the first row it changed, or nothing; no
\* filter makes no statement.
Update(query) ==
  LET result  == IF query.filter = <<>> THEN [ok |-> TRUE, rows |-> <<>>] ELSE DoUpdate(query)
  IN /\ last' = [ op |-> "update", query |-> query, ok |-> result.ok,
                  values |-> FirstId(result.rows) ]
     /\ tables' = [tables EXCEPT ![query.table] =
                     [i \in DOMAIN @ |-> IF i \in DOMAIN result.rows THEN result.rows[i] ELSE @[i]]]
     /\ UNCHANGED nextId

\* remove, which returns the text of the first pair of the filter if a row
\* went.  Without a filter it runs nothing and looks at the pair all the same.
RemoveRows(query) ==
  LET result == DoDelete(query)
  IN /\ query.filter # <<>>
     /\ tables' = [tables EXCEPT ![query.table] = RemoveAll(@, result.gone)]
     /\ last' = [ op |-> "remove", query |-> query, ok |-> result.ok,
                  values |-> IF result.gone = {} THEN <<>>
                             ELSE << Unquote(Head(query.filter)[2]).text >> ]
     /\ UNCHANGED nextId

-----------------------------------------------------------------------------

Init ==
  /\ tables = [t \in DOMAIN Columns |-> <<>>]
  /\ nextId = [t \in DOMAIN Columns |-> 1]
  /\ last = [op |-> "none"]

=============================================================================

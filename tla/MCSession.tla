----------------------------- MODULE MCSession ------------------------------
(* Statements about two tables, t and u, and three views: v of t, w of v    *)
(* and u, x of itself; or one view with a string in its predicate.         *)
EXTENDS Session

Num(n) == Value("int", n)
Str(n) == Value("string", n)
Day(n) == Value("date", n)
No == Value("bool", 0)
Is(f, op, val) == Term(Field(f), op, Constant(val))

(* SQL as the README writes it *)
Quoted(val) == <<Token(IF val.type = "int" THEN "number" ELSE val.type, val.v)>>
Words(a, b, c) == <<Word(a), Word(b), Word(c)>>
InBrackets(text) == <<Delim("(")>> \o text \o <<Delim(")")>>

Says(text, means) == [text |-> text, means |-> means]

Select(fields, names, pred) ==
  LET q == [kind |-> "query", fields |-> fields, tables |-> names, pred |-> pred]
  IN Says(QueryText(q, Quoted), q)

View(name, q) ==
  Says(Words("create", "view", name) \o <<Word("as")>> \o q.text,
       [kind |-> "view", name |-> name, query |-> q.means])

Table(name, schema) ==
  LET def(f) == <<Word(f.name)>> \o
        (IF f.type = "string" THEN <<Word("varchar")>> \o InBrackets(Quoted(Num(f.length))) ELSE <<Word(f.type)>>)
  IN Says(Words("create", "table", name) \o InBrackets(Commas([i \in DOMAIN schema |-> def(schema[i])])),
          [kind |-> "table", name |-> name, schema |-> schema])

Insert(name, fields, values) ==
  Says(Words("insert", "into", name) \o InBrackets(Names(fields)) \o <<Word("values")>>
         \o InBrackets(Commas([i \in DOMAIN values |-> Quoted(values[i])])),
       [kind |-> "insert", table |-> name, fields |-> fields, values |-> values])

Delete(name, pred) ==
  Says(Words("delete", "from", name) \o PredicateText(pred, Quoted),
       [kind |-> "delete", table |-> name, pred |-> pred])

Update(name, f, expr, pred) ==
  Says(Words("update", name, "set") \o <<Word(f), Op("=")>> \o ExpressionText(expr, Quoted)
         \o PredicateText(pred, Quoted),
       [kind |-> "modify", table |-> name, field |-> f, expr |-> expr, pred |-> pred])

MCTables == <<
  Table("t", <<FieldOf("s", "string", 1), FieldOf("a", "int", 0), FieldOf("d", "date", 0)>>),
  Table("u", <<FieldOf("c", "bool", 0), FieldOf("b", "int", 0)>>)>>

MCCreates == MCTables \o <<
  View("v", Select(<<"a", "d">>, <<"t">>, <<Is("a", "<>", Num(1))>>)),
  View("w", Select(<<>>, <<"v", "u">>, <<Term(Field("a"), ">=", Field("b")), Is("c", "=", No)>>)),
  View("x", Select(<<>>, <<"x">>, <<>>))>>

MCStringView == MCTables \o <<View("v", Select(<<"a", "d">>, <<"t">>, <<Is("s", "=", Str(1))>>))>>

MCUpdates == {
  Insert("t", <<"a", "d", "s">>, <<Num(1), Day(2), Str(1)>>),
  Insert("t", <<"a", "d", "s">>, <<Num(2), Day(1), Str(2)>>),
  Insert("t", <<"a", "s">>, <<Num(1), Num(1)>>),
  Insert("u", <<"b">>, <<Num(2)>>),
  Insert("u", <<"b", "c">>, <<Num(1)>>),
  Delete("t", <<Is("a", ">=", Num(2)), Is("d", "<=", Day(1))>>),
  Delete("t", <<Is("d", "<=", Day(1)), Is("a", ">=", Num(2))>>),
  Delete("u", <<>>),
  Update("t", "a", Constant(Num(2)), <<Is("a", "<=", Num(2))>>),
  Update("t", "a", Field("s"), <<>>)}

MCQueries == {
  Select(<<"s", "b">>, <<"t", "u">>, <<Term(Field("b"), ">=", Field("a")), Is("s", "=", Str(1))>>),
  Select(<<>>, <<"u", "w">>, <<Is("b", ">", Num(0))>>),
  Select(<<"a", "c">>, <<"v", "t">>, <<>>),
  Select(<<"c", "a">>, <<"u", "t">>, <<Is("c", "=", No), Is("a", "<", Num(2))>>),
  Select(<<"a">>, <<"x">>, <<>>)}

MCStatements == MCUpdates \union MCQueries
MCViewStatements == MCUpdates \union {Select(<<"a">>, <<"v">>, <<>>)}

(* 'ada' is taken for a field, '12' for a number *)
MCUnquoted == <<<<Word("ada")>>, <<Token("number", 12)>>>>
=============================================================================

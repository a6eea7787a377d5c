------------------------------- MODULE Parser -------------------------------
(***************************************************************************)
(* The SQL parser, parse/lexer.go and parse/parser.go: a recursive descent  *)
(* over one token of lookahead, and QueryData.String, which writes a view's *)
(* definition back as text.                                                *)
(*                                                                         *)
(* Abstracted: a text is a sequence of pieces, one for each token, which    *)
(* are words in lower case, and it has a blank between two pieces, though   *)
(* none in front of a comma or a closing parenthesis.  No text has two      *)
(* numbers side by side.                                                   *)
(***************************************************************************)
EXTENDS Query

Token(type, val) == [type |-> type, val |-> val]
Word(w)  == Token("word", w)
Delim(d) == Token("delim", d)
Op(o)    == Token("op", o)
Eof      == Token("eof", "")
Bad      == Token("bad", "")   \* where nextToken returns an error

keywords == {"select", "from", "where", "and", "insert", "into", "values", "delete", "update",
             "set", "create", "table", "int", "varchar", "view", "as", "index", "on"}

(* A date or a number is read on over blanks; a number forgives them, a     *)
(* date with a blank behind it has no accepted format                      *)
Lexed(text) ==
  [i \in DOMAIN text |->
     IF /\ text[i].type = "date" /\ i < Len(text)
        /\ ~(text[i + 1].type = "delim" /\ text[i + 1].val \in {",", ")"})
     THEN Bad ELSE text[i]]

(* What a method returns, and the lexer after it: its token, and the rest   *)
Ret(val, lex) == [ok |-> TRUE, val |-> val, lex |-> lex]
Fail(lex) == [ok |-> FALSE, val |-> <<>>, lex |-> lex]
Then(r, Rest(_, _)) == IF r.ok THEN Rest(r.val, r.lex) ELSE r

(* Returns the token it leaves; on an error the lexer stays with it *)
nextToken(lex) ==
  IF lex.rest = <<>> THEN Ret(lex.cur.val, [lex EXCEPT !.cur = Eof])
  ELSE LET moved == [lex EXCEPT !.rest = Tail(@)]
       IN IF Head(lex.rest).type = "bad" THEN Fail(moved)
          ELSE Ret(lex.cur.val, [moved EXCEPT !.cur = Head(lex.rest)])

NewLexer(text) == nextToken([cur |-> Delim("none"), rest |-> Lexed(text)]).lex

MatchDelim(lex, d) == lex.cur.type = "delim" /\ lex.cur.val = d
MatchKeyword(lex, w) == lex.cur.type = "word" /\ lex.cur.val = w
MatchId(lex) == lex.cur.type = "word" /\ lex.cur.val \notin keywords
MatchOperator(lex, o) == lex.cur.type = "op" /\ lex.cur.val = o

Eat(matches, lex) == IF matches THEN nextToken(lex) ELSE Fail(lex)
EatDelim(lex, d) == Eat(MatchDelim(lex, d), lex)
EatKeyword(lex, w) == Eat(MatchKeyword(lex, w), lex)
EatId(lex) == Eat(MatchId(lex), lex)

-----------------------------------------------------------------------------
(* Expressions, terms and lists *)

(* An error behind a boolean or a date is not reported, and costs its value *)
constant(lex) ==
  LET type == IF lex.cur.type = "number" THEN "int" ELSE lex.cur.type
      next == nextToken(lex)
  IN CASE type \in {"string", "int"} -> Then(next, LAMBDA val, l : Ret(Value(type, val), l))
       [] type \in {"bool", "date"}  -> Ret(Value(type, IF next.ok THEN next.val ELSE 0), next.lex)
       [] OTHER -> Fail(lex)

expression(lex) ==
  IF MatchId(lex) THEN Then(EatId(lex), LAMBDA f, l : Ret(Field(f), l))
  ELSE Then(constant(lex), LAMBDA val, l : Ret(Constant(val), l))

(* "!=" is another "<>"; a lone "!" is a token, and no operator *)
term(lex) ==
  Then(expression(lex), LAMBDA lhs, l1 :
  Then(Eat(l1.cur.type = "op", l1), LAMBDA op, l2 :
  Then(expression(l2), LAMBDA rhs, l3 :
    IF op = "!" THEN Fail(l3)
    ELSE Ret(Term(lhs, IF op = "!=" THEN "<>" ELSE op, rhs), l3))))

FieldOf(name, type, length) == [name |-> name, type |-> type, length |-> length]

(* The parentheses of a varchar may be missing *)
fieldDef(lex) ==
  Then(EatId(lex), LAMBDA f, l1 :
    CASE MatchKeyword(l1, "varchar") ->
           LET l2 == EatDelim(EatKeyword(l1, "varchar").lex, "(").lex
           IN Then(Eat(l2.cur.type = "number", l2), LAMBDA n, l3 :
                Ret(<<FieldOf(f, "string", n)>>, EatDelim(l3, ")").lex))
      [] \E type \in {"int", "bool", "date"} : MatchKeyword(l1, type) ->
           Ret(<<FieldOf(f, l1.cur.val, 0)>>, nextToken(l1).lex)
      [] OTHER -> Fail(l1))

Item(kind, lex) ==
  CASE kind \in {"select", "field", "table"} -> Then(EatId(lex), LAMBDA x, l : Ret(<<x>>, l))
    [] kind = "constant" -> Then(constant(lex), LAMBDA x, l : Ret(<<x>>, l))
    [] kind = "term"     -> Then(term(lex), LAMBDA x, l : Ret(<<x>>, l))
    [] kind = "def"      -> fieldDef(lex)

(* selectList, tableList, fieldList, constList, fieldDefs and predicate; a  *)
(* star ends a list of fields, and stands for none                         *)
RECURSIVE List(_, _)
List(kind, lex) ==
  IF kind = "select" /\ MatchDelim(lex, "*") THEN Ret(<<>>, EatDelim(lex, "*").lex)
  ELSE Then(Item(kind, lex), LAMBDA item, l1 :
         IF IF kind = "term" THEN MatchKeyword(l1, "and") ELSE MatchDelim(l1, ",")
         THEN Then(List(kind, nextToken(l1).lex), LAMBDA rest, l2 : Ret(item \o rest, l2))
         ELSE Ret(item, l1))

Bracketed(kind, lex) ==
  Then(EatDelim(lex, "("), LAMBDA x, l1 :
  Then(List(kind, l1), LAMBDA list, l2 :
  Then(EatDelim(l2, ")"), LAMBDA y, l3 : Ret(list, l3))))

Where(lex) ==
  IF MatchKeyword(lex, "where") THEN List("term", EatKeyword(lex, "where").lex)
  ELSE Ret(<<>>, lex)

-----------------------------------------------------------------------------
(* Statements; what follows a complete one is not looked at *)

Query(lex) ==
  Then(EatKeyword(lex, "select"), LAMBDA x, l1 :
  Then(List("select", l1), LAMBDA fields, l2 :
  Then(EatKeyword(l2, "from"), LAMBDA y, l3 :
  Then(List("table", l3), LAMBDA names, l4 :
  Then(Where(l4), LAMBDA pred, l5 :
    Ret([kind |-> "query", fields |-> fields, tables |-> names, pred |-> pred], l5))))))

insert(lex) ==
  Then(EatKeyword(lex, "into"), LAMBDA x, l1 :
  Then(EatId(l1), LAMBDA name, l2 :
  Then(Bracketed("field", l2), LAMBDA fields, l3 :
  Then(EatKeyword(l3, "values"), LAMBDA y, l4 :
  Then(Bracketed("constant", l4), LAMBDA vals, l5 :
    Ret([kind |-> "insert", table |-> name, fields |-> fields, values |-> vals], l5))))))

delete(lex) ==
  Then(EatKeyword(lex, "from"), LAMBDA x, l1 :
  Then(EatId(l1), LAMBDA name, l2 :
  Then(Where(l2), LAMBDA pred, l3 :
    Ret([kind |-> "delete", table |-> name, pred |-> pred], l3))))

modify(lex) ==
  Then(EatId(lex), LAMBDA name, l1 :
  Then(EatKeyword(l1, "set"), LAMBDA x, l2 :
  Then(EatId(l2), LAMBDA f, l3 :
  Then(Eat(MatchOperator(l3, "="), l3), LAMBDA y, l4 :
  Then(expression(l4), LAMBDA e, l5 :
  Then(Where(l5), LAMBDA pred, l6 :
    Ret([kind |-> "modify", table |-> name, field |-> f, expr |-> e, pred |-> pred], l6)))))))

createTable(lex) ==
  Then(EatId(lex), LAMBDA name, l1 :
  Then(Bracketed("def", l1), LAMBDA schema, l2 :
    Ret([kind |-> "table", name |-> name, schema |-> schema], l2)))

createView(lex) ==
  Then(EatId(lex), LAMBDA name, l1 :
  Then(EatKeyword(l1, "as"), LAMBDA x, l2 :
  Then(Query(l2), LAMBDA q, l3 :
    Ret([kind |-> "view", name |-> name, query |-> q], l3))))

createIndex(lex) ==
  Then(EatKeyword(lex, "index"), LAMBDA x, l1 :
  Then(EatId(l1), LAMBDA name, l2 :
  Then(EatKeyword(l2, "on"), LAMBDA y, l3 :
  Then(EatId(l3), LAMBDA on, l4 :
  Then(EatDelim(l4, "("), LAMBDA z, l5 :
  Then(EatId(l5), LAMBDA f, l6 :
  Then(EatDelim(l6, ")"), LAMBDA w, l7 :
    Ret([kind |-> "index", name |-> name, table |-> on, field |-> f], l7))))))))

create(lex) ==
  Then(EatKeyword(lex, "create"), LAMBDA x, l :
    CASE MatchKeyword(l, "table") -> Then(nextToken(l), LAMBDA y, l1 : createTable(l1))
      [] MatchKeyword(l, "view")  -> Then(nextToken(l), LAMBDA y, l1 : createView(l1))
      [] OTHER -> createIndex(l))

UpdateCmd(lex) ==
  CASE MatchKeyword(lex, "insert") -> Then(nextToken(lex), LAMBDA x, l : insert(l))
    [] MatchKeyword(lex, "delete") -> Then(nextToken(lex), LAMBDA x, l : delete(l))
    [] MatchKeyword(lex, "update") -> Then(nextToken(lex), LAMBDA x, l : modify(l))
    [] OTHER -> create(lex)

-----------------------------------------------------------------------------
(* Text; Const says how a constant is written *)

Commas(texts) == FlattenSeq([i \in DOMAIN texts |-> IF i = 1 THEN texts[i] ELSE <<Delim(",")>> \o texts[i]])
Names(names) == Commas([i \in DOMAIN names |-> <<Word(names[i])>>])

ExpressionText(e, Const(_)) == IF e.kind = "field" THEN <<Word(e.field)>> ELSE Const(e.value)

PredicateText(pred, Const(_)) ==
  LET text(t) == ExpressionText(t.lhs, Const) \o <<Op(t.op)>> \o ExpressionText(t.rhs, Const)
  IN FlattenSeq([i \in DOMAIN pred |-> <<Word(IF i = 1 THEN "where" ELSE "and")>> \o text(pred[i])])

QueryText(q, Const(_)) ==
  <<Word("select")>> \o (IF q.fields = <<>> THEN <<Delim("*")>> ELSE Names(q.fields))
    \o <<Word("from")>> \o Names(q.tables) \o PredicateText(q.pred, Const)
=============================================================================

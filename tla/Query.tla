------------------------------- MODULE Query --------------------------------
(***************************************************************************)
(* Values, predicates and scans: query/*.go, without state.                 *)
(*                                                                         *)
(* A scan is a tree of records: a table scan with its current slot (0 is    *)
(* before the first), or a selection, projection or product of scans.  db   *)
(* gives, for every table, the types of its fields and its slots.  Reading  *)
(* a record before the first one takes a negative offset into the page: the *)
(* process panics.                                                         *)
(*                                                                         *)
(* Abstracted: a value is a type and a number that orders it; of the nine   *)
(* Get and Set methods of a scan, GetVal and SetVal; blocks are TableScan's.*)
(***************************************************************************)
EXTENDS Integers, SequencesExt

Value(type, v) == [type |-> type, v |-> v]
Nil   == Value("nil", 0)      \* an error, as GetVal's value
Panic == Value("panic", 0)

(* A date constant is in UTC; read back from a page it is in local time, and *)
(* == compares time.Time values with their locations                        *)
Stored(val) == IF val.type = "date" THEN Value("local date", val.v) ELSE val

Field(f) == [kind |-> "field", field |-> f]
Constant(val) == [kind |-> "constant", value |-> val]
Term(lhs, op, rhs) == [lhs |-> lhs, op |-> op, rhs |-> rhs]

GoType(val) == IF val.type = "local date" THEN "date" ELSE val.type

(* Values of different types are different, and not ordered; booleans too   *)
Compare(l, op, r) ==
  LET ordered == GoType(l) = GoType(r) /\ l.type # "bool" IN
  CASE op = "="  -> l = r
    [] op = "<>" -> l # r
    [] op = "<"  -> ordered /\ l.v < r.v
    [] op = "<=" -> ordered /\ l.v <= r.v
    [] op = ">"  -> ordered /\ l.v > r.v
    [] op = ">=" -> ordered /\ l.v >= r.v

-----------------------------------------------------------------------------
(* Scans *)

NewTableScan(name) == [kind |-> "table", name |-> name, slot |-> 0]
NewSelectScan(s, pred) == [kind |-> "select", input |-> s, pred |-> pred]
NewProjectScan(s, fields) == [kind |-> "project", input |-> s, fields |-> fields]
NewProductScan(s1, s2) == [kind |-> "product", s1 |-> s1, s2 |-> s2]

RECURSIVE HasField(_, _, _)
HasField(db, s, f) ==
  CASE s.kind = "table"   -> f \in DOMAIN db[s.name].types
    [] s.kind = "select"  -> HasField(db, s.input, f)
    [] s.kind = "project" -> f \in s.fields
    [] s.kind = "product" -> HasField(db, s.s1, f) \/ HasField(db, s.s2, f)

(* Of two fields with the same name a product shows the left one *)
RECURSIVE GetVal(_, _, _)
GetVal(db, s, f) ==
  CASE s.kind = "product" -> GetVal(db, IF HasField(db, s.s1, f) THEN s.s1 ELSE s.s2, f)
    [] s.kind = "select"  -> GetVal(db, s.input, f)
    [] s.kind = "project" -> IF f \in s.fields THEN GetVal(db, s.input, f) ELSE Nil
    [] s.kind = "table"   -> IF f \notin DOMAIN db[s.name].types THEN Nil
                             ELSE IF s.slot = 0 THEN Panic
                             ELSE db[s.name].slots[s.slot].row[f]

Evaluate(db, s, e) == IF e.kind = "constant" THEN e.value ELSE GetVal(db, s, e.field)

(* "yes", "no" or "panic"; an error on either side is a "no" *)
TermIsSatisfied(db, s, t) ==
  LET l == Evaluate(db, s, t.lhs)
      r == Evaluate(db, s, t.rhs)
  IN IF l = Panic THEN "panic" ELSE IF l = Nil THEN "no"
     ELSE IF r = Panic THEN "panic" ELSE IF r = Nil THEN "no"
     ELSE IF Compare(l, t.op, r) THEN "yes" ELSE "no"

(* The terms are tried in order up to the first that is not satisfied *)
IsSatisfied(db, s, pred) ==
  LET answers == [i \in DOMAIN pred |-> TermIsSatisfied(db, s, pred[i])]
      others == {i \in DOMAIN pred : answers[i] # "yes"}
  IN IF others = {} THEN "yes" ELSE answers[Min(others)]

(* What a method of a scan returns, and the scan after it *)
Result(ok, s) == [ok |-> ok, scan |-> s]

UsedAfter(db, s) == {i \in (s.slot + 1)..Len(db[s.name].slots) : db[s.name].slots[i].used}

RECURSIVE BeforeFirst(_, _), Next(_, _)

(* A product is before its first record when its left scan is on its first; *)
(* whether there is one is not looked at                                    *)
BeforeFirst(db, s) ==
  CASE s.kind = "table" -> Result("yes", [s EXCEPT !.slot = 0])
    [] s.kind \in {"select", "project"} ->
         LET r == BeforeFirst(db, s.input) IN Result(r.ok, [s EXCEPT !.input = r.scan])
    [] s.kind = "product" ->
         LET first == BeforeFirst(db, s.s1)
             left  == Next(db, first.scan)
             right == BeforeFirst(db, s.s2)
         IN IF "panic" \in {first.ok, left.ok, right.ok} THEN Result("panic", s)
            ELSE Result("yes", NewProductScan(left.scan, right.scan))

(* Mutant: the right scan goes on where it was *)
ProductNext_NoReset(db, s) ==
  LET right == Next(db, s.s2)
      left  == Next(db, s.s1)
  IN IF "panic" \in {right.ok, left.ok} THEN Result("panic", s)
     ELSE IF right.ok = "yes" THEN Result("yes", [s EXCEPT !.s2 = right.scan])
     ELSE Result(left.ok, [s EXCEPT !.s1 = left.scan])

ProductNext(db, s) ==
  LET right == Next(db, s.s2)
      reset == BeforeFirst(db, right.scan)
      again == Next(db, reset.scan)
      left  == Next(db, s.s1)
  IN IF right.ok = "panic" THEN Result("panic", s)
     ELSE IF right.ok = "yes" THEN Result("yes", [s EXCEPT !.s2 = right.scan])
     ELSE IF "panic" \in {reset.ok, again.ok} THEN Result("panic", s)
     ELSE IF again.ok = "no" THEN Result("no", [s EXCEPT !.s2 = again.scan])
     ELSE Result(left.ok, NewProductScan(left.scan, again.scan))

SelectNext(db, s) ==
  LET r == Next(db, s.input)
      moved == [s EXCEPT !.input = r.scan]
      holds == IsSatisfied(db, r.scan, s.pred)
  IN IF r.ok # "yes" THEN Result(r.ok, moved)
     ELSE IF holds = "no" THEN Next(db, moved)
     ELSE Result(holds, moved)

Next(db, s) ==
  CASE s.kind = "table" ->
         IF UsedAfter(db, s) = {} THEN Result("no", s)
         ELSE Result("yes", [s EXCEPT !.slot = Min(UsedAfter(db, s))])
    [] s.kind = "select" -> SelectNext(db, s)
    [] s.kind = "project" ->
         LET r == Next(db, s.input) IN Result(r.ok, [s EXCEPT !.input = r.scan])
    [] s.kind = "product" -> ProductNext(db, s)

-----------------------------------------------------------------------------
(* The parts of a predicate that can be tried on the operands of a product; *)
(* the empty predicate stands for nil                                       *)

(* Mutant: one side is enough *)
AppliesTo_Either(t, fields) ==
  \E e \in {t.lhs, t.rhs} : e.kind = "constant" \/ e.field \in fields

AppliesTo(t, fields) ==
  \A e \in {t.lhs, t.rhs} : e.kind = "constant" \/ e.field \in fields

SelectSubPredicate(pred, fields) ==
  SelectSeq(pred, LAMBDA t : AppliesTo(t, fields))

JoinSubPredicate(pred, fields1, fields2) ==
  SelectSeq(pred, LAMBDA t : /\ ~AppliesTo(t, fields1) /\ ~AppliesTo(t, fields2)
                             /\ AppliesTo(t, fields1 \union fields2))
=============================================================================

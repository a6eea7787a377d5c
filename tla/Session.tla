------------------------------ MODULE Session -------------------------------
(***************************************************************************)
(* One client's SQL statements: runStmt of cmd/godb/main.go, the planners   *)
(* of plan/*.go and the catalogs of metadata/*.go, on the scans of Query.   *)
(*                                                                         *)
(* A statement is a text and what its client means by it.  It is parsed,    *)
(* planned and run in a transaction of its own.  One Next of a query, a     *)
(* DELETE or an UPDATE is a step; it may fail (a lock, a buffer, an empty   *)
(* block: TableScan) and the process may die in between.  A CREATE or an    *)
(* INSERT is one step.                                                     *)
(*                                                                         *)
(* Abstracted: the catalogs hold users' tables only, outside any page, and  *)
(* no indexes, which no plan reads; strings fit into their fields; a        *)
(* transaction that does not commit leaves no trace (Recovery); statistics  *)
(* are for plans nobody chooses among.                                     *)
(***************************************************************************)
EXTENDS Parser, Catalog

CONSTANTS
  Creates,         \* the CREATEs, in the client's order, as [text, means]:
                   \* means is what the parser returns for such a text
  Statements,      \* what else a client may say
  Unquoted,        \* the pieces of a string without its quotes
  Positions,       \* does the client call BeforeFirst, or start as runStmt?
  MaxUpdates, MaxSlots   \* bounds: INSERTs, DELETEs and UPDATEs, slots

(* Every table has a name of its own, and every field of a table: the code  *)
(* does not look (CREATE TABLE as a client of Catalog).                     *)
ASSUME CreatesAssumption ==
  LET made == {i \in DOMAIN Creates : Creates[i].means.kind = "table"}
      data(i) == Creates[i].means
  IN \A i \in made :
       /\ \A j \in made : data(i).name = data(j).name => i = j
       /\ IsInjective([k \in DOMAIN data(i).schema |-> data(i).schema[k].name])

VARIABLES
  phase,        \* "idle", "running", "ended" and "cut" (not yet committed), "failed", "panicked", "dead"
  stmt,         \* the statement: what the parser returned, what the client means
  plan,         \* a query's plan: its scan and the names of its fields
  out,          \* what a query has returned
  tables,       \* the slots of every table
  viewCatalog,
  asked,        \* the views as they were asked for, in the order of viewCatalog
  saved,        \* the tables at the beginning of the statement
  updates       \* how many there have been

catalogs == <<tableCatalog, fieldCatalog, viewCatalog, asked>>
vars == <<phase, stmt, plan, out, tables, catalogs, saved, updates>>

NoStmt == [data |-> [kind |-> "none"], means |-> [kind |-> "none"]]
NoScan == NewTableScan("none")
NoPlan == [ok |-> "no", scan |-> NoScan, fields |-> <<>>]

-----------------------------------------------------------------------------
(* The catalogs *)

(* The tables as the scans see them *)
db == [n \in TableNames |->
        LET info == GetLayout(n).info
        IN [types |-> [f \in DOMAIN info |-> info[f].type], slots |-> tables[n]]]

(* Expression.String: %v writes no quotes, and a date with a clock and a zone *)
ConstantText(val) ==
  CASE val.type = "string" -> Unquoted[val.v]
    [] val.type = "date" -> <<Bad>>
    [] val.type = "int" -> <<Token("number", val.v)>>
    [] OTHER -> <<Token(val.type, val.v)>>

(* The position of the view with this name, 0 if there is none *)
ViewAt(name) == Min({Len(viewCatalog) + 1} \union
                    {i \in DOMAIN viewCatalog : viewCatalog[i].name = name}) % (Len(viewCatalog) + 1)

-----------------------------------------------------------------------------
(* Plans, opened: a left-deep product of the tables and views, with a       *)
(* selection and a projection.  Planning a table that does not exist reads  *)
(* slots of size -1 for its statistics and panics; a view that reaches      *)
(* itself is expanded until the stack is full.                              *)

PlanOf(ok, scan, fields) == [ok |-> ok, scan |-> scan, fields |-> fields]

NewTablePlan(name) ==
  IF Known(name) THEN PlanOf("yes", NewTableScan(name), GetLayout(name).fields)
                 ELSE PlanOf("panic", NoScan, <<>>)

NewProductPlan(p1, p2) ==
  PlanOf("yes", NewProductScan(p1.scan, p2.scan), p1.fields \o p2.fields)

RECURSIVE CreatePlan(_, _)
CreatePlan(q, depth) ==
  LET operand(name) ==
        IF ViewAt(name) = 0 THEN NewTablePlan(name)
        ELSE LET def == Query(NewLexer(viewCatalog[ViewAt(name)].text))
             IN IF ~def.ok THEN PlanOf("error", NoScan, <<>>)
                ELSE IF depth = Len(viewCatalog) THEN PlanOf("panic", NoScan, <<>>)
                ELSE CreatePlan(def.val, depth + 1)
      plans == [i \in DOMAIN q.tables |-> operand(q.tables[i])]
      bad == {i \in DOMAIN plans : plans[i].ok # "yes"}
      product == FoldLeft(NewProductPlan, plans[1], Tail(plans))
      fields == IF q.fields = <<>> THEN product.fields ELSE q.fields
  IN IF bad # {} THEN plans[Min(bad)]
     ELSE PlanOf("yes",
            NewProjectScan(NewSelectScan(product.scan, q.pred), ToSet(fields)), fields)

-----------------------------------------------------------------------------
Init ==
  /\ phase = "idle" /\ stmt = NoStmt /\ plan = NoPlan /\ out = <<>>
  /\ tables = [n \in TableNames |-> <<>>] /\ saved = tables
  /\ CatalogInit /\ viewCatalog = <<>> /\ asked = <<>>
  /\ updates = 0

Updates == {"insert", "delete", "modify"}

(* runStmt and Planner.ExecuteUpdate: the word "select" makes a query *)
Parsed == [s \in Statements \union ToSet(Creates) |->
  LET lex == NewLexer(s.text)
  IN IF MatchKeyword(lex, "select") THEN Query(lex) ELSE UpdateCmd(lex)]

Begin(s, kind) ==
  /\ phase = "idle" /\ Parsed[s].ok /\ Parsed[s].val.kind = kind
  /\ kind \in Updates => updates < MaxUpdates
  /\ updates' = updates + (IF kind \in Updates THEN 1 ELSE 0)
  /\ stmt' = [data |-> Parsed[s].val, means |-> s.means]
  /\ saved' = tables

SyntaxError(s) ==
  /\ phase = "idle" /\ ~Parsed[s].ok
  /\ phase' = "failed" /\ stmt' = [NoStmt EXCEPT !.means = s.means]
  /\ UNCHANGED <<plan, out, tables, catalogs, saved, updates>>

(* The next of the CREATEs *)
NextCreate ==
  LET done == Len(tableCatalog) + Len(viewCatalog)
  IN {Creates[i] : i \in {done + 1} \cap DOMAIN Creates}

CreateTable(s) ==
  LET data == Parsed[s].val IN
  /\ Begin(s, "table") /\ AddTable(data.name, data.schema)
  /\ phase' = "ended"
  /\ UNCHANGED <<plan, out, tables, viewCatalog, asked>>

CreateView(s) ==
  LET data == Parsed[s].val IN
  /\ Begin(s, "view")
  /\ viewCatalog' = Append(viewCatalog, [name |-> data.name, text |-> QueryText(data.query, ConstantText)])
  /\ asked' = Append(asked, s.means)
  /\ phase' = "ended"
  /\ UNCHANGED <<plan, out, tables, tableCatalog, fieldCatalog>>

(* Mutant: the value's bytes are written whatever its type *)
Settable_AnyType(name, f, val) == f \in DOMAIN db[name].types

(* ts.SetVal: the type of the value is that of the field *)
Settable(name, f, val) ==
  LET types == db[name].types IN f \in DOMAIN types /\ GoType(val) = types[f]

(* A formatted slot: Format's values of every type *)
ZeroRow(name) ==
  [f \in DOMAIN db[name].types |-> Stored(Value(db[name].types[f], 0))]

(* Mutant: the first slot is always taken *)
FirstEmpty_First(name) == 1

(* A slot that has been used before keeps the values it had *)
FirstEmpty(name) ==
  LET empty == {i \in DOMAIN tables[name] : ~tables[name][i].used}
  IN IF empty = {} THEN Len(tables[name]) + 1 ELSE Min(empty)

SlotsUpTo(name, i) ==
  IF i \in DOMAIN tables[name] THEN tables[name]
  ELSE Append(tables[name], [used |-> FALSE, row |-> ZeroRow(name)])

InsertedRow(row, s) ==
  [f \in DOMAIN row |->
     LET at == {i \in DOMAIN s.fields : s.fields[i] = f}
     IN IF at = {} THEN row[f] ELSE Stored(s.values[Max(at)])]

Inserted(s) ==
  LET i == FirstEmpty(s.table)
      slots == SlotsUpTo(s.table, i)
  IN [slots EXCEPT ![i] = [used |-> TRUE, row |-> InsertedRow(@.row, s)]]

(* values[i] of a shorter list panics; a longer list is cut *)
ExecuteInsert(s) ==
  LET data == Parsed[s].val
      short == Len(data.values) < Len(data.fields)
      given == DOMAIN data.fields \cap DOMAIN data.values
      settable == {i \in given : Settable(data.table, data.fields[i], data.values[i])}
  IN
  /\ Begin(s, "insert")
  /\ Known(data.table) => FirstEmpty(data.table) <= MaxSlots
  /\ phase' = IF ~Known(data.table) THEN "panicked"
              ELSE IF settable # given THEN "failed" ELSE IF short THEN "panicked" ELSE "ended"
  /\ tables' = IF phase' = "ended" THEN [tables EXCEPT ![data.table] = Inserted(data)] ELSE tables
  /\ UNCHANGED <<plan, out, catalogs>>

(* A plan that is made and opened; Positions: the client calls BeforeFirst  *)
Open(p) ==
  LET r == IF Positions THEN BeforeFirst(db, p.scan) ELSE Result("yes", p.scan)
  IN /\ phase' = (CASE p.ok = "error" -> "failed"
                    [] p.ok = "panic" \/ r.ok = "panic" -> "panicked"
                    [] OTHER -> "running")
     /\ plan' = [p EXCEPT !.scan = r.scan]
     /\ out' = <<>>
     /\ UNCHANGED <<tables, catalogs>>

RunQuery(s) == Begin(s, "query") /\ Open(CreatePlan(Parsed[s].val, 0))

SelectPlanOf(data) ==
  LET p == NewTablePlan(data.table) IN [p EXCEPT !.scan = NewSelectScan(@, data.pred)]

ExecuteDelete(s) == Begin(s, "delete") /\ Open(SelectPlanOf(Parsed[s].val))
ExecuteModify(s) == Begin(s, "modify") /\ Open(SelectPlanOf(Parsed[s].val))

(* One iteration of the loop around Next: what a record is used for *)
Visit(kind, Use(_)) ==
  LET r == Next(db, plan.scan) IN
  /\ phase = "running" /\ stmt.data.kind = kind
  /\ IF r.ok = "yes" THEN Use(r.scan)
     ELSE /\ phase' = IF r.ok = "no" THEN "ended" ELSE "panicked"
          /\ UNCHANGED <<plan, out, tables>>
  /\ UNCHANGED <<stmt, catalogs, saved, updates>>

(* An error of GetVal is printed as nil *)
PrintRow(scan) ==
  LET row == [i \in DOMAIN plan.fields |-> GetVal(db, scan, plan.fields[i])]
  IN /\ phase' = IF Panic \in ToSet(row) THEN "panicked" ELSE "running"
     /\ out' = Append(out, row)
     /\ plan' = [plan EXCEPT !.scan = scan]
     /\ UNCHANGED tables

QueryRow == Visit("query", PrintRow)

DeleteRecord(scan) ==
  /\ tables' = [tables EXCEPT ![scan.input.name][scan.input.slot].used = FALSE]
  /\ plan' = [plan EXCEPT !.scan = scan]
  /\ UNCHANGED <<phase, out>>

DeleteRow == Visit("delete", DeleteRecord)

(* Mutant: the scan begins again after every change *)
ModifyRecord_Restarts(scan) ==
  LET val == Evaluate(db, scan, stmt.data.expr)
      at == scan.input
  IN /\ IF Settable(at.name, stmt.data.field, val)
        THEN /\ tables' = [tables EXCEPT ![at.name][at.slot].row[stmt.data.field] = Stored(val)]
             /\ plan' = [plan EXCEPT !.scan = BeforeFirst(db, scan).scan]
             /\ UNCHANGED phase
        ELSE phase' = "failed" /\ UNCHANGED <<tables, plan>>
     /\ UNCHANGED out

ModifyRecord(scan) ==
  LET val == Evaluate(db, scan, stmt.data.expr)
      at == scan.input
  IN /\ IF Settable(at.name, stmt.data.field, val)
        THEN /\ tables' = [tables EXCEPT ![at.name][at.slot].row[stmt.data.field] = Stored(val)]
             /\ plan' = [plan EXCEPT !.scan = scan]
             /\ UNCHANGED phase
        ELSE phase' = "failed" /\ UNCHANGED <<tables, plan>>
     /\ UNCHANGED out

ModifyRow == Visit("modify", ModifyRecord)

(* Next returns an error: a query takes it for the end of its rows, and     *)
(* commits; a DELETE or an UPDATE fails                                    *)
NextFails ==
  /\ phase = "running"
  /\ phase' = IF stmt.data.kind = "query" THEN "cut" ELSE "failed"
  /\ UNCHANGED <<stmt, plan, out, tables, catalogs, saved, updates>>

Over ==
  /\ phase' = "idle" /\ stmt' = NoStmt /\ plan' = NoPlan /\ out' = <<>>
  /\ UNCHANGED <<catalogs, updates>>

Commit == phase \in {"ended", "cut"} /\ Over /\ saved' = tables /\ UNCHANGED tables
Rollback == phase = "failed" /\ Over /\ tables' = saved /\ UNCHANGED saved

Crash ==
  /\ phase = "running" /\ phase' = "dead"
  /\ UNCHANGED <<stmt, plan, out, tables, catalogs, saved, updates>>

(* NewGoDB: recovery undoes what the statement has done *)
Restart == phase \in {"panicked", "dead"} /\ Over /\ tables' = saved /\ UNCHANGED saved

Row == NextFails \/ QueryRow \/ DeleteRow \/ ModifyRow
Finish == Commit \/ Rollback

SessionNext ==
  \/ \E s \in NextCreate : CreateTable(s) \/ CreateView(s)
  \/ \E s \in Statements :
       RunQuery(s) \/ ExecuteInsert(s) \/ ExecuteDelete(s) \/ ExecuteModify(s) \/ SyntaxError(s)
  \/ Row \/ Finish \/ Crash \/ Restart

Spec == Init /\ [][SessionNext]_vars
FairSpec == Spec /\ WF_vars(Row) /\ WF_vars(Finish)

-----------------------------------------------------------------------------
(* What statements mean *)

(* Dates are compared as points in time *)
Absolute(val) == Value(GoType(val), val.v)

RowValue(row, e) ==
  IF e.kind = "constant" THEN Absolute(e.value)
  ELSE IF e.field \in DOMAIN row THEN Absolute(row[e.field]) ELSE Nil

Holds(pred, row) ==
  \A i \in DOMAIN pred :
    LET l == RowValue(row, pred[i].lhs)
        r == RowValue(row, pred[i].rhs)
    IN Nil \notin {l, r} /\ Compare(l, pred[i].op, r)

RowsOf(slots) ==
  LET used == SelectSeq(slots, LAMBDA s : s.used) IN [i \in DOMAIN used |-> used[i].row]

Joined(left, right) ==
  FlattenSeq([i \in DOMAIN left |-> [j \in DOMAIN right |-> left[i] @@ right[j]]])

(* The rows of a query, its views being what was asked for *)
RECURSIVE Meaning(_)
Meaning(q) ==
  LET operand(name) == IF ViewAt(name) = 0 THEN RowsOf(tables[name])
                       ELSE Meaning(asked[ViewAt(name)].query)
      joined == FoldLeft(Joined, operand(q.tables[1]),
                         [i \in 1..(Len(q.tables) - 1) |-> operand(q.tables[i + 1])])
      selected == SelectSeq(joined, LAMBDA row : Holds(q.pred, row))
      shown(row) == IF q.fields = <<>> THEN DOMAIN row ELSE DOMAIN row \cap ToSet(q.fields)
  IN [i \in DOMAIN selected |-> [f \in shown(selected[i]) |-> selected[i][f]]]

Shown(row) == [i \in DOMAIN plan.fields |->
                 IF plan.fields[i] \in DOMAIN row THEN row[plan.fields[i]] ELSE Nil]

Answer(q) == LET rows == Meaning(q) IN [i \in DOMAIN rows |-> Shown(rows[i])]

-----------------------------------------------------------------------------
(* Properties *)

TypeOK ==
  /\ phase \in {"idle", "running", "ended", "cut", "failed", "panicked", "dead"}
  /\ \A n \in TableNames : /\ Len(tables[n]) <= MaxSlots
                           /\ \A i \in DOMAIN tables[n] :
                                LET row == tables[n][i].row IN
                                /\ DOMAIN row = DOMAIN db[n].types
                                /\ \A f \in DOMAIN row : GoType(row[f]) = db[n].types[f]
  /\ Len(asked) = Len(viewCatalog)
  /\ updates \in 0..MaxUpdates

(* Does every left operand of a product have a record? *)
RECURSIVE LeftsHaveRecords(_)
LeftsHaveRecords(q) ==
  \A i \in DOMAIN q.tables :
    LET view == ViewAt(q.tables[i]) IN
    /\ i < Len(q.tables) => (IF view = 0 THEN RowsOf(tables[q.tables[i]])
                                        ELSE Meaning(asked[view].query)) # <<>>
    /\ view # 0 => LeftsHaveRecords(asked[view].query)

(* A planned query returns, in order, the rows that its text means, with the *)
(* views being what their CREATE VIEW asked for, up to an error that runStmt *)
(* hides; and it does not panic (the iterators of query/*.go against the    *)
(* algebra).  A left operand without records is outside: ProductScan takes  *)
(* no notice of it.                                                        *)
QueryIsAnswered ==
  stmt.means.kind = "query" /\ plan.ok = "yes" /\ phase # "dead" /\ LeftsHaveRecords(stmt.means) =>
    /\ phase # "panicked"
    /\ phase = "ended" => out = Answer(stmt.means)
    /\ IsPrefix(out, Answer(stmt.means))

(* A DELETE, UPDATE or INSERT that is about to commit has changed the rows  *)
(* it was to change, once, and no others: scanning and changing the same    *)
(* table do not disturb each other, and a new record takes nobody's slot.   *)
UpdateIsRelational ==
  phase = "ended" =>
    LET s == stmt.means
        old == RowsOf(saved[s.table])
        new == RowsOf(tables[s.table])
        others == \A n \in TableNames \ {s.table} : tables[n] = saved[n]
        modified(row) == IF Holds(s.pred, row)
                         THEN [row EXCEPT ![s.field] = Stored(IF s.expr.kind = "constant"
                                                THEN s.expr.value ELSE row[s.expr.field])]
                         ELSE row
    IN /\ stmt.means.kind = "delete" => others /\ new = SelectSeq(old, LAMBDA row : ~Holds(s.pred, row))
       /\ stmt.means.kind = "modify" => others /\ new = [i \in DOMAIN old |-> modified(old[i])]
       /\ stmt.means.kind = "insert" =>
            /\ others
            /\ \E i \in DOMAIN new :
                 /\ RemoveAt(new, i) = old
                 /\ \A f \in DOMAIN s.fields : new[i][s.fields[f]] = Stored(s.values[f])

(* A predicate can be tried in parts, those that apply to one operand of a  *)
(* product on that operand (SelectSubPredicate, JoinSubPredicate), provided *)
(* the operands share no field name.                                       *)
SubPredicatesConjoin ==
  stmt.means.kind = "query" /\ Len(stmt.means.tables) = 2 /\ (\A i \in 1..2 : Known(stmt.means.tables[i])) =>
    LET n == stmt.means.tables
        pred == stmt.means.pred
        fields(i) == DOMAIN db[n[i]].types
        at(i, slot) == [NewTableScan(n[i]) EXCEPT !.slot = slot]
        used(i) == {slot \in DOMAIN tables[n[i]] : tables[n[i]][slot].used}
    IN fields(1) \cap fields(2) = {} /\ (\A i \in DOMAIN pred : AppliesTo(pred[i], fields(1) \union fields(2))) =>
         \A i \in used(1), j \in used(2) :
           LET both == NewProductScan(at(1, i), at(2, j))
           IN IsSatisfied(db, both, pred) = "yes" <=>
                /\ IsSatisfied(db, at(1, i), SelectSubPredicate(pred, fields(1))) = "yes"
                /\ IsSatisfied(db, at(2, j), SelectSubPredicate(pred, fields(2))) = "yes"
                /\ IsSatisfied(db, both, JoinSubPredicate(pred, fields(1), fields(2))) = "yes"

(* Every statement comes to the end of its transaction, on every path of    *)
(* runStmt, unless the process dies; and the loops of ExecuteDelete and     *)
(* ExecuteModify get ahead: no change sends their scan back.               *)
Advances == plan'.scan.input.slot > plan.scan.input.slot

EveryStatementEnds ==
  /\ phase # "idle" ~> phase \in {"idle", "dead", "panicked"}
  /\ [][phase = "running" /\ phase' = "running" /\ stmt.means.kind \in {"delete", "modify"} => Advances]_vars
=============================================================================

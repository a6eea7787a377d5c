------------------------------ MODULE Catalog -------------------------------
(***************************************************************************)
(* The catalogs of tables and of fields: metadata/table_manager.go.  A      *)
(* client gives every table a name of its own, and every field of a table.  *)
(***************************************************************************)
EXTENDS Layout

CONSTANT TableNames   \* names a client uses in statements

VARIABLES
  tableCatalog,   \* a row for each table: [name, slotSize]
  fieldCatalog    \* a row for each field: [table, name, type, length, offset]

CatalogInit == tableCatalog = <<>> /\ fieldCatalog = <<>>

FieldRow(table, field, offset) ==
  [table |-> table, name |-> field.name, type |-> field.type, length |-> field.length,
   offset |-> offset]

(* NewLayout has sorted the schema *)
AddTable(name, schema) ==
  \E order \in SortedFields(schema) :
    LET layout == NewLayout(order)
    IN /\ tableCatalog' = Append(tableCatalog, [name |-> name, slotSize |-> layout.slotSize])
       /\ fieldCatalog' = fieldCatalog \o
            [i \in DOMAIN order |-> FieldRow(name, order[i], layout.offsets[i])]

Rows(name) == {i \in DOMAIN tableCatalog : tableCatalog[i].name = name}
FieldRows(name) == {i \in DOMAIN fieldCatalog : fieldCatalog[i].table = name}

Known(name) == Rows(name) # {}

(* The first size for the name, all of its fields, the last row of each     *)
SlotSize(name) == IF Known(name) THEN tableCatalog[Min(Rows(name))].slotSize ELSE -1

FieldNames(name) ==
  LET rows == SelectSeq(fieldCatalog, LAMBDA r : r.table = name)
  IN [i \in DOMAIN rows |-> rows[i].name]

Info(name) ==
  LET rows(f) == {i \in FieldRows(name) : fieldCatalog[i].name = f}
  IN [f \in {fieldCatalog[i].name : i \in FieldRows(name)} |-> fieldCatalog[Max(rows(f))]]

GetLayout(name) ==
  [slotSize |-> SlotSize(name), fields |-> FieldNames(name), info |-> Info(name)]

(* Any schema whose fields have different names *)
Types == {"int", "long", "date", "short", "bool", "string"}
Fields == [name : STRING, type : Types, length : Nat]
Schemas == {s \in Seq(Fields) : \A i, j \in DOMAIN s : s[i].name = s[j].name => i = j}

CatalogNext == \E name \in TableNames, schema \in Schemas : ~Known(name) /\ AddTable(name, schema)
CatalogSpec == CatalogInit /\ [][CatalogNext]_<<tableCatalog, fieldCatalog>>

(* The layout that the catalog gives back: the fields of a slot lie between *)
(* its flag and its end, aligned, without overlap, also in the next slot    *)
(* (NewLayout, insertIntoFieldCatalog, GetLayout).                          *)
LayoutIsSound ==
  \A n \in TableNames : Known(n) =>
    LET layout == GetLayout(n)
        fields == DOMAIN layout.info
        first(f) == layout.info[f].offset
        next(f) == first(f) + lengthInBytes(layout.info[f])
    IN /\ \A f \in fields :
            /\ first(f) >= IntSize /\ next(f) <= layout.slotSize
            /\ first(f) % alignmentRequirement(layout.info[f].type) = 0
            /\ layout.slotSize % alignmentRequirement(layout.info[f].type) = 0
       /\ \A f, g \in fields : f # g => next(f) <= first(g) \/ next(g) <= first(f)
=============================================================================

------------------------------- MODULE Layout -------------------------------
(***************************************************************************)
(* Where the fields of a record are: record/layout.go and alignment.go.     *)
(* A schema is a sequence of fields [name, type, length]; a field's length  *)
(* matters for a varchar only.  Sizes are in bytes.                         *)
(***************************************************************************)
EXTENDS Integers, SequencesExt

IntSize == 4   \* utils.IntSize: the flag of a slot, and a varchar's length
UTFMax == 4    \* the longest character

alignmentRequirement(type) ==
  CASE type = "int" -> IntSize
    [] type \in {"long", "date"} -> 8
    [] type = "short" -> 2
    [] type \in {"bool", "string"} -> 1

lengthInBytes(field) ==
  CASE field.type = "int" -> IntSize
    [] field.type \in {"long", "date"} -> 8
    [] field.type = "short" -> 2
    [] field.type = "bool" -> 1
    [] field.type = "string" -> IntSize + field.length * UTFMax

Aligned(pos, align) == pos + (IF pos % align = 0 THEN 0 ELSE align - (pos % align))

(* sort.Slice promises nothing about fields of the same alignment: any of   *)
(* these orders                                                            *)
SortedFields(schema) ==
  {order \in {[i \in DOMAIN schema |-> schema[p[i]]] : p \in Bijection(DOMAIN schema, DOMAIN schema)} :
     \A i \in 1..(Len(schema) - 1) :
        alignmentRequirement(order[i].type) >= alignmentRequirement(order[i + 1].type)}

(* Mutant: the slot begins with the first field *)
FieldEnds_NoFlag(order) ==
  LET end[n \in 0..Len(order)] ==
        IF n = 0 THEN 0
        ELSE Aligned(end[n-1], alignmentRequirement(order[n].type)) + lengthInBytes(order[n])
  IN end

(* Where the first n of the sorted fields end, the flag being before them *)
FieldEnds(order) ==
  LET end[n \in 0..Len(order)] ==
        IF n = 0 THEN IntSize
        ELSE Aligned(end[n-1], alignmentRequirement(order[n].type)) + lengthInBytes(order[n])
  IN end

(* The offsets of the sorted fields and the size of a slot *)
NewLayout(order) ==
  LET end == FieldEnds(order)
      largest == Max({1} \union {alignmentRequirement(f.type) : f \in ToSet(order)})
  IN [offsets |-> [i \in DOMAIN order |-> Aligned(end[i-1], alignmentRequirement(order[i].type))],
      slotSize |-> Aligned(end[Len(order)], largest)]
=============================================================================

--------------------------- MODULE ResponseShape ---------------------------
(***************************************************************************)
(* Shaping of a response by an operation's allow_fields (ResponseShaper in *)
(* internal/redact/hook.go).                                               *)
(*                                                                         *)
(* A JSON value is [kind |-> "null"], [kind |-> "text", is |-> t] for any  *)
(* other scalar, or [kind, of] where "of" maps the indices of an "arr" to  *)
(* values, and the keys that there are to the values of an "obj" or to Nil *)
(* when the object has none.  A field is its path, a sequence of keys and  *)
(* "[]".                                                                   *)
(*                                                                         *)
(* What the code does by recursion is defined for each depth of nesting,   *)
(* from what it does one level below.                                      *)
(***************************************************************************)
EXTENDS Naturals, Sequences, Absent

CONSTANTS
    FieldName,      \* keys of objects
    Scalar,         \* texts, numbers and booleans
    MaxNesting,     \* levels of a value; encoding/json decodes none that are deeper
    Original,       \* objects whose shaping is compared with what the fields name
    FieldList       \* lists of fields that they are shaped by

Depth == 0..MaxNesting

Null   == [kind |-> "null"]
Obj(f) == [kind |-> "obj", of |-> [k \in FieldName |-> IF k \in DOMAIN f THEN f[k] ELSE Nil]]
Arr(s) == [kind |-> "arr", of |-> s]

Flat == {Null} \cup [kind : {"text"}, is : Scalar]

Nested(values) ==
    [kind : {"obj"}, of : [FieldName -> values \cup {Nil}]] \cup [kind : {"arr"}, of : Seq(values)]

\* The values of at most so many levels below the first.
Json[d \in Depth] == Flat \cup Nested(IF d = 0 THEN {} ELSE Json[d - 1])

Value == Json[MaxNesting]

Path == Seq(FieldName \cup {"[]"})

ASSUME ShapeAssumption ==
    /\ MaxNesting \in Nat
    /\ \A d \in Depth : Nil \notin Json[d]
    /\ "[]" \notin FieldName
    /\ Original \subseteq Value /\ \A o \in Original : o.kind = "obj"
    /\ FieldList \subseteq Seq(Path)

-----------------------------------------------------------------------------

\* project: the value at a path in its objects and arrays, Nil when the path is
\* absent; within[w][p] is that of a value w one level below.  A null on the
\* way stays.
ProjectWithin(within, v, path) ==
    IF path = << >> \/ v = Null THEN v
    ELSE IF Head(path) = "[]" THEN
        IF v.kind # "arr" THEN Nil
        ELSE LET found == [i \in DOMAIN v.of |-> within[v.of[i]][Tail(path)]]
             IN  IF v.of # << >> /\ \A i \in DOMAIN found : found[i] = Nil THEN Nil
                 ELSE Arr([i \in DOMAIN found |-> IF found[i] = Nil THEN Null ELSE found[i]])
    ELSE IF v.kind # "obj" \/ v.of[Head(path)] = Nil THEN Nil
    ELSE LET found == within[v.of[Head(path)]][Tail(path)]
         IN  IF found = Nil THEN Nil ELSE Obj([k \in {Head(path)} |-> found])

Projected[d \in Depth] ==
    [v \in Json[d] |-> [path \in Path |->
        ProjectWithin(IF d = 0 THEN << >> ELSE Projected[d - 1], v, path)]]

Project(v, path) == Projected[MaxNesting][v][path]

\* Mutant: of two arrays the later one replaces the other.
MergeOverwriting(within, a, b) ==
    IF a.kind = "obj" /\ b.kind = "obj" THEN
        Obj([k \in FieldName |-> IF b.of[k] = Nil THEN a.of[k]
                                 ELSE IF a.of[k] = Nil THEN b.of[k] ELSE within[a.of[k]][b.of[k]]])
    ELSE IF b # Null THEN b ELSE a

\* mergeValues and deepMerge: objects by their keys, arrays by their indices;
\* within[v][w] merges two values one level below.
MergeWithin(within, a, b) ==
    IF a.kind = "obj" /\ b.kind = "obj" THEN
        Obj([k \in FieldName |-> IF b.of[k] = Nil THEN a.of[k]
                                 ELSE IF a.of[k] = Nil THEN b.of[k] ELSE within[a.of[k]][b.of[k]]])
    ELSE IF a.kind = "arr" /\ b.kind = "arr" THEN
        Arr([i \in DOMAIN a.of \cup DOMAIN b.of |->
                IF i \notin DOMAIN b.of THEN a.of[i]
                ELSE IF i \notin DOMAIN a.of \/ a.of[i] = Null THEN b.of[i]
                ELSE IF b.of[i] = Null THEN a.of[i] ELSE within[a.of[i]][b.of[i]]])
    ELSE IF b # Null THEN b ELSE a

Merged[d \in Depth] ==
    [a \in Json[d] |-> [b \in Json[d] |->
        MergeWithin(IF d = 0 THEN << >> ELSE Merged[d - 1], a, b)]]

Merge(a, b) == Merged[MaxNesting][a][b]

EmptyObject == Obj([k \in {} |-> Nil])

\* Shape: field by field; what projects to no object is left out.
WithField(data, field, taken) ==
    LET found == Project(data, field)
    IN  IF found # Nil /\ found.kind = "obj" THEN Merge(taken, found) ELSE taken

Gathered(data, fields) ==
    LET after[n \in 0..Len(fields)] ==
            IF n = 0 THEN EmptyObject ELSE WithField(data, fields[n], after[n - 1])
    IN  after

Shape(data, fields) == Gathered(data, fields)[Len(fields)]

\* The objects of an array, shaped; its other elements are left out.
ShapedAlong(values, fields) ==
    LET kept[n \in 0..Len(values)] ==
            IF n = 0 THEN << >>
            ELSE IF values[n].kind = "obj" THEN Append(kept[n - 1], Shape(values[n], fields))
            ELSE kept[n - 1]
    IN  kept

ShapedObjects(values, fields) == ShapedAlong(values, fields)[Len(values)]

-----------------------------------------------------------------------------
(* The reference: the texts of a value with the places they stand at.      *)

Place(kind, k) == IF kind = "arr" THEN [key |-> "[]", index |-> k] ELSE [key |-> k, index |-> 0]

LeavesWithin(within, v) ==
    IF v.kind = "text" THEN {[at |-> << >>, is |-> v.is]}
    ELSE IF v.kind \in {"obj", "arr"}
         THEN UNION {{[at |-> <<Place(v.kind, k)>> \o l.at, is |-> l.is] : l \in within[v.of[k]]} :
                         k \in {i \in DOMAIN v.of : v.of[i] # Nil}}
    ELSE {}

LeavesOf[d \in Depth] ==
    [v \in Json[d] |-> LeavesWithin(IF d = 0 THEN << >> ELSE LeavesOf[d - 1], v)]

Leaves(v) == LeavesOf[MaxNesting][v]

\* The place is at or below the field.
AtOrBelow(place, path) ==
    Len(path) <= Len(place) /\ \A i \in DOMAIN path : place[i].key = path[i]

\* No text but what the fields allow.
OnlyFields(v, fields) == \A l \in Leaves(v) : \E i \in DOMAIN fields : AtOrBelow(l.at, fields[i])

\* Nothing but what the fields allow, and all of it, where it stood.
ShapedRight(data, fields) ==
    Leaves(Shape(data, fields)) =
        {l \in Leaves(data) : \E i \in DOMAIN fields : AtOrBelow(l.at, fields[i])}

ObjectsShaped == \A o \in Original, f \in FieldList : ShapedRight(o, f)
=============================================================================

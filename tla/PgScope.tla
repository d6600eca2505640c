------------------------------ MODULE PgScope ------------------------------
(***************************************************************************)
(* What a workspace's pg_allowed_tables lets a statement read              *)
(* (internal/connectors/postgres: checkTableScope, walk.go, tableAllowed). *)
(*                                                                         *)
(* A statement is a tree: a table [kind, schema, name], a function call    *)
(* [kind, denied, of] of one of deniedFuncPrefixes or not, a SELECT [kind, *)
(* with, recursive, of] whose "with" lists its common table expressions    *)
(* [name, query], or any other node [kind, of] (a scalar subquery, a cast, *)
(* a CASE); "of" lists the children.  Names are lower case, and a schema   *)
(* that is not given is "".  An entry of the list is [schema, name], with  *)
(* "*" for everything and the schema "" for a bare table name.             *)
(*                                                                         *)
(* A tree is looked at level by level: a level is a set of nodes, each     *)
(* with what the way to it has brought along.                              *)
(***************************************************************************)
EXTENDS Naturals, Sequences, Absent

CONSTANTS
    MaxWalkDepth,   \* maxWalkDepth: levels of a statement that are looked at
    Catalog,        \* names of tables that begin with pg_
    Statement,      \* statements whose walk is compared with what SQL means
    Entry,          \* entries of pg_allowed_tables
    Reference       \* references to tables

\* Of the entries for every schema only "*" and "*.*" are known, which are for
\* every table.
ASSUME PgAssumption ==
    /\ MaxWalkDepth \in Nat
    /\ \A e \in Entry : e.schema = "*" => e.name = "*"

Levels == 0..(MaxWalkDepth + 1)

-----------------------------------------------------------------------------
(* walk.go                                                                 *)

NamesOf(select, indices) == {select.with[j].name : j \in indices}

\* Mutant: a common table expression is in scope in its own query.
VisibleInOwn(select, i, scope) ==
    scope \cup NamesOf(select, {j \in DOMAIN select.with : select.recursive \/ j <= i})

\* The names that the i-th common table expression of a SELECT may refer to:
\* those of the others before it, or of all of them if it is recursive.
VisibleIn(select, i, scope) ==
    scope \cup NamesOf(select, {j \in DOMAIN select.with : select.recursive \/ j < i})

Denied(n) == n.kind = "func" /\ n.denied

\* The nodes below one that the walk comes to, with the names in scope there.
Under(v) ==
    LET n == v.node IN
    IF n.kind = "table" \/ Denied(n) THEN {}
    ELSE IF n.kind = "select"
         THEN {[node |-> n.with[i].query, scope |-> VisibleIn(n, i, v.scope)] : i \in DOMAIN n.with}
              \cup {[node |-> n.of[i], scope |-> v.scope \cup NamesOf(n, DOMAIN n.with)] : i \in DOMAIN n.of}
    ELSE {[node |-> n.of[i], scope |-> v.scope] : i \in DOMAIN n.of}

Visited(statement) ==
    LET at[d \in Levels] == IF d = 0 THEN {[node |-> statement, scope |-> {}]}
                            ELSE UNION {Under(v) : v \in at[d - 1]}
    IN  at

\* A name without a schema that is in scope is no table.
Refers(v) ==
    v.node.kind = "table" /\ ~(v.node.schema = "" /\ v.node.name \in v.scope)

\* walkTables: the tables a statement refers to, and whether it is refused, for
\* a denied function or because it is too deep to verify.
Walk(statement) ==
    LET at == Visited(statement)
        seen == UNION {at[d] : d \in 0..MaxWalkDepth}
    IN  [refs |-> {[schema |-> v.node.schema, name |-> v.node.name] : v \in {w \in seen : Refers(w)}},
         err  |-> at[MaxWalkDepth + 1] # {} \/ \E v \in seen : Denied(v.node)]

-----------------------------------------------------------------------------
(* connector.go                                                            *)

EntryAllows(entry, ref) ==
    \/ entry.schema = "*"
    \/ entry.schema \notin {"", "*"} /\ ref.schema = entry.schema /\ entry.name \in {"*", ref.name}
    \/ entry.schema = "" /\ ref.name = entry.name /\ ref.schema \in {"", "public"}
    \/ /\ ref.schema = "" /\ ref.name \in Catalog
       /\ entry.schema = "pg_catalog" /\ entry.name \in {"*", ref.name}

tableAllowed(ref, allowed) == \E entry \in allowed : EntryAllows(entry, ref)

\* checkTableScope: the list restricts nothing when it is not set.
InTableScope(statement, allowed) ==
    allowed \notin {Nil, {}} =>
        /\ ~Walk(statement).err
        /\ \A ref \in Walk(statement).refs : tableAllowed(ref, allowed)

\* TableAllowed, of the operations tables and schema.
TableAllowed(allowed, schema, name) ==
    allowed \notin {Nil, {}} =>
        tableAllowed([schema |-> IF schema = "" THEN "public" ELSE schema, name |-> name], allowed)

\* validateQueryAST: a SELECT that locks nothing, or the EXPLAIN of one.
OnlySelects(statement) == statement.kind = "select" /\ ~statement.locks

-----------------------------------------------------------------------------
(* What SQL means: the reference the walk is compared with.  A place in a  *)
(* statement is a node with the way to it: the nodes above it, and which   *)
(* step is taken from each.                                                *)

Child(n, step) == IF step.part = "with" THEN n.with[step.at].query ELSE n.of[step.at]

Steps(n) ==
    {[part |-> "of", at |-> i] : i \in (IF n.kind = "table" THEN {} ELSE DOMAIN n.of)}
    \cup {[part |-> "with", at |-> i] : i \in (IF n.kind = "select" THEN DOMAIN n.with ELSE {})}

Below(place, step) ==
    [node |-> Child(place.node, step), above |-> Append(place.above, [node |-> place.node, step |-> step])]

\* The places by their depth, as far as the walk goes and one level more.
PlacesAt(statement) ==
    LET at[d \in Levels] == IF d = 0 THEN {[node |-> statement, above |-> << >>]}
                            ELSE UNION {{Below(p, s) : s \in Steps(p.node)} : p \in at[d - 1]}
    IN  at

Places(statement) == UNION {PlacesAt(statement)[d] : d \in Levels}

\* The name at a place is that of a common table expression of a SELECT around
\* it: it stands in the body, or in the query of a later one, or WITH is RECURSIVE.
IsCte(place) ==
    \E k \in DOMAIN place.above :
        LET select == place.above[k].node
            step   == place.above[k].step
        IN  /\ select.kind = "select"
            /\ \E j \in DOMAIN select.with :
                  /\ select.with[j].name = place.node.name
                  /\ step.part = "of" \/ select.recursive \/ j < step.at

\* The table that a reference reads, in a session whose schema is public.
Real(n) == [schema |-> IF n.schema # "" THEN n.schema
                       ELSE IF n.name \in Catalog THEN "pg_catalog" ELSE "public",
            name |-> n.name]

TablesRead(statement) ==
    {Real(p.node) : p \in {q \in Places(statement) :
                              q.node.kind = "table" /\ ~(q.node.schema = "" /\ IsCte(q))}}

CallsDenied(statement) == \E p \in Places(statement) : Denied(p.node)

TooDeep(statement) == PlacesAt(statement)[MaxWalkDepth + 1] # {}

\* The tables an entry stands for.
Covers(entry, table) ==
    IF entry.schema = "" THEN table.name = entry.name /\ table.schema \in {"public", "pg_catalog"}
    ELSE entry.schema \in {"*", table.schema} /\ entry.name \in {"*", table.name}

-----------------------------------------------------------------------------

\* The walk finds the tables that a statement reads and no other, with every
\* name of a common table expression resolved where it stands, and refuses a
\* statement exactly for a denied function or its depth.
ReferencesFound ==
    \A s \in Statement :
        LET found == Walk(s) IN
        /\ found.err <=> CallsDenied(s) \/ TooDeep(s)
        /\ ~found.err => {Real(r) : r \in found.refs} = TablesRead(s)

\* An entry admits no table but those it names.
EntriesCover == \A e \in Entry, r \in Reference : EntryAllows(e, r) => Covers(e, Real(r))
=============================================================================

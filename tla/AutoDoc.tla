------------------------------ MODULE AutoDoc -------------------------------
(***************************************************************************)
(* The document CRDT (autodoc.rs): a map from keys to values on top of     *)
(* Automerge.  Automerge itself is outside the repository; what AutoDoc    *)
(* uses of it is this: a document is the set of operations it has seen,    *)
(* each with an id <<counter, actor>> of its own and the ids it overwrites *)
(* (those visible for its key where it was made); a key shows the visible  *)
(* put with the greatest id; merging is the union; a put of the one value  *)
(* a key shows and a removal of an absent key make no operation.  A new    *)
(* document draws an actor nobody has, and a copy keeps its actor.         *)
(***************************************************************************)
EXTENDS Integers, FiniteSetsExt

CONSTANTS Key

\* What an operation writes is an Option: a removal writes none.
Deleted == <<>>

DocNew(actor) == [ops |-> {}, actor |-> actor]

Overwritten(ops) == UNION {o.pred : o \in ops}

\* The puts of key that nothing in ops has overwritten.
Visible(ops, key) ==
    {o \in ops : o.key = key /\ o.value # Deleted /\ o.id \notin Overwritten(ops)}

Keys(ops) == {k \in Key : Visible(ops, k) # {}}

IdBefore(i, j) == i[1] < j[1] \/ (i[1] = j[1] /\ i[2] < j[2])

Winner(ops, key) ==
    CHOOSE o \in Visible(ops, key) :
        \A p \in Visible(ops, key) : p = o \/ IdBefore(p.id, o.id)

\* AutoDoc.get, as an Option.
DocGet(ops, key) ==
    IF Visible(ops, key) = {} THEN <<>> ELSE Winner(ops, key).value

Write(doc, key, value) ==
    [doc EXCEPT !.ops = @ \cup
        {[id    |-> <<Max({0} \cup {o.id[1] : o \in doc.ops}) + 1, doc.actor>>,
          key   |-> key,
          value |-> value,
          pred  |-> {o.id : o \in Visible(doc.ops, key)}]}]

DocPut(doc, key, value) ==
    IF {o.value : o \in Visible(doc.ops, key)} = {<<value>>}
       /\ Cardinality(Visible(doc.ops, key)) = 1
    THEN doc ELSE Write(doc, key, <<value>>)

\* Mutant: only the value the key shows is removed, not those it hides.
DocRemoveShown(doc, key) ==
    IF Visible(doc.ops, key) = {} THEN doc
    ELSE [doc EXCEPT !.ops = @ \cup
        {[id    |-> <<Max({o.id[1] : o \in doc.ops}) + 1, doc.actor>>,
          key   |-> key,
          value |-> Deleted,
          pred  |-> {Winner(doc.ops, key).id}]}]

DocRemove(doc, key) ==
    IF Visible(doc.ops, key) = {} THEN doc ELSE Write(doc, key, Deleted)

\* to_bytes saves the history and not the actor.
DocSaved(doc) == doc.ops

\* eq_value compares heads: two documents are equal if their histories are.
DocEqual(doc, other) == doc.ops = other.ops

\* Automerge refuses two changes that claim one place in an actor's history.
Contradicts(ops, other) == \E o \in ops, p \in other : o.id = p.id /\ o # p

\* The copy that is merged into keeps its actor; a merge that is refused leaves
\* it as it was.
DocMerge(doc, ops) ==
    IF Contradicts(doc.ops, ops) THEN doc ELSE [doc EXCEPT !.ops = @ \cup ops]
=============================================================================

------------------------------ MODULE Documents ------------------------------
(***************************************************************************)
(* The JSON document an update_configuration command changes, and how its  *)
(* values are merged into it.  A JSON object is a function from keys; any  *)
(* other JSON value is a leaf.                                             *)
(***************************************************************************)
EXTENDS Sequences, SequencesExt

Leaf(value) == [leaf |-> value]
IsObject(json) == "leaf" \notin DOMAIN json
Get(json, key) == IF key \in DOMAIN json THEN json[key] ELSE Leaf("none")

\* Faulty variant: an object replaces the one that is there.
MergeShallow(target, changes) ==
  [key \in DOMAIN target \cup DOMAIN changes |->
     IF key \in DOMAIN changes THEN changes[key] ELSE target[key]]

\* merge_object(): objects are merged key by key, anything else is replaced.
RECURSIVE Merge(_, _)
Merge(target, changes) ==
  [key \in DOMAIN target \cup DOMAIN changes |->
     IF key \notin DOMAIN changes THEN target[key]
     ELSE IF IsObject(changes[key]) /\ IsObject(Get(target, key))
       THEN Merge(target[key], changes[key])
       ELSE changes[key]]

\* Reference: the leaves of a document, each with the keys that lead to it.
RECURSIVE Leaves(_)
Leaves(json) ==
  IF IsObject(json)
    THEN UNION {{<<<<key>> \o l[1], l[2]>> : l \in Leaves(json[key])} : key \in DOMAIN json}
    ELSE {<<<<>>, json.leaf>>}

\* Two places of which one is inside the other, or the same.
Meet(a, b) == IsPrefix(a, b) \/ IsPrefix(b, a)
=============================================================================

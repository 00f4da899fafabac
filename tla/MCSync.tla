------------------------------- MODULE MCSync -------------------------------
(* Instances of Sync for TLC: small trees of documents.  The assumptions    *)
(* of SyncArchive are evaluated on the way.                                 *)
EXTENDS Sync, SyncArchive

\* Documents that do not contain one another.
FlatTree == [p \in Path |-> {p}]

\* One document contains the others.
CONSTANT Top
NestedTree == [p \in Path |-> IF p = Top THEN Path ELSE {p}]

============================================================================

--------------------------- MODULE MCDocumentStore --------------------------
(* Small trees for DocumentStore: a document with a child, one beside it   *)
(* whose name begins with the other's, and a trash entry.                  *)
EXTENDS DocumentStore

CONSTANTS a, ab   \* names

PathsDef == {<<>>, <<a>>, <<ab>>, <<a, ab>>}

BeginsWithDef == {<<a, a>>, <<ab, ab>>, <<ab, a>>}

Document(c) == [EmptyDir EXCEPT !.content = c]

\* A document with a child and an attachment, and a trash entry of two
\* documents.  Either the entry bears the name of that document, which has a
\* version, beside another with the name of its child; or it bears a name
\* that is free in the root and taken by the child.
InitialDirsDef ==
    {  (<<"docs">> :> Document(1))
    @@ (<<"docs", a>> :> [content |-> 2, torn |-> FALSE, attachment |-> Attached,
                          versions |-> IF crowded THEN (1 :> 3) ELSE Absent])
    @@ (<<"docs", a, ab>> :> Document(4))
    @@ (IF crowded THEN <<"docs", ab>> :> Document(5) ELSE <<>>)
    @@ (<<"trash">> :> EmptyDir)
    @@ (Trash(0, IF crowded THEN a ELSE ab) :> Document(6))
    @@ (Append(Trash(0, IF crowded THEN a ELSE ab), a) :> Document(7))
    : crowded \in BOOLEAN }

Slots == Permutations(Request)

============================================================================

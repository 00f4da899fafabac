---------------------------- MODULE DocumentTree ----------------------------
(***************************************************************************)
(* What the document store promises: a tree of documents and a trash whose *)
(* every change is atomic.  DocumentStore, where a request is a sequence   *)
(* of file operations interleaved with those of other requests, implements *)
(* this specification.                                                     *)
(*                                                                         *)
(* A location is the sequence of names that leads to a directory; its      *)
(* first name is "docs" or "trash".                                        *)
(***************************************************************************)
EXTENDS SequencesExt

CONSTANTS
    Damaged,      \* content that nobody stored: truncated, or a mixture
    InitialDocs   \* the possible initial trees

VARIABLE docs     \* docs[l]: the content of the document at location l

\* l after what is at or below src has moved to dst.
Relocated(l, src, dst) ==
    IF IsPrefix(src, l) THEN dst \o SubSeq(l, Len(src) + 1, Len(l)) ELSE l

AllPrefixes(locs) == UNION {Prefixes(l) : l \in locs}

Without(locs) == [l \in DOMAIN docs \ locs |-> docs[l]]

\* A tree with content at l.
Placed(l, content, tree) ==
    [m \in DOMAIN tree \cup {l} |-> IF m = l THEN content ELSE tree[m]]

----------------------------------------------------------------------------
Init == docs \in InitialDocs

\* New content appears whole, at one location.
Store ==
    \E l \in DOMAIN docs' :
        /\ docs'[l] \notin Range(docs) \cup {Damaged}
        /\ docs' = Placed(l, docs'[l], docs)

\* A document and all that is below it move together, to where nothing is:
\* a move within the tree, a removal to the trash, a recovery from it.
MoveSubtree ==
    \E src \in AllPrefixes(DOMAIN docs), dst \in AllPrefixes(DOMAIN docs') :
        /\ Len(src) > 1 /\ Len(dst) > 1
        /\ \A l \in DOMAIN docs : IsPrefix(dst, l) => IsPrefix(src, l)
        /\ docs' = [m \in {Relocated(l, src, dst) : l \in DOMAIN docs} |->
                      docs[CHOOSE l \in DOMAIN docs : Relocated(l, src, dst) = m]]

\* A document moves to the trash and leaves its children where they are.
MoveToTrashAlone ==
    \E l \in DOMAIN docs, m \in DOMAIN docs' :
        /\ Head(l) = "docs" /\ Head(m) = "trash"
        /\ docs' = Placed(m, docs[l], Without({l}))

\* Only what is in the trash is removed for good.
Purge ==
    \E l \in DOMAIN docs :
        /\ Head(l) = "trash"
        /\ docs' = Without({l})

\* Stores that are interrupted, or overlap, damage their documents.
Damage ==
    /\ DOMAIN docs \subseteq DOMAIN docs'
    /\ \A l \in DOMAIN docs' :
          \/ docs'[l] = Damaged
          \/ l \in DOMAIN docs /\ docs'[l] = docs[l]

Next == Store \/ MoveSubtree \/ MoveToTrashAlone \/ Purge \/ Damage

Spec == Init /\ [][Next]_docs

============================================================================

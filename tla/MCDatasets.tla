----------------------------- MODULE MCDatasets -----------------------------
(* Initial files for Datasets: none, or those of a system with two accounts *)
(* and all documents pinned.                                               *)
EXTENDS Datasets

CONSTANTS ann, ben, doc1, doc2

Whole(data) == [state |-> "whole", data |-> data]

Initial(role) == [role |-> role, name |-> 0, password |-> 0]

InitialFilesDef ==
    { [f \in File |-> [state |-> "missing", data |-> IF f \in {"settings", "index"} THEN 0 ELSE <<>>]],
      [settings |-> Whole(0),
       accounts |-> Whole((ann :> Initial("administrator")) @@ (ben :> Initial("user"))),
       pinned   |-> Whole(<<doc1, doc2>>),
       index    |-> Whole(0)] }

Symmetric == Permutations(Request)

============================================================================

------------------------------ MODULE MCPanels ------------------------------
(* Two entries; of two files that are stored as the same one, one has its name. *)
EXTENDS Panels

CONSTANTS e1, e2, f1, f2

StoredAsDef == [f \in File |-> e1]

============================================================================

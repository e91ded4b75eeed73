---------------------------- MODULE MCPugScanner -----------------------------
(* PugScanner for TLC.                                                     *)
EXTENDS PugScanner

CONSTANT
    ShortText   \* bound on a value that is not the only token

\* Values come first in the document, a long one is all of it.
MCNext ==
    /\ Next
    /\ saved # <<>> => Len(text') <= ShortText
    /\ phase' = "in value" => Len(saved) <= 1
    /\ phase \in {"found", "not found"} => Len(text) <= ShortText

MCSpec == Init /\ [][MCNext]_vars
=============================================================================

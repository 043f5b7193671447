--------------------------- MODULE MCAttribution ---------------------------
(* Small trees: one file that is emptied, changes at both ends and is renamed *)
(* or, where Git finds no renames, deleted; and a file of comments.           *)
EXTENDS Attribution, TLC

CONSTANTS p, q, x, y, z, k, d, e, s

MCTrees == {p :> <<>>, p :> <<z, k>>, p :> <<y, k, x>>, q :> <<k, x>>}

MCCommentTrees == {p :> <<k>>, p :> <<d, k>>, p :> <<e, k>>}

MCConfigs == {[renames |-> TRUE, context |-> TRUE], [renames |-> FALSE, context |-> FALSE]}
MCDefaults == {[renames |-> TRUE, context |-> TRUE]}
=============================================================================

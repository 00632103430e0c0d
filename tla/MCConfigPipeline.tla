--------------------------- MODULE MCConfigPipeline ---------------------------
(* Two configs that compile and one that does not, each with the revision its *)
(* hash names, and one revision an update may create; the history keeps one   *)
(* record.                                                                    *)
EXTENDS ConfigPipeline, TLC

CONSTANTS c1, c2, bad, r1, r2, r3, u1, h1, h2

MCHashId == [c \in Configs |-> CASE c = c1 -> r1 [] c = c2 -> r2 [] c = bad -> r3]
MCCompilable == Configs \ {bad}
MCHistoryLimit == [c \in Configs |-> 1]
=============================================================================

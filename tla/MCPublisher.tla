----------------------------- MODULE MCPublisher -----------------------------
(* A small ledger: c1 and c2 differ only in their secrets, and so share an     *)
(* identifier, c3 keeps a shorter history, bad does not compile, and UpdateConfig *)
(* has one identifier to draw.                                                 *)
EXTENDS Publisher, TLC

CONSTANTS c1, c2, c3, bad, r1, r3, r4, u1

MCHashId == [c \in Configs |-> CASE c \in {c1, c2} -> r1 [] c = c3 -> r3 [] c = bad -> r4]
MCCompilable == Configs \ {bad}
MCHistoryLimit == [c \in Configs |-> IF c = c3 THEN 1 ELSE 2]
MCShortHistory == [c \in Configs |-> 1]
=============================================================================

------------------------------ MODULE MCRound ------------------------------
(* A file that starts in any state and one that starts unchanged.          *)
EXTENDS Round

CONSTANTS f1, f2

Heights == {1, 2}

MCInit == Init /\ head[f2] = 1 /\ index[f2] = 1 /\ work[f2] = 1

MCSpec == MCInit /\ [][Next]_vars /\ WF_vars(Progress)
=============================================================================

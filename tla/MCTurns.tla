------------------------------ MODULE MCTurns -------------------------------
EXTENDS RunTurns

CONSTANTS r, v, w, b, other

KindOf == [c \in Calls |-> IF c = r THEN "read" ELSE IF c = b THEN "bash" ELSE "write"]
Approving == {Gate(v), Gate(w), Gate(b), Escalation(b)}
Asked == Approving \cup {other}
Answers == {<<r, w>>, <<b, w>>, <<v, v, w>>}
=============================================================================

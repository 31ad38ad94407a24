------------------------------- MODULE MCBoot -------------------------------
EXTENDS Boot

\* Lines 1 and 2 are one customer's, line 3 another's.  Row 1 was keyed to
\* line 1; row 2 has the same digits and no line; row 3 is a desk no number
\* named; row 4 is the operator's own phone, row 5 the other customer's desk
\* with the same digits, row 6 one more of that customer, keyed to a
\* line it has given up.
MCOwner    == <<1, 1, 2>>
MCLink     == <<1, 1, 3>>
MCKey      == <<[digits |-> 1, line |-> 1], [digits |-> 1, line |-> 0], [digits |-> 2, line |-> 0],
                [digits |-> 3, line |-> 0], [digits |-> 3, line |-> 3],
                [digits |-> 4, line |-> 9]>>
MCRowOwner == <<1, 1, 1, 0, 2, 2>>
MCLeftFor  == <<3, 4>>
\* Two gunicorn workers restart as one, the ARI worker on its own.
CONSTANT ari
MCContainer == [w \in Workers |-> IF w = ari THEN "worker" ELSE "api"]
=============================================================================

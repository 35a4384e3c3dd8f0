----------------------------- MODULE MCSessions -----------------------------
(* Two requests, a deletion, a sweep, a job and a shutdown; those that are *)
(* not in the cast chosen at the start never come.                         *)
EXTENDS Sessions

CONSTANTS p1, p2, d1, w1, j1, s1
TwoP == {p1, p2}
OneD == {d1}
OneW == {w1}
OneJ == {j1}

MCCasts == {{p1, p2, s1}, {p1, d1, s1}, {p1, w1, s1}, {p1, j1, s1}, {d1, w1, s1},
            {d1, j1, s1}, {w1, j1, s1}, {p1, p2, d1}, {p1, p2, w1}}
=============================================================================

------------------------------ MODULE MCSearch ------------------------------
(* A program that is pruned, two equal ones of different niches, and two   *)
(* that end a round early, one better than the other; a mixed output is as *)
(* good as that of the worse of them.                                      *)
EXTENDS Search

CONSTANTS n1, n2, n3

Program(mark, stage, niche) ==
    [raises |-> FALSE, mark |-> mark, stages |-> <<stage>>, niche |-> niche]
MCScripts == {Program(2, -1, n1), Program(2, 1, n1), Program(2, 1, n2),
              Program(4, 5, n2), Program(4, 6, n3)}
MCBlends == {Program(4, 5, n2)}
MCMinScore == <<0>>
MCWeight == <<1>>
=============================================================================

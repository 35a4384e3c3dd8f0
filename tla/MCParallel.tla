------------------------------ MODULE MCParallel ------------------------------
(* One strategy for each of the ways in which a batch is coordinated; the  *)
(* branches disagree.                                                      *)
EXTENDS Parallel, TLC

MCStrategies == {<<"stop_on_solution", "first_success">>,
                 <<"consensus_reached", "convergence">>,
                 <<"switch_strategy", "stagnation">>}
MCSays == [b \in Branch |-> b]
=============================================================================

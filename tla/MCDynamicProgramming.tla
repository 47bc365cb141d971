------------------------ MODULE MCDynamicProgramming ------------------------
(* Instances of DynamicProgramming for TLC: every world in which the last    *)
(* state is terminal, as the worlds of gym have it.                          *)
EXTENDS DynamicProgramming

TerminalWorlds ==
    LET Outcomes == [next : States, reward : {0, 1}]
        Inner == 1 .. NStates - 1
        End == [a \in Actions |-> [next |-> NStates, reward |-> 0]]
    IN {[s \in States |-> IF s = NStates THEN End ELSE w[s]] :
          w \in [Inner -> [Actions -> Outcomes]]}

\* A PolicyIteration and an evaluation take the mean over actions as well,
\* which leaves no remainder only without a discount.
One == [num |-> 1, den |-> 1]
Half == [num |-> 1, den |-> 2]
ExactDiscounts ==
    [a \in Algorithms |-> IF a \in {"value", "sync"} THEN {One, Half} ELSE {One}]
=============================================================================

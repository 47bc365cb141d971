------------------------- MODULE DynamicProgramming -------------------------
(***************************************************************************)
(* The table-based learners that know the dynamics of their world          *)
(* (cubic_engine/rl/algorithms/dp: IterativePolicyEval, ValueIteration,    *)
(* PolicyIteration; and SyncValueFuncItr), with AlgorithmBase::train, the  *)
(* IterativeAlgorithmController, and the policy object that evaluation,    *)
(* improvement, adaptor and caller share.                                  *)
(*                                                                         *)
(* An action of the world has one outcome.  Values are integers, Unit of   *)
(* them the reward one; where Exact holds no division leaves a remainder,  *)
(* and what is compared with == in the code is compared exactly here.      *)
(* Rewards are not negative, and gamma is a fraction not above one.  A     *)
(* policy gives the same probability to a set of actions: it starts with   *)
(* all, and the adaptor leaves the best ones.                              *)
(***************************************************************************)
EXTENDS Integers, FiniteSetsExt

CONSTANTS NStates, NActions,
          Worlds,       \* the worlds: next state and reward of (state, action)
          Discounts,    \* the values of gamma that each of the algorithms is given
          Unit,
          Tolerance,    \* tolerance of every controller
          MaxItrs,      \* n_max_itrs
          MaxEval,      \* n_policy_eval_steps
          MaxTrains     \* bound: how often an object is trained

ASSUME SizesAssumption == NStates \in Nat \ {0} /\ NActions \in Nat \ {0}
MaxReal == 2147483647       \* numeric_limits<real_t>::max()

ASSUME LimitsAssumption == /\ Unit \in Nat \ {0} /\ Tolerance \in 1 .. MaxReal - 1
                           /\ MaxItrs \in Nat /\ MaxEval \in Nat /\ MaxTrains \in Nat

States == 1..NStates
Actions == 1..NActions

ASSUME WorldsAssumption ==
    Worlds \subseteq [States -> [Actions -> [next : States, reward : Nat]]]

Algorithms == {"evaluation", "value", "policy", "sync"}
Gammas == {g \in [num : Nat, den : Nat \ {0}] : g.num <= g.den}

ASSUME DiscountsAssumption == \A a \in Algorithms : Discounts[a] \subseteq Gammas

VARIABLES
    algo,       \* which of the classes it is
    world,      \* env_
    discount,   \* gamma_
    pc,         \* where train() is
    main, eval, \* the controllers: of the algorithm, of the evaluation in it
    values,     \* v_ of the algorithm
    ev,         \* v_ of the policy evaluation in a PolicyIteration
    policy,     \* the policy object: the actions with a probability
    old,        \* old_policy
    trains      \* history: calls of train()

given == <<algo, world, discount>>
dpVars == <<given, pc, main, eval, values, ev, policy, old, trains>>

Fresh == [itr |-> 0, res |-> MaxReal]

UniformPolicy == [s \in States |-> Actions]

DPInit ==
        /\ algo \in Algorithms
        /\ world \in Worlds
        /\ discount \in Discounts[algo]
        /\ pc = "idle"
        /\ main = Fresh /\ eval = Fresh
        /\ values = [s \in States |-> 0] /\ ev = [s \in States |-> 0]
        /\ policy = UniformPolicy /\ old = policy
        /\ trains = 0

-----------------------------------------------------------------------------
\* continue_iterations: the test, and the index after it.
Goes(c, max) == c.itr < max /\ ~(c.res < Tolerance)
Counted(c, max) == [c EXCEPT !.itr = IF @ < max THEN @ + 1 ELSE @]

\* state_actions_from_v, one_step_lookahed_: done is unpacked and not used.
Discounted(x) == (x * discount.num) \div discount.den
StateAction(u, s, a) == world[s][a].reward * Unit + Discounted(u[world[s][a].next])
MaxValue(u, s) == Max({StateAction(u, s, a) : a \in Actions})

\* What a loop over all actions adds up.
Total(x) == LET sum[i \in 0 .. NActions] == IF i = 0 THEN 0 ELSE sum[i - 1] + x[i]
            IN sum[NActions]

\* What the actions of the policy bring; as a mutant, their probability is forgotten.
PolicySum(u, s) ==
    Total([a \in Actions |-> IF a \in policy[s] THEN StateAction(u, s, a) ELSE 0])

PolicyValue(u, s) == PolicySum(u, s) \div Cardinality(policy[s])

NewValue(u, s) == IF algo \in {"evaluation", "policy"} THEN PolicyValue(u, s) ELSE MaxValue(u, s)

\* A pass over the states in order; those done are seen by those that follow.
Tables(u) ==
    LET w[i \in 0 .. NStates] ==
            IF i = 0 THEN u ELSE [w[i - 1] EXCEPT ![i] = NewValue(w[i - 1], i)]
    IN w
Sweep(u) == Tables(u)[NStates]

\* SyncValueFuncItr has two vectors, v_ and vold_.
SyncSweep(u) == [s \in States |-> MaxValue(u, s)]

Distance(u, w) == Max({IF u[s] < w[s] THEN w[s] - u[s] ELSE u[s] - w[s] : s \in States})

\* Mutant: the least of the values is looked for.
WorstActions(u, s) == {a \in Actions : \A b \in Actions : StateAction(u, s, a) <= StateAction(u, s, b)}

\* max_indices.
BestActions(u, s) == {a \in Actions : StateAction(u, s, a) = MaxValue(u, s)}

\* One step of PolicyImprovement: the adaptor changes the shared policy.
Improved(u) == [s \in States |-> BestActions(u, s)]

-----------------------------------------------------------------------------
\* train(): the controllers start again, and the values stay: v_.resize(n, 0.0)
\* takes 0.0 for "do not preserve" and has nothing to do when the size is n.
\* SyncValueFuncItr does not even reset its controller.
Train == /\ pc = "idle" /\ trains < MaxTrains
         /\ pc' = "loop"
         /\ trains' = trains + 1
         /\ main' = IF algo = "sync" THEN main ELSE Fresh
         /\ eval' = Fresh
         /\ UNCHANGED <<given, values, ev, policy, old>>

\* One turn that ends with update_residual(delta).
Update(w) == /\ pc = "loop" /\ Goes(main, MaxItrs)
             /\ values' = w
             /\ main' = [Counted(main, MaxItrs) EXCEPT !.res = Distance(values, w)]
             /\ UNCHANGED <<given, pc, eval, ev, policy, old, trains>>

EvaluationStep == algo = "evaluation" /\ Update(Sweep(values))
ValueStep == algo = "value" /\ Update(Sweep(values))
SyncStep == algo = "sync" /\ Update(SyncSweep(values))

\* PolicyIteration::step begins: a copy of the policy, and policy_eval_.train().
PolicyStep == /\ algo = "policy"
              /\ pc = "loop" /\ Goes(main, MaxItrs)
              /\ pc' = "evaluate"
              /\ main' = Counted(main, MaxItrs)
              /\ eval' = Fresh
              /\ old' = policy
              /\ UNCHANGED <<given, values, ev, policy, trains>>

Evaluate == /\ pc = "evaluate" /\ Goes(eval, MaxEval)
            /\ ev' = Sweep(ev)
            /\ eval' = [Counted(eval, MaxEval) EXCEPT !.res = Distance(ev, ev')]
            /\ UNCHANGED <<given, pc, main, values, policy, old, trains>>

\* *old_policy == *new_policy.
Unchanged(p) == p = old

\* policy_imp_.train(), and the comparison; residuals below the tolerance are 0.
Improve == /\ pc = "evaluate" /\ ~Goes(eval, MaxEval)
           /\ pc' = "loop"
           /\ policy' = Improved(ev)
           /\ IF Unchanged(policy')
              THEN main' = [main EXCEPT !.res = 0] /\ eval' = Counted(eval, MaxEval)
              ELSE eval' = Fresh /\ UNCHANGED main
           /\ UNCHANGED <<given, values, ev, old, trains>>

\* actions_after_training_iterations.
FinishTraining ==
          /\ pc = "loop" /\ ~Goes(main, MaxItrs)
          /\ pc' = "idle"
          /\ main' = Counted(main, MaxItrs)
          /\ policy' = IF algo = "value" THEN Improved(values) ELSE policy
          /\ values' = IF algo = "policy" THEN ev ELSE values
          /\ UNCHANGED <<given, eval, ev, old, trains>>

DPNext == Train \/ EvaluationStep \/ ValueStep \/ SyncStep \/ PolicyStep \/ Evaluate \/ Improve
          \/ FinishTraining

DPSpec == DPInit /\ [][DPNext]_dpVars

-----------------------------------------------------------------------------
DPTypeOK == /\ pc \in {"idle", "loop", "evaluate"}
            /\ main.itr \in 0..MaxItrs /\ eval.itr \in 0..MaxEval
            /\ values \in [States -> Nat] /\ ev \in [States -> Nat]
            /\ policy \in [States -> (SUBSET Actions) \ {{}}]

\* No division of this turn leaves a remainder.
Exact ==
    LET u == IF algo = "policy" THEN ev ELSE values
    IN /\ \A s \in States : (u[s] * discount.num) % discount.den = 0
       /\ algo \in {"evaluation", "policy"} /\ (Goes(main, MaxItrs) \/ pc = "evaluate") =>
            \A s \in States : PolicySum(Tables(u)[s - 1], s) % Cardinality(policy[s]) = 0

\* What as many moves as there are states bring, along a plan for them.
Plans == [States -> Actions]
Return(plan, s) ==
    LET at[i \in 0..NStates] == IF i = 0 THEN s ELSE world[at[i - 1]][plan[i]].next
        Gain(i) == world[at[i - 1]][plan[i]].reward * Unit
    IN MapThenSumSet(
         LAMBDA i : (Gain(i) * discount.num ^ (i - 1)) \div discount.den ^ (i - 1), States)
Optimal(s) == Max({Return(plan, s) : plan \in Plans})
OptimalActions(s) ==
    {a \in Actions :
        Optimal(s) = world[s][a].reward * Unit + Discounted(Optimal(world[s][a].next))}

Converged == pc = "idle" /\ trains > 0 /\ main.res <= Tolerance

\* What get_state() calls converged satisfies the equations of its problem up
\* to the tolerance, in place and after other trainings too, and the policy has
\* all the best actions of these values and no other.
ConvergedIsFixed ==
    Converged /\ (algo = "policy" => eval.res < Tolerance) =>
        /\ \A s \in States : NewValue(values, s) \in values[s] .. values[s] + Tolerance
        /\ algo \in {"value", "policy"} => policy = Improved(values)

\* What get_state() calls converged is the solution of the problem, in the
\* first and in later trainings: the value of the best plan and the policy of
\* all the actions that keep to one, or the mean of all plans where the
\* uniform policy is evaluated.  A PolicyIteration knows only that the policy
\* has stopped changing: it solves the problem if the evaluation converged too.
ConvergedIsSolved ==
    /\ Converged /\ algo = "evaluation" =>
         \A s \in States : values[s] * Cardinality(Plans) =
                             MapThenSumSet(LAMBDA p : Return(p, s), Plans)
    /\ Converged /\ algo \in {"value", "sync"} => \A s \in States : values[s] = Optimal(s)
    /\ Converged /\ algo = "value" => \A s \in States : policy[s] = OptimalActions(s)
    /\ Converged /\ algo = "policy" /\ eval.res < Tolerance =>
         \A s \in States : values[s] = Optimal(s) /\ policy[s] = OptimalActions(s)

\* The types, exact values, and the solutions.
Solved == DPTypeOK /\ Exact /\ ConvergedIsFixed /\ ConvergedIsSolved

\* No value falls when rewards are not negative: every policy that an
\* improvement hands to the evaluation is at least as good as the one before,
\* even if the evaluations are cut short.
ValuesNeverFall ==
    [][\A s \in States : values'[s] >= values[s] /\ ev'[s] >= ev[s]]_<<values, ev>>

=============================================================================

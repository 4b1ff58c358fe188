---------------------------- MODULE MCClientRpc ----------------------------
(***************************************************************************)
(* Instances of ClientRpc for TLC.                                         *)
(***************************************************************************)
EXTENDS ClientRpc, TLC

\* Tasks are told apart only by their calls.
Symmetry == Permutations(Task)

Each(calls) == [t \in Task |-> calls]

\* One task makes all the calls.
Alone(calls) == [t \in Task |-> IF t = CHOOSE u \in Task : TRUE THEN calls ELSE 0]

\* Several tasks whose requests are all answered, or one task and a broker that
\* refuses some.
AnsweredOrAlone ==
    {[calls |-> Each(2), refusals |-> {}],
     [calls |-> Alone(4), refusals |-> {"exchange_declare", "queue_declare"}]}

\* What the last theorems of ClientRpc_proofs assume holds for these workloads.
ASSUME WorkloadsAreOrderly == Workloads = AnsweredOrAlone => Orderly

\* Several tasks, and a broker that may refuse queue_declare.
Refused == {[calls |-> Each(2), refusals |-> {"queue_declare"}]}
Answered == {[calls |-> Each(2), refusals |-> {}]}
=============================================================================

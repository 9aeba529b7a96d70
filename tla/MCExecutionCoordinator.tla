----------------------- MODULE MCExecutionCoordinator -----------------------
(* Instances of ExecutionCoordinator for TLC. *)
EXTENDS ExecutionCoordinator, TLC

CONSTANTS t1, t2,           \* turns
          c1, c2, n1, d1,   \* proposals: c1, c2 critical, n1 allowed, d1 denied
          k1, k2, k3,       \* calls
          s0, s1, s2        \* steps: s0 ad hoc, s1 and s2 of the full plan

\* c1 and c2 are the same call, proposed twice (a retry of a step).
MCKey == [p \in Proposals |-> CASE p \in {c1, c2} -> k1
                                [] p = n1 -> k2
                                [] p = d1 -> k3]
MCStepOf == [p \in Proposals |-> IF p \in {c1, c2} THEN s1 ELSE s2]

\* Turns are interchangeable threads; so are c1 and c2.
TurnSymmetry == Permutations({t1, t2}) \cup Permutations({c1, c2})

\* No guard reads the step rows or the step a checkpoint will settle, so states
\* that differ only there behave alike.
WithoutSteps == <<saved, attempts, approvals, taskRow, held, lastProp, lastApr,
                  ctxVars, pc, job, ran, granted, crashes>>
=============================================================================

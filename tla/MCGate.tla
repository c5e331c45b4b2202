------------------------------- MODULE MCGate -------------------------------
(* What stands before every write: Access, CredentialLimiter and KeyedWrites.
   They share no variable, so a property of one holds of their composition
   exactly if it holds while the others stand still: each is explored alone. *)
EXTENDS Access, CredentialLimiter, KeyedWrites

VARIABLE focus

gateVars == <<accessVars, limiterVars, keyedVars, focus>>

GateInit == AccessInit /\ LimiterInit /\ KeyedInit /\ focus \in {"access", "limiter", "keys"}

GateNext ==
    \/ focus = "access" /\ AccessNext /\ UNCHANGED <<limiterVars, keyedVars, focus>>
    \/ focus = "limiter" /\ LimiterNext /\ UNCHANGED <<accessVars, keyedVars, focus>>
    \/ focus = "keys" /\ KeyedNext /\ UNCHANGED <<accessVars, limiterVars, focus>>

GateSpec == GateInit /\ [][GateNext]_gateVars

\* The three type invariants.
GateTypeOK == AccessTypeOK /\ LimiterTypeOK /\ KeyedTypeOK

=============================================================================

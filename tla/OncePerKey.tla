----------------------------- MODULE OncePerKey -----------------------------
(***************************************************************************)
(* What is to happen once for a key: a key is executed within its          *)
(* allowance, which is one at first and is raised only by a named          *)
(* accident.  The keys are those of the header x-idempotency-key in        *)
(* Requests, and the tokens and codes of a user in OneTimeSecrets.         *)
(***************************************************************************)
EXTENDS Naturals

CONSTANTS Keys

VARIABLES
    executed,  \* executed[k]: how many executions k has had
    allowance  \* allowance[k]: how many may

allowanceVars == <<executed, allowance>>

AllowanceInit ==
    /\ executed = [k \in Keys |-> 0]
    /\ allowance = [k \in Keys |-> 1]

Execute(k) ==
    /\ executed[k] < allowance[k]
    /\ executed' = [executed EXCEPT ![k] = @ + 1]
    /\ UNCHANGED allowance

Expose(S) ==
    /\ allowance' = [k \in Keys |-> IF k \in S THEN allowance[k] + 1 ELSE allowance[k]]
    /\ UNCHANGED executed

AllowanceNext ==
    \/ \E k \in Keys : Execute(k)
    \/ \E S \in SUBSET Keys : Expose(S)

AllowanceSpec == AllowanceInit /\ [][AllowanceNext]_allowanceVars
=============================================================================

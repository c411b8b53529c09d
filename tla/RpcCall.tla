------------------------------- MODULE RpcCall -------------------------------
(***************************************************************************)
(* What a remote call promises its caller: the procedure is executed at    *)
(* most MaxExecutions times, the call ends at most once, it ends well only *)
(* if the procedure has been executed, and it may fail at any time, also   *)
(* when the procedure has been or will still be executed.                  *)
(***************************************************************************)
EXTENDS Naturals

CONSTANT MaxExecutions

VARIABLES outcome, executed
callVars == <<outcome, executed>>

CallInit == outcome = "pending" /\ executed = 0

Execute == executed < MaxExecutions /\ executed' = executed + 1 /\ UNCHANGED outcome

Succeed == outcome = "pending" /\ executed > 0 /\ outcome' = "ok" /\ UNCHANGED executed

Fail == outcome = "pending" /\ outcome' = "failed" /\ UNCHANGED executed

CallNext == Execute \/ Succeed \/ Fail

CallSpec == CallInit /\ [][CallNext]_callVars
=============================================================================

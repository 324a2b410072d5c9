---------------------------- MODULE EngineLease ----------------------------
(***************************************************************************)
(* What the window promises about the mining engine it runs in a child     *)
(* process.                                                                *)
(*                                                                         *)
(* At most one engine exists.  The first one of a lease is started by the  *)
(* operator; the window may replace an engine that died, a bounded number  *)
(* of times, for as long as the operator has not taken the lease back; an  *)
(* engine that proved itself gives the whole budget back.  Nothing here    *)
(* knows of pipes, exit codes or frames: EngineSupervisor implements it.   *)
(***************************************************************************)
EXTENDS Naturals

CONSTANTS
  Engines,      \* processes that may be engines
  MaxRestarts   \* replacements one lease allows

VARIABLES
  alive,   \* the engines that run
  wanted,  \* the operator's last word: an engine should run
  spent    \* replacements since the lease was given or renewed

vars == <<alive, wanted, spent>>

Init == alive = {} /\ wanted = FALSE /\ spent = 0

\* The operator asks for an engine; whether one can be started shows at once.
Give ==
  /\ alive = {}
  /\ wanted' = TRUE
  /\ spent' = 0
  /\ alive' = {} \/ \E e \in Engines : alive' = {e}

\* The operator, or the end of the window, takes the lease back.  Closing
\* the window may end the engine in the same step.
Revoke ==
  /\ wanted' = FALSE
  /\ alive' \in SUBSET alive
  /\ UNCHANGED spent

\* The window tries to replace an engine that is gone.
Replace ==
  /\ wanted
  /\ alive = {}
  /\ spent < MaxRestarts
  /\ alive' = {} \/ \E e \in Engines : alive' = {e}
  /\ spent' = spent + 1
  /\ UNCHANGED wanted

\* The engine has been hashing steadily.
Renew == spent' = 0 /\ UNCHANGED <<alive, wanted>>

\* An engine ends, by itself or by force.
End(e) == e \in alive /\ alive' = alive \ {e} /\ UNCHANGED <<wanted, spent>>

Next ==
  \/ Give
  \/ Revoke
  \/ Replace
  \/ Renew
  \/ \E e \in Engines : End(e)

Spec == Init /\ [][Next]_vars
=============================================================================

----------------------------- MODULE ProbeRound ----------------------------
(***************************************************************************)
(* What a saved-host refresh promises, whatever threads and queues carry   *)
(* it: a round has targets, each target is answered at most once, and the  *)
(* round is declared finished only when all of them are.                   *)
(***************************************************************************)
CONSTANT Host
VARIABLES targets,   \* hosts of the running round, {} between rounds
          answered,  \* targets whose answer the shell has taken
          stopping   \* the shell is leaving, to stream or to exit

vars == <<targets, answered, stopping>>

Init == targets = {} /\ answered = {} /\ stopping = FALSE

Begin ==
    /\ targets = {}
    /\ targets' \in SUBSET Host
    /\ answered' = {}
    /\ UNCHANGED stopping

\* A target that could not be asked is dropped before it is answered.
Skip ==
    /\ \E h \in targets \ answered : targets' = targets \ {h}
    /\ UNCHANGED <<answered, stopping>>

Answer ==
    /\ answered' \in SUBSET targets
    /\ answered \subseteq answered'
    /\ UNCHANGED <<targets, stopping>>

Finish ==
    /\ answered = targets
    /\ targets' = {} /\ answered' = {}
    /\ UNCHANGED stopping

Stop ==
    /\ stopping' = TRUE
    /\ UNCHANGED <<targets, answered>>

\* Only a shell that was leaving may drop a round before it is answered.
Abandon ==
    /\ stopping
    /\ targets' = {} /\ answered' = {} /\ stopping' = FALSE

Next == Begin \/ Skip \/ Answer \/ Finish \/ Stop \/ Abandon

Spec == Init /\ [][Next]_vars
=============================================================================

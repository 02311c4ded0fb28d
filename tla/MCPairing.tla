------------------------------ MODULE MCPairing ------------------------------
(***************************************************************************)
(* PairingAttempts for TLC.  The shell reads the target and the result of  *)
(* an attempt that ended while it is the active one, and of an attempt it  *)
(* joined nothing (reset_pairing_attempt clears them).  States that differ *)
(* in nothing but what is not read any more are one.                       *)
(***************************************************************************)
EXTENDS PairingAttempts

Running   == {a \in Attempt : Alive(a)}
Counts(a) == a \in success /\ stage[a] = "completed"
Kept      == [a \in Attempt |->
                IF Alive(a) \/ Counts(a) THEN <<target[a], identity[a]>>
                ELSE IF a = active THEN <<target[a]>> ELSE <<>>]

NoRest == <<pageVars, active, retired, cancelled \cap Running, stage, at,
            {a \in success : Counts(a)}, Kept, file, accepted, settled>>
=============================================================================

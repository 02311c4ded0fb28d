----------------------- MODULE PairingAttemptsProofs -----------------------
(***************************************************************************)
(* Proofs about PairingAttempts for every set of attempts and hosts.       *)
(***************************************************************************)
EXTENDS PairingAttempts, TLAPS

USE DEF shellVars, pageVars, threadVars, taskVars

-----------------------------------------------------------------------------
(* Types.                                                                  *)

LEMMA MadeByIsIdentity == \A s \in Source : MadeBy(s) \in Identity
  BY DEF MadeBy, Identity

LEMMA PartAtIsPart == \A n \in 1 .. 3 : PartAt[n] \in Part
  BY DEF PartAt, Part

\* A host is named as long as the attempt exists.
Targets == \A a \in Attempt : stage[a] # "unused" => target[a] \in Host
TypeInv == TypeOK /\ Targets

LEMMA TypeInit == Init => TypeInv
<1> SUFFICES ASSUME Init PROVE TypeInv
  OBVIOUS
<1>1. Original \in Source
  BY DEF Source
<1>2. file \in [Part -> Source \cup {"missing", "empty"}]
  BY <1>1 DEF Init, NoFiles, MadeBy
<1>3. accepted \in [Host -> SUBSET Identity]
  BY <1>1, MadeByIsIdentity DEF Init
<1>4. identity \in [Attempt -> Identity]
  BY <1>1, MadeByIsIdentity DEF Init
<1>5. stage \in [Attempt -> Stage] /\ at \in [Attempt -> 1 .. 3]
      /\ target \in [Attempt -> Host \cup {NoHost}] /\ Targets
  BY DEF Init, Stage, Targets
<1> QED BY <1>2, <1>3, <1>4, <1>5 DEF Init, TypeOK, TypeInv

LEMMA TargetsRun == ASSUME TypeOK, Targets, NEW a \in Attempt, Run(a) PROVE Targets'
<1>1. stage[a] # "unused" /\ target' = target
  BY DEF Run, Load, Generate, Open, Write, ServerInfo, Handshake, Secret, Confirm,
     Silence, Request, Thread
<1>2. \A b \in Attempt : b # a => stage'[b] = stage[b]
  BY DEF Run, Load, Generate, Open, Write, ServerInfo, Handshake, Secret, Confirm,
     Silence, Request, Refused, Goes, Ends, NextFile, TypeOK
<1> QED BY <1>1, <1>2 DEF Targets

LEMMA TypeRun == ASSUME TypeOK, NEW a \in Attempt, Run(a) PROVE TypeOK'
<1>s. a \in Source /\ at[a] \in 1 .. 3 /\ PartAt[at[a]] \in Part
  BY PartAtIsPart DEF Source, TypeOK
<1>1. ASSUME Load(a) PROVE TypeOK'
  <2> DEFINE p == PartAt[at[a]]
  <2>1. stage' \in [Attempt -> Stage] /\ at' \in [Attempt -> 1 .. 3]
    BY <1>1, <1>s DEF Load, Goes, Position, NextFile, TypeOK, Stage
  <2>2. settled' \in BOOLEAN
    BY <1>1 DEF Load, TypeOK
  <2>3. CASE file[p] \in Source /\ identity' = [identity EXCEPT ![a][p] = file[p]]
    <3>1. [identity[a] EXCEPT ![p] = file[p]] \in Identity
      BY <1>s, <2>3 DEF TypeOK, Identity
    <3>2. identity' = [identity EXCEPT ![a] = [identity[a] EXCEPT ![p] = file[p]]]
      BY <2>3
    <3>3. identity' \in [Attempt -> Identity]
      BY <3>1, <3>2 DEF TypeOK
    <3> QED BY <1>1, <2>1, <2>2, <3>3 DEF Load, Thread, TypeOK
  <2>4. CASE identity' = identity
    BY <1>1, <2>1, <2>2, <2>4 DEF Load, Thread, TypeOK
  <2> QED BY <1>1, <2>3, <2>4 DEF Load
<1>2. ASSUME Generate(a) PROVE TypeOK'
  <2>1. identity' \in [Attempt -> Identity]
    BY <1>2, <1>s, MadeByIsIdentity DEF Generate, TypeOK
  <2> QED BY <1>2, <2>1 DEF Generate, Goes, Ends, Thread, TypeOK, Stage
<1>3. ASSUME Open(a) PROVE TypeOK'
  <2>1. stage' \in [Attempt -> Stage] /\ at' \in [Attempt -> 1 .. 3]
    BY <1>3 DEF Open, Goes, Ends, Position, TypeOK, Stage
  <2>2. file' \in [Part -> Source \cup {"missing", "empty"}]
    BY <1>3, <1>s DEF Open, TypeOK
  <2>3. success' \subseteq Attempt /\ settled' \in BOOLEAN
    BY <1>3 DEF Open, Ends, TypeOK
  <2> QED BY <1>3, <2>1, <2>2, <2>3 DEF Open, Thread, TypeOK
<1>4. ASSUME Write(a) PROVE TypeOK'
  <2>1. stage' \in [Attempt -> Stage] /\ at' \in [Attempt -> 1 .. 3]
    BY <1>4 DEF Write, Goes, Ends, Position, NextFile, TypeOK, Stage
  <2>2. file' \in [Part -> Source \cup {"missing", "empty"}]
    BY <1>4, <1>s DEF Write, TypeOK
  <2>3. success' \subseteq Attempt /\ settled' \in BOOLEAN
    BY <1>4 DEF Write, Ends, TypeOK
  <2> QED BY <1>4, <2>1, <2>2, <2>3 DEF Write, Thread, TypeOK
<1>5. ASSUME ServerInfo(a) PROVE TypeOK'
  BY <1>5 DEF ServerInfo, Request, Refused, Goes, Ends, Thread, TypeOK, Stage
<1>6. ASSUME Handshake(a) PROVE TypeOK'
  BY <1>6 DEF Handshake, Request, Refused, Goes, Ends, Thread, TypeOK, Stage
<1>7. ASSUME Secret(a) PROVE TypeOK'
  <2>1. accepted' \in [Host -> SUBSET Identity]
    <3>1. accepted' = accepted
          \/ accepted' = [accepted EXCEPT ![target[a]] = @ \cup {identity[a]}]
      BY <1>7 DEF Secret, Refused
    <3>2. identity[a] \in Identity
      BY DEF TypeOK
    <3> QED BY <3>1, <3>2 DEF TypeOK
  <2> QED BY <1>7, <2>1 DEF Secret, Request, Refused, Goes, Ends, Thread, TypeOK, Stage
<1>8. ASSUME Confirm(a) PROVE TypeOK'
  BY <1>8 DEF Confirm, Request, Refused, Goes, Ends, Thread, TypeOK, Stage
<1>9. ASSUME Silence(a) PROVE TypeOK'
  BY <1>9 DEF Silence, Request, Refused, Goes, Ends, Thread, TypeOK, Stage
<1> QED BY <1>1, <1>2, <1>3, <1>4, <1>5, <1>6, <1>7, <1>8, <1>9 DEF Run

LEMMA TypeFiles == ASSUME TypeOK, NEW gone, NEW asMeant \in BOOLEAN, RemoveFiles(gone, asMeant)
                   PROVE  /\ file' \in [Part -> Source \cup {"missing", "empty"}]
                          /\ settled' \in BOOLEAN
<1>1. file' \in [Part -> Source \cup {"missing", "empty"}]
  BY DEF RemoveFiles, TypeOK
<1>2. settled' \in BOOLEAN
  BY Zenon DEF RemoveFiles, TypeOK
<1> QED BY <1>1, <1>2

LEMMA TypeShell ==
  ASSUME TypeOK, Targets,
         Shell \/ (\E h \in Host : ForHost(h))
           \/ (\E a \in Attempt, h \in Host : StartPairing(a, h))
  PROVE  TypeInv'
<1>t. ASSUME target' = target,
             \A a \in Attempt : stage'[a] # "unused" => stage[a] # "unused"
      PROVE  Targets'
  BY <1>t DEF Targets
<1> USE DEF TypeInv
<1>1. ASSUME Finish PROVE TypeInv'
  <2>1. Ready(active) => target[active] \in Host
    BY DEF TypeOK, Targets, Ready
  <2>2. stage' \in [Attempt -> Stage]
    BY <1>1 DEF Finish, Join, TypeOK, Stage
  <2>3. paired' \subseteq Host /\ deleted' \subseteq Host
    BY <1>1, <2>1 DEF Finish, TypeOK
  <2>4. Targets'
    BY <1>1, <1>t DEF Finish, Join, Reapable, Ready, TypeOK
  <2>5. active' \in Attempt \cup {NoAttempt} /\ onPage' \in BOOLEAN
    BY <1>1 DEF Finish, TypeOK
  <2> QED BY <1>1, <2>2, <2>3, <2>4, <2>5 DEF Finish, TypeOK
<1>2. ASSUME Cancel PROVE TypeInv'
  BY <1>2, <1>t DEF Cancel, TypeOK
<1>3. ASSUME FactoryReset PROVE TypeInv'
  <2>1. paired' \subseteq Host /\ deleted' \subseteq Host
    BY <1>3 DEF FactoryReset, TypeOK
  <2>2. PICK gone \in SUBSET Part : RemoveFiles(gone, gone = Part)
    BY <1>3 DEF FactoryReset
  <2> QED BY <1>3, <1>t, <2>1, <2>2, TypeFiles DEF FactoryReset, TypeOK
<1>4. ASSUME BeginJoin PROVE TypeInv'
  BY <1>4, <1>t DEF BeginJoin, TypeOK
<1>5. ASSUME EndJoin PROVE TypeInv'
  <2>1. stage' \in [Attempt -> Stage] /\ Targets'
    BY <1>5, <1>t DEF EndJoin, Join, Reapable, Ready, TypeOK, Stage
  <2> QED BY <1>5, <2>1 DEF EndJoin, TypeOK
<1>6. ASSUME Off PROVE TypeInv'
  BY <1>6, <1>t DEF Off, vars, TypeOK
<1>7. ASSUME NEW h \in Host, Unpaired(h) PROVE TypeInv'
  BY <1>7, <1>t DEF Unpaired, TypeOK
<1>8. ASSUME NEW h \in Host, DeleteHost(h) PROVE TypeInv'
  <2>1. /\ file' \in [Part -> Source \cup {"missing", "empty"}]
        /\ settled' \in BOOLEAN
    <3>1. CASE \E n \in 0 .. 3 : RemoveFiles(Removed(n), n = 3)
      BY <3>1, TypeFiles
    <3>2. CASE UNCHANGED <<file, settled>>
      BY <3>2 DEF TypeOK
    <3> QED BY <1>8, <3>1, <3>2 DEF DeleteHost
  <2> QED BY <1>8, <1>t, <2>1 DEF DeleteHost, TypeOK
<1>9. ASSUME NEW a \in Attempt, NEW h \in Host, StartPairing(a, h) PROVE TypeInv'
  <2>1. stage' \in [Attempt -> Stage]
    BY <1>9 DEF StartPairing, Join, TypeOK, Stage
  <2>2. settled' \in BOOLEAN
        /\ active' \in Attempt \cup {NoAttempt} /\ paired' \subseteq Host
    BY <1>9 DEF StartPairing, TypeOK
  <2>3. target' \in [Attempt -> Host \cup {NoHost}]
    BY <1>9 DEF StartPairing, TypeOK
  <2>4. Targets'
    BY <1>9 DEF StartPairing, Join, Reapable, Ready, TypeOK, Targets
  <2> QED BY <1>9, <2>1, <2>2, <2>3, <2>4 DEF StartPairing, TypeOK
<1>10. ASSUME AskStatus \/ StatusTaken \/ (\E h \in Host : Paired(h)) PROVE TypeInv'
  <2>1. CASE AskStatus
    <3>1. "cert" \in Part /\ file["cert"] \in Source
      BY <2>1 DEF AskStatus, Complete, Part
    <3> QED BY <2>1, <3>1, <1>t DEF AskStatus, TypeOK
  <2>2. CASE StatusTaken \/ (\E h \in Host : Paired(h))
    BY <2>2, <1>t DEF StatusTaken, Paired, TypeOK
  <2> QED BY <1>10, <2>1, <2>2
<1>11. ASSUME NEW p \in Part, DeleteFile(p) PROVE TypeInv'
  BY <1>11, <1>t, TypeFiles DEF DeleteFile, TypeOK
<1> QED BY <1>1, <1>2, <1>3, <1>4, <1>5, <1>6, <1>7, <1>8, <1>9, <1>10, <1>11 DEF Shell, ForHost

LEMMA TypeStep == TypeInv /\ [Next]_vars => TypeInv'
<1>1. ASSUME TypeInv, UNCHANGED vars PROVE TypeInv'
  BY <1>1 DEF vars, TypeOK, TypeInv, Targets
<1>2. ASSUME TypeInv, NEW a \in Attempt, Run(a) PROVE TypeInv'
  BY <1>2, TypeRun, TargetsRun DEF TypeInv
<1> QED BY <1>1, <1>2, TypeShell DEF Next, TypeInv

LEMMA TypeInvHolds == Spec => []TypeInv
  BY TypeInit, TypeStep, PTL DEF Spec

\* Every variable keeps its type.
THEOREM TypeCorrect == Spec => []TypeOK
  BY TypeInvHolds, PTL DEF TypeInv

-----------------------------------------------------------------------------
(* The invariants.  ThreadsOwned needs the page: an attempt is started only *)
(* from another page, where none is active that it could displace.          *)

FreshAttempts ==
    \A a \in Attempt : stage[a] = "unused" => a \notin retired \cup cancelled \cup success \cup {active}
ActiveUnjoined == active # NoAttempt => stage[active] # "joined"
SuccessIsFinal == \A a \in success : stage[a] \in {"completed", "joined"}
ConfirmIsKnown ==
    \A a \in Attempt : stage[a] \in {"confirm", "silent"} => Knows(target[a], identity[a])

AttemptInv == /\ TypeInv
              /\ ThreadsOwned
              /\ ActiveOnPage
              /\ SuccessIsAccepted
              /\ FreshAttempts
              /\ ActiveUnjoined
              /\ SuccessIsFinal
              /\ ConfirmIsKnown

LEMMA InvInit == Init => AttemptInv
  BY TypeInit, AttemptAssumption DEF Init, AttemptInv, ThreadsOwned, ActiveOnPage,
     SuccessIsAccepted, FreshAttempts, ActiveUnjoined, SuccessIsFinal, ConfirmIsKnown

\* A step of a thread concerns that thread alone and ends only in a success
\* that the host knows of.
LEMMA RunEffect ==
  ASSUME AttemptInv, NEW a \in Attempt, Run(a)
  PROVE  /\ UNCHANGED shellVars
         /\ stage[a] \notin {"unused", "completed", "joined"}
         /\ stage' = [stage EXCEPT ![a] = stage'[a]]
         /\ stage'[a] \notin {"unused", "joined"}
         /\ \A b \in Attempt : b # a => identity'[b] = identity[b]
         /\ \A h \in Host : accepted[h] \subseteq accepted'[h]
         /\ success' \in {success, success \cup {a}}
         /\ success' # success => stage'[a] = "completed"
         /\ a \in success' => Knows(target[a], identity[a])'
         /\ stage'[a] \in {"confirm", "silent"} => Knows(target[a], identity[a])'
<1> USE DEF AttemptInv, TypeInv, TypeOK
<1>t. /\ stage \in [Attempt -> Stage] /\ identity \in [Attempt -> Identity]
      /\ accepted \in [Host -> SUBSET Identity] /\ (a \notin success \/ ~ Alive(a))
  BY DEF SuccessIsFinal, Alive
<1>1. ASSUME Load(a) \/ Generate(a) \/ Open(a) \/ Write(a)
      PROVE  /\ stage[a] \notin {"unused", "completed", "joined"}
             /\ stage'[a] \in {"load", "generate", "open", "write", "serverinfo", "completed"}
             /\ stage' = [stage EXCEPT ![a] = stage'[a]]
             /\ UNCHANGED shellVars /\ success' = success /\ accepted' = accepted
             /\ \A b \in Attempt : b # a => identity'[b] = identity[b]
  <2>1. CASE Load(a)
    BY <2>1 DEF Load, Goes, NextFile, Position, Thread
  <2>2. CASE Generate(a)
    BY <2>2 DEF Generate, Goes, Ends, Thread
  <2>3. CASE Open(a)
    BY <2>3 DEF Open, Goes, Ends, Thread
  <2>4. CASE Write(a)
    BY <2>4 DEF Write, Goes, Ends, NextFile, Thread
  <2> QED BY <1>1, <2>1, <2>2, <2>3, <2>4
<1>2. CASE Load(a) \/ Generate(a) \/ Open(a) \/ Write(a)
  <2>1. a \notin success'
    BY <1>1, <1>2 DEF SuccessIsFinal
  <2> QED BY <1>1, <1>2, <2>1
<1>3. CASE ServerInfo(a)
  <2>1. a \notin success
    BY <1>3 DEF ServerInfo, Request, SuccessIsFinal
  <2> QED BY <1>3, <2>1 DEF ServerInfo, Request, Refused, Goes, Ends, Thread, Knows
<1>4. CASE Handshake(a)
  <2>1. a \notin success
    BY <1>4 DEF Handshake, Request, SuccessIsFinal
  <2> QED BY <1>4, <2>1 DEF Handshake, Request, Refused, Goes, Ends, Thread, Knows
<1>5. CASE Secret(a)
  <2>1. a \notin success /\ success' = success
    BY <1>5 DEF Secret, Request, Refused, Ends, SuccessIsFinal
  <2>2. target[a] \in Host
    BY <1>5 DEF Secret, Request, Targets
  <2>3. CASE Refused(a)
    BY <1>5, <2>1, <2>3 DEF Secret, Request, Refused, Goes, Ends, Thread
  <2>4. CASE accepted' = [accepted EXCEPT ![target[a]] = @ \cup {identity[a]}]
    <3>1. Knows(target[a], identity[a])'
      BY <1>5, <2>2, <2>4 DEF Secret, Request, Thread, Knows
    <3> QED BY <1>5, <2>1, <2>4, <3>1 DEF Secret, Request, Refused, Goes, Ends, Thread
  <2> QED BY <1>5, <2>3, <2>4 DEF Secret
<1>6. CASE Confirm(a)
  <2>1. a \notin success /\ Knows(target[a], identity[a])
    BY <1>6 DEF Confirm, Request, SuccessIsFinal, ConfirmIsKnown
  <2> QED BY <1>6, <2>1 DEF Confirm, Request, Refused, Goes, Ends, Thread, Knows
<1>7. CASE Silence(a)
  <2>1. a \notin success /\ Knows(target[a], identity[a])
    BY <1>7 DEF Silence, Request, SuccessIsFinal, ConfirmIsKnown
  <2> QED BY <1>7, <2>1 DEF Silence, Request, Refused, Goes, Ends, Thread, Knows
<1> QED BY <1>2, <1>3, <1>4, <1>5, <1>6, <1>7 DEF Run

LEMMA InvRun == ASSUME AttemptInv, NEW a \in Attempt, Run(a) PROVE AttemptInv'
<1> USE DEF AttemptInv
<1>1. TypeInv'
  BY TypeRun, TargetsRun DEF TypeInv
<1>2. \A b \in Attempt : b # a => stage'[b] = stage[b] /\ identity'[b] = identity[b]
  BY RunEffect DEF TypeInv, TypeOK
<1>k. \A b \in Attempt : b # a /\ stage[b] # "unused" /\ Knows(target[b], identity[b])
                          => Knows(target[b], identity[b])'
  BY <1>2, RunEffect DEF Knows, TypeInv, Targets
<1>3. ThreadsOwned' /\ FreshAttempts' /\ ActiveUnjoined' /\ SuccessIsFinal'
  BY <1>2, RunEffect, AttemptAssumption
     DEF ThreadsOwned, FreshAttempts, ActiveUnjoined, SuccessIsFinal, TypeInv, TypeOK
<1>4. ActiveOnPage'
  BY RunEffect DEF ActiveOnPage
<1>5. SuccessIsAccepted'
  BY <1>2, <1>k, RunEffect DEF SuccessIsAccepted, SuccessIsFinal, TypeInv, TypeOK
<1>6. ConfirmIsKnown'
  BY <1>2, <1>k, RunEffect DEF ConfirmIsKnown
<1> QED BY <1>1, <1>3, <1>4, <1>5, <1>6

\* A step of the shell moves threads only from completed to joined, or starts
\* one that was not used.
LEMMA InvShell ==
  ASSUME AttemptInv, Shell \/ (\E h \in Host : ForHost(h)) PROVE AttemptInv'
<1> USE DEF AttemptInv
<1>t. TypeInv'
  BY TypeShell DEF TypeInv
<1>1. UNCHANGED <<target, identity, success, accepted>>
      /\ \A a \in Attempt : stage'[a] = stage[a] \/ (stage[a] = "completed" /\ stage'[a] = "joined")
  BY DEF Shell, ForHost, Finish, Cancel, FactoryReset, BeginJoin, EndJoin, Off, Unpaired,
     DeleteHost, AskStatus, Paired, StatusTaken, DeleteFile, Join, Reapable, Ready, TypeInv,
     TypeOK, vars
<1>2. SuccessIsAccepted' /\ SuccessIsFinal' /\ ConfirmIsKnown'
  BY <1>1 DEF SuccessIsAccepted, SuccessIsFinal, ConfirmIsKnown, Knows, TypeInv, TypeOK
<1>3. ThreadsOwned' /\ ActiveOnPage' /\ FreshAttempts' /\ ActiveUnjoined'
  <2> USE DEF ThreadsOwned, ActiveOnPage, FreshAttempts, ActiveUnjoined, TypeInv, TypeOK
  <2>1. CASE Finish
    BY <2>1, AttemptAssumption DEF Finish, Join, Reapable, Ready
  <2>2. CASE Cancel
    BY <2>2, AttemptAssumption DEF Cancel
  <2>3. CASE BeginJoin
    BY <2>3, AttemptAssumption DEF BeginJoin
  <2>4. CASE EndJoin
    BY <2>4, AttemptAssumption DEF EndJoin, Join, Reapable, Ready
  <2>5. CASE \/ FactoryReset \/ Off \/ AskStatus \/ StatusTaken
             \/ (\E p \in Part : DeleteFile(p)) \/ (\E h \in Host : ForHost(h))
    BY <2>5 DEF FactoryReset, Off, AskStatus, StatusTaken, DeleteFile, ForHost, Paired, Unpaired,
       DeleteHost, vars
  <2> QED BY <2>1, <2>2, <2>3, <2>4, <2>5 DEF Shell
<1> QED BY <1>t, <1>2, <1>3

LEMMA InvStart ==
  ASSUME AttemptInv, NEW a \in Attempt, NEW h \in Host, StartPairing(a, h) PROVE AttemptInv'
<1> USE DEF AttemptInv
<1>t. TypeInv'
  BY TypeShell DEF TypeInv
<1>1. \A b \in Attempt : \/ stage'[b] = stage[b]
                         \/ b \in Reapable /\ stage'[b] = "joined"
                         \/ b = a /\ active' = a /\ stage[b] = "unused" /\ stage'[b] = "load"
  BY DEF StartPairing, Join, TypeInv, TypeOK
<1>2. /\ \A b \in Attempt : stage[b] # "unused" => target'[b] = target[b]
      /\ UNCHANGED <<identity, success, accepted>>
      /\ onPage' /\ retired' = retired \ Reapable
      /\ cancelled' = cancelled /\ stage[a] = "unused"
  BY DEF StartPairing, TypeInv, TypeOK
<1>a. active = NoAttempt /\ active' \in {a, NoAttempt}
      /\ (active' = a => stage'[a] = "load")
  BY AttemptAssumption DEF StartPairing, ActiveOnPage, TypeInv, TypeOK
<1>3. SuccessIsAccepted' /\ SuccessIsFinal' /\ ConfirmIsKnown'
  BY <1>1, <1>2 DEF SuccessIsAccepted, SuccessIsFinal, ConfirmIsKnown, Knows, Reapable, Ready,
     FreshAttempts, TypeInv, TypeOK
<1>4. ThreadsOwned'
  <2>1. ASSUME NEW b \in Attempt, stage'[b] \notin {"unused", "joined"}
        PROVE  b \in retired' \cup {active'}
    <3>1. CASE stage'[b] = stage[b]
      <4>1. b \in retired
        BY <2>1, <3>1, <1>a, AttemptAssumption DEF ThreadsOwned
      <4>2. b \notin Reapable
        BY <2>1, <3>1 DEF StartPairing, Join, Reapable, TypeInv, TypeOK
      <4> QED BY <4>1, <4>2, <1>2
    <3> QED BY <1>1, <2>1, <3>1
  <2> QED BY <2>1 DEF ThreadsOwned
<1>6. ActiveOnPage'
  BY <1>2, <1>a DEF ActiveOnPage, FreshAttempts
<1>5. FreshAttempts' /\ ActiveUnjoined'
  BY <1>1, <1>2, <1>a, AttemptAssumption DEF FreshAttempts, ActiveUnjoined, TypeInv, TypeOK
<1> QED BY <1>t, <1>3, <1>4, <1>5, <1>6

LEMMA InvStep == AttemptInv /\ [Next]_vars => AttemptInv'
<1>1. ASSUME AttemptInv, UNCHANGED vars PROVE AttemptInv'
  <2>1. TypeInv'
    BY <1>1, TypeStep DEF AttemptInv
  <2> QED BY <1>1, <2>1 DEF vars, AttemptInv, ThreadsOwned, ActiveOnPage,
     SuccessIsAccepted, FreshAttempts, ActiveUnjoined, SuccessIsFinal, ConfirmIsKnown, Knows
<1> QED BY <1>1, InvRun, InvShell, InvStart DEF Next

LEMMA InvHolds == Spec => []AttemptInv
  BY InvInit, InvStep, PTL DEF Spec

\* No attempt is dropped while its thread may still use it.
THEOREM ThreadsAreOwned == Spec => []ThreadsOwned
  BY InvHolds, PTL DEF AttemptInv

\* The active attempt belongs to the open page and was not cancelled.
THEOREM ActiveIsCurrent == Spec => []ActiveOnPage
  BY InvHolds, PTL DEF AttemptInv

\* A result is a success only if the host accepted the client.
THEOREM SuccessIsReal == Spec => []SuccessIsAccepted
  BY InvHolds, PTL DEF AttemptInv

-----------------------------------------------------------------------------
(* The identity on file.  That a host which pairs now has accepted what is on *)
(* file needs the whole way of the identity: it is loaded or saved by one    *)
(* attempt at a time, a new one is made only when no host is paired, and from *)
(* then on the file is that of the active attempt until its result is        *)
(* applied, because no page that could delete it opens before.               *)

\* Identities and files whose three parts are of one source.
Whole   == {MadeBy(s) : s \in Source}
\* A thread that has its identity.
Asking  == {"serverinfo", "handshake", "secret", "confirm", "silent"}

\* One attempt at a time loads or makes the identity: the active one, if there is one.
OneUser ==
    /\ \A a, b \in Attempt : NeedsIdentity(a) /\ NeedsIdentity(b) => a = b
    /\ active # NoAttempt => \A b \in Attempt : NeedsIdentity(b) => b = active
FromStart ==
    \A a \in Attempt : stage[a] \notin {"load", "open", "write"} => at[a] = 1
FileIsWhole ==
    (\A a \in Attempt : stage[a] \notin {"open", "write"}) /\ Complete(file) => file \in Whole
LoadedSoFar ==
    \A a \in Attempt : stage[a] = "load" =>
        \A j \in 1 .. 3 : j < at[a] => identity[a][PartAt[j]] = file[PartAt[j]]
\* A new identity is made only when no host is paired.
NonePaired ==
    \A a \in Attempt : /\ stage[a] = "generate" => ~ Complete(file)
                       /\ stage[a] \in {"generate", "open", "write"} => paired = {}
SavedSoFar ==
    \A a \in Attempt : stage[a] \in {"open", "write"} =>
        /\ identity[a] = MadeBy(a)
        /\ \A j \in 1 .. 3 : j < at[a] => file[PartAt[j]] = a
WholeIdentities ==
    /\ \A a \in Attempt : stage[a] \in Asking => identity[a] \in Whole
    /\ \A h \in Host : accepted[h] \subseteq Whole
\* The attempt whose result will be applied uses the identity on file.
ActiveAgrees ==
    active # NoAttempt =>
        /\ stage[active] \in Asking \/ active \in success => identity[active] = file
        /\ stage[active] \in {"confirm", "silent"} \/ active \in success =>
              identity[active] \in accepted[target[active]]

\* A status query presents the identity on file, and no other is being made.
QueryAgrees ==
    asked # "none" => /\ Complete(file) /\ file = MadeBy(asked)
                      /\ \A a \in Attempt : stage[a] \notin {"generate", "open", "write"}

AgreeInv ==
    settled => /\ OneUser /\ FromStart /\ FileIsWhole /\ LoadedSoFar /\ NonePaired
               /\ SavedSoFar /\ WholeIdentities /\ ActiveAgrees
               /\ QueryAgrees /\ IdentityAgrees

LEMMA WholeFacts ==
  /\ \A s \in Source : MadeBy(s) \in Whole /\ \A p \in Part : MadeBy(s)[p] = s
  /\ \A i \in Whole : i \in Identity /\ Complete(i) /\ i = MadeBy(i["cert"])
  /\ "uid" \in Part /\ "cert" \in Part
  /\ \A i, j \in Whole : i["uid"] = j["uid"] => i = j
  /\ \A a \in Attempt : a \in Source
  /\ "missing" \notin Source /\ "empty" \notin Source /\ "none" \notin Source
<1>2. "missing" \notin Source /\ "empty" \notin Source /\ "none" \notin Source
  BY AttemptAssumption DEF Source
<1>3. \A s \in Source : MadeBy(s) \in Whole /\ \A p \in Part : MadeBy(s)[p] = s
  BY DEF MadeBy, Whole
<1>4. "uid" \in Part /\ "cert" \in Part
  BY DEF Part
<1>5. ASSUME NEW i \in Whole PROVE i \in Identity /\ Complete(i) /\ i = MadeBy(i["cert"])
  <2>1. PICK s \in Source : i = MadeBy(s)
    BY DEF Whole
  <2> QED BY <2>1, <1>2, <1>3, <1>4, MadeByIsIdentity DEF Complete
<1>6. ASSUME NEW i \in Whole, NEW j \in Whole, i["uid"] = j["uid"] PROVE i = j
  <2>1. PICK s \in Source : i = MadeBy(s)
    BY DEF Whole
  <2>2. PICK t \in Source : j = MadeBy(t)
    BY DEF Whole
  <2> QED BY <2>1, <2>2, <1>3, <1>4, <1>6
<1> QED BY <1>2, <1>3, <1>4, <1>5, <1>6 DEF Source

\* A file that is not whole has no paired host.
LEMMA PairedHaveFile ==
  ASSUME AttemptInv, AgreeInv, settled, file \notin Whole PROVE paired = {}
<1>1. \A h \in paired : h \in Host /\ file \in accepted[h]
  BY DEF AgreeInv, IdentityAgrees, AttemptInv, TypeInv, TypeOK
<1>2. \A h \in Host : accepted[h] \subseteq Whole
  BY DEF AgreeInv, WholeIdentities
<1> QED BY <1>1, <1>2

LEMMA AgreeInit == Init => AgreeInv
<1> SUFFICES ASSUME Init PROVE AgreeInv
  OBVIOUS
<1>1. Original \in Source
  BY DEF Source
<1>2. (Complete(file) => file \in Whole) /\ \A h \in Host : accepted[h] \subseteq Whole
  BY <1>1, WholeFacts DEF Init, Complete, NoFiles
<1>3. IdentityAgrees
  BY DEF Init, IdentityAgrees
<1> QED BY <1>2, <1>3 DEF Init, AgreeInv, OneUser, NeedsIdentity, FromStart, FileIsWhole,
     LoadedSoFar, NonePaired, SavedSoFar, WholeIdentities, Asking, ActiveAgrees, QueryAgrees

\* A request, whatever its answer, uses the identity as it is; only the secret
\* makes the host accept it.
LEMMA AskingEffect ==
  ASSUME AttemptInv, NEW a \in Attempt,
         ServerInfo(a) \/ Handshake(a) \/ Secret(a) \/ Confirm(a) \/ Silence(a)
  PROVE  /\ stage[a] \in Asking
         /\ UNCHANGED <<shellVars, at, identity, file, settled>>
         /\ stage' = [stage EXCEPT ![a] = stage'[a]] /\ stage'[a] \in Asking \cup {"completed"}
         /\ success' \in {success, success \cup {a}}
         /\ \A h \in Host : accepted'[h] \in {accepted[h], accepted[h] \cup {identity[a]}}
         /\ stage'[a] = "confirm" => identity[a] \in accepted'[target[a]]
         /\ stage'[a] = "silent" => stage[a] = "confirm"
         /\ a \in success' => \/ stage[a] = "serverinfo" /\ Knows(target[a], identity[a])
                              \/ stage[a] \in {"confirm", "silent"}
<1> USE DEF AttemptInv, TypeInv, TypeOK
<1>1. CASE ServerInfo(a)
  BY <1>1 DEF ServerInfo, Request, Refused, Goes, Ends, Thread, Asking, SuccessIsFinal
<1>2. CASE Handshake(a)
  BY <1>2 DEF Handshake, Request, Refused, Goes, Ends, Thread, Asking, SuccessIsFinal
<1>3. CASE Secret(a)
  <2>1. stage[a] = "secret" /\ target[a] \in Host /\ a \notin success
    BY <1>3 DEF Secret, Request, Targets, SuccessIsFinal
  <2>2. CASE Refused(a)
    BY <1>3, <2>1, <2>2 DEF Secret, Request, Refused, Goes, Ends, Thread, Asking
  <2>3. CASE accepted' = [accepted EXCEPT ![target[a]] = @ \cup {identity[a]}]
    BY <1>3, <2>1, <2>3 DEF Secret, Request, Refused, Goes, Ends, Thread, Asking
  <2> QED BY <1>3, <2>2, <2>3 DEF Secret
<1>4. CASE Confirm(a)
  BY <1>4 DEF Confirm, Request, Refused, Goes, Ends, Thread, Asking, SuccessIsFinal
<1>5. CASE Silence(a)
  BY <1>5 DEF Silence, Request, Refused, Goes, Ends, Thread, Asking, SuccessIsFinal
<1> QED BY <1>1, <1>2, <1>3, <1>4, <1>5

\* A request keeps the invariant: the file stays as it is.
LEMMA AgreeAsking ==
  ASSUME AttemptInv, AgreeInv, NEW a \in Attempt,
         ServerInfo(a) \/ Handshake(a) \/ Secret(a) \/ Confirm(a) \/ Silence(a)
  PROVE  AgreeInv'
<1> SUFFICES ASSUME settled' PROVE AgreeInv'
  BY DEF AgreeInv
<1> USE DEF AttemptInv, TypeInv, TypeOK
<1>1. /\ stage[a] \in Asking
      /\ UNCHANGED <<shellVars, at, identity, file, settled>>
      /\ stage' = [stage EXCEPT ![a] = stage'[a]] /\ stage'[a] \in Asking \cup {"completed"}
      /\ success' \in {success, success \cup {a}}
  BY AskingEffect
<1>2. settled /\ \A b \in Attempt : b # a => stage'[b] = stage[b]
  BY <1>1
<1>3. \A b \in Attempt : /\ NeedsIdentity(b)' <=> NeedsIdentity(b)
                         /\ \A s \in {"load", "generate", "open", "write"} : stage'[b] = s <=> stage[b] = s
  BY <1>1, <1>2 DEF NeedsIdentity, Asking
<1>4. OneUser' /\ FileIsWhole' /\ LoadedSoFar' /\ NonePaired' /\ SavedSoFar' /\ QueryAgrees'
  BY <1>1, <1>2, <1>3
     DEF AgreeInv, OneUser, FileIsWhole, LoadedSoFar, NonePaired, SavedSoFar, QueryAgrees
<1>5. FromStart'
  BY <1>1, <1>2 DEF AgreeInv, FromStart, Asking
<1>6. identity[a] \in Whole
  BY <1>1, <1>2 DEF AgreeInv, WholeIdentities
<1>7. \A h \in Host : accepted'[h] \subseteq accepted[h] \cup {identity[a]} /\ accepted[h] \subseteq accepted'[h]
  <2>1. \A h \in Host : accepted'[h] \in {accepted[h], accepted[h] \cup {identity[a]}}
    BY AskingEffect
  <2> QED BY <2>1
<1>8. WholeIdentities'
  BY <1>1, <1>2, <1>6, <1>7 DEF AgreeInv, WholeIdentities
<1>9. IdentityAgrees'
  BY <1>1, <1>2, <1>7 DEF AgreeInv, IdentityAgrees
<1>10. ActiveAgrees'
  <2> SUFFICES ASSUME active # NoAttempt PROVE ActiveAgrees'
    BY <1>1 DEF ActiveAgrees
  <2>1. active \in Attempt /\ target[active] \in Host
    <3>1. active \in Attempt
      OBVIOUS
    <3>2. stage[active] # "unused"
      BY <3>1 DEF FreshAttempts
    <3> QED BY <3>1, <3>2 DEF Targets
  <2>2. CASE active # a
    BY <1>1, <1>2, <1>7, <2>1, <2>2 DEF AgreeInv, ActiveAgrees
  <2>3. CASE active = a
    <3>1. identity[a] = file
      BY <1>1, <1>2, <2>3 DEF AgreeInv, ActiveAgrees
    <3>2. stage'[a] \in {"confirm", "silent"} => identity[a] \in accepted'[target[a]]
      BY <1>2, <1>7, <2>1, <2>3, AskingEffect DEF AgreeInv, ActiveAgrees
    <3>3. ASSUME a \in success' PROVE identity[a] \in accepted'[target[a]]
      <4>1. CASE stage[a] \in {"confirm", "silent"}
        BY <1>2, <1>7, <2>1, <2>3, <4>1 DEF AgreeInv, ActiveAgrees
      <4>2. CASE Knows(target[a], identity[a])
        <5>1. PICK i \in accepted[target[a]] : i["uid"] = identity[a]["uid"]
          BY <4>2 DEF Knows
        <5>2. i \in Whole
          BY <1>2, <2>1, <2>3, <5>1 DEF AgreeInv, WholeIdentities
        <5> QED BY <1>6, <1>7, <2>1, <2>3, <5>1, <5>2, WholeFacts
      <4> QED BY <3>3, <4>1, <4>2, AskingEffect
    <3> QED BY <1>1, <2>3, <3>1, <3>2, <3>3 DEF ActiveAgrees
  <2> QED BY <2>2, <2>3
<1> QED BY <1>4, <1>5, <1>8, <1>9, <1>10 DEF AgreeInv

\* Loading, making and saving the identity.
LEMMA AgreeLoad == ASSUME AttemptInv, AgreeInv, NEW a \in Attempt, Load(a) PROVE AgreeInv'
<1> SUFFICES ASSUME settled' PROVE AgreeInv'
  BY DEF AgreeInv
<1> USE DEF AttemptInv, TypeInv, TypeOK
<1> DEFINE p == PartAt[at[a]]
<1>0. /\ stage[a] = "load" /\ at[a] \in 1 .. 3 /\ p \in Part
      /\ UNCHANGED <<shellVars, success, file, accepted>>
  BY PartAtIsPart DEF Load, Thread
<1>1. settled
  BY <1>0 DEF Load
<1>2. NeedsIdentity(a) /\ \A b \in Attempt : NeedsIdentity(b) => b = a
  BY <1>0, <1>1 DEF AgreeInv, OneUser, NeedsIdentity
<1>3. Complete(file) => file \in Whole
  BY <1>0, <1>1, <1>2 DEF AgreeInv, FileIsWhole, NeedsIdentity
<1>4. IdentityAgrees'
  BY <1>0, <1>1 DEF AgreeInv, IdentityAgrees
<1>5. \A b \in Attempt : b # a => stage'[b] = stage[b] /\ at'[b] = at[b] /\ identity'[b] = identity[b]
  BY DEF Load, Goes, Position, NextFile
<1>6. /\ stage'[a] \in {"load", "serverinfo", "generate"}
      /\ stage'[a] # "load" => at'[a] = 1
  BY <1>0 DEF Load, Goes, Position, NextFile
<1>7. \A b \in Attempt : NeedsIdentity(b)' => NeedsIdentity(b)
  BY <1>2, <1>5 DEF NeedsIdentity
<1>12. QueryAgrees'
  BY <1>0, <1>1, <1>5, <1>6 DEF AgreeInv, QueryAgrees, Complete, Load, Goes, Position, NextFile
<1>8. OneUser' /\ FromStart' /\ FileIsWhole' /\ SavedSoFar'
  BY <1>0, <1>1, <1>3, <1>5, <1>6, <1>7
     DEF AgreeInv, OneUser, FromStart, FileIsWhole, SavedSoFar, NeedsIdentity
<1>9. NonePaired'
  <2>1. ASSUME stage'[a] = "generate" PROVE ~ Complete(file) /\ paired = {}
    <3>1. file[p] \notin Source
      BY <1>0, <1>1, <2>1 DEF Load, Goes, NextFile, Position
    <3>2. ~ Complete(file)
      BY <1>0, <3>1 DEF Complete
    <3> QED BY <1>1, <3>2, WholeFacts, PairedHaveFile
  <2> QED BY <1>0, <1>1, <1>5, <1>6, <2>1 DEF AgreeInv, NonePaired
<1>10. CASE ~ (stage'[a] = "serverinfo") /\ stage'[a] # "load"
  <2>1. LoadedSoFar' /\ WholeIdentities' /\ ActiveAgrees'
    BY <1>0, <1>1, <1>5, <1>6, <1>10, AttemptAssumption
       DEF AgreeInv, LoadedSoFar, WholeIdentities, ActiveAgrees, Asking, SuccessIsFinal
  <2> QED BY <1>4, <1>8, <1>9, <1>12, <2>1 DEF AgreeInv
<1>11. CASE stage'[a] \in {"serverinfo", "load"}
  <2>1. /\ file[p] \in Source
        /\ identity' = [identity EXCEPT ![a][p] = file[p]]
        /\ NextFile(a, "load", "serverinfo")
    BY <1>11, <1>0 DEF Load, Goes
  <2>2. identity[a] \in [Part -> Source] /\ identity'[a] = [identity[a] EXCEPT ![p] = file[p]]
    BY <2>1 DEF Identity
  <2>3. \A j \in 1 .. 3 : j <= at[a] => identity'[a][PartAt[j]] = file[PartAt[j]]
    BY <1>0, <1>1, <2>2, PartAtIsPart DEF AgreeInv, LoadedSoFar, PartAt, Part
  <2>4. LoadedSoFar'
    BY <1>0, <1>1, <1>5, <2>1, <2>3 DEF AgreeInv, LoadedSoFar, NextFile, Position, Goes
  <2>5. stage'[a] = "serverinfo" => file \in Whole
    <3>1. ASSUME stage'[a] = "serverinfo" PROVE file \in Whole
      <4>1. at[a] = 3
        BY <1>0, <2>1, <3>1 DEF NextFile, Goes
      <4>2. \A q \in Part : file[q] \in Source
        BY <2>3, <4>1, <2>2, <2>1, PartAtIsPart DEF Part, PartAt
      <4> QED BY <1>3, <4>2 DEF Complete
    <3> QED BY <3>1
  <2>6. stage'[a] = "serverinfo" => identity'[a] = file
    <3>1. ASSUME stage'[a] = "serverinfo" PROVE identity'[a] = file
      <4>1. at[a] = 3
        BY <1>0, <2>1, <3>1 DEF NextFile, Goes
      <4>2. \A q \in Part : identity'[a][q] = file[q]
        BY <2>3, <4>1 DEF Part, PartAt
      <4>3. file \in [Part -> Source] /\ identity'[a] \in [Part -> Source]
        BY <1>0, <2>1, <2>2, <2>5, <3>1, WholeFacts DEF Identity
      <4> QED BY <4>2, <4>3
    <3> QED BY <3>1
  <2>7. WholeIdentities'
    BY <1>0, <1>1, <1>5, <1>11, <2>5, <2>6 DEF AgreeInv, WholeIdentities, Asking
  <2>8. ActiveAgrees'
    BY <1>0, <1>1, <1>5, <1>11, <2>6, AttemptAssumption
       DEF AgreeInv, ActiveAgrees, Asking, SuccessIsFinal
  <2> QED BY <1>4, <1>8, <1>9, <1>12, <2>4, <2>7, <2>8 DEF AgreeInv
<1> QED BY <1>6, <1>10, <1>11

LEMMA AgreeGenerate == ASSUME AttemptInv, AgreeInv, NEW a \in Attempt, Generate(a) PROVE AgreeInv'
<1> SUFFICES ASSUME settled' PROVE AgreeInv'
  BY DEF AgreeInv
<1> USE DEF AttemptInv, TypeInv, TypeOK
<1>0. stage[a] = "generate" /\ UNCHANGED <<shellVars, at, file, accepted, settled>>
  BY DEF Generate, Thread
<1>1. settled /\ NeedsIdentity(a)
  BY <1>0 DEF NeedsIdentity
<1>2. \A b \in Attempt : b # a => stage'[b] = stage[b] /\ identity'[b] = identity[b]
                                  /\ ~ NeedsIdentity(b)
  BY <1>1 DEF Generate, Goes, Ends, AgreeInv, OneUser
<1>3. \/ stage'[a] = "open" /\ identity'[a] = MadeBy(a) /\ success' = success
      \/ stage'[a] = "completed" /\ success' = success
  BY DEF Generate, Goes, Ends
<1>4. at[a] = 1 /\ ~ Complete(file) /\ paired = {} /\ asked = "none"
  BY <1>0, <1>1 DEF AgreeInv, FromStart, NonePaired, QueryAgrees
<1>5. OneUser' /\ FromStart' /\ FileIsWhole'
  BY <1>0, <1>1, <1>2, <1>3, <1>4 DEF AgreeInv, OneUser, FromStart, FileIsWhole, NeedsIdentity
<1>6. LoadedSoFar' /\ NonePaired' /\ SavedSoFar'
  BY <1>0, <1>1, <1>2, <1>3, <1>4 DEF AgreeInv, LoadedSoFar, NonePaired, SavedSoFar, NeedsIdentity
<1>7. WholeIdentities' /\ ActiveAgrees' /\ IdentityAgrees'
  BY <1>0, <1>1, <1>2, <1>3, <1>4, AttemptAssumption
     DEF AgreeInv, WholeIdentities, ActiveAgrees, IdentityAgrees, Asking, SuccessIsFinal
<1>8. QueryAgrees'
  BY <1>0, <1>4 DEF QueryAgrees
<1> QED BY <1>5, <1>6, <1>7, <1>8 DEF AgreeInv

LEMMA AgreeSave ==
  ASSUME AttemptInv, AgreeInv, NEW a \in Attempt, Open(a) \/ Write(a) PROVE AgreeInv'
<1> SUFFICES ASSUME settled' PROVE AgreeInv'
  BY DEF AgreeInv
<1> USE DEF AttemptInv, TypeInv, TypeOK
<1>0. /\ stage[a] \in {"open", "write"} /\ at[a] \in 1 .. 3 /\ PartAt[at[a]] \in Part
      /\ UNCHANGED <<shellVars, identity, accepted>>
  BY PartAtIsPart DEF Open, Write, Thread
<1>1. settled /\ NeedsIdentity(a)
  BY <1>0 DEF NeedsIdentity, Open, Write
<1>2. \A b \in Attempt : b # a => stage'[b] = stage[b] /\ at'[b] = at[b] /\ ~ NeedsIdentity(b)
  BY <1>1 DEF Open, Write, Goes, Ends, Position, NextFile, AgreeInv, OneUser
<1>q. asked = "none"
  BY <1>0, <1>1 DEF AgreeInv, QueryAgrees
<1>10. QueryAgrees'
  BY <1>0, <1>q DEF QueryAgrees
<1>3. /\ identity[a] = MadeBy(a) /\ paired = {} /\ a \in Source
      /\ \A j \in 1 .. 3 : j < at[a] => file[PartAt[j]] = a
  BY <1>0, <1>1, WholeFacts DEF AgreeInv, SavedSoFar, NonePaired
<1>4. success' = success /\ a \notin success
  BY <1>0 DEF Open, Write, SuccessIsFinal
<1>5. active # NoAttempt => active = a
  BY <1>1, <1>2 DEF AgreeInv, OneUser
<1>6. IdentityAgrees'
  BY <1>0, <1>3 DEF IdentityAgrees
<1>7. OneUser'
  BY <1>0, <1>1, <1>2, <1>5 DEF OneUser, NeedsIdentity
<1>8. CASE Open(a)
  <2>1. /\ stage'[a] = "write" /\ at' = at
        /\ file' = [file EXCEPT ![PartAt[at[a]]] = "empty"]
    BY <1>8 DEF Open, Goes
  <2>2. \A j \in 1 .. 3 : j < at[a] => file'[PartAt[j]] = a
    BY <1>0, <1>3, <2>1 DEF PartAt, Part
  <2>3. FromStart' /\ FileIsWhole' /\ LoadedSoFar' /\ NonePaired' /\ SavedSoFar'
    BY <1>0, <1>1, <1>2, <1>3, <2>1, <2>2
       DEF AgreeInv, FromStart, FileIsWhole, LoadedSoFar, NonePaired, SavedSoFar, NeedsIdentity
  <2>4. WholeIdentities' /\ ActiveAgrees'
    BY <1>0, <1>1, <1>2, <1>4, <1>5, <2>1 DEF AgreeInv, WholeIdentities, ActiveAgrees, Asking
  <2> QED BY <1>6, <1>7, <1>10, <2>3, <2>4 DEF AgreeInv
<1>9. CASE Write(a)
  <2>1. /\ NextFile(a, "open", "serverinfo")
        /\ file' = [file EXCEPT ![PartAt[at[a]]] = a]
    BY <1>9 DEF Write
  <2>2. \A j \in 1 .. 3 : j <= at[a] => file'[PartAt[j]] = a
    BY <1>0, <1>3, <2>1 DEF PartAt, Part
  <2>3. CASE at[a] = 3
    <3>1. stage'[a] = "serverinfo" /\ at'[a] = 1
      BY <2>1, <2>3 DEF NextFile, Goes, Position
    <3>2. file' = MadeBy(a)
      <4>1. \A q \in Part : file'[q] = a
        BY <2>2, <2>3 DEF Part, PartAt
      <4> QED BY <2>1, <4>1 DEF MadeBy
    <3>3. FromStart' /\ FileIsWhole' /\ LoadedSoFar' /\ NonePaired' /\ SavedSoFar'
      BY <1>0, <1>1, <1>2, <1>3, <3>1, <3>2, WholeFacts
         DEF AgreeInv, FromStart, FileIsWhole, LoadedSoFar, NonePaired, SavedSoFar, NeedsIdentity
    <3>4. WholeIdentities' /\ ActiveAgrees'
      BY <1>0, <1>1, <1>2, <1>3, <1>4, <1>5, <3>1, <3>2, WholeFacts
         DEF AgreeInv, WholeIdentities, ActiveAgrees, Asking
    <3> QED BY <1>6, <1>7, <1>10, <3>3, <3>4 DEF AgreeInv
  <2>4. CASE at[a] # 3
    <3>1. stage'[a] = "open" /\ at'[a] = at[a] + 1
      BY <1>0, <2>1, <2>4 DEF NextFile, Goes, Position
    <3>2. FromStart' /\ FileIsWhole' /\ LoadedSoFar' /\ NonePaired' /\ SavedSoFar'
      BY <1>0, <1>1, <1>2, <1>3, <2>2, <3>1
         DEF AgreeInv, FromStart, FileIsWhole, LoadedSoFar, NonePaired, SavedSoFar, NeedsIdentity
    <3>3. WholeIdentities' /\ ActiveAgrees'
      BY <1>0, <1>1, <1>2, <1>4, <1>5, <3>1 DEF AgreeInv, WholeIdentities, ActiveAgrees, Asking
    <3> QED BY <1>6, <1>7, <1>10, <3>2, <3>3 DEF AgreeInv
  <2> QED BY <2>3, <2>4
<1> QED BY <1>8, <1>9

\* The shell.  It deletes files only while no result can be applied, and as it
\* was meant only when no host is paired.
LEMMA AgreeRemoved ==
  ASSUME AttemptInv, AgreeInv, ~ onPage, NEW gone, NEW asMeant \in BOOLEAN,
         RemoveFiles(gone, asMeant), gone \subseteq Part,
         asMeant => gone # {} /\ paired' = {},
         UNCHANGED <<asked, active, stage, at, identity, success, target, accepted>>
  PROVE  AgreeInv'
<1> SUFFICES ASSUME settled' PROVE AgreeInv'
  BY DEF AgreeInv
<1> USE DEF AttemptInv, TypeInv, TypeOK
<1>1. settled /\ ~ InUse /\ asMeant
  BY Zenon DEF RemoveFiles
<1>2. asked = "none" /\ \A b \in Attempt : ~ NeedsIdentity(b) /\ ~ NeedsIdentity(b)'
  BY <1>1 DEF InUse, Preparing, NeedsIdentity
<1>3. active = NoAttempt /\ paired' = {}
  BY <1>1 DEF ActiveOnPage
<1>4. ~ Complete(file')
  BY AttemptAssumption DEF RemoveFiles, Complete, Source
<1>5. OneUser' /\ FromStart' /\ FileIsWhole' /\ LoadedSoFar' /\ NonePaired' /\ SavedSoFar'
  BY <1>1, <1>2, <1>3, <1>4
     DEF AgreeInv, OneUser, FromStart, FileIsWhole, LoadedSoFar, NonePaired, SavedSoFar, NeedsIdentity
<1>6. WholeIdentities' /\ ActiveAgrees' /\ IdentityAgrees' /\ QueryAgrees'
  BY <1>1, <1>2, <1>3 DEF AgreeInv, WholeIdentities, ActiveAgrees, IdentityAgrees, QueryAgrees
<1> QED BY <1>5, <1>6 DEF AgreeInv

LEMMA AgreeShell ==
  ASSUME AttemptInv, AgreeInv, Shell \/ (\E h \in Host : ForHost(h)) PROVE AgreeInv'
<1> USE DEF AttemptInv, TypeInv, TypeOK
<1>1. CASE FactoryReset
  <2>1. PICK gone \in SUBSET Part :
          /\ RemoveFiles(gone, gone = Part)
          /\ paired' = {} \/ gone # Part
    BY <1>1 DEF FactoryReset
  <2>2. Part # {}
    BY DEF Part
  <2> QED BY <1>1, <2>1, <2>2, AgreeRemoved DEF FactoryReset
<1>2. ASSUME NEW h \in Host, DeleteHost(h), paired' = {} PROVE AgreeInv'
  <2>1. PICK n \in 0 .. 3 : RemoveFiles(Removed(n), n = 3)
    BY <1>2 DEF DeleteHost
  <2>2. Removed(n) \subseteq Part /\ (n = 3 => Removed(n) # {})
    BY <2>1, PartAtIsPart DEF Removed
  <2> QED BY <1>2, <2>1, <2>2, AgreeRemoved DEF DeleteHost
<1>8. ASSUME NEW p \in Part, DeleteFile(p) PROVE AgreeInv'
  <2>1. RemoveFiles({p}, paired = {}) /\ ~ onPage /\ paired' = paired
    BY <1>8 DEF DeleteFile
  <2>4. UNCHANGED <<asked, active, stage, at, identity, success, target, accepted>>
    BY <1>8 DEF DeleteFile
  <2>5. {p} # {} /\ {p} \subseteq Part
    OBVIOUS
  <2>2. CASE paired = {}
    <3>1. RemoveFiles({p}, TRUE)
      BY <2>1, <2>2 DEF RemoveFiles
    <3>2. TRUE => {p} # {} /\ paired' = {}
      BY <2>1, <2>2
    <3>3. TRUE \in BOOLEAN /\ ~ onPage
      BY <2>1
    <3> HIDE DEF pageVars, shellVars, threadVars, taskVars
    <3> QED BY <2>4, <2>5, <3>1, <3>2, <3>3, AgreeRemoved, Zenon
  <2>3. CASE paired # {}
    <3>1. RemoveFiles({p}, FALSE)
      BY <2>1, <2>3 DEF RemoveFiles
    <3> QED BY <2>1, <2>4, <2>5, <3>1, AgreeRemoved
  <2> QED BY <2>2, <2>3
<1>9. CASE AskStatus
  <2> SUFFICES ASSUME settled' PROVE AgreeInv'
    BY DEF AgreeInv
  <2>1. settled /\ ~ Saving /\ UNCHANGED <<paired, taskVars, file>>
    BY <1>9 DEF AskStatus
  <2>2. \A a \in Attempt : stage[a] \notin {"open", "write"}
    BY <2>1 DEF Saving
  <2>3. Complete(file) /\ file \in Whole
    BY <1>9, <2>1, <2>2 DEF AskStatus, AgreeInv, FileIsWhole
  <2>4. \A a \in Attempt : stage[a] # "generate"
    BY <2>1, <2>3 DEF AgreeInv, NonePaired
  <2>5. file = MadeBy(asked')
    BY <1>9, <2>3, WholeFacts DEF AskStatus
  <2>6. QueryAgrees'
    BY <2>1, <2>2, <2>3, <2>4, <2>5 DEF QueryAgrees
  <2> QED BY <2>1, <2>6 DEF AgreeInv, OneUser, FromStart, FileIsWhole, LoadedSoFar, NonePaired,
     SavedSoFar, WholeIdentities, ActiveAgrees, IdentityAgrees, NeedsIdentity
<1>10. ASSUME NEW h \in Host, Paired(h) PROVE AgreeInv'
  <2> SUFFICES ASSUME settled' PROVE AgreeInv'
    BY DEF AgreeInv
  <2>1. settled /\ UNCHANGED <<asked, taskVars, file>> /\ paired' = paired \cup {h}
    BY <1>10 DEF Paired
  <2>2. PICK i \in accepted[h] : i["cert"] = asked
    BY <1>10 DEF Paired
  <2>3. i \in Whole
    BY <2>1, <2>2 DEF AgreeInv, WholeIdentities
  <2>4. i = MadeBy(asked) /\ asked # "none"
    BY <2>2, <2>3, WholeFacts DEF Identity
  <2>5. file = i /\ \A a \in Attempt : stage[a] \notin {"generate", "open", "write"}
    BY <2>1, <2>4 DEF AgreeInv, QueryAgrees
  <2>6. IdentityAgrees' /\ NonePaired'
    BY <2>1, <2>2, <2>5 DEF AgreeInv, IdentityAgrees, NonePaired
  <2> QED BY <2>1, <2>6 DEF AgreeInv, OneUser, FromStart, FileIsWhole, LoadedSoFar,
     SavedSoFar, WholeIdentities, ActiveAgrees, QueryAgrees, NeedsIdentity
<1>3. ASSUME UNCHANGED <<at, identity, success, target, accepted, file, settled>>,
             asked' \in {asked, "none"},
             \A a \in Attempt : stage'[a] = stage[a] \/ (stage[a] = "completed" /\ stage'[a] = "joined"),
             active' \in {active, NoAttempt},
             \A h \in paired' : h \in paired \/ (h \in Host /\ active \in success /\ h = target[active]),
             active = NoAttempt => paired' \subseteq paired
      PROVE  AgreeInv'
  <2> SUFFICES ASSUME settled' PROVE AgreeInv'
    BY DEF AgreeInv
  <2>1. settled
    BY <1>3
  <2>2. \A a \in Attempt : /\ NeedsIdentity(a)' <=> NeedsIdentity(a)
                           /\ \A s \in Stage \ {"completed", "joined"} : stage'[a] = s <=> stage[a] = s
    BY <1>3 DEF NeedsIdentity, Stage
  <2>3. IdentityAgrees'
    BY <1>3, <2>1 DEF AgreeInv, IdentityAgrees, ActiveAgrees
  <2>4. OneUser' /\ FromStart' /\ FileIsWhole' /\ LoadedSoFar' /\ SavedSoFar'
    BY <1>3, <2>1, <2>2 DEF AgreeInv, OneUser, FromStart, FileIsWhole, LoadedSoFar, SavedSoFar, Stage
  <2>5. WholeIdentities' /\ ActiveAgrees'
    BY <1>3, <2>1, <2>2 DEF AgreeInv, WholeIdentities, ActiveAgrees, Asking, Stage
  <2>6. NonePaired'
    <3>1. ASSUME NEW a \in Attempt, stage[a] \in {"generate", "open", "write"} PROVE paired' = {}
      <4>1. paired = {} /\ NeedsIdentity(a)
        BY <2>1, <3>1 DEF AgreeInv, NonePaired, NeedsIdentity
      <4>2. active = NoAttempt \/ active = a
        BY <2>1, <4>1 DEF AgreeInv, OneUser
      <4>3. a \notin success
        BY <3>1 DEF SuccessIsFinal
      <4> QED BY <1>3, <4>1, <4>2, <4>3
    <3> QED BY <1>3, <2>1, <2>2, <3>1 DEF AgreeInv, NonePaired, Stage
  <2>7. QueryAgrees'
    BY <1>3, <2>1, <2>2 DEF AgreeInv, QueryAgrees, Stage
  <2> QED BY <2>3, <2>4, <2>5, <2>6, <2>7 DEF AgreeInv
<1>4. CASE Finish
  <2>1. \A a \in Attempt : stage'[a] = stage[a] \/ (stage[a] = "completed" /\ stage'[a] = "joined")
    BY <1>4 DEF Finish, Join, Reapable, Ready
  <2>2. Ready(active) => active \in Attempt /\ target[active] \in Host
    BY DEF Ready, Targets
  <2> QED BY <1>3, <1>4, <2>1, <2>2 DEF Finish, Ready
<1>5. CASE Cancel \/ BeginJoin \/ Off \/ StatusTaken
  BY <1>3, <1>5 DEF Cancel, BeginJoin, Off, StatusTaken, vars
<1>6. CASE EndJoin
  <2>1. \A a \in Attempt : stage'[a] = stage[a] \/ (stage[a] = "completed" /\ stage'[a] = "joined")
    BY <1>6 DEF EndJoin, Join, Reapable, Ready
  <2> QED BY <1>3, <1>6, <2>1 DEF EndJoin
<1>7. ASSUME NEW h \in Host, Unpaired(h) \/ (DeleteHost(h) /\ paired' # {}) PROVE AgreeInv'
  BY <1>3, <1>7 DEF Unpaired, DeleteHost
<1> QED BY <1>1, <1>2, <1>4, <1>5, <1>6, <1>7, <1>8, <1>9, <1>10 DEF Shell, ForHost

LEMMA AgreeStart ==
  ASSUME AttemptInv, AgreeInv, NEW a \in Attempt, NEW h \in Host, StartPairing(a, h) PROVE AgreeInv'
<1> SUFFICES ASSUME settled' PROVE AgreeInv'
  BY DEF AgreeInv
<1> USE DEF AttemptInv, TypeInv, TypeOK
<1>0. /\ stage[a] = "unused" /\ a \notin success /\ active = NoAttempt
      /\ UNCHANGED <<asked, at, identity, success, file, accepted>> /\ paired' \subseteq paired
  BY DEF StartPairing, FreshAttempts, ActiveOnPage
<1>1. settled
  BY DEF StartPairing
<1>2. \A b \in Attempt : b # a => stage'[b] = stage[b] \/ (stage[b] = "completed" /\ stage'[b] = "joined")
  BY DEF StartPairing, Join, Reapable, Ready
<1>3. \/ active' = a /\ stage'[a] = "load" /\ ~ Preparing
      \/ active' = NoAttempt /\ stage'[a] = "unused"
  <2>1. a \notin Reapable
    BY <1>0 DEF Reapable, Ready
  <2> QED BY <1>0, <2>1 DEF StartPairing, Join
<1>4. at[a] = 1
  BY <1>0, <1>1 DEF AgreeInv, FromStart
<1>5. \A b \in Attempt : b # a => /\ NeedsIdentity(b)' <=> NeedsIdentity(b)
                                  /\ \A s \in Stage \ {"completed", "joined"} : stage'[b] = s <=> stage[b] = s
  BY <1>2 DEF NeedsIdentity, Stage
<1>6. OneUser'
  BY <1>0, <1>1, <1>3, <1>5, AttemptAssumption DEF AgreeInv, OneUser, Preparing, NeedsIdentity
<1>7. FromStart' /\ FileIsWhole' /\ LoadedSoFar' /\ NonePaired' /\ SavedSoFar'
  BY <1>0, <1>1, <1>2, <1>3, <1>4, <1>5
     DEF AgreeInv, FromStart, FileIsWhole, LoadedSoFar, NonePaired, SavedSoFar, Stage
<1>8. WholeIdentities'
  BY <1>0, <1>1, <1>3, <1>5 DEF AgreeInv, WholeIdentities, Asking, Stage
<1>9. ActiveAgrees'
  BY <1>0, <1>3, AttemptAssumption DEF ActiveAgrees, Asking
<1>10. IdentityAgrees'
  BY <1>0, <1>1 DEF AgreeInv, IdentityAgrees
<1>11. QueryAgrees'
  BY <1>0, <1>1, <1>3, <1>5 DEF AgreeInv, QueryAgrees, Stage
<1> QED BY <1>6, <1>7, <1>8, <1>9, <1>10, <1>11 DEF AgreeInv

LEMMA AgreeStep == AttemptInv /\ AgreeInv /\ [Next]_vars => AgreeInv'
<1>1. ASSUME AttemptInv, AgreeInv, UNCHANGED vars PROVE AgreeInv'
  BY <1>1 DEF vars, AgreeInv, OneUser, FromStart, FileIsWhole, LoadedSoFar, NonePaired, SavedSoFar, WholeIdentities, ActiveAgrees, QueryAgrees, IdentityAgrees,
     NeedsIdentity, Knows
<1>2. ASSUME AttemptInv, AgreeInv, NEW a \in Attempt, Run(a) PROVE AgreeInv'
  BY <1>2, AgreeLoad, AgreeGenerate, AgreeSave, AgreeAsking DEF Run
<1> QED BY <1>1, <1>2, AgreeShell, AgreeStart DEF Next

LEMMA AgreeHolds == Spec => []AgreeInv
  BY AgreeInit, AgreeStep, InvHolds, PTL DEF Spec

\* Unless an identity file could not be read, written or removed, two uses of
\* the identity overlapped, or the user deleted an identity file while hosts
\* were paired, every paired host, paired here or by a status that said so, has
\* accepted the identity on file.
THEOREM IdentityIsShared == Spec => []IdentityAgrees
<1>1. AgreeInv => IdentityAgrees
  BY DEF AgreeInv, IdentityAgrees
<1> QED BY <1>1, AgreeHolds, PTL
=============================================================================

----------------------------- MODULE HostProofs -----------------------------
(***************************************************************************)
(* Proofs about HostProbe for every finite set of saved hosts, and about   *)
(* HostClient for every set of certificates and apps and any number of     *)
(* ports and paths to try.                                                 *)
(***************************************************************************)
EXTENDS HostProbe, HostClient, FiniteSetTheorems, SequenceTheorems, TLAPS

\* A publication appends to the queue.
LEMMA PublishAppends ==
  ASSUME TypeOK, NEW h \in Host, Publish(h)
  PROVE  /\ pending' \in Seq(Result)
         /\ Len(pending') = Len(pending) + 1
         /\ PendingHosts' = PendingHosts \cup {h}
<1>1. PICK ok \in BOOLEAN : pending' = Append(pending, [host |-> h, success |-> ok])
  BY DEF Publish
<1> DEFINE r == [host |-> h, success |-> ok]
<1>2. r \in Result /\ r.host = h
  BY DEF Result
<1>3. pending \in Seq(Result)
  BY DEF TypeOK
<1>4. /\ pending' \in Seq(Result)
      /\ Len(pending') = Len(pending) + 1
      /\ DOMAIN pending = 1 .. Len(pending)
      /\ DOMAIN pending' = 1 .. Len(pending) + 1
      /\ \A i \in 1 .. Len(pending) : pending'[i] = pending[i]
      /\ pending'[Len(pending) + 1] = r
      /\ Len(pending) \in Nat
  <2> HIDE DEF r
  <2> QED BY <1>1, <1>2, <1>3 DEF r
<1>5. PendingHosts' = PendingHosts \cup {h}
  <2> HIDE DEF r
  <2>1. ASSUME NEW x \in PendingHosts' PROVE x \in PendingHosts \cup {h}
    BY <1>2, <1>4, <2>1 DEF PendingHosts
  <2>2. ASSUME NEW x \in PendingHosts PROVE x \in PendingHosts'
    BY <1>4, <2>2 DEF PendingHosts
  <2>3. h \in PendingHosts'
    BY <1>2, <1>4 DEF PendingHosts
  <2> QED BY <2>1, <2>2, <2>3
<1> QED BY <1>4, <1>5

\* The types hold at first.
LEMMA TypeInit == Init => TypeOK
<1>1. <<>> \in Seq(Result)
  BY EmptySeq
<1>2. ASSUME Init
      PROVE  /\ reach \in [Host -> Reach]
             /\ thread \in [Host -> Stage]
             /\ saved \subseteq Host
             /\ pending \in Seq(Result)
             /\ target \in Nat /\ published \in Nat /\ reported \in Nat
  BY <1>1, <1>2 DEF Init, Reach, Stage, QueueIsEmpty
<1> QED
  BY <1>2 DEF Init, TypeOK, LoopPc

\* Every step keeps the types.
LEMMA TypeStep == TypeOK /\ [Next]_vars => TypeOK'
<1> SUFFICES ASSUME TypeOK, [Next]_vars PROVE TypeOK'
  OBVIOUS
<1> USE DEF LoopPc, Reach, Stage
<1>c. Cardinality(saved) \in Nat
  BY HostsAssumption, FS_Subset, FS_CardinalityType DEF TypeOK
<1>e. <<>> \in Seq(Result)
  BY EmptySeq
<1>n. Len(pending) \in Nat
  BY LenProperties DEF TypeOK
<1>0. CASE UNCHANGED vars
  BY <1>0 DEF TypeOK, vars, shellVars, taskVars, queueVars
<1>1. ASSUME NEW h \in Host, Publish(h) PROVE TypeOK'
  <2>1. pending' \in Seq(Result)
    BY <1>1, PublishAppends
  <2> QED BY <1>1, <2>1 DEF TypeOK, Publish, shellVars, taskVars
<1>2. ASSUME NEW h \in Host, FallSilent(h) \/ Complete(h) PROVE TypeOK'
  BY <1>2 DEF TypeOK, FallSilent, Complete, shellVars, taskVars, queueVars
<1>3. ApplyPublished =>
        /\ UNCHANGED <<onHosts, saved, workers, toLaunch, target, published, thread>>
        /\ dirty' \in BOOLEAN /\ metadataChanged' \in BOOLEAN
        /\ reach' \in [Host -> Reach]
        /\ reported' \in Nat
        /\ pending' \in Seq(Result)
  <2> SUFFICES ASSUME ApplyPublished
               PROVE  /\ dirty' \in BOOLEAN /\ metadataChanged' \in BOOLEAN
                      /\ reach' \in [Host -> Reach]
                      /\ reported' \in Nat
                      /\ pending' \in Seq(Result)
    BY DEF ApplyPublished
  <2>1. pending' \in Seq(Result) /\ reported' \in Nat
    BY <1>e, <1>n DEF ApplyPublished, TypeOK
  <2>2. reach' \in [Host -> Reach]
    BY DEF ApplyPublished, TypeOK
  <2>3. dirty' \in BOOLEAN
    BY DEF ApplyPublished, TypeOK
  <2>4. metadataChanged' \in BOOLEAN
    BY <2>3 DEF ApplyPublished, TypeOK
  <2> QED BY <2>1, <2>2, <2>3, <2>4
<1>4. ASSUME Drain PROVE TypeOK'
  BY <1>3, <1>4 DEF TypeOK, Drain
<1>5. ASSUME NEW h \in Host, Reap(h) PROVE TypeOK'
  BY <1>5 DEF TypeOK, Reap, shellVars, queueVars
<1>6. ASSUME ReapDone PROVE TypeOK'
  BY <1>6 DEF TypeOK, ReapDone, shellVars, taskVars, queueVars
<1>7. ASSUME DrainAgain PROVE TypeOK'
  BY <1>3, <1>7 DEF TypeOK, DrainAgain
<1>r. ResetTask => /\ workers' = {} /\ toLaunch' = {} /\ toReap' = {}
                   /\ metadataChanged' \in BOOLEAN /\ reported' \in Nat
                   /\ target' \in Nat /\ published' \in Nat
                   /\ pending' \in Seq(Result)
                   /\ thread' \in [Host -> Stage]
  <2> SUFFICES ASSUME ResetTask
               PROVE  /\ metadataChanged' \in BOOLEAN /\ reported' \in Nat
                      /\ target' \in Nat /\ published' \in Nat
                      /\ pending' \in Seq(Result)
                      /\ thread' \in [Host -> Stage]
    BY DEF ResetTask
  <2> QED BY <1>e DEF ResetTask
<1>8. ASSUME StillRunning PROVE TypeOK'
  BY <1>8 DEF TypeOK, StillRunning, shellVars, taskVars, queueVars
<1>9. ASSUME FinishRound PROVE TypeOK'
  <2>1. dirty' \in BOOLEAN
    BY <1>9 DEF FinishRound, TypeOK
  <2> QED BY <1>9, <1>r, <2>1 DEF TypeOK, FinishRound
<1>10. ASSUME StartNothing PROVE TypeOK'
  BY <1>10 DEF TypeOK, StartNothing, shellVars, taskVars, queueVars
<1>11. ASSUME BeginRound PROVE TypeOK'
  BY <1>11, <1>c, <1>e DEF TypeOK, BeginRound, shellVars
<1>12. ASSUME NEW h \in Host, Launch(h) PROVE TypeOK'
  BY <1>12 DEF TypeOK, Launch, shellVars, queueVars
<1>13. ASSUME NEW h \in Host, LaunchFails(h) PROVE TypeOK'
  BY <1>13 DEF TypeOK, LaunchFails, shellVars
<1>14. ASSUME LaunchDone PROVE TypeOK'
  BY <1>14, <1>r DEF TypeOK, LaunchDone, shellVars, taskVars, queueVars
<1>15. ASSUME Command PROVE TypeOK'
  BY <1>15 DEF TypeOK, Command, NoCommand, LeaveHosts, ReturnToHosts, EditHosts,
               StopShell, shellVars, taskVars, queueVars
<1>16. ASSUME Finalize PROVE TypeOK'
  BY <1>16, <1>r DEF TypeOK, Finalize, ResumeAfterStream, Exit, shellVars, taskVars, queueVars
<1> QED
  BY <1>0, <1>1, <1>2, <1>4, <1>5, <1>6, <1>7, <1>8, <1>9, <1>10, <1>11, <1>12,
     <1>13, <1>14, <1>15, <1>16
  DEF Next, Loop, Worker, Exited, FinishTask, StartTask

\* Every variable of the refresh keeps its type in every behaviour.
THEOREM TypeCorrect == Spec => []TypeOK
  BY TypeInit, TypeStep, PTL DEF Spec

-----------------------------------------------------------------------------

\* Sets of hosts are finite.
LEMMA HostSubsetsFinite ==
  ASSUME NEW S \in SUBSET Host
  PROVE  IsFiniteSet(S) /\ Cardinality(S) \in Nat
  BY HostsAssumption, FS_Subset, FS_CardinalityType

\* Nothing counts zero.
LEMMA CountEmpty == Cardinality({}) = 0
  BY FS_EmptySet

\* With an empty queue no host has a pending answer.
LEMMA NoPending ==
  ASSUME pending = <<>> PROVE PendingHosts = {} /\ Len(pending) = 0
<1>1. DOMAIN pending = {}
  BY EmptySeq
<1> QED BY <1>1, EmptySeq DEF PendingHosts

\* Answers left in the queue name a host.
LEMMA PendingNonempty ==
  ASSUME TypeOK, PendingHosts = {} PROVE pending = <<>>
<1>1. pending \in Seq(Result) /\ Len(pending) \in Nat /\ DOMAIN pending = 1 .. Len(pending)
  BY LenProperties DEF TypeOK
<1>2. ASSUME Len(pending) # 0 PROVE FALSE
  <2>1. 1 \in DOMAIN pending
    BY <1>1, <1>2
  <2> QED BY <2>1 DEF PendingHosts
<1> QED BY <1>1, <1>2, EmptySeq

\* A reset task satisfies every part of the invariant.
LEMMA ResetRestoresInv ==
  ASSUME ResetTask PROVE RoundInv'
<1>1. Launched' = {} /\ Publishers' = {} /\ PendingHosts' = {}
  <2>1. DOMAIN pending' = {}
    BY EmptySeq DEF ResetTask
  <2> QED BY <2>1 DEF ResetTask, Launched, Publishers, HasPublished, PendingHosts
<1>2. Len(pending') = 0
  BY EmptySeq DEF ResetTask
<1>3. CountsAgree'
  BY <1>1, <1>2, CountEmpty DEF CountsAgree, ResetTask
<1>4. WorkersUnjoined'
  BY <1>1 DEF WorkersUnjoined, ResetTask
<1>5. PendingFromWorkers'
  BY <1>1 DEF PendingFromWorkers
<1> QED BY <1>3, <1>4, <1>5 DEF RoundInv, ResetTask, QueueIsEmpty

\* The invariant of a round holds at first.
LEMMA InvInit == Init => RoundInv
<1> SUFFICES ASSUME Init PROVE RoundInv
  OBVIOUS
<1>1. Launched = {} /\ Publishers = {} /\ PendingHosts = {} /\ Len(pending) = 0
  BY NoPending DEF Init, QueueIsEmpty, Launched, Publishers, HasPublished
<1>2. CountsAgree
  BY <1>1, CountEmpty DEF CountsAgree, Init, QueueIsEmpty
<1>3. WorkersUnjoined
  BY <1>1 DEF WorkersUnjoined, Init
<1>4. PendingFromWorkers
  BY <1>1 DEF PendingFromWorkers
<1> QED BY <1>2, <1>3, <1>4 DEF RoundInv, Init

\* The drains empty the queue and report what it held.
LEMMA DrainKeepsInv ==
  ASSUME TypeOK, WorkersUnjoined, PendingFromWorkers, CountsAgree, ApplyPublished
  PROVE  /\ PendingFromWorkers' /\ CountsAgree'
         /\ Launched' = Launched /\ Publishers' = Publishers
<1>1. Launched' = Launched /\ Publishers' = Publishers
  BY DEF ApplyPublished, Launched, Publishers, HasPublished
<1>2. PendingHosts' = {} /\ Len(pending') = 0
  <2>1. DOMAIN pending' = {} /\ Len(pending') = 0
    BY EmptySeq DEF ApplyPublished
  <2> QED BY <2>1 DEF PendingHosts
<1>3. Len(pending) \in Nat /\ reported \in Nat
  BY LenProperties DEF TypeOK
<1>4. reported' + Len(pending') = published'
  BY <1>2, <1>3 DEF ApplyPublished, CountsAgree
<1> QED BY <1>1, <1>2, <1>4 DEF PendingFromWorkers, CountsAgree, ApplyPublished

\* Every step keeps the invariant of a round.
LEMMA InvStep == TypeOK /\ RoundInv /\ [Next]_vars => RoundInv'
<1> SUFFICES ASSUME TypeOK, RoundInv, [Next]_vars PROVE RoundInv'
  OBVIOUS
<1> USE DEF RoundInv
<1>0. CASE UNCHANGED vars
  BY <1>0 DEF vars, shellVars, taskVars, queueVars, WorkersUnjoined, PendingFromWorkers,
     CountsAgree, Launched, Publishers, HasPublished, PendingHosts, QueueIsEmpty
<1>1. ASSUME NEW h \in Host, Publish(h) PROVE RoundInv'
  <2>1. h \notin Publishers /\ h \in workers /\ h \in Launched
    BY <1>1 DEF Publish, Publishers, HasPublished, WorkersUnjoined, Launched
  <2>2. Launched' = Launched /\ Publishers' = Publishers \cup {h}
    BY <1>1 DEF Publish, Launched, Publishers, HasPublished, TypeOK
  <2>3. WorkersUnjoined'
    BY <1>1, <2>2 DEF Publish, WorkersUnjoined, TypeOK, taskVars
  <2>4. PendingFromWorkers'
    <3>1. PendingHosts' = PendingHosts \cup {h}
      BY <1>1, PublishAppends
    <3>2. pc' = pc /\ thread' = [thread EXCEPT ![h] = "published"]
      BY <1>1 DEF Publish
    <3> QED BY <2>2, <3>1, <3>2 DEF PendingFromWorkers, TypeOK
  <2>5. Cardinality(Publishers') = Cardinality(Publishers) + 1
    <3>1. Publishers \in SUBSET Host
      BY DEF Publishers
    <3> QED BY <2>1, <2>2, <3>1, HostSubsetsFinite, FS_AddElement
  <2>6. CountsAgree'
    <3>1. Len(pending') = Len(pending) + 1 /\ Len(pending) \in Nat
      BY <1>1, PublishAppends, LenProperties DEF TypeOK
    <3> QED BY <1>1, <2>2, <2>5, <3>1 DEF Publish, CountsAgree, TypeOK, taskVars
  <2> QED BY <1>1, <2>1, <2>3, <2>4, <2>6 DEF Publish, taskVars
<1>2. ASSUME NEW h \in Host, FallSilent(h) \/ Complete(h) PROVE RoundInv'
  <2>1. Launched' = Launched /\ Publishers' = Publishers /\ PendingHosts' = PendingHosts
    BY <1>2 DEF FallSilent, Complete, Launched, Publishers, HasPublished, TypeOK, PendingHosts, queueVars
  <2>2. WorkersUnjoined'
    BY <1>2, <2>1 DEF FallSilent, Complete, WorkersUnjoined, TypeOK, taskVars
  <2>3. PendingFromWorkers'
    <3>1. /\ pc' = pc
          /\ \A g \in Host : thread[g] # "joined" => thread'[g] # "joined"
      BY <1>2 DEF FallSilent, Complete, TypeOK
    <3>2. PendingHosts \subseteq Host
      BY DEF PendingFromWorkers, Publishers
    <3> QED BY <2>1, <3>1, <3>2 DEF PendingFromWorkers
  <2>4. CountsAgree'
    BY <1>2, <2>1 DEF FallSilent, Complete, CountsAgree, taskVars, queueVars
  <2> QED BY <1>2, <2>2, <2>3, <2>4 DEF FallSilent, Complete, taskVars, queueVars, QueueIsEmpty
<1>4. ASSUME Drain PROVE RoundInv'
  <2>1. ApplyPublished /\ PendingFromWorkers' /\ CountsAgree' /\ Launched' = Launched
    BY <1>4, DrainKeepsInv DEF Drain
  <2>2. WorkersUnjoined'
    BY <1>4, <2>1 DEF Drain, ApplyPublished, WorkersUnjoined
  <2> QED BY <1>4, <2>1, <2>2 DEF Drain
<1>5. ASSUME NEW h \in Host, Reap(h) PROVE RoundInv'
  <2>1. Launched' = Launched /\ Publishers' = Publishers /\ PendingHosts' = PendingHosts
    BY <1>5 DEF Reap, Launched, Publishers, HasPublished, TypeOK, PendingHosts, queueVars
  <2>2. WorkersUnjoined'
    <3>1. workers' = {g \in Host : thread'[g] \in {"probing", "silent", "published", "completed"}}
      BY <1>5 DEF Reap, WorkersUnjoined, TypeOK
    <3>2. toReap' \subseteq workers'
      BY <1>5 DEF Reap, WorkersUnjoined, TypeOK
    <3> QED BY <1>5, <2>1, <3>1, <3>2 DEF Reap, WorkersUnjoined
  <2>3. PendingFromWorkers'
    BY <1>5, <2>1 DEF Reap, PendingFromWorkers
  <2>4. CountsAgree'
    BY <1>5, <2>1 DEF Reap, CountsAgree, queueVars
  <2> QED BY <1>5, <2>2, <2>3, <2>4 DEF Reap
<1>6. ASSUME ReapDone PROVE RoundInv'
  <2>1. Launched' = Launched /\ Publishers' = Publishers /\ PendingHosts' = PendingHosts
    BY <1>6 DEF ReapDone, Launched, Publishers, HasPublished, PendingHosts, queueVars
  <2> QED BY <1>6, <2>1 DEF ReapDone, WorkersUnjoined, PendingFromWorkers, CountsAgree,
        taskVars, queueVars
<1>7. ASSUME DrainAgain PROVE RoundInv'
  <2>1. ApplyPublished /\ PendingFromWorkers' /\ CountsAgree' /\ Launched' = Launched
    BY <1>7, DrainKeepsInv DEF DrainAgain
  <2>2. WorkersUnjoined'
    BY <1>7, <2>1 DEF DrainAgain, ApplyPublished, WorkersUnjoined
  <2> QED BY <1>7, <2>1, <2>2 DEF DrainAgain
<1>8. ASSUME StillRunning PROVE RoundInv'
  <2>1. /\ Launched' = Launched /\ Publishers' = Publishers
        /\ PendingHosts' = PendingHosts /\ Len(pending') = Len(pending)
    BY <1>8 DEF StillRunning, Launched, Publishers, HasPublished, PendingHosts, queueVars
  <2>2. WorkersUnjoined' /\ PendingFromWorkers' /\ CountsAgree'
    BY <1>8, <2>1 DEF StillRunning, WorkersUnjoined, PendingFromWorkers, CountsAgree,
       taskVars, queueVars
  <2>3. ASSUME workers = {} PROVE QueueIsEmpty
    <3>1. Publishers = Launched /\ toLaunch = {}
      BY <1>8, <2>3 DEF StillRunning, WorkersUnjoined, Publishers, HasPublished, Launched,
         TypeOK, Stage
    <3>2. target = published
      BY <3>1 DEF CountsAgree
    <3>3. target = 0 /\ published = 0
      BY <1>8, <2>3, <3>2 DEF StillRunning, RoundOver, RoundComplete, TypeOK
    <3>4. Publishers = {}
      <4>1. Publishers \in SUBSET Host
        BY DEF Publishers
      <4> QED BY <3>3, <4>1, HostSubsetsFinite, FS_EmptySet DEF CountsAgree
    <3>5. pending = <<>>
      BY <3>4, PendingNonempty DEF PendingFromWorkers
    <3> QED BY <3>3, <3>5 DEF QueueIsEmpty
  <2> QED BY <1>8, <2>2, <2>3 DEF StillRunning, taskVars, queueVars, QueueIsEmpty
<1>9. ASSUME FinishRound PROVE RoundInv'
  BY <1>9, ResetRestoresInv DEF FinishRound
<1>10. ASSUME StartNothing PROVE RoundInv'
  <2>1. Launched' = Launched /\ Publishers' = Publishers /\ PendingHosts' = PendingHosts
    BY <1>10 DEF StartNothing, Launched, Publishers, HasPublished, PendingHosts, queueVars
  <2> QED BY <1>10, <2>1 DEF StartNothing, WorkersUnjoined, PendingFromWorkers, CountsAgree,
        QueueIsEmpty, taskVars, queueVars
<1>11. ASSUME BeginRound PROVE RoundInv'
  <2>1. Launched' = {} /\ Publishers' = {}
    BY <1>11 DEF BeginRound, Launched, Publishers, HasPublished
  <2>2. PendingHosts' = {} /\ Len(pending') = 0
    <3>1. DOMAIN pending' = {} /\ Len(pending') = 0
      BY <1>11, EmptySeq DEF BeginRound
    <3> QED BY <3>1 DEF PendingHosts
  <2>3. WorkersUnjoined'
    BY <1>11, <2>1 DEF BeginRound, WorkersUnjoined
  <2>4. CountsAgree'
    BY <1>11, <2>1, <2>2, CountEmpty DEF BeginRound, CountsAgree, shellVars
  <2> QED BY <1>11, <2>2, <2>3, <2>4 DEF BeginRound, PendingFromWorkers
<1>12. ASSUME NEW h \in Host, Launch(h) PROVE RoundInv'
  <2>1. /\ Launched' = Launched \cup {h} /\ Publishers' = Publishers
        /\ PendingHosts' = PendingHosts
    BY <1>12 DEF Launch, Launched, Publishers, HasPublished, WorkersUnjoined, PendingHosts,
       queueVars, TypeOK
  <2>2. (toLaunch \cup Launched)' = toLaunch \cup Launched
    BY <1>12, <2>1 DEF Launch
  <2>3. WorkersUnjoined'
    <3>1. workers' = {g \in Host : thread'[g] \in {"probing", "silent", "published", "completed"}}
      BY <1>12 DEF Launch, WorkersUnjoined, TypeOK
    <3> QED BY <1>12, <2>1, <3>1 DEF Launch, WorkersUnjoined
  <2>4. PendingFromWorkers'
    BY <1>12, <2>1 DEF Launch, PendingFromWorkers, TypeOK
  <2>5. CountsAgree'
    BY <1>12, <2>1, <2>2 DEF Launch, CountsAgree, queueVars
  <2> QED BY <1>12, <2>3, <2>4, <2>5 DEF Launch
<1>13. ASSUME NEW h \in Host, LaunchFails(h) PROVE RoundInv'
  <2>1. /\ Launched' = Launched /\ Publishers' = Publishers /\ PendingHosts' = PendingHosts
    BY <1>13 DEF LaunchFails, Launched, Publishers, HasPublished, PendingHosts
  <2>2. h \notin Launched /\ h \in toLaunch
    BY <1>13 DEF LaunchFails, WorkersUnjoined
  <2>3. (toLaunch \cup Launched)' = (toLaunch \cup Launched) \ {h}
    BY <1>13, <2>1, <2>2 DEF LaunchFails
  <2>4. toLaunch \cup Launched \in SUBSET Host
    BY DEF Launched, TypeOK
  <2>5. /\ Cardinality((toLaunch \cup Launched)') = Cardinality(toLaunch \cup Launched) - 1
        /\ Cardinality(toLaunch \cup Launched) # 0
    <3> DEFINE S == toLaunch \cup Launched
    <3>1. IsFiniteSet(S) /\ h \in S
      BY <2>2, <2>4, HostSubsetsFinite
    <3>2. Cardinality(S \ {h}) = Cardinality(S) - 1
      BY <3>1, FS_RemoveElement
    <3>3. Cardinality(S) # 0
      BY <3>1, FS_EmptySet
    <3> QED BY <2>3, <3>2, <3>3
  <2>6. target' = Cardinality((toLaunch \cup Launched)')
    BY <1>13, <2>5, <2>4, HostSubsetsFinite DEF LaunchFails, CountsAgree
  <2>7. CountsAgree'
    BY <1>13, <2>1, <2>6 DEF LaunchFails, CountsAgree
  <2>8. WorkersUnjoined'
    BY <1>13, <2>1 DEF LaunchFails, WorkersUnjoined
  <2>9. PendingFromWorkers'
    BY <1>13, <2>1 DEF LaunchFails, PendingFromWorkers
  <2> QED BY <1>13, <2>7, <2>8, <2>9 DEF LaunchFails
<1>14. ASSUME LaunchDone PROVE RoundInv'
  <2>1. CASE workers = {}
    BY <1>14, <2>1, ResetRestoresInv DEF LaunchDone
  <2>2. CASE workers # {}
    <3>1. Launched' = Launched /\ Publishers' = Publishers /\ PendingHosts' = PendingHosts
      BY <1>14, <2>2 DEF LaunchDone, Launched, Publishers, HasPublished, PendingHosts, queueVars
    <3> QED BY <1>14, <2>2, <3>1 DEF LaunchDone, WorkersUnjoined, PendingFromWorkers,
          CountsAgree, taskVars, queueVars
  <2> QED BY <2>1, <2>2
<1>15. ASSUME Command PROVE RoundInv'
  <2>1. pc = "input" /\ pc' \in {"drain", "joinForStream", "joinForExit"}
        /\ UNCHANGED <<taskVars, queueVars, thread>>
    BY <1>15 DEF Command, NoCommand, LeaveHosts, ReturnToHosts, EditHosts, StopShell
  <2>2. Launched' = Launched /\ Publishers' = Publishers /\ PendingHosts' = PendingHosts
    BY <2>1 DEF Launched, Publishers, HasPublished, PendingHosts, queueVars
  <2> QED BY <2>1, <2>2 DEF WorkersUnjoined, PendingFromWorkers, CountsAgree, taskVars, queueVars
<1>16. ASSUME Finalize PROVE RoundInv'
  <2>1. CASE ResumeAfterStream
    BY <2>1, ResetRestoresInv DEF ResumeAfterStream
  <2>2. CASE Exit
    <3>1. Launched' = Launched /\ Publishers' = Publishers /\ PendingHosts' = PendingHosts
      BY <2>2 DEF Exit, Launched, Publishers, HasPublished, PendingHosts, queueVars
    <3> QED BY <2>2, <3>1 DEF Exit, WorkersUnjoined, PendingFromWorkers, CountsAgree,
          taskVars, queueVars
  <2> QED BY <1>16, <2>1, <2>2 DEF Finalize
<1> QED
  BY <1>0, <1>1, <1>2, <1>4, <1>5, <1>6, <1>7, <1>8, <1>9, <1>10, <1>11, <1>12,
     <1>13, <1>14, <1>15, <1>16
  DEF Next, Loop, Worker, Exited, FinishTask, StartTask

\* The bookkeeping of threads, queue and counters agrees in every reachable
\* state, for any finite number of saved hosts.
THEOREM RoundCorrect == Spec => []RoundInv
  BY TypeInit, TypeStep, InvInit, InvStep, PTL DEF Spec

-----------------------------------------------------------------------------

\* Without workers, and outside the reap, every launched worker was joined and
\* its answer was taken.
LEMMA NothingLeft ==
  ASSUME TypeOK, RoundInv, workers = {}, pc \notin {"reap", "drainAgain"}
  PROVE  Publishers = Launched /\ PendingHosts = {} /\ pending = <<>>
<1>1. Publishers = Launched
  BY DEF RoundInv, WorkersUnjoined, Publishers, HasPublished, Launched, TypeOK, Stage
<1>2. \A h \in Publishers : thread[h] = "joined"
  BY DEF RoundInv, WorkersUnjoined, Publishers, HasPublished
<1>3. PendingHosts = {}
  BY <1>2 DEF RoundInv, PendingFromWorkers
<1> QED BY <1>1, <1>3, PendingNonempty

\* A round is declared over only when every launched worker's answer has been
\* taken, and their number is the number announced.
THEOREM EveryAnswerIsTaken == Spec => []EveryAnswerTaken
<1>1. TypeOK /\ RoundInv => EveryAnswerTaken
  <2> SUFFICES ASSUME TypeOK, RoundInv, pc = "check", RoundOver
               PROVE  pending = <<>> /\ reported = Cardinality(Launched) /\ reported = target
    BY DEF EveryAnswerTaken
  <2>1. toLaunch = {} /\ workers = {}
    BY DEF RoundInv, WorkersUnjoined, RoundOver
  <2>2. Publishers = Launched /\ pending = <<>>
    BY <2>1, NothingLeft
  <2>3. Len(pending) = 0
    BY <2>2, NoPending
  <2>4. reported = published
    BY <2>3 DEF RoundInv, CountsAgree, TypeOK
  <2>5. toLaunch \cup Launched = Launched
    BY <2>1
  <2> QED BY <2>2, <2>4, <2>5 DEF RoundInv, CountsAgree
<1> QED BY <1>1, TypeCorrect, RoundCorrect, PTL

\* Between commands a task without workers has an idle queue.
THEOREM IdleQueue == Spec => []IdleWithoutWorkers
<1>1. RoundInv => IdleWithoutWorkers
  BY DEF RoundInv, IdleWithoutWorkers
<1> QED BY <1>1, RoundCorrect, PTL

\* The task's state is never reset under a worker that can still write to it.
THEOREM ResetsAreSafe == Spec => NoResetUnderWorkers
<1> DEFINE Safe == (\E h \in Host : thread[h] # "none" /\ thread'[h] = "none")
                     => \A h \in Host : thread[h] \notin {"probing", "silent", "published"}
<1>1. ASSUME TypeOK, RoundInv, [Next]_vars PROVE Safe
  <2>1. CASE workers = {} \/ AllWorkersEnded
    <3>1. \A h \in Host : thread[h] \notin {"probing", "silent", "published"}
      BY <1>1, <2>1 DEF RoundInv, WorkersUnjoined, AllWorkersEnded
    <3> QED BY <3>1
  <2>2. CASE workers # {} /\ ~ AllWorkersEnded
    <3>1. thread' = thread \/ \E h \in Host, s \in Stage \ {"none"} : thread' = [thread EXCEPT ![h] = s]
      <4>1. CASE UNCHANGED vars
        BY <4>1 DEF vars
      <4>2. ASSUME NEW h \in Host, FallSilent(h) \/ Publish(h) \/ Complete(h) \/ Reap(h) \/ Launch(h) \/ LaunchFails(h)
            PROVE thread' = thread \/ \E s \in Stage \ {"none"} : thread' = [thread EXCEPT ![h] = s]
        BY <4>2 DEF FallSilent, Publish, Complete, Reap, Launch, LaunchFails, Stage
      <4>3. CASE Drain \/ ReapDone \/ DrainAgain \/ StillRunning \/ StartNothing
        BY <4>3 DEF Drain, ReapDone, DrainAgain, ApplyPublished, StillRunning, StartNothing
      <4>4. CASE FinishRound \/ BeginRound \/ LaunchDone
        BY <4>4, <2>2 DEF FinishRound, RoundOver, BeginRound, LaunchDone
      <4>5. CASE Command
        BY <4>5 DEF Command, NoCommand, LeaveHosts, ReturnToHosts, EditHosts, StopShell
      <4>6. CASE Finalize
        BY <4>6, <2>2 DEF Finalize, ResumeAfterStream, Exit
      <4> QED BY <1>1, <4>1, <4>2, <4>3, <4>4, <4>5, <4>6
              DEF Next, Loop, Worker, Exited, FinishTask, StartTask
    <3> QED BY <1>1, <3>1 DEF TypeOK
  <2> QED BY <2>1, <2>2
<1>2. TypeOK /\ RoundInv /\ [Next]_vars => [Safe]_vars
  BY <1>1
<1> QED BY <1>2, TypeCorrect, RoundCorrect, PTL DEF Spec, NoResetUnderWorkers

-----------------------------------------------------------------------------

\* The refresh implements the abstract round: every announced target is
\* answered before the round is finished, or the shell was leaving.
LEMMA AnsweredAreTargets ==
  ASSUME TypeOK, RoundInv
  PROVE  Publishers \subseteq Launched /\ Launched \subseteq Host /\ toLaunch \subseteq Host
  BY DEF Publishers, HasPublished, Launched, TypeOK

\* The initial states map to the initial state of a round.
LEMMA RoundInit == Init => Round!Init
<1> SUFFICES ASSUME Init PROVE Round!Init
  OBVIOUS
<1>1. Launched = {} /\ Publishers = {} /\ toLaunch = {}
  BY DEF Init, Launched, Publishers, HasPublished
<1> QED BY <1>1 DEF Init, Round!Init

\* Every step maps to a step of a round or changes nothing of it.
LEMMA RoundStep == TypeOK /\ RoundInv /\ [Next]_vars => [Round!Next]_(Round!vars)
<1> SUFFICES ASSUME TypeOK, RoundInv, [Next]_vars PROVE [Round!Next]_(Round!vars)
  OBVIOUS
<1> USE DEF Round!vars
<1> DEFINE Leaving == {"joinForStream", "joinForExit", "done"}
<1>k. ASSUME pc' \in Leaving <=> pc \in Leaving,
             thread' = thread, pending' = pending, toLaunch' = toLaunch
      PROVE  UNCHANGED Round!vars
  <2>1. Launched' = Launched /\ Publishers' = Publishers /\ PendingHosts' = PendingHosts
    BY <1>k DEF Launched, Publishers, HasPublished, PendingHosts
  <2>2. (pc \in Leaving)' = (pc \in Leaving)
    BY <1>k
  <2> QED BY <1>k, <2>1, <2>2
<1>r. ASSUME ResetTask PROVE Launched' = {} /\ Publishers' = {} /\ toLaunch' = {}
  BY <1>r DEF ResetTask, Launched, Publishers, HasPublished
<1>0. CASE UNCHANGED vars
  BY <1>0, <1>k DEF vars, taskVars, queueVars
<1>1. ASSUME NEW h \in Host, Publish(h) PROVE UNCHANGED Round!vars
  <2>1. h \notin Publishers /\ PendingHosts \subseteq Publishers
    BY <1>1 DEF Publish, Publishers, HasPublished, RoundInv, PendingFromWorkers
  <2>2. Launched' = Launched /\ Publishers' = Publishers \cup {h}
    BY <1>1 DEF Publish, Launched, Publishers, HasPublished, TypeOK
  <2>3. PendingHosts' = PendingHosts \cup {h}
    BY <1>1, PublishAppends
  <2> QED BY <1>1, <2>1, <2>2, <2>3 DEF Publish, taskVars
<1>2. ASSUME NEW h \in Host, FallSilent(h) \/ Complete(h) \/ Reap(h) \/ Launch(h)
      PROVE UNCHANGED Round!vars
  <2>1. Publishers' = Publishers /\ PendingHosts' = PendingHosts /\ pc' = pc
    BY <1>2 DEF FallSilent, Complete, Reap, Launch, Publishers, HasPublished, PendingHosts, TypeOK,
       queueVars, RoundInv, WorkersUnjoined, Launched
  <2>2. (toLaunch \cup Launched)' = toLaunch \cup Launched
    BY <1>2 DEF FallSilent, Complete, Reap, Launch, Launched, TypeOK, taskVars
  <2> QED BY <2>1, <2>2
<1>3. ASSUME Drain \/ DrainAgain PROVE Round!Answer
  <2>1. ApplyPublished /\ pending' = <<>> /\ pc \notin Leaving /\ pc' \notin Leaving
    BY <1>3 DEF Drain, DrainAgain, ApplyPublished
  <2>2. Launched' = Launched /\ Publishers' = Publishers /\ toLaunch' = toLaunch
    BY <2>1 DEF ApplyPublished, Launched, Publishers, HasPublished
  <2>3. PendingHosts' = {}
    <3>1. DOMAIN pending' = {}
      BY <2>1, EmptySeq
    <3> QED BY <3>1 DEF PendingHosts
  <2>4. (pc \in Leaving)' = (pc \in Leaving)
    BY <2>1
  <2>5. Publishers \subseteq Launched
    BY AnsweredAreTargets
  <2> QED BY <2>2, <2>3, <2>4, <2>5 DEF Round!Answer
<1>4. ASSUME ReapDone \/ StillRunning \/ StartNothing PROVE UNCHANGED Round!vars
  BY <1>4, <1>k DEF ReapDone, StillRunning, StartNothing, taskVars, queueVars
<1>5. ASSUME FinishRound PROVE Round!Finish
  <2>1. Publishers = Launched /\ PendingHosts = {} /\ toLaunch = {}
    BY <1>5, NothingLeft DEF FinishRound, RoundOver, RoundInv, WorkersUnjoined
  <2>2. Launched' = {} /\ Publishers' = {} /\ toLaunch' = {}
    BY <1>5, <1>r DEF FinishRound
  <2> QED BY <1>5, <2>1, <2>2 DEF FinishRound, Round!Finish
<1>6. ASSUME BeginRound PROVE Round!Begin
  <2>1. Launched = {}
    <3>1. QueueIsEmpty /\ toLaunch = {}
      BY <1>6 DEF BeginRound, RoundInv, WorkersUnjoined
    <3>2. Cardinality(Launched) = 0
      BY <3>1 DEF QueueIsEmpty, RoundInv, CountsAgree
    <3> QED BY <3>2, AnsweredAreTargets, HostSubsetsFinite, FS_EmptySet
  <2>2. toLaunch = {} /\ Launched' = {} /\ Publishers' = {} /\ toLaunch' = saved
    BY <1>6 DEF BeginRound, RoundInv, WorkersUnjoined, Launched, Publishers, HasPublished
  <2> QED BY <1>6, <2>1, <2>2 DEF BeginRound, Round!Begin, TypeOK
<1>7. ASSUME NEW h \in Host, LaunchFails(h) PROVE Round!Skip
  <2>1. /\ Launched' = Launched /\ Publishers' = Publishers /\ PendingHosts' = PendingHosts
        /\ pc' = pc /\ toLaunch' = toLaunch \ {h}
    BY <1>7 DEF LaunchFails, Launched, Publishers, HasPublished, PendingHosts
  <2>2. h \in toLaunch /\ h \notin Launched /\ h \notin Publishers
    BY <1>7, AnsweredAreTargets DEF LaunchFails, RoundInv, WorkersUnjoined
  <2>3. (toLaunch \cup Launched)' = (toLaunch \cup Launched) \ {h}
    BY <2>1, <2>2
  <2> QED BY <2>1, <2>2, <2>3 DEF Round!Skip
<1>8. ASSUME LaunchDone PROVE Round!Finish \/ UNCHANGED Round!vars
  <2>1. CASE workers = {}
    <3>1. Publishers = Launched /\ PendingHosts = {} /\ toLaunch = {}
      BY <1>8, <2>1, NothingLeft DEF LaunchDone
    <3>2. Launched' = {} /\ Publishers' = {} /\ toLaunch' = {}
      BY <1>8, <2>1, <1>r DEF LaunchDone
    <3> QED BY <1>8, <3>1, <3>2 DEF LaunchDone, Round!Finish
  <2>2. CASE workers # {}
    BY <1>8, <2>2, <1>k DEF LaunchDone, taskVars, queueVars
  <2> QED BY <2>1, <2>2
<1>9. ASSUME Command PROVE Round!Stop \/ UNCHANGED Round!vars
  <2>1. /\ pc = "input" /\ pc' \in {"drain", "joinForStream", "joinForExit"}
        /\ UNCHANGED <<toLaunch, pending, thread>>
    BY <1>9 DEF Command, NoCommand, LeaveHosts, ReturnToHosts, EditHosts, StopShell,
       taskVars, queueVars
  <2>2. Launched' = Launched /\ Publishers' = Publishers /\ PendingHosts' = PendingHosts
    BY <2>1 DEF Launched, Publishers, HasPublished, PendingHosts
  <2> QED BY <2>1, <2>2 DEF Round!Stop
<1>10. ASSUME Finalize PROVE Round!Abandon \/ UNCHANGED Round!vars
  <2>1. CASE ResumeAfterStream
    <3>1. Launched' = {} /\ Publishers' = {} /\ toLaunch' = {}
      BY <2>1, <1>r DEF ResumeAfterStream
    <3> QED BY <2>1, <3>1 DEF ResumeAfterStream, Round!Abandon
  <2>2. CASE Exit
    <3>1. Launched' = Launched /\ Publishers' = Publishers /\ PendingHosts' = PendingHosts
          /\ toLaunch' = toLaunch
      BY <2>2 DEF Exit, Launched, Publishers, HasPublished, PendingHosts, taskVars, queueVars
    <3> QED BY <2>2, <3>1 DEF Exit
  <2> QED BY <1>10, <2>1, <2>2 DEF Finalize
<1>11. CASE Exited
  BY <1>11, <1>k DEF Exited, vars, taskVars, queueVars
<1> QED
  BY <1>0, <1>1, <1>2, <1>3, <1>4, <1>5, <1>6, <1>7, <1>8, <1>9, <1>10, <1>11
  DEF Next, Loop, Worker, FinishTask, StartTask, Round!Next

\* Every behaviour of the worker threads, the queue and the shell loop is a
\* behaviour of the abstract round.
THEOREM ImplementsRound == Spec => RoundSpec
<1>1. Init => Round!Init
  BY RoundInit
<1>2. TypeOK /\ RoundInv /\ [Next]_vars => [Round!Next]_(Round!vars)
  BY RoundStep
<1> QED BY <1>1, <1>2, TypeCorrect, RoundCorrect, PTL DEF Spec, RoundSpec, Round!Spec
-----------------------------------------------------------------------------
(* The client: the inductive invariant.                                    *)

\* Each operation waits for the answer to a request of its own.
Asked ==
    /\ op = "idle" <=> net = "none"
    /\ op # "idle" => result.of = "none"
    /\ step = "authorized" => call.tls
    /\ step \in Phase => op = "pair" /\ call.path = step
    /\ step = "confirm" => call.tls /\ call.expected = plain
    /\ op = "pair" => step \in Phase \cup {"serverinfo"}

\* What the histories tell of a status.
Backed(status) ==
    /\ status.current => vouched # NoCert
    /\ status.known /\ ~ status.current => refused

\* What the host has said is in the histories.
Heard ==
    /\ Backed(info)
    /\ answer.kind = "refused" => refused
    /\ call.tls /\ answer.kind = "given" => vouched \in Cert
    /\ call.path = "secret" /\ answer.flag => granted
    /\ call.path = "servercert" /\ answer.flag => answer.cert \in Cert

\* How far a pairing is tells what the host has accepted.
Proven ==
    /\ step \in Phase \ {"servercert"} => plain \in Cert
    /\ step = "confirm" => granted
    /\ step = "confirm" /\ net = "send" => cert = plain
    /\ step = "confirm" /\ answer.kind = "given" => vouched = plain

\* The inductive invariant of the client.
ClientInv == ClientTypeOK /\ Asked /\ Heard /\ Proven /\ PairedIsGranted /\ StatusIsAnswered

-----------------------------------------------------------------------------
(* The client: what requests and answers are.                              *)

\* The phases of a pairing and their order.
LEMMA FivePhases ==
    /\ Phase = {"servercert", "challenge", "response", "secret", "confirm"}
    /\ Follows("servercert") = "challenge" /\ Follows("challenge") = "response"
    /\ Follows("response") = "secret" /\ Follows("secret") = "confirm"
<1>1. DOMAIN Phases = 1 .. 5 BY DEF Phases
<1>2. /\ Phases[1] = "servercert" /\ Phases[2] = "challenge" /\ Phases[3] = "response"
      /\ Phases[4] = "secret" /\ Phases[5] = "confirm"
  BY DEF Phases
<1>3. Phase = {"servercert", "challenge", "response", "secret", "confirm"}
  BY <1>1, <1>2 DEF Phase
<1>4. \A i \in 1 .. 4 : i = 1 \/ i = 2 \/ i = 3 \/ i = 4 OBVIOUS
<1>5. ASSUME NEW i \in 1 .. 4 PROVE Follows(Phases[i]) = Phases[i + 1]
  <2>1. \A p \in Phase : (\E j \in 1 .. 4 : Phases[j] = Phases[i] /\ Phases[j + 1] = p)
                            <=> p = Phases[i + 1]
    BY <1>2, <1>3
  <2>2. Phases[i + 1] \in Phase BY <1>1 DEF Phase
  <2> QED BY <2>1, <2>2 DEF Follows
<1>6. /\ Follows(Phases[1]) = Phases[1 + 1] /\ Follows(Phases[2]) = Phases[2 + 1]
      /\ Follows(Phases[3]) = Phases[3 + 1] /\ Follows(Phases[4]) = Phases[4 + 1]
  BY <1>5
<1> QED BY <1>2, <1>3, <1>6

\* An answer of the host is an answer, and is as the histories need it.
LEMMA HandlesFacts ==
    ASSUME HostTypeOK, NEW path \in Path, NEW tls \in BOOLEAN, NEW shown \in BOOLEAN,
           NEW a \in App \cup {NoApp}, NEW reply \in Answer,
           Handles(path, tls, shown, a, reply)
    PROVE  /\ HostTypeOK'
           /\ cert' = cert
           /\ path = "servercert" /\ reply.flag => reply.cert \in Cert
<1> USE FivePhases DEF HostTypeOK, hostVars, Given, Silence, Refused, Answer
<1>1. cert' = cert BY DEF Handles
<1>2. trusted' \in BOOLEAN /\ pinRight' \in BOOLEAN
  BY DEF Handles
<1>3. pairing' \in Phase \cup {"none"}
  BY DEF Handles
<1>5. running' \in App \cup {NoApp}
  BY DEF Handles
<1>4. ASSUME path = "servercert", reply.flag PROVE reply.cert \in Cert
  <2>1. \/ reply = Silence \/ reply = Refused \/ reply = Given(FALSE)
        \/ reply = [Given(TRUE) EXCEPT !.cert = cert]
    BY <1>4 DEF Handles
  <2>2. /\ ~ Silence.flag /\ ~ Refused.flag /\ ~ Given(FALSE).flag
        /\ [Given(TRUE) EXCEPT !.cert = cert].cert = cert
    OBVIOUS
  <2> QED BY <1>4, <2>1, <2>2
<1> QED BY <1>1, <1>2, <1>3, <1>4, <1>5

\* A step of the request or of the network answers that request only, and a
\* request is sent only to the host whose certificate it expects.
LEMMA RequestType ==
    ASSUME HostTypeOK, RequestTypeOK, Request \/ Network
    PROVE  /\ HostTypeOK' /\ cert' = cert /\ call' = call
           /\ net' \in {"connect", "handshake", "verify", "send", "receive", "done"}
           /\ got' \in {"nothing", "head", "all"} /\ outcome' \in {"failed", "whole", "cut"}
           /\ net # "none" /\ answer' \in Answer
           /\ answer' = answer \/
                /\ net = "send" /\ net' = "receive"
                /\ call.path = "servercert" /\ answer'.flag => answer'.cert \in Cert
           /\ net' = "send" => net = "verify" \/ (net = "connect" /\ ~ call.tls)
           /\ net = "verify" /\ net' = "send" => call.expected \in {NoCert, cert}
<1> USE DEF RequestTypeOK, Goes, Returns
<1>1. CASE Open BY <1>1 DEF Open, hostVars, HostTypeOK
<1>2. CASE Connect BY <1>2 DEF Connect, hostVars, HostTypeOK
<1>3. CASE Handshake BY <1>3 DEF Handshake, hostVars, HostTypeOK
<1>4. CASE Verify BY <1>4 DEF Verify, hostVars, HostTypeOK
<1>5. CASE Send
  <2>1. CASE Returns("failed") /\ UNCHANGED hostVars BY <1>5, <2>1
    DEF Send, hostVars, HostTypeOK
  <2>2. CASE ~ (Returns("failed") /\ UNCHANGED hostVars)
    <3>1. PICK reply \in Answer :
            /\ Handles(call.path, call.tls, call.shown, call.app, reply)
            /\ answer' = reply /\ net' = "receive" /\ UNCHANGED <<call, got, outcome>>
      BY <1>5, <2>2 DEF Send
    <3>2. /\ call.path \in Path /\ call.tls \in BOOLEAN /\ call.shown \in BOOLEAN
          /\ call.app \in App \cup {NoApp}
      BY DEF Call
    <3>3. HostTypeOK' /\ cert' = cert /\ (call.path = "servercert" /\ reply.flag => reply.cert \in Cert)
      BY <3>1, <3>2, HandlesFacts
    <3> QED BY <1>5, <3>1, <3>3 DEF Send
  <2> QED BY <2>1, <2>2
<1>6. CASE Receive BY <1>6 DEF Receive, hostVars, HostTypeOK
<1>7. CASE Close BY <1>7 DEF Close, hostVars, HostTypeOK
<1>8. CASE GivesUp BY <1>8 DEF GivesUp, hostVars, HostTypeOK
<1> QED BY <1>1, <1>2, <1>3, <1>4, <1>5, <1>6, <1>7, <1>8 DEF Request, Network

\* A request goes on and the histories record what the host said.
LEMMA AskingKeeps ==
    ASSUME ClientInv, Asking(Request) \/ Asking(Network)
    PROVE  ClientInv'
<1> DEFINE said == net = "send" /\ net' = "receive"
<1>1. /\ Request \/ Network
      /\ granted' = (granted \/ (said /\ call.path = "secret" /\ answer'.flag))
      /\ vouched' = IF said /\ call.tls /\ answer'.kind = "given" THEN cert ELSE vouched
      /\ refused' = (refused \/ (said /\ answer'.kind = "refused"))
      /\ UNCHANGED <<cancelled, clientVars>>
  BY DEF Asking
<1>2. HostTypeOK /\ RequestTypeOK BY DEF ClientInv, ClientTypeOK
<1>3. /\ HostTypeOK' /\ cert' = cert /\ call' = call
      /\ net' \in {"connect", "handshake", "verify", "send", "receive", "done"}
      /\ got' \in {"nothing", "head", "all"} /\ outcome' \in {"failed", "whole", "cut"}
      /\ net # "none" /\ answer' \in Answer
      /\ answer' = answer \/
           /\ net = "send" /\ net' = "receive"
           /\ call.path = "servercert" /\ answer'.flag => answer'.cert \in Cert
      /\ net' = "send" => net = "verify" \/ (net = "connect" /\ ~ call.tls)
      /\ net = "verify" /\ net' = "send" => call.expected \in {NoCert, cert}
  BY <1>1, <1>2, RequestType
<1>4. op' = op /\ step' = step /\ app' = app /\ identity' = identity /\ left' = left
      /\ info' = info /\ plain' = plain /\ result' = result /\ cancelled' = cancelled
  BY <1>1 DEF clientVars
<1> HIDE DEF said
<1>5. answer' = answer \/ said BY <1>3 DEF said
<1>6. ClientTypeOK'
  <2>1. RequestTypeOK' BY <1>2, <1>3, <1>4 DEF RequestTypeOK
  <2>2. granted' \in BOOLEAN /\ refused' \in BOOLEAN /\ vouched' \in Cert \cup {NoCert}
    BY <1>1, <1>2 DEF ClientInv, ClientTypeOK, HostTypeOK
  <2> QED BY <1>3, <1>4, <2>1, <2>2 DEF ClientInv, ClientTypeOK
<1>7. Asked'
  <2>1. op # "idle" BY <1>3 DEF ClientInv, Asked
  <2> QED BY <1>3, <1>4, <2>1 DEF ClientInv, Asked
<1>8. Heard'
  BY <1>1, <1>2, <1>3, <1>4, <1>5, HostAssumption DEF ClientInv, Heard, Backed, HostTypeOK, said
<1>9. Proven'
  <2>1. step = "confirm" /\ net' = "send" => cert' = plain'
    BY <1>3, <1>4, FivePhases, HostAssumption DEF ClientInv, Asked, Proven
  <2>2. step = "confirm" /\ answer'.kind = "given" => vouched' = plain'
    BY <1>1, <1>3, <1>4, <1>5 DEF ClientInv, Asked, Proven, said
  <2> QED BY <1>1, <1>4, <2>1, <2>2 DEF ClientInv, Proven
<1>10. PairedIsGranted' /\ StatusIsAnswered'
  <2>1. result.of = "none" BY <1>3 DEF ClientInv, Asked
  <2> QED BY <1>1, <1>2, <1>4, <2>1, HostAssumption DEF ClientInv, PairedIsGranted, StatusIsAnswered,
       HostTypeOK
<1> QED BY <1>6, <1>7, <1>8, <1>9, <1>10 DEF ClientInv

\* A new request changes nothing of what was heard.
LEMMA AsksKeeps ==
    ASSUME ClientInv, NEW s \in Step, NEW request \in Call, AsksFor(s, request),
           op # "idle",
           UNCHANGED <<hostVars, cancelled, historyVars>>,
           left' \in Nat, info' \in Info, plain' \in Cert \cup {NoCert},
           Backed(info'),
           s = "authorized" => request.tls,
           s \in Phase => op = "pair" /\ request.path = s,
           op = "pair" => s \in Phase \cup {"serverinfo"},
           s = "confirm" => request.tls /\ request.expected = plain' /\ granted,
           s \in Phase \ {"servercert"} => plain' \in Cert
    PROVE  ClientInv'
<1>1. /\ step' = s /\ net' = "open" /\ call' = request /\ answer' = Silence
      /\ got' = "nothing" /\ outcome' = "failed"
      /\ op' = op /\ app' = app /\ identity' = identity /\ result' = result
      /\ cancelled' = cancelled /\ granted' = granted /\ vouched' = vouched /\ refused' = refused
  BY DEF AsksFor, Asks, historyVars
<1>2. HostTypeOK' BY DEF ClientInv, ClientTypeOK, HostTypeOK, hostVars
<1>3. answer' \in Answer /\ answer'.kind = "useless" /\ ~ answer'.flag
  BY <1>1 DEF Silence, Answer
<1>4. RequestTypeOK' BY <1>1, <1>3 DEF ClientInv, ClientTypeOK, RequestTypeOK
<1>5. ClientTypeOK' BY <1>1, <1>2, <1>4 DEF ClientInv, ClientTypeOK
<1>6. Asked' BY <1>1 DEF ClientInv, Asked
<1>7. Heard' BY <1>1, <1>3 DEF Heard, Backed
<1>8. Proven' BY <1>1, <1>3 DEF Proven
<1>9. PairedIsGranted' /\ StatusIsAnswered'
  <2>1. result.of = "none" BY DEF ClientInv, Asked
  <2> QED BY <1>1, <2>1 DEF ClientInv, PairedIsGranted, StatusIsAnswered, Backed
<1> QED BY <1>5, <1>6, <1>7, <1>8, <1>9 DEF ClientInv

\* An operation that ends keeps what was heard.
LEMMA EndsKeeps ==
    ASSUME ClientInv, NEW returned \in Outcome, Ends(returned),
           UNCHANGED <<hostVars, cancelled, historyVars>>,
           left' \in Nat, info' \in Info, plain' \in Cert \cup {NoCert},
           Backed(info'),
           returned.of = "pair" /\ returned.says = "ok" /\ ~ returned.already =>
               granted /\ vouched = plain',
           returned.of = "apps" /\ returned.says = "unpaired" => refused
    PROVE  ClientInv'
<1>1. /\ step' = "none" /\ net' = "none" /\ call' = call /\ answer' = answer
      /\ got' = got /\ outcome' = outcome
      /\ op' = "idle" /\ app' = app /\ identity' = identity /\ result' = returned
      /\ cancelled' = cancelled /\ granted' = granted /\ vouched' = vouched /\ refused' = refused
  BY DEF Ends, historyVars
<1>2. HostTypeOK' BY DEF ClientInv, ClientTypeOK, HostTypeOK, hostVars
<1>4. RequestTypeOK' BY <1>1 DEF ClientInv, ClientTypeOK, RequestTypeOK
<1>5. ClientTypeOK' BY <1>1, <1>2, <1>4 DEF ClientInv, ClientTypeOK, Step
<1>6. Asked' BY <1>1, FivePhases DEF ClientInv, Asked
<1>7. Heard' BY <1>1 DEF ClientInv, Heard, Backed
<1>8. Proven' BY <1>1, FivePhases DEF Proven
<1>9. PairedIsGranted' /\ StatusIsAnswered'
  BY <1>1 DEF PairedIsGranted, StatusIsAnswered, Backed
<1> QED BY <1>5, <1>6, <1>7, <1>8, <1>9 DEF ClientInv

\* A new operation starts with fresh histories.
LEMMA BeginKeeps ==
    ASSUME ClientInv, NEW o \in Operation, Begin(o)
    PROVE  ClientInv'
<1> DEFINE request == [path |-> step', tls |-> o = "asset", shown |-> o = "asset" /\ identity',
                       flagged |-> o = "pair", app |-> NoApp, expected |-> NoCert]
<1>1. /\ op' = o /\ app' \in App \cup {NoApp} /\ identity' \in BOOLEAN /\ cancelled' = FALSE
      /\ step' \in {"asset", "serverinfo"} /\ (step' = "asset" => o = "asset")
      /\ left' \in Nat /\ net' = "open" /\ call' = request /\ answer' = Silence
      /\ got' = "nothing" /\ outcome' = "failed"
      /\ info' = Unknown /\ plain' = NoCert
      /\ result' = [of |-> "none", already |-> FALSE, apps |-> {}, says |-> "none"]
      /\ granted' = FALSE /\ vouched' = NoCert /\ refused' = FALSE
  BY TriesAssumption DEF Begin, Asks
<1>2. request \in Call
  <2>1. (o = "asset") \in BOOLEAN /\ (o = "asset" /\ identity') \in BOOLEAN /\ (o = "pair") \in BOOLEAN
    OBVIOUS
  <2>2. step' \in Path BY <1>1, FivePhases DEF Path
  <2> QED BY <2>1, <2>2 DEF Call
<1>3. HostTypeOK' BY DEF Begin, hostVars, ClientInv, ClientTypeOK, HostTypeOK
<1> HIDE DEF request
<1>4. answer' \in Answer /\ answer'.kind = "useless" /\ ~ answer'.flag
  BY <1>1 DEF Silence, Answer
<1>5. ClientTypeOK'
  <2>1. RequestTypeOK' BY <1>1, <1>2, <1>4 DEF RequestTypeOK
  <2>2. info' \in Info /\ result' \in Outcome /\ step' \in Step
    BY <1>1, FivePhases DEF Unknown, Info, Outcome, Step, Path
  <2> QED BY <1>1, <1>3, <2>1, <2>2 DEF ClientTypeOK
<1>6. Asked' /\ Heard' /\ Proven'
  BY <1>1, <1>4, FivePhases DEF Asked, Heard, Proven, Operation, Backed, Unknown
<1>7. PairedIsGranted' /\ StatusIsAnswered'
  BY <1>1 DEF PairedIsGranted, StatusIsAnswered, Unknown
<1> QED BY <1>5, <1>6, <1>7 DEF ClientInv

\* What the client asks for is a request.
LEMMA RequestsAreCalls ==
    ASSUME ClientTypeOK
    PROVE  /\ \A path \in Path : Plain(path) \in Call /\ Plain(path).path = path
           /\ \A path \in Path, c \in Cert \cup {NoCert} :
                /\ Secure(path, c) \in Call /\ Secure(path, c).path = path
                /\ Secure(path, c).tls /\ Secure(path, c).expected = c
<1>1. (op = "pair") \in BOOLEAN OBVIOUS
<1> QED BY <1>1 DEF ClientTypeOK, Plain, Secure, Call

\* What an operation returns is a result of that operation.
LEMMA SaysResult ==
    ASSUME op \in Operation, NEW w \in {"none", "ok", "failed", "cancelled", "unpaired"}
    PROVE  Says(w) \in Outcome /\ Says(w).of = op /\ Says(w).says = w /\ ~ Says(w).already
BY DEF Says, Outcome

\* What is done with a status.
LEMMA UsesKeeps ==
    ASSUME ClientInv, NEW status \in Info, Uses(status), op # "idle",
           UNCHANGED <<hostVars, cancelled, historyVars>>,
           left' \in Nat, info' \in Info, plain' = plain,
           Backed(info')
    PROVE  ClientInv'
<1>0. op \in Operation /\ plain' \in Cert \cup {NoCert} BY DEF ClientInv, ClientTypeOK
<1>1. CASE op = "info" /\ Ends(Says("ok"))
  BY <1>0, <1>1, SaysResult, EndsKeeps
<1>2. CASE op = "apps" /\ AsksFor("applist", Secure("applist", NoCert))
  <2>1. "applist" \in Path /\ "applist" \in Step /\ "applist" \notin Phase
    BY FivePhases DEF Path, Step
  <2>2. Secure("applist", NoCert) \in Call BY <2>1, RequestsAreCalls DEF ClientInv
  <2> QED BY <1>0, <1>2, <2>1, <2>2, FivePhases, AsksKeeps
<1>3. CASE op = "launch" /\ Ends(Says("unpaired"))
  BY <1>0, <1>3, SaysResult, EndsKeeps
<1>4. CASE op = "launch" /\ \E path \in {"resume", "launch"} : AsksFor(path, Secure(path, NoCert))
  <2>1. PICK path \in {"resume", "launch"} : AsksFor(path, Secure(path, NoCert)) BY <1>4
  <2>2. path \in Path /\ path \in Step /\ path \notin Phase
    BY FivePhases DEF Path, Step
  <2>3. Secure(path, NoCert) \in Call BY <2>2, RequestsAreCalls DEF ClientInv
  <2> QED BY <1>0, <1>4, <2>1, <2>2, <2>3, FivePhases, AsksKeeps
<1> QED BY <1>1, <1>2, <1>3, <1>4 DEF Uses

\* The step into a phase.
LEMMA EntersKeeps ==
    ASSUME ClientInv, NEW phase \in Phase, Enters(phase), op = "pair",
           UNCHANGED <<hostVars, cancelled, historyVars>>,
           left' \in Nat, info' \in Info, plain' \in Cert \cup {NoCert},
           Backed(info'),
           phase # "servercert" => plain' \in Cert,
           phase = "confirm" => granted
    PROVE  ClientInv'
<1>0. op \in Operation /\ phase \in Path /\ phase \in Step /\ phase # "authorized"
  BY FivePhases DEF ClientInv, ClientTypeOK, Operation, Path, Step
<1>1. CASE Ends(Says("failed"))
  BY <1>0, <1>1, SaysResult, EndsKeeps
<1>2. CASE AsksFor(phase, IF phase = "confirm" THEN Secure(phase, plain') ELSE Plain(phase))
  <2> DEFINE request == IF phase = "confirm" THEN Secure(phase, plain') ELSE Plain(phase)
  <2>1. /\ request \in Call /\ request.path = phase
        /\ phase = "confirm" => request.tls /\ request.expected = plain'
    BY <1>0, RequestsAreCalls DEF ClientInv
  <2>2. AsksFor(phase, request) BY <1>2
  <2> HIDE DEF request
  <2> QED BY <1>0, <2>1, <2>2, AsksKeeps
<1> QED BY <1>1, <1>2 DEF Enters

-----------------------------------------------------------------------------
(* The client: the operations.                                             *)

\* The answer to the plain request for the status.
LEMMA ServerInfoKeeps ==
    ASSUME ClientInv, ServerInfo
    PROVE  ClientInv'
<1>0. /\ step = "serverinfo" /\ net = "done" /\ op # "idle" /\ op \in Operation
      /\ UNCHANGED <<hostVars, cancelled, historyVars>>
      /\ left \in Nat /\ info \in Info /\ plain \in Cert \cup {NoCert} /\ answer \in Answer
      /\ "serverinfo" \in Path /\ "serverinfo" \in Step /\ "serverinfo" \notin Phase
      /\ "authorized" \in Step /\ "authorized" \notin Phase
  BY FivePhases DEF ServerInfo, Concluded, ClientInv, ClientTypeOK, RequestTypeOK, Asked,
     Path, Step
<1>1. CASE left > 1 /\ left' = left - 1 /\ AsksFor("serverinfo", Plain("serverinfo"))
           /\ UNCHANGED <<info, plain>>
  <2>1. Plain("serverinfo") \in Call BY <1>0, RequestsAreCalls DEF ClientInv
  <2> QED BY <1>0, <1>1, <2>1, FivePhases, AsksKeeps DEF ClientInv, Heard, Backed
<1>2. CASE Ends(Says("failed")) /\ UNCHANGED <<left, info, plain>>
  BY <1>0, <1>2, SaysResult, EndsKeeps DEF ClientInv, Heard, Backed
<1>3. CASE /\ Parsed
           /\ info' = [Unknown EXCEPT !.paired = answer.flag, !.game = answer.game]
           /\ IF op = "pair"
              THEN CASE cancelled -> Ends(Says("cancelled"))
                     [] ~ cancelled /\ info'.paired -> Ends([Says("ok") EXCEPT !.already = TRUE])
                     [] OTHER -> Enters("servercert")
              ELSE IF identity THEN AsksFor("authorized", Secure("serverinfo", NoCert))
              ELSE Uses(info')
           /\ UNCHANGED <<left, plain>>
  <2>1. info' \in Info /\ Backed(info') BY <1>0, <1>3 DEF Unknown, Info, Answer, Backed
  <2>2. CASE Ends(Says("cancelled")) BY <1>0, <1>3, <2>1, <2>2, SaysResult, EndsKeeps
  <2>3. CASE Ends([Says("ok") EXCEPT !.already = TRUE])
    <3> DEFINE returned == [Says("ok") EXCEPT !.already = TRUE]
    <3>1. returned \in Outcome /\ returned.already /\ returned.says = "ok"
      BY <1>0, SaysResult DEF Says, Outcome
    <3>2. Ends(returned) BY <2>3
    <3> HIDE DEF returned
    <3> QED BY <1>0, <1>3, <2>1, <3>1, <3>2, EndsKeeps
  <2>4. CASE op = "pair" /\ Enters("servercert")
    BY <1>0, <1>3, <2>1, <2>4, FivePhases, EntersKeeps
  <2>5. CASE op # "pair" /\ AsksFor("authorized", Secure("serverinfo", NoCert))
    <3>1. Secure("serverinfo", NoCert) \in Call /\ Secure("serverinfo", NoCert).tls
      BY <1>0, RequestsAreCalls DEF ClientInv
    <3> QED BY <1>0, <1>3, <2>1, <2>5, <3>1, FivePhases, AsksKeeps
  <2>6. CASE Uses(info') BY <1>0, <1>3, <2>1, <2>6, UsesKeeps
  <2> QED BY <1>3, <2>2, <2>3, <2>4, <2>5, <2>6
<1> QED BY <1>1, <1>2, <1>3 DEF ServerInfo

\* The answer to the request for the status under TLS: a current status is one
\* that a certified host gave, a known one that is not was refused.
LEMMA AuthorizedKeeps ==
    ASSUME ClientInv, Authorized
    PROVE  ClientInv'
<1>0. /\ step = "authorized" /\ net = "done" /\ op # "idle" /\ call.tls
      /\ UNCHANGED <<hostVars, cancelled, historyVars>> /\ left' = left /\ plain' = plain
      /\ left \in Nat /\ info \in Info /\ answer \in Answer /\ Uses(info')
  BY DEF Authorized, Concluded, ClientInv, ClientTypeOK, RequestTypeOK, Asked
<1>1. info' \in Info /\ Backed(info')
  <2>1. CASE Parsed /\ info' = [paired |-> answer.flag, game |-> answer.game, known |-> TRUE, current |-> TRUE]
    <3>1. vouched \in Cert BY <1>0, <2>1 DEF Parsed, ClientInv, Heard
    <3> QED BY <1>0, <2>1, <3>1, HostAssumption DEF Info, Answer, Backed
  <2>2. CASE Denied /\ info' = [info EXCEPT !.known = TRUE, !.paired = FALSE]
    <3>1. refused BY <2>2 DEF Denied, ClientInv, Heard
    <3>2. info'.current = info.current /\ info' \in Info BY <1>0, <2>2 DEF Info
    <3> QED BY <2>2, <3>1, <3>2 DEF ClientInv, Heard, Backed
  <2>3. CASE info' = info BY <1>0, <2>3 DEF ClientInv, Heard, Backed
  <2> QED BY <2>1, <2>2, <2>3 DEF Authorized
<1> QED BY <1>0, <1>1, UsesKeeps

\* The answer to a phase of the pairing.
LEMMA PairKeeps ==
    ASSUME ClientInv, NEW phase \in Phase, Pair(phase)
    PROVE  ClientInv'
<1>0. /\ op = "pair" /\ op \in Operation /\ step = phase /\ call.path = phase /\ net = "done"
      /\ UNCHANGED <<hostVars, cancelled, historyVars>> /\ left' = left /\ info' = info
      /\ left \in Nat /\ info \in Info /\ Backed(info) /\ answer \in Answer
      /\ plain \in Cert \cup {NoCert}
  BY DEF Pair, Concluded, ClientInv, ClientTypeOK, RequestTypeOK, Asked, Operation,
     Heard
<1>1. /\ plain' \in Cert \cup {NoCert}
      /\ phase # "servercert" => plain' = plain /\ plain \in Cert
      /\ Succeeds(phase) => plain' \in Cert
  BY <1>0 DEF Pair, ClientInv, ClientTypeOK, Proven, Heard, Succeeds
<1>2. CASE Ends(Says("failed")) BY <1>0, <1>1, <1>2, SaysResult, EndsKeeps DEF Backed
<1>3. CASE Ends(Says("cancelled")) BY <1>0, <1>1, <1>3, SaysResult, EndsKeeps DEF Backed
<1>4. CASE Succeeds(phase) /\ phase = "confirm" /\ Ends(Says("ok"))
  <2>1. granted /\ vouched = plain'
    BY <1>0, <1>1, <1>4 DEF ClientInv, Proven, Succeeds, Parsed
  <2> QED BY <1>0, <1>1, <1>4, <2>1, SaysResult, EndsKeeps DEF Backed
<1>5. CASE Succeeds(phase) /\ phase # "confirm" /\ Enters(Follows(phase))
  <2>1. Follows(phase) \in Phase /\ (Follows(phase) = "confirm" => phase = "secret")
    BY <1>5, FivePhases
  <2>2. phase = "secret" => granted BY <1>0, <1>5 DEF ClientInv, Heard, Succeeds
  <2> QED BY <1>0, <1>1, <1>5, <2>1, <2>2, EntersKeeps DEF Backed
<1> QED BY <1>2, <1>3, <1>4, <1>5 DEF Pair

\* These operations are no pairing.
LEMMA NotPair ==
    ASSUME ClientInv
    PROVE  AppList \/ Asset \/ LaunchApp \/ Authorized => op # "pair"
BY FivePhases DEF AppList, Asset, LaunchApp, Authorized, Concluded, ClientInv, Asked

\* The answers to the requests for apps, images and a launch.
LEMMA ListAndImageKeep ==
    ASSUME ClientInv, AppList \/ Asset \/ LaunchApp
    PROVE  ClientInv'
<1>0. /\ net = "done" /\ op # "idle" /\ op \in Operation /\ step \notin Phase
      /\ UNCHANGED <<hostVars, cancelled, historyVars>> /\ plain' = plain /\ info' = info
      /\ left' \in Nat /\ info' \in Info /\ Backed(info') /\ answer \in Answer
      /\ plain' \in Cert \cup {NoCert}
  BY FivePhases DEF AppList, Asset, LaunchApp, Concluded, ClientInv, ClientTypeOK,
     RequestTypeOK, Asked, Heard, Backed, Ends, AsksFor
<1>2. CASE AppList
  <2>1. CASE Ends(Says("failed")) BY <1>0, <2>1, SaysResult, EndsKeeps
  <2>2. CASE Denied /\ Ends(Says("unpaired"))
    <3>1. refused BY <2>2 DEF Denied, ClientInv, Heard
    <3> QED BY <1>0, <2>2, <3>1, SaysResult, EndsKeeps
  <2>3. CASE \E apps \in SUBSET App : Ends([Says("ok") EXCEPT !.apps = apps])
    <3>1. PICK apps \in SUBSET App : Ends([Says("ok") EXCEPT !.apps = apps]) BY <2>3
    <3> DEFINE returned == [Says("ok") EXCEPT !.apps = apps]
    <3>2. returned \in Outcome /\ returned.of # "pair" /\ returned.says = "ok"
      BY <1>0, SaysResult, NotPair, <1>2 DEF Says, Outcome
    <3>3. Ends(returned) BY <3>1
    <3> HIDE DEF returned
    <3> QED BY <1>0, <3>2, <3>3, EndsKeeps
  <2> QED BY <1>2, <2>1, <2>2, <2>3 DEF AppList
<1>3. CASE Asset
  <2>1. CASE Ends(Says("failed")) \/ Ends(Says("ok"))
    BY <1>0, <1>3, <2>1, NotPair, SaysResult, EndsKeeps
  <2>2. CASE AsksFor("asset", Secure("asset", NoCert))
    <3>1. "asset" \in Path /\ "asset" \in Step /\ "asset" \notin Phase
      BY FivePhases DEF Path, Step
    <3>2. Secure("asset", NoCert) \in Call BY <3>1, RequestsAreCalls DEF ClientInv
    <3> QED BY <1>0, <1>3, <2>2, <3>1, <3>2, NotPair, FivePhases, AsksKeeps
  <2> QED BY <1>3, <2>1, <2>2 DEF Asset
<1>4. CASE LaunchApp
  <2>1. CASE Ends(Says("failed")) \/ Ends(Says("ok"))
    BY <1>0, <1>4, <2>1, NotPair, SaysResult, EndsKeeps
  <2>2. CASE Denied /\ Ends(Says("unpaired"))
    <3>1. refused BY <2>2 DEF Denied, ClientInv, Heard
    <3> QED BY <1>0, <2>2, <3>1, SaysResult, EndsKeeps
  <2> QED BY <1>4, <2>1, <2>2 DEF LaunchApp
<1> QED BY <1>2, <1>3, <1>4

\* The caller cancels, or the host changes on its own.
LEMMA OthersKeep ==
    ASSUME ClientInv, Cancel \/ HostAlone \/ UNCHANGED hostClientVars
    PROVE  ClientInv'
<1>1. CASE Cancel
  BY <1>1 DEF Cancel, hostVars, requestVars, clientVars, historyVars,
     ClientInv, ClientTypeOK, HostTypeOK,
              RequestTypeOK, Asked, Heard, Backed, Proven, PairedIsGranted, StatusIsAnswered
<1>2. CASE HostAlone
  <2>1. HostTypeOK' BY <1>2 DEF HostAlone, HostChanges, ClientInv, ClientTypeOK,
    HostTypeOK
  <2>2. \/ UNCHANGED requestVars
        \/ Returns("failed") /\ Connected
    BY <1>2 DEF HostAlone
  <2>3. cert' # cert => net' # "send"
    BY <1>2 DEF HostAlone, Returns, Connected, requestVars
  <2>4. net' = net \/ (net' = "done" /\ net # "none")
    BY <2>2 DEF Returns, requestVars, Connected
  <2>5. call' = call /\ answer' = answer /\ RequestTypeOK'
    BY <1>2, <2>2 DEF Returns, requestVars, RequestTypeOK, ClientInv, ClientTypeOK,
       HostAlone
  <2>6. UNCHANGED <<cancelled, clientVars, historyVars>> BY <1>2 DEF HostAlone
  <2> QED BY <2>1, <2>3, <2>4, <2>5, <2>6
          DEF clientVars, historyVars, ClientInv, ClientTypeOK, Asked, Heard, Backed, Proven,
              PairedIsGranted, StatusIsAnswered
<1>3. CASE UNCHANGED hostClientVars
  BY <1>3 DEF hostClientVars, hostVars, requestVars, clientVars, historyVars,
     ClientInv, ClientTypeOK, HostTypeOK,
              RequestTypeOK, Asked, Heard, Backed, Proven, PairedIsGranted, StatusIsAnswered
<1> QED BY <1>1, <1>2, <1>3

-----------------------------------------------------------------------------
(* The client: the theorems.                                               *)

\* The invariant holds, for any certificates, apps, ports and paths.
THEOREM ClientInvHolds ==
    ClientSpec => []ClientInv
<1>1. ClientInit => ClientInv
  <2> SUFFICES ASSUME ClientInit PROVE ClientInv OBVIOUS
  <2>1. HostTypeOK BY DEF ClientInit, HostInit, HostTypeOK
  <2>2. RequestTypeOK
    BY FivePhases DEF ClientInit, RequestInit, RequestTypeOK, NoCall, Call,
       Path, Silence, Answer
  <2>3. ClientTypeOK BY <2>1, <2>2 DEF ClientInit, ClientTypeOK, Unknown, Info, Outcome,
    Step
  <2>4. Asked /\ Proven BY FivePhases DEF ClientInit, RequestInit, Asked, Proven
  <2>5. Heard BY DEF ClientInit, RequestInit, NoCall, Silence, Unknown, Heard, Backed
  <2>6. PairedIsGranted /\ StatusIsAnswered
    BY DEF ClientInit, Unknown, PairedIsGranted, StatusIsAnswered
  <2> QED BY <2>3, <2>4, <2>5, <2>6 DEF ClientInv
<1>2. ClientInv /\ [ClientNext]_hostClientVars => ClientInv'
  <2> SUFFICES ASSUME ClientInv, [ClientNext]_hostClientVars PROVE ClientInv' OBVIOUS
  <2>1. ASSUME NEW o \in Operation, Begin(o) PROVE ClientInv' BY <2>1, BeginKeeps
  <2>2. CASE Client
    BY <2>2, ServerInfoKeeps, AuthorizedKeeps, ListAndImageKeep, PairKeeps DEF Client
  <2>3. CASE Asking(Request) BY <2>3, AskingKeeps
  <2>4. CASE Asking(Network) BY <2>4, AskingKeeps
  <2>5. CASE Cancel \/ HostAlone \/ UNCHANGED hostClientVars BY <2>5, OthersKeep
  <2> QED BY <2>1, <2>2, <2>3, <2>4, <2>5 DEF ClientNext
<1> QED BY <1>1, <1>2, PTL DEF ClientSpec

\* Client, request and host keep their types.
THEOREM ClientTypeCorrect ==
    ClientSpec => []ClientTypeOK
BY ClientInvHolds, PTL DEF ClientInv

\* A pairing succeeds only after the host has accepted the pairing secret and
\* was heard under TLS with the certificate it sent in the first phase.
THEOREM PairingGranted ==
    ClientSpec => []PairedIsGranted
BY ClientInvHolds, PTL DEF ClientInv

\* Whether the client is authorized is known only from an answer under TLS or a
\* refusal, and apps come back as unpaired only after the host refused.
THEOREM StatusAnswered ==
    ClientSpec => []StatusIsAnswered
BY ClientInvHolds, PTL DEF ClientInv
=============================================================================

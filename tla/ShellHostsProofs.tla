-------------------------- MODULE ShellHostsProofs -------------------------
(***************************************************************************)
(* Proofs about ShellHosts for every set of hosts.                         *)
(***************************************************************************)
EXTENDS ShellHosts, TLAPS

\* A list of saved hosts.
IsList(list) == list \in [Host -> Pairing]

\* What the helpers return.
LEMMA NothingIsList == IsList(Nothing) /\ SavedHosts(Nothing) = {}
  BY DEF IsList, Nothing, SavedHosts, Pairing

LEMMA RecordPairing ==
  ASSUME TypeOK, NEW h \in Host
  PROVE  /\ RecordOf(h) \in Pairing
         /\ RecordOf(h) = "absent" <=> ~ Found(h) /\ active # h
  BY DEF TypeOK, RecordOf, Found, Pairing

\* An answer changes the pairing of a record; it neither adds nor removes one.
LEMMA AnswerPairing ==
  ASSUME NEW h \in Host, NEW a \in Answers(h)
  PROVE  /\ a.to \in Pairing /\ a.changed \in BOOLEAN
         /\ a.to = "absent" <=> RecordOf(h) = "absent"
  BY DEF Answers

LEMMA ItemsWithPairing ==
  ASSUME TypeOK, NEW h \in Host, NEW p \in Pairing,
         p = "absent" <=> RecordOf(h) = "absent"
  PROVE  /\ IsList(ItemsWith(h, p))
         /\ SavedHosts(ItemsWith(h, p)) = SavedHosts(items)
         /\ ActiveWith(h, p) \in {"unpaired", "paired"}
<1>1. IsList(ItemsWith(h, p))
  BY DEF TypeOK, IsList, ItemsWith
<1>2. Found(h) => p # "absent"
  BY RecordPairing
<1>3. SavedHosts(ItemsWith(h, p)) = SavedHosts(items)
  BY <1>2 DEF TypeOK, SavedHosts, ItemsWith, Found
<1>4. ActiveWith(h, p) \in {"unpaired", "paired"}
  BY RecordPairing DEF TypeOK, ActiveWith, Pairing
<1> QED BY <1>1, <1>3, <1>4

LEMMA ToPersistIsList ==
  ASSUME TypeOK, NEW list, IsList(list), NEW act \in Host \cup {NoHost}, NEW p \in Pairing
  PROVE  IsList(ToPersist(list, act, p))
  BY DEF TypeOK, IsList, ToPersist

LEMMA SaveTypes ==
  ASSUME TypeOK, NEW list, IsList(list), NEW c, NEW d \in BOOLEAN,
         Save(list, d) \/ SaveIf(c, list, d)
  PROVE  IsList(disk') /\ torn' \in BOOLEAN /\ dirty' \in BOOLEAN
  BY NothingIsList DEF TypeOK, IsList, Save, SaveIf, Written, WriteFails

LEMMA WriteTypes ==
  ASSUME TypeOK, NEW list, IsList(list), Written(list) \/ WriteFails
  PROVE  IsList(disk') /\ torn' \in BOOLEAN
  BY NothingIsList DEF TypeOK, IsList, Written, WriteFails

-----------------------------------------------------------------------------
(* Types.                                                                  *)

LEMMA TypeInit == Init => TypeOK
<1>1. ASSUME NEW list PROVE SavedHosts(list) \subseteq Host
  BY DEF SavedHosts
<1> QED BY <1>1 DEF Init, TypeOK, Stage, Screen

LEMMA TypeFinish == TypeOK /\ FinishTasks => TypeOK'
<1> SUFFICES ASSUME TypeOK, FinishTasks PROVE TypeOK'
  OBVIOUS
<1> USE DEF pageVars, taskVars, fileVars, Stage, Screen
<1>p. "paired" \in Pairing /\ "unpaired" \in Pairing /\ activePairing \in Pairing
      /\ IsList(items) /\ "paired" # "absent" /\ "unpaired" # "absent"
  BY DEF Pairing, TypeOK, IsList
<1>1. ASSUME PairingSucceeds PROVE TypeOK'
  <2>1. CASE RecordOf(attempt) = "absent"
    BY <1>1, <2>1 DEF PairingSucceeds, TypeOK
  <2>2. CASE RecordOf(attempt) # "absent"
    <3>1. attempt \in Host
      BY <1>1 DEF PairingSucceeds, TypeOK
    <3>2. IsList(items') /\ activePairing' \in {"unpaired", "paired"}
      BY <1>1, <1>p, <2>2, <3>1, ItemsWithPairing DEF PairingSucceeds
    <3>3. IsList(ToPersist(items', active, activePairing'))
      BY <3>2, ToPersistIsList DEF TypeOK, Pairing
    <3>4. IsList(disk') /\ torn' \in BOOLEAN /\ dirty' \in BOOLEAN
      BY <1>1, <2>2, <3>3, SaveTypes DEF PairingSucceeds
    <3> QED BY <1>1, <2>2, <3>2, <3>4 DEF PairingSucceeds, TypeOK, IsList
  <2> QED BY <2>1, <2>2
<1>2. ASSUME PairingFails PROVE TypeOK'
  <2>1. attempt \in Host
    BY <1>2 DEF PairingFails, TypeOK
  <2>2. items' \in [Host -> Pairing] /\ activePairing' \in {"unpaired", "paired"}
    BY <1>2, <2>1 DEF PairingFails, TypeOK, ItemsWith, ActiveWith, Pairing
  <2> QED BY <1>2, <2>2 DEF PairingFails, TypeOK
<1>3. ASSUME AppListFetched PROVE TypeOK'
  <2>1. appList \in Host
    BY <1>3 DEF AppListFetched, TypeOK
  <2>2. PICK a \in Answers(appList), newList \in BOOLEAN :
          /\ items' = ItemsWith(appList, a.to)
          /\ activePairing' = ActiveWith(appList, a.to)
          /\ LET d == dirty \/ a.changed \/ (newList /\ TakesAppList(appList))
             IN SaveIf(d, ToPersist(items', active, activePairing'), d)
    BY <1>3 DEF AppListFetched
  <2>3. IsList(items') /\ activePairing' \in {"unpaired", "paired"}
    BY <2>1, <2>2, AnswerPairing, ItemsWithPairing
  <2>4. IsList(ToPersist(items', active, activePairing'))
    BY <2>3, ToPersistIsList DEF TypeOK, Pairing
  <2> DEFINE d == dirty \/ a.changed \/ (newList /\ TakesAppList(appList))
  <2>5. d \in BOOLEAN
    OBVIOUS
  <2>6. SaveIf(d, ToPersist(items', active, activePairing'), d)
    BY <2>2
  <2>7. IsList(disk') /\ torn' \in BOOLEAN /\ dirty' \in BOOLEAN
    <3> HIDE DEF d
    <3> QED BY <2>4, <2>5, <2>6, SaveTypes
  <2> QED BY <1>3, <2>3, <2>7 DEF AppListFetched, TypeOK, IsList
<1>4. ASSUME AppListFailed PROVE TypeOK'
  <2>1. appList \in Host
    BY <1>4 DEF AppListFailed, TypeOK
  <2>2. PICK a \in Answers(appList), rejected \in BOOLEAN, hadApps \in BOOLEAN :
          LET p == IF rejected /\ TakesAppList(appList) THEN "unpaired" ELSE a.to IN
          /\ items' = ItemsWith(appList, p)
          /\ activePairing' = ActiveWith(appList, p)
          /\ dirty' = (dirty \/ a.changed \/ (rejected /\ hadApps /\ TakesAppList(appList)))
    BY <1>4 DEF AppListFailed
  <2> DEFINE p == IF rejected /\ TakesAppList(appList) THEN "unpaired" ELSE a.to
  <2>3. p \in Pairing /\ (p = "absent" <=> RecordOf(appList) = "absent")
    BY <1>p, <2>1, AnswerPairing, RecordPairing DEF TakesAppList
  <2>4. IsList(items') /\ activePairing' \in {"unpaired", "paired"}
    <3>1. items' = ItemsWith(appList, p) /\ activePairing' = ActiveWith(appList, p)
      BY <2>2
    <3> HIDE DEF p
    <3> QED BY <2>1, <2>3, <3>1, ItemsWithPairing
  <2>5. dirty' \in BOOLEAN
    BY <2>2
  <2>6. /\ pc' = "art" /\ appList' = NoHost
        /\ UNCHANGED <<half, screen, loaded, active, manual, attempt, art,
                       discovering, round, metadataChanged, fileVars>>
    BY <1>4 DEF AppListFailed
  <2> HIDE DEF p
  <2> QED BY <2>4, <2>5, <2>6 DEF TypeOK, IsList
<1>5. ASSUME FinishArt PROVE TypeOK'
  <2>1. dirty' = dirty \/ dirty' = TRUE
    BY <1>5 DEF FinishArt
  <2>2. dirty' \in BOOLEAN
    BY <2>1 DEF TypeOK
  <2>3. /\ pc' = "discovery" /\ art' = NoHost
        /\ UNCHANGED <<half, screen, loaded, items, active, activePairing, manual,
                       attempt, appList, discovering, round, metadataChanged, fileVars>>
    BY <1>5 DEF FinishArt
  <2> QED BY <2>2, <2>3 DEF TypeOK
<1>6. ASSUME FinishDiscovery PROVE TypeOK'
  <2>1. CASE screen = "hosts" /\ loaded
    <3>1. PICK hosts \in SUBSET Host, renamed \in BOOLEAN :
              LET new     == {h \in hosts : ~ Found(h)}
                  changed == new # {} \/ (renamed /\ hosts # {})
              IN /\ items' = [h \in Host |-> IF h \in new THEN "unpaired" ELSE items[h]]
                 /\ wanted' = wanted \cup new
                 /\ SaveIf(changed, items', dirty \/ changed)
      BY <1>6, <2>1 DEF FinishDiscovery
    <3> DEFINE changed == {h \in hosts : ~ Found(h)} # {} \/ (renamed /\ hosts # {})
    <3>2. IsList(items') /\ wanted' \subseteq Host
      BY <1>p, <3>1 DEF IsList, TypeOK
    <3>3. (dirty \/ changed) \in BOOLEAN /\ SaveIf(changed, items', dirty \/ changed)
      BY <3>1
    <3>4. IsList(disk') /\ torn' \in BOOLEAN /\ dirty' \in BOOLEAN
      <4> HIDE DEF changed
      <4> QED BY <3>2, <3>3, SaveTypes
    <3> QED BY ZenonT(30), <1>6, <3>2, <3>4 DEF FinishDiscovery, TypeOK, IsList
  <2>2. CASE ~ (screen = "hosts" /\ loaded)
    <3>1. items' = items /\ dirty' = dirty /\ disk' = disk /\ torn' = torn /\ wanted' = wanted
      BY <1>6, <2>2 DEF FinishDiscovery
    <3>2. /\ pc' = "probe" /\ discovering' = FALSE
          /\ UNCHANGED <<half, screen, loaded, active, activePairing, manual, attempt,
                         appList, art, round, metadataChanged>>
      BY <1>6 DEF FinishDiscovery
    <3>3. /\ items' \in [Host -> Pairing] /\ dirty' \in BOOLEAN
          /\ disk' \in [Host -> Pairing] /\ torn' \in BOOLEAN /\ wanted' \subseteq Host
      BY <3>1 DEF TypeOK
    <3> QED BY ZenonT(30), <3>2, <3>3 DEF TypeOK
  <2> QED BY <2>1, <2>2
<1>7. ASSUME NEW h \in Host, TakeAnswer(h) PROVE TypeOK'
  <2>1. items' \in [Host -> Pairing] /\ activePairing' \in {"unpaired", "paired"}
        /\ dirty' \in BOOLEAN /\ metadataChanged' \in BOOLEAN
    <3>1. CASE UNCHANGED <<items, activePairing, dirty, metadataChanged>>
      BY <3>1 DEF TypeOK
    <3>2. ASSUME NEW a \in Answers(h), items' = ItemsWith(h, a.to),
                 activePairing' = ActiveWith(h, a.to), dirty' = (dirty \/ a.changed),
                 metadataChanged' = (metadataChanged \/ dirty')
          PROVE <2>1!1
      BY <3>2, AnswerPairing, ItemsWithPairing DEF IsList
    <3> QED BY <1>7, <3>1, <3>2 DEF TakeAnswer
  <2> QED BY <1>7, <2>1 DEF TakeAnswer, TypeOK
<1>8. ASSUME EndRound PROVE TypeOK'
  <2>1. IsList(ToPersist(items, active, activePairing))
    BY <1>p, ToPersistIsList DEF TypeOK
  <2>2. IsList(disk') /\ torn' \in BOOLEAN /\ dirty' \in BOOLEAN
    BY <1>8, <2>1, SaveTypes DEF EndRound, TypeOK
  <2> QED BY ZenonT(30), <1>8, <2>2 DEF EndRound, TypeOK, IsList
<1>9. ASSUME NoMoreResults PROVE TypeOK'
  BY <1>9 DEF NoMoreResults, TypeOK
<1> QED BY <1>1, <1>2, <1>3, <1>4, <1>5, <1>6, <1>7, <1>8, <1>9 DEF FinishTasks

LEMMA TypeStart == TypeOK /\ StartTasks => TypeOK'
<1> SUFFICES ASSUME TypeOK, StartTasks PROVE TypeOK'
  OBVIOUS
<1> USE DEF pageVars, taskVars, fileVars, Stage, Screen, TypeOK
<1>1. ASSUME StartDiscovery PROVE TypeOK'
  BY <1>1 DEF StartDiscovery
<1>2. ASSUME StartRound PROVE TypeOK'
  BY <1>2 DEF StartRound, SavedHosts
<1>3. ASSUME StartAppList PROVE TypeOK'
  BY <1>3 DEF StartAppList
<1>4. ASSUME StartArt PROVE TypeOK'
  BY <1>4 DEF StartArt
<1>5. ASSUME LeaveStart PROVE TypeOK'
  BY <1>5 DEF LeaveStart
<1> QED BY <1>1, <1>2, <1>3, <1>4, <1>5 DEF StartTasks

\* Moving between pages.
LEMMA TypePage ==
  ASSUME TypeOK, Ensure \/ PageCommand \/ Process PROVE TypeOK'
<1> USE DEF pageVars, taskVars, fileVars, Stage, Screen
<1>1. ASSUME Ensure PROVE TypeOK'
  <2>1. CASE Reload
    BY <1>1, <2>1 DEF Ensure, Reload, TypeOK
  <2>2. CASE UNCHANGED <<items, loaded, dirty, active, activePairing>>
    BY <1>1, <2>2 DEF Ensure, TypeOK
  <2> QED BY <1>1, <2>1, <2>2 DEF Ensure
<1>2. ASSUME OpenSettings PROVE TypeOK'
  BY ZenonT(30), <1>2, NothingIsList DEF OpenSettings, OnPage, UnloadHosts, TypeOK, IsList
<1>3. ASSUME OpenAddHost PROVE TypeOK'
  BY <1>3 DEF OpenAddHost, OnPage, TypeOK
<1>4. ASSUME Back PROVE TypeOK'
  <2>1. /\ UNCHANGED <<pc, half, manual, appList, art, discovering, round,
                       metadataChanged, fileVars>>
        /\ screen' = "hosts" /\ attempt' \in {NoHost, attempt}
        /\ Reload \/ UNCHANGED <<items, loaded, dirty, active, activePairing>>
    BY <1>4 DEF Back, OnPage
  <2>2. CASE Reload
    BY ZenonT(30), <2>1, <2>2 DEF Reload, TypeOK
  <2>3. CASE UNCHANGED <<items, loaded, dirty, active, activePairing>>
    BY <2>1, <2>3 DEF TypeOK
  <2> QED BY <2>1, <2>2, <2>3
<1>5. ASSUME CommandsDone PROVE TypeOK'
  BY <1>5 DEF CommandsDone, TypeOK
<1>6. ASSUME SaveAtExit PROVE TypeOK'
  <2>1. IsList(disk') /\ torn' \in BOOLEAN /\ dirty' \in BOOLEAN
    <3>1. IsList(items) /\ dirty \in BOOLEAN /\ SaveIf(dirty, items, dirty)
      BY <1>6 DEF SaveAtExit, TypeOK, IsList
    <3> QED BY <3>1, SaveTypes
  <2> QED BY <1>6, <2>1 DEF SaveAtExit, NoTasks, TypeOK, IsList
<1>7. ASSUME Boot PROVE TypeOK'
  BY <1>7 DEF Boot, Reload, TypeOK
<1> QED BY <1>1, <1>2, <1>3, <1>4, <1>5, <1>6, <1>7 DEF PageCommand, Process

LEMMA TypeOther == TypeOK /\ OtherCommand => TypeOK'
<1> SUFFICES ASSUME TypeOK, OtherCommand PROVE TypeOK'
  OBVIOUS
<1> USE DEF pageVars, taskVars, fileVars, Stage, Screen
<1>1. ASSUME ChangeApp PROVE TypeOK'
  <2>1. IsList(ToPersist(items, active, activePairing))
    BY ToPersistIsList DEF TypeOK, IsList, Pairing
  <2>2. IsList(disk') /\ torn' \in BOOLEAN /\ dirty' \in BOOLEAN
    BY <1>1, <2>1, SaveTypes DEF ChangeApp
  <2> QED BY <1>1, <2>2 DEF ChangeApp, OnPage, TypeOK, IsList
<1>2. ASSUME LaunchStream PROVE TypeOK'
  BY <1>2 DEF LaunchStream, OnPage, NoTasks, TypeOK
<1>3. ASSUME DeleteHostsFile PROVE TypeOK'
  BY <1>3, NothingIsList DEF DeleteHostsFile, OnPage, TypeOK, IsList
<1>4. ASSUME FactoryReset PROVE TypeOK'
  <2>1. disk' \in [Host -> Pairing] /\ wanted' \subseteq Host
    BY <1>4, NothingIsList DEF FactoryReset, TypeOK, IsList
  <2>2. /\ screen' \in Screen /\ loaded' \in BOOLEAN /\ items' \in [Host -> Pairing]
        /\ active' \in Host \cup {NoHost} /\ activePairing' \in {"unpaired", "paired"}
        /\ dirty' \in BOOLEAN /\ manual' \subseteq Host
    BY <1>4, NothingIsList DEF FactoryReset, TypeOK, IsList
  <2>3. UNCHANGED <<pc, half, torn, taskVars>>
    BY <1>4 DEF FactoryReset, OnPage
  <2> QED BY <2>1, <2>2, <2>3 DEF TypeOK
<1> QED BY <1>1, <1>2, <1>3, <1>4 DEF OtherCommand

LEMMA TypeHost == TypeOK /\ HostCommand => TypeOK'
<1> SUFFICES ASSUME TypeOK, HostCommand PROVE TypeOK'
  OBVIOUS
<1> USE DEF pageVars, taskVars, fileVars, Stage, Screen
<1>p. "paired" \in Pairing /\ "unpaired" \in Pairing /\ activePairing \in Pairing
      /\ IsList(items) /\ "paired" # "absent" /\ "unpaired" # "absent"
  BY DEF Pairing, TypeOK, IsList
<1>1. ASSUME NEW h \in Host, SaveHost(h) PROVE TypeOK'
  <2> DEFINE list == [items EXCEPT ![h] = "unpaired"]
             file == ToPersist(list, active, activePairing)
  <2>1. IsList(list) /\ IsList(file)
    BY <1>p, ToPersistIsList DEF TypeOK, IsList
  <2>2. wanted' \subseteq Host
    BY <1>1 DEF SaveHost, TypeOK
  <2>3. CASE loaded
    <3>1. items' = list /\ Save(file, TRUE) /\ UNCHANGED <<loaded, active, activePairing>>
      BY <1>1, <2>3 DEF SaveHost
    <3>2. IsList(disk') /\ torn' \in BOOLEAN /\ dirty' \in BOOLEAN
      <4> HIDE DEF list, file
      <4> QED BY <2>1, <3>1, SaveTypes
    <3> HIDE DEF list, file
    <3> QED BY <1>1, <2>1, <2>2, <3>1, <3>2 DEF SaveHost, OnPage, TypeOK, IsList
  <2>4. CASE ~ loaded
    <3>1. (Written(file) \/ WriteFails) /\ Reload
      BY <1>1, <2>4 DEF SaveHost
    <3>2. IsList(disk') /\ torn' \in BOOLEAN
      <4> HIDE DEF list, file
      <4> QED BY <2>1, <3>1, WriteTypes
    <3>3. /\ screen' = "hosts"
          /\ UNCHANGED <<pc, half, manual, taskVars>>
      BY <1>1 DEF SaveHost, OnPage
    <3> HIDE DEF list, file
    <3> QED BY <2>2, <3>1, <3>2, <3>3 DEF Reload, TypeOK, IsList
  <2> QED BY <2>3, <2>4 DEF TypeOK
<1>2. ASSUME NEW h \in Host, StartPairing(h) PROVE TypeOK'
  <2> DEFINE list == IF Found(h) THEN items ELSE [items EXCEPT ![h] = "unpaired"]
             d    == dirty \/ ~ Found(h)
  <2>1. IsList(list) /\ list[h] \in {"unpaired", "paired"} /\ d \in BOOLEAN
    BY <1>p DEF TypeOK, IsList, Found, Pairing
  <2>2. wanted' \subseteq Host
        /\ UNCHANGED <<pc, half, loaded, manual, appList, art, discovering, round, metadataChanged>>
    BY <1>2 DEF StartPairing, OnPage, TypeOK
  <2>3. \/ /\ items' = list
           /\ SaveIf(~ Found(h), ToPersist(list, active, activePairing), d)
           /\ UNCHANGED <<screen, active, activePairing, attempt>>
        \/ /\ active' = h /\ activePairing' = list[h]
           /\ screen' = "pair_host"
           /\ \/ attempt' = h /\ items' = list
              \/ attempt' = NoHost /\ items' = [list EXCEPT ![h] = "unpaired"]
           /\ SaveIf(~ Found(h), ToPersist(items', h, list[h]), d)
    BY <1>2 DEF StartPairing
  <2> HIDE DEF list, d
  <2>4. /\ IsList(items') /\ screen' \in Screen /\ active' \in Host \cup {NoHost}
        /\ activePairing' \in {"unpaired", "paired"} /\ attempt' \in Host \cup {NoHost}
    BY <1>p, <2>1, <2>3 DEF TypeOK, IsList
  <2>5. IsList(ToPersist(list, active, activePairing)) /\ IsList(ToPersist(items', h, list[h]))
    BY <1>p, <2>1, <2>4, ToPersistIsList DEF TypeOK, Pairing
  <2>6. IsList(disk') /\ torn' \in BOOLEAN /\ dirty' \in BOOLEAN
    BY <2>1, <2>3, <2>5, SaveTypes
  <2> QED BY <2>2, <2>4, <2>6 DEF TypeOK, IsList
<1>3. ASSUME NEW h \in Host, PairSelected(h) PROVE TypeOK'
  <2>1. /\ active' = h /\ activePairing' = "unpaired" /\ screen' = "pair_host"
        /\ attempt' \in Host \cup {NoHost}
        /\ UNCHANGED <<pc, half, dirty, manual, appList, art, discovering, round,
                       metadataChanged, fileVars>>
    BY <1>3 DEF PairSelected, OnPage
  <2>2. UnloadHosts(items) \/ UnloadHosts(ItemsWith(h, "unpaired"))
    BY <1>3 DEF PairSelected
  <2>3. IsList(ItemsWith(h, "unpaired"))
    BY <1>p DEF IsList, ItemsWith
  <2>4. loaded' = FALSE /\ IsList(items')
    BY <1>p, <2>2, <2>3, NothingIsList DEF UnloadHosts
  <2> QED BY ZenonT(30), <2>1, <2>4 DEF TypeOK, IsList
<1>4. ASSUME NEW h \in Host, Browse(h) PROVE TypeOK'
  <2>1. PICK a \in Answers(h) :
          LET d == dirty \/ a.changed
              list == ItemsWith(h, a.to)
          IN /\ SaveIf(d, ToPersist(list, active, activePairing), d)
             /\ IF a.to = "paired"
                THEN /\ active' = h /\ activePairing' = "paired"
                     /\ screen' = "apps"
                     /\ UnloadHosts(list)
                ELSE /\ items' = list
                     /\ UNCHANGED <<screen, loaded, active, activePairing>>
    BY <1>4 DEF Browse
  <2> DEFINE d == dirty \/ a.changed
             list == ItemsWith(h, a.to)
  <2>2. IsList(list) /\ d \in BOOLEAN
    BY AnswerPairing, ItemsWithPairing
  <2>3. SaveIf(d, ToPersist(list, active, activePairing), d)
    BY <2>1
  <2>4. \/ /\ active' = h /\ activePairing' = "paired"
           /\ screen' = "apps"
           /\ UnloadHosts(list)
        \/ /\ items' = list
           /\ UNCHANGED <<screen, loaded, active, activePairing>>
    BY <2>1
  <2> HIDE DEF list, d
  <2>5. IsList(ToPersist(list, active, activePairing))
    BY <1>p, <2>2, ToPersistIsList DEF TypeOK
  <2>6. IsList(disk') /\ torn' \in BOOLEAN /\ dirty' \in BOOLEAN
    BY <2>2, <2>3, <2>5, SaveTypes
  <2>7. UNCHANGED <<pc, half, manual, taskVars, wanted>>
    BY <1>4 DEF Browse, OnPage
  <2>8. /\ IsList(items') /\ screen' \in Screen /\ active' \in Host \cup {NoHost}
        /\ activePairing' \in {"unpaired", "paired"} /\ loaded' \in BOOLEAN
    BY <2>2, <2>4, NothingIsList DEF UnloadHosts, TypeOK
  <2> QED BY <2>6, <2>7, <2>8 DEF TypeOK, IsList
<1>5. ASSUME NEW h \in Host, TestConnection(h) PROVE TypeOK'
  <2>1. PICK a \in Answers(h) :
          /\ items' = ItemsWith(h, a.to)
          /\ activePairing' = ActiveWith(h, a.to)
          /\ LET d == dirty \/ a.changed
             IN SaveIf(d, ToPersist(items', active, activePairing'), d)
    BY <1>5 DEF TestConnection
  <2> DEFINE d == dirty \/ a.changed
  <2>2. IsList(items') /\ activePairing' \in {"unpaired", "paired"} /\ d \in BOOLEAN
    BY <2>1, AnswerPairing, ItemsWithPairing
  <2>3. SaveIf(d, ToPersist(items', active, activePairing'), d)
    BY <2>1
  <2> HIDE DEF d
  <2>4. IsList(ToPersist(items', active, activePairing'))
    BY <2>2, ToPersistIsList DEF TypeOK, Pairing
  <2>5. IsList(disk') /\ torn' \in BOOLEAN /\ dirty' \in BOOLEAN
    BY <2>2, <2>3, <2>4, SaveTypes
  <2>6. UNCHANGED <<pc, half, screen, loaded, active, manual, taskVars, wanted>>
    BY <1>5 DEF TestConnection, OnPage
  <2> QED BY <2>2, <2>5, <2>6 DEF TypeOK, IsList
<1>6. ASSUME NEW h \in Host, DeleteHost(h) PROVE TypeOK'
  <2>1. IsList(items') /\ manual' \subseteq Host /\ wanted' \subseteq Host
    BY <1>6, NothingIsList DEF DeleteHost, TypeOK, IsList, Pairing
  <2>2. IsList(ToPersist(items', active, activePairing))
    BY <1>p, <2>1, ToPersistIsList DEF TypeOK
  <2>3. IsList(disk') /\ torn' \in BOOLEAN /\ dirty' \in BOOLEAN
    BY <1>6, <2>2, SaveTypes DEF DeleteHost
  <2>4. UNCHANGED <<pc, half, screen, loaded, active, activePairing, taskVars>>
    BY <1>6 DEF DeleteHost, OnPage
  <2> QED BY <2>1, <2>3, <2>4 DEF TypeOK, IsList
<1> QED BY <1>1, <1>2, <1>3, <1>4, <1>5, <1>6 DEF HostCommand

LEMMA TypeStep == TypeOK /\ [Next]_vars => TypeOK'
<1>1. ASSUME TypeOK, UNCHANGED vars PROVE TypeOK'
  BY <1>1 DEF vars, pageVars, taskVars, fileVars, TypeOK
<1> QED
  BY <1>1, TypeFinish, TypeStart, TypePage, TypeHost, TypeOther DEF Next

\* Every variable keeps its type.
THEOREM TypeCorrect == Spec => []TypeOK
  BY TypeInit, TypeStep, PTL DEF Spec

-----------------------------------------------------------------------------
(* The invariants.  CleanPageMatchesFile needs PagesHold: the settings page *)
(* may delete the file because no list is loaded there.  AttemptHasItsHost  *)
(* needs the process to be off without an attempt.                          *)

HostsInv == /\ TypeOK
            /\ CleanPageMatchesFile
            /\ PageCoversFile
            /\ AttemptHasItsHost
            /\ PagesHold
            /\ pc = "off" => attempt = NoHost

PageInv == CleanPageMatchesFile /\ PageCoversFile

LEMMA InitHolds == Init => HostsInv
  BY TypeInit DEF Init, HostsInv, CleanPageMatchesFile, PageCoversFile,
     AttemptHasItsHost, PagesHold

\* A step that may save and does not load or unload the page keeps the page
\* and the file together.
LEMMA SaveKeepsPage ==
  ASSUME PageInv, NEW c, NEW list, NEW d,
         loaded' = loaded,
         SaveIf(c, list, d),
         loaded => list = items',
         c \/ d \/ SavedHosts(items') = SavedHosts(items),
         ~ d => ~ dirty /\ SavedHosts(items') = SavedHosts(items),
         SavedHosts(items) \cap wanted' \subseteq SavedHosts(items'),
         SavedHosts(disk) \cap wanted' \subseteq wanted \cup SavedHosts(items')
  PROVE  PageInv'
<1>n. disk' = Nothing => SavedHosts(disk') = {}
  BY NothingIsList
<1>s. SavedHosts(items)' = SavedHosts(items') /\ SavedHosts(disk)' = SavedHosts(disk')
  BY DEF SavedHosts
<1>1. CASE Written(list)
  BY <1>1, <1>s DEF PageInv, CleanPageMatchesFile, PageCoversFile, Written
<1>2. CASE UNCHANGED <<disk, torn>> /\ dirty' = d
  BY <1>2, <1>s DEF PageInv, CleanPageMatchesFile, PageCoversFile
<1>3. CASE disk' = Nothing /\ torn' = TRUE
  BY <1>3, <1>n, <1>s DEF PageInv, CleanPageMatchesFile, PageCoversFile
<1> QED BY <1>1, <1>2, <1>3 DEF SaveIf, Save, WriteFails

\* The same for a step that always saves.
LEMMA SaveIsSaveIf ==
  ASSUME NEW list, NEW d, Save(list, d) PROVE SaveIf(TRUE, list, d)
  BY DEF SaveIf

\* Without a write the lists keep their hosts.
LEMMA SameHostsKeepPage ==
  ASSUME PageInv, UNCHANGED <<loaded, disk, torn, wanted>>,
         SavedHosts(items') = SavedHosts(items), ~ dirty' => ~ dirty
  PROVE  PageInv'
<1>s. SavedHosts(items)' = SavedHosts(items') /\ SavedHosts(disk)' = SavedHosts(disk)
  BY DEF SavedHosts
<1> QED BY <1>s DEF PageInv, CleanPageMatchesFile, PageCoversFile

LEMMA UnloadKeepsPage == ~ loaded' => PageInv'
  BY DEF PageInv, CleanPageMatchesFile, PageCoversFile

LEMMA ReloadKeepsPage == Reload => PageInv'
<1>s. SavedHosts(items)' = SavedHosts(items') /\ SavedHosts(disk)' = SavedHosts(disk')
  BY DEF SavedHosts
<1> QED BY <1>s DEF Reload, PageInv, CleanPageMatchesFile, PageCoversFile

LEMMA PageFinish == HostsInv /\ FinishTasks => PageInv'
<1> SUFFICES ASSUME HostsInv, FinishTasks PROVE PageInv'
  OBVIOUS
<1> USE DEF pageVars, taskVars, fileVars
<1>i. TypeOK /\ PageInv
  BY DEF HostsInv, PageInv
<1>p. "paired" \in Pairing /\ "unpaired" \in Pairing
      /\ "paired" # "absent" /\ "unpaired" # "absent"
  BY DEF Pairing
<1>1. ASSUME PairingSucceeds PROVE PageInv'
  <2>1. CASE RecordOf(attempt) = "absent"
    BY <1>1, <1>i, <2>1, SameHostsKeepPage DEF PairingSucceeds
  <2>2. CASE RecordOf(attempt) # "absent"
    <3>1. attempt \in Host
      BY <1>1, <1>i DEF PairingSucceeds, TypeOK
    <3>2. SavedHosts(items') = SavedHosts(items)
      BY <1>1, <1>i, <1>p, <2>2, <3>1, ItemsWithPairing DEF PairingSucceeds
    <3>3. SaveIf(TRUE, ToPersist(items', active, activePairing'), TRUE)
      BY <1>1, <2>2, SaveIsSaveIf DEF PairingSucceeds
    <3>4. loaded' = loaded /\ wanted' = wanted
      BY <1>1, <2>2 DEF PairingSucceeds
    <3>5. loaded => ToPersist(items', active, activePairing') = items'
      BY DEF ToPersist
    <3> QED BY <1>i, <3>2, <3>3, <3>4, <3>5, SaveKeepsPage
  <2> QED BY <2>1, <2>2
<1>2. ASSUME PairingFails PROVE PageInv'
  <2>1. attempt \in Host
    BY <1>2, <1>i DEF PairingFails, TypeOK
  <2>2. SavedHosts(items') = SavedHosts(items)
    BY <1>2, <1>i, <1>p, <2>1 DEF PairingFails, ItemsWith, SavedHosts, Found, TypeOK
  <2> QED BY <1>2, <1>i, <2>2, SameHostsKeepPage DEF PairingFails
<1>3. ASSUME AppListFetched PROVE PageInv'
  <2>1. appList \in Host
    BY <1>3, <1>i DEF AppListFetched, TypeOK
  <2>2. PICK a \in Answers(appList), newList \in BOOLEAN :
          /\ items' = ItemsWith(appList, a.to)
          /\ activePairing' = ActiveWith(appList, a.to)
          /\ LET d == dirty \/ a.changed \/ (newList /\ TakesAppList(appList))
             IN SaveIf(d, ToPersist(items', active, activePairing'), d)
    BY <1>3 DEF AppListFetched
  <2> DEFINE d == dirty \/ a.changed \/ (newList /\ TakesAppList(appList))
             list == ToPersist(items', active, activePairing')
  <2>3. SaveIf(d, list, d) /\ (~ d => ~ dirty)
    BY <2>2
  <2>4. SavedHosts(items') = SavedHosts(items)
    BY <1>i, <2>1, <2>2, AnswerPairing, ItemsWithPairing
  <2>5. loaded => list = items'
    BY DEF ToPersist
  <2>6. loaded' = loaded /\ wanted' = wanted
    BY <1>3 DEF AppListFetched
  <2> HIDE DEF d, list
  <2> QED BY <1>i, <2>3, <2>4, <2>5, <2>6, SaveKeepsPage
<1>4. ASSUME AppListFailed PROVE PageInv'
  <2>1. appList \in Host
    BY <1>4, <1>i DEF AppListFailed, TypeOK
  <2>2. PICK a \in Answers(appList), rejected \in BOOLEAN, hadApps \in BOOLEAN :
          LET p == IF rejected /\ TakesAppList(appList) THEN "unpaired" ELSE a.to IN
          /\ items' = ItemsWith(appList, p)
          /\ activePairing' = ActiveWith(appList, p)
          /\ dirty' = (dirty \/ a.changed \/ (rejected /\ hadApps /\ TakesAppList(appList)))
    BY <1>4 DEF AppListFailed
  <2>3. ~ dirty' => ~ dirty
    BY <2>2
  <2>4. SavedHosts(items') = SavedHosts(items)
    <3>1. Found(appList) => a.to # "absent"
      BY <1>i, <2>1, AnswerPairing, RecordPairing
    <3> DEFINE p == IF rejected /\ TakesAppList(appList) THEN "unpaired" ELSE a.to
    <3>2. Found(appList) => p # "absent"
      BY <1>p, <3>1
    <3>3. items' = ItemsWith(appList, p)
      BY <2>2
    <3> HIDE DEF p
    <3> QED BY <1>i, <2>1, <3>2, <3>3 DEF ItemsWith, SavedHosts, Found, TypeOK
  <2>5. UNCHANGED <<loaded, disk, torn, wanted>>
    BY <1>4 DEF AppListFailed
  <2> QED BY <1>i, <2>3, <2>4, <2>5, SameHostsKeepPage
<1>5. ASSUME FinishArt PROVE PageInv'
  BY <1>5, <1>i, SameHostsKeepPage DEF FinishArt
<1>6. ASSUME FinishDiscovery PROVE PageInv'
  <2>1. CASE screen = "hosts" /\ loaded
    <3>1. PICK hosts \in SUBSET Host, renamed \in BOOLEAN :
              LET new     == {h \in hosts : ~ Found(h)}
                  changed == new # {} \/ (renamed /\ hosts # {})
              IN /\ items' = [h \in Host |-> IF h \in new THEN "unpaired" ELSE items[h]]
                 /\ wanted' = wanted \cup new
                 /\ SaveIf(changed, items', dirty \/ changed)
      BY <1>6, <2>1 DEF FinishDiscovery
    <3> DEFINE new == {h \in hosts : ~ Found(h)}
               changed == new # {} \/ (renamed /\ hosts # {})
               d == dirty \/ changed
    <3>2. SavedHosts(items') = SavedHosts(items) \cup new
      BY <1>p, <3>1 DEF SavedHosts, Found
    <3>3. wanted' = wanted \cup new /\ SaveIf(changed, items', d)
      BY <3>1
    <3>4. (~ d => ~ dirty /\ ~ changed) /\ (~ changed => new = {})
      OBVIOUS
    <3>5. loaded' = loaded
      BY <1>6 DEF FinishDiscovery
    <3> HIDE DEF new, changed, d
    <3> QED BY <1>i, <3>2, <3>3, <3>4, <3>5, SaveKeepsPage
  <2>2. CASE ~ (screen = "hosts" /\ loaded)
    <3>1. UNCHANGED <<items, dirty, loaded, disk, torn, wanted>>
      BY <1>6, <2>2 DEF FinishDiscovery
    <3>2. SavedHosts(items') = SavedHosts(items) /\ (~ dirty' => ~ dirty)
      BY <3>1
    <3> QED BY <1>i, <3>1, <3>2, SameHostsKeepPage
  <2> QED BY <2>1, <2>2
<1>7. ASSUME NEW h \in Host, TakeAnswer(h) PROVE PageInv'
  <2>1. UNCHANGED <<loaded, disk, torn, wanted>>
    BY <1>7 DEF TakeAnswer
  <2>2. SavedHosts(items') = SavedHosts(items) /\ (~ dirty' => ~ dirty)
    <3>1. ASSUME NEW a \in Answers(h), items' = ItemsWith(h, a.to)
          PROVE  SavedHosts(items') = SavedHosts(items)
      BY <1>i, <3>1, AnswerPairing, ItemsWithPairing
    <3>2. SavedHosts(items') = SavedHosts(items)
      BY <1>7, <3>1 DEF TakeAnswer
    <3>3. ~ dirty' => ~ dirty
      BY <1>7 DEF TakeAnswer
    <3> QED BY <3>2, <3>3
  <2> QED BY <1>i, <2>1, <2>2, SameHostsKeepPage
<1>8. ASSUME EndRound PROVE PageInv'
  <2>1. loaded => ToPersist(items, active, activePairing) = items
    BY DEF ToPersist
  <2>2. /\ SaveIf(metadataChanged, ToPersist(items, active, activePairing), dirty)
        /\ UNCHANGED <<loaded, items, wanted>>
    BY <1>8 DEF EndRound
  <2> QED BY <1>i, <2>1, <2>2, SaveKeepsPage
<1>9. ASSUME NoMoreResults PROVE PageInv'
  BY <1>9, <1>i, SameHostsKeepPage DEF NoMoreResults
<1> QED BY <1>1, <1>2, <1>3, <1>4, <1>5, <1>6, <1>7, <1>8, <1>9 DEF FinishTasks

LEMMA PageStart == HostsInv /\ StartTasks => PageInv'
<1> SUFFICES ASSUME HostsInv, StartTasks PROVE PageInv'
  OBVIOUS
<1>1. UNCHANGED <<pageVars, fileVars>>
  BY DEF StartTasks, StartDiscovery, StartRound, StartAppList, StartArt, LeaveStart
<1> QED BY <1>1, SameHostsKeepPage DEF pageVars, fileVars, HostsInv, PageInv

LEMMA PagePage ==
  ASSUME HostsInv, Ensure \/ PageCommand \/ Process PROVE PageInv'
<1> USE DEF pageVars, taskVars, fileVars
<1>i. TypeOK /\ PageInv
  BY DEF HostsInv, PageInv
<1>u. ASSUME UNCHANGED <<items, dirty, loaded, disk, torn, wanted>> PROVE PageInv'
  BY <1>i, <1>u, SameHostsKeepPage
<1>1. ASSUME Ensure PROVE PageInv'
  BY <1>1, <1>u, ReloadKeepsPage DEF Ensure
<1>2. ASSUME OpenSettings PROVE PageInv'
  BY <1>2, UnloadKeepsPage DEF OpenSettings, UnloadHosts
<1>3. ASSUME OpenAddHost PROVE PageInv'
  BY <1>3, <1>u DEF OpenAddHost
<1>4. ASSUME Back PROVE PageInv'
  BY <1>4, <1>u, ReloadKeepsPage DEF Back
<1>5. ASSUME CommandsDone PROVE PageInv'
  BY <1>5, <1>u DEF CommandsDone
<1>6. ASSUME SaveAtExit PROVE PageInv'
  BY <1>6, <1>i, SaveKeepsPage DEF SaveAtExit
<1>7. ASSUME Boot PROVE PageInv'
  BY <1>7, ReloadKeepsPage DEF Boot
<1> QED BY <1>1, <1>2, <1>3, <1>4, <1>5, <1>6, <1>7 DEF PageCommand, Process

LEMMA PageOther == HostsInv /\ OtherCommand => PageInv'
<1> SUFFICES ASSUME HostsInv, OtherCommand PROVE PageInv'
  OBVIOUS
<1> USE DEF pageVars, taskVars, fileVars
<1>i. TypeOK /\ PageInv /\ PagesHold
  BY DEF HostsInv, PageInv
<1>1. ASSUME ChangeApp PROVE PageInv'
  <2>1. ~ loaded'
    BY <1>1, <1>i DEF ChangeApp, OnPage, PagesHold
  <2> QED BY <2>1, UnloadKeepsPage
<1>2. ASSUME LaunchStream PROVE PageInv'
  BY <1>2, <1>i, SameHostsKeepPage DEF LaunchStream
<1>3. ASSUME DeleteHostsFile PROVE PageInv'
  <2>1. ~ loaded'
    BY <1>3, <1>i DEF DeleteHostsFile, OnPage, PagesHold
  <2> QED BY <2>1, UnloadKeepsPage
<1>4. ASSUME FactoryReset PROVE PageInv'
  <2>1. CASE UNCHANGED pageVars
    <3>1. ~ loaded'
      BY <1>4, <1>i, <2>1 DEF FactoryReset, OnPage, PagesHold
    <3> QED BY <3>1, UnloadKeepsPage
  <2>2. CASE disk' = Nothing /\ items' = Nothing
    BY <2>2, NothingIsList DEF PageInv, CleanPageMatchesFile, PageCoversFile, SavedHosts
  <2> QED BY <1>4, <2>1, <2>2 DEF FactoryReset
<1> QED BY <1>1, <1>2, <1>3, <1>4 DEF OtherCommand

LEMMA PageHost == HostsInv /\ HostCommand => PageInv'
<1> SUFFICES ASSUME HostsInv, HostCommand PROVE PageInv'
  OBVIOUS
<1> USE DEF pageVars, taskVars, fileVars
<1>i. TypeOK /\ PageInv
  BY DEF HostsInv, PageInv
<1>p. "paired" \in Pairing /\ "unpaired" \in Pairing
      /\ "paired" # "absent" /\ "unpaired" # "absent"
  BY DEF Pairing
<1>1. ASSUME NEW h \in Host, SaveHost(h) PROVE PageInv'
  <2> DEFINE list == [items EXCEPT ![h] = "unpaired"]
             file == ToPersist(list, active, activePairing)
  <2>1. CASE loaded
    <3>1. items' = list /\ Save(file, TRUE) /\ loaded' = loaded /\ wanted' = wanted \cup {h}
      BY <1>1, <2>1 DEF SaveHost
    <3>2. SavedHosts(list) = SavedHosts(items) \cup {h}
      BY <1>i, <1>p DEF SavedHosts, TypeOK
    <3>3. file = list
      BY <2>1 DEF ToPersist
    <3>4. SaveIf(TRUE, file, TRUE)
      BY <3>1, SaveIsSaveIf
    <3> HIDE DEF list, file
    <3> QED BY <1>i, <3>1, <3>2, <3>3, <3>4, SaveKeepsPage
  <2>2. CASE ~ loaded
    BY <1>1, <2>2, ReloadKeepsPage DEF SaveHost
  <2> QED BY <2>1, <2>2
<1>2. ASSUME NEW h \in Host, StartPairing(h) PROVE PageInv'
  <2> DEFINE list == IF Found(h) THEN items ELSE [items EXCEPT ![h] = "unpaired"]
             d    == dirty \/ ~ Found(h)
  <2>1. PICK file : /\ SaveIf(~ Found(h), file, d)
                    /\ loaded => file = items'
                    /\ items' = list \/ items' = [list EXCEPT ![h] = "unpaired"]
    <3>1. \/ /\ items' = list
             /\ SaveIf(~ Found(h), ToPersist(list, active, activePairing), d)
          \/ /\ items' = list \/ items' = [list EXCEPT ![h] = "unpaired"]
             /\ SaveIf(~ Found(h), ToPersist(items', h, list[h]), d)
      BY <1>2 DEF StartPairing
    <3>2. /\ loaded => ToPersist(list, active, activePairing) = list
          /\ loaded => ToPersist(items', h, list[h]) = items'
      BY DEF ToPersist
    <3> HIDE DEF list, d
    <3> QED BY <3>1, <3>2
  <2>2. loaded' = loaded /\ wanted' = wanted \cup {h}
    BY <1>2 DEF StartPairing
  <2>3. SavedHosts(items') = SavedHosts(items) \cup {h}
    BY <1>i, <1>p, <2>1 DEF SavedHosts, Found, TypeOK
  <2>4. Found(h) => SavedHosts(items') = SavedHosts(items)
    BY <2>3 DEF SavedHosts, Found
  <2>5. ~ d => ~ dirty /\ Found(h)
    OBVIOUS
  <2>6. SaveIf(~ Found(h), file, d)
    BY <2>1
  <2> HIDE DEF d
  <2> QED BY <1>i, <2>1, <2>2, <2>3, <2>4, <2>5, <2>6, SaveKeepsPage
<1>3. ASSUME NEW h \in Host, PairSelected(h) PROVE PageInv'
  BY <1>3, UnloadKeepsPage DEF PairSelected, UnloadHosts
<1>4. ASSUME NEW h \in Host, Browse(h) PROVE PageInv'
  <2>1. PICK a \in Answers(h) :
          LET d == dirty \/ a.changed
              list == ItemsWith(h, a.to)
          IN /\ SaveIf(d, ToPersist(list, active, activePairing), d)
             /\ \/ UnloadHosts(list)
                \/ items' = list /\ loaded' = loaded
    BY <1>4 DEF Browse
  <2> DEFINE d == dirty \/ a.changed
             list == ItemsWith(h, a.to)
             file == ToPersist(list, active, activePairing)
  <2>2. CASE UnloadHosts(list)
    BY <2>2, UnloadKeepsPage DEF UnloadHosts
  <2>3. CASE items' = list /\ loaded' = loaded
    <3>1. SaveIf(d, file, d) /\ (~ d => ~ dirty)
      BY <2>1
    <3>2. SavedHosts(list) = SavedHosts(items)
      BY <1>i, AnswerPairing, ItemsWithPairing
    <3>3. loaded => file = list
      BY DEF ToPersist
    <3>4. wanted' = wanted
      BY <1>4 DEF Browse
    <3> HIDE DEF list, d, file
    <3> QED BY <1>i, <2>3, <3>1, <3>2, <3>3, <3>4, SaveKeepsPage
  <2> QED BY <2>1, <2>2, <2>3
<1>5. ASSUME NEW h \in Host, TestConnection(h) PROVE PageInv'
  <2>1. PICK a \in Answers(h) :
          /\ items' = ItemsWith(h, a.to)
          /\ LET d == dirty \/ a.changed
             IN SaveIf(d, ToPersist(items', active, activePairing'), d)
    BY <1>5 DEF TestConnection
  <2> DEFINE d == dirty \/ a.changed
             file == ToPersist(items', active, activePairing')
  <2>2. SaveIf(d, file, d) /\ (~ d => ~ dirty)
    BY <2>1
  <2>3. SavedHosts(items') = SavedHosts(items)
    BY <1>i, <2>1, AnswerPairing, ItemsWithPairing
  <2>4. loaded => file = items'
    BY DEF ToPersist
  <2>5. loaded' = loaded /\ wanted' = wanted
    BY <1>5 DEF TestConnection
  <2> HIDE DEF d, file
  <2> QED BY <1>i, <2>2, <2>3, <2>4, <2>5, SaveKeepsPage
<1>6. ASSUME NEW h \in Host, DeleteHost(h) PROVE PageInv'
  <2> DEFINE file == ToPersist(items', active, activePairing)
  <2>1. SavedHosts(items') = SavedHosts(items) \ {h}
    BY <1>6, <1>i DEF DeleteHost, SavedHosts, TypeOK
  <2>2. SaveIf(TRUE, file, TRUE) /\ loaded' = loaded /\ wanted' = wanted \ {h}
    BY <1>6, SaveIsSaveIf DEF DeleteHost
  <2>3. loaded => file = items'
    BY DEF ToPersist
  <2> HIDE DEF file
  <2> QED BY <1>i, <2>1, <2>2, <2>3, SaveKeepsPage
<1> QED BY <1>1, <1>2, <1>3, <1>4, <1>5, <1>6 DEF HostCommand

-----------------------------------------------------------------------------
(* The pages of one host.                                                  *)

HoldInv == /\ AttemptHasItsHost
           /\ PagesHold
           /\ pc = "off" => attempt = NoHost

LEMMA HoldStep == HostsInv /\ [Next]_vars => HoldInv'
<1> SUFFICES ASSUME HostsInv, [Next]_vars PROVE HoldInv'
  OBVIOUS
<1> USE DEF pageVars, taskVars, fileVars, HostsInv, HoldInv, AttemptHasItsHost, PagesHold
<1>t. active \in Host \cup {NoHost} /\ loaded \in BOOLEAN
  BY DEF TypeOK
<1>n. NoHost \notin Host
  BY HostsAssumption
<1>1. ASSUME Ensure PROVE HoldInv'
  BY <1>1 DEF Ensure, Reload
<1>2. ASSUME FinishTasks PROVE HoldInv'
  <2>1. ASSUME PairingSucceeds PROVE HoldInv'
    BY <2>1 DEF PairingSucceeds
  <2>2. ASSUME ~ PairingSucceeds PROVE HoldInv'
    <3>1. /\ UNCHANGED <<screen, loaded, active>> /\ attempt' \in {NoHost, attempt}
          /\ pc' # "off"
      BY <1>2, <2>2 DEF FinishTasks, PairingFails, AppListFetched, AppListFailed, FinishArt,
         FinishDiscovery, TakeAnswer, EndRound, NoMoreResults
    <3> QED BY <3>1
  <2> QED BY <2>1, <2>2
<1>3. ASSUME StartTasks PROVE HoldInv'
  <2>1. UNCHANGED <<screen, loaded, active, attempt>> /\ pc' # "off"
    BY <1>3 DEF StartTasks, StartDiscovery, StartRound, StartAppList, StartArt, LeaveStart
  <2> QED BY <2>1
<1>4. ASSUME PageCommand PROVE HoldInv'
  <2>1. ASSUME OpenSettings PROVE HoldInv'
    BY <2>1 DEF OpenSettings, OnPage, UnloadHosts
  <2>2. ASSUME OpenAddHost PROVE HoldInv'
    BY <2>2 DEF OpenAddHost, OnPage
  <2>3. ASSUME Back PROVE HoldInv'
    <3>1. screen' = "hosts" /\ attempt' = NoHost /\ pc' # "off"
      BY <2>3 DEF Back, OnPage
    <3> QED BY <3>1
  <2>4. ASSUME CommandsDone PROVE HoldInv'
    BY <2>4 DEF CommandsDone
  <2> QED BY <1>4, <2>1, <2>2, <2>3, <2>4 DEF PageCommand
<1>5. ASSUME HostCommand PROVE HoldInv'
  <2>1. ASSUME NEW h \in Host, SaveHost(h) PROVE HoldInv'
    BY <2>1 DEF SaveHost, OnPage
  <2>2. ASSUME NEW h \in Host, StartPairing(h) PROVE HoldInv'
    BY <2>2, <1>n DEF StartPairing, OnPage
  <2>3. ASSUME NEW h \in Host, PairSelected(h) PROVE HoldInv'
    BY <2>3, <1>n DEF PairSelected, OnPage, UnloadHosts
  <2>4. ASSUME NEW h \in Host, Browse(h) PROVE HoldInv'
    <3>1. /\ screen = "hosts" /\ pc = "input" /\ UNCHANGED <<pc, attempt>>
          /\ \/ active' = h /\ screen' = "apps" /\ loaded' = FALSE
             \/ UNCHANGED <<screen, loaded, active>>
      BY <2>4 DEF Browse, OnPage, UnloadHosts
    <3> QED BY <3>1, <1>n
  <2>5. ASSUME NEW h \in Host, TestConnection(h) PROVE HoldInv'
    <3>1. UNCHANGED <<pc, screen, loaded, active, attempt>>
      BY <2>5 DEF TestConnection, OnPage
    <3> QED BY <3>1
  <2>6. ASSUME NEW h \in Host, DeleteHost(h) PROVE HoldInv'
    BY <2>6 DEF DeleteHost, OnPage
  <2> QED BY <1>5, <2>1, <2>2, <2>3, <2>4, <2>5, <2>6 DEF HostCommand
<1>6. ASSUME OtherCommand PROVE HoldInv'
  <2>1. ASSUME FactoryReset PROVE HoldInv'
    BY <2>1 DEF FactoryReset, OnPage
  <2>2. ASSUME ChangeApp \/ LaunchStream \/ DeleteHostsFile PROVE HoldInv'
    <3>1. UNCHANGED <<pc, screen, loaded, active>> /\ attempt' \in {NoHost, attempt}
      BY <2>2 DEF ChangeApp, LaunchStream, DeleteHostsFile, OnPage, NoTasks
    <3> QED BY <3>1
  <2> QED BY <1>6, <2>1, <2>2 DEF OtherCommand
<1>7. ASSUME SaveAtExit PROVE HoldInv'
  BY <1>7 DEF SaveAtExit, NoTasks
<1>8. ASSUME Boot PROVE HoldInv'
  BY <1>8 DEF Boot
<1>9. ASSUME UNCHANGED vars PROVE HoldInv'
  BY <1>9 DEF vars
<1> QED BY <1>1, <1>2, <1>3, <1>4, <1>5, <1>6, <1>7, <1>8, <1>9 DEF Next, Process

LEMMA InvStep == HostsInv /\ [Next]_vars => HostsInv'
<1> SUFFICES ASSUME HostsInv, [Next]_vars PROVE HostsInv'
  OBVIOUS
<1>1. TypeOK'
  BY TypeStep DEF HostsInv
<1>2. PageInv'
  <2>1. CASE UNCHANGED vars
    BY <2>1, SameHostsKeepPage DEF vars, pageVars, fileVars, HostsInv, PageInv
  <2> QED BY <2>1, PageFinish, PageStart, PagePage, PageHost, PageOther DEF Next
<1> QED BY <1>1, <1>2, HoldStep DEF HostsInv, PageInv, HoldInv

LEMMA InvHolds == Spec => []HostsInv
  BY InitHolds, InvStep, PTL DEF Spec

\* A loaded page that is clean agrees with the file unless a write failed.
THEOREM PageMatchesFile == Spec => []CleanPageMatchesFile
  BY InvHolds, PTL DEF HostsInv

\* A loaded page has every saved host that was not removed.
THEOREM PageCovers == Spec => []PageCoversFile
  BY InvHolds, PTL DEF HostsInv

\* A pairing attempt has the host whose page is open.
THEOREM AttemptIsCurrent == Spec => []AttemptHasItsHost
  BY InvHolds, PTL DEF HostsInv

\* The pages of one host have it and release the list.
THEOREM PagesHoldTheirHost == Spec => []PagesHold
  BY InvHolds, PTL DEF HostsInv

-----------------------------------------------------------------------------
(* Losses.                                                                 *)

LEMMA SaveLosesNothing ==
  ASSUME TypeOK, PageCoversFile, NEW c, NEW d, NEW list,
         NEW act \in Host \cup {NoHost}, NEW p \in {"unpaired", "paired"},
         SaveIf(c, ToPersist(list, act, p), d),
         loaded \/ act # NoHost,
         loaded => SavedHosts(items) \cap wanted' \subseteq SavedHosts(list),
         loaded => SavedHosts(disk) \cap wanted' \subseteq wanted \cup SavedHosts(list)
  PROVE  Forgets => torn'
<1>1. CASE UNCHANGED <<disk, torn>>
  BY <1>1 DEF Forgets
<1>2. CASE disk' = Nothing /\ torn' = TRUE
  BY <1>2
<1>3. CASE disk' = ToPersist(list, act, p) /\ loaded
  <2>1. disk' = list
    BY <1>3 DEF ToPersist
  <2> QED BY <1>3, <2>1 DEF Forgets, PageCoversFile
<1>4. CASE disk' = ToPersist(list, act, p) /\ ~ loaded
  <2>1. disk' = [disk EXCEPT ![act] = p]
    BY <1>4 DEF ToPersist
  <2>2. SavedHosts(disk) \subseteq SavedHosts(disk')
    BY <2>1 DEF SavedHosts, TypeOK
  <2> QED BY <2>2 DEF Forgets
<1> QED BY <1>1, <1>2, <1>3, <1>4 DEF SaveIf, Save, Written, WriteFails

\* No step but the ones the user asked for, and the save at exit, drops a
\* saved host from the file while the list or a snapshot is held.
THEOREM Losses == Spec => LossesAreRequested
<1> DEFINE Held == loaded \/ active # NoHost
           Kept == Forgets => torn'
<1> SUFFICES ASSUME HostsInv, [Next]_vars, Held, pc # "exit" PROVE Kept
  BY InvHolds, PTL DEF Spec, LossesAreRequested
<1> USE DEF pageVars, taskVars, fileVars
<1>i. /\ TypeOK /\ PageCoversFile
      /\ active \in Host \cup {NoHost} /\ activePairing \in {"unpaired", "paired"}
      /\ "paired" \in Pairing /\ "unpaired" \in Pairing
      /\ "paired" # "absent" /\ "unpaired" # "absent"
  BY DEF HostsInv, TypeOK, Pairing
<1>t. TypeOK'
  BY TypeStep DEF HostsInv
<1>d. ASSUME disk' = disk \/ wanted' = {} PROVE Kept
  BY <1>d DEF Forgets
<1>1. ASSUME Ensure \/ StartTasks \/ PageCommand \/ UNCHANGED vars PROVE Kept
  <2>1. disk' = disk
    BY <1>1 DEF Ensure, StartTasks, StartDiscovery, StartRound, StartAppList, StartArt,
       LeaveStart, PageCommand, OpenSettings, OpenAddHost, Back, CommandsDone, vars
  <2> QED BY <2>1, <1>d
<1>2. ASSUME PairingSucceeds PROVE Kept
  <2>1. CASE RecordOf(attempt) = "absent"
    BY <1>2, <1>d, <2>1 DEF PairingSucceeds
  <2>2. CASE RecordOf(attempt) # "absent"
    <3>1. attempt \in Host
      BY <1>i, <1>2 DEF PairingSucceeds, TypeOK
    <3>2. SavedHosts(items') = SavedHosts(items) /\ activePairing' \in {"unpaired", "paired"}
      BY <1>2, <1>i, <2>2, <3>1, ItemsWithPairing DEF PairingSucceeds
    <3>3. SaveIf(TRUE, ToPersist(items', active, activePairing'), TRUE) /\ wanted' = wanted
      BY <1>2, <2>2, SaveIsSaveIf DEF PairingSucceeds
    <3> QED BY <1>i, <3>2, <3>3, SaveLosesNothing
  <2> QED BY <2>1, <2>2
<1>3. ASSUME PairingFails \/ AppListFailed \/ FinishArt \/ NoMoreResults PROVE Kept
  BY <1>3, <1>d DEF PairingFails, AppListFailed, FinishArt, NoMoreResults
<1>4. ASSUME AppListFetched PROVE Kept
  <2>1. appList \in Host /\ wanted' = wanted
    BY <1>i, <1>4 DEF AppListFetched, TypeOK
  <2>2. PICK a \in Answers(appList), newList \in BOOLEAN :
          /\ items' = ItemsWith(appList, a.to)
          /\ activePairing' = ActiveWith(appList, a.to)
          /\ LET d == dirty \/ a.changed \/ (newList /\ TakesAppList(appList))
             IN SaveIf(d, ToPersist(items', active, activePairing'), d)
    BY <1>4 DEF AppListFetched
  <2>3. SavedHosts(items') = SavedHosts(items) /\ activePairing' \in {"unpaired", "paired"}
    BY <1>i, <2>1, <2>2, AnswerPairing, ItemsWithPairing
  <2>4. PICK d : SaveIf(d, ToPersist(items', active, activePairing'), d)
    BY <2>2
  <2> QED BY <1>i, <2>1, <2>3, <2>4, SaveLosesNothing
<1>5. ASSUME FinishDiscovery PROVE Kept
  <2>1. CASE screen = "hosts" /\ loaded
    <3>1. PICK hosts \in SUBSET Host, renamed \in BOOLEAN :
              LET new     == {h \in hosts : ~ Found(h)}
                  changed == new # {} \/ (renamed /\ hosts # {})
              IN /\ items' = [h \in Host |-> IF h \in new THEN "unpaired" ELSE items[h]]
                 /\ wanted' = wanted \cup new
                 /\ SaveIf(changed, items', dirty \/ changed)
      BY <1>5, <2>1 DEF FinishDiscovery
    <3> DEFINE new == {h \in hosts : ~ Found(h)}
    <3>2. SavedHosts(items') = SavedHosts(items) \cup new /\ wanted' = wanted \cup new
      BY <1>i, <3>1 DEF SavedHosts, Found
    <3>3. PICK c, d : SaveIf(c, items', d)
      BY <3>1
    <3>4. ToPersist(items', active, activePairing) = items'
      BY <2>1 DEF ToPersist
    <3> HIDE DEF new
    <3> QED BY <1>i, <3>2, <3>3, <3>4, SaveLosesNothing
  <2>2. CASE ~ (screen = "hosts" /\ loaded)
    BY <1>5, <1>d, <2>2 DEF FinishDiscovery
  <2> QED BY <2>1, <2>2
<1>6. ASSUME NEW h \in Host, TakeAnswer(h) PROVE Kept
  BY <1>6, <1>d DEF TakeAnswer
<1>7. ASSUME EndRound PROVE Kept
  BY <1>7, <1>i, SaveLosesNothing DEF EndRound
<1>8. ASSUME NEW h \in Host, SaveHost(h) PROVE Kept
  <2> DEFINE list == [items EXCEPT ![h] = "unpaired"]
             file == ToPersist(list, active, activePairing)
  <2>1. Written(file) \/ WriteFails
    BY <1>8 DEF SaveHost, Save
  <2>2. PICK d : SaveIf(TRUE, file, d)
    <3> HIDE DEF file
    <3>1. PICK d : d = dirty'
      OBVIOUS
    <3>2. CASE Written(file)
      BY <1>8, <3>2 DEF SaveHost, Save, SaveIf, Reload
    <3>3. CASE WriteFails
      BY <3>1, <3>3 DEF Save, SaveIf
    <3> QED BY <2>1, <3>2, <3>3
  <2>3. SavedHosts(list) = SavedHosts(items) \cup {h}
    BY <1>i DEF SavedHosts, TypeOK
  <2>4. wanted' = wanted \cup {h}
    BY <1>8 DEF SaveHost
  <2> HIDE DEF list
  <2> QED BY <1>i, <2>2, <2>3, <2>4, SaveLosesNothing
<1>9. ASSUME NEW h \in Host, StartPairing(h) PROVE Kept
  <2> DEFINE list == IF Found(h) THEN items ELSE [items EXCEPT ![h] = "unpaired"]
  <2>1. /\ SavedHosts(list) = SavedHosts(items) \cup {h}
        /\ SavedHosts([list EXCEPT ![h] = "unpaired"]) = SavedHosts(list)
        /\ list[h] \in {"unpaired", "paired"}
    BY <1>i DEF SavedHosts, Found, TypeOK, Pairing
  <2>2. wanted' = wanted \cup {h}
    BY <1>9 DEF StartPairing
  <2>3. \/ \E d : SaveIf(~ Found(h), ToPersist(list, active, activePairing), d)
        \/ /\ items' = list \/ items' = [list EXCEPT ![h] = "unpaired"]
           /\ \E d : SaveIf(~ Found(h), ToPersist(items', h, list[h]), d)
    BY <1>9 DEF StartPairing
  <2> HIDE DEF list
  <2>4. CASE \E d : SaveIf(~ Found(h), ToPersist(list, active, activePairing), d)
    BY <1>i, <2>1, <2>2, <2>4, SaveLosesNothing
  <2>5. CASE /\ items' = list \/ items' = [list EXCEPT ![h] = "unpaired"]
             /\ \E d : SaveIf(~ Found(h), ToPersist(items', h, list[h]), d)
    <3>1. SavedHosts(items') = SavedHosts(items) \cup {h}
      BY <2>1, <2>5
    <3> QED BY <1>i, <2>1, <2>2, <2>5, <3>1, HostsAssumption, SaveLosesNothing
  <2> QED BY <2>3, <2>4, <2>5
<1>10. ASSUME NEW h \in Host, PairSelected(h) PROVE Kept
  BY <1>10, <1>d DEF PairSelected
<1>11. ASSUME NEW h \in Host, Browse(h) PROVE Kept
  <2>1. PICK a \in Answers(h) :
          LET d == dirty \/ a.changed
              list == ItemsWith(h, a.to)
          IN SaveIf(d, ToPersist(list, active, activePairing), d)
    BY <1>11 DEF Browse
  <2> DEFINE list == ItemsWith(h, a.to)
  <2>2. PICK d : SaveIf(d, ToPersist(list, active, activePairing), d)
    BY <2>1
  <2>3. SavedHosts(list) = SavedHosts(items)
    BY <1>i, AnswerPairing, ItemsWithPairing
  <2>4. wanted' = wanted
    BY <1>11 DEF Browse
  <2> HIDE DEF list
  <2> QED BY <1>i, <2>2, <2>3, <2>4, SaveLosesNothing
<1>12. ASSUME NEW h \in Host, TestConnection(h) PROVE Kept
  <2>1. PICK a \in Answers(h) :
          /\ items' = ItemsWith(h, a.to)
          /\ activePairing' = ActiveWith(h, a.to)
          /\ LET d == dirty \/ a.changed
             IN SaveIf(d, ToPersist(items', active, activePairing'), d)
    BY <1>12 DEF TestConnection
  <2>2. PICK d : SaveIf(d, ToPersist(items', active, activePairing'), d)
    BY <2>1
  <2>3. SavedHosts(items') = SavedHosts(items) /\ activePairing' \in {"unpaired", "paired"}
    BY <1>i, <2>1, AnswerPairing, ItemsWithPairing
  <2>4. wanted' = wanted
    BY <1>12 DEF TestConnection
  <2> QED BY <1>i, <2>2, <2>3, <2>4, SaveLosesNothing
<1>13. ASSUME NEW h \in Host, DeleteHost(h) PROVE Kept
  <2>1. SavedHosts(items') = SavedHosts(items) \ {h} /\ wanted' = wanted \ {h}
    BY <1>13, <1>i DEF DeleteHost, SavedHosts, TypeOK
  <2>2. SaveIf(TRUE, ToPersist(items', active, activePairing), TRUE)
    BY <1>13, SaveIsSaveIf DEF DeleteHost
  <2> QED BY <1>i, <2>1, <2>2, SaveLosesNothing
<1>14. ASSUME ChangeApp PROVE Kept
  <2>1. SaveIf(TRUE, ToPersist(items, active, activePairing), TRUE) /\ wanted' = wanted
    BY <1>14, SaveIsSaveIf DEF ChangeApp
  <2> QED BY <1>i, <2>1, SaveLosesNothing
<1>15. ASSUME LaunchStream \/ DeleteHostsFile \/ FactoryReset PROVE Kept
  <2>1. disk' = disk \/ wanted' = {}
    BY <1>15 DEF LaunchStream, DeleteHostsFile, FactoryReset
  <2> QED BY <2>1, <1>d
<1>16. ASSUME Process PROVE Kept
  <2>1. disk' = disk
    BY <1>16 DEF Process, SaveAtExit, Boot
  <2> QED BY <2>1, <1>d
<1> QED
  BY <1>1, <1>2, <1>3, <1>4, <1>5, <1>6, <1>7, <1>8, <1>9, <1>10, <1>11, <1>12, <1>13,
     <1>14, <1>15, <1>16 DEF Next, FinishTasks, HostCommand, OtherCommand
=============================================================================

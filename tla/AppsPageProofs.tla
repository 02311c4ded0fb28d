--------------------------- MODULE AppsPageProofs ---------------------------
(* The safety properties of AppsPage, for any hosts and apps.  The records   *)
(* are treated as a whole: one that is sound for its host stays sound under  *)
(* every operation, and the steps only combine the operations.               *)
EXTENDS AppsPage, TLAPS

\* An answer that fits the host it was asked for.
Fits(h, t, files) ==
    /\ t.apps \subseteq AppsOf(h) /\ t.apps \subseteq App
    /\ t.cached \subseteq t.apps /\ t.cached \subseteq files

LEMMA BlankIsSound == ASSUME NEW h, NEW files PROVE Sound(h, Blank, files)
  BY DEF Sound, Blank, Record

LEMMA ToldIsSound ==
    ASSUME NEW h, NEW files, NEW r, NEW info, Sound(h, r, files)
    PROVE  Sound(h, Told(r, info), files)
<1>1. Sound(h, [r EXCEPT !.paired = TRUE], files)
  BY DEF Sound, Record
<1> QED
  BY <1>1, BlankIsSound DEF Told

LEMMA MergedIsSound ==
    ASSUME NEW h, NEW files, NEW r, NEW t, Sound(h, r, files), Fits(h, t, files)
    PROVE  Sound(h, Merged(r, t), files)
  BY DEF Sound, Fits, Merged, Record

LEMMA ListedIsSound ==
    ASSUME NEW h, NEW files, NEW r, NEW t, Sound(h, r, files), Fits(h, t, files)
    PROVE  Sound(h, Listed(r, t), files)
  BY MergedIsSound, BlankIsSound DEF Listed

LEMMA FlaggedIsSound ==
    ASSUME NEW h, NEW files, NEW r, NEW saved, Sound(h, r, files), saved \subseteq files
    PROVE  Sound(h, [r EXCEPT !.cached = @ \cup (saved \cap r.apps)], files)
  BY DEF Sound, Record

LEMMA FavoredIsSound ==
    ASSUME NEW h, NEW files, NEW r, NEW app, Sound(h, r, files), app \in r.apps
    PROVE  Sound(h, [r EXCEPT !.favorite = IF app \in @ THEN @ \ {app} ELSE @ \cup {app}], files)
  BY DEF Sound, Record

LEMMA UnflaggedIsSound ==
    ASSUME NEW h, NEW files, NEW r, NEW app, Sound(h, r, files)
    PROVE  Sound(h, [r EXCEPT !.cached = @ \ {app}], files)
  BY DEF Sound, Record

\* More files keep records sound.
LEMMA SoundGrows ==
    ASSUME NEW files, NEW more, files \subseteq more
    PROVE  /\ \A h, r : Sound(h, r, files) => Sound(h, r, more)
           /\ \A recs : AllSound(recs, files) => AllSound(recs, more)
  BY DEF Sound, AllSound

LEMMA NoItemsSound == ASSUME NEW files PROVE AllSound(NoItems, files)
  BY DEF AllSound, NoItems

LEMMA AllSoundExcept ==
    ASSUME NEW files, NEW recs, NEW h \in DOMAIN recs, NEW r,
           AllSound(recs, files), Sound(h, r, files)
    PROVE  AllSound([recs EXCEPT ![h] = r], files)
  BY DEF AllSound

\* The sets of the type invariant hold exactly the lists of typed records.
LEMMA SoundIsTyped ==
    ASSUME NEW recs
    PROVE  recs \in Records <=> /\ recs = [h \in DOMAIN recs |-> recs[h]]
                                /\ DOMAIN recs \subseteq Host
                                /\ \A h \in DOMAIN recs : recs[h] \in Record
<1>1. ASSUME recs \in Records
      PROVE  /\ recs = [h \in DOMAIN recs |-> recs[h]]
             /\ DOMAIN recs \subseteq Host
             /\ \A h \in DOMAIN recs : recs[h] \in Record
  <2>1. PICK hosts \in SUBSET Host : recs \in [hosts -> Record]
    BY <1>1, Zenon DEF Records
  <2> QED
    BY <2>1
<1>2. ASSUME recs = [h \in DOMAIN recs |-> recs[h]], DOMAIN recs \subseteq Host,
             \A h \in DOMAIN recs : recs[h] \in Record
      PROVE  recs \in Records
  <2>1. recs \in [DOMAIN recs -> Record]
    BY <1>2
  <2> QED
    BY <1>2, <2>1, Zenon DEF Records
<1> QED
  BY <1>1, <1>2

-----------------------------------------------------------------------------
(* The inductive invariant: AppsInv with records for its sets of lists.     *)

Scalars ==
    /\ pc \in {"finishList", "finishArt", "startList", "startArt", "input",
               "joinForStream", "joinForExit", "off"}
    /\ page \in {"hosts", "apps", "settings"}
    /\ active \in Host \cup {NoHost}
    /\ list \in {"idle", "loading", "ready", "failed"}
    /\ dirty \in BOOLEAN
    /\ art \subseteq App /\ deleted \subseteq App
    /\ forgotten \subseteq {"list", "art"}

TasksInv ==
    /\ listTask \in ListTask /\ artTask \in ArtTask
    /\ TaskInv
    /\ listTask.cached \subseteq Files /\ artTask.saved \subseteq Files

Core == Scalars /\ TasksInv /\ PageInv /\ RecordsInv /\ LoadingIsFetched

LEMMA HeldIsTyped == RecordsInv => /\ snapshot \in Record
                                   /\ snapshot.cached \subseteq Files
<1>1. ASSUME RecordsInv
      PROVE  snapshot \in Record /\ snapshot.cached \subseteq Files
  <2>1. CASE active = NoHost
    BY <1>1, <2>1, BlankIsSound DEF RecordsInv, Sound
  <2>2. CASE active # NoHost
    BY <1>1, <2>2 DEF RecordsInv, Sound
  <2> QED
    BY <2>1, <2>2
<1> QED
  BY <1>1

LEMMA CoreIsInv == Core => AppsInv /\ ListsBelongToHosts
<1> SUFFICES ASSUME Core PROVE AppsInv /\ ListsBelongToHosts
  OBVIOUS
<1>1. items \in Records /\ file \in Records
  BY SoundIsTyped DEF Core, RecordsInv, AllSound, Sound
<1>2. TypeOK
  BY <1>1, HeldIsTyped, Zenon DEF TypeOK, Core, Scalars, TasksInv
<1>3. FlagsHaveFiles
  BY HeldIsTyped DEF FlagsHaveFiles, Core, TasksInv, RecordsInv, AllSound, Sound, Files
<1>4. ListsBelongToHosts
  BY DEF ListsBelongToHosts, Core, RecordsInv, AllSound, Sound
<1> QED
  BY <1>2, <1>3, <1>4, Zenon DEF AppsInv, Core, TasksInv

LEMMA InitCore == Init => Core
<1> SUFFICES ASSUME Init PROVE Core
  OBVIOUS
<1> USE DEF Init
<1>1. Scalars
  BY DEF Scalars
<1>2. TasksInv
  BY AppsAssumption DEF TasksInv, ListTask, ArtTask, NoListTask, NoArtTask, TaskInv, Stage, Files
<1>3. PageInv
  BY DEF PageInv
<1>4. RecordsInv
  <2>1. \A h \in Host : Sound(h, [Blank EXCEPT !.paired = TRUE], Files)
    BY DEF Sound, Blank, Record
  <2> QED
    BY <2>1 DEF RecordsInv, AllSound
<1>5. LoadingIsFetched
  BY DEF LoadingIsFetched
<1> QED
  BY <1>1, <1>2, <1>3, <1>4, <1>5 DEF Core

-----------------------------------------------------------------------------
(* Every step keeps the invariant.                                         *)

LEMMA AnswerFits ==
    ASSUME Core, listTask.stage # "none"
    PROVE  listTask.host \in Host /\ Fits(listTask.host, listTask, Files)
  BY AppsAssumption DEF Core, TasksInv, TaskInv, Fits, ListTask

\* Steps that leave the records and the files alone.
LEMMA RecordsKept ==
    ASSUME RecordsInv, UNCHANGED <<items, file, active, snapshot, art, deleted>>
    PROVE  RecordsInv'
  BY DEF RecordsInv, AllSound, Sound, Files

LEMMA TasksKept ==
    ASSUME TasksInv, UNCHANGED <<listTask, artTask, art, deleted>>
    PROVE  TasksInv'
  BY DEF TasksInv, TaskInv, Files

\* The threads.
LEMMA ListThreadKeeps == ASSUME Core, ListThread PROVE Core'
<1>1. CASE FetchList
  <2> USE DEF FetchList
  <2>1. TasksInv'
    <3>1. listTask.stage = "running" /\ UNCHANGED <<art, artTask, deleted>>
      BY <1>1
    <3>2. CASE \E info \in {"none", "paired", "unpaired"}, answer \in {"error", "rejected"} :
                 listTask' = [listTask EXCEPT !.stage = "fetched", !.info = info, !.answer = answer]
      BY <3>1, <3>2 DEF Core, TasksInv, TaskInv, ListTask, Stage, Files
    <3>3. CASE \E info \in {"none", "paired", "unpaired"}, apps \in SUBSET AppsOf(listTask.host) :
                 listTask' = [listTask EXCEPT !.stage = "fetched", !.info = info, !.answer = "apps",
                                              !.apps = apps, !.cached = apps \cap art]
      <4>1. listTask.host \in Host /\ listTask.host # NoHost
        BY <3>1, AppsAssumption DEF Core, TasksInv, TaskInv
      <4>2. AppsOf(listTask.host) \subseteq App
        BY <4>1 DEF AppsOf, App
      <4>3. PICK info \in {"none", "paired", "unpaired"}, apps \in SUBSET AppsOf(listTask.host) :
                listTask' = [listTask EXCEPT !.stage = "fetched", !.info = info, !.answer = "apps",
                                             !.apps = apps, !.cached = apps \cap art]
        BY <3>3
      <4>4. listTask \in ListTask
        BY DEF Core, TasksInv
      <4>5. listTask' \in ListTask
        BY <4>2, <4>3, <4>4 DEF ListTask, Stage
      <4>6. /\ listTask'.host = listTask.host /\ listTask'.stage = "fetched"
            /\ listTask'.apps = apps /\ listTask'.cached = apps \cap art
        BY <4>3, <4>4 DEF ListTask
      <4>7. TaskInv'
        BY <3>1, <4>1, <4>3, <4>6 DEF Core, TasksInv, TaskInv
      <4> QED
        BY <3>1, <4>3, <4>5, <4>6, <4>7, Zenon DEF Core, TasksInv, Files
    <3> QED
      BY <1>1, <3>2, <3>3
  <2>2. RecordsInv'
    BY <1>1, RecordsKept DEF Core, pageVars
  <2>3. listTask'.stage = "fetched"
    BY <1>1 DEF Core, TasksInv, ListTask
  <2> QED
    BY <1>1, <2>1, <2>2, <2>3 DEF Core, Scalars, PageInv, LoadingIsFetched, pageVars
<1>2. CASE CompleteList
  <2> USE DEF CompleteList
  <2>1. TasksInv'
    BY <1>2 DEF Core, TasksInv, TaskInv, ListTask, Stage, Files
  <2>2. RecordsInv'
    BY <1>2, RecordsKept DEF Core, pageVars
  <2>3. listTask'.stage = "completed"
    BY <1>2 DEF Core, TasksInv, ListTask
  <2> QED
    BY <1>2, <2>1, <2>2, <2>3 DEF Core, Scalars, PageInv, LoadingIsFetched, pageVars
<1> QED
  BY <1>1, <1>2 DEF ListThread

LEMMA ArtThreadKeeps == ASSUME Core, ArtThread PROVE Core'
<1>1. CASE CompleteArt
  <2> USE DEF CompleteArt
  <2>1. TasksInv'
    BY <1>1 DEF Core, TasksInv, TaskInv, ArtTask, Stage, Files
  <2>2. RecordsInv'
    BY <1>1, RecordsKept DEF Core, pageVars
  <2> QED
    BY <1>1, <2>1, <2>2 DEF Core, Scalars, PageInv, LoadingIsFetched, pageVars
<1>2. ASSUME NEW app \in App, FetchArt(app) PROVE Core'
  <2> USE DEF FetchArt
  <2>1. Files \subseteq Files' /\ Scalars'
    BY <1>2 DEF Files, Core, Scalars, pageVars
  <2>2. TasksInv'
    <3>1. artTask \in ArtTask /\ artTask.stage = "running"
      BY <1>2 DEF Core, TasksInv
    <3>2. /\ artTask' \in ArtTask
          /\ artTask'.host = artTask.host /\ artTask'.stage = "running"
          /\ artTask'.saved \subseteq Files'
      <4>1. CASE /\ artTask' = [artTask EXCEPT !.todo = @ \ {app}, !.saved = @ \cup {app}]
                 /\ art' = art \cup {app}
        BY <1>2, <3>1, <4>1 DEF ArtTask, Core, TasksInv, Files
      <4>2. CASE /\ artTask' = [artTask EXCEPT !.todo = @ \ {app}]
                 /\ art' = art
        BY <1>2, <3>1, <4>2 DEF ArtTask, Core, TasksInv, Files
      <4> QED
        BY <1>2, <4>1, <4>2
    <3>3. listTask' = listTask
      BY <1>2
    <3> QED
      BY <2>1, <3>1, <3>2, <3>3 DEF Core, TasksInv, TaskInv
  <2>3. RecordsInv'
    <3>1. AllSound(items, Files') /\ AllSound(file, Files')
      BY <2>1, SoundGrows DEF Core, RecordsInv
    <3>2. active # NoHost => Sound(active, snapshot, Files')
      BY <2>1, SoundGrows DEF Core, RecordsInv
    <3>3. UNCHANGED <<items, file, active, snapshot>>
      BY <1>2 DEF pageVars
    <3> QED
      BY <3>1, <3>2, <3>3 DEF Core, RecordsInv
  <2> QED
    BY <1>2, <2>1, <2>2, <2>3 DEF Core, PageInv, LoadingIsFetched, pageVars
<1> QED
  BY <1>1, <1>2 DEF ArtThread

\* What is saved is sound when the page, the snapshot and the file are.
LEMMA PersistIsSound ==
    ASSUME NEW files, NEW its, NEW snap, active \in Host \cup {NoHost},
           AllSound(its, files), AllSound(file, files),
           active # NoHost => Sound(active, snap, files)
    PROVE  AllSound(ToPersist(its, snap), files)
<1>1. CASE Loaded \/ active = NoHost
  BY <1>1 DEF ToPersist
<1>2. CASE ~ Loaded /\ active # NoHost
  <2>1. ToPersist(its, snap) = [h \in DOMAIN file \cup {active} |->
                                  IF h = active THEN snap ELSE file[h]]
    BY <1>2 DEF ToPersist
  <2> QED
    BY <1>2, <2>1 DEF AllSound
<1> QED
  BY <1>1, <1>2

LEMMA PersistIfSound ==
    ASSUME NEW cond, NEW d \in BOOLEAN, PersistIf(cond, d),
           active \in Host \cup {NoHost}, AllSound(items', Files), AllSound(file, Files),
           active # NoHost => Sound(active, snapshot', Files)
    PROVE  AllSound(file', Files) /\ dirty' \in BOOLEAN
<1>1. CASE cond
  BY <1>1, PersistIsSound DEF PersistIf
<1>2. CASE ~ cond
  BY <1>2 DEF PersistIf
<1> QED
  BY <1>1, <1>2

\* Empty slots satisfy their part.
LEMMA NoListTaskFits ==
    ASSUME TasksInv, listTask' = NoListTask, UNCHANGED <<artTask, art, deleted>>
    PROVE  TasksInv'
  BY AppsAssumption DEF TasksInv, TaskInv, ListTask, NoListTask, Stage, Files

LEMMA NoArtTaskFits ==
    ASSUME TasksInv, artTask' = NoArtTask, UNCHANGED <<listTask, art, deleted>>
    PROVE  TasksInv'
  BY AppsAssumption DEF TasksInv, TaskInv, ArtTask, NoArtTask, Stage, Files

LEMMA FinishListKeeps == ASSUME Core, FinishList PROVE Core'
<1> DEFINE h     == listTask.host
           saved == h \in DOMAIN items
           here  == ~ saved /\ OnAppsPage(h)
           old   == IF saved THEN items[h] ELSE snapshot
           told  == Told(old, listTask.info)
           rec   == Listed(told, listTask)
<1>1. /\ pc' = "finishArt" /\ listTask' = NoListTask
      /\ items' = IF saved THEN [items EXCEPT ![h] = rec] ELSE items
      /\ snapshot' = IF here THEN rec ELSE snapshot
      /\ list' = IF here THEN ListStateOf(told, listTask) ELSE list
      /\ UNCHANGED <<page, active, art, artTask, forgotten, deleted>>
  BY Zenon DEF FinishList
<1>2. h \in Host /\ h # NoHost /\ Fits(h, listTask, Files)
  BY AnswerFits, AppsAssumption DEF FinishList
<1>3. \E cond, d \in BOOLEAN : PersistIf(cond, d)
  <2>1. \E noted \in BOOLEAN :
          LET d == \/ dirty
                   \/ (saved \/ here) /\ (\/ noted \/ told # old
                                          \/ listTask.info = "unpaired"
                                          \/ Dirties(told, listTask))
          IN PersistIf(d /\ listTask.answer = "apps", d)
    BY DEF FinishList
  <2> QED
    BY <2>1
<1>4. saved \/ here => Sound(h, rec, Files)
  <2>1. saved => Sound(h, items[h], Files)
    BY DEF Core, RecordsInv, AllSound
  <2>2. here => Sound(h, snapshot, Files)
    BY <1>2 DEF Core, RecordsInv, OnAppsPage
  <2>3. saved \/ here => Sound(h, old, Files)
    BY <2>1, <2>2
  <2>4. saved \/ here => Sound(h, told, Files)
    BY <2>3, ToldIsSound
  <2> HIDE DEF told, old
  <2> QED
    BY <1>2, <2>4, ListedIsSound
<1> HIDE DEF rec, told, old
<1>5. AllSound(items', Files)
  <2>1. CASE saved
    BY <1>1, <1>4, <2>1, AllSoundExcept DEF Core, RecordsInv
  <2>2. CASE ~ saved
    BY <1>1, <2>2 DEF Core, RecordsInv
  <2> QED
    BY <2>1, <2>2
<1>6. IF active = NoHost THEN snapshot' = Blank ELSE Sound(active, snapshot', Files)
  <2>1. CASE here
    <3>1. active = h
      BY <2>1 DEF OnAppsPage
    <3> QED
      BY <1>1, <1>2, <1>4, <2>1, <3>1
  <2>2. CASE ~ here
    BY <1>1, <2>2 DEF Core, RecordsInv
  <2> QED
    BY <2>1, <2>2
<1>7. AllSound(file', Files) /\ dirty' \in BOOLEAN
  BY <1>3, <1>5, <1>6, PersistIfSound DEF Core, Scalars, RecordsInv
<1>8. RecordsInv'
  BY <1>1, <1>5, <1>6, <1>7 DEF RecordsInv, Files
<1>9. TasksInv'
  BY <1>1, NoListTaskFits DEF Core
<1>10. list' \in {"idle", "loading", "ready", "failed"}
  BY <1>1 DEF Core, Scalars, ListStateOf
<1> QED
  BY <1>1, <1>7, <1>8, <1>9, <1>10 DEF Core, Scalars, PageInv, LoadingIsFetched

LEMMA FinishArtKeeps == ASSUME Core, FinishArt PROVE Core'
<1> DEFINE h == artTask.host
           Flagged(rec) == [rec EXCEPT !.cached = @ \cup (artTask.saved \cap rec.apps)]
<1>1. /\ pc' = "startList" /\ artTask' = NoArtTask
      /\ items' = IF h \in DOMAIN items THEN [items EXCEPT ![h] = Flagged(items[h])] ELSE items
      /\ snapshot' = IF h \notin DOMAIN items /\ OnAppsPage(h) THEN Flagged(snapshot)
                     ELSE snapshot
      /\ dirty' = (dirty \/ items' # items \/ snapshot' # snapshot)
      /\ UNCHANGED <<page, active, list, file, art, listTask, forgotten, deleted>>
  BY DEF FinishArt
<1>2. ASSUME NEW g, NEW r, Sound(g, r, Files)
      PROVE  Sound(g, Flagged(r), Files)
  BY <1>2, FlaggedIsSound DEF Core, TasksInv
<1>3. AllSound(items', Files)
  <2>1. CASE h \in DOMAIN items
    <3>1. Sound(h, Flagged(items[h]), Files)
      BY <1>2, <2>1 DEF Core, RecordsInv, AllSound
    <3> HIDE DEF Flagged
    <3> QED
      BY <1>1, <2>1, <3>1, AllSoundExcept DEF Core, RecordsInv
  <2>2. CASE h \notin DOMAIN items
    BY <1>1, <2>2 DEF Core, RecordsInv
  <2> QED
    BY <2>1, <2>2
<1>4. IF active = NoHost THEN snapshot' = Blank ELSE Sound(active, snapshot', Files)
  <2>1. CASE h \notin DOMAIN items /\ OnAppsPage(h)
    <3>1. active # NoHost
      BY <2>1 DEF OnAppsPage, Core, PageInv
    <3>2. Sound(active, Flagged(snapshot), Files)
      BY <1>2, <3>1 DEF Core, RecordsInv
    <3> HIDE DEF Flagged
    <3> QED
      BY <1>1, <2>1, <3>1, <3>2
  <2>2. CASE ~ (h \notin DOMAIN items /\ OnAppsPage(h))
    <3>1. snapshot' = snapshot
      BY <1>1, <2>2
    <3> QED
      BY <3>1 DEF Core, RecordsInv
  <2> QED
    BY <2>1, <2>2
<1>5. RecordsInv'
  BY <1>1, <1>3, <1>4 DEF Core, RecordsInv, Files
<1>6. TasksInv'
  BY <1>1, NoArtTaskFits DEF Core
<1> HIDE DEF Flagged
<1>7. dirty' \in BOOLEAN
  BY <1>1
<1> QED
  BY <1>1, <1>5, <1>6, <1>7 DEF Core, Scalars, PageInv, LoadingIsFetched

\* The other steps of a pass.
LEMMA PassKeeps == ASSUME Core, Pass PROVE Core'
<1>1. CASE NotCompleted
  <2> USE DEF NotCompleted
  <2>1. UNCHANGED <<pageVars, file, art, taskVars, deleted>> /\ pc' \in {"finishArt", "startList"}
    BY <1>1
  <2> QED
    BY <2>1, RecordsKept, TasksKept
    DEF Core, Scalars, PageInv, LoadingIsFetched, pageVars, taskVars
<1>2. CASE StartList
  <2>1. /\ pc' = "startArt"
        /\ UNCHANGED <<page, items, active, snapshot, dirty, file, art, artTask, deleted>>
        /\ forgotten' = Dropped(listTask, "list")
        /\ active # NoHost
    BY <1>2 DEF StartList, ListWanted
  <2>2. forgotten' \subseteq {"list", "art"}
    BY <2>1 DEF Dropped, Core, Scalars
  <2>3. RecordsInv'
    BY <2>1, RecordsKept DEF Core
  <2>4. CASE /\ listTask' = [NoListTask EXCEPT !.stage = "running", !.host = active]
             /\ list' = "loading"
    <3>1. /\ listTask' \in ListTask
          /\ listTask'.stage = "running" /\ listTask'.host = active
          /\ listTask'.apps = {} /\ listTask'.cached = {}
      BY <2>4 DEF Core, Scalars, ListTask, NoListTask, Stage
    <3>2. TasksInv'
      BY <2>1, <3>1 DEF Core, Scalars, TasksInv, TaskInv, Files
    <3> QED
      BY <2>1, <2>2, <2>3, <2>4, <3>1, <3>2 DEF Core, Scalars, PageInv, LoadingIsFetched
  <2>5. CASE listTask' = NoListTask /\ list' = "failed"
    BY <2>1, <2>2, <2>3, <2>5, NoListTaskFits DEF Core, Scalars, PageInv, LoadingIsFetched
  <2> QED
    BY <1>2, <2>4, <2>5 DEF StartList
<1>3. CASE SkipList
  <2>1. /\ pc' = "startArt" /\ (ListWanted => list # "loading")
        /\ UNCHANGED <<pageVars, file, art, taskVars, deleted>>
    BY <1>3 DEF SkipList
  <2>2. LoadingIsFetched'
    BY <2>1 DEF LoadingIsFetched, ListWanted, InProgress, Core, PageInv, pageVars, taskVars
  <2> QED
    BY <2>1, <2>2, RecordsKept, TasksKept DEF Core, Scalars, PageInv, pageVars, taskVars
<1>4. CASE StartArt
  <2>1. /\ pc' = "input"
        /\ UNCHANGED <<pageVars, file, art, listTask, deleted>>
        /\ forgotten' = Dropped(artTask, "art")
        /\ active # NoHost
        /\ artTask' \in {NoArtTask,
                         [NoArtTask EXCEPT !.stage = "running", !.host = active,
                                           !.todo = snapshot.apps \ snapshot.cached]}
    BY <1>4 DEF StartArt, ArtWanted
  <2>2. forgotten' \subseteq {"list", "art"}
    BY <2>1 DEF Dropped, Core, Scalars
  <2>3. snapshot.apps \subseteq App
    BY HeldIsTyped DEF Core, Record
  <2>4. /\ artTask' \in ArtTask /\ artTask'.saved = {}
        /\ artTask'.stage # "none" => artTask'.host \in Host
    <3>1. CASE artTask' = NoArtTask
      BY <3>1, AppsAssumption DEF ArtTask, NoArtTask, Stage
    <3>2. CASE artTask' = [NoArtTask EXCEPT !.stage = "running", !.host = active,
                                            !.todo = snapshot.apps \ snapshot.cached]
      BY <2>1, <2>3, <3>2 DEF Core, Scalars, ArtTask, NoArtTask, Stage
    <3> QED
      BY <2>1, <3>1, <3>2
  <2>5. TasksInv'
    BY <2>1, <2>4 DEF Core, TasksInv, TaskInv, Files
  <2> QED
    BY <2>1, <2>2, <2>5, RecordsKept DEF Core, Scalars, PageInv, LoadingIsFetched, pageVars
<1>5. CASE SkipArt
  <2>1. pc' = "input" /\ UNCHANGED <<pageVars, file, art, taskVars, deleted>>
    BY <1>5 DEF SkipArt
  <2> QED
    BY <2>1, RecordsKept, TasksKept
    DEF Core, Scalars, PageInv, LoadingIsFetched, pageVars, taskVars
<1> QED
  BY <1>1, <1>2, <1>3, <1>4, <1>5, FinishListKeeps, FinishArtKeeps DEF Pass

LEMMA BrowseKeeps == ASSUME Core, NEW g \in Host, Browse(g) PROVE Core'
<1>1. PICK info \in {"none", "paired", "unpaired"}, renamed \in BOOLEAN :
        LET its == [items EXCEPT ![g] = Told(@, info)]
            d   == dirty \/ renamed \/ its # items
        IN /\ file' = IF d THEN its ELSE file
           /\ dirty' = FALSE
           /\ IF its[g].paired
              THEN /\ page' = "apps"
                   /\ items' = NoItems
                   /\ active' = g /\ snapshot' = its[g] /\ list' = "loading"
              ELSE /\ items' = its
                   /\ UNCHANGED <<page, active, snapshot, list>>
  BY DEF Browse
<1> DEFINE its == [items EXCEPT ![g] = Told(items[g], info)]
<1>2. /\ pc = "input" /\ page = "hosts" /\ g \in DOMAIN items /\ g # NoHost
      /\ UNCHANGED <<pc, art, taskVars, deleted>>
  BY AppsAssumption DEF Browse
<1>3. Sound(g, items[g], Files)
  BY <1>2 DEF Core, RecordsInv, AllSound
<1>4. Sound(g, Told(items[g], info), Files)
  BY <1>3, ToldIsSound
<1>5. AllSound(its, Files)
  BY <1>2, <1>4, AllSoundExcept DEF Core, RecordsInv
<1>6. Sound(g, its[g], Files)
  BY <1>2, <1>4
<1>7. \E d \in BOOLEAN : file' = IF d THEN its ELSE file
  BY <1>1
<1>8. AllSound(file', Files)
  BY <1>5, <1>7 DEF Core, RecordsInv
<1> HIDE DEF its
<1>9. CASE its[g].paired
  <2>1. /\ page' = "apps" /\ items' = NoItems /\ active' = g /\ snapshot' = its[g]
        /\ list' = "loading" /\ dirty' = FALSE
    BY <1>1, <1>9 DEF its
  <2>2. RecordsInv'
    BY <1>2, <1>6, <1>8, <2>1, NoItemsSound DEF RecordsInv, Files
  <2> QED
    BY <1>2, <2>1, <2>2, TasksKept DEF Core, Scalars, PageInv, LoadingIsFetched, taskVars
<1>10. CASE ~ its[g].paired
  <2>1. items' = its /\ UNCHANGED <<page, active, snapshot, list>> /\ dirty' = FALSE
    BY <1>1, <1>10 DEF its
  <2>2. RecordsInv'
    BY <1>2, <1>5, <1>8, <2>1 DEF RecordsInv, Files, Core
  <2> QED
    BY <1>2, <2>1, <2>2, TasksKept DEF Core, Scalars, PageInv, LoadingIsFetched, taskVars
<1> QED
  BY <1>9, <1>10

LEMMA DeleteArtKeeps == ASSUME Core, NEW app \in App, DeleteArt(app) PROVE Core'
<1>1. /\ pc = "input" /\ app \in art
      /\ art' = art \ {app} /\ deleted' = deleted \cup {app}
      /\ items' = [h \in DOMAIN items |-> [items[h] EXCEPT !.cached = @ \ {app}]]
      /\ UNCHANGED <<pc, page, active, snapshot, list, dirty, file, taskVars>>
  BY DEF DeleteArt
<1>2. Files' = Files
  BY <1>1 DEF Files, Core, Scalars
<1>3. AllSound(items', Files)
  <2>1. ASSUME NEW h \in DOMAIN items
        PROVE  Sound(h, [items[h] EXCEPT !.cached = @ \ {app}], Files)
    <3>1. Sound(h, items[h], Files)
      BY DEF Core, RecordsInv, AllSound
    <3> QED
      BY <3>1, UnflaggedIsSound
  <2>2. DOMAIN items \subseteq Host
    BY DEF Core, RecordsInv, AllSound
  <2> QED
    BY <1>1, <2>1, <2>2 DEF AllSound
<1>4. RecordsInv'
  BY <1>1, <1>2, <1>3 DEF Core, RecordsInv
<1>5. TasksInv'
  BY <1>1, <1>2 DEF Core, TasksInv, TaskInv, taskVars
<1>6. art' \subseteq App /\ deleted' \subseteq App
  BY <1>1 DEF Core, Scalars
<1> QED
  BY <1>1, <1>4, <1>5, <1>6 DEF Core, Scalars, PageInv, LoadingIsFetched, taskVars

LEMMA ToggleKeeps == ASSUME Core, NEW app \in App, ToggleFavorite(app) PROVE Core'
<1> DEFINE snap == [snapshot EXCEPT !.favorite = IF app \in @ THEN @ \ {app} ELSE @ \cup {app}]
<1>1. /\ pc = "input" /\ page = "apps" /\ app \in snapshot.apps
      /\ snapshot' = snap /\ items' = items /\ PersistIf(TRUE, TRUE)
      /\ UNCHANGED <<pc, page, active, list, art, taskVars, deleted>>
  BY DEF ToggleFavorite
<1>2. active # NoHost
  BY <1>1 DEF Core, PageInv
<1>3. Sound(active, snapshot', Files)
  <2>1. Sound(active, snapshot, Files)
    BY <1>2 DEF Core, RecordsInv
  <2> QED
    BY <1>1, <2>1, FavoredIsSound
<1>4. AllSound(file', Files) /\ dirty' \in BOOLEAN
  BY <1>1, <1>3, PersistIfSound DEF Core, Scalars, RecordsInv
<1>5. RecordsInv'
  BY <1>1, <1>2, <1>3, <1>4 DEF Core, RecordsInv, Files
<1> QED
  BY <1>1, <1>4, <1>5, TasksKept DEF Core, Scalars, PageInv, LoadingIsFetched, taskVars

LEMMA CommandKeeps == ASSUME Core, Command PROVE Core'
<1>1. CASE CommandsDone
  BY <1>1, RecordsKept, TasksKept
  DEF CommandsDone, Core, Scalars, PageInv, LoadingIsFetched, pageVars, taskVars
<1>2. CASE Back
  <2>1. /\ pc' = pc /\ page' = "hosts" /\ active' = NoHost /\ list' = "idle" /\ dirty' = FALSE
        /\ items' = file /\ snapshot' = Blank
        /\ UNCHANGED <<file, art, taskVars, deleted>>
    BY <1>2 DEF Back
  <2>2. RecordsInv'
    BY <2>1 DEF Core, RecordsInv, Files
  <2> QED
    BY <2>1, <2>2, TasksKept DEF Core, Scalars, PageInv, LoadingIsFetched, taskVars
<1>3. CASE OpenSettings
  <2>1. /\ pc = "input" /\ page = "hosts" /\ page' = "settings" /\ items' = NoItems
        /\ UNCHANGED <<pc, active, snapshot, list, dirty, file, art, taskVars, deleted>>
    BY <1>3 DEF OpenSettings
  <2>2. RecordsInv'
    BY <2>1, NoItemsSound DEF Core, RecordsInv, Files
  <2> QED
    BY <2>1, <2>2, TasksKept DEF Core, Scalars, PageInv, LoadingIsFetched, taskVars
<1>4. CASE LaunchStream
  BY <1>4, RecordsKept, TasksKept
  DEF LaunchStream, Core, Scalars, PageInv, LoadingIsFetched, pageVars, taskVars
<1> QED
  BY <1>1, <1>2, <1>3, <1>4, BrowseKeeps, DeleteArtKeeps, ToggleKeeps DEF Command

LEMMA LeaveKeeps == ASSUME Core, Leave PROVE Core'
<1>1. /\ pc' \in {"finishList", "off"} /\ list' \in {list, "loading"}
      /\ listTask' = NoListTask /\ artTask' = NoArtTask
      /\ UNCHANGED <<page, items, active, snapshot, dirty, file, art, forgotten, deleted>>
  BY DEF Leave, StreamEnds, Exit, pageVars
<1>2. TasksInv'
  BY <1>1, AppsAssumption
  DEF Core, TasksInv, TaskInv, ListTask, NoListTask, ArtTask, NoArtTask, Stage, Files
<1> QED
  BY <1>1, <1>2, RecordsKept DEF Core, Scalars, PageInv, LoadingIsFetched

LEMMA StepCore == Core /\ [Next]_vars => Core'
<1> SUFFICES ASSUME Core, [Next]_vars PROVE Core'
  OBVIOUS
<1>1. CASE UNCHANGED vars
  BY <1>1, RecordsKept, TasksKept
  DEF vars, pageVars, taskVars, Core, Scalars, PageInv, LoadingIsFetched
<1> QED
  BY <1>1, ListThreadKeeps, ArtThreadKeeps, PassKeeps, CommandKeeps, LeaveKeeps DEF Next, Off

THEOREM Invariance == Spec => []Core
  BY InitCore, StepCore, PTL DEF Spec

-----------------------------------------------------------------------------

\* The state keeps its types, for any hosts and apps.
THEOREM TypeCorrect == Spec => []TypeOK
<1>1. Core => TypeOK
  BY CoreIsInv DEF AppsInv
<1> QED
  BY <1>1, Invariance, PTL

\* No record ever holds apps of another host (apply_app_list_result).
THEOREM ListsBelong == Spec => []ListsBelongToHosts
<1>1. Core => ListsBelongToHosts
  BY CoreIsInv
<1> QED
  BY <1>1, Invariance, PTL

\* Art flagged as cached has its file unless the user deleted it
\* (merge_host_app_records, mark_cover_art_cached).
THEOREM FlagsBacked == Spec => []FlagsHaveFiles
<1>1. Core => FlagsHaveFiles
  BY CoreIsInv DEF AppsInv
<1> QED
  BY <1>1, Invariance, PTL

\* After the start of tasks no paired host's page waits for a list that
\* nobody fetches (start_app_list_task_if_needed).
THEOREM LoadingFetched == Spec => []LoadingIsFetched
<1>1. Core => LoadingIsFetched
  BY DEF Core
<1> QED
  BY <1>1, Invariance, PTL

\* No slot is reset or restarted under a thread at work
\* (app_list_task_is_active, app_art_task_is_active).
THEOREM SlotsAreHeld == Spec => SlotsHeld
<1> DEFINE Kept ==
      /\ listTask.stage = "running" => listTask' = listTask \/ listTask'.stage = "fetched"
      /\ listTask.stage = "fetched" => listTask' = listTask \/ listTask'.stage = "completed"
      /\ artTask.stage = "running" => artTask'.stage \in {"running", "completed"}
                                      /\ artTask'.host = artTask.host
                                      /\ artTask'.todo \subseteq artTask.todo
<1>1. Core /\ Next => Kept
  <2> SUFFICES ASSUME Core, Next PROVE Kept
    OBVIOUS
  <2>1. listTask \in ListTask /\ artTask \in ArtTask
    BY DEF Core, TasksInv
  <2>2. CASE ListThread
    BY <2>1, <2>2 DEF ListThread, FetchList, CompleteList, ListTask
  <2>3. CASE ArtThread
    <3>1. listTask' = listTask
      BY <2>3 DEF ArtThread, CompleteArt, FetchArt
    <3>2. CASE CompleteArt
      BY <2>1, <3>1, <3>2 DEF CompleteArt, ArtTask
    <3>3. ASSUME NEW app \in App, FetchArt(app) PROVE Kept
      BY <2>1, <3>1, <3>3 DEF FetchArt, ArtTask
    <3> QED
      BY <2>3, <3>2, <3>3 DEF ArtThread
  <2>4. CASE Pass
    BY <2>4 DEF Pass, FinishList, FinishArt, NotCompleted, StartList, SkipList, StartArt,
                SkipArt, ListWanted, ArtWanted, InProgress, taskVars
  <2>5. CASE Command
    BY <2>5 DEF Command, CommandsDone, Back, OpenSettings, LaunchStream, Browse, DeleteArt,
                ToggleFavorite, taskVars
  <2>6. CASE Leave
    BY <2>6 DEF Leave, StreamEnds, Exit, InProgress
  <2>7. CASE Off
    BY <2>7 DEF Off, vars, taskVars
  <2> QED
    BY <2>2, <2>3, <2>4, <2>5, <2>6, <2>7 DEF Next
<1>2. Core /\ [Next]_vars => [Kept]_vars
  BY <1>1
<1> QED
  BY <1>2, Invariance, PTL DEF Spec, SlotsHeld

-----------------------------------------------------------------------------
(* What is saved of a host's apps: the page and the snapshot agree with the  *)
(* file, so that a save changes the apps of a host only where a result did.  *)

Inv == Core /\ AgreeInv

\* Keeping the apps, or clearing a host that is not paired.
LEMMA ToldApps ==
    ASSUME NEW r \in Record, NEW info
    PROVE  \/ Told(r, info).apps = r.apps /\ (r.paired => Told(r, info).paired)
           \/ Told(r, info) = Blank
  BY DEF Told, Record

LEMMA ListedApps ==
    ASSUME NEW r \in Record, NEW t
    PROVE  /\ t.answer = "apps" => Listed(r, t).apps = t.apps
           /\ t.answer # "apps" => Listed(r, t) \in {r, Blank}
           /\ t.answer = "apps" /\ ~ Dirties(r, t) => Listed(r, t) = r
  BY DEF Listed, Dirties, Changed, Merged, Record

LEMMA BlankIsUnpaired == ~ Blank.paired /\ Blank.apps = {}
  BY DEF Blank

\* What the files of two states say of a host's apps.
Remembered ==
    \A h \in DOMAIN file \cap DOMAIN file' :
       file'[h].apps # file[h].apps =>
          \/ FinishList /\ listTask.host = h /\ file'[h].apps = listTask.apps
          \/ ~ file'[h].paired

LEMMA InitAgree == Init => AgreeInv
  BY DEF Init, AgreeInv, Agrees

\* Steps that change neither what is held nor what is saved.
LEMMA AgreeKept ==
    ASSUME Core, AgreeInv, UNCHANGED <<page, items, active, snapshot, file>>,
           listTask'.host \in {listTask.host, NoHost}
    PROVE  AgreeInv' /\ Remembered
<1>1. DOMAIN items \subseteq Host /\ active \in Host \cup {NoHost}
  BY DEF Core, RecordsInv, AllSound, Scalars
<1>2. ASSUME NEW h \in Host, NEW r, Agrees(h, r, file, listTask.host) PROVE Agrees(h, r, file', listTask'.host)
  BY <1>2, AppsAssumption DEF Agrees
<1>3. AgreeInv'
  BY <1>1, <1>2 DEF AgreeInv, Agrees
<1> QED
  BY <1>3 DEF Remembered

LEMMA ThreadsAgree == ASSUME Inv, ListThread \/ ArtThread PROVE AgreeInv' /\ Remembered
<1>1. UNCHANGED <<page, items, active, snapshot, file>>
  BY DEF ListThread, ArtThread, FetchList, CompleteList, FetchArt, CompleteArt, pageVars
<1>2. listTask'.host = listTask.host
  BY DEF Inv, Core, TasksInv, ListTask, ListThread, ArtThread, FetchList, CompleteList,
         FetchArt, CompleteArt
<1> QED
  BY <1>1, <1>2, AgreeKept DEF Inv

\* What is saved agrees with what was held.
LEMMA PersistAgrees ==
    ASSUME Core, NEW its, NEW snap, NEW saved, saved = ToPersist(its, snap),
           page # "hosts" => DOMAIN its = {}
    PROVE  /\ \A h \in DOMAIN its : h \in DOMAIN saved => saved[h] = its[h]
           /\ active # NoHost => saved[active] = snap
           /\ \A h \in DOMAIN saved : \/ h \in DOMAIN its /\ saved[h] = its[h]
                                      \/ h = active /\ h # NoHost /\ saved[h] = snap
                                      \/ h \in DOMAIN file /\ saved[h] = file[h]
  BY DEF ToPersist, Loaded, Core, PageInv

LEMMA FinishListAgrees == ASSUME Inv, FinishList PROVE AgreeInv' /\ Remembered
<1> DEFINE g     == listTask.host
           held  == g \in DOMAIN items
           here  == ~ held /\ OnAppsPage(g)
           old   == IF held THEN items[g] ELSE snapshot
           told  == Told(old, listTask.info)
           rec   == Listed(told, listTask)
<1>1. /\ listTask' = NoListTask
      /\ items' = IF held THEN [items EXCEPT ![g] = rec] ELSE items
      /\ snapshot' = IF here THEN rec ELSE snapshot
      /\ UNCHANGED <<page, active>>
  BY Zenon DEF FinishList
<1>2. g \in Host /\ g # NoHost /\ listTask'.host = NoHost
  BY <1>1, AnswerFits, AppsAssumption DEF FinishList, Inv, NoListTask
<1>3. held \/ here => /\ old \in Record /\ told \in Record
                      /\ Agrees(g, old, file, listTask.host)
  <2>1. held => Sound(g, items[g], Files) /\ Agrees(g, items[g], file, listTask.host)
    BY DEF Inv, AgreeInv, Core, RecordsInv, AllSound
  <2>2. here => Sound(g, snapshot, Files) /\ Agrees(g, snapshot, file, listTask.host)
    BY <1>2 DEF Inv, AgreeInv, Core, RecordsInv, OnAppsPage
  <2>3. held \/ here => Sound(g, old, Files) /\ Agrees(g, old, file, listTask.host)
    BY <2>1, <2>2
  <2>4. held \/ here => Sound(g, told, Files)
    BY <2>3, ToldIsSound
  <2> QED
    BY <2>3, <2>4 DEF Sound
<1>4. \/ /\ file' = ToPersist(items', snapshot') /\ listTask.answer = "apps"
      \/ /\ file' = file
         /\ listTask.answer = "apps" /\ (held \/ here) =>
               told = old /\ ~ Dirties(told, listTask)
  BY DEF FinishList, PersistIf
<1>5. \A h \in DOMAIN items : Agrees(h, items[h], file, listTask.host)
  BY DEF Inv, AgreeInv
<1>6. active # NoHost => Agrees(active, snapshot, file, listTask.host)
  BY DEF Inv, AgreeInv
<1>7. page # "hosts" => DOMAIN items = {}
  BY DEF Inv, AgreeInv
<1>8. held \/ here => /\ listTask.answer = "apps" => rec.apps = listTask.apps
                      /\ listTask.answer # "apps" => rec \in {told, Blank}
                      /\ listTask.answer = "apps" /\ ~ Dirties(told, listTask) => rec = told
  BY <1>3, ListedApps
<1>9. held \/ here => \/ told.apps = old.apps
                      \/ told = Blank
  BY <1>3, ToldApps
<1>10. DOMAIN items \subseteq Host /\ active \in Host \cup {NoHost}
  BY DEF Inv, Core, RecordsInv, AllSound, Scalars
<1>11. here => active = g
  BY DEF OnAppsPage
<1>12. DOMAIN items' = DOMAIN items
  BY <1>1
<1>13. /\ \A h \in DOMAIN items : items'[h] = IF h = g THEN rec ELSE items[h]
       /\ snapshot' = IF here THEN rec ELSE snapshot
  BY <1>1
<1> HIDE DEF rec, told, old, here
<1>14. CASE /\ file' = file
            /\ listTask.answer = "apps" /\ (held \/ here) =>
                  told = old /\ ~ Dirties(told, listTask)
  <2>1. held \/ here => Agrees(g, rec, file', listTask'.host)
    <3>1. SUFFICES ASSUME held \/ here PROVE Agrees(g, rec, file', listTask'.host)
      BY <1>14
    <3>2. rec.apps = old.apps \/ rec = Blank
      BY <1>8, <1>9, <1>14, <3>1
    <3> QED
      BY <1>2, <1>3, <1>14, <3>1, <3>2, BlankIsUnpaired DEF Agrees
  <2>2. ASSUME NEW h \in Host, NEW r, Agrees(h, r, file, listTask.host) PROVE Agrees(h, r, file', listTask'.host)
    BY <1>2, <1>14, <2>2, AppsAssumption DEF Agrees
  <2>3. AgreeInv'
    <3>1. \A h \in DOMAIN items' : Agrees(h, items'[h], file', listTask'.host)
      BY <1>5, <1>10, <1>12, <1>13, <2>1, <2>2
    <3>2. active' # NoHost => Agrees(active', snapshot', file', listTask'.host)
      BY <1>1, <1>6, <1>10, <1>11, <1>13, <2>1, <2>2
    <3> QED
      BY <1>1, <1>7, <1>12, <3>1, <3>2 DEF AgreeInv
  <2> QED
    BY <1>14, <2>3 DEF Remembered
<1>15. CASE file' = ToPersist(items', snapshot') /\ listTask.answer = "apps"
  <2>1. /\ \A h \in DOMAIN items' : h \in DOMAIN file' => file'[h] = items'[h]
        /\ active # NoHost => file'[active] = snapshot'
        /\ \A h \in DOMAIN file' : \/ h \in DOMAIN items' /\ file'[h] = items'[h]
                                   \/ h = active /\ h # NoHost /\ file'[h] = snapshot'
                                   \/ h \in DOMAIN file /\ file'[h] = file[h]
    <3>1. page # "hosts" => DOMAIN items' = {}
      BY <1>7, <1>12
    <3>2. Core /\ file' = ToPersist(items', snapshot')
      BY <1>15 DEF Inv
    <3> QED
      BY <3>1, <3>2, PersistAgrees
  <2>2. AgreeInv'
    BY <1>1, <1>7, <1>12, <2>1 DEF AgreeInv, Agrees
  <2>3. Remembered
    <3>1. SUFFICES ASSUME NEW h \in DOMAIN file, h \in DOMAIN file',
                          file'[h].apps # file[h].apps
                   PROVE  \/ listTask.host = h /\ file'[h].apps = listTask.apps
                          \/ ~ file'[h].paired
      BY DEF Remembered
    <3>2. CASE h \in DOMAIN items' /\ file'[h] = items'[h]
      BY <1>5, <1>8, <1>12, <1>13, <1>15, <3>1, <3>2 DEF Agrees
    <3>3. CASE h = active /\ h # NoHost /\ file'[h] = snapshot'
      BY <1>6, <1>8, <1>11, <1>13, <1>15, <3>1, <3>3 DEF Agrees
    <3> QED
      BY <2>1, <3>1, <3>2, <3>3
  <2> QED
    BY <2>2, <2>3
<1> QED
  BY <1>4, <1>14, <1>15

LEMMA FinishArtAgrees == ASSUME Inv, FinishArt PROVE AgreeInv' /\ Remembered
<1> DEFINE g == artTask.host
           Flagged(rec) == [rec EXCEPT !.cached = @ \cup (artTask.saved \cap rec.apps)]
<1>1. /\ items' = IF g \in DOMAIN items THEN [items EXCEPT ![g] = Flagged(items[g])] ELSE items
      /\ snapshot' \in {snapshot, Flagged(snapshot)}
      /\ UNCHANGED <<page, active, file, listTask>>
  BY DEF FinishArt
<1>2. ASSUME NEW r \in Record PROVE Flagged(r).apps = r.apps /\ Flagged(r).paired = r.paired
  BY DEF Record
<1>3. snapshot \in Record /\ \A h \in DOMAIN items : items[h] \in Record
  BY HeldIsTyped DEF Inv, Core, RecordsInv, AllSound, Sound
<1>4. /\ snapshot'.apps = snapshot.apps /\ snapshot'.paired = snapshot.paired
      /\ DOMAIN items' = DOMAIN items
      /\ \A h \in DOMAIN items : /\ items'[h].apps = items[h].apps
                                 /\ items'[h].paired = items[h].paired
  <2> HIDE DEF Flagged
  <2> QED
    BY <1>1, <1>2, <1>3
<1>5. AgreeInv'
  BY <1>1, <1>4 DEF Inv, AgreeInv, Agrees
<1> QED
  BY <1>1, <1>5 DEF Remembered

\* The other steps of a pass.
LEMMA PassAgrees == ASSUME Inv, Pass PROVE AgreeInv' /\ Remembered
<1>1. CASE StartList
  <2>1. /\ UNCHANGED <<page, items, active, snapshot, file>>
        /\ page = "apps" /\ active # NoHost /\ snapshot.paired
    BY <1>1 DEF StartList, ListWanted
  <2>2. Agrees(active, snapshot, file, listTask.host) /\ DOMAIN items = {}
    BY <2>1 DEF Inv, AgreeInv
  <2>3. AgreeInv'
    BY <2>1, <2>2 DEF AgreeInv, Agrees
  <2> QED
    BY <2>1, <2>3 DEF Remembered
<1>2. CASE NotCompleted \/ SkipList \/ StartArt \/ SkipArt
  <2>1. UNCHANGED <<page, items, active, snapshot, file, listTask>>
    BY <1>2 DEF NotCompleted, SkipList, StartArt, SkipArt, pageVars, taskVars
  <2> QED
    BY <2>1, AgreeKept DEF Inv
<1> QED
  BY <1>1, <1>2, FinishListAgrees, FinishArtAgrees DEF Pass

LEMMA BrowseAgrees == ASSUME Inv, NEW g \in Host, Browse(g) PROVE AgreeInv' /\ Remembered
<1>1. PICK info \in {"none", "paired", "unpaired"}, renamed \in BOOLEAN :
        LET its == [items EXCEPT ![g] = Told(@, info)]
            d   == dirty \/ renamed \/ its # items
        IN /\ file' = IF d THEN its ELSE file
           /\ IF its[g].paired
              THEN /\ page' = "apps"
                   /\ items' = NoItems
                   /\ active' = g /\ snapshot' = its[g]
              ELSE /\ items' = its
                   /\ UNCHANGED <<page, active, snapshot>>
  BY DEF Browse
<1> DEFINE told == Told(items[g], info)
           its  == [items EXCEPT ![g] = told]
<1>2. /\ page = "hosts" /\ g \in DOMAIN items /\ items[g].paired
      /\ listTask' = listTask
  BY DEF Browse, taskVars
<1>3. active = NoHost
  BY <1>2 DEF Inv, Core, PageInv
<1>4. items[g] \in Record /\ \A h \in DOMAIN items : Agrees(h, items[h], file, listTask.host)
  BY <1>2 DEF Inv, AgreeInv, Core, RecordsInv, AllSound, Sound
<1>5. told.apps = items[g].apps \/ told = Blank
  BY <1>4, ToldApps
<1>6. /\ DOMAIN its = DOMAIN items
      /\ \A h \in DOMAIN items : its[h] = IF h = g THEN told ELSE items[h]
  BY <1>2
<1>7. \/ file' = its
      \/ file' = file /\ its = items
  BY <1>1
<1>8. \/ its[g].paired /\ page' = "apps" /\ items' = NoItems /\ active' = g /\ snapshot' = its[g]
      \/ ~ its[g].paired /\ items' = its /\ UNCHANGED <<page, active, snapshot>>
  BY <1>1
<1> HIDE DEF its, told
<1>9. \A h \in DOMAIN its : Agrees(h, its[h], file', listTask'.host)
  BY <1>2, <1>4, <1>6, <1>7 DEF Agrees
<1>10. AgreeInv'
  <2>1. CASE its[g].paired /\ page' = "apps" /\ items' = NoItems /\ active' = g
             /\ snapshot' = its[g]
    <3>1. DOMAIN items' = {}
      BY <2>1 DEF NoItems
    <3>2. Agrees(active', snapshot', file', listTask'.host)
      BY <1>2, <1>6, <1>9, <2>1
    <3> QED
      BY <3>1, <3>2 DEF AgreeInv
  <2>2. CASE ~ its[g].paired /\ items' = its /\ UNCHANGED <<page, active, snapshot>>
    BY <1>2, <1>3, <1>9, <2>2 DEF AgreeInv
  <2> QED
    BY <1>8, <2>1, <2>2
<1>11. Remembered
  BY <1>2, <1>4, <1>5, <1>6, <1>7, BlankIsUnpaired DEF Remembered, Agrees
<1> QED
  BY <1>10, <1>11

LEMMA ToggleAgrees ==
    ASSUME Inv, NEW app \in App, ToggleFavorite(app)
    PROVE  AgreeInv' /\ Remembered
<1>1. /\ snapshot' = [snapshot EXCEPT !.favorite = IF app \in @ THEN @ \ {app} ELSE @ \cup {app}]
      /\ items' = items /\ file' = ToPersist(items', snapshot')
      /\ UNCHANGED <<page, active, listTask>>
      /\ page = "apps"
  BY DEF ToggleFavorite, PersistIf, taskVars
<1>2. DOMAIN items = {} /\ active # NoHost /\ Agrees(active, snapshot, file, listTask.host)
  BY <1>1 DEF Inv, AgreeInv, Core, PageInv
<1>3. snapshot'.apps = snapshot.apps /\ snapshot'.paired = snapshot.paired
  BY <1>1, HeldIsTyped DEF Inv, Core, Record
<1>4. /\ file'[active] = snapshot'
      /\ \A h \in DOMAIN file' : \/ h = active /\ file'[h] = snapshot'
                                 \/ h \in DOMAIN file /\ file'[h] = file[h]
  <2>1. Core /\ DOMAIN items' = {} /\ file' = ToPersist(items', snapshot')
    BY <1>1, <1>2 DEF Inv
  <2> QED
    BY <1>2, <2>1, PersistAgrees
<1>5. AgreeInv'
  BY <1>1, <1>2, <1>4 DEF AgreeInv, Agrees
<1>6. Remembered
  BY <1>2, <1>3, <1>4 DEF Remembered, Agrees
<1> QED
  BY <1>5, <1>6

LEMMA CommandAgrees == ASSUME Inv, Command PROVE AgreeInv' /\ Remembered
<1>1. CASE CommandsDone \/ LaunchStream
  <2>1. UNCHANGED <<page, items, active, snapshot, file, listTask>>
    BY <1>1 DEF CommandsDone, LaunchStream, pageVars, taskVars
  <2> QED
    BY <2>1, AgreeKept DEF Inv
<1>2. CASE Back
  BY <1>2 DEF Back, AgreeInv, Agrees, Remembered
<1>3. CASE OpenSettings
  <2>1. /\ page' # "hosts" /\ items' = NoItems
        /\ UNCHANGED <<active, snapshot, file, listTask>>
    BY <1>3 DEF OpenSettings, taskVars
  <2> QED
    BY <2>1 DEF Inv, AgreeInv, Agrees, Remembered, NoItems
<1>4. ASSUME NEW app \in App, DeleteArt(app) PROVE AgreeInv' /\ Remembered
  <2>1. /\ page = "settings" /\ DOMAIN items' = DOMAIN items
        /\ UNCHANGED <<page, active, snapshot, file, listTask>>
    BY <1>4 DEF DeleteArt, taskVars
  <2> QED
    BY <2>1 DEF Inv, AgreeInv, Agrees, Remembered
<1> QED
  BY <1>1, <1>2, <1>3, <1>4, BrowseAgrees, ToggleAgrees DEF Command

LEMMA StepAgree == ASSUME Inv, [Next]_vars PROVE AgreeInv' /\ Remembered
<1>1. CASE Leave
  <2>1. UNCHANGED <<page, items, active, snapshot, file>> /\ listTask'.host = NoHost
    BY <1>1 DEF Leave, StreamEnds, Exit, NoListTask, pageVars
  <2> QED
    BY <2>1, AgreeKept DEF Inv
<1>2. CASE Off \/ UNCHANGED vars
  <2>1. UNCHANGED <<page, items, active, snapshot, file, listTask>>
    BY <1>2 DEF Off, vars, pageVars, taskVars
  <2> QED
    BY <2>1, AgreeKept DEF Inv
<1> QED
  BY <1>1, <1>2, ThreadsAgree, PassAgrees, CommandAgrees DEF Next

\* The page and the snapshot agree with the file on the apps of every host.
THEOREM AgreeInvHolds == Spec => []AgreeInv
<1>1. Init => Inv
  BY InitCore, InitAgree DEF Inv
<1>2. Inv /\ [Next]_vars => Inv'
  BY StepCore, StepAgree DEF Inv
<1> QED
  BY <1>1, <1>2, PTL DEF Spec, Inv

\* The saved apps of a host change only by the list it just sent, or because
\* it says the client is not paired any more (persist_hosts).
THEOREM AppsAreRemembered == Spec => AppsRemembered
<1>1. Inv /\ [Next]_vars => [Remembered]_vars
  BY StepAgree
<1>2. Core /\ AgreeInv => Inv
  BY DEF Inv
<1> QED
  BY <1>1, <1>2, Invariance, AgreeInvHolds, PTL DEF Spec, AppsRemembered, Remembered
=============================================================================

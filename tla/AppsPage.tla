------------------------------ MODULE AppsPage ------------------------------
(***************************************************************************)
(* The apps page: the app list and the cover art of a paired host, and the *)
(* two background tasks that fetch them.                                   *)
(*                                                                         *)
(* Each task is one slot with one thread.  A pass over the tasks looks for *)
(* completed ones first and starts new ones afterwards, and a thread may   *)
(* complete between the two.  Results are applied to the host they were    *)
(* asked for, on whatever page the user is by then.  Host records keep     *)
(* what the tasks change: apps, cached-art flags, favorites, pairing.      *)
(* Refresh intervals are left open and writing the hosts file succeeds;    *)
(* ShellHosts covers failing writes and the other ways to change the list. *)
(***************************************************************************)
EXTENDS Integers, FiniteSets, Functions

CONSTANTS Host,      \* saved hosts
          Title,     \* apps a host may offer
          NoHost,    \* no host, distinct from all of them
          MaxDeleted,    \* bound: art files the user deletes
          MaxFavorites   \* bound: favorites of a host

ASSUME AppsAssumption == NoHost \notin Host

VARIABLES
    pc,          \* what the shell loop runs next
    page,        \* shell.activeScreen
    items,       \* hosts.items, empty while the hosts page is unloaded
    active,      \* host of hosts.active, NoHost when not activeLoaded
    snapshot,    \* the record of hosts.active
    list,        \* appListState of hosts.active
    dirty,       \* hosts.dirty
    file,        \* the saved hosts file
    art,         \* cover-art files in the cache
    listTask,    \* AppListTaskState
    artTask,     \* AppArtTaskState
    forgotten,   \* history: tasks whose thread was dropped without a join
    deleted      \* history: art files the user deleted

pageVars == <<page, items, active, snapshot, list, dirty>>
taskVars == <<listTask, artTask, forgotten>>
vars     == <<pc, pageVars, file, art, taskVars, deleted>>

\* An app of a host, and with it the key of its cover art.
App       == Host \X Title
AppsOf(h) == {h} \X Title

\* A record flags only apps it lists.
Record  == {r \in [apps : SUBSET App, cached : SUBSET App, favorite : SUBSET App,
                   paired : BOOLEAN] : r.cached \cup r.favorite \subseteq r.apps}
Blank   == [apps |-> {}, cached |-> {}, favorite |-> {}, paired |-> FALSE]
Records == UNION {[hosts -> Record] : hosts \in SUBSET Host}
NoItems == [h \in {} |-> Blank]

Stage    == {"none", "running", "fetched", "completed"}
ListTask == [stage : Stage, host : Host \cup {NoHost}, info : {"none", "paired", "unpaired"},
             answer : {"error", "rejected", "apps"}, apps : SUBSET App, cached : SUBSET App]
ArtTask  == [stage : Stage, host : Host \cup {NoHost}, todo : SUBSET App, saved : SUBSET App]

NoListTask == [stage |-> "none", host |-> NoHost, info |-> "none", answer |-> "error",
               apps |-> {}, cached |-> {}]
NoArtTask  == [stage |-> "none", host |-> NoHost, todo |-> {}, saved |-> {}]

\* app_list_task_is_active, app_art_task_is_active
InProgress(task) == task.stage \in {"running", "fetched"}

TypeOK ==
    /\ pc \in {"finishList", "finishArt", "startList", "startArt", "input",
               "joinForStream", "joinForExit", "off"}
    /\ page \in {"hosts", "apps", "settings"}
    /\ items \in Records
    /\ active \in Host \cup {NoHost}
    /\ snapshot \in Record
    /\ list \in {"idle", "loading", "ready", "failed"}
    /\ dirty \in BOOLEAN
    /\ file \in Records
    /\ art \subseteq App
    /\ listTask \in ListTask
    /\ artTask \in ArtTask
    /\ forgotten \subseteq {"list", "art"}
    /\ deleted \subseteq App

Init ==
    /\ pc = "finishList"
    /\ page = "hosts"
    /\ file = [h \in Host |-> [Blank EXCEPT !.paired = TRUE]]
    /\ items = file
    /\ active = NoHost /\ snapshot = Blank /\ list = "idle"
    /\ dirty = FALSE
    /\ art = {}
    /\ listTask = NoListTask /\ artTask = NoArtTask
    /\ forgotten = {} /\ deleted = {}

-----------------------------------------------------------------------------
(* The threads: run_app_list_task and run_app_art_task.                    *)

\* The host's status and list are fetched and the art cache is looked up;
\* without an identity nothing is asked.
FetchList ==
    /\ listTask.stage = "running"
    /\ \/ \E info \in {"none", "paired", "unpaired"}, answer \in {"error", "rejected"} :
             listTask' = [listTask EXCEPT !.stage = "fetched", !.info = info, !.answer = answer]
       \/ \E info \in {"none", "paired", "unpaired"}, apps \in SUBSET AppsOf(listTask.host) :
             listTask' = [listTask EXCEPT !.stage = "fetched", !.info = info, !.answer = "apps",
                                          !.apps = apps, !.cached = apps \cap art]
    /\ UNCHANGED <<pc, pageVars, file, art, artTask, forgotten, deleted>>

CompleteList ==
    /\ listTask.stage = "fetched"
    /\ listTask' = [listTask EXCEPT !.stage = "completed"]
    /\ UNCHANGED <<pc, pageVars, file, art, artTask, forgotten, deleted>>

\* Mutant: an image counts as cached whether or not it could be saved.
FetchArtAnyway(app) ==
    /\ artTask.stage = "running" /\ app \in artTask.todo
    /\ artTask' = [artTask EXCEPT !.todo = @ \ {app}, !.saved = @ \cup {app}]
    /\ art' \in {art, art \cup {app}}
    /\ UNCHANGED <<pc, pageVars, file, listTask, forgotten, deleted>>

\* One image is fetched and saved, or one of the two fails.
FetchArt(app) ==
    /\ artTask.stage = "running" /\ app \in artTask.todo
    /\ \/ /\ artTask' = [artTask EXCEPT !.todo = @ \ {app}, !.saved = @ \cup {app}]
          /\ art' = art \cup {app}
       \/ /\ artTask' = [artTask EXCEPT !.todo = @ \ {app}]
          /\ art' = art
    /\ UNCHANGED <<pc, pageVars, file, listTask, forgotten, deleted>>

\* All images were tried, or there is no identity to ask with.
CompleteArt ==
    /\ artTask.stage = "running"
    /\ artTask.todo = {} \/ artTask.saved = {}
    /\ artTask' = [artTask EXCEPT !.stage = "completed"]
    /\ UNCHANGED <<pc, pageVars, file, art, listTask, forgotten, deleted>>

-----------------------------------------------------------------------------
(* Host records and the hosts file.                                        *)

\* Mutant: the answer of any host is put on the page that is shown.
OnAppsPageAny(h) == page = "apps" /\ active # NoHost

\* The apps page of a host takes results for it.
OnAppsPage(h) == page = "apps" /\ active = h

Loaded == page = "hosts"

\* A host whose client is not paired any more has its apps cleared
\* (update_host_pairing_from_server_info).
Told(rec, info) == CASE info = "unpaired" -> Blank
                     [] info = "paired"   -> [rec EXCEPT !.paired = TRUE]
                     [] OTHER             -> rec

\* merge_host_app_records: favorites and cached flags of apps that stay.
Merged(rec, t) ==
    [rec EXCEPT !.apps = t.apps, !.cached = t.cached \cup (@ \cap t.apps),
                !.favorite = @ \cap t.apps]

\* A list with the saved hash leaves the saved apps as they are.
Changed(rec, t) == rec.apps = {} \/ rec.apps # t.apps

\* apply_app_list_result
Listed(rec, t) == CASE t.answer = "apps" /\ Changed(rec, t) -> Merged(rec, t)
                    [] t.answer = "rejected" -> Blank
                    [] OTHER -> rec

Dirties(rec, t) == \/ t.answer = "apps" /\ Changed(rec, t)
                   \/ t.answer = "rejected" /\ rec.apps # {}

ListStateOf(rec, t) == IF t.answer = "apps" \/ (t.answer = "error" /\ rec.apps # {})
                       THEN "ready" ELSE "failed"

\* Mutant: leaving the host's page drops its apps from the snapshot first.
PersistCleared(its, snap) ==
    IF Loaded THEN its
    ELSE IF active = NoHost THEN its
    ELSE [h \in DOMAIN file \cup {active} |->
            IF h = active THEN [snap EXCEPT !.apps = {}, !.cached = {}, !.favorite = {}]
            ELSE file[h]]

\* persist_hosts: the loaded page, else the file with the snapshot merged in,
\* else the unloaded, empty page.
ToPersist(its, snap) ==
    IF Loaded THEN its
    ELSE IF active = NoHost THEN its
    ELSE [h \in DOMAIN file \cup {active} |-> IF h = active THEN snap ELSE file[h]]

PersistIf(cond, d) == IF cond THEN file' = ToPersist(items', snapshot') /\ dirty' = FALSE
                      ELSE file' = file /\ dirty' = d

-----------------------------------------------------------------------------
(* finish_shell_background_tasks                                           *)

\* finish_app_list_task_if_ready: join, apply the status, apply the list, and
\* save when the list was fetched and something changed.  noted: the name of
\* the host changed, or a rejected client had an empty list saved.
FinishList ==
    /\ pc = "finishList" /\ listTask.stage = "completed"
    /\ pc' = "finishArt"
    /\ listTask' = NoListTask
    /\ LET h     == listTask.host
           saved == h \in DOMAIN items
           here  == ~ saved /\ OnAppsPage(h)
           old   == IF saved THEN items[h] ELSE snapshot
           told  == Told(old, listTask.info)
           rec   == Listed(told, listTask)
       IN /\ items' = IF saved THEN [items EXCEPT ![h] = rec] ELSE items
          /\ snapshot' = IF here THEN rec ELSE snapshot
          /\ list' = IF here THEN ListStateOf(told, listTask) ELSE list
          /\ \E noted \in BOOLEAN :
                LET d == \/ dirty
                         \/ (saved \/ here) /\ (\/ noted \/ told # old
                                                \/ listTask.info = "unpaired"
                                                \/ Dirties(told, listTask))
                IN PersistIf(d /\ listTask.answer = "apps", d)
    /\ UNCHANGED <<page, active, art, artTask, forgotten, deleted>>

\* finish_app_art_task_if_ready: the saved images are flagged, not yet saved.
FinishArt ==
    /\ pc = "finishArt" /\ artTask.stage = "completed"
    /\ pc' = "startList"
    /\ artTask' = NoArtTask
    /\ LET h     == artTask.host
           Flagged(rec) == [rec EXCEPT !.cached = @ \cup (artTask.saved \cap rec.apps)]
       IN /\ items' = IF h \in DOMAIN items THEN [items EXCEPT ![h] = Flagged(@)] ELSE items
          /\ snapshot' = IF h \notin DOMAIN items /\ OnAppsPage(h) THEN Flagged(snapshot)
                         ELSE snapshot
          /\ dirty' = (dirty \/ items' # items \/ snapshot' # snapshot)
    /\ UNCHANGED <<page, active, list, file, art, listTask, forgotten, deleted>>

NotCompleted ==
    /\ \/ pc = "finishList" /\ listTask.stage # "completed" /\ pc' = "finishArt"
       \/ pc = "finishArt" /\ artTask.stage # "completed" /\ pc' = "startList"
    /\ UNCHANGED <<pageVars, file, art, taskVars, deleted>>

-----------------------------------------------------------------------------
(* start_shell_background_tasks_if_needed                                  *)

\* Mutant: only the end of the interval starts a fetch, not a page that waits.
ListWantedLater == /\ page = "apps" /\ active # NoHost /\ snapshot.paired
                   /\ ~ InProgress(listTask)
                   /\ list # "loading"

\* The guards of start_app_list_task_if_needed without the refresh interval.
ListWanted == /\ page = "apps" /\ active # NoHost /\ snapshot.paired
              /\ ~ InProgress(listTask)

\* A completed task counts as not running: it is reset, and the thread and
\* the result that came after FinishList are dropped.
Dropped(task, name) == IF task.stage = "completed" THEN forgotten \cup {name} ELSE forgotten

\* Mutant: the slot is taken while its thread is still at work.
StartListAnyway ==
    /\ pc = "startList" /\ page = "apps" /\ active # NoHost /\ snapshot.paired
    /\ pc' = "startArt"
    /\ forgotten' = Dropped(listTask, "list")
    /\ listTask' = [NoListTask EXCEPT !.stage = "running", !.host = active]
    /\ list' = "loading"
    /\ UNCHANGED <<page, items, active, snapshot, dirty, file, art, artTask, deleted>>

\* start_app_list_task_if_needed, the thread may fail to start.
StartList ==
    /\ pc = "startList" /\ ListWanted
    /\ pc' = "startArt"
    /\ forgotten' = Dropped(listTask, "list")
    /\ \/ /\ listTask' = [NoListTask EXCEPT !.stage = "running", !.host = active]
          /\ list' = "loading"
       \/ /\ listTask' = NoListTask
          /\ list' = "failed"
    /\ UNCHANGED <<page, items, active, snapshot, dirty, file, art, artTask, deleted>>

\* Nothing to fetch, or the refresh interval has not passed.
SkipList ==
    /\ pc = "startList"
    /\ ListWanted => list # "loading"
    /\ pc' = "startArt"
    /\ UNCHANGED <<pageVars, file, art, taskVars, deleted>>

ArtWanted == /\ page = "apps" /\ active # NoHost /\ ~ InProgress(artTask)
             /\ list = "ready" /\ snapshot.apps \ snapshot.cached # {}

\* start_app_art_task_if_needed
StartArt ==
    /\ pc = "startArt" /\ ArtWanted
    /\ pc' = "input"
    /\ forgotten' = Dropped(artTask, "art")
    /\ artTask' \in {NoArtTask,
                     [NoArtTask EXCEPT !.stage = "running", !.host = active,
                                       !.todo = snapshot.apps \ snapshot.cached]}
    /\ UNCHANGED <<pageVars, file, art, listTask, deleted>>

SkipArt ==
    /\ pc = "startArt" /\ ~ ArtWanted
    /\ pc' = "input"
    /\ UNCHANGED <<pageVars, file, art, taskVars, deleted>>

-----------------------------------------------------------------------------
(* Commands of the user; a pass without any goes on to the next pass.      *)

CommandsDone ==
    /\ pc = "input"
    /\ pc' \in {"finishList", "joinForExit"}
    /\ UNCHANGED <<pageVars, file, art, taskVars, deleted>>

\* browse_host_apps_if_requested for a host that answers, enter_apps_screen.
Browse(h) ==
    /\ pc = "input" /\ page = "hosts"
    /\ h \in DOMAIN items /\ items[h].paired
    /\ \E info \in {"none", "paired", "unpaired"}, renamed \in BOOLEAN :
          LET its == [items EXCEPT ![h] = Told(@, info)]
              d   == dirty \/ renamed \/ its # items
          IN /\ file' = IF d THEN its ELSE file
             /\ dirty' = FALSE
             /\ IF its[h].paired
                THEN /\ page' = "apps"
                     /\ items' = NoItems
                     /\ active' = h /\ snapshot' = its[h] /\ list' = "loading"
                ELSE /\ items' = its
                     /\ UNCHANGED <<page, active, snapshot, list>>
    /\ UNCHANGED <<pc, art, taskVars, deleted>>

\* Back to the hosts page, which is reloaded from the file.
Back ==
    /\ pc = "input" /\ page # "hosts"
    /\ page' = "hosts"
    /\ items' = file /\ dirty' = FALSE
    /\ active' = NoHost /\ snapshot' = Blank /\ list' = "idle"
    /\ UNCHANGED <<pc, file, art, taskVars, deleted>>

OpenSettings ==
    /\ pc = "input" /\ page = "hosts"
    /\ page' = "settings"
    /\ items' = NoItems
    /\ UNCHANGED <<pc, active, snapshot, list, dirty, file, art, taskVars, deleted>>

\* delete_saved_file_if_requested for a cover-art file, with
\* clear_deleted_cover_art_flag over the records of the loaded page.
DeleteArt(app) ==
    /\ pc = "input" /\ page = "settings"
    /\ app \in art
    /\ Cardinality(deleted \cup {app}) <= MaxDeleted
    /\ art' = art \ {app}
    /\ deleted' = deleted \cup {app}
    /\ items' = [h \in DOMAIN items |-> [items[h] EXCEPT !.cached = @ \ {app}]]
    /\ UNCHANGED <<pc, page, active, snapshot, list, dirty, file, taskVars>>

\* handle_app_actions_modal_activation: a favorite is toggled and saved.
ToggleFavorite(app) ==
    /\ pc = "input" /\ page = "apps"
    /\ app \in snapshot.apps
    /\ snapshot' = [snapshot EXCEPT !.favorite = IF app \in @ THEN @ \ {app} ELSE @ \cup {app}]
    /\ Cardinality(snapshot'.favorite) <= MaxFavorites
    /\ items' = items
    /\ PersistIf(TRUE, TRUE)
    /\ UNCHANGED <<pc, page, active, list, art, taskVars, deleted>>

\* launch_stream_if_requested, up to finalize_shell_tasks.
LaunchStream ==
    /\ pc = "input" /\ page = "apps"
    /\ snapshot.apps # {}
    /\ pc' = "joinForStream"
    /\ UNCHANGED <<pageVars, file, art, taskVars, deleted>>

\* finalize_shell_tasks has joined the threads; after the stream
\* initialize_shell_runtime resets the slots and drops their results.
StreamEnds ==
    /\ pc = "joinForStream"
    /\ ~ InProgress(listTask) /\ ~ InProgress(artTask)
    /\ pc' = "finishList"
    /\ list' \in {list, "loading"}
    /\ listTask' = NoListTask /\ artTask' = NoArtTask
    /\ UNCHANGED <<page, items, active, snapshot, dirty, file, art, forgotten, deleted>>

Exit ==
    /\ pc = "joinForExit"
    /\ ~ InProgress(listTask) /\ ~ InProgress(artTask)
    /\ pc' = "off"
    /\ listTask' = NoListTask /\ artTask' = NoArtTask
    /\ UNCHANGED <<pageVars, file, art, forgotten, deleted>>

Off == pc = "off" /\ UNCHANGED vars

-----------------------------------------------------------------------------

ListThread == FetchList \/ CompleteList
ArtThread  == CompleteArt \/ (\E app \in App : FetchArt(app))
Pass       == \/ FinishList \/ FinishArt \/ NotCompleted
              \/ StartList \/ SkipList \/ StartArt \/ SkipArt
Command    == \/ CommandsDone \/ Back \/ OpenSettings \/ LaunchStream
              \/ (\E h \in Host : Browse(h))
              \/ (\E app \in App : DeleteArt(app) \/ ToggleFavorite(app))
Leave      == StreamEnds \/ Exit

Next == ListThread \/ ArtThread \/ Pass \/ Command \/ Leave \/ Off

Spec == Init /\ [][Next]_vars

-----------------------------------------------------------------------------

\* A record never holds apps of another host, whichever page is open when an
\* answer arrives.
ListsBelongToHosts ==
    /\ \A h \in DOMAIN items : items[h].apps \subseteq AppsOf(h)
    /\ \A h \in DOMAIN file : file[h].apps \subseteq AppsOf(h)
    /\ active # NoHost => snapshot.apps \subseteq AppsOf(active)

\* Art flagged as cached has its file, unless the user deleted it; this holds
\* for the page, the snapshot, the file and the results on their way.
FlagsHaveFiles ==
    LET Backed(flags) == flags \subseteq art \cup deleted IN
    /\ \A h \in DOMAIN items : Backed(items[h].cached)
    /\ \A h \in DOMAIN file : Backed(file[h].cached)
    /\ Backed(snapshot.cached) /\ Backed(listTask.cached) /\ Backed(artTask.saved)

\* When the start of tasks is over, a page that shows "loading" for a paired
\* host has a fetch under way, also after a stream and after fetches for other
\* hosts.
LoadingIsFetched ==
    (pc = "startArt" /\ page = "apps" /\ list = "loading" /\ snapshot.paired)
        => listTask.stage # "none"

\* A slot is neither reset nor restarted while its thread still writes to it.
SlotsHeld ==
    [][/\ listTask.stage = "running" => listTask' = listTask \/ listTask'.stage = "fetched"
       /\ listTask.stage = "fetched" => listTask' = listTask \/ listTask'.stage = "completed"
       /\ artTask.stage = "running" => artTask'.stage \in {"running", "completed"}
                                       /\ artTask'.host = artTask.host
                                       /\ artTask'.todo \subseteq artTask.todo]_vars

\* The saved apps of a host change only by the list it just sent, or because
\* it says the client is not paired any more.
AppsRemembered ==
    [][\A h \in DOMAIN file \cap DOMAIN file' :
          file'[h].apps # file[h].apps =>
             \/ FinishList /\ listTask.host = h /\ file'[h].apps = listTask.apps
             \/ ~ file'[h].paired]_vars

-----------------------------------------------------------------------------
(* What the proofs rest on.                                                *)

\* An answer is about the host it was asked for, on the way and in the slot.
TaskInv ==
    /\ listTask.stage # "none" => listTask.host \in Host
    /\ listTask.host \in Host => listTask.apps \subseteq AppsOf(listTask.host)
    /\ listTask.host = NoHost => listTask.apps = {}
    /\ listTask.cached \subseteq listTask.apps
    /\ artTask.stage # "none" => artTask.host \in Host

\* The snapshot is held exactly while the apps page is shown.
PageInv == page = "apps" <=> active # NoHost

\* A record that lists only apps of h and flags only art in files.
Sound(h, r, files) ==
    /\ r \in Record
    /\ r.apps \subseteq AppsOf(h)
    /\ r.cached \subseteq files

\* A list of hosts, or a hosts file, with sound records only.
AllSound(recs, files) ==
    /\ recs = [h \in DOMAIN recs |-> recs[h]]
    /\ DOMAIN recs \subseteq Host
    /\ \A h \in DOMAIN recs : Sound(h, recs[h], files)

Files == art \cup deleted

\* The page, the snapshot and the file hold sound records.
RecordsInv ==
    /\ AllSound(items, Files)
    /\ AllSound(file, Files)
    /\ IF active = NoHost THEN snapshot = Blank ELSE Sound(active, snapshot, Files)

\* What is held of a host lists the apps the file lists of it, unless the client
\* was found not to be paired and no fetch for that host is under way.
Agrees(h, rec, saved, asked) ==
    h \in DOMAIN saved => \/ rec.apps = saved[h].apps
                          \/ ~ rec.paired /\ asked # h

\* The page is loaded only while it is shown; it and the snapshot agree with
\* the file.
AgreeInv ==
    /\ page # "hosts" => DOMAIN items = {}
    /\ \A h \in DOMAIN items : Agrees(h, items[h], file, listTask.host)
    /\ active # NoHost => Agrees(active, snapshot, file, listTask.host)

AppsInv == TypeOK /\ TaskInv /\ PageInv /\ RecordsInv /\ FlagsHaveFiles /\ LoadingIsFetched

-----------------------------------------------------------------------------
(* What a comment of the code promises and it does not keep: TLC finds a     *)
(* counterexample, which no run repeats.                                     *)

\* All background tasks were joined when the shell ends.
ThreadsJoined == pc = "off" => forgotten = {}
=============================================================================

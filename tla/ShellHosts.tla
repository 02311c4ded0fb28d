---------------------------- MODULE ShellHosts -----------------------------
(***************************************************************************)
(* The saved hosts of the shell: the list of the hosts page, the snapshot  *)
(* kept for the pages of one host, the file they are saved to, and every   *)
(* command and background result that changes them.                        *)
(*                                                                         *)
(* The shell is one thread.  A frame reloads the page if needed, applies   *)
(* the results that are ready, starts tasks, runs the commands of the      *)
(* user, then applies results and starts tasks once more.  When a result   *)
(* becomes ready is up to other threads, so it is left open.  Of a host    *)
(* record only its presence and its pairing state are kept; reachability,  *)
(* ticks and refresh intervals are left open.                              *)
(***************************************************************************)
EXTENDS Integers, FiniteSets, Functions

CONSTANTS Host,      \* endpoints the user or discovery can add
          NoHost     \* no host, distinct from all of them

ASSUME HostsAssumption == NoHost \notin Host

VARIABLES
    pc,               \* the part of the frame that runs next
    half,             \* first or second pass over the background tasks
    screen,           \* shell.activeScreen
    loaded,           \* hosts.loaded
    items,            \* hosts.items
    active,           \* host of hosts.active, NoHost when not activeLoaded
    activePairing,    \* pairing state of hosts.active
    dirty,            \* hosts.dirty
    manual,           \* hosts.pairingResetEndpoints
    attempt,          \* target of the active pairing attempt
    appList,          \* target of the app-list task
    art,              \* target of the cover-art task
    discovering,      \* a discovery task is running
    round,            \* saved hosts whose probe has not been answered
    metadataChanged,  \* HostProbeTaskState::metadataChanged
    disk,             \* the saved hosts file
    torn,             \* history: the last write of the file failed half-way
    wanted            \* history: hosts saved, added or found, and not removed since

pageVars == <<screen, loaded, items, active, activePairing, dirty, manual>>
taskVars == <<attempt, appList, art, discovering, round, metadataChanged>>
fileVars == <<disk, torn, wanted>>
vars     == <<pc, half, pageVars, taskVars, fileVars>>

Screen   == {"hosts", "apps", "add_host", "pair_host", "settings"}
Pairing  == {"absent", "unpaired", "paired"}
Stage    == {"ensure", "pairing", "appList", "art", "discovery", "probe",
             "roundEnd", "start", "input", "exit", "off"}

Nothing == [h \in Host |-> "absent"]
SavedHosts(list) == {h \in Host : list[h] # "absent"}

TypeOK ==
    /\ pc \in Stage
    /\ half \in {1, 2}
    /\ screen \in Screen
    /\ loaded \in BOOLEAN
    /\ items \in [Host -> Pairing]
    /\ active \in Host \cup {NoHost}
    /\ activePairing \in {"unpaired", "paired"}
    /\ dirty \in BOOLEAN
    /\ manual \subseteq Host
    /\ attempt \in Host \cup {NoHost}
    /\ appList \in Host \cup {NoHost}
    /\ art \in Host \cup {NoHost}
    /\ discovering \in BOOLEAN
    /\ round \subseteq Host
    /\ metadataChanged \in BOOLEAN
    /\ disk \in [Host -> Pairing]
    /\ torn \in BOOLEAN
    /\ wanted \subseteq Host

-----------------------------------------------------------------------------
(* Records, loading and saving.                                            *)

Found(h) == items[h] # "absent"

\* find_loaded_host_by_endpoint: the page's record, else the snapshot.
RecordOf(h) == IF Found(h) THEN items[h]
               ELSE IF active = h THEN activePairing ELSE "absent"

ItemsWith(h, p)  == IF Found(h) THEN [items EXCEPT ![h] = p] ELSE items
ActiveWith(h, p) == IF ~ Found(h) /\ active = h THEN p ELSE activePairing

\* save_saved_hosts opens the file for writing, which empties it, then writes.
Written(list) == disk' = list /\ torn' = FALSE
WriteFails    == \/ UNCHANGED <<disk, torn>>
                 \/ disk' = Nothing /\ torn' = TRUE

\* Mutant: a failed save marks the list clean.
SaveForgetful(list, d) == (Written(list) \/ WriteFails) /\ dirty' = FALSE

Save(list, d) == \/ Written(list) /\ dirty' = FALSE
                 \/ WriteFails /\ dirty' = d

SaveIf(cond, list, d) == IF cond THEN Save(list, d)
                         ELSE dirty' = d /\ UNCHANGED <<disk, torn>>

\* Mutant: the snapshot of an unloaded page is not merged into the file.
PersistPageOnly(list, act, p) == list

\* persist_hosts: the page when it is loaded, else the file with the snapshot
\* merged in, else whatever the unloaded page holds.
ToPersist(list, act, p) ==
    IF loaded THEN list
    ELSE IF act # NoHost THEN [disk EXCEPT ![act] = p] ELSE list

\* Mutant: the page is marked loaded without being read from the file.
ReloadNothing == /\ items' = items /\ loaded' = TRUE /\ dirty' = FALSE
                 /\ active' = NoHost /\ activePairing' = "unpaired"

\* ensure_hosts_loaded_for_active_screen and replace_hosts on the hosts page.
Reload == /\ items' = disk' /\ loaded' = TRUE /\ dirty' = FALSE
          /\ active' = NoHost /\ activePairing' = "unpaired"

\* What apply_server_info_to_host can make of a host's record, and whether it
\* counts as changed: a host removed by the user is never taken as paired.
Answers(h) ==
    {a \in [to : Pairing, changed : BOOLEAN] :
        /\ a.to = "absent" <=> RecordOf(h) = "absent"
        /\ a.to # RecordOf(h) => a.changed
        /\ a.changed => RecordOf(h) # "absent"
        /\ a.to = "paired" /\ h \in manual => RecordOf(h) = "paired"}

\* unload_hosts_page_state
UnloadHosts(list) == /\ loaded' = FALSE
                     /\ items' = IF loaded THEN Nothing ELSE list

NoTasks == /\ attempt' = NoHost /\ appList' = NoHost /\ art' = NoHost
           /\ discovering' = FALSE /\ round' = {} /\ metadataChanged' = FALSE

Init ==
    /\ pc = "ensure" /\ half = 1
    /\ screen = "hosts" /\ loaded = TRUE
    /\ disk \in [Host -> Pairing] /\ items = disk
    /\ active = NoHost /\ activePairing = "unpaired"
    /\ dirty = FALSE /\ manual = {}
    /\ attempt = NoHost /\ appList = NoHost /\ art = NoHost
    /\ discovering = FALSE /\ round = {} /\ metadataChanged = FALSE
    /\ torn = FALSE /\ wanted = SavedHosts(disk)

-----------------------------------------------------------------------------
(* Start of a frame, and finish_shell_background_tasks.                    *)

Ensure ==
    /\ pc = "ensure"
    /\ pc' = "pairing"
    /\ UNCHANGED <<half, screen, manual, taskVars, fileVars>>
    /\ IF screen = "hosts" /\ ~ loaded THEN Reload
       ELSE UNCHANGED <<items, loaded, dirty, active, activePairing>>

\* The results are looked for in this order; one that is not ready is skipped.
FinishOrder == <<"pairing", "appList", "art", "discovery", "probe">>
Finishing   == Range(FinishOrder)
LookedFor(i) == pc \in {FinishOrder[j] : j \in 1 .. i}

NoMoreResults ==
    /\ pc \in Finishing
    /\ pc' = "start"
    /\ UNCHANGED <<half, pageVars, taskVars, fileVars>>

\* finalize_pairing_attempt with a successful result: apply_pairing_result
\* marks the host, opens the hosts page and the hosts are saved.
PairingSucceeds ==
    /\ LookedFor(1) /\ attempt # NoHost
    /\ pc' = "appList"
    /\ attempt' = NoHost
    /\ IF RecordOf(attempt) = "absent"
       THEN UNCHANGED <<pageVars, disk, torn>>
       ELSE /\ manual' = manual \ {attempt}
            /\ items' = ItemsWith(attempt, "paired")
            /\ activePairing' = ActiveWith(attempt, "paired")
            /\ screen' = "hosts"
            /\ Save(ToPersist(items', active, activePairing'), TRUE)
            /\ UNCHANGED <<loaded, active>>
    /\ UNCHANGED <<half, appList, art, discovering, round, metadataChanged, wanted>>

PairingFails ==
    /\ LookedFor(1) /\ attempt # NoHost
    /\ pc' = "appList"
    /\ attempt' = NoHost
    /\ items' = ItemsWith(attempt, "unpaired")
    /\ activePairing' = ActiveWith(attempt, "unpaired")
    /\ UNCHANGED <<half, screen, loaded, active, dirty, manual, appList, art,
                   discovering, round, metadataChanged, fileVars>>

\* find_app_list_result_host
TakesAppList(h) == Found(h) \/ (screen = "apps" /\ active = h)

\* finish_app_list_task_if_ready: the list was fetched.
AppListFetched ==
    /\ LookedFor(2) /\ appList # NoHost
    /\ pc' = "art"
    /\ appList' = NoHost
    /\ \E a \in Answers(appList), newList \in BOOLEAN :
          /\ items' = ItemsWith(appList, a.to)
          /\ activePairing' = ActiveWith(appList, a.to)
          /\ LET d == dirty \/ a.changed \/ (newList /\ TakesAppList(appList))
             IN SaveIf(d, ToPersist(items', active, activePairing'), d)
    /\ UNCHANGED <<half, screen, loaded, active, manual, attempt, art,
                   discovering, round, metadataChanged, wanted>>

\* The fetch failed, possibly because the client is not paired any more:
\* nothing is saved.
AppListFailed ==
    /\ LookedFor(2) /\ appList # NoHost
    /\ pc' = "art"
    /\ appList' = NoHost
    /\ \E a \in Answers(appList), rejected, hadApps \in BOOLEAN :
          LET p == IF rejected /\ TakesAppList(appList) THEN "unpaired" ELSE a.to IN
          /\ items' = ItemsWith(appList, p)
          /\ activePairing' = ActiveWith(appList, p)
          /\ dirty' = (dirty \/ a.changed \/ (rejected /\ hadApps /\ TakesAppList(appList)))
    /\ UNCHANGED <<half, screen, loaded, active, manual, attempt, art,
                   discovering, round, metadataChanged, fileVars>>

\* finish_app_art_task_if_ready: newly cached art marks the list as changed.
FinishArt ==
    /\ LookedFor(3) /\ art # NoHost
    /\ pc' = "discovery"
    /\ art' = NoHost
    /\ dirty' \in IF TakesAppList(art) THEN {dirty, TRUE} ELSE {dirty}
    /\ UNCHANGED <<half, screen, loaded, items, active, activePairing, manual,
                   attempt, appList, discovering, round, metadataChanged, fileVars>>

\* finish_host_discovery_task_if_ready with merge_discovered_host.
FinishDiscovery ==
    /\ LookedFor(4) /\ discovering
    /\ pc' = "probe"
    /\ discovering' = FALSE
    /\ IF screen = "hosts" /\ loaded
       THEN \E hosts \in SUBSET Host, renamed \in BOOLEAN :
              LET new     == {h \in hosts : ~ Found(h)}
                  changed == new # {} \/ (renamed /\ hosts # {})
              IN /\ items' = [h \in Host |-> IF h \in new THEN "unpaired" ELSE items[h]]
                 /\ wanted' = wanted \cup new
                 /\ SaveIf(changed, items', dirty \/ changed)
       ELSE UNCHANGED <<items, dirty, fileVars>>
    /\ UNCHANGED <<half, screen, loaded, active, activePairing, manual, attempt,
                   appList, art, round, metadataChanged>>

\* apply_published_host_probe_results for one answer.
TakeAnswer(h) ==
    /\ LookedFor(5) /\ h \in round
    /\ round' = round \ {h}
    /\ pc' = IF round' = {} THEN "roundEnd" ELSE "probe"
    /\ \/ /\ screen = "hosts" /\ loaded
          /\ \E a \in Answers(h) :
                /\ items' = ItemsWith(h, a.to)
                /\ activePairing' = ActiveWith(h, a.to)
                /\ dirty' = (dirty \/ a.changed)
                /\ metadataChanged' = (metadataChanged \/ dirty')
       \/ UNCHANGED <<items, activePairing, dirty, metadataChanged>>
    /\ UNCHANGED <<half, screen, loaded, active, manual, attempt, appList, art,
                   discovering, fileVars>>

\* The end of finish_host_probe_task_if_ready.
EndRound ==
    /\ pc = "roundEnd"
    /\ pc' = "start"
    /\ SaveIf(metadataChanged, ToPersist(items, active, activePairing), dirty)
    /\ metadataChanged' = FALSE
    /\ UNCHANGED <<half, screen, loaded, items, active, activePairing, manual,
                   attempt, appList, art, discovering, round, wanted>>

-----------------------------------------------------------------------------
(* start_shell_background_tasks_if_needed.  A task that completed after its *)
(* result was looked for counts as not running: it is started anew and its  *)
(* result is dropped.                                                       *)

StartDiscovery ==
    /\ pc = "start" /\ screen = "hosts" /\ loaded
    /\ discovering' = TRUE
    /\ UNCHANGED <<pc, half, pageVars, attempt, appList, art, round, metadataChanged, fileVars>>

StartRound ==
    /\ pc = "start" /\ screen = "hosts" /\ loaded
    /\ round = {}
    /\ round' = SavedHosts(items)
    /\ metadataChanged' = FALSE
    /\ UNCHANGED <<pc, half, pageVars, attempt, appList, art, discovering, fileVars>>

StartAppList ==
    /\ pc = "start" /\ screen = "apps" /\ active # NoHost
    /\ activePairing = "paired"
    /\ appList' = active
    /\ UNCHANGED <<pc, half, pageVars, attempt, art, discovering, round, metadataChanged, fileVars>>

StartArt ==
    /\ pc = "start" /\ screen = "apps" /\ active # NoHost
    /\ art' = active
    /\ UNCHANGED <<pc, half, pageVars, attempt, appList, discovering, round, metadataChanged, fileVars>>

\* A frame ends the shell when the window was closed, the exit combination was
\* held or drawing failed.
LeaveStart ==
    /\ pc = "start"
    /\ \/ half = 1 /\ pc' = "input" /\ half' = 1
       \/ half = 2 /\ pc' \in {"ensure", "exit"} /\ half' = 1
    /\ UNCHANGED <<pageVars, taskVars, fileVars>>

-----------------------------------------------------------------------------
(* process_shell_command: handle_command and the requests it makes.        *)

CommandsDone ==
    /\ pc = "input"
    /\ pc' = "pairing" /\ half' = 2
    /\ UNCHANGED <<pageVars, taskVars, fileVars>>

OnPage(page) == pc = "input" /\ screen = page /\ UNCHANGED <<pc, half>>

OpenSettings ==
    /\ OnPage("hosts")
    /\ screen' = "settings"
    /\ UnloadHosts(items)
    /\ UNCHANGED <<active, activePairing, dirty, manual, taskVars, fileVars>>

OpenAddHost ==
    /\ OnPage("hosts")
    /\ screen' = "add_host"
    /\ UNCHANGED <<loaded, items, active, activePairing, dirty, manual, taskVars, fileVars>>

\* Mutant: leaving the pairing page does not cancel the attempt.
BackWithoutCancel ==
    /\ \E page \in Screen \ {"hosts"} : OnPage(page)
    /\ screen' = "hosts"
    /\ UNCHANGED <<manual, taskVars, fileVars>>
    /\ IF loaded THEN UNCHANGED <<items, loaded, dirty, active, activePairing>> ELSE Reload

\* Back to the hosts page; leaving the pairing page cancels the attempt.
Back ==
    /\ \E page \in Screen \ {"hosts"} : OnPage(page)
    /\ screen' = "hosts"
    /\ attempt' = IF screen = "pair_host" THEN NoHost ELSE attempt
    /\ UNCHANGED <<manual, appList, art, discovering, round, metadataChanged, fileVars>>
    /\ IF loaded THEN UNCHANGED <<items, loaded, dirty, active, activePairing>> ELSE Reload

\* "save-host" of the add-host menu.
SaveHost(h) ==
    /\ OnPage("add_host")
    /\ ~ Found(h)
    /\ screen' = "hosts"
    /\ LET list == [items EXCEPT ![h] = "unpaired"]
           file == ToPersist(list, active, activePairing)
       IN IF loaded
          THEN /\ items' = list
               /\ Save(file, TRUE)
               /\ UNCHANGED <<loaded, active, activePairing>>
          ELSE (Written(file) \/ WriteFails) /\ Reload
    /\ wanted' = wanted \cup {h}
    /\ UNCHANGED <<manual, taskVars>>

\* "start-pairing" of the add-host menu: the host is added if it is new, then
\* request_host_pairing refuses (offline, no PIN) or opens the pairing page.
StartPairing(h) ==
    /\ OnPage("add_host")
    /\ LET list == IF Found(h) THEN items ELSE [items EXCEPT ![h] = "unpaired"] IN
       \/ /\ items' = list
          /\ SaveIf(~ Found(h), ToPersist(list, active, activePairing), dirty \/ ~ Found(h))
          /\ UNCHANGED <<screen, active, activePairing, attempt>>
       \/ /\ active' = h /\ activePairing' = list[h]
          /\ screen' = "pair_host"
          /\ \/ attempt' = h /\ items' = list
             \/ attempt' = NoHost /\ items' = [list EXCEPT ![h] = "unpaired"]
          /\ SaveIf(~ Found(h), ToPersist(items', h, list[h]), dirty \/ ~ Found(h))
    /\ wanted' = wanted \cup {h}
    /\ UNCHANGED <<loaded, manual, appList, art, discovering, round, metadataChanged>>

\* Selecting an unpaired host: request_host_pairing from the hosts page.
PairSelected(h) ==
    /\ OnPage("hosts")
    /\ items[h] = "unpaired"
    /\ active' = h /\ activePairing' = "unpaired"
    /\ screen' = "pair_host"
    /\ attempt' \in {h, NoHost}
    /\ UnloadHosts(IF attempt' = h THEN items ELSE ItemsWith(h, "unpaired"))
    /\ UNCHANGED <<dirty, manual, appList, art, discovering, round, metadataChanged, fileVars>>

\* browse_host_apps_if_requested for a paired host that answers.
Browse(h) ==
    /\ OnPage("hosts")
    /\ items[h] = "paired"
    /\ \E a \in Answers(h) :
          /\ LET d == dirty \/ a.changed
                 list == ItemsWith(h, a.to)
             IN /\ SaveIf(d, ToPersist(list, active, activePairing), d)
                /\ IF a.to = "paired"
                   THEN /\ active' = h /\ activePairing' = "paired"
                        /\ screen' = "apps"
                        /\ UnloadHosts(list)
                   ELSE /\ items' = list
                        /\ UNCHANGED <<screen, loaded, active, activePairing>>
    /\ UNCHANGED <<manual, taskVars, wanted>>

\* test_host_connection_if_requested, for a saved host or for a typed one.
TestConnection(h) ==
    /\ OnPage("add_host") \/ (OnPage("hosts") /\ Found(h))
    /\ \E a \in Answers(h) :
          /\ items' = ItemsWith(h, a.to)
          /\ activePairing' = ActiveWith(h, a.to)
          /\ LET d == dirty \/ a.changed
             IN SaveIf(d, ToPersist(items', active, activePairing'), d)
    /\ UNCHANGED <<screen, loaded, active, manual, taskVars, wanted>>

\* delete_selected_host
DeleteHost(h) ==
    /\ OnPage("hosts")
    /\ Found(h)
    /\ manual' = IF items[h] = "paired" THEN manual \cup {h} ELSE manual
    /\ items' = [items EXCEPT ![h] = "absent"]
    /\ Save(ToPersist(items', active, activePairing), TRUE)
    /\ wanted' = wanted \ {h}
    /\ UNCHANGED <<screen, loaded, active, activePairing, taskVars>>

\* Hiding an app or marking it as a favorite.
ChangeApp ==
    /\ OnPage("apps")
    /\ active # NoHost
    /\ Save(ToPersist(items, active, activePairing), TRUE)
    /\ UNCHANGED <<screen, loaded, items, active, activePairing, manual, taskVars, wanted>>

\* launch_stream_if_requested joins every task and drops its result.
LaunchStream ==
    /\ OnPage("apps")
    /\ active # NoHost
    /\ NoTasks
    /\ UNCHANGED <<pageVars, fileVars>>

\* Deleting the hosts file among the saved files.
DeleteHostsFile ==
    /\ OnPage("settings")
    /\ disk' = Nothing
    /\ wanted' = {}
    /\ UNCHANGED <<torn, pageVars, taskVars>>

\* factory_reset_if_requested; a file that cannot be deleted stops it early.
FactoryReset ==
    /\ OnPage("settings")
    /\ \/ /\ disk' = Nothing
          /\ wanted' = {}
          /\ screen' = "hosts" /\ loaded' = TRUE /\ items' = Nothing
          /\ active' = NoHost /\ activePairing' = "unpaired"
          /\ dirty' = FALSE /\ manual' = {}
       \/ /\ \/ UNCHANGED <<disk, wanted>>
             \/ disk' = Nothing /\ wanted' = {}
          /\ UNCHANGED pageVars
    /\ UNCHANGED <<torn, taskVars>>

-----------------------------------------------------------------------------
(* The end of main and the next start.                                     *)

SaveAtExit ==
    /\ pc = "exit"
    /\ pc' = "off"
    /\ SaveIf(dirty, items, dirty)
    /\ NoTasks
    /\ UNCHANGED <<half, screen, loaded, items, active, activePairing, manual, wanted>>

Boot ==
    /\ pc = "off"
    /\ pc' = "ensure"
    /\ screen' = "hosts" /\ manual' = {}
    /\ disk' = disk
    /\ Reload
    /\ UNCHANGED <<half, taskVars, torn, wanted>>

-----------------------------------------------------------------------------

FinishTasks == \/ PairingSucceeds \/ PairingFails
               \/ AppListFetched \/ AppListFailed \/ FinishArt
               \/ FinishDiscovery
               \/ (\E h \in Host : TakeAnswer(h))
               \/ EndRound \/ NoMoreResults
StartTasks  == StartDiscovery \/ StartRound \/ StartAppList \/ StartArt \/ LeaveStart
PageCommand == OpenSettings \/ OpenAddHost \/ Back \/ CommandsDone
HostCommand == \E h \in Host : \/ SaveHost(h) \/ StartPairing(h) \/ PairSelected(h)
                               \/ Browse(h) \/ TestConnection(h) \/ DeleteHost(h)
OtherCommand == ChangeApp \/ LaunchStream \/ DeleteHostsFile \/ FactoryReset
Process     == SaveAtExit \/ Boot

Next == Ensure \/ FinishTasks \/ StartTasks \/ PageCommand \/ HostCommand
          \/ OtherCommand \/ Process

Spec == Init /\ [][Next]_vars

-----------------------------------------------------------------------------

\* While the hosts page is loaded, clean, and the last write succeeded, the
\* file holds exactly the hosts of the page.
CleanPageMatchesFile ==
    (loaded /\ ~ dirty /\ ~ torn) => SavedHosts(items) = SavedHosts(disk)

\* A loaded page never lacks a saved host the user did not remove, so saving
\* it cannot lose one.
PageCoversFile ==
    loaded => SavedHosts(disk) \cap wanted \subseteq SavedHosts(items)

\* The pairing attempt whose result will be applied exists only on the pairing
\* page, and the page's snapshot is the host being paired.
AttemptHasItsHost ==
    attempt # NoHost => (screen = "pair_host" /\ active = attempt)

\* The pages of one host have that host; pages away from the host list have
\* released it.
PagesHold ==
    /\ screen \in {"apps", "pair_host"} => active # NoHost
    /\ screen \in {"apps", "settings"} => ~ loaded

\* A step that drops a saved host from the file follows the user's request,
\* or a failed write, as long as the page or a snapshot is held.
Forgets == (SavedHosts(disk) \ SavedHosts(disk')) \cap wanted' # {}
LossesAreRequested ==
    [][(Forgets /\ (loaded \/ active # NoHost) /\ pc # "exit") => torn']_vars

-----------------------------------------------------------------------------
(* What a comment of the code promises and it does not keep.               *)

\* Saves that nobody asked for, at the end of a refresh and at exit, never drop
\* a saved host from the file.
SavesKeepHosts == [][(EndRound \/ SaveAtExit) /\ Forgets => torn']_vars
=============================================================================

---------------------------- MODULE SettingsPage ----------------------------
(***************************************************************************)
(* The settings page with its two menus, the confirmations, the log viewer *)
(* and the files it can delete.  Other parts of the shell write files      *)
(* meanwhile.  What the settings are is in SettingsFile.                   *)
(***************************************************************************)
EXTENDS MenuModel, FiniteSets, SequencesExt

CONSTANTS Art,         \* files of cover art
          LogLines     \* LOG_VIEWER_MAX_LOADED_LINES

ASSUME LogAssumption == LogLines \in Nat \ {0}

\* A folder holds finitely many files; the id of a file's row starts with
\* delete-saved-file:, so it is no other row's.
ASSUME ArtAssumption ==
    /\ IsFiniteSet(Art)
    /\ Art \cap {"none", "logging", "display", "input", "reset", "factory-reset", "input-placeholder",
                 "view-log-file", "cycle-log-level", "cycle-stream-video-mode",
                 "toggle-play-audio-on-xbox"} = {}

VARIABLES
    page,      \* what ClientState holds of the page
    disk,      \* the files that exist
    halfReset  \* history: a reset has failed since the files were listed

vars == <<page, disk, halfReset>>

File    == {"hosts", "settings", "log", "identity"} \cup Art
Setting == {"cycle-log-level", "cycle-stream-video-mode", "toggle-play-audio-on-xbox"}

Categories == <<"logging", "display", "input", "reset">>
Detail(category, files) ==
    CASE category = "logging" -> <<"view-log-file", "cycle-log-level">>
      [] category = "display" -> <<"cycle-stream-video-mode", "toggle-play-audio-on-xbox">>
      [] category = "reset"   -> <<"factory-reset">> \o files
      [] OTHER                -> <<"input-placeholder">>

\* create_initial_state
InitialPage ==
    [screen |-> "hosts", menu |-> NoMenu, detail |-> NoMenu, focus |-> "categories",
     category |-> "logging", files |-> <<>>, refresh |-> TRUE,
     modal |-> "none", no |-> FALSE, target |-> "none", lines |-> 0, offset |-> 0]

-----------------------------------------------------------------------------
(* The page.                                                               *)

CloseModal(p) == [p EXCEPT !.modal = "none", !.no = FALSE, !.target = "none"]

\* rebuild_menu, which leaves the detail menu when the preferred row is a category.
RebuildMenu(p, preferred) ==
    LET rows == SetItems(Categories) IN
    IF Selects(rows, preferred) THEN [p EXCEPT !.menu = SelectItemById(rows, preferred)]
    ELSE [p EXCEPT !.menu = SelectItemById(rows, SelectedItem(@)),
                   !.detail = Rebuilt(@, Detail(p.category, p.files), preferred, SelectedItem(@))]

\* set_screen, from and to the settings page.
EnterSettings ==
    LET category == Categories[1] IN
    [InitialPage EXCEPT !.screen = "settings", !.menu = SetItems(Categories),
                        !.detail = SetItems(Detail(category, <<>>))]
LeaveSettings(p) == [InitialPage EXCEPT !.category = p.category]

\* Mutant: the rows stay those of the category before.
ShowCategoryOnly(p) == [p EXCEPT !.category = SelectedItem(p.menu)]

\* sync_selected_settings_category_from_menu, rebuild_settings_detail_menu
ShowCategory(p) ==
    [p EXCEPT !.category = SelectedItem(p.menu),
              !.detail = SetItems(Detail(SelectedItem(p.menu), p.files))]

\* list_saved_files; a folder that cannot be read gives what was found.
IfThere(f, files) == IF f \in files THEN <<f>> ELSE <<>>
InOrder(files) == SetToSeq(files \cap Art) \o IfThere("hosts", files) \o IfThere("log", files)
                  \o IfThere("settings", files) \o IfThere("identity", files)
Listings(there) == {InOrder(there), InOrder(there \ Art)}

\* refresh_saved_files_if_needed, replace_saved_files
Refreshed(p, there) ==
    IF p.screen # "settings" \/ ~ p.refresh THEN {p}
    ELSE {RebuildMenu([p EXCEPT !.files = listing, !.refresh = FALSE], SelectedItem(p.detail)) :
             listing \in Listings(there)}

\* show_log_file_if_requested, apply_log_viewer_contents: a missing or empty
\* log is a line that says so.
OpenLog(p, n) == [p EXCEPT !.lines = n, !.offset = 0, !.modal = "log_viewer"]
LogLength == IF "log" \in disk THEN 1 .. LogLines ELSE {1}

\* Mutant: an unsigned offset is reduced without looking.
ScrollUnchecked(p, older, step) ==
    [p EXCEPT !.offset = IF older THEN (IF @ + step > p.lines - 1 THEN p.lines - 1 ELSE @ + step)
                         ELSE @ - step]

\* scroll_log_viewer
Scroll(p, older, step) ==
    [p EXCEPT !.offset = IF older THEN (IF @ + step > p.lines - 1 THEN p.lines - 1 ELSE @ + step)
                         ELSE IF @ > step THEN @ - step ELSE 0]

\* Only the page changes.
Shows(p) ==
    /\ page' = p
    /\ UNCHANGED <<disk, halfReset>>

-----------------------------------------------------------------------------
(* Commands.                                                               *)

OnPage == page.screen = "settings" /\ page.modal = "none"

Open == page.screen = "hosts" /\ page' \in Refreshed(EnterSettings, disk)
        /\ halfReset' = FALSE /\ UNCHANGED disk

Categorise(command) ==
    /\ OnPage /\ page.focus = "categories"
    /\ \/ command = "back" /\ Shows(LeaveSettings(page))
       \/ /\ command \in {"move_up", "move_down"}
          /\ Shows(ShowCategory([page EXCEPT !.menu = MoveSelection(@, IF command = "move_up" THEN -1 ELSE 1)]))
       \/ /\ command = "activate"
          /\ Shows([RebuildMenu([page EXCEPT !.category = SelectedItem(page.menu)], SelectedItem(page.menu))
                      EXCEPT !.focus = "options"])
       \/ command = "move_right" /\ Shows([page EXCEPT !.focus = "options"])

\* persist_settings_if_needed writes the file, or cannot open it.
SettingsSaved == disk' \in {disk, disk \cup {"settings"}} /\ UNCHANGED halfReset

\* handle_settings_detail_activation
Activate(row) ==
    \/ /\ row = "view-log-file"
       /\ \E n \in LogLength : Shows(OpenLog(page, n))
    \/ /\ row \in Setting
       /\ page' = RebuildMenu(page, row)
       /\ SettingsSaved
    \/ /\ row \in File \cup {"factory-reset"}
       /\ Shows([page EXCEPT !.modal = "confirmation", !.no = FALSE, !.target = row])
    \/ /\ row = "input-placeholder"
       /\ Shows(page)

Choose(command) ==
    /\ OnPage /\ page.focus = "options"
    /\ \/ command \in {"back", "move_left"} /\ Shows([page EXCEPT !.focus = "categories"])
       \/ /\ command \in {"move_up", "move_down"}
          /\ Shows([page EXCEPT !.detail = MoveSelection(@, IF command = "move_up" THEN -1 ELSE 1)])
       \/ command = "activate" /\ Activate(SelectedItem(page.detail))

LogCommand(command) ==
    /\ page.modal = "log_viewer"
    /\ \/ command \in {"back", "activate"} /\ Shows(CloseModal(page))
       \/ command \in {"page_up", "page_down"} /\ Shows(Scroll(page, command = "page_up", 1))
       \/ command \in {"fast_up", "fast_down"} /\ Shows(Scroll(page, command = "fast_up", 3))
       \/ command = "delete_character" /\ SettingsSaved /\ UNCHANGED page

\* Mutant: the list is not marked after a file was deleted.
DeleteFileOnly(f) ==
    LET closed == CloseModal(page) IN
    \/ /\ disk' = disk \ {f}
       /\ page' \in Refreshed(closed, disk')
       /\ UNCHANGED halfReset
    \/ Shows(closed)

\* delete_saved_file_if_requested: a file that is not there counts as deleted.
DeleteFile(f) ==
    LET closed == CloseModal(page) IN
    \/ /\ disk' = disk \ {f}
       /\ page' \in Refreshed([closed EXCEPT !.refresh = TRUE], disk')
       /\ halfReset' = FALSE
    \/ Shows(closed)

\* factory_reset_if_requested stops at the first file that cannot be deleted
\* and then leaves the list as it is.  What is logged makes a log again.
FactoryReset ==
    \/ /\ disk' \in {{}, {"log"}}
       /\ page' = InitialPage
       /\ halfReset' = FALSE
    \/ /\ \E left \in SUBSET disk : left # {} /\ disk' = left
       /\ page' = CloseModal(page)
       /\ halfReset' = TRUE

Confirm(command) ==
    /\ page.modal = "confirmation"
    /\ \/ command \in {"move_left", "move_right", "move_up", "move_down"} /\ Shows([page EXCEPT !.no = ~ @])
       \/ /\ command = "back" \/ (command = "activate" /\ page.no)
          /\ Shows(CloseModal(page))
       \/ /\ command = "activate" /\ ~ page.no
          /\ IF page.target = "factory-reset" THEN FactoryReset ELSE DeleteFile(page.target)

-----------------------------------------------------------------------------
(* Other parts of the program.                                             *)

\* The log, an identity, hosts and cover art are written by others.
Written ==
    /\ \E f \in File \ (disk \cup {"settings"}) : disk' = disk \cup {f}
    /\ UNCHANGED <<page, halfReset>>

\* The start of a frame.
Frame == /\ page' \in Refreshed(page, disk)
         /\ halfReset' = (halfReset /\ page' = page)
         /\ UNCHANGED disk

User == \/ Open
        \/ \E c \in {"back", "move_up", "move_down", "activate", "move_right"} : Categorise(c)
        \/ \E c \in {"back", "move_left", "move_up", "move_down", "activate"} : Choose(c)
        \/ \E c \in {"back", "activate", "page_up", "page_down", "fast_up", "fast_down", "delete_character"} : LogCommand(c)
        \/ \E c \in {"back", "activate", "move_left", "move_right"} : Confirm(c)

Init ==
    /\ page = InitialPage
    /\ disk \in SUBSET File
    /\ halfReset = FALSE

Next == User \/ Written \/ Frame

Spec == Init /\ [][Next]_vars
-----------------------------------------------------------------------------

Row  == {"view-log-file", "factory-reset", "input-placeholder"} \cup Setting \cup File \cup Range(Categories)
Menu == [rows : Seq(Row), at : Nat]
SettingsState ==
    [screen : {"hosts", "settings"}, menu : Menu, detail : Menu, focus : {"categories", "options"},
     category : Range(Categories), files : Seq(File), refresh : BOOLEAN,
     modal : {"none", "confirmation", "log_viewer"}, no : BOOLEAN,
     target : File \cup {"none", "factory-reset"}, lines : 0 .. LogLines, offset : Nat]

TypeOK ==
    /\ page \in SettingsState
    /\ disk \subseteq File
    /\ halfReset \in BOOLEAN

\* The rows on the right are always those of the category on the left, with the
\* files as they were listed last, however the two menus were rebuilt.
RowsMatch ==
    page.screen = "settings" =>
        /\ page.menu.rows = Categories /\ SelectedItem(page.menu) = page.category
        /\ page.detail.rows = Detail(page.category, page.files)
        /\ page.detail.at < Len(page.detail.rows)

\* The page never offers a file that is gone; a reset that fails half way is the
\* exception.
ListedOnDisk == ~ halfReset => Range(page.files) \subseteq disk
=============================================================================

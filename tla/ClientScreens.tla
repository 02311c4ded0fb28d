---------------------------- MODULE ClientScreens ----------------------------
(***************************************************************************)
(* The pages of the shell that show hosts and apps, the form for a new     *)
(* host and the pairing page, with their modals, menus and selections      *)
(* (app::ClientState), while results of background tasks arrive.  Selected *)
(* hosts and apps are indices into lists that others change.               *)
(***************************************************************************)
EXTENDS MenuModel, GridMoves, FiniteSets

CONSTANTS Host, App,        \* endpoints and app identifiers
          NoHost, NoApp,
          Longest           \* bound: the longest list that is loaded or arrives

ASSUME ScreensAssumption == NoHost \notin Host /\ NoApp \notin App /\ Longest \in Nat

VARIABLES
    state,     \* what ClientState holds of these pages
    attempt,   \* the host of the active pairing attempt
    worked     \* history: the host the user last selected or worked with

vars == <<state, attempt, worked>>

Screen  == {"hosts", "apps", "add_host", "pair_host", "settings"}
Modal   == {"none", "support", "host_actions", "host_details", "app_actions", "app_details"}
Command == {"move_up", "move_down", "move_left", "move_right", "activate",
            "confirm", "back", "open_context_menu", "delete_character", "toggle_overlay"}

HostRecord == [host : Host, paired : BOOLEAN, up : BOOLEAN]
AppRecord  == [app : App, hidden : BOOLEAN]
NoRecord   == [host |-> NoHost, paired |-> FALSE, up |-> TRUE]
Made(h)    == [host |-> h, paired |-> FALSE, up |-> TRUE]

Lists(S)  == UNION {[1 .. n -> S] : n \in 0 .. Longest}
HostLists == {list \in Lists(HostRecord) : \A i, j \in DOMAIN list : list[i].host = list[j].host => i = j}
AppLists  == {list \in Lists(AppRecord) : \A i, j \in DOMAIN list : list[i].app = list[j].app => i = j}

Toolbar     == 3
HostColumns == 3
AppColumns  == 4
NoDraft == [address |-> NoHost, port |-> TRUE, field |-> "address",
            visible |-> FALSE, staged |-> NoHost]

Row   == {"edit-address", "edit-port", "test-connection", "start-pairing", "save-host",
          "cancel-add-host", "cancel-pairing"}
Menu  == [rows : Seq(Row), at : Nat]
Draft == [address : Host \cup {NoHost}, port : BOOLEAN, field : {"address", "port"},
          visible : BOOLEAN, staged : Host \cup {NoHost}]
ScreenState ==
    [screen : Screen, overlay : BOOLEAN, modal : Modal, action : 0 .. 3,
     items : Seq(HostRecord), loaded : BOOLEAN, focus : {"toolbar", "grid"},
     tool : 0 .. Toolbar - 1, at : Nat,
     active : HostRecord \cup {NoRecord}, remembered : Host \cup {NoHost},
     apps : Seq(AppRecord), appAt : Nat, showHidden : BOOLEAN,
     menu : Menu, draft : Draft]

\* create_initial_state
InitialState ==
    [screen |-> "hosts", overlay |-> FALSE, modal |-> "none", action |-> 0,
     items |-> <<>>, loaded |-> TRUE, focus |-> "toolbar", tool |-> Toolbar - 1, at |-> 0,
     active |-> NoRecord, remembered |-> NoHost,
     apps |-> <<>>, appAt |-> 0, showHidden |-> FALSE,
     menu |-> NoMenu, draft |-> NoDraft]

-----------------------------------------------------------------------------
(* Selections.                                                             *)

ActiveLoaded(s) == s.active # NoRecord
InList(s, h)    == \E i \in DOMAIN s.items : s.items[i].host = h
IndexOf(s, h)   == (CHOOSE i \in DOMAIN s.items : s.items[i].host = h) - 1

SelectedHost(s) ==
    IF s.screen \in {"apps", "pair_host"} /\ ActiveLoaded(s) THEN s.active
    ELSE IF s.at < Len(s.items) THEN s.items[s.at + 1] ELSE NoRecord

\* visible_app_indices: the apps that are shown, and the place of each among them.
Visible(s)  == {i \in DOMAIN s.apps : s.showHidden \/ ~ s.apps[i].hidden}
Place(s, i) == Cardinality({j \in Visible(s) : j < i})
Shows(s)    == Cardinality(Visible(s))
IndexAt(s, at) == CHOOSE i \in Visible(s) : Place(s, i) = at
AppAt(s, at)   == s.apps[IndexAt(s, at)].app

AppsHost(s) == s.screen = "apps" /\ ActiveLoaded(s)
SelectedApp(s) == IF ~ AppsHost(s) \/ Visible(s) = {} THEN NoApp ELSE AppAt(s, Least(s.appAt, Shows(s) - 1))

\* Mutant: the place after the last host counts as one of the list.
ClampHostLate(s) ==
    IF s.items = <<>> THEN [s EXCEPT !.at = 0, !.focus = "toolbar", !.tool = Toolbar - 1]
    ELSE IF s.at > Len(s.items) THEN [s EXCEPT !.at = Len(s.items) - 1] ELSE s

ClampHost(s) ==
    IF s.items = <<>> THEN [s EXCEPT !.at = 0, !.focus = "toolbar", !.tool = Toolbar - 1]
    ELSE IF s.at >= Len(s.items) THEN [s EXCEPT !.at = Len(s.items) - 1] ELSE s

ClampApp(s) ==
    IF ~ AppsHost(s) \/ Visible(s) = {} THEN [s EXCEPT !.appAt = 0]
    ELSE IF s.appAt >= Shows(s) THEN [s EXCEPT !.appAt = Shows(s) - 1] ELSE s

-----------------------------------------------------------------------------
(* Changing the page.                                                      *)

UnloadHosts(s) ==
    IF ~ s.loaded THEN s
    ELSE [s EXCEPT !.remembered = IF s.at < Len(s.items) THEN s.items[s.at + 1].host ELSE @,
                   !.items = <<>>, !.loaded = FALSE, !.at = 0, !.focus = "toolbar"]
UnloadApps(s) ==
    IF ~ ActiveLoaded(s) THEN s
    ELSE [s EXCEPT !.remembered = s.active.host, !.apps = <<>>, !.appAt = 0, !.showHidden = FALSE]

UnloadScreen(s, to) ==
    CASE s.screen = to -> s
      [] s.screen = "hosts" /\ to \in {"apps", "pair_host", "settings"} -> UnloadHosts(s)
      [] s.screen = "apps" /\ to # "apps" -> UnloadApps(s)
      [] s.screen = "add_host" /\ to # "add_host" -> [s EXCEPT !.draft = NoDraft]
      [] OTHER -> s

\* build_menu_for_state; the rows of the settings page are in SettingsPage.
MenuOf(screen) ==
    CASE screen = "add_host" -> <<"edit-address", "edit-port", "test-connection",
                                  "start-pairing", "save-host", "cancel-add-host">>
      [] screen = "pair_host" -> <<"cancel-pairing">>
      [] OTHER -> <<>>

CloseModal(s) == [s EXCEPT !.modal = "none", !.action = 0]
OpenModal(s, id) == [s EXCEPT !.modal = id, !.action = 0]

RebuildMenu(s, preferred) ==
    [s EXCEPT !.menu = Rebuilt(@, MenuOf(s.screen), preferred, SelectedItem(@))]

SetScreen(s, to) ==
    LET left == [UnloadScreen(s, to) EXCEPT !.screen = to, !.menu = SetItems(MenuOf(to))]
    IN  ClampApp(ClampHost(CloseModal(left)))

\* replace_hosts
ReplaceHosts(s, list) ==
    LET new  == [s EXCEPT !.items = list, !.loaded = TRUE]
        kept == IF InList(new, s.remembered)
                THEN [new EXCEPT !.at = IndexOf(new, s.remembered), !.focus = "grid"]
                ELSE IF list = <<>> THEN ClampHost(new)
                ELSE [new EXCEPT !.focus = "grid", !.at = 0]
        shown == ClampApp(ClampHost(kept))
    IN  IF s.screen = "hosts" THEN [shown EXCEPT !.active = NoRecord]
        ELSE RebuildMenu(shown, "none")

\* ensure_hosts_loaded_for_active_screen; what the file holds is not this
\* module's business, so that any list may come back.
Ensured(s) ==
    IF s.screen = "hosts" /\ ~ s.loaded THEN {ReplaceHosts(s, list) : list \in HostLists} ELSE {s}

CopyToActive(s, record, apps) ==
    [s EXCEPT !.active = record, !.apps = apps, !.remembered = record.host]

-----------------------------------------------------------------------------
(* What commands do, before their requests are carried out.  A command     *)
(* results in a state and a request: [to, ask, about].                     *)

Then(s) == [to |-> s, ask |-> "nothing", about |-> NoHost]
And(s, request, h) == [to |-> s, ask |-> request, about |-> h]

\* enter_pair_host_screen: the PIN may fail when the snapshot is made already.
RequestPairing(s, h) ==
    LET found == InList(s, h) \/ s.active.host = h
        record == IF InList(s, h) THEN s.items[IndexOf(s, h) + 1] ELSE s.active
        copied == IF found THEN CopyToActive(s, record, <<>>) ELSE s
    IN  IF found /\ ~ record.up THEN {Then(s)}
        ELSE {Then(copied), And(SetScreen(copied, "pair_host"), "pair", h)}

Removed(s) == [s EXCEPT !.items = SubSeq(@, 1, s.at) \o SubSeq(@, s.at + 2, Len(@))]

HostActions(s) ==
    LET record == SelectedHost(s)
        closed == CloseModal(s)
    IN  IF record = NoRecord THEN {Then(closed)}
        ELSE CASE s.action = 0 -> IF record.paired THEN {And(closed, "browse_hidden", record.host)}
                                  ELSE RequestPairing(closed, record.host)
               [] s.action = 1 -> {And(closed, "test", record.host)}
               [] s.action = 2 -> {Then(CloseModal(ClampHost(Removed(s))))}
               [] OTHER        -> {Then(OpenModal(s, "host_details"))}

Toggled(s, i) == [s EXCEPT !.apps[i].hidden = ~ @]

\* The app that the actions are for is looked up by its index.
AppActions(s) ==
    IF SelectedApp(s) = NoApp THEN {Then(CloseModal(s))}
    ELSE CASE s.action = 0 -> {Then(ClampApp(CloseModal(Toggled(s, IndexAt(s, s.appAt)))))}
           [] s.action = 1 -> {Then(OpenModal(s, "app_details"))}
           [] OTHER        -> {Then(CloseModal(s))}

ModalActionCount(id) ==
    CASE id = "host_actions" -> 4 [] id = "app_actions" -> 3 [] OTHER -> 0

Steps(command) == IF command \in {"move_up", "move_left"} THEN -1 ELSE 1
Moves   == {"move_up", "move_down", "move_left", "move_right"}
Chooses == {"activate", "confirm"}

ModalCommand(s, command) ==
    CASE command = "back" -> {Then(CloseModal(s))}
      [] command \in Moves ->
           IF ModalActionCount(s.modal) = 0 THEN {Then(s)}
           ELSE {Then([s EXCEPT !.action = (@ + Steps(command)) % ModalActionCount(s.modal)])}
      [] command \in Chooses ->
           (CASE s.modal = "host_actions" -> HostActions(s)
              [] s.modal = "app_actions"  -> AppActions(s)
              [] OTHER -> {Then(CloseModal(s))})
      [] OTHER -> {Then(s)}

\* The keypad takes every command; what is typed may be any text.
KeypadCommand(s, command) ==
    LET d == s.draft
        done == [d EXCEPT !.visible = FALSE, !.staged = NoHost]
        id   == IF d.field = "address" THEN "edit-address" ELSE "edit-port"
        put(draft) == {Then(RebuildMenu([s EXCEPT !.draft = draft], id))}
    IN  CASE command = "back" -> put(done)
          [] command = "confirm" ->
               IF d.field = "address" THEN put([done EXCEPT !.address = d.staged])
               ELSE put([done EXCEPT !.port = TRUE]) \cup put([done EXCEPT !.port = FALSE])
          [] command \in {"activate", "delete_character"} /\ d.field = "address" ->
               {Then([s EXCEPT !.draft.staged = text]) : text \in Host \cup {NoHost}}
          [] OTHER -> {Then(s)}

HostsCommand(s, command) ==
    LET tools(by) == {Then([s EXCEPT !.tool = (@ + by) % Toolbar])}
        cell(at)  == {Then([s EXCEPT !.focus = "grid", !.at = at])}
    IN  CASE command \in {"move_left", "move_right"} ->
               IF s.focus = "toolbar" THEN tools(Steps(command))
               ELSE IF s.items = <<>> THEN {Then([s EXCEPT !.focus = "toolbar"])}
               ELSE cell(MoveColumn(Len(s.items), Steps(command), s.at))
          [] command = "move_down" /\ s.focus = "toolbar" /\ s.items # <<>> ->
               {Then([s EXCEPT !.focus = "grid"])}
          [] command \in {"move_up", "move_down"} /\ s.focus = "grid" ->
               IF s.items = <<>> \/ AboveFirst(HostColumns, Steps(command), s.at)
               THEN {Then([s EXCEPT !.focus = "toolbar"])}
               ELSE cell(MoveRow(Len(s.items), HostColumns, Steps(command), s.at))
          [] command = "open_context_menu" /\ s.focus = "grid" /\ SelectedHost(s) # NoRecord ->
               {Then(OpenModal(s, "host_actions"))}
          [] command \in Chooses /\ s.focus = "toolbar" ->
               (CASE s.tool = 0 -> {Then(SetScreen(s, "settings"))}
                  [] s.tool = 1 -> {Then(OpenModal(s, "support"))}
                  [] OTHER -> {Then(SetScreen([s EXCEPT !.draft = NoDraft], "add_host"))})
          [] command \in Chooses /\ s.focus = "grid" /\ SelectedHost(s) # NoRecord ->
               IF SelectedHost(s).paired THEN {And(s, "browse", SelectedHost(s).host)}
               ELSE RequestPairing(s, SelectedHost(s).host)
          [] OTHER -> {Then(s)}

AppsCommand(s, command) ==
    LET n == Shows(s) IN
    CASE command \in Moves ->
           {Then(IF n = 0 THEN [s EXCEPT !.appAt = 0]
                 ELSE IF command \in {"move_left", "move_right"}
                 THEN [s EXCEPT !.appAt = MoveColumn(n, Steps(command), @)]
                 ELSE [s EXCEPT !.appAt = MoveRow(n, AppColumns, Steps(command), @)])}
      [] command = "open_context_menu" /\ SelectedApp(s) # NoApp ->
           {Then(OpenModal(s, "app_actions"))}
      [] command = "back" -> {Then(SetScreen(s, "hosts"))}
      [] OTHER -> {Then(s)}

\* normalize_add_host_inputs and handle_add_host_menu_activation
AddHostActivation(s, row) ==
    LET d == s.draft
        valid == d.address # NoHost /\ d.port
        keypad(field) == {Then(RebuildMenu(
            [s EXCEPT !.draft = [d EXCEPT !.visible = TRUE, !.field = field,
               !.staged = IF field = "address" THEN d.address ELSE NoHost]],
            IF field = "address" THEN "edit-address" ELSE "edit-port"))}
        added == [s EXCEPT !.items = Append(@, Made(d.address)), !.at = Len(s.items)]
    IN  CASE row = "edit-address" -> keypad("address")
          [] row = "edit-port" -> keypad("port")
          [] row = "test-connection" /\ valid -> {And(s, "test", d.address)}
          [] row = "save-host" /\ valid /\ ~ InList(s, d.address) ->
               {Then(SetScreen([added EXCEPT !.focus = "grid"], "hosts"))}
          [] row = "start-pairing" /\ valid ->
               RequestPairing(IF InList(s, d.address) THEN s ELSE added, d.address)
          [] row = "cancel-add-host" -> {Then(SetScreen(s, "hosts"))}
          [] OTHER -> {Then(s)}

MenuCommand(s, command) ==
    LET row == SelectedItem(s.menu) IN
    CASE command \in {"move_up", "move_down"} -> {Then([s EXCEPT !.menu = MoveSelection(@, Steps(command))])}
      [] command = "back" \/ (command \in Chooses /\ row = "cancel-pairing") ->
           {And(SetScreen(s, "hosts"), IF s.screen = "pair_host" THEN "cancel" ELSE "nothing", NoHost)}
      [] command \in Chooses /\ row # "cancel-pairing" /\ s.screen = "add_host" -> AddHostActivation(s, row)
      [] OTHER -> {Then(s)}

\* handle_command
Handled(s, command) ==
    IF command = "toggle_overlay" THEN {Then([s EXCEPT !.overlay = ~ @])}
    ELSE IF s.draft.visible /\ s.screen = "add_host" THEN KeypadCommand(s, command)
    ELSE IF s.modal # "none" THEN ModalCommand(s, command)
    ELSE CASE s.screen = "hosts" -> HostsCommand(s, command)
           [] s.screen = "apps"  -> AppsCommand(s, command)
           [] s.screen = "settings" /\ command = "back" -> {Then(SetScreen(s, "hosts"))}
           [] s.screen \in {"add_host", "pair_host"} -> MenuCommand(s, command)
           [] OTHER -> {Then(s)}

-----------------------------------------------------------------------------
(* Results, of requests and of background tasks.                           *)

\* The record of a host that is found by its endpoint, in the list first.
Found(s, h) == InList(s, h) \/ (ActiveLoaded(s) /\ s.active.host = h)
Put(s, h, record) ==
    IF InList(s, h) THEN [s EXCEPT !.items[IndexOf(s, h) + 1] = record]
    ELSE IF ActiveLoaded(s) /\ s.active.host = h THEN [s EXCEPT !.active = record] ELSE s
RecordOf(s, h) == IF InList(s, h) THEN s.items[IndexOf(s, h) + 1] ELSE s.active

\* apply_server_info_to_host; paired is what the answer says, if it does.
ServerInfo(s, h, known, paired) ==
    IF ~ Found(s, h) THEN s
    ELSE LET told == Put(s, h, [RecordOf(s, h) EXCEPT !.up = TRUE, !.paired = IF known THEN paired ELSE @])
         IN  IF known /\ ~ paired
             THEN [told EXCEPT !.appAt = 0, !.apps = IF InList(s, h) THEN @ ELSE <<>>] ELSE told

\* mark_host_offline looks at the list only.
Offline(s, h) == IF InList(s, h) THEN Put(s, h, [RecordOf(s, h) EXCEPT !.up = FALSE]) ELSE s

\* What a host that answers may say; it may also not answer.
Answered(s, h) == {ServerInfo(s, h, known, paired) : known \in BOOLEAN, paired \in BOOLEAN}
Probed(s, h)   == {Offline(s, h)} \cup Answered(s, h)

\* apply_connection_test_result marks the selected host, whichever was tested.
TestResult(s, up) ==
    IF s.at < Len(s.items) THEN [s EXCEPT !.items[s.at + 1].up = up]
    ELSE IF ActiveLoaded(s) THEN [s EXCEPT !.active.up = up] ELSE s
Tested(s, h) ==
    {TestResult(Offline(s, h), FALSE)} \cup {TestResult(t, TRUE) : t \in Answered(s, h)}

\* enter_apps_screen
EnterApps(s, hiddenToo) ==
    LET record == s.items[s.at + 1] IN
    IF s.items = <<>> \/ ~ record.up \/ ~ record.paired THEN {s}
    ELSE {SetScreen([CopyToActive(s, record, apps) EXCEPT !.showHidden = hiddenToo, !.appAt = 0], "apps") :
            apps \in AppLists}
Browsed(s, h, hiddenToo) ==
    {Offline(s, h)} \cup
    UNION {IF SelectedHost(t).paired THEN EnterApps(t, hiddenToo) ELSE {t} : t \in Answered(s, h)}

\* Mutant: the result leaves the page as it is.
PairingResultInPlace(s, h, success) ==
    IF ~ Found(s, h) THEN s
    ELSE LET told == Put(s, h, [RecordOf(s, h) EXCEPT !.paired = success, !.up = @ \/ success])
         IN  IF ~ success THEN told ELSE SetScreen(told, "hosts")

\* apply_pairing_result
PairingResult(s, h, success) ==
    IF ~ Found(s, h) THEN s
    ELSE LET told == Put(s, h, [RecordOf(s, h) EXCEPT !.paired = success, !.up = @ \/ success])
         IN  IF ~ success THEN told
             ELSE SetScreen(IF s.loaded /\ InList(s, h)
                            THEN [told EXCEPT !.at = IndexOf(s, h), !.focus = "grid", !.remembered = h]
                            ELSE IF s.loaded THEN told
                            ELSE [told EXCEPT !.remembered = h], "hosts")

\* process_shell_command carries out what was asked for, and loads the list
\* if the page has changed.
Carried(s, request, h) ==
    CASE request = "test" -> Tested(s, h)
      [] request \in {"browse", "browse_hidden"} -> Browsed(s, h, request = "browse_hidden")
      [] OTHER -> {s}

\* A host that is no longer listed is forgotten; so is what was done with a
\* list that is not loaded yet, in the frame in which a result opened its page.
Listed(s, h) == IF s.screen = "hosts" /\ s.loaded /\ ~ InList(s, h) THEN NoHost ELSE h
Unloaded(s)  == ~ s.loaded /\ s.screen \notin {"apps", "pair_host"}
WorkedOn(s)  == IF Unloaded(state) /\ state.screen # "settings" THEN NoHost
                ELSE IF SelectedHost(s) # NoRecord /\ ~ Unloaded(s) THEN SelectedHost(s).host
                ELSE worked

User(command) ==
    \E did \in Handled(state, command) :
        \E s \in Carried(did.to, did.ask, did.about) :
            /\ state' \in IF s.screen # state.screen THEN Ensured(s) ELSE {s}
            /\ worked' = Listed(state', WorkedOn(s))
            /\ attempt' = CASE did.ask = "pair"   -> did.about
                            [] did.ask = "cancel" -> NoHost
                            [] OTHER -> attempt

\* The thread of an attempt cannot be created: its failure is applied at once.
PairingFails ==
    \E command \in Chooses : \E did \in Handled(state, command) :
        /\ did.ask = "pair"
        /\ state' = PairingResult(did.to, did.about, FALSE)
        /\ worked' = IF Unloaded(state) THEN NoHost ELSE did.about
        /\ UNCHANGED attempt

\* The start of a frame.
Frame ==
    /\ state.screen = "hosts" /\ ~ state.loaded
    /\ state' \in Ensured(state)
    /\ worked' = Listed(state', worked)
    /\ UNCHANGED attempt

FinishPairing ==
    /\ attempt # NoHost
    /\ \E success \in BOOLEAN : state' = PairingResult(state, attempt, success)
    /\ attempt' = NoHost
    /\ UNCHANGED worked

ProbeArrives ==
    /\ state.screen = "hosts" /\ state.loaded
    /\ \E h \in Host : state' \in Probed(state, h)
    /\ UNCHANGED <<attempt, worked>>

\* Mutant: a host that was found goes to the front of the list.
DiscoveredInFront(s, h) ==
    IF InList(s, h) THEN Put(s, h, [RecordOf(s, h) EXCEPT !.up = TRUE])
    ELSE [s EXCEPT !.items = <<Made(h)>> \o @, !.loaded = TRUE,
                   !.focus = IF s.items = <<>> /\ s.screen = "hosts" THEN "grid" ELSE @]

\* merge_discovered_host
Discovered(s, h) ==
    IF InList(s, h) THEN Put(s, h, [RecordOf(s, h) EXCEPT !.up = TRUE])
    ELSE [s EXCEPT !.items = Append(@, Made(h)), !.loaded = TRUE,
                   !.focus = IF s.items = <<>> /\ s.screen = "hosts" THEN "grid" ELSE @]

DiscoveryArrives ==
    /\ state.screen = "hosts" /\ state.loaded
    /\ \E h \in Host : state' = Discovered(state, h)
    /\ UNCHANGED <<attempt, worked>>

\* Mutant: the selection is not looked up again in the new list.
RestoreIndex(s, id) == ClampApp(s)

\* restore_selected_app_after_refresh
Restore(s, id) ==
    LET those == {i \in Visible(s) : s.apps[i].app = id}
    IN  ClampApp(IF those = {} THEN s ELSE [s EXCEPT !.appAt = Place(s, CHOOSE i \in those : TRUE)])

\* apply_app_list_result for the host whose apps are shown: a new list keeps
\* what was hidden, a refusal clears it, other failures keep it.
AppListArrives ==
    /\ AppsHost(state)
    /\ \/ \E list \in AppLists :
            /\ \A i \in DOMAIN list, j \in DOMAIN state.apps :
                 state.apps[j].app = list[i].app /\ state.apps[j].hidden => list[i].hidden
            /\ state' = Restore([state EXCEPT !.apps = list], SelectedApp(state))
       \/ state' = ClampApp([state EXCEPT !.apps = <<>>, !.active.paired = FALSE])
       \/ state' = ClampApp(state)
    /\ UNCHANGED <<attempt, worked>>

Init ==
    /\ \E list \in HostLists : state = ReplaceHosts(InitialState, list)
    /\ attempt = NoHost
    /\ worked = NoHost

Background == Frame \/ FinishPairing \/ ProbeArrives \/ DiscoveryArrives \/ AppListArrives
Next == (\E command \in Command : User(command)) \/ PairingFails \/ Background

Spec == Init /\ [][Next]_vars
-----------------------------------------------------------------------------

TypeOK == state \in ScreenState /\ attempt \in Host \cup {NoHost} /\ worked \in Host \cup {NoHost}

\* Indices that the code uses unchecked are in their lists: the host that is
\* opened, the app that is hidden, the row that is chosen; a host's modal is
\* shown over a host, an app's over the apps page.
IndicesHold ==
    LET s == state IN
    /\ s.items # <<>> => s.at < Len(s.items)
    /\ s.modal \in {"app_actions", "app_details"} /\ Visible(s) # {} => s.appAt < Shows(s)
    /\ s.menu.rows # <<>> => s.menu.at \in 0 .. Len(s.menu.rows) - 1
    /\ s.menu.rows = MenuOf(s.screen)
    /\ s.modal \in {"host_actions", "host_details"} => s.screen = "hosts"
    /\ s.modal \in {"app_actions", "app_details"} => s.screen = "apps"
    /\ s.draft.visible => s.screen = "add_host" /\ s.modal = "none"

\* What a modal is about stays the same while it is open, whatever arrives: the
\* host, and the app as long as the host still offers it.
ModalKeepsTarget ==
    [][LET s == state t == state' IN
       /\ s.modal \in {"host_actions", "host_details"} /\ t.modal = s.modal
          /\ s.loaded /\ SelectedHost(s) # NoRecord =>
            SelectedHost(s).host = SelectedHost(t).host
       /\ s.modal \in {"app_actions", "app_details"} /\ t.modal = s.modal =>
            \/ SelectedApp(t) = SelectedApp(s)
            \/ \A i \in Visible(t) : t.apps[i].app # SelectedApp(s)]_vars

\* Back on the hosts page the user finds the host he worked with selected.
SelectionSurvives ==
    state.screen = "hosts" /\ state.loaded /\ worked # NoHost /\ InList(state, worked)
        => SelectedHost(state).host = worked
=============================================================================

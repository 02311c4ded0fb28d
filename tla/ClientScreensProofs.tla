------------------------ MODULE ClientScreensProofs ------------------------
(***************************************************************************)
(* Proofs about the pages of the shell (ClientScreens) and the moves in    *)
(* its grids (GridMoves), for any hosts and apps and lists of any length.  *)
(*                                                                         *)
(* The inductive invariant, ScreensInv, ties the page to what it needs:    *)
(* each index to its list, the apps and pairing pages to a host that is    *)
(* remembered, an attempt to the page it was started on, and the host the  *)
(* user worked with to where it is found again: in the list at the index,  *)
(* in the active record, or, while no list is loaded, in what is           *)
(* remembered of it.  The commands are followed handler by handler         *)
(* (Leads), results by what they may touch (Marked, AppsOnly).             *)
(***************************************************************************)
EXTENDS ClientScreens, FiniteSetTheorems, SequenceTheorems, TLAPS

-----------------------------------------------------------------------------
(* Moves in the grids and on the keypad.                                   *)

\* Left and right never leave the list.
THEOREM ColumnMovesStay ==
    ASSUME NEW n \in Nat, NEW at \in 0 .. n - 1, NEW by \in {-1, 1}
    PROVE  MoveColumn(n, by, at) \in 0 .. n - 1
BY DEF MoveColumn

\* Up and down never leave the list of hosts, however short its last row is,
\* and lead to the row they were made for if there is one.
THEOREM HostRowMovesStay ==
    ASSUME NEW n \in Nat, NEW at \in 0 .. n - 1, NEW by \in {-1, 1}
    PROVE  /\ MoveRow(n, 3, by, at) \in 0 .. n - 1
           /\ (at \div 3) + by \in 0 .. GridRows(n, 3) - 1 =>
                  MoveRow(n, 3, by, at) \div 3 = (at \div 3) + by
BY DEF MoveRow, AboveFirst, ClosestInRow, RowWidth, GridRows, Least

\* The same of the apps.
THEOREM AppRowMovesStay ==
    ASSUME NEW n \in Nat, NEW at \in 0 .. n - 1, NEW by \in {-1, 1}
    PROVE  /\ MoveRow(n, 4, by, at) \in 0 .. n - 1
           /\ (at \div 4) + by \in 0 .. GridRows(n, 4) - 1 =>
                  MoveRow(n, 4, by, at) \div 4 = (at \div 4) + by
BY DEF MoveRow, AboveFirst, ClosestInRow, RowWidth, GridRows, Least

\* On the keypad, where rows wrap around, the selected key exists whatever the
\* number of keys is.
THEOREM KeypadRowMovesStay ==
    ASSUME NEW n \in Nat, NEW at \in 0 .. n - 1, NEW by \in {-1, 1}
    PROVE  KeypadRow(n, 3, by, at) \in 0 .. n - 1
BY DEF KeypadRow, ClosestInRow, RowWidth, GridRows, Least

-----------------------------------------------------------------------------
(* The inductive invariant.                                                *)

\* What goes with the page that is shown.
Fits(s) ==
    /\ IF s.items = <<>> THEN s.at = 0 ELSE s.at < Len(s.items)
    /\ s.screen \in {"apps", "pair_host"} => ActiveLoaded(s) /\ s.remembered = s.active.host
    /\ s.screen = "pair_host" /\ s.loaded => InList(s, s.active.host)
    /\ s.screen = "settings" => ~ s.loaded
    /\ s.screen = "apps" /\ Visible(s) # {} => s.appAt < Shows(s)
    /\ s.menu.rows = MenuOf(s.screen)
    /\ s.menu.rows # <<>> => s.menu.at < Len(s.menu.rows)
    /\ s.modal \in {"host_actions", "host_details"} => s.screen = "hosts"
    /\ s.modal \in {"app_actions", "app_details"} => s.screen = "apps"
    /\ s.draft.visible => s.screen = "add_host" /\ s.modal = "none"

\* A state of the right type whose parts fit each other.
Good(s) == s \in ScreenState /\ Fits(s)

\* The host the user worked with is found again.
Kept(s, w) ==
    w # NoHost =>
      /\ s.screen = "hosts" => IF s.loaded THEN InList(s, w) /\ s.items[s.at + 1].host = w
                               ELSE s.remembered = w
      /\ s.screen \in {"apps", "pair_host"} => s.active.host = w
      /\ s.screen = "settings" => s.remembered = w
      /\ s.screen = "add_host" => s.loaded

\* The page of the active attempt is shown until it ends or is cancelled.
Attempted(s, a) == a # NoHost => s.screen = "pair_host" /\ s.active.host = a

ScreensInv ==
    /\ Good(state) /\ attempt \in Host \cup {NoHost} /\ worked \in Host \cup {NoHost}
    /\ Kept(state, worked)
    /\ Attempted(state, attempt)

-----------------------------------------------------------------------------
(* The menu.                                                               *)

\* The rows of each page.
LEMMA MenusOf == \A screen \in Screen : MenuOf(screen) \in Seq(Row)
<1>1. <<"edit-address", "edit-port", "test-connection", "start-pairing", "save-host", "cancel-add-host">>
        \in Seq(Row)
  BY DEF Row
<1>2. <<"cancel-pairing">> \in Seq(Row) /\ <<>> \in Seq(Row) BY DEF Row
<1> QED BY <1>1, <1>2 DEF MenuOf

\* A menu whose selection is one of its rows.
Fitting(menu) == menu \in Menu /\ (menu.rows # <<>> => menu.at < Len(menu.rows))

\* New rows select the first.
LEMMA SetItemsFits ==
    ASSUME NEW rows \in Seq(Row)
    PROVE  Fitting(SetItems(rows)) /\ SetItems(rows).rows = rows
<1>1. rows # <<>> => 0 < Len(rows) OBVIOUS
<1> QED BY <1>1 DEF SetItems, Menu, Fitting

\* Looking a row up keeps the rows.
LEMMA SelectFits ==
    ASSUME NEW menu, Fitting(menu), NEW id
    PROVE  Fitting(SelectItemById(menu, id)) /\ SelectItemById(menu, id).rows = menu.rows
<1>1. menu.rows \in Seq(Row) /\ menu.at \in Nat BY DEF Fitting, Menu
<1>2. CASE ~ Has(menu, id) BY <1>2 DEF SelectItemById
<1>3. CASE Has(menu, id)
  <2> DEFINE k == CHOOSE i \in DOMAIN menu.rows : menu.rows[i] = id
  <2>1. k \in DOMAIN menu.rows BY <1>3 DEF Has
  <2>2. k \in 1 .. Len(menu.rows) BY <1>1, <2>1
  <2>3. SelectItemById(menu, id) = [menu EXCEPT !.at = k - 1] BY <1>3 DEF SelectItemById
  <2> HIDE DEF k
  <2> QED BY <1>1, <2>2, <2>3 DEF Menu, Fitting
<1> QED BY <1>2, <1>3

\* A rebuilt menu has the new rows.
LEMMA RebuiltFits ==
    ASSUME NEW menu, NEW rows \in Seq(Row), NEW a, NEW b
    PROVE  Fitting(Rebuilt(menu, rows, a, b)) /\ Rebuilt(menu, rows, a, b).rows = rows
<1>1. \A id : /\ Fitting(SelectItemById(SetItems(rows), id))
              /\ SelectItemById(SetItems(rows), id).rows = rows
  BY SetItemsFits, SelectFits
<1> QED BY <1>1 DEF Rebuilt

\* Moving the selection stays within the rows.
LEMMA MoveFits ==
    ASSUME NEW menu, Fitting(menu), NEW by \in {-1, 1}
    PROVE  Fitting(MoveSelection(menu, by)) /\ MoveSelection(menu, by).rows = menu.rows
<1>1. menu.rows \in Seq(Row) /\ menu.at \in Nat BY DEF Fitting, Menu
<1>2. CASE menu.rows = <<>> BY <1>2 DEF MoveSelection
<1>3. CASE menu.rows # <<>>
  <2>1. Len(menu.rows) \in Nat \ {0} BY <1>1, <1>3
  <2>2. (menu.at + by) % Len(menu.rows) \in 0 .. Len(menu.rows) - 1 BY <1>1, <2>1
  <2>3. MoveSelection(menu, by) = [menu EXCEPT !.at = (menu.at + by) % Len(menu.rows)]
    BY <1>3 DEF MoveSelection
  <2> HIDE DEF MoveSelection
  <2> QED BY <1>1, <2>1, <2>2, <2>3 DEF Menu, Fitting
<1> QED BY <1>2, <1>3

-----------------------------------------------------------------------------
(* The apps that are shown.                                                *)

\* There are finitely many, each has a place, and no two have the same.
LEMMA Shown ==
    ASSUME NEW s, s.apps \in Seq(AppRecord)
    PROVE  /\ IsFiniteSet(Visible(s)) /\ Shows(s) \in Nat
           /\ Visible(s) # {} <=> Shows(s) > 0
           /\ \A i \in Visible(s) : Place(s, i) \in Nat /\ Place(s, i) < Shows(s)
           /\ \A i, j \in Visible(s) : Place(s, i) = Place(s, j) => i = j
<1>1. Visible(s) \subseteq 1 .. Len(s.apps) /\ Len(s.apps) \in Nat BY DEF Visible
<1>2. IsFiniteSet(1 .. Len(s.apps)) BY <1>1, FS_Interval
<1>3. IsFiniteSet(Visible(s)) BY <1>1, <1>2, FS_Subset
<1>4. Shows(s) \in Nat BY <1>3, FS_CardinalityType DEF Shows
<1>5. Visible(s) # {} <=> Shows(s) > 0
  <2>1. Shows(s) = 0 <=> Visible(s) = {} BY <1>3, FS_EmptySet DEF Shows
  <2> QED BY <1>4, <2>1
<1>6. ASSUME NEW A \in SUBSET Visible(s), NEW i \in Visible(s) \ A, NEW B \in SUBSET Visible(s),
             B = A \cup {i}
      PROVE  /\ Cardinality(A) \in Nat /\ Cardinality(B) = Cardinality(A) + 1
             /\ Cardinality(B) <= Shows(s)
  <2>1. IsFiniteSet(A) /\ IsFiniteSet(B) BY <1>3, FS_Subset
  <2>2. Cardinality(A) \in Nat BY <2>1, FS_CardinalityType
  <2>3. Cardinality(B) = Cardinality(A) + 1 BY <1>6, <2>1, FS_AddElement
  <2>4. Cardinality(B) <= Shows(s) BY <1>3, FS_Subset DEF Shows
  <2> QED BY <2>2, <2>3, <2>4
<1>7. ASSUME NEW i \in Visible(s)
      PROVE  Place(s, i) \in Nat /\ Place(s, i) < Shows(s)
  <2> DEFINE A == {j \in Visible(s) : j < i}
  <2>1. A \in SUBSET Visible(s) /\ i \in Visible(s) \ A BY <1>1
  <2>2. A \cup {i} \in SUBSET Visible(s) BY <2>1
  <2>3. /\ Cardinality(A) \in Nat /\ Cardinality(A \cup {i}) = Cardinality(A) + 1
        /\ Cardinality(A \cup {i}) <= Shows(s)
    <3> HIDE DEF A
    <3> QED BY <1>6, <2>1, <2>2
  <2>4. Place(s, i) = Cardinality(A) BY DEF Place
  <2> HIDE DEF A
  <2> QED BY <1>4, <2>3, <2>4
<1>8. ASSUME NEW i \in Visible(s), NEW j \in Visible(s), i < j
      PROVE  Place(s, i) < Place(s, j)
  <2> DEFINE A == {k \in Visible(s) : k < i}
             B == {k \in Visible(s) : k < j}
  <2>1. A \in SUBSET Visible(s) /\ i \in Visible(s) \ A BY <1>1
  <2>2. A \cup {i} \in SUBSET B
    <3>1. i \in Nat /\ j \in Nat BY <1>1
    <3>2. ASSUME NEW k \in A PROVE k \in B BY <1>1, <1>8, <3>1
    <3> QED BY <1>8, <3>2
  <2>3. A \cup {i} \in SUBSET Visible(s) /\ B \in SUBSET Visible(s) BY <2>1
  <2>4. Cardinality(A) \in Nat /\ Cardinality(A \cup {i}) = Cardinality(A) + 1
    <3> HIDE DEF A
    <3> QED BY <1>6, <2>1, <2>3
  <2>5. Cardinality(A \cup {i}) <= Cardinality(B) /\ Cardinality(B) \in Nat
    <3>1. IsFiniteSet(B) BY <1>3, <2>3, FS_Subset
    <3> HIDE DEF A, B
    <3> QED BY <2>2, <3>1, FS_Subset, FS_CardinalityType
  <2>6. Place(s, i) = Cardinality(A) /\ Place(s, j) = Cardinality(B) BY DEF Place
  <2> HIDE DEF A, B
  <2> QED BY <2>4, <2>5, <2>6
<1>9. ASSUME NEW i \in Visible(s), NEW j \in Visible(s), Place(s, i) = Place(s, j)
      PROVE  i = j
  <2>1. i \in Nat /\ j \in Nat /\ Place(s, i) \in Nat /\ Place(s, j) \in Nat BY <1>1, <1>7
  <2>2. ~ (i < j) /\ ~ (j < i) BY <1>8, <1>9, <2>1
  <2> QED BY <2>1, <2>2
<1> QED BY <1>3, <1>4, <1>5, <1>7, <1>9

-----------------------------------------------------------------------------
(* Selections and modals.                                                  *)

\* Nothing but what is selected on the hosts page differs.
SameButHost(s, t) ==
    /\ t.screen = s.screen /\ t.overlay = s.overlay /\ t.modal = s.modal /\ t.action = s.action
    /\ t.items = s.items /\ t.loaded = s.loaded /\ t.active = s.active /\ t.remembered = s.remembered
    /\ t.apps = s.apps /\ t.appAt = s.appAt /\ t.showHidden = s.showHidden
    /\ t.menu = s.menu /\ t.draft = s.draft

\* Nothing but the selected app differs.
SameButApp(s, t) ==
    /\ t.screen = s.screen /\ t.overlay = s.overlay /\ t.modal = s.modal /\ t.action = s.action
    /\ t.items = s.items /\ t.loaded = s.loaded /\ t.focus = s.focus /\ t.tool = s.tool /\ t.at = s.at
    /\ t.active = s.active /\ t.remembered = s.remembered
    /\ t.apps = s.apps /\ t.showHidden = s.showHidden /\ t.menu = s.menu /\ t.draft = s.draft

\* The selected host is one of the list after its index was clamped.
LEMMA ClampHostFits ==
    ASSUME NEW s \in ScreenState
    PROVE  /\ ClampHost(s) \in ScreenState /\ SameButHost(s, ClampHost(s))
           /\ IF s.items = <<>> THEN ClampHost(s).at = 0 ELSE ClampHost(s).at < Len(s.items)
           /\ s.items # <<>> /\ s.at < Len(s.items) => ClampHost(s) = s
<1>1. s.items \in Seq(HostRecord) /\ s.at \in Nat BY DEF ScreenState
<1>2. CASE s.items = <<>>
  <2>1. ClampHost(s) = [s EXCEPT !.at = 0, !.focus = "toolbar", !.tool = 2] BY <1>2 DEF ClampHost, Toolbar
  <2>2. [s EXCEPT !.at = 0, !.focus = "toolbar", !.tool = 2] \in ScreenState
    <3>1. 2 \in 0 .. Toolbar - 1 BY DEF Toolbar
    <3> QED BY <3>1, Zenon DEF ScreenState
  <2> QED BY <1>1, <1>2, <2>1, <2>2 DEF ScreenState, SameButHost
<1>3. CASE s.items # <<>> /\ s.at < Len(s.items)
  <2>1. ~ (s.at >= Len(s.items)) BY <1>1, <1>3
  <2> QED BY <1>3, <2>1 DEF ClampHost, SameButHost
<1>4. CASE s.items # <<>> /\ ~ (s.at < Len(s.items))
  <2>1. Len(s.items) \in Nat \ {0} BY <1>1, <1>4
  <2>2. Len(s.items) - 1 \in Nat /\ Len(s.items) - 1 < Len(s.items) BY <2>1
  <2>3. ClampHost(s) = [s EXCEPT !.at = Len(s.items) - 1] BY <1>1, <1>4, <2>1 DEF ClampHost
  <2> QED BY <1>4, <2>2, <2>3 DEF ScreenState, SameButHost
<1> QED BY <1>2, <1>3, <1>4

\* The same of the selected app.
LEMMA ClampAppFits ==
    ASSUME NEW s \in ScreenState
    PROVE  /\ ClampApp(s) \in ScreenState /\ SameButApp(s, ClampApp(s))
           /\ AppsHost(s) /\ Visible(s) # {} => ClampApp(s).appAt < Shows(s)
           /\ AppsHost(s) /\ Visible(s) # {} /\ s.appAt < Shows(s) => ClampApp(s) = s
<1>1. s.apps \in Seq(AppRecord) /\ s.appAt \in Nat BY DEF ScreenState
<1>2. Shows(s) \in Nat /\ (Visible(s) # {} => Shows(s) > 0) BY <1>1, Shown
<1>3. CASE ~ AppsHost(s) \/ Visible(s) = {}
  BY <1>3 DEF ClampApp, ScreenState, SameButApp
<1>4. CASE AppsHost(s) /\ Visible(s) # {} /\ s.appAt < Shows(s)
  <2>1. ~ (s.appAt >= Shows(s)) BY <1>1, <1>2, <1>4
  <2> QED BY <1>4, <2>1 DEF ClampApp, SameButApp
<1>5. CASE AppsHost(s) /\ Visible(s) # {} /\ ~ (s.appAt < Shows(s))
  <2>1. Shows(s) - 1 \in Nat /\ Shows(s) - 1 < Shows(s) BY <1>2, <1>5
  <2>2. ClampApp(s) = [s EXCEPT !.appAt = Shows(s) - 1] BY <1>1, <1>2, <1>5 DEF ClampApp
  <2> QED BY <1>5, <2>1, <2>2 DEF ScreenState, SameButApp
<1> QED BY <1>3, <1>4, <1>5

\* Which apps are shown depends on these two.
LEMMA VisibleSame ==
    ASSUME NEW s, NEW t, t.apps = s.apps, t.showHidden = s.showHidden
    PROVE  /\ Visible(t) = Visible(s) /\ Shows(t) = Shows(s)
           /\ \A i : Place(t, i) = Place(s, i)
           /\ \A at : AppAt(t, at) = AppAt(s, at)
<1>1. Visible(t) = Visible(s) BY DEF Visible
<1>2. Shows(t) = Shows(s) BY <1>1 DEF Shows
<1>3. \A i : Place(t, i) = Place(s, i) BY <1>1 DEF Place
<1>4. \A at : AppAt(t, at) = AppAt(s, at) BY <1>1, <1>3 DEF AppAt, IndexAt
<1> QED BY <1>1, <1>2, <1>3, <1>4

\* A host of the list has its index in it.
LEMMA IndexFits ==
    ASSUME NEW s, s.items \in Seq(HostRecord), NEW h, InList(s, h)
    PROVE  /\ IndexOf(s, h) \in Nat /\ IndexOf(s, h) < Len(s.items)
           /\ IndexOf(s, h) + 1 \in DOMAIN s.items /\ s.items # <<>>
           /\ s.items[IndexOf(s, h) + 1] \in HostRecord /\ s.items[IndexOf(s, h) + 1].host = h
<1> DEFINE k == CHOOSE i \in DOMAIN s.items : s.items[i].host = h
<1>1. k \in DOMAIN s.items /\ s.items[k].host = h BY DEF InList
<1>2. IndexOf(s, h) = k - 1 BY DEF IndexOf
<1>3. Len(s.items) \in Nat /\ DOMAIN s.items = 1 .. Len(s.items) OBVIOUS
<1> HIDE DEF k
<1>4. k \in 1 .. Len(s.items) /\ IndexOf(s, h) + 1 = k BY <1>1, <1>2, <1>3
<1>5. s.items[k] \in HostRecord BY <1>1
<1> QED BY <1>1, <1>2, <1>3, <1>4, <1>5

\* A modal that is closed or opened leaves the rest.
LEMMA ModalFits ==
    ASSUME NEW s, Good(s), NEW id \in Modal,
           id \in {"host_actions", "host_details"} => s.screen = "hosts",
           id \in {"app_actions", "app_details"} => s.screen = "apps",
           id # "none" => ~ s.draft.visible
    PROVE  /\ Good(OpenModal(s, id)) /\ CloseModal(s) = OpenModal(s, "none")
           /\ OpenModal(s, id) = [s EXCEPT !.modal = id, !.action = 0]
<1> DEFINE t == [s EXCEPT !.modal = id, !.action = 0]
<1>1. s \in ScreenState /\ 0 \in 0 .. 3 BY DEF Good
<1>2. t \in ScreenState BY <1>1, Zenon DEF ScreenState
<1>3. /\ t.screen = s.screen /\ t.modal = id /\ t.items = s.items /\ t.at = s.at /\ t.loaded = s.loaded
      /\ t.active = s.active /\ t.remembered = s.remembered /\ t.apps = s.apps /\ t.appAt = s.appAt
      /\ t.showHidden = s.showHidden /\ t.menu = s.menu /\ t.draft = s.draft
  BY <1>1 DEF ScreenState
<1> HIDE DEF t
<1>4. Fits(t)
  <2>1. Visible(t) = Visible(s) /\ Shows(t) = Shows(s) BY <1>3, VisibleSame
  <2> QED BY <1>3, <2>1 DEF Good, Fits, ActiveLoaded, InList
<1> QED BY <1>2, <1>4 DEF t, Good, OpenModal, CloseModal

\* The lists that a page leaves behind.
LEMMA UnloadFits ==
    ASSUME NEW s \in ScreenState, Fits(s), NEW to \in Screen, NEW t, t = UnloadScreen(s, to)
    PROVE  /\ t \in ScreenState /\ t.screen = s.screen /\ t.active = s.active
           /\ t.overlay = s.overlay
           /\ IF s.screen = "hosts" /\ to \in {"apps", "pair_host", "settings"} /\ s.loaded
              THEN /\ t.items = <<>> /\ ~ t.loaded
                   /\ t.remembered = IF s.items # <<>> THEN s.items[s.at + 1].host ELSE s.remembered
              ELSE /\ t.items = s.items /\ t.loaded = s.loaded /\ t.at = s.at /\ t.focus = s.focus
                   /\ t.remembered = IF s.screen = "apps" /\ to # "apps" THEN s.active.host ELSE s.remembered
           /\ IF s.screen = "apps" /\ to # "apps" THEN TRUE
              ELSE t.apps = s.apps /\ t.appAt = s.appAt /\ t.showHidden = s.showHidden
           /\ t.draft.visible => to = "add_host"
           /\ s.screen # "add_host" => t.draft = s.draft
           /\ to = s.screen => t = s
<1>1. /\ s.items \in Seq(HostRecord) /\ s.at \in Nat /\ s.draft \in Draft
      /\ s.active \in HostRecord \cup {NoRecord} /\ s.remembered \in Host \cup {NoHost}
  BY DEF ScreenState
<1>2. s.active.host \in Host \cup {NoHost} BY <1>1 DEF HostRecord, NoRecord
<1>3. <<>> \in Seq(HostRecord) /\ <<>> \in Seq(AppRecord) /\ NoDraft \in Draft /\ ~ NoDraft.visible
  BY DEF NoDraft, Draft
<1>4. CASE s.screen = "hosts" /\ to \in {"apps", "pair_host", "settings"} /\ s.loaded
  <2> DEFINE last == IF s.at < Len(s.items) THEN s.items[s.at + 1].host ELSE s.remembered
             u == [s EXCEPT !.remembered = last, !.items = <<>>, !.loaded = FALSE, !.at = 0, !.focus = "toolbar"]
  <2>1. t = u BY <1>4 DEF UnloadScreen, UnloadHosts
  <2>2. last = IF s.items # <<>> THEN s.items[s.at + 1].host ELSE s.remembered
    <3>1. s.items # <<>> => s.at < Len(s.items) BY DEF Fits
    <3>2. s.items = <<>> => ~ (s.at < Len(s.items)) BY <1>1
    <3> QED BY <3>1, <3>2
  <2>3. last \in Host \cup {NoHost}
    <3>1. s.at < Len(s.items) => s.items[s.at + 1] \in HostRecord BY <1>1
    <3> QED BY <1>1, <3>1 DEF HostRecord
  <2> HIDE DEF last
  <2>4. u \in ScreenState BY <1>3, <2>3, Zenon DEF ScreenState
  <2>5. /\ u.screen = s.screen /\ u.active = s.active /\ u.overlay = s.overlay /\ u.items = <<>>
        /\ ~ u.loaded /\ u.remembered = last /\ u.apps = s.apps /\ u.appAt = s.appAt
        /\ u.showHidden = s.showHidden /\ u.draft = s.draft
    BY DEF ScreenState
  <2> HIDE DEF u
  <2> QED BY <1>4, <2>1, <2>2, <2>4, <2>5 DEF Fits
<1>5. CASE s.screen = "hosts" /\ ~ (to \in {"apps", "pair_host", "settings"} /\ s.loaded)
  <2>1. t = s BY <1>5 DEF UnloadScreen, UnloadHosts, Screen
  <2> QED BY <1>5, <2>1 DEF Fits
<1>6. CASE s.screen = "apps" /\ to # "apps"
  <2> DEFINE u == [s EXCEPT !.remembered = s.active.host, !.apps = <<>>, !.appAt = 0, !.showHidden = FALSE]
  <2>1. t = u BY <1>6 DEF UnloadScreen, UnloadApps, Fits
  <2>2. u \in ScreenState BY <1>2, <1>3, Zenon DEF ScreenState
  <2>3. /\ u.screen = s.screen /\ u.active = s.active /\ u.overlay = s.overlay /\ u.items = s.items
        /\ u.loaded = s.loaded /\ u.at = s.at /\ u.focus = s.focus /\ u.remembered = s.active.host
        /\ u.draft = s.draft
    BY DEF ScreenState
  <2> HIDE DEF u
  <2> QED BY <1>6, <2>1, <2>2, <2>3 DEF Fits
<1>7. CASE s.screen = "add_host" /\ to # "add_host"
  <2> DEFINE u == [s EXCEPT !.draft = NoDraft]
  <2>1. t = u BY <1>7 DEF UnloadScreen
  <2>2. u \in ScreenState BY <1>3, Zenon DEF ScreenState
  <2>3. /\ u.screen = s.screen /\ u.active = s.active /\ u.overlay = s.overlay /\ u.items = s.items
        /\ u.loaded = s.loaded /\ u.at = s.at /\ u.focus = s.focus /\ u.remembered = s.remembered
        /\ u.apps = s.apps /\ u.appAt = s.appAt /\ u.showHidden = s.showHidden
        /\ u.draft = NoDraft
    BY DEF ScreenState
  <2> HIDE DEF u
  <2> QED BY <1>3, <1>7, <2>1, <2>2, <2>3
<1>8. CASE s.screen \in {"settings", "pair_host"} \/ to = s.screen
  <2>1. t = s BY <1>8 DEF UnloadScreen
  <2> QED BY <1>8, <2>1 DEF Fits
<1> QED BY <1>4, <1>5, <1>6, <1>7, <1>8 DEF ScreenState, Screen

\* Another page is shown: its menu is new, its indices are in their lists, no
\* modal and no keypad is open, and the hosts are listed or remembered.
LEMMA SetScreenFits ==
    ASSUME NEW s, Good(s), NEW to \in Screen \ {s.screen}, NEW t, t = SetScreen(s, to),
           to \in {"apps", "settings"} => s.screen = "hosts",
           to \in {"apps", "pair_host"} =>
               /\ ActiveLoaded(s) /\ s.remembered = s.active.host
               /\ s.screen = "hosts" /\ s.items # <<>> => s.items[s.at + 1].host = s.active.host
               /\ s.screen # "hosts" /\ s.loaded => InList(s, s.active.host)
    PROVE  /\ Good(t) /\ t.screen = to /\ t.modal = "none" /\ ~ t.draft.visible /\ t.active = s.active
           /\ IF s.screen = "hosts" /\ to \in {"apps", "pair_host", "settings"} /\ s.loaded
              THEN /\ t.items = <<>> /\ ~ t.loaded
                   /\ t.remembered = IF s.items # <<>> THEN s.items[s.at + 1].host ELSE s.remembered
              ELSE /\ t.items = s.items /\ t.loaded = s.loaded /\ (s.items # <<>> => t.at = s.at)
                   /\ t.remembered = IF s.screen = "apps" THEN s.active.host ELSE s.remembered
<1> DEFINE u == UnloadScreen(s, to)
           menu == SetItems(MenuOf(to))
           v == [u EXCEPT !.screen = to, !.menu = menu]
           w == [v EXCEPT !.modal = "none", !.action = 0]
           x == ClampHost(w)
<1>0. s \in ScreenState /\ Fits(s) /\ to # s.screen BY DEF Good
<1>1. /\ u \in ScreenState /\ u.screen = s.screen /\ u.active = s.active
      /\ IF s.screen = "hosts" /\ to \in {"apps", "pair_host", "settings"} /\ s.loaded
         THEN /\ u.items = <<>> /\ ~ u.loaded
              /\ u.remembered = IF s.items # <<>> THEN s.items[s.at + 1].host ELSE s.remembered
         ELSE /\ u.items = s.items /\ u.loaded = s.loaded /\ u.at = s.at
              /\ u.remembered = IF s.screen = "apps" THEN s.active.host ELSE s.remembered
      /\ u.draft.visible => to = "add_host"
      /\ s.screen # "add_host" => u.draft = s.draft
  BY <1>0, UnloadFits
<1>2. ~ u.draft.visible
  <2>1. s.screen # "add_host" => ~ s.draft.visible BY <1>0 DEF Fits
  <2> QED BY <1>0, <1>1, <2>1
<1> HIDE DEF u
<1>3. menu \in Menu /\ Fitting(menu) /\ menu.rows = MenuOf(to)
  BY MenusOf, SetItemsFits DEF Fitting
<1> HIDE DEF menu
<1>4. /\ v \in ScreenState /\ v.screen = to /\ v.menu = menu /\ v.items = u.items /\ v.loaded = u.loaded
      /\ v.at = u.at /\ v.active = u.active /\ v.remembered = u.remembered /\ v.draft = u.draft
  <2>1. v \in ScreenState BY <1>1, <1>3, Zenon DEF ScreenState
  <2> QED BY <1>1, <2>1 DEF ScreenState
<1> HIDE DEF v
<1>5. /\ w \in ScreenState /\ w.screen = to /\ w.menu = menu /\ w.items = u.items /\ w.loaded = u.loaded
      /\ w.at = u.at /\ w.active = u.active /\ w.remembered = u.remembered /\ w.draft = u.draft
      /\ w.modal = "none"
  <2>1. "none" \in Modal /\ 0 \in 0 .. 3 BY DEF Modal
  <2>2. w \in ScreenState BY <1>4, <2>1, Zenon DEF ScreenState
  <2> QED BY <1>4, <2>2 DEF ScreenState
<1> HIDE DEF w
<1>6. /\ x \in ScreenState /\ SameButHost(w, x)
      /\ IF w.items = <<>> THEN x.at = 0 ELSE x.at < Len(w.items)
      /\ w.items # <<>> /\ w.at < Len(w.items) => x = w
  BY <1>5, ClampHostFits
<1> HIDE DEF x
<1>7. t = ClampApp(x) BY DEF SetScreen, CloseModal, u, menu, v, w, x
<1>8. /\ t \in ScreenState /\ SameButApp(x, t)
      /\ AppsHost(x) /\ Visible(x) # {} => t.appAt < Shows(x)
  BY <1>6, <1>7, ClampAppFits
<1>9. /\ t.screen = to /\ t.modal = "none" /\ t.items = u.items /\ t.loaded = u.loaded
      /\ t.active = s.active /\ t.remembered = u.remembered /\ t.draft = u.draft /\ t.menu = menu
      /\ IF t.items = <<>> THEN t.at = 0 ELSE t.at < Len(t.items)
      /\ t.items # <<>> /\ u.at < Len(u.items) => t.at = u.at
  BY <1>1, <1>5, <1>6, <1>8 DEF SameButHost, SameButApp
<1>10. t.screen = "apps" /\ Visible(t) # {} => t.appAt < Shows(t)
  <2>1. x.screen = t.screen /\ x.active = t.active BY <1>8 DEF SameButApp
  <2>2. Visible(t) = Visible(x) /\ Shows(t) = Shows(x) BY <1>8, VisibleSame DEF SameButApp
  <2> QED BY <1>8, <1>9, <2>1, <2>2 DEF AppsHost, ActiveLoaded
<1>11. s.items # <<>> => s.at < Len(s.items) BY <1>0 DEF Fits
<1>12. Fits(t)
  <2>1. to \in {"apps", "pair_host"} => ActiveLoaded(t) /\ t.remembered = t.active.host
    BY <1>0, <1>1, <1>9 DEF ActiveLoaded
  <2>2. to = "pair_host" /\ t.loaded => InList(t, t.active.host)
    <3>1. SUFFICES ASSUME to = "pair_host", t.loaded PROVE InList(t, t.active.host) OBVIOUS
    <3>2. s.screen # "hosts" /\ s.loaded /\ t.items = s.items /\ t.active = s.active
      BY <1>1, <1>9, <3>1
    <3>3. InList(s, s.active.host) BY <3>1, <3>2
    <3> QED BY <3>2, <3>3 DEF InList
  <2>3. to = "settings" => ~ t.loaded BY <1>0, <1>1, <1>9
  <2> QED BY <1>2, <1>3, <1>9, <1>10, <2>1, <2>2, <2>3 DEF Fits, Fitting
<1> QED BY <1>0, <1>1, <1>2, <1>8, <1>9, <1>11, <1>12 DEF Good

\* The page, and what is known of hosts on it, are the same.
SameHosts(s, t) ==
    /\ t.screen = s.screen /\ t.items = s.items /\ t.loaded = s.loaded /\ t.at = s.at
    /\ t.active = s.active /\ t.remembered = s.remembered

\* A menu that is built again has the rows of its page.
LEMMA RebuildMenuFits ==
    ASSUME NEW s, Good(s), NEW preferred
    PROVE  Good(RebuildMenu(s, preferred)) /\ SameHosts(s, RebuildMenu(s, preferred))
<1> DEFINE menu == Rebuilt(s.menu, MenuOf(s.screen), preferred, SelectedItem(s.menu))
           t == [s EXCEPT !.menu = menu]
<1>1. s \in ScreenState /\ s.screen \in Screen BY DEF Good, ScreenState
<1>2. Fitting(menu) /\ menu.rows = MenuOf(s.screen) BY <1>1, MenusOf, RebuiltFits
<1>3. RebuildMenu(s, preferred) = t BY DEF RebuildMenu
<1> HIDE DEF menu
<1>4. menu \in Menu BY <1>2 DEF Fitting
<1>5. t \in ScreenState BY <1>1, <1>4, Zenon DEF ScreenState
<1>6. /\ t.screen = s.screen /\ t.modal = s.modal /\ t.items = s.items /\ t.at = s.at /\ t.loaded = s.loaded
      /\ t.active = s.active /\ t.remembered = s.remembered /\ t.apps = s.apps /\ t.appAt = s.appAt
      /\ t.showHidden = s.showHidden /\ t.menu = menu /\ t.draft = s.draft
  BY <1>1 DEF ScreenState
<1> HIDE DEF t
<1>7. Fits(t)
  <2>1. Visible(t) = Visible(s) /\ Shows(t) = Shows(s) BY <1>6, VisibleSame
  <2> QED BY <1>2, <1>6, <2>1 DEF Good, Fits, ActiveLoaded, InList, Fitting
<1> QED BY <1>3, <1>5, <1>6, <1>7 DEF Good, SameHosts

\* What is typed for a new host changes no page.
LEMMA DraftFits ==
    ASSUME NEW s, Good(s), NEW draft \in Draft,
           draft.visible => s.screen = "add_host" /\ s.modal = "none"
    PROVE  /\ Good([s EXCEPT !.draft = draft]) /\ SameHosts(s, [s EXCEPT !.draft = draft])
           /\ [s EXCEPT !.draft = draft].draft = draft
<1> DEFINE t == [s EXCEPT !.draft = draft]
<1>1. s \in ScreenState BY DEF Good
<1>2. t \in ScreenState BY <1>1, Zenon DEF ScreenState
<1>3. /\ t.screen = s.screen /\ t.modal = s.modal /\ t.items = s.items /\ t.at = s.at /\ t.loaded = s.loaded
      /\ t.active = s.active /\ t.remembered = s.remembered /\ t.apps = s.apps /\ t.appAt = s.appAt
      /\ t.showHidden = s.showHidden /\ t.menu = s.menu /\ t.draft = draft
  BY <1>1 DEF ScreenState
<1> HIDE DEF t
<1>4. Fits(t)
  <2>1. Visible(t) = Visible(s) /\ Shows(t) = Shows(s) BY <1>3, VisibleSame
  <2> QED BY <1>3, <2>1 DEF Good, Fits, ActiveLoaded, InList
<1> QED BY <1>2, <1>3, <1>4 DEF t, Good, SameHosts

\* A loaded list is shown with the host selected that was remembered.
LEMMA ReplaceFits ==
    ASSUME NEW s, Good(s), s.screen = "hosts", NEW list \in HostLists, NEW t, t = ReplaceHosts(s, list)
    PROVE  /\ Good(t) /\ t.screen = "hosts" /\ t.loaded /\ t.items = list /\ t.modal = s.modal
           /\ InList(t, s.remembered) => t.items[t.at + 1].host = s.remembered
<1> DEFINE new == [s EXCEPT !.items = list, !.loaded = TRUE]
           found == [new EXCEPT !.at = IndexOf(new, s.remembered), !.focus = "grid"]
           first == [new EXCEPT !.focus = "grid", !.at = 0]
           kept == IF InList(new, s.remembered) THEN found
                   ELSE IF list = <<>> THEN ClampHost(new) ELSE first
           held == ClampHost(kept)
           shown == ClampApp(held)
           u == [shown EXCEPT !.active = NoRecord]
<1>0. s \in ScreenState /\ Fits(s) BY DEF Good
<1>1. list \in Seq(HostRecord)
  <2>1. PICK n \in 0 .. Longest : list \in [1 .. n -> HostRecord] BY DEF HostLists, Lists
  <2>2. n \in Nat BY ScreensAssumption
  <2> QED BY <2>1, <2>2, SeqDef
<1>2. /\ new \in ScreenState /\ new.screen = "hosts" /\ new.items = list /\ new.loaded
      /\ new.active = s.active /\ new.remembered = s.remembered /\ new.modal = s.modal
      /\ new.menu = s.menu /\ new.draft = s.draft
  <2>1. new \in ScreenState BY <1>0, <1>1, Zenon DEF ScreenState
  <2> QED BY <1>0, <2>1 DEF ScreenState
<1>3. /\ kept \in ScreenState /\ SameButHost(new, kept)
      /\ kept.items # <<>> => kept.at < Len(kept.items)
      /\ InList(new, s.remembered) => kept.items[kept.at + 1].host = s.remembered
  <2> HIDE DEF new
  <2>1. CASE InList(new, s.remembered)
    <3>1. /\ IndexOf(new, s.remembered) \in Nat /\ IndexOf(new, s.remembered) < Len(list)
          /\ list[IndexOf(new, s.remembered) + 1].host = s.remembered
      BY <1>1, <1>2, <2>1, IndexFits
    <3> DEFINE k == IndexOf(new, s.remembered)
    <3> HIDE DEF k
    <3>2. found = [new EXCEPT !.at = k, !.focus = "grid"] BY DEF k
    <3>3. found \in ScreenState BY <1>2, <3>1, <3>2, Zenon DEF ScreenState, k
    <3> HIDE DEF found
    <3>4. found.at = k /\ SameButHost(new, found) BY <1>2, <3>2 DEF ScreenState, SameButHost
    <3> QED BY <1>2, <2>1, <3>1, <3>3, <3>4 DEF k, SameButHost
  <2>2. CASE ~ InList(new, s.remembered) /\ list = <<>>
    <3>1. kept = ClampHost(new) BY <2>2
    <3> HIDE DEF kept
    <3> QED BY <1>2, <2>2, <3>1, ClampHostFits DEF SameButHost
  <2>3. CASE ~ InList(new, s.remembered) /\ list # <<>>
    <3>1. kept = first BY <2>3
    <3>2. first \in ScreenState BY <1>2, Zenon DEF ScreenState
    <3>3. first.at = 0 /\ SameButHost(new, first) BY <1>2 DEF ScreenState, SameButHost
    <3>4. 0 < Len(list) BY <1>1, <2>3
    <3> HIDE DEF first, kept
    <3> QED BY <1>2, <2>3, <3>1, <3>2, <3>3, <3>4 DEF SameButHost
  <2> QED BY <2>1, <2>2, <2>3
<1> HIDE DEF kept, new
<1>4. /\ held \in ScreenState /\ SameButHost(kept, held)
      /\ kept.items # <<>> => held = kept
      /\ IF kept.items = <<>> THEN held.at = 0 ELSE held.at < Len(kept.items)
  BY <1>3, ClampHostFits
<1> HIDE DEF held
<1>5. shown \in ScreenState /\ SameButApp(held, shown)
  BY <1>4, ClampAppFits
<1> HIDE DEF shown
<1>6. t = u
  BY <1>0, <1>2 DEF ReplaceHosts, u, shown, held, kept, new
<1>7. /\ u \in ScreenState /\ u.screen = shown.screen /\ u.items = shown.items /\ u.at = shown.at
      /\ u.loaded = shown.loaded /\ u.modal = shown.modal /\ u.menu = shown.menu /\ u.draft = shown.draft
  <2>1. NoRecord \in HostRecord \cup {NoRecord} OBVIOUS
  <2>2. u \in ScreenState BY <1>5, <2>1, Zenon DEF ScreenState
  <2> QED BY <1>5, <2>2 DEF ScreenState
<1> HIDE DEF u
<1>8. /\ u.screen = "hosts" /\ u.items = list /\ u.loaded /\ u.modal = s.modal /\ u.menu = s.menu
      /\ u.draft = s.draft
      /\ list # <<>> => u.at = kept.at
      /\ IF list = <<>> THEN u.at = 0 ELSE u.at < Len(list)
  BY <1>2, <1>3, <1>4, <1>5, <1>7 DEF SameButHost, SameButApp
<1>9. Fits(u) BY <1>0, <1>8 DEF Fits
<1>10. InList(u, s.remembered) => u.items[u.at + 1].host = s.remembered
  <2>1. SUFFICES ASSUME InList(u, s.remembered) PROVE u.items[u.at + 1].host = s.remembered OBVIOUS
  <2>2. InList(new, s.remembered) BY <1>2, <1>8, <2>1 DEF InList
  <2>3. list # <<>> BY <1>8, <2>1 DEF InList
  <2> QED BY <1>2, <1>3, <1>8, <2>2, <2>3 DEF SameButHost
<1> QED BY <1>6, <1>7, <1>8, <1>9, <1>10 DEF Good

-----------------------------------------------------------------------------
(* What commands do.                                                       *)

\* How the page t follows from s: a list that was left is remembered with the
\* host that was selected in it.
Follows(s, t) ==
    /\ t.screen = "hosts" /\ ~ t.loaded =>
         \/ s.screen \in {"apps", "pair_host"} /\ t.remembered = s.active.host
         \/ s.screen = "settings" /\ t.remembered = s.remembered
         \/ s.screen \in {"hosts", "add_host"} /\ ~ s.loaded
    /\ t.screen = "settings" =>
         \/ s.screen = "settings" /\ t.remembered = s.remembered
         \/ s.screen = "hosts" /\ (s.loaded /\ s.items # <<>> => t.remembered = s.items[s.at + 1].host)
    /\ t.screen = "add_host" => s.screen \in {"hosts", "add_host"} /\ (s.loaded => t.loaded)

\* What a command on the page s may result in.
Leads(s, r) ==
    /\ Good(r.to) /\ Follows(s, r.to) /\ r.about \in Host \cup {NoHost}
    /\ r.ask \in {"nothing", "test", "browse", "browse_hidden", "pair", "cancel"}
    /\ r.ask \in {"test", "browse", "browse_hidden"} =>
         s.screen \in {"hosts", "add_host"} /\ SameHosts(s, r.to) /\ r.about \in Host
    /\ r.ask \in {"browse", "browse_hidden"} => s.screen = "hosts"
    /\ r.ask = "pair" => /\ s.screen \in {"hosts", "add_host"} /\ r.about \in Host
                         /\ r.to.screen = "pair_host" /\ r.to.active.host = r.about
                         /\ r.to.modal = "none"
    /\ s.screen = "pair_host" => r.ask = "cancel" \/ (r.to.screen = "pair_host" /\ r.to.active = s.active)

\* A command that leaves the page and its hosts leads on.
LEMMA SameLeads ==
    ASSUME NEW s, Good(s), NEW t, Good(t), SameHosts(s, t)
    PROVE  Leads(s, Then(t)) /\ Follows(s, t)
BY DEF SameHosts, Then, Leads, Follows, Good, ScreenState, Screen

\* Another selection of the same lists.
LEMMA SelectionFits ==
    ASSUME NEW s, Good(s), NEW t \in ScreenState,
           t.screen = s.screen, t.items = s.items, t.loaded = s.loaded, t.active = s.active,
           t.remembered = s.remembered, t.apps = s.apps, t.showHidden = s.showHidden,
           t.modal = s.modal, t.menu.rows = s.menu.rows, t.draft = s.draft,
           IF t.items = <<>> THEN t.at = 0 ELSE t.at < Len(t.items),
           t.screen = "apps" /\ Visible(t) # {} => t.appAt < Shows(t),
           t.menu.rows # <<>> => t.menu.at < Len(t.menu.rows)
    PROVE  Good(t)
BY DEF Good, Fits, ActiveLoaded, InList

\* Going to the pairing page, for the host that is selected or was added.
LEMMA RequestPairingLeads ==
    ASSUME NEW s, Good(s), s.screen \in {"hosts", "add_host"}, NEW h \in Host, InList(s, h),
           s.screen = "hosts" => s.items[s.at + 1].host = h,
           NEW r \in RequestPairing(s, h)
    PROVE  /\ Good(r.to) /\ r.about \in Host \cup {NoHost} /\ r.ask \in {"nothing", "pair"}
           /\ r.ask = "nothing" => r.to.screen = s.screen /\ r.to.loaded = s.loaded /\ r.to.modal = s.modal
           /\ r.ask = "pair" => /\ r.about = h /\ r.to.screen = "pair_host" /\ r.to.active.host = h
                                /\ r.to.modal = "none"
<1> DEFINE record == s.items[IndexOf(s, h) + 1]
           copied == [s EXCEPT !.active = record, !.apps = <<>>, !.remembered = record.host]
           paired == SetScreen(copied, "pair_host")
<1>1. s \in ScreenState /\ s.items \in Seq(HostRecord) BY DEF Good, ScreenState
<1>2. record \in HostRecord /\ record.host = h BY <1>1, IndexFits
<1>3. r \in {Then(s), Then(copied), And(paired, "pair", h)}
  BY DEF RequestPairing, CopyToActive
<1> HIDE DEF record
<1>4. /\ copied \in ScreenState /\ copied.screen = s.screen /\ copied.items = s.items /\ copied.at = s.at
      /\ copied.loaded = s.loaded /\ copied.active = record /\ copied.remembered = h
      /\ copied.modal = s.modal /\ copied.menu = s.menu /\ copied.draft = s.draft
  <2>1. <<>> \in Seq(AppRecord) /\ record \in HostRecord \cup {NoRecord} /\ record.host \in Host \cup {NoHost}
    BY <1>2
  <2>2. copied \in ScreenState BY <1>1, <2>1, Zenon DEF ScreenState
  <2> QED BY <1>1, <1>2, <2>2 DEF ScreenState
<1> HIDE DEF copied
<1>5. record # NoRecord BY <1>2, ScreensAssumption DEF NoRecord
<1>6. Good(copied) BY <1>4 DEF Good, Fits, ActiveLoaded, InList
<1>7. Good(paired) /\ paired.screen = "pair_host" /\ paired.active = record /\ paired.modal = "none"
  <2>1. "pair_host" \in Screen \ {copied.screen} BY <1>4 DEF Screen
  <2>2. ActiveLoaded(copied) /\ copied.remembered = copied.active.host BY <1>2, <1>4, <1>5 DEF ActiveLoaded
  <2>3. copied.screen = "hosts" /\ copied.items # <<>> =>
          copied.items[copied.at + 1].host = copied.active.host
    BY <1>2, <1>4
  <2>4. InList(copied, copied.active.host) BY <1>2, <1>4 DEF InList
  <2>5. /\ Good(paired) /\ paired.screen = "pair_host" /\ paired.active = copied.active
        /\ paired.modal = "none"
    BY <1>6, <2>1, <2>2, <2>3, <2>4, SetScreenFits
  <2> QED BY <1>4, <2>5
<1> HIDE DEF paired
<1> QED BY <1>2, <1>3, <1>4, <1>6, <1>7 DEF Then, And

\* The host that is selected is one of the list.
LEMMA SelectedIsListed ==
    ASSUME NEW s, Good(s), s.screen \in {"hosts", "add_host"}, SelectedHost(s) # NoRecord
    PROVE  /\ SelectedHost(s) = s.items[s.at + 1] /\ SelectedHost(s) \in HostRecord
           /\ s.at < Len(s.items) /\ s.items # <<>> /\ InList(s, SelectedHost(s).host)
<1>1. s.items \in Seq(HostRecord) /\ s.at \in Nat BY DEF Good, ScreenState
<1>2. SelectedHost(s) = s.items[s.at + 1] /\ s.at < Len(s.items) BY DEF SelectedHost
<1>3. s.at + 1 \in 1 .. Len(s.items) BY <1>1, <1>2
<1> QED BY <1>1, <1>2, <1>3 DEF InList

\* A host is selected, or the toolbar.
LEMMA HostSelectionLeads ==
    ASSUME NEW s, Good(s), s.screen = "hosts", NEW at \in Nat,
           IF s.items = <<>> THEN at = 0 ELSE at < Len(s.items), NEW focus \in {"toolbar", "grid"}, NEW tool \in 0 .. Toolbar - 1
    PROVE  Leads(s, Then([s EXCEPT !.focus = focus, !.at = at, !.tool = tool]))
<1> DEFINE t == [s EXCEPT !.focus = focus, !.at = at, !.tool = tool]
<1>1. s \in ScreenState BY DEF Good
<1>2. t \in ScreenState BY <1>1, Zenon DEF ScreenState
<1>3. /\ t.screen = s.screen /\ t.modal = s.modal /\ t.items = s.items /\ t.at = at /\ t.loaded = s.loaded
      /\ t.active = s.active /\ t.remembered = s.remembered /\ t.apps = s.apps /\ t.appAt = s.appAt
      /\ t.showHidden = s.showHidden /\ t.menu = s.menu /\ t.draft = s.draft
  BY <1>1 DEF ScreenState
<1> HIDE DEF t
<1>4. t.menu.rows # <<>> => t.menu.at < Len(t.menu.rows) BY <1>3 DEF Good, Fits
<1>5. Good(t) BY <1>2, <1>3, <1>4, SelectionFits
<1>6. NoHost \in Host \cup {NoHost} OBVIOUS
<1> QED BY <1>3, <1>5, <1>6 DEF t, Leads, Follows, Then

\* Opening a modal, or closing it, leads on.
LEMMA ModalLeads ==
    ASSUME NEW s, Good(s), NEW id \in Modal,
           id \in {"host_actions", "host_details"} => s.screen = "hosts",
           id \in {"app_actions", "app_details"} => s.screen = "apps",
           id # "none" => ~ s.draft.visible
    PROVE  /\ Leads(s, Then(OpenModal(s, id))) /\ Good(OpenModal(s, id))
           /\ SameHosts(s, OpenModal(s, id)) /\ OpenModal(s, id).draft = s.draft
<1> DEFINE t == [s EXCEPT !.modal = id, !.action = 0]
<1>1. Good(OpenModal(s, id)) /\ OpenModal(s, id) = t BY ModalFits
<1>2. SameHosts(s, t) /\ t.draft = s.draft BY DEF Good, ScreenState, SameHosts
<1> HIDE DEF t
<1> QED BY <1>1, <1>2, SameLeads

\* The hosts page.
LEMMA HostsLeads ==
    ASSUME NEW s, Good(s), s.screen = "hosts", NEW command \in Command, NEW r \in HostsCommand(s, command)
    PROVE  Leads(s, r)
<1>1. /\ s \in ScreenState /\ s.items \in Seq(HostRecord) /\ s.at \in Nat /\ s.tool \in 0 .. Toolbar - 1
      /\ s.focus \in {"toolbar", "grid"} /\ (IF s.items = <<>> THEN s.at = 0 ELSE s.at < Len(s.items))
      /\ ~ s.draft.visible
      /\ Len(s.items) \in Nat
  BY DEF Good, Fits, ScreenState
<1>2. ASSUME NEW at \in Nat, IF s.items = <<>> THEN at = 0 ELSE at < Len(s.items),
             NEW focus \in {"toolbar", "grid"},
             NEW tool \in 0 .. Toolbar - 1,
             r = Then([s EXCEPT !.focus = focus, !.at = at, !.tool = tool])
      PROVE  Leads(s, r)
  BY <1>2, HostSelectionLeads
<1>3. Leads(s, Then(s)) BY SameLeads DEF SameHosts
<1>4. ASSUME NEW focus \in {"toolbar", "grid"}, r = Then([s EXCEPT !.focus = focus])
      PROVE  Leads(s, r)
  <2>1. [s EXCEPT !.focus = focus] = [s EXCEPT !.focus = focus, !.at = s.at, !.tool = s.tool]
    BY <1>1 DEF ScreenState
  <2> QED BY <1>1, <1>2, <1>4, <2>1
<1>5. ASSUME NEW at \in Nat, s.items # <<>>, at < Len(s.items),
             r = Then([s EXCEPT !.focus = "grid", !.at = at])
      PROVE  Leads(s, r)
  <2>1. [s EXCEPT !.focus = "grid", !.at = at] = [s EXCEPT !.focus = "grid", !.at = at, !.tool = s.tool]
    BY <1>1 DEF ScreenState
  <2> QED BY <1>1, <1>2, <1>5, <2>1
<1>6. CASE command \in {"move_left", "move_right"}
  <2>1. CASE s.focus = "toolbar"
    <3> DEFINE tool == (s.tool + Steps(command)) % Toolbar
    <3>1. tool \in 0 .. Toolbar - 1 BY <1>1 DEF Toolbar, Steps
    <3>2. r = Then([s EXCEPT !.tool = tool]) BY <1>6, <2>1 DEF HostsCommand, Chooses
    <3> HIDE DEF tool
    <3>3. [s EXCEPT !.tool = tool] = [s EXCEPT !.focus = s.focus, !.at = s.at, !.tool = tool]
      BY <1>1 DEF ScreenState
    <3> QED BY <1>1, <1>2, <3>1, <3>2, <3>3
  <2>2. CASE s.focus # "toolbar" /\ s.items = <<>>
    BY <1>4, <1>6, <2>2 DEF HostsCommand, Chooses
  <2>3. CASE s.focus # "toolbar" /\ s.items # <<>>
    <3> DEFINE at == MoveColumn(Len(s.items), Steps(command), s.at)
    <3>1. at \in 0 .. Len(s.items) - 1
      <4>1. Steps(command) \in {-1, 1} /\ s.at \in 0 .. Len(s.items) - 1 BY <1>1, <2>3 DEF Steps
      <4> QED BY <1>1, <4>1, ColumnMovesStay
    <3>2. r = Then([s EXCEPT !.focus = "grid", !.at = at]) BY <1>6, <2>3 DEF HostsCommand, Chooses
    <3> HIDE DEF at
    <3>3. at \in Nat /\ at < Len(s.items) BY <1>1, <3>1
    <3> QED BY <1>5, <2>3, <3>2, <3>3
  <2> QED BY <2>1, <2>2, <2>3
<1>7. CASE command = "move_down" /\ s.focus = "toolbar" /\ s.items # <<>>
  BY <1>4, <1>7 DEF HostsCommand, Chooses
<1>8. CASE command \in {"move_up", "move_down"} /\ s.focus = "grid"
  <2>1. CASE s.items = <<>> \/ AboveFirst(HostColumns, Steps(command), s.at)
    BY <1>4, <1>8, <2>1 DEF HostsCommand, Chooses
  <2>2. CASE ~ (s.items = <<>> \/ AboveFirst(HostColumns, Steps(command), s.at))
    <3> DEFINE at == MoveRow(Len(s.items), HostColumns, Steps(command), s.at)
    <3>1. at \in 0 .. Len(s.items) - 1
      <4>1. Steps(command) \in {-1, 1} /\ s.at \in 0 .. Len(s.items) - 1 BY <1>1, <2>2 DEF Steps
      <4>2. MoveRow(Len(s.items), 3, Steps(command), s.at) \in 0 .. Len(s.items) - 1
        BY <1>1, <4>1, HostRowMovesStay
      <4> QED BY <4>2 DEF HostColumns
    <3>2. r = Then([s EXCEPT !.focus = "grid", !.at = at]) BY <1>8, <2>2 DEF HostsCommand, Chooses
    <3> HIDE DEF at
    <3>3. at \in Nat /\ at < Len(s.items) BY <1>1, <3>1
    <3> QED BY <1>5, <2>2, <3>2, <3>3
  <2> QED BY <2>1, <2>2
<1>9. CASE command = "open_context_menu" /\ s.focus = "grid" /\ SelectedHost(s) # NoRecord
  <2>1. r = Then(OpenModal(s, "host_actions")) BY <1>9 DEF HostsCommand, Chooses
  <2> QED BY <1>1, <2>1, ModalLeads DEF Modal
<1>10. CASE command \in Chooses /\ s.focus = "toolbar"
  <2>1. \/ r = Then(SetScreen(s, "settings")) \/ r = Then(OpenModal(s, "support"))
        \/ r = Then(SetScreen([s EXCEPT !.draft = NoDraft], "add_host"))
    BY <1>10 DEF HostsCommand, Chooses
  <2>2. CASE r = Then(SetScreen(s, "settings"))
    <3> DEFINE t == SetScreen(s, "settings")
    <3>1. "settings" \in Screen \ {s.screen} BY DEF Screen
    <3>2. /\ Good(t) /\ t.screen = "settings"
          /\ s.loaded => t.remembered = IF s.items # <<>> THEN s.items[s.at + 1].host ELSE s.remembered
      BY <3>1, SetScreenFits
    <3> HIDE DEF t
    <3> QED BY <2>2, <3>2 DEF t, Then, Leads, Follows
  <2>3. CASE r = Then(OpenModal(s, "support"))
    BY <1>1, <2>3, ModalLeads DEF Modal
  <2>4. CASE r = Then(SetScreen([s EXCEPT !.draft = NoDraft], "add_host"))
    <3> DEFINE u == [s EXCEPT !.draft = NoDraft]
               t == SetScreen(u, "add_host")
    <3>1. NoDraft \in Draft /\ ~ NoDraft.visible BY DEF NoDraft, Draft
    <3>2. Good(u) /\ SameHosts(s, u) BY <3>1, DraftFits
    <3>3. u.screen = "hosts" /\ "add_host" \in Screen \ {u.screen} BY <3>2 DEF SameHosts, Screen
    <3> HIDE DEF u
    <3>4. Good(t) /\ t.screen = "add_host" /\ t.loaded = u.loaded BY <3>2, <3>3, SetScreenFits
    <3> HIDE DEF t
    <3> QED BY <2>4, <3>2, <3>4 DEF u, t, Then, Leads, Follows, SameHosts
  <2> QED BY <2>1, <2>2, <2>3, <2>4
<1>11. CASE command \in Chooses /\ s.focus = "grid" /\ SelectedHost(s) # NoRecord
  <2>1. /\ SelectedHost(s) = s.items[s.at + 1] /\ SelectedHost(s) \in HostRecord
        /\ InList(s, SelectedHost(s).host) /\ SelectedHost(s).host \in Host
    BY <1>11, SelectedIsListed DEF HostRecord
  <2>2. CASE SelectedHost(s).paired
    <3>1. r = And(s, "browse", SelectedHost(s).host) BY <1>11, <2>2 DEF HostsCommand, Chooses
    <3>2. SameHosts(s, s) BY DEF SameHosts
    <3>3. Follows(s, s) BY <3>2, SameLeads
    <3> QED BY <2>1, <3>1, <3>2, <3>3 DEF And, Leads
  <2>3. CASE ~ SelectedHost(s).paired
    <3> DEFINE h == SelectedHost(s).host
    <3>1. r \in RequestPairing(s, h) BY <1>11, <2>3 DEF HostsCommand, Chooses
    <3>2. h \in Host /\ InList(s, h) /\ s.items[s.at + 1].host = h BY <2>1
    <3> HIDE DEF h
    <3>3. /\ Good(r.to) /\ r.about \in Host \cup {NoHost} /\ r.ask \in {"nothing", "pair"}
          /\ r.ask = "nothing" => r.to.screen = s.screen /\ r.to.loaded = s.loaded
          /\ r.ask = "pair" => /\ r.about = h /\ r.to.screen = "pair_host" /\ r.to.active.host = h
                               /\ r.to.modal = "none"
      BY <3>1, <3>2, RequestPairingLeads
    <3> QED BY <3>2, <3>3 DEF Leads, Follows
  <2> QED BY <2>2, <2>3
<1>12. CASE /\ command \notin {"move_left", "move_right"}
            /\ ~ (command = "move_down" /\ s.focus = "toolbar" /\ s.items # <<>>)
            /\ ~ (command \in {"move_up", "move_down"} /\ s.focus = "grid")
            /\ ~ (command = "open_context_menu" /\ s.focus = "grid" /\ SelectedHost(s) # NoRecord)
            /\ ~ (command \in Chooses /\ s.focus = "toolbar")
            /\ ~ (command \in Chooses /\ s.focus = "grid" /\ SelectedHost(s) # NoRecord)
  <2>1. r = Then(s) BY <1>12 DEF HostsCommand, Chooses
  <2> QED BY <1>3, <2>1
<1> QED BY <1>6, <1>7, <1>8, <1>9, <1>10, <1>11, <1>12

\* An app is selected.
LEMMA AppSelectionLeads ==
    ASSUME NEW s, Good(s), s.screen = "apps", NEW at \in Nat, Visible(s) # {} => at < Shows(s)
    PROVE  Leads(s, Then([s EXCEPT !.appAt = at]))
<1> DEFINE t == [s EXCEPT !.appAt = at]
<1>1. s \in ScreenState BY DEF Good
<1>2. t \in ScreenState BY <1>1, Zenon DEF ScreenState
<1>3. /\ t.screen = s.screen /\ t.modal = s.modal /\ t.items = s.items /\ t.at = s.at /\ t.loaded = s.loaded
      /\ t.active = s.active /\ t.remembered = s.remembered /\ t.apps = s.apps /\ t.appAt = at
      /\ t.showHidden = s.showHidden /\ t.menu = s.menu /\ t.draft = s.draft
  BY <1>1 DEF ScreenState
<1> HIDE DEF t
<1>4. Visible(t) = Visible(s) /\ Shows(t) = Shows(s) BY <1>3, VisibleSame
<1>5. Good(t) BY <1>2, <1>3, <1>4, SelectionFits DEF Good, Fits
<1> QED BY <1>3, <1>5, SameLeads DEF t, SameHosts

\* Back to the hosts page.
LEMMA BackLeads ==
    ASSUME NEW s, Good(s), s.screen # "hosts"
    PROVE  /\ Good(SetScreen(s, "hosts")) /\ Follows(s, SetScreen(s, "hosts"))
           /\ s.screen # "pair_host" => Leads(s, Then(SetScreen(s, "hosts")))
<1> DEFINE t == SetScreen(s, "hosts")
<1>1. "hosts" \in Screen \ {s.screen} BY DEF Screen
<1>2. /\ Good(t) /\ t.screen = "hosts" /\ t.loaded = s.loaded
      /\ t.remembered = IF s.screen = "apps" THEN s.active.host ELSE s.remembered
  BY <1>1, SetScreenFits
<1> HIDE DEF t
<1>3. s.screen \in Screen /\ (s.screen = "pair_host" => s.remembered = s.active.host) /\ s.loaded \in BOOLEAN
  BY DEF Good, Fits, ScreenState
<1>4. Follows(s, t) BY <1>2, <1>3 DEF Follows, Screen
<1>5. s.screen # "pair_host" => Leads(s, Then(t)) BY <1>2, <1>4 DEF Leads, Then
<1> QED BY <1>2, <1>4, <1>5 DEF t

\* The apps page.
LEMMA AppsLeads ==
    ASSUME NEW s, Good(s), s.screen = "apps", NEW command \in Command, NEW r \in AppsCommand(s, command)
    PROVE  Leads(s, r)
<1>1. /\ s.appAt \in Nat /\ s.apps \in Seq(AppRecord) /\ ~ s.draft.visible
      /\ Visible(s) # {} => s.appAt < Shows(s)
  BY DEF Good, Fits, ScreenState
<1>2. Shows(s) \in Nat /\ (Visible(s) # {} <=> Shows(s) > 0) BY <1>1, Shown
<1>3. CASE command \in Moves
  <2>1. PICK at : /\ r = Then([s EXCEPT !.appAt = at])
                  /\ \/ Shows(s) = 0 /\ at = 0
                     \/ Shows(s) # 0 /\ at = MoveColumn(Shows(s), Steps(command), s.appAt)
                     \/ Shows(s) # 0 /\ at = MoveRow(Shows(s), AppColumns, Steps(command), s.appAt)
    <3>1. CASE Shows(s) = 0 BY <1>3, <3>1 DEF AppsCommand, Moves
    <3>2. CASE Shows(s) # 0 BY <1>3, <3>2 DEF AppsCommand, Moves
    <3> QED BY <3>1, <3>2
  <2>2. at \in Nat /\ (Visible(s) # {} => at < Shows(s))
    <3>1. CASE Shows(s) = 0 BY <1>2, <2>1, <3>1
    <3>2. CASE Shows(s) # 0
      <4>1. Steps(command) \in {-1, 1} /\ s.appAt \in 0 .. Shows(s) - 1 BY <1>1, <1>2, <3>2 DEF Steps
      <4>2. /\ MoveColumn(Shows(s), Steps(command), s.appAt) \in 0 .. Shows(s) - 1
            /\ MoveRow(Shows(s), 4, Steps(command), s.appAt) \in 0 .. Shows(s) - 1
        BY <1>2, <4>1, ColumnMovesStay, AppRowMovesStay
      <4>3. at \in 0 .. Shows(s) - 1 BY <2>1, <3>2, <4>2 DEF AppColumns
      <4> QED BY <1>2, <4>3
    <3> QED BY <3>1, <3>2
  <2> QED BY <2>1, <2>2, AppSelectionLeads
<1>4. CASE command = "open_context_menu" /\ SelectedApp(s) # NoApp
  <2>1. r = Then(OpenModal(s, "app_actions")) BY <1>4 DEF AppsCommand, Moves
  <2> QED BY <1>1, <2>1, ModalLeads DEF Modal
<1>5. CASE command = "back"
  <2>1. r = Then(SetScreen(s, "hosts")) BY <1>5 DEF AppsCommand, Moves
  <2> QED BY <2>1, BackLeads
<1>6. CASE /\ command \notin Moves /\ command # "back"
           /\ ~ (command = "open_context_menu" /\ SelectedApp(s) # NoApp)
  <2>1. r = Then(s) BY <1>6 DEF AppsCommand, Moves
  <2> QED BY <2>1, SameLeads DEF SameHosts
<1> QED BY <1>3, <1>4, <1>5, <1>6

\* The modal that is opened is shown.
LEMMA OpenedModal ==
    ASSUME NEW s \in ScreenState, NEW id \in Modal
    PROVE  OpenModal(s, id).modal = id
BY DEF OpenModal, ScreenState

\* What can be done with an app.
LEMMA AppActionsLead ==
    ASSUME NEW s, Good(s), s.modal = "app_actions", NEW r \in AppActions(s)
    PROVE  Leads(s, r) /\ r.ask = "nothing" /\ r.to.modal \in {"none", "app_details"}
<1> DEFINE k == IndexAt(s, s.appAt)
           record == [s.apps[k] EXCEPT !.hidden = ~ s.apps[k].hidden]
           apps == [s.apps EXCEPT ![k] = record]
           toggled == [s EXCEPT !.apps = apps]
           closed == [toggled EXCEPT !.modal = "none", !.action = 0]
           t == ClampApp(closed)
<1>1. /\ s \in ScreenState /\ s.screen = "apps" /\ s.apps \in Seq(AppRecord) /\ ~ s.draft.visible
  BY DEF Good, Fits, ScreenState
<1>2. r \in {Then(OpenModal(s, "none")), Then(OpenModal(s, "app_details")), Then(t)}
  <2>1. CloseModal(s) = OpenModal(s, "none") BY DEF CloseModal, OpenModal
  <2>2. CASE SelectedApp(s) = NoApp BY <2>1, <2>2 DEF AppActions
  <2>3. CASE SelectedApp(s) # NoApp /\ s.action = 0
    <3>1. closed = CloseModal(Toggled(s, k)) BY DEF CloseModal, Toggled
    <3>2. r = Then(ClampApp(CloseModal(Toggled(s, k)))) BY <2>3 DEF AppActions
    <3> HIDE DEF closed, k
    <3> QED BY <3>1, <3>2
  <2>4. CASE SelectedApp(s) # NoApp /\ s.action = 1 BY <2>4 DEF AppActions
  <2>5. CASE SelectedApp(s) # NoApp /\ s.action \notin {0, 1} BY <2>1, <2>5 DEF AppActions
  <2> QED BY <2>2, <2>3, <2>4, <2>5
<1>3. CASE r \in {Then(OpenModal(s, "none")), Then(OpenModal(s, "app_details"))}
  <2>1. Leads(s, r) BY <1>1, <1>3, ModalLeads DEF Modal
  <2> QED BY <1>1, <1>3, <2>1, OpenedModal DEF Then, Modal
<1>4. CASE r = Then(t)
  <2> HIDE DEF k
  <2>1. apps \in Seq(AppRecord)
    <3> DEFINE n == Len(s.apps)
    <3>1. n \in Nat /\ s.apps \in [1 .. n -> AppRecord] BY <1>1
    <3>2. k \in 1 .. n => record \in AppRecord
      <4>1. k \in 1 .. n => s.apps[k] \in AppRecord BY <1>1
      <4> QED BY <4>1 DEF AppRecord
    <3> HIDE DEF record, n
    <3>3. apps \in [1 .. n -> AppRecord] BY <3>1, <3>2
    <3> HIDE DEF apps
    <3> QED BY <3>1, <3>3, SeqDef
  <2> HIDE DEF apps
  <2>2. toggled \in ScreenState BY <1>1, <2>1, Zenon DEF ScreenState
  <2>3. /\ toggled.screen = "apps" /\ toggled.items = s.items /\ toggled.at = s.at /\ toggled.loaded = s.loaded
        /\ toggled.active = s.active /\ toggled.remembered = s.remembered
        /\ toggled.menu = s.menu /\ toggled.draft = s.draft
    BY <1>1 DEF ScreenState
  <2> HIDE DEF toggled
  <2>4. closed \in ScreenState
    <3>1. "none" \in Modal /\ 0 \in 0 .. 3 BY DEF Modal
    <3> QED BY <2>2, <3>1, Zenon DEF ScreenState
  <2>5. /\ closed.screen = "apps" /\ closed.items = s.items /\ closed.at = s.at /\ closed.loaded = s.loaded
        /\ closed.active = s.active /\ closed.remembered = s.remembered
        /\ closed.menu = s.menu /\ closed.draft = s.draft /\ closed.modal = "none"
    BY <2>2, <2>3 DEF ScreenState
  <2> HIDE DEF closed
  <2>6. AppsHost(closed) BY <2>5 DEF AppsHost, Good, Fits, ActiveLoaded
  <2>7. /\ t \in ScreenState /\ SameButApp(closed, t)
        /\ Visible(closed) # {} => t.appAt < Shows(closed)
    BY <2>4, <2>6, ClampAppFits
  <2> HIDE DEF t
  <2>8. Visible(t) = Visible(closed) /\ Shows(t) = Shows(closed) BY <2>7, VisibleSame DEF SameButApp
  <2>9. SameHosts(s, t) /\ t.menu = s.menu /\ t.draft = s.draft /\ t.modal = "none"
    BY <1>1, <2>5, <2>7 DEF SameHosts, SameButApp
  <2>10. Fits(t)
    BY <1>1, <2>7, <2>8, <2>9 DEF Good, Fits, SameHosts, ActiveLoaded, InList
  <2>11. Leads(s, Then(t)) BY <2>7, <2>9, <2>10, SameLeads DEF Good
  <2> QED BY <1>4, <2>9, <2>11 DEF Then
<1> QED BY <1>2, <1>3, <1>4

\* What can be done with a host.
LEMMA HostActionsLead ==
    ASSUME NEW s, Good(s), s.modal = "host_actions", NEW r \in HostActions(s)
    PROVE  /\ Leads(s, r)
           /\ r.to.modal = "none" \/ (r.ask = "nothing" /\ r.to.modal = "host_details")
<1> DEFINE closed == OpenModal(s, "none")
           record == SelectedHost(s)
<1>1. /\ s \in ScreenState /\ s.screen = "hosts" /\ s.items \in Seq(HostRecord) /\ s.at \in Nat
      /\ ~ s.draft.visible
  BY DEF Good, Fits, ScreenState
<1>2. Leads(s, Then(closed)) /\ Good(closed) /\ SameHosts(s, closed) /\ Follows(s, closed)
  BY <1>1, ModalLeads, SameLeads DEF Modal
<1>3. CloseModal(s) = closed /\ closed.modal = "none"
  BY <1>1, OpenedModal DEF CloseModal, OpenModal, Modal
<1> HIDE DEF closed
<1>4. CASE record = NoRecord BY <1>2, <1>3, <1>4 DEF HostActions, Then
<1>5. CASE record # NoRecord
  <2>1. /\ record = s.items[s.at + 1] /\ record \in HostRecord /\ record.host \in Host
        /\ s.at < Len(s.items) /\ s.items # <<>> /\ InList(s, record.host)
    BY <1>1, <1>5, SelectedIsListed DEF HostRecord
  <2> HIDE DEF record
  <2>2. CASE s.action = 0 /\ record.paired
    <3>1. r = And(closed, "browse_hidden", record.host) BY <1>3, <1>5, <2>2 DEF HostActions, record
    <3> QED BY <1>1, <1>2, <1>3, <2>1, <3>1 DEF Leads, And
  <2>3. CASE s.action = 0 /\ ~ record.paired
    <3>1. r \in RequestPairing(closed, record.host) BY <1>3, <1>5, <2>3 DEF HostActions, record
    <3>2. closed.screen = "hosts" /\ InList(closed, record.host) /\ closed.items[closed.at + 1].host = record.host
      BY <1>1, <1>2, <2>1 DEF SameHosts, InList
    <3> DEFINE h == record.host
    <3> HIDE DEF h
    <3>3. h \in Host /\ r \in RequestPairing(closed, h) /\ InList(closed, h)
          /\ closed.items[closed.at + 1].host = h
      BY <2>1, <3>1, <3>2 DEF h
    <3>4. /\ Good(r.to) /\ r.about \in Host \cup {NoHost} /\ r.ask \in {"nothing", "pair"}
          /\ r.ask = "nothing" => /\ r.to.screen = closed.screen /\ r.to.loaded = closed.loaded
                                      /\ r.to.modal = closed.modal
          /\ r.ask = "pair" => /\ r.about = h /\ r.to.screen = "pair_host" /\ r.to.active.host = h
                               /\ r.to.modal = "none"
      BY <1>2, <3>2, <3>3, RequestPairingLeads
    <3> QED BY <1>1, <1>2, <1>3, <3>3, <3>4 DEF Leads, Follows, SameHosts
  <2>4. CASE s.action = 1
    <3>1. r = And(closed, "test", record.host) BY <1>3, <1>5, <2>4 DEF HostActions, record
    <3> QED BY <1>1, <1>2, <1>3, <2>1, <3>1 DEF Leads, And
  <2>5. CASE s.action = 2
    <3> DEFINE items == SubSeq(s.items, 1, s.at) \o SubSeq(s.items, s.at + 2, Len(s.items))
               gone == [s EXCEPT !.items = items]
               u == ClampHost(gone)
    <3>1. r = Then(CloseModal(ClampHost(Removed(s)))) BY <1>5, <2>5 DEF HostActions, record
    <3>2. Removed(s) = gone BY <1>1 DEF Removed
    <3>3. items \in Seq(HostRecord)
      <4>1. SubSeq(s.items, 1, s.at) \in Seq(HostRecord) BY <1>1, <2>1, SubSeqProperties
      <4>2. SubSeq(s.items, s.at + 2, Len(s.items)) \in Seq(HostRecord) BY <1>1, <2>1, SubSeqProperties
      <4> QED BY <4>1, <4>2, ConcatProperties
    <3> HIDE DEF items
    <3>4. gone \in ScreenState BY <1>1, <3>3, Zenon DEF ScreenState
    <3>5. /\ gone.screen = s.screen /\ gone.modal = s.modal /\ gone.loaded = s.loaded
          /\ gone.active = s.active /\ gone.remembered = s.remembered /\ gone.apps = s.apps
          /\ gone.appAt = s.appAt /\ gone.showHidden = s.showHidden /\ gone.menu = s.menu /\ gone.draft = s.draft
      BY <1>1 DEF ScreenState
    <3> HIDE DEF gone
    <3>6. u \in ScreenState /\ SameButHost(gone, u)
          /\ IF gone.items = <<>> THEN u.at = 0 ELSE u.at < Len(gone.items)
      BY <3>4, ClampHostFits
    <3> HIDE DEF u
    <3>7. u.screen = "hosts" /\ u.loaded = s.loaded /\ u.modal = s.modal /\ ~ u.draft.visible
      BY <1>1, <3>5, <3>6 DEF SameButHost
    <3>8. Good(u) BY <1>1, <3>5, <3>6, <3>7 DEF Good, Fits, SameButHost
    <3>9. /\ Good(OpenModal(u, "none")) /\ SameHosts(u, OpenModal(u, "none"))
          /\ OpenModal(u, "none").modal = "none"
      BY <3>7, <3>8, ModalLeads, OpenedModal DEF Modal, Good
    <3>10. r = Then(OpenModal(u, "none")) BY <3>1, <3>2 DEF u, CloseModal, OpenModal
    <3> QED BY <1>1, <3>7, <3>9, <3>10 DEF Leads, Follows, SameHosts, Then
  <2>6. CASE s.action \notin {0, 1, 2}
    <3>1. r = Then(OpenModal(s, "host_details")) BY <1>5, <2>6 DEF HostActions, record
    <3>2. Leads(s, r) BY <1>1, <3>1, ModalLeads DEF Modal
    <3> QED BY <1>1, <3>1, <3>2, OpenedModal DEF Then, Modal
  <2> QED BY <2>2, <2>3, <2>4, <2>5, <2>6
<1> QED BY <1>4, <1>5

\* What a modal is about is the same.
SameTarget(s, t) ==
    /\ SameHosts(s, t) /\ t.modal = s.modal
    /\ t.apps = s.apps /\ t.appAt = s.appAt /\ t.showHidden = s.showHidden

\* A command in a modal closes it, opens another or leaves what it is about.
Turns(s, r) ==
    \/ r.to.modal = "none"
    \/ r.ask = "nothing" /\ r.to.modal # s.modal
    \/ r.ask = "nothing" /\ SameTarget(s, r.to)

\* The modals.
LEMMA ModalCommandLeads ==
    ASSUME NEW s, Good(s), s.modal # "none", NEW command \in Command, NEW r \in ModalCommand(s, command)
    PROVE  Leads(s, r) /\ Turns(s, r)
<1>1. s \in ScreenState /\ ~ s.draft.visible /\ s.modal \in Modal /\ s.action \in 0 .. 3
  BY DEF Good, Fits, ScreenState
<1>2. /\ CloseModal(s) = OpenModal(s, "none") /\ Leads(s, Then(OpenModal(s, "none")))
      /\ Turns(s, Then(OpenModal(s, "none")))
  <2>1. CloseModal(s) = OpenModal(s, "none") BY DEF CloseModal, OpenModal
  <2>2. Leads(s, Then(OpenModal(s, "none"))) BY ModalLeads DEF Modal
  <2>3. OpenModal(s, "none").modal = "none" BY <1>1, OpenedModal DEF Modal
  <2> QED BY <2>1, <2>2, <2>3 DEF Turns, Then
<1>3. Leads(s, Then(s)) /\ Turns(s, Then(s))
  BY SameLeads DEF SameHosts, Turns, Then, SameTarget
<1>4. CASE command = "back" BY <1>2, <1>4 DEF ModalCommand, Moves, Chooses
<1>5. CASE command \in Moves
  <2>1. CASE ModalActionCount(s.modal) = 0 BY <1>3, <1>5, <2>1 DEF ModalCommand, Moves, Chooses
  <2>2. CASE ModalActionCount(s.modal) # 0
    <3> DEFINE n == ModalActionCount(s.modal)
               action == (s.action + Steps(command)) % n
               t == [s EXCEPT !.action = action]
    <3>1. n \in {3, 4} BY <2>2 DEF ModalActionCount
    <3>2. r = Then(t) BY <1>5, <2>2 DEF ModalCommand, Moves, Chooses
    <3> HIDE DEF n
    <3>3. action \in 0 .. 3
      <4>1. s.action + Steps(command) \in Int BY <1>1 DEF Steps
      <4> QED BY <3>1, <4>1
    <3> HIDE DEF action
    <3>4. t \in ScreenState BY <1>1, <3>3, Zenon DEF ScreenState
    <3>5. /\ t.screen = s.screen /\ t.modal = s.modal /\ t.items = s.items /\ t.at = s.at /\ t.loaded = s.loaded
          /\ t.active = s.active /\ t.remembered = s.remembered /\ t.apps = s.apps /\ t.appAt = s.appAt
          /\ t.showHidden = s.showHidden /\ t.menu = s.menu /\ t.draft = s.draft
      BY <1>1 DEF ScreenState
    <3> HIDE DEF t
    <3>6. Visible(t) = Visible(s) /\ Shows(t) = Shows(s) BY <3>5, VisibleSame
    <3>7. Good(t) BY <3>4, <3>5, <3>6, SelectionFits DEF Good, Fits
    <3>8. Turns(s, Then(t)) BY <3>5 DEF Turns, Then, SameTarget, SameHosts
    <3> QED BY <3>2, <3>5, <3>7, <3>8, SameLeads DEF SameHosts
  <2> QED BY <2>1, <2>2
<1>6. CASE command \in Chooses
  <2>1. CASE s.modal = "host_actions"
    <3>1. r \in HostActions(s) BY <1>6, <2>1 DEF ModalCommand, Moves, Chooses
    <3> QED BY <2>1, <3>1, HostActionsLead DEF Turns
  <2>2. CASE s.modal = "app_actions"
    <3>1. r \in AppActions(s) BY <1>6, <2>2 DEF ModalCommand, Moves, Chooses
    <3> QED BY <2>2, <3>1, AppActionsLead DEF Turns
  <2>3. CASE s.modal \notin {"host_actions", "app_actions"}
    BY <1>2, <1>6, <2>3 DEF ModalCommand, Moves, Chooses
  <2> QED BY <2>1, <2>2, <2>3
<1>7. CASE command \notin {"back"} \cup Moves \cup Chooses
  BY <1>3, <1>7 DEF ModalCommand
<1> QED BY <1>4, <1>5, <1>6, <1>7

\* The keypad of the page for a new host.
LEMMA KeypadLeads ==
    ASSUME NEW s, Good(s), s.draft.visible, NEW command \in Command, NEW r \in KeypadCommand(s, command)
    PROVE  Leads(s, r)
<1> DEFINE d == s.draft
           done == [d EXCEPT !.visible = FALSE, !.staged = NoHost]
           id == IF d.field = "address" THEN "edit-address" ELSE "edit-port"
<1>1. s \in ScreenState /\ s.screen = "add_host" /\ s.modal = "none" /\ d \in Draft
  BY DEF Good, Fits, ScreenState
<1>2. ASSUME NEW draft \in Draft, r = Then(RebuildMenu([s EXCEPT !.draft = draft], id))
      PROVE  Leads(s, r)
  <2> DEFINE u == [s EXCEPT !.draft = draft]
  <2>1. Good(u) /\ SameHosts(s, u) BY <1>1, DraftFits
  <2> HIDE DEF u, id
  <2>2. Good(RebuildMenu(u, id)) /\ SameHosts(u, RebuildMenu(u, id)) BY <2>1, RebuildMenuFits
  <2>3. SameHosts(s, RebuildMenu(u, id)) BY <2>1, <2>2 DEF SameHosts
  <2> QED BY <1>2, <2>2, <2>3, SameLeads DEF u
<1>3. /\ done \in Draft /\ [done EXCEPT !.address = d.staged] \in Draft
      /\ [done EXCEPT !.port = TRUE] \in Draft /\ [done EXCEPT !.port = FALSE] \in Draft
  BY <1>1 DEF Draft
<1>4. CASE command = "back"
  <2>1. r = Then(RebuildMenu([s EXCEPT !.draft = done], id)) BY <1>4 DEF KeypadCommand
  <2> QED BY <1>2, <1>3, <2>1
<1>5. CASE command = "confirm"
  <2>1. PICK draft \in {[done EXCEPT !.address = d.staged], [done EXCEPT !.port = TRUE],
                        [done EXCEPT !.port = FALSE]} :
          r = Then(RebuildMenu([s EXCEPT !.draft = draft], id))
    <3>1. CASE d.field = "address" BY <1>5, <3>1 DEF KeypadCommand
    <3>2. CASE d.field # "address" BY <1>5, <3>2 DEF KeypadCommand
    <3> QED BY <3>1, <3>2
  <2> QED BY <1>2, <1>3, <2>1
<1>6. CASE command \in {"activate", "delete_character"} /\ d.field = "address"
  <2>1. PICK text \in Host \cup {NoHost} : r = Then([s EXCEPT !.draft.staged = text])
    BY <1>6 DEF KeypadCommand
  <2> DEFINE draft == [d EXCEPT !.staged = text]
  <2>2. draft \in Draft BY <1>1 DEF Draft
  <2>3. [s EXCEPT !.draft.staged = text] = [s EXCEPT !.draft = draft] BY <1>1 DEF ScreenState
  <2> HIDE DEF draft
  <2>4. Good([s EXCEPT !.draft = draft]) /\ SameHosts(s, [s EXCEPT !.draft = draft])
    BY <1>1, <2>2, DraftFits
  <2> QED BY <2>1, <2>3, <2>4, SameLeads
<1>7. CASE command \notin {"back", "confirm"}
           /\ ~ (command \in {"activate", "delete_character"} /\ d.field = "address")
  <2>1. r = Then(s) BY <1>7 DEF KeypadCommand
  <2> QED BY <2>1, SameLeads DEF SameHosts
<1> QED BY <1>4, <1>5, <1>6, <1>7

\* A new host at the end of the list, selected.
Added(s, h, focus) ==
    [s EXCEPT !.items = Append(s.items, Made(h)), !.at = Len(s.items), !.focus = focus]

\* The page for a new host keeps every index in its list when one is added.
LEMMA AddedFits ==
    ASSUME NEW s, Good(s), s.screen = "add_host", NEW h \in Host, NEW focus \in {"toolbar", "grid"},
           NEW t, t = Added(s, h, focus)
    PROVE  Good(t) /\ InList(t, h) /\ t.screen = "add_host" /\ t.loaded = s.loaded
<1> DEFINE items == Append(s.items, Made(h))
<1>1. s \in ScreenState /\ s.items \in Seq(HostRecord) BY DEF Good, ScreenState
<1>2. Made(h) \in HostRecord /\ Made(h).host = h BY DEF Made, HostRecord
<1>3. /\ items \in Seq(HostRecord) /\ Len(items) = Len(s.items) + 1 /\ Len(s.items) \in Nat
      /\ items[Len(s.items) + 1] = Made(h)
  BY <1>1, <1>2
<1> HIDE DEF items
<1>4. t = [s EXCEPT !.items = items, !.at = Len(s.items), !.focus = focus] BY DEF items, Added
<1>5. t \in ScreenState BY <1>1, <1>3, <1>4, Zenon DEF ScreenState
<1>6. /\ t.screen = s.screen /\ t.modal = s.modal /\ t.items = items /\ t.at = Len(s.items)
      /\ t.loaded = s.loaded /\ t.active = s.active /\ t.remembered = s.remembered /\ t.apps = s.apps
      /\ t.appAt = s.appAt /\ t.showHidden = s.showHidden /\ t.menu = s.menu /\ t.draft = s.draft
  BY <1>1, <1>4 DEF ScreenState
<1>7. t.at < Len(t.items) BY <1>3, <1>6
<1>8. Good(t) BY <1>5, <1>6, <1>7 DEF Good, Fits
<1>9. InList(t, h)
  <2>1. Len(s.items) + 1 \in DOMAIN t.items BY <1>3, <1>6
  <2> QED BY <1>2, <1>3, <1>6, <2>1 DEF InList
<1> QED BY <1>6, <1>8, <1>9

\* The rows of the page for a new host.
LEMMA AddHostLeads ==
    ASSUME NEW s, Good(s), s.screen = "add_host", s.modal = "none", NEW row,
           NEW r \in AddHostActivation(s, row)
    PROVE  Leads(s, r)
<1> DEFINE d == s.draft
           valid == d.address # NoHost /\ d.port
           added == [s EXCEPT !.items = Append(@, Made(d.address)), !.at = Len(s.items)]
<1>1. s \in ScreenState /\ d \in Draft /\ d.address \in Host \cup {NoHost} /\ s.loaded \in BOOLEAN
      /\ s.items \in Seq(HostRecord) /\ s.focus \in {"toolbar", "grid"}
  BY DEF Good, ScreenState, Draft
<1>2. ASSUME NEW draft \in Draft, NEW id, r = Then(RebuildMenu([s EXCEPT !.draft = draft], id))
      PROVE  Leads(s, r)
  <2> DEFINE u == [s EXCEPT !.draft = draft]
  <2>1. Good(u) /\ SameHosts(s, u) BY DraftFits
  <2> HIDE DEF u
  <2>2. Good(RebuildMenu(u, id)) /\ SameHosts(u, RebuildMenu(u, id)) BY <2>1, RebuildMenuFits
  <2>3. SameHosts(s, RebuildMenu(u, id)) BY <2>1, <2>2 DEF SameHosts
  <2> QED BY <1>2, <2>2, <2>3, SameLeads DEF u
<1>3. Leads(s, Then(s)) BY SameLeads DEF SameHosts
<1>4. CASE row = "edit-address"
  <2> DEFINE draft == [d EXCEPT !.visible = TRUE, !.field = "address", !.staged = d.address]
  <2>1. draft \in Draft BY <1>1 DEF Draft
  <2>2. r = Then(RebuildMenu([s EXCEPT !.draft = draft], "edit-address")) BY <1>4 DEF AddHostActivation
  <2> QED BY <1>2, <2>1, <2>2
<1>5. CASE row = "edit-port"
  <2> DEFINE draft == [d EXCEPT !.visible = TRUE, !.field = "port", !.staged = NoHost]
  <2>1. draft \in Draft BY <1>1 DEF Draft
  <2>2. r = Then(RebuildMenu([s EXCEPT !.draft = draft], "edit-port")) BY <1>5 DEF AddHostActivation
  <2> QED BY <1>2, <2>1, <2>2
<1>6. CASE row = "test-connection" /\ valid
  <2>1. r = And(s, "test", d.address) BY <1>6 DEF AddHostActivation
  <2>2. SameHosts(s, s) /\ Follows(s, s) BY SameLeads DEF SameHosts
  <2> QED BY <1>1, <1>6, <2>1, <2>2 DEF And, Leads
<1>7. CASE row = "save-host" /\ valid /\ ~ InList(s, d.address)
  <2> DEFINE u == [s EXCEPT !.items = Append(s.items, Made(d.address)), !.at = Len(s.items), !.focus = "grid"]
  <2>1. d.address \in Host BY <1>1, <1>7
  <2>2. Good(u) /\ u.screen = "add_host" /\ u.loaded = s.loaded
    <3>1. u = Added(s, d.address, "grid") BY DEF Added
    <3> HIDE DEF u, d, added
    <3> QED BY <2>1, <3>1, AddedFits
  <2>3. u = [added EXCEPT !.focus = "grid"] BY <1>1 DEF ScreenState
  <2>4. r = Then(SetScreen([added EXCEPT !.focus = "grid"], "hosts")) BY <1>7 DEF AddHostActivation
  <2> HIDE DEF u, added
  <2>5. Leads(u, Then(SetScreen(u, "hosts"))) BY <2>2, BackLeads
  <2> QED BY <2>2, <2>3, <2>4, <2>5 DEF Leads, Follows, Then
<1>8. CASE row = "start-pairing" /\ valid
  <2> DEFINE u == IF InList(s, d.address) THEN s ELSE added
             h == d.address
  <2>0. h \in Host BY <1>1, <1>8
  <2>1. Good(u) /\ InList(u, h) /\ u.screen = "add_host" /\ u.loaded = s.loaded
    <3>1. added = Added(s, h, s.focus) BY <1>1 DEF ScreenState, Added
    <3>2. u = IF InList(s, h) THEN s ELSE added OBVIOUS
    <3> HIDE DEF d, h, added, u
    <3>3. Good(added) /\ InList(added, h) /\ added.screen = "add_host" /\ added.loaded = s.loaded
      BY <1>1, <2>0, <3>1, AddedFits
    <3> QED BY <3>2, <3>3
  <2>2. r \in RequestPairing(u, h) BY <1>8 DEF AddHostActivation
  <2> HIDE DEF u, h
  <2>3. /\ Good(r.to) /\ r.about \in Host \cup {NoHost} /\ r.ask \in {"nothing", "pair"}
        /\ r.ask = "nothing" => r.to.screen = u.screen /\ r.to.loaded = u.loaded
        /\ r.ask = "pair" => /\ r.about = h /\ r.to.screen = "pair_host" /\ r.to.active.host = h
                             /\ r.to.modal = "none"
    BY <2>0, <2>1, <2>2, RequestPairingLeads
  <2> QED BY <2>0, <2>1, <2>3 DEF Leads, Follows
<1>9. CASE row = "cancel-add-host"
  <2>1. r = Then(SetScreen(s, "hosts")) BY <1>9 DEF AddHostActivation
  <2> QED BY <2>1, BackLeads
<1>10. CASE /\ row \notin {"edit-address", "edit-port", "cancel-add-host"}
            /\ ~ (row = "test-connection" /\ valid)
            /\ ~ (row = "save-host" /\ valid /\ ~ InList(s, d.address))
            /\ ~ (row = "start-pairing" /\ valid)
  <2>1. r = Then(s) BY <1>10 DEF AddHostActivation
  <2> QED BY <1>3, <2>1
<1> QED BY <1>4, <1>5, <1>6, <1>7, <1>8, <1>9, <1>10

\* The menus of the pairing page and of the page for a new host.
LEMMA MenuLeads ==
    ASSUME NEW s, Good(s), s.screen \in {"add_host", "pair_host"}, s.modal = "none",
           NEW command \in Command, NEW r \in MenuCommand(s, command)
    PROVE  Leads(s, r)
<1> DEFINE row == SelectedItem(s.menu)
<1>1. s \in ScreenState /\ Fitting(s.menu) /\ s.menu.rows = MenuOf(s.screen)
  BY DEF Good, Fits, Fitting, ScreenState
<1> HIDE DEF row
<1>2. CASE command \in {"move_up", "move_down"}
  <2> DEFINE menu == MoveSelection(s.menu, Steps(command))
             t == [s EXCEPT !.menu = menu]
  <2>1. r = Then(t) BY <1>2 DEF MenuCommand, Chooses
  <2>2. Steps(command) \in {-1, 1} BY DEF Steps
  <2>3. Fitting(menu) /\ menu.rows = s.menu.rows BY <1>1, <2>2, MoveFits
  <2> HIDE DEF menu
  <2>4. menu \in Menu BY <2>3 DEF Fitting
  <2>5. t \in ScreenState BY <1>1, <2>4, Zenon DEF ScreenState
  <2>6. /\ t.screen = s.screen /\ t.modal = s.modal /\ t.items = s.items /\ t.at = s.at /\ t.loaded = s.loaded
        /\ t.active = s.active /\ t.remembered = s.remembered /\ t.apps = s.apps /\ t.appAt = s.appAt
        /\ t.showHidden = s.showHidden /\ t.menu = menu /\ t.draft = s.draft
    BY <1>1 DEF ScreenState
  <2> HIDE DEF t
  <2>7. IF t.items = <<>> THEN t.at = 0 ELSE t.at < Len(t.items) BY <2>6 DEF Good, Fits
  <2>8. t.screen # "apps" BY <2>6
  <2>9. t.menu.rows # <<>> => t.menu.at < Len(t.menu.rows) BY <2>3, <2>6 DEF Fitting
  <2>10. Good(t) BY <2>3, <2>5, <2>6, <2>7, <2>8, <2>9, SelectionFits
  <2> QED BY <2>1, <2>6, <2>10, SameLeads DEF SameHosts
<1>3. CASE command = "back" \/ (command \in Chooses /\ row = "cancel-pairing")
  <2>1. r = And(SetScreen(s, "hosts"), IF s.screen = "pair_host" THEN "cancel" ELSE "nothing", NoHost)
    BY <1>3 DEF MenuCommand, Chooses, row
  <2>2. Good(SetScreen(s, "hosts")) /\ Follows(s, SetScreen(s, "hosts")) BY BackLeads
  <2> QED BY <2>1, <2>2 DEF And, Leads
<1>4. CASE command \in Chooses /\ row # "cancel-pairing" /\ s.screen = "add_host"
  <2>1. r \in AddHostActivation(s, row) BY <1>4 DEF MenuCommand, Chooses, row
  <2> QED BY <1>4, <2>1, AddHostLeads
<1>5. CASE /\ command \notin {"move_up", "move_down", "back"}
           /\ ~ (command \in Chooses /\ row = "cancel-pairing")
           /\ ~ (command \in Chooses /\ row # "cancel-pairing" /\ s.screen = "add_host")
  <2>1. r = Then(s) BY <1>5 DEF MenuCommand, row
  <2> QED BY <2>1, SameLeads DEF SameHosts
<1> QED BY <1>2, <1>3, <1>4, <1>5

\* Every command.
LEMMA HandledLeads ==
    ASSUME NEW s, Good(s), NEW command \in Command, NEW r \in Handled(s, command)
    PROVE  Leads(s, r) /\ (s.modal # "none" => Turns(s, r))
<1>1. s \in ScreenState /\ s.screen \in Screen /\ (s.draft.visible => s.screen = "add_host") /\ s.overlay \in BOOLEAN
  BY DEF Good, Fits, ScreenState
<1>2. CASE command = "toggle_overlay"
  <2> DEFINE t == [s EXCEPT !.overlay = ~ s.overlay]
  <2>1. r = Then(t) BY <1>2 DEF Handled
  <2>2. t \in ScreenState
    <3>1. (~ s.overlay) \in BOOLEAN OBVIOUS
    <3> QED BY <1>1, <3>1, Zenon DEF ScreenState
  <2>3. /\ t.screen = s.screen /\ t.modal = s.modal /\ t.items = s.items /\ t.at = s.at /\ t.loaded = s.loaded
        /\ t.active = s.active /\ t.remembered = s.remembered /\ t.apps = s.apps /\ t.appAt = s.appAt
        /\ t.showHidden = s.showHidden /\ t.menu = s.menu /\ t.draft = s.draft
    BY <1>1 DEF ScreenState
  <2> HIDE DEF t
  <2>4. Visible(t) = Visible(s) /\ Shows(t) = Shows(s) BY <2>3, VisibleSame
  <2>5. Good(t) BY <2>2, <2>3, <2>4, SelectionFits DEF Good, Fits
  <2>6. Turns(s, Then(t)) BY <2>3 DEF Turns, Then, SameTarget, SameHosts
  <2> QED BY <2>1, <2>3, <2>5, <2>6, SameLeads DEF SameHosts
<1>3. CASE command # "toggle_overlay" /\ s.draft.visible
  <2>1. r \in KeypadCommand(s, command) BY <1>1, <1>3 DEF Handled
  <2> QED BY <1>3, <2>1, KeypadLeads DEF Good, Fits
<1>4. CASE command # "toggle_overlay" /\ ~ s.draft.visible /\ s.modal # "none"
  <2>1. r \in ModalCommand(s, command) BY <1>4 DEF Handled
  <2> QED BY <1>4, <2>1, ModalCommandLeads
<1>5. CASE command # "toggle_overlay" /\ ~ s.draft.visible /\ s.modal = "none"
  <2>1. CASE s.screen = "hosts"
    <3>1. r \in HostsCommand(s, command) BY <1>5, <2>1 DEF Handled
    <3> QED BY <1>5, <2>1, <3>1, HostsLeads
  <2>2. CASE s.screen = "apps"
    <3>1. r \in AppsCommand(s, command) BY <1>5, <2>2 DEF Handled
    <3> QED BY <1>5, <2>2, <3>1, AppsLeads
  <2>3. CASE s.screen = "settings"
    <3>1. r \in {Then(s), Then(SetScreen(s, "hosts"))} BY <1>5, <2>3 DEF Handled
    <3> QED BY <1>5, <2>3, <3>1, BackLeads, SameLeads DEF SameHosts
  <2>4. CASE s.screen \in {"add_host", "pair_host"}
    <3>1. r \in MenuCommand(s, command) BY <1>5, <2>4 DEF Handled
    <3> QED BY <1>5, <2>4, <3>1, MenuLeads
  <2> QED BY <1>1, <2>1, <2>2, <2>3, <2>4 DEF Screen
<1> QED BY <1>2, <1>3, <1>4, <1>5

-----------------------------------------------------------------------------
(* Results.                                                                *)

\* Records of hosts, and the apps, may be others, nothing is moved: each index
\* still stands for the host it stood for.
Marked(s, t) ==
    /\ t.screen = s.screen /\ t.modal = s.modal /\ t.loaded = s.loaded /\ t.at = s.at
    /\ t.remembered = s.remembered /\ t.menu = s.menu /\ t.draft = s.draft
    /\ t.showHidden = s.showHidden
    /\ Len(t.items) = Len(s.items)
    /\ \A i \in DOMAIN s.items : t.items[i].host = s.items[i].host
    /\ t.active.host = s.active.host
    /\ ActiveLoaded(s) <=> ActiveLoaded(t)

\* Such a state is as good.
LEMMA MarkedFits ==
    ASSUME NEW s, Good(s), NEW t \in ScreenState, Marked(s, t),
           t.screen = "apps" /\ Visible(t) # {} => t.appAt < Shows(t)
    PROVE  Good(t)
<1>1. /\ s.items \in Seq(HostRecord) /\ t.items \in Seq(HostRecord) /\ Len(s.items) \in Nat
      /\ DOMAIN s.items = 1 .. Len(s.items) /\ DOMAIN t.items = 1 .. Len(t.items)
  BY DEF Good, ScreenState
<1>2. s.items = <<>> <=> t.items = <<>> BY <1>1 DEF Marked
<1>3. InList(s, s.active.host) => InList(t, s.active.host) BY <1>1 DEF InList, Marked
<1> QED BY <1>2, <1>3 DEF Good, Fits, Marked

\* The apps are the same, or none.
AppsKept(s, t) ==
    \/ t.apps = s.apps /\ t.appAt \in {s.appAt, 0}
    \/ t.apps = <<>>

\* With the apps kept or none, the selected app is one of them.
LEMMA KeptFits ==
    ASSUME NEW s, Good(s), NEW t \in ScreenState, Marked(s, t), AppsKept(s, t)
    PROVE  Good(t)
<1>1. t.apps = <<>> => Visible(t) = {} BY DEF Visible
<1>2. t.apps = s.apps => Visible(t) = Visible(s) /\ Shows(t) = Shows(s) BY VisibleSame DEF Marked
<1>3. s.apps \in Seq(AppRecord) BY DEF Good, ScreenState
<1>4. Visible(s) # {} => Shows(s) > 0 /\ Shows(s) \in Nat BY <1>3, Shown
<1>5. t.screen = "apps" /\ Visible(t) # {} => t.appAt < Shows(t)
  BY <1>1, <1>2, <1>4 DEF AppsKept, Good, Fits, Marked
<1> QED BY <1>5, MarkedFits

\* What is marked twice is marked.
LEMMA MarkedTwice ==
    ASSUME NEW s, Good(s), NEW t, Good(t), NEW u, Marked(s, t), Marked(t, u)
    PROVE  Marked(s, u)
<1>1. DOMAIN s.items = DOMAIN t.items
  <2>1. s.items \in Seq(HostRecord) /\ t.items \in Seq(HostRecord) BY DEF Good, ScreenState
  <2> QED BY <2>1 DEF Marked
<1> QED BY <1>1 DEF Marked

\* The selected host is the same.
LEMMA MarkedSelects ==
    ASSUME NEW s, Good(s), NEW t, Good(t), Marked(s, t)
    PROVE  /\ SelectedHost(t).host = SelectedHost(s).host
           /\ SelectedHost(t) = NoRecord <=> SelectedHost(s) = NoRecord
<1>1. /\ s.items \in Seq(HostRecord) /\ t.items \in Seq(HostRecord) /\ s.at \in Nat
      /\ s.active \in HostRecord \cup {NoRecord} /\ t.active \in HostRecord \cup {NoRecord}
  BY DEF Good, ScreenState
<1>2. \A record \in HostRecord : record # NoRecord BY ScreensAssumption DEF HostRecord, NoRecord
<1>3. CASE s.screen \in {"apps", "pair_host"} /\ ActiveLoaded(s)
  BY <1>3 DEF SelectedHost, Marked, ActiveLoaded
<1>4. CASE ~ (s.screen \in {"apps", "pair_host"} /\ ActiveLoaded(s)) /\ s.at < Len(s.items)
  <2>1. s.at + 1 \in DOMAIN s.items /\ s.at + 1 \in DOMAIN t.items BY <1>1, <1>4 DEF Marked
  <2>2. SelectedHost(s) = s.items[s.at + 1] /\ SelectedHost(t) = t.items[s.at + 1]
    BY <1>4 DEF SelectedHost, Marked
  <2>3. s.items[s.at + 1] \in HostRecord /\ t.items[s.at + 1] \in HostRecord BY <1>1, <2>1
  <2> QED BY <1>2, <2>1, <2>2, <2>3 DEF Marked
<1>5. CASE ~ (s.screen \in {"apps", "pair_host"} /\ ActiveLoaded(s)) /\ ~ (s.at < Len(s.items))
  BY <1>5 DEF SelectedHost, Marked
<1> QED BY <1>3, <1>4, <1>5

\* A record of the list is replaced by one of the same host.
LEMMA ItemMarks ==
    ASSUME NEW s, Good(s), NEW k \in DOMAIN s.items, NEW record \in HostRecord,
           record.host = s.items[k].host, NEW t, t = [s EXCEPT !.items[k] = record]
    PROVE  Good(t) /\ Marked(s, t) /\ t.apps = s.apps /\ t.appAt = s.appAt
<1> DEFINE items == [s.items EXCEPT ![k] = record]
<1>1. s \in ScreenState /\ s.items \in Seq(HostRecord) BY DEF Good, ScreenState
<1>2. /\ items \in Seq(HostRecord) /\ Len(items) = Len(s.items)
      /\ \A i \in DOMAIN s.items : items[i].host = s.items[i].host
  <2>1. items \in [1 .. Len(s.items) -> HostRecord] /\ Len(s.items) \in Nat BY <1>1
  <2>2. \A i \in DOMAIN s.items : items[i].host = s.items[i].host OBVIOUS
  <2> DEFINE n == Len(s.items)
  <2> HIDE DEF items, n
  <2>3. n \in Nat /\ items \in [1 .. n -> HostRecord] BY <2>1 DEF n
  <2>4. items \in Seq(HostRecord) BY <2>3, SeqDef
  <2>5. Len(items) = n BY <2>3, <2>4
  <2> QED BY <2>2, <2>4, <2>5 DEF n
<1>3. t = [s EXCEPT !.items = items] BY <1>1 DEF ScreenState
<1> HIDE DEF items
<1>4. t \in ScreenState BY <1>1, <1>2, <1>3, Zenon DEF ScreenState
<1>5. Marked(s, t) /\ t.apps = s.apps /\ t.appAt = s.appAt
  BY <1>1, <1>2, <1>3 DEF ScreenState, Marked, ActiveLoaded
<1> QED BY <1>4, <1>5, KeptFits DEF AppsKept

\* So is the record of the active host.
LEMMA ActiveMarks ==
    ASSUME NEW s, Good(s), ActiveLoaded(s), NEW record \in HostRecord, record.host = s.active.host,
           NEW t, t = [s EXCEPT !.active = record]
    PROVE  Good(t) /\ Marked(s, t) /\ t.apps = s.apps /\ t.appAt = s.appAt
<1>1. s \in ScreenState /\ record \in HostRecord \cup {NoRecord} BY DEF Good
<1>2. t \in ScreenState BY <1>1, Zenon DEF ScreenState
<1>3. record # NoRecord BY ScreensAssumption DEF HostRecord, NoRecord
<1>4. Marked(s, t) /\ t.apps = s.apps /\ t.appAt = s.appAt
  BY <1>1, <1>3 DEF ScreenState, Marked, ActiveLoaded
<1> QED BY <1>2, <1>4, KeptFits DEF AppsKept

\* The record that is put for a host.
LEMMA PutMarks ==
    ASSUME NEW s, Good(s), NEW h \in Host, NEW record \in HostRecord, record.host = h
    PROVE  /\ Good(Put(s, h, record)) /\ Marked(s, Put(s, h, record))
           /\ Put(s, h, record).apps = s.apps /\ Put(s, h, record).appAt = s.appAt
<1>1. s.items \in Seq(HostRecord) BY DEF Good, ScreenState
<1>2. CASE InList(s, h)
  <2> DEFINE k == IndexOf(s, h) + 1
  <2>1. k \in DOMAIN s.items /\ s.items[k].host = h BY <1>1, <1>2, IndexFits
  <2>2. Put(s, h, record) = [s EXCEPT !.items[k] = record] BY <1>2 DEF Put
  <2> HIDE DEF k
  <2> QED BY <2>1, <2>2, ItemMarks
<1>3. CASE ~ InList(s, h) /\ ActiveLoaded(s) /\ s.active.host = h
  <2>1. Put(s, h, record) = [s EXCEPT !.active = record] BY <1>3 DEF Put
  <2> QED BY <1>3, <2>1, ActiveMarks
<1>4. CASE ~ InList(s, h) /\ ~ (ActiveLoaded(s) /\ s.active.host = h)
  <2>1. Put(s, h, record) = s BY <1>4 DEF Put
  <2> QED BY <2>1 DEF Marked
<1> QED BY <1>2, <1>3, <1>4

\* The record that is found is one of the host.
LEMMA RecordFits ==
    ASSUME NEW s, Good(s), NEW h \in Host, Found(s, h)
    PROVE  RecordOf(s, h) \in HostRecord /\ RecordOf(s, h).host = h
<1>1. s.items \in Seq(HostRecord) /\ s.active \in HostRecord \cup {NoRecord} BY DEF Good, ScreenState
<1>2. CASE InList(s, h) BY <1>1, <1>2, IndexFits DEF RecordOf
<1>3. CASE ~ InList(s, h) BY <1>1, <1>3 DEF RecordOf, Found, ActiveLoaded
<1> QED BY <1>2, <1>3

\* What a host says of itself.
LEMMA ServerInfoMarks ==
    ASSUME NEW s, Good(s), NEW h \in Host, NEW known \in BOOLEAN, NEW paired \in BOOLEAN
    PROVE  Good(ServerInfo(s, h, known, paired)) /\ Marked(s, ServerInfo(s, h, known, paired))
<1> DEFINE old == RecordOf(s, h)
           record == [old EXCEPT !.up = TRUE, !.paired = IF known THEN paired ELSE old.paired]
           told == Put(s, h, record)
           apps == IF InList(s, h) THEN told.apps ELSE <<>>
           t == [told EXCEPT !.appAt = 0, !.apps = apps]
<1>1. CASE ~ Found(s, h) BY <1>1 DEF ServerInfo, Marked
<1>2. CASE Found(s, h)
  <2>1. old \in HostRecord /\ old.host = h BY <1>2, RecordFits
  <2> HIDE DEF old
  <2>2. record \in HostRecord /\ record.host = h BY <2>1 DEF HostRecord
  <2>3. ServerInfo(s, h, known, paired) = IF known /\ ~ paired THEN t ELSE told
    <3>1. record = [RecordOf(s, h) EXCEPT !.up = TRUE, !.paired = IF known THEN paired ELSE @]
      BY <2>1 DEF old, HostRecord
    <3>2. told \in ScreenState => t = [told EXCEPT !.appAt = 0, !.apps = IF InList(s, h) THEN @ ELSE <<>>]
      BY DEF ScreenState
    <3>3. told \in ScreenState
      <4> HIDE DEF record
      <4> QED BY <2>2, PutMarks DEF Good
    <3> HIDE DEF record
    <3> QED BY <1>2, <3>1, <3>2, <3>3 DEF ServerInfo
  <2> HIDE DEF record
  <2>4. Good(told) /\ Marked(s, told) BY <2>2, PutMarks
  <2> HIDE DEF told
  <2>5. told \in ScreenState /\ apps \in Seq(AppRecord) BY <2>4 DEF Good, ScreenState
  <2>6. apps \in {told.apps, <<>>} OBVIOUS
  <2> HIDE DEF apps
  <2>7. t \in ScreenState BY <2>5, Zenon DEF ScreenState
  <2>8. Marked(told, t) /\ t.apps = apps /\ t.appAt = 0 BY <2>5 DEF ScreenState, Marked, ActiveLoaded
  <2> HIDE DEF t
  <2>9. Good(t) BY <2>4, <2>6, <2>7, <2>8, KeptFits DEF AppsKept
  <2> QED BY <2>3, <2>4, <2>8, <2>9, MarkedTwice
<1> QED BY <1>1, <1>2

\* A host does not answer.
LEMMA OfflineMarks ==
    ASSUME NEW s, Good(s), NEW h \in Host
    PROVE  Good(Offline(s, h)) /\ Marked(s, Offline(s, h))
<1>1. CASE ~ InList(s, h) BY <1>1 DEF Offline, Marked
<1>2. CASE InList(s, h)
  <2> DEFINE record == [RecordOf(s, h) EXCEPT !.up = FALSE]
  <2>1. RecordOf(s, h) \in HostRecord /\ RecordOf(s, h).host = h BY <1>2, RecordFits DEF Found
  <2>2. record \in HostRecord /\ record.host = h BY <2>1 DEF HostRecord
  <2>3. Offline(s, h) = Put(s, h, record) BY <1>2 DEF Offline
  <2> HIDE DEF record
  <2> QED BY <2>2, <2>3, PutMarks
<1> QED BY <1>1, <1>2

\* Any answer.
LEMMA AnsweredMarks ==
    ASSUME NEW s, Good(s), NEW h \in Host, NEW t \in Answered(s, h)
    PROVE  Good(t) /\ Marked(s, t)
BY ServerInfoMarks DEF Answered

\* The outcomes of a probe.
LEMMA ProbedMarks ==
    ASSUME NEW s, Good(s), NEW h \in Host, NEW t \in Probed(s, h)
    PROVE  Good(t) /\ Marked(s, t)
BY AnsweredMarks, OfflineMarks DEF Probed

\* The answer to a test.
LEMMA TestResultMarks ==
    ASSUME NEW s, Good(s), NEW up \in BOOLEAN
    PROVE  Good(TestResult(s, up)) /\ Marked(s, TestResult(s, up))
<1>1. /\ s \in ScreenState /\ s.items \in Seq(HostRecord) /\ s.at \in Nat
      /\ s.active \in HostRecord \cup {NoRecord}
  BY DEF Good, ScreenState
<1>2. CASE s.at < Len(s.items)
  <2> DEFINE k == s.at + 1
             record == [s.items[k] EXCEPT !.up = up]
  <2>1. k \in DOMAIN s.items /\ s.items[k] \in HostRecord BY <1>1, <1>2
  <2>2. record \in HostRecord /\ record.host = s.items[k].host BY <2>1 DEF HostRecord
  <2>3. TestResult(s, up) = [s EXCEPT !.items[k] = record] BY <1>1, <1>2, <2>1 DEF TestResult, ScreenState
  <2> HIDE DEF k, record
  <2> QED BY <2>1, <2>2, <2>3, ItemMarks
<1>3. CASE ~ (s.at < Len(s.items)) /\ ActiveLoaded(s)
  <2> DEFINE record == [s.active EXCEPT !.up = up]
  <2>1. s.active \in HostRecord BY <1>1, <1>3 DEF ActiveLoaded
  <2>2. record \in HostRecord /\ record.host = s.active.host BY <2>1 DEF HostRecord
  <2>3. TestResult(s, up) = [s EXCEPT !.active = record] BY <1>1, <1>3 DEF TestResult, ScreenState
  <2> HIDE DEF record
  <2> QED BY <1>3, <2>2, <2>3, ActiveMarks
<1>4. CASE ~ (s.at < Len(s.items)) /\ ~ ActiveLoaded(s)
  BY <1>4 DEF TestResult, Marked
<1> QED BY <1>2, <1>3, <1>4

\* A test of a host.
LEMMA TestedMarks ==
    ASSUME NEW s, Good(s), NEW h \in Host, NEW t \in Tested(s, h)
    PROVE  Good(t) /\ Marked(s, t)
<1>1. ASSUME NEW u, Good(u), Marked(s, u), NEW up \in BOOLEAN, t = TestResult(u, up)
      PROVE  Good(t) /\ Marked(s, t)
  <2>1. Good(t) /\ Marked(u, t) BY <1>1, TestResultMarks
  <2> QED BY <1>1, <2>1, MarkedTwice
<1>2. CASE t = TestResult(Offline(s, h), FALSE)
  <2>1. Good(Offline(s, h)) /\ Marked(s, Offline(s, h)) BY OfflineMarks
  <2> QED BY <1>1, <1>2, <2>1
<1>3. ASSUME NEW u \in Answered(s, h), t = TestResult(u, TRUE)
      PROVE  Good(t) /\ Marked(s, t)
  <2>1. Good(u) /\ Marked(s, u) BY AnsweredMarks
  <2> QED BY <1>1, <1>3, <2>1
<1> QED BY <1>2, <1>3 DEF Tested

\* What is loaded or arrives is a list.
LEMMA ListsAreSequences == HostLists \subseteq Seq(HostRecord) /\ AppLists \subseteq Seq(AppRecord)
<1>1. ASSUME NEW S, NEW list \in Lists(S) PROVE list \in Seq(S)
  <2>1. PICK n \in 0 .. Longest : list \in [1 .. n -> S] BY DEF Lists
  <2>2. n \in Nat BY ScreensAssumption
  <2> QED BY <2>1, <2>2, SeqDef
<1> QED BY <1>1 DEF HostLists, AppLists

\* The apps of the selected host are shown.
LEMMA EnterAppsFits ==
    ASSUME NEW s, Good(s), s.screen = "hosts", NEW hiddenToo \in BOOLEAN, NEW t \in EnterApps(s, hiddenToo)
    PROVE  t = s \/ (Good(t) /\ t.screen = "apps" /\ t.modal = "none")
<1> DEFINE record == s.items[s.at + 1]
<1>1. /\ s \in ScreenState /\ s.items \in Seq(HostRecord) /\ s.at \in Nat
      /\ s.items # <<>> => s.at < Len(s.items)
  BY DEF Good, Fits, ScreenState
<1>2. CASE s.items = <<>> \/ ~ record.up \/ ~ record.paired BY <1>2 DEF EnterApps
<1>3. CASE ~ (s.items = <<>> \/ ~ record.up \/ ~ record.paired)
  <2>1. PICK apps \in AppLists :
          t = SetScreen([CopyToActive(s, record, apps) EXCEPT !.showHidden = hiddenToo, !.appAt = 0], "apps")
    BY <1>3 DEF EnterApps
  <2> DEFINE copied == [s EXCEPT !.active = record, !.apps = apps, !.remembered = record.host]
             u == [copied EXCEPT !.showHidden = hiddenToo, !.appAt = 0]
  <2>2. s.at + 1 \in DOMAIN s.items BY <1>1, <1>3
  <2>3. record \in HostRecord BY <1>1, <2>2
  <2>4. t = SetScreen(u, "apps") BY <2>1 DEF CopyToActive
  <2> DEFINE h == record.host
  <2>5. /\ apps \in Seq(AppRecord) /\ record \in HostRecord \cup {NoRecord} /\ h \in Host \cup {NoHost}
        /\ record # NoRecord
    BY <2>3, ListsAreSequences, ScreensAssumption DEF HostRecord, NoRecord
  <2>6. s.items[s.at + 1].host = h OBVIOUS
  <2>7. copied = [s EXCEPT !.active = record, !.apps = apps, !.remembered = h] OBVIOUS
  <2>8. record.host = h OBVIOUS
  <2> HIDE DEF record, h, copied
  <2>9. copied \in ScreenState BY <1>1, <2>5, <2>7, Zenon DEF ScreenState
  <2>10. /\ copied.screen = "hosts" /\ copied.modal = s.modal /\ copied.items = s.items /\ copied.at = s.at
         /\ copied.loaded = s.loaded /\ copied.active = record /\ copied.remembered = h
         /\ copied.menu = s.menu /\ copied.draft = s.draft
    BY <1>1, <2>7 DEF ScreenState
  <2>11. u \in ScreenState BY <2>9, Zenon DEF ScreenState
  <2>12. /\ u.screen = "hosts" /\ u.modal = s.modal /\ u.items = s.items /\ u.at = s.at
         /\ u.loaded = s.loaded /\ u.active = record /\ u.remembered = h
         /\ u.menu = s.menu /\ u.draft = s.draft
    BY <2>9, <2>10 DEF ScreenState
  <2> HIDE DEF u
  <2>13. Good(u) BY <2>11, <2>12 DEF Good, Fits
  <2>14. "apps" \in Screen \ {u.screen} BY <2>12 DEF Screen
  <2>15. ActiveLoaded(u) /\ u.remembered = u.active.host /\ u.items[u.at + 1].host = u.active.host
    BY <2>5, <2>6, <2>8, <2>12 DEF ActiveLoaded
  <2>16. Good(SetScreen(u, "apps")) /\ SetScreen(u, "apps").screen = "apps"
         /\ SetScreen(u, "apps").modal = "none"
    BY <2>12, <2>13, <2>14, <2>15, SetScreenFits
  <2> QED BY <2>4, <2>16
<1> QED BY <1>2, <1>3

\* A host whose apps are asked for answers, or does not.
LEMMA BrowsedFits ==
    ASSUME NEW s, Good(s), s.screen = "hosts", NEW h \in Host, NEW hiddenToo \in BOOLEAN,
           NEW t \in Browsed(s, h, hiddenToo)
    PROVE  Good(t) /\ (Marked(s, t) \/ (t.screen = "apps" /\ t.modal = "none"))
<1>1. CASE t = Offline(s, h) BY <1>1, OfflineMarks
<1>2. CASE \E u \in Answered(s, h) :
             t \in IF SelectedHost(u).paired THEN EnterApps(u, hiddenToo) ELSE {u}
  <2>1. PICK u \in Answered(s, h) : t = u \/ t \in EnterApps(u, hiddenToo) BY <1>2
  <2>2. Good(u) /\ Marked(s, u) BY AnsweredMarks
  <2>3. u.screen = "hosts" BY <2>2 DEF Marked
  <2>4. t = u \/ (Good(t) /\ t.screen = "apps" /\ t.modal = "none") BY <2>1, <2>2, <2>3, EnterAppsFits
  <2> QED BY <2>2, <2>4
<1>3. \/ t = Offline(s, h)
      \/ \E u \in Answered(s, h) :
             t \in IF SelectedHost(u).paired THEN EnterApps(u, hiddenToo) ELSE {u}
  BY DEF Browsed
<1> QED BY <1>1, <1>2, <1>3

\* What a command asks for marks hosts, or shows the apps of one.
LEMMA CarriedFits ==
    ASSUME NEW s, NEW r, Good(s), Leads(s, r), NEW t \in Carried(r.to, r.ask, r.about)
    PROVE  /\ Good(t) /\ Follows(s, t)
           /\ Marked(r.to, t) \/ (t.screen = "apps" /\ t.modal = "none" /\ s.screen = "hosts")
           /\ r.ask \in {"nothing", "pair", "cancel"} => t = r.to
<1>1. Good(r.to) /\ Follows(s, r.to) BY DEF Leads
<1>2. ASSUME Marked(r.to, t) PROVE Follows(s, t) BY <1>1, <1>2 DEF Marked, Follows
<1>3. CASE r.ask = "test"
  <2>1. t \in Tested(r.to, r.about) /\ r.about \in Host BY <1>3 DEF Carried, Leads
  <2>2. Good(t) /\ Marked(r.to, t) BY <1>1, <2>1, TestedMarks
  <2> QED BY <1>2, <1>3, <2>2
<1>4. CASE r.ask \in {"browse", "browse_hidden"}
  <2>1. t \in Browsed(r.to, r.about, r.ask = "browse_hidden") /\ r.about \in Host BY <1>4 DEF Carried, Leads
  <2>2. s.screen = "hosts" /\ r.to.screen = "hosts" BY <1>4 DEF Leads, SameHosts
  <2>3. (r.ask = "browse_hidden") \in BOOLEAN OBVIOUS
  <2>4. Good(t) /\ (Marked(r.to, t) \/ (t.screen = "apps" /\ t.modal = "none"))
    BY <1>1, <2>1, <2>2, <2>3, BrowsedFits
  <2>5. t.screen = "apps" => Follows(s, t) BY DEF Follows
  <2> QED BY <1>2, <1>4, <2>2, <2>4, <2>5
<1>5. CASE r.ask \in {"nothing", "pair", "cancel"}
  <2>1. t = r.to BY <1>5 DEF Carried
  <2> QED BY <1>1, <2>1 DEF Marked
<1> QED BY <1>3, <1>4, <1>5 DEF Leads

\* Whatever an attempt results in, the page shows the same host, or it was the
\* page of the attempt: then the list comes back with the host selected.
LEMMA PairingResultFits ==
    ASSUME NEW s, Good(s), s.screen = "pair_host", NEW h \in Host, s.active.host = h,
           NEW success \in BOOLEAN, NEW t, t = PairingResult(s, h, success)
    PROVE  /\ Good(t) /\ (success \/ Marked(s, t))
           /\ success => /\ t.screen = "hosts" /\ t.modal = "none"
                         /\ IF t.loaded THEN InList(t, h) /\ t.items[t.at + 1].host = h
                            ELSE t.remembered = h
<1> DEFINE old == RecordOf(s, h)
           record == [old EXCEPT !.paired = success, !.up = old.up \/ success]
           told == Put(s, h, record)
           k == IndexOf(s, h)
           listed == [told EXCEPT !.at = k, !.focus = "grid", !.remembered = h]
           kept == [told EXCEPT !.remembered = h]
           u == IF s.loaded /\ InList(s, h) THEN listed ELSE IF s.loaded THEN told ELSE kept
<1>1. /\ s \in ScreenState /\ ActiveLoaded(s) /\ Found(s, h) /\ (s.loaded => InList(s, h))
      /\ s.items \in Seq(HostRecord) /\ s.remembered = h
  BY DEF Good, Fits, Found, ScreenState
<1>2. old \in HostRecord /\ old.host = h BY <1>1, RecordFits
<1>3. t = IF ~ success THEN told ELSE SetScreen(u, "hosts")
  <2>1. record = [RecordOf(s, h) EXCEPT !.paired = success, !.up = @ \/ success]
    BY <1>2 DEF old, HostRecord
  <2> HIDE DEF record
  <2> QED BY <1>1, <2>1 DEF PairingResult
<1> HIDE DEF old
<1>4. record \in HostRecord /\ record.host = h BY <1>2 DEF HostRecord
<1> HIDE DEF record
<1>5. Good(told) /\ Marked(s, told) BY <1>4, PutMarks
<1> HIDE DEF told
<1>6. told \in ScreenState /\ told.screen = "pair_host" /\ told.remembered = h /\ told.active.host = h
      /\ told.loaded = s.loaded
  BY <1>1, <1>5 DEF Good, Marked
<1>7. InList(s, h) => /\ k \in Nat /\ k < Len(told.items) /\ told.items # <<>>
                      /\ told.items[k + 1].host = h
  <2>1. SUFFICES ASSUME InList(s, h)
        PROVE  k \in Nat /\ k < Len(told.items) /\ told.items # <<>> /\ told.items[k + 1].host = h
    OBVIOUS
  <2>2. /\ k \in Nat /\ k < Len(s.items) /\ k + 1 \in DOMAIN s.items /\ s.items[k + 1].host = h
    BY <1>1, <2>1, IndexFits
  <2> HIDE DEF k
  <2>3. Len(told.items) = Len(s.items) /\ told.items[k + 1].host = s.items[k + 1].host
    BY <1>5, <2>2 DEF Marked
  <2>4. told.items \in Seq(HostRecord) BY <1>6 DEF ScreenState
  <2> QED BY <2>2, <2>3, <2>4
<1> HIDE DEF k
<1>8. ASSUME InList(s, h)
      PROVE  /\ Good(listed) /\ listed.screen = "pair_host" /\ listed.remembered = h
             /\ listed.loaded = s.loaded /\ listed.items # <<>> /\ listed.items[listed.at + 1].host = h
  <2>1. k \in Nat /\ k < Len(told.items) /\ told.items # <<>> /\ told.items[k + 1].host = h BY <1>7, <1>8
  <2>2. listed \in ScreenState
    <3>1. h \in Host \cup {NoHost} OBVIOUS
    <3> QED BY <1>6, <2>1, <3>1, Zenon DEF ScreenState
  <2>3. /\ listed.screen = told.screen /\ listed.modal = told.modal /\ listed.items = told.items
        /\ listed.at = k /\ listed.loaded = told.loaded /\ listed.active = told.active
        /\ listed.remembered = h /\ listed.menu = told.menu /\ listed.draft = told.draft
    BY <1>6 DEF ScreenState
  <2> HIDE DEF listed
  <2>4. Good(listed) BY <1>5, <1>6, <2>1, <2>2, <2>3 DEF Good, Fits, ActiveLoaded, InList
  <2> QED BY <1>6, <2>1, <2>3, <2>4
<1>9. /\ Good(kept) /\ kept.screen = "pair_host" /\ kept.remembered = h /\ kept.loaded = s.loaded
  <2>1. kept = told BY <1>6 DEF ScreenState
  <2> QED BY <1>5, <1>6, <2>1
<1>10. /\ Good(u) /\ u.screen = "pair_host" /\ u.remembered = h /\ u.loaded = s.loaded
       /\ s.loaded => u.items # <<>> /\ u.items[u.at + 1].host = h
  <2> HIDE DEF listed, kept
  <2>1. CASE s.loaded BY <1>1, <1>8, <2>1
  <2>2. CASE ~ s.loaded BY <1>9, <2>2
  <2> QED BY <2>1, <2>2
<1> HIDE DEF u
<1>11. "hosts" \in Screen \ {u.screen} BY <1>10 DEF Screen
<1> DEFINE v == SetScreen(u, "hosts")
<1>12. /\ Good(v) /\ v.screen = "hosts" /\ v.modal = "none" /\ v.items = u.items /\ v.loaded = u.loaded
       /\ (u.items # <<>> => v.at = u.at) /\ v.remembered = u.remembered
  BY <1>10, <1>11, SetScreenFits
<1> HIDE DEF v
<1>13. CASE success
  <2>1. t = v BY <1>3, <1>13 DEF v
  <2>2. v.loaded => InList(v, h) /\ v.items[v.at + 1].host = h
    <3>1. SUFFICES ASSUME v.loaded PROVE InList(v, h) /\ v.items[v.at + 1].host = h OBVIOUS
    <3>2. v.items # <<>> /\ v.items[v.at + 1].host = h BY <1>10, <1>12, <3>1
    <3>3. v.items \in Seq(HostRecord) /\ v.at \in Nat /\ v.at < Len(v.items)
      BY <1>12, <3>2 DEF Good, Fits, ScreenState
    <3>4. v.at + 1 \in DOMAIN v.items BY <3>3
    <3> QED BY <3>2, <3>4 DEF InList
  <2> QED BY <1>10, <1>12, <1>13, <2>1, <2>2
<1>14. CASE ~ success BY <1>3, <1>5, <1>14
<1> QED BY <1>13, <1>14

\* A host that was found is marked, or comes after the others.
LEMMA DiscoveredFits ==
    ASSUME NEW s, Good(s), s.screen = "hosts", s.loaded, NEW h \in Host, NEW t, t = Discovered(s, h)
    PROVE  /\ Good(t)
           /\ \/ Marked(s, t)
              \/ /\ t.screen = "hosts" /\ t.loaded /\ t.at = s.at /\ t.modal = s.modal
                 /\ t.items = Append(s.items, Made(h))
<1>1. s \in ScreenState /\ s.items \in Seq(HostRecord) /\ s.at \in Nat /\ s.focus \in {"toolbar", "grid"}
  BY DEF Good, ScreenState
<1>2. CASE InList(s, h)
  <2> DEFINE record == [RecordOf(s, h) EXCEPT !.up = TRUE]
  <2>1. RecordOf(s, h) \in HostRecord /\ RecordOf(s, h).host = h BY <1>2, RecordFits DEF Found
  <2>2. record \in HostRecord /\ record.host = h BY <2>1 DEF HostRecord
  <2>3. t = Put(s, h, record) BY <1>2 DEF Discovered
  <2> HIDE DEF record
  <2> QED BY <2>2, <2>3, PutMarks
<1>3. CASE ~ InList(s, h)
  <2> DEFINE items == Append(s.items, Made(h))
             focus == IF s.items = <<>> THEN "grid" ELSE s.focus
             u == [s EXCEPT !.items = items, !.loaded = TRUE, !.focus = focus]
  <2>1. t = u
    <3>1. u = [s EXCEPT !.items = Append(@, Made(h)), !.loaded = TRUE,
                        !.focus = IF s.items = <<>> /\ s.screen = "hosts" THEN "grid" ELSE @]
      BY <1>1 DEF ScreenState
    <3> QED BY <1>3, <3>1 DEF Discovered
  <2>2. Made(h) \in HostRecord BY DEF Made, HostRecord
  <2>3. items \in Seq(HostRecord) /\ Len(items) = Len(s.items) + 1 /\ Len(s.items) \in Nat /\ items # <<>>
    BY <1>1, <2>2
  <2>4. focus \in {"toolbar", "grid"} BY <1>1
  <2>5. items = Append(s.items, Made(h)) OBVIOUS
  <2> HIDE DEF items, focus
  <2>6. u \in ScreenState BY <1>1, <2>3, <2>4, Zenon DEF ScreenState
  <2>7. /\ u.screen = "hosts" /\ u.modal = s.modal /\ u.items = items /\ u.at = s.at /\ u.loaded
        /\ u.menu = s.menu /\ u.draft = s.draft
    BY <1>1 DEF ScreenState
  <2> HIDE DEF u
  <2>8. u.at < Len(items)
    <3>1. IF s.items = <<>> THEN s.at = 0 ELSE s.at < Len(s.items) BY DEF Good, Fits
    <3> QED BY <1>1, <2>3, <2>7, <3>1
  <2>9. Good(u) BY <2>3, <2>6, <2>7, <2>8 DEF Good, Fits
  <2> QED BY <2>1, <2>5, <2>7, <2>9
<1> QED BY <1>2, <1>3

\* What is known of the page of apps when only its apps differ.
AppsOnly(s, t) ==
    /\ t.screen = s.screen /\ t.modal = s.modal /\ t.loaded = s.loaded /\ t.at = s.at
    /\ t.items = s.items /\ t.remembered = s.remembered /\ t.menu = s.menu /\ t.draft = s.draft
    /\ t.active.host = s.active.host /\ ActiveLoaded(t)

\* With its selection clamped, such a page is as good.
LEMMA ClampedAppsFit ==
    ASSUME NEW s, Good(s), s.screen = "apps", NEW u \in ScreenState, AppsOnly(s, u),
           NEW t, t = ClampApp(u)
    PROVE  /\ Good(t) /\ AppsOnly(s, t) /\ t.apps = u.apps /\ Visible(t) = Visible(u)
           /\ Visible(u) # {} /\ u.appAt < Shows(u) => t = u
<1>1. AppsHost(u) BY DEF AppsHost, AppsOnly
<1>2. /\ t \in ScreenState /\ SameButApp(u, t)
      /\ Visible(u) # {} => t.appAt < Shows(u)
      /\ Visible(u) # {} /\ u.appAt < Shows(u) => t = u
  BY <1>1, ClampAppFits
<1>3. Visible(t) = Visible(u) /\ Shows(t) = Shows(u) BY <1>2, VisibleSame DEF SameButApp
<1>4. AppsOnly(s, t) BY <1>2 DEF AppsOnly, SameButApp, ActiveLoaded
<1>5. Good(t) BY <1>2, <1>3, <1>4 DEF Good, Fits, AppsOnly
<1> QED BY <1>2, <1>3, <1>4, <1>5 DEF SameButApp

\* The app at a place is the one that has it.
LEMMA AppAtPlace ==
    ASSUME NEW s, s.apps \in Seq(AppRecord), NEW k \in Visible(s)
    PROVE  AppAt(s, Place(s, k)) = s.apps[k].app
<1> DEFINE i == CHOOSE j \in Visible(s) : Place(s, j) = Place(s, k)
<1>1. i \in Visible(s) /\ Place(s, i) = Place(s, k) OBVIOUS
<1>2. AppAt(s, Place(s, k)) = s.apps[i].app BY DEF AppAt, IndexAt
<1> HIDE DEF i
<1>3. i = k BY <1>1, Shown
<1> QED BY <1>2, <1>3

\* The selection is restored with the app it stood for, if that is still shown.
LEMMA RestoreFits ==
    ASSUME NEW s, Good(s), s.screen = "apps", NEW u \in ScreenState, AppsOnly(s, u), NEW id,
           NEW t, t = Restore(u, id)
    PROVE  /\ Good(t) /\ AppsOnly(s, t)
           /\ \/ SelectedApp(t) = id
              \/ \A i \in Visible(t) : t.apps[i].app # id
<1> DEFINE those == {i \in Visible(u) : u.apps[i].app = id}
           k == CHOOSE i \in those : TRUE
           at == Place(u, k)
           v == [u EXCEPT !.appAt = at]
<1>1. u.apps \in Seq(AppRecord) BY DEF ScreenState
<1>2. CASE those = {}
  <2>1. t = ClampApp(u) BY <1>2 DEF Restore
  <2>2. Good(t) /\ AppsOnly(s, t) /\ t.apps = u.apps /\ Visible(t) = Visible(u) BY <2>1, ClampedAppsFit
  <2> QED BY <1>2, <2>2
<1>3. CASE those # {}
  <2>1. k \in Visible(u) /\ u.apps[k].app = id BY <1>3
  <2>2. t = ClampApp(v) BY <1>3 DEF Restore
  <2> HIDE DEF k
  <2>3. at \in Nat /\ at < Shows(u) /\ Shows(u) \in Nat BY <1>1, <2>1, Shown
  <2>4. AppAt(u, at) = id BY <1>1, <2>1, AppAtPlace
  <2> HIDE DEF at
  <2>5. v \in ScreenState BY <2>3, Zenon DEF ScreenState
  <2>6. /\ AppsOnly(s, v) /\ v.apps = u.apps /\ v.showHidden = u.showHidden /\ v.appAt = at
    BY DEF ScreenState, AppsOnly, ActiveLoaded
  <2> HIDE DEF v
  <2>7. Visible(v) = Visible(u) /\ Shows(v) = Shows(u) /\ AppAt(v, at) = AppAt(u, at) BY <2>6, VisibleSame
  <2>8. Good(t) /\ AppsOnly(s, t) /\ t = v BY <2>1, <2>2, <2>3, <2>5, <2>6, <2>7, ClampedAppsFit
  <2>9. Least(v.appAt, Shows(v) - 1) = at BY <2>3, <2>6, <2>7 DEF Least
  <2>10. AppsHost(v) BY <2>6 DEF AppsHost, AppsOnly
  <2>11. SelectedApp(v) = AppAt(v, at) BY <2>1, <2>7, <2>9, <2>10 DEF SelectedApp
  <2> QED BY <2>4, <2>7, <2>8, <2>11
<1> QED BY <1>2, <1>3

\* A list of apps that arrives, or the refusal to send one.
LEMMA AppListFits ==
    ASSUME Good(state), AppListArrives
    PROVE  /\ Good(state') /\ AppsOnly(state, state') /\ state.screen = "apps"
           /\ \/ SelectedApp(state') = SelectedApp(state)
              \/ \A i \in Visible(state') : state'.apps[i].app # SelectedApp(state)
<1> DEFINE s == state
           t == state'
<1>1. s \in ScreenState /\ s.screen = "apps" /\ ActiveLoaded(s) /\ s.active \in HostRecord \cup {NoRecord}
  BY DEF AppListArrives, AppsHost, Good, ScreenState
<1>2. CASE \E list \in AppLists : t = Restore([s EXCEPT !.apps = list], SelectedApp(s))
  <2>1. PICK list \in AppLists : t = Restore([s EXCEPT !.apps = list], SelectedApp(s)) BY <1>2
  <2> DEFINE u == [s EXCEPT !.apps = list]
  <2>2. list \in Seq(AppRecord) BY ListsAreSequences
  <2>3. u \in ScreenState BY <1>1, <2>2, Zenon DEF ScreenState
  <2>4. AppsOnly(s, u) BY <1>1 DEF ScreenState, AppsOnly, ActiveLoaded
  <2> HIDE DEF u
  <2> QED BY <1>1, <2>1, <2>3, <2>4, RestoreFits DEF u
<1>3. CASE t = ClampApp([s EXCEPT !.apps = <<>>, !.active.paired = FALSE])
  <2> DEFINE record == [s.active EXCEPT !.paired = FALSE]
             u == [s EXCEPT !.apps = <<>>, !.active = record]
  <2>1. u = [s EXCEPT !.apps = <<>>, !.active.paired = FALSE] BY <1>1 DEF ScreenState
  <2>2. record \in HostRecord /\ record.host = s.active.host BY <1>1 DEF ActiveLoaded, HostRecord
  <2>3. <<>> \in Seq(AppRecord) /\ record \in HostRecord \cup {NoRecord} /\ record # NoRecord
    BY <2>2, ScreensAssumption DEF HostRecord, NoRecord
  <2> HIDE DEF record
  <2>4. u \in ScreenState BY <1>1, <2>3, Zenon DEF ScreenState
  <2>5. AppsOnly(s, u) /\ u.apps = <<>> BY <1>1, <2>2, <2>3 DEF ScreenState, AppsOnly, ActiveLoaded
  <2> HIDE DEF u
  <2>6. t = ClampApp(u) BY <1>3, <2>1
  <2>7. Good(t) /\ AppsOnly(s, t) /\ t.apps = <<>> BY <1>1, <2>4, <2>5, <2>6, ClampedAppsFit
  <2> QED BY <1>1, <2>7 DEF Visible
<1>4. CASE t = ClampApp(s)
  <2>1. AppsOnly(s, s) BY <1>1 DEF AppsOnly
  <2>2. /\ Good(t) /\ AppsOnly(s, t) /\ Visible(t) = Visible(s)
        /\ Visible(s) # {} /\ s.appAt < Shows(s) => t = s
    BY <1>1, <1>4, <2>1, ClampedAppsFit
  <2>3. Visible(s) # {} => s.appAt < Shows(s) BY <1>1 DEF Good, Fits
  <2> QED BY <1>1, <2>2, <2>3
<1> QED BY <1>2, <1>3, <1>4 DEF AppListArrives

-----------------------------------------------------------------------------
(* The steps.                                                              *)

\* The page at the start.
LEMMA InitialFits == Good(InitialState) /\ InitialState.screen = "hosts"
<1> DEFINE s == InitialState
<1>1. NoMenu \in Menu /\ NoMenu.rows = <<>>
  <2>1. <<>> \in Seq(Row) BY EmptySeq
  <2> QED BY <2>1 DEF NoMenu, Menu, SetItems
<1>2. NoDraft \in Draft /\ ~ NoDraft.visible BY DEF NoDraft, Draft
<1>3. 2 \in 0 .. Toolbar - 1 /\ 2 = Toolbar - 1 BY DEF Toolbar
<1>4. /\ "hosts" \in Screen /\ "none" \in Modal /\ 0 \in 0 .. 3 /\ <<>> \in Seq(HostRecord)
      /\ <<>> \in Seq(AppRecord) /\ NoRecord \in HostRecord \cup {NoRecord}
      /\ NoHost \in Host \cup {NoHost}
  BY DEF Screen, Modal
<1>5. s \in ScreenState BY <1>1, <1>2, <1>3, <1>4 DEF InitialState, ScreenState
<1>6. Fits(s) BY <1>1, <1>2 DEF InitialState, Fits, MenuOf
<1> QED BY <1>5, <1>6 DEF Good, InitialState

\* The hosts are shown that were saved.
LEMMA InitHolds == Init => ScreensInv
<1> SUFFICES ASSUME Init PROVE ScreensInv OBVIOUS
<1>1. PICK list \in HostLists : state = ReplaceHosts(InitialState, list) BY DEF Init
<1>2. Good(state) BY <1>1, InitialFits, ReplaceFits
<1> QED BY <1>2 DEF Init, ScreensInv, Kept, Attempted

\* What was selected is known of a page that was only marked.
LEMMA MarkedKeeps ==
    ASSUME NEW s, Good(s), NEW t, Good(t), Marked(s, t), NEW w
    PROVE  Kept(s, w) => Kept(t, w)
<1>1. /\ s.items \in Seq(HostRecord) /\ t.items \in Seq(HostRecord) /\ s.at \in Nat
      /\ IF s.items = <<>> THEN s.at = 0 ELSE s.at < Len(s.items)
      /\ DOMAIN s.items = DOMAIN t.items
  BY DEF Good, ScreenState, Fits, Marked
<1>2. InList(s, w) => InList(t, w) BY <1>1 DEF InList, Marked
<1>3. InList(s, w) => s.at + 1 \in DOMAIN s.items BY <1>1 DEF InList
<1> QED BY <1>1, <1>2, <1>3 DEF Kept, Marked

\* The host the user worked with last is found again, whatever page follows.
LEMMA WorkedKept ==
    ASSUME ScreensInv, NEW s, Good(s), Follows(state, s), NEW t,
           t = s \/ (s.screen = "hosts" /\ ~ s.loaded /\ \E list \in HostLists : t = ReplaceHosts(s, list)),
           NEW w, w = Listed(t, WorkedOn(s))
    PROVE  Good(t) /\ w \in Host \cup {NoHost} /\ Kept(t, w)
<1>1. /\ Good(state) /\ state \in ScreenState /\ worked \in Host \cup {NoHost} /\ Kept(state, worked)
      /\ state.loaded \in BOOLEAN /\ state.screen \in Screen
  BY DEF ScreensInv, Good, ScreenState
<1>2. /\ s \in ScreenState /\ s.items \in Seq(HostRecord) /\ s.at \in Nat /\ s.screen \in Screen
      /\ s.loaded \in BOOLEAN /\ s.active \in HostRecord \cup {NoRecord}
  BY DEF Good, ScreenState
<1>3. /\ Good(t)
      /\ t # s => /\ s.screen = "hosts" /\ ~ s.loaded /\ t.screen = "hosts" /\ t.loaded
                  /\ InList(t, s.remembered) => t.items[t.at + 1].host = s.remembered
  <2>1. CASE t = s BY <2>1
  <2>2. CASE s.screen = "hosts" /\ ~ s.loaded /\ \E list \in HostLists : t = ReplaceHosts(s, list)
    <3>1. PICK list \in HostLists : t = ReplaceHosts(s, list) BY <2>2
    <3>2. /\ Good(t) /\ t.screen = "hosts" /\ t.loaded
          /\ InList(t, s.remembered) => t.items[t.at + 1].host = s.remembered
      BY <2>2, <3>1, ReplaceFits
    <3> QED BY <2>2, <3>2
  <2> QED BY <2>1, <2>2
<1>4. SelectedHost(s) # NoRecord => SelectedHost(s) \in HostRecord
  <2>1. s.at < Len(s.items) => s.items[s.at + 1] \in HostRecord BY <1>2
  <2> QED BY <1>2, <2>1 DEF SelectedHost, ActiveLoaded
<1>5. WorkedOn(s) \in Host \cup {NoHost} BY <1>1, <1>4 DEF WorkedOn, HostRecord
<1>6. w \in Host \cup {NoHost} BY <1>5 DEF Listed
<1>7. Kept(t, w)
  <2>1. SUFFICES ASSUME w # NoHost PROVE Kept(t, w) BY DEF Kept
  <2>2. w = WorkedOn(s) /\ (t.screen = "hosts" /\ t.loaded => InList(t, w)) BY <2>1 DEF Listed
  <2>3. ~ (Unloaded(state) /\ state.screen # "settings") BY <2>1, <2>2 DEF WorkedOn
  <2>4. CASE SelectedHost(s) # NoRecord /\ ~ Unloaded(s)
    <3>1. w = SelectedHost(s).host BY <2>2, <2>3, <2>4 DEF WorkedOn
    <3>2. t = s BY <1>3, <2>4 DEF Unloaded
    <3>3. CASE s.screen \in {"apps", "pair_host"}
      <4>1. ActiveLoaded(s) BY <3>3 DEF Good, Fits
      <4> QED BY <3>1, <3>2, <3>3, <4>1 DEF SelectedHost, Kept
    <3>4. CASE s.screen \in {"hosts", "add_host"}
      <4>1. SelectedHost(s) = s.items[s.at + 1] /\ s.loaded BY <2>4, <3>4 DEF SelectedHost, Unloaded
      <4> QED BY <2>2, <3>1, <3>2, <3>4, <4>1 DEF Kept
    <3>5. CASE s.screen = "settings" BY <2>4, <3>5 DEF Unloaded, Good, Fits
    <3> QED BY <1>2, <3>3, <3>4, <3>5 DEF Screen
  <2>5. CASE ~ (SelectedHost(s) # NoRecord /\ ~ Unloaded(s))
    <3>1. w = worked BY <2>2, <2>3, <2>5 DEF WorkedOn
    <3>2. CASE s.screen = "hosts" /\ s.loaded
      <4>1. SelectedHost(s) = NoRecord /\ t = s BY <1>3, <2>5, <3>2 DEF Unloaded
      <4>2. s.items = <<>>
        <5>1. SUFFICES ASSUME s.items # <<>> PROVE FALSE OBVIOUS
        <5>2. s.at < Len(s.items) BY <5>1 DEF Good, Fits
        <5>3. s.items[s.at + 1] \in HostRecord BY <1>2, <5>2
        <5>4. NoRecord \notin HostRecord BY ScreensAssumption DEF HostRecord, NoRecord
        <5> QED BY <3>2, <4>1, <5>2, <5>3, <5>4 DEF SelectedHost
      <4> QED BY <2>2, <3>2, <4>1, <4>2 DEF InList
    <3>3. CASE s.screen = "hosts" /\ ~ s.loaded
      <4>1. s.remembered = w
        BY <1>1, <2>1, <2>3, <3>1, <3>3 DEF Follows, Kept, Unloaded
      <4>2. t = s \/ (t.screen = "hosts" /\ t.loaded /\ InList(t, w) /\ t.items[t.at + 1].host = w)
        BY <1>3, <2>2, <4>1
      <4> QED BY <3>3, <4>1, <4>2 DEF Kept
    <3>4. CASE s.screen \in {"apps", "pair_host"}
      <4>1. ActiveLoaded(s) BY <3>4 DEF Good, Fits
      <4> QED BY <2>5, <3>4, <4>1 DEF SelectedHost, Unloaded, ActiveLoaded
    <3>5. CASE s.screen = "settings"
      <4>1. t = s BY <1>3, <3>5
      <4>2. s.remembered = w
        <5>1. CASE state.screen = "settings" /\ s.remembered = state.remembered
          BY <1>1, <2>1, <3>1, <5>1 DEF Kept
        <5>2. CASE /\ state.screen = "hosts"
                   /\ state.loaded /\ state.items # <<>> => s.remembered = state.items[state.at + 1].host
          <6>1. state.loaded BY <2>3, <5>2 DEF Unloaded
          <6>2. InList(state, worked) /\ state.items[state.at + 1].host = worked
            BY <1>1, <2>1, <3>1, <5>2, <6>1 DEF Kept
          <6>3. state.items # <<>> BY <6>2 DEF InList
          <6> QED BY <3>1, <5>2, <6>1, <6>2, <6>3
        <5> QED BY <3>5, <5>1, <5>2 DEF Follows
      <4> QED BY <3>5, <4>1, <4>2 DEF Kept
    <3>6. CASE s.screen = "add_host"
      <4>1. t = s BY <1>3, <3>6
      <4>2. state.screen \in {"hosts", "add_host"} /\ (state.loaded => s.loaded) BY <3>6 DEF Follows
      <4>3. s.loaded BY <2>3, <4>2 DEF Unloaded
      <4> QED BY <3>6, <4>1, <4>3 DEF Kept
    <3> QED BY <1>2, <3>2, <3>3, <3>4, <3>5, <3>6 DEF Screen
  <2> QED BY <2>4, <2>5
<1> QED BY <1>3, <1>6, <1>7

\* A command.
LEMMA UserHolds ==
    ASSUME ScreensInv, NEW command \in Command, User(command)
    PROVE  ScreensInv'
<1>1. PICK did \in Handled(state, command) : \E s \in Carried(did.to, did.ask, did.about) :
        /\ state' \in IF s.screen # state.screen THEN Ensured(s) ELSE {s}
        /\ worked' = Listed(state', WorkedOn(s))
        /\ attempt' = CASE did.ask = "pair" -> did.about [] did.ask = "cancel" -> NoHost [] OTHER -> attempt
  BY Zenon DEF User
<1>2. PICK s \in Carried(did.to, did.ask, did.about) :
        /\ state' \in IF s.screen # state.screen THEN Ensured(s) ELSE {s}
        /\ worked' = Listed(state', WorkedOn(s))
        /\ attempt' = CASE did.ask = "pair" -> did.about [] did.ask = "cancel" -> NoHost [] OTHER -> attempt
  BY <1>1
<1>3. Good(state) BY DEF ScreensInv
<1>4. Leads(state, did) BY <1>3, HandledLeads
<1>5. /\ Good(s) /\ Follows(state, s)
      /\ did.ask \in {"nothing", "pair", "cancel"} => s = did.to
  BY <1>3, <1>4, CarriedFits
<1>6. state' = s \/ (s.screen = "hosts" /\ ~ s.loaded /\ \E list \in HostLists : state' = ReplaceHosts(s, list))
  BY <1>2 DEF Ensured
<1>7. Good(state') /\ worked' \in Host \cup {NoHost} /\ Kept(state', worked')
  BY <1>2, <1>5, <1>6, WorkedKept
<1>8. attempt' \in Host \cup {NoHost} /\ Attempted(state', attempt')
  <2>1. CASE did.ask = "pair"
    <3>1. attempt' = did.about /\ s = did.to BY <1>2, <1>5, <2>1
    <3>2. s.screen = "pair_host" /\ s.active.host = did.about /\ did.about \in Host
      BY <1>4, <2>1, <3>1 DEF Leads
    <3>3. state' = s BY <1>6, <3>2
    <3> QED BY <3>1, <3>2, <3>3 DEF Attempted
  <2>2. CASE did.ask = "cancel"
    <3>1. attempt' = NoHost BY <1>2, <2>2
    <3> QED BY <3>1 DEF Attempted
  <2>3. CASE did.ask \notin {"pair", "cancel"}
    <3>1. attempt' = attempt BY <1>2, <2>3
    <3>2. SUFFICES ASSUME attempt # NoHost PROVE Attempted(state', attempt)
      BY <3>1 DEF ScreensInv, Attempted
    <3>3. state.screen = "pair_host" /\ state.active.host = attempt BY <3>2 DEF ScreensInv, Attempted
    <3>4. did.ask = "nothing" /\ did.to.screen = "pair_host" /\ did.to.active = state.active
      BY <1>4, <2>3, <3>3 DEF Leads
    <3>5. s = did.to /\ state' = s BY <1>5, <1>6, <3>4
    <3> QED BY <3>3, <3>4, <3>5 DEF Attempted
  <2> QED BY <2>1, <2>2, <2>3
<1> QED BY <1>7, <1>8 DEF ScreensInv

\* An attempt that cannot start.
LEMMA PairingFailsHolds ==
    ASSUME ScreensInv, PairingFails
    PROVE  ScreensInv'
<1>1. PICK command \in Chooses : \E did \in Handled(state, command) :
        /\ did.ask = "pair"
        /\ state' = PairingResult(did.to, did.about, FALSE)
        /\ worked' = IF Unloaded(state) THEN NoHost ELSE did.about
        /\ UNCHANGED attempt
  BY DEF PairingFails
<1>2. PICK did \in Handled(state, command) :
        /\ did.ask = "pair"
        /\ state' = PairingResult(did.to, did.about, FALSE)
        /\ worked' = IF Unloaded(state) THEN NoHost ELSE did.about
        /\ UNCHANGED attempt
  BY <1>1
<1>3. command \in Command BY DEF Chooses, Command
<1>4. Good(state) BY DEF ScreensInv
<1>5. Leads(state, did) BY <1>3, <1>4, HandledLeads
<1>6. /\ Good(did.to) /\ did.to.screen = "pair_host" /\ did.about \in Host
      /\ did.to.active.host = did.about /\ state.screen \in {"hosts", "add_host"}
  BY <1>2, <1>5 DEF Leads
<1>7. Good(state') /\ Marked(did.to, state') BY <1>2, <1>6, PairingResultFits
<1>8. attempt = NoHost BY <1>6 DEF ScreensInv, Attempted
<1>9. Kept(state', worked') BY <1>2, <1>6, <1>7 DEF Kept, Marked
<1> QED BY <1>2, <1>6, <1>7, <1>8, <1>9 DEF ScreensInv, Attempted

\* The list is loaded at the start of a frame.
LEMMA FrameHolds ==
    ASSUME ScreensInv, Frame
    PROVE  ScreensInv'
<1>1. PICK list \in HostLists : state' = ReplaceHosts(state, list) BY DEF Frame, Ensured
<1>2. Good(state) /\ state.screen = "hosts" /\ ~ state.loaded BY DEF ScreensInv, Frame
<1>3. /\ Good(state') /\ state'.screen = "hosts" /\ state'.loaded
      /\ InList(state', state.remembered) => state'.items[state'.at + 1].host = state.remembered
  BY <1>1, <1>2, ReplaceFits
<1>4. attempt' = NoHost BY <1>2 DEF ScreensInv, Attempted, Frame
<1>5. worked' \in {NoHost, worked} /\ (worked' # NoHost => InList(state', worked')) BY <1>3 DEF Frame, Listed
<1>6. worked' # NoHost => state.remembered = worked' BY <1>2, <1>5 DEF ScreensInv, Kept
<1>7. Kept(state', worked') BY <1>3, <1>5, <1>6 DEF Kept
<1> QED BY <1>3, <1>4, <1>5, <1>7 DEF ScreensInv, Attempted

\* The result of an attempt.
LEMMA FinishPairingHolds ==
    ASSUME ScreensInv, FinishPairing
    PROVE  ScreensInv'
<1>1. PICK success \in BOOLEAN : state' = PairingResult(state, attempt, success) BY DEF FinishPairing
<1>2. /\ Good(state) /\ attempt \in Host /\ state.screen = "pair_host" /\ state.active.host = attempt
      /\ worked \in {NoHost, attempt} /\ attempt' = NoHost /\ worked' = worked
  BY DEF ScreensInv, FinishPairing, Attempted, Kept
<1>3. /\ Good(state') /\ (success \/ Marked(state, state'))
      /\ success => /\ state'.screen = "hosts"
                    /\ IF state'.loaded
                       THEN InList(state', attempt) /\ state'.items[state'.at + 1].host = attempt
                       ELSE state'.remembered = attempt
  BY <1>1, <1>2, PairingResultFits
<1>4. Kept(state', worked')
  <2>1. CASE ~ success BY <1>2, <1>3, <2>1, MarkedKeeps DEF ScreensInv
  <2>2. CASE success
    <3>1. SUFFICES ASSUME worked # NoHost PROVE Kept(state', worked) BY <1>2 DEF Kept
    <3>2. worked = attempt /\ state'.screen = "hosts" BY <1>2, <1>3, <2>2, <3>1
    <3> QED BY <1>3, <2>2, <3>2 DEF Kept
  <2> QED BY <2>1, <2>2
<1> QED BY <1>2, <1>3, <1>4 DEF ScreensInv, Attempted

\* An answer to a probe.
LEMMA ProbeHolds ==
    ASSUME ScreensInv, ProbeArrives
    PROVE  ScreensInv'
<1>1. PICK h \in Host : state' \in Probed(state, h) BY DEF ProbeArrives
<1>2. Good(state') /\ Marked(state, state') BY <1>1, ProbedMarks DEF ScreensInv
<1>3. Kept(state', worked) BY <1>2, MarkedKeeps DEF ScreensInv
<1>4. attempt = NoHost BY DEF ScreensInv, Attempted, ProbeArrives
<1> QED BY <1>2, <1>3, <1>4 DEF ScreensInv, Attempted, ProbeArrives

\* A host that is found.
LEMMA DiscoveryHolds ==
    ASSUME ScreensInv, DiscoveryArrives
    PROVE  ScreensInv'
<1>1. PICK h \in Host : state' = Discovered(state, h) BY DEF DiscoveryArrives
<1>2. Good(state) /\ state.screen = "hosts" /\ state.loaded BY DEF ScreensInv, DiscoveryArrives
<1>3. /\ Good(state')
      /\ \/ Marked(state, state')
         \/ /\ state'.screen = "hosts" /\ state'.loaded /\ state'.at = state.at
            /\ state'.items = Append(state.items, Made(h))
  BY <1>1, <1>2, DiscoveredFits
<1>4. Kept(state', worked)
  <2>1. CASE Marked(state, state') BY <1>2, <1>3, <2>1, MarkedKeeps DEF ScreensInv
  <2>2. CASE /\ state'.screen = "hosts" /\ state'.loaded /\ state'.at = state.at
             /\ state'.items = Append(state.items, Made(h))
    <3>1. SUFFICES ASSUME worked # NoHost PROVE Kept(state', worked) BY DEF Kept
    <3>2. InList(state, worked) /\ state.items[state.at + 1].host = worked
      BY <1>2, <3>1 DEF ScreensInv, Kept
    <3>3. /\ state.items \in Seq(HostRecord) /\ state.at \in Nat
          /\ state.items # <<>> /\ state.at < Len(state.items)
      BY <1>2, <3>2 DEF Good, Fits, ScreenState, InList
    <3>4. state.at + 1 \in DOMAIN state'.items /\ state'.items[state.at + 1] = state.items[state.at + 1]
      <4>1. Made(h) \in HostRecord BY DEF Made, HostRecord
      <4>2. state.at + 1 \in 1 .. Len(state.items) /\ Len(state.items) \in Nat BY <3>3
      <4> QED BY <2>2, <3>3, <4>1, <4>2
    <3> QED BY <2>2, <3>2, <3>4 DEF Kept, InList
  <2> QED BY <1>3, <2>1, <2>2
<1>5. attempt = NoHost BY <1>2 DEF ScreensInv, Attempted
<1> QED BY <1>3, <1>4, <1>5 DEF ScreensInv, Attempted, DiscoveryArrives

\* A list of apps.
LEMMA AppListHolds ==
    ASSUME ScreensInv, AppListArrives
    PROVE  ScreensInv'
<1>1. Good(state') /\ AppsOnly(state, state') /\ state.screen = "apps" BY AppListFits DEF ScreensInv
<1>2. attempt = NoHost BY <1>1 DEF ScreensInv, Attempted
<1>3. Kept(state', worked) BY <1>1 DEF ScreensInv, Kept, AppsOnly
<1> QED BY <1>1, <1>2, <1>3 DEF ScreensInv, Attempted, AppListArrives

\* Every step.
LEMMA StepHolds == ScreensInv /\ [Next]_vars => ScreensInv'
<1> SUFFICES ASSUME ScreensInv, [Next]_vars PROVE ScreensInv' OBVIOUS
<1>1. CASE UNCHANGED vars BY <1>1 DEF vars, ScreensInv
<1>2. CASE \E command \in Command : User(command) BY <1>2, UserHolds
<1>3. CASE PairingFails BY <1>3, PairingFailsHolds
<1>4. CASE Background
  BY <1>4, FrameHolds, FinishPairingHolds, ProbeHolds, DiscoveryHolds, AppListHolds DEF Background
<1> QED BY <1>1, <1>2, <1>3, <1>4 DEF Next

-----------------------------------------------------------------------------
(* The theorems.                                                           *)

\* The invariant holds of every reachable state.
THEOREM ScreensInvHolds == Spec => []ScreensInv
BY InitHolds, StepHolds, PTL DEF Spec

\* Types (the state of ClientState, src/app/client_state.h).
THEOREM TypeCorrect == Spec => []TypeOK
<1>1. ScreensInv => TypeOK BY DEF ScreensInv, Good, TypeOK
<1> QED BY <1>1, ScreensInvHolds, PTL

\* Every index the code uses without a check is in its list, whatever arrives
\* while a page or a modal is shown, for lists of every length.
THEOREM IndicesInLists == Spec => []IndicesHold
<1>1. ScreensInv => IndicesHold
  <2> SUFFICES ASSUME ScreensInv PROVE IndicesHold OBVIOUS
  <2>1. Good(state) /\ Fits(state) /\ Fitting(state.menu) BY DEF ScreensInv, Good, Fits, Fitting, ScreenState
  <2>2. state.menu.rows \in Seq(Row) /\ state.menu.at \in Nat BY <2>1 DEF Fitting, Menu
  <2>3. state.menu.rows # <<>> => state.menu.at \in 0 .. Len(state.menu.rows) - 1
    BY <2>1, <2>2 DEF Fitting
  <2> QED BY <2>1, <2>3 DEF Fits, IndicesHold
<1> QED BY <1>1, ScreensInvHolds, PTL

\* The host the user worked with is selected again when he is back on the
\* hosts page, although the list was dropped and loaded anew meanwhile.
THEOREM SelectionComesBack == Spec => []SelectionSurvives
<1>1. ScreensInv => SelectionSurvives
  <2> SUFFICES ASSUME ScreensInv, state.screen = "hosts", state.loaded, worked # NoHost, InList(state, worked)
               PROVE  SelectedHost(state).host = worked
    BY DEF SelectionSurvives
  <2>1. state.items # <<>> BY DEF InList
  <2>2. state.at < Len(state.items) BY <2>1 DEF ScreensInv, Good, Fits
  <2> QED BY <2>2 DEF ScreensInv, Kept, SelectedHost
<1> QED BY <1>1, ScreensInvHolds, PTL

\* The same target is selected.
LEMMA SameSelected ==
    ASSUME NEW s, NEW t, SameTarget(s, t)
    PROVE  SelectedHost(t) = SelectedHost(s) /\ SelectedApp(t) = SelectedApp(s)
<1>1. /\ Visible(t) = Visible(s) /\ Shows(t) = Shows(s)
      /\ \A at : AppAt(t, at) = AppAt(s, at)
  BY VisibleSame DEF SameTarget
<1>2. SelectedHost(t) = SelectedHost(s) BY DEF SameTarget, SameHosts, SelectedHost, ActiveLoaded
<1>3. SelectedApp(t) = SelectedApp(s)
  BY <1>1 DEF SameTarget, SameHosts, SelectedApp, AppsHost, ActiveLoaded
<1> QED BY <1>2, <1>3

\* What an open modal is about is the same after a step.
TargetKept(s, t) ==
    /\ s.modal \in {"host_actions", "host_details"} /\ t.modal = s.modal
       /\ s.loaded /\ SelectedHost(s) # NoRecord =>
         SelectedHost(s).host = SelectedHost(t).host
    /\ s.modal \in {"app_actions", "app_details"} /\ t.modal = s.modal =>
         \/ SelectedApp(t) = SelectedApp(s)
         \/ \A i \in Visible(t) : t.apps[i].app # SelectedApp(s)

\* A command does not give an open modal another target.
LEMMA UserKeepsTarget ==
    ASSUME ScreensInv, NEW command \in Command, User(command)
    PROVE  TargetKept(state, state')
<1>1. PICK did \in Handled(state, command) : \E s \in Carried(did.to, did.ask, did.about) :
        state' \in IF s.screen # state.screen THEN Ensured(s) ELSE {s}
  BY Zenon DEF User
<1>2. PICK s \in Carried(did.to, did.ask, did.about) :
        state' \in IF s.screen # state.screen THEN Ensured(s) ELSE {s}
  BY <1>1
<1>3. SUFFICES ASSUME state.modal # "none", state'.modal = state.modal
      PROVE  TargetKept(state, state')
  BY DEF TargetKept
<1>4. Good(state) BY DEF ScreensInv
<1>5. Leads(state, did) /\ Turns(state, did) BY <1>3, <1>4, HandledLeads
<1>6. /\ Good(s) /\ (Marked(did.to, s) \/ s.modal = "none")
      /\ did.ask = "nothing" => s = did.to
  BY <1>4, <1>5, CarriedFits
<1>7. state'.modal = s.modal /\ (s.screen = state.screen => state' = s)
  <2>1. CASE state' = s BY <2>1
  <2>2. CASE state' # s
    <3>1. s.screen # state.screen /\ s.screen = "hosts" /\ state' \in {ReplaceHosts(s, list) : list \in HostLists}
      BY <1>2, <2>2 DEF Ensured
    <3>2. PICK list \in HostLists : state' = ReplaceHosts(s, list) BY <3>1
    <3> QED BY <1>6, <3>1, <3>2, ReplaceFits
  <2> QED BY <2>1, <2>2
<1>8. s.modal = did.to.modal \/ s.modal = "none" BY <1>6 DEF Marked
<1>9. did.ask = "nothing" /\ SameTarget(state, did.to) BY <1>3, <1>5, <1>7, <1>8 DEF Turns
<1>10. state' = did.to BY <1>6, <1>7, <1>9 DEF SameTarget, SameHosts
<1> QED BY <1>9, <1>10, SameSelected DEF TargetKept

\* Nor does what happens in the background.
LEMMA BackgroundKeepsTarget ==
    ASSUME ScreensInv, Background
    PROVE  TargetKept(state, state')
<1>1. /\ Good(state)
      /\ state.modal \in {"host_actions", "host_details"} => state.screen = "hosts"
      /\ state.modal \in {"app_actions", "app_details"} => state.screen = "apps"
  BY DEF ScreensInv, Good, Fits
<1>2. CASE Frame BY <1>1, <1>2 DEF Frame, TargetKept
<1>3. CASE FinishPairing BY <1>1, <1>3 DEF FinishPairing, ScreensInv, Attempted, TargetKept
<1>4. CASE ProbeArrives
  <2>1. PICK h \in Host : state' \in Probed(state, h) BY <1>4 DEF ProbeArrives
  <2>2. Good(state') /\ Marked(state, state') BY <1>1, <2>1, ProbedMarks
  <2>3. SelectedHost(state').host = SelectedHost(state).host BY <1>1, <2>2, MarkedSelects
  <2> QED BY <1>1, <1>4, <2>3 DEF ProbeArrives, TargetKept
<1>5. CASE DiscoveryArrives
  <2>1. PICK h \in Host : state' = Discovered(state, h) BY <1>5 DEF DiscoveryArrives
  <2>2. state.screen = "hosts" /\ state.loaded BY <1>5 DEF DiscoveryArrives
  <2>3. /\ Good(state')
        /\ \/ Marked(state, state')
           \/ /\ state'.screen = "hosts" /\ state'.at = state.at
              /\ state'.items = Append(state.items, Made(h))
    BY <1>1, <2>1, <2>2, DiscoveredFits
  <2>4. CASE Marked(state, state')
    <3>1. SelectedHost(state').host = SelectedHost(state).host BY <1>1, <2>3, <2>4, MarkedSelects
    <3> QED BY <1>1, <2>2, <3>1 DEF TargetKept
  <2>5. CASE /\ state'.screen = "hosts" /\ state'.at = state.at
             /\ state'.items = Append(state.items, Made(h))
    <3>1. SUFFICES ASSUME SelectedHost(state) # NoRecord PROVE SelectedHost(state') = SelectedHost(state)
      BY <1>1, <2>2 DEF TargetKept
    <3>2. state.at < Len(state.items) /\ SelectedHost(state) = state.items[state.at + 1]
      BY <2>2, <3>1 DEF SelectedHost
    <3>3. state.items \in Seq(HostRecord) /\ state.at \in Nat /\ Made(h) \in HostRecord
      BY <1>1 DEF Good, ScreenState, Made, HostRecord
    <3>4. /\ state'.at < Len(state'.items)
          /\ state'.items[state.at + 1] = state.items[state.at + 1]
      BY <2>5, <3>2, <3>3
    <3> QED BY <2>5, <3>2, <3>4 DEF SelectedHost
  <2> QED BY <2>3, <2>4, <2>5
<1>6. CASE AppListArrives
  <2>1. /\ state.screen = "apps"
        /\ \/ SelectedApp(state') = SelectedApp(state)
           \/ \A i \in Visible(state') : state'.apps[i].app # SelectedApp(state)
    BY <1>1, <1>6, AppListFits
  <2> QED BY <1>1, <2>1 DEF TargetKept
<1> QED BY <1>2, <1>3, <1>4, <1>5, <1>6 DEF Background

\* An open modal stays about the host, or the app, it was opened for, whatever
\* probe, discovery or list of apps arrives and however long the lists are.
THEOREM TargetStays == Spec => ModalKeepsTarget
<1>1. ScreensInv /\ [Next]_vars => [TargetKept(state, state')]_vars
  <2> SUFFICES ASSUME ScreensInv, Next PROVE TargetKept(state, state') BY DEF vars
  <2>1. CASE \E command \in Command : User(command) BY <2>1, UserKeepsTarget
  <2>2. CASE PairingFails
    <3>1. PICK command \in Chooses : \E did \in Handled(state, command) :
            did.ask = "pair" /\ state' = PairingResult(did.to, did.about, FALSE)
      BY <2>2 DEF PairingFails
    <3>2. PICK did \in Handled(state, command) :
            did.ask = "pair" /\ state' = PairingResult(did.to, did.about, FALSE)
      BY <3>1
    <3>3. command \in Command BY DEF Chooses, Command
    <3>4. Leads(state, did) BY <3>3, HandledLeads DEF ScreensInv
    <3>5. /\ Good(did.to) /\ did.to.screen = "pair_host" /\ did.about \in Host
          /\ did.to.active.host = did.about /\ did.to.modal = "none"
      BY <3>2, <3>4 DEF Leads
    <3>6. Marked(did.to, state') BY <3>2, <3>5, PairingResultFits
    <3> QED BY <3>5, <3>6 DEF Marked, TargetKept
  <2>3. CASE Background BY <2>3, BackgroundKeepsTarget
  <2> QED BY <2>1, <2>2, <2>3 DEF Next
<1>2. [TargetKept(state, state')]_vars =>
        [LET s == state t == state' IN
         /\ s.modal \in {"host_actions", "host_details"} /\ t.modal = s.modal
            /\ s.loaded /\ SelectedHost(s) # NoRecord =>
              SelectedHost(s).host = SelectedHost(t).host
         /\ s.modal \in {"app_actions", "app_details"} /\ t.modal = s.modal =>
              \/ SelectedApp(t) = SelectedApp(s)
              \/ \A i \in Visible(t) : t.apps[i].app # SelectedApp(s)]_vars
  BY DEF TargetKept
<1> QED BY <1>1, <1>2, ScreensInvHolds, PTL DEF Spec, ModalKeepsTarget

=============================================================================

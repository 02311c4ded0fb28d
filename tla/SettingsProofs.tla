--------------------------- MODULE SettingsProofs ---------------------------
(***************************************************************************)
(* The settings page and the settings file, for any cover art on the disk, *)
(* any choices of the rows and any video modes: the two menus of the page  *)
(* agree and no file is offered that is gone; the file read back is what   *)
(* was written, whatever a file says gives settings of the right types,    *)
(* and settings survive a restart.                                         *)
(***************************************************************************)
EXTENDS SettingsPage, SettingsFile, TLAPS, FiniteSetTheorems, SequenceTheorems

-----------------------------------------------------------------------------
(* The inductive invariant of the page.                                    *)

\* The rows on the left.
Category == Range(Categories)

\* What goes with the modal and the page that are shown.
Settled(p) ==
    /\ p.screen = "hosts" => p.files = <<>> /\ p.modal = "none"
    /\ p.modal = "confirmation" => p.target # "none"
    /\ p.modal = "log_viewer" => p.offset < p.lines

\* The invariant RowsMatch of a page, with the range of its selection.
Matching(p) ==
    p.screen = "settings" =>
        /\ p.menu.rows = Categories /\ p.menu.at < 4 /\ SelectedItem(p.menu) = p.category
        /\ p.detail.rows = Detail(p.category, p.files)
        /\ p.detail.at < Len(p.detail.rows)

\* A page the program may show.
Shown(p) == p \in SettingsState /\ Settled(p) /\ Matching(p)

\* The inductive invariant of the page.
PageInv == Shown(page) /\ disk \subseteq File /\ halfReset \in BOOLEAN /\ ListedOnDisk

-----------------------------------------------------------------------------
(* Categories, rows and listings.                                          *)

\* The four categories.
LEMMA FourCategories ==
    /\ Categories \in Seq(Row) /\ Len(Categories) = 4 /\ DOMAIN Categories = 1 .. 4
    /\ Categories[1] = "logging" /\ Categories[2] = "display"
    /\ Categories[3] = "input" /\ Categories[4] = "reset"
    /\ Category = {"logging", "display", "input", "reset"}
<1>1. /\ Len(Categories) = 4 /\ DOMAIN Categories = 1 .. 4
      /\ Categories[1] = "logging" /\ Categories[2] = "display"
      /\ Categories[3] = "input" /\ Categories[4] = "reset"
  BY DEF Categories
<1>2. Category = {"logging", "display", "input", "reset"}
  BY <1>1 DEF Category, Range
<1>3. Categories \in Seq(Row)
  <2>1. Categories \in Seq(Range(Categories)) BY <1>2 DEF Categories, Category
  <2> QED BY <2>1 DEF Row
<1> QED BY <1>1, <1>2, <1>3

\* The rows on the right are never empty and none is named like a category.
LEMMA DetailRows ==
    ASSUME NEW c \in Category, NEW files \in Seq(File)
    PROVE  /\ Detail(c, files) \in Seq(Row \ (Category \cup {"none"}))
           /\ Len(Detail(c, files)) \in Nat \ {0}
<1> DEFINE R == Row \ (Category \cup {"none"})
<1>1. {"view-log-file", "cycle-log-level", "cycle-stream-video-mode", "toggle-play-audio-on-xbox",
       "input-placeholder", "factory-reset"} \cup File \subseteq R
  BY FourCategories, ArtAssumption DEF Row, Setting, File
<1>2. files \in Seq(R) BY <1>1
<1>3. CASE c = "logging"
  BY <1>1, <1>3 DEF Detail
<1>4. CASE c = "display"
  BY <1>1, <1>4 DEF Detail
<1>5. CASE c = "input"
  BY <1>1, <1>5 DEF Detail
<1>6. CASE c = "reset"
  <2>1. Detail(c, files) = <<"factory-reset">> \o files BY <1>6 DEF Detail
  <2>2. <<"factory-reset">> \in Seq(R) /\ Len(<<"factory-reset">>) = 1 BY <1>1
  <2>3. <<"factory-reset">> \o files \in Seq(R)
        /\ Len(<<"factory-reset">> \o files) = 1 + Len(files)
    BY <1>2, <2>2, ConcatProperties
  <2>4. Len(files) \in Nat BY <1>2
  <2> QED BY <2>1, <2>3, <2>4
<1> QED BY <1>3, <1>4, <1>5, <1>6, FourCategories

\* A menu of rows is a menu.
LEMMA SetItemsType ==
    ASSUME NEW rows \in Seq(Row)
    PROVE  SetItems(rows) \in Menu /\ SetItems(rows).rows = rows /\ SetItems(rows).at = 0
BY DEF SetItems, Menu

\* The selected row is one of the rows.
LEMMA SelectedType ==
    ASSUME NEW menu \in Menu, menu.at < Len(menu.rows)
    PROVE  /\ menu.at + 1 \in DOMAIN menu.rows
           /\ SelectedItem(menu) = menu.rows[menu.at + 1]
           /\ Has(menu, SelectedItem(menu))
<1>1. menu.rows \in Seq(Row) /\ menu.at \in Nat BY DEF Menu
<1>2. menu.at + 1 \in 1 .. Len(menu.rows) /\ menu.rows # <<>> BY <1>1
<1> QED BY <1>1, <1>2 DEF SelectedItem, Has

\* Looking a row up keeps the rows, and finds one that is there.
LEMMA SelectType ==
    ASSUME NEW menu \in Menu, menu.at < Len(menu.rows), NEW id
    PROVE  LET new == SelectItemById(menu, id) IN
           /\ new \in Menu /\ new.rows = menu.rows /\ new.at < Len(menu.rows)
           /\ Has(menu, id) => SelectedItem(new) = id
<1>1. menu.rows \in Seq(Row) /\ menu.at \in Nat BY DEF Menu
<1>2. CASE ~ Has(menu, id) BY <1>2 DEF SelectItemById
<1>3. CASE Has(menu, id)
  <2> DEFINE k == CHOOSE i \in DOMAIN menu.rows : menu.rows[i] = id
  <2>1. k \in DOMAIN menu.rows /\ menu.rows[k] = id BY <1>3 DEF Has
  <2>2. k \in 1 .. Len(menu.rows) BY <1>1, <2>1
  <2>3. SelectItemById(menu, id) = [menu EXCEPT !.at = k - 1] BY <1>3 DEF SelectItemById
  <2>4. SelectItemById(menu, id) \in Menu
        /\ SelectItemById(menu, id).rows = menu.rows
        /\ SelectItemById(menu, id).at = k - 1
    <3> HIDE DEF k
    <3> QED BY <2>2, <2>3, <1>1 DEF Menu
  <2>5. SelectItemById(menu, id).at + 1 = k /\ menu.rows # <<>>
    <3> HIDE DEF k
    <3> QED BY <2>2, <2>4, <1>1
  <2>6. SelectedItem(SelectItemById(menu, id)) = id
    <3> HIDE DEF k
    <3> QED BY <2>1, <2>4, <2>5 DEF SelectedItem
  <2>7. SelectItemById(menu, id).at < Len(menu.rows)
    <3> HIDE DEF k
    <3> QED BY <2>2, <2>4, <1>1
  <2> QED BY <2>4, <2>6, <2>7
<1> QED BY <1>2, <1>3

\* A rebuilt menu has the new rows and selects one of them.
LEMMA RebuiltType ==
    ASSUME NEW menu, NEW rows \in Seq(Row), Len(rows) \in Nat \ {0}, NEW a, NEW b
    PROVE  LET new == Rebuilt(menu, rows, a, b) IN
           new \in Menu /\ new.rows = rows /\ new.at < Len(rows)
<1>1. SetItems(rows) \in Menu /\ SetItems(rows).rows = rows /\ SetItems(rows).at < Len(rows)
  BY SetItemsType
<1>2. \A id : /\ SelectItemById(SetItems(rows), id) \in Menu
              /\ SelectItemById(SetItems(rows), id).rows = rows
              /\ SelectItemById(SetItems(rows), id).at < Len(rows)
  BY <1>1, SelectType
<1> QED BY <1>1, <1>2 DEF Rebuilt

\* Moving the selection stays within the rows.
LEMMA MoveType ==
    ASSUME NEW menu \in Menu, menu.at < Len(menu.rows), NEW by \in {-1, 1}
    PROVE  LET new == MoveSelection(menu, by) IN
           new \in Menu /\ new.rows = menu.rows /\ new.at < Len(menu.rows)
<1>1. menu.rows \in Seq(Row) /\ menu.at \in Nat /\ Len(menu.rows) \in Nat \ {0} /\ menu.rows # <<>>
  BY DEF Menu
<1>2. (menu.at + by) % Len(menu.rows) \in 0 .. Len(menu.rows) - 1
  BY <1>1
<1>3. MoveSelection(menu, by) = [menu EXCEPT !.at = (menu.at + by) % Len(menu.rows)]
  BY <1>1 DEF MoveSelection
<1> HIDE DEF MoveSelection
<1> QED BY <1>1, <1>2, <1>3 DEF Menu

\* The listing of a folder names files of it only.
LEMMA InOrderFiles ==
    ASSUME NEW there \in SUBSET File
    PROVE  InOrder(there) \in Seq(there) /\ Range(InOrder(there)) \subseteq there
<1> DEFINE a == there \cap Art
<1>1. IsFiniteSet(a) BY ArtAssumption, FS_Subset
<1>2. Cardinality(a) \in Nat /\ ExistsBijection(1 .. Cardinality(a), a) BY <1>1, FS_CardinalityType
<1>3. SetToSeq(a) \in [1 .. Cardinality(a) -> a]
  <2>1. \E f \in [1 .. Cardinality(a) -> a] : IsInjective(f)
    BY <1>2 DEF ExistsBijection, Bijection, Injection
  <2> QED BY <2>1 DEF SetToSeq
<1>4. SetToSeq(a) \in Seq(there)
  <2>1. SetToSeq(a) \in [1 .. Cardinality(a) -> there] BY <1>3
  <2>2. Seq(there) = UNION {[1 .. n -> there] : n \in Nat} BY SeqDef
  <2> HIDE DEF a
  <2> QED BY <1>2, <2>1, <2>2
<1>5. \A f : IfThere(f, there) \in Seq(there) BY DEF IfThere
<1>6. InOrder(there) \in Seq(there)
  <2> HIDE DEF a
  <2> QED BY <1>4, <1>5, ConcatProperties DEF InOrder, a
<1>7. Range(InOrder(there)) \subseteq there BY <1>6 DEF Range
<1> QED BY <1>6, <1>7

-----------------------------------------------------------------------------
(* What commands make of a page.                                           *)

\* The page as the program starts.
LEMMA InitialShown == Shown(InitialPage)
<1>1. NoMenu \in Menu BY SetItemsType, EmptySeq DEF NoMenu
<1>2. InitialPage \in SettingsState
  BY <1>1, FourCategories, LogAssumption DEF InitialPage, SettingsState, Category
<1> QED BY <1>2 DEF Shown, Settled, Matching, InitialPage

\* Closing a modal keeps the page.
LEMMA CloseModalShown ==
    ASSUME NEW p, Shown(p)
    PROVE  Shown(CloseModal(p)) /\ CloseModal(p).files = p.files
<1>1. CloseModal(p) \in SettingsState /\ CloseModal(p).modal = "none"
      /\ CloseModal(p).screen = p.screen /\ CloseModal(p).files = p.files
      /\ CloseModal(p).menu = p.menu /\ CloseModal(p).detail = p.detail
      /\ CloseModal(p).category = p.category
  BY DEF Shown, CloseModal, SettingsState
<1> QED BY <1>1 DEF Shown, Settled, Matching

\* rebuild_menu keeps the two menus in step when the preferred row is no
\* category, or is the category that is shown.
LEMMA RebuildMenuShown ==
    ASSUME NEW p \in SettingsState, Settled(p), p.screen = "settings",
           p.menu.rows = Categories, p.menu.at < 4, SelectedItem(p.menu) = p.category,
           NEW preferred, preferred \notin Category \/ (preferred = p.category /\ Matching(p))
    PROVE  Shown(RebuildMenu(p, preferred)) /\ RebuildMenu(p, preferred).files = p.files
<1> DEFINE every == SetItems(Categories)
           chosen == SelectItemById(every, preferred)
           kept == SelectItemById(every, SelectedItem(p.menu))
           detail == Rebuilt(p.detail, Detail(p.category, p.files), preferred, SelectedItem(p.detail))
<1>1. p.menu \in Menu /\ p.category \in Category /\ p.files \in Seq(File)
  BY DEF SettingsState, Category
<1>2. every \in Menu /\ every.rows = Categories /\ every.at = 0 /\ every.at < Len(every.rows)
  <2>1. Categories \in Seq(Row) /\ Len(Categories) = 4 BY FourCategories
  <2>2. every \in Menu /\ every.rows = Categories /\ every.at = 0 BY <2>1, SetItemsType
  <2> HIDE DEF every
  <2>3. every.at < Len(every.rows)
    <3>1. 0 < Len(Categories) BY <2>1
    <3>2. Len(every.rows) = Len(Categories) BY <2>2
    <3> QED BY <2>2, <3>1, <3>2
  <2> QED BY <2>2, <2>3
<1>3. Has(every, p.category)
  BY <1>1, <1>2, FourCategories DEF Has
<1>4. chosen \in Menu /\ chosen.rows = Categories /\ chosen.at < 4
  BY <1>2, SelectType, FourCategories
<1>5. kept \in Menu /\ kept.rows = Categories /\ kept.at < 4 /\ SelectedItem(kept) = p.category
  <2> HIDE DEF every
  <2>1. Len(every.rows) = 4 BY <1>2, FourCategories
  <2>2. Has(every, SelectedItem(p.menu)) BY <1>3
  <2> QED BY <1>2, <2>1, <2>2, SelectType
<1>6. detail \in Menu /\ detail.rows = Detail(p.category, p.files) /\ detail.at < Len(detail.rows)
  <2>1. Detail(p.category, p.files) \in Seq(Row) /\ Len(Detail(p.category, p.files)) \in Nat \ {0}
    BY <1>1, DetailRows
  <2> QED BY <2>1, RebuiltType
<1>7. CASE Selects(every, preferred)
  <2>1. preferred = p.category /\ Matching(p)
    <3>1. Has(every, preferred) BY <1>7 DEF Selects, SelectItemById
    <3>2. preferred \in Category BY <1>2, <3>1, FourCategories DEF Has
    <3> QED BY <3>2
  <2>2. SelectedItem(chosen) = p.category BY <1>2, <1>3, <2>1, SelectType
  <2>3. RebuildMenu(p, preferred) = [p EXCEPT !.menu = chosen] BY <1>7 DEF RebuildMenu
  <2> HIDE DEF chosen
  <2>4. [p EXCEPT !.menu = chosen] \in SettingsState BY <1>4 DEF SettingsState
  <2> QED BY <1>4, <2>1, <2>2, <2>3, <2>4 DEF Shown, Settled, Matching, SettingsState
<1>8. CASE ~ Selects(every, preferred)
  <2>1. RebuildMenu(p, preferred) = [p EXCEPT !.menu = kept, !.detail = detail] BY <1>8 DEF RebuildMenu
  <2> HIDE DEF kept, detail
  <2>2. [p EXCEPT !.menu = kept, !.detail = detail] \in SettingsState BY <1>5, <1>6 DEF SettingsState
  <2> QED BY <1>5, <1>6, <2>1, <2>2 DEF Shown, Settled, Matching, SettingsState
<1> QED BY <1>7, <1>8

\* The row that is selected on the right names no category.
LEMMA RowIsNoCategory ==
    ASSUME NEW p, Shown(p), p.screen = "settings"
    PROVE  SelectedItem(p.detail) \in Row \ (Category \cup {"none"})
<1>1. p.detail \in Menu /\ p.category \in Category /\ p.files \in Seq(File)
  BY DEF Shown, SettingsState, Category
<1>2. p.detail.rows = Detail(p.category, p.files) /\ p.detail.at < Len(p.detail.rows)
  BY DEF Shown, Matching
<1>3. /\ p.detail.at + 1 \in DOMAIN p.detail.rows
      /\ SelectedItem(p.detail) = p.detail.rows[p.detail.at + 1]
  BY <1>1, <1>2, SelectedType
<1>4. p.detail.rows \in Seq(Row \ (Category \cup {"none"}))
  BY <1>1, <1>2, DetailRows
<1> QED BY <1>3, <1>4

\* A refresh lists what is there, and changes nothing when none is due.
LEMMA RefreshedShown ==
    ASSUME NEW p, Shown(p), NEW there \in SUBSET File, NEW q \in Refreshed(p, there)
    PROVE  /\ Shown(q)
           /\ p.screen = "settings" /\ p.refresh => Range(q.files) \subseteq there
           /\ ~ (p.screen = "settings" /\ p.refresh) => q = p
<1>1. CASE p.screen # "settings" \/ ~ p.refresh BY <1>1 DEF Refreshed
<1>2. CASE p.screen = "settings" /\ p.refresh
  <2>1. PICK listing \in Listings(there) :
          q = RebuildMenu([p EXCEPT !.files = listing, !.refresh = FALSE], SelectedItem(p.detail))
    BY <1>2 DEF Refreshed
  <2> DEFINE r == [p EXCEPT !.files = listing, !.refresh = FALSE]
  <2>2. listing \in Seq(File) /\ Range(listing) \subseteq there
    <3>1. there \ Art \in SUBSET File OBVIOUS
    <3>2. /\ InOrder(there) \in Seq(there) /\ Range(InOrder(there)) \subseteq there
          /\ InOrder(there \ Art) \in Seq(there \ Art) /\ Range(InOrder(there \ Art)) \subseteq there \ Art
      BY <3>1, InOrderFiles
    <3>3. InOrder(there) \in Seq(File) /\ InOrder(there \ Art) \in Seq(File) BY <3>2
    <3> QED BY <2>1, <3>2, <3>3 DEF Listings
  <2>3. r \in SettingsState /\ r.screen = "settings" /\ r.menu = p.menu /\ r.category = p.category
        /\ r.files = listing /\ r.modal = p.modal /\ r.target = p.target
    BY <1>2, <2>2 DEF Shown, SettingsState
  <2>4. SelectedItem(p.detail) \notin Category BY <1>2, RowIsNoCategory
  <2>5. r.menu.rows = Categories /\ r.menu.at < 4 /\ SelectedItem(r.menu) = r.category /\ Settled(r)
    BY <1>2, <2>3 DEF Shown, Matching, Settled
  <2> HIDE DEF r
  <2> DEFINE row == SelectedItem(p.detail)
  <2> HIDE DEF row
  <2>6. row \notin Category BY <2>4 DEF row
  <2>7. Shown(RebuildMenu(r, row)) /\ RebuildMenu(r, row).files = r.files
    <3>1. /\ r \in SettingsState /\ Settled(r) /\ r.screen = "settings" /\ r.menu.rows = Categories
          /\ r.menu.at < 4 /\ SelectedItem(r.menu) = r.category
      BY <2>3, <2>5
    <3> QED BY <3>1, <2>6, RebuildMenuShown
  <2> QED BY <1>2, <2>1, <2>2, <2>3, <2>7 DEF r, row
<1> QED BY <1>1, <1>2

\* Entering the page.
LEMMA EnterShown == Shown(EnterSettings) /\ EnterSettings.files = <<>>
<1> DEFINE menu == SetItems(Categories)
           detail == SetItems(Detail("logging", <<>>))
<1>1. Categories \in Seq(Row) /\ Len(Categories) = 4 /\ Categories[1] = "logging" /\ "logging" \in Category
  BY FourCategories
<1>2. <<>> \in Seq(File) BY EmptySeq
<1>3. Detail("logging", <<>>) \in Seq(Row \ (Category \cup {"none"}))
      /\ Len(Detail("logging", <<>>)) \in Nat \ {0}
  BY <1>1, <1>2, DetailRows
<1>4. Detail("logging", <<>>) \in Seq(Row) BY <1>3
<1>5. menu \in Menu /\ menu.rows = Categories /\ menu.at = 0 BY <1>1, SetItemsType
<1>6. detail \in Menu /\ detail.rows = Detail("logging", <<>>) /\ detail.at = 0 BY <1>4, SetItemsType
<1>7. SelectedItem(menu) = "logging"
  <2> HIDE DEF menu
  <2>1. Categories # <<>> BY <1>1
  <2> QED BY <1>1, <1>5, <2>1 DEF SelectedItem
<1> HIDE DEF menu, detail
<1>8. EnterSettings = [InitialPage EXCEPT !.screen = "settings", !.menu = menu, !.detail = detail]
  BY <1>1 DEF EnterSettings, menu, detail
<1>9. EnterSettings \in SettingsState
  BY <1>5, <1>6, <1>8, InitialShown DEF Shown, SettingsState
<1>10. /\ EnterSettings.screen = "settings" /\ EnterSettings.menu = menu /\ EnterSettings.detail = detail
       /\ EnterSettings.category = "logging" /\ EnterSettings.files = <<>> /\ EnterSettings.modal = "none"
  BY <1>8 DEF InitialPage
<1> QED BY <1>3, <1>5, <1>6, <1>7, <1>9, <1>10 DEF Shown, Settled, Matching

\* Leaving the page.
LEMMA LeaveShown ==
    ASSUME NEW p, Shown(p)
    PROVE  Shown(LeaveSettings(p)) /\ LeaveSettings(p).files = <<>>
<1>1. InitialPage \in SettingsState /\ p.category \in Range(Categories)
  BY InitialShown DEF Shown, SettingsState
<1>2. LeaveSettings(p) \in SettingsState
  BY <1>1 DEF LeaveSettings, SettingsState
<1>3. LeaveSettings(p).screen = "hosts" /\ LeaveSettings(p).modal = "none" /\ LeaveSettings(p).files = <<>>
  BY DEF LeaveSettings, InitialPage
<1> QED BY <1>2, <1>3 DEF Shown, Settled, Matching

\* Moving on the left shows the rows of the new category.
LEMMA ShowCategoryShown ==
    ASSUME NEW p, Shown(p), p.screen = "settings", NEW by \in {-1, 1}
    PROVE  LET q == ShowCategory([p EXCEPT !.menu = MoveSelection(@, by)]) IN
           Shown(q) /\ q.files = p.files
<1> DEFINE menu == MoveSelection(p.menu, by)
           category == SelectedItem(menu)
           detail == SetItems(Detail(category, p.files))
           r == [p EXCEPT !.menu = menu]
<1>1. p.menu \in Menu /\ p.files \in Seq(File) /\ p.menu.rows = Categories /\ p.menu.at < 4
  BY DEF Shown, SettingsState, Matching
<1>2. menu \in Menu /\ menu.rows = Categories /\ menu.at < 4
  BY <1>1, MoveType, FourCategories
<1>3. category \in Category
  <2> HIDE DEF menu
  <2>1. menu.at + 1 \in DOMAIN menu.rows /\ SelectedItem(menu) = menu.rows[menu.at + 1]
    BY <1>2, SelectedType, FourCategories
  <2> QED BY <1>2, <2>1 DEF Category, Range
<1> HIDE DEF menu, category
<1>4. Detail(category, p.files) \in Seq(Row) /\ Len(Detail(category, p.files)) \in Nat \ {0}
  BY <1>1, <1>3, DetailRows
<1>5. detail \in Menu /\ detail.rows = Detail(category, p.files) /\ detail.at = 0
  BY <1>4, SetItemsType
<1>6. r \in SettingsState /\ r.menu = menu /\ r.files = p.files
  BY <1>2 DEF Shown, SettingsState
<1>7. ShowCategory(r) = [r EXCEPT !.category = category, !.detail = detail]
  BY <1>6 DEF ShowCategory, category
<1> DEFINE q == ShowCategory(r)
<1> HIDE DEF detail
<1>8. q \in SettingsState
  BY <1>3, <1>5, <1>6, <1>7 DEF SettingsState, Category
<1>9. /\ q.screen = p.screen /\ q.modal = p.modal /\ q.target = p.target /\ q.files = p.files
      /\ q.menu = menu /\ q.category = category /\ q.detail = detail
      /\ q.lines = p.lines /\ q.offset = p.offset
  BY <1>6, <1>7 DEF Shown, SettingsState
<1>10. r = [p EXCEPT !.menu = MoveSelection(@, by)] BY DEF menu
<1> HIDE DEF q, r
<1>11. Shown(q)
  BY <1>2, <1>4, <1>5, <1>8, <1>9 DEF Shown, Settled, Matching, category
<1> QED BY <1>9, <1>10, <1>11 DEF q

-----------------------------------------------------------------------------
(* The steps.                                                              *)

\* A step that changes the page only, and not its files, keeps the invariant.
LEMMA ShowsKeeps ==
    ASSUME PageInv, NEW p, Shown(p), p.files = page.files \/ p.files = <<>>, Shows(p)
    PROVE  PageInv'
<1>1. page' = p /\ disk' = disk /\ halfReset' = halfReset BY DEF Shows
<1>2. Range(<<>>) = {} BY DEF Range
<1> QED BY <1>1, <1>2 DEF PageInv, Shown, Settled, Matching, ListedOnDisk

\* The page is opened from the toolbar.
LEMMA OpenStep ==
    ASSUME PageInv, Open PROVE PageInv'
<1>1. page' \in Refreshed(EnterSettings, disk) /\ disk \in SUBSET File /\ disk' = disk /\ halfReset' = FALSE
  BY DEF Open, PageInv
<1>2. EnterSettings.screen = "settings" /\ EnterSettings.refresh BY DEF EnterSettings, InitialPage
<1>3. Shown(page') /\ Range(page'.files) \subseteq disk
  BY <1>1, <1>2, EnterShown, RefreshedShown
<1> QED BY <1>1, <1>3 DEF PageInv, ListedOnDisk, Shown, Settled, Matching

\* Commands on the left.
LEMMA CategoriseStep ==
    ASSUME PageInv, NEW c, Categorise(c) PROVE PageInv'
<1>1. Shown(page) /\ page.screen = "settings" BY DEF PageInv, Categorise, OnPage
<1>2. CASE c = "back" /\ Shows(LeaveSettings(page))
  BY <1>1, <1>2, LeaveShown, ShowsKeeps
<1>3. CASE /\ c \in {"move_up", "move_down"}
           /\ Shows(ShowCategory([page EXCEPT !.menu = MoveSelection(@, IF c = "move_up" THEN -1 ELSE 1)]))
  <2> DEFINE by == IF c = "move_up" THEN -1 ELSE 1
             q == ShowCategory([page EXCEPT !.menu = MoveSelection(@, by)])
  <2>1. by \in {-1, 1} OBVIOUS
  <2> HIDE DEF by
  <2>2. Shown(q) /\ q.files = page.files BY <1>1, <2>1, ShowCategoryShown
  <2>3. Shows(q) BY <1>3 DEF by
  <2> HIDE DEF q
  <2> QED BY <2>2, <2>3, ShowsKeeps
<1>4. CASE /\ c = "activate"
           /\ Shows([RebuildMenu([page EXCEPT !.category = SelectedItem(page.menu)], SelectedItem(page.menu))
                       EXCEPT !.focus = "options"])
  <2>1. page \in SettingsState /\ SelectedItem(page.menu) = page.category BY <1>1 DEF Shown, Matching
  <2>2. [page EXCEPT !.category = page.category] = page BY <2>1 DEF SettingsState
  <2> DEFINE r == RebuildMenu(page, page.category)
             q == [r EXCEPT !.focus = "options"]
  <2>3. Shows(q) BY <1>4, <2>1, <2>2
  <2>4. Shown(r) /\ r.files = page.files
    BY <1>1, RebuildMenuShown DEF Shown, Matching
  <2> HIDE DEF r
  <2>5. q \in SettingsState /\ q.files = r.files /\ q.screen = r.screen /\ q.modal = r.modal /\ q.target = r.target
        /\ q.menu = r.menu /\ q.category = r.category /\ q.detail = r.detail
        /\ q.lines = r.lines /\ q.offset = r.offset
    BY <2>4 DEF Shown, SettingsState
  <2> HIDE DEF q
  <2>6. Shown(q) BY <2>4, <2>5 DEF Shown, Settled, Matching
  <2> QED BY <2>3, <2>4, <2>5, <2>6, ShowsKeeps
<1>5. CASE c = "move_right" /\ Shows([page EXCEPT !.focus = "options"])
  <2> DEFINE q == [page EXCEPT !.focus = "options"]
  <2>1. q \in SettingsState /\ q.files = page.files /\ q.screen = page.screen /\ q.modal = page.modal
        /\ q.target = page.target /\ q.menu = page.menu /\ q.category = page.category /\ q.detail = page.detail
        /\ q.lines = page.lines /\ q.offset = page.offset
    BY <1>1 DEF Shown, SettingsState
  <2> HIDE DEF q
  <2>2. Shown(q) BY <1>1, <2>1 DEF Shown, Settled, Matching
  <2>3. Shows(q) BY <1>5 DEF q
  <2> QED BY <2>1, <2>2, <2>3, ShowsKeeps
<1> QED BY <1>2, <1>3, <1>4, <1>5 DEF Categorise

\* Writing the settings file takes no file away.
LEMMA SavedKeeps ==
    ASSUME PageInv, SettingsSaved, NEW p, Shown(p), p.files = page.files, page' = p
    PROVE  PageInv'
<1>1. disk' \subseteq File /\ disk \subseteq disk' /\ halfReset' = halfReset
  BY DEF SettingsSaved, File, PageInv
<1>2. Shown(page') /\ page'.files = page.files OBVIOUS
<1> QED BY <1>1, <1>2 DEF PageInv, ListedOnDisk, Shown, Settled, Matching

\* A row on the right is chosen.
LEMMA ActivateStep ==
    ASSUME PageInv, OnPage, NEW row \in Row \ (Category \cup {"none"}), Activate(row)
    PROVE  PageInv'
<1>1. Shown(page) /\ page.screen = "settings" BY DEF PageInv, OnPage
<1>2. CASE \E n \in LogLength : Shows(OpenLog(page, n))
  <2>1. PICK n \in LogLength : Shows(OpenLog(page, n)) BY <1>2
  <2>2. n \in 0 .. LogLines /\ n > 0 BY LogAssumption DEF LogLength
  <2> DEFINE q == OpenLog(page, n)
  <2>3. q \in SettingsState /\ q.files = page.files /\ q.screen = page.screen /\ q.modal = "log_viewer"
        /\ q.target = page.target /\ q.menu = page.menu /\ q.category = page.category /\ q.detail = page.detail
        /\ q.lines = n /\ q.offset = 0
    BY <1>1, <2>2, LogAssumption DEF OpenLog, Shown, SettingsState
  <2> HIDE DEF q
  <2>4. Shown(q) BY <1>1, <2>2, <2>3 DEF Shown, Settled, Matching
  <2>5. Shows(q) BY <2>1 DEF q
  <2> QED BY <2>3, <2>4, <2>5, ShowsKeeps
<1>3. CASE page' = RebuildMenu(page, row) /\ SettingsSaved
  <2>1. Shown(RebuildMenu(page, row)) /\ RebuildMenu(page, row).files = page.files
    BY <1>1, RebuildMenuShown DEF Shown, Matching
  <2> QED BY <1>3, <2>1, SavedKeeps
<1>4. CASE row \in File \cup {"factory-reset"}
           /\ Shows([page EXCEPT !.modal = "confirmation", !.no = FALSE, !.target = row])
  <2> DEFINE q == [page EXCEPT !.modal = "confirmation", !.no = FALSE, !.target = row]
  <2>1. q \in SettingsState /\ q.files = page.files /\ q.screen = page.screen /\ q.modal = "confirmation"
        /\ q.target = row /\ q.menu = page.menu /\ q.category = page.category /\ q.detail = page.detail
        /\ q.lines = page.lines /\ q.offset = page.offset
    BY <1>1, <1>4 DEF Shown, SettingsState
  <2> HIDE DEF q
  <2>2. Shown(q) BY <1>1, <2>1 DEF Shown, Settled, Matching
  <2>3. Shows(q) BY <1>4 DEF q
  <2> QED BY <2>1, <2>2, <2>3, ShowsKeeps
<1>5. CASE Shows(page) BY <1>1, <1>5, ShowsKeeps
<1> QED BY <1>2, <1>3, <1>4, <1>5 DEF Activate

\* Commands on the right.
LEMMA ChooseStep ==
    ASSUME PageInv, NEW c, Choose(c) PROVE PageInv'
<1>1. Shown(page) /\ page.screen = "settings" BY DEF PageInv, Choose, OnPage
<1>2. CASE Shows([page EXCEPT !.focus = "categories"])
  <2> DEFINE q == [page EXCEPT !.focus = "categories"]
  <2>1. q \in SettingsState /\ q.files = page.files /\ q.screen = page.screen /\ q.modal = page.modal
        /\ q.target = page.target /\ q.menu = page.menu /\ q.category = page.category /\ q.detail = page.detail
        /\ q.lines = page.lines /\ q.offset = page.offset
    BY <1>1 DEF Shown, SettingsState
  <2> HIDE DEF q
  <2>2. Shown(q) BY <1>1, <2>1 DEF Shown, Settled, Matching
  <2>3. Shows(q) BY <1>2 DEF q
  <2> QED BY <2>1, <2>2, <2>3, ShowsKeeps
<1>3. CASE Shows([page EXCEPT !.detail = MoveSelection(@, IF c = "move_up" THEN -1 ELSE 1)])
  <2> DEFINE by == IF c = "move_up" THEN -1 ELSE 1
             detail == MoveSelection(page.detail, by)
             q == [page EXCEPT !.detail = detail]
  <2>1. by \in {-1, 1} OBVIOUS
  <2> HIDE DEF by
  <2>2. page.detail \in Menu /\ page.detail.at < Len(page.detail.rows)
    BY <1>1 DEF Shown, SettingsState, Matching
  <2>3. detail \in Menu /\ detail.rows = page.detail.rows /\ detail.at < Len(page.detail.rows)
    BY <2>1, <2>2, MoveType
  <2>4. Shows(q) BY <1>3 DEF by
  <2> HIDE DEF detail
  <2>5. q \in SettingsState /\ q.files = page.files /\ q.screen = page.screen /\ q.modal = page.modal
        /\ q.target = page.target /\ q.menu = page.menu /\ q.category = page.category /\ q.detail = detail
        /\ q.lines = page.lines /\ q.offset = page.offset
    BY <1>1, <2>3 DEF Shown, SettingsState
  <2> HIDE DEF q
  <2>6. Shown(q) BY <1>1, <2>3, <2>5 DEF Shown, Settled, Matching
  <2> QED BY <2>4, <2>5, <2>6, ShowsKeeps
<1>4. CASE Activate(SelectedItem(page.detail))
  <2>1. SelectedItem(page.detail) \in Row \ (Category \cup {"none"}) BY <1>1, RowIsNoCategory
  <2>2. OnPage BY DEF Choose
  <2> QED BY <1>4, <2>1, <2>2, ActivateStep
<1> QED BY <1>2, <1>3, <1>4 DEF Choose

\* Scrolling stays within the log.
LEMMA ScrollShown ==
    ASSUME NEW p, Shown(p), p.modal = "log_viewer", NEW older \in BOOLEAN, NEW step \in Nat
    PROVE  Shown(Scroll(p, older, step)) /\ Scroll(p, older, step).files = p.files
<1> DEFINE offset == IF older THEN (IF p.offset + step > p.lines - 1 THEN p.lines - 1 ELSE p.offset + step)
                     ELSE IF p.offset > step THEN p.offset - step ELSE 0
           q == [p EXCEPT !.offset = offset]
<1>1. p.offset \in Nat /\ p.lines \in 1 .. LogLines BY DEF Shown, SettingsState, Settled
<1>2. offset \in Nat /\ offset < p.lines
  <2>1. p.lines \in Nat /\ p.lines > 0 /\ p.offset < p.lines BY <1>1, LogAssumption DEF Shown, Settled
  <2>2. CASE older
    <3>1. CASE p.offset + step > p.lines - 1 BY <1>1, <2>1, <2>2, <3>1
    <3>2. CASE ~ (p.offset + step > p.lines - 1) BY <1>1, <2>1, <2>2, <3>2
    <3> QED BY <3>1, <3>2
  <2>3. CASE ~ older
    <3>1. CASE p.offset > step BY <1>1, <2>1, <2>3, <3>1
    <3>2. CASE ~ (p.offset > step) BY <1>1, <2>1, <2>3, <3>2
    <3> QED BY <3>1, <3>2
  <2> QED BY <2>2, <2>3
<1>3. Scroll(p, older, step) = q BY DEF Scroll
<1> HIDE DEF offset
<1>4. q \in SettingsState /\ q.files = p.files /\ q.screen = p.screen /\ q.modal = p.modal /\ q.lines = p.lines
      /\ q.target = p.target /\ q.menu = p.menu /\ q.category = p.category /\ q.detail = p.detail /\ q.offset = offset
  BY <1>2 DEF Shown, SettingsState
<1> HIDE DEF q
<1> QED BY <1>2, <1>3, <1>4 DEF Shown, Settled, Matching

\* Commands of the log viewer.
LEMMA LogStep ==
    ASSUME PageInv, NEW c, LogCommand(c) PROVE PageInv'
<1>1. Shown(page) /\ page.modal = "log_viewer" BY DEF PageInv, LogCommand
<1>2. CASE Shows(CloseModal(page)) BY <1>1, <1>2, CloseModalShown, ShowsKeeps
<1>3. CASE Shows(Scroll(page, c = "page_up", 1))
  <2> DEFINE older == c = "page_up"
  <2>1. older \in BOOLEAN OBVIOUS
  <2> HIDE DEF older
  <2>2. Shown(Scroll(page, older, 1)) /\ Scroll(page, older, 1).files = page.files
    BY <1>1, <2>1, ScrollShown
  <2> QED BY <1>3, <2>2, ShowsKeeps DEF older
<1>4. CASE Shows(Scroll(page, c = "fast_up", 3))
  <2> DEFINE older == c = "fast_up"
  <2>1. older \in BOOLEAN OBVIOUS
  <2> HIDE DEF older
  <2>2. Shown(Scroll(page, older, 3)) /\ Scroll(page, older, 3).files = page.files
    BY <1>1, <2>1, ScrollShown
  <2> QED BY <1>4, <2>2, ShowsKeeps DEF older
<1>5. CASE SettingsSaved /\ UNCHANGED page
  BY <1>1, <1>5, SavedKeeps
<1> QED BY <1>2, <1>3, <1>4, <1>5 DEF LogCommand

\* Deleting a file lists the files again, or leaves file and list alone.
LEMMA DeleteStep ==
    ASSUME PageInv, page.modal = "confirmation", NEW f, DeleteFile(f) PROVE PageInv'
<1> DEFINE closed == CloseModal(page)
           marked == [closed EXCEPT !.refresh = TRUE]
<1>1. Shown(page) /\ page.screen = "settings" BY DEF PageInv, Shown, Settled, SettingsState
<1>2. Shown(closed) /\ closed.files = page.files /\ closed.screen = "settings"
  BY <1>1, CloseModalShown DEF CloseModal, Shown, SettingsState
<1>3. CASE /\ disk' = disk \ {f}
           /\ page' \in Refreshed(marked, disk')
           /\ halfReset' = FALSE
  <2> HIDE DEF closed
  <2>1. marked \in SettingsState /\ marked.files = closed.files /\ marked.screen = "settings" /\ marked.refresh
        /\ marked.modal = closed.modal /\ marked.lines = closed.lines /\ marked.target = closed.target
        /\ marked.menu = closed.menu /\ marked.category = closed.category /\ marked.detail = closed.detail
        /\ marked.offset = closed.offset
    BY <1>2 DEF Shown, SettingsState
  <2> HIDE DEF marked
  <2>2. Shown(marked) BY <1>2, <2>1 DEF Shown, Settled, Matching
  <2>3. disk' \in SUBSET File BY <1>3 DEF PageInv
  <2>4. Shown(page') /\ Range(page'.files) \subseteq disk'
    BY <1>3, <2>1, <2>2, <2>3, RefreshedShown
  <2> QED BY <1>3, <2>3, <2>4 DEF PageInv, ListedOnDisk, Shown, Settled, Matching
<1>4. CASE Shows(closed) BY <1>2, <1>4, ShowsKeeps
<1> QED BY <1>3, <1>4 DEF DeleteFile

\* A factory reset.
LEMMA ResetStep ==
    ASSUME PageInv, FactoryReset PROVE PageInv'
<1>1. CASE disk' \in {{}, {"log"}} /\ page' = InitialPage /\ halfReset' = FALSE
  <2>1. Shown(page') /\ Range(page'.files) = {} BY <1>1, InitialShown DEF InitialPage, Range
  <2>2. disk' \subseteq File BY <1>1 DEF File
  <2> QED BY <1>1, <2>1, <2>2 DEF PageInv, ListedOnDisk, Shown, Settled, Matching
<1>2. CASE (\E left \in SUBSET disk : left # {} /\ disk' = left) /\ page' = CloseModal(page) /\ halfReset' = TRUE
  <2>1. Shown(page') /\ disk' \subseteq File BY <1>2, CloseModalShown DEF PageInv
  <2> QED BY <1>2, <2>1 DEF PageInv, ListedOnDisk, Shown, Settled, Matching
<1> QED BY <1>1, <1>2 DEF FactoryReset

\* Commands of a confirmation.
LEMMA ConfirmStep ==
    ASSUME PageInv, NEW c, Confirm(c) PROVE PageInv'
<1>1. Shown(page) /\ page.modal = "confirmation" BY DEF PageInv, Confirm
<1>2. CASE Shows([page EXCEPT !.no = ~ @])
  <2> DEFINE q == [page EXCEPT !.no = ~ @]
  <2>1. q \in SettingsState /\ q.files = page.files /\ q.screen = page.screen /\ q.modal = page.modal
        /\ q.target = page.target /\ q.menu = page.menu /\ q.category = page.category /\ q.detail = page.detail
        /\ q.lines = page.lines /\ q.offset = page.offset
    BY <1>1 DEF Shown, SettingsState
  <2> HIDE DEF q
  <2>2. Shown(q) BY <1>1, <2>1 DEF Shown, Settled, Matching
  <2>3. Shows(q) BY <1>2 DEF q
  <2> QED BY <2>1, <2>2, <2>3, ShowsKeeps
<1>3. CASE Shows(CloseModal(page)) BY <1>1, <1>3, CloseModalShown, ShowsKeeps
<1>4. CASE FactoryReset BY <1>4, ResetStep
<1>5. CASE DeleteFile(page.target) BY <1>1, <1>5, DeleteStep
<1> QED BY <1>2, <1>3, <1>4, <1>5 DEF Confirm

\* Other parts of the program write files.
LEMMA WrittenStep ==
    ASSUME PageInv, Written PROVE PageInv'
<1>1. disk \subseteq disk' /\ disk' \subseteq File /\ page' = page /\ halfReset' = halfReset
  BY DEF Written, PageInv
<1> QED BY <1>1 DEF PageInv, ListedOnDisk, Shown, Settled, Matching

\* The start of a frame lists the files again if that is due.
LEMMA FrameStep ==
    ASSUME PageInv, Frame PROVE PageInv'
<1>1. page' \in Refreshed(page, disk) /\ disk' = disk /\ disk \in SUBSET File /\ Shown(page)
      /\ halfReset' = (halfReset /\ page' = page)
  BY DEF Frame, PageInv
<1>2. Shown(page') /\ (Range(page'.files) \subseteq disk \/ page' = page)
  BY <1>1, RefreshedShown
<1>3. ListedOnDisk' BY <1>1, <1>2 DEF PageInv, ListedOnDisk
<1>4. halfReset' \in BOOLEAN BY <1>1
<1> QED BY <1>1, <1>2, <1>3, <1>4 DEF PageInv, Shown, Settled, Matching

-----------------------------------------------------------------------------
(* The theorems of the page.                                               *)

\* The invariant holds, for any cover art and any length of the log.
THEOREM PageInvHolds == Spec => []PageInv
<1>1. Init => PageInv
  <2> SUFFICES ASSUME Init PROVE PageInv OBVIOUS
  <2>1. page = InitialPage /\ disk \subseteq File /\ halfReset = FALSE BY DEF Init
  <2>2. Range(page.files) = {} BY <2>1 DEF InitialPage, Range
  <2> QED BY <2>1, <2>2, InitialShown DEF PageInv, ListedOnDisk
<1>2. PageInv /\ [Next]_vars => PageInv'
  <2> SUFFICES ASSUME PageInv, [Next]_vars PROVE PageInv' OBVIOUS
  <2>1. CASE Open BY <2>1, OpenStep
  <2>2. CASE \E c \in {"back", "move_up", "move_down", "activate", "move_right"} : Categorise(c)
    BY <2>2, CategoriseStep
  <2>3. CASE \E c \in {"back", "move_left", "move_up", "move_down", "activate"} : Choose(c)
    BY <2>3, ChooseStep
  <2>4. CASE \E c \in {"back", "activate", "page_up", "page_down", "fast_up", "fast_down", "delete_character"} :
               LogCommand(c)
    BY <2>4, LogStep
  <2>5. CASE \E c \in {"back", "activate", "move_left", "move_right"} : Confirm(c)
    BY <2>5, ConfirmStep
  <2>6. CASE Written BY <2>6, WrittenStep
  <2>7. CASE Frame BY <2>7, FrameStep
  <2>8. CASE UNCHANGED vars
    BY <2>8 DEF vars, PageInv, ListedOnDisk, Shown, Settled, Matching
  <2> QED BY <2>1, <2>2, <2>3, <2>4, <2>5, <2>6, <2>7, <2>8 DEF Next, User
<1> QED BY <1>1, <1>2, PTL DEF Spec

\* The page keeps its types; the offset into the log never runs below its start.
THEOREM TypeCorrect == Spec => []TypeOK
<1>1. PageInv => TypeOK BY DEF PageInv, Shown, TypeOK
<1> QED BY <1>1, PageInvHolds, PTL

\* However the two menus are rebuilt, the rows on the right are those of the
\* category on the left, with the files as listed last.
THEOREM RowsAlwaysMatch == Spec => []RowsMatch
<1>1. PageInv => RowsMatch BY DEF PageInv, Shown, Matching, RowsMatch
<1> QED BY <1>1, PageInvHolds, PTL

\* Unless a factory reset failed half way, no file is offered that is gone.
THEOREM NoFileGone == Spec => []ListedOnDisk
<1>1. PageInv => ListedOnDisk BY DEF PageInv
<1> QED BY <1>1, PageInvHolds, PTL

-----------------------------------------------------------------------------
(* The file.                                                               *)

\* The four settings.
LEMMA FourKeys == Key = {"level", "placement", "mode", "rate"}
<1>1. DOMAIN Keys = 1 .. 4 BY DEF Keys
<1>2. /\ Keys[1] = "level" /\ Keys[2] = "placement" /\ Keys[3] = "mode" /\ Keys[4] = "rate"
  BY DEF Keys
<1> QED BY <1>1, <1>2 DEF Key, Range

\* The members of a list are what its positions hold.
LEMMA InList ==
    ASSUME NEW s, IsList(s), s # <<>>
    PROVE  /\ Len(s) \in Nat \ {0}
           /\ \A i \in 1 .. Len(s) : s[i] \in Range(s)
BY DEF IsList, Range

\* The value after another one in a list is one of the list.
LEMMA AfterIsChoice ==
    ASSUME NEW s, IsList(s), s # <<>>, NEW value
    PROVE  After(s, value) \in Range(s)
<1> DEFINE at == {i \in DOMAIN s : s[i] = value}
<1>1. Len(s) \in Nat \ {0} /\ \A i \in 1 .. Len(s) : s[i] \in Range(s) BY InList
<1>2. CASE at = {} BY <1>1, <1>2 DEF After
<1>3. CASE at # {}
  <2>1. (CHOOSE i \in at : TRUE) \in at BY <1>3
  <2>2. DOMAIN s = 1 .. Len(s) BY DEF IsList
  <2>3. ((CHOOSE i \in at : TRUE) % Len(s)) + 1 \in 1 .. Len(s) BY <1>1, <2>1, <2>2
  <2> QED BY <1>1, <1>3, <2>3 DEF After
<1> QED BY <1>2, <1>3

\* The first choices of all rows are valid.
LEMMA DefaultIsValid ==
    Default \in Values
BY InList, ChoicesAssumption DEF Default, Values, Valid

\* Whatever the file holds, loading it gives settings of the right types.
LEMMA LoadIsValid ==
    ASSUME NEW content \in Content
    PROVE  /\ Load(content) = [level |-> Load(content).level, placement |-> Load(content).placement,
                               mode |-> Load(content).mode, rate |-> Load(content).rate]
           /\ Load(content) \in Values
BY FourKeys, DefaultIsValid DEF Load, Values, Default, Valid, Content

\* What a row shows next is a valid value of it.
LEMMA NextIsValid ==
    ASSUME FileTypeOK, NEW k \in Key
    PROVE  [values EXCEPT ![k] = NextValue[k]] \in Values
<1>1. CASE k = "level"
  BY <1>1, AfterIsChoice, ChoicesAssumption DEF NextValue, FileTypeOK, Values, Valid
<1>2. CASE k = "placement"
  BY <1>2, AfterIsChoice, ChoicesAssumption DEF NextValue, FileTypeOK, Values, Valid
<1>3. CASE k = "rate"
  BY <1>3, AfterIsChoice, ChoicesAssumption DEF NextValue, FileTypeOK, Values, Valid
<1>4. CASE k = "mode"
  <2>1. NextMode \in Valid.mode
    <3>1. CASE modes = <<>> BY <3>1 DEF NextMode, Valid
    <3>2. CASE modes # <<>>
      <4>1. modes \in Offers /\ IsList(modes) BY <3>2, ChoicesAssumption DEF FileTypeOK
      <4>2. NextMode \in Range(modes) BY <3>2, <4>1, AfterIsChoice DEF NextMode
      <4> QED BY <4>1, <4>2 DEF Valid, Mode
    <3> QED BY <3>1, <3>2
  <2> QED BY <1>4, <2>1 DEF NextValue, FileTypeOK, Values
<1> QED BY <1>1, <1>2, <1>3, <1>4, FourKeys

\* A whole file is read back as it was written.
THEOREM RoundTrip ==
    ASSUME NEW v \in Values
    PROVE  Load(Whole(v)) = v
BY FourKeys DEF Load, Whole, Values, Valid

-----------------------------------------------------------------------------
(* Each action keeps the types.                                            *)

\* What a write leaves is a content of the file, even when it stops half way.
LEMMA TornIsContent ==
    ASSUME NEW v \in Values
    PROVE  Whole(v) \in Content /\ Torn(v) \subseteq Content
<1>1. Whole(v) \in Content
  BY DEF Whole, Content, Values
<1>2. Empty \in Content
  BY DEF Empty, Content
<1>3. [Empty EXCEPT !.level = v.level] \in Content
  BY DEF Empty, Content, Values
<1>4. [Empty EXCEPT !.level = v.level, !.placement = v.placement] \in Content
  BY DEF Empty, Content, Values
<1>5. [Whole(v) EXCEPT !.rate = "absent"] \in Content
  BY DEF Whole, Content, Values
<1>6. [Whole(v) EXCEPT !.rate = Odd] \in Content
  BY DEF Whole, Content, Values, Valid
<1> QED
  BY <1>1, <1>2, <1>3, <1>4, <1>5, <1>6 DEF Torn

\* Saving keeps the types.
LEMMA SavesType ==
    ASSUME FileTypeOK, NEW v \in Values, Saves(v)
    PROVE  stored' \in Content /\ dirty' \in BOOLEAN /\ spoiled' \in BOOLEAN
BY TornIsContent DEF Saves, FileTypeOK

\* Detecting the video modes keeps the types.
LEMMA DetectsType ==
    ASSUME NEW loaded \in Values, Detects(loaded)
    PROVE  values' \in Values /\ modes' \in Offers
<1>1. modes' \in Offers BY DEF Detects
<1>2. CASE modes' = <<>> BY <1>1, <1>2 DEF Detects, Values, Valid
<1>3. CASE modes' # <<>> /\ loaded.mode \in Range(modes') BY <1>1, <1>3 DEF Detects
<1>4. CASE modes' # <<>> /\ loaded.mode \notin Range(modes')
  <2>1. PICK m \in Range(modes') : values' = [loaded EXCEPT !.mode = m]
    BY <1>4 DEF Detects
  <2>2. m \in Valid.mode BY <1>1, <2>1 DEF Mode, Valid
  <2> QED BY <1>1, <2>1, <2>2 DEF Values
<1> QED BY <1>2, <1>3, <1>4

\* Memory and file keep their types, whatever a file edited by hand says.
THEOREM FileTypeCorrect ==
    FileSpec => []FileTypeOK
<1>1. FileInit => FileTypeOK
  BY DefaultIsValid DEF FileInit, FileTypeOK, Content, NoFile, Empty
<1>2. FileTypeOK /\ [FileNext]_fileVars => FileTypeOK'
  <2> SUFFICES ASSUME FileTypeOK, [FileNext]_fileVars PROVE FileTypeOK' OBVIOUS
  <2>1. ASSUME NEW k \in Key, Change(k) PROVE FileTypeOK'
    <3>1. values' \in Values BY <2>1, NextIsValid DEF Change
    <3> QED BY <2>1, <3>1, SavesType DEF Change, FileTypeOK
  <2>2. CASE DeleteSettings BY <2>2 DEF DeleteSettings, FileTypeOK, Content, NoFile,
    Empty
  <2>3. CASE ResetSettings
    BY <2>3, DefaultIsValid DEF ResetSettings, FileTypeOK, Content, NoFile, Empty
  <2>4. CASE Boot
    <3>1. Load(stored) \in Values BY LoadIsValid DEF FileTypeOK
    <3>2. values' \in Values /\ modes' \in Offers BY <2>4, <3>1, DetectsType DEF Boot
    <3>3. stored' \in Content /\ dirty' \in BOOLEAN /\ spoiled' \in BOOLEAN
      BY <2>4, <3>1, TornIsContent DEF Boot, Loads, FileTypeOK
    <3> QED BY <2>4, <3>2, <3>3 DEF Boot, FileTypeOK
  <2>5. CASE Off BY <2>5, DefaultIsValid DEF Off, FileTypeOK
  <2>6. CASE Edited BY <2>6 DEF Edited, FileTypeOK
  <2>7. CASE UNCHANGED fileVars BY <2>7 DEF fileVars, FileTypeOK
  <2> QED BY <2>1, <2>2, <2>3, <2>4, <2>5, <2>6, <2>7 DEF FileNext
<1> QED BY <1>1, <1>2, PTL DEF FileSpec

-----------------------------------------------------------------------------
(* Nothing is lost between two starts.                                     *)

\* A save that succeeds puts on file what is in use.
LEMMA SavedIsInUse ==
    ASSUME values' \in Values, Saves(values')
    PROVE  ~ spoiled' => Load(stored') = values'
BY RoundTrip DEF Saves

\* At the start, what the console offers replaces the mode only.
LEMMA DetectedMode ==
    ASSUME NEW loaded \in Values, Detects(loaded), NEW k \in Key
    PROVE  loaded[k] = values'[k] \/ (k = "mode" /\ loaded.mode \notin Range(modes'))
<1>1. CASE modes' = <<>>
  <2>1. Range(modes') = {} BY <1>1 DEF Range
  <2> QED BY <1>1, <2>1, FourKeys DEF Detects, Values
<1>2. CASE modes' # <<>> /\ loaded.mode \in Range(modes') BY <1>2 DEF Detects
<1>3. CASE modes' # <<>> /\ loaded.mode \notin Range(modes')
  <2>1. PICK m \in Range(modes') : values' = [loaded EXCEPT !.mode = m]
    BY <1>3 DEF Detects
  <2> QED BY <1>3, <2>1, FourKeys DEF Values
<1> QED BY <1>1, <1>2, <1>3

\* Unless a save failed or the file was deleted, a restart brings back what is
\* in use, for any choices, any offered modes and any edited file.
THEOREM InUseSurvives ==
    FileSpec => []SettingsSurvive
<1>1. FileInit => SettingsSurvive BY DEF FileInit, SettingsSurvive
<1>2. FileTypeOK /\ FileTypeOK' /\ SettingsSurvive /\ [FileNext]_fileVars => SettingsSurvive'
  <2> SUFFICES ASSUME FileTypeOK, FileTypeOK', SettingsSurvive, [FileNext]_fileVars
               PROVE  SettingsSurvive'
    OBVIOUS
  <2>1. ASSUME NEW k \in Key, Change(k) PROVE SettingsSurvive'
    <3>1. ~ spoiled' => Load(stored') = values' BY <2>1, SavedIsInUse DEF Change, FileTypeOK
    <3> QED BY <3>1 DEF SettingsSurvive, Load
  <2>2. CASE DeleteSettings BY <2>2 DEF DeleteSettings, SettingsSurvive, NoFile, Empty
  <2>3. CASE ResetSettings BY <2>3 DEF ResetSettings, SettingsSurvive, NoFile,
    Empty
  <2>4. CASE Boot
    <3> DEFINE loaded == Load(stored)
    <3>1. loaded \in Values BY LoadIsValid DEF FileTypeOK
    <3>2. \A k \in Key : loaded[k] = values'[k]
                           \/ (k = "mode" /\ loaded.mode \notin Range(modes'))
      BY <2>4, <3>1, DetectedMode DEF Boot
    <3>3. ~ spoiled' => Load(stored') = loaded
      BY <2>4, <3>1, RoundTrip DEF Boot, Loads
    <3> QED BY <3>2, <3>3 DEF SettingsSurvive
  <2>5. CASE Off BY <2>5 DEF Off, SettingsSurvive
  <2>6. CASE Edited BY <2>6 DEF Edited, SettingsSurvive
  <2>7. CASE UNCHANGED fileVars BY <2>7 DEF fileVars, SettingsSurvive, Load
  <2> QED BY <2>1, <2>2, <2>3, <2>4, <2>5, <2>6, <2>7 DEF FileNext
<1> QED BY <1>1, <1>2, FileTypeCorrect, PTL DEF FileSpec
=============================================================================

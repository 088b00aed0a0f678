--------------------------- MODULE WebShellProofs ---------------------------
(***************************************************************************)
(* The shell for any typed paths and any length of the history.            *)
(***************************************************************************)
EXTENDS WebShell, SequenceTheorems, TLAPS

-----------------------------------------------------------------------------
(* The admin area *)

\* Short sequences.
LEMMA OneSegment ==
    ASSUME NEW S, NEW s \in S
    PROVE  <<s>> \in Seq(S) /\ Len(<<s>>) = 1 /\ <<s>>[1] = s
OBVIOUS

LEMMA TwoSegments ==
    ASSUME NEW S, NEW s \in S, NEW t \in S
    PROVE  <<s, t>> \in Seq(S) /\ <<s, t>> # <<>> /\ <<s, t>>[1] = s
OBVIOUS

\* Below a path of one segment are the paths that begin with it.
LEMMA UnderSegment ==
    ASSUME NEW S, NEW path \in Seq(S), NEW s \in S
    PROVE  IsUnder(path, <<s>>) <=> path # <<>> /\ path[1] = s
<1>1. CASE path = <<>>
  BY <1>1, OneSegment DEF IsUnder
<1>2. CASE path # <<>>
  <2>1. Len(path) \in Nat /\ 1 <= Len(path)
    BY <1>2, EmptySeq, LenProperties
  <2> DEFINE first == SubSeq(path, 1, 1)
  <2>2. first \in Seq(S) /\ Len(first) = 1 /\ first[1] = path[1]
    BY <2>1, SMT
  <2> HIDE DEF first
  <2>3. first = <<s>> => first[1] = s
    BY OneSegment
  <2>4. ASSUME first[1] = s PROVE first = <<s>>
    <3>1. \A i \in 1..Len(first) : first[i] = <<s>>[i]
      BY <2>2, <2>4, OneSegment
    <3> QED
      BY <2>2, <3>1, OneSegment, SeqEqual
  <2>5. IsUnder(path, <<s>>) <=> first = <<s>>
    BY <2>1, OneSegment DEF IsUnder, first
  <2> QED
    BY <1>2, <2>2, <2>3, <2>4, <2>5
<1> QED
  BY <1>1, <1>2

\* The layouts a path is shown in are told by its first segment.
LEMMA LayoutsOf ==
    ASSUME NEW path \in Seq(Segments)
    PROVE  Layouts(path) = IF path # <<>> /\ path[1] = "admin" THEN {"AdminRouteRoute"}
                           ELSE IF path # <<>> /\ path[1] = "console"
                                THEN {"ConsoleRouteRoute"} ELSE {}
<1>1. LayoutRoutes = {"AdminRouteRoute", "ConsoleRouteRoute"}
  BY DEF LayoutRoutes, RootChildren, ChildRoutes
<1>2. FullPath("AdminRouteRoute") = <<"admin">> /\ FullPath("ConsoleRouteRoute") = <<"console">>
  BY DEF FullPath, ParentRoute, OwnPath
<1>3. Layouts(path) = {r \in {"AdminRouteRoute", "ConsoleRouteRoute"} :
                          IsUnder(path, FullPath(r))}
  BY <1>1 DEF Layouts
<1>4. /\ IsUnder(path, FullPath("AdminRouteRoute")) <=> path # <<>> /\ path[1] = "admin"
      /\ IsUnder(path, FullPath("ConsoleRouteRoute")) <=> path # <<>> /\ path[1] = "console"
  <2>1. "admin" \in Segments /\ "console" \in Segments
    BY TypedAssumption
  <2> QED
    BY <1>2, <2>1, UnderSegment
<1> QED
  BY <1>3, <1>4

\* A link is the home page, the admin page or begins with "console", and the
\* admin page is offered in the admin area only.
LEMMA WhereLinksLead ==
    ASSUME Location \in Seq(Segments), NEW to \in Links
    PROVE  to \in Seq(Segments) /\ (InAdmin(to) => InAdmin(Location))
<1>1. ASSUME NEW i \in ConsoleLayout
      PROVE  i.to \in Seq(Segments) /\ i.to # <<>> /\ i.to[1] = "console"
  <2>1. i.to = <<"console">> \/ \E s \in {"keys", "usage", "wallet"} : i.to = <<"console", s>>
    BY <1>1 DEF ConsoleLayout, Item
  <2>2. {"console", "keys", "usage", "wallet"} \subseteq Segments
    BY TypedAssumption
  <2>3. CASE i.to = <<"console">>
    BY <2>2, <2>3, OneSegment
  <2>4. ASSUME NEW s \in {"keys", "usage", "wallet"}, i.to = <<"console", s>>
        PROVE  i.to \in Seq(Segments) /\ i.to # <<>> /\ i.to[1] = "console"
    BY <2>2, <2>4, TwoSegments
  <2> QED
    BY <2>1, <2>3, <2>4
<1>2. ASSUME NEW i \in AdminLayout PROVE i.to = <<"admin">>
  BY <1>2 DEF AdminLayout, Item
<1>3. ASSUME to \in Seq(Segments), to = <<>> \/ to[1] = "console"
      PROVE  ~InAdmin(to)
  BY <1>3, LayoutsOf DEF InAdmin
<1>4. CASE to \in {<<>>, <<"console">>}
  <2>1. <<>> \in Seq(Segments) /\ "console" \in Segments
    BY TypedAssumption
  <2>2. to \in Seq(Segments) /\ (to = <<>> \/ to[1] = "console")
    BY <1>4, <2>1, OneSegment
  <2> QED
    BY <1>3, <2>2
<1>5. ASSUME NEW i \in ShownItems, to = i.to
      PROVE  to \in Seq(Segments) /\ (InAdmin(to) => InAdmin(Location))
  <2>1. PICK r \in Layouts(Location) : i \in NavItems(r)
    BY <1>5 DEF ShownItems
  <2>2. CASE r = "AdminRouteRoute"
    <3>1. InAdmin(Location)
      BY <2>1, <2>2, LayoutsOf DEF InAdmin
    <3>2. to = <<"admin">> /\ "admin" \in Segments
      BY <1>2, <1>5, <2>1, <2>2, TypedAssumption DEF NavItems
    <3> QED
      BY <3>1, <3>2, OneSegment
  <2>3. CASE r # "AdminRouteRoute"
    BY <1>1, <1>3, <1>5, <2>1, <2>3 DEF NavItems
  <2> QED
    BY <2>2, <2>3
<1> QED
  BY <1>4, <1>5 DEF Links, AppLayoutLinks, SiteHeaderLinks, HomePageLinks

\* What a navigation makes of the history.
LEMMA PushStep ==
    ASSUME TypeOK, AdminIsTyped, NEW path \in Seq(Segments), Push(path),
           adminTyped => adminTyped', InAdmin(path) => adminTyped'
    PROVE  /\ entries' \in Seq(Seq(Segments)) /\ pos' \in 1..Len(entries')
           /\ AdminIsTyped'
<1>1. pos \in 1..Len(entries) /\ entries \in Seq(Seq(Segments)) /\ Len(entries) \in Nat
  BY DEF TypeOK
<1> DEFINE kept == SubSeq(entries, 1, pos)
<1>2. kept \in Seq(Seq(Segments)) /\ Len(kept) = pos /\ \A n \in 1..pos : kept[n] = entries[n]
  BY <1>1
<1>3. entries' = Append(kept, path) /\ pos' = pos + 1
  BY DEF Push
<1> HIDE DEF kept
<1>4. /\ entries' \in Seq(Seq(Segments)) /\ Len(entries') = pos + 1
      /\ entries'[pos + 1] = path /\ \A n \in 1..pos : entries'[n] = entries[n]
  BY <1>1, <1>2, <1>3
<1>5. ASSUME NEW n \in 1..(pos + 1), InAdmin(entries'[n]) PROVE adminTyped'
  <2>1. CASE n = pos + 1
    BY <1>4, <1>5, <2>1
  <2>2. CASE n \in 1..pos
    <3>1. InAdmin(entries[n]) /\ n \in DOMAIN entries
      BY <1>1, <1>4, <1>5, <2>2
    <3> QED
      BY <3>1 DEF AdminIsTyped
  <2> QED
    BY <1>1, <2>1, <2>2
<1>6. DOMAIN entries' = 1..(pos + 1)
  BY <1>4
<1> QED
  BY <1>1, <1>3, <1>4, <1>5, <1>6 DEF AdminIsTyped

\* Types, and what the history of the tab has to do with what was typed.
IInv == TypeOK /\ AdminIsTyped

\* The inductive invariant holds in every reachable state.
THEOREM Inductive == Spec => []IInv
<1>1. Init => IInv
  <2> SUFFICES ASSUME Init PROVE IInv
    OBVIOUS
  <2>1. PICK path \in TypedPaths : entries = <<path>> /\ adminTyped = InAdmin(path)
    BY DEF Init
  <2>2. path \in Seq(Segments) /\ adminTyped \in BOOLEAN
    BY <2>1, TypedAssumption DEF InAdmin
  <2>3. entries \in Seq(Seq(Segments)) /\ Len(entries) = 1
    BY <2>1, <2>2
  <2> QED
    BY <2>1, <2>2, <2>3 DEF Init, IInv, TypeOK, AdminIsTyped
<1>2. IInv /\ [Next]_vars => IInv'
  <2> SUFFICES ASSUME IInv, [Next]_vars PROVE IInv'
    OBVIOUS
  <2> USE DEF IInv
  <2>1. ASSUME UNCHANGED <<entries, adminTyped>>, pos' \in 1..Len(entries),
               sidebarOpen' \in BOOLEAN, wide' \in BOOLEAN, systemDark' \in BOOLEAN,
               theme' \in {"system", "light", "dark"}
        PROVE  IInv'
    BY <2>1 DEF TypeOK, AdminIsTyped
  <2>2. ASSUME NEW to \in Links, Follow(to) PROVE IInv'
    <3>1. Location \in Seq(Segments)
      BY DEF Location, TypeOK
    <3>2. to \in Seq(Segments) /\ (InAdmin(to) => InAdmin(Location))
      BY <3>1, WhereLinksLead
    <3>3. InAdmin(to) => adminTyped
      BY <3>2 DEF AdminIsTyped, Location, TypeOK
    <3>4. Push(to) /\ UNCHANGED <<sidebarOpen, wide, theme, systemDark, adminTyped>>
      BY <2>2 DEF Follow
    <3>5. entries' \in Seq(Seq(Segments)) /\ pos' \in 1..Len(entries') /\ AdminIsTyped'
      BY <3>2, <3>3, <3>4, PushStep
    <3> QED
      BY <3>4, <3>5 DEF TypeOK
  <2>3. ASSUME NEW path \in TypedPaths, TypeUrl(path) PROVE IInv'
    <3>1. path \in Seq(Segments)
      BY TypedAssumption
    <3>2. /\ Push(path) /\ adminTyped' = (adminTyped \/ InAdmin(path))
          /\ sidebarOpen' = TRUE /\ UNCHANGED <<wide, theme, systemDark>>
      BY <2>3 DEF TypeUrl, LoadDocument
    <3>3. entries' \in Seq(Seq(Segments)) /\ pos' \in 1..Len(entries') /\ AdminIsTyped'
      BY <3>1, <3>2, PushStep
    <3>4. adminTyped' \in BOOLEAN
      BY <3>2
    <3> QED
      BY <3>2, <3>3, <3>4 DEF TypeOK
  <2>4. CASE Reload
    BY <2>1, <2>4 DEF Reload, LoadDocument, TypeOK
  <2>5. ASSUME NEW n \in 1..Len(entries), Traverse(n) PROVE IInv'
    BY <2>1, <2>5 DEF Traverse, TypeOK
  <2>6. CASE ToggleSidebar
    BY <2>1, <2>6 DEF ToggleSidebar, TypeOK
  <2>7. CASE ToggleTheme
    BY <2>1, <2>7 DEF ToggleTheme, OtherTheme, TypeOK
  <2>8. CASE Resize
    BY <2>1, <2>8 DEF Resize, TypeOK
  <2>9. CASE SystemChanges
    BY <2>1, <2>9 DEF SystemChanges, TypeOK
  <2>10. CASE UNCHANGED vars
    BY <2>1, <2>10 DEF vars, TypeOK
  <2> QED
    BY <2>2, <2>3, <2>4, <2>5, <2>6, <2>7, <2>8, <2>9, <2>10 DEF Next
<1> QED
  BY <1>1, <1>2, PTL DEF Spec

\* Every variable keeps its type; the index stays inside the history.
THEOREM TypeCorrect == Spec => []TypeOK
BY Inductive, PTL DEF IInv

\* No sequence of clicks, back and forward leads into the admin area.
THEOREM AdminOnlyTyped == Spec => []AdminIsTyped
BY Inductive, PTL DEF IInv

-----------------------------------------------------------------------------
(* The theme *)

\* The theme changes by the button only, and to what its label says.
THEOREM ToggleIsHonest == Spec => ToggleDoesWhatItSays
<1>1. [Next]_vars =>
         [theme' # theme =>
             resolvedTheme' = IF ThemeLabel[2] = "themeDark" THEN "dark" ELSE "light"]_vars
  <2> SUFFICES ASSUME [Next]_vars, theme' # theme
               PROVE  resolvedTheme' = IF ThemeLabel[2] = "themeDark" THEN "dark" ELSE "light"
    OBVIOUS
  <2>1. ToggleTheme
    BY DEF Next, Follow, TypeUrl, Reload, Traverse, ToggleSidebar, Resize, SystemChanges, vars
  <2>2. theme' = OtherTheme
    BY <2>1 DEF ToggleTheme
  <2>3. ThemeLabel[2] = "themeDark" <=> resolvedTheme # "dark"
    BY DEF ThemeLabel
  <2>4. resolvedTheme' = theme'
    BY <2>2 DEF resolvedTheme, OtherTheme
  <2> QED
    BY <2>2, <2>3, <2>4 DEF OtherTheme
<1> QED
  BY <1>1, PTL DEF Spec, ToggleDoesWhatItSays

-----------------------------------------------------------------------------
(* Pages *)

\* Below a path of two segments are the paths that begin with them.
LEMMA UnderTwoSegments ==
    ASSUME NEW S, NEW path \in Seq(S), NEW s \in S, NEW t \in S
    PROVE  IsUnder(path, <<s, t>>) <=> Len(path) >= 2 /\ path[1] = s /\ path[2] = t
<1>1. Len(path) \in Nat /\ Len(<<s, t>>) = 2 /\ <<s, t>> \in Seq(S)
      /\ <<s, t>>[1] = s /\ <<s, t>>[2] = t
  BY LenProperties
<1>2. CASE Len(path) < 2
  BY <1>1, <1>2 DEF IsUnder
<1>3. CASE Len(path) >= 2
  <2> DEFINE first == SubSeq(path, 1, 2)
  <2>1. first \in Seq(S) /\ Len(first) = 2 /\ first[1] = path[1] /\ first[2] = path[2]
    BY <1>1, <1>3, SMT
  <2> HIDE DEF first
  <2>2. ASSUME first[1] = s, first[2] = t PROVE first = <<s, t>>
    <3>1. \A i \in 1..2 : i = 1 \/ i = 2
      OBVIOUS
    <3>2. \A i \in 1..Len(first) : first[i] = <<s, t>>[i]
      BY <1>1, <2>1, <2>2, <3>1
    <3> QED
      BY <1>1, <2>1, <3>2, SeqEqual
  <2>3. first = <<s, t>> => first[1] = s /\ first[2] = t
    BY <1>1
  <2>4. IsUnder(path, <<s, t>>) <=> first = <<s, t>>
    BY <1>1, <1>3 DEF IsUnder, first
  <2> QED
    BY <1>3, <2>1, <2>2, <2>3, <2>4
<1> QED
  BY <1>1, <1>2, <1>3

\* The path of a page below a layout.
LEMMA JoinSegments ==
    ASSUME NEW s, NEW t
    PROVE  <<s>> \o <<t>> = <<s, t>>
<1> DEFINE S == {s, t}
           j == <<s>> \o <<t>>
<1>1. /\ <<s>> \in Seq(S) /\ <<t>> \in Seq(S) /\ <<s, t>> \in Seq(S)
      /\ Len(<<s>>) = 1 /\ Len(<<t>>) = 1 /\ Len(<<s, t>>) = 2
  OBVIOUS
<1>2. /\ j \in Seq(S) /\ Len(j) = Len(<<s>>) + Len(<<t>>)
      /\ \A i \in 1..(Len(<<s>>) + Len(<<t>>)) :
            j[i] = IF i <= Len(<<s>>) THEN <<s>>[i] ELSE <<t>>[i - Len(<<s>>)]
  BY <1>1, ConcatProperties, Zenon
<1> HIDE DEF j
<1>3. Len(j) = 2 /\ j[1] = s /\ j[2] = t
  BY <1>1, <1>2
<1>4. \A i \in 1..2 : i = 1 \/ i = 2
  OBVIOUS
<1>5. \A i \in 1..Len(j) : j[i] = <<s, t>>[i]
  BY <1>3, <1>4
<1>6. j = <<s, t>>
  BY <1>1, <1>2, <1>3, <1>5, SeqEqual
<1> QED
  BY <1>6 DEF j

\* The generated tree and the table of paths agree.
LEMMA PagePaths ==
    /\ Leaves = {"IndexRoute", "AdminIndexRoute", "ConsoleIndexRoute", "ConsoleKeysRoute",
                 "ConsoleUsageRoute", "ConsoleWalletRoute"}
    /\ \A r \in Leaves : r \in Routes /\ FullPath(r) = FileRoutesByTo[r]
<1>1. LayoutRoutes = {"AdminRouteRoute", "ConsoleRouteRoute"}
  BY DEF LayoutRoutes, RootChildren, ChildRoutes
<1>2. /\ ChildRoutes["AdminRouteRoute"] = {"AdminIndexRoute"}
      /\ ChildRoutes["ConsoleRouteRoute"] = {"ConsoleKeysRoute", "ConsoleUsageRoute",
                                             "ConsoleWalletRoute", "ConsoleIndexRoute"}
  BY DEF ChildRoutes
<1>3. UNION {ChildRoutes[r] : r \in LayoutRoutes}
          = {"AdminIndexRoute", "ConsoleKeysRoute", "ConsoleUsageRoute",
             "ConsoleWalletRoute", "ConsoleIndexRoute"}
  BY <1>1, <1>2
<1>4. RootChildren \ LayoutRoutes = {"IndexRoute"}
  BY <1>1 DEF RootChildren
<1>5. Leaves = {"IndexRoute", "AdminIndexRoute", "ConsoleIndexRoute", "ConsoleKeysRoute",
                "ConsoleUsageRoute", "ConsoleWalletRoute"}
  BY <1>3, <1>4 DEF Leaves
<1>6. \A r \in Leaves : r \in Routes
  BY <1>5 DEF Routes, OwnPath
<1>7. FullPath("IndexRoute") = FileRoutesByTo["IndexRoute"]
  BY DEF FullPath, ParentRoute, OwnPath, FileRoutesByTo
<1>8. /\ FullPath("AdminIndexRoute") = FileRoutesByTo["AdminIndexRoute"]
      /\ FullPath("ConsoleIndexRoute") = FileRoutesByTo["ConsoleIndexRoute"]
  BY DEF FullPath, ParentRoute, OwnPath, FileRoutesByTo
<1>9. /\ FullPath("ConsoleKeysRoute") = FileRoutesByTo["ConsoleKeysRoute"]
      /\ FullPath("ConsoleUsageRoute") = FileRoutesByTo["ConsoleUsageRoute"]
      /\ FullPath("ConsoleWalletRoute") = FileRoutesByTo["ConsoleWalletRoute"]
  <2>1. /\ FullPath("ConsoleKeysRoute") = <<"console">> \o <<"keys">>
        /\ FullPath("ConsoleUsageRoute") = <<"console">> \o <<"usage">>
        /\ FullPath("ConsoleWalletRoute") = <<"console">> \o <<"wallet">>
    BY DEF FullPath, ParentRoute, OwnPath
  <2>2. /\ FullPath("ConsoleKeysRoute") = <<"console", "keys">>
        /\ FullPath("ConsoleUsageRoute") = <<"console", "usage">>
        /\ FullPath("ConsoleWalletRoute") = <<"console", "wallet">>
    BY <2>1, JoinSegments, Zenon
  <2> QED
    BY <2>2 DEF FileRoutesByTo
<1> QED
  BY <1>5, <1>6, <1>7, <1>8, <1>9

\* No two pages have the same path.
LEMMA OnePage ==
    ASSUME NEW r \in Leaves
    PROVE  Pages(FileRoutesByTo[r]) = {r}
<1>1. \A p, q \in Leaves : FileRoutesByTo[p] = FileRoutesByTo[q] => p = q
  BY PagePaths DEF FileRoutesByTo
<1> QED
  BY <1>1, PagePaths DEF Pages

-----------------------------------------------------------------------------
(* The navigation *)

\* Whatever is shown, every link the shell offers leads to one page, the one
\* the table of the router's types has for it.
THEOREM LinksHavePages == Spec => []LinksLeadToPages
<1>1. LinksLeadToPages
  <2> SUFFICES ASSUME NEW to \in Links
               PROVE  \E r \in Leaves : FileRoutesByTo[r] = to
    BY PagePaths, OnePage DEF LinksLeadToPages
  <2>1. FileRoutesByTo["IndexRoute"] = <<>> /\ FileRoutesByTo["ConsoleIndexRoute"] = <<"console">>
    BY DEF FileRoutesByTo
  <2>2. ASSUME NEW i \in ConsoleLayout \union AdminLayout
        PROVE  \E r \in Leaves : FileRoutesByTo[r] = i.to
    BY <2>2, PagePaths DEF ConsoleLayout, AdminLayout, Item, FileRoutesByTo
  <2>3. \A i \in ShownItems : i \in ConsoleLayout \union AdminLayout
    BY DEF ShownItems, NavItems
  <2> QED
    BY <2>1, <2>2, <2>3, PagePaths DEF Links, AppLayoutLinks, SiteHeaderLinks, HomePageLinks
<1> QED
  BY <1>1, PTL

\* On a narrow screen with the sidebar closed the button is there.
THEOREM NavigationReachable == Spec => []NavReachable
<1>1. TypeOK => NavReachable
  BY DEF TypeOK, NavReachable, ShownItems, SidebarShown, SidebarButtonShown
<1> QED
  BY <1>1, TypeCorrect, PTL

\* No page of the shell asks for a text the locale file has not.
THEOREM KeysAreInFile == Spec => []KeysHaveEntries
<1>1. KeysHaveEntries
  <2> SUFFICES ASSUME NEW key \in KeysShown
               PROVE  key[1] \in DOMAIN zhCN /\ key[2] \in zhCN[key[1]]
    BY DEF KeysHaveEntries
  <2>1. ASSUME NEW k \in SiteHeaderKeys \union HomePageKeys
        PROVE  k[1] \in DOMAIN zhCN /\ k[2] \in zhCN[k[1]]
    BY <2>1 DEF SiteHeaderKeys, HomePageKeys, zhCN
  <2>2. ASSUME NEW k \in AdminIndexPage \union ConsoleOverviewPage \union ConsoleKeysPage
                             \union ConsoleUsagePage \union ConsoleWalletPage
        PROVE  k[1] \in DOMAIN zhCN /\ k[2] \in zhCN[k[1]]
    BY <2>2 DEF AdminIndexPage, ConsoleOverviewPage, ConsoleKeysPage, ConsoleUsagePage,
                ConsoleWalletPage, zhCN
  <2>3. ASSUME NEW i \in ConsoleLayout \union AdminLayout
        PROVE  i.labelKey[1] \in DOMAIN zhCN /\ i.labelKey[2] \in zhCN[i.labelKey[1]]
    BY <2>3 DEF ConsoleLayout, AdminLayout, Item, zhCN
  <2>4. \A i \in ShownItems : i \in ConsoleLayout \union AdminLayout
    BY DEF ShownItems, NavItems
  <2>5. ASSUME key \in {<<"common", "appName">>, <<"common", "comingSoon">>, ThemeLabel}
        PROVE  key[1] \in DOMAIN zhCN /\ key[2] \in zhCN[key[1]]
    BY <2>5 DEF ThemeLabel, zhCN
  <2>6. ASSUME NEW r \in Pages(Location), key \in PageKeys[r]
        PROVE  key[1] \in DOMAIN zhCN /\ key[2] \in zhCN[key[1]]
    <3>1. r \in Leaves
      BY DEF Pages
    <3>2. PageKeys[r] \subseteq SiteHeaderKeys \union HomePageKeys \union AdminIndexPage
                                   \union ConsoleOverviewPage \union ConsoleKeysPage
                                   \union ConsoleUsagePage \union ConsoleWalletPage
      BY <3>1, PagePaths DEF PageKeys
    <3> QED
      BY <2>1, <2>2, <2>6, <3>2
  <2>7. ASSUME key \in AppLayoutKeys PROVE key[1] \in DOMAIN zhCN /\ key[2] \in zhCN[key[1]]
    BY <2>3, <2>4, <2>5, <2>7 DEF AppLayoutKeys
  <2>8. \/ \E r \in Pages(Location) : key \in PageKeys[r]
        \/ key \in PlaceholderKeys
        \/ key \in AppLayoutKeys
        \/ key = ThemeLabel
    BY DEF KeysShown
  <2>9. PlaceholderKeys \subseteq {<<"common", "comingSoon">>}
    BY DEF PlaceholderKeys
  <2> QED
    BY <2>5, <2>6, <2>7, <2>8, <2>9
<1> QED
  BY <1>1, PTL

\* In the console an item is told by the last segment of its path.
LEMMA ConsoleItem ==
    ASSUME NEW path \in Seq(Segments), path # <<>>, path[1] = "console",
           NEW i \in ConsoleLayout,
           IF Exact(i) THEN path = i.to ELSE IsUnder(path, i.to)
    PROVE  \/ path = <<"console">> /\ i = Item(<<"console">>, <<"nav", "overview">>)
           \/ /\ Len(path) >= 2 /\ path[2] = "keys"
              /\ i = Item(<<"console", "keys">>, <<"nav", "apiKeys">>)
           \/ /\ Len(path) >= 2 /\ path[2] = "usage"
              /\ i = Item(<<"console", "usage">>, <<"nav", "usage">>)
           \/ /\ Len(path) >= 2 /\ path[2] = "wallet"
              /\ i = Item(<<"console", "wallet">>, <<"nav", "wallet">>)
<1>1. {"console", "keys", "usage", "wallet"} \subseteq Segments
  BY TypedAssumption
<1>2. CASE i = Item(<<"console">>, <<"nav", "overview">>)
  BY <1>2 DEF Exact, Item
<1>3. ASSUME NEW s \in {"keys", "usage", "wallet"}, i.to = <<"console", s>>
      PROVE  Len(path) >= 2 /\ path[2] = s
  <2>1. ~Exact(i)
    BY <1>3 DEF Exact
  <2>2. IsUnder(path, <<"console", s>>)
    BY <1>3, <2>1
  <2> QED
    BY <1>1, <2>2, UnderTwoSegments
<1>4. CASE i = Item(<<"console", "keys">>, <<"nav", "apiKeys">>)
  BY <1>3, <1>4 DEF Item
<1>5. CASE i = Item(<<"console", "usage">>, <<"nav", "usage">>)
  BY <1>3, <1>5 DEF Item
<1>6. CASE i = Item(<<"console", "wallet">>, <<"nav", "wallet">>)
  BY <1>3, <1>6 DEF Item
<1> QED
  BY <1>2, <1>4, <1>5, <1>6 DEF ConsoleLayout

\* The page of a path has the path of the table.
LEMMA PageOf ==
    ASSUME NEW path, Pages(path) # {}
    PROVE  path \in {<<>>, <<"admin">>, <<"console">>, <<"console", "keys">>,
                     <<"console", "usage">>, <<"console", "wallet">>}
<1>1. PICK r \in Leaves : FullPath(r) = path
  BY DEF Pages
<1>2. path = FileRoutesByTo[r]
  BY <1>1, PagePaths
<1> QED
  BY <1>2, PagePaths DEF FileRoutesByTo

\* On a page of a layout the item of the page is active and no other; below an
\* item, or beside all of them, at most one is.
THEOREM OneActiveItem == Spec => []OneItemPerPage
<1>1. TypeOK => OneItemPerPage
  <2> SUFFICES ASSUME TypeOK, Layouts(Location) # {} PROVE OneItemPerPage
    BY DEF OneItemPerPage
  <2> DEFINE path == Location
  <2>1. path \in Seq(Segments)
    BY DEF Location, TypeOK
  <2>2. ActiveItems = {i \in UNION {NavItems(r) : r \in Layouts(path)} :
                          IF Exact(i) THEN path = i.to ELSE IsUnder(path, i.to)}
    BY DEF ActiveItems, ShownItems
  <2> HIDE DEF path
  <2>3. CASE path # <<>> /\ path[1] = "admin"
    <3>1. Layouts(path) = {"AdminRouteRoute"}
      BY <2>1, <2>3, LayoutsOf
    <3>2. UNION {NavItems(r) : r \in Layouts(path)} = {Item(<<"admin">>, <<"nav", "admin">>)}
      BY <3>1 DEF NavItems, AdminLayout
    <3>3. Exact(Item(<<"admin">>, <<"nav", "admin">>))
      BY DEF Exact, Item
    <3>4. \A i \in ActiveItems : i = Item(<<"admin">>, <<"nav", "admin">>) /\ i.to = path
      BY <2>2, <3>2, <3>3
    <3>5. ASSUME Pages(path) # {} PROVE ActiveItems # {}
      <4>1. path = <<"admin">>
        BY <2>3, <3>5, PageOf
      <4>2. Item(<<"admin">>, <<"nav", "admin">>).to = path
        BY <4>1 DEF Item
      <4> QED
        BY <2>2, <3>2, <3>3, <4>2
    <3> QED
      BY <3>4, <3>5 DEF OneItemPerPage, path
  <2>4. CASE path # <<>> /\ path[1] = "console"
    <3>1. Layouts(path) = {"ConsoleRouteRoute"}
      BY <2>1, <2>4, LayoutsOf
    <3>2. UNION {NavItems(r) : r \in Layouts(path)} = ConsoleLayout
      BY <3>1 DEF NavItems
    <3>3. \A i \in ActiveItems :
              \/ path = <<"console">> /\ i = Item(<<"console">>, <<"nav", "overview">>)
              \/ /\ Len(path) >= 2 /\ path[2] = "keys"
                 /\ i = Item(<<"console", "keys">>, <<"nav", "apiKeys">>)
              \/ /\ Len(path) >= 2 /\ path[2] = "usage"
                 /\ i = Item(<<"console", "usage">>, <<"nav", "usage">>)
              \/ /\ Len(path) >= 2 /\ path[2] = "wallet"
                 /\ i = Item(<<"console", "wallet">>, <<"nav", "wallet">>)
      BY <2>1, <2>2, <2>4, <3>2, ConsoleItem
    <3>4. Len(<<"console">>) = 1
      OBVIOUS
    <3>5. \A i, j \in ActiveItems : i = j
      BY <3>3, <3>4
    <3>6. ASSUME Pages(path) # {}
          PROVE  \E i \in ActiveItems : i.to = path
      <4>1. path \in {<<"console">>, <<"console", "keys">>, <<"console", "usage">>,
                      <<"console", "wallet">>}
        BY <2>4, <3>6, PageOf
      <4>2. PICK i \in ConsoleLayout : i.to = path
        BY <4>1 DEF ConsoleLayout, Item
      <4>3. IsUnder(path, i.to)
        BY <2>1, <4>2 DEF IsUnder
      <4> QED
        BY <2>2, <3>2, <4>2, <4>3
    <3>7. Pages(path) # {} => ActiveItems # {} /\ \A i \in ActiveItems : i.to = path
      BY <3>5, <3>6
    <3> QED
      BY <3>5, <3>7 DEF OneItemPerPage, path
  <2> QED
    BY <2>1, <2>3, <2>4, LayoutsOf DEF path
<1> QED
  BY <1>1, TypeCorrect, PTL
=============================================================================

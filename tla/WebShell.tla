------------------------------ MODULE WebShell ------------------------------
(***************************************************************************)
(* The shell of apps/web in one browser tab: the route tree, the history,  *)
(* the two layouts with their navigation, the sidebar store, the theme and *)
(* the texts.  A path is the sequence of its segments; a query string and  *)
(* a trailing slash are not told apart.                                    *)
(***************************************************************************)
EXTENDS Integers, Sequences, FiniteSets

CONSTANTS
    Segments,       \* what may stand between two slashes of a path
    TypedPaths,     \* paths the user may type or open from a bookmark
    MaxEntries      \* bound: entries of the tab's history

ASSUME TypedAssumption ==
    /\ {"admin", "console", "keys", "usage", "wallet"} \subseteq Segments
    /\ TypedPaths \subseteq Seq(Segments) /\ TypedPaths # {}
    /\ MaxEntries \in Nat \ {0}

VARIABLES
    entries,        \* the paths in the history of the tab ...
    pos,            \* ... and the index of the one that is shown
    sidebarOpen,    \* the store of stores/ui-store.ts
    wide,           \* the viewport has at least the width Tailwind calls md
    theme,          \* what next-themes keeps in localStorage
    systemDark,     \* the operating system prefers dark
    adminTyped      \* history: a path of the admin area has been typed

vars == <<entries, pos, sidebarOpen, wide, theme, systemDark, adminTyped>>

-----------------------------------------------------------------------------
\* The route tree: routeTree.gen.ts and the files it imports.

OwnPath == [IndexRoute |-> <<>>, AdminRouteRoute |-> <<"admin">>,
            ConsoleRouteRoute |-> <<"console">>, AdminIndexRoute |-> <<>>,
            ConsoleIndexRoute |-> <<>>, ConsoleKeysRoute |-> <<"keys">>,
            ConsoleUsageRoute |-> <<"usage">>, ConsoleWalletRoute |-> <<"wallet">>]

Routes == DOMAIN OwnPath

\* getParentRoute, where it is not the root.
ParentRoute == [AdminIndexRoute |-> "AdminRouteRoute",
                ConsoleIndexRoute |-> "ConsoleRouteRoute",
                ConsoleKeysRoute |-> "ConsoleRouteRoute",
                ConsoleUsageRoute |-> "ConsoleRouteRoute",
                ConsoleWalletRoute |-> "ConsoleRouteRoute"]

\* The router joins the path of a route to that of its parent.
FullPath(r) == IF r \in DOMAIN ParentRoute
               THEN OwnPath[ParentRoute[r]] \o OwnPath[r]
               ELSE OwnPath[r]

RootChildren == {"IndexRoute", "AdminRouteRoute", "ConsoleRouteRoute"}

ChildRoutes == [AdminRouteRoute |-> {"AdminIndexRoute"},
                ConsoleRouteRoute |-> {"ConsoleKeysRoute", "ConsoleUsageRoute",
                                       "ConsoleWalletRoute", "ConsoleIndexRoute"}]

LayoutRoutes == RootChildren \intersect DOMAIN ChildRoutes

\* The table the type of Link is checked against.
FileRoutesByTo == [IndexRoute |-> <<>>,
                   ConsoleKeysRoute |-> <<"console", "keys">>,
                   ConsoleUsageRoute |-> <<"console", "usage">>,
                   ConsoleWalletRoute |-> <<"console", "wallet">>,
                   AdminIndexRoute |-> <<"admin">>,
                   ConsoleIndexRoute |-> <<"console">>]

\* The routes the router tries, and of these the ones that show a page.
Leaves == (RootChildren \ LayoutRoutes) \union UNION {ChildRoutes[r] : r \in LayoutRoutes}

IsUnder(path, prefix) ==
    Len(prefix) <= Len(path) /\ SubSeq(path, 1, Len(prefix)) = prefix

Pages(path) == {r \in Leaves : FullPath(r) = path}

\* The layout around a page, and around the router's "Not Found" below it.
Layouts(path) == {r \in LayoutRoutes : IsUnder(path, FullPath(r))}

-----------------------------------------------------------------------------
\* What the shell shows.

Location == entries[pos]

Item(to, labelKey) == [to |-> to, labelKey |-> labelKey]

\* Mutant: the admin area is offered in the console, too.
ItemsWithAdmin == {Item(<<"console">>, <<"nav", "overview">>),
                   Item(<<"admin">>, <<"nav", "admin">>)}

\* Mutant: the path of an item is misspelt, which `to: string` lets pass.
ItemsMisspelt == {Item(<<"console", "wallets">>, <<"nav", "wallet">>)}

\* Mutant: the label of an item is not in the locale file.
ItemsMislabelled == {Item(<<"console", "keys">>, <<"nav", "keys">>)}

ConsoleLayout == {Item(<<"console">>, <<"nav", "overview">>),
                  Item(<<"console", "keys">>, <<"nav", "apiKeys">>),
                  Item(<<"console", "usage">>, <<"nav", "usage">>),
                  Item(<<"console", "wallet">>, <<"nav", "wallet">>)}

AdminLayout == {Item(<<"admin">>, <<"nav", "admin">>)}

NavItems(r) == IF r = "AdminRouteRoute" THEN AdminLayout ELSE ConsoleLayout

ShownItems == UNION {NavItems(r) : r \in Layouts(Location)}

\* Mutant: activeOptions is left out.
NeverExact(item) == FALSE

\* activeOptions: an item with one segment is active on its own path only.
Exact(item) == Len(item.to) = 1

ActiveItems == {i \in ShownItems :
                   IF Exact(i) THEN Location = i.to ELSE IsUnder(Location, i.to)}

SiteHeaderLinks == {<<>>, <<"console">>}
HomePageLinks == {<<"console">>}
AppLayoutLinks == {<<>>} \union {i.to : i \in ShownItems}

\* The router's "Not Found" has no links of its own.
Links == IF Layouts(Location) # {} THEN AppLayoutLinks
         ELSE IF Pages(Location) # {} THEN SiteHeaderLinks \union HomePageLinks
         ELSE {}

HasHeader == Links # {}

\* md:hidden
SidebarButtonShown == Layouts(Location) # {} /\ ~wide

\* Mutant: the sidebar has lost its md:block.
SidebarAsStored == Layouts(Location) # {} /\ sidebarOpen

\* block or hidden, and md:block
SidebarShown == Layouts(Location) # {} /\ (sidebarOpen \/ wide)

resolvedTheme == IF theme # "system" THEN theme
                 ELSE IF systemDark THEN "dark" ELSE "light"

\* The button offers, and sets, the theme that is not shown.
OtherTheme == IF resolvedTheme = "dark" THEN "light" ELSE "dark"

ThemeLabel == <<"common", IF resolvedTheme = "dark" THEN "themeLight" ELSE "themeDark">>

-----------------------------------------------------------------------------
\* Texts: the keys the components hand to t(), and the locale file.

SiteHeaderKeys == {<<"common", "appName">>, <<"nav", "home">>, <<"nav", "console">>}
HomePageKeys == {<<"home", "heroTitle">>, <<"home", "heroSubtitle">>,
                 <<"home", "ctaConsole">>, <<"home", "ctaModels">>}
AdminIndexPage == {<<"admin", "title">>}
ConsoleOverviewPage == {<<"console", "overviewTitle">>}
ConsoleKeysPage == {<<"console", "keysTitle">>}
ConsoleUsagePage == {<<"console", "usageTitle">>}
ConsoleWalletPage == {<<"console", "walletTitle">>}

PageKeys == [IndexRoute |-> SiteHeaderKeys \union HomePageKeys,
             AdminIndexRoute |-> AdminIndexPage,
             ConsoleIndexRoute |-> ConsoleOverviewPage,
             ConsoleKeysRoute |-> ConsoleKeysPage,
             ConsoleUsageRoute |-> ConsoleUsagePage,
             ConsoleWalletRoute |-> ConsoleWalletPage]

\* PagePlaceholder, which every page of a layout uses.
PlaceholderKeys == IF Layouts(Location) # {} /\ Pages(Location) # {}
                   THEN {<<"common", "comingSoon">>} ELSE {}

AppLayoutKeys == IF Layouts(Location) = {} THEN {}
                 ELSE {<<"common", "appName">>} \union {i.labelKey : i \in ShownItems}

KeysShown == (UNION {PageKeys[r] : r \in Pages(Location)})
             \union PlaceholderKeys
             \union AppLayoutKeys
             \union IF HasHeader THEN {ThemeLabel} ELSE {}

zhCN == [common |-> {"appName", "comingSoon", "themeLight", "themeDark", "themeSystem"},
         nav |-> {"home", "console", "admin", "overview", "apiKeys", "usage", "wallet"},
         home |-> {"heroTitle", "heroSubtitle", "ctaConsole", "ctaModels"},
         console |-> {"overviewTitle", "keysTitle", "usageTitle", "walletTitle"},
         admin |-> {"title"}]

\* i18n/index.ts: the groups of the file are namespaces, the default one is
\* "common", and i18next looks a key without ':' up in the default one, with
\* '.' separating its steps.  What it does not find it shows as the key.
defaultNS == "common"

Translated(key) == key \in {<<name>> : name \in zhCN[defaultNS]}

-----------------------------------------------------------------------------

InAdmin(path) == Layouts(path) = {"AdminRouteRoute"}

\* Every store starts anew with the document.
LoadDocument == sidebarOpen' = TRUE

Init == /\ \E path \in TypedPaths : /\ entries = <<path>>
                                    /\ adminTyped = InAdmin(path)
        /\ pos = 1
        /\ sidebarOpen = TRUE
        /\ wide \in BOOLEAN
        /\ theme = "system"
        /\ systemDark \in BOOLEAN

\* A navigation drops what lies ahead in the history.
Push(path) == /\ pos < MaxEntries
              /\ entries' = Append(SubSeq(entries, 1, pos), path)
              /\ pos' = pos + 1

\* A link to the path that is shown adds no entry.
Follow(to) == /\ to \in Links
              /\ to # Location
              /\ Push(to)
              /\ UNCHANGED <<sidebarOpen, wide, theme, systemDark, adminTyped>>

TypeUrl(path) == /\ Push(path)
                 /\ adminTyped' = (adminTyped \/ InAdmin(path))
                 /\ LoadDocument
                 /\ UNCHANGED <<wide, theme, systemDark>>

Reload == /\ LoadDocument
          /\ UNCHANGED <<entries, pos, wide, theme, systemDark, adminTyped>>

\* Back and forward may stay in the document, load one, or find one that the
\* browser has kept with its store.
Traverse(n) == /\ pos' = n
               /\ sidebarOpen' \in BOOLEAN
               /\ UNCHANGED <<entries, wide, theme, systemDark, adminTyped>>

ToggleSidebar == /\ SidebarButtonShown
                 /\ sidebarOpen' = ~sidebarOpen
                 /\ UNCHANGED <<entries, pos, wide, theme, systemDark, adminTyped>>

\* Mutant: the button compares theme, which may be "system", instead of
\* resolvedTheme.
ToggleStoredTheme == /\ HasHeader
                     /\ theme' = IF theme = "dark" THEN "light" ELSE "dark"
                     /\ UNCHANGED <<entries, pos, sidebarOpen, wide, systemDark, adminTyped>>

ToggleTheme == /\ HasHeader
               /\ theme' = OtherTheme
               /\ UNCHANGED <<entries, pos, sidebarOpen, wide, systemDark, adminTyped>>

Resize == /\ wide' = ~wide
          /\ UNCHANGED <<entries, pos, sidebarOpen, theme, systemDark, adminTyped>>

SystemChanges == /\ systemDark' = ~systemDark
                 /\ UNCHANGED <<entries, pos, sidebarOpen, wide, theme, adminTyped>>

Next == \/ \E to \in Links : Follow(to)
        \/ \E path \in TypedPaths : TypeUrl(path)
        \/ Reload
        \/ \E n \in 1..Len(entries) : Traverse(n)
        \/ ToggleSidebar
        \/ ToggleTheme
        \/ Resize
        \/ SystemChanges

Spec == Init /\ [][Next]_vars

-----------------------------------------------------------------------------

TypeOK == /\ entries \in Seq(Seq(Segments)) /\ pos \in 1..Len(entries)
          /\ sidebarOpen \in BOOLEAN /\ wide \in BOOLEAN /\ systemDark \in BOOLEAN
          /\ theme \in {"system", "light", "dark"}
          /\ adminTyped \in BOOLEAN

\* "侧边导航仅指向已存在路由" (PROGRESS.md:57).  The row says that the compiler
\* sees to it, but the items of AppLayout have `to: string`: every link the
\* shell offers leads to exactly one page, and to the page the table the links
\* are typed with names for it.
LinksLeadToPages ==
    \A to \in Links : \E r \in Routes : /\ Pages(to) = {r}
                                        /\ FileRoutesByTo[r] = to

\* On every page of a layout exactly one item is active, the one that leads to
\* the page; where there is no page at most one is.
OneItemPerPage ==
    Layouts(Location) # {} =>
        IF Pages(Location) # {} THEN ActiveItems # {} /\ \A i \in ActiveItems : i.to = Location
                                ELSE \A i, j \in ActiveItems : i = j

\* "前端仅路由隔离" (routes/admin/route.tsx:8): no link leads into the admin
\* area, so no path of it gets into the history unless one has been typed.
AdminIsTyped == \A n \in DOMAIN entries : InAdmin(entries[n]) => adminTyped

\* Whatever the store was left at on a narrow screen, and wherever the user
\* went since, the navigation is shown or the button that shows it is.
NavReachable == ShownItems # {} => SidebarShown \/ SidebarButtonShown

\* Every key a component asks for has its entry in the locale file.
KeysHaveEntries == \A key \in KeysShown :
                       key[1] \in DOMAIN zhCN /\ key[2] \in zhCN[key[1]]

\* "所有用户可见文字经 i18next t() 输出（zh-CN 资源 ...）" (DESIGN.md:67): t()
\* finds a text for every key.
EveryKeyTranslated == \A key \in KeysShown : Translated(key)

\* "明暗互切（resolvedTheme 判定，aria-label 本地化）" (DESIGN.md:58): pressing
\* the button brings the theme its label announced, whatever was stored and
\* whatever the system prefers.
ToggleDoesWhatItSays ==
    [][theme' # theme =>
          resolvedTheme' = IF ThemeLabel[2] = "themeDark" THEN "dark" ELSE "light"]_vars
=============================================================================

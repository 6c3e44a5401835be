--------------------------- MODULE AllowThreadsPage ---------------------------
(***************************************************************************)
(* The console's page of the threads the bot may answer in                 *)
(* (app/allow-threads/page.tsx): tabs that keep their lists, a search that *)
(* waits for the typing to end, and switches that are flipped before the   *)
(* server has agreed.  Answers of the server come in any order.            *)
(***************************************************************************)
EXTENDS Naturals, FiniteSets, Functions, TLC

CONSTANTS
    Tab,            \* the tabs: "allowed" and some of "friends", "groups"
    Listing,        \* [Tab \ {"allowed"} -> SUBSET thread]: what Zalo knows
    FoundBy,        \* [query -> SUBSET thread]: what each search finds
    TabLoad,        \* loads that may be on their way at once
    NoTabLoad       \* no load

PageThread == UNION Range(Listing)
Query == DOMAIN FoundBy

ASSUME PageAssumption ==
    /\ "allowed" \in Tab
    /\ "friends" \in Tab
    /\ Tab \subseteq {"friends", "groups", "allowed"}
    /\ DOMAIN Listing = Tab \ {"allowed"}
    /\ UNION Range(FoundBy) \subseteq PageThread
    /\ "" \in DOMAIN FoundBy
    /\ NoTabLoad \notin TabLoad

VARIABLES
    allowList,      \* threads on the server's allowlist
    tab,            \* the tab in view, "none" until the page is open
    search,         \* what the search box holds
    timer,          \* the tab the waiting search will load, or "none"
    lists,          \* [Tab -> the list a tab keeps]
    asks,           \* [TabLoad -> a load on its way]
    current,        \* [Tab -> the load a tab takes the answer of]
    flips,          \* [PageThread -> a switch on its way]
    searched,       \* [Tab -> the search last asked for] (history)
    muddled         \* tabs whose flags a switch has overtaken (history)

threadPageVars == <<allowList, tab, search, timer, lists, asks, current, flips, searched, muddled>>

\* A list: the rows shown, each with its flag, and where it stands.
EmptyList == [rows |-> <<>>, failed |-> FALSE, loaded |-> FALSE, query |-> ""]
NotLoading == [tab |-> "none", query |-> ""]
NoFlip == [tab |-> "none", to |-> FALSE]

FlagRows == UNION {[S -> BOOLEAN] : S \in SUBSET PageThread}

\* What the server answers: Zalo's listing with the allowlist's flags, or the allowlist.
ServerList(t, q) ==
    LET hits == FoundBy[q] \cap (IF t = "allowed" THEN allowList ELSE Listing[t])
    IN [a \in hits |-> a \in allowList]

\* loadTab(t, q) begun beside the other changes of a step: it takes the place of the load
\* before it.
LoadTab(t, q) ==
    /\ \E x \in TabLoad :
        /\ asks[x] = NotLoading
        /\ asks' = [asks EXCEPT ![x] = [tab |-> t, query |-> q]]
        /\ current' = [current EXCEPT ![t] = x]
    /\ lists' = [lists EXCEPT ![t].failed = FALSE]
    /\ searched' = [searched EXCEPT ![t] = q]
    /\ muddled' = IF \A a \in PageThread : flips[a] = NoFlip
                  THEN muddled \ {t} ELSE muddled \cup {t}

NoLoadNow == UNCHANGED <<asks, current, lists, searched, muddled>>

\* The page opens on the friends, which it loads.
OpenPage ==
    /\ tab = "none"
    /\ tab' = "friends"
    /\ LoadTab("friends", search)
    /\ UNCHANGED <<allowList, search, timer, flips>>

\* The operator opens a tab, which loads unless it has the search's list.
OpenTab(t) ==
    /\ tab \notin {"none", t}
    /\ tab' = t
    /\ IF lists[t].loaded /\ lists[t].query = search
       THEN NoLoadNow
       ELSE LoadTab(t, search)
    /\ UNCHANGED <<allowList, search, timer, flips>>

\* The operator types: the waiting search is dropped, and one for the tab in view waits.
TypeSearch(q) ==
    /\ tab # "none"
    /\ q # search
    /\ search' = q
    /\ timer' = tab
    /\ NoLoadNow
    /\ UNCHANGED <<allowList, tab, flips>>

\* The 400 ms are over.
SearchNow ==
    /\ timer # "none"
    /\ timer' = "none"
    /\ LoadTab(timer, search)
    /\ UNCHANGED <<allowList, tab, search, flips>>

\* The refresh button, off while the tab loads.
RefreshTab ==
    /\ tab # "none"
    /\ current[tab] = NoTabLoad
    /\ LoadTab(tab, search)
    /\ UNCHANGED <<allowList, tab, search, timer, flips>>

\* A load is overtaken when its tab has begun another.
Overtaken(x) == current[asks[x].tab] # x

\* The end of a load at the page: its tab shows the list, unless it is superseded.
Settle(x, list) ==
    /\ asks' = [asks EXCEPT ![x] = NotLoading]
    /\ IF Overtaken(x)
       THEN UNCHANGED <<lists, current>>
       ELSE /\ lists' = [lists EXCEPT ![asks[x].tab] = list]
            /\ current' = [current EXCEPT ![asks[x].tab] = NoTabLoad]
    /\ UNCHANGED <<allowList, tab, search, timer, flips, searched, muddled>>

\* The answer of a load arrives, or its error does.  The server is taken to read at that
\* moment: a tab whose load a switch overlaps is muddled anyhow.
LoadArrives(x) ==
    /\ asks[x] # NotLoading
    /\ Settle(x, [rows |-> ServerList(asks[x].tab, asks[x].query), failed |-> FALSE,
                  loaded |-> TRUE, query |-> asks[x].query])

LoadFails(x) ==
    /\ asks[x] # NotLoading
    /\ Settle(x, [rows |-> <<>>, failed |-> TRUE, loaded |-> TRUE, query |-> asks[x].query])

\* A row's flag in a tab's list, set if the row is there.
Flip(ls, t, a, to) ==
    IF a \in DOMAIN ls[t].rows THEN [ls EXCEPT ![t].rows[a] = to] ELSE ls

\* toggleAllow: the row is flipped at once, its button is off until the answer.
ToggleAllow(a) ==
    /\ tab # "none"
    /\ ~lists[tab].failed
    /\ a \in DOMAIN lists[tab].rows
    /\ flips[a] = NoFlip
    /\ LET to == ~lists[tab].rows[a]
       IN /\ flips' = [flips EXCEPT ![a] = [tab |-> tab, to |-> to]]
          /\ lists' = Flip(lists, tab, a, to)
    /\ muddled' = muddled \cup {t \in Tab : t # tab \/ current[t] # NoTabLoad}
    /\ UNCHANGED <<allowList, tab, search, timer, asks, current, searched>>

\* The answer of a switch, which the server stored: the allowed tab is to be loaded again, and
\* drops a row that was switched off there.
FlipStored(a) ==
    /\ flips[a] # NoFlip
    /\ allowList' = IF flips[a].to THEN allowList \cup {a} ELSE allowList \ {a}
    /\ LET rows == lists["allowed"].rows
       IN lists' = [lists EXCEPT
                       !["allowed"].loaded = FALSE,
                       !["allowed"].rows = IF flips[a].tab = "allowed" /\ ~flips[a].to
                                           THEN Restrict(rows, DOMAIN rows \ {a})
                                           ELSE rows]
    /\ flips' = [flips EXCEPT ![a] = NoFlip]
    /\ UNCHANGED <<tab, search, timer, asks, current, searched, muddled>>

\* A switch is refused, or its answer is lost after the server stored it: flipped back.
FlipFails(a) ==
    /\ flips[a] # NoFlip
    /\ lists' = Flip(lists, flips[a].tab, a, ~flips[a].to)
    /\ flips' = [flips EXCEPT ![a] = NoFlip]
    /\ \/ UNCHANGED <<allowList, muddled>>
       \/ /\ allowList' = IF flips[a].to THEN allowList \cup {a} ELSE allowList \ {a}
          /\ muddled' = Tab
    /\ UNCHANGED <<tab, search, timer, asks, current, searched>>

ThreadPageInit ==
    /\ allowList \in SUBSET PageThread
    /\ tab = "none"
    /\ search = ""
    /\ timer = "none"
    /\ lists = [t \in Tab |-> EmptyList]
    /\ asks = [x \in TabLoad |-> NotLoading]
    /\ current = [t \in Tab |-> NoTabLoad]
    /\ flips = [a \in PageThread |-> NoFlip]
    /\ searched = [t \in Tab |-> ""]
    /\ muddled = {}

ThreadPageNext ==
    \/ OpenPage
    \/ \E t \in Tab : OpenTab(t)
    \/ \E q \in Query : TypeSearch(q)
    \/ SearchNow
    \/ RefreshTab
    \/ \E x \in TabLoad : LoadArrives(x) \/ LoadFails(x)
    \/ \E a \in PageThread : ToggleAllow(a) \/ FlipStored(a) \/ FlipFails(a)

ThreadPageSpec == ThreadPageInit /\ [][ThreadPageNext]_threadPageVars

ThreadPageTypeOK ==
    /\ allowList \subseteq PageThread
    /\ tab \in Tab \cup {"none"}
    /\ search \in Query
    /\ timer \in Tab \cup {"none"}
    /\ lists \in [Tab -> [rows : FlagRows, failed : BOOLEAN, loaded : BOOLEAN, query : Query]]
    /\ asks \in [TabLoad -> [tab : Tab \cup {"none"}, query : Query]]
    /\ current \in [Tab -> TabLoad \cup {NoTabLoad}]
    /\ flips \in [PageThread -> [tab : Tab \cup {"none"}, to : BOOLEAN]]
    /\ searched \in [Tab -> Query]
    /\ muddled \subseteq Tab

\* A tab that waits for no answer shows the search it last asked for, whatever the order in
\* which earlier answers came (the sequence check of loadTab); and with no switch on its way,
\* its rows and flags are the server's, unless a switch was made in another tab, beside a
\* load, or with its answer lost.
ThreadsShownAreCurrent ==
    \A t \in Tab :
        lists[t].loaded /\ current[t] = NoTabLoad =>
            /\ lists[t].query = searched[t]
            /\ (~lists[t].failed /\ t \notin muddled /\ \A a \in PageThread : flips[a] = NoFlip)
                   => lists[t].rows = ServerList(t, searched[t])
=============================================================================

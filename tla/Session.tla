------------------------------ MODULE Session ------------------------------
(***************************************************************************)
(* The session of the browser and the pages it leads to: useAuth.ts, the   *)
(* guards ProtectedRoute.tsx and PublicRoute.tsx, the routes of App.tsx,   *)
(* the login form, the menus and the tabs.  Every component has its own    *)
(* useAuth; what they share is the local storage, and that is shared by    *)
(* all tabs of the browser, none of which is told of a change.             *)
(***************************************************************************)
EXTENDS Integers, Sequences

CONSTANTS
    Tabs,             \* the tabs of the browser
    Users,
    MaxLogins,        \* bound: how many logins the server answers
    None

SessionAssumption == MaxLogins \in Nat /\ None \notin Users

VARIABLES
    storage,          \* the local storage: access_token and userData
    tab,              \* the state of each tab
    logins            \* the users of the tokens the server has given

vars == <<storage, tab, logins>>

NoToken == 0

RouterTabs == {"/router/id", "/router/id/interfaces", "/router/id/vlans"}
TransmitterTabs == {"/transmitter/id", "/transmitter/id/interfaces", "/transmitter/id/vlans"}
LayoutPaths == RouterTabs \cup {"/routers", "/transmitters", "/switches", "/transmitters/id"}

\* The path that is shown for a path: the catch-all route goes to the dashboard.
Route(p) == IF p \in LayoutPaths \cup {"/login", "/dashboard"} THEN p ELSE "/dashboard"

\* Where in the tree a path is: React keeps the guard when both are the same.  A path
\* without a route of its own passes through the Navigate of the layout, which takes the
\* guard away, also of the dashboard it leads to.
Area(p) == IF p \in LayoutPaths THEN "layout" ELSE p

\* What each page offers to click.  Of the links of a transmitter's tabs and of the lower
\* menu, most have no route.
Links(p) ==
    {"/", "/routers", "/transmitters", "/switches"} \cup {"/settings", "/about", "/feedback"} \cup
    (IF p = "/routers" THEN {"/router/id"}
     ELSE IF p = "/transmitters" THEN {"/transmitters/id"}
     ELSE IF p \in RouterTabs THEN RouterTabs
     ELSE IF p = "/transmitters/id" THEN TransmitterTabs
     ELSE {})

\* guard: isLoading and isAuthenticated of the guard; user: what the side menu shows, as
\* of which login; sending: the login on its way.
ClosedTab == [path |-> None, guard |-> "none", user |-> None, asOf |-> 0, sending |-> None]
LoginForm(t) == tab[t].path = "/login" /\ tab[t].guard = "out"
Inside(t) == tab[t].path # "/login" /\ tab[t].guard = "in"
-----------------------------------------------------------------------------
AtOldMenu(t, p) ==      \* mistake: the side menu reads the user once
    [tab[t] EXCEPT !.path = Route(p),
                   !.guard = IF Area(p) = Area(tab[t].path) THEN @ ELSE "checking",
                   !.user = IF @ = None THEN storage.user ELSE @,
                   !.asOf = Len(logins)]

\* A navigation inside the tab.  A new guard starts loading, one that is kept stays as
\* it is; the side menu is rendered with the route and reads the user.
At(t, p) ==
    [tab[t] EXCEPT !.path = Route(p),
                   !.guard = IF Area(p) = Area(tab[t].path) THEN @ ELSE "checking",
                   !.user = storage.user, !.asOf = Len(logins)]

\* A path is typed, or the tab is reloaded: everything but the storage starts anew.
Visit(t, p) ==
    /\ tab' = [tab EXCEPT ![t] = [ClosedTab EXCEPT !.path = Route(p), !.guard = "checking",
                                                  !.user = storage.user, !.asOf = Len(logins)]]
    /\ UNCHANGED <<storage, logins>>

\* checkAuthStatus, and what ProtectedRoute and PublicRoute make of it.
Check(t) ==
    /\ tab[t].guard = "checking"
    /\ tab' = [tab EXCEPT ![t] =
          IF tab[t].path = "/login"
          THEN IF storage.token = NoToken THEN [tab[t] EXCEPT !.guard = "out"]
               ELSE At(t, "/dashboard")
          ELSE IF storage.token = NoToken THEN At(t, "/login")
               ELSE [tab[t] EXCEPT !.guard = "in"]]
    /\ UNCHANGED <<storage, logins>>

\* A click on a link of a page: handleNavigation, handleTabChange, a row's action.
Follow(t, link) ==
    /\ Inside(t)
    /\ tab' = [tab EXCEPT ![t] = At(t, link)]
    /\ UNCHANGED <<storage, logins>>

\* The browser's history leads back to a page.
Back(t, p) ==
    /\ tab[t].path # None
    /\ tab' = [tab EXCEPT ![t] = At(t, p)]
    /\ UNCHANGED <<storage, logins>>
-----------------------------------------------------------------------------
\* Login and logout.

\* handleSubmit with a form the schema accepts; the button is disabled meanwhile.
Submit(t, u) ==
    /\ LoginForm(t)
    /\ tab[t].sending = None
    /\ tab' = [tab EXCEPT ![t].sending = u]
    /\ UNCHANGED <<storage, logins>>

\* onSuccess: the token and the user are stored, and the tab goes to the dashboard,
\* wherever it is by now.
Accepted(t) ==
    /\ tab[t].sending # None
    /\ Len(logins) < MaxLogins
    /\ logins' = Append(logins, tab[t].sending)
    /\ storage' = [storage EXCEPT !.token = Len(logins) + 1, !.user = tab[t].sending]
    /\ tab' = [tab EXCEPT ![t] = [At(t, "/dashboard") EXCEPT !.sending = None,
                                     !.user = tab[t].sending, !.asOf = Len(logins) + 1]]

\* onError: the user is told.
Rejected(t) ==
    /\ tab[t].sending # None
    /\ tab' = [tab EXCEPT ![t].sending = None]
    /\ UNCHANGED <<storage, logins>>

\* The button of the side menu.  The user's data stays in the storage.
Logout(t) ==
    /\ Inside(t)
    /\ storage' = [storage EXCEPT !.token = NoToken]
    /\ tab' = [tab EXCEPT ![t] = At(t, "/login")]
    /\ UNCHANGED logins
-----------------------------------------------------------------------------
Init ==
    /\ storage = [token |-> NoToken, user |-> None]
    /\ tab = [t \in Tabs |-> ClosedTab]
    /\ logins = <<>>

Typable == {"/", "/login", "/routers"}

Asked(t) == \E p \in Typable : Visit(t, p) \/ Back(t, p)

Next ==
    \E t \in Tabs :
        \/ Asked(t)
        \/ \E link \in Links(tab[t].path) : Follow(t, link)
        \/ \E u \in Users : Submit(t, u)
        \/ Check(t) \/ Accepted(t) \/ Rejected(t) \/ Logout(t)

Spec == Init /\ [][Next]_vars

-----------------------------------------------------------------------------
\* Every variable holds a value of its kind, and a tab shows a path that has a route.
TypeOK ==
    /\ storage.token \in 0..Len(logins) /\ storage.user \in Users \cup {None}
    /\ \A t \in Tabs :
          /\ tab[t].path \in LayoutPaths \cup {"/login", "/dashboard", None}
          /\ tab[t].guard \in {"none", "checking", "in", "out"}
          /\ tab[t].sending \in Users \cup {None}

\* Whatever tabs log in and out meanwhile, a page behind a guard is shown only to a tab
\* that found a token there, and the login form only to one that found none: a guard
\* never hands its answer to a page of another kind.
GuardsAnswerForTheirPage ==
    \A t \in Tabs :
        /\ (tab[t].guard = "in" => tab[t].path # "/login")
        /\ (tab[t].guard = "out" => tab[t].path = "/login")

\* The side menu names the user whose token is used, unless another tab has logged in
\* since the menu was rendered.
MenuNamesTheUser ==
    \A t \in Tabs :
        Inside(t) /\ storage.token # NoToken /\ tab[t].asOf = Len(logins)
            => tab[t].user = logins[storage.token]

\* The two guards do not send a tab to and fro forever: unless its user keeps asking for
\* pages, and with the finitely many logins of MaxLogins, it comes to rest on one.
GuardSettles(t) == []<>(tab[t].guard # "checking") \/ []<><<Asked(t)>>_vars
=============================================================================

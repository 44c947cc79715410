----------------------------- MODULE WebSession -----------------------------
(***************************************************************************)
(* Who the tabs of one browser show as signed in.  The tabs share the      *)
(* access token in localStorage and the session cookie; each has a cache   *)
(* of its own for GET /v1/me, which decides between the login page and the *)
(* dashboard.  A sign-in sets the cookie when its answer arrives, and the  *)
(* token when the page gets to it; the dashboard comes on the screen a     *)
(* little later.  The cache (@tanstack/react-query) and the browser are    *)
(* external and modelled from how the pages use them.                      *)
(***************************************************************************)
EXTENDS FiniteSets

CONSTANTS
    Tabs, Users,
    Sessions,   \* the sessions that the server can issue
    UserOf,     \* session -> its user
    NULL

VARIABLES
    issued,     \* the sessions issued so far
    expired,    \* the sessions past their expiry
    stored,     \* orivis_access_token in localStorage, or NULL
    cookie,     \* the session cookie, or NULL
    tab,        \* what each tab holds
    entered,    \* history: the session of the last sign-in that each tab completed, NULL
                \* when the credentials changed, an answer was lost or an older
                \* request was answered since
    changed     \* history: the tabs whose credentials changed since their last request

vars == <<issued, expired, stored, cookie, tab, entered, changed>>

NoFetch == "none"

ASSUME WebAssumption ==
    /\ UserOf \in [Sessions -> Users]
    /\ NULL \notin Sessions \cup {NoFetch} /\ NoFetch \notin Sessions

\* status, data and fetch are the query of /v1/me: its state, the user it last
\* got, which an error keeps, and the session that the request under way presents.
\* signing and answer are the sign-in under way, opening is its last part: the
\* dashboard is to replace the login page.
Tab == [page : {"guest", "dashboard"}, status : {"pending", "success", "error"},
        data : Users \cup {NULL}, fetch : Sessions \cup {NULL, NoFetch},
        signing : BOOLEAN, answer : Sessions \cup {NULL}, opening : BOOLEAN]

-----------------------------------------------------------------------------
(* The server's and the library's part.                                    *)

Usable(s) == s # NULL /\ s \notin expired

\* The session that a request presents: a token in its header hides the cookie,
\* even if only the cookie is still good.
parseAccessClaims(token) == IF token # NULL THEN token ELSE cookie

Current == parseAccessClaims(stored)

\* A request for /v1/me; any that is under way has been cut off.  The status
\* changes only while there is nothing to show.
Fetching(me, sent) ==
    [me EXCEPT !.fetch = sent, !.status = IF me.data = NULL THEN "pending" ELSE @]

Init ==
    /\ issued = {} /\ expired = {} /\ stored = NULL /\ cookie = NULL
    /\ tab = [t \in Tabs |->
         [page |-> "guest", status |-> "pending", data |-> NULL,
          fetch |-> NULL, signing |-> FALSE, answer |-> NULL, opening |-> FALSE]]
    /\ entered = [t \in Tabs |-> NULL]
    /\ changed = {}

\* What a change of the credentials means for the tabs in ts.
Disturb(ts) ==
    /\ changed' = changed \cup ts
    /\ entered' = [t \in Tabs |-> IF t \in ts THEN NULL ELSE entered[t]]

-----------------------------------------------------------------------------
(* Signing in: password, second factor, registration or provider callback. *)

\* GuestOnly renders its page: the caller is known not to be signed in.
Submit(t) ==
    /\ tab[t].page = "guest" /\ tab[t].status = "error"
    /\ ~ tab[t].signing /\ tab[t].answer = NULL
    /\ tab' = [tab EXCEPT ![t].signing = TRUE]
    /\ UNCHANGED <<issued, expired, stored, cookie, entered, changed>>

\* The answer arrives, and the browser takes its cookie.
setSessionCookie(t) ==
    /\ tab[t].signing
    /\ \E s \in Sessions :
         /\ s \notin issued
         /\ issued' = issued \cup {s}
         /\ cookie' = s
         /\ tab' = [tab EXCEPT ![t].signing = FALSE, ![t].answer = s]
    /\ Disturb(Tabs \ {t})
    /\ UNCHANGED <<expired, stored>>

\* The page shows an error, and nothing has changed.
SignInFails(t) ==
    /\ tab[t].signing
    /\ tab' = [tab EXCEPT ![t].signing = FALSE]
    /\ UNCHANGED <<issued, expired, stored, cookie, entered, changed>>

\* The library goes on with the request under way when it has nothing to show.
Keeps(me) == me.fetch # NoFetch /\ me.data = NULL

\* Mutated forms of Invalidate: the query is left as it is; or invalidated
\* before the token is stored.
LeaveQuery(me, before, after) == me
InvalidateFirst(me, before, after) == IF Keeps(me) THEN me ELSE Fetching(me, before)

\* invalidateQueries asks again with the credentials after the storing, unless
\* the request that was sent with those before is kept.
Invalidate(me, before, after) == IF Keeps(me) THEN me ELSE Fetching(me, after)

\* The token is stored, the query invalidated and the dashboard asked for.
onAuthenticated(t) ==
    LET s == tab[t].answer
        me == Invalidate(tab[t], Current, parseAccessClaims(s))
    IN /\ s # NULL
       /\ stored' = s
       /\ tab' = [tab EXCEPT ![t] = [me EXCEPT !.answer = NULL, !.opening = (me.page = "guest")]]
       /\ entered' = [other \in Tabs |-> IF other = t /\ Usable(s) THEN s ELSE NULL]
       /\ changed' = IF Keeps(tab[t]) THEN Tabs ELSE Tabs \ {t}
       /\ UNCHANGED <<issued, expired, cookie>>

\* The dashboard replaces the login page, which cuts off the request under way
\* and makes another, unless there are data that have not become stale.
\* RequireAuth goes back while the query is still in error.
OpenDashboard(t) ==
    LET opened(me) == [me EXCEPT !.opening = FALSE,
                          !.page = IF me.status = "error" THEN "guest" ELSE "dashboard"]
    IN /\ tab[t].opening
       /\ \/ /\ tab' = [tab EXCEPT ![t] = opened(Fetching(tab[t], Current))]
             /\ changed' = changed \ {t}
          \/ /\ tab[t].data # NULL /\ tab[t].fetch = NoFetch
             /\ tab' = [tab EXCEPT ![t] = opened(tab[t])]
             /\ UNCHANGED changed
       /\ UNCHANGED <<issued, expired, stored, cookie, entered>>

-----------------------------------------------------------------------------
(* The query of /v1/me.                                                    *)

\* Another mount of a page, a lost connection that comes back.
Refetch(t) ==
    /\ tab[t].fetch = NoFetch
    /\ tab' = [tab EXCEPT ![t] = Fetching(tab[t], Current)]
    /\ changed' = changed \ {t}
    /\ UNCHANGED <<issued, expired, stored, cookie, entered>>

\* A user: the dashboard is shown, GuestOnly going there by itself.
Accepted(t) ==
    /\ tab[t].fetch # NoFetch /\ Usable(tab[t].fetch)
    /\ tab' = [tab EXCEPT ![t] = [@ EXCEPT
                  !.page = "dashboard", !.status = "success", !.opening = FALSE,
                  !.data = UserOf[tab[t].fetch], !.fetch = NoFetch]]
    /\ entered' = IF t \in changed THEN [entered EXCEPT ![t] = NULL] ELSE entered
    /\ UNCHANGED <<issued, expired, stored, cookie, changed>>

\* Mutated form of ShowError: RequireAuth stays on its page.
StayOnError(t) ==
    /\ tab' = [tab EXCEPT ![t].status = "error", ![t].fetch = NoFetch]
    /\ UNCHANGED changed

\* RequireAuth goes to the login page, whose mount fetches again: always when
\* there are no data, and otherwise if they have become stale.
ShowError(t) ==
    LET me == [tab[t] EXCEPT !.page = "guest", !.status = "error", !.fetch = NoFetch]
        mounts == tab[t].page = "dashboard"
    IN \/ /\ ~ mounts \/ me.data # NULL
          /\ tab' = [tab EXCEPT ![t] = me]
          /\ UNCHANGED changed
       \/ /\ mounts
          /\ tab' = [tab EXCEPT ![t] = Fetching(me, Current)]
          /\ changed' = changed \ {t}

Refused(t) ==
    /\ tab[t].fetch # NoFetch /\ ~ Usable(tab[t].fetch)
    /\ ShowError(t)
    /\ UNCHANGED <<issued, expired, stored, cookie, entered>>

\* No answer, which the query does not retry.
Lost(t) ==
    /\ tab[t].fetch # NoFetch
    /\ ShowError(t)
    /\ entered' = [entered EXCEPT ![t] = NULL]
    /\ UNCHANGED <<issued, expired, stored, cookie>>

-----------------------------------------------------------------------------
(* "Clear stored token": the cookie and the query stay as they are.        *)
clearBearerToken(t) ==
    /\ tab[t].page = "dashboard" /\ tab[t].data # NULL /\ stored # NULL
    /\ stored' = NULL
    /\ Disturb(Tabs)
    /\ UNCHANGED <<issued, expired, cookie, tab>>

\* The tab is loaded again: its cache is empty and what it was doing forgotten.
Reload(t) ==
    /\ tab' = [tab EXCEPT ![t] =
         [page |-> @.page, status |-> "pending", data |-> NULL, fetch |-> Current,
          signing |-> FALSE, answer |-> NULL, opening |-> FALSE]]
    /\ changed' = changed \ {t}
    /\ UNCHANGED <<issued, expired, stored, cookie, entered>>

\* The token and the cookie of a session live equally long.
Expire(s) ==
    /\ s \in issued /\ Usable(s)
    /\ expired' = expired \cup {s}
    /\ cookie' = IF cookie = s THEN NULL ELSE cookie
    /\ Disturb(Tabs)
    /\ UNCHANGED <<issued, stored, tab>>

Proceed(t) == setSessionCookie(t) \/ SignInFails(t) \/ onAuthenticated(t)
Receive(t) == Accepted(t) \/ Refused(t) \/ Lost(t)

Next ==
    \/ \E t \in Tabs : \/ Submit(t) \/ Proceed(t) \/ OpenDashboard(t) \/ Receive(t)
                       \/ Refetch(t) \/ clearBearerToken(t) \/ Reload(t)
    \/ \E s \in Sessions : Expire(s)

Spec == Init /\ [][Next]_vars

\* A request ends with an answer or an error, the page goes on with it, and the
\* browser gets to show the page that it was told to.
FairSpec ==
    Spec /\ \A t \in Tabs : WF_vars(Receive(t) \/ OpenDashboard(t)) /\ WF_vars(Proceed(t))

-----------------------------------------------------------------------------
(* Properties.                                                             *)

TypeOK ==
    /\ issued \subseteq Sessions /\ expired \subseteq issued
    /\ {stored, cookie} \subseteq Sessions \cup {NULL}
    /\ tab \in [Tabs -> Tab]
    /\ \A t \in Tabs : tab[t].page = "dashboard" => tab[t].status # "error"
    /\ entered \in [Tabs -> Sessions \cup {NULL}]
    /\ changed \subseteq Tabs

\* A tab that shows somebody as signed in shows the user as whom the browser
\* acts, if its credentials did not change since it last asked: no other tab
\* signed in, nothing expired, the token was not cleared, and no own sign-in had
\* the library keep a request sent before it.
ShownUserIsCurrent ==
    \A t \in Tabs :
        /\ tab[t].status = "success" /\ tab[t].fetch = NoFetch
        /\ tab[t].answer = NULL /\ t \notin changed
        => Usable(Current) /\ tab[t].data = UserOf[Current]

\* A completed sign-in leads to the dashboard of its user and not back to the
\* login page, unless its session expires, something else happens to the
\* credentials, an answer is lost, or a request that was sent before it is
\* answered before the dashboard has replaced the login page.
SignInOpensDashboard ==
    \A t \in Tabs :
        entered[t] # NULL ~>
            \/ entered[t] = NULL
            \/ tab[t].page = "dashboard" /\ tab[t].data = UserOf[entered[t]]
=============================================================================

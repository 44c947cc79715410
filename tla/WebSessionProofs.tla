-------------------------- MODULE WebSessionProofs --------------------------
(***************************************************************************)
(* Proofs about WebSession, for any number of tabs, users and sessions,    *)
(* and any length of run.                                                  *)
(*                                                                         *)
(* A tab shows what a request of the past was answered.  It is about the   *)
(* browser's session of now because the request that is under way, if      *)
(* nothing was disturbed since it was sent, presents that session:         *)
(* FetchIsCurrent.  A sign-in of the tab itself is the exception, between  *)
(* the arrival of its cookie and the storing of its token; when the        *)
(* library keeps a request from before, the storing disturbs the tab too.  *)
(***************************************************************************)
EXTENDS WebSession, TLAPS

USE WebAssumption

\* The request under way presents the session as which the browser acts.
FetchIsCurrent ==
    \A t \in Tabs :
        tab[t].fetch # NoFetch /\ tab[t].answer = NULL /\ t \notin changed
        => tab[t].fetch = Current

ShownInv == TypeOK /\ FetchIsCurrent /\ ShownUserIsCurrent

-----------------------------------------------------------------------------
(* The query of /v1/me.                                                    *)

\* The session that the browser presents is one the server issued, or none.
LEMMA CurrentType ==
  ASSUME TypeOK
  PROVE  Current \in Sessions \cup {NULL}
  BY DEF TypeOK, Current, parseAccessClaims

\* A new request leaves the tab as it is, but for the query's status.
LEMMA FetchingFields ==
  ASSUME NEW me \in Tab, NEW sent \in Sessions \cup {NULL}
  PROVE  /\ Fetching(me, sent) \in Tab
         /\ Fetching(me, sent).fetch = sent
         /\ Fetching(me, sent).status \in {me.status, "pending"}
         /\ Fetching(me, sent).page = me.page /\ Fetching(me, sent).data = me.data
         /\ Fetching(me, sent).answer = me.answer
         /\ sent # NoFetch
  BY DEF Fetching, Tab

\* After an error the tab shows the login page, and may be asking again.
LEMMA ErrorFields ==
  ASSUME TypeOK, NEW t \in Tabs, ShowError(t)
  PROVE  /\ tab' \in [Tabs -> Tab]
         /\ \A other \in Tabs \ {t} : tab'[other] = tab[other]
         /\ tab'[t].page = "guest" /\ tab'[t].answer = tab[t].answer
         /\ \/ tab'[t].status = "error" /\ tab'[t].fetch = NoFetch
            \/ tab'[t].fetch = Current /\ tab'[t].fetch # NoFetch
         /\ changed' \in {changed, changed \ {t}}
         /\ tab'[t].fetch = NoFetch \/ changed' = changed \ {t}
<1> DEFINE me == [tab[t] EXCEPT !.page = "guest", !.status = "error", !.fetch = NoFetch]
<1>1. /\ me \in Tab /\ me.page = "guest" /\ me.status = "error" /\ me.fetch = NoFetch
      /\ me.answer = tab[t].answer
  <2>1. tab[t] \in Tab
    BY DEF TypeOK
  <2>2. QED BY <2>1 DEF Tab
<1>2. \/ tab' = [tab EXCEPT ![t] = me] /\ UNCHANGED changed
      \/ tab' = [tab EXCEPT ![t] = Fetching(me, Current)] /\ changed' = changed \ {t}
  BY DEF ShowError
<1> HIDE DEF me
<1>3. CASE tab' = [tab EXCEPT ![t] = me] /\ UNCHANGED changed
  BY <1>1, <1>3 DEF TypeOK
<1>4. CASE tab' = [tab EXCEPT ![t] = Fetching(me, Current)] /\ changed' = changed \ {t}
  <2>1. /\ Fetching(me, Current) \in Tab /\ Fetching(me, Current).page = "guest"
        /\ Fetching(me, Current).answer = tab[t].answer
        /\ Fetching(me, Current).fetch = Current /\ Current # NoFetch
    BY <1>1, CurrentType, FetchingFields
  <2>2. QED BY <1>4, <2>1 DEF TypeOK
<1>5. QED BY <1>2, <1>3, <1>4

\* A tab that has signed in asks who it is with its new token, or is disturbed.
LEMMA AuthenticatedFields ==
  ASSUME TypeOK, NEW t \in Tabs, onAuthenticated(t)
  PROVE  /\ tab' \in [Tabs -> Tab]
         /\ \A other \in Tabs \ {t} : tab'[other] = tab[other]
         /\ tab'[t].page = "dashboard" => tab'[t].status # "error"
         /\ stored' = tab[t].answer /\ tab[t].answer \in Sessions
         /\ Tabs \ {t} \subseteq changed' /\ changed' \subseteq Tabs
         /\ t \in changed' \/ (tab'[t].fetch = tab[t].answer /\ tab'[t].fetch # NoFetch)
<1> DEFINE s == tab[t].answer
           me == Invalidate(tab[t], Current, parseAccessClaims(s))
           opening == (me.page = "guest")
<1>1. tab[t] \in Tab /\ s \in Sessions
  BY DEF onAuthenticated, TypeOK, Tab
<1>2. parseAccessClaims(s) = s
  BY <1>1 DEF parseAccessClaims
<1>3. /\ me \in Tab /\ me.page = tab[t].page /\ me.status \in {tab[t].status, "pending"}
      /\ Keeps(tab[t]) \/ (me.fetch = s /\ s # NoFetch)
  BY <1>1, <1>2, FetchingFields DEF Invalidate
<1>4. tab' = [tab EXCEPT ![t] = [me EXCEPT !.answer = NULL, !.opening = opening]]
  BY DEF onAuthenticated
<1>5. stored' = s /\ changed' = IF Keeps(tab[t]) THEN Tabs ELSE Tabs \ {t}
  BY DEF onAuthenticated
<1>6. tab[t].page = "dashboard" => tab[t].status # "error"
  BY DEF TypeOK
<1>7. opening \in BOOLEAN
  OBVIOUS
<1> HIDE DEF me, opening
<1>8. /\ [me EXCEPT !.answer = NULL, !.opening = opening] \in Tab
      /\ [me EXCEPT !.answer = NULL, !.opening = opening].fetch = me.fetch
      /\ [me EXCEPT !.answer = NULL, !.opening = opening].page = me.page
      /\ [me EXCEPT !.answer = NULL, !.opening = opening].status = me.status
  BY <1>3, <1>7 DEF Tab
<1>9. QED BY <1>1, <1>3, <1>4, <1>5, <1>6, <1>8 DEF TypeOK

\* The dashboard that replaces the login page asks again, or has nothing to ask.
LEMMA OpenedFields ==
  ASSUME TypeOK, NEW t \in Tabs, OpenDashboard(t)
  PROVE  /\ tab' \in [Tabs -> Tab]
         /\ \A other \in Tabs \ {t} : tab'[other] = tab[other]
         /\ tab'[t].page = "dashboard" => tab'[t].status # "error"
         /\ \/ /\ tab'[t].fetch = Current /\ tab'[t].fetch # NoFetch
               /\ changed' = changed \ {t}
            \/ /\ tab'[t].fetch = tab[t].fetch /\ tab'[t].status = tab[t].status
               /\ tab'[t].data = tab[t].data /\ tab'[t].answer = tab[t].answer
               /\ changed' = changed
         /\ UNCHANGED <<issued, expired, stored, cookie, entered>>
<1> DEFINE opened(me) == [me EXCEPT !.opening = FALSE,
                             !.page = IF me.status = "error" THEN "guest" ELSE "dashboard"]
<1>1. tab[t] \in Tab
  BY DEF TypeOK
<1>2. ASSUME NEW me \in Tab
      PROVE  /\ opened(me) \in Tab /\ opened(me).fetch = me.fetch
             /\ opened(me).status = me.status /\ opened(me).data = me.data
             /\ opened(me).answer = me.answer
             /\ opened(me).page = "dashboard" => opened(me).status # "error"
  BY <1>2 DEF Tab
<1>3. PICK me \in Tab :
        /\ tab' = [tab EXCEPT ![t] = opened(me)]
        /\ \/ me.fetch = Current /\ Current # NoFetch /\ changed' = changed \ {t}
           \/ me = tab[t] /\ changed' = changed
  <2>1. Fetching(tab[t], Current) \in Tab /\ Fetching(tab[t], Current).fetch = Current
        /\ Current # NoFetch
    BY <1>1, CurrentType, FetchingFields
  <2>2. CASE /\ tab' = [tab EXCEPT ![t] = opened(Fetching(tab[t], Current))]
             /\ changed' = changed \ {t}
    BY <2>1, <2>2
  <2>3. CASE tab' = [tab EXCEPT ![t] = opened(tab[t])] /\ UNCHANGED changed
    BY <1>1, <2>3
  <2>4. QED BY <2>2, <2>3 DEF OpenDashboard
<1> HIDE DEF opened
<1>4. QED BY <1>2, <1>3 DEF TypeOK, OpenDashboard

-----------------------------------------------------------------------------
(* Type correctness.                                                       *)

\* No session is kept that was not issued, and a dashboard is never in error.
LEMMA NextType == TypeOK /\ [Next]_vars => TypeOK'
<1> SUFFICES ASSUME TypeOK, [Next]_vars PROVE TypeOK'
  OBVIOUS
<1>1. ASSUME NEW t \in Tabs, Submit(t) \/ SignInFails(t) PROVE TypeOK'
  <2>1. PICK b \in BOOLEAN : tab' = [tab EXCEPT ![t].signing = b]
    BY <1>1 DEF Submit, SignInFails
  <2>2. tab[t] \in Tab
    BY DEF TypeOK
  <2>3. /\ [tab[t] EXCEPT !.signing = b] \in Tab
        /\ [tab[t] EXCEPT !.signing = b].page = tab[t].page
        /\ [tab[t] EXCEPT !.signing = b].status = tab[t].status
    BY <2>2 DEF Tab
  <2>4. UNCHANGED <<issued, expired, stored, cookie, entered, changed>>
    BY <1>1 DEF Submit, SignInFails
  <2>5. QED BY <2>1, <2>2, <2>3, <2>4 DEF TypeOK
<1>2. ASSUME NEW t \in Tabs, setSessionCookie(t) PROVE TypeOK'
  <2>1. PICK s \in Sessions :
          /\ issued' = issued \cup {s} /\ cookie' = s
          /\ tab' = [tab EXCEPT ![t].signing = FALSE, ![t].answer = s]
    BY <1>2 DEF setSessionCookie
  <2>2. tab[t] \in Tab
    BY DEF TypeOK
  <2>3. PICK me : me = [tab[t] EXCEPT !.signing = FALSE, !.answer = s]
    OBVIOUS
  <2>4. me \in Tab /\ me.page = tab[t].page /\ me.status = tab[t].status
    BY <2>2, <2>3 DEF Tab
  <2>5. tab' = [tab EXCEPT ![t] = me]
    BY <2>1, <2>2, <2>3 DEF TypeOK, Tab
  <2>6. /\ changed' \subseteq Tabs /\ entered' \in [Tabs -> Sessions \cup {NULL}]
        /\ UNCHANGED <<expired, stored>>
    BY <1>2 DEF setSessionCookie, Disturb, TypeOK
  <2>7. tab' \in [Tabs -> Tab]
    BY <2>4, <2>5 DEF TypeOK
  <2>8. \A o \in Tabs : tab'[o].page = "dashboard" => tab'[o].status # "error"
    BY <2>4, <2>5 DEF TypeOK
  <2>9. QED BY <2>1, <2>6, <2>7, <2>8 DEF TypeOK
<1>3. ASSUME NEW t \in Tabs, onAuthenticated(t) PROVE TypeOK'
  <2>1. entered' \in [Tabs -> Sessions \cup {NULL}]
        /\ UNCHANGED <<issued, expired, cookie>>
    BY <1>3 DEF onAuthenticated, TypeOK, Tab
  <2>2. \A other \in Tabs : tab'[other].page = "dashboard" => tab'[other].status # "error"
    BY <1>3, AuthenticatedFields DEF TypeOK
  <2>3. QED BY <1>3, <2>1, <2>2, AuthenticatedFields DEF TypeOK
<1>4. ASSUME NEW t \in Tabs, OpenDashboard(t) PROVE TypeOK'
  <2>1. \A other \in Tabs : tab'[other].page = "dashboard" => tab'[other].status # "error"
    BY <1>4, OpenedFields DEF TypeOK
  <2>2. changed' \subseteq Tabs
    BY <1>4, OpenedFields DEF TypeOK
  <2>3. QED BY <1>4, <2>1, <2>2, OpenedFields DEF TypeOK
<1>5. ASSUME NEW t \in Tabs, Refetch(t) PROVE TypeOK'
  <2>1. tab[t] \in Tab
    BY DEF TypeOK
  <2>2. /\ tab' = [tab EXCEPT ![t] = Fetching(tab[t], Current)]
        /\ UNCHANGED <<issued, expired, stored, cookie, entered>>
        /\ changed' = changed \ {t}
    BY <1>5 DEF Refetch
  <2>3. PICK me : me = Fetching(tab[t], Current)
    OBVIOUS
  <2>4. me \in Tab /\ me.page = tab[t].page /\ me.status \in {tab[t].status, "pending"}
    BY <2>1, <2>3, CurrentType, FetchingFields
  <2>5. tab' \in [Tabs -> Tab]
    BY <2>2, <2>3, <2>4 DEF TypeOK
  <2>6. \A o \in Tabs : tab'[o].page = "dashboard" => tab'[o].status # "error"
    BY <2>2, <2>3, <2>4 DEF TypeOK
  <2>7. QED BY <2>2, <2>5, <2>6 DEF TypeOK
<1>6. ASSUME NEW t \in Tabs, Accepted(t) PROVE TypeOK'
  <2>1. tab[t] \in Tab /\ tab[t].fetch \in Sessions
    BY <1>6 DEF Accepted, Usable, TypeOK, Tab
  <2>2. PICK u \in Users : u = UserOf[tab[t].fetch]
    BY <2>1
  <2>3. PICK me : me = [tab[t] EXCEPT !.page = "dashboard", !.status = "success",
                                      !.opening = FALSE, !.data = u, !.fetch = NoFetch]
    OBVIOUS
  <2>4. me \in Tab /\ me.status = "success"
    BY <2>1, <2>2, <2>3 DEF Tab
  <2>5. /\ tab' = [tab EXCEPT ![t] = me] /\ UNCHANGED <<issued, expired, stored, cookie, changed>>
        /\ entered' \in [Tabs -> Sessions \cup {NULL}]
    BY <1>6, <2>2, <2>3 DEF Accepted, TypeOK
  <2>6. QED BY <2>4, <2>5 DEF TypeOK
<1>7. ASSUME NEW t \in Tabs, Refused(t) \/ Lost(t) PROVE TypeOK'
  <2>1. ShowError(t) /\ UNCHANGED <<issued, expired, stored, cookie>>
        /\ entered' \in [Tabs -> Sessions \cup {NULL}]
    BY <1>7 DEF Refused, Lost, TypeOK
  <2>2. QED BY <2>1, ErrorFields DEF TypeOK
<1>8. ASSUME NEW t \in Tabs, clearBearerToken(t) PROVE TypeOK'
  BY <1>8 DEF clearBearerToken, Disturb, TypeOK
<1>9. ASSUME NEW t \in Tabs, Reload(t) PROVE TypeOK'
  BY <1>9, CurrentType DEF Reload, TypeOK, Tab
<1>10. ASSUME NEW s \in Sessions, Expire(s) PROVE TypeOK'
  BY <1>10 DEF Expire, Disturb, Usable, TypeOK
<1>11. CASE UNCHANGED vars
  BY <1>11 DEF vars, TypeOK
<1>12. QED
  BY <1>1, <1>2, <1>3, <1>4, <1>5, <1>6, <1>7, <1>8, <1>9, <1>10, <1>11
     DEF Next, Proceed, Receive

\* The browser starts with empty storage, and every tab by asking who it is.
LEMMA InitShown == Init => ShownInv
  BY DEF Init, ShownInv, TypeOK, Tab, FetchIsCurrent, ShownUserIsCurrent, Current,
     parseAccessClaims

\* What a tab, the browser and the server hold keeps its type.
THEOREM TypeCorrect == Spec => []TypeOK
<1>1. Init => TypeOK
  BY InitShown DEF ShownInv
<1>2. QED BY <1>1, NextType, PTL DEF Spec

-----------------------------------------------------------------------------
(* The request under way, and what it leaves behind.                       *)

\* The tab, the session and what disturbed them are as before.
TabKept(t) ==
    /\ tab'[t] = tab[t] /\ (t \in changed' <=> t \in changed)
    /\ Current' = Current /\ expired' = expired

\* Any step has the tab disturbed, leaves it alone, starts a request of it that
\* presents the session of now, is the answer it waited for, is an error, or
\* belongs to a sign-in of it.
LEMMA TabSteps ==
  ASSUME TypeOK, TypeOK', NEW t \in Tabs, [Next]_vars
  PROVE  \/ TabKept(t)
         \/ t \in changed'
         \/ tab'[t].fetch = Current' /\ tab'[t].fetch # NoFetch
         \/ /\ Accepted(t) /\ tab'[t].data = UserOf[tab[t].fetch]
            /\ tab'[t].answer = tab[t].answer /\ tab'[t].fetch = NoFetch
         \/ tab'[t].status = "error" /\ tab'[t].fetch = NoFetch
         \/ tab'[t].answer # NULL
         \/ /\ tab'[t].fetch = tab[t].fetch /\ tab'[t].status = tab[t].status
            /\ tab'[t].data = tab[t].data /\ tab'[t].answer = tab[t].answer
            /\ changed' = changed /\ Current' = Current /\ expired' = expired
<1>1. ASSUME NEW o \in Tabs, Submit(o) \/ SignInFails(o)
      PROVE  /\ tab'[t].fetch = tab[t].fetch /\ tab'[t].status = tab[t].status
             /\ tab'[t].data = tab[t].data /\ tab'[t].answer = tab[t].answer
             /\ changed' = changed /\ Current' = Current /\ expired' = expired
  BY <1>1 DEF Submit, SignInFails, TypeOK, Tab, Current, parseAccessClaims
<1>2. ASSUME NEW o \in Tabs, setSessionCookie(o)
      PROVE  t \in changed' \/ tab'[t].answer # NULL
  BY <1>2 DEF setSessionCookie, Disturb, TypeOK, Tab
<1>3. ASSUME NEW o \in Tabs, onAuthenticated(o)
      PROVE  t \in changed' \/ (tab'[t].fetch = Current' /\ tab'[t].fetch # NoFetch)
  BY <1>3, AuthenticatedFields DEF Current, parseAccessClaims
<1>4. ASSUME NEW o \in Tabs, OpenDashboard(o)
      PROVE  \/ TabKept(t)
             \/ tab'[t].fetch = Current' /\ tab'[t].fetch # NoFetch
             \/ /\ tab'[t].fetch = tab[t].fetch /\ tab'[t].status = tab[t].status
                /\ tab'[t].data = tab[t].data /\ tab'[t].answer = tab[t].answer
                /\ changed' = changed /\ Current' = Current /\ expired' = expired
  <2>1. Current' = Current /\ expired' = expired
    BY <1>4 DEF OpenDashboard, Current, parseAccessClaims
  <2>2. QED BY <1>4, <2>1, OpenedFields DEF TabKept
<1>5. ASSUME NEW o \in Tabs, Refetch(o)
      PROVE  TabKept(t) \/ (tab'[t].fetch = Current' /\ tab'[t].fetch # NoFetch)
  <2>1. tab[o] \in Tab
    BY DEF TypeOK
  <2>2. /\ tab' = [tab EXCEPT ![o] = Fetching(tab[o], Current)]
        /\ expired' = expired /\ Current' = Current
        /\ changed' = changed \ {o}
    BY <1>5 DEF Refetch, Current, parseAccessClaims
  <2>3. PICK me : me = Fetching(tab[o], Current)
    OBVIOUS
  <2>4. me.fetch = Current /\ Current # NoFetch
    BY <2>1, <2>3, CurrentType, FetchingFields
  <2>5. QED BY <2>2, <2>3, <2>4 DEF TypeOK, TabKept
<1>6. ASSUME NEW o \in Tabs, Accepted(o)
      PROVE  \/ TabKept(t)
             \/ /\ Accepted(t) /\ tab'[t].data = UserOf[tab[t].fetch]
                /\ tab'[t].answer = tab[t].answer /\ tab'[t].fetch = NoFetch
  <2>1. PICK S : tab \in [Tabs -> S]
    BY DEF TypeOK
  <2>2. Current' = Current /\ changed' = changed /\ expired' = expired
    BY <1>6 DEF Accepted, Current, parseAccessClaims
  <2>3. CASE o # t
    BY <1>6, <2>1, <2>2, <2>3 DEF Accepted, TabKept
  <2>4. CASE o = t
    <3>1. tab[t] \in Tab
      BY DEF TypeOK
    <3>2. QED BY <1>6, <2>1, <2>4, <3>1 DEF Accepted, Tab
  <2>5. QED BY <2>3, <2>4
<1>7. ASSUME NEW o \in Tabs, Refused(o) \/ Lost(o)
      PROVE  \/ TabKept(t)
             \/ tab'[t].status = "error" /\ tab'[t].fetch = NoFetch
             \/ tab'[t].fetch = Current' /\ tab'[t].fetch # NoFetch
  <2>1. ShowError(o) /\ Current' = Current /\ expired' = expired
    BY <1>7 DEF Refused, Lost, Current, parseAccessClaims
  <2>2. QED BY <2>1, ErrorFields DEF TabKept
<1>8. ASSUME NEW o \in Tabs, clearBearerToken(o) PROVE t \in changed'
  BY <1>8 DEF clearBearerToken, Disturb
<1>9. ASSUME NEW o \in Tabs, Reload(o)
      PROVE  TabKept(t) \/ (tab'[t].fetch = Current' /\ tab'[t].fetch # NoFetch)
  <2>1. /\ Current' = Current /\ expired' = expired /\ Current # NoFetch
        /\ changed' = changed \ {o}
    BY <1>9, CurrentType DEF Reload, Current, parseAccessClaims
  <2>2. QED BY <1>9, <2>1 DEF Reload, TabKept, TypeOK
<1>10. ASSUME NEW s \in Sessions, Expire(s) PROVE t \in changed'
  BY <1>10 DEF Expire, Disturb
<1>11. CASE UNCHANGED vars
  BY <1>11 DEF vars, TabKept, Current, parseAccessClaims
<1>12. QED
  BY <1>1, <1>2, <1>3, <1>4, <1>5, <1>6, <1>7, <1>8, <1>9, <1>10, <1>11
     DEF Next, Proceed, Receive

\* The request under way still presents the session of now, unless the tab was
\* disturbed or is signing in.
LEMMA FetchStep ==
  ASSUME TypeOK, TypeOK', FetchIsCurrent, [Next]_vars
  PROVE  FetchIsCurrent'
<1> SUFFICES ASSUME NEW t \in Tabs, tab'[t].fetch # NoFetch, tab'[t].answer = NULL,
                    t \notin changed'
             PROVE  tab'[t].fetch = Current'
  BY DEF FetchIsCurrent
<1>1. QED BY TabSteps DEF FetchIsCurrent, TabKept

\* The answer to that request is the user of the session of now.
LEMMA ShownStep ==
  ASSUME TypeOK, TypeOK', FetchIsCurrent, ShownUserIsCurrent, [Next]_vars
  PROVE  ShownUserIsCurrent'
<1> SUFFICES ASSUME NEW t \in Tabs, tab'[t].status = "success", tab'[t].fetch = NoFetch,
                    tab'[t].answer = NULL, t \notin changed'
             PROVE  Usable(Current)' /\ tab'[t].data = UserOf[Current']
  BY DEF ShownUserIsCurrent
<1>1. CASE Accepted(t) /\ tab'[t].data = UserOf[tab[t].fetch] /\ tab'[t].answer = tab[t].answer
  <2>1. /\ tab[t].fetch # NoFetch /\ Usable(tab[t].fetch) /\ tab[t].answer = NULL
        /\ t \notin changed /\ expired' = expired /\ Current' = Current
    BY <1>1 DEF Accepted, Current, parseAccessClaims
  <2>2. tab[t].fetch = Current
    BY <2>1 DEF FetchIsCurrent
  <2>3. QED BY <1>1, <2>1, <2>2 DEF Usable
<1>2. CASE /\ tab'[t].fetch = tab[t].fetch /\ tab'[t].status = tab[t].status
           /\ tab'[t].data = tab[t].data /\ tab'[t].answer = tab[t].answer
           /\ (t \in changed' <=> t \in changed)
           /\ Current' = Current /\ expired' = expired
  <2>1. Usable(Current) /\ tab[t].data = UserOf[Current]
    BY <1>2 DEF ShownUserIsCurrent
  <2>2. QED BY <1>2, <2>1 DEF Usable
<1>3. QED BY <1>1, <1>2, TabSteps DEF TabKept

\* A tab that shows somebody as signed in shows the user as whom the browser
\* acts, if its credentials did not change since it last asked.
THEOREM ShownUsersAreCurrent == Spec => []ShownUserIsCurrent
<1>1. ShownInv /\ [Next]_vars => ShownInv'
  BY NextType, FetchStep, ShownStep DEF ShownInv
<1>2. ShownInv => ShownUserIsCurrent
  BY DEF ShownInv
<1>3. QED BY <1>1, <1>2, InitShown, PTL DEF Spec
=============================================================================

------------------------------- MODULE AuthPage -------------------------------
(***************************************************************************)
(* The web page's side of a session (AuthContext) over the server of       *)
(* AuthSessions.  Every tab has its own React state; the two tokens in     *)
(* localStorage belong to all of them.  A change of a tab's token takes    *)
(* effect on the store later, in an effect, and an answer to GET /me       *)
(* applies to whatever token the tab has by then.  The page never          *)
(* refreshes; the refresh requests are those of other API clients.         *)
(***************************************************************************)
EXTENDS AuthSessions

VARIABLES
    tab,      \* the state of each tab
    store,    \* localStorage: the pairs its access and its refresh token are of; 0: none
    astray,   \* history: tabs that handled an answer about a token they no longer have,
              \* or none about the one they have
    foreign   \* history: tabs whose session another tab has written over in the store

pageVars == <<tab, store, astray, foreign>>
vars     == <<authVars, pageVars>>

Tabs == Leavers

\* effect: the token has changed and the effect has not run; asked: the tokens of the
\* requests to /me in flight; leaving: logout() waits for its answer.
Tab == [token : 0 .. MaxPairs, user : Users \cup {Nobody}, loading : BOOLEAN, effect : BOOLEAN,
        asked : SUBSET Ids, leaving : BOOLEAN]

Empty == [access |-> 0, refresh |-> 0]

Closed == [token |-> 0, user |-> Nobody, loading |-> FALSE, effect |-> FALSE, asked |-> {},
           leaving |-> FALSE]

Init ==
    /\ InitAuth
    /\ tab = [t \in Tabs |-> Closed]
    /\ store = Empty /\ astray = {} /\ foreign = {}

\* React runs the effect for a token that is not the one it ran for before.
SetToken(s, p) == [s EXCEPT !.token = p, !.effect = @ \/ s.token # p]

-----------------------------------------------------------------------------
\* The page is opened or reloaded: its state starts from the stored access token, and
\* what its predecessor waited for is forgotten.
Open(t) ==
    /\ tab' = [tab EXCEPT ![t] = [Closed EXCEPT !.token = store.access, !.loading = TRUE,
                                                !.effect = TRUE]]
    /\ foreign' = IF store.access = store.refresh THEN foreign \ {t} ELSE foreign \cup {t}
    /\ astray' = astray \ {t}
    /\ UNCHANGED <<authVars, store>>

\* AuthProvider's effect on the token, with which fetchCurrentUser sends GET /me.
Effect(t) ==
    /\ tab[t].effect
    /\ IF tab[t].token # 0
         THEN /\ Me
              /\ tab' = [tab EXCEPT ![t] = [tab[t] EXCEPT !.effect = FALSE, !.loading = TRUE,
                                                          !.asked = @ \cup {tab[t].token}]]
              /\ store' = [store EXCEPT !.access = tab[t].token]
         ELSE /\ tab' = [tab EXCEPT ![t] = [@ EXCEPT !.effect = FALSE, !.loading = FALSE,
                                                     !.user = Nobody]]
              /\ UNCHANGED authVars
              /\ store' = Empty
    /\ foreign' = IF store' = store THEN foreign ELSE foreign \cup (Tabs \ {t})
    /\ UNCHANGED astray

\* Seeded fault: a refresh token in the store is kept.
SignIn_KeepsRefresh(t, u) ==
    LET p == issued + 1 IN
    /\ Login(u)
    /\ tab' = [tab EXCEPT ![t] = SetToken([@ EXCEPT !.loading = TRUE], p)]
    /\ store' = [access |-> p, refresh |-> IF store.refresh = 0 THEN p ELSE store.refresh]
    /\ foreign' = Tabs \ {t}
    /\ UNCHANGED astray

\* Seeded fault: the spinner is left to the effect.
SignIn_NoSpinner(t, u) ==
    LET p == issued + 1 IN
    /\ Login(u)
    /\ tab' = [tab EXCEPT ![t] = SetToken(@, p)]
    /\ store' = [access |-> p, refresh |-> p]
    /\ foreign' = Tabs \ {t}
    /\ UNCHANGED astray

\* login(): both tokens are stored, and the spinner stays up until /me is answered.
SignIn(t, u) ==
    LET p == issued + 1 IN
    /\ Login(u)
    /\ tab' = [tab EXCEPT ![t] = SetToken([@ EXCEPT !.loading = TRUE], p)]
    /\ store' = [access |-> p, refresh |-> p]
    /\ foreign' = Tabs \ {t}
    /\ UNCHANGED astray

(***************************************************************************)
(* The end of a request to /me.  An answer that is not ok, a 500 included, *)
(* clears the tab's token, whichever token it was asked with; a timeout    *)
(* after 8 seconds or an error on the way clears nothing.                  *)
(***************************************************************************)
Answered(t, p) == [tab[t] EXCEPT !.asked = @ \ {p}, !.loading = FALSE]

MeOk(t, p) ==
    /\ p \in tab[t].asked /\ Accepted(p)
    /\ tab' = [tab EXCEPT ![t] = [Answered(t, p) EXCEPT !.user = pair[p].owner]]
    /\ astray' = IF p = tab[t].token THEN astray \ {t} ELSE astray \cup {t}
    /\ UNCHANGED <<authVars, store, foreign>>

MeRefused(t, p) ==
    /\ p \in tab[t].asked
    /\ tab' = [tab EXCEPT ![t] = SetToken(Answered(t, p), 0)]
    /\ UNCHANGED <<authVars, store, astray, foreign>>

MeFails(t, p) ==
    /\ p \in tab[t].asked
    /\ tab' = [tab EXCEPT ![t] = Answered(t, p)]
    /\ astray' = astray \cup {t}
    /\ UNCHANGED <<authVars, store, foreign>>

\* authFetch: any other request that is answered 401.  One about a token the tab had before
\* would do to the token it has what MeRefused does, and is left to that.
FetchRefused(t) ==
    /\ tab[t].token # 0 /\ ~Accepted(tab[t].token)
    /\ tab' = [tab EXCEPT ![t] = SetToken(@, 0)]
    /\ UNCHANGED <<authVars, store, astray, foreign>>

\* logout(): the tab's access token with whatever refresh token is in the store.
SignOut(t) ==
    /\ tab[t].token # 0 /\ ~tab[t].leaving /\ ~tab[t].loading
    /\ IF store.refresh # 0
         THEN /\ LogoutSend(t, tab[t].token, store.refresh)
              /\ tab' = [tab EXCEPT ![t].leaving = TRUE]
         ELSE /\ tab' = [tab EXCEPT ![t] = SetToken(@, 0)]
              /\ UNCHANGED authVars
    /\ UNCHANGED <<store, astray, foreign>>

\* Whatever the request came to.
SignOutReturns(t) ==
    /\ tab[t].leaving
    /\ tab' = [tab EXCEPT ![t] = SetToken([@ EXCEPT !.leaving = FALSE], 0)]
    /\ UNCHANGED <<authVars, store, astray, foreign>>

Page(t) ==
    \/ Open(t) \/ Effect(t) \/ \E u \in Users : SignIn(t, u)
    \/ \E p \in tab[t].asked : MeOk(t, p) \/ MeRefused(t, p) \/ MeFails(t, p)
    \/ FetchRefused(t) \/ SignOut(t) \/ SignOutReturns(t)

Server ==
    /\ \/ \E f \in Refreshers : Refresh(f)
       \/ \E t \in Tabs : Logout(t)
       \/ Tick
    /\ UNCHANGED pageVars

PageNext == Server \/ \E t \in Tabs : Page(t)

PageSpec == Init /\ [][PageNext]_vars

-----------------------------------------------------------------------------
(* Properties                                                              *)

TypeOK ==
    /\ AuthTypeOK
    /\ tab \in [Tabs -> Tab]
    /\ store \in [access : 0 .. issued, refresh : 0 .. issued]
    /\ astray \subseteq Tabs /\ foreign \subseteq Tabs

\* A tab that shows the page, and not the spinner, shows the owner of its token, through
\* sign-ins over a session, overtaken answers and reloads, unless the last answer it
\* handled was about an earlier token, or never came.
UserExplained ==
    \A t \in Tabs \ astray :
        LET s == tab[t] IN
        ~s.loading /\ s.token # 0 /\ s.user # Nobody => s.user = pair[s.token].owner

\* What a tab would find after a reload is the session it has, both tokens of it, unless
\* another tab has written to the store they share.
ReloadKeepsSession ==
    \A t \in Tabs \ foreign :
        tab[t].token # 0 /\ ~tab[t].effect
            => store = [access |-> tab[t].token, refresh |-> tab[t].token]

=============================================================================

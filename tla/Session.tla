------------------------------ MODULE Session -------------------------------
(***************************************************************************)
(* Signing in to the website and out of it: the tabs of one browser, what  *)
(* they share (two cookies and the stored profile) and the server.  One    *)
(* person signs in; rank is the privilege the database has for them, the   *)
(* token keeps the rank it was made with, and a tab's profile the rank it  *)
(* was last told.  Layouts look at the profile, procedures at the token.   *)
(*                                                                         *)
(* A token is good only beside the fingerprint it was made with, which is  *)
(* a cookie of its own.  A login has one code and one fingerprint: the     *)
(* code's name stands for both.                                            *)
(*                                                                         *)
(* A current profile is read and applied in one step: one read before a    *)
(* change of rank and applied after it could have been applied before it.  *)
(***************************************************************************)
EXTENDS Routes

CONSTANTS Tabs,
          Ranks,     \* the privileges of the person over time
          Codes,     \* the codes and fingerprints of logins: one that no code, cookie or tab
                     \* has any more stands for a new one
          Visited,   \* the pages the person goes to
          None       \* model value: no token, no fingerprint, no profile, no code

ASSUME SessionAssumption == /\ Ranks \subseteq Nat
                            /\ Visited \subseteq DOMAIN Site /\ {"index", "permission"} \subseteq Visited

Profiles == Ranks \cup {None}
Token    == [rank : Ranks, print : Codes]
Cookies  == [token : Token \cup {None}, print : Codes \cup {None}]
\* place "steam" is away from the site, the others have no queries of their own.
Places   == Visited \cup {"login", "success", "steam"}
\* as: the profile the place was entered with; code: of the login under way or the last;
\* login: exchanging the code, then asking for the profile; cancelled: the page that
\* started the login is no longer there for it.
Tab == [place : Places, as : Profiles, profile : Profiles, trying : BOOLEAN, leaving : BOOLEAN,
        code : Codes \cup {None}, login : {"none", "exchanging", "asking"}, cancelled : BOOLEAN]

VARIABLES rank, cookie,
          codes,        \* the ranks of the tokens behind the codes
          stored, tab,
          out,          \* history: a logout was answered, and nobody has signed in since
          overlapped    \* history: the last login began before the code of another was used up
sessionVars == <<rank, cookie, codes, stored, tab, out, overlapped>>

-----------------------------------------------------------------------------
\* Mutants of Lands: a layout that forgets the login, and one that looks only for it.
LandsWithoutLogin(n, p) == CASE Site[n].layout = "guest" -> n
                             [] OTHER -> IF p # None /\ p >= Site[n].needs THEN n ELSE Site[n].instead
LandsOnceSignedIn(n, p) == IF Site[n].layout # "guest" /\ p = None THEN "login" ELSE n

\* Where somebody with the profile p comes out who goes to the page n.
Lands(n, p) == CASE Site[n].layout = "guest" -> n
                 [] Site[n].layout # "guest" /\ p = None -> "login"
                 [] Site[n].layout # "guest" /\ p # None ->
                      IF p >= Site[n].needs THEN n ELSE Site[n].instead

\* userClaimsFromRequest: both cookies are there, and belong together.
Claims == cookie.token # None /\ cookie.print # None /\ cookie.token.print = cookie.print
\* authUser: a procedure with a least privilege needs claims, and a token that gives as much.
Served(asks) == asks = Anyone \/ (Claims /\ cookie.token.rank >= asks)
Refused(n)   == ~Served(Site[n].page.asks)

\* Within the site the tab x comes to the place n; the page of a login is left.
At(x, n, p) == [x EXCEPT !.place = n, !.as = p, !.cancelled = (x.login # "none")]
\* The browser loads the site afresh at n.
Loaded(n) == [place |-> Lands(n, stored), as |-> stored, profile |-> stored, trying |-> stored = None,
              leaving |-> FALSE, code |-> None, login |-> "none", cancelled |-> FALSE]
LoadedWith(c) == [Loaded("index") EXCEPT !.place = "success", !.code = c, !.login = "exchanging"]

\* The tab x is told the profile p: a login started before is cancelled by it, and
\* without one the current profile is asked for.
Told(x, p) == [x EXCEPT !.profile = p, !.trying = (p = None /\ x.profile # None),
                        !.cancelled = @ \/ x.login # "none"]

SessionInit == /\ rank \in Ranks /\ stored = None /\ out = FALSE /\ overlapped = FALSE
               /\ cookie = [token |-> None, print |-> None]
               /\ codes = [c \in Codes |-> None]
               /\ tab = [t \in Tabs |-> Loaded("index")]

Visit(t, n) == /\ tab[t].place # "steam"
               /\ tab' = [tab EXCEPT ![t] = At(@, Lands(n, @.profile), @.profile)]
               /\ UNCHANGED <<rank, cookie, codes, stored, out, overlapped>>

Reload(t) == /\ tab[t].place \notin {"steam", "login"}
             /\ tab' = [tab EXCEPT ![t] = IF @.place = "success" THEN LoadedWith(@.code) ELSE Loaded(@.place)]
             /\ UNCHANGED <<rank, cookie, codes, stored, out, overlapped>>

\* The button is shown to those without a profile.  Steam's page takes the tab over.
GoToSteam(t) == /\ tab[t].place # "steam" /\ tab[t].profile = None
                /\ tab' = [tab EXCEPT ![t] = [Loaded("index") EXCEPT !.place = "steam", !.profile = None,
                                                                     !.as = None, !.trying = FALSE]]
                /\ UNCHANGED <<rank, cookie, codes, stored, out, overlapped>>

Unused(c) == /\ codes[c] = None /\ \A t \in Tabs : tab[t].code # c
             /\ c \notin {cookie.print} \cup {token.print : token \in {cookie.token} \ {None}}

\* Mutant of Callback: the token is left to the exchange of the code.
CallbackKeepsToken(t, c) == /\ tab[t].place = "steam" /\ Unused(c)
                            /\ cookie' = [cookie EXCEPT !.print = c]
                            /\ codes' = [codes EXCEPT ![c] = rank]
                            /\ tab' = [tab EXCEPT ![t] = LoadedWith(c)]
                            /\ out' = FALSE
                            /\ overlapped' = \E d \in Codes : codes[d] # None
                            /\ UNCHANGED <<rank, stored>>

\* onSteamOIDCCallback: a new fingerprint, and a token with it and the rank of now, as
\* cookies; the token behind a code, too.
Callback(t, c) == /\ tab[t].place = "steam" /\ Unused(c)
                  /\ cookie' = [token |-> [rank |-> rank, print |-> c], print |-> c]
                  /\ codes' = [codes EXCEPT ![c] = rank]
                  /\ tab' = [tab EXCEPT ![t] = LoadedWith(c)]
                  /\ out' = FALSE
                  /\ overlapped' = \E d \in Codes : codes[d] # None
                  /\ UNCHANGED <<rank, stored>>
ComesBack(t, n) == /\ tab[t].place = "steam"
                   /\ tab' = [tab EXCEPT ![t] = Loaded(n)]
                   /\ UNCHANGED <<rank, cookie, codes, stored, out, overlapped>>

\* The code is given for the token, which becomes the cookie again: beside whatever
\* fingerprint there is by now.
Exchange(t) == LET c == tab[t].code
               IN  /\ tab[t].login = "exchanging" /\ codes[c] # None
                   /\ cookie' = [cookie EXCEPT !.token = [rank |-> codes[c], print |-> c]]
                   /\ codes' = [codes EXCEPT ![c] = None]
                   /\ tab' = [tab EXCEPT ![t].login = "asking"]
                   /\ UNCHANGED <<rank, stored, out, overlapped>>

\* The profile is there, and the tab goes on to the page the login was for, whose layout
\* may still see the profile of before.
LoginSucceeds(t, n) ==
    /\ tab[t].login = "asking" /\ Served(NewPersonService.currentProfile)
    /\ \E seen \in {rank, tab[t].profile} :
          tab' = [tab EXCEPT ![t] = [At([Told(@, rank) EXCEPT !.login = "none"], Lands(n, seen), seen)
                                        EXCEPT !.trying = tab[t].trying]]
    /\ stored' = rank
    /\ UNCHANGED <<rank, cookie, codes, out, overlapped>>

\* Mutant of LoginFails: the error is only logged.
LoginFailsQuietly(t) == /\ tab[t].login # "none"
                        /\ tab' = [tab EXCEPT ![t].login = "none"]
                        /\ UNCHANGED <<rank, cookie, codes, stored, out, overlapped>>

\* The code is refused, there is no token, or the network fails.
LoginFails(t) == /\ tab[t].login # "none"
                 /\ tab' = [tab EXCEPT ![t] = LET x == [@ EXCEPT !.login = "none"]
                                              IN  IF x.cancelled THEN x ELSE At(x, "index", x.profile)]
                 /\ UNCHANGED <<rank, cookie, codes, stored, out, overlapped>>

\* The way back to the page of a login: its code is known, and nothing is done.
Back(t) == /\ tab[t].place \notin {"steam", "success"} /\ tab[t].code # None
           /\ tab' = [tab EXCEPT ![t] = At(@, "success", @.profile)]
           /\ UNCHANGED <<rank, cookie, codes, stored, out, overlapped>>

TryAnswers(t) == /\ tab[t].trying
                 /\ IF Served(NewPersonService.currentProfile)
                    THEN /\ tab' = [tab EXCEPT ![t] = [Told(@, rank) EXCEPT !.trying = FALSE]]
                         /\ stored' = rank
                    ELSE /\ tab' = [tab EXCEPT ![t].trying = FALSE]
                         /\ UNCHANGED stored
                 /\ UNCHANGED <<rank, cookie, codes, out, overlapped>>
TryFails(t) == /\ tab[t].trying
               /\ tab' = [tab EXCEPT ![t].trying = FALSE]
               /\ UNCHANGED <<rank, cookie, codes, stored, out, overlapped>>

\* The page of the logout sends the call and goes to the first page.
Logout(t) == /\ tab[t].place # "steam" /\ tab[t].profile # None
             /\ tab' = [tab EXCEPT ![t] = [At(@, "index", @.profile) EXCEPT !.leaving = TRUE]]
             /\ UNCHANGED <<rank, cookie, codes, stored, out, overlapped>>

\* The server answers and keeps the cookie.  The query that made the call has no data,
\* which is an error: what was to follow it, telling the other tabs and forgetting the
\* stored profile, is never reached.
LogoutAnswers(t) == /\ tab[t].leaving /\ Served(NewAuthService.logout)
                    /\ tab' = [tab EXCEPT ![t] = [Told(@, None) EXCEPT !.leaving = FALSE]]
                    /\ out' = TRUE
                    /\ UNCHANGED <<rank, cookie, codes, stored, overlapped>>
LogoutFails(t) == /\ tab[t].leaving
                  /\ tab' = [tab EXCEPT ![t].leaving = FALSE]
                  /\ UNCHANGED <<rank, cookie, codes, stored, out, overlapped>>

RankChanges == /\ rank' \in Ranks \ {rank}
               /\ UNCHANGED <<cookie, codes, stored, tab, out, overlapped>>
TokenExpires == /\ cookie.token # None
                /\ cookie' = [cookie EXCEPT !.token = None]
                /\ UNCHANGED <<rank, codes, stored, tab, out, overlapped>>
PrintExpires == /\ cookie.print # None
                /\ cookie' = [cookie EXCEPT !.print = None]
                /\ UNCHANGED <<rank, codes, stored, tab, out, overlapped>>
CodeExpires(c) == /\ codes[c] # None
                  /\ codes' = [codes EXCEPT ![c] = None]
                  /\ UNCHANGED <<rank, cookie, stored, tab, out, overlapped>>

SessionNext == \/ RankChanges \/ TokenExpires \/ PrintExpires
               \/ \E c \in Codes : CodeExpires(c)
               \/ \E t \in Tabs : \/ Reload(t) \/ GoToSteam(t) \/ Exchange(t) \/ LoginFails(t) \/ Back(t)
                                  \/ TryAnswers(t) \/ TryFails(t)
                                  \/ Logout(t) \/ LogoutAnswers(t) \/ LogoutFails(t)
                                  \/ \E c \in Codes : Callback(t, c)
                                  \/ \E n \in Visited : Visit(t, n) \/ ComesBack(t, n) \/ LoginSucceeds(t, n)

\* A call is answered or fails.
LoginGoesOn(t) == /\ tab[t].login # "none"
                  /\ Exchange(t) \/ LoginFails(t) \/ \E n \in Visited : LoginSucceeds(t, n)
SessionFairness ==
    \A t \in Tabs : /\ WF_sessionVars(LoginGoesOn(t))
                    /\ WF_sessionVars(TryAnswers(t) \/ TryFails(t))
                    /\ WF_sessionVars(LogoutAnswers(t) \/ LogoutFails(t))
SessionSpec == SessionInit /\ [][SessionNext]_sessionVars /\ SessionFairness

-----------------------------------------------------------------------------
SessionTypeOK == /\ rank \in Ranks /\ cookie \in Cookies /\ stored \in Profiles
                 /\ out \in BOOLEAN /\ overlapped \in BOOLEAN
                 /\ codes \in [Codes -> Profiles]
                 /\ tab \in [Tabs -> Tab]

\* Whoever got onto a page past its layout is refused what the page asks for only if they
\* have a profile and it is out of step with the cookies: one of those has expired, or two
\* logins overlapped and left cookies of different ones, or the token was made before a
\* promotion, or the person is no user any more.  The pages that ask for more than their
\* layout promises are named.
RefusedOnlyOutOfStep ==
    \A t \in Tabs : LET x == tab[t]
                    IN  x.place \in Visited \ Misplaced /\ Refused(x.place)
                          => /\ x.as # None
                             /\ \/ cookie.token = None \/ cookie.print = None \/ overlapped
                                \/ cookie.token.rank < x.as \/ x.as < User

\* Every link a tab shows leads to its page, or to the login, and with a user's token as
\* good as the profile the page is served; and the feature that shows it is the page's.
\* The links that do otherwise are named.
LinksLeadIn ==
    \A t \in Tabs : LET p == tab[t].profile
                        good == Served(User) /\ (p = None \/ cookie.token.rank >= p)
                    IN  \A l \in Links(p # None, IF p = None THEN Guest ELSE p) :
                          \/ l.to \in Misleading
                          \/ /\ Site[l.to].page.feature \in {"none", l.feature}
                             /\ Lands(l.to, p) \in {l.to, "login"}
                             /\ good => ~Refused(l.to)

\* Whoever waits on the page of a login gets on: to another page, or to a profile.
LoginEnds == \A t \in Tabs : (tab[t].place = "success" /\ tab[t].login # "none" /\ ~tab[t].cancelled)
                                ~> (tab[t].place # "success" \/ tab[t].profile # None)

\* auth.tsx and index.tsx: a logout is carried to every tab of the browser.
LogoutReachesEveryTab == out ~> (~out \/ \A t \in Tabs : tab[t].profile = None)
=============================================================================

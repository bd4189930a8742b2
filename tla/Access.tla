------------------------------- MODULE Access -------------------------------
(***************************************************************************)
(* Who may see what: browsers with several tabs, the sessions they share,  *)
(* the log-in through OIDC, the second factor by e-mail, the inactivity    *)
(* timeout and the profile a session acts with (settings.py 76-96,         *)
(* session.py, auth.py, middleware.py, views/account.py,                   *)
(* views/two_factor_auth.py, views/organisation.py, views/general.py,      *)
(* views/session_expired.py, utils/session.py, utils/permission.py).       *)
(*                                                                         *)
(* A request is two steps.  Serve loads the session and runs middleware    *)
(* and view on that copy; Respond is the way out of the middleware: the    *)
(* whole copy is saved over the row (SESSION_SAVE_EVERY_REQUEST), unless   *)
(* the row was deleted meanwhile (Django then answers 400) or the answer   *)
(* is a 500.  A redirect makes the tab ask again.                          *)
(***************************************************************************)
EXTENDS Integers, FiniteSets, FiniteSetsExt

CONSTANTS Browsers, Tabs, BrowserOf, \* tabs share the cookies of their browser
          Users, Staff,              \* accounts; those that may enter /admin
          Profiles, RoleOf, FirstOwner,
          Edits,                     \* what is done to profiles: <<profile, new owner>>
          AdminVerification,         \* Settings.admin_verification_enabled
          Visits,                    \* the paths people go to in each tab
          Keys,                      \* session keys, as numbers
          None

Paths == {"home", "expired", "logout", "signin", "callback", "verify", "token",
          "account", "review-list", "switch", "admin"}

ASSUME AccessAssumption ==
  /\ BrowserOf \in [Tabs -> Browsers]
  /\ Staff \subseteq Users
  /\ FirstOwner \in [Profiles -> Users]
  /\ Edits \subseteq Profiles \X (Users \cup {None})
  /\ AdminVerification \in BOOLEAN
  /\ Visits \in [Tabs -> SUBSET (Paths \ {"callback"})]
  /\ Keys \subseteq Nat /\ IsFiniteSet(Keys) /\ Profiles \subseteq Nat
  /\ None \notin Users \cup Profiles \cup Keys /\ None \notin Paths

VARIABLES row,               \* the session table
          jar,               \* the session cookie of each browser
          lastOrg,           \* its cookie last_org, which outlives sessions
          tab,
          owner,             \* the account of each profile, None when removed
          everOwned          \* history: all accounts each profile ever had

vars == <<row, jar, lastOrg, tab, owner, everOwned>>

Session == [user : Users, device : Users \cup {None},
            profile : Profiles \cup {None}, active : {"never", "recent", "old"}]

ASSUME SessionAssumption == None \notin Session

\* What comes with a request: the person who signed in, or the profile chosen.
Input == Users \cup Profiles \cup {None}

\* A refusal is a page like any other.
Answers == Paths \cup {"page", "error", "provider"}

Quiet == [at |-> "idle", path |-> "home", input |-> None, sent |-> FALSE,
          key |-> None, held |-> None, out |-> "page", viewed |-> FALSE]

TabState == [at : {"idle", "asking", "answered", "provider"}, path : Paths,
             input : Input, sent : BOOLEAN, key : Keys \cup {None},
             held : Session \cup {None}, out : Answers, viewed : BOOLEAN]

TypeOK ==
  /\ row \in [Keys -> Session \cup {None}]
  /\ jar \in [Browsers -> Keys \cup {None}]
  /\ lastOrg \in [Browsers -> Profiles \cup {None}]
  /\ tab \in [Tabs -> TabState]
  /\ owner \in [Profiles -> Users \cup {None}]
  /\ everOwned \in [Profiles -> SUBSET Users]

Init ==
  /\ row = [k \in Keys |-> None]
  /\ jar = [b \in Browsers |-> None]
  /\ lastOrg = [b \in Browsers |-> None]
  /\ tab = [t \in Tabs |-> Quiet]
  /\ owner = FirstOwner
  /\ everOwned = [p \in Profiles |-> {FirstOwner[p]}]

-----------------------------------------------------------------------------
(* The session of a request, and its answer *)

\* Keys are random: one that no cookie and no request names is never used again.
Named(k) == \/ \E b \in Browsers : jar[b] = k
            \/ \E t \in Tabs : tab[t].key = k

FreeKeys == {k \in Keys : ~Named(k)}

NewKey == Min(FreeKeys)

CookieOf(t) == jar[BrowserOf[t]]

\* request.session with the user it stands for; None is the anonymous user.
Loaded(t) == IF CookieOf(t) = None THEN None ELSE row[CookieOf(t)]

\* user.is_verified(): the device in the session is one of the user's.
IsVerified(s) == s.device = s.user

\* viewed tells the answers of views from those of outer middleware.
Answer(t, k, s, out, viewed) ==
  tab' = [tab EXCEPT ![t] =
    IF s = None
      THEN [Quiet EXCEPT !.at = "answered", !.sent = (CookieOf(t) # None), !.out = out]
      ELSE [Quiet EXCEPT !.at = "answered", !.key = k, !.held = s, !.out = out,
                         !.viewed = viewed]]

\* Most answers leave the database and the cookies to Respond.
JustAnswer(t, s, out, viewed) ==
  /\ Answer(t, CookieOf(t), s, out, viewed)
  /\ UNCHANGED <<row, jar, lastOrg, owner, everOwned>>

\* session.flush() deletes the row at once and leaves an anonymous session.
Flush(t, out) ==
  /\ Answer(t, None, None, out, TRUE)
  /\ row' = IF CookieOf(t) = None THEN row ELSE [row EXCEPT ![CookieOf(t)] = None]
  /\ UNCHANGED <<jar, lastOrg, owner, everOwned>>

-----------------------------------------------------------------------------
(* Middleware, in the order of settings.py *)

\* A timeout that does not spare the page it redirects to.
TimedOutAnywhere(s, path) == s # None /\ s.active = "old"

\* A timeout that takes the special case of "/" for an exemption.
TimedOutOffHome(s, path) == s # None /\ path \notin {"home", "expired"} /\ s.active = "old"

\* CafSessionTimeoutMiddleware leaves the expiry page alone.
TimedOut(s, path) == s # None /\ path # "expired" /\ s.active = "old"

Refreshed(s, path) ==
  IF s # None /\ path # "expired" THEN [s EXCEPT !.active = "recent"] ELSE s

\* LoginRequiredMiddleware: the paths open to everybody.
Open == {"home", "expired", "logout", "signin", "callback"}

\* A rule that lets people land on their account page first.
WithoutCodeOnLanding == {"verify", "token", "account"}

\* What those who have signed in may do before the second factor.
WithoutCode == {"verify", "token"}

\* Where LoginRequiredMiddleware sends a request instead; None lets it pass.
Diversion(s, path) ==
  CASE path \in Open -> None
    [] path \notin Open /\ s = None ->
         IF path \in {"verify", "token"} THEN "expired"
         ELSE IF path = "admin" THEN None ELSE "signin"
    [] OTHER ->
         IF /\ ~IsVerified(s) /\ path \notin WithoutCode
            /\ s.user \notin Staff \/ AdminVerification
         THEN "verify" ELSE None

\* "/" answers at once with a new anonymous session, everything else by way of
\* the expiry page; the session is saved as it is.
TimeOut(t) ==
  /\ tab[t].at = "asking" /\ TimedOut(Loaded(t), tab[t].path)
  /\ IF tab[t].path = "home" THEN Flush(t, "page")
     ELSE JustAnswer(t, Loaded(t), "expired", FALSE)

\* The session as it leaves the timeout middleware.
Arriving(t) == Refreshed(Loaded(t), tab[t].path)

Divert(t) ==
  LET to == Diversion(Arriving(t), tab[t].path) IN
  /\ tab[t].at = "asking" /\ ~TimedOut(Loaded(t), tab[t].path) /\ to # None
  /\ JustAnswer(t, Arriving(t), to, FALSE)

\* The request gets as far as the view of the path.
Reaches(t, path) ==
  /\ tab[t].at = "asking" /\ tab[t].path = path
  /\ ~TimedOut(Loaded(t), path) /\ Diversion(Arriving(t), path) = None

-----------------------------------------------------------------------------
(* Views *)

Home(t) == Reaches(t, "home") /\ JustAnswer(t, Arriving(t), "page", TRUE)

\* An expiry page that says so and leaves the session alone.
ExpiryNotice(t) == Reaches(t, "expired") /\ JustAnswer(t, Arriving(t), "page", TRUE)

\* session_expired: auth.logout and flush.
SessionExpired(t) == LET s == Arriving(t) IN
  /\ Reaches(t, "expired")
  /\ IF s = None THEN JustAnswer(t, s, "page", TRUE) ELSE Flush(t, "page")

\* logout_view, and the provider's redirect back.
LogoutView(t) == Reaches(t, "logout") /\ Flush(t, "home")

\* oidc_authentication_init.
StartSignIn(t) == Reaches(t, "signin") /\ JustAnswer(t, Arriving(t), "provider", TRUE)

\* auth.login: another user's session is flushed, an anonymous one gets a new
\* key, and the user's own is kept as it is.  Bound: there is a free key.
SignedIn(t, s, u, out) ==
  LET n == NewKey
      new == [user |-> u, device |-> None, profile |-> None, active |-> "never"] IN
  IF s # None /\ s.user = u
    THEN JustAnswer(t, s, out, TRUE)
    ELSE /\ FreeKeys # {}
         /\ Answer(t, n, new, out, TRUE)
         /\ row' = [k \in Keys |-> IF k = n THEN new
                                   ELSE IF k = CookieOf(t) THEN None ELSE row[k]]
         /\ UNCHANGED <<jar, lastOrg, owner, everOwned>>

\* oidc_authentication_callback: the person signed in, or something did not
\* match (the state kept in the session, the account) and the answer is "/".
Callback(t) == LET s == Arriving(t) IN
  /\ Reaches(t, "callback")
  /\ \/ SignedIn(t, s, tab[t].input, "account")
     \/ JustAnswer(t, s, "home", TRUE)

\* The admin site signs its staff in by itself, and turns others away.
AdminView(t) == LET s == Arriving(t) IN
  /\ Reaches(t, "admin")
  /\ \/ JustAnswer(t, s, "page", TRUE)
     \/ tab[t].input \in Staff /\ SignedIn(t, s, tab[t].input, "page")

\* Verify2FATokenView.get: a code is made and mailed, or the page says it was not.
Challenge(t) == Reaches(t, "verify") /\ JustAnswer(t, Arriving(t), "page", TRUE)

\* Verify2FATokenView.form_valid: a wrong code shows the form again, the right
\* one binds the user's device to the session.
VerifyToken(t) ==
  LET s == Arriving(t) IN
  /\ Reaches(t, "token")
  /\ \/ JustAnswer(t, s, "page", TRUE)
     \/ JustAnswer(t, [s EXCEPT !.device = s.user],
                   IF s.user \in Staff THEN "admin" ELSE "account", TRUE)

ProfilesOf(u) == {p \in Profiles : owner[p] = u}

\* A choice that trusts the cookie.
PickFromCookie(t, s) ==
  IF s.profile # None THEN s.profile
  ELSE IF ProfilesOf(s.user) = {} THEN None
  ELSE IF lastOrg[BrowserOf[t]] # None THEN lastOrg[BrowserOf[t]]
  ELSE Min(ProfilesOf(s.user))

\* get_or_pick_user_profile: the profile of the session if there is one,
\* otherwise the one of the cookie if it is the user's, or the first.
PickProfile(t, s) ==
  IF s.profile # None THEN s.profile
  ELSE IF ProfilesOf(s.user) = {} THEN None
  ELSE IF lastOrg[BrowserOf[t]] \in ProfilesOf(s.user) THEN lastOrg[BrowserOf[t]]
  ELSE Min(ProfilesOf(s.user))

\* AccountView.get: assessors and reviewers are sent to their list; for the
\* others the page fails while no period is open (account.py 43-55).  A profile
\* lost meanwhile stays chosen, and is refused.
AccountView(t) ==
  LET s == Arriving(t)
      p == PickProfile(t, s) IN
  /\ Reaches(t, "account")
  /\ \E out \in IF p \notin ProfilesOf(s.user) THEN {"page"}
                ELSE IF RoleOf[p] \in {"assessor", "reviewer"} THEN {"review-list"}
                ELSE {"page", "error"} :
       JustAnswer(t, [s EXCEPT !.profile = p], out, TRUE)

\* get_current_user_profile: whatever profile the session names, if it exists.
CurrentProfile(s) ==
  IF s # None /\ s.profile # None /\ owner[s.profile] # None THEN s.profile ELSE None

\* UserRoleCheckMixin.dispatch: a page or a refusal, without effect here.
RolePage(t) == Reaches(t, "review-list") /\ JustAnswer(t, Arriving(t), "page", TRUE)

\* ChangeActiveProfileView.post.
ChangeActiveProfile(t) == LET s == Arriving(t) IN
  /\ Reaches(t, "switch")
  /\ IF tab[t].input \in ProfilesOf(s.user)
     THEN JustAnswer(t, [s EXCEPT !.profile = tab[t].input], "account", TRUE)
     ELSE JustAnswer(t, s, "page", TRUE)

Serve(t) == \/ TimeOut(t) \/ Divert(t)
            \/ Home(t) \/ SessionExpired(t) \/ LogoutView(t) \/ StartSignIn(t)
            \/ Callback(t) \/ AdminView(t) \/ Challenge(t) \/ VerifyToken(t)
            \/ AccountView(t) \/ RolePage(t) \/ ChangeActiveProfile(t)

-----------------------------------------------------------------------------
(* The way out *)

\* SessionMiddleware: a 500 saves nothing, an anonymous session takes the
\* cookie back, a deleted row cannot be saved.
Saved(t) == /\ tab[t].held # None /\ tab[t].out # "error" /\ row[tab[t].key] # None

Interrupted(t) == /\ tab[t].held # None /\ tab[t].out # "error" /\ row[tab[t].key] = None

\* What is left when t has its answer; a row out of reach is as good as deleted.
Reachable(t, k) == \/ \E b \in Browsers : jar'[b] = k
                   \/ \E o \in Tabs \ {t} : tab[o].key = k

SaveSession(t) ==
  /\ jar' = [jar EXCEPT ![BrowserOf[t]] =
               IF Saved(t) THEN tab[t].key
               ELSE IF tab[t].held = None /\ (tab[t].sent \/ tab[t].out = "provider") THEN None
               ELSE @]
  /\ row' = [k \in Keys |-> IF Saved(t) /\ k = tab[t].key THEN tab[t].held
                             ELSE IF Reachable(t, k) THEN row[k] ELSE None]

\* A cookie that names the user instead of the profile.
SetLastUser(t) ==
  lastOrg' = [lastOrg EXCEPT ![BrowserOf[t]] =
    IF tab[t].viewed /\ CurrentProfile(tab[t].held) # None THEN tab[t].held.user ELSE @]

\* LastOrganisationCookieMiddleware, inside the others and so also on a 500.
SetLastOrg(t) ==
  lastOrg' = [lastOrg EXCEPT ![BrowserOf[t]] =
    IF tab[t].viewed /\ ~Interrupted(t) /\ CurrentProfile(tab[t].held) # None
    THEN tab[t].held.profile ELSE @]

\* The browser follows redirects; the person is left with a page or at the provider.
Respond(t) ==
  /\ tab[t].at = "answered"
  /\ SaveSession(t) /\ SetLastOrg(t)
  /\ tab' = [tab EXCEPT ![t] =
       IF Interrupted(t) THEN Quiet
       ELSE IF tab[t].out \in Paths
            THEN [Quiet EXCEPT !.at = "asking", !.path = tab[t].out]
       ELSE IF tab[t].out = "provider" THEN [Quiet EXCEPT !.at = "provider"]
       ELSE Quiet]
  /\ UNCHANGED <<owner, everOwned>>

-----------------------------------------------------------------------------
(* People, the back office and time *)

\* A link, a bookmark, a form: what a person may send.
Visit(t) ==
  /\ tab[t].at = "idle"
  /\ \E path \in Visits[t] :
     \E input \in CASE path = "switch" -> Profiles
                    [] path = "admin" -> Staff \cup {None}
                    [] OTHER -> {None} :
       tab' = [tab EXCEPT ![t] = [Quiet EXCEPT !.at = "asking", !.path = path, !.input = input]]
  /\ UNCHANGED <<row, jar, lastOrg, owner, everOwned>>

\* The provider sends the person back, or the person gives up.
LeaveProvider(t) ==
  /\ tab[t].at = "provider"
  /\ \/ \E u \in Users \ Staff :
          tab' = [tab EXCEPT ![t] = [Quiet EXCEPT !.at = "asking", !.path = "callback", !.input = u]]
     \/ tab' = [tab EXCEPT ![t] = Quiet]
  /\ UNCHANGED <<row, jar, lastOrg, owner, everOwned>>

\* The session ends with the browser, last_org is kept for seven days.
CloseBrowser(b) ==
  /\ jar[b] # None
  /\ \A t \in Tabs : BrowserOf[t] = b => tab[t].at \in {"idle", "provider"}
  /\ jar' = [jar EXCEPT ![b] = None]
  /\ row' = [row EXCEPT ![jar[b]] = None]
  /\ tab' = [t \in Tabs |-> IF BrowserOf[t] = b THEN Quiet ELSE tab[t]]
  /\ UNCHANGED <<lastOrg, owner, everOwned>>

\* Forms and the admin site give a profile to another account, or remove it.
EditProfile(p, u) ==
  /\ owner[p] \notin {None, u}
  /\ owner' = [owner EXCEPT ![p] = u]
  /\ everOwned' = [everOwned EXCEPT ![p] = @ \cup ({u} \ {None})]
  /\ UNCHANGED <<row, jar, lastOrg, tab>>

\* Ninety minutes pass; a request is over after two (gunicorn_conf.py).
Age(k) ==
  /\ row[k] # None /\ row[k].active = "recent"
  /\ \A t \in Tabs : tab[t].key # k
  /\ row' = [row EXCEPT ![k].active = "old"]
  /\ UNCHANGED <<jar, lastOrg, tab, owner, everOwned>>

Next ==
  \/ \E t \in Tabs : Serve(t) \/ Respond(t) \/ Visit(t) \/ LeaveProvider(t)
  \/ \E b \in Browsers : CloseBrowser(b)
  \/ \E e \in Edits : EditProfile(e[1], e[2])
  \/ \E k \in Keys : Age(k)

\* Workers answer, browsers follow redirects; nobody has to do anything else.
Fairness == \A t \in Tabs : WF_vars(Serve(t) \/ Respond(t))

Spec == Init /\ [][Next]_vars /\ Fairness

-----------------------------------------------------------------------------
(* Properties *)

Sessions == ({row[k] : k \in Keys} \cup {tab[t].held : t \in Tabs}) \ {None}

\* A session never acts with a profile that was not its user's at some time,
\* although the cookie that proposes one outlives sessions and users, and a
\* request saves a whole copy of the session (account.py 80-112).
ProfileWasOwned ==
  \A s \in Sessions : s.profile # None => s.user \in everOwned[s.profile]

\* Whoever works with a profile has passed the second factor, or is staff:
\* role pages rely on it, since they look at the profile only (auth.py 182-194).
ProfileAfterSecondFactor ==
  \A s \in Sessions : s.profile # None => IsVerified(s) \/ s.user \in Staff

\* Once idle for too long, a session is not revived by anything, in any tab,
\* until it is deleted (session.py 58-87).  This is about every session of a
\* user who has signed in, with or without the second factor: the code asks for
\* is_authenticated (59), where the docstring (4-5, 10, 35-36) has is_verified().
IdleStaysIdle ==
  [][\A k \in Keys : row[k] # None /\ row[k].active = "old" /\ Named(k) =>
        row'[k] = None \/ row'[k] = row[k]]_vars

\* Every request ends: no chain of redirects goes round for ever ("to prevent
\* redirect loops", session.py 13): of the two addresses the docstring excludes
\* from the timeout, the code excludes one, session-expired (63).
EveryRequestSettles ==
  \A t \in Tabs : tab[t].at = "asking" ~> tab[t].at \in {"idle", "provider"}

\* Using an idle session ends with the browser signed out, whatever its other
\* tabs do meanwhile, and whether or not the session had passed the second
\* factor (session.py 59-82; the docstring speaks of verified users only).
IdleIsSignedOut ==
  \A t \in Tabs :
    tab[t].at = "answered" /\ tab[t].out = "expired" /\ tab[t].key = CookieOf(t)
      ~> Loaded(t) = None
=============================================================================

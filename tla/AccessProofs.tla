---------------------------- MODULE AccessProofs ----------------------------
(***************************************************************************)
(* What Access promises for every number of browsers, tabs, people,        *)
(* profiles and session keys.  A request saves the copy of the session it  *)
(* loaded, so that what is said of the stored sessions has to be said of   *)
(* every copy; and a copy can only disagree with its row as long as        *)
(* neither of the two is idle for too long.                                *)
(***************************************************************************)
EXTENDS Access, WellFoundedInduction, TLAPS

\* A session, stored or in the hands of a request.
Good(s) ==
  /\ s \in Session
  /\ s.profile # None => /\ s.user \in everOwned[s.profile]
                         /\ IsVerified(s) \/ s.user \in Staff

OwnersRemembered == \A p \in Profiles : owner[p] # None => owner[p] \in everOwned[p]

\* Only the provider sends people to the callback, with who they are.
CallbackInv(x) ==
  /\ x.out # "callback"
  /\ x.path = "callback" => x.input \in Users

\* The copy x holds and the row it came from: one that is idle is the other.
CopyInv(x) ==
  x.held # None =>
    /\ Good(x.held)
    /\ x.key # None
    /\ row[x.key] # None /\ (row[x.key].active = "old" \/ x.held.active = "old") =>
         row[x.key] = x.held

Inv ==
  /\ TypeOK
  /\ OwnersRemembered
  /\ \A k \in Keys : row[k] # None => Good(row[k])
  /\ \A t \in Tabs : CallbackInv(tab[t]) /\ CopyInv(tab[t])

LEMMA QuietTab == /\ Quiet \in TabState
                  /\ Quiet.held = None /\ Quiet.key = None /\ Quiet.at = "idle"
                  /\ Quiet.out = "page" /\ Quiet.path = "home"
  BY DEF Quiet, TabState, Paths, Answers, Input

LEMMA InitInv == Init => Inv
  <1> SUFFICES ASSUME Init PROVE Inv
    OBVIOUS
  <1>1. TypeOK
    BY QuietTab, AccessAssumption DEF Init, TypeOK
  <1>2. OwnersRemembered
    BY AccessAssumption DEF Init, OwnersRemembered
  <1>3. \A t \in Tabs : CallbackInv(tab[t]) /\ CopyInv(tab[t])
    BY QuietTab DEF Init, CallbackInv, CopyInv
  <1> QED
    BY <1>1, <1>2, <1>3 DEF Init, Inv

-----------------------------------------------------------------------------
(* The least of some numbers is one of them.                               *)

Less == {pair \in Nat \X Nat : pair[1] < pair[2]}

LEMMA LessWellFounded == IsWellFoundedOn(Less, Nat)
  BY NatLessThanWellFounded, Zenon DEF OpToRel, Less

LEMMA LeastIsOne == ASSUME NEW S, S \subseteq Nat, S # {} PROVE Min(S) \in S
  <1>1. \A m, n \in Nat : m < n => <<m, n>> \in Less
    BY DEF Less
  <1>2. PICK n \in S : \A m \in S : <<m, n>> \notin Less
    BY LessWellFounded, WFMin, Zenon
  <1>3. ASSUME NEW m \in S PROVE n <= m
    <2>1. m \in Nat /\ n \in Nat
      OBVIOUS
    <2>2. ~ (m < n)
      BY <1>1, <1>2, <2>1
    <2> QED
      BY <2>1, <2>2
  <1> QED
    BY <1>3 DEF Min

-----------------------------------------------------------------------------
(* The session of a request.                                               *)

\* A tab whose request is answered with the session s under the key k.
AnsweredWith(k, s, out, viewed, cookie) ==
  IF s = None
    THEN [Quiet EXCEPT !.at = "answered", !.sent = (cookie # None), !.out = out]
    ELSE [Quiet EXCEPT !.at = "answered", !.key = k, !.held = s, !.out = out, !.viewed = viewed]

LEMMA AnsweredTab ==
  ASSUME NEW k \in Keys \cup {None}, NEW s, s # None => s \in Session,
         NEW out \in Answers, NEW viewed \in BOOLEAN, NEW cookie,
         NEW x, x = AnsweredWith(k, s, out, viewed, cookie)
  PROVE  /\ x \in TabState
         /\ x.held = s /\ (s # None => x.key = k)
         /\ x.out = out /\ x.path = "home" /\ x.at = "answered"
  BY QuietTab DEF AnsweredWith, Quiet, TabState, Paths, Answers, Input

\* An answer that leaves the rows alone.
LEMMA JustAnswerInv ==
  ASSUME Inv, NEW t \in Tabs, NEW s, NEW out \in Answers \ {"callback"}, NEW viewed \in BOOLEAN,
         JustAnswer(t, s, out, viewed),
         s # None => /\ Good(s)
                     /\ Loaded(t) # None
                     /\ Loaded(t).active = "old" \/ s.active = "old" => s = Loaded(t)
  PROVE  Inv'
  <1>1. CookieOf(t) \in Keys \cup {None}
    BY AccessAssumption DEF CookieOf, Inv, TypeOK
  <1>2. s # None => s \in Session /\ CookieOf(t) # None /\ row[CookieOf(t)] = Loaded(t)
    BY DEF Good, Loaded
  <1>3. /\ row' = row /\ jar' = jar /\ lastOrg' = lastOrg /\ owner' = owner /\ everOwned' = everOwned
        /\ tab' = [tab EXCEPT ![t] = AnsweredWith(CookieOf(t), s, out, viewed, CookieOf(t))]
    BY DEF JustAnswer, Answer, AnsweredWith
  <1>4. /\ tab' \in [Tabs -> TabState]
        /\ \A o \in Tabs : o # t => tab'[o] = tab[o]
        /\ tab'[t].held = s /\ (s # None => tab'[t].key = CookieOf(t))
        /\ tab'[t].out = out /\ tab'[t].path = "home"
    <2>1. tab' \in [Tabs -> TabState] /\ tab'[t] = AnsweredWith(CookieOf(t), s, out, viewed, CookieOf(t))
      <3>1. AnsweredWith(CookieOf(t), s, out, viewed, CookieOf(t)) \in TabState
        BY <1>1, <1>2, AnsweredTab
      <3> QED
        BY <1>3, <3>1 DEF Inv, TypeOK
    <2>2. \A o \in Tabs : o # t => tab'[o] = tab[o]
      BY <1>3 DEF Inv, TypeOK
    <2> QED
      BY <1>1, <1>2, <2>1, <2>2, AnsweredTab
  <1>5. TypeOK' /\ OwnersRemembered'
    BY <1>3, <1>4 DEF Inv, TypeOK, OwnersRemembered
  <1>6. \A x : Good(x) => Good(x)'
    BY <1>3 DEF Good
  <1>7. (CallbackInv(tab[t]) /\ CopyInv(tab[t]))'
    BY <1>2, <1>3, <1>4, <1>6 DEF CallbackInv, CopyInv
  <1>8. ASSUME NEW o \in Tabs, o # t PROVE (CallbackInv(tab[o]) /\ CopyInv(tab[o]))'
    BY <1>3, <1>4, <1>6, <1>8 DEF Inv, CallbackInv, CopyInv
  <1> QED
    BY <1>3, <1>5, <1>6, <1>7, <1>8 DEF Inv

\* An answer with the anonymous session; the row of the cookie may be deleted.
LEMMA FlushInv ==
  ASSUME Inv, NEW t \in Tabs, NEW out \in Answers \ {"callback"}, Flush(t, out)
  PROVE  Inv'
  <1>1. PICK viewed \in BOOLEAN :
        /\ jar' = jar /\ lastOrg' = lastOrg /\ owner' = owner /\ everOwned' = everOwned
        /\ tab' = [tab EXCEPT ![t] = AnsweredWith(None, None, out, viewed, CookieOf(t))]
    BY DEF Flush, Answer, AnsweredWith
  <1>2. /\ tab' \in [Tabs -> TabState]
        /\ \A o \in Tabs : o # t => tab'[o] = tab[o]
        /\ tab'[t].held = None
        /\ tab'[t].out = out /\ tab'[t].path = "home"
    <2>1. tab' \in [Tabs -> TabState] /\ tab'[t] = AnsweredWith(None, None, out, viewed, CookieOf(t))
      <3>1. AnsweredWith(None, None, out, viewed, CookieOf(t)) \in TabState
        BY <1>1, AnsweredTab DEF Answers
      <3> QED
        BY <1>1, <3>1 DEF Inv, TypeOK
    <2>2. \A o \in Tabs : o # t => tab'[o] = tab[o]
      BY <1>1 DEF Inv, TypeOK
    <2> QED
      BY <1>1, <2>1, <2>2, AnsweredTab DEF Answers
  <1>3. row' \in [Keys -> Session \cup {None}] /\ \A k \in Keys : row'[k] \in {row[k], None}
    BY DEF Flush, Inv, TypeOK
  <1>4. TypeOK' /\ OwnersRemembered'
    BY <1>1, <1>2, <1>3 DEF Inv, TypeOK, OwnersRemembered
  <1>5. \A x : Good(x) => Good(x)'
    BY <1>1 DEF Good
  <1>6. (CallbackInv(tab[t]) /\ CopyInv(tab[t]))'
    BY <1>2 DEF CallbackInv, CopyInv
  <1>7. ASSUME NEW o \in Tabs, o # t PROVE (CallbackInv(tab[o]) /\ CopyInv(tab[o]))'
    <2>1. tab'[o] = tab[o] /\ tab[o].key \in Keys \cup {None}
      BY <1>2, <1>7 DEF Inv, TypeOK, TabState
    <2> QED
      BY <1>3, <1>5, <2>1 DEF Inv, CallbackInv, CopyInv
  <1> QED
    BY <1>3, <1>4, <1>5, <1>6, <1>7 DEF Inv

\* Somebody signs in: a session without a profile under a key of its own, or
\* the session of the same person goes on.
LEMMA SignedInInv ==
  ASSUME Inv, NEW t \in Tabs, NEW s, NEW u \in Users, NEW out \in Answers \ {"callback"},
         SignedIn(t, s, u, out),
         s # None => /\ Good(s)
                     /\ Loaded(t) # None
                     /\ Loaded(t).active = "old" \/ s.active = "old" => s = Loaded(t)
  PROVE  Inv'
  <1> DEFINE n == NewKey
             new == [user |-> u, device |-> None, profile |-> None, active |-> "never"]
  <1>1. CASE s # None /\ s.user = u
    BY <1>1, JustAnswerInv DEF SignedIn
  <1>2. CASE ~ (s # None /\ s.user = u)
    <2>1. PICK viewed \in BOOLEAN :
          /\ FreeKeys # {}
          /\ tab' = [tab EXCEPT ![t] = AnsweredWith(n, new, out, viewed, CookieOf(t))]
          /\ row' = [k \in Keys |-> IF k = n THEN new ELSE IF k = CookieOf(t) THEN None ELSE row[k]]
          /\ jar' = jar /\ lastOrg' = lastOrg /\ owner' = owner /\ everOwned' = everOwned
      BY <1>2 DEF SignedIn, Answer, AnsweredWith
    <2>2. n \in Keys /\ n # None /\ ~ Named(n)
      BY <2>1, LeastIsOne, AccessAssumption DEF NewKey, FreeKeys
    <2>3. new \in Session /\ new # None /\ new.profile = None
      BY SessionAssumption DEF Session
    <2> HIDE DEF n, new
    <2>4. /\ tab' \in [Tabs -> TabState]
          /\ \A o \in Tabs : o # t => tab'[o] = tab[o]
          /\ tab'[t].held = new /\ tab'[t].key = n
          /\ tab'[t].out = out /\ tab'[t].path = "home"
      <3>1. tab' \in [Tabs -> TabState] /\ tab'[t] = AnsweredWith(n, new, out, viewed, CookieOf(t))
        <4>1. AnsweredWith(n, new, out, viewed, CookieOf(t)) \in TabState
          BY <2>2, <2>3, AnsweredTab DEF Answers
        <4> QED
          BY <2>1, <4>1 DEF Inv, TypeOK
      <3>2. \A o \in Tabs : o # t => tab'[o] = tab[o]
        BY <2>1 DEF Inv, TypeOK
      <3> QED
        BY <2>2, <2>3, <3>1, <3>2, AnsweredTab DEF Answers
    <2>5. TypeOK' /\ OwnersRemembered'
      BY <2>1, <2>3, <2>4 DEF Inv, TypeOK, OwnersRemembered
    <2>6. Good(new)' /\ \A x : Good(x) => Good(x)'
      BY <2>1, <2>3 DEF Good
    <2>7. (CallbackInv(tab[t]) /\ CopyInv(tab[t]))'
      BY <2>1, <2>2, <2>3, <2>4, <2>6 DEF CallbackInv, CopyInv
    <2>8. ASSUME NEW o \in Tabs, o # t PROVE (CallbackInv(tab[o]) /\ CopyInv(tab[o]))'
      <3>1. tab'[o] = tab[o] /\ tab[o].key \in Keys \cup {None} /\ tab[o].key # n
        BY <2>2, <2>4, <2>8 DEF Inv, TypeOK, TabState, Named
      <3>2. tab[o].key # None => row'[tab[o].key] \in {row[tab[o].key], None}
        BY <2>1, <3>1
      <3> QED
        BY <2>6, <3>1, <3>2 DEF Inv, CallbackInv, CopyInv
    <2>9. (\A k \in Keys : row[k] # None => Good(row[k]))'
      BY <2>1, <2>6 DEF Inv
    <2> QED
      BY <2>5, <2>7, <2>8, <2>9 DEF Inv
  <1> QED
    BY <1>1, <1>2

-----------------------------------------------------------------------------
(* The requests.                                                           *)

LEMMA LoadedGood ==
  ASSUME Inv, NEW t \in Tabs, Loaded(t) # None
  PROVE  Good(Loaded(t)) /\ CookieOf(t) \in Keys
  BY AccessAssumption DEF Loaded, CookieOf, Inv, TypeOK

LEMMA WithActive ==
  ASSUME NEW s \in Session, NEW a \in {"never", "recent", "old"},
         NEW r, r = [s EXCEPT !.active = a]
  PROVE  /\ r \in Session /\ r # None
         /\ r.user = s.user /\ r.device = s.device /\ r.profile = s.profile /\ r.active = a
  BY SessionAssumption DEF Session

LEMMA WithDevice ==
  ASSUME NEW s \in Session, NEW u \in Users, NEW r, r = [s EXCEPT !.device = u]
  PROVE  /\ r \in Session /\ r # None
         /\ r.user = s.user /\ r.device = u /\ r.profile = s.profile /\ r.active = s.active
  BY SessionAssumption DEF Session

LEMMA WithProfile ==
  ASSUME NEW s \in Session, NEW p \in Profiles \cup {None}, NEW r, r = [s EXCEPT !.profile = p]
  PROVE  /\ r \in Session /\ r # None
         /\ r.user = s.user /\ r.device = s.device /\ r.profile = p /\ r.active = s.active
  BY SessionAssumption DEF Session

\* What the timeout middleware lets through is the session it loaded, active
\* again unless the request is for the expiry page.
LEMMA ArrivingFacts ==
  ASSUME Inv, NEW t \in Tabs, ~ TimedOut(Loaded(t), tab[t].path), Arriving(t) # None
  PROVE  /\ Good(Arriving(t)) /\ Loaded(t) # None
         /\ Loaded(t).active = "old" \/ Arriving(t).active = "old" => Arriving(t) = Loaded(t)
         /\ tab[t].path # "expired" => Loaded(t).active # "old" /\ Arriving(t).active # "old"
  <1>1. Loaded(t) # None
    BY DEF Arriving, Refreshed
  <1>2. Good(Loaded(t))
    BY <1>1, LoadedGood
  <1>3. CASE tab[t].path = "expired"
    BY <1>1, <1>2, <1>3 DEF Arriving, Refreshed
  <1>4. CASE tab[t].path # "expired"
    <2>1. Arriving(t) = [Loaded(t) EXCEPT !.active = "recent"]
      BY <1>1, <1>4 DEF Arriving, Refreshed
    <2>2. Loaded(t).active # "old"
      BY <1>1, <1>4 DEF TimedOut
    <2>3. /\ Arriving(t) \in Session
          /\ Arriving(t).user = Loaded(t).user /\ Arriving(t).device = Loaded(t).device
          /\ Arriving(t).profile = Loaded(t).profile /\ Arriving(t).active = "recent"
      BY <1>2, <2>1, WithActive DEF Good
    <2>4. Good(Arriving(t))
      BY <1>2, <2>3 DEF Good, IsVerified
    <2> QED
      BY <1>1, <1>4, <2>2, <2>3, <2>4
  <1> QED
    BY <1>3, <1>4

\* The answer keeps the session as it arrived.
LEMMA PlainAnswer ==
  ASSUME Inv, NEW t \in Tabs, ~ TimedOut(Loaded(t), tab[t].path),
         NEW out \in Answers \ {"callback"}, NEW viewed \in BOOLEAN,
         JustAnswer(t, Arriving(t), out, viewed)
  PROVE  Inv'
  BY ArrivingFacts, JustAnswerInv

LEMMA ServedPlainly ==
  ASSUME Inv, NEW t \in Tabs,
         TimeOut(t) \/ Divert(t) \/ Home(t) \/ SessionExpired(t) \/ LogoutView(t)
           \/ StartSignIn(t) \/ Challenge(t) \/ RolePage(t)
  PROVE  Inv'
  <1>1. CASE TimeOut(t)
    <2>1. CASE Flush(t, "page")
      BY <2>1, FlushInv DEF Answers, Paths
    <2>2. CASE JustAnswer(t, Loaded(t), "expired", FALSE)
      BY <2>2, LoadedGood, JustAnswerInv DEF Answers, Paths
    <2> QED
      BY <1>1, <2>1, <2>2 DEF TimeOut
  <1>2. CASE Divert(t)
    <2>1. PICK to : /\ to = Diversion(Arriving(t), tab[t].path) /\ to # None
                    /\ JustAnswer(t, Arriving(t), to, FALSE)
      BY <1>2 DEF Divert
    <2>2. to \in {"expired", "signin", "verify"}
      BY <2>1 DEF Diversion
    <2> QED
      BY <1>2, <2>1, <2>2, PlainAnswer DEF Divert, Answers, Paths
  <1>3. CASE Home(t)
    BY <1>3, PlainAnswer DEF Home, Reaches, Answers, Paths
  <1>4. CASE SessionExpired(t)
    BY <1>4, PlainAnswer, FlushInv DEF SessionExpired, Reaches, Answers, Paths
  <1>5. CASE LogoutView(t)
    BY <1>5, FlushInv DEF LogoutView, Answers, Paths
  <1>6. CASE StartSignIn(t)
    BY <1>6, PlainAnswer DEF StartSignIn, Reaches, Answers, Paths
  <1>7. CASE Challenge(t)
    BY <1>7, PlainAnswer DEF Challenge, Reaches, Answers, Paths
  <1>8. CASE RolePage(t)
    BY <1>8, PlainAnswer DEF RolePage, Reaches, Answers, Paths
  <1> QED
    BY <1>1, <1>2, <1>3, <1>4, <1>5, <1>6, <1>7, <1>8

LEMMA SignInInv ==
  ASSUME Inv, NEW t \in Tabs, Callback(t)
  PROVE  Inv'
  <1>1. tab[t].input \in Users /\ ~ TimedOut(Loaded(t), tab[t].path)
    BY DEF Callback, Reaches, Inv, CallbackInv
  <1>2. "account" \in Answers \ {"callback"} /\ "home" \in Answers \ {"callback"}
    BY DEF Answers, Paths
  <1>3. CASE SignedIn(t, Arriving(t), tab[t].input, "account")
    BY <1>1, <1>2, <1>3, ArrivingFacts, SignedInInv
  <1>4. CASE JustAnswer(t, Arriving(t), "home", TRUE)
    BY <1>1, <1>2, <1>4, PlainAnswer
  <1> QED
    BY <1>3, <1>4 DEF Callback

LEMMA AdminInv ==
  ASSUME Inv, NEW t \in Tabs, AdminView(t)
  PROVE  Inv'
  <1>1. ~ TimedOut(Loaded(t), tab[t].path) /\ "page" \in Answers \ {"callback"}
    BY DEF AdminView, Reaches, Answers, Paths
  <1>2. CASE JustAnswer(t, Arriving(t), "page", TRUE)
    BY <1>1, <1>2, PlainAnswer
  <1>3. CASE tab[t].input \in Staff /\ SignedIn(t, Arriving(t), tab[t].input, "page")
    BY <1>1, <1>3, ArrivingFacts, SignedInInv, AccessAssumption
  <1> QED
    BY <1>2, <1>3 DEF AdminView

\* Nobody who has not signed in gets as far as these views, and nobody gets to
\* the last two without the second factor or being staff.
LEMMA SomebodyAsks ==
  ASSUME NEW t \in Tabs, NEW path \in {"token", "account", "switch"}, Reaches(t, path)
  PROVE  /\ Arriving(t) # None
         /\ path # "token" => IsVerified(Arriving(t)) \/ Arriving(t).user \in Staff
  <1>1. path \notin Open /\ "expired" # None /\ "signin" # None /\ "verify" # None
    BY AccessAssumption DEF Open, Paths
  <1>2. Diversion(Arriving(t), path) = None
    BY DEF Reaches
  <1>3. Arriving(t) # None
    BY <1>1, <1>2 DEF Diversion
  <1>4. path # "token" => IsVerified(Arriving(t)) \/ Arriving(t).user \in Staff
    BY <1>1, <1>2, <1>3 DEF Diversion, WithoutCode
  <1> QED
    BY <1>3, <1>4

\* The right code adds a device, which makes nobody less verified.
LEMMA TokenInv ==
  ASSUME Inv, NEW t \in Tabs, VerifyToken(t)
  PROVE  Inv'
  <1> DEFINE s == Arriving(t)
             r == [s EXCEPT !.device = s.user]
  <1>1. ~ TimedOut(Loaded(t), tab[t].path) /\ tab[t].path = "token" /\ s # None
    BY SomebodyAsks DEF VerifyToken, Reaches
  <1>2. CASE JustAnswer(t, s, "page", TRUE)
    BY <1>1, <1>2, PlainAnswer DEF Answers, Paths
  <1>3. CASE JustAnswer(t, r, IF s.user \in Staff THEN "admin" ELSE "account", TRUE)
    <2>1. Good(s) /\ Loaded(t) # None /\ Loaded(t).active # "old" /\ s.active # "old"
      BY <1>1, ArrivingFacts
    <2>2. /\ r \in Session /\ r # None
          /\ r.user = s.user /\ r.device = s.user /\ r.profile = s.profile /\ r.active = s.active
      <3>1. s \in Session /\ s.user \in Users
        BY <2>1 DEF Good, Session
      <3> QED
        BY <3>1, WithDevice
    <2>3. Good(r)
      BY <2>1, <2>2 DEF Good, IsVerified
    <2>4. PICK out \in Answers \ {"callback"} : JustAnswer(t, r, out, TRUE)
      <3>1. "admin" \in Answers \ {"callback"} /\ "account" \in Answers \ {"callback"}
        BY DEF Answers, Paths
      <3> QED
        BY <1>3, <3>1
    <2> HIDE DEF r
    <2> QED
      BY <2>1, <2>2, <2>3, <2>4, JustAnswerInv
  <1> QED
    BY <1>2, <1>3 DEF VerifyToken

\* A profile is only ever taken from those of the user, by somebody whom the
\* middleware has let through to the view.
LEMMA ProfileTaken ==
  ASSUME Inv, NEW t \in Tabs, NEW path \in {"account", "switch"}, Reaches(t, path),
         NEW p \in Profiles \cup {None}, NEW out \in Answers \ {"callback"},
         p = None \/ p = Arriving(t).profile \/ p \in ProfilesOf(Arriving(t).user),
         JustAnswer(t, [Arriving(t) EXCEPT !.profile = p], out, TRUE)
  PROVE  Inv'
  <1> DEFINE s == Arriving(t)
             r == [s EXCEPT !.profile = p]
  <1>1. /\ ~ TimedOut(Loaded(t), tab[t].path) /\ tab[t].path # "expired" /\ s # None
        /\ IsVerified(s) \/ s.user \in Staff
    BY SomebodyAsks DEF Reaches
  <1>2. Good(s) /\ Loaded(t) # None /\ Loaded(t).active # "old" /\ s.active # "old"
    BY <1>1, ArrivingFacts
  <1>3. /\ r \in Session /\ r # None
        /\ r.user = s.user /\ r.device = s.device /\ r.profile = p /\ r.active = s.active
    BY <1>2, WithProfile DEF Good
  <1>4. p # None => s.user \in everOwned[p]
    <2>1. CASE p = s.profile
      BY <1>2, <2>1 DEF Good
    <2>2. CASE p \in ProfilesOf(s.user)
      <3>1. p \in Profiles /\ owner[p] = s.user /\ s.user \in Users
        BY <1>2, <2>2 DEF ProfilesOf, Good, Session
      <3>2. s.user # None
        BY <3>1, AccessAssumption
      <3> QED
        BY <3>1, <3>2 DEF Inv, OwnersRemembered
    <2> QED
      BY <2>1, <2>2
  <1>5. Good(r)
    BY <1>1, <1>3, <1>4 DEF Good, IsVerified
  <1> HIDE DEF r
  <1> QED
    BY <1>2, <1>3, <1>5, JustAnswerInv DEF r

LEMMA AccountInv ==
  ASSUME Inv, NEW t \in Tabs, AccountView(t)
  PROVE  Inv'
  <1> DEFINE s == Arriving(t)
             p == PickProfile(t, s)
  <1>1. Reaches(t, "account") /\ Good(s)
    BY ArrivingFacts, SomebodyAsks DEF AccountView, Reaches
  <1>2. PICK out \in Answers \ {"callback"} : JustAnswer(t, [s EXCEPT !.profile = p], out, TRUE)
    BY DEF AccountView, Answers, Paths
  <1>3. p = None \/ p = s.profile \/ p \in ProfilesOf(s.user)
    <2>1. CASE ProfilesOf(s.user) = {} \/ s.profile # None
      BY <2>1 DEF PickProfile
    <2>2. CASE ProfilesOf(s.user) # {}
      <3>1. ProfilesOf(s.user) \subseteq Nat
        BY AccessAssumption DEF ProfilesOf
      <3>2. Min(ProfilesOf(s.user)) \in ProfilesOf(s.user)
        BY <2>2, <3>1, LeastIsOne
      <3> QED
        BY <3>2 DEF PickProfile
    <2> QED
      BY <2>1, <2>2
  <1>4. p \in Profiles \cup {None}
    BY <1>1, <1>3 DEF Good, Session, ProfilesOf
  <1> HIDE DEF p
  <1> QED
    BY <1>1, <1>2, <1>3, <1>4, ProfileTaken

LEMMA SwitchInv ==
  ASSUME Inv, NEW t \in Tabs, ChangeActiveProfile(t)
  PROVE  Inv'
  <1> DEFINE p == tab[t].input
  <1>1. Reaches(t, "switch") /\ "account" \in Answers \ {"callback"} /\ "page" \in Answers \ {"callback"}
    BY DEF ChangeActiveProfile, Answers, Paths
  <1>2. CASE /\ p \in ProfilesOf(Arriving(t).user)
             /\ JustAnswer(t, [Arriving(t) EXCEPT !.profile = p], "account", TRUE)
    <2>1. p \in Profiles
      BY <1>2 DEF ProfilesOf
    <2> HIDE DEF p
    <2> QED
      BY <1>1, <1>2, <2>1, ProfileTaken
  <1>3. CASE JustAnswer(t, Arriving(t), "page", TRUE)
    BY <1>1, <1>3, PlainAnswer DEF Reaches
  <1> QED
    BY <1>2, <1>3 DEF ChangeActiveProfile

LEMMA ServeInv == ASSUME Inv, NEW t \in Tabs, Serve(t) PROVE Inv'
  BY ServedPlainly, SignInInv, AdminInv, TokenInv, AccountInv, SwitchInv DEF Serve

-----------------------------------------------------------------------------
(* Everything else.                                                        *)

\* A tab that starts a request, or has none.
LEMMA FreshTab ==
  ASSUME NEW x, NEW at \in {"idle", "asking", "provider"}, NEW path \in Paths, NEW input \in Input,
         x = [Quiet EXCEPT !.at = at, !.path = path, !.input = input]
  PROVE  /\ x \in TabState /\ x.held = None /\ x.out = "page" /\ x.path = path /\ x.input = input
  BY QuietTab DEF Quiet, TabState

\* One tab starts anew and the rest of the world stays as it is.
LEMMA TabInv ==
  ASSUME Inv, NEW t \in Tabs, NEW x \in TabState, x.held = None, CallbackInv(x),
         tab' = [tab EXCEPT ![t] = x],
         UNCHANGED <<row, jar, lastOrg, owner, everOwned>>
  PROVE  Inv'
  <1>1. /\ tab' \in [Tabs -> TabState] /\ tab'[t] = x
        /\ \A o \in Tabs : o # t => tab'[o] = tab[o]
    BY DEF Inv, TypeOK
  <1>2. TypeOK' /\ OwnersRemembered' /\ \A s : Good(s) => Good(s)'
    BY <1>1 DEF Inv, TypeOK, OwnersRemembered, Good
  <1>3. \A o \in Tabs : (CallbackInv(tab[o]) /\ CopyInv(tab[o]))'
    BY <1>1, <1>2 DEF Inv, CallbackInv, CopyInv
  <1> QED
    BY <1>2, <1>3 DEF Inv

LEMMA VisitInv == ASSUME Inv, NEW t \in Tabs, Visit(t) PROVE Inv'
  <1>1. PICK path \in Visits[t], input \in Input :
          tab' = [tab EXCEPT ![t] = [Quiet EXCEPT !.at = "asking", !.path = path, !.input = input]]
    BY AccessAssumption DEF Visit, Input
  <1>2. path \in Paths /\ path # "callback"
    BY AccessAssumption
  <1> DEFINE x == [Quiet EXCEPT !.at = "asking", !.path = path, !.input = input]
  <1>3. x \in TabState /\ x.held = None /\ x.out = "page" /\ x.path = path
    BY <1>2, FreshTab
  <1>4. CallbackInv(x)
    BY <1>2, <1>3 DEF CallbackInv
  <1> HIDE DEF x
  <1> QED
    BY <1>1, <1>3, <1>4, TabInv DEF Visit, x

LEMMA LeaveProviderInv == ASSUME Inv, NEW t \in Tabs, LeaveProvider(t) PROVE Inv'
  <1>1. CASE \E u \in Users \ Staff :
               tab' = [tab EXCEPT ![t] = [Quiet EXCEPT !.at = "asking", !.path = "callback", !.input = u]]
    <2>1. PICK u \in Users :
               tab' = [tab EXCEPT ![t] = [Quiet EXCEPT !.at = "asking", !.path = "callback", !.input = u]]
      BY <1>1
    <2> DEFINE x == [Quiet EXCEPT !.at = "asking", !.path = "callback", !.input = u]
    <2>2. "callback" \in Paths /\ u \in Input
      BY DEF Paths, Input
    <2>3. x \in TabState /\ x.held = None /\ x.out = "page" /\ x.path = "callback" /\ x.input = u
      BY <2>2 DEF Quiet, TabState, Paths, Answers, Input
    <2>4. CallbackInv(x)
      BY <2>3 DEF CallbackInv
    <2> HIDE DEF x
    <2> QED
      BY <2>1, <2>3, <2>4, TabInv DEF LeaveProvider, x
  <1>2. CASE tab' = [tab EXCEPT ![t] = Quiet]
    BY <1>2, QuietTab, TabInv DEF LeaveProvider, CallbackInv
  <1> QED
    BY <1>1, <1>2 DEF LeaveProvider

\* The rows lose sessions at most, and tabs their requests.
LEMMA CloseBrowserInv == ASSUME Inv, NEW b \in Browsers, CloseBrowser(b) PROVE Inv'
  <1>1. \A t \in Tabs : tab'[t] = Quiet \/ tab'[t] = tab[t]
    BY DEF CloseBrowser
  <1>2. tab' \in [Tabs -> TabState]
    BY <1>1, QuietTab DEF CloseBrowser, Inv, TypeOK
  <1>3. row' \in [Keys -> Session \cup {None}] /\ \A k \in Keys : row'[k] \in {row[k], None}
    BY DEF CloseBrowser, Inv, TypeOK
  <1>4. TypeOK' /\ OwnersRemembered' /\ \A s : Good(s) => Good(s)'
    BY <1>2, <1>3 DEF CloseBrowser, Inv, TypeOK, OwnersRemembered, Good
  <1>5. ASSUME NEW t \in Tabs PROVE (CallbackInv(tab[t]) /\ CopyInv(tab[t]))'
    <2>1. CASE tab'[t] = Quiet
      BY <2>1, QuietTab DEF CallbackInv, CopyInv
    <2>2. CASE tab'[t] = tab[t]
      <3>1. tab[t].key \in Keys \cup {None}
        BY DEF Inv, TypeOK, TabState
      <3> QED
        BY <1>3, <1>4, <2>2, <3>1 DEF Inv, CallbackInv, CopyInv
    <2> QED
      BY <1>1, <2>1, <2>2
  <1> QED
    BY <1>3, <1>4, <1>5 DEF Inv

LEMMA EditProfileInv == ASSUME Inv, NEW e \in Edits, EditProfile(e[1], e[2]) PROVE Inv'
  <1> DEFINE p == e[1]
             u == e[2]
  <1>1. p \in Profiles /\ u \in Users \cup {None} /\ u \in {u}
    BY AccessAssumption
  <1>2. /\ owner' = [owner EXCEPT ![p] = u]
        /\ everOwned' = [everOwned EXCEPT ![p] = @ \cup ({u} \ {None})]
        /\ UNCHANGED <<row, jar, lastOrg, tab>>
    BY DEF EditProfile
  <1> HIDE DEF p, u
  <1>3. \A q \in Profiles : everOwned[q] \subseteq everOwned'[q]
    BY <1>1, <1>2 DEF Inv, TypeOK
  <1>4. TypeOK' /\ OwnersRemembered'
    BY <1>1, <1>2 DEF Inv, TypeOK, OwnersRemembered
  <1>5. ASSUME NEW s, Good(s) PROVE Good(s)'
    <2>1. s \in Session /\ s.profile \in Profiles \cup {None}
      BY <1>5 DEF Good, Session
    <2> QED
      BY <1>3, <1>5, <2>1 DEF Good
  <1>6. \A t \in Tabs : (CallbackInv(tab[t]) /\ CopyInv(tab[t]))'
    BY <1>2, <1>5 DEF Inv, CallbackInv, CopyInv
  <1> QED
    BY <1>2, <1>4, <1>5, <1>6 DEF Inv

\* No request is under way with the session that ages.
LEMMA AgeInv == ASSUME Inv, NEW k \in Keys, Age(k) PROVE Inv'
  <1> DEFINE r == [row[k] EXCEPT !.active = "old"]
  <1>1. /\ row' = [row EXCEPT ![k] = r] /\ row[k] # None
        /\ UNCHANGED <<jar, lastOrg, tab, owner, everOwned>>
        /\ \A t \in Tabs : tab[t].key # k
    BY DEF Age
  <1>2. Good(row[k]) /\ row[k] \in Session
    BY <1>1 DEF Inv, Good
  <1>3. /\ r \in Session /\ r # None
        /\ r.user = row[k].user /\ r.device = row[k].device /\ r.profile = row[k].profile
    BY <1>2, WithActive
  <1>4. Good(r)
    BY <1>2, <1>3 DEF Good, IsVerified
  <1> HIDE DEF r
  <1>5. TypeOK' /\ OwnersRemembered' /\ \A s : Good(s) => Good(s)'
    BY <1>1, <1>3 DEF Inv, TypeOK, OwnersRemembered, Good
  <1>6. \A o \in Keys : o # k => row'[o] = row[o]
    BY <1>1 DEF Inv, TypeOK
  <1>7. ASSUME NEW t \in Tabs PROVE (CallbackInv(tab[t]) /\ CopyInv(tab[t]))'
    <2>1. tab[t].key \in Keys \cup {None} /\ tab[t].key # k /\ tab'[t] = tab[t]
      BY <1>1 DEF Inv, TypeOK, TabState
    <2> QED
      BY <1>5, <1>6, <2>1 DEF Inv, CallbackInv, CopyInv
  <1>8. (\A o \in Keys : row[o] # None => Good(row[o]))'
    BY <1>1, <1>4, <1>5, <1>6 DEF Inv, TypeOK
  <1> QED
    BY <1>5, <1>7, <1>8 DEF Inv

-----------------------------------------------------------------------------
(* The way out saves the copy over its row: if one of the two is idle for  *)
(* too long, nothing changes.                                              *)

LEMMA AfterResponse ==
  ASSUME Inv, NEW t \in Tabs, Respond(t)
  PROVE  \E x \in TabState : /\ x.held = None /\ CallbackInv(x)
                             /\ tab' = [tab EXCEPT ![t] = x]
  <1>1. CASE tab' = [tab EXCEPT ![t] = Quiet]
    BY <1>1, QuietTab DEF CallbackInv
  <1>2. CASE /\ tab[t].out \in Paths
             /\ tab' = [tab EXCEPT ![t] = [Quiet EXCEPT !.at = "asking", !.path = tab[t].out]]
    <2>1. PICK path \in Paths \ {"callback"} :
            tab' = [tab EXCEPT ![t] = [Quiet EXCEPT !.at = "asking", !.path = path]]
      BY <1>2 DEF Inv, CallbackInv
    <2> DEFINE x == [Quiet EXCEPT !.at = "asking", !.path = path]
    <2>2. x \in TabState /\ x.held = None /\ x.out = "page" /\ x.path = path
      BY DEF Quiet, TabState, Paths, Answers, Input
    <2> HIDE DEF x
    <2> QED
      BY <2>1, <2>2 DEF CallbackInv, x
  <1>3. CASE tab' = [tab EXCEPT ![t] = [Quiet EXCEPT !.at = "provider"]]
    <2> DEFINE x == [Quiet EXCEPT !.at = "provider"]
    <2>1. x \in TabState /\ x.held = None /\ x.out = "page" /\ x.path = "home"
      BY DEF Quiet, TabState, Paths, Answers, Input
    <2> HIDE DEF x
    <2> QED
      BY <1>3, <2>1 DEF CallbackInv, x
  <1> QED
    BY <1>1, <1>2, <1>3 DEF Respond

LEMMA SavedRow ==
  ASSUME Inv, NEW t \in Tabs, Respond(t)
  PROVE  /\ row' \in [Keys -> Session \cup {None}]
         /\ \A k \in Keys : \/ row'[k] \in {row[k], None}
                            \/ /\ k = tab[t].key /\ tab[t].held # None /\ row[k] # None
                               /\ row'[k] = tab[t].held
  BY DEF Respond, SaveSession, Saved, Inv, TypeOK, TabState

\* Saving a copy does not disturb what the other copies and their rows agree on.
LEMMA SavedRowKept ==
  ASSUME Inv, NEW t \in Tabs, Respond(t), NEW k \in Keys,
         row[k] # None, row[k].active = "old"
  PROVE  row'[k] = None \/ row'[k] = row[k]
  <1>1. CASE k = tab[t].key /\ tab[t].held # None /\ row'[k] = tab[t].held
    BY <1>1 DEF Inv, CopyInv
  <1> QED
    BY <1>1, SavedRow

LEMMA RespondInv == ASSUME Inv, NEW t \in Tabs, Respond(t) PROVE Inv'
  <1>1. PICK x \in TabState : /\ x.held = None /\ CallbackInv(x)
                              /\ tab' = [tab EXCEPT ![t] = x]
    BY AfterResponse
  <1>2. /\ tab' \in [Tabs -> TabState] /\ tab'[t] = x
        /\ \A o \in Tabs : o # t => tab'[o] = tab[o]
    BY <1>1 DEF Inv, TypeOK
  <1>3. tab[t] \in TabState /\ owner' = owner /\ everOwned' = everOwned
    BY DEF Respond, Inv, TypeOK
  <1>4. jar' \in [Browsers -> Keys \cup {None}]
    BY <1>3 DEF Respond, SaveSession, Inv, TypeOK, TabState
  <1>5. lastOrg' \in [Browsers -> Profiles \cup {None}]
    <2>1. CurrentProfile(tab[t].held) # None => tab[t].held.profile \in Profiles
      BY <1>3 DEF CurrentProfile, TabState, Session
    <2> QED
      BY <2>1 DEF Respond, SetLastOrg, Inv, TypeOK
  <1>6. TypeOK' /\ OwnersRemembered' /\ \A s : Good(s) => Good(s)'
    BY <1>2, <1>3, <1>4, <1>5, SavedRow DEF Inv, TypeOK, OwnersRemembered, Good
  <1>7. (CallbackInv(tab[t]) /\ CopyInv(tab[t]))'
    BY <1>1, <1>2 DEF CallbackInv, CopyInv
  <1>8. ASSUME NEW o \in Tabs, o # t PROVE (CallbackInv(tab[o]) /\ CopyInv(tab[o]))'
    <2> DEFINE k == tab[o].key
    <2>1. tab'[o] = tab[o] /\ k \in Keys \cup {None} /\ CallbackInv(tab[o]) /\ CopyInv(tab[o])
      BY <1>2, <1>8 DEF Inv, TypeOK, TabState
    <2>2. CASE tab[o].held = None
      BY <2>1, <2>2 DEF CallbackInv, CopyInv
    <2>3. CASE tab[o].held # None
      <3>1. k \in Keys /\ Good(tab[o].held)'
        BY <1>6, <2>1, <2>3 DEF CopyInv
      <3>2. CASE row'[k] \in {row[k], None}
        BY <1>6, <2>1, <2>3, <3>1, <3>2 DEF CallbackInv, CopyInv
      <3>3. CASE /\ k = tab[t].key /\ tab[t].held # None /\ row[k] # None
                 /\ row'[k] = tab[t].held
        <4>1. tab[t].held.active = "old" \/ row[k].active = "old" => row[k] = tab[t].held
          BY <3>3 DEF Inv, CopyInv
        <4>2. tab[o].held.active = "old" \/ row[k].active = "old" => row[k] = tab[o].held
          BY <2>1, <2>3, <3>3 DEF CopyInv
        <4> QED
          BY <2>1, <3>1, <3>3, <4>1, <4>2 DEF CallbackInv, CopyInv
      <3> QED
        BY <3>1, <3>2, <3>3, SavedRow
    <2> QED
      BY <2>2, <2>3
  <1>9. (\A k \in Keys : row[k] # None => Good(row[k]))'
    BY <1>6, SavedRow DEF Inv, CopyInv
  <1> QED
    BY <1>6, <1>7, <1>8, <1>9 DEF Inv

-----------------------------------------------------------------------------
(* Together.                                                               *)

LEMMA StutterInv == ASSUME Inv, UNCHANGED vars PROVE Inv'
  BY DEF Inv, TypeOK, OwnersRemembered, Good, CallbackInv, CopyInv, vars

LEMMA StepInv == ASSUME Inv, [Next]_vars PROVE Inv'
  BY ServeInv, RespondInv, VisitInv, LeaveProviderInv, CloseBrowserInv, EditProfileInv, AgeInv,
     StutterInv DEF Next

LEMMA Invariance == Spec => []Inv
  BY InitInv, StepInv, PTL DEF Spec

\* The sessions, cookies, requests and profiles are what they are declared to be.
THEOREM AccessTypeCorrect == Spec => []TypeOK
  <1>1. Inv => TypeOK
    BY DEF Inv
  <1> QED
    BY <1>1, Invariance, PTL

LEMMA SessionsAreGood == ASSUME Inv PROVE \A s \in Sessions : Good(s)
  BY DEF Sessions, Inv, CopyInv

\* No session, stored or in the hands of a request, ever names a profile that
\* was not its user's at some time: neither a cookie left by somebody else nor
\* the copies of other requests can bring one in (account.py 80-112).
THEOREM ProfilesWereOwned == Spec => []ProfileWasOwned
  <1>1. Inv => ProfileWasOwned
    BY SessionsAreGood DEF ProfileWasOwned, Good
  <1> QED
    BY <1>1, Invariance, PTL

\* No session with a profile belongs to somebody without the second factor who
\* is not staff, so that the role pages need not ask (auth.py 182-194).
THEOREM ProfilesAfterSecondFactor == Spec => []ProfileAfterSecondFactor
  <1>1. Inv => ProfileAfterSecondFactor
    BY SessionsAreGood DEF ProfileAfterSecondFactor, Good
  <1> QED
    BY <1>1, Invariance, PTL

-----------------------------------------------------------------------------
(* Sessions that have been idle for too long.                              *)

\* A request deletes the row of its cookie, adds one under a free key, or
\* leaves the rows alone.
LEMMA ServedRows ==
  ASSUME Inv, NEW t \in Tabs, Serve(t), NEW k \in Keys, Named(k)
  PROVE  row'[k] = None \/ row'[k] = row[k]
  <1>1. ASSUME NEW s, NEW out, NEW viewed, JustAnswer(t, s, out, viewed)
        PROVE  row'[k] = row[k]
    BY <1>1 DEF JustAnswer
  <1>2. ASSUME NEW out, Flush(t, out)
        PROVE  row'[k] = None \/ row'[k] = row[k]
    BY <1>2 DEF Flush, Inv, TypeOK
  <1>3. ASSUME NEW s, NEW u, NEW out, SignedIn(t, s, u, out)
        PROVE  row'[k] = None \/ row'[k] = row[k]
    <2>1. CASE s # None /\ s.user = u
      BY <1>1, <1>3, <2>1 DEF SignedIn
    <2>2. CASE ~ (s # None /\ s.user = u)
      <3>1. FreeKeys # {} /\ FreeKeys \subseteq Nat
        BY <1>3, <2>2, AccessAssumption DEF SignedIn, FreeKeys
      <3>2. k # NewKey
        BY <3>1, LeastIsOne DEF NewKey, FreeKeys
      <3> QED
        BY <1>3, <2>2, <3>2 DEF SignedIn
    <2> QED
      BY <2>1, <2>2
  <1>4. \/ \E s, out, viewed : JustAnswer(t, s, out, viewed)
        \/ \E out : Flush(t, out)
        \/ \E s, u, out : SignedIn(t, s, u, out)
    <2>1. CASE TimeOut(t) \/ Divert(t) \/ Home(t) \/ SessionExpired(t) \/ LogoutView(t)
      BY <2>1 DEF TimeOut, Divert, Home, SessionExpired, LogoutView
    <2>2. CASE StartSignIn(t) \/ Challenge(t) \/ RolePage(t) \/ Callback(t) \/ AdminView(t)
      BY <2>2 DEF StartSignIn, Challenge, RolePage, Callback, AdminView
    <2>3. CASE VerifyToken(t) \/ AccountView(t) \/ ChangeActiveProfile(t)
      BY <2>3 DEF VerifyToken, AccountView, ChangeActiveProfile
    <2> QED
      BY <2>1, <2>2, <2>3 DEF Serve
  <1> QED
    BY <1>1, <1>2, <1>3, <1>4

\* A session that was idle for too long is deleted or left as it is, whatever
\* copies of it are still to be saved, verified or not (session.py 58-87).
THEOREM IdleIsNeverRevived == Spec => IdleStaysIdle
  <1>1. ASSUME Inv, [Next]_vars, NEW k \in Keys, row[k] # None, row[k].active = "old", Named(k)
        PROVE  row'[k] = None \/ row'[k] = row[k]
    <2>1. CASE \E t \in Tabs : Serve(t)
      BY <1>1, <2>1, ServedRows
    <2>2. CASE \E t \in Tabs : Respond(t)
      BY <1>1, <2>2, SavedRowKept
    <2>3. CASE \E t \in Tabs : Visit(t) \/ LeaveProvider(t)
      BY <2>3 DEF Visit, LeaveProvider
    <2>4. CASE \E b \in Browsers : CloseBrowser(b)
      BY <1>1, <2>4 DEF CloseBrowser, Inv, TypeOK
    <2>5. CASE \E e \in Edits : EditProfile(e[1], e[2])
      BY <2>5 DEF EditProfile
    <2>6. CASE \E o \in Keys : Age(o)
      BY <1>1, <2>6 DEF Age, Inv, TypeOK
    <2>7. CASE UNCHANGED vars
      BY <2>7 DEF vars
    <2> QED
      BY <1>1, <2>1, <2>2, <2>3, <2>4, <2>5, <2>6, <2>7 DEF Next
  <1>2. Inv /\ [Next]_vars =>
          [\A k \in Keys : row[k] # None /\ row[k].active = "old" /\ Named(k) =>
             row'[k] = None \/ row'[k] = row[k]]_vars
    BY <1>1
  <1> QED
    BY <1>2, Invariance, PTL DEF Spec, IdleStaysIdle

=============================================================================

--------------------------- MODULE DirectoryProofs ---------------------------
(***************************************************************************)
(* What Directory promises for every file, every set of people and         *)
(* organisations, and every bound.                                         *)
(***************************************************************************)
EXTENDS Directory, FiniteSetTheorems, SequenceTheorems, WellFoundedInduction, TLAPS

-----------------------------------------------------------------------------
(* The inductive invariant of the tables.                                  *)

Imports ==
  [at      : {"idle", "organisation", "account", "profile", "parent", "done", "failed"},
   row     : Nat,
   col     : Nat,
   org     : OrgNames \cup {None},
   account : Nat]

\* Wherever the import is, it is about something that exists.
ImportInv ==
  /\ imp \in Imports
  /\ imp.at \in {"organisation", "account", "profile", "parent"} => imp.row \in DOMAIN Rows
  /\ imp.at \in {"account", "profile"} => imp.col # 0 /\ imp.org \in DOMAIN orgs
  /\ imp.at = "profile" => imp.col \in DOMAIN Rows[imp.row].emails
  /\ imp.at = "profile" => imp.account \in DOMAIN accounts

AccountsInv == accounts \in Seq(Accounts) /\ Len(accounts) <= MaxAccounts

\* The ids that were not used yet are free, and a profile has its account.
ProfilesInv ==
  /\ profiles \in [1..MaxProfiles -> Profiles \cup {None}]
  /\ made \in 0..MaxProfiles
  /\ \A p \in 1..MaxProfiles : p > made => profiles[p] = None
  /\ \A p \in ProfileIds : profiles[p].account \in DOMAIN accounts

OrgsInv ==
  /\ DOMAIN orgs \subseteq OrgNames
  /\ orgs \in [DOMAIN orgs -> Organisations]

\* A form under way is sent by and about ids that have been used, and it has an
\* instance only once it has read it.
RequestInv(r) ==
  /\ r.at \in {"posted", "sender", "checked"} =>
       /\ r.actor \in 1..made
       /\ r.op \in {"edit", "remove"} => r.target \in 1..made
       /\ r.op \in {"system", "rename"} => r.name \in SystemNames
       /\ r.op = "rename" => r.target \in DOMAIN systems
  /\ r.found => r.at = "checked" /\ r.op \in {"edit", "remove"}
  /\ r.at = "checked" /\ r.op = "remove" => r.found

RestInv ==
  /\ systems \in Seq(Systems)
  /\ imports \in 0..MaxImports
  /\ quiet \in BOOLEAN
  /\ form \in [Forms -> Requests]
  /\ \A f \in Forms : RequestInv(form[f])

TInv == AccountsInv /\ ProfilesInv /\ OrgsInv /\ ImportInv /\ RestInv

-----------------------------------------------------------------------------
(* The file.                                                               *)

LEMMA RowFields ==
  ASSUME NEW i \in DOMAIN Rows
  PROVE  /\ i \in Nat /\ 1 <= i /\ i <= Len(Rows)
         /\ Rows[i].name \in OrgNames
         /\ Rows[i].ref \in OrgNames \cup {None}
         /\ Rows[i].lead \in OrgNames \cup {None}
         /\ \E n \in 0..2 : Rows[i].emails \in [1..n -> Emails]
  <1>1. Rows \in Seq(CsvRows)
    BY DirectoryAssumption
  <1>2. DOMAIN Rows = 1..Len(Rows) /\ Len(Rows) \in Nat
    BY <1>1, LenProperties
  <1>3. Rows[i] \in CsvRows
    BY <1>1, <1>2, ElementOfSeq
  <1> QED
    BY <1>2, <1>3 DEF CsvRows

LEMMA RowNumbers ==
  /\ Len(Rows) \in Nat
  /\ DOMAIN Rows = 1..Len(Rows)
  /\ Rows # <<>> => 1 \in DOMAIN Rows
  <1>1. Rows \in Seq(CsvRows)
    BY DirectoryAssumption
  <1> QED
    BY <1>1, LenProperties, EmptySeq

\* The organisation of a row, if there is one, is one there is.
LEMMA FoundOrganisation ==
  ASSUME OrgsInv, NEW i \in DOMAIN Rows
  PROVE  FindOrganisation(Rows[i]) # None => FindOrganisation(Rows[i]) \in DOMAIN orgs
  BY DEF FindOrganisation

-----------------------------------------------------------------------------
(* Accounts: whatever happens, at most one is added or takes its address   *)
(* as its user name.                                                       *)

\* An address somebody may have written, or its lower case form.
Spelt(e) == e \in Emails /\ (Plain(e.who) => e.caps = "lower")

Adds(e) ==
  /\ ~ UsernameTaken(e)
  /\ Len(accounts) < MaxAccounts
  /\ accounts' = Append(accounts, NewAccount(e, Normalised(e)))

Renames(a) ==
  /\ accounts[a].email.caps = "lower"
  /\ accounts' = [accounts EXCEPT ![a].username = accounts[a].email]

AccountsStep ==
  \/ UNCHANGED accounts
  \/ \E e \in Emails : Spelt(e) /\ Adds(e)
  \/ \E a \in DOMAIN accounts : Renames(a)

LEMMA AccountFacts ==
  ASSUME AccountsInv
  PROVE  /\ DOMAIN accounts = 1..Len(accounts)
         /\ Len(accounts) \in Nat
         /\ \A a \in DOMAIN accounts : accounts[a] \in Accounts
  BY LenProperties, ElementOfSeq DEF AccountsInv

LEMMA EmailForms ==
  ASSUME NEW e \in Emails
  PROVE  /\ Lowered(e) \in Emails /\ Lowered(e).who = e.who /\ Lowered(e).caps = "lower"
         /\ Normalised(e) \in Emails /\ Normalised(e).who = e.who
         /\ e.caps = "lower" => Lowered(e) = e /\ Normalised(e) = e
  BY DEF Emails, Spellings, Lowered, Normalised

LEMMA NewAccountType ==
  ASSUME NEW e \in Emails, NEW m \in Emails
  PROVE  /\ NewAccount(e, m) \in Accounts
         /\ NewAccount(e, m).username = e
         /\ NewAccount(e, m).email = m
         /\ NewAccount(e, m).staff = FALSE
  BY DEF NewAccount, Accounts

LEMMA AddedAccount ==
  ASSUME AccountsInv, NEW e \in Emails, Adds(e)
  PROVE  /\ AccountsInv'
         /\ DOMAIN accounts' = 1..Len(accounts) + 1
         /\ Len(accounts') = Len(accounts) + 1
         /\ \A a \in DOMAIN accounts : accounts'[a] = accounts[a]
         /\ accounts'[Len(accounts) + 1] = NewAccount(e, Normalised(e))
  <1> DEFINE new == NewAccount(e, Normalised(e))
  <1>1. new \in Accounts
    BY EmailForms, NewAccountType
  <1>2. accounts' = Append(accounts, new) /\ Len(accounts) < MaxAccounts
    BY DEF Adds
  <1>3. DOMAIN accounts = 1..Len(accounts) /\ Len(accounts) \in Nat
    BY AccountFacts
  <1> HIDE DEF new
  <1>4. /\ Append(accounts, new) \in Seq(Accounts)
        /\ Len(Append(accounts, new)) = Len(accounts) + 1
        /\ \A a \in 1..Len(accounts) : Append(accounts, new)[a] = accounts[a]
        /\ Append(accounts, new)[Len(accounts) + 1] = new
    BY <1>1, AppendProperties DEF AccountsInv
  <1>5. DOMAIN accounts' = 1..Len(accounts')
    BY <1>2, <1>4, LenProperties
  <1>6. Len(accounts') <= MaxAccounts
    BY <1>2, <1>3, <1>4, DirectoryAssumption
  <1> QED
    BY <1>2, <1>3, <1>4, <1>5, <1>6 DEF AccountsInv, new

LEMMA RenamedAccount ==
  ASSUME AccountsInv, NEW a \in DOMAIN accounts, Renames(a)
  PROVE  /\ AccountsInv'
         /\ DOMAIN accounts' = DOMAIN accounts
         /\ \A b \in DOMAIN accounts :
              accounts'[b] = IF b = a THEN [username |-> accounts[a].email,
                                            email |-> accounts[a].email,
                                            staff |-> accounts[a].staff]
                             ELSE accounts[b]
  <1> DEFINE new == [username |-> accounts[a].email, email |-> accounts[a].email,
                     staff |-> accounts[a].staff]
  <1>1. accounts[a] \in Accounts /\ DOMAIN accounts = 1..Len(accounts)
    BY AccountFacts
  <1>2. new \in Accounts
    BY <1>1 DEF Accounts
  <1>3. [accounts[a] EXCEPT !.username = accounts[a].email] = new
    BY <1>1 DEF Accounts
  <1>4. accounts' = [accounts EXCEPT ![a] = new]
    BY <1>3 DEF Renames
  <1> HIDE DEF new
  <1>5. /\ accounts' \in Seq(Accounts) /\ Len(accounts') = Len(accounts)
        /\ \A b \in 1..Len(accounts) : accounts'[b] = IF b = a THEN new ELSE accounts[b]
    BY <1>1, <1>2, <1>4, ExceptSeq DEF AccountsInv
  <1>6. DOMAIN accounts' = 1..Len(accounts')
    BY <1>5, LenProperties
  <1> QED
    BY <1>1, <1>5, <1>6 DEF AccountsInv, new

\* No step makes the table of accounts anything else, or takes one away.
LEMMA AccountsKept ==
  ASSUME AccountsInv, AccountsStep
  PROVE  AccountsInv' /\ DOMAIN accounts \subseteq DOMAIN accounts'
  <1>1. CASE UNCHANGED accounts
    BY <1>1 DEF AccountsInv
  <1>2. CASE \E e \in Emails : Spelt(e) /\ Adds(e)
    BY <1>2, AddedAccount, AccountFacts
  <1>3. CASE \E a \in DOMAIN accounts : Renames(a)
    BY <1>3, RenamedAccount
  <1> QED
    BY <1>1, <1>2, <1>3 DEF AccountsStep

\* What the save of a user form does to the accounts.
LEMMA SavedAccount ==
  ASSUME AccountsInv, NEW email \in Typed, NEW saved, AccountFor(email, saved)
  PROVE  AccountsStep /\ saved \in DOMAIN accounts'
  <1> DEFINE e == Lowered(email)
  <1>1. /\ email \in Emails /\ e \in Emails /\ e.caps = "lower"
        /\ Normalised(e) = e
    BY DirectoryAssumption, EmailForms
  <1>2. Spelt(e)
    BY <1>1 DEF Spelt
  <1> HIDE DEF e
  <1>3. CASE /\ ~ UsernameTaken(e) /\ Len(accounts) < MaxAccounts
             /\ accounts' = Append(accounts, NewAccount(e, e))
             /\ saved = Len(accounts')
    <2>1. Adds(e)
      BY <1>1, <1>3 DEF Adds
    <2>2. saved \in DOMAIN accounts'
      BY <1>1, <1>3, <2>1, AddedAccount, AccountFacts
    <2> QED
      BY <1>1, <1>2, <2>1, <2>2 DEF AccountsStep
  <1>4. CASE /\ saved \in FormAccounts(e)
             /\ accounts' = [accounts EXCEPT ![saved].username = e]
    <2>1. saved \in DOMAIN accounts /\ accounts[saved].email = e
      BY <1>4 DEF FormAccounts
    <2>2. Renames(saved)
      BY <1>1, <1>4, <2>1 DEF Renames
    <2>3. DOMAIN accounts' = DOMAIN accounts
      BY <2>1, <2>2, RenamedAccount
    <2> QED
      BY <2>1, <2>2, <2>3 DEF AccountsStep
  <1> QED
    BY <1>3, <1>4 DEF AccountFor, e

LEMMA SpeltTyped == \A e \in Typed : Spelt(e)
  BY DirectoryAssumption DEF Spelt, Plain

LEMMA SpeltRow ==
  ASSUME NEW i \in DOMAIN Rows, NEW c \in DOMAIN Rows[i].emails
  PROVE  Spelt(Rows[i].emails[c])
  <1>1. Rows[i].emails[c] \in Emails
    BY RowFields
  <1> QED
    BY <1>1 DEF Spelt, Plain

Less == {pair \in Nat \X Nat : pair[1] < pair[2]}

\* The first of several ids is one of them.
LEMMA FirstIsOne ==
  ASSUME NEW ids, ids \subseteq Nat, ids # {}
  PROVE  FirstOf(ids) \in ids
  <1>1. \A m, n \in Nat : m < n => <<m, n>> \in Less
    BY DEF Less
  <1>2. IsWellFoundedOn(Less, Nat)
    BY NatLessThanWellFounded, Zenon DEF Less, OpToRel
  <1>3. PICK n \in ids : \A m \in ids : <<m, n>> \notin Less
    BY <1>2, WFMin, Zenon
  <1>4. ASSUME NEW m \in ids PROVE n <= m
    <2>1. m \in Nat /\ n \in Nat
      OBVIOUS
    <2>2. ~ (m < n)
      BY <1>1, <1>3, <2>1
    <2> QED
      BY <2>1, <2>2
  <1> QED
    BY <1>4 DEF FirstOf

-----------------------------------------------------------------------------
(* Profiles: whatever happens, at most one is made, changed or removed.    *)

Makes(new) ==
  /\ made < MaxProfiles
  /\ made' = made + 1
  /\ profiles' = [profiles EXCEPT ![made'] = new]

Puts(p, new) == made' = made /\ profiles' = [profiles EXCEPT ![p] = new]

\* The step saves a form that has read the profile it is about.
Saves(f) ==
  /\ form[f].at = "checked" /\ form[f].found
  /\ form'[f].at = "done"

\* Only the import makes advisors, and only where there is none.
MakesOne ==
  \E new \in Profiles :
    /\ Makes(new)
    /\ new.account \in DOMAIN accounts'
    /\ new.role = "cyber_advisor" => AdvisorProfiles(new.account, new.org) = {}

ChangesOne ==
  \E f \in Forms, new \in Profiles :
    /\ Saves(f)
    /\ Puts(form[f].target, new)
    /\ new.account \in DOMAIN accounts'
    /\ new.org = form[f].org
    /\ new.role # "cyber_advisor"

RemovesOne == \E f \in Forms : Saves(f) /\ Puts(form[f].target, None)

ProfilesStep == UNCHANGED <<profiles, made>> \/ MakesOne \/ ChangesOne \/ RemovesOne

LEMMA ProfileFacts ==
  ASSUME ProfilesInv, NEW p \in ProfileIds
  PROVE  /\ p \in 1..MaxProfiles /\ profiles[p] \in Profiles
         /\ profiles[p].account \in 1..MaxAccounts
         /\ profiles[p].org \in OrgNames \cup {None}
         /\ profiles[p].account \in DOMAIN accounts
         /\ p <= made
  BY DEF ProfilesInv, ProfileIds, Profiles

LEMMA MadeProfile ==
  ASSUME ProfilesInv, NEW new \in Profiles, Makes(new)
  PROVE  /\ profiles' \in [1..MaxProfiles -> Profiles \cup {None}]
         /\ made' \in 0..MaxProfiles /\ made' \in 1..MaxProfiles
         /\ made' \notin ProfileIds
         /\ \A q \in 1..MaxProfiles : profiles'[q] = IF q = made' THEN new ELSE profiles[q]
         /\ ProfileIds' = ProfileIds \cup {made'}
  <1>1. made' \in 1..MaxProfiles /\ profiles[made'] = None
    BY DirectoryAssumption DEF ProfilesInv, Makes
  <1>2. new # None
    BY RecordAssumption
  <1> QED
    BY <1>1, <1>2 DEF ProfilesInv, Makes, ProfileIds

LEMMA PutProfile ==
  ASSUME ProfilesInv, NEW p \in 1..made, NEW new \in Profiles \cup {None}, Puts(p, new)
  PROVE  /\ profiles' \in [1..MaxProfiles -> Profiles \cup {None}]
         /\ p \in 1..MaxProfiles
         /\ \A q \in 1..MaxProfiles : profiles'[q] = IF q = p THEN new ELSE profiles[q]
         /\ ProfileIds' \subseteq ProfileIds \cup {p}
         /\ new = None => p \notin ProfileIds'
  <1>1. p \in 1..MaxProfiles
    BY DirectoryAssumption DEF ProfilesInv
  <1> QED
    BY <1>1 DEF ProfilesInv, Puts, ProfileIds

\* The profile that a form which has read it is about.
LEMMA SavedTarget ==
  ASSUME TInv, NEW f \in Forms, form[f].found
  PROVE  /\ form[f].target \in 1..made /\ form[f].actor \in 1..made
         /\ form[f].op \in {"edit", "remove"} /\ form[f].at = "checked"
         /\ form[f].org \in OrgNames \cup {None}
  BY DEF TInv, RestInv, RequestInv, Requests

\* What a save does to the profile it is about.
LEMMA ChangedOne ==
  ASSUME TInv, ChangesOne \/ RemovesOne
  PROVE  \E f \in Forms, p \in 1..made, new \in Profiles \cup {None} :
           /\ Saves(f) /\ p = form[f].target /\ Puts(p, new)
           /\ new # None => /\ new.account \in DOMAIN accounts'
                            /\ new.org = form[f].org /\ new.role # "cyber_advisor"
  <1>1. CASE ChangesOne
    BY <1>1, SavedTarget DEF ChangesOne, Saves
  <1>2. CASE RemovesOne
    BY <1>2, SavedTarget DEF RemovesOne, Saves
  <1> QED
    BY <1>1, <1>2

LEMMA MadeGrows ==
  ASSUME ProfilesInv, ProfilesStep
  PROVE  made \in Nat /\ made' \in Nat /\ made <= made'
  BY DEF ProfilesInv, ProfilesStep, MakesOne, Makes, ChangesOne, RemovesOne, Puts

LEMMA ProfilesKept ==
  ASSUME TInv, ProfilesStep, DOMAIN accounts \subseteq DOMAIN accounts'
  PROVE  ProfilesInv'
  <1>0. ProfilesInv
    BY DEF TInv
  <1>1. CASE UNCHANGED <<profiles, made>>
    BY <1>0, <1>1 DEF ProfilesInv, ProfileIds
  <1>2. CASE MakesOne
    <2>1. PICK new \in Profiles : Makes(new) /\ new.account \in DOMAIN accounts'
      BY <1>2 DEF MakesOne
    <2>2. /\ profiles' \in [1..MaxProfiles -> Profiles \cup {None}]
          /\ made' \in 0..MaxProfiles
          /\ \A q \in 1..MaxProfiles : profiles'[q] = IF q = made' THEN new ELSE profiles[q]
          /\ ProfileIds' = ProfileIds \cup {made'}
      BY <1>0, <2>1, MadeProfile
    <2>3. \A q \in 1..MaxProfiles : q > made' => profiles'[q] = None
      BY <1>0, <2>1, <2>2, DirectoryAssumption DEF ProfilesInv, Makes
    <2>4. \A q \in ProfileIds' : profiles'[q].account \in DOMAIN accounts'
      BY <1>0, <2>1, <2>2 DEF ProfilesInv, ProfileIds
    <2> QED
      BY <2>2, <2>3, <2>4 DEF ProfilesInv
  <1>3. CASE ChangesOne \/ RemovesOne
    <2>1. PICK p \in 1..made, new \in Profiles \cup {None} :
            Puts(p, new) /\ (new # None => new.account \in DOMAIN accounts')
      BY <1>3, ChangedOne
    <2>2. /\ profiles' \in [1..MaxProfiles -> Profiles \cup {None}]
          /\ \A q \in 1..MaxProfiles : profiles'[q] = IF q = p THEN new ELSE profiles[q]
      BY <1>0, <2>1, PutProfile
    <2>3. made' = made /\ p <= made /\ made \in 0..MaxProfiles
      BY <1>0, <2>1 DEF Puts, ProfilesInv
    <2>4. \A q \in 1..MaxProfiles : q > made' => profiles'[q] = None
      BY <1>0, <2>2, <2>3, DirectoryAssumption DEF ProfilesInv
    <2>5. \A q \in ProfileIds' : profiles'[q].account \in DOMAIN accounts'
      BY <1>0, <2>1, <2>2 DEF ProfilesInv, ProfileIds
    <2> QED
      BY <2>2, <2>3, <2>4, <2>5 DEF ProfilesInv
  <1> QED
    BY <1>1, <1>2, <1>3 DEF ProfilesStep

LEMMA SaveEditProfiles ==
  ASSUME TInv, NEW f \in Forms, NEW email \in Typed, NEW role \in FormRoles,
         SaveEdit(f, email, role), form'[f].at = "done"
  PROVE  AccountsStep /\ ProfilesStep
  <1> DEFINE r == form[f]
  <1>1. PICK a \in 1..MaxAccounts :
          /\ AccountFor(email, a)
          /\ \/ r.found /\ Puts(r.target, [account |-> a, org |-> r.org, role |-> role])
             \/ Makes([account |-> a, org |-> None, role |-> role])
    BY DEF SaveEdit, Makes, Puts
  <1>2. AccountsStep /\ a \in DOMAIN accounts'
    BY <1>1, SavedAccount DEF TInv
  <1>3. role \in Roles /\ role # "cyber_advisor"
    BY DirectoryAssumption
  <1>4. CASE Makes([account |-> a, org |-> None, role |-> role])
    <2> DEFINE new == [account |-> a, org |-> None, role |-> role]
    <2>1. new \in Profiles /\ new.account = a /\ new.role # "cyber_advisor"
      BY <1>3 DEF Profiles
    <2> HIDE DEF new
    <2> QED
      BY <1>2, <1>4, <2>1 DEF ProfilesStep, MakesOne, new
  <1>5. CASE r.found /\ Puts(r.target, [account |-> a, org |-> r.org, role |-> role])
    <2> DEFINE new == [account |-> a, org |-> r.org, role |-> role]
    <2>1. r.org \in OrgNames \cup {None} /\ Saves(f)
      BY <1>5, SavedTarget DEF Saves
    <2>2. new \in Profiles /\ new.account = a /\ new.org = r.org /\ new.role # "cyber_advisor"
      BY <1>3, <2>1 DEF Profiles
    <2>3. Puts(r.target, new)
      BY <1>5
    <2> HIDE DEF new
    <2> QED
      BY <1>2, <2>1, <2>2, <2>3 DEF ProfilesStep, ChangesOne
  <1> QED
    BY <1>1, <1>2, <1>4, <1>5

LEMMA SaveCreateProfiles ==
  ASSUME TInv, NEW f \in Forms, NEW email \in Typed, NEW role \in FormRoles,
         SaveCreate(f, email, role)
  PROVE  AccountsStep /\ ProfilesStep
  <1> DEFINE org == form[f].org
  <1>1. PICK a \in 1..MaxAccounts :
          AccountFor(email, a) /\ Makes([account |-> a, org |-> org, role |-> role])
    BY DEF SaveCreate, Makes
  <1> DEFINE new == [account |-> a, org |-> org, role |-> role]
  <1>2. AccountsStep /\ a \in DOMAIN accounts'
    BY <1>1, SavedAccount DEF TInv
  <1>3. role \in Roles /\ role # "cyber_advisor"
    BY DirectoryAssumption
  <1>4. org \in OrgNames \cup {None}
    BY DEF TInv, RestInv, Requests
  <1>5. new \in Profiles /\ new.account = a /\ new.role # "cyber_advisor"
    BY <1>3, <1>4 DEF Profiles
  <1> HIDE DEF new
  <1> QED
    BY <1>1, <1>2, <1>5 DEF ProfilesStep, MakesOne, new

LEMMA SaveRemoveProfiles ==
  ASSUME TInv, NEW f \in Forms, SaveRemove(f), form'[f].at = "done"
  PROVE  AccountsStep /\ ProfilesStep
  <1>1. form[f].found
    BY DEF SaveRemove, TInv, RestInv, RequestInv
  <1> QED
    BY <1>1 DEF SaveRemove, AccountsStep, ProfilesStep, RemovesOne, Saves, Puts

LEMMA ImportProfileProfiles ==
  ASSUME TInv, ImportProfile
  PROVE  AccountsStep /\ ProfilesStep
  <1> DEFINE new == [account |-> imp.account, org |-> imp.org, role |-> "cyber_advisor"]
  <1>1. imp.account \in DOMAIN accounts /\ imp.org \in OrgNames
    BY DEF ImportProfile, TInv, ImportInv, OrgsInv
  <1>2. imp.account \in 1..MaxAccounts
    BY <1>1, AccountFacts, DirectoryAssumption DEF TInv, AccountsInv
  <1>3. new \in Profiles
    BY <1>1, <1>2 DEF Profiles, Roles
  <1>4. UNCHANGED accounts
    BY DEF ImportProfile
  <1>5. \/ UNCHANGED <<profiles, made>>
        \/ AdvisorProfiles(imp.account, imp.org) = {} /\ Makes(new)
    BY DEF ImportProfile, Makes
  <1>6. new.account = imp.account /\ new.org = imp.org
    OBVIOUS
  <1> HIDE DEF new
  <1> QED
    BY <1>1, <1>3, <1>4, <1>5, <1>6 DEF AccountsStep, ProfilesStep, MakesOne

-----------------------------------------------------------------------------
(* The import: it goes from row to row, and organisations stay.            *)

OrgsKept == OrgsInv' /\ DOMAIN orgs \subseteq DOMAIN orgs'

LEMMA SameImport ==
  ASSUME ImportInv, imp' = imp, DOMAIN accounts \subseteq DOMAIN accounts',
         DOMAIN orgs \subseteq DOMAIN orgs'
  PROVE  ImportInv'
  BY DEF ImportInv

LEMMA SameOrgs == ASSUME OrgsInv, UNCHANGED orgs PROVE OrgsKept
  BY DEF OrgsInv, OrgsKept

\* The states the import is put in, field by field.
LEMMA IdleFields == Idle \in Imports /\ Idle.at = "idle"
  BY DEF Idle, Imports

LEMMA IdleImport ==
  ASSUME NEW at \in {"done", "failed"}
  PROVE  /\ [Idle EXCEPT !.at = at] \in Imports
         /\ [Idle EXCEPT !.at = at].at = at
  BY DEF Idle, Imports

LEMMA RowImport ==
  ASSUME NEW at \in {"organisation", "parent"}, NEW row \in Nat
  PROVE  /\ [Idle EXCEPT !.at = at, !.row = row] \in Imports
         /\ [Idle EXCEPT !.at = at, !.row = row].at = at
         /\ [Idle EXCEPT !.at = at, !.row = row].row = row
  BY DEF Idle, Imports

LEMMA AccountImport ==
  ASSUME NEW old \in Imports, NEW org \in OrgNames
  PROVE  /\ [old EXCEPT !.at = "account", !.col = 1, !.org = org] \in Imports
         /\ [old EXCEPT !.at = "account", !.col = 1, !.org = org].at = "account"
         /\ [old EXCEPT !.at = "account", !.col = 1, !.org = org].row = old.row
         /\ [old EXCEPT !.at = "account", !.col = 1, !.org = org].col = 1
         /\ [old EXCEPT !.at = "account", !.col = 1, !.org = org].org = org
  BY DEF Imports

LEMMA NextColumn ==
  ASSUME NEW old \in Imports
  PROVE  /\ [old EXCEPT !.at = "account", !.col = @ + 1, !.account = 0] \in Imports
         /\ [old EXCEPT !.at = "account", !.col = @ + 1, !.account = 0].at = "account"
         /\ [old EXCEPT !.at = "account", !.col = @ + 1, !.account = 0].row = old.row
         /\ [old EXCEPT !.at = "account", !.col = @ + 1, !.account = 0].col = old.col + 1
         /\ [old EXCEPT !.at = "account", !.col = @ + 1, !.account = 0].org = old.org
         /\ old.col \in Nat
  <1> DEFINE there == [old EXCEPT !.at = "account"]
             next  == [there EXCEPT !.col = @ + 1]
  <1>1. there \in Imports /\ there.at = "account" /\ there.row = old.row
        /\ there.col = old.col /\ there.org = old.org /\ old.col \in Nat
    BY DEF Imports
  <1> HIDE DEF there
  <1>2. next \in Imports /\ next.at = "account" /\ next.row = old.row
        /\ next.col = old.col + 1 /\ next.org = old.org
    BY <1>1 DEF Imports
  <1> HIDE DEF next
  <1>3. /\ [next EXCEPT !.account = 0] \in Imports
        /\ [next EXCEPT !.account = 0].at = "account"
        /\ [next EXCEPT !.account = 0].row = old.row
        /\ [next EXCEPT !.account = 0].col = old.col + 1
        /\ [next EXCEPT !.account = 0].org = old.org
    BY <1>2 DEF Imports
  <1> QED
    BY <1>1, <1>3 DEF next, there

LEMMA BeginImportInv ==
  ASSUME TInv, BeginImport
  PROVE  ImportInv' /\ imports' \in 0..MaxImports /\ quiet' \in BOOLEAN
  <1>1. CASE Rows = <<>>
    <2>1. imp' \in Imports /\ imp'.at = "done"
      BY <1>1, IdleImport DEF BeginImport
    <2> QED
      BY <2>1, DirectoryAssumption DEF BeginImport, ImportInv, TInv, RestInv
  <1>2. CASE Rows # <<>>
    <2>1. imp' \in Imports /\ imp'.at = "organisation" /\ imp'.row \in DOMAIN Rows
      <3>1. imp' = [Idle EXCEPT !.at = "organisation", !.row = 1]
        BY <1>2 DEF BeginImport
      <3> QED
        BY <1>2, <3>1, RowImport, RowNumbers
    <2> QED
      BY <2>1, DirectoryAssumption DEF BeginImport, ImportInv, TInv, RestInv
  <1> QED
    BY <1>1, <1>2

LEMMA ImportOrganisationInv == ASSUME TInv, ImportOrganisation PROVE ImportInv' /\ OrgsKept
  <1> DEFINE found == FindOrganisation(Rows[imp.row])
             name  == IF found = None THEN Rows[imp.row].name ELSE found
  <1>1. imp.row \in DOMAIN Rows /\ imp \in Imports
    BY DEF ImportOrganisation, TInv, ImportInv
  <1>2. name \in OrgNames /\ (found # None => found \in DOMAIN orgs)
    BY <1>1, RowFields, FoundOrganisation DEF TInv, OrgsInv
  <1>3. /\ imp' = [imp EXCEPT !.at = "account", !.col = 1, !.org = name]
        /\ orgs' = IF found = None
                   THEN [o \in DOMAIN orgs \cup {name} |->
                           IF o = name THEN [parent |-> None] ELSE orgs[o]]
                   ELSE orgs
    BY DEF ImportOrganisation
  <1> HIDE DEF name, found
  <1>4. [parent |-> None] \in Organisations
    BY DEF Organisations
  <1>50. name \in DOMAIN orgs' => ImportInv'
    <2>1. /\ imp' \in Imports /\ imp'.at = "account" /\ imp'.row = imp.row
          /\ imp'.col = 1 /\ imp'.org = name
      BY <1>1, <1>2, <1>3, AccountImport
    <2> QED
      BY <1>1, <2>1 DEF ImportInv
  <1>5. CASE found = None
    <2>1. orgs' = [o \in DOMAIN orgs \cup {name} |->
                     IF o = name THEN [parent |-> None] ELSE orgs[o]]
      BY <1>3, <1>5
    <2>2. /\ DOMAIN orgs' = DOMAIN orgs \cup {name}
          /\ orgs' \in [DOMAIN orgs' -> Organisations]
      BY <2>1, <1>4 DEF TInv, OrgsInv
    <2> QED
      BY <1>2, <1>50, <2>2 DEF OrgsKept, OrgsInv, TInv
  <1>6. CASE found # None
    <2>1. orgs' = orgs /\ name \in DOMAIN orgs
      BY <1>2, <1>3, <1>6 DEF name
    <2> QED
      BY <1>50, <2>1, SameOrgs DEF TInv
  <1> QED
    BY <1>5, <1>6

\* The account the import goes on with has the address of the row.
LEMMA ImportedAccount ==
  ASSUME TInv, ImportAccount
  PROVE  /\ AccountsStep
         /\ imp'.at # "failed" =>
              /\ imp' = [imp EXCEPT !.at = "profile", !.account = imp'.account]
              /\ imp'.account \in DOMAIN accounts'
              /\ accounts'[imp'.account].email.who = Rows[imp.row].emails[imp.col].who
         /\ imp'.at = "failed" => imp' = [imp EXCEPT !.at = "failed"]
         /\ imp'.at \in {"profile", "failed"}
  <1> DEFINE e == Rows[imp.row].emails[imp.col]
             found == ImportAccounts(e)
  <1>1. imp.row \in DOMAIN Rows /\ imp.col \in DOMAIN Rows[imp.row].emails /\ imp \in Imports
    BY DEF ImportAccount, TInv, ImportInv
  <1>2. Spelt(e) /\ e \in Emails
    BY <1>1, SpeltRow DEF Spelt
  <1>3. AccountsInv
    BY DEF TInv
  <1>4. \/ /\ found # {}
           /\ imp' = [imp EXCEPT !.at = "profile", !.account = FirstOf(found)]
           /\ UNCHANGED accounts
        \/ /\ Adds(e)
           /\ imp' = [imp EXCEPT !.at = "profile", !.account = Len(accounts')]
        \/ /\ imp' = [imp EXCEPT !.at = "failed"]
           /\ UNCHANGED accounts
    BY DEF ImportAccount, Adds
  <1> HIDE DEF e
  <1>5. CASE /\ found # {}
             /\ imp' = [imp EXCEPT !.at = "profile", !.account = FirstOf(found)]
             /\ UNCHANGED accounts
    <2>1. found \subseteq Nat
      BY <1>3, AccountFacts DEF ImportAccounts
    <2>2. FirstOf(found) \in found
      BY <1>5, <2>1, FirstIsOne
    <2>3. FirstOf(found) \in DOMAIN accounts /\ accounts[FirstOf(found)].email = e
      BY <2>2 DEF ImportAccounts
    <2> HIDE DEF found
    <2>4. imp'.account = FirstOf(found) /\ imp'.at = "profile"
      BY <1>1, <1>5 DEF Imports
    <2> QED
      BY <1>5, <2>3, <2>4 DEF AccountsStep, e
  <1>6. CASE /\ Adds(e)
             /\ imp' = [imp EXCEPT !.at = "profile", !.account = Len(accounts')]
    <2>1. imp'.account = Len(accounts') /\ imp'.at = "profile"
      BY <1>1, <1>6 DEF Imports
    <2>2. /\ DOMAIN accounts' = 1..Len(accounts) + 1
          /\ Len(accounts') = Len(accounts) + 1
          /\ accounts'[Len(accounts) + 1] = NewAccount(e, Normalised(e))
          /\ Len(accounts) \in Nat
      BY <1>2, <1>3, <1>6, AddedAccount, AccountFacts
    <2>3. NewAccount(e, Normalised(e)).email.who = e.who
      BY <1>2, EmailForms, NewAccountType
    <2> QED
      BY <1>2, <1>6, <2>1, <2>2, <2>3 DEF AccountsStep, e
  <1>7. CASE /\ imp' = [imp EXCEPT !.at = "failed"]
             /\ UNCHANGED accounts
    BY <1>1, <1>7 DEF Imports, AccountsStep
  <1> QED
    BY <1>4, <1>5, <1>6, <1>7

LEMMA ImportAccountInv == ASSUME TInv, ImportAccount PROVE AccountsStep /\ ImportInv'
  <1>1. /\ imp.row \in DOMAIN Rows /\ imp.col \in DOMAIN Rows[imp.row].emails
        /\ imp \in Imports /\ imp.org \in DOMAIN orgs /\ imp.col # 0 /\ orgs' = orgs
    BY DEF ImportAccount, TInv, ImportInv
  <1>2. AccountsStep /\ imp'.at \in {"profile", "failed"}
    BY ImportedAccount
  <1>3. CASE imp'.at = "failed"
    <2>1. imp' \in Imports
      BY <1>1, <1>3, ImportedAccount DEF Imports
    <2> QED
      BY <1>2, <1>3, <2>1 DEF ImportInv
  <1>4. CASE imp'.at = "profile"
    <2> DEFINE a == imp'.account
    <2>1. a \in DOMAIN accounts' /\ imp' = [imp EXCEPT !.at = "profile", !.account = a]
      BY <1>4, ImportedAccount
    <2>2. a \in Nat
      <3>1. AccountsInv'
        BY <1>2, AccountsKept DEF TInv
      <3>2. DOMAIN accounts' = 1..Len(accounts')
        BY <3>1, LenProperties DEF AccountsInv
      <3> QED
        BY <2>1, <3>2
    <2> HIDE DEF a
    <2>3. /\ imp' \in Imports /\ imp'.at = "profile" /\ imp'.account = a
          /\ imp'.row = imp.row /\ imp'.col = imp.col /\ imp'.org = imp.org
      BY <1>1, <2>1, <2>2 DEF Imports
    <2> QED
      BY <1>1, <1>2, <2>1, <2>3 DEF ImportInv
  <1> QED
    BY <1>2, <1>3, <1>4

LEMMA ImportProfileInv == ASSUME TInv, ImportProfile PROVE ImportInv'
  <1>1. /\ imp \in Imports /\ imp.at = "profile" /\ imp.row \in DOMAIN Rows
        /\ imp.org \in DOMAIN orgs /\ orgs' = orgs
    BY DEF ImportProfile, TInv, ImportInv
  <1>2. CASE imp' = [imp EXCEPT !.at = "account", !.col = @ + 1, !.account = 0]
    <2>1. /\ imp' \in Imports /\ imp'.at = "account" /\ imp'.col = imp.col + 1
          /\ imp'.row = imp.row /\ imp'.org = imp.org /\ imp.col \in Nat
      BY <1>1, <1>2, NextColumn
    <2> QED
      BY <1>1, <2>1 DEF ImportInv
  <1>3. CASE imp' = [imp EXCEPT !.at = "failed"]
    <2>1. imp' \in Imports /\ imp'.at = "failed"
      BY <1>1, <1>3 DEF Imports
    <2> QED
      BY <2>1 DEF ImportInv
  <1> QED
    BY <1>2, <1>3 DEF ImportProfile

LEMMA ImportNextRowInv == ASSUME TInv, ImportNextRow PROVE ImportInv'
  <1>1. imp.row \in DOMAIN Rows /\ Len(Rows) \in Nat
    BY RowNumbers DEF ImportNextRow, TInv, ImportInv
  <1>2. imp' \in Imports /\ imp'.at \in {"organisation", "parent"} /\ imp'.row \in DOMAIN Rows
    <2>1. CASE /\ imp.row < Len(Rows)
               /\ imp' = [Idle EXCEPT !.at = "organisation", !.row = imp.row + 1]
      <3>1. imp.row + 1 \in DOMAIN Rows /\ imp.row + 1 \in Nat
        BY <1>1, <2>1, RowNumbers
      <3> QED
        BY <2>1, <3>1, RowImport
    <2>2. CASE imp' = [Idle EXCEPT !.at = "parent", !.row = 1]
      <3>1. 1 \in DOMAIN Rows
        BY <1>1, RowNumbers
      <3> QED
        BY <2>2, <3>1, RowImport
    <2> QED
      BY <2>1, <2>2 DEF ImportNextRow
  <1> QED
    BY <1>2 DEF ImportInv

\* Setting a parent.
LEMMA ParentSet ==
  ASSUME OrgsInv, NEW org, NEW parent \in OrgNames \cup {None},
         orgs' = [orgs EXCEPT ![org].parent = parent]
  PROVE  /\ OrgsKept
         /\ DOMAIN orgs' = DOMAIN orgs
         /\ \A o \in DOMAIN orgs :
              orgs'[o] = IF o = org THEN [parent |-> parent] ELSE orgs[o]
  <1>1. \A o \in DOMAIN orgs : orgs[o] \in Organisations
    BY DEF OrgsInv
  <1>2. \A o \in DOMAIN orgs : [orgs[o] EXCEPT !.parent = parent] = [parent |-> parent]
    BY <1>1 DEF Organisations
  <1>3. [parent |-> parent] \in Organisations
    BY DEF Organisations
  <1>4. /\ DOMAIN orgs' = DOMAIN orgs
        /\ \A o \in DOMAIN orgs :
             orgs'[o] = IF o = org THEN [orgs[org] EXCEPT !.parent = parent] ELSE orgs[o]
    BY DEF OrgsInv
  <1>5. \A o \in DOMAIN orgs : orgs'[o] = IF o = org THEN [parent |-> parent] ELSE orgs[o]
    BY <1>2, <1>4
  <1>6. \A o \in DOMAIN orgs' : orgs'[o] \in Organisations
    BY <1>1, <1>3, <1>4, <1>5
  <1>7. orgs' = [o \in DOMAIN orgs' |-> orgs'[o]]
    OBVIOUS
  <1> QED
    BY <1>4, <1>5, <1>6, <1>7 DEF OrgsKept, OrgsInv

LEMMA ImportParentInv == ASSUME TInv, ImportParent PROVE ImportInv' /\ OrgsKept
  <1> DEFINE lead == Rows[imp.row].lead
             org  == FindOrganisation(Rows[imp.row])
             parent == IF org = lead THEN None ELSE lead
  <1>1. imp.row \in DOMAIN Rows /\ imp \in Imports
    BY DEF ImportParent, TInv, ImportInv
  <1>2. parent \in OrgNames \cup {None}
    BY <1>1, RowFields
  <1>3. orgs' = orgs \/ orgs' = [orgs EXCEPT ![org].parent = parent]
    BY DEF ImportParent
  <1> HIDE DEF parent, org
  <1>4. OrgsKept
    BY <1>2, <1>3, ParentSet, SameOrgs DEF TInv
  <1>5. CASE imp' = [imp EXCEPT !.row = @ + 1] /\ imp.row < Len(Rows)
    <2>1. imp' \in Imports /\ imp'.row = imp.row + 1 /\ imp'.at = "parent"
      BY <1>1, <1>5, RowNumbers DEF Imports, ImportParent
    <2> QED
      BY <1>1, <1>4, <1>5, <2>1, RowNumbers DEF ImportInv
  <1>6. CASE imp' = [Idle EXCEPT !.at = "done"]
    BY <1>4, <1>6, IdleImport DEF ImportInv
  <1> QED
    BY <1>4, <1>5, <1>6 DEF ImportParent

LEMMA ImportStopsInv == ASSUME TInv, ImportStops PROVE ImportInv'
  <1>1. imp' \in Imports /\ imp'.at = "failed"
    BY IdleImport DEF ImportStops
  <1> QED
    BY <1>1 DEF ImportInv

-----------------------------------------------------------------------------
(* Every step.                                                             *)

\* How a form may go on: to its end, to the organisation of its sender, or from
\* there to a profile of that organisation.
Change(old, new) ==
  \/ new = old
  \/ new.at # "sender" /\ ~ new.found
  \/ /\ new.at = "sender" /\ ~ new.found
     /\ new.actor \in ProfileIds /\ new.org = profiles[new.actor].org
  \/ /\ old.at = "sender" /\ new.at # "sender"
     /\ new.actor = old.actor /\ new.target = old.target /\ new.org = old.org
     /\ InOrg(new.target, new.org)

FormsStep == \A f \in Forms : Change(form[f], form'[f])

LEMMA RequestKept ==
  ASSUME ProfilesInv, ProfilesStep, DOMAIN systems \subseteq DOMAIN systems',
         NEW r \in Requests, RequestInv(r)
  PROVE  RequestInv(r)'
  <1>1. 1..made \subseteq 1..made'
    BY MadeGrows
  <1> QED
    BY <1>1 DEF RequestInv

LEMMA FormsKept ==
  ASSUME TInv, ProfilesStep, UNCHANGED <<systems, form>>, imports' \in 0..MaxImports,
         quiet' \in BOOLEAN
  PROVE  RestInv' /\ FormsStep
  <1>1. ASSUME NEW f \in Forms PROVE RequestInv(form[f])'
    <2>1. PICK r \in Requests : r = form[f]
      BY DEF TInv, RestInv
    <2>2. RequestInv(r)'
      BY <2>1, RequestKept DEF TInv, RestInv
    <2> QED
      BY <2>1, <2>2
  <1> QED
    BY <1>1 DEF RestInv, TInv, FormsStep, Change

\* One form goes on.
LEMMA FormChanged ==
  ASSUME TInv, ProfilesStep, NEW f \in Forms, NEW new \in Requests,
         form' = [form EXCEPT ![f] = new], RequestInv(new), Change(form[f], new),
         systems' \in Seq(Systems), DOMAIN systems \subseteq DOMAIN systems',
         UNCHANGED imports, quiet' \in BOOLEAN
  PROVE  RestInv' /\ FormsStep
  <1>1. /\ form' \in [Forms -> Requests]
        /\ \A g \in Forms : form'[g] = IF g = f THEN new ELSE form[g]
    BY DEF TInv, RestInv
  <1>2. ASSUME NEW g \in Forms PROVE RequestInv(form[g])'
    <2>1. PICK r \in Requests : r = form'[g] /\ RequestInv(r)
      BY <1>1 DEF TInv, RestInv
    <2>2. RequestInv(r)'
      BY <2>1, RequestKept DEF TInv
    <2> QED
      BY <2>1, <2>2
  <1>3. FormsStep
    BY <1>1 DEF FormsStep, Change
  <1> QED
    BY <1>1, <1>2, <1>3 DEF RestInv, TInv

LEMMA ARequest ==
  ASSUME NEW at \in {"unsent", "posted", "done"},
         NEW op \in Manage \cup {"system", "rename", "none"}, NEW actor \in 0..MaxProfiles,
         NEW target \in Nat, NEW name \in SystemNames \cup {None}
  PROVE  /\ Request(at, op, actor, target, name) \in Requests
         /\ Request(at, op, actor, target, name).at = at
         /\ Request(at, op, actor, target, name).op = op
         /\ Request(at, op, actor, target, name).actor = actor
         /\ Request(at, op, actor, target, name).target = target
         /\ Request(at, op, actor, target, name).name = name
         /\ ~ Request(at, op, actor, target, name).found
  BY DEF Request, Requests

LEMMA FinishedForm ==
  ASSUME TInv, NEW f \in Forms, Finished(f)
  PROVE  \E new \in Requests : /\ form' = [form EXCEPT ![f] = new]
                               /\ form'[f] = new /\ new.at = "done"
                               /\ RequestInv(new) /\ Change(form[f], new)
  <1> DEFINE new == Request("done", "none", 0, 0, None)
  <1>0. 0 \in 0..MaxProfiles
    BY DirectoryAssumption
  <1>1. new \in Requests /\ new.at = "done" /\ ~ new.found
    BY <1>0, ARequest
  <1>2. form' = [form EXCEPT ![f] = new]
    BY DEF Finished
  <1> HIDE DEF new
  <1>3. form'[f] = new
    BY <1>2 DEF TInv, RestInv
  <1>4. RequestInv(new) /\ Change(form[f], new)
    BY <1>1 DEF RequestInv, Change
  <1> QED
    BY <1>1, <1>2, <1>3, <1>4

\* What a step can do to the tables, whichever it is.
StepInv ==
  /\ AccountsStep
  /\ ProfilesStep
  /\ OrgsKept
  /\ DOMAIN accounts \subseteq DOMAIN accounts' => ImportInv'
  /\ RestInv' /\ FormsStep

LEMMA ImportStep == ASSUME TInv, Import PROVE StepInv
  <1>0. imports \in 0..MaxImports /\ quiet \in BOOLEAN
    BY DEF TInv, RestInv
  <1>1. CASE BeginImport
    <2>1. AccountsStep /\ ProfilesStep
      BY <1>1 DEF BeginImport, AccountsStep, ProfilesStep
    <2>2. RestInv' /\ FormsStep
      BY <1>1, <2>1, BeginImportInv, FormsKept DEF BeginImport
    <2> QED
      BY <1>1, <2>1, <2>2, BeginImportInv, SameOrgs DEF StepInv, TInv, BeginImport
  <1>2. CASE ImportOrganisation
    <2>1. AccountsStep /\ ProfilesStep
      BY <1>2 DEF ImportOrganisation, AccountsStep, ProfilesStep
    <2>2. RestInv' /\ FormsStep
      BY <1>0, <1>2, <2>1, FormsKept DEF ImportOrganisation
    <2> QED
      BY <1>2, <2>1, <2>2, ImportOrganisationInv DEF StepInv
  <1>3. CASE ImportAccount
    <2>1. AccountsStep /\ ProfilesStep
      BY <1>3, ImportAccountInv DEF ImportAccount, ProfilesStep
    <2>2. RestInv' /\ FormsStep
      BY <1>0, <1>3, <2>1, FormsKept DEF ImportAccount
    <2> QED
      BY <1>3, <2>1, <2>2, ImportAccountInv, SameOrgs DEF StepInv, TInv, ImportAccount
  <1>4. CASE ImportProfile
    <2>1. AccountsStep /\ ProfilesStep
      BY <1>4, ImportProfileProfiles
    <2>2. RestInv' /\ FormsStep
      BY <1>0, <1>4, <2>1, FormsKept DEF ImportProfile
    <2> QED
      BY <1>4, <2>1, <2>2, ImportProfileInv, SameOrgs DEF StepInv, TInv, ImportProfile
  <1>5. CASE ImportNextRow
    <2>1. AccountsStep /\ ProfilesStep
      BY <1>5 DEF ImportNextRow, AccountsStep, ProfilesStep
    <2>2. RestInv' /\ FormsStep
      BY <1>0, <1>5, <2>1, FormsKept DEF ImportNextRow
    <2> QED
      BY <1>5, <2>1, <2>2, ImportNextRowInv, SameOrgs DEF StepInv, TInv, ImportNextRow
  <1>6. CASE ImportParent
    <2>1. AccountsStep /\ ProfilesStep
      BY <1>6 DEF ImportParent, AccountsStep, ProfilesStep
    <2>2. RestInv' /\ FormsStep
      BY <1>0, <1>6, <2>1, FormsKept DEF ImportParent
    <2> QED
      BY <1>6, <2>1, <2>2, ImportParentInv DEF StepInv
  <1>7. CASE ImportStops
    <2>1. AccountsStep /\ ProfilesStep
      BY <1>7 DEF ImportStops, AccountsStep, ProfilesStep
    <2>2. RestInv' /\ FormsStep
      BY <1>0, <1>7, <2>1, FormsKept DEF ImportStops
    <2> QED
      BY <1>7, <2>1, <2>2, ImportStopsInv, SameOrgs DEF StepInv, TInv, ImportStops
  <1> QED
    BY <1>1, <1>2, <1>3, <1>4, <1>5, <1>6, <1>7 DEF Import

LEMMA SignInStep == ASSUME TInv, NEW e \in Typed, SignIn(e) PROVE StepInv
  <1>1. AccountsStep /\ ProfilesStep
    BY SpeltTyped, DirectoryAssumption DEF SignIn, AccountsStep, Adds, ProfilesStep
  <1>2. RestInv' /\ FormsStep
    BY <1>1, FormsKept DEF SignIn, TInv, RestInv
  <1> QED
    BY <1>1, <1>2, SameOrgs, SameImport DEF StepInv, TInv, SignIn, OrgsKept

\* The forms leave the import and the organisations alone.
LEMMA FormStep ==
  ASSUME TInv, AccountsStep, ProfilesStep, UNCHANGED <<orgs, imp, imports>>, quiet' \in BOOLEAN,
         systems' \in Seq(Systems), DOMAIN systems \subseteq DOMAIN systems',
         NEW f \in Forms, NEW new \in Requests, form' = [form EXCEPT ![f] = new],
         RequestInv(new), Change(form[f], new)
  PROVE  StepInv
  <1>1. RestInv' /\ FormsStep
    BY FormChanged
  <1> QED
    BY <1>1, SameOrgs, SameImport DEF StepInv, TInv, OrgsKept

LEMMA FinishStep ==
  ASSUME TInv, AccountsStep, ProfilesStep, UNCHANGED <<orgs, imp, imports, quiet>>,
         systems' \in Seq(Systems), DOMAIN systems \subseteq DOMAIN systems',
         NEW f \in Forms, Finished(f)
  PROVE  StepInv
  <1>1. PICK new \in Requests : /\ form' = [form EXCEPT ![f] = new]
                                /\ RequestInv(new) /\ Change(form[f], new)
    BY FinishedForm
  <1>2. quiet' \in BOOLEAN
    BY DEF TInv, RestInv
  <1> QED
    BY <1>1, <1>2, FormStep

\* A form that reads.
LEMMA ReadStep ==
  ASSUME TInv, UNCHANGED formOnly, NEW f \in Forms, NEW new \in Requests,
         form' = [form EXCEPT ![f] = new], RequestInv(new), Change(form[f], new)
  PROVE  StepInv
  <1>1. AccountsStep /\ ProfilesStep
    BY DEF formOnly, AccountsStep, ProfilesStep
  <1>2. /\ UNCHANGED <<orgs, imp, imports>> /\ quiet' \in BOOLEAN
        /\ systems' \in Seq(Systems) /\ DOMAIN systems \subseteq DOMAIN systems'
    BY DEF formOnly, TInv, RestInv
  <1> QED
    BY <1>1, <1>2, FormStep


LEMMA PostStep ==
  ASSUME TInv, NEW f \in Forms, NEW op \in Manage \cup {"system", "rename"}, NEW actor \in 1..made,
         NEW target \in Nat, NEW name \in SystemNames \cup {None}, Post(f, op, actor, target, name),
         op \in {"edit", "remove"} => target \in 1..made,
         op \in {"system", "rename"} => name \in SystemNames,
         op = "rename" => target \in DOMAIN systems
  PROVE  StepInv
  <1> DEFINE new == Request("posted", op, actor, target, name)
  <1>1. actor \in 0..MaxProfiles
    BY DirectoryAssumption DEF TInv, ProfilesInv
  <1>2. /\ new \in Requests
        /\ new.at = "posted" /\ new.op = op /\ new.actor = actor /\ new.target = target
        /\ new.name = name /\ ~ new.found
    <2>1. /\ new.at = "posted" /\ new.op = op /\ new.actor = actor /\ new.target = target
          /\ new.name = name /\ ~ new.found
      BY DEF Request
    <2>2. new \in Requests
      BY <1>1 DEF Request, Requests
    <2> QED
      BY <2>1, <2>2
  <1>3. form' = [form EXCEPT ![f] = new] /\ quiet' = FALSE
    BY DEF Post
  <1> HIDE DEF new
  <1>4. RequestInv(new) /\ Change(form[f], new)
    BY <1>2 DEF RequestInv, Change
  <1>5. AccountsStep /\ ProfilesStep /\ UNCHANGED <<orgs, imp, imports>>
    BY DEF Post, AccountsStep, ProfilesStep
  <1>6. systems' \in Seq(Systems) /\ DOMAIN systems \subseteq DOMAIN systems'
    BY DEF Post, TInv, RestInv
  <1> QED
    BY <1>2, <1>3, <1>4, <1>5, <1>6, FormStep

LEMMA PostingStep == ASSUME TInv, NEW f \in Forms, Posting(f) PROVE StepInv
  <1>1. PICK actor \in 1..made :
          \/ Post(f, "create", actor, 0, None)
          \/ \E op \in {"edit", "remove"}, p \in 1..made : Post(f, op, actor, p, None)
          \/ \E n \in SystemNames : Post(f, "system", actor, 0, n)
          \/ \E n \in SystemNames, i \in DOMAIN systems : Post(f, "rename", actor, i, n)
    BY DEF Posting
  <1>2. CASE Post(f, "create", actor, 0, None)
    BY <1>2, PostStep DEF Manage
  <1>3. CASE \E op \in {"edit", "remove"}, p \in 1..made : Post(f, op, actor, p, None)
    <2>1. PICK op \in {"edit", "remove"}, p \in 1..made : Post(f, op, actor, p, None)
      BY <1>3
    <2>2. p \in Nat
      BY DEF TInv, ProfilesInv
    <2> QED
      BY <2>1, <2>2, PostStep DEF Manage
  <1>4. CASE \E n \in SystemNames : Post(f, "system", actor, 0, n)
    BY <1>4, PostStep
  <1>5. CASE \E n \in SystemNames, i \in DOMAIN systems : Post(f, "rename", actor, i, n)
    <2>1. PICK n \in SystemNames, i \in DOMAIN systems : Post(f, "rename", actor, i, n)
      BY <1>5
    <2>2. i \in Nat
      BY LenProperties DEF TInv, RestInv
    <2> QED
      BY <2>1, <2>2, PostStep
  <1> QED
    BY <1>1, <1>2, <1>3, <1>4, <1>5

LEMMA ReadingStep == ASSUME TInv, NEW f \in Forms, Reading(f) PROVE StepInv
  <1> DEFINE r == form[f]
  <1>0. r \in Requests /\ RequestInv(r) /\ form \in [Forms -> Requests]
    BY DEF TInv, RestInv
  <1>1. CASE ReadSender(f)
    <2> DEFINE org == profiles[r.actor].org
               here == [r EXCEPT !.at = "sender"]
               new == [here EXCEPT !.org = org]
    <2>1. r.at = "posted" /\ r.actor \in ProfileIds /\ UNCHANGED formOnly
      BY <1>1 DEF ReadSender
    <2>2. org \in OrgNames \cup {None}
      BY <2>1, ProfileFacts DEF TInv
    <2>3. form' = [form EXCEPT ![f] = new]
      BY <1>0, <1>1 DEF ReadSender
    <2>4. here \in Requests /\ here.at = "sender" /\ here.op = r.op /\ here.actor = r.actor
          /\ here.target = r.target /\ here.name = r.name /\ here.found = r.found
      BY <1>0 DEF Requests
    <2> HIDE DEF here, org
    <2>5. new \in Requests /\ new.at = "sender" /\ new.op = r.op /\ new.actor = r.actor
          /\ new.target = r.target /\ new.name = r.name /\ new.found = r.found /\ new.org = org
      BY <2>2, <2>4 DEF Requests
    <2> HIDE DEF new
    <2>6. ~ r.found
      BY <1>0, <2>1 DEF RequestInv
    <2>7. RequestInv(new)
      BY <1>0, <2>1, <2>5, <2>6 DEF RequestInv
    <2>8. Change(form[f], new)
      BY <2>1, <2>5, <2>6 DEF Change, org
    <2> QED
      BY <2>1, <2>3, <2>5, <2>7, <2>8, ReadStep
  <1>2. CASE ReadNoSender(f) \/ ReadSystem(f)
    <2> DEFINE new == [r EXCEPT !.at = "checked"]
    <2>1. /\ r.at \in {"posted", "sender"} /\ r.op # "remove" /\ UNCHANGED formOnly
          /\ form' = [form EXCEPT ![f] = new]
      BY <1>0, <1>2 DEF ReadNoSender, ReadSystem
    <2>2. new \in Requests /\ new.at = "checked" /\ new.op = r.op /\ new.actor = r.actor
          /\ new.target = r.target /\ new.name = r.name /\ new.found = r.found
      BY <1>0 DEF Requests
    <2> HIDE DEF new
    <2>3. ~ r.found
      BY <1>0, <2>1 DEF RequestInv
    <2>4. RequestInv(new) /\ Change(form[f], new)
      BY <1>0, <2>1, <2>2, <2>3 DEF RequestInv, Change
    <2> QED
      BY <2>1, <2>2, <2>4, ReadStep
  <1>3. CASE ReadEdited(f) \/ ReadRemoved(f)
    <2>1. PICK b \in BOOLEAN : /\ b = InOrg(r.target, r.org)
                               /\ r.op = "remove" => b
                               /\ form' = [form EXCEPT ![f].at = "checked", ![f].found = b]
      BY <1>3 DEF ReadEdited, ReadRemoved, InOrg
    <2> DEFINE here == [r EXCEPT !.at = "checked"]
               new == [here EXCEPT !.found = b]
    <2>2. r.at = "sender" /\ r.op \in {"edit", "remove"} /\ UNCHANGED formOnly
      BY <1>3 DEF ReadEdited, ReadRemoved
    <2>3. form' = [form EXCEPT ![f] = new]
      BY <1>0, <2>1
    <2>4. here \in Requests /\ here.at = "checked" /\ here.op = r.op /\ here.actor = r.actor
          /\ here.target = r.target /\ here.name = r.name /\ here.org = r.org
      BY <1>0 DEF Requests
    <2> HIDE DEF here
    <2>5. new \in Requests /\ new.at = "checked" /\ new.op = r.op /\ new.actor = r.actor
          /\ new.target = r.target /\ new.name = r.name /\ new.org = r.org /\ new.found = b
      BY <2>4 DEF Requests
    <2> HIDE DEF new
    <2>6. RequestInv(new)
      BY <1>0, <2>1, <2>2, <2>5 DEF RequestInv
    <2>7. Change(form[f], new)
      BY <2>1, <2>2, <2>5 DEF Change
    <2> QED
      BY <2>2, <2>3, <2>5, <2>6, <2>7, ReadStep
  <1> QED
    BY <1>1, <1>2, <1>3 DEF Reading

LEMMA SavedUserForm ==
  ASSUME TInv, AccountsStep, ProfilesStep, UNCHANGED <<orgs, systems, imp, imports, quiet>>,
         NEW f \in Forms, Finished(f)
  PROVE  StepInv
  <1>1. systems' \in Seq(Systems) /\ DOMAIN systems \subseteq DOMAIN systems'
    BY DEF TInv, RestInv
  <1> QED
    BY <1>1, FinishStep

LEMMA SaveSystemStep == ASSUME TInv, NEW f \in Forms, SaveSystem(f) PROVE StepInv
  <1> DEFINE r == form[f]
             new == [name |-> r.name, org |-> r.org]
  <1>1. r.at = "checked" /\ r.op \in {"system", "rename"} /\ r.org # None
    BY DEF SaveSystem
  <1>2. r \in Requests /\ RequestInv(r) /\ systems \in Seq(Systems)
    BY DEF TInv, RestInv
  <1>3. r.name \in SystemNames /\ r.org \in OrgNames
    BY <1>1, <1>2 DEF RequestInv, Requests
  <1>4. new \in Systems
    BY <1>3 DEF Systems
  <1>5. systems' \in Seq(Systems) /\ DOMAIN systems \subseteq DOMAIN systems'
    <2>1. CASE systems' = Append(systems, new)
      <3> HIDE DEF new
      <3>1. /\ systems' \in Seq(Systems) /\ Len(systems') = Len(systems) + 1
        BY <1>2, <1>4, <2>1, AppendProperties
      <3>2. DOMAIN systems = 1..Len(systems) /\ DOMAIN systems' = 1..Len(systems')
            /\ Len(systems) \in Nat
        BY <1>2, <3>1, LenProperties
      <3> QED
        BY <3>1, <3>2
    <2>2. CASE systems' = [systems EXCEPT ![r.target].name = r.name] /\ r.op = "rename"
      <3> DEFINE renamed == [systems[r.target] EXCEPT !.name = r.name]
      <3>1. r.target \in DOMAIN systems
        BY <1>1, <1>2, <2>2 DEF RequestInv
      <3>2. systems[r.target] \in Systems
        BY <1>2, <3>1, ElementOfSeq, LenProperties
      <3>3. renamed \in Systems
        BY <1>3, <3>2 DEF Systems
      <3>4. systems' = [systems EXCEPT ![r.target] = renamed]
        BY <2>2
      <3> HIDE DEF renamed
      <3>5. systems' \in Seq(Systems) /\ DOMAIN systems' = DOMAIN systems
        <4>1. r.target \in 1..Len(systems)
          BY <1>2, <3>1, LenProperties
        <4>2. systems' \in Seq(Systems)
          BY <1>2, <3>3, <3>4, <4>1, ExceptSeq
        <4> QED
          BY <3>4, <4>2
      <3> QED
        BY <3>5
    <2> QED
      BY <1>1, <2>1, <2>2 DEF SaveSystem
  <1>6. /\ AccountsStep /\ ProfilesStep /\ UNCHANGED <<orgs, imp, imports, quiet>> /\ Finished(f)
    BY DEF SaveSystem, AccountsStep, ProfilesStep
  <1> QED
    BY <1>5, <1>6, FinishStep

LEMMA SavingStep == ASSUME TInv, NEW f \in Forms, Saving(f) \/ Refused(f) PROVE StepInv
  <1>0. ASSUME Finished(f) PROVE form'[f].at = "done"
    BY <1>0, FinishedForm
  <1>1. CASE \E e \in Typed, role \in FormRoles : SaveEdit(f, e, role)
    BY <1>0, <1>1, SaveEditProfiles, SavedUserForm DEF SaveEdit
  <1>2. CASE \E e \in Typed, role \in FormRoles : SaveCreate(f, e, role)
    BY <1>2, SaveCreateProfiles, SavedUserForm DEF SaveCreate
  <1>3. CASE SaveRemove(f)
    BY <1>0, <1>3, SaveRemoveProfiles, SavedUserForm DEF SaveRemove
  <1>4. CASE SaveSystem(f)
    BY <1>4, SaveSystemStep
  <1>5. CASE Refused(f)
    <2>1. AccountsStep /\ ProfilesStep
      BY <1>5 DEF Refused, formOnly, AccountsStep, ProfilesStep
    <2> QED
      BY <1>5, <2>1, SavedUserForm DEF Refused, formOnly
  <1> QED
    BY <1>1, <1>2, <1>3, <1>4, <1>5 DEF Saving

LEMMA NextStep == ASSUME TInv, Next PROVE StepInv
  <1>1. CASE Import
    BY <1>1, ImportStep
  <1>2. CASE \E e \in Typed : SignIn(e)
    BY <1>2, SignInStep
  <1>3. CASE \E f \in Forms : Posting(f) \/ Reading(f) \/ Saving(f) \/ Refused(f)
    BY <1>3, PostingStep, ReadingStep, SavingStep
  <1> QED
    BY <1>1, <1>2, <1>3 DEF Next

LEMMA TInvStep == TInv /\ [Next]_directoryVars => TInv'
  <1> SUFFICES ASSUME TInv, [Next]_directoryVars PROVE TInv'
    OBVIOUS
  <1>1. CASE Next
    <2>1. StepInv
      BY <1>1, NextStep
    <2>2. AccountsInv' /\ DOMAIN accounts \subseteq DOMAIN accounts'
      BY <2>1, AccountsKept DEF StepInv, TInv
    <2>3. ProfilesInv'
      BY <2>1, <2>2, ProfilesKept DEF StepInv, TInv
    <2> QED
      BY <2>1, <2>2, <2>3 DEF StepInv, OrgsKept, TInv
  <1>2. CASE UNCHANGED directoryVars
    BY <1>2 DEF directoryVars, TInv, AccountsInv, ProfilesInv, ProfileIds, OrgsInv, ImportInv, RestInv,
       RequestInv
  <1> QED
    BY <1>1, <1>2

\* The profiles the tables start with, by their ids.
LEMMA InitProfileFacts ==
  /\ DOMAIN InitProfiles = 1..Len(InitProfiles)
  /\ Len(InitProfiles) \in 0..MaxProfiles
  /\ \A p \in DOMAIN InitProfiles :
       /\ InitProfiles[p] \in Profiles
       /\ InitProfiles[p].account \in DOMAIN InitAccounts
  <1>1. InitProfiles \in Seq(Profiles) /\ Len(InitProfiles) <= MaxProfiles
    BY DirectoryAssumption
  <1> QED
    BY <1>1, LenProperties, ElementOfSeq, DirectoryAssumption

LEMMA InitTInv == Init => TInv
  <1> SUFFICES ASSUME Init PROVE TInv
    OBVIOUS
  <1>1. AccountsInv
    BY DirectoryAssumption DEF Init, AccountsInv
  <1>2. \A p \in 1..MaxProfiles :
          profiles[p] = IF p <= Len(InitProfiles) THEN InitProfiles[p] ELSE None
    BY DEF Init
  <1>3. ProfilesInv
    <2>1. \A p \in 1..MaxProfiles : p <= Len(InitProfiles) => p \in DOMAIN InitProfiles
      BY InitProfileFacts
    <2>2. profiles \in [1..MaxProfiles -> Profiles \cup {None}]
      BY <2>1, InitProfileFacts DEF Init
    <2>3. made = Len(InitProfiles) /\ accounts = InitAccounts
      BY DEF Init
    <2> QED
      BY <1>2, <2>1, <2>2, <2>3, InitProfileFacts DEF ProfilesInv, ProfileIds
  <1>4. OrgsInv
    BY DirectoryAssumption DEF Init, OrgsInv, Organisations
  <1>5. ImportInv
    BY IdleFields DEF Init, ImportInv
  <1>6. RestInv
    <2>1. Unsent \in Requests /\ RequestInv(Unsent)
      BY DirectoryAssumption DEF Unsent, Request, Requests, RequestInv
    <2>2. \A f \in Forms : form[f] = Unsent
      BY DEF Init
    <2>3. form \in [Forms -> Requests]
      BY <2>1 DEF Init
    <2>4. systems \in Seq(Systems)
      BY EmptySeq DEF Init
    <2> QED
      BY <2>1, <2>2, <2>3, <2>4, DirectoryAssumption DEF Init, RestInv
  <1> QED
    BY <1>1, <1>3, <1>4, <1>5, <1>6 DEF TInv

LEMMA TInvInvariant == Spec => []TInv
  BY InitTInv, TInvStep, PTL DEF Spec

\* The tables stay tables of what the models allow, and the import is at a row
\* the file has, with an account and an organisation that exist (import_csv).
THEOREM DirectoryTypeCorrect == Spec => []TypeOK
  <1>1. TInv => TypeOK
    <2> SUFFICES ASSUME TInv PROVE TypeOK
      OBVIOUS
    <2>1. \A o \in DOMAIN orgs : orgs[o] \in Organisations
      BY DEF TInv, OrgsInv
    <2>3. imp.at = "profile" => imp.account \in DOMAIN accounts /\ imp.org \in OrgNames
      BY DEF TInv, ImportInv, OrgsInv
    <2> QED
      BY <2>1, <2>3 DEF TypeOK, TInv, AccountsInv, ProfilesInv, OrgsInv, ImportInv,
         Imports, RestInv
  <1> QED
    BY <1>1, TInvInvariant, PTL

-----------------------------------------------------------------------------
(* One mailbox per account.                                                *)

LEMMA MailboxStep ==
  ASSUME TInv, UsernameNamesMailbox, AccountsStep
  PROVE  UsernameNamesMailbox'
  <1>1. AccountsInv
    BY DEF TInv
  <1>2. CASE UNCHANGED accounts
    BY <1>2 DEF UsernameNamesMailbox
  <1>3. CASE \E e \in Emails : Spelt(e) /\ Adds(e)
    <2>1. PICK e \in Emails : Adds(e)
      BY <1>3
    <2>2. /\ DOMAIN accounts' = 1..Len(accounts) + 1
          /\ \A a \in DOMAIN accounts : accounts'[a] = accounts[a]
          /\ accounts'[Len(accounts) + 1] = NewAccount(e, Normalised(e))
          /\ DOMAIN accounts = 1..Len(accounts) /\ Len(accounts) \in Nat
      BY <1>1, <2>1, AddedAccount, AccountFacts
    <2>3. NewAccount(e, Normalised(e)).username.who = NewAccount(e, Normalised(e)).email.who
      BY EmailForms DEF NewAccount
    <2> QED
      BY <2>2, <2>3 DEF UsernameNamesMailbox
  <1>4. CASE \E a \in DOMAIN accounts : Renames(a)
    <2>1. PICK a \in DOMAIN accounts : Renames(a)
      BY <1>4
    <2>2. /\ DOMAIN accounts' = DOMAIN accounts
          /\ \A b \in DOMAIN accounts : b # a => accounts'[b] = accounts[b]
          /\ accounts'[a] = [username |-> accounts[a].email, email |-> accounts[a].email,
                             staff |-> accounts[a].staff]
      BY <1>1, <2>1, RenamedAccount
    <2>3. accounts'[a].username.who = accounts'[a].email.who
      BY <2>2
    <2> QED
      BY <2>2, <2>3 DEF UsernameNamesMailbox
  <1> QED
    BY <1>2, <1>3, <1>4 DEF AccountsStep

\* If the user name and the address of each account name one mailbox at the
\* start, no import, form or sign-in ever pulls them apart, and sign-in may
\* compare both with the claims (OIDCBackend.filter_users_by_claims).
THEOREM OneMailboxPerAccount ==
  ASSUME \A a \in DOMAIN InitAccounts :
           InitAccounts[a].username.who = InitAccounts[a].email.who
  PROVE  Spec => []UsernameNamesMailbox
  <1>1. Init => UsernameNamesMailbox
    BY DEF Init, UsernameNamesMailbox
  <1>2. TInv /\ UsernameNamesMailbox /\ [Next]_directoryVars => UsernameNamesMailbox'
    <2>1. ASSUME TInv, UsernameNamesMailbox, Next PROVE UsernameNamesMailbox'
      BY <2>1, NextStep, MailboxStep DEF StepInv
    <2>2. ASSUME UsernameNamesMailbox, UNCHANGED directoryVars PROVE UsernameNamesMailbox'
      BY <2>2 DEF directoryVars, UsernameNamesMailbox
    <2> QED
      BY <2>1, <2>2
  <1> QED
    BY <1>1, <1>2, TInvInvariant, PTL DEF Spec

-----------------------------------------------------------------------------
(* Who changes profiles.                                                   *)

\* A profile is changed by the form that is about it.
LEMMA ProfileChange ==
  ASSUME TInv, [Next]_directoryVars, NEW p \in 1..made, profiles'[p] # profiles[p]
  PROVE  \E f \in Forms : /\ Saves(f) /\ form[f].target = p
                          /\ profiles'[p] # None => profiles'[p].org = form[f].org
  <1>0. ProfilesInv /\ p \in 1..MaxProfiles /\ made \in Nat
    BY DirectoryAssumption DEF TInv, ProfilesInv
  <1>1. ProfilesStep
    <2>1. Next
      BY DEF directoryVars
    <2> QED
      BY <2>1, NextStep DEF StepInv
  <1>2. ~ MakesOne
    <2> SUFFICES ASSUME NEW new \in Profiles, Makes(new) PROVE FALSE
      BY DEF MakesOne
    <2>1. made' = made + 1 /\ p # made'
      BY <1>0 DEF Makes
    <2> QED
      BY <1>0, <2>1, MadeProfile
  <1>3. CASE ChangesOne \/ RemovesOne
    <2>1. PICK f \in Forms, q \in 1..made, new \in Profiles \cup {None} :
            /\ Saves(f) /\ q = form[f].target /\ Puts(q, new)
            /\ new # None => new.org = form[f].org
      BY <1>3, ChangedOne
    <2>2. \A x \in 1..MaxProfiles : profiles'[x] = IF x = q THEN new ELSE profiles[x]
      BY <1>0, <2>1, PutProfile
    <2> QED
      BY <1>0, <2>1, <2>2
  <1> QED
    BY <1>1, <1>2, <1>3 DEF ProfilesStep

\* A profile has one organisation for good: home says which, also of those that
\* were removed, and the forms under way go by it.
Homes(home) ==
  /\ \A p \in ProfileIds : profiles[p].org = home[p]
  /\ \A f \in Forms :
       /\ form[f].at = "sender" \/ form[f].found => home[form[f].actor] = form[f].org
       /\ form[f].found => home[form[f].target] = form[f].org

Homesteads == [1..MaxProfiles -> OrgNames \cup {None}]

HomesInv == \E home \in Homesteads : Homes(home)

LEMMA HomesStep ==
  ASSUME TInv, HomesInv, Next
  PROVE  HomesInv'
  <1>1. PICK home \in Homesteads : Homes(home)
    BY DEF HomesInv
  <1>2. ProfilesStep /\ FormsStep /\ ProfilesInv /\ made \in Nat /\ 1..made \subseteq 1..MaxProfiles
    BY NextStep, DirectoryAssumption DEF StepInv, TInv, ProfilesInv
  \* A home that agrees with the old one, and with the profiles, will do.
  <1>3. ASSUME NEW there \in Homesteads, \A p \in 1..made : there[p] = home[p],
               \A p \in ProfileIds' : profiles'[p].org = there[p]
        PROVE  HomesInv'
    <2>1. ASSUME NEW f \in Forms
          PROVE  /\ form'[f].at = "sender" \/ form'[f].found => there[form'[f].actor] = form'[f].org
                 /\ form'[f].found => there[form'[f].target] = form'[f].org
      <3>1. PICK old, new : old = form[f] /\ new = form'[f] /\ Change(old, new)
        BY <1>2 DEF FormsStep
      <3>2. /\ old.at = "sender" \/ old.found => home[old.actor] = old.org /\ old.actor \in 1..made
            /\ old.found => home[old.target] = old.org /\ old.target \in 1..made
        BY <1>1, <3>1 DEF Homes, TInv, RestInv, RequestInv
      <3>3. ASSUME NEW p \in ProfileIds PROVE p \in 1..made /\ profiles[p].org = there[p]
        BY <1>1, <1>2, <1>3, ProfileFacts DEF Homes
      <3>4. /\ new.at = "sender" \/ new.found => there[new.actor] = new.org
            /\ new.found => there[new.target] = new.org
        BY <1>3, <3>1, <3>2, <3>3 DEF Change, InOrg
      <3> QED
        BY <3>1, <3>4
    <2>2. Homes(there)'
      BY <1>3, <2>1 DEF Homes
    <2> QED
      BY <2>2 DEF HomesInv
  <1>4. CASE UNCHANGED <<profiles, made>>
    BY <1>1, <1>3, <1>4 DEF Homes, ProfileIds
  <1>5. CASE MakesOne
    <2>1. PICK new \in Profiles : Makes(new)
      BY <1>5 DEF MakesOne
    <2>2. /\ made' \in 1..MaxProfiles
          /\ \A q \in 1..MaxProfiles : profiles'[q] = IF q = made' THEN new ELSE profiles[q]
          /\ ProfileIds' = ProfileIds \cup {made'}
      BY <1>2, <2>1, MadeProfile
    <2>3. PICK m \in 1..MaxProfiles : m = made' /\ m \notin 1..made
      BY <1>2, <2>1, <2>2 DEF Makes
    <2>4. PICK org \in OrgNames \cup {None} : org = new.org
      BY DEF Profiles
    <2> DEFINE there == [home EXCEPT ![m] = org]
    <2>5. there \in Homesteads /\ \A p \in 1..MaxProfiles : there[p] = IF p = m THEN org ELSE home[p]
      BY <2>3 DEF Homesteads
    <2> HIDE DEF there
    <2>6. \A p \in 1..made : there[p] = home[p]
      BY <1>2, <2>3, <2>5
    <2>7. \A p \in ProfileIds' : profiles'[p].org = there[p]
      BY <1>1, <2>2, <2>3, <2>4, <2>5 DEF Homes, ProfileIds
    <2> QED
      BY <1>3, <2>5, <2>6, <2>7
  <1>6. CASE ChangesOne \/ RemovesOne
    <2>1. PICK f \in Forms, p \in 1..made, new \in Profiles \cup {None} :
            /\ Saves(f) /\ p = form[f].target /\ Puts(p, new)
            /\ new # None => new.org = form[f].org
      BY <1>6, ChangedOne
    <2>2. /\ \A q \in 1..MaxProfiles : profiles'[q] = IF q = p THEN new ELSE profiles[q]
          /\ ProfileIds' \subseteq ProfileIds \cup {p}
          /\ new = None => p \notin ProfileIds'
          /\ p \in 1..MaxProfiles
      BY <1>2, <2>1, PutProfile
    <2>3. new # None => new.org = home[p]
      BY <1>1, <2>1 DEF Homes, Saves
    <2>4. \A q \in ProfileIds' : profiles'[q].org = home[q]
      BY <1>1, <2>2, <2>3 DEF Homes, ProfileIds
    <2> QED
      BY <1>3, <2>4
  <1> QED
    BY <1>2, <1>4, <1>5, <1>6 DEF ProfilesStep

LEMMA HomesInvariant == Spec => []HomesInv
  <1>1. Init /\ TInv => HomesInv
    <2> SUFFICES ASSUME Init, TInv PROVE HomesInv
      OBVIOUS
    <2> DEFINE home == [p \in 1..MaxProfiles |-> IF p \in ProfileIds THEN profiles[p].org ELSE None]
    <2>1. home \in Homesteads
      BY ProfileFacts DEF Homesteads, TInv
    <2>2. \A f \in Forms : form[f].at = "unsent" /\ ~ form[f].found
      BY DEF Init, Unsent, Request
    <2>3. Homes(home)
      BY <2>2 DEF Homes, ProfileIds
    <2> QED
      BY <2>1, <2>3 DEF HomesInv
  <1>2. TInv /\ HomesInv /\ [Next]_directoryVars => HomesInv'
    <2>1. ASSUME HomesInv, UNCHANGED directoryVars PROVE HomesInv'
      BY <2>1 DEF directoryVars, HomesInv, Homes, ProfileIds
    <2> QED
      BY <2>1, HomesStep
  <1> QED
    BY <1>1, <1>2, TInvInvariant, PTL DEF Spec

\* Nothing but a form changes, removes or brings back a profile, and the form's
\* sender and the profile were of one organisation when they were read
\* (UserProfileView.get_object, RemoveUserProfileView.form_valid).  That reading
\* is stale when it is used, after any steps of other forms, imports and sign-ins,
\* and still right of those that are there: no profile changes its organisation.
THEOREM ProfilesChangedFromWithin == Spec => ChangedFromWithin
  <1>1. TInv /\ HomesInv /\ [Next]_directoryVars =>
          [\A p \in 1..made :
             profiles'[p] # profiles[p] =>
               /\ \E f \in Forms :
                    /\ form[f].target = p /\ form[f].op \in {"edit", "remove"} /\ form'[f].at = "done"
                    /\ \A q \in {p, form[f].actor} \cap ProfileIds : profiles[q].org = form[f].org
                    /\ profiles'[p] # None => profiles'[p].org = form[f].org]_directoryVars
    <2> SUFFICES ASSUME TInv, HomesInv, [Next]_directoryVars,
                        NEW p \in 1..made, profiles'[p] # profiles[p]
                 PROVE  \E f \in Forms :
                          /\ form[f].target = p /\ form[f].op \in {"edit", "remove"}
                          /\ form'[f].at = "done"
                          /\ \A q \in {p, form[f].actor} \cap ProfileIds : profiles[q].org = form[f].org
                          /\ profiles'[p] # None => profiles'[p].org = form[f].org
      OBVIOUS
    <2>1. PICK f \in Forms : /\ Saves(f) /\ form[f].target = p
                             /\ profiles'[p] # None => profiles'[p].org = form[f].org
      BY ProfileChange
    <2>2. form[f].op \in {"edit", "remove"} /\ form[f].found /\ form'[f].at = "done"
      BY <2>1, SavedTarget DEF Saves
    <2>3. \A q \in {p, form[f].actor} \cap ProfileIds : profiles[q].org = form[f].org
      BY <2>1, <2>2 DEF HomesInv, Homes
    <2> QED
      BY <2>1, <2>2, <2>3
  <1> QED
    BY <1>1, TInvInvariant, HomesInvariant, PTL DEF Spec, ChangedFromWithin

\* If no account is an advisor of an organisation twice at the start, none ever
\* is: not after imports that stopped half way and were begun again, and not
\* while forms move profiles between accounts (UserProfile.get_or_create).
THEOREM AdvisorsAreNotDuplicated ==
  ASSUME \A p, q \in DOMAIN InitProfiles :
           InitProfiles[p] = InitProfiles[q] /\ InitProfiles[p].role = "cyber_advisor" => p = q
  PROVE  Spec => []NoTwinAdvisors
  <1>1. Init => NoTwinAdvisors
    <2> SUFFICES ASSUME Init PROVE NoTwinAdvisors
      OBVIOUS
    <2>1. \A p \in ProfileIds : p \in DOMAIN InitProfiles /\ profiles[p] = InitProfiles[p]
      BY InitProfileFacts DEF Init, ProfileIds
    <2> QED
      BY <2>1 DEF NoTwinAdvisors
  <1>2. ASSUME TInv, NoTwinAdvisors, ProfilesStep PROVE NoTwinAdvisors'
    <2>0. ProfilesInv
      BY <1>2 DEF TInv
    <2>1. CASE UNCHANGED <<profiles, made>>
      BY <1>2, <2>1 DEF NoTwinAdvisors, ProfileIds
    <2>2. CASE MakesOne
      <3>1. PICK new \in Profiles :
              /\ Makes(new)
              /\ new.role = "cyber_advisor" => AdvisorProfiles(new.account, new.org) = {}
        BY <2>2 DEF MakesOne
      <3>2. /\ made' \in 1..MaxProfiles /\ made' \notin ProfileIds
            /\ \A q \in 1..MaxProfiles : profiles'[q] = IF q = made' THEN new ELSE profiles[q]
            /\ ProfileIds' = ProfileIds \cup {made'}
        BY <2>0, <3>1, MadeProfile
      <3>3. new = [account |-> new.account, org |-> new.org, role |-> new.role]
        BY DEF Profiles
      <3>4. new.role = "cyber_advisor" => \A p \in ProfileIds : profiles[p] # new
        BY <3>1, <3>3 DEF AdvisorProfiles
      <3> QED
        BY <1>2, <3>2, <3>4 DEF NoTwinAdvisors, ProfileIds
    <2>3. CASE ChangesOne \/ RemovesOne
      <3>1. PICK p \in 1..made, new \in Profiles \cup {None} :
              /\ Puts(p, new)
              /\ new # None => new.role # "cyber_advisor"
        BY <1>2, <2>3, ChangedOne
      <3>2. /\ \A q \in 1..MaxProfiles : profiles'[q] = IF q = p THEN new ELSE profiles[q]
            /\ ProfileIds' \subseteq ProfileIds \cup {p}
            /\ new = None => p \notin ProfileIds'
        BY <2>0, <3>1, PutProfile
      <3> QED
        BY <1>2, <3>1, <3>2 DEF NoTwinAdvisors, ProfileIds
    <2> QED
      BY <1>2, <2>1, <2>2, <2>3 DEF ProfilesStep
  <1>3. TInv /\ NoTwinAdvisors /\ [Next]_directoryVars => NoTwinAdvisors'
    <2>1. ASSUME TInv, NoTwinAdvisors, Next PROVE NoTwinAdvisors'
      BY <1>2, <2>1, NextStep DEF StepInv
    <2>2. ASSUME NoTwinAdvisors, UNCHANGED directoryVars PROVE NoTwinAdvisors'
      BY <2>2 DEF directoryVars, NoTwinAdvisors, ProfileIds
    <2> QED
      BY <2>1, <2>2
  <1> QED
    BY <1>1, <1>3, TInvInvariant, PTL DEF Spec

-----------------------------------------------------------------------------
(* Signing in.                                                             *)

Address(w) == [who |-> w, caps |-> "lower"]

Names(a, w) == accounts[a].username.who = w \/ accounts[a].email.who = w

\* A plain mailbox has at most one account, with its address in lower case.
PlainInv ==
  \A w \in People : Plain(w) =>
    /\ \A a \in DOMAIN accounts :
         Names(a, w) => accounts[a] = NewAccount(Address(w), Address(w))
    /\ \A a, b \in DOMAIN accounts : Names(a, w) /\ Names(b, w) => a = b

LEMMA PlainStep ==
  ASSUME TInv, PlainInv, AccountsStep
  PROVE  PlainInv'
  <1>0. AccountsInv
    BY DEF TInv
  <1>1. CASE UNCHANGED accounts
    BY <1>1 DEF PlainInv, Names
  <1>2. CASE \E e \in Emails : Spelt(e) /\ Adds(e)
    <2>1. PICK e \in Emails : Spelt(e) /\ Adds(e)
      BY <1>2
    <2>0. PICK n \in Nat : n = Len(accounts) + 1
      BY <1>0, AccountFacts
    <2> DEFINE new == NewAccount(e, Normalised(e))
    <2>2. /\ DOMAIN accounts' = 1..n
          /\ \A a \in DOMAIN accounts : accounts'[a] = accounts[a]
          /\ accounts'[n] = new
          /\ DOMAIN accounts' = DOMAIN accounts \cup {n} /\ n \notin DOMAIN accounts
      <3>1. /\ DOMAIN accounts' = 1..Len(accounts) + 1
            /\ \A a \in DOMAIN accounts : accounts'[a] = accounts[a]
            /\ accounts'[Len(accounts) + 1] = new
        BY <1>0, <2>1, AddedAccount
      <3>2. DOMAIN accounts = 1..Len(accounts) /\ Len(accounts) \in Nat
        BY <1>0, AccountFacts
      <3> HIDE DEF new
      <3>3. 1..Len(accounts) + 1 = (1..Len(accounts)) \cup {Len(accounts) + 1}
        BY <3>2
      <3> QED
        BY <2>0, <3>1, <3>2, <3>3
    <2>3. new.username = e /\ new.username.who = e.who /\ new.email.who = e.who
      BY EmailForms, NewAccountType
    <2>4. ASSUME NEW w \in People, Plain(w)
          PROVE  /\ \A a \in DOMAIN accounts' :
                      Names(a, w)' => accounts'[a] = NewAccount(Address(w), Address(w))
                 /\ \A a, b \in DOMAIN accounts' : Names(a, w)' /\ Names(b, w)' => a = b
      <3>1. \A a \in DOMAIN accounts : Names(a, w)' <=> Names(a, w)
        BY <2>2 DEF Names
      <3>2. CASE e.who # w
        <4>1. ~ Names(n, w)'
          BY <2>2, <2>3, <3>2 DEF Names
        <4> QED
          BY <2>2, <2>4, <3>1, <4>1 DEF PlainInv
      <3>3. CASE e.who = w
        <4>1. e = Address(w) /\ new = NewAccount(Address(w), Address(w))
          BY <2>1, <2>4, <3>3, EmailForms DEF Spelt, Emails, Address
        <4>2. \A a \in DOMAIN accounts : ~ Names(a, w)
          <5> SUFFICES ASSUME NEW a \in DOMAIN accounts, Names(a, w) PROVE FALSE
            OBVIOUS
          <5>1. accounts[a] = new
            BY <2>4, <4>1 DEF PlainInv
          <5>2. accounts[a].username = e
            BY <2>3, <5>1
          <5> QED
            BY <2>1, <5>2 DEF Adds, UsernameTaken
        <4> QED
          BY <2>2, <3>1, <4>1, <4>2
      <3> QED
        BY <3>2, <3>3
    <2> QED
      BY <2>4 DEF PlainInv
  <1>3. CASE \E a \in DOMAIN accounts : Renames(a)
    <2>1. PICK a \in DOMAIN accounts : Renames(a)
      BY <1>3
    <2> DEFINE new == [username |-> accounts[a].email, email |-> accounts[a].email,
                       staff |-> accounts[a].staff]
    <2>2. /\ DOMAIN accounts' = DOMAIN accounts
          /\ \A b \in DOMAIN accounts : accounts'[b] = IF b = a THEN new ELSE accounts[b]
      BY <1>0, <2>1, RenamedAccount
    <2>3. ASSUME NEW w \in People, Plain(w), NEW b \in DOMAIN accounts, Names(b, w)'
          PROVE  Names(b, w) /\ accounts'[b] = accounts[b]
      <3>1. CASE b # a
        BY <2>2, <2>3, <3>1 DEF Names
      <3>2. CASE b = a
        <4>1. accounts'[b] = new
          BY <2>2, <3>2
        <4>2. Names(a, w)
          BY <2>3, <3>2, <4>1 DEF Names
        <4>3. accounts[a] = NewAccount(Address(w), Address(w))
          BY <2>3, <4>2 DEF PlainInv
        <4>4. new = accounts[a]
          BY <4>3 DEF NewAccount
        <4> QED
          BY <3>2, <4>1, <4>2, <4>4
      <3> QED
        BY <3>1, <3>2
    <2> QED
      BY <2>2, <2>3 DEF PlainInv
  <1> QED
    BY <1>1, <1>2, <1>3 DEF AccountsStep

\* A person whose address is written in lower case wherever it is written, and
\* who has no back-office account, can sign in and finds the profiles that the
\* import and the forms gave that address: there is exactly one account for it
\* (OIDCBackend.filter_users_by_claims).
THEOREM PlainHoldersCanSignIn == Spec => []HoldersCanSignIn
  <1>1. Init => PlainInv
    <2> SUFFICES ASSUME Init, NEW w \in People, Plain(w)
                 PROVE  /\ \A a \in DOMAIN accounts :
                             Names(a, w) => accounts[a] = NewAccount(Address(w), Address(w))
                        /\ \A a, b \in DOMAIN accounts : Names(a, w) /\ Names(b, w) => a = b
      BY DEF PlainInv
    <2>1. accounts = InitAccounts
      BY DEF Init
    <2>2. \A a \in DOMAIN accounts :
            Names(a, w) => accounts[a] = NewAccount(Address(w), Address(w))
      BY <2>1 DEF Plain, Names, Address
    <2>3. \A a, b \in DOMAIN accounts :
            accounts[a].username = accounts[b].username => a = b
      BY <2>1, DirectoryAssumption
    <2> QED
      BY <2>2, <2>3
  <1>2. TInv /\ PlainInv /\ [Next]_directoryVars => PlainInv'
    <2>1. ASSUME TInv, PlainInv, Next PROVE PlainInv'
      BY <2>1, NextStep, PlainStep DEF StepInv
    <2>2. ASSUME PlainInv, UNCHANGED directoryVars PROVE PlainInv'
      BY <2>2 DEF directoryVars, PlainInv, Names
    <2> QED
      BY <2>1, <2>2
  <1>3. TInv /\ PlainInv => HoldersCanSignIn
    <2> SUFFICES ASSUME TInv, PlainInv, NEW p \in ProfileIds,
                        Plain(accounts[profiles[p].account].email.who)
                 PROVE  LET a == profiles[p].account
                        IN  AccountsOf(accounts[a].email) = {a}
      BY DEF HoldersCanSignIn
    <2> DEFINE a == profiles[p].account
               w == accounts[a].email.who
    <2>1. a \in DOMAIN accounts /\ accounts[a] \in Accounts /\ w \in People
      BY ProfileFacts, AccountFacts DEF TInv, Accounts, Emails
    <2>2. Names(a, w) /\ accounts[a] = NewAccount(Address(w), Address(w))
      BY <2>1 DEF PlainInv, Names
    <2>3. /\ accounts[a].username.who = w /\ accounts[a].email.who = w
          /\ accounts[a].staff = FALSE
      BY <2>2 DEF NewAccount, Address
    <2>4. \A b \in DOMAIN accounts : Names(b, w) => b = a
      BY <2>1, <2>2 DEF PlainInv
    <2> HIDE DEF a
    <2> QED
      BY <2>1, <2>3, <2>4 DEF AccountsOf, Names, a
  <1> QED
    BY <1>1, <1>2, <1>3, TInvInvariant, PTL DEF Spec

-----------------------------------------------------------------------------
(* An import that ends has put the whole file into effect.                 *)

\* The organisation a row is about: the one with its reference, or its name.
OrganisationOf(i) == IF Rows[i].ref \in InitOrgs THEN Rows[i].ref ELSE Rows[i].name

\* What the administrators are asked of a file: references are those of
\* organisations the system has generated one for, so none becomes valid while
\* the file is read, and an organisation has one lead department.
FileIsConsistent ==
  /\ \A i \in DOMAIN Rows : Rows[i].ref \in InitOrgs \cup {None, Rows[i].name}
  /\ \A i, j \in DOMAIN Rows :
       OrganisationOf(i) = OrganisationOf(j) => Rows[i].lead = Rows[j].lead

\* The c-th address of row i has its advisor.
Advised(i, c) ==
  \E p \in ProfileIds :
    /\ profiles[p].org = OrganisationOf(i) /\ profiles[p].role = "cyber_advisor"
    /\ accounts[profiles[p].account].email.who = Rows[i].emails[c].who

Handled(i) ==
  /\ OrganisationOf(i) \in DOMAIN orgs
  /\ \A c \in DOMAIN Rows[i].emails : Advised(i, c)

Parented(i) ==
  Rows[i].lead \in DOMAIN orgs =>
    orgs[OrganisationOf(i)].parent =
      IF Rows[i].lead = OrganisationOf(i) THEN None ELSE Rows[i].lead

\* The first pass: the rows before the import's are done, and in its own row
\* the addresses before its column.
FirstPass ==
  /\ imp.at \in {"organisation", "account", "profile"} =>
       \A i \in DOMAIN Rows : i < imp.row => Handled(i)
  /\ imp.at \in {"parent", "done"} => \A i \in DOMAIN Rows : Handled(i)
  /\ imp.at \in {"account", "profile"} =>
       \A c \in DOMAIN Rows[imp.row].emails : c < imp.col => Advised(imp.row, c)
  /\ imp.at = "profile" =>
       accounts[imp.account].email.who = Rows[imp.row].emails[imp.col].who

\* The second pass: the rows before the import's have their parent.
SecondPass ==
  /\ imp.at = "parent" => \A i \in DOMAIN Rows : i < imp.row => Parented(i)
  /\ imp.at = "done" => \A i \in DOMAIN Rows : Parented(i)

NoneOpen == \A f \in Forms : form[f].at \in {"unsent", "done"}

ImportedSoFar ==
  /\ InitOrgs \subseteq DOMAIN orgs
  /\ imp.at \in {"account", "profile"} => imp.org = OrganisationOf(imp.row)
  /\ quiet => NoneOpen /\ FirstPass /\ SecondPass

LEMMA OrganisationFound ==
  ASSUME FileIsConsistent, OrgsInv, InitOrgs \subseteq DOMAIN orgs, NEW i \in DOMAIN Rows
  PROVE  /\ OrganisationOf(i) \in OrgNames
         /\ FindOrganisation(Rows[i]) =
              IF OrganisationOf(i) \in DOMAIN orgs THEN OrganisationOf(i) ELSE None
         /\ OrganisationOf(i) \notin DOMAIN orgs => OrganisationOf(i) = Rows[i].name
  <1>1. Rows[i].name \in OrgNames /\ Rows[i].ref \in InitOrgs \cup {None, Rows[i].name}
    BY RowFields DEF FileIsConsistent
  <1>2. None \notin DOMAIN orgs /\ InitOrgs \subseteq OrgNames
    BY DirectoryAssumption DEF OrgsInv
  <1>3. CASE Rows[i].ref \in InitOrgs
    BY <1>2, <1>3 DEF OrganisationOf, FindOrganisation
  <1>4. CASE Rows[i].ref \notin InitOrgs
    <2>1. OrganisationOf(i) = Rows[i].name /\ Rows[i].ref \in {None, Rows[i].name}
      BY <1>1, <1>4 DEF OrganisationOf
    <2> QED
      BY <1>1, <1>2, <2>1 DEF FindOrganisation
  <1> QED
    BY <1>3, <1>4

\* What an account is known by does not change.
LEMMA EmailsKept ==
  ASSUME AccountsInv, AccountsStep, NEW a \in DOMAIN accounts
  PROVE  a \in DOMAIN accounts' /\ accounts'[a].email = accounts[a].email
  <1>1. CASE UNCHANGED accounts
    BY <1>1
  <1>2. CASE \E e \in Emails : Spelt(e) /\ Adds(e)
    <2>1. accounts'[a] = accounts[a]
      BY <1>2, AddedAccount
    <2> QED
      BY <2>1, AccountsKept
  <1>3. CASE \E b \in DOMAIN accounts : Renames(b)
    <2>1. PICK b \in DOMAIN accounts : Renames(b)
      BY <1>3
    <2>2. accounts'[b] = [username |-> accounts[b].email, email |-> accounts[b].email,
                          staff |-> accounts[b].staff]
      BY <2>1, RenamedAccount
    <2>3. a # b => accounts'[a] = accounts[a]
      BY <2>1, RenamedAccount
    <2>4. DOMAIN accounts' = DOMAIN accounts
      BY <2>1, RenamedAccount
    <2> QED
      BY <2>2, <2>3, <2>4
  <1> QED
    BY <1>1, <1>2, <1>3 DEF AccountsStep

\* While no form is in flight, advisors stay advisors.
LEMMA AdvisedKept ==
  ASSUME TInv, Next, NoneOpen, NEW i \in DOMAIN Rows, NEW c, Advised(i, c)
  PROVE  Advised(i, c)'
  <1>1. PICK p \in ProfileIds :
          /\ profiles[p].org = OrganisationOf(i) /\ profiles[p].role = "cyber_advisor"
          /\ accounts[profiles[p].account].email.who = Rows[i].emails[c].who
    BY DEF Advised
  <1>2. profiles'[p] = profiles[p]
    BY ProfileChange, ProfileFacts DEF Saves, NoneOpen, TInv
  <1>3. p \in ProfileIds'
    BY <1>2 DEF ProfileIds
  <1>4. profiles[p].account \in DOMAIN accounts
    BY ProfileFacts DEF TInv
  <1>5. accounts'[profiles[p].account].email = accounts[profiles[p].account].email
    BY <1>4, NextStep, EmailsKept DEF StepInv, TInv
  <1> QED
    BY <1>1, <1>2, <1>3, <1>5 DEF Advised, OrganisationOf

LEMMA HandledKept ==
  ASSUME TInv, Next, NoneOpen, NEW i \in DOMAIN Rows, Handled(i)
  PROVE  Handled(i)'
  <1>1. OrganisationOf(i) \in DOMAIN orgs'
    BY NextStep DEF Handled, StepInv, OrgsKept
  <1> QED
    BY <1>1, AdvisedKept DEF Handled, OrganisationOf

LEMMA RowColumns ==
  ASSUME NEW i \in DOMAIN Rows
  PROVE  /\ \A c \in DOMAIN Rows[i].emails : c \in Nat /\ 1 <= c
         /\ \A c \in Nat \ {0}, d \in DOMAIN Rows[i].emails :
              c \notin DOMAIN Rows[i].emails => d < c
  <1>1. PICK n \in 0..2 : Rows[i].emails \in [1..n -> Emails]
    BY RowFields
  <1> QED
    BY <1>1

\* Only the import itself is quiet.
LEMMA QuietStep ==
  ASSUME TInv, ImportedSoFar, Next, quiet'
  PROVE  /\ Import /\ NoneOpen'
         /\ ~ BeginImport => quiet /\ NoneOpen
  <1>1. CASE BeginImport
    BY <1>1 DEF BeginImport, Import, NoneOpen
  <1>2. CASE Import /\ ~ BeginImport
    BY <1>2 DEF Import, ImportOrganisation, ImportAccount, ImportProfile, ImportNextRow,
       ImportParent, ImportStops, ImportedSoFar, NoneOpen
  <1>3. CASE \E e \in Typed : SignIn(e)
    BY <1>3 DEF SignIn
  <1>4. CASE \E f \in Forms : Posting(f)
    BY <1>4 DEF Posting, Post
  <1>5. CASE \E f \in Forms : Reading(f) \/ Saving(f) \/ Refused(f)
    <2>1. quiet /\ ~ NoneOpen
      BY <1>5 DEF Reading, ReadSender, ReadNoSender, ReadEdited, ReadRemoved, ReadSystem, Saving,
         SaveEdit, SaveCreate, SaveRemove, SaveSystem, Refused, formOnly, NoneOpen
    <2> QED
      BY <2>1 DEF ImportedSoFar
  <1> QED
    BY <1>1, <1>2, <1>3, <1>4, <1>5 DEF Next

LEMMA BeginQuiet ==
  ASSUME TInv, BeginImport
  PROVE  FirstPass' /\ SecondPass'
  <1>1. CASE Rows = <<>>
    <2>1. imp'.at = "done" /\ DOMAIN Rows = {}
      BY <1>1, IdleImport DEF BeginImport
    <2> QED
      BY <2>1 DEF FirstPass, SecondPass
  <1>2. CASE Rows # <<>>
    <2>1. imp' = [Idle EXCEPT !.at = "organisation", !.row = 1]
      BY <1>2 DEF BeginImport
    <2>2. imp'.at = "organisation" /\ imp'.row = 1
      BY <2>1, RowImport
    <2>3. \A i \in DOMAIN Rows : ~ (i < 1)
      BY RowFields
    <2> QED
      BY <2>2, <2>3 DEF FirstPass, SecondPass
  <1> QED
    BY <1>1, <1>2

LEMMA OrganisationQuiet ==
  ASSUME FileIsConsistent, TInv, ImportedSoFar, Next, ImportOrganisation
  PROVE  /\ imp'.org = OrganisationOf(imp'.row)
         /\ quiet => FirstPass' /\ SecondPass'
  <1> DEFINE found == FindOrganisation(Rows[imp.row])
             name  == IF found = None THEN Rows[imp.row].name ELSE found
  <1>1. imp.row \in DOMAIN Rows /\ imp \in Imports /\ imp.at = "organisation"
    BY DEF ImportOrganisation, TInv, ImportInv
  <1>2. name = OrganisationOf(imp.row) /\ name \in OrgNames
    BY <1>1, OrganisationFound, DirectoryAssumption DEF ImportedSoFar, TInv
  <1>3. imp' = [imp EXCEPT !.at = "account", !.col = 1, !.org = name]
    BY DEF ImportOrganisation
  <1> HIDE DEF name, found
  <1>4. imp'.at = "account" /\ imp'.row = imp.row /\ imp'.col = 1 /\ imp'.org = name
    BY <1>1, <1>2, <1>3, AccountImport
  <1>5. imp'.org = OrganisationOf(imp'.row)
    BY <1>2, <1>4
  <1>6. ASSUME quiet PROVE FirstPass' /\ SecondPass'
    <2>1. NoneOpen /\ \A i \in DOMAIN Rows : i < imp.row => Handled(i)
      BY <1>1, <1>6 DEF ImportedSoFar, FirstPass
    <2>2. \A i \in DOMAIN Rows : i < imp.row => Handled(i)'
      BY <2>1, HandledKept
    <2>3. \A c \in DOMAIN Rows[imp.row].emails : ~ (c < 1)
      BY <1>1, RowColumns
    <2> QED
      BY <1>4, <2>2, <2>3 DEF FirstPass, SecondPass
  <1> QED
    BY <1>5, <1>6

LEMMA AccountQuiet ==
  ASSUME TInv, ImportedSoFar, Next, ImportAccount
  PROVE  /\ imp'.at \in {"account", "profile"} => imp'.org = OrganisationOf(imp'.row)
         /\ quiet => FirstPass' /\ SecondPass'
  <1>1. imp.row \in DOMAIN Rows /\ imp \in Imports /\ imp.at = "account"
    BY DEF ImportAccount, TInv, ImportInv
  <1>2. CASE imp'.at = "failed"
    BY <1>2 DEF FirstPass, SecondPass
  <1>3. CASE imp'.at = "profile"
    <2>1. /\ imp' = [imp EXCEPT !.at = "profile", !.account = imp'.account]
          /\ accounts'[imp'.account].email.who = Rows[imp.row].emails[imp.col].who
      BY <1>3, ImportedAccount
    <2>2. PICK a : a = imp'.account
      OBVIOUS
    <2>3. imp'.row = imp.row /\ imp'.col = imp.col /\ imp'.org = imp.org
      BY <1>1, <2>1, <2>2 DEF Imports
    <2>4. imp'.org = OrganisationOf(imp'.row)
      BY <1>1, <2>3 DEF ImportedSoFar
    <2>5. ASSUME quiet PROVE FirstPass' /\ SecondPass'
      <3>1. /\ NoneOpen
            /\ \A i \in DOMAIN Rows : i < imp.row => Handled(i)
            /\ \A c \in DOMAIN Rows[imp.row].emails : c < imp.col => Advised(imp.row, c)
        BY <1>1, <2>5 DEF ImportedSoFar, FirstPass
      <3>2. \A i \in DOMAIN Rows : i < imp.row => Handled(i)'
        BY <3>1, HandledKept
      <3>3. PICK r \in DOMAIN Rows, k \in {imp.col} : r = imp.row /\ k = imp.col
        BY <1>1
      <3>4. \A c \in DOMAIN Rows[r].emails : c < k => Advised(r, c)'
        BY <3>1, <3>3, AdvisedKept
      <3>5. imp'.row = r /\ imp'.col = k
        BY <2>3, <3>3
      <3>6. (\A c \in DOMAIN Rows[imp.row].emails : c < imp.col => Advised(imp.row, c))'
        BY <3>4, <3>5 DEF Advised, OrganisationOf
      <3> QED
        BY <1>3, <2>1, <2>3, <3>2, <3>6 DEF FirstPass, SecondPass
    <2> QED
      BY <2>4, <2>5
  <1> QED
    BY <1>2, <1>3, ImportedAccount

\* The profile the import finds or makes is the advisor's of its address.
LEMMA AdvisorMade ==
  ASSUME TInv, ImportedSoFar, ImportProfile, quiet, imp'.at # "failed",
         NEW r, r = imp.row, NEW k, k = imp.col
  PROVE  Advised(r, k)'
  <1> DEFINE new == [account |-> imp.account, org |-> imp.org, role |-> "cyber_advisor"]
  <1>1. /\ imp.row \in DOMAIN Rows /\ imp \in Imports /\ imp.at = "profile"
        /\ accounts' = accounts
        /\ imp.account \in DOMAIN accounts /\ imp.org \in OrgNames
    BY DEF ImportProfile, TInv, ImportInv, OrgsInv
  <1>2. /\ imp.org = OrganisationOf(imp.row)
        /\ accounts[imp.account].email.who = Rows[imp.row].emails[imp.col].who
    BY <1>1 DEF ImportedSoFar, FirstPass
  <1>3. [imp EXCEPT !.at = "failed"].at = "failed"
    BY <1>1 DEF Imports
  <1>4. \/ Cardinality(AdvisorProfiles(imp.account, imp.org)) = 1 /\ profiles' = profiles
        \/ Makes(new)
    BY <1>3 DEF ImportProfile, Makes
  <1>5. \E p \in ProfileIds' : profiles'[p] = new
    <2>1. CASE /\ Cardinality(AdvisorProfiles(imp.account, imp.org)) = 1
               /\ profiles' = profiles
      <3>1. AdvisorProfiles(imp.account, imp.org) # {}
        BY <2>1, FS_EmptySet
      <3> QED
        BY <2>1, <3>1 DEF AdvisorProfiles, ProfileIds
    <2>2. CASE Makes(new)
      <3>1. imp.account \in 1..MaxAccounts
        BY <1>1, AccountFacts, DirectoryAssumption DEF TInv, AccountsInv
      <3>2. new \in Profiles
        BY <1>1, <3>1 DEF Profiles, Roles
      <3> HIDE DEF new
      <3>3. made' \in ProfileIds' /\ profiles'[made'] = new
        BY <2>2, <3>2, MadeProfile DEF TInv
      <3> QED
        BY <3>3
    <2> QED
      BY <1>4, <2>1, <2>2
  <1>6. new.account = imp.account /\ new.org = imp.org /\ new.role = "cyber_advisor"
    OBVIOUS
  <1> HIDE DEF new
  <1> QED
    BY <1>1, <1>2, <1>5, <1>6 DEF Advised, OrganisationOf

LEMMA ProfileQuiet ==
  ASSUME TInv, ImportedSoFar, Next, ImportProfile
  PROVE  /\ imp'.at \in {"account", "profile"} => imp'.org = OrganisationOf(imp'.row)
         /\ quiet => FirstPass' /\ SecondPass'
  <1>1. imp.row \in DOMAIN Rows /\ imp \in Imports /\ imp.at = "profile"
    BY DEF ImportProfile, TInv, ImportInv
  <1>2. CASE imp' = [imp EXCEPT !.at = "failed"]
    <2>1. imp'.at = "failed"
      BY <1>1, <1>2 DEF Imports
    <2> QED
      BY <2>1 DEF FirstPass, SecondPass
  <1>3. CASE imp' = [imp EXCEPT !.at = "account", !.col = @ + 1, !.account = 0]
    <2>1. /\ imp'.at = "account" /\ imp'.row = imp.row /\ imp'.col = imp.col + 1
          /\ imp'.org = imp.org /\ imp.col \in Nat
      BY <1>1, <1>3, NextColumn
    <2>2. imp'.org = OrganisationOf(imp'.row)
      BY <1>1, <2>1 DEF ImportedSoFar
    <2>3. ASSUME quiet PROVE FirstPass' /\ SecondPass'
      <3>1. /\ NoneOpen
            /\ \A i \in DOMAIN Rows : i < imp.row => Handled(i)
            /\ \A c \in DOMAIN Rows[imp.row].emails : c < imp.col => Advised(imp.row, c)
        BY <1>1, <2>3 DEF ImportedSoFar, FirstPass
      <3>2. \A i \in DOMAIN Rows : i < imp.row => Handled(i)'
        BY <3>1, HandledKept
      <3>3. PICK r \in DOMAIN Rows, k \in Nat : r = imp.row /\ k = imp.col
        BY <1>1, <2>1
      <3>4. \A c \in DOMAIN Rows[r].emails : c < k => Advised(r, c)'
        BY <3>1, <3>3, AdvisedKept
      <3>5. Advised(r, k)'
        BY <2>1, <2>3, <3>3, AdvisorMade
      <3>6. \A c \in DOMAIN Rows[r].emails : c < k + 1 => c < k \/ c = k
        BY <3>3, RowColumns
      <3>7. imp'.row = r /\ imp'.col = k + 1
        BY <2>1, <3>3
      <3>8. (\A c \in DOMAIN Rows[imp.row].emails : c < imp.col => Advised(imp.row, c))'
        BY <3>4, <3>5, <3>6, <3>7 DEF Advised, OrganisationOf
      <3> QED
        BY <2>1, <3>2, <3>8 DEF FirstPass, SecondPass
    <2> QED
      BY <2>2, <2>3
  <1> QED
    BY <1>2, <1>3 DEF ImportProfile

LEMMA NextRowQuiet ==
  ASSUME TInv, ImportedSoFar, Next, ImportNextRow
  PROVE  /\ imp'.at \notin {"account", "profile"}
         /\ quiet => FirstPass' /\ SecondPass'
  <1>1. /\ imp.row \in DOMAIN Rows /\ imp \in Imports /\ imp.at = "account"
        /\ imp.col \in Nat \ {0} /\ imp.org \in DOMAIN orgs
        /\ imp.col \notin DOMAIN Rows[imp.row].emails
    BY DEF ImportNextRow, TInv, ImportInv, Imports
  <1>2. ASSUME quiet PROVE \A i \in DOMAIN Rows : i <= imp.row => Handled(i)'
    <2>1. /\ NoneOpen
          /\ \A i \in DOMAIN Rows : i < imp.row => Handled(i)
          /\ \A c \in DOMAIN Rows[imp.row].emails : c < imp.col => Advised(imp.row, c)
      BY <1>1, <1>2 DEF ImportedSoFar, FirstPass
    <2>2. Handled(imp.row)
      BY <1>1, <2>1, RowColumns DEF Handled, ImportedSoFar
    <2>3. \A i \in DOMAIN Rows : i <= imp.row => Handled(i)
      BY <1>1, <2>1, <2>2, RowNumbers
    <2> QED
      BY <2>1, <2>3, HandledKept
  <1>3. CASE /\ imp.row < Len(Rows)
             /\ imp' = [Idle EXCEPT !.at = "organisation", !.row = imp.row + 1]
    <2>1. imp'.at = "organisation" /\ imp'.row = imp.row + 1
      <3>1. imp.row + 1 \in Nat
        BY <1>1, RowNumbers
      <3> QED
        BY <1>3, <3>1, RowImport
    <2>2. \A i \in DOMAIN Rows : i < imp'.row => i <= imp.row
      BY <1>1, <2>1, RowNumbers
    <2> QED
      BY <1>2, <2>1, <2>2 DEF FirstPass, SecondPass
  <1>4. CASE /\ ~ (imp.row < Len(Rows))
             /\ imp' = [Idle EXCEPT !.at = "parent", !.row = 1]
    <2>1. imp'.at = "parent" /\ imp'.row = 1
      BY <1>4, RowImport
    <2>2. \A i \in DOMAIN Rows : i <= imp.row /\ ~ (i < 1)
      BY <1>1, <1>4, RowNumbers
    <2> QED
      BY <1>2, <2>1, <2>2 DEF FirstPass, SecondPass
  <1> QED
    BY <1>3, <1>4 DEF ImportNextRow

LEMMA ParentQuiet ==
  ASSUME FileIsConsistent, TInv, ImportedSoFar, Next, ImportParent
  PROVE  /\ imp'.at \notin {"account", "profile"}
         /\ quiet => FirstPass' /\ SecondPass'
  <1> DEFINE lead == Rows[imp.row].lead
             org  == FindOrganisation(Rows[imp.row])
             parent == IF org = lead THEN None ELSE lead
  <1>1. imp.row \in DOMAIN Rows /\ imp \in Imports /\ imp.at = "parent"
    BY DEF ImportParent, TInv, ImportInv
  <1>2. \/ /\ imp.row < Len(Rows)
           /\ imp' = [imp EXCEPT !.row = @ + 1]
           /\ imp'.at = "parent" /\ imp'.row = imp.row + 1
        \/ /\ ~ (imp.row < Len(Rows))
           /\ imp'.at = "done"
    <2>1. /\ [imp EXCEPT !.row = @ + 1].at = "parent"
          /\ [imp EXCEPT !.row = @ + 1].row = imp.row + 1
      BY <1>1 DEF Imports
    <2> QED
      BY <2>1, IdleImport DEF ImportParent
  <1>3. ASSUME quiet PROVE FirstPass' /\ SecondPass'
    <2>1. /\ NoneOpen /\ \A i \in DOMAIN Rows : Handled(i)
          /\ \A i \in DOMAIN Rows : i < imp.row => Parented(i)
      BY <1>1, <1>3 DEF ImportedSoFar, FirstPass, SecondPass
    <2>2. \A i \in DOMAIN Rows : Handled(i)'
      BY <2>1, HandledKept
    <2>3. org = OrganisationOf(imp.row) /\ org \in DOMAIN orgs
      BY <1>1, <2>1, OrganisationFound DEF Handled, ImportedSoFar, TInv
    <2>4. parent \in OrgNames \cup {None}
      BY <1>1, RowFields
    <2>5. orgs' = IF lead \in DOMAIN orgs THEN [orgs EXCEPT ![org].parent = parent] ELSE orgs
      BY DEF ImportParent
    <2> HIDE DEF org
    <2>6. \A i \in DOMAIN Rows : i <= imp.row => Parented(i)'
      <3>1. CASE lead \notin DOMAIN orgs
        <4>1. orgs' = orgs /\ Parented(imp.row)
          BY <2>5, <3>1 DEF Parented
        <4>2. \A i \in DOMAIN Rows : i <= imp.row => Parented(i)
          BY <1>1, <2>1, <4>1, RowNumbers
        <4> QED
          BY <4>1, <4>2 DEF Parented, OrganisationOf
      <3>2. CASE lead \in DOMAIN orgs
        <4> HIDE DEF parent
        <4>1. /\ DOMAIN orgs' = DOMAIN orgs
              /\ \A o \in DOMAIN orgs :
                   orgs'[o] = IF o = org THEN [parent |-> parent] ELSE orgs[o]
          BY <2>4, <2>5, <3>2, ParentSet DEF TInv
        <4>2. ASSUME NEW i \in DOMAIN Rows, i <= imp.row PROVE Parented(i)'
          <5>1. CASE OrganisationOf(i) = org
            <6>1. Rows[i].lead = lead
              BY <1>1, <2>3, <5>1 DEF FileIsConsistent
            <6>2. orgs'[org].parent = parent
              BY <2>3, <4>1
            <6> QED
              BY <5>1, <6>1, <6>2 DEF Parented, OrganisationOf, parent
          <5>2. CASE OrganisationOf(i) # org
            <6>1. i # imp.row
              BY <2>3, <5>2
            <6>2. Parented(i)
              BY <1>1, <2>1, <4>2, <6>1, RowNumbers
            <6>3. orgs'[OrganisationOf(i)] = orgs[OrganisationOf(i)]
              BY <2>1, <4>1, <5>2 DEF Handled
            <6> QED
              BY <4>1, <6>2, <6>3 DEF Parented, OrganisationOf
          <5> QED
            BY <5>1, <5>2
        <4> QED
          BY <4>2
      <3> QED
        BY <3>1, <3>2
    <2>7. CASE imp'.at = "parent" /\ imp'.row = imp.row + 1
      <3>1. \A i \in DOMAIN Rows : i < imp.row + 1 => i <= imp.row
        BY <1>1, RowNumbers
      <3> QED
        BY <2>2, <2>6, <2>7, <3>1 DEF FirstPass, SecondPass
    <2>8. CASE ~ (imp.row < Len(Rows)) /\ imp'.at = "done"
      <3>1. \A i \in DOMAIN Rows : i <= imp.row
        BY <1>1, <2>8, RowNumbers
      <3> QED
        BY <2>2, <2>6, <2>8, <3>1 DEF FirstPass, SecondPass
    <2> QED
      BY <1>2, <2>7, <2>8
  <1> QED
    BY <1>2, <1>3

LEMMA ImportedSoFarStep ==
  ASSUME FileIsConsistent, TInv, ImportedSoFar, Next
  PROVE  ImportedSoFar'
  <1>1. InitOrgs \subseteq DOMAIN orgs'
    BY NextStep DEF ImportedSoFar, StepInv, OrgsKept
  <1>2. /\ imp'.at \in {"account", "profile"} => imp'.org = OrganisationOf(imp'.row)
        /\ quiet /\ Import /\ ~ BeginImport => FirstPass' /\ SecondPass'
        /\ BeginImport => FirstPass' /\ SecondPass'
    <2>1. CASE BeginImport
      <3>1. imp'.at \in {"organisation", "done"}
        BY <2>1, RowImport, IdleImport DEF BeginImport
      <3> QED
        BY <2>1, <3>1, BeginQuiet
    <2>2. CASE ImportOrganisation
      BY <2>2, OrganisationQuiet DEF BeginImport, ImportOrganisation
    <2>3. CASE ImportAccount
      BY <2>3, AccountQuiet DEF BeginImport, ImportAccount
    <2>4. CASE ImportProfile
      BY <2>4, ProfileQuiet DEF BeginImport, ImportProfile
    <2>5. CASE ImportNextRow
      BY <2>5, NextRowQuiet DEF BeginImport, ImportNextRow
    <2>6. CASE ImportParent
      BY <2>6, ParentQuiet DEF BeginImport, ImportParent
    <2>7. CASE ImportStops
      <3>1. imp'.at = "failed"
        BY <2>7, IdleImport DEF ImportStops
      <3> QED
        BY <2>7, <3>1 DEF FirstPass, SecondPass, BeginImport, ImportStops
    <2>8. CASE ~ Import
      <3>1. imp' = imp
        BY <2>8 DEF Next, SignIn, Posting, Post, Reading, ReadSender, ReadNoSender, ReadEdited,
           ReadRemoved, ReadSystem, Saving, SaveEdit, SaveCreate, SaveRemove, SaveSystem, Refused,
           formOnly
      <3> QED
        BY <2>8, <3>1 DEF ImportedSoFar, OrganisationOf, Import
    <2> QED
      BY <2>1, <2>2, <2>3, <2>4, <2>5, <2>6, <2>7, <2>8 DEF Import
  <1>3. quiet' => NoneOpen' /\ FirstPass' /\ SecondPass'
    BY <1>2, QuietStep
  <1> QED
    BY <1>1, <1>2, <1>3 DEF ImportedSoFar, OrganisationOf

\* An import of a consistent file that ends, with no form or sign-in meanwhile,
\* has put every row into effect, whatever the order of the rows and whatever
\* earlier imports that stopped half way had written (import_csv): the
\* organisation exists, each of its addresses has an advisor profile, and it
\* has the parent the row names.
THEOREM ImportsAreComplete ==
  ASSUME FileIsConsistent
  PROVE  Spec => []ImportComplete
  <1>1. Init => ImportedSoFar
    <2> SUFFICES ASSUME Init PROVE ImportedSoFar
      OBVIOUS
    <2>1. imp.at = "idle" /\ DOMAIN orgs = InitOrgs /\ NoneOpen
      BY IdleFields DEF Init, NoneOpen, Unsent, Request
    <2> QED
      BY <2>1 DEF ImportedSoFar, FirstPass, SecondPass
  <1>2. TInv /\ ImportedSoFar /\ [Next]_directoryVars => ImportedSoFar'
    <2>1. ASSUME TInv, ImportedSoFar, Next PROVE ImportedSoFar'
      BY <2>1, ImportedSoFarStep
    <2>2. ASSUME ImportedSoFar, UNCHANGED directoryVars PROVE ImportedSoFar'
      BY <2>2 DEF directoryVars, ImportedSoFar, FirstPass, SecondPass, Handled, Advised,
         Parented, OrganisationOf, ProfileIds, NoneOpen
    <2> QED
      BY <2>1, <2>2
  <1>3. TInv /\ ImportedSoFar => ImportComplete
    <2> SUFFICES ASSUME TInv, ImportedSoFar, imp.at = "done", quiet, NEW i \in DOMAIN Rows
                 PROVE  RowHolds(i)
      BY DEF ImportComplete
    <2>1. Handled(i) /\ Parented(i) /\ InitOrgs \subseteq DOMAIN orgs
      BY DEF ImportedSoFar, FirstPass, SecondPass
    <2>2. FindOrganisation(Rows[i]) = OrganisationOf(i) /\ OrganisationOf(i) # None
      BY <2>1, OrganisationFound, DirectoryAssumption DEF Handled, TInv
    <2> QED
      BY <2>1, <2>2 DEF RowHolds, Handled, Advised, Parented
  <1> QED
    BY <1>1, <1>2, <1>3, TInvInvariant, PTL DEF Spec

=============================================================================

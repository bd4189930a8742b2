----------------------------- MODULE Directory -----------------------------
(***************************************************************************)
(* Who is who: organisations, accounts (django User), profiles (class      *)
(* UserProfile: the association of an account with an organisation and a   *)
(* role) and systems.  Three writers change them: the CSV import of the    *)
(* back office (OrganisationAdmin.import_csv), the forms of the people who *)
(* manage users and systems in an organisation, and the OIDC sign-in.      *)
(*                                                                         *)
(* The import writes row by row without a transaction, so it may stop      *)
(* between any two writes and other requests see its progress.  The forms  *)
(* of several senders are under way at once: each checks the role of its   *)
(* sender, reads the sender's profile again, reads what it is about, and   *)
(* saves what it read, so it is four steps between which others come.      *)
(*                                                                         *)
(* An address is a mailbox and a spelling: the code compares addresses     *)
(* exactly in one place, ignoring case in another, lowers them in a third  *)
(* and (create_user) lowers the part after the @ in a fourth.              *)
(***************************************************************************)
EXTENDS Naturals, Sequences, FiniteSets

CONSTANTS
  People,          \* the mailboxes
  OrgNames,        \* the organisations there can be, by their unique name
  SystemNames,     \* the names of systems
  Rows,            \* the rows of the CSV file
  FormRoles,       \* the roles the forms are filled in with
  Typed,           \* the addresses people type into forms or sign in with
  Forms,           \* the forms that are ever posted
  InitAccounts,    \* the accounts, profiles and organisations at the start
  InitProfiles,
  InitOrgs,
  MaxAccounts,     \* bounds: accounts and profiles ever made, imports begun
  MaxProfiles,
  MaxImports,
  None             \* no organisation, no parent, no reference in a row

\* How an address is spelt: all in lower case, with a capital before the @,
\* or with a capital after it.
Spellings == {"lower", "local", "domain"}

Emails == [who : People, caps : Spellings]

Roles == {"cyber_advisor", "organisation_lead", "organisation_user", "reviewer", "assessor"}

Accounts == [username : Emails, email : Emails, staff : BOOLEAN]

Profiles == [account : 1..MaxAccounts, org : OrgNames \cup {None}, role : Roles]

Organisations == [parent : OrgNames \cup {None}]

Systems == [name : SystemNames, org : OrgNames]

CsvRows ==
  [name : OrgNames, ref : OrgNames \cup {None}, lead : OrgNames \cup {None},
   emails : UNION {[1..n -> Emails] : n \in 0..2}]

ASSUME DirectoryAssumption ==
  /\ None \notin OrgNames
  /\ MaxAccounts \in Nat /\ MaxProfiles \in Nat /\ MaxImports \in Nat
  /\ Typed \subseteq Emails
  /\ FormRoles \subseteq Roles \ {"cyber_advisor"}
  /\ Rows \in Seq(CsvRows)
  /\ InitAccounts \in Seq(Accounts) /\ Len(InitAccounts) <= MaxAccounts
  /\ InitProfiles \in Seq(Profiles) /\ Len(InitProfiles) <= MaxProfiles
  /\ InitOrgs \subseteq OrgNames
  \* user names are unique, and a profile refers to an account
  /\ \A a, b \in DOMAIN InitAccounts :
       InitAccounts[a].username = InitAccounts[b].username => a = b
  /\ \A p \in DOMAIN InitProfiles : InitProfiles[p].account \in DOMAIN InitAccounts

ASSUME RecordAssumption == \A p \in Profiles : p # None

\* Names the roles may manage users with, and systems with: the
\* get_allowed_roles of the views.
UserManagers == {"cyber_advisor", "organisation_lead"}
SystemManagers == {"cyber_advisor"}

VARIABLES
  accounts,     \* the accounts, in order of their ids
  profiles,     \* [1..MaxProfiles -> a profile or None]
  made,         \* how many profile ids have been used
  orgs,         \* organisation name -> the organisation, for those that exist
  systems,      \* the systems, in order of their ids
  imp,          \* the running import: where it is, in which row and column
  imports,      \* how many imports were begun
  quiet,        \* no form or sign-in wrote since the import began
  form          \* how far each form is

directoryVars == <<accounts, profiles, made, orgs, systems, imp, imports, quiet, form>>

---------------------------------------------------------------------------
(* Addresses and accounts.                                                 *)

\* str.lower, and the normalize_email of django's create_user.
Lowered(e) == [e EXCEPT !.caps = "lower"]
Normalised(e) == IF e.caps = "domain" THEN Lowered(e) ELSE e

UsernameTaken(e) == \E a \in DOMAIN accounts : accounts[a].username = e

\* The accounts a sign-in may use: OIDCBackend.filter_users_by_claims
\* compares username and email ignoring case and leaves staff out.
AccountsOf(e) ==
  {a \in DOMAIN accounts :
     /\ accounts[a].username.who = e.who
     /\ accounts[a].email.who = e.who
     /\ ~accounts[a].staff}

\* A look-up that drops the address.
AnyFormAccount(e) == {a \in DOMAIN accounts : ~accounts[a].staff}

\* What get_or_create looks up in UserProfileForm.save.
FormAccounts(e) ==
  {a \in DOMAIN accounts : accounts[a].email = e /\ ~accounts[a].staff}

\* What the import looks up: any account of exactly this address.
ImportAccounts(e) == {a \in DOMAIN accounts : accounts[a].email = e}

FirstOf(ids) == CHOOSE a \in ids : \A b \in ids : a <= b

NewAccount(username, email) == [username |-> username, email |-> email, staff |-> FALSE]

ProfileIds == {p \in 1..MaxProfiles : profiles[p] # None}

\* A look-up by the label of the role instead of its key.
AdvisorsByLabel(a, o) ==
  {p \in ProfileIds : profiles[p] = [account |-> a, org |-> o, role |-> "Cyber adviser"]}

AdvisorProfiles(a, o) ==
  {p \in ProfileIds : profiles[p] = [account |-> a, org |-> o, role |-> "cyber_advisor"]}

---------------------------------------------------------------------------
Request(at, op, actor, target, name) ==
  [at |-> at, op |-> op, actor |-> actor, target |-> target, name |-> name,
   org |-> None, found |-> FALSE]

Unsent == Request("unsent", "none", 0, 0, None)

Idle == [at |-> "idle", row |-> 0, col |-> 0, org |-> None, account |-> 0]

Init ==
  /\ accounts = InitAccounts
  /\ profiles = [p \in 1..MaxProfiles |->
                   IF p <= Len(InitProfiles) THEN InitProfiles[p] ELSE None]
  /\ made = Len(InitProfiles)
  /\ orgs = [o \in InitOrgs |-> [parent |-> None]]
  /\ systems = <<>>
  /\ imp = Idle
  /\ imports = 0
  /\ quiet = TRUE
  /\ form = [f \in Forms |-> Unsent]

---------------------------------------------------------------------------
(* The CSV import.                                                         *)

\* find_organisation: by the reference of the row, then by its name.
FindOrganisation(r) ==
  IF r.ref \in DOMAIN orgs THEN r.ref
  ELSE IF r.name \in DOMAIN orgs THEN r.name
  ELSE None

BeginImport ==
  /\ imp.at \in {"idle", "done", "failed"}
  /\ imports < MaxImports
  /\ imports' = imports + 1
  /\ imp' = IF Rows = <<>> THEN [Idle EXCEPT !.at = "done"]
            ELSE [Idle EXCEPT !.at = "organisation", !.row = 1]
  /\ quiet' = (\A f \in Forms : form[f].at \in {"unsent", "done"})
  /\ UNCHANGED <<accounts, profiles, made, orgs, systems, form>>

\* The organisation of the row is found or created.
ImportOrganisation ==
  /\ imp.at = "organisation"
  /\ imp.row \in DOMAIN Rows
  /\ LET found == FindOrganisation(Rows[imp.row])
         name  == IF found = None THEN Rows[imp.row].name ELSE found
     IN  /\ imp' = [imp EXCEPT !.at = "account", !.col = 1, !.org = name]
         /\ orgs' = IF found = None
                    THEN [o \in DOMAIN orgs \cup {name} |->
                            IF o = name THEN [parent |-> None] ELSE orgs[o]]
                    ELSE orgs
  /\ UNCHANGED <<accounts, profiles, made, systems, imports, quiet, form>>

\* The account of the next address is found or created.  create_user is
\* refused when the user name, which is the address as typed, is taken.
ImportAccount ==
  /\ imp.at = "account"
  /\ imp.col \in DOMAIN Rows[imp.row].emails
  /\ LET e     == Rows[imp.row].emails[imp.col]
         found == ImportAccounts(e)
     IN  \/ /\ found # {}
            /\ imp' = [imp EXCEPT !.at = "profile", !.account = FirstOf(found)]
            /\ UNCHANGED accounts
         \/ /\ found = {} /\ ~UsernameTaken(e)
            /\ Len(accounts) < MaxAccounts
            /\ accounts' = Append(accounts, NewAccount(e, Normalised(e)))
            /\ imp' = [imp EXCEPT !.at = "profile", !.account = Len(accounts')]
         \/ /\ found = {} /\ UsernameTaken(e)
            /\ imp' = [imp EXCEPT !.at = "failed"]
            /\ UNCHANGED accounts
  /\ UNCHANGED <<profiles, made, orgs, systems, imports, quiet, form>>

\* UserProfile.objects.get_or_create: an advisor of the organisation.
ImportProfile ==
  /\ imp.at = "profile"
  /\ LET found == AdvisorProfiles(imp.account, imp.org)
         next  == [imp EXCEPT !.at = "account", !.col = @ + 1, !.account = 0]
     IN  \/ /\ Cardinality(found) = 1
            /\ imp' = next
            /\ UNCHANGED <<profiles, made>>
         \/ /\ found = {}
            /\ made < MaxProfiles
            /\ made' = made + 1
            /\ profiles' = [profiles EXCEPT ![made'] =
                 [account |-> imp.account, org |-> imp.org, role |-> "cyber_advisor"]]
            /\ imp' = next
         \/ /\ Cardinality(found) > 1
            /\ imp' = [imp EXCEPT !.at = "failed"]
            /\ UNCHANGED <<profiles, made>>
  /\ UNCHANGED <<accounts, orgs, systems, imports, quiet, form>>

\* A row counter that runs past the file.
NextRowPastTheEnd ==
  /\ imp.at = "account"
  /\ imp.col \notin DOMAIN Rows[imp.row].emails
  /\ imp' = [Idle EXCEPT !.at = "organisation", !.row = imp.row + 1]
  /\ UNCHANGED <<accounts, profiles, made, orgs, systems, imports, quiet, form>>

\* The row has no further address; after the last row the file is read again.
ImportNextRow ==
  /\ imp.at = "account"
  /\ imp.col \notin DOMAIN Rows[imp.row].emails
  /\ imp' = IF imp.row < Len(Rows)
            THEN [Idle EXCEPT !.at = "organisation", !.row = imp.row + 1]
            ELSE [Idle EXCEPT !.at = "parent", !.row = 1]
  /\ UNCHANGED <<accounts, profiles, made, orgs, systems, imports, quiet, form>>

\* A second pass in which a lead department becomes its own parent.
ParentUnchecked ==
  /\ imp.at = "parent"
  /\ imp.row \in DOMAIN Rows
  /\ LET lead == Rows[imp.row].lead
         org  == FindOrganisation(Rows[imp.row])
     IN  orgs' = IF lead \in DOMAIN orgs THEN [orgs EXCEPT ![org].parent = lead] ELSE orgs
  /\ imp' = IF imp.row < Len(Rows)
            THEN [imp EXCEPT !.row = @ + 1]
            ELSE [Idle EXCEPT !.at = "done"]
  /\ UNCHANGED <<accounts, profiles, made, systems, imports, quiet, form>>

\* The second pass: the lead department of the row, if there is one of that
\* name, becomes the parent of the row's organisation, unless it is the same.
ImportParent ==
  /\ imp.at = "parent"
  /\ imp.row \in DOMAIN Rows
  /\ LET lead == Rows[imp.row].lead
         org  == FindOrganisation(Rows[imp.row])
     IN  orgs' = IF lead \in DOMAIN orgs
                 THEN [orgs EXCEPT ![org].parent = IF org = lead THEN None ELSE lead]
                 ELSE orgs
  /\ imp' = IF imp.row < Len(Rows)
            THEN [imp EXCEPT !.row = @ + 1]
            ELSE [Idle EXCEPT !.at = "done"]
  /\ UNCHANGED <<accounts, profiles, made, systems, imports, quiet, form>>

\* The server stops or the request times out; what was written stays.
ImportStops ==
  /\ imp.at \in {"organisation", "account", "profile", "parent"}
  /\ imp' = [Idle EXCEPT !.at = "failed"]
  /\ UNCHANGED <<accounts, profiles, made, orgs, systems, imports, quiet, form>>

Import ==
  \/ BeginImport \/ ImportOrganisation \/ ImportAccount \/ ImportProfile
  \/ ImportNextRow \/ ImportParent \/ ImportStops

---------------------------------------------------------------------------
(* Sign-in: OIDCBackend finds the account of the claims, or creates it.    *)
(* Two accounts for the address, or a user name that is taken, and nobody  *)
(* is signed in.                                                           *)

SignIn(e) ==
  /\ AccountsOf(e) = {}
  /\ ~UsernameTaken(e)
  /\ Len(accounts) < MaxAccounts
  /\ accounts' = Append(accounts, NewAccount(e, Normalised(e)))
  /\ quiet' = FALSE
  /\ UNCHANGED <<profiles, made, orgs, systems, imp, imports, form>>

---------------------------------------------------------------------------
(* Forms.  What a form says of the account and the role is chosen when it  *)
(* is saved, since nothing reads it before.                                *)

Manage == {"create", "edit", "remove"}

\* What a form is about: the id of a profile or of a system, or 0.
Requests ==
  [at     : {"unsent", "posted", "sender", "checked", "done"},
   op     : Manage \cup {"system", "rename", "none"},
   actor  : 0..MaxProfiles,
   target : Nat,
   name   : SystemNames \cup {None},
   org    : OrgNames \cup {None},    \* the organisation of the sender, when read
   found  : BOOLEAN]                 \* the form has an instance to save

Finished(f) == form' = [form EXCEPT ![f] = Request("done", "none", 0, 0, None)]

formOnly == <<accounts, profiles, made, orgs, systems, imp, imports, quiet>>

\* UserRoleCheckMixin.dispatch.
Post(f, op, actor, target, name) ==
  /\ form[f].at = "unsent"
  /\ actor \in ProfileIds
  /\ profiles[actor].role \in (IF op \in Manage THEN UserManagers ELSE SystemManagers)
  /\ form' = [form EXCEPT ![f] = Request("posted", op, actor, target, name)]
  /\ quiet' = FALSE
  /\ UNCHANGED <<accounts, profiles, made, orgs, systems, imp, imports>>

\* The sender's profile is read again, and its organisation noted: get_object
\* (85, 117), CreateUserProfileView (124), RemoveUserProfileView (229), which
\* looks at the role again, SystemView (93).  (SystemView also asks that the
\* profile is still the account's: Refused.)
ReadSender(f) ==
  LET r == form[f]
  IN /\ r.at = "posted"
     /\ r.actor \in ProfileIds
     /\ r.op = "remove" => profiles[r.actor].role \in UserManagers
     /\ form' = [form EXCEPT ![f].at = "sender", ![f].org = profiles[r.actor].org]
     /\ UNCHANGED formOnly

\* Without a profile of the sender an edit has no instance, as below.
ReadNoSender(f) ==
  /\ form[f].at = "posted"
  /\ form[f].op = "edit"
  /\ form[f].actor \notin ProfileIds
  /\ form' = [form EXCEPT ![f].at = "checked"]
  /\ UNCHANGED formOnly

InOrg(p, org) == p \in ProfileIds /\ profiles[p].org = org

\* UserProfileView.get_object: the profile of the address, if it is of the
\* sender's organisation.
ReadEdited(f) ==
  /\ form[f].at = "sender"
  /\ form[f].op = "edit"
  /\ form' = [form EXCEPT ![f].at = "checked", ![f].found = InOrg(form[f].target, form[f].org)]
  /\ UNCHANGED formOnly

\* A removal that does not ask whose profile it is.
ReadAnyRemoved(f) ==
  /\ form[f].at = "sender"
  /\ form[f].op = "remove"
  /\ form[f].target \in ProfileIds
  /\ form' = [form EXCEPT ![f].at = "checked", ![f].found = TRUE]
  /\ UNCHANGED formOnly

\* RemoveUserProfileView.form_valid reads the profile and compares the
\* organisations.
ReadRemoved(f) ==
  /\ form[f].at = "sender"
  /\ form[f].op = "remove"
  /\ InOrg(form[f].target, form[f].org)
  /\ form' = [form EXCEPT ![f].at = "checked", ![f].found = TRUE]
  /\ UNCHANGED formOnly

SystemsCalled(name, org) == {i \in DOMAIN systems : systems[i] = [name |-> name, org |-> org]}

\* SystemView.form_valid asks for the name; EditSystemView reads the system and
\* then the sender once more.
ReadSystem(f) ==
  LET r == form[f]
  IN /\ r.at = "sender"
     /\ \/ /\ r.op = "system"
           /\ SystemsCalled(r.name, r.org) = {}
        \/ /\ r.op = "rename"
           /\ systems[r.target].org = r.org
           /\ r.actor \in ProfileIds
     /\ form' = [form EXCEPT ![f].at = "checked"]
     /\ UNCHANGED formOnly

\* UserProfileForm.save: the account of the lowered address that is not
\* staff, created if there is none, takes the address as its user name.  The
\* account the profile had is left as it is.  The whole save is undone when
\* the user name is taken or there are two such accounts.
AccountFor(email, saved) ==
  LET e     == Lowered(email)
      found == FormAccounts(e)
  IN  \/ /\ found = {} /\ ~UsernameTaken(e)
         /\ Len(accounts) < MaxAccounts
         /\ accounts' = Append(accounts, NewAccount(e, e))
         /\ saved = Len(accounts')
      \/ /\ Cardinality(found) = 1
         /\ saved \in found
         /\ accounts[saved].username = e \/ ~UsernameTaken(e)
         /\ accounts' = [accounts EXCEPT ![saved].username = e]

\* An edit that gives the new address to the account the profile has.
SaveEditRenaming(f, email, role) ==
  LET p == form[f].target
  IN /\ form[f].at = "checked" /\ form[f].op = "edit" /\ form[f].found
     /\ p \in ProfileIds
     /\ ~UsernameTaken(Lowered(email))
     /\ accounts' = [accounts EXCEPT ![profiles[p].account].username = Lowered(email)]
     /\ profiles' = [profiles EXCEPT ![p].role = role]
     /\ Finished(f)
     /\ UNCHANGED <<made, orgs, systems, imp, imports, quiet>>

\* The whole row that was read is saved, with the account and the role of the
\* form: a profile that was removed meanwhile is inserted again.  A form without
\* an instance makes a profile without an organisation.
SaveEdit(f, email, role) ==
  LET r == form[f]
  IN /\ r.at = "checked" /\ r.op = "edit"
     /\ \E a \in 1..MaxAccounts :
          /\ AccountFor(email, a)
          /\ \/ /\ r.found
                /\ profiles' = [profiles EXCEPT ![r.target] =
                     [account |-> a, org |-> r.org, role |-> role]]
                /\ UNCHANGED made
             \/ /\ ~r.found
                /\ made < MaxProfiles
                /\ made' = made + 1
                /\ profiles' = [profiles EXCEPT ![made'] =
                     [account |-> a, org |-> None, role |-> role]]
     /\ Finished(f)
     /\ UNCHANGED <<orgs, systems, imp, imports, quiet>>

\* CreateUserProfileView: the profile gets the organisation the sender had.
SaveCreate(f, email, role) ==
  /\ form[f].at = "sender" /\ form[f].op = "create"
  /\ made < MaxProfiles
  /\ \E a \in 1..MaxAccounts :
       /\ AccountFor(email, a)
       /\ made' = made + 1
       /\ profiles' = [profiles EXCEPT ![made'] =
            [account |-> a, org |-> form[f].org, role |-> role]]
  /\ Finished(f)
  /\ UNCHANGED <<orgs, systems, imp, imports, quiet>>

\* RemoveUserProfileView removes the association only, if it is still there; the
\* account stays.
SaveRemove(f) ==
  /\ form[f].at = "checked" /\ form[f].op = "remove"
  /\ profiles' = [profiles EXCEPT ![form[f].target] = None]
  /\ Finished(f)
  /\ UNCHANGED <<accounts, made, orgs, systems, imp, imports, quiet>>

\* The save of a system: a name is unique in an organisation
\* (System.Meta.unique_together), and a system has an organisation.
SaveSystem(f) ==
  LET r == form[f]
  IN /\ r.at = "checked"
     /\ r.org # None
     /\ \/ /\ r.op = "system"
           /\ SystemsCalled(r.name, r.org) = {}
           /\ systems' = Append(systems, [name |-> r.name, org |-> r.org])
        \/ /\ r.op = "rename"
           /\ SystemsCalled(r.name, r.org) \subseteq {r.target}
           /\ systems' = [systems EXCEPT ![r.target].name = r.name]
     /\ Finished(f)
     /\ UNCHANGED <<accounts, profiles, made, orgs, imp, imports, quiet>>

\* The form is refused, answered with an error or undone.
Refused(f) ==
  /\ form[f].at \in {"posted", "sender", "checked"}
  /\ Finished(f)
  /\ UNCHANGED formOnly

\* The pages link the profiles and systems that have been made (bound).
Posting(f) ==
  \E actor \in 1..made :
    \/ Post(f, "create", actor, 0, None)
    \/ \E op \in {"edit", "remove"}, p \in 1..made : Post(f, op, actor, p, None)
    \/ \E n \in SystemNames : Post(f, "system", actor, 0, n)
    \/ \E n \in SystemNames, i \in DOMAIN systems : Post(f, "rename", actor, i, n)

Reading(f) ==
  ReadSender(f) \/ ReadNoSender(f) \/ ReadEdited(f) \/ ReadRemoved(f) \/ ReadSystem(f)

Saving(f) ==
  \/ \E e \in Typed, r \in FormRoles : SaveEdit(f, e, r)
  \/ \E e \in Typed, r \in FormRoles : SaveCreate(f, e, r)
  \/ SaveRemove(f)
  \/ SaveSystem(f)

Next ==
  \/ Import
  \/ \E e \in Typed : SignIn(e)
  \/ \E f \in Forms : Posting(f) \/ Reading(f) \/ Saving(f) \/ Refused(f)

Spec == Init /\ [][Next]_directoryVars

---------------------------------------------------------------------------
(* What must hold.                                                         *)

\* Types: the tables stay tables of what the models allow, and the import
\* is at a row and column the file has.
TypeOK ==
  /\ accounts \in Seq(Accounts) /\ Len(accounts) <= MaxAccounts
  /\ profiles \in [1..MaxProfiles -> Profiles \cup {None}]
  /\ made \in 0..MaxProfiles
  /\ DOMAIN orgs \subseteq OrgNames
  /\ \A o \in DOMAIN orgs : orgs[o] \in Organisations
  /\ systems \in Seq(Systems)
  /\ imp.at \in {"idle", "organisation", "account", "profile", "parent", "done", "failed"}
  /\ imp.at \in {"organisation", "account", "profile", "parent"} => imp.row \in DOMAIN Rows
  /\ imp.at = "profile" => imp.account \in DOMAIN accounts /\ imp.org \in OrgNames
  /\ imports \in 0..MaxImports
  /\ quiet \in BOOLEAN
  /\ form \in [Forms -> Requests]

\* The user name and the address of an account always name one mailbox, which
\* is what sign-in relies on when it compares both with the claims
\* (webcaf/auth.py:70): no import, form or sign-in pulls them apart.
UsernameNamesMailbox ==
  \A a \in DOMAIN accounts : accounts[a].username.who = accounts[a].email.who

\* Importing the same file again, also after an import that stopped half way
\* and while forms move profiles between accounts, never makes a second
\* advisor profile of one account in one organisation
\* (docs/ORGANISATION_CSV_IMPORT.md: retained, not duplicated).
NoTwinAdvisors ==
  \A p, q \in ProfileIds :
    profiles[p] = profiles[q] /\ profiles[p].role = "cyber_advisor" => p = q

\* What one row of the file asks for: its organisation, an advisor profile
\* for each of its addresses, and the parent it names.
RowHolds(i) ==
  LET org == FindOrganisation(Rows[i])
  IN  /\ org # None
      /\ \A c \in DOMAIN Rows[i].emails :
           \E p \in ProfileIds :
             /\ profiles[p].org = org /\ profiles[p].role = "cyber_advisor"
             /\ accounts[profiles[p].account].email.who = Rows[i].emails[c].who
      /\ Rows[i].lead \in DOMAIN orgs =>
           orgs[org].parent = IF Rows[i].lead = org THEN None ELSE Rows[i].lead

\* An import that ends, and that no form or sign-in overlapped, has put into
\* effect every row of the file, whatever the order of the rows (a lead
\* department may come after its members) and whatever an earlier import that
\* stopped had already written.
ImportComplete == imp.at = "done" /\ quiet => \A i \in DOMAIN Rows : RowHolds(i)

\* A mailbox that is written in lower case wherever it is written, and that
\* has no back-office account.
Plain(w) ==
  /\ \A e \in Typed : e.who = w => e.caps = "lower"
  /\ \A i \in DOMAIN Rows : \A c \in DOMAIN Rows[i].emails :
       Rows[i].emails[c].who = w => Rows[i].emails[c].caps = "lower"
  /\ \A a \in DOMAIN InitAccounts :
       InitAccounts[a].email.who = w \/ InitAccounts[a].username.who = w =>
         InitAccounts[a] = NewAccount([who |-> w, caps |-> "lower"], [who |-> w, caps |-> "lower"])

\* Whoever holds a profile under a plain address can sign in and finds that
\* profile: sign-in sees exactly one account for the address, the one the
\* profile is associated with.  (Written with capitals in the file, or shared
\* with a back-office account, an address can end with two accounts or with
\* one that sign-in does not consider.)
HoldersCanSignIn ==
  \A p \in ProfileIds :
    LET a == profiles[p].account
    IN  Plain(accounts[a].email.who) => AccountsOf(accounts[a].email) = {a}

\* A profile is changed, removed or brought back by a form alone, whose sender
\* and target were in one organisation when it read them; whatever other forms
\* and imports did since, those that are still there are in it at the write, and
\* a profile never comes to another organisation.  (The sender may have been
\* demoted or removed since, and an edit brings back a profile that was removed.)
ChangedFromWithin ==
  [][\A p \in 1..made :
       profiles'[p] # profiles[p] =>
         /\ \E f \in Forms :
              /\ form[f].target = p /\ form[f].op \in {"edit", "remove"} /\ form'[f].at = "done"
              /\ \A q \in {p, form[f].actor} \cap ProfileIds : profiles[q].org = form[f].org
              /\ profiles'[p] # None => profiles'[p].org = form[f].org]_directoryVars

=============================================================================

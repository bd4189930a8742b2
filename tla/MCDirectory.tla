---------------------------- MODULE MCDirectory ----------------------------
(* A bounded instance of Directory: bob is always written in lower case,    *)
(* ann with a capital before the @ in the file, sam with one after it; sam  *)
(* has a back-office account.  The file names a lead department after its   *)
(* member.  Two forms, each sent once, may be under way together; nothing   *)
(* tells one from the other.                                                *)
EXTENDS Directory, TLC

CONSTANTS ann, bob, sam, dept, agency, sysA, f1, f2

Mail(w, c) == [who |-> w, caps |-> c]

Everyone == {ann, bob, sam}

TheOrgs == {dept, agency}

TheSystems == {sysA}

TheForms == {f1, f2}

AnyForm == Permutations(TheForms)

TheRows ==
  << [name |-> agency, ref |-> None, lead |-> dept, emails |-> <<Mail(ann, "local")>>],
     [name |-> dept, ref |-> dept, lead |-> dept, emails |-> <<Mail(bob, "lower"), Mail(sam, "domain")>>] >>

TheFormRoles == {"organisation_lead"}

TheTyped == {Mail(ann, "lower"), Mail(bob, "lower")}

TheAccounts ==
  << NewAccount(Mail(bob, "lower"), Mail(bob, "lower")),
     [username |-> Mail(sam, "lower"), email |-> Mail(sam, "lower"), staff |-> TRUE] >>

TheProfiles == << [account |-> 1, org |-> agency, role |-> "organisation_lead"] >>

FirstOrgs == {agency}

=============================================================================

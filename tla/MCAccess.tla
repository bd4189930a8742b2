------------------------------ MODULE MCAccess ------------------------------
(* Two tabs of one browser, at which people take turns.                    *)
EXTENDS Access

CONSTANTS ada, ben, b1, t1, t2

TwoTabs == [t \in {t1, t2} |-> b1]

Roles == <<"organisation_lead", "assessor">>

TheOwners == <<ada, ben>>

\* What people ask for by themselves: the other paths are reached by redirects.
TheVisits ==
  [t \in {t1, t2} |->
     IF t = t1 THEN {"home", "account", "token", "logout", "admin"}
     ELSE {"account", "switch"}]

\* A form gives the profile of ada to ben.
TheEdits == {<<1, ben>>}

=============================================================================

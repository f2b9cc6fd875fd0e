--------------------------- MODULE MCLdapProvider ---------------------------
(* LdapProvider for TLC: an identity that matches two accounts, one of them
   with a group, in a directory that may lose them both, though not from the
   group, and find them again; and one that stays as it is. *)
EXTENDS LdapProvider

CONSTANTS a1, a2, g1

MCAccounts == {a1, a2}
MCGroups == {g1}

Directory(accounts) ==
    [accounts |-> accounts,
     groups   |-> [a \in MCAccounts |-> IF a = a1 THEN {g1} ELSE {}]]

MCDirectories == {Directory(MCAccounts), Directory({})}

MCFixedDirectory == {Directory(MCAccounts)}
=============================================================================

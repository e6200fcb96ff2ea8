----------------------------- MODULE MCContacts -----------------------------
(* Instances of Contacts for TLC.                                          *)
EXTENDS Contacts, TLC

Symmetry == Permutations(Workers) \cup Permutations(Users)
              \cup Permutations(ContactIds)
=============================================================================

----------------------------- MODULE MCSosTexts -----------------------------
(* Instances of SosTexts for TLC: one user who owns every contact.          *)
EXTENDS SosTexts

CONSTANT u1

MCOwnerOf == [c \in Contacts |-> u1]
MCCalls == (SosIds \X Contacts) \cup OtpTexts
=============================================================================

--------------------------- MODULE MCDataSubject ---------------------------
(* Two owners of one organization and one owner of another. *)
EXTENDS DataSubject, TLC

CONSTANTS alice, bob, carol, orgA, orgB, aliceMail, bobMail, carolMail

MCHomeOrg == [u \in Users |-> IF u = carol THEN orgB ELSE orgA]
MCEmailOf == [u \in Users |-> CASE u = alice -> aliceMail
                                [] u = bob -> bobMail
                                [] OTHER -> carolMail]

\* The concurrent calls are interchangeable.
Symmetry == Permutations(Slots)
=============================================================================

--------------------------- MODULE MCRepositories ---------------------------
(* Two organizations, each with a key of its own. *)
EXTENDS Repositories, TLC

CONSTANTS orgA, kA

MCOwnerOf == [k \in Keys |-> IF k = kA THEN orgA ELSE CHOOSE o \in Orgs : o # orgA]
AllRepositories == DOMAIN Prisma

\* The concurrent calls are interchangeable.
Symmetry == Permutations(Slots)
=============================================================================

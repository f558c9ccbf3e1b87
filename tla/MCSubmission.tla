---------------------------- MODULE MCSubmission ----------------------------
(* A tender of one organization; the documents are of one type, all but     *)
(* own belong to another organization.                                      *)
EXTENDS Submission, TLC

CONSTANTS own, orgA, orgB, holder, q1, q2

MCTypeOf == [d \in Docs |-> "legal"]
MCCategoryOf == [q \in Reqs |-> "legal"]
MCDocOrg == [d \in Docs |-> IF d = own THEN orgA ELSE orgB]
MCDocCompany == [d \in Docs |-> holder]
MCAsks == {{}, {q1}, Reqs}
MCOverrides == {{}, {q1}}
MCEdits == {[status |-> "satisfied", risk |-> NULL]}
MCStateChanges == {own} \X DocStates

\* The bound of the run: either one requirement and one version, or an empty
\* vault, no exports and no links.
OneOfEach ==
    /\ q2 \notin reqs /\ ~matrices[2].row
    /\ \A c \in Slots :
         q2 \notin calls[c].asked /\ calls[c].req # q2 /\ calls[c].version # 2
EmptyVault ==
    /\ \A d \in Docs : docs[d].state = "new"
    /\ \A c \in Slots : calls[c].pc \notin {"list", "record", "findDocument"}
Bound == OneOfEach \/ EmptyVault

Symmetry == Permutations(Slots)
=============================================================================

------------------------- MODULE RepositoryMethods -------------------------
(* The vocabulary in which the two families of repositories are described. *)

(* A method is a kind of statement, the columns of its where clause and, for *)
(* the updates of Prisma, the columns of the read that follows.              *)

None == {}
Id == {"id"}
Org == {"organizationId"}
IdOrg == {"id", "organizationId"}
\* Mutant: a lookup by parent alone.
KeyOrgUnscoped == {"key"}
KeyOrg == {"key", "organizationId"}
LiveOrg == {"live", "organizationId"}

\* Columns that the key of a row stands for.
KeyColumns == {"key", "email", "messageId", "keyPrefix", "stripeSubscriptionId"}

Statement(op, by, back) == [op |-> op, by |-> by, back |-> back]
Read(by) == Statement("read", by, None)
Insert == Statement("insert", None, None)
Change(by, back) == Statement("change", by, back)  \* an error without a row
\* Touch sets a column that no lookup uses: without a row nothing, or an error.
Touch(by) == Statement("touch", by, None)
TouchOrFail(by) == Statement("touchOrFail", by, None)
Detach(by) == Statement("detach", by, None)        \* clears the key
Erase(by) == Statement("erase", by, None)
EraseOrFail(by) == Statement("eraseOrFail", by, None)
Upsert(by) == Statement("upsert", by, None)
Bump(by) == Statement("bump", by, None)
Claim == Statement("claim", {"live"}, None)        \* one row, of any organization

\* unique: the columns of which no two rows may agree.
Repository(unique, methods) == [unique |-> unique, methods |-> methods]
=============================================================================

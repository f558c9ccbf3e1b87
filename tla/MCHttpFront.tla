---------------------------- MODULE MCHttpFront ----------------------------
(* An owner and a finance user at one browser, and all machine callers. *)
EXTENDS HttpFront

CONSTANTS olga, fadi

MCRoleOf == [u \in Users |-> IF u = olga THEN "Owner" ELSE "Finance"]

Handlers == {AppModule[n].h : n \in 1..Len(AppModule)}
\* Sessions have actions of their own; the route of claimNext is shadowed,
\* which the run ingestion_jobs_unrouted is about.
Unshadowed == Handlers \ {"auth.login", "auth.logout", "ingestion.claimNext"}
=============================================================================

----------------------------- MODULE MCDocSync -----------------------------
(***************************************************************************)
(* A schema with an impact on the database document, and a Dockerfile in a *)
(* directory whose name starts with a dot with an impact on the            *)
(* architecture document.                                                  *)
(***************************************************************************)
EXTENDS DocSync, TLC

CONSTANTS schema, dockerfile, databaseMd, architectureMd

MCDoc == [d \in Domains |-> IF d = "database" THEN databaseMd ELSE architectureMd]

MCImpact == [f \in Files |-> CASE f = schema -> {"database"}
                               [] f = dockerfile -> {"architecture"}
                               [] OTHER -> {}]

\* Turns: two edits of the schema and of the Dockerfile, two commits.
\* Parallel: one edit of the schema and its document, one commit.
MCMaxVersion == (FALSE :> [f \in Files |-> IF f \in {schema, dockerfile} THEN 2 ELSE 0])
             @@ (TRUE :> [f \in Files |-> IF f \in {schema, databaseMd} THEN 1 ELSE 0])
MCMaxCommits == (FALSE :> 2) @@ (TRUE :> 1)

\* Turns only, one edit of each file.
MCOneEdit == (FALSE :> [f \in Files |-> 1]) @@ (TRUE :> [f \in Files |-> 0])
=============================================================================

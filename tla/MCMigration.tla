---------------------------- MODULE MCMigration -----------------------------
(* An instance of Migration for TLC: two requests for one site, one file   *)
(* that only the upload writes, one that provisioning writes as well, a    *)
(* symbolic link and a file above 4 GiB.                                   *)
EXTENDS Migration, TLC

CONSTANTS f1, env, link, big, m1, m2

\* The archive is packed in lexical order.
Lexical == env :> 1 @@ link :> 2 @@ big :> 3 @@ f1 :> 4

Symmetry == Permutations({m1, m2})
=============================================================================

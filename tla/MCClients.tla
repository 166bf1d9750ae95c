----------------------------- MODULE MCClients -----------------------------
(* Two or three of everything, and a repository with files and directories  *)
(* on four levels: src/api/pkg with deep in it, docs/guide, and a file.     *)
EXTENDS Clients, TLC

CONSTANTS v1, v2, bulk, row, l1, r1, r2, r3, k1, k2, f1, f2, src, api, pkg, deep, readme, docs, guide, root
MCContained ==
    (root :> <<src, readme, docs>>) @@ (src :> <<api>>) @@ (api :> <<pkg>>)
        @@ (pkg :> <<deep>>) @@ (docs :> <<guide>>)
=============================================================================

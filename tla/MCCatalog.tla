----------------------------- MODULE MCCatalog -----------------------------
(* Two lookups, one after another in each process, while the site is       *)
(* published once more and the entries age past their time to live.        *)
EXTENDS Catalog, TLC

=============================================================================

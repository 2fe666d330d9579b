------------------------------ MODULE CatalogMC ------------------------------
(* Instances of Catalog for TLC: requests are interchangeable, and a state is *)
(* told from another by what somebody may still read.                        *)
EXTENDS Catalog, TLC

Interchangeable == Permutations(Requests)

\* What an actor held, until it ends, and what is recorded of rows that exist.
Held(table) == [a \in Actors |-> IF pc[a] \in {"idle", "done"} THEN 0 ELSE table[a]]
Edit == [r \in Requests |-> IF pc[r] \in {"rename", "patch"} THEN edit[r] ELSE NoEdit]
Seeds == CASE pc[Seeder] \in {"idle", "done", "unlink"} -> NoSeed
           [] pc[Seeder] \in {"seedDocument", "ingest"} -> [NoSeed EXCEPT !.kind = seed.kind]
           [] OTHER -> seed
Here(t) == DOMAIN (CASE t = "run" -> runOf [] t = "case" -> caseOf
                     [] t = "dataset" -> datasets [] t = "config" -> configs)
Recorded == <<unlinked \cap DOMAIN documents, raced \cap DOMAIN configs,
              {g \in given : g[2] \in Here(g[1])}, {x \in late : x[2] \in Here(x[1])}>>
View == <<rows, files, pc, Held(row), Held(other), Edit, Seeds, seedings, hurt, Recorded>>
=============================================================================

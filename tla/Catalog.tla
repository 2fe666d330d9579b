------------------------------ MODULE Catalog ------------------------------
(***************************************************************************)
(* The catalogue: datasets, query cases, pipeline configurations, the runs *)
(* that refer to them, documents with their chunks, and the files under    *)
(* the upload directory.  Handlers of the CRUD endpoints and the seed      *)
(* scripts write it, each in a database session of its own.                *)
(*                                                                         *)
(* A statement and the commit that follows it at once are one step: the    *)
(* foreign-key locks of PostgreSQL make every other order of the two       *)
(* equivalent to one of these.  What a handler reads is a step before, so  *)
(* a row may be gone, or have got children, when the handler writes.       *)
(* Of the names only those a seed script looks for are told apart.         *)
(* Descriptions and metadata without a reference are left out.             *)
(***************************************************************************)
EXTENDS Naturals, FiniteSets, Functions

CONSTANTS
    Requests,   \* handlers of the CRUD endpoints, each serves one request
    Seeder,     \* the operator's seed script, one start at a time
    SeedRuns,   \* bound: how often the script is started
    Labels,     \* names and
    Values,     \* sizes and overlaps a client may ask for
    Faults      \* "crash": a process dies; "db": a commit raises

Actors == Requests \cup {Seeder}
SeedNames == {"quickstart", "rag"}
Names == {"user"} \cup SeedNames
SeedSize == 2       \* chunk_size and chunk_overlap of a seeded configuration
SeedOverlap == 1

ASSUME CatalogAssumption ==
    /\ Seeder \notin Requests
    /\ SeedRuns \in Nat
    /\ Labels \subseteq Names
    /\ Values \subseteq Nat
    /\ Faults \subseteq {"crash", "db"}

VARIABLES
    datasets,   \* id -> name
    caseOf,     \* query case id -> dataset id
    configs,    \* id -> [name, size, overlap, scope]; scope is scoped_document_id
    runOf,      \* run id -> [case, config]
    documents,  \* id -> [title, status, file]
    chunked,    \* documents whose chunks are stored
    files,      \* files in the upload directory, named by who wrote them
    ids,        \* the newest id of each table
    pc,         \* next step of each actor
    row,        \* the row it works on, 0 for none
    other,      \* a parent row
    edit,       \* of each request: the columns it is going to write, and their values
    seed,       \* what the seed script has read
    seedings,   \* starts of the seed script
    unlinked,   \* history: documents whose deletion removed the file
    given,      \* history: rows to which a request gave a name of a seed
    raced,      \* history: configurations two sessions had read when one wrote
    late,       \* history: runs and cases that came below a row whose deletion had looked
    hurt        \* history: a process died, or a transaction failed with its file written

rows == <<datasets, caseOf, configs, runOf, documents, chunked, ids>>
locals == <<row, other, edit, seed>>
history == <<seedings, unlinked, given, raced, late, hurt>>
vars == <<rows, files, pc, locals, history>>

Tables == {"dataset", "case", "config", "run", "document"}
Files == (Requests \X {1}) \cup ({Seeder} \X (1..SeedRuns))

Steps ==
    {"idle", "countCases", "lookCases", "dropDataset", "countRuns", "lookRuns", "dropCase",
     "countUses", "lookUses", "dropConfig", "insertCase", "moveCase", "insertRun",
     "rename", "patch", "ingest", "unlink", "dropDocument", "seedCases",
     "seedScope", "seedConfig", "seedCommit", "seedDocument", "done"}

Sizes == Values \cup {SeedSize, SeedOverlap}
Columns == {"name", "size", "overlap"}

TypeOK ==
    /\ DOMAIN datasets \subseteq 1..ids["dataset"] /\ Range(datasets) \subseteq Names
    /\ DOMAIN caseOf \subseteq 1..ids["case"] /\ Range(caseOf) \subseteq DOMAIN datasets
    /\ DOMAIN configs \subseteq 1..ids["config"]
    /\ \A k \in DOMAIN configs :
           /\ configs[k].name \in Names
           /\ {configs[k].size, configs[k].overlap} \subseteq Sizes
           /\ configs[k].scope \in 0..ids["document"]
    /\ DOMAIN runOf \subseteq 1..ids["run"]
    /\ Range(runOf) \subseteq [case : DOMAIN caseOf, config : DOMAIN configs]
    /\ DOMAIN documents \subseteq 1..ids["document"]
    /\ Range(documents) \subseteq
           [title : Names, status : {"processed", "failed"}, file : Files]
    /\ chunked \subseteq DOMAIN documents
    /\ files \subseteq Files
    /\ ids \in [Tables -> Nat]
    /\ pc \in [Actors -> Steps]
    /\ row \in [Actors -> Nat] /\ other \in [Actors -> Nat]
    /\ edit \in [Requests -> [set : SUBSET Columns, name : Names, size : Sizes, overlap : Sizes]]
    /\ seedings \in 0..SeedRuns

Config(label, size, overlap, scope) ==
    [name |-> label, size |-> size, overlap |-> overlap, scope |-> scope]

NoSeed == [kind |-> "quickstart", dataset |-> 0, config |-> 0, addCase |-> FALSE,
           scope |-> 0, size |-> SeedSize, overlap |-> SeedOverlap, linked |-> 0]
NoEdit == [set |-> {}, name |-> "user", size |-> SeedSize, overlap |-> SeedOverlap]

Init ==
    /\ datasets = [d \in 1..2 |-> "user"]
    /\ caseOf = [c \in {1} |-> 1]
    /\ configs = [k \in {1} |-> Config("user", SeedSize, SeedOverlap, 0)]
    /\ runOf = [x \in {1} |-> [case |-> 1, config |-> 1]]
    /\ documents = << >>
    /\ chunked = {} /\ files = {}
    /\ ids = [t \in Tables |-> CASE t = "dataset" -> 2 [] t = "document" -> 0 [] OTHER -> 1]
    /\ pc = [a \in Actors |-> "idle"]
    /\ row = [a \in Actors |-> 0] /\ other = [a \in Actors |-> 0]
    /\ edit = [r \in Requests |-> NoEdit]
    /\ seed = NoSeed /\ seedings = 0
    /\ unlinked = {} /\ given = {} /\ raced = {} /\ late = {} /\ hurt = FALSE

-----------------------------------------------------------------------------
(* Rows and steps. *)

Put(f, k, v) == [x \in DOMAIN f \cup {k} |-> IF x = k THEN v ELSE f[x]]
Drop(f, gone) == [x \in DOMAIN f \ gone |-> f[x]]
NewId(t) == ids[t] + 1
Taken(t) == ids' = [ids EXCEPT ![t] = ids[t] + 1]

CasesIn(d) == {c \in DOMAIN caseOf : caseOf[c] = d}
RunsOf(cases) == {x \in DOMAIN runOf : runOf[x].case \in cases}
UsesOf(k) == {x \in DOMAIN runOf : runOf[x].config = k}
Named(table, n) == {i \in DOMAIN table : table[i] = n}
ConfigsNamed(n) == {k \in DOMAIN configs : configs[k].name = n}
Titled(n) == {d \in DOMAIN documents :
                  documents[d].title = n /\ documents[d].status = "processed"}

Goto(a, step) == pc' = [pc EXCEPT ![a] = step]
Hold(a, i, j) == row' = [row EXCEPT ![a] = i] /\ other' = [other EXCEPT ![a] = j]

\* Where a request ends; the script may be started again.
Last(a) == IF a = Seeder /\ seedings < SeedRuns THEN "idle" ELSE "done"

\* A handler that only reads goes on; it leaves the database alone.
Reads(a, step) == Goto(a, step) /\ UNCHANGED <<rows, files, locals, history>>
Opens(r, step, i, j) ==
    /\ pc[r] = "idle"
    /\ Goto(r, step) /\ Hold(r, i, j)
    /\ UNCHANGED <<rows, files, edit, seed, history>>
\* The handler has committed its write, or its write was refused.
Ends(r) == Goto(r, "done") /\ UNCHANGED <<files, locals, history>>
Refused(r) == Ends(r) /\ UNCHANGED rows

-----------------------------------------------------------------------------
(* Guarded deletions: get the row, count its children, and in the flush     *)
(* look for children again, because the relationships have no passive       *)
(* deletes: a child found then is set to NULL, which the column refuses.    *)

StartDelete(r) ==
    \/ \E d \in DOMAIN datasets : Opens(r, "countCases", d, 0)
    \/ \E c \in DOMAIN caseOf : Opens(r, "countRuns", c, 0)
    \/ \E k \in DOMAIN configs : Opens(r, "countUses", k, 0)

\* Mutant: the deletion does not count and does not look.
CountChildrenSkipped(r) ==
    \/ pc[r] = "countCases" /\ Reads(r, "dropDataset")
    \/ pc[r] = "countRuns" /\ Reads(r, "dropCase")
    \/ pc[r] = "countUses" /\ Reads(r, "dropConfig")

\* The count, or 409.
CountChildren(r) ==
    \/ pc[r] = "countCases" /\ Reads(r, IF CasesIn(row[r]) = {} THEN "lookCases" ELSE "done")
    \/ pc[r] = "countRuns" /\ Reads(r, IF RunsOf({row[r]}) = {} THEN "lookRuns" ELSE "done")
    \/ pc[r] = "countUses" /\ Reads(r, IF UsesOf(row[r]) = {} THEN "lookUses" ELSE "done")

\* The flush loads the children of the relationship.
LookChildren(r) ==
    \/ pc[r] = "lookCases" /\ Reads(r, IF CasesIn(row[r]) = {} THEN "dropDataset" ELSE "done")
    \/ pc[r] = "lookRuns" /\ Reads(r, IF RunsOf({row[r]}) = {} THEN "dropCase" ELSE "done")
    \/ pc[r] = "lookUses" /\ Reads(r, IF UsesOf(row[r]) = {} THEN "dropConfig" ELSE "done")

\* The seed script has inserted query cases into the dataset and not committed:
\* a DELETE of the dataset waits.
Inserting(d) ==
    pc[Seeder] \in {"seedScope", "seedConfig", "seedCommit"} /\ seed.addCase /\ seed.dataset = d

\* ON DELETE CASCADE from datasets to query cases and on to runs.
DropDataset(r) ==
    /\ pc[r] = "dropDataset"
    /\ ~Inserting(row[r])
    /\ datasets' = Drop(datasets, {row[r]})
    /\ caseOf' = Drop(caseOf, CasesIn(row[r]))
    /\ runOf' = Drop(runOf, RunsOf(CasesIn(row[r])))
    /\ Ends(r) /\ UNCHANGED <<configs, documents, chunked, ids>>

DropCase(r) ==
    /\ pc[r] = "dropCase"
    /\ caseOf' = Drop(caseOf, {row[r]})
    /\ runOf' = Drop(runOf, RunsOf({row[r]}))
    /\ Ends(r) /\ UNCHANGED <<datasets, configs, documents, chunked, ids>>

\* Mutant: the runs of the configuration do not hold the deletion up.
DropConfigForced(r) ==
    /\ pc[r] = "dropConfig"
    /\ configs' = Drop(configs, {row[r]})
    /\ Ends(r) /\ UNCHANGED <<datasets, caseOf, runOf, documents, chunked, ids>>

\* ON DELETE RESTRICT: a run that came in between is an IntegrityError.
DropConfig(r) ==
    /\ pc[r] = "dropConfig"
    /\ IF UsesOf(row[r]) = {} THEN configs' = Drop(configs, {row[r]}) ELSE UNCHANGED configs
    /\ Ends(r) /\ UNCHANGED <<datasets, caseOf, runOf, documents, chunked, ids>>

-----------------------------------------------------------------------------
(* Creations and changes: read the rows referred to, then write. *)

\* The request leaves a row of the table with a name, one of a seed perhaps.
\* It forgets the edit: there is nothing more to write.
Gives(r, t, i, label) ==
    /\ given' = IF label \in SeedNames THEN given \cup {<<t, i>>} ELSE given
    /\ edit' = [edit EXCEPT ![r] = NoEdit]
    /\ Goto(r, "done")
    /\ UNCHANGED <<files, row, other, seed, seedings, unlinked, late, hurt>>

\* Nothing keeps a client from the names of the seeds, or from a name twice.
CreateDataset(r) ==
    /\ pc[r] = "idle"
    /\ \E label \in Labels :
           /\ datasets' = Put(datasets, NewId("dataset"), label)
           /\ Gives(r, "dataset", NewId("dataset"), label)
    /\ Taken("dataset")
    /\ UNCHANGED <<caseOf, configs, runOf, documents, chunked, raced>>

StartCreate(r) ==
    \/ \E d \in DOMAIN datasets : Opens(r, "insertCase", d, 0)
    \/ \E c \in DOMAIN caseOf, k \in DOMAIN configs : Opens(r, "insertRun", c, k)
    \/ \E c \in DOMAIN caseOf, d \in DOMAIN datasets :
           caseOf[c] # d /\ Opens(r, "moveCase", c, d)

\* Somebody deletes a row of that table and has already looked for children.
Dropping(step, i) == \E r \in Requests : pc[r] = step /\ row[r] = i
LateRun(x, c) == IF Dropping("dropCase", c) \/ Dropping("dropDataset", caseOf[c])
                 THEN {<<"run", x>>} ELSE {}
LateCase(c, d) == IF Dropping("dropDataset", d)
                  THEN {<<"case", c>>} \cup {<<"run", x>> : x \in RunsOf({c})} ELSE {}
EndsLate(r, new) == /\ Goto(r, "done") /\ late' = late \cup new
                    /\ UNCHANGED <<files, locals, seedings, unlinked, given, raced, hurt>>

\* The foreign key refuses a parent that is gone.
InsertCase(r) ==
    /\ pc[r] = "insertCase"
    /\ IF row[r] \in DOMAIN datasets
       THEN /\ caseOf' = Put(caseOf, NewId("case"), row[r]) /\ Taken("case")
            /\ EndsLate(r, LateCase(NewId("case"), row[r]))
       ELSE Ends(r) /\ UNCHANGED <<caseOf, ids>>
    /\ UNCHANGED <<datasets, configs, runOf, documents, chunked>>

InsertRun(r) ==
    /\ pc[r] = "insertRun"
    /\ IF row[r] \in DOMAIN caseOf /\ other[r] \in DOMAIN configs
       THEN /\ runOf' = Put(runOf, NewId("run"), [case |-> row[r], config |-> other[r]])
            /\ Taken("run") /\ EndsLate(r, LateRun(NewId("run"), row[r]))
       ELSE Ends(r) /\ UNCHANGED <<runOf, ids>>
    /\ UNCHANGED <<datasets, caseOf, configs, documents, chunked>>

\* PATCH with a dataset_id: an UPDATE of no row is an error as well.
MoveCase(r) ==
    /\ pc[r] = "moveCase"
    /\ IF row[r] \in DOMAIN caseOf /\ other[r] \in DOMAIN datasets
       THEN /\ caseOf' = [caseOf EXCEPT ![row[r]] = other[r]]
            /\ EndsLate(r, LateCase(row[r], other[r]))
       ELSE Ends(r) /\ UNCHANGED caseOf
    /\ UNCHANGED <<datasets, configs, runOf, documents, chunked, ids>>

CreateConfig(r) ==
    /\ pc[r] = "idle"
    /\ \E label \in Labels, size, overlap \in Values :
           /\ overlap <= size
           /\ configs' = Put(configs, NewId("config"), Config(label, size, overlap, 0))
           /\ Gives(r, "config", NewId("config"), label)
    /\ Taken("config")
    /\ UNCHANGED <<datasets, caseOf, runOf, documents, chunked, raced>>

\* Reads a row to write the columns that are going to differ from what it reads.
Edits(r, step, i, columns, label, size, overlap) ==
    /\ pc[r] = "idle"
    /\ columns # {}
    /\ edit' = [edit EXCEPT ![r] = [set |-> columns, name |-> label,
                                   size |-> size, overlap |-> overlap]]
    /\ Goto(r, step) /\ Hold(r, i, 0)
    /\ UNCHANGED <<rows, files, seed, history>>

Differing(config, new) == {c \in Columns : new[c] # config[c]}

StartRename(r) ==
    \E d \in DOMAIN datasets, label \in Labels :
        /\ label # datasets[d]
        /\ Edits(r, "rename", d, {"name"}, label, SeedSize, SeedOverlap)

\* Mutant: the patched row is not validated.
StartPatchBlind(r) ==
    \E k \in DOMAIN configs, label \in Names, size, overlap \in Sizes :
        Edits(r, "patch", k, Differing(configs[k], [name |-> label, size |-> size, overlap |-> overlap]),
              label, size, overlap)

\* PATCH of any fields: the row as read, with the fields changed, is validated.
StartPatch(r) ==
    \E k \in DOMAIN configs, label \in Names, size, overlap \in Sizes :
        /\ label \in Labels \cup {configs[k].name}
        /\ size \in Values \cup {configs[k].size} /\ overlap \in Values \cup {configs[k].overlap}
        /\ overlap <= size
        /\ Edits(r, "patch", k,
                 Differing(configs[k], [name |-> label, size |-> size, overlap |-> overlap]),
                 label, size, overlap)

\* The UPDATE writes only the changed columns; of no row it is an error.
RenameDataset(r) ==
    /\ pc[r] = "rename"
    /\ IF row[r] \in DOMAIN datasets
       THEN /\ datasets' = [datasets EXCEPT ![row[r]] = edit[r].name]
            /\ Gives(r, "dataset", row[r], edit[r].name)
       ELSE Ends(r) /\ UNCHANGED datasets
    /\ UNCHANGED <<caseOf, configs, runOf, documents, chunked, ids, raced>>

Patched(config, new) ==
    [config EXCEPT !.name = IF "name" \in new.set THEN new.name ELSE @,
                   !.size = IF "size" \in new.set THEN new.size ELSE @,
                   !.overlap = IF "overlap" \in new.set THEN new.overlap ELSE @]

\* The rag seed is going to write columns of the configuration it found: those
\* that differ from what it read.
NewScope == seed.kind = "rag" /\ seed.scope = 0
Scope == IF seed.kind # "rag" THEN 0
         ELSE IF NewScope THEN NewId("document") ELSE seed.scope
Rewrites == /\ seed.kind = "rag" /\ seed.config # 0
            /\ seed.size # SeedSize \/ seed.overlap # SeedOverlap \/ seed.linked # Scope

\* Sessions other than a's that have read the configuration and will write it.
Reading(a, k) ==
    \/ \E r \in Requests \ {a} : pc[r] = "patch" /\ row[r] = k
    \/ a # Seeder /\ pc[Seeder] = "seedCommit" /\ Rewrites /\ seed.config = k

Patch(r) ==
    /\ pc[r] = "patch"
    /\ IF row[r] \in DOMAIN configs
       THEN /\ configs' = [configs EXCEPT ![row[r]] = Patched(@, edit[r])]
            /\ raced' = IF Reading(r, row[r]) THEN raced \cup {row[r]} ELSE raced
            /\ Gives(r, "config", row[r], IF "name" \in edit[r].set THEN edit[r].name ELSE "user")
       ELSE Ends(r) /\ UNCHANGED configs
    /\ UNCHANGED <<datasets, caseOf, runOf, documents, chunked, ids>>

-----------------------------------------------------------------------------
(* Documents.  The file is on disk before any row; parsing, chunking and    *)
(* embedding run between two statements of one transaction.                 *)

FileOf(a) == <<a, IF a = Seeder THEN seedings ELSE 1>>
\* An upload is titled by its file name, whose extension no title of a seed has.
TitleOf(a) == IF a = Seeder THEN seed.kind ELSE "user"
Document(a, outcome) == [title |-> TitleOf(a), status |-> outcome, file |-> FileOf(a)]

Upload(r) ==
    /\ pc[r] = "idle"
    /\ files' = files \cup {FileOf(r)}
    /\ Goto(r, "ingest")
    /\ UNCHANGED <<rows, locals, history>>

\* Mutant: the file of a processed document is tidied away.
IngestTidies(a) ==
    /\ pc[a] = "ingest"
    /\ documents' = Put(documents, NewId("document"), Document(a, "processed"))
    /\ chunked' = chunked \cup {NewId("document")}
    /\ files' = files \ {FileOf(a)}
    /\ Taken("document") /\ Goto(a, Last(a))
    /\ UNCHANGED <<datasets, caseOf, configs, runOf, locals, history>>

\* Row, text, chunks and the status processed in one commit.
Ingest(a) ==
    /\ pc[a] = "ingest"
    /\ documents' = Put(documents, NewId("document"), Document(a, "processed"))
    /\ chunked' = chunked \cup {NewId("document")}
    /\ Taken("document") /\ Goto(a, Last(a))
    /\ UNCHANGED <<datasets, caseOf, configs, runOf, files, locals, history>>

\* Mutant: the row of a document that cannot be parsed is processed, too.
IngestFailsQuietly(a) ==
    /\ pc[a] = "ingest"
    /\ documents' = Put(documents, NewId("document"), Document(a, "processed"))
    /\ Taken("document") /\ Goto(a, "unlink")
    /\ UNCHANGED <<datasets, caseOf, configs, runOf, chunked, files, locals, history>>

\* The text cannot be parsed, is too long or has too many chunks: the row is
\* committed as failed, and then the file is removed.
IngestFails(a) ==
    /\ pc[a] = "ingest"
    /\ documents' = Put(documents, NewId("document"), Document(a, "failed"))
    /\ Taken("document") /\ Goto(a, "unlink")
    /\ UNCHANGED <<datasets, caseOf, configs, runOf, chunked, files, locals, history>>

\* Mutant: the failed document's file stays.
UnlinkFailedNot(a) == pc[a] = "unlink" /\ Reads(a, Last(a))

UnlinkFailed(a) ==
    /\ pc[a] = "unlink"
    /\ files' = files \ {FileOf(a)}
    /\ Goto(a, Last(a))
    /\ UNCHANGED <<rows, locals, history>>

\* The row is read, and the file goes before the row does.
StartDeleteDocument(r) ==
    /\ pc[r] = "idle"
    /\ \E d \in DOMAIN documents :
           /\ files' = files \ {documents[d].file}
           /\ unlinked' = unlinked \cup {d}
           /\ Hold(r, d, 0)
    /\ Goto(r, "dropDocument")
    /\ UNCHANGED <<rows, edit, seed, seedings, given, raced, late, hurt>>

\* ON DELETE CASCADE to the chunks; a DELETE of no row is no error.
DropDocument(r) ==
    /\ pc[r] = "dropDocument"
    /\ documents' = Drop(documents, {row[r]})
    /\ chunked' = chunked \ {row[r]}
    /\ Ends(r) /\ UNCHANGED <<datasets, caseOf, configs, runOf, ids>>

-----------------------------------------------------------------------------
(* The seed scripts: each table is looked up by name and filled if empty,   *)
(* all in one transaction; one query case and one configuration stand for   *)
(* the lists of each seed.                                                  *)

\* scalar_one_or_none: two rows of that name are an exception.
OneOf(S, i) == IF S = {} THEN i = 0 ELSE S = {i}

SeedEnds == Goto(Seeder, Last(Seeder))
\* The exception leaves the session: nothing is committed, a file stays.
SeedRaises ==
    /\ SeedEnds /\ hurt' = (hurt \/ NewScope)
    /\ UNCHANGED <<rows, files, locals, seedings, unlinked, given, raced, late>>
SeedFails == SeedEnds /\ UNCHANGED <<rows, files, locals, history>>

StartSeed ==
    /\ pc[Seeder] = "idle"
    /\ seedings < SeedRuns
    /\ seedings' = seedings + 1
    /\ \E kind \in SeedNames, d \in DOMAIN datasets \cup {0} :
           /\ OneOf(Named(datasets, kind), d)
           /\ seed' = [NoSeed EXCEPT !.kind = kind, !.dataset = d]
    /\ Goto(Seeder, "seedCases")
    /\ UNCHANGED <<rows, files, row, other, edit, unlinked, given, raced, late, hurt>>

StartSeedAmbiguous ==
    /\ pc[Seeder] = "idle"
    /\ seedings < SeedRuns
    /\ \E kind \in SeedNames : Cardinality(Named(datasets, kind)) > 1
    /\ seedings' = seedings + 1
    /\ Goto(Seeder, IF seedings + 1 < SeedRuns THEN "idle" ELSE "done")
    /\ UNCHANGED <<rows, files, locals, unlinked, given, raced, late, hurt>>

\* No case yet, or as many as the seed has; anything else is a ValueError, and
\* the INSERT of a case below a dataset that is gone an IntegrityError.
SeedCases ==
    /\ pc[Seeder] = "seedCases"
    /\ seed.dataset \in DOMAIN datasets \cup {0}
    /\ Cardinality(CasesIn(seed.dataset)) <= 1
    /\ seed' = [seed EXCEPT !.addCase = CasesIn(seed.dataset) = {}]
    /\ Goto(Seeder, IF seed.kind = "rag" THEN "seedScope" ELSE "seedConfig")
    /\ UNCHANGED <<rows, files, row, other, edit, history>>

SeedCasesWrong ==
    /\ pc[Seeder] = "seedCases"
    /\ \/ Cardinality(CasesIn(seed.dataset)) > 1
       \/ seed.dataset \notin DOMAIN datasets \cup {0}
    /\ SeedFails

\* _ensure_variant_document: the processed document of that title, or a new
\* one in the same transaction, its file on disk at once.
SeedScope ==
    /\ pc[Seeder] = "seedScope"
    /\ \E d \in DOMAIN documents \cup {0} :
           /\ OneOf(Titled(seed.kind), d)
           /\ seed' = [seed EXCEPT !.scope = d]
           /\ files' = IF d = 0 THEN files \cup {FileOf(Seeder)} ELSE files
    /\ Goto(Seeder, "seedConfig")
    /\ UNCHANGED <<rows, row, other, edit, history>>

\* The new document cannot be ingested: its file is removed, nothing is committed.
SeedScopeFails == pc[Seeder] = "seedScope" /\ Titled(seed.kind) = {} /\ SeedFails

\* Mutant: the configuration is always created.
SeedConfigAgain ==
    /\ pc[Seeder] = "seedConfig"
    /\ seed' = [seed EXCEPT !.config = 0]
    /\ Goto(Seeder, "seedCommit")
    /\ UNCHANGED <<rows, files, row, other, edit, history>>

SeedConfig ==
    /\ pc[Seeder] = "seedConfig"
    /\ \E k \in DOMAIN configs \cup {0} :
           /\ OneOf(ConfigsNamed(seed.kind), k)
           /\ seed' = [seed EXCEPT !.config = k,
                                   !.size = IF k = 0 THEN SeedSize ELSE configs[k].size,
                                   !.overlap = IF k = 0 THEN SeedOverlap ELSE configs[k].overlap,
                                   !.linked = IF k = 0 THEN 0 ELSE configs[k].scope]
    /\ Goto(Seeder, "seedCommit")
    /\ UNCHANGED <<rows, files, row, other, edit, history>>

SeedConfigAmbiguous ==
    pc[Seeder] = "seedConfig" /\ Cardinality(ConfigsNamed(seed.kind)) > 1 /\ SeedRaises

\* The rows the transaction ends with.  A new document has the next id.
Dataset == IF seed.dataset = 0 THEN NewId("dataset") ELSE seed.dataset
Realigned(config) ==
    [config EXCEPT !.size = IF seed.size = SeedSize THEN @ ELSE SeedSize,
                   !.overlap = IF seed.overlap = SeedOverlap THEN @ ELSE SeedOverlap,
                   !.scope = IF seed.linked = Scope THEN @ ELSE Scope]

\* The configuration it is going to update is gone.
SeedRefused == Rewrites /\ seed.config \notin DOMAIN configs

SeedCommit ==
    /\ pc[Seeder] = "seedCommit"
    /\ ~SeedRefused
    /\ datasets' = IF seed.dataset = 0 THEN Put(datasets, Dataset, seed.kind) ELSE datasets
    /\ caseOf' = IF seed.addCase THEN Put(caseOf, NewId("case"), Dataset) ELSE caseOf
    /\ configs' = IF seed.config = 0
                  THEN Put(configs, NewId("config"),
                           Config(seed.kind, SeedSize, SeedOverlap, Scope))
                  ELSE IF Rewrites
                  THEN [configs EXCEPT ![seed.config] = Realigned(@)]
                  ELSE configs
    /\ documents' = IF NewScope
                    THEN Put(documents, NewId("document"), Document(Seeder, "processed"))
                    ELSE documents
    /\ chunked' = IF NewScope THEN chunked \cup {NewId("document")} ELSE chunked
    /\ ids' = [ids EXCEPT !["dataset"] = @ + (IF seed.dataset = 0 THEN 1 ELSE 0),
                          !["case"] = @ + (IF seed.addCase THEN 1 ELSE 0),
                          !["config"] = @ + (IF seed.config = 0 THEN 1 ELSE 0),
                          !["document"] = @ + (IF NewScope THEN 1 ELSE 0)]
    /\ raced' = IF Rewrites /\ Reading(Seeder, seed.config)
                THEN raced \cup {seed.config} ELSE raced
    /\ late' = IF seed.addCase THEN late \cup LateCase(NewId("case"), Dataset) ELSE late
    /\ IF seed.kind = "rag" THEN SeedEnds ELSE Goto(Seeder, "seedDocument")
    /\ UNCHANGED <<runOf, files, locals, seedings, unlinked, given, hurt>>

SeedRollback == pc[Seeder] = "seedCommit" /\ SeedRefused /\ SeedRaises

\* ensure_quickstart_corpus_document, in a transaction of its own.
SeedDocument ==
    /\ pc[Seeder] = "seedDocument"
    /\ IF Titled(seed.kind) = {}
       THEN Goto(Seeder, "ingest") /\ files' = files \cup {FileOf(Seeder)}
       ELSE SeedEnds /\ UNCHANGED files
    /\ UNCHANGED <<rows, locals, history>>
-----------------------------------------------------------------------------
(* Faults. *)

\* A process dies: every request in flight with the API process, or the
\* script.  Nothing it had not committed remains, except its files.
Crash(hit) ==
    /\ "crash" \in Faults
    /\ \E a \in hit : pc[a] \notin {"idle", "done"}
    /\ pc' = [a \in Actors |-> IF a \in hit /\ pc[a] # "idle" THEN Last(a) ELSE pc[a]]
    /\ hurt' = TRUE
    /\ UNCHANGED <<rows, files, locals, seedings, unlinked, given, raced, late>>

\* A commit raises: the transaction is rolled back and the handler ends.
CommitFails(a) ==
    /\ "db" \in Faults
    /\ pc[a] \in {"dropDataset", "dropCase", "dropConfig", "insertCase", "insertRun", "moveCase",
                   "rename", "patch", "ingest", "dropDocument", "seedCommit"}
    /\ Goto(a, Last(a))
    /\ hurt' = TRUE
    /\ UNCHANGED <<rows, files, locals, seedings, unlinked, given, raced, late>>

Request(r) ==
    \/ StartDelete(r) \/ CountChildren(r) \/ LookChildren(r)
    \/ DropDataset(r) \/ DropCase(r) \/ DropConfig(r)
    \/ CreateDataset(r) \/ CreateConfig(r)
    \/ StartCreate(r) \/ InsertCase(r) \/ InsertRun(r) \/ MoveCase(r)
    \/ StartRename(r) \/ RenameDataset(r) \/ StartPatch(r) \/ Patch(r)
    \/ Upload(r) \/ StartDeleteDocument(r) \/ DropDocument(r)

Seeding ==
    \/ StartSeed \/ StartSeedAmbiguous \/ SeedCases \/ SeedCasesWrong
    \/ SeedScope \/ SeedScopeFails \/ SeedConfig \/ SeedConfigAmbiguous
    \/ SeedCommit \/ SeedRollback \/ SeedDocument

Next ==
    \/ \E r \in Requests : Request(r)
    \/ Seeding
    \/ \E a \in Actors : Ingest(a) \/ IngestFails(a) \/ UnlinkFailed(a) \/ CommitFails(a)
    \/ \E hit \in {Requests, {Seeder}} : Crash(hit)

Spec == Init /\ [][Next]_vars

-----------------------------------------------------------------------------
(* Properties. *)

\* Whatever else is under way, a guarded deletion takes along only what came
\* below its row after it had looked: the only query case that disappears is
\* the one asked for, and no run that could be seen disappears with it.
LosesOnlyLate ==
    [][/\ \A x \in DOMAIN runOf \ DOMAIN runOf' : <<"run", x>> \in late
       /\ \A c \in DOMAIN caseOf \ DOMAIN caseOf' :
              <<"case", c>> \in late \/ \E r \in Requests : pc[r] = "dropCase" /\ row[r] = c]_vars

\* A configuration chunks with an overlap its size allows, unless two sessions
\* had read it when one of them wrote it.
ValidUnlessRaced ==
    \A k \in DOMAIN configs \ raced : configs[k].overlap <= configs[k].size

\* A document counts as processed exactly when its chunks are stored, whatever
\* dies, fails or is deleted meanwhile.
ProcessedHasChunks == chunked = {d \in DOMAIN documents : documents[d].status = "processed"}

\* No handler and no script removes the file of a processed document whose
\* deletion has not begun.
FileUntilDeleted ==
    \A d \in chunked \ unlinked : documents[d].file \in files

\* When every actor is done and nothing died or was rolled back, the upload directory holds the
\* files of processed documents and no other.
NoLostFiles ==
    (\A a \in Actors : pc[a] = "done") /\ ~hurt =>
        files = {documents[d].file : d \in chunked}

\* Started again after any end, among other requests, a seed script adds no second
\* dataset, configuration or processed document of a name: of the rows that bear
\* it, at most one does not have it from a request that created or renamed a row.
SeedIdempotent ==
    \A n \in SeedNames :
        /\ Cardinality({d \in Named(datasets, n) : <<"dataset", d>> \notin given}) <= 1
        /\ Cardinality({k \in ConfigsNamed(n) : <<"config", k>> \notin given}) <= 1
        /\ Cardinality(Titled(n)) <= 1
=============================================================================

--------------------------- MODULE CatalogProofs ---------------------------
(***************************************************************************)
(* Proofs about Catalog, for every number of requests and seedings, all    *)
(* sizes and every set of faults.                                          *)
(***************************************************************************)
EXTENDS Catalog, FiniteSetTheorems, TLAPS

LEMMA Constants ==
    /\ Seeder \notin Requests /\ Seeder \in Actors /\ Requests \subseteq Actors
    /\ \A a \in Actors : a \in Requests \/ a = Seeder
    /\ SeedRuns \in Nat
    /\ Values \subseteq Nat /\ Labels \subseteq Names
BY CatalogAssumption DEF Actors

\* The steps that write a table, and those that only read.
Writes(r) ==
    \/ DropDataset(r) \/ DropCase(r) \/ DropConfig(r) \/ CreateDataset(r) \/ CreateConfig(r)
    \/ InsertCase(r) \/ InsertRun(r) \/ MoveCase(r) \/ RenameDataset(r) \/ Patch(r)
    \/ DropDocument(r)

LEMMA RowSteps ==
    ASSUME [Next]_vars
    PROVE  \/ UNCHANGED rows
           \/ \E r \in Requests : Writes(r)
           \/ SeedCommit
           \/ \E a \in Actors : Ingest(a) \/ IngestFails(a)
<1>1. ASSUME NEW r \in Requests, Request(r), ~Writes(r) PROVE UNCHANGED rows
  BY <1>1 DEF Request, Writes, StartDelete, CountChildren, LookChildren, StartCreate, StartRename,
              StartPatch, Upload, StartDeleteDocument, Opens, Edits, Reads
<1>2. ASSUME Seeding, ~SeedCommit PROVE UNCHANGED rows
  BY <1>2 DEF Seeding, StartSeed, StartSeedAmbiguous, SeedCases, SeedCasesWrong, SeedScope,
              SeedScopeFails, SeedConfig, SeedConfigAmbiguous, SeedRollback, SeedDocument,
              SeedFails, SeedRaises
<1>3. ASSUME NEW a \in Actors, UnlinkFailed(a) \/ CommitFails(a) PROVE UNCHANGED rows
  BY <1>3 DEF UnlinkFailed, CommitFails
<1>4. ASSUME NEW hit, Crash(hit) PROVE UNCHANGED rows
  BY <1>4 DEF Crash
<1>5. UNCHANGED vars => UNCHANGED rows BY DEF vars
<1> QED BY <1>1, <1>2, <1>3, <1>4, <1>5 DEF Next

-----------------------------------------------------------------------------
(* References between the rows. *)

References ==
    /\ DOMAIN datasets \subseteq 1..ids["dataset"] /\ Range(datasets) \subseteq Names
    /\ DOMAIN caseOf \subseteq 1..ids["case"] /\ Range(caseOf) \subseteq DOMAIN datasets
    /\ DOMAIN configs \subseteq 1..ids["config"]
    /\ DOMAIN runOf \subseteq 1..ids["run"]
    /\ Range(runOf) \subseteq [case : DOMAIN caseOf, config : DOMAIN configs]
    /\ ids \in [Tables -> Nat]

\* A dataset below which the script has inserted query cases stays until it commits.
Held ==
    /\ pc[Seeder] \in {"seedScope", "seedConfig", "seedCommit"}
    /\ seed.addCase /\ seed.dataset # 0
    => seed.dataset \in DOMAIN datasets

LEMMA ReferencesStep ==
    ASSUME References, seed.kind \in SeedNames, \A r \in Requests : edit[r].name \in Names,
           Held, [Next]_vars
    PROVE  References'
<1> USE Constants DEF References, Tables, Put, Drop, Range, NewId, Taken, Names
<1>1. CASE UNCHANGED rows BY <1>1 DEF rows
<1>2. ASSUME NEW r \in Requests, DropDataset(r) PROVE References'
  <2>1. /\ DOMAIN datasets' = DOMAIN datasets \ {row[r]}
        /\ \A d \in DOMAIN datasets' : datasets'[d] = datasets[d]
        /\ UNCHANGED <<configs, ids>>
    BY <1>2 DEF DropDataset
  <2>2. /\ DOMAIN caseOf' = {c \in DOMAIN caseOf : caseOf[c] # row[r]}
        /\ \A c \in DOMAIN caseOf' : caseOf'[c] = caseOf[c]
    BY <1>2 DEF DropDataset, CasesIn
  <2>3. /\ DOMAIN runOf' = {x \in DOMAIN runOf : runOf[x].case \notin CasesIn(row[r])}
        /\ \A x \in DOMAIN runOf' : runOf'[x] = runOf[x]
    BY <1>2 DEF DropDataset, RunsOf
  <2>4. \A x \in DOMAIN runOf' : runOf'[x] \in [case : DOMAIN caseOf', config : DOMAIN configs']
    BY <2>1, <2>2, <2>3 DEF CasesIn
  <2>5. Range(datasets') \subseteq Names BY <2>1
  <2>6. Range(caseOf') \subseteq DOMAIN datasets' BY <2>1, <2>2
  <2> QED BY <2>1, <2>2, <2>3, <2>4, <2>5, <2>6
<1>3. ASSUME NEW r \in Requests, DropCase(r) PROVE References'
  <2>1. /\ DOMAIN caseOf' = DOMAIN caseOf \ {row[r]}
        /\ \A c \in DOMAIN caseOf' : caseOf'[c] = caseOf[c]
        /\ UNCHANGED <<datasets, configs, ids>>
    BY <1>3 DEF DropCase
  <2>2. /\ DOMAIN runOf' = {x \in DOMAIN runOf : runOf[x].case # row[r]}
        /\ \A x \in DOMAIN runOf' : runOf'[x] = runOf[x]
    BY <1>3 DEF DropCase, RunsOf
  <2>3. \A x \in DOMAIN runOf' : runOf'[x] \in [case : DOMAIN caseOf', config : DOMAIN configs']
    BY <2>1, <2>2
  <2> QED BY <2>1, <2>2, <2>3
<1>4. ASSUME NEW r \in Requests, DropConfig(r) PROVE References'
  BY <1>4 DEF DropConfig, UsesOf
<1>5. ASSUME NEW r \in Requests, CreateDataset(r) PROVE References'
  BY <1>5 DEF CreateDataset
<1>6. ASSUME NEW r \in Requests, RenameDataset(r) PROVE References'
  BY <1>6 DEF RenameDataset
<1>7. ASSUME NEW r \in Requests, CreateConfig(r) PROVE References'
  BY <1>7 DEF CreateConfig
<1>8. ASSUME NEW r \in Requests, InsertCase(r) PROVE References'
  BY <1>8 DEF InsertCase
<1>9. ASSUME NEW r \in Requests, InsertRun(r) PROVE References'
  BY <1>9 DEF InsertRun
<1>10. ASSUME NEW r \in Requests, MoveCase(r) PROVE References'
  BY <1>10 DEF MoveCase
<1>11. ASSUME NEW r \in Requests, Patch(r) PROVE References'
  BY <1>11 DEF Patch
<1>12. ASSUME NEW r \in Requests, DropDocument(r) PROVE References'
  BY <1>12 DEF DropDocument
<1>13. ASSUME NEW a \in Actors, Ingest(a) \/ IngestFails(a) PROVE References'
  BY <1>13 DEF Ingest, IngestFails
<1>14. ASSUME SeedCommit PROVE References'
  <2>1. /\ ids' \in [Tables -> Nat]
        /\ ids'["dataset"] = IF seed.dataset = 0 THEN ids["dataset"] + 1 ELSE ids["dataset"]
        /\ ids'["case"] = IF seed.addCase THEN ids["case"] + 1 ELSE ids["case"]
        /\ ids'["config"] = IF seed.config = 0 THEN ids["config"] + 1 ELSE ids["config"]
        /\ ids'["run"] = ids["run"]
    BY <1>14 DEF SeedCommit
  <2>2. /\ DOMAIN datasets' \subseteq 1..ids'["dataset"] /\ Range(datasets') \subseteq Names
        /\ DOMAIN datasets \subseteq DOMAIN datasets'
        /\ seed.addCase => Dataset \in DOMAIN datasets'
    <3>1. CASE seed.dataset = 0
      <4>1. Dataset = ids["dataset"] + 1 /\ datasets' = Put(datasets, Dataset, seed.kind)
        BY <1>14, <3>1 DEF SeedCommit, Dataset
      <4>2. DOMAIN datasets' = DOMAIN datasets \cup {Dataset}
        BY <4>1
      <4>3. \A d \in DOMAIN datasets' : datasets'[d] \in Names
        BY <4>1
      <4>4. Range(datasets') \subseteq Names BY <4>3
      <4> HIDE DEF Range, Put, Drop, Names
      <4> QED BY <2>1, <3>1, <4>1, <4>2, <4>4
    <3>2. CASE seed.dataset # 0
      <4>1. UNCHANGED datasets /\ Dataset = seed.dataset /\ pc[Seeder] = "seedCommit"
        BY <1>14, <3>2 DEF SeedCommit, Dataset
      <4> QED BY <2>1, <3>2, <4>1 DEF Held
    <3> QED BY <3>1, <3>2
  <2>3. DOMAIN caseOf' \subseteq 1..ids'["case"] /\ DOMAIN caseOf \subseteq DOMAIN caseOf'
    BY <1>14, <2>1 DEF SeedCommit
  <2>4. \A c \in DOMAIN caseOf' :
            \/ c \in DOMAIN caseOf /\ caseOf'[c] = caseOf[c]
            \/ seed.addCase /\ caseOf'[c] = Dataset
    BY <1>14 DEF SeedCommit
  <2>5. DOMAIN configs' \subseteq 1..ids'["config"] /\ DOMAIN configs \subseteq DOMAIN configs'
    BY <1>14, <2>1 DEF SeedCommit
  <2>6. UNCHANGED runOf BY <1>14 DEF SeedCommit
  <2>7. Range(runOf') \subseteq [case : DOMAIN caseOf', config : DOMAIN configs']
    BY <2>3, <2>5, <2>6
  <2>8. Range(caseOf') \subseteq DOMAIN datasets'
    BY <2>2, <2>4
  <2> HIDE DEF Range, Put, Drop, Names
  <2>9. DOMAIN runOf' \subseteq 1..ids'["run"] BY <2>1, <2>6
  <2> QED BY <2>1, <2>2, <2>3, <2>5, <2>7, <2>8, <2>9
<1> HIDE DEF References, Tables, Put, Drop, Range, NewId, Taken, Names
<1> QED BY <1>1, <1>2, <1>3, <1>4, <1>5, <1>7, <1>8, <1>9, <1>10, <1>11, <1>12, <1>13, <1>14,
           <1>6, RowSteps DEF Writes

-----------------------------------------------------------------------------
(* Configurations, documents and files, and what the actors hold. *)

Configured ==
    \A k \in DOMAIN configs :
        configs[k] \in [name : Names, size : Sizes, overlap : Sizes, scope : 0..ids["document"]]

Stored ==
    /\ DOMAIN documents \subseteq 1..ids["document"]
    /\ Range(documents) \subseteq
           [title : Names, status : {"processed", "failed"}, file : Files]
    /\ chunked \subseteq DOMAIN documents
    /\ files \subseteq Files

Edit == [set : SUBSET Columns, name : Names, size : Sizes, overlap : Sizes]
Found == [kind : SeedNames, dataset : Nat, config : Nat, addCase : BOOLEAN,
          scope : 0..ids["document"], size : Sizes, overlap : Sizes,
          linked : 0..ids["document"]]
Control ==
    /\ pc \in [Actors -> Steps]
    /\ row \in [Actors -> Nat] /\ other \in [Actors -> Nat]
    /\ edit \in [Requests -> Edit]
    /\ seedings \in 0..SeedRuns
    /\ seed \in Found
    /\ pc[Seeder] \notin {"idle", "done"} => seedings # 0

LEMMA IdsGrow ==
    ASSUME ids \in [Tables -> Nat], [Next]_vars
    PROVE  ids' \in [Tables -> Nat] /\ \A t \in Tables : ids[t] <= ids'[t]
<1> USE DEF Tables, Taken
<1>1. CASE UNCHANGED rows BY <1>1 DEF rows
<1>2. ASSUME NEW r \in Requests, Writes(r)
      PROVE  ids' \in [Tables -> Nat] /\ \A t \in Tables : ids[t] <= ids'[t]
  BY <1>2 DEF Writes, DropDataset, DropCase, DropConfig, CreateDataset, CreateConfig, InsertCase,
              InsertRun, MoveCase, RenameDataset, Patch, DropDocument
<1>3. ASSUME SeedCommit
      PROVE  ids' \in [Tables -> Nat] /\ \A t \in Tables : ids[t] <= ids'[t]
  BY <1>3 DEF SeedCommit
<1>4. ASSUME NEW a \in Actors, Ingest(a) \/ IngestFails(a)
      PROVE  ids' \in [Tables -> Nat] /\ \A t \in Tables : ids[t] <= ids'[t]
  BY <1>4 DEF Ingest, IngestFails
<1> QED BY <1>1, <1>2, <1>3, <1>4, RowSteps

LEMMA NoEditTyped == NoEdit \in Edit
BY DEF NoEdit, Edit, Names, Sizes

\* A request that has read the row it is going to change.
LEMMA EditBegins ==
    ASSUME Control, NEW r \in Requests, StartRename(r) \/ StartPatch(r)
    PROVE  /\ pc[r] = "idle"
           /\ pc' = [pc EXCEPT ![r] = "rename"] \/ pc' = [pc EXCEPT ![r] = "patch"]
           /\ StartRename(r) => pc' = [pc EXCEPT ![r] = "rename"]
           /\ \A q \in Requests \ {r} : row'[q] = row[q] /\ edit'[q] = edit[q]
           /\ UNCHANGED <<rows, files, seed, history>>
<1>1. PICK step, i, columns, label, size, overlap :
          /\ Edits(r, step, i, columns, label, size, overlap)
          /\ step = "rename" \/ step = "patch"
          /\ StartRename(r) => step = "rename"
  <2>1. ASSUME StartRename(r)
        PROVE  \E i, columns, label, size, overlap :
                   Edits(r, "rename", i, columns, label, size, overlap)
    BY <2>1, Zenon DEF StartRename
  <2>2. ASSUME StartPatch(r)
        PROVE  \E i, columns, label, size, overlap :
                   Edits(r, "patch", i, columns, label, size, overlap)
    BY <2>2, Zenon DEF StartPatch
  <2>3. CASE StartRename(r) BY <2>1, <2>3, Zenon
  <2>4. CASE ~StartRename(r) BY <2>2, <2>4, Zenon
  <2> QED BY <2>3, <2>4
<1>2. pc[r] = "idle" /\ pc' = [pc EXCEPT ![r] = step] BY <1>1 DEF Edits, Goto
<1>3. UNCHANGED <<rows, files, seed, history>> BY <1>1 DEF Edits
<1>4. /\ row' = [row EXCEPT ![r] = i]
      /\ \E new : edit' = [edit EXCEPT ![r] = new]
  BY <1>1, Zenon DEF Edits, Hold
<1>5. \A q \in Requests \ {r} : row'[q] = row[q] /\ edit'[q] = edit[q]
  BY <1>4, Constants DEF Control
<1> QED BY <1>1, <1>2, <1>3, <1>5

LEMMA ControlStep ==
    ASSUME Control, References, Configured, Stored, [Next]_vars
    PROVE  Control'
<1> USE Constants DEF Control
<1>1. seed' = seed => seed' \in Found'
  <2>1. \A n : n \in 0..ids["document"] => n \in 0..ids'["document"]
    BY IdsGrow DEF References, Tables
  <2> QED BY <2>1 DEF Found
<1>2. ASSUME NEW a \in Actors, NEW step \in Steps,
             pc' = [pc EXCEPT ![a] = step],
             a = Seeder /\ pc[a] \in {"idle", "done"} => step \in {"idle", "done"},
             UNCHANGED <<row, other, edit, seed, seedings>>
      PROVE  Control'
  BY <1>1, <1>2
<1>3. ASSUME NEW r \in Requests,
             \/ CountChildren(r) \/ LookChildren(r) \/ Upload(r)
             \/ DropDataset(r) \/ DropCase(r) \/ DropConfig(r)
             \/ InsertCase(r) \/ InsertRun(r) \/ MoveCase(r) \/ DropDocument(r)
      PROVE  Control'
  <2>1. /\ UNCHANGED <<row, other, edit, seed, seedings>>
        /\ \E step \in Steps : pc' = [pc EXCEPT ![r] = step]
    BY <1>3 DEF CountChildren, LookChildren, Upload, Reads, Ends, EndsLate, Goto, Steps,
                DropDataset, DropCase, DropConfig, InsertCase, InsertRun, MoveCase, DropDocument,
                locals, history
  <2> QED BY <1>2, <2>1
<1>4. ASSUME NEW a \in Actors,
             Ingest(a) \/ IngestFails(a) \/ UnlinkFailed(a) \/ CommitFails(a)
      PROVE  Control'
  <2>1. /\ UNCHANGED <<row, other, edit, seed, seedings>>
        /\ pc[a] \notin {"idle", "done"}
        /\ \E step \in {"idle", "done", "unlink"} : pc' = [pc EXCEPT ![a] = step]
    BY <1>4 DEF Ingest, IngestFails, UnlinkFailed, CommitFails, Goto, Last, locals, history
  <2>2. {"idle", "done", "unlink"} \subseteq Steps BY DEF Steps
  <2> QED BY <1>2, <2>1, <2>2
<1>5. ASSUME NEW r \in Requests, NEW step \in Steps, NEW i \in Nat, NEW j \in Nat,
             Opens(r, step, i, j)
      PROVE  Control'
  <2>1. UNCHANGED <<edit, seed, seedings>> BY <1>5 DEF Opens, history
  <2>2. pc' \in [Actors -> Steps] /\ pc'[Seeder] = pc[Seeder] BY <1>5 DEF Opens, Goto
  <2>3. row' \in [Actors -> Nat] /\ other' \in [Actors -> Nat] BY <1>5 DEF Opens, Hold
  <2> QED BY <1>1, <2>1, <2>2, <2>3
<1>6. ASSUME NEW r \in Requests, StartDelete(r) \/ StartCreate(r) PROVE Control'
  <2>1. \A n : n \in DOMAIN datasets \/ n \in DOMAIN caseOf \/ n \in DOMAIN configs => n \in Nat
    BY DEF References, Tables
  <2>2. {"countCases", "countRuns", "countUses", "insertCase", "insertRun", "moveCase"}
            \subseteq Steps
    BY DEF Steps
  <2>3. ASSUME StartDelete(r) PROVE Control' BY <1>5, <2>1, <2>2, <2>3 DEF StartDelete
  <2>4. ASSUME StartCreate(r) PROVE Control' BY <1>5, <2>1, <2>2, <2>4 DEF StartCreate
  <2> QED BY <1>6, <2>3, <2>4
<1>7. ASSUME NEW r \in Requests, NEW step \in Steps, NEW i \in Nat, NEW columns \in SUBSET Columns,
              NEW label \in Names, NEW size \in Sizes, NEW overlap \in Sizes,
              Edits(r, step, i, columns, label, size, overlap)
       PROVE  Control'
  <2>1. UNCHANGED <<seed, seedings>> BY <1>7 DEF Edits, history
  <2>2. pc' \in [Actors -> Steps] /\ pc'[Seeder] = pc[Seeder] BY <1>7 DEF Edits, Goto
  <2>3. row' \in [Actors -> Nat] /\ other' \in [Actors -> Nat] BY <1>7 DEF Edits, Hold
  <2>4. [set |-> columns, name |-> label, size |-> size, overlap |-> overlap] \in Edit BY DEF Edit
  <2>5. edit' \in [Requests -> Edit] BY <1>7, <2>4 DEF Edits
  <2> QED BY <1>1, <2>1, <2>2, <2>3, <2>5
<1>8. ASSUME NEW r \in Requests, StartRename(r) \/ StartPatch(r) PROVE Control'
  <2>1. \A n : n \in DOMAIN datasets \/ n \in DOMAIN configs => n \in Nat
    BY DEF References, Tables
  <2>2. {"rename", "patch"} \subseteq Steps BY DEF Steps
  <2>3. SeedSize \in Sizes /\ SeedOverlap \in Sizes /\ {"name"} \in SUBSET Columns
    BY DEF Sizes, Columns
  <2>4. \A config, new : Differing(config, new) \in SUBSET Columns BY DEF Differing
  <2>5. ASSUME StartRename(r) PROVE Control'
    BY <1>7, <2>1, <2>2, <2>3, <2>5 DEF StartRename
  <2>6. ASSUME StartPatch(r) PROVE Control'
    <3>1. PICK k \in DOMAIN configs, label \in Names, size, overlap \in Sizes :
              Edits(r, "patch", k,
                    Differing(configs[k], [name |-> label, size |-> size, overlap |-> overlap]),
                    label, size, overlap)
      BY <2>6 DEF StartPatch
    <3> QED BY <1>7, <2>1, <2>2, <2>4, <3>1
  <2> QED BY <1>8, <2>5, <2>6
<1>9. ASSUME NEW r \in Requests,
              CreateDataset(r) \/ CreateConfig(r) \/ RenameDataset(r) \/ Patch(r)
       PROVE  Control'
  <2>1. /\ UNCHANGED <<row, other, seed, seedings>>
        /\ edit' = edit \/ edit' = [edit EXCEPT ![r] = NoEdit]
        /\ pc' = [pc EXCEPT ![r] = "done"]
    BY <1>9 DEF CreateDataset, CreateConfig, RenameDataset, Patch, Gives, Ends, Goto, locals, history
  <2>2. edit' \in [Requests -> Edit] BY <2>1, NoEditTyped
  <2>3. pc' \in [Actors -> Steps] /\ pc'[Seeder] = pc[Seeder] BY <2>1 DEF Steps
  <2> QED BY <1>1, <2>1, <2>2, <2>3
<1>10. ASSUME NEW r \in Requests, StartDeleteDocument(r) PROVE Control'
  <2>1. UNCHANGED <<edit, seed, seedings>> BY <1>10 DEF StartDeleteDocument
  <2>2. pc' \in [Actors -> Steps] /\ pc'[Seeder] = pc[Seeder]
    BY <1>10 DEF StartDeleteDocument, Goto, Steps
  <2>3. \E d \in Nat : Hold(r, d, 0)
    BY <1>10 DEF StartDeleteDocument, Stored, References, Tables
  <2>4. row' \in [Actors -> Nat] /\ other' \in [Actors -> Nat] BY <2>3 DEF Hold
  <2> QED BY <1>1, <2>1, <2>2, <2>4
<1>11. CASE StartSeed
  <2>1. DOMAIN datasets \cup {0} \subseteq Nat BY DEF References, Tables
  <2>2. PICK kind \in SeedNames, d \in Nat : seed' = [NoSeed EXCEPT !.kind = kind, !.dataset = d]
    BY <1>11, <2>1 DEF StartSeed
  <2>3. 0 \in 0..ids'["document"] BY IdsGrow DEF References, Tables
  <2>4. seed' \in Found' BY <2>2, <2>3 DEF NoSeed, Sizes, Found
  <2>5. /\ UNCHANGED <<row, other, edit>> /\ seedings' \in 1..SeedRuns
        /\ pc' = [pc EXCEPT ![Seeder] = "seedCases"]
    BY <1>11 DEF StartSeed, Goto
  <2> QED BY <2>4, <2>5 DEF Steps
<1>12. CASE StartSeedAmbiguous
  <2>1. UNCHANGED <<row, other, edit, seed>> BY <1>12 DEF StartSeedAmbiguous, locals
  <2>2. seedings' \in 1..SeedRuns BY <1>12 DEF StartSeedAmbiguous
  <2>3. \E step \in {"idle", "done"} : pc' = [pc EXCEPT ![Seeder] = step]
    BY <1>12, Zenon DEF StartSeedAmbiguous, Goto
  <2> QED BY <1>1, <2>1, <2>2, <2>3 DEF Steps
<1>13. CASE SeedCases
  <2>1. /\ UNCHANGED <<row, other, edit, seedings>> /\ pc[Seeder] = "seedCases"
        /\ \E step \in {"seedScope", "seedConfig"} : pc' = [pc EXCEPT ![Seeder] = step]
    BY <1>13 DEF SeedCases, Goto, history
  <2>2. seed' = [seed EXCEPT !.addCase = CasesIn(seed.dataset) = {}] BY <1>13 DEF SeedCases
  <2>3. (CasesIn(seed.dataset) = {}) \in BOOLEAN OBVIOUS
  <2>4. \A n : n \in 0..ids["document"] => n \in 0..ids'["document"]
    BY IdsGrow DEF References, Tables
  <2>5. seed' \in Found' BY <2>2, <2>3, <2>4 DEF Found
  <2> QED BY <2>1, <2>5 DEF Steps
<1>14. CASE SeedScope
  <2>1. /\ UNCHANGED <<row, other, edit, seedings, ids>> /\ pc[Seeder] = "seedScope"
        /\ pc' = [pc EXCEPT ![Seeder] = "seedConfig"]
    BY <1>14 DEF SeedScope, Goto, history, rows
  <2>2. PICK d \in DOMAIN documents \cup {0} : seed' = [seed EXCEPT !.scope = d]
    BY <1>14 DEF SeedScope
  <2>3. d \in 0..ids["document"] BY DEF Stored, References, Tables
  <2>4. seed' \in Found' BY <2>1, <2>2, <2>3 DEF Found
  <2> QED BY <2>1, <2>4 DEF Steps
<1>15. CASE SeedConfig
  <2>1. /\ UNCHANGED <<row, other, edit, seedings, ids>> /\ pc[Seeder] = "seedConfig"
        /\ pc' = [pc EXCEPT ![Seeder] = "seedCommit"]
    BY <1>15 DEF SeedConfig, Goto, history, rows
  <2>2. DOMAIN configs \cup {0} \subseteq Nat BY DEF References, Tables
  <2>3. \A k \in DOMAIN configs : /\ configs[k].size \in Sizes /\ configs[k].overlap \in Sizes
                                  /\ configs[k].scope \in 0..ids["document"]
    BY DEF Configured
  <2>4. SeedSize \in Sizes /\ SeedOverlap \in Sizes BY DEF Sizes
  <2>5. 0 \in 0..ids["document"] BY DEF References, Tables
  <2>6. \E k \in Nat, size \in Sizes, overlap \in Sizes, scope \in 0..ids["document"] :
            seed' = [seed EXCEPT !.config = k, !.size = size, !.overlap = overlap,
                                 !.linked = scope]
    <3>1. PICK k \in DOMAIN configs \cup {0} :
              seed' = [seed EXCEPT !.config = k,
                                   !.size = IF k = 0 THEN SeedSize ELSE configs[k].size,
                                   !.overlap = IF k = 0 THEN SeedOverlap ELSE configs[k].overlap,
                                   !.linked = IF k = 0 THEN 0 ELSE configs[k].scope]
      BY <1>15 DEF SeedConfig
    <3>2. CASE k = 0 BY <2>4, <2>5, <3>1, <3>2
    <3>3. CASE k # 0
      <4>1. k \in DOMAIN configs /\ k \in Nat BY <2>2, <3>3
      <4>2. seed' = [seed EXCEPT !.config = k, !.size = configs[k].size,
                                 !.overlap = configs[k].overlap, !.linked = configs[k].scope]
        BY <3>1, <3>3
      <4> QED BY <2>3, <4>1, <4>2
    <3> QED BY <3>2, <3>3
  <2>7. seed' \in Found' BY <2>1, <2>6 DEF Found
  <2> QED BY <2>1, <2>7 DEF Steps
<1>16. ASSUME \/ SeedCasesWrong \/ SeedScopeFails \/ SeedConfigAmbiguous \/ SeedCommit
              \/ SeedRollback \/ SeedDocument
       PROVE  Control'
  <2>1. /\ UNCHANGED <<row, other, edit, seed, seedings>>
        /\ pc[Seeder] \notin {"idle", "done"}
        /\ \E step \in {"idle", "done", "ingest", "seedDocument"} :
               pc' = [pc EXCEPT ![Seeder] = step]
    BY <1>16 DEF SeedCasesWrong, SeedScopeFails, SeedConfigAmbiguous, SeedCommit, SeedRollback,
                 SeedDocument, SeedFails, SeedRaises, SeedEnds, Goto, Last, locals, history
  <2>2. {"idle", "done", "ingest", "seedDocument"} \subseteq Steps BY DEF Steps
  <2> QED BY <1>2, <2>1, <2>2
<1>17. ASSUME NEW hit, Crash(hit) PROVE Control'
  <2>1. \A a \in Actors : pc'[a] = pc[a] \/ pc'[a] \in {"idle", "done"}
    BY <1>17 DEF Crash, Last
  <2>2. pc' \in [Actors -> Steps] BY <1>17, <2>1 DEF Crash, Steps, Last
  <2> QED BY <1>1, <1>17, <2>1, <2>2 DEF Crash, locals
<1>18. CASE UNCHANGED vars BY <1>1, <1>18 DEF vars, locals, history
<1> HIDE DEF Control
<1> QED BY <1>3, <1>4, <1>6, <1>10, <1>11, <1>13, <1>14, <1>15, <1>16, <1>17, <1>18, <1>8, <1>9,
           <1>12 DEF Next, Request, Seeding

LEMMA ConfiguredStep ==
    ASSUME Control, References, Configured, [Next]_vars
    PROVE  Configured'
<1> USE Constants DEF Configured
<1>1. \A n : n \in 0..ids["document"] => n \in 0..ids'["document"]
  BY IdsGrow DEF References, Tables
<1>2. ASSUME UNCHANGED configs PROVE Configured' BY <1>1, <1>2
<1>3. ASSUME NEW r \in Requests, DropConfig(r) PROVE Configured'
  BY <1>1, <1>3 DEF DropConfig, Drop
<1>4. ASSUME NEW r \in Requests, CreateConfig(r) PROVE Configured'
  <2>1. PICK label \in Labels, size \in Values, overlap \in Values :
            configs' = Put(configs, NewId("config"), Config(label, size, overlap, 0))
    BY <1>4 DEF CreateConfig
  <2>2. 0 \in 0..ids'["document"] BY IdsGrow DEF References, Tables
  <2>3. Config(label, size, overlap, 0) \in
            [name : Names, size : Sizes, overlap : Sizes, scope : 0..ids'["document"]]
    BY <2>2 DEF Config, Sizes
  <2> QED BY <1>1, <2>1, <2>3 DEF Put
<1>5. ASSUME NEW r \in Requests, Patch(r) PROVE Configured'
  <2>1. edit[r] \in Edit BY DEF Control
  <2>2. \A k \in DOMAIN configs : Patched(configs[k], edit[r]) \in
            [name : Names, size : Sizes, overlap : Sizes, scope : 0..ids'["document"]]
    BY <1>1, <2>1 DEF Patched, Edit
  <2>3. \/ configs' = [configs EXCEPT ![row[r]] = Patched(@, edit[r])]
        \/ configs' = configs
    BY <1>5 DEF Patch
  <2> QED BY <1>1, <2>2, <2>3
<1>6. CASE SeedCommit
  <2>1. SeedSize \in Sizes /\ SeedOverlap \in Sizes /\ seed.kind \in Names
    BY DEF Sizes, Names, Control, Found
  <2>2. Scope \in 0..ids'["document"]
    <3>1. ids'["document"] = IF NewScope THEN ids["document"] + 1 ELSE ids["document"]
      BY <1>6 DEF SeedCommit, References, Tables
    <3> QED BY <3>1 DEF Scope, NewScope, NewId, Control, Found, References, Tables
  <2>3. Config(seed.kind, SeedSize, SeedOverlap, Scope) \in
            [name : Names, size : Sizes, overlap : Sizes, scope : 0..ids'["document"]]
    BY <2>1, <2>2 DEF Config
  <2>4. \A k \in DOMAIN configs : Realigned(configs[k]) \in
            [name : Names, size : Sizes, overlap : Sizes, scope : 0..ids'["document"]]
    BY <1>1, <2>1, <2>2 DEF Realigned
  <2>5. \/ configs' = Put(configs, NewId("config"), Config(seed.kind, SeedSize, SeedOverlap, Scope))
        \/ configs' = [configs EXCEPT ![seed.config] = Realigned(@)]
        \/ configs' = configs
    BY <1>6 DEF SeedCommit
  <2> QED BY <1>1, <2>3, <2>4, <2>5 DEF Put
<1>7. ASSUME NEW r \in Requests, Writes(r), ~DropConfig(r), ~CreateConfig(r), ~Patch(r)
      PROVE  UNCHANGED configs
  BY <1>7 DEF Writes, DropDataset, DropCase, CreateDataset, InsertCase, InsertRun, MoveCase,
              RenameDataset, DropDocument
<1>8. ASSUME NEW a \in Actors, Ingest(a) \/ IngestFails(a) PROVE UNCHANGED configs
  BY <1>8 DEF Ingest, IngestFails
<1>9. UNCHANGED rows => UNCHANGED configs BY DEF rows
<1> HIDE DEF Configured
<1> QED BY <1>2, <1>3, <1>4, <1>5, <1>6, <1>7, <1>8, <1>9, RowSteps

\* The steps that touch documents or chunks.
LEMMA DocumentSteps ==
    ASSUME [Next]_vars
    PROVE  \/ UNCHANGED <<documents, chunked>>
           \/ \E r \in Requests : DropDocument(r)
           \/ SeedCommit
           \/ \E a \in Actors : Ingest(a) \/ IngestFails(a)
<1>1. ASSUME NEW r \in Requests, Writes(r), ~DropDocument(r)
      PROVE  UNCHANGED <<documents, chunked>>
  BY <1>1 DEF Writes, DropDataset, DropCase, DropConfig, CreateDataset, CreateConfig, InsertCase,
              InsertRun, MoveCase, RenameDataset, Patch
<1>2. UNCHANGED rows => UNCHANGED <<documents, chunked>> BY DEF rows
<1> QED BY <1>1, <1>2, RowSteps

\* A new document has an id no document has.
LEMMA NewDocument ==
    ASSUME Stored, ids \in [Tables -> Nat]
    PROVE  NewId("document") \notin DOMAIN documents /\ NewId("document") \in Nat
BY DEF Stored, NewId, Tables

LEMMA FileNames ==
    ASSUME Control, NEW a \in Actors, pc[a] \notin {"idle", "done"} \/ a \in Requests
    PROVE  FileOf(a) \in Files /\ TitleOf(a) \in Names
BY Constants DEF Control, Found, FileOf, Files, TitleOf, Names

\* The steps that touch the upload directory.
LEMMA FileSteps ==
    ASSUME [Next]_vars
    PROVE  \/ UNCHANGED files
           \/ \E r \in Requests : Upload(r) \/ StartDeleteDocument(r)
           \/ \E a \in Actors : UnlinkFailed(a)
           \/ SeedScope \/ SeedDocument
<1>1. ASSUME NEW r \in Requests, Request(r), ~Upload(r), ~StartDeleteDocument(r)
      PROVE  UNCHANGED files
  BY <1>1 DEF Request, StartDelete, CountChildren, LookChildren, StartCreate, StartRename, StartPatch,
              Opens, Edits, Reads, DropDataset, DropCase, DropConfig, CreateDataset, CreateConfig,
              InsertCase, InsertRun, MoveCase, RenameDataset, Patch, DropDocument, Ends, EndsLate,
              Gives
<1>2. ASSUME Seeding, ~SeedScope, ~SeedDocument PROVE UNCHANGED files
  BY <1>2 DEF Seeding, StartSeed, StartSeedAmbiguous, SeedCases, SeedCasesWrong, SeedScopeFails,
              SeedConfig, SeedConfigAmbiguous, SeedCommit, SeedRollback, SeedFails, SeedRaises
<1>3. ASSUME NEW a \in Actors, Ingest(a) \/ IngestFails(a) \/ CommitFails(a) PROVE UNCHANGED files
  BY <1>3 DEF Ingest, IngestFails, CommitFails
<1>4. ASSUME NEW hit, Crash(hit) PROVE UNCHANGED files BY <1>4 DEF Crash
<1>5. UNCHANGED vars => UNCHANGED files BY DEF vars
<1> QED BY <1>1, <1>2, <1>3, <1>4, <1>5 DEF Next

LEMMA StoredStep ==
    ASSUME Control, References, Stored, [Next]_vars
    PROVE  Stored'
<1> USE Constants
<1>1. files' \subseteq Files
  <2> USE DEF Stored
  <2>1. CASE UNCHANGED files BY <2>1
  <2>2. ASSUME NEW r \in Requests, Upload(r) PROVE files' \subseteq Files
    BY <2>2, FileNames DEF Upload
  <2>3. ASSUME NEW r \in Requests, StartDeleteDocument(r) PROVE files' \subseteq Files
    BY <2>3 DEF StartDeleteDocument
  <2>4. ASSUME NEW a \in Actors, UnlinkFailed(a) PROVE files' \subseteq Files
    BY <2>4 DEF UnlinkFailed
  <2>5. ASSUME SeedScope \/ SeedDocument PROVE files' \subseteq Files
    <3>1. pc[Seeder] \notin {"idle", "done"} BY <2>5 DEF SeedScope, SeedDocument
    <3>2. FileOf(Seeder) \in Files BY <3>1, FileNames
    <3> QED BY <2>5, <3>2 DEF SeedScope, SeedDocument
  <2> QED BY <2>1, <2>2, <2>3, <2>4, <2>5, FileSteps
<1> DEFINE Rest == /\ DOMAIN documents \subseteq 1..ids["document"]
                   /\ Range(documents) \subseteq
                          [title : Names, status : {"processed", "failed"}, file : Files]
                   /\ chunked \subseteq DOMAIN documents
<1>2. ids["document"] \in Nat /\ ids'["document"] \in Nat /\ ids["document"] <= ids'["document"]
  BY IdsGrow DEF References, Tables
<1>3. ASSUME UNCHANGED <<documents, chunked>> PROVE Rest'
  BY <1>2, <1>3 DEF Stored
<1>4. ASSUME NEW r \in Requests, DropDocument(r) PROVE Rest'
  BY <1>2, <1>4 DEF DropDocument, Drop, Range, Stored
<1>5. ASSUME NEW a \in Actors, NEW outcome \in {"processed", "failed"},
             FileOf(a) \in Files, TitleOf(a) \in Names,
             documents' = Put(documents, NewId("document"), Document(a, outcome)),
             chunked' \subseteq chunked \cup {NewId("document")},
             ids'["document"] = ids["document"] + 1
      PROVE  Rest'
  <2>1. Document(a, outcome) \in
            [title : Names, status : {"processed", "failed"}, file : Files]
    BY <1>5 DEF Document
  <2>2. DOMAIN documents' = DOMAIN documents \cup {ids'["document"]}
    BY <1>5 DEF Put, NewId
  <2>3. \A d \in DOMAIN documents' :
            documents'[d] \in [title : Names, status : {"processed", "failed"}, file : Files]
    BY <1>5, <2>1 DEF Put, Stored, Range
  <2>4. DOMAIN documents' \subseteq 1..ids'["document"]
    BY <1>2, <1>5, <2>2 DEF Stored
  <2>5. chunked' \subseteq DOMAIN documents' BY <1>5, <2>2 DEF Stored, NewId
  <2> QED BY <2>3, <2>4, <2>5 DEF Range
<1> HIDE DEF Rest
<1>6. ASSUME NEW a \in Actors, Ingest(a) \/ IngestFails(a) PROVE Rest'
  <2>1. ids'["document"] = ids["document"] + 1
    BY <1>6 DEF Ingest, IngestFails, Taken, References, Tables
  <2>2. FileOf(a) \in Files /\ TitleOf(a) \in Names
    BY <1>6, FileNames DEF Ingest, IngestFails
  <2>3. \/ /\ documents' = Put(documents, NewId("document"), Document(a, "processed"))
           /\ chunked' = chunked \cup {NewId("document")}
        \/ /\ documents' = Put(documents, NewId("document"), Document(a, "failed"))
           /\ chunked' = chunked
    BY <1>6 DEF Ingest, IngestFails
  <2> QED BY <1>5, <2>1, <2>2, <2>3
<1>7. ASSUME SeedCommit PROVE Rest'
  <2>1. CASE NewScope
    <3>1. ids'["document"] = ids["document"] + 1
      BY <1>7, <2>1 DEF SeedCommit, References, Tables
    <3>2. FileOf(Seeder) \in Files /\ TitleOf(Seeder) \in Names
      BY <1>7, FileNames DEF SeedCommit
    <3>3. /\ documents' = Put(documents, NewId("document"), Document(Seeder, "processed"))
          /\ chunked' = chunked \cup {NewId("document")}
      BY <1>7, <2>1 DEF SeedCommit
    <3>4. "processed" \in {"processed", "failed"} OBVIOUS
    <3> QED BY <1>5, <3>1, <3>2, <3>3, <3>4
  <2>2. CASE ~NewScope
    <3>1. UNCHANGED <<documents, chunked>> BY <1>7, <2>2 DEF SeedCommit
    <3> QED BY <1>3, <3>1
  <2> QED BY <2>1, <2>2
<1>8. Rest' BY <1>3, <1>4, <1>6, <1>7, DocumentSteps
<1> QED BY <1>1, <1>8 DEF Stored, Rest

LEMMA ChunkedStep ==
    ASSUME References, Stored, ProcessedHasChunks, [Next]_vars
    PROVE  ProcessedHasChunks'
<1> USE DEF ProcessedHasChunks
<1>1. NewId("document") \notin DOMAIN documents BY NewDocument DEF References
<1>2. CASE UNCHANGED <<documents, chunked>> BY <1>2
<1>3. ASSUME NEW r \in Requests, DropDocument(r) PROVE ProcessedHasChunks'
  BY <1>3 DEF DropDocument, Drop
<1>4. ASSUME NEW a \in Actors, NEW outcome \in {"processed", "failed"},
             documents' = Put(documents, NewId("document"), Document(a, outcome)),
             chunked' = IF outcome = "processed" THEN chunked \cup {NewId("document")} ELSE chunked
      PROVE  ProcessedHasChunks'
  <2> DEFINE new == NewId("document")
  <2>1. DOMAIN documents' = DOMAIN documents \cup {new} BY <1>4 DEF Put
  <2>2. \A d \in DOMAIN documents : documents'[d] = documents[d] BY <1>1, <1>4 DEF Put
  <2>3. documents'[new].status = outcome BY <1>4 DEF Put, Document
  <2> HIDE DEF new
  <2>4. chunked' = IF outcome = "processed" THEN chunked \cup {new} ELSE chunked BY <1>4 DEF new
  <2> QED BY <1>1, <2>1, <2>2, <2>3, <2>4 DEF new
<1>5. ASSUME NEW a \in Actors, Ingest(a) \/ IngestFails(a) PROVE ProcessedHasChunks'
  <2> HIDE DEF ProcessedHasChunks
  <2>1. CASE Ingest(a) BY <1>4, <2>1 DEF Ingest
  <2>2. CASE IngestFails(a) BY <1>4, <2>2 DEF IngestFails
  <2> QED BY <1>5, <2>1, <2>2
<1>6. CASE SeedCommit
  <2> HIDE DEF ProcessedHasChunks
  <2>1. CASE NewScope BY <1>4, <1>6, <2>1, Constants DEF SeedCommit
  <2>2. CASE ~NewScope BY <1>2, <1>6, <2>2 DEF SeedCommit
  <2> QED BY <2>1, <2>2
<1> HIDE DEF ProcessedHasChunks
<1> QED BY <1>2, <1>3, <1>5, <1>6, DocumentSteps

-----------------------------------------------------------------------------
(* What a guarded deletion takes along. *)

\* What stands below a row whose deletion has looked came there afterwards.
Looked ==
    \A r \in Requests :
        /\ pc[r] = "dropDataset" =>
               /\ \A c \in CasesIn(row[r]) : <<"case", c>> \in late
               /\ \A x \in RunsOf(CasesIn(row[r])) : <<"run", x>> \in late
        /\ pc[r] = "dropCase" => \A x \in RunsOf({row[r]}) : <<"run", x>> \in late

\* The steps after which more may stand below a row, or more deletions have looked.
LEMMA LateSteps ==
    ASSUME Control, [Next]_vars
    PROVE  \/ /\ UNCHANGED <<caseOf, runOf, late>>
              /\ \A r \in Requests : pc'[r] \in {"dropDataset", "dropCase"} =>
                                         pc'[r] = pc[r] /\ row'[r] = row[r]
           \/ \E r \in Requests : \/ LookChildren(r) \/ DropDataset(r) \/ DropCase(r)
                                  \/ InsertCase(r) \/ InsertRun(r) \/ MoveCase(r)
           \/ SeedCommit
<1> DEFINE Quiet == /\ UNCHANGED <<caseOf, runOf, late>>
                    /\ \A r \in Requests : pc'[r] \in {"dropDataset", "dropCase"} =>
                                               pc'[r] = pc[r] /\ row'[r] = row[r]
<1> USE Constants DEF Control
<1>1. ASSUME NEW a \in Actors, NEW step \in Steps \ {"dropDataset", "dropCase"},
             pc' = [pc EXCEPT ![a] = step],
             \A r \in Requests \ {a} : row'[r] = row[r],
             UNCHANGED <<caseOf, runOf, late>>
      PROVE  Quiet
  BY <1>1
<1> HIDE DEF Quiet
<1>2. ASSUME NEW r \in Requests,
             \/ CountChildren(r) \/ DropConfig(r) \/ CreateDataset(r) \/ CreateConfig(r)
             \/ RenameDataset(r) \/ Patch(r) \/ Upload(r) \/ DropDocument(r)
      PROVE  Quiet
  <2>1. /\ UNCHANGED <<caseOf, runOf, late, row>>
        /\ \E step \in Steps \ {"dropDataset", "dropCase"} : pc' = [pc EXCEPT ![r] = step]
    BY <1>2 DEF CountChildren, DropConfig, CreateDataset, CreateConfig, RenameDataset, Patch, Upload,
                DropDocument, Reads, Ends, Gives, Goto, Steps, rows, locals, history
  <2> QED BY <1>1, <2>1
<1>3. ASSUME NEW r \in Requests, StartRename(r) \/ StartPatch(r) PROVE Quiet
  <2>1. UNCHANGED <<caseOf, runOf, late>> BY <1>3, EditBegins DEF rows, history
  <2>2. pc' = [pc EXCEPT ![r] = "rename"] \/ pc' = [pc EXCEPT ![r] = "patch"]
    BY <1>3, EditBegins
  <2>3. \E step \in Steps \ {"dropDataset", "dropCase"} : pc' = [pc EXCEPT ![r] = step]
    BY <2>2 DEF Steps
  <2>4. \A q \in Requests \ {r} : row'[q] = row[q] BY <1>3, EditBegins
  <2> QED BY <1>1, <2>1, <2>3, <2>4
<1>4. ASSUME NEW r \in Requests, StartDelete(r) \/ StartCreate(r) \/ StartDeleteDocument(r)
      PROVE  Quiet
  <2>1. /\ UNCHANGED <<caseOf, runOf, late>>
        /\ \A q \in Requests \ {r} : row'[q] = row[q]
        /\ \E step \in Steps \ {"dropDataset", "dropCase"} : pc' = [pc EXCEPT ![r] = step]
    BY <1>4 DEF StartDelete, StartCreate, StartDeleteDocument, Opens, Goto, Hold, Steps, rows,
                history
  <2> QED BY <1>1, <2>1
<1>5. ASSUME Seeding, ~SeedCommit PROVE Quiet
  <2>1. /\ UNCHANGED <<caseOf, runOf, late, row>>
        /\ \E step \in Steps \ {"dropDataset", "dropCase"} : pc' = [pc EXCEPT ![Seeder] = step]
    BY <1>5 DEF Seeding, StartSeed, StartSeedAmbiguous, SeedCases, SeedCasesWrong, SeedScope,
                SeedScopeFails, SeedConfig, SeedConfigAmbiguous, SeedRollback, SeedDocument,
                SeedFails, SeedRaises, SeedEnds, Last, Goto, Steps, rows, locals, history
  <2> QED BY <1>1, <2>1
<1>6. ASSUME NEW a \in Actors,
             Ingest(a) \/ IngestFails(a) \/ UnlinkFailed(a) \/ CommitFails(a)
      PROVE  Quiet
  <2>1. /\ UNCHANGED <<caseOf, runOf, late, row>>
        /\ \E step \in Steps \ {"dropDataset", "dropCase"} : pc' = [pc EXCEPT ![a] = step]
    BY <1>6 DEF Ingest, IngestFails, UnlinkFailed, CommitFails, Last, Goto, Steps, rows, locals,
                history
  <2> QED BY <1>1, <2>1
<1>7. ASSUME NEW hit, Crash(hit) PROVE Quiet
  BY <1>7 DEF Quiet, Crash, Last, rows, locals
<1>8. CASE UNCHANGED vars BY <1>8 DEF vars, rows, locals, history
<1> QED BY <1>2, <1>4, <1>5, <1>6, <1>7, <1>8, <1>3 DEF Next, Request, Quiet

LEMMA LookedStep ==
    ASSUME Control, Looked, [Next]_vars
    PROVE  Looked'
<1> USE Constants DEF Control, Looked
<1>1. CASE /\ UNCHANGED <<caseOf, runOf, late>>
           /\ \A r \in Requests : pc'[r] \in {"dropDataset", "dropCase"} =>
                                      pc'[r] = pc[r] /\ row'[r] = row[r]
  BY <1>1 DEF CasesIn, RunsOf
<1>2. ASSUME NEW r \in Requests, LookChildren(r) PROVE Looked'
  <2>1. UNCHANGED <<caseOf, runOf, late, row>>
    BY <1>2 DEF LookChildren, Reads, rows, locals, history
  <2>2. /\ \A q \in Requests \ {r} : pc'[q] = pc[q]
        /\ pc'[r] = "dropDataset" => CasesIn(row[r]) = {}
        /\ pc'[r] = "dropCase" => RunsOf({row[r]}) = {}
    BY <1>2 DEF LookChildren, Reads, Goto
  <2>3. \A q \in Requests : CasesIn(row[q])' = CasesIn(row[q])
    BY <2>1 DEF CasesIn
  <2>4. \A q \in Requests : /\ RunsOf({row[q]})' = RunsOf({row[q]})
                            /\ RunsOf(CasesIn(row[q]))' = RunsOf(CasesIn(row[q]))
    BY <2>1 DEF RunsOf, CasesIn
  <2>5. RunsOf({}) = {} BY DEF RunsOf
  <2>6. ASSUME NEW q \in Requests
        PROVE  /\ pc'[q] = "dropDataset" =>
                      /\ \A c \in CasesIn(row[q]) : <<"case", c>> \in late
                      /\ \A x \in RunsOf(CasesIn(row[q])) : <<"run", x>> \in late
               /\ pc'[q] = "dropCase" => \A x \in RunsOf({row[q]}) : <<"run", x>> \in late
    BY <2>2, <2>5
  <2> QED BY <2>1, <2>3, <2>4, <2>6
<1>3. ASSUME NEW r \in Requests, DropDataset(r) \/ DropCase(r) PROVE Looked'
  <2>1. /\ UNCHANGED <<late, row>> /\ pc' = [pc EXCEPT ![r] = "done"]
        /\ \A c \in DOMAIN caseOf' : c \in DOMAIN caseOf /\ caseOf'[c] = caseOf[c]
        /\ \A x \in DOMAIN runOf' : x \in DOMAIN runOf /\ runOf'[x] = runOf[x]
    BY <1>3 DEF DropDataset, DropCase, Ends, Goto, Drop, locals, history
  <2> QED BY <2>1 DEF CasesIn, RunsOf
<1> DEFINE Steady == \A q \in Requests : pc'[q] \in {"dropDataset", "dropCase"} =>
                                              pc'[q] = pc[q] /\ row'[q] = row[q]
<1>4. ASSUME NEW c0, NEW d0, Steady, UNCHANGED runOf,
             \A c \in DOMAIN caseOf' : \/ c \in DOMAIN caseOf /\ caseOf'[c] = caseOf[c]
                                       \/ c = c0 /\ caseOf'[c] = d0,
             late \cup LateCase(c0, d0) \subseteq late'
      PROVE  Looked'
  <2>1. SUFFICES ASSUME NEW q \in Requests, pc[q] = pc'[q], row[q] = row'[q]
                 PROVE  /\ pc[q] = "dropDataset" =>
                               /\ \A c \in CasesIn(row[q])' : <<"case", c>> \in late'
                               /\ \A x \in RunsOf(CasesIn(row[q]))' : <<"run", x>> \in late'
                        /\ pc[q] = "dropCase" =>
                               \A x \in RunsOf({row[q]})' : <<"run", x>> \in late'
    BY <1>4
  <2>2. ASSUME pc[q] = "dropDataset", NEW c \in CasesIn(row[q])'
        PROVE  /\ <<"case", c>> \in late'
               /\ \A x \in RunsOf({c}) : <<"run", x>> \in late'
    <3>1. CASE c \in DOMAIN caseOf /\ caseOf'[c] = caseOf[c]
      BY <1>4, <2>1, <2>2, <3>1 DEF CasesIn, RunsOf
    <3>2. CASE c = c0 /\ caseOf'[c] = d0
      <4>1. d0 = row[q] BY <2>1, <2>2, <3>2 DEF CasesIn
      <4>2. Dropping("dropDataset", d0) BY <2>1, <2>2, <4>1 DEF Dropping
      <4> QED BY <1>4, <3>2, <4>2 DEF LateCase
    <3> QED BY <1>4, <2>2, <3>1, <3>2 DEF CasesIn
  <2>3. pc[q] = "dropDataset" => \A x \in RunsOf(CasesIn(row[q]))' : <<"run", x>> \in late'
    BY <1>4, <2>2 DEF RunsOf
  <2>4. pc[q] = "dropCase" => \A x \in RunsOf({row[q]})' : <<"run", x>> \in late'
    BY <1>4, <2>1 DEF RunsOf
  <2> QED BY <2>2, <2>3, <2>4
<1>5. ASSUME NEW r \in Requests, InsertCase(r) \/ MoveCase(r) PROVE Looked'
  <2>1. UNCHANGED <<runOf, row>> /\ pc' = [pc EXCEPT ![r] = "done"]
    BY <1>5 DEF InsertCase, MoveCase, Ends, EndsLate, Goto, locals
  <2>2. CASE UNCHANGED <<caseOf, late>>
    BY <1>1, <2>1, <2>2
  <2>3. CASE ~UNCHANGED <<caseOf, late>>
    <3>1. \/ /\ caseOf' = Put(caseOf, NewId("case"), row[r])
             /\ late' = late \cup LateCase(NewId("case"), row[r])
          \/ /\ caseOf' = [caseOf EXCEPT ![row[r]] = other[r]]
             /\ late' = late \cup LateCase(row[r], other[r])
      BY <1>5, <2>3 DEF InsertCase, MoveCase, Ends, EndsLate, history
    <3>2. Steady BY <2>1
    <3> HIDE DEF Steady, Looked
    <3>3. CASE /\ caseOf' = Put(caseOf, NewId("case"), row[r])
               /\ late' = late \cup LateCase(NewId("case"), row[r])
      <4>1. \A c \in DOMAIN caseOf' : \/ c \in DOMAIN caseOf /\ caseOf'[c] = caseOf[c]
                                      \/ c = NewId("case") /\ caseOf'[c] = row[r]
        BY <3>3 DEF Put
      <4> QED BY <1>4, <2>1, <3>2, <3>3, <4>1
    <3>4. CASE /\ caseOf' = [caseOf EXCEPT ![row[r]] = other[r]]
               /\ late' = late \cup LateCase(row[r], other[r])
      <4>1. \A c \in DOMAIN caseOf' : \/ c \in DOMAIN caseOf /\ caseOf'[c] = caseOf[c]
                                      \/ c = row[r] /\ caseOf'[c] = other[r]
        BY <3>4
      <4> QED BY <1>4, <2>1, <3>2, <3>4, <4>1
    <3> QED BY <3>1, <3>3, <3>4
  <2> QED BY <2>2, <2>3
<1>6. ASSUME NEW r \in Requests, InsertRun(r) PROVE Looked'
  <2>1. UNCHANGED <<caseOf, row>> /\ pc' = [pc EXCEPT ![r] = "done"]
    BY <1>6 DEF InsertRun, Ends, EndsLate, Goto, locals
  <2>2. CASE UNCHANGED <<runOf, late>>
    BY <1>1, <2>1, <2>2
  <2>3. CASE ~UNCHANGED <<runOf, late>>
    <3>1. /\ runOf' = Put(runOf, NewId("run"), [case |-> row[r], config |-> other[r]])
          /\ late' = late \cup LateRun(NewId("run"), row[r])
      BY <1>6, <2>3 DEF InsertRun, Ends, history, EndsLate
    <3>2. \A x \in DOMAIN runOf' : \/ x \in DOMAIN runOf /\ runOf'[x] = runOf[x]
                                   \/ x = NewId("run") /\ runOf'[x].case = row[r]
      BY <3>1 DEF Put
    <3>3. SUFFICES ASSUME NEW q \in Requests, q # r, pc[q] = pc'[q], row[q] = row'[q]
                   PROVE  /\ pc[q] = "dropDataset" =>
                                 /\ \A c \in CasesIn(row[q])' : <<"case", c>> \in late'
                                 /\ \A x \in RunsOf(CasesIn(row[q]))' : <<"run", x>> \in late'
                          /\ pc[q] = "dropCase" =>
                                 \A x \in RunsOf({row[q]})' : <<"run", x>> \in late'
      BY <2>1
    <3>4. pc[q] = "dropDataset" /\ row[r] \in CasesIn(row[q]) =>
              <<"run", NewId("run")>> \in late'
      BY <3>1 DEF LateRun, Dropping, CasesIn
    <3>5. pc[q] = "dropCase" /\ row[r] = row[q] => <<"run", NewId("run")>> \in late'
      BY <3>1 DEF LateRun, Dropping
    <3>6. CasesIn(row[q])' = CasesIn(row[q]) /\ late \subseteq late'
      BY <2>1, <3>1 DEF CasesIn
    <3> QED BY <3>2, <3>3, <3>4, <3>5, <3>6 DEF RunsOf
  <2> QED BY <2>2, <2>3
<1>7. CASE SeedCommit
  <2>1. UNCHANGED <<runOf, row>> /\ \E step \in {"idle", "done", "seedDocument"} :
                                        pc' = [pc EXCEPT ![Seeder] = step]
    BY <1>7 DEF SeedCommit, SeedEnds, Last, Goto, locals
  <2>2. Steady BY <2>1
  <2>3. CASE ~seed.addCase
    <3>1. UNCHANGED <<caseOf, late>> BY <1>7, <2>3 DEF SeedCommit
    <3> QED BY <1>1, <2>1, <2>2, <3>1
  <2>4. CASE seed.addCase
    <3>1. /\ caseOf' = Put(caseOf, NewId("case"), Dataset)
          /\ late' = late \cup LateCase(NewId("case"), Dataset)
      BY <1>7, <2>4 DEF SeedCommit
    <3>2. \A c \in DOMAIN caseOf' : \/ c \in DOMAIN caseOf /\ caseOf'[c] = caseOf[c]
                                    \/ c = NewId("case") /\ caseOf'[c] = Dataset
      BY <3>1 DEF Put
    <3> HIDE DEF Steady, Looked
    <3> QED BY <1>4, <2>1, <2>2, <3>1, <3>2
  <2> QED BY <2>3, <2>4
<1> HIDE DEF Looked
<1> QED BY <1>1, <1>2, <1>3, <1>5, <1>6, <1>7, LateSteps

\* A step of the deletions loses only what the property allows.
LEMMA LoseStep ==
    ASSUME Control, Looked, [Next]_vars
    PROVE  /\ \A x \in DOMAIN runOf \ DOMAIN runOf' : <<"run", x>> \in late
           /\ \A c \in DOMAIN caseOf \ DOMAIN caseOf' :
                  <<"case", c>> \in late \/ \E r \in Requests : pc[r] = "dropCase" /\ row[r] = c
<1>1. ASSUME NEW r \in Requests, DropDataset(r)
      PROVE  /\ \A x \in DOMAIN runOf \ DOMAIN runOf' : <<"run", x>> \in late
             /\ \A c \in DOMAIN caseOf \ DOMAIN caseOf' : <<"case", c>> \in late
  BY <1>1 DEF DropDataset, Drop, Looked
<1>2. ASSUME NEW r \in Requests, DropCase(r)
      PROVE  /\ \A x \in DOMAIN runOf \ DOMAIN runOf' : <<"run", x>> \in late
             /\ \A c \in DOMAIN caseOf \ DOMAIN caseOf' : pc[r] = "dropCase" /\ row[r] = c
  BY <1>2 DEF DropCase, Drop, Looked
<1>3. ASSUME NEW r \in Requests,
             LookChildren(r) \/ InsertCase(r) \/ InsertRun(r) \/ MoveCase(r)
      PROVE  DOMAIN runOf \subseteq DOMAIN runOf' /\ DOMAIN caseOf \subseteq DOMAIN caseOf'
  BY <1>3 DEF LookChildren, InsertCase, InsertRun, MoveCase, Reads, Put, rows
<1>4. ASSUME SeedCommit
      PROVE  DOMAIN runOf \subseteq DOMAIN runOf' /\ DOMAIN caseOf \subseteq DOMAIN caseOf'
  BY <1>4 DEF SeedCommit, Put
<1> QED BY <1>1, <1>2, <1>3, <1>4, LateSteps

-----------------------------------------------------------------------------
(* Sizes and overlaps. *)

\* The script is going to write the configuration it found: a new document has
\* an id that no configuration is linked to.
Rewriting ==
    /\ seed.kind = "rag" /\ seed.config # 0
    /\ \/ seed.size # SeedSize \/ seed.overlap # SeedOverlap
       \/ seed.scope = 0 \/ seed.linked # seed.scope

LEMMA RewritesIsRewriting ==
    ASSUME Control, ids \in [Tables -> Nat]
    PROVE  Rewrites <=> Rewriting
<1>1. seed.linked \in 0..ids["document"] BY DEF Control, Found
<1>2. ids["document"] \in Nat BY DEF Tables
<1>3. seed.linked # ids["document"] + 1 BY <1>1, <1>2
<1> QED BY <1>3 DEF Rewrites, Rewriting, Scope, NewScope, NewId

\* What a session has read of a configuration nobody raced for is still true.
Pending ==
    /\ \A r \in Requests :
           pc[r] = "patch" =>
               /\ row[r] <= ids["config"]
               /\ row[r] \in DOMAIN configs \ raced =>
                      Patched(configs[row[r]], edit[r]).overlap
                          <= Patched(configs[row[r]], edit[r]).size
    /\ pc[Seeder] = "seedCommit" =>
           /\ seed.config <= ids["config"]
           /\ Rewriting /\ seed.config \in DOMAIN configs \ raced =>
                  /\ seed.size = configs[seed.config].size
                  /\ seed.overlap = configs[seed.config].overlap

Valid == Pending /\ ValidUnlessRaced

\* Nobody starts to read or to write a configuration.
Undisturbed ==
    /\ raced \subseteq raced'
    /\ \A k \in DOMAIN configs' : k \in DOMAIN configs /\ configs'[k] = configs[k]
    /\ \A r \in Requests : pc'[r] = "patch" =>
           pc'[r] = pc[r] /\ row'[r] = row[r] /\ edit'[r] = edit[r]
    /\ pc'[Seeder] = "seedCommit" => pc[Seeder] = "seedCommit" /\ seed' = seed

LEMMA UndisturbedStep ==
    ASSUME Control, ids \in [Tables -> Nat], Valid, [Next]_vars, Undisturbed
    PROVE  Valid'
<1>1. ids["config"] \in Nat /\ ids'["config"] \in Nat /\ ids["config"] <= ids'["config"]
  BY IdsGrow DEF Tables
<1>2. \A r \in Requests : row[r] \in Nat
  BY Constants DEF Control
<1>3. seed.config \in Nat BY DEF Control, Found
<1>4. ASSUME NEW r \in Requests, pc'[r] = "patch"
      PROVE  /\ row'[r] <= ids'["config"]
             /\ row'[r] \in DOMAIN configs' \ raced' =>
                    Patched(configs'[row'[r]], edit'[r]).overlap
                        <= Patched(configs'[row'[r]], edit'[r]).size
  <2>1. pc[r] = "patch" /\ row'[r] = row[r] /\ edit'[r] = edit[r] BY <1>4 DEF Undisturbed
  <2>2. row[r] \in DOMAIN configs' \ raced' =>
            row[r] \in DOMAIN configs \ raced /\ configs'[row[r]] = configs[row[r]]
    BY DEF Undisturbed
  <2>3. row[r] <= ids["config"] BY <2>1 DEF Valid, Pending
  <2> QED BY <1>1, <1>2, <2>1, <2>2, <2>3 DEF Valid, Pending
<1>5. ASSUME pc'[Seeder] = "seedCommit"
      PROVE  /\ seed'.config <= ids'["config"]
             /\ Rewriting' /\ seed'.config \in DOMAIN configs' \ raced' =>
                    /\ seed'.size = configs'[seed'.config].size
                    /\ seed'.overlap = configs'[seed'.config].overlap
  <2>1. pc[Seeder] = "seedCommit" /\ seed' = seed BY <1>5 DEF Undisturbed
  <2>2. Rewriting' <=> Rewriting BY <2>1 DEF Rewriting
  <2>3. seed.config \in DOMAIN configs' \ raced' =>
            seed.config \in DOMAIN configs \ raced /\ configs'[seed.config] = configs[seed.config]
    BY DEF Undisturbed
  <2>4. seed.config <= ids["config"] BY <2>1 DEF Valid, Pending
  <2> QED BY <1>1, <1>3, <2>1, <2>2, <2>3, <2>4 DEF Valid, Pending
<1>6. Pending' BY <1>4, <1>5 DEF Pending
<1>7. ValidUnlessRaced' BY DEF Valid, ValidUnlessRaced, Undisturbed
<1> QED BY <1>6, <1>7 DEF Valid

LEMMA PatchSteps ==
    ASSUME Control, [Next]_vars
    PROVE  \/ Undisturbed
           \/ \E r \in Requests : StartPatch(r) \/ CreateConfig(r) \/ Patch(r)
           \/ SeedConfig \/ SeedCommit
<1> USE Constants DEF Control
<1>1. ASSUME NEW a \in Actors, NEW step \in Steps \ {"patch", "seedCommit"},
             pc' = [pc EXCEPT ![a] = step],
             \A r \in Requests \ {a} : row'[r] = row[r] /\ edit'[r] = edit[r],
             a = Seeder \/ seed' = seed,
             UNCHANGED raced,
             \A k \in DOMAIN configs' : k \in DOMAIN configs /\ configs'[k] = configs[k]
      PROVE  Undisturbed
  BY <1>1 DEF Undisturbed
<1> DEFINE Plain(a) == \E step \in Steps \ {"patch", "seedCommit"} :
                           pc' = [pc EXCEPT ![a] = step]
<1>2. ASSUME NEW r \in Requests, Request(r), ~StartPatch(r), ~CreateConfig(r), ~Patch(r)
      PROVE  Undisturbed
  <2>1. CASE StartDelete(r) \/ StartCreate(r) \/ StartDeleteDocument(r)
    <3>1. /\ UNCHANGED <<configs, raced, seed>>
          /\ \A q \in Requests \ {r} : row'[q] = row[q] /\ edit'[q] = edit[q]
          /\ Plain(r)
      BY <2>1 DEF StartDelete, StartCreate, StartDeleteDocument, Opens, Goto, Hold, Steps, rows,
                  history
    <3> QED BY <1>1, <3>1
  <2>2. CASE \/ CountChildren(r) \/ LookChildren(r) \/ DropDataset(r) \/ DropCase(r)
             \/ CreateDataset(r) \/ InsertCase(r) \/ InsertRun(r) \/ MoveCase(r)
             \/ RenameDataset(r) \/ Upload(r) \/ DropDocument(r)
    <3>1. /\ UNCHANGED <<configs, raced, seed, row>> /\ Plain(r)
          /\ \A q \in Requests \ {r} : edit'[q] = edit[q]
      BY <2>2 DEF CountChildren, LookChildren, DropDataset, DropCase, CreateDataset, InsertCase,
                  InsertRun, MoveCase, RenameDataset, Upload, DropDocument, Reads, Ends, EndsLate,
                  Gives, Goto, Steps, rows, locals, history
    <3> QED BY <1>1, <3>1
  <2>3. CASE DropConfig(r)
    <3>1. UNCHANGED <<raced, seed, row, edit>> /\ Plain(r)
      BY <2>3 DEF DropConfig, Ends, Goto, Steps, locals, history
    <3>2. configs' = configs \/ configs' = Drop(configs, {row[r]})
      BY <2>3 DEF DropConfig
    <3>3. \A k \in DOMAIN configs' : k \in DOMAIN configs /\ configs'[k] = configs[k]
      BY <3>2 DEF Drop
    <3> QED BY <1>1, <3>1, <3>3
  <2>4. CASE StartRename(r)
    <3>1. /\ UNCHANGED <<configs, raced, seed>> /\ pc' = [pc EXCEPT ![r] = "rename"]
          /\ \A q \in Requests \ {r} : row'[q] = row[q] /\ edit'[q] = edit[q]
      BY <2>4, EditBegins DEF rows, history
    <3>2. Plain(r) BY <3>1 DEF Steps
    <3> QED BY <1>1, <3>1, <3>2
  <2> QED BY <1>2, <2>1, <2>2, <2>3, <2>4 DEF Request
<1>3. ASSUME Seeding, ~SeedConfig, ~SeedCommit PROVE Undisturbed
  <2>1. UNCHANGED <<configs, raced, row, edit>> /\ Plain(Seeder)
    BY <1>3 DEF Seeding, StartSeed, StartSeedAmbiguous, SeedCases, SeedCasesWrong, SeedScope,
                SeedScopeFails, SeedConfigAmbiguous, SeedRollback, SeedDocument, SeedFails,
                SeedRaises, SeedEnds, Last, Goto, Steps, rows, locals, history
  <2> QED BY <1>1, <2>1
<1>4. ASSUME NEW a \in Actors,
             Ingest(a) \/ IngestFails(a) \/ UnlinkFailed(a) \/ CommitFails(a)
      PROVE  Undisturbed
  <2>1. UNCHANGED <<configs, raced, seed, row, edit>> /\ Plain(a)
    BY <1>4 DEF Ingest, IngestFails, UnlinkFailed, CommitFails, Last, Goto, Steps, rows, locals,
                history
  <2> QED BY <1>1, <2>1
<1>5. ASSUME NEW hit, Crash(hit) PROVE Undisturbed
  BY <1>5 DEF Undisturbed, Crash, Last, rows, locals
<1>6. UNCHANGED vars => Undisturbed BY DEF Undisturbed, vars, rows, locals, history
<1> HIDE DEF Control
<1> QED BY <1>2, <1>3, <1>4, <1>5, <1>6 DEF Next

LEMMA ValidStep ==
    ASSUME Control, References, Configured, Valid, [Next]_vars
    PROVE  Valid'
<1> USE Constants
<1>1. /\ ids["config"] \in Nat /\ ids'["config"] \in Nat /\ ids["config"] <= ids'["config"]
      /\ ids \in [Tables -> Nat] /\ \A k \in DOMAIN configs : k \in Nat /\ k <= ids["config"]
  BY IdsGrow DEF References, Tables
<1>2. /\ \A r \in Requests : row[r] \in Nat /\ edit[r] \in Edit
      /\ seed.config \in Nat /\ pc \in [Actors -> Steps]
      /\ row \in [Actors -> Nat] /\ edit \in [Requests -> Edit]
  BY DEF Control, Found
<1>3. \A k \in DOMAIN configs : configs[k].size \in Nat /\ configs[k].overlap \in Nat
  <2>1. Sizes \subseteq Nat BY DEF Sizes, SeedSize, SeedOverlap
  <2> QED BY <2>1 DEF Configured
<1>4. Rewrites <=> Rewriting BY <1>1, RewritesIsRewriting
\* What is to be shown of a request that is about to write, and of the script.
<1> DEFINE Fits(r) == /\ row[r] <= ids["config"]
                      /\ row[r] \in DOMAIN configs \ raced =>
                             Patched(configs[row[r]], edit[r]).overlap
                                 <= Patched(configs[row[r]], edit[r]).size
           Read == /\ seed.config <= ids["config"]
                   /\ Rewriting /\ seed.config \in DOMAIN configs \ raced =>
                          /\ seed.size = configs[seed.config].size
                          /\ seed.overlap = configs[seed.config].overlap
<1>5. /\ \A r \in Requests : pc[r] = "patch" => Fits(r)
      /\ pc[Seeder] = "seedCommit" => Read
  BY DEF Valid, Pending
<1>6. ASSUME \A r \in Requests : pc'[r] = "patch" => Fits(r)',
              pc'[Seeder] = "seedCommit" => Read'
       PROVE  Pending'
  BY <1>6 DEF Pending
\* A step that leaves what another request holds, and its row if it did not race.
<1>7. ASSUME NEW r \in Requests, pc[r] = "patch", row'[r] = row[r], edit'[r] = edit[r],
              raced \subseteq raced',
              row[r] \in DOMAIN configs' \ raced' =>
                  row[r] \in DOMAIN configs /\ configs'[row[r]] = configs[row[r]]
       PROVE  Fits(r)'
  <2>1. Fits(r) BY <1>5, <1>7
  <2>2. row[r] <= ids'["config"] BY <1>1, <1>2, <2>1
  <2> QED BY <1>7, <2>1, <2>2
<1>8. ASSUME pc[Seeder] = "seedCommit", seed' = seed, raced \subseteq raced',
              Rewriting /\ seed.config \in DOMAIN configs' \ raced' =>
                  seed.config \in DOMAIN configs /\ configs'[seed.config] = configs[seed.config]
       PROVE  Read'
  <2>1. Read BY <1>5, <1>8
  <2>2. Rewriting' <=> Rewriting BY <1>8 DEF Rewriting
  <2>3. seed.config <= ids'["config"] BY <1>1, <1>2, <2>1
  <2> QED BY <1>8, <2>1, <2>2, <2>3
<1> HIDE DEF Fits, Read
<1>9. CASE Undisturbed BY <1>1, <1>9, UndisturbedStep
<1>10. ASSUME NEW r \in Requests, StartPatch(r) PROVE Valid'
  <2>1. PICK k \in DOMAIN configs, label \in Names, size, overlap \in Sizes :
            /\ overlap <= size
            /\ Edits(r, "patch", k,
                     Differing(configs[k], [name |-> label, size |-> size, overlap |-> overlap]),
                     label, size, overlap)
    BY <1>10 DEF StartPatch
  <2> DEFINE new == [set |-> Differing(configs[k], [name |-> label, size |-> size,
                                                    overlap |-> overlap]),
                     name |-> label, size |-> size, overlap |-> overlap]
  <2>2. /\ UNCHANGED <<configs, raced, seed, ids>>
        /\ pc' = [pc EXCEPT ![r] = "patch"]
        /\ row' = [row EXCEPT ![r] = k] /\ edit' = [edit EXCEPT ![r] = new]
    BY <2>1 DEF Edits, Goto, Hold, rows, history
  <2>3. Patched(configs[k], new).size = size /\ Patched(configs[k], new).overlap = overlap
    BY DEF Patched, Differing, Columns, Configured
  <2> HIDE DEF new
  <2>4. Fits(r)'
    <3>1. row'[r] = k /\ edit'[r] = new BY <1>2, <2>2
    <3> QED BY <1>1, <2>1, <2>2, <2>3, <3>1 DEF Fits
  <2>5. \A q \in Requests : pc'[q] = "patch" => Fits(q)'
    <3>1. SUFFICES ASSUME NEW q \in Requests, pc'[q] = "patch", q # r PROVE Fits(q)'
      BY <2>4
    <3>2. pc[q] = "patch" /\ row'[q] = row[q] /\ edit'[q] = edit[q] BY <1>2, <2>2, <3>1
    <3> QED BY <1>7, <2>2, <3>2
  <2>6. pc'[Seeder] = "seedCommit" => Read' BY <1>2, <1>8, <2>2
  <2>7. ValidUnlessRaced' BY <2>2 DEF Valid, ValidUnlessRaced
  <2> QED BY <1>6, <2>5, <2>6, <2>7 DEF Valid
<1>11. ASSUME NEW r \in Requests, CreateConfig(r) PROVE Valid'
  <2>1. PICK label \in Labels, size \in Values, overlap \in Values :
            /\ overlap <= size
            /\ configs' = Put(configs, NewId("config"), Config(label, size, overlap, 0))
    BY <1>11 DEF CreateConfig
  <2>2. /\ DOMAIN configs' = DOMAIN configs \cup {ids["config"] + 1}
        /\ \A k \in DOMAIN configs : configs'[k] = configs[k]
        /\ configs'[ids["config"] + 1].overlap <= configs'[ids["config"] + 1].size
    BY <1>1, <2>1 DEF Put, NewId, Config
  <2>3. /\ UNCHANGED <<raced, seed, row>> /\ pc' = [pc EXCEPT ![r] = "done"]
        /\ edit' = [edit EXCEPT ![r] = NoEdit]
    BY <1>11 DEF CreateConfig, Gives, Goto
  <2>4. ASSUME NEW q \in Requests, pc'[q] = "patch" PROVE Fits(q)'
    <3>1. pc[q] = "patch" /\ row'[q] = row[q] /\ edit'[q] = edit[q] BY <1>2, <2>3, <2>4
    <3>2. row[q] # ids["config"] + 1
      <4>1. row[q] <= ids["config"] BY <1>5, <3>1 DEF Fits
      <4> QED BY <1>1, <1>2, <4>1
    <3> QED BY <1>7, <2>2, <2>3, <3>1, <3>2
  <2>5. ASSUME pc'[Seeder] = "seedCommit" PROVE Read'
    <3>1. pc[Seeder] = "seedCommit" BY <1>2, <2>3, <2>5
    <3>2. seed.config # ids["config"] + 1
      <4>1. seed.config <= ids["config"] BY <1>5, <3>1 DEF Read
      <4> QED BY <1>1, <1>2, <4>1
    <3> QED BY <1>8, <2>2, <2>3, <3>1, <3>2
  <2>6. ValidUnlessRaced' BY <2>2, <2>3 DEF Valid, ValidUnlessRaced
  <2> QED BY <1>6, <2>4, <2>5, <2>6 DEF Valid
<1>12. ASSUME NEW r \in Requests, Patch(r) PROVE Valid'
  <2>1. /\ UNCHANGED <<seed, row, ids>> /\ pc[r] = "patch" /\ pc' = [pc EXCEPT ![r] = "done"]
        /\ \A q \in Requests \ {r} : edit'[q] = edit[q]
    BY <1>2, <1>12 DEF Patch, Gives, Ends, Goto, locals
  <2>2. /\ raced \subseteq raced'
        /\ DOMAIN configs' = DOMAIN configs
        /\ \A k \in DOMAIN configs : configs'[k] = configs[k] \/ k = row[r]
        /\ row[r] \in DOMAIN configs =>
               /\ configs'[row[r]] = Patched(configs[row[r]], edit[r])
               /\ row[r] \notin raced' => ~Reading(r, row[r])
    BY <1>12 DEF Patch, Ends, history
  <2>3. ValidUnlessRaced'
    <3>1. SUFFICES ASSUME NEW k \in DOMAIN configs, k \notin raced'
                   PROVE  configs'[k].overlap <= configs'[k].size
      BY <2>2 DEF ValidUnlessRaced
    <3>2. CASE k = row[r]
      <4>1. Fits(r)
        <5>1. pc[r] = "patch" BY <2>1
        <5> QED BY <1>5, <5>1, Zenon
      <4> QED BY <2>2, <3>1, <3>2, <4>1 DEF Fits
    <3>3. CASE k # row[r] BY <2>2, <3>1, <3>3 DEF Valid, ValidUnlessRaced
    <3> QED BY <3>2, <3>3
  <2>4. ASSUME NEW q \in Requests, pc'[q] = "patch" PROVE Fits(q)'
    <3>1. q # r /\ pc[q] = "patch" /\ row'[q] = row[q] /\ edit'[q] = edit[q]
      BY <1>2, <2>1, <2>4
    <3>2. row[q] = row[r] /\ row[r] \in DOMAIN configs => row[r] \in raced'
      BY <2>2, <3>1 DEF Reading
    <3> QED BY <1>7, <2>2, <3>1, <3>2
  <2>5. ASSUME pc'[Seeder] = "seedCommit" PROVE Read'
    <3>1. pc[Seeder] = "seedCommit" BY <1>2, <2>1, <2>5
    <3>2. Rewriting /\ seed.config = row[r] /\ row[r] \in DOMAIN configs => row[r] \in raced'
      BY <1>4, <2>2, <3>1 DEF Reading
    <3> QED BY <1>8, <2>1, <2>2, <3>1, <3>2
  <2> QED BY <1>6, <2>3, <2>4, <2>5 DEF Valid
<1>13. CASE SeedConfig
  <2>1. /\ UNCHANGED <<configs, raced, ids, row, edit>>
        /\ pc' = [pc EXCEPT ![Seeder] = "seedCommit"]
    BY <1>13 DEF SeedConfig, Goto, rows, history
  <2>2. PICK k \in DOMAIN configs \cup {0} :
            seed' = [seed EXCEPT !.config = k,
                                 !.size = IF k = 0 THEN SeedSize ELSE configs[k].size,
                                 !.overlap = IF k = 0 THEN SeedOverlap ELSE configs[k].overlap,
                                 !.linked = IF k = 0 THEN 0 ELSE configs[k].scope]
    BY <1>13 DEF SeedConfig
  <2>3. /\ seed'.config = k
        /\ k # 0 => seed'.size = configs[k].size /\ seed'.overlap = configs[k].overlap
    BY <2>2 DEF Control, Found
  <2>4. 0 \notin DOMAIN configs BY DEF References, Tables
  <2>5. Read' BY <1>1, <2>1, <2>3, <2>4 DEF Read
  <2>6. ASSUME NEW q \in Requests, pc'[q] = "patch" PROVE Fits(q)'
    <3>1. pc[q] = "patch" BY <1>2, <2>1, <2>6
    <3> QED BY <1>7, <2>1, <3>1
  <2>7. ValidUnlessRaced' BY <2>1 DEF Valid, ValidUnlessRaced
  <2> QED BY <1>6, <2>5, <2>6, <2>7 DEF Valid
<1>14. CASE SeedCommit
  <2>1. /\ UNCHANGED <<row, edit>> /\ raced \subseteq raced'
        /\ \E step \in {"idle", "done", "seedDocument"} : pc' = [pc EXCEPT ![Seeder] = step]
        /\ pc[Seeder] = "seedCommit"
    BY <1>14 DEF SeedCommit, SeedEnds, Last, Goto, locals
  <2>2. ASSUME NEW k \in DOMAIN configs', k \notin DOMAIN configs
        PROVE  k = ids["config"] + 1 /\ configs'[k].overlap <= configs'[k].size
    BY <1>1, <1>14, <2>2 DEF SeedCommit, Put, NewId, Config, SeedSize, SeedOverlap
  <2>3. ASSUME NEW k \in DOMAIN configs, k \notin raced'
        PROVE  /\ k \in DOMAIN configs'
               /\ \/ configs'[k] = configs[k]
                  \/ /\ configs'[k].size = SeedSize /\ configs'[k].overlap = SeedOverlap
                     /\ \A r \in Requests : pc[r] = "patch" => row[r] # k
    <3>1. CASE seed.config = 0
      BY <1>1, <1>14, <3>1 DEF SeedCommit, Put, NewId
    <3>2. CASE seed.config # 0 /\ ~Rewrites
      BY <1>14, <3>2 DEF SeedCommit
    <3>3. CASE seed.config # 0 /\ Rewrites
      <4>1. configs' = [configs EXCEPT ![seed.config] = Realigned(@)]
        BY <1>14, <3>3 DEF SeedCommit
      <4>2. CASE k # seed.config BY <4>1, <4>2
      <4>3. CASE k = seed.config
        <5>1. k \notin raced BY <2>1, <2>3
        <5>2. ~Reading(Seeder, k) BY <1>14, <2>3, <3>3, <4>3 DEF SeedCommit
        <5>3. seed.size = configs[k].size /\ seed.overlap = configs[k].overlap
          BY <1>4, <1>5, <2>1, <3>3, <4>3, <5>1 DEF Read
        <5>4. Realigned(configs[k]).size = SeedSize /\ Realigned(configs[k]).overlap = SeedOverlap
          BY <5>3 DEF Realigned, Configured
        <5> QED BY <2>3, <4>1, <4>3, <5>2, <5>4 DEF Reading
      <4> QED BY <4>2, <4>3
    <3> QED BY <3>1, <3>2, <3>3
  <2>4. ValidUnlessRaced' BY <2>1, <2>2, <2>3 DEF Valid, ValidUnlessRaced, SeedSize, SeedOverlap
  <2>5. ASSUME NEW q \in Requests, pc'[q] = "patch" PROVE Fits(q)'
    <3>1. pc[q] = "patch" /\ row'[q] = row[q] /\ edit'[q] = edit[q] BY <1>2, <2>1, <2>5
    <3>2. row[q] # ids["config"] + 1
      <4>1. row[q] <= ids["config"] BY <1>5, <3>1 DEF Fits
      <4> QED BY <1>1, <1>2, <4>1
    <3>3. row[q] \in DOMAIN configs' \ raced' =>
              row[q] \in DOMAIN configs /\ configs'[row[q]] = configs[row[q]]
      BY <2>2, <2>3, <3>1, <3>2
    <3> QED BY <1>7, <2>1, <3>1, <3>3
  <2>6. pc'[Seeder] # "seedCommit" BY <1>2, <2>1
  <2> QED BY <1>6, <2>4, <2>5, <2>6 DEF Valid
<1> QED BY <1>9, <1>10, <1>11, <1>12, <1>13, <1>14, PatchSteps

-----------------------------------------------------------------------------
(* Seeding. *)

AtMostOne(S) == \A i, j \in S : i = j

LEMMA AtMostOneCounts ==
    ASSUME NEW S, AtMostOne(S)
    PROVE  Cardinality(S) <= 1
<1>1. CASE S = {} BY <1>1, FS_EmptySet
<1>2. CASE S # {}
  <2>1. PICK i : S = {i} BY <1>2 DEF AtMostOne
  <2> QED BY <2>1, FS_Singleton
<1> QED BY <1>1, <1>2

\* The rows of a seed's name that do not have it from a request.
OwnDatasets(n) == {d \in Named(datasets, n) : <<"dataset", d>> \notin given}
OwnConfigs(n) == {k \in ConfigsNamed(n) : <<"config", k>> \notin given}

SeededOnce ==
    \A n \in SeedNames : AtMostOne(OwnDatasets(n)) /\ AtMostOne(OwnConfigs(n))
                         /\ AtMostOne(Titled(n))

\* What the script found missing is still missing when it adds it, but for rows
\* to which a request has given the name meanwhile.
Missing ==
    /\ pc[Seeder] \in {"seedCases", "seedScope", "seedConfig", "seedCommit"} /\ seed.dataset = 0 =>
           OwnDatasets(seed.kind) = {}
    /\ pc[Seeder] = "seedCommit" /\ seed.config = 0 => OwnConfigs(seed.kind) = {}
    /\ pc[Seeder] \in {"seedConfig", "seedCommit"} /\ NewScope => Titled(seed.kind) = {}
    /\ pc[Seeder] = "ingest" => Titled(seed.kind) = {}

Shrinks ==
    \A n \in SeedNames : /\ OwnDatasets(n)' \subseteq OwnDatasets(n)
                         /\ OwnConfigs(n)' \subseteq OwnConfigs(n)
                         /\ Titled(n)' \subseteq Titled(n)

LEMMA GivenGrows ==
    ASSUME [Next]_vars
    PROVE  given \subseteq given'
<1>1. ASSUME NEW r \in Requests, Request(r) PROVE given \subseteq given'
  BY <1>1 DEF Request, StartDelete, CountChildren, LookChildren, StartCreate, StartRename, StartPatch,
              Opens, Edits, Reads, DropDataset, DropCase, DropConfig, CreateDataset, CreateConfig,
              InsertCase, InsertRun, MoveCase, RenameDataset, Patch, Upload, StartDeleteDocument,
              DropDocument, Ends, EndsLate, Gives, history
<1>2. ASSUME Seeding PROVE given' = given
  BY <1>2 DEF Seeding, StartSeed, StartSeedAmbiguous, SeedCases, SeedCasesWrong, SeedScope,
              SeedScopeFails, SeedConfig, SeedConfigAmbiguous, SeedCommit, SeedRollback,
              SeedDocument, SeedFails, SeedRaises, history
<1>3. ASSUME NEW a \in Actors, Ingest(a) \/ IngestFails(a) \/ UnlinkFailed(a) \/ CommitFails(a)
      PROVE  given' = given
  BY <1>3 DEF Ingest, IngestFails, UnlinkFailed, CommitFails, history
<1>4. ASSUME NEW hit, Crash(hit) PROVE given' = given BY <1>4 DEF Crash
<1>5. UNCHANGED vars => given' = given BY DEF vars, history
<1> QED BY <1>1, <1>2, <1>3, <1>4, <1>5 DEF Next

LEMMA ShrinkSteps ==
    ASSUME Control, References, Configured, Stored, [Next]_vars
    PROVE  Shrinks \/ SeedCommit \/ Ingest(Seeder)
<1> USE Constants, GivenGrows
        DEF Shrinks, OwnDatasets, OwnConfigs, Named, ConfigsNamed, Titled, SeedNames
<1>1. CASE UNCHANGED rows BY <1>1 DEF rows
<1>2. ASSUME NEW r \in Requests, DropDataset(r) \/ DropCase(r) PROVE Shrinks
  BY <1>2 DEF DropDataset, DropCase, Drop
<1>3. ASSUME NEW r \in Requests, DropConfig(r) PROVE Shrinks
  <2>1. UNCHANGED <<datasets, documents>> BY <1>3 DEF DropConfig
  <2>2. configs' = configs \/ configs' = Drop(configs, {row[r]}) BY <1>3 DEF DropConfig
  <2> QED BY <2>1, <2>2 DEF Drop
<1>4. ASSUME NEW r \in Requests, CreateDataset(r) PROVE Shrinks
  <2>1. UNCHANGED <<configs, documents>> BY <1>4 DEF CreateDataset
  <2>2. PICK label : /\ datasets' = Put(datasets, NewId("dataset"), label)
                     /\ label \in SeedNames => <<"dataset", NewId("dataset")>> \in given'
    BY <1>4 DEF CreateDataset, Gives
  <2>3. \A d \in DOMAIN datasets' : \/ d \in DOMAIN datasets /\ datasets'[d] = datasets[d]
                                    \/ datasets'[d] \in SeedNames => <<"dataset", d>> \in given'
    BY <2>2 DEF Put
  <2> QED BY <2>1, <2>3
<1>5. ASSUME NEW r \in Requests, CreateConfig(r) PROVE Shrinks
  <2>1. UNCHANGED <<datasets, documents>> BY <1>5 DEF CreateConfig
  <2>2. PICK label, size, overlap :
            /\ configs' = Put(configs, NewId("config"), Config(label, size, overlap, 0))
            /\ label \in SeedNames => <<"config", NewId("config")>> \in given'
    BY <1>5 DEF CreateConfig, Gives
  <2>3. \A k \in DOMAIN configs' :
            \/ k \in DOMAIN configs /\ configs'[k] = configs[k]
            \/ configs'[k].name \in SeedNames => <<"config", k>> \in given'
    BY <2>2 DEF Put, Config
  <2> QED BY <2>1, <2>3
<1>6. ASSUME NEW r \in Requests, InsertCase(r) \/ InsertRun(r) \/ MoveCase(r) PROVE Shrinks
  BY <1>6 DEF InsertCase, InsertRun, MoveCase
<1>7. ASSUME NEW r \in Requests, RenameDataset(r) PROVE Shrinks
  <2>1. UNCHANGED <<configs, documents>> BY <1>7 DEF RenameDataset
  <2>2. \/ UNCHANGED datasets
        \/ /\ datasets' = [datasets EXCEPT ![row[r]] = edit[r].name]
           /\ edit[r].name \in SeedNames => <<"dataset", row[r]>> \in given'
    BY <1>7 DEF RenameDataset, Gives
  <2>3. \A d \in DOMAIN datasets' : \/ d \in DOMAIN datasets /\ datasets'[d] = datasets[d]
                                    \/ datasets'[d] \in SeedNames => <<"dataset", d>> \in given'
    BY <2>2
  <2> QED BY <2>1, <2>3
<1>8. ASSUME NEW r \in Requests, Patch(r) PROVE Shrinks
  <2>1. UNCHANGED <<datasets, documents>> BY <1>8 DEF Patch
  <2>2. \/ UNCHANGED configs
        \/ /\ configs' = [configs EXCEPT ![row[r]] = Patched(@, edit[r])]
           /\ "name" \in edit[r].set /\ edit[r].name \in SeedNames =>
                  <<"config", row[r]>> \in given'
    BY <1>8 DEF Patch, Gives
  <2>3. \A k \in DOMAIN configs : Patched(configs[k], edit[r]).name =
                                      IF "name" \in edit[r].set THEN edit[r].name
                                      ELSE configs[k].name
    BY DEF Patched, Configured
  <2>4. \A k \in DOMAIN configs' :
            /\ k \in DOMAIN configs
            /\ \/ configs'[k].name = configs[k].name
               \/ configs'[k].name \in SeedNames => <<"config", k>> \in given'
    BY <2>2, <2>3
  <2> QED BY <2>1, <2>4
<1>9. ASSUME NEW r \in Requests, DropDocument(r) PROVE Shrinks
  BY <1>9 DEF DropDocument, Drop
<1>10. ASSUME NEW a \in Actors, NEW outcome,
             documents' = Put(documents, NewId("document"), Document(a, outcome)),
             outcome # "processed" \/ TitleOf(a) \notin SeedNames,
             UNCHANGED <<datasets, configs>>
      PROVE  Shrinks
  <2>1. \A d \in DOMAIN documents' :
            \/ d \in DOMAIN documents /\ documents'[d] = documents[d]
            \/ documents'[d].title \notin SeedNames
            \/ documents'[d].status # "processed"
    BY <1>10 DEF Put, Document
  <2> QED BY <1>10, <2>1
<1> HIDE DEF Shrinks
<1>11. ASSUME NEW a \in Actors, IngestFails(a) PROVE Shrinks
  BY <1>10, <1>11 DEF IngestFails
<1>12. ASSUME NEW r \in Requests, Ingest(r) PROVE Shrinks
  <2>1. TitleOf(r) \notin SeedNames BY DEF TitleOf
  <2> QED BY <1>10, <1>12, <2>1 DEF Ingest
<1> QED BY <1>1, <1>2, <1>3, <1>4, <1>5, <1>6, <1>8, <1>9, <1>11, <1>12, <1>7, RowSteps
        DEF Writes

LEMMA SeederSteps ==
    ASSUME Control, [Next]_vars
    PROVE  \/ seed' = seed /\ pc'[Seeder] = pc[Seeder]
           \/ seed' = seed /\ pc'[Seeder] \in {"idle", "done", "unlink"}
           \/ StartSeed \/ SeedCases \/ SeedScope \/ SeedConfig \/ SeedCommit \/ SeedDocument
<1> USE Constants DEF Control
<1>1. ASSUME NEW r \in Requests, Request(r) PROVE seed' = seed /\ pc'[Seeder] = pc[Seeder]
  BY <1>1 DEF Request, StartDelete, CountChildren, LookChildren, StartCreate, StartRename, StartPatch,
              Opens, Edits, Reads, DropDataset, DropCase, DropConfig, CreateDataset, CreateConfig,
              InsertCase, InsertRun, MoveCase, RenameDataset, Patch, Upload, StartDeleteDocument,
              DropDocument, Ends, EndsLate, Gives, Goto, locals
<1>2. ASSUME \/ StartSeedAmbiguous \/ SeedCasesWrong \/ SeedScopeFails
             \/ SeedConfigAmbiguous \/ SeedRollback
      PROVE  seed' = seed /\ pc'[Seeder] \in {"idle", "done"}
  BY <1>2 DEF StartSeedAmbiguous, SeedCasesWrong, SeedScopeFails, SeedConfigAmbiguous, SeedRollback,
              SeedFails, SeedRaises, SeedEnds, Last, Goto, locals
<1>3. ASSUME NEW a \in Actors,
             Ingest(a) \/ IngestFails(a) \/ UnlinkFailed(a) \/ CommitFails(a)
      PROVE  /\ seed' = seed
             /\ pc'[Seeder] = pc[Seeder] \/ pc'[Seeder] \in {"idle", "done", "unlink"}
  BY <1>3 DEF Ingest, IngestFails, UnlinkFailed, CommitFails, Last, Goto, locals
<1>4. ASSUME NEW hit, Crash(hit)
      PROVE  /\ seed' = seed
             /\ pc'[Seeder] = pc[Seeder] \/ pc'[Seeder] \in {"idle", "done"}
  BY <1>4 DEF Crash, Last, locals
<1>5. UNCHANGED vars => seed' = seed /\ pc'[Seeder] = pc[Seeder] BY DEF vars, locals
<1> HIDE DEF Control
<1> QED BY <1>1, <1>2, <1>3, <1>4, <1>5 DEF Next, Seeding

LEMMA HeldStep ==
    ASSUME Control, Held, [Next]_vars
    PROVE  Held'
<1> USE Constants DEF Control
<1>1. \A d \in DOMAIN datasets : d \in DOMAIN datasets' \/ ~Inserting(d)
  <2>1. ASSUME NEW r \in Requests, Writes(r)
        PROVE  \A d \in DOMAIN datasets : d \in DOMAIN datasets' \/ ~Inserting(d)
    BY <2>1 DEF Writes, DropDataset, DropCase, DropConfig, CreateDataset, CreateConfig, InsertCase,
                InsertRun, MoveCase, RenameDataset, Patch, DropDocument, Drop, Put
  <2>2. SeedCommit \/ (\E a \in Actors : Ingest(a) \/ IngestFails(a)) \/ UNCHANGED rows
            => DOMAIN datasets \subseteq DOMAIN datasets'
    BY DEF SeedCommit, Ingest, IngestFails, Put, rows
  <2> QED BY <2>1, <2>2, RowSteps
<1>2. ASSUME seed' = seed, pc'[Seeder] = pc[Seeder] PROVE Held'
  BY <1>1, <1>2 DEF Held, Inserting
<1>3. ASSUME pc'[Seeder] \notin {"seedScope", "seedConfig", "seedCommit"} PROVE Held'
  BY <1>3 DEF Held
<1>4. CASE StartSeed \/ SeedCommit \/ SeedDocument
  BY <1>3, <1>4 DEF StartSeed, SeedCommit, SeedDocument, SeedEnds, Last, Goto
<1>5. CASE SeedCases
  <2>1. UNCHANGED datasets /\ seed'.dataset = seed.dataset BY <1>5 DEF SeedCases, rows, Found
  <2> QED BY <1>5, <2>1 DEF SeedCases, Held
<1>6. CASE SeedScope \/ SeedConfig
  <2>1. /\ UNCHANGED datasets /\ seed'.dataset = seed.dataset /\ seed'.addCase = seed.addCase
        /\ pc[Seeder] \in {"seedScope", "seedConfig"}
    BY <1>6 DEF SeedScope, SeedConfig, rows, Found
  <2> QED BY <2>1 DEF Held
<1> HIDE DEF Control
<1> QED BY <1>2, <1>3, <1>4, <1>5, <1>6, SeederSteps

LEMMA SeedStep ==
    ASSUME Control, References, Configured, Stored, SeededOnce, Missing, [Next]_vars
    PROVE  SeededOnce' /\ Missing'
<1> USE Constants
<1>1. ASSUME Shrinks PROVE SeededOnce'
  BY <1>1 DEF Shrinks, SeededOnce, AtMostOne
<1>2. seed.kind \in SeedNames /\ pc \in [Actors -> Steps] BY DEF Control, Found
<1>3. ASSUME Shrinks, ~SeedCommit PROVE Missing'
  <2>1. CASE seed' = seed /\ pc'[Seeder] = pc[Seeder]
    <3>1. NewScope' = NewScope BY <2>1 DEF NewScope
    <3> QED BY <1>2, <1>3, <2>1, <3>1 DEF Missing, Shrinks
  <2>2. CASE seed' = seed /\ pc'[Seeder] \in {"idle", "done", "unlink"}
    BY <2>2 DEF Missing
  <2>3. CASE StartSeed
    <3>1. PICK kind \in SeedNames, d \in DOMAIN datasets \cup {0} :
              OneOf(Named(datasets, kind), d) /\ seed' = [NoSeed EXCEPT !.kind = kind, !.dataset = d]
      BY <2>3 DEF StartSeed
    <3>2. /\ pc'[Seeder] = "seedCases" /\ UNCHANGED datasets
          /\ seed'.kind = kind /\ seed'.dataset = d
      BY <1>2, <2>3, <3>1 DEF StartSeed, Goto, NoSeed, rows
    <3>3. d = 0 => Named(datasets, kind) = {}
      BY <3>1 DEF OneOf, Named, References, Tables
    <3>4. Named(datasets, kind)' = Named(datasets, kind) BY <3>2 DEF Named
    <3>5. d = 0 => OwnDatasets(kind)' = {} BY <3>3, <3>4 DEF OwnDatasets
    <3> QED BY <3>2, <3>5 DEF Missing
  <2>4. CASE SeedCases
    <3>1. /\ pc[Seeder] = "seedCases" /\ pc'[Seeder] \in {"seedScope", "seedConfig"}
          /\ seed'.kind = seed.kind /\ seed'.dataset = seed.dataset /\ seed'.scope = seed.scope
          /\ pc'[Seeder] = "seedConfig" => seed.kind # "rag"
      BY <1>2, <2>4 DEF SeedCases, Goto, Control, Found
    <3> QED BY <1>2, <1>3, <3>1 DEF Missing, Shrinks, NewScope
  <2>5. CASE SeedScope
    <3>1. PICK d \in DOMAIN documents \cup {0} :
              OneOf(Titled(seed.kind), d) /\ seed' = [seed EXCEPT !.scope = d]
      BY <2>5 DEF SeedScope
    <3>2. /\ pc[Seeder] = "seedScope" /\ pc'[Seeder] = "seedConfig"
          /\ seed'.kind = seed.kind /\ seed'.dataset = seed.dataset /\ seed'.scope = d
      BY <1>2, <2>5, <3>1 DEF SeedScope, Goto, Control, Found
    <3>3. d = 0 => Titled(seed.kind) = {}
      BY <3>1 DEF OneOf, Titled, Stored
    <3> QED BY <1>2, <1>3, <3>2, <3>3 DEF Missing, Shrinks, NewScope
  <2>6. CASE SeedConfig
    <3>1. PICK k \in DOMAIN configs \cup {0} :
              /\ OneOf(ConfigsNamed(seed.kind), k)
              /\ seed' = [seed EXCEPT !.config = k,
                                      !.size = IF k = 0 THEN SeedSize ELSE configs[k].size,
                                      !.overlap = IF k = 0 THEN SeedOverlap ELSE configs[k].overlap,
                                      !.linked = IF k = 0 THEN 0 ELSE configs[k].scope]
      BY <2>6 DEF SeedConfig
    <3>2. /\ pc[Seeder] = "seedConfig" /\ pc'[Seeder] = "seedCommit"
          /\ seed'.kind = seed.kind /\ seed'.dataset = seed.dataset /\ seed'.scope = seed.scope
          /\ seed'.config = k
      BY <1>2, <2>6, <3>1 DEF SeedConfig, Goto, Control, Found
    <3>3. k = 0 => OwnConfigs(seed.kind) = {}
      BY <3>1 DEF OneOf, OwnConfigs, ConfigsNamed, References, Tables
    <3> QED BY <1>2, <1>3, <3>2, <3>3 DEF Missing, Shrinks, NewScope
  <2>7. CASE SeedDocument
    <3>1. /\ seed' = seed /\ pc[Seeder] = "seedDocument"
          /\ \/ pc'[Seeder] = "ingest" /\ Titled(seed.kind) = {}
             \/ pc'[Seeder] \in {"idle", "done"}
      BY <1>2, <2>7 DEF SeedDocument, Goto, SeedEnds, Last, locals
    <3> QED BY <1>2, <1>3, <3>1 DEF Missing, Shrinks
  <2> QED BY <1>3, <2>1, <2>2, <2>3, <2>4, <2>5, <2>6, <2>7, SeederSteps
<1>4. CASE Ingest(Seeder)
  <2>1. /\ pc[Seeder] = "ingest" /\ pc'[Seeder] \in {"idle", "done"}
        /\ UNCHANGED <<datasets, configs, given>>
    BY <1>2, <1>4 DEF Ingest, Goto, Last, history
  <2>2. \A d \in DOMAIN documents' :
            \/ d \in DOMAIN documents /\ documents'[d] = documents[d]
            \/ d = NewId("document") /\ documents'[d].title = seed.kind
    BY <1>4 DEF Ingest, Put, Document, TitleOf
  <2>3. ASSUME NEW n \in SeedNames PROVE AtMostOne(Titled(n)')
    <3>1. CASE n = seed.kind
      <4>1. Titled(n)' \subseteq {NewId("document")}
        BY <2>1, <2>2, <3>1 DEF Titled, Missing
      <4> QED BY <4>1 DEF AtMostOne
    <3>2. CASE n # seed.kind
      <4>1. Titled(n)' \subseteq Titled(n) BY <2>2, <3>2 DEF Titled
      <4> QED BY <4>1 DEF AtMostOne, SeededOnce
    <3> QED BY <3>1, <3>2
  <2>4. \A n \in SeedNames : /\ OwnDatasets(n)' = OwnDatasets(n)
                             /\ OwnConfigs(n)' = OwnConfigs(n)
    BY <2>1 DEF OwnDatasets, OwnConfigs, Named, ConfigsNamed
  <2>5. SeededOnce' BY <2>3, <2>4 DEF SeededOnce, AtMostOne
  <2> QED BY <2>1, <2>5 DEF Missing
<1>5. CASE SeedCommit
  <2>1. /\ pc[Seeder] = "seedCommit" /\ seed' = seed /\ given' = given
        /\ pc'[Seeder] \in {"idle", "done", "seedDocument"}
    BY <1>2, <1>5 DEF SeedCommit, Goto, SeedEnds, Last, locals
  <2>2. ASSUME NEW n \in SeedNames PROVE AtMostOne(OwnDatasets(n)')
    <3>1. CASE seed.dataset = 0
      <4>1. \A d \in DOMAIN datasets' : \/ d \in DOMAIN datasets /\ datasets'[d] = datasets[d]
                                        \/ d = Dataset /\ datasets'[d] = seed.kind
        BY <1>5, <3>1 DEF SeedCommit, Put
      <4>2. OwnDatasets(seed.kind) = {} BY <2>1, <3>1 DEF Missing
      <4>3. \A d \in OwnDatasets(n)' : d \in OwnDatasets(n) \/ (d = Dataset /\ n = seed.kind)
        BY <2>1, <4>1 DEF OwnDatasets, Named
      <4> QED BY <4>2, <4>3 DEF AtMostOne, SeededOnce
    <3>2. CASE seed.dataset # 0
      <4>1. UNCHANGED datasets BY <1>5, <3>2 DEF SeedCommit
      <4>2. OwnDatasets(n)' = OwnDatasets(n) BY <2>1, <4>1 DEF OwnDatasets, Named
      <4> QED BY <4>2 DEF AtMostOne, SeededOnce
    <3> QED BY <3>1, <3>2
  <2>3. ASSUME NEW n \in SeedNames PROVE AtMostOne(OwnConfigs(n)')
    <3>1. CASE seed.config = 0
      <4>1. \A k \in DOMAIN configs' : \/ k \in DOMAIN configs /\ configs'[k] = configs[k]
                                       \/ k = NewId("config") /\ configs'[k].name = seed.kind
        BY <1>5, <3>1 DEF SeedCommit, Put, Config
      <4>2. OwnConfigs(seed.kind) = {} BY <2>1, <3>1 DEF Missing
      <4>3. \A k \in OwnConfigs(n)' :
                k \in OwnConfigs(n) \/ (k = NewId("config") /\ n = seed.kind)
        BY <2>1, <4>1 DEF OwnConfigs, ConfigsNamed
      <4> QED BY <4>2, <4>3 DEF AtMostOne, SeededOnce
    <3>2. CASE seed.config # 0
      <4>1. \/ configs' = [configs EXCEPT ![seed.config] = Realigned(@)]
            \/ configs' = configs
        BY <1>5, <3>2 DEF SeedCommit
      <4>2. \A k \in DOMAIN configs' : k \in DOMAIN configs /\ configs'[k].name = configs[k].name
        <5>1. CASE configs' = configs BY <5>1
        <5>2. CASE configs' = [configs EXCEPT ![seed.config] = Realigned(@)]
          <6>1. DOMAIN configs' = DOMAIN configs BY <5>2
          <6>2. \A k \in DOMAIN configs : Realigned(configs[k]).name = configs[k].name
            BY DEF Realigned, Configured
          <6>3. \A k \in DOMAIN configs :
                    configs'[k] = configs[k] \/ configs'[k] = Realigned(configs[k])
            BY <5>2
          <6> QED BY <6>1, <6>2, <6>3
        <5> QED BY <4>1, <5>1, <5>2
      <4>3. \A k \in OwnConfigs(n)' : k \in OwnConfigs(n)
        BY <2>1, <4>2 DEF OwnConfigs, ConfigsNamed
      <4> QED BY <4>3 DEF AtMostOne, SeededOnce
    <3> QED BY <3>1, <3>2
  <2>4. ASSUME NEW n \in SeedNames PROVE AtMostOne(Titled(n)')
    <3>1. CASE NewScope
      <4>1. \A d \in DOMAIN documents' :
                \/ d \in DOMAIN documents /\ documents'[d] = documents[d]
                \/ d = NewId("document") /\ documents'[d].title = seed.kind
        BY <1>5, <3>1 DEF SeedCommit, Put, Document, TitleOf
      <4> QED BY <2>1, <3>1, <4>1 DEF Titled, Missing, AtMostOne, SeededOnce
    <3>2. CASE ~NewScope
      <4>1. UNCHANGED documents BY <1>5, <3>2 DEF SeedCommit
      <4> QED BY <4>1 DEF Titled, AtMostOne, SeededOnce
    <3> QED BY <3>1, <3>2
  <2>5. SeededOnce' BY <2>2, <2>3, <2>4 DEF SeededOnce, AtMostOne
  <2> QED BY <2>1, <2>5 DEF Missing
<1> QED BY <1>1, <1>3, <1>4, <1>5, ShrinkSteps

-----------------------------------------------------------------------------
(* Files. *)

\* The actor may yet commit a document with its file, holds a file of a
\* document still to be committed, or has a file to remove.
Ahead(a) == IF a = Seeder THEN pc[a] \notin {"idle", "done", "unlink"}
            ELSE pc[a] \in {"idle", "ingest"}
Holds(a) == \/ pc[a] = "ingest"
            \/ a = Seeder /\ pc[a] \in {"seedConfig", "seedCommit"} /\ NewScope
Removes(a) == pc[a] = "unlink"
Deletes(r, d) == pc[r] = "dropDocument" /\ row[r] = d

\* No two documents share a file, and no actor will make one that does.
FilesApart ==
    /\ \A d, e \in DOMAIN documents : documents[d].file = documents[e].file => d = e
    /\ \A d \in DOMAIN documents :
           /\ \A k \in 1..SeedRuns : documents[d].file = <<Seeder, k>> => k <= seedings
           /\ \A a \in Actors : Ahead(a) => documents[d].file # FileOf(a)

FilesHeld ==
    /\ \A a \in Actors : Holds(a) => FileOf(a) \in files
    /\ \A a \in Actors, d \in chunked : Removes(a) => documents[d].file # FileOf(a)

UnlinkedGone ==
    /\ unlinked \subseteq 1..ids["document"]
    /\ \A d \in unlinked \cap DOMAIN documents : documents[d].file \notin files
    /\ \A r \in Requests : \A d : Deletes(r, d) => d \in unlinked

\* Unless something died or was rolled back, whoever removed a file is about to
\* delete the row, and every file has an owner.
Accounted ==
    ~hurt => /\ \A d \in chunked \cap unlinked : \E r \in Requests : Deletes(r, d)
             /\ \A f \in files : \/ \E d \in chunked : documents[d].file = f
                                 \/ \E a \in Actors : f = FileOf(a) /\ (Holds(a) \/ Removes(a))

Filed == FilesApart /\ FilesHeld /\ UnlinkedGone /\ FileUntilDeleted /\ Accounted

\* A step that concerns no file.
Calm ==
    /\ UNCHANGED <<documents, chunked, files, unlinked, seedings>>
    /\ \A a \in Actors : /\ Ahead(a)' => Ahead(a)
                         /\ Holds(a)' => Holds(a)
                         /\ Removes(a)' => Removes(a)
    /\ \A r \in Requests : \A d : Deletes(r, d)' => Deletes(r, d)
    /\ ~hurt' => /\ ~hurt
                 /\ \A a \in Actors : Holds(a) \/ Removes(a) => Holds(a)' \/ Removes(a)'
                 /\ \A r \in Requests : \A d : Deletes(r, d) => Deletes(r, d)'

LEMMA CalmStep ==
    ASSUME ids \in [Tables -> Nat], Filed, [Next]_vars, Calm
    PROVE  Filed'
<1>1. ids["document"] \in Nat /\ ids'["document"] \in Nat /\ ids["document"] <= ids'["document"]
  BY IdsGrow DEF Tables
<1>2. \A a \in Actors : FileOf(a)' = FileOf(a) BY DEF Calm, FileOf
<1>3. FilesApart' BY <1>2 DEF Calm, Filed, FilesApart
<1>4. FilesHeld' BY <1>2 DEF Calm, Filed, FilesHeld
<1>5. UnlinkedGone' BY <1>1 DEF Calm, Filed, UnlinkedGone
<1>6. FileUntilDeleted' BY DEF Calm, Filed, FileUntilDeleted
<1>7. Accounted' BY <1>2 DEF Calm, Filed, Accounted
<1> QED BY <1>3, <1>4, <1>5, <1>6, <1>7 DEF Filed

LEMMA CalmSteps ==
    ASSUME Control, [Next]_vars
    PROVE  \/ Calm
           \/ \E r \in Requests : Upload(r) \/ StartDeleteDocument(r) \/ DropDocument(r)
           \/ \E a \in Actors : Ingest(a) \/ IngestFails(a) \/ UnlinkFailed(a)
           \/ StartSeed \/ StartSeedAmbiguous \/ SeedScope \/ SeedCommit \/ SeedDocument
<1> USE Constants DEF Control
<1> DEFINE Busy == {"ingest", "unlink", "dropDocument"}
<1>1. ASSUME NEW r \in Requests, NEW step \in Steps, step \notin Busy \cup {"idle"},
             pc[r] \notin Busy, pc' = [pc EXCEPT ![r] = step],
             \A q \in Requests \ {r} : row'[q] = row[q],
             UNCHANGED <<documents, chunked, files, unlinked, seedings, seed, hurt>>
      PROVE  Calm
  BY <1>1 DEF Calm, Ahead, Holds, Removes, Deletes, NewScope
<1>2. ASSUME NEW r \in Requests, Request(r), ~Upload(r), ~StartDeleteDocument(r), ~DropDocument(r)
      PROVE  Calm
  <2>1. CASE StartRename(r) \/ StartPatch(r)
    <3>1. /\ UNCHANGED <<documents, chunked, files, unlinked, seedings, seed, hurt>>
          /\ pc[r] \notin Busy /\ \A q \in Requests \ {r} : row'[q] = row[q]
          /\ pc' = [pc EXCEPT ![r] = "rename"] \/ pc' = [pc EXCEPT ![r] = "patch"]
      BY <2>1, EditBegins DEF rows, history
    <3>2. {"rename", "patch"} \subseteq Steps /\ "rename" \notin Busy /\ "patch" \notin Busy
      BY DEF Steps
    <3> HIDE DEF Busy
    <3> QED BY <1>1, <3>1, <3>2
  <2>2. CASE StartDelete(r) \/ StartCreate(r)
    <3>1. /\ UNCHANGED <<documents, chunked, files, unlinked, seedings, seed, hurt>>
          /\ pc[r] \notin Busy /\ \A q \in Requests \ {r} : row'[q] = row[q]
      BY <2>2 DEF StartDelete, StartCreate, Opens, Hold, rows, history
    <3>2. \E step \in Steps : step \notin Busy \cup {"idle"} /\ pc' = [pc EXCEPT ![r] = step]
      BY <2>2 DEF StartDelete, StartCreate, Opens, Goto, Steps
    <3> QED BY <1>1, <3>1, <3>2
  <2>3. CASE \/ CountChildren(r) \/ LookChildren(r) \/ DropDataset(r) \/ DropCase(r)
             \/ DropConfig(r) \/ CreateDataset(r) \/ CreateConfig(r)
    <3>1. UNCHANGED <<documents, chunked, files, unlinked, seedings, seed, row, hurt>>
      BY <2>3 DEF CountChildren, LookChildren, DropDataset, DropCase, DropConfig, CreateDataset,
                  CreateConfig, Reads, Ends, Gives, rows, locals, history
    <3>2. /\ pc[r] \notin Busy
          /\ \E step \in Steps : step \notin Busy \cup {"idle"} /\ pc' = [pc EXCEPT ![r] = step]
      BY <2>3 DEF CountChildren, LookChildren, DropDataset, DropCase, DropConfig, CreateDataset,
                  CreateConfig, Reads, Ends, Gives, Goto, Steps
    <3> QED BY <1>1, <3>1, <3>2
  <2>4. CASE InsertCase(r) \/ InsertRun(r) \/ MoveCase(r) \/ RenameDataset(r) \/ Patch(r)
    <3>1. UNCHANGED <<documents, chunked, files, unlinked, seedings, seed, row, hurt>>
      BY <2>4 DEF InsertCase, InsertRun, MoveCase, RenameDataset, Patch, Ends, EndsLate, Gives,
                  rows, locals, history
    <3>2. /\ pc[r] \notin Busy
          /\ \E step \in Steps : step \notin Busy \cup {"idle"} /\ pc' = [pc EXCEPT ![r] = step]
      BY <2>4 DEF InsertCase, InsertRun, MoveCase, RenameDataset, Patch, Ends, EndsLate, Gives, Goto,
                  Steps
    <3> QED BY <1>1, <3>1, <3>2
  <2> QED BY <1>2, <2>1, <2>2, <2>3, <2>4 DEF Request
<1>3. ASSUME NEW step \in Steps, step # "unlink", pc[Seeder] \notin Busy,
             pc' = [pc EXCEPT ![Seeder] = step],
             Ahead(Seeder)' => Ahead(Seeder), Holds(Seeder)' <=> Holds(Seeder),
             UNCHANGED <<documents, chunked, files, unlinked, seedings, row>>, hurt => hurt'
      PROVE  Calm
  <2>1. \A a \in Actors : /\ Ahead(a)' => Ahead(a)
                          /\ Holds(a)' <=> Holds(a)
                          /\ Removes(a)' <=> Removes(a)
    BY <1>3 DEF Ahead, Holds, Removes
  <2>2. \A r \in Requests : \A d : Deletes(r, d)' <=> Deletes(r, d)
    BY <1>3 DEF Deletes
  <2> QED BY <1>3, <2>1, <2>2 DEF Calm
<1>4. CASE SeedCases
  <2>1. /\ pc[Seeder] = "seedCases"
        /\ seed'.kind = seed.kind /\ seed'.scope = seed.scope
        /\ \/ pc' = [pc EXCEPT ![Seeder] = "seedScope"]
           \/ pc' = [pc EXCEPT ![Seeder] = "seedConfig"] /\ seed.kind # "rag"
        /\ UNCHANGED <<documents, chunked, files, unlinked, seedings, row, hurt>>
    BY <1>4 DEF SeedCases, Goto, rows, history, Found
  <2>2. /\ Ahead(Seeder)' => Ahead(Seeder)
        /\ Holds(Seeder)' <=> Holds(Seeder)
    BY <2>1 DEF Ahead, Holds, NewScope
  <2> QED BY <1>3, <2>1, <2>2 DEF Steps
<1>5. ASSUME SeedCasesWrong \/ SeedScopeFails PROVE Calm
  <2>1. /\ pc[Seeder] \in {"seedCases", "seedScope"}
        /\ \E step \in {"idle", "done"} : pc' = [pc EXCEPT ![Seeder] = step]
        /\ UNCHANGED <<documents, chunked, files, unlinked, seedings, seed, row, hurt>>
    BY <1>5 DEF SeedCasesWrong, SeedScopeFails, SeedFails, SeedEnds, Last, Goto, rows, locals, history
  <2>2. /\ Ahead(Seeder)' => Ahead(Seeder)
        /\ Holds(Seeder)' <=> Holds(Seeder)
    BY <2>1 DEF Ahead, Holds
  <2> QED BY <1>3, <2>1, <2>2 DEF Steps
<1>6. CASE SeedConfig
  <2>1. /\ pc[Seeder] = "seedConfig" /\ pc' = [pc EXCEPT ![Seeder] = "seedCommit"]
        /\ seed'.kind = seed.kind /\ seed'.scope = seed.scope
        /\ UNCHANGED <<documents, chunked, files, unlinked, seedings, row, hurt>>
    BY <1>6 DEF SeedConfig, Goto, rows, history
  <2>2. /\ Ahead(Seeder)' => Ahead(Seeder)
        /\ Holds(Seeder)' <=> Holds(Seeder)
    BY <2>1 DEF Ahead, Holds, NewScope
  <2> QED BY <1>3, <2>1, <2>2 DEF Steps
<1>7. ASSUME UNCHANGED <<documents, chunked, files, unlinked, seedings, seed, row>>, hurt',
             \A a \in Actors : \/ pc'[a] = pc[a]
                               \/ pc'[a] = "done"
                               \/ a = Seeder /\ pc'[a] = "idle"
      PROVE  Calm
  BY <1>7 DEF Calm, Ahead, Holds, Removes, Deletes, NewScope
<1>8. ASSUME SeedConfigAmbiguous \/ SeedRollback PROVE Calm
  <2>1. /\ pc[Seeder] \in {"seedConfig", "seedCommit"}
        /\ \E step \in {"idle", "done"} : pc' = [pc EXCEPT ![Seeder] = step]
        /\ UNCHANGED <<documents, chunked, files, unlinked, seedings, seed, row>>
        /\ hurt' = (hurt \/ NewScope)
    BY <1>8 DEF SeedConfigAmbiguous, SeedRollback, SeedRaises, SeedEnds, Last, Goto, rows, locals
  <2>2. CASE NewScope
    <3>1. \A a \in Actors : \/ pc'[a] = pc[a]
                            \/ pc'[a] = "done"
                            \/ a = Seeder /\ pc'[a] = "idle"
      BY <2>1
    <3> QED BY <1>7, <2>1, <2>2, <3>1
  <2>3. CASE ~NewScope
    <3>1. /\ Ahead(Seeder)' => Ahead(Seeder)
          /\ Holds(Seeder)' <=> Holds(Seeder)
      BY <2>1, <2>3 DEF Ahead, Holds
    <3>2. hurt => hurt' BY <2>1
    <3> QED BY <1>3, <2>1, <3>1, <3>2 DEF Steps
  <2> QED BY <2>2, <2>3
<1>9. ASSUME (\E a \in Actors : CommitFails(a)) \/ (\E hit : Crash(hit)) PROVE Calm
  <2>1. UNCHANGED <<documents, chunked, files, unlinked, seedings, seed, row>> /\ hurt'
    BY <1>9 DEF CommitFails, Crash, rows, locals
  <2>2. \A a \in Actors : \/ pc'[a] = pc[a]
                          \/ pc'[a] = "done"
                          \/ a = Seeder /\ pc'[a] = "idle"
    BY <1>9 DEF CommitFails, Crash, Last, Goto
  <2> QED BY <1>7, <2>1, <2>2
<1>10. UNCHANGED vars => Calm
  BY DEF vars, rows, locals, history, Calm, Ahead, Holds, Removes, Deletes, NewScope
<1> HIDE DEF Control
<1> QED BY <1>2, <1>4, <1>5, <1>6, <1>9, <1>10, <1>8 DEF Next, Seeding

\* The four ways a step concerns a file.

\* An actor puts its file into the directory.
LEMMA FileAdded ==
    ASSUME Filed, ids \in [Tables -> Nat], [Next]_vars,
           NEW a \in Actors, Ahead(a), Ahead(a)', Holds(a)', ~Removes(a)', ~Removes(a),
           files' = files \cup {FileOf(a)},
           UNCHANGED <<documents, chunked, unlinked, seedings, hurt>>,
           \A b \in Actors \ {a} : /\ Ahead(b)' <=> Ahead(b)
                                   /\ Holds(b)' <=> Holds(b)
                                   /\ Removes(b)' <=> Removes(b),
           \A r \in Requests : \A d : Deletes(r, d)' <=> Deletes(r, d)
    PROVE  Filed'
<1>1. ids["document"] \in Nat /\ ids'["document"] \in Nat /\ ids["document"] <= ids'["document"]
  BY IdsGrow DEF Tables
<1>2. \A b \in Actors : FileOf(b)' = FileOf(b) BY DEF FileOf
<1>3. FilesApart' BY <1>2 DEF Filed, FilesApart
<1>4. FilesHeld' BY <1>2 DEF Filed, FilesHeld
<1>5. UnlinkedGone' BY <1>1 DEF Filed, UnlinkedGone, FilesApart
<1>6. FileUntilDeleted' BY DEF Filed, FileUntilDeleted
<1>7. Accounted' BY <1>2 DEF Filed, Accounted
<1> QED BY <1>3, <1>4, <1>5, <1>6, <1>7 DEF Filed

\* An actor commits the document of its file: processed, or failed with the
\* file still to be removed.
LEMMA FileCommitted ==
    ASSUME Filed, Stored, ids \in [Tables -> Nat], [Next]_vars,
           NEW a \in Actors, NEW processed \in BOOLEAN, Ahead(a), ~Ahead(a)', ~Holds(a)',
           Holds(a), ~Removes(a), Removes(a)' <=> ~processed,
           documents' = Put(documents, NewId("document"),
                            Document(a, IF processed THEN "processed" ELSE "failed")),
           chunked' = IF processed THEN chunked \cup {NewId("document")} ELSE chunked,
           ids'["document"] = ids["document"] + 1,
           UNCHANGED <<files, unlinked, seedings, hurt>>,
           \A b \in Actors \ {a} : /\ Ahead(b)' <=> Ahead(b)
                                   /\ Holds(b)' <=> Holds(b)
                                   /\ Removes(b)' <=> Removes(b),
           \A r \in Requests : \A d : Deletes(r, d)' <=> Deletes(r, d),
           a = Seeder => seedings \in 1..SeedRuns
    PROVE  Filed'
<1> DEFINE new == NewId("document")
<1>1. /\ new \notin DOMAIN documents /\ new \notin chunked /\ new \notin unlinked
      /\ new \in 1..ids'["document"] /\ unlinked \subseteq 1..ids'["document"]
  BY DEF Filed, UnlinkedGone, Stored, NewId, Tables
<1>2. /\ DOMAIN documents' = DOMAIN documents \cup {new}
      /\ \A d \in DOMAIN documents : documents'[d] = documents[d]
      /\ documents'[new].file = FileOf(a)
  BY <1>1 DEF Put, Document
<1>3. /\ \A b \in Actors : FileOf(b)' = FileOf(b)
      /\ \A b \in Actors \ {a} : FileOf(b) # FileOf(a)
  BY DEF FileOf
<1>4. chunked \subseteq DOMAIN documents BY DEF Stored
<1>5. chunked' = IF processed THEN chunked \cup {new} ELSE chunked OBVIOUS
<1> HIDE DEF new
<1>6. FilesApart'
  <2>1. \A d, e \in DOMAIN documents' : documents'[d].file = documents'[e].file => d = e
    BY <1>2 DEF Filed, FilesApart
  <2>2. \A k \in 1..SeedRuns : FileOf(a) = <<Seeder, k>> => k <= seedings
    <3>1. FileOf(a)[1] = a BY DEF FileOf
    <3>2. a = Seeder => FileOf(a)[2] = seedings BY DEF FileOf
    <3> QED BY <3>1, <3>2
  <2>3. ASSUME NEW d \in DOMAIN documents'
        PROVE  /\ \A k \in 1..SeedRuns : documents'[d].file = <<Seeder, k>> => k <= seedings
               /\ \A b \in Actors : Ahead(b)' => documents'[d].file # FileOf(b)
    <3>1. CASE d \in DOMAIN documents BY <1>2, <3>1 DEF Filed, FilesApart
    <3>2. CASE d = new BY <1>2, <1>3, <2>2, <3>2
    <3> QED BY <1>2, <3>1, <3>2
  <2> QED BY <1>3, <2>1, <2>3 DEF FilesApart
<1>7. FilesHeld'
  <2>1. \A b \in Actors : Holds(b)' => FileOf(b)' \in files'
    BY <1>3 DEF Filed, FilesHeld
  <2>2. ASSUME NEW b \in Actors, NEW d \in chunked', Removes(b)'
        PROVE  documents'[d].file # FileOf(b)
    <3>1. CASE d = new BY <1>2, <1>3, <1>1, <1>5, <2>2, <3>1
    <3>2. CASE d \in chunked /\ b # a BY <1>2, <1>4, <2>2, <3>2 DEF Filed, FilesHeld
    <3>3. CASE d \in chunked /\ b = a BY <1>2, <1>4, <3>3 DEF Filed, FilesApart
    <3> QED BY <1>5, <3>1, <3>2, <3>3
  <2> QED BY <1>3, <2>1, <2>2 DEF FilesHeld
<1>8. UnlinkedGone' BY <1>1, <1>2 DEF Filed, UnlinkedGone
<1>9. FileUntilDeleted'
  <2>1. FileOf(a) \in files BY DEF Filed, FilesHeld
  <2> QED BY <1>2, <1>4, <1>5, <2>1 DEF Filed, FileUntilDeleted
<1>10. Accounted'
  <2>1. SUFFICES ASSUME ~hurt
                 PROVE  /\ \A d \in chunked' \cap unlinked : \E r \in Requests : Deletes(r, d)'
                        /\ \A f \in files :
                               \/ \E d \in chunked' : documents'[d].file = f
                               \/ \E b \in Actors : f = FileOf(b) /\ (Holds(b)' \/ Removes(b)')
    BY <1>3 DEF Accounted
  <2>2. \A d \in chunked' \cap unlinked : \E r \in Requests : Deletes(r, d)'
    BY <1>1, <1>5, <2>1 DEF Filed, Accounted
  <2>3. ASSUME NEW f \in files
        PROVE  \/ \E d \in chunked' : documents'[d].file = f
               \/ \E b \in Actors : f = FileOf(b) /\ (Holds(b)' \/ Removes(b)')
    <3>1. CASE \E d \in chunked : documents[d].file = f
      BY <1>2, <1>4, <1>5, <3>1
    <3>2. CASE f = FileOf(a) BY <1>2, <1>5, <3>2
    <3>3. CASE \E b \in Actors \ {a} : f = FileOf(b) /\ (Holds(b) \/ Removes(b))
      BY <3>3
    <3> QED BY <2>1, <3>1, <3>2, <3>3 DEF Filed, Accounted
  <2> QED BY <2>2, <2>3
<1> QED BY <1>6, <1>7, <1>8, <1>9, <1>10 DEF Filed

\* The script looks for the document of the rag seed only.
RagScope == pc[Seeder] = "seedScope" => seed.kind = "rag"

LEMMA RagScopeStep ==
    ASSUME Control, RagScope, [Next]_vars
    PROVE  RagScope'
<1> USE Constants DEF Control, RagScope
<1>1. ASSUME StartSeed PROVE RagScope'
  BY <1>1 DEF StartSeed, Goto
<1>2. ASSUME SeedCases PROVE RagScope'
  BY <1>2 DEF SeedCases, Goto
<1>3. ASSUME SeedScope \/ SeedConfig PROVE RagScope'
  BY <1>3 DEF SeedScope, SeedConfig, Goto
<1>4. ASSUME SeedCommit \/ SeedDocument PROVE RagScope'
  BY <1>4 DEF SeedCommit, SeedDocument, SeedEnds, Last, Goto
<1> HIDE DEF Control
<1> QED BY <1>1, <1>2, <1>3, <1>4, SeederSteps

\* A document being deleted belongs to the request that deletes it; a file that
\* an actor holds is not the file of a document yet.
LEMMA DeletionBegins ==
    ASSUME Control, Stored, Filed, NEW r \in Requests, StartDeleteDocument(r)
    PROVE  Filed'
<1> USE Constants
<1>1. PICK d \in DOMAIN documents :
          /\ files' = files \ {documents[d].file}
          /\ unlinked' = unlinked \cup {d}
          /\ row'[r] = d /\ \A q \in Requests \ {r} : row'[q] = row[q]
          /\ pc[r] = "idle" /\ pc' = [pc EXCEPT ![r] = "dropDocument"]
          /\ UNCHANGED <<documents, chunked, ids, seed, seedings, hurt>>
  <2>1. PICK d \in DOMAIN documents : /\ files' = files \ {documents[d].file}
                                      /\ unlinked' = unlinked \cup {d}
                                      /\ Hold(r, d, 0)
    BY DEF StartDeleteDocument
  <2>2. /\ pc[r] = "idle" /\ pc' = [pc EXCEPT ![r] = "dropDocument"]
        /\ UNCHANGED <<documents, chunked, ids, seed, seedings, hurt>>
    BY DEF StartDeleteDocument, Goto, rows
  <2>3. /\ row'[r] = d
        /\ \A q \in Requests \ {r} : row'[q] = row[q]
    BY <2>1 DEF Hold, Control
  <2> QED BY <2>1, <2>2, <2>3
<1>2. \A a \in Actors : FileOf(a)' = FileOf(a) BY <1>1 DEF FileOf
<1>3. /\ \A a \in Actors \ {r} : /\ Ahead(a)' <=> Ahead(a)
                                 /\ Holds(a)' <=> Holds(a)
                                 /\ Removes(a)' <=> Removes(a)
      /\ ~Ahead(r)' /\ ~Holds(r)' /\ ~Removes(r)' /\ ~Holds(r) /\ ~Removes(r)
  BY <1>1 DEF Ahead, Holds, Removes, NewScope, Control
<1>4. \A a \in Actors : Holds(a) => Ahead(a) BY DEF Holds, Ahead
<1>5. /\ Deletes(r, d)'
      /\ \A e : Deletes(r, e)' => e = d
      /\ \A e : ~Deletes(r, e)
      /\ \A q \in Requests \ {r} : \A e : Deletes(q, e)' <=> Deletes(q, e)
  BY <1>1 DEF Deletes, Control
<1>6. d \in 1..ids["document"] /\ chunked \subseteq DOMAIN documents BY <1>1 DEF Stored
<1>7. FilesApart' BY <1>1, <1>2, <1>3 DEF Filed, FilesApart
<1>8. FilesHeld' BY <1>1, <1>2, <1>3, <1>4 DEF Filed, FilesApart, FilesHeld
<1>9. UnlinkedGone' BY <1>1, <1>5, <1>6 DEF Filed, UnlinkedGone
<1>10. FileUntilDeleted' BY <1>1, <1>6 DEF Filed, FilesApart, FileUntilDeleted
<1>11. Accounted'
  <2>1. SUFFICES ASSUME ~hurt
                 PROVE  /\ \A e \in chunked \cap unlinked' : \E q \in Requests : Deletes(q, e)'
                        /\ \A f \in files' :
                               \/ \E e \in chunked : documents[e].file = f
                               \/ \E a \in Actors : f = FileOf(a) /\ (Holds(a)' \/ Removes(a)')
    BY <1>1, <1>2 DEF Accounted
  <2>2. \A e \in chunked \cap unlinked' : \E q \in Requests : Deletes(q, e)'
    BY <1>1, <1>5, <2>1 DEF Filed, Accounted
  <2>3. \A f \in files' : \/ \E e \in chunked : documents[e].file = f
                          \/ \E a \in Actors : f = FileOf(a) /\ (Holds(a)' \/ Removes(a)')
    BY <1>1, <1>3, <2>1 DEF Filed, Accounted
  <2> QED BY <2>2, <2>3
<1> QED BY <1>7, <1>8, <1>9, <1>10, <1>11 DEF Filed

LEMMA DeletionCommits ==
    ASSUME Control, Stored, Filed, NEW r \in Requests, DropDocument(r)
    PROVE  Filed'
<1> USE Constants
<1> DEFINE d == row[r]
<1>1. /\ DOMAIN documents' = DOMAIN documents \ {d}
      /\ \A e \in DOMAIN documents' : documents'[e] = documents[e]
      /\ chunked' = chunked \ {d}
      /\ pc[r] = "dropDocument" /\ pc' = [pc EXCEPT ![r] = "done"]
      /\ UNCHANGED <<files, unlinked, ids, row, seed, seedings, hurt>>
  BY DEF DropDocument, Drop, Ends, Goto, locals, history
<1> HIDE DEF d
<1>2. \A a \in Actors : FileOf(a)' = FileOf(a) BY <1>1 DEF FileOf
<1>3. /\ \A a \in Actors \ {r} : /\ Ahead(a)' <=> Ahead(a)
                                 /\ Holds(a)' <=> Holds(a)
                                 /\ Removes(a)' <=> Removes(a)
      /\ ~Ahead(r)' /\ ~Holds(r)' /\ ~Removes(r)' /\ ~Holds(r) /\ ~Removes(r)
  BY <1>1 DEF Ahead, Holds, Removes, NewScope, Control
<1>4. /\ Deletes(r, d) /\ \A e : ~Deletes(r, e)' /\ (Deletes(r, e) => e = d)
      /\ \A q \in Requests \ {r} : \A e : Deletes(q, e)' <=> Deletes(q, e)
  BY <1>1 DEF Deletes, Control, d
<1>5. d \in unlinked BY <1>4 DEF Filed, UnlinkedGone
<1>6. chunked \subseteq DOMAIN documents BY DEF Stored
<1>7. d \in DOMAIN documents => documents[d].file \notin files
  BY <1>5 DEF Filed, UnlinkedGone
<1>8. FilesApart' BY <1>1, <1>2, <1>3 DEF Filed, FilesApart
<1>9. FilesHeld' BY <1>1, <1>2, <1>3, <1>6 DEF Filed, FilesHeld
<1>10. UnlinkedGone' BY <1>1, <1>4 DEF Filed, UnlinkedGone
<1>11. FileUntilDeleted' BY <1>1, <1>6 DEF Filed, FileUntilDeleted
<1>12. Accounted'
  <2>1. SUFFICES ASSUME ~hurt
                 PROVE  /\ \A e \in chunked' \cap unlinked : \E q \in Requests : Deletes(q, e)'
                        /\ \A f \in files :
                               \/ \E e \in chunked' : documents'[e].file = f
                               \/ \E a \in Actors : f = FileOf(a) /\ (Holds(a)' \/ Removes(a)')
    BY <1>1, <1>2 DEF Accounted
  <2>2. \A e \in chunked' \cap unlinked : \E q \in Requests : Deletes(q, e)'
    BY <1>1, <1>4, <2>1 DEF Filed, Accounted
  <2>3. \A f \in files : \/ \E e \in chunked' : documents'[e].file = f
                         \/ \E a \in Actors : f = FileOf(a) /\ (Holds(a)' \/ Removes(a)')
    BY <1>1, <1>3, <1>6, <1>7, <2>1 DEF Filed, Accounted
  <2> QED BY <2>2, <2>3
<1> QED BY <1>8, <1>9, <1>10, <1>11, <1>12 DEF Filed

LEMMA FailedUnlinked ==
    ASSUME Control, Stored, Filed, NEW a \in Actors, UnlinkFailed(a)
    PROVE  Filed'
<1> USE Constants
<1>1. /\ pc[a] = "unlink" /\ pc' = [pc EXCEPT ![a] = Last(a)]
      /\ files' = files \ {FileOf(a)}
      /\ UNCHANGED <<documents, chunked, unlinked, ids, row, seed, seedings, hurt>>
  BY DEF UnlinkFailed, Goto, rows, locals, history
<1>2. /\ \A b \in Actors : FileOf(b)' = FileOf(b)
      /\ \A b \in Actors \ {a} : FileOf(b) # FileOf(a)
  BY <1>1 DEF FileOf
<1>3. /\ \A b \in Actors \ {a} : /\ Ahead(b)' <=> Ahead(b)
                                 /\ Holds(b)' <=> Holds(b)
                                 /\ Removes(b)' <=> Removes(b)
      /\ ~Ahead(a)' /\ ~Holds(a)' /\ ~Removes(a)'
      /\ Removes(a)
  BY <1>1 DEF Ahead, Holds, Removes, NewScope, Last, Control
<1>4. \A r \in Requests : \A d : Deletes(r, d)' <=> Deletes(r, d)
  BY <1>1 DEF Deletes, Last, Control
<1>5. chunked \subseteq DOMAIN documents BY DEF Stored
<1>6. FilesApart' BY <1>1, <1>2, <1>3 DEF Filed, FilesApart
<1>7. FilesHeld' BY <1>1, <1>2, <1>3 DEF Filed, FilesHeld
<1>8. UnlinkedGone' BY <1>1, <1>4 DEF Filed, UnlinkedGone
<1>9. FileUntilDeleted' BY <1>1, <1>3 DEF Filed, FilesHeld, FileUntilDeleted
<1>10. Accounted' BY <1>1, <1>2, <1>3, <1>4 DEF Filed, Accounted
<1> QED BY <1>6, <1>7, <1>8, <1>9, <1>10 DEF Filed

LEMMA SeedingStarts ==
    ASSUME Control, Stored, Filed, StartSeed \/ StartSeedAmbiguous
    PROVE  Filed'
<1> USE Constants
<1>1. /\ pc[Seeder] = "idle"
      /\ \E step \in {"seedCases", "idle", "done"} : pc' = [pc EXCEPT ![Seeder] = step]
      /\ seedings \in 0..SeedRuns /\ seedings' = seedings + 1 /\ seedings' \in 1..SeedRuns
      /\ UNCHANGED <<documents, chunked, files, unlinked, ids, row, hurt>>
  <2>1. \E step \in {"seedCases", "idle", "done"} : pc' = [pc EXCEPT ![Seeder] = step]
    BY Zenon DEF StartSeed, StartSeedAmbiguous, Goto
  <2>2. pc[Seeder] = "idle" /\ seedings < SeedRuns /\ seedings' = seedings + 1
    BY DEF StartSeed, StartSeedAmbiguous
  <2>3. UNCHANGED <<documents, chunked, files, unlinked, ids, row, hurt>>
    BY DEF StartSeed, StartSeedAmbiguous, rows, locals
  <2>4. seedings \in 0..SeedRuns BY DEF Control
  <2>5. seedings' \in 1..SeedRuns BY <2>2, <2>4
  <2> QED BY <2>1, <2>2, <2>3, <2>4, <2>5
<1>2. /\ \A a \in Actors \ {Seeder} : FileOf(a)' = FileOf(a)
      /\ FileOf(Seeder)' = <<Seeder, seedings'>>
  BY DEF FileOf
<1>3. /\ \A a \in Actors \ {Seeder} : /\ Ahead(a)' <=> Ahead(a)
                                      /\ Holds(a)' <=> Holds(a)
                                      /\ Removes(a)' <=> Removes(a)
      /\ ~Holds(Seeder)' /\ ~Removes(Seeder)' /\ ~Holds(Seeder) /\ ~Removes(Seeder)
  BY <1>1 DEF Ahead, Holds, Removes, Control
<1>4. \A r \in Requests : \A d : Deletes(r, d)' <=> Deletes(r, d)
  BY <1>1 DEF Deletes, Control
<1>5. FilesApart'
  <2>1. \A d \in DOMAIN documents, k \in 1..SeedRuns :
            documents[d].file = <<Seeder, k>> => k <= seedings
    BY DEF Filed, FilesApart
  <2>2. \A d \in DOMAIN documents : documents[d].file # FileOf(Seeder)'
    BY <1>1, <1>2, <2>1
  <2>3. \A d \in DOMAIN documents, k \in 1..SeedRuns :
            documents[d].file = <<Seeder, k>> => k <= seedings'
    BY <1>1, <2>1
  <2>4. \A d \in DOMAIN documents, a \in Actors : Ahead(a)' => documents[d].file # FileOf(a)'
    BY <1>2, <1>3, <2>2 DEF Filed, FilesApart
  <2> QED BY <1>1, <2>3, <2>4 DEF Filed, FilesApart
<1>6. FilesHeld' BY <1>1, <1>2, <1>3 DEF Filed, FilesHeld
<1>7. UnlinkedGone' BY <1>1, <1>4 DEF Filed, UnlinkedGone
<1>8. FileUntilDeleted' BY <1>1 DEF Filed, FileUntilDeleted
<1>9. Accounted' BY <1>1, <1>2, <1>3, <1>4 DEF Filed, Accounted
<1> QED BY <1>5, <1>6, <1>7, <1>8, <1>9 DEF Filed

LEMMA FiledStep ==
    ASSUME Control, References, Stored, RagScope, Filed, [Next]_vars
    PROVE  Filed'
<1> USE Constants
<1>1. ids \in [Tables -> Nat] BY DEF References
<1>2. pc[Seeder] \notin {"idle", "done"} => seedings \in 1..SeedRuns BY DEF Control
<1>3. ASSUME NEW r \in Requests, Upload(r) PROVE Filed'
  <2>1. /\ pc[r] = "idle" /\ pc' = [pc EXCEPT ![r] = "ingest"]
        /\ files' = files \cup {FileOf(r)}
        /\ UNCHANGED <<documents, chunked, unlinked, row, seed, seedings, hurt>>
    BY <1>3 DEF Upload, Goto, rows, locals, history
  <2>2. /\ Ahead(r) /\ Ahead(r)' /\ Holds(r)' /\ ~Removes(r)' /\ ~Removes(r)
        /\ \A b \in Actors \ {r} : /\ Ahead(b)' <=> Ahead(b)
                                   /\ Holds(b)' <=> Holds(b)
                                   /\ Removes(b)' <=> Removes(b)
        /\ \A q \in Requests : \A d : Deletes(q, d)' <=> Deletes(q, d)
    BY <2>1 DEF Ahead, Holds, Removes, Deletes, NewScope, Control
  <2> QED BY <1>1, <2>1, <2>2, FileAdded
<1>4. ASSUME NEW a \in Actors, NEW processed \in BOOLEAN, pc[a] = "ingest",
             documents' = Put(documents, NewId("document"),
                              Document(a, IF processed THEN "processed" ELSE "failed")),
             chunked' = IF processed THEN chunked \cup {NewId("document")} ELSE chunked,
             Taken("document"),
             pc' = [pc EXCEPT ![a] = IF processed THEN Last(a) ELSE "unlink"],
             UNCHANGED <<files, locals, history>>
      PROVE  Filed'
  <2>1. UNCHANGED <<files, unlinked, row, seed, seedings, hurt>>
    BY <1>4 DEF locals, history
  <2>2. ids'["document"] = ids["document"] + 1 BY <1>1, <1>4 DEF Taken, Tables
  <2>3. /\ Ahead(a) /\ ~Ahead(a)' /\ ~Holds(a)' /\ Holds(a) /\ ~Removes(a)
        /\ Removes(a)' <=> ~processed
        /\ \A b \in Actors \ {a} : /\ Ahead(b)' <=> Ahead(b)
                                   /\ Holds(b)' <=> Holds(b)
                                   /\ Removes(b)' <=> Removes(b)
        /\ \A r \in Requests : \A d : Deletes(r, d)' <=> Deletes(r, d)
    BY <1>4, <2>1 DEF Ahead, Holds, Removes, Deletes, NewScope, Control, Last
  <2>4. a = Seeder => seedings \in 1..SeedRuns BY <1>2, <1>4
  <2> QED BY <1>1, <1>4, <2>1, <2>2, <2>3, <2>4, FileCommitted
<1>5. ASSUME NEW a \in Actors, Ingest(a) PROVE Filed'
  BY <1>4, <1>5 DEF Ingest, Goto
<1>6. ASSUME NEW a \in Actors, IngestFails(a) PROVE Filed'
  BY <1>4, <1>6 DEF IngestFails, Goto
<1>7. CASE SeedScope
  <2>1. PICK d \in DOMAIN documents \cup {0} :
            /\ seed' = [seed EXCEPT !.scope = d]
            /\ files' = IF d = 0 THEN files \cup {FileOf(Seeder)} ELSE files
    BY <1>7 DEF SeedScope
  <2>2. /\ pc[Seeder] = "seedScope" /\ pc' = [pc EXCEPT ![Seeder] = "seedConfig"]
        /\ seed.kind = "rag" /\ seed'.kind = "rag" /\ seed'.scope = d
        /\ UNCHANGED <<documents, chunked, unlinked, row, seedings, hurt>>
    BY <1>7, <2>1 DEF SeedScope, Goto, rows, history, Control, Found, RagScope
  <2>3. /\ Ahead(Seeder) /\ Ahead(Seeder)' /\ ~Holds(Seeder)
        /\ Holds(Seeder)' <=> d = 0
        /\ ~Removes(Seeder)' /\ ~Removes(Seeder)
        /\ \A b \in Actors \ {Seeder} : /\ Ahead(b)' <=> Ahead(b)
                                        /\ Holds(b)' <=> Holds(b)
                                        /\ Removes(b)' <=> Removes(b)
        /\ \A q \in Requests : \A e : Deletes(q, e)' <=> Deletes(q, e)
    BY <2>2 DEF Ahead, Holds, Removes, Deletes, NewScope, Control
  <2>4. CASE d = 0 BY <1>1, <2>1, <2>2, <2>3, <2>4, FileAdded
  <2>5. CASE d # 0
    <3>1. Calm BY <2>1, <2>2, <2>3, <2>5 DEF Calm
    <3> QED BY <1>1, <3>1, CalmStep
  <2> QED BY <2>4, <2>5
<1>8. CASE SeedDocument
  <2>1. /\ pc[Seeder] = "seedDocument"
        /\ UNCHANGED <<documents, chunked, unlinked, row, seed, seedings, hurt>>
    BY <1>8 DEF SeedDocument, rows, locals, history
  <2>2. CASE pc' = [pc EXCEPT ![Seeder] = "ingest"] /\ files' = files \cup {FileOf(Seeder)}
    <3>1. /\ Ahead(Seeder) /\ Ahead(Seeder)' /\ Holds(Seeder)'
          /\ ~Removes(Seeder)' /\ ~Removes(Seeder)
          /\ \A b \in Actors \ {Seeder} : /\ Ahead(b)' <=> Ahead(b)
                                          /\ Holds(b)' <=> Holds(b)
                                          /\ Removes(b)' <=> Removes(b)
          /\ \A q \in Requests : \A e : Deletes(q, e)' <=> Deletes(q, e)
      BY <2>1, <2>2 DEF Ahead, Holds, Removes, Deletes, NewScope, Control
    <3> QED BY <1>1, <2>1, <2>2, <3>1, FileAdded
  <2>3. CASE pc' = [pc EXCEPT ![Seeder] = Last(Seeder)] /\ files' = files
    <3>1. Calm
      BY <2>1, <2>3 DEF Calm, Ahead, Holds, Removes, Deletes, NewScope, Control, Last
    <3> QED BY <1>1, <3>1, CalmStep
  <2> QED BY <1>8, <2>2, <2>3 DEF SeedDocument, SeedEnds, Goto
<1>9. CASE SeedCommit
  <2>1. /\ pc[Seeder] = "seedCommit"
        /\ UNCHANGED <<files, unlinked, row, seed, seedings, hurt>>
    BY <1>9 DEF SeedCommit, locals
  <2>2. CASE NewScope
    <3>1. /\ pc' = [pc EXCEPT ![Seeder] = Last(Seeder)]
          /\ documents' = Put(documents, NewId("document"), Document(Seeder, "processed"))
          /\ chunked' = chunked \cup {NewId("document")}
      BY <1>9, <2>2 DEF SeedCommit, NewScope, SeedEnds, Goto
    <3>2. ids'["document"] = ids["document"] + 1
      BY <1>1, <1>9, <2>2 DEF SeedCommit, Tables
    <3>3. /\ Ahead(Seeder) /\ ~Ahead(Seeder)' /\ ~Holds(Seeder)' /\ Holds(Seeder)
          /\ ~Removes(Seeder) /\ ~Removes(Seeder)'
          /\ \A b \in Actors \ {Seeder} : /\ Ahead(b)' <=> Ahead(b)
                                          /\ Holds(b)' <=> Holds(b)
                                          /\ Removes(b)' <=> Removes(b)
          /\ \A q \in Requests : \A d : Deletes(q, d)' <=> Deletes(q, d)
      BY <2>1, <2>2, <3>1 DEF Ahead, Holds, Removes, Deletes, NewScope, Control, Last
    <3>4. seedings \in 1..SeedRuns BY <1>2, <2>1
    <3> QED BY <1>1, <2>1, <3>1, <3>2, <3>3, <3>4, FileCommitted
  <2>3. CASE ~NewScope
    <3>1. /\ UNCHANGED <<documents, chunked>>
          /\ \E step \in {"idle", "done", "seedDocument"} : pc' = [pc EXCEPT ![Seeder] = step]
      BY <1>9, <2>3 DEF SeedCommit, SeedEnds, Last, Goto
    <3>2. Calm BY <2>1, <2>3, <3>1 DEF Calm, Ahead, Holds, Removes, Deletes, NewScope, Control
    <3> QED BY <1>1, <3>2, CalmStep
  <2> QED BY <2>2, <2>3
<1> QED BY <1>1, <1>3, <1>5, <1>6, <1>7, <1>8, <1>9, CalmSteps, CalmStep, DeletionBegins,
           DeletionCommits, FailedUnlinked, SeedingStarts

-----------------------------------------------------------------------------
(* The inductive invariant, and what follows from it. *)

CatalogInv ==
    /\ Control /\ References /\ Configured /\ Stored /\ Held
    /\ ProcessedHasChunks
    /\ Looked
    /\ Valid
    /\ SeededOnce /\ Missing
    /\ RagScope /\ Filed

LEMMA CatalogInit == Init => CatalogInv
<1> SUFFICES ASSUME Init PROVE CatalogInv OBVIOUS
<1> USE Constants
<1>1. /\ \A a \in Actors : pc[a] = "idle" /\ row[a] = 0 /\ other[a] = 0
      /\ pc = [a \in Actors |-> "idle"]
      /\ row = [a \in Actors |-> 0] /\ other = [a \in Actors |-> 0]
      /\ edit = [r \in Requests |-> NoEdit] /\ seed = NoSeed /\ seedings = 0
      /\ documents = << >> /\ chunked = {} /\ files = {} /\ unlinked = {} /\ raced = {}
  BY DEF Init
<1>2. /\ ids \in [Tables -> Nat]
      /\ ids["dataset"] = 2 /\ ids["document"] = 0
      /\ ids["case"] = 1 /\ ids["config"] = 1 /\ ids["run"] = 1
  BY DEF Init, Tables
<1>3. DOMAIN documents = {} BY <1>1
<1>4. /\ DOMAIN datasets = 1..2 /\ \A d \in DOMAIN datasets : datasets[d] = "user"
      /\ DOMAIN caseOf = {1} /\ caseOf[1] = 1
      /\ DOMAIN configs = {1} /\ configs[1] = Config("user", SeedSize, SeedOverlap, 0)
      /\ DOMAIN runOf = {1} /\ runOf[1] = [case |-> 1, config |-> 1]
  BY DEF Init
<1>5. Control
  <2>1. seed \in Found BY <1>1, <1>2 DEF NoSeed, SeedNames, Sizes, Found
  <2>2. edit \in [Requests -> Edit] BY <1>1, NoEditTyped
  <2> QED BY <1>1, <2>1, <2>2 DEF Control, Steps
<1>6. References
  <2>1. Range(datasets) \subseteq Names BY <1>4 DEF Range, Names
  <2>2. Range(caseOf) \subseteq DOMAIN datasets BY <1>4 DEF Range
  <2>3. Range(runOf) \subseteq [case : DOMAIN caseOf, config : DOMAIN configs]
    BY <1>4 DEF Range
  <2> QED BY <1>2, <1>4, <2>1, <2>2, <2>3 DEF References
<1>7. Configured BY <1>2, <1>4 DEF Configured, Config, Names, Sizes
<1>8. Stored BY <1>1, <1>3 DEF Stored, Range
<1>9. ProcessedHasChunks BY <1>1, <1>3 DEF ProcessedHasChunks
<1>10. Looked BY <1>1 DEF Looked
<1>11. Valid
  BY <1>1, <1>4 DEF Valid, Pending, ValidUnlessRaced, Config, SeedSize, SeedOverlap
<1>12. SeededOnce
  BY <1>3, <1>4 DEF SeededOnce, AtMostOne, OwnDatasets, OwnConfigs, Named, ConfigsNamed, Titled,
                    SeedNames, Config
<1>13. Missing /\ Held BY <1>1 DEF Missing, Held
<1>14. RagScope BY <1>1 DEF RagScope
<1>15. Filed
  <2>1. \A a \in Actors : ~Holds(a) /\ ~Removes(a) BY <1>1 DEF Holds, Removes
  <2>2. \A r \in Requests : \A d : ~Deletes(r, d) BY <1>1 DEF Deletes
  <2> QED BY <1>1, <1>3, <2>1, <2>2
          DEF Filed, FilesApart, FilesHeld, UnlinkedGone, FileUntilDeleted, Accounted
<1> QED BY <1>5, <1>6, <1>7, <1>8, <1>9, <1>10, <1>11, <1>12, <1>13, <1>14, <1>15 DEF CatalogInv

LEMMA CatalogNext == CatalogInv /\ [Next]_vars => CatalogInv'
<1> SUFFICES ASSUME CatalogInv, [Next]_vars PROVE CatalogInv' OBVIOUS
<1> USE DEF CatalogInv
<1>1. seed.kind \in SeedNames /\ \A r \in Requests : edit[r].name \in Names
  BY DEF Control, Found, Edit
<1>2. Control' /\ References' /\ Configured' /\ Stored' /\ Held'
  BY <1>1, ControlStep, ReferencesStep, ConfiguredStep, StoredStep, HeldStep
<1>3. ProcessedHasChunks' BY ChunkedStep
<1>4. Looked' BY LookedStep
<1>5. Valid' BY ValidStep
<1>6. SeededOnce' /\ Missing' BY SeedStep
<1>7. RagScope' /\ Filed' BY RagScopeStep, FiledStep
<1> QED BY <1>2, <1>3, <1>4, <1>5, <1>6, <1>7

LEMMA CatalogInductive == Spec => []CatalogInv
BY CatalogInit, CatalogNext, PTL DEF Spec

\* Whatever requests, seedings, crashes and refused commits interleave, every
\* row refers to rows that exist (the foreign keys with the cascades of
\* dataset_delete.py and query_case_delete.py), every id was given out once and
\* every document names a file of the upload directory.
THEOREM CatalogTypeCorrect == Spec => []TypeOK
<1>1. CatalogInv => TypeOK
  <2> SUFFICES ASSUME CatalogInv PROVE TypeOK OBVIOUS
  <2>1. \A k \in DOMAIN configs :
            /\ configs[k].name \in Names
            /\ {configs[k].size, configs[k].overlap} \subseteq Sizes
            /\ configs[k].scope \in 0..ids["document"]
    BY DEF CatalogInv, Configured
  <2> QED BY <2>1 DEF CatalogInv, Control, References, Stored, Edit, TypeOK
<1> QED BY <1>1, CatalogInductive, PTL

\* A document is "processed" exactly when its chunks are stored: the status, the
\* chunks and the row of text_document_ingest.py share one transaction, and the
\* deletion of documents.py cascades.
THEOREM ChunksBackStatus == Spec => []ProcessedHasChunks
<1>1. CatalogInv => ProcessedHasChunks BY DEF CatalogInv
<1> QED BY <1>1, CatalogInductive, PTL

\* A guarded deletion (dataset_delete.py, query_case_delete.py) takes along only
\* the runs and query cases that came below its row after it had looked for
\* children.
THEOREM DeletionsLoseOnlyLate == Spec => LosesOnlyLate
<1>1. CatalogInv /\ [Next]_vars =>
          [/\ \A x \in DOMAIN runOf \ DOMAIN runOf' : <<"run", x>> \in late
           /\ \A c \in DOMAIN caseOf \ DOMAIN caseOf' :
                  <<"case", c>> \in late \/ \E r \in Requests : pc[r] = "dropCase" /\ row[r] = c]_vars
  BY LoseStep DEF CatalogInv
<1> QED BY <1>1, CatalogInductive, PTL DEF Spec, LosesOnlyLate

\* The overlap check of a PATCH is made on the row as read and only the changed
\* columns are written: a configuration can become invalid only where two sessions
\* had read it when one of them wrote.
THEOREM PatchesStayValid == Spec => []ValidUnlessRaced
<1>1. CatalogInv => ValidUnlessRaced BY DEF CatalogInv, Valid
<1> QED BY <1>1, CatalogInductive, PTL

\* The seed scripts (benchmark_seed.py, benchmark_rag_systems_seed.py), started any
\* number of times, stopped anywhere and interleaved with requests that create rows
\* of any name or rename them, add at most one dataset and one configuration of each
\* of their names and keep at most one processed document of it; whatever else bears
\* the name has it from a request.
THEOREM SeedsOnce == Spec => []SeedIdempotent
<1>1. CatalogInv => SeedIdempotent
  BY AtMostOneCounts DEF CatalogInv, SeededOnce, OwnDatasets, OwnConfigs, SeedIdempotent
<1> QED BY <1>1, CatalogInductive, PTL

\* No handler and no script removes the file of a processed document before the
\* deletion of that document begins (documents.py, text_document_ingest.py).
THEOREM FilesUntilDeleted == Spec => []FileUntilDeleted
<1>1. CatalogInv => FileUntilDeleted BY DEF CatalogInv, Filed
<1> QED BY <1>1, CatalogInductive, PTL

\* Once every handler has ended, none of them by a death or a refused commit, the
\* upload directory holds the files of the processed documents and no other.
THEOREM FilesAccounted == Spec => []NoLostFiles
<1>1. CatalogInv => NoLostFiles
  <2> SUFFICES ASSUME CatalogInv, \A a \in Actors : pc[a] = "done", ~hurt
               PROVE  files = {documents[d].file : d \in chunked}
    BY DEF NoLostFiles
  <2>1. /\ \A a \in Actors : ~Holds(a) /\ ~Removes(a)
        /\ \A r \in Requests : \A d : ~Deletes(r, d)
    BY Constants DEF Holds, Removes, Deletes
  <2>2. chunked \cap unlinked = {} BY <2>1 DEF CatalogInv, Filed, Accounted
  <2>3. \A d \in chunked : documents[d].file \in files
    BY <2>2 DEF CatalogInv, Filed, FileUntilDeleted
  <2>4. \A f \in files : \E d \in chunked : documents[d].file = f
    BY <2>1 DEF CatalogInv, Filed, Accounted
  <2> QED BY <2>3, <2>4
<1> QED BY <1>1, CatalogInductive, PTL
=============================================================================

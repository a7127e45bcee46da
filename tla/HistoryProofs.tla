--------------------------- MODULE HistoryProofs ---------------------------
(***************************************************************************)
(* Theorems about History, for any number of installers and runs and as   *)
(* many lost connections: what the ledger records is there, an install    *)
(* fails only for a cause, and a run is stored whole or not at all.        *)
(***************************************************************************)
EXTENDS Comparison, TLAPS

-----------------------------------------------------------------------------
(* The schema.                                                             *)

LEMMA Numbers ==
    /\ Len(Migrations) = 4
    /\ Versions = 1 .. 4
    /\ \A v \in Versions : /\ Len(Migrations[v]) \in Nat
                           /\ FirstStatement(v) \in 1 .. Len(Migrations[v])
    /\ FirstStatement(1) = 2
    /\ \A v \in Versions : v # 1 => FirstStatement(v) = 1
    /\ Migrations[1][1] = "schema_version"
<1>1. Len(Migrations) = 4
  BY DEF Migrations
<1>2. Versions = 1 .. 4
  BY <1>1 DEF Versions
<1>3. Len(Migrations[1]) = 4 /\ Len(Migrations[2]) = 3 /\ Len(Migrations[3]) = 1
      /\ Len(Migrations[4]) = 1
  BY DEF Migrations
<1>4. \A v \in 1 .. 4 : v = 1 \/ v = 2 \/ v = 3 \/ v = 4
  OBVIOUS
<1>5. Migrations[1][1] = "schema_version"
  BY DEF Migrations
<1>6. ASSUME NEW v \in Versions
      PROVE  Len(Migrations[v]) \in Nat /\ FirstStatement(v) \in 1 .. Len(Migrations[v])
  <2>1. CASE v = 1
    BY <1>3, <2>1 DEF FirstStatement
  <2>2. CASE v # 1
    <3>1. FirstStatement(v) = 1
      BY <2>2 DEF FirstStatement
    <3>2. Len(Migrations[v]) = 3 \/ Len(Migrations[v]) = 1
      BY <1>2, <1>3, <1>4, <2>2
    <3> QED
      BY <3>1, <3>2
  <2> QED
    BY <2>1, <2>2
<1> QED
  BY <1>1, <1>2, <1>5, <1>6 DEF FirstStatement

\* A statement finds what it needs once all before it are carried out.
LEMMA Dependencies ==
    ASSUME NEW v \in Versions, NEW n \in 1 .. Len(Migrations[v]), NEW done,
           \A w \in 1 .. (v - 1) : StatementsOf(w) \subseteq done,
           \A m \in 1 .. (n - 1) : Migrations[v][m] \in done
    PROVE  Requires(Migrations[v][n]) \subseteq done
<1>1. v = 1 \/ v = 2 \/ v = 3 \/ v = 4
  BY Numbers
<1>2. CASE v = 1
  <2>1. n = 1 \/ n = 2 \/ n = 3 \/ n = 4
    BY <1>2 DEF Migrations
  <2>2. Migrations[1] = <<"schema_version", "scan_run", "scan_target", "scan_finding">>
    BY DEF Migrations
  <2>3. n > 2 => "scan_run" \in done
    BY <1>2, <2>2
  <2>4. n > 3 => "scan_target" \in done
    BY <1>2, <2>2
  <2> QED
    BY <1>2, <2>1, <2>2, <2>3, <2>4 DEF Requires
<1>3. CASE v # 1
  <2>1. StatementsOf(1) \subseteq done
    BY <1>1, <1>3
  <2>2. "scan_run" \in done /\ "scan_target" \in done
    <3>1. Migrations[1] = <<"schema_version", "scan_run", "scan_target", "scan_finding">>
      BY DEF Migrations
    <3>2. Migrations[1][2] \in StatementsOf(1) /\ Migrations[1][3] \in StatementsOf(1)
      BY <3>1 DEF StatementsOf
    <3> QED
      BY <2>1, <3>1, <3>2
  <2> QED
    BY <2>2 DEF Requires
<1> QED
  BY <1>2, <1>3

LEMMA Contained ==
    /\ \A s : \A v \in Nat : SchemaOf(v) \subseteq s <=> \A w \in 1 .. v : StatementsOf(w) \subseteq s
    /\ \A v \in Versions : \A n \in 1 .. Len(Migrations[v]) :
         /\ Migrations[v][n] \in StatementsOf(v)
         /\ Migrations[v][n] \in Schema
    /\ \A s : \A v \in Versions : StatementsOf(v) \subseteq s <=>
         \A n \in 1 .. Len(Migrations[v]) : Migrations[v][n] \in s
<1>1. \A s : \A v \in Nat : SchemaOf(v) \subseteq s <=>
        \A w \in 1 .. v : StatementsOf(w) \subseteq s
  BY DEF SchemaOf
<1>2. \A v \in Versions : \A n \in 1 .. Len(Migrations[v]) :
        /\ Migrations[v][n] \in StatementsOf(v)
        /\ Migrations[v][n] \in Schema
  BY Numbers DEF StatementsOf, Schema, SchemaOf
<1>3. \A s : \A v \in Versions : StatementsOf(v) \subseteq s <=>
        \A n \in 1 .. Len(Migrations[v]) : Migrations[v][n] \in s
  BY DEF StatementsOf
<1> QED
  BY <1>1, <1>2, <1>3

-----------------------------------------------------------------------------
(* Saves.                                                                  *)

LEMMA RowsAreCounted ==
    \A r \in Runs \cup OldRuns : RowCount(r) \in Nat /\ RowCount(r) = Len(Targets[r]) + 2
                                 /\ RowCount(r) > 1 /\ Len(Targets[r]) \in Nat
  BY HistoryAssumption DEF HistoryAssumption, RowCount

LEMMA SaveInit == InitDb => SaveInv
<1> SUFFICES ASSUME InitDb PROVE SaveInv
  OBVIOUS
<1>1. PICK v \in 0 .. Len(Migrations) :
        stored = [r \in Runs \cup OldRuns |->
                    IF r \in OldRuns /\ v > 0 THEN RowCount(r) - 1 ELSE 0]
  BY DEF InitDb
<1>2. saver = [r \in Runs |-> [at |-> "idle", rows |-> 0]] /\ exported = {}
  BY DEF InitDb
<1>3. SaveTypes
  <2>1. \A r \in Runs \cup OldRuns : stored[r] \in Nat
    BY <1>1, RowsAreCounted
  <2> QED
    BY <1>1, <1>2, <2>1 DEF SaveTypes
<1>4. \A r \in OldRuns : stored[r] # RowCount(r)
  BY <1>1, RowsAreCounted
<1>5. RunsAreWhole
  BY <1>1, <1>2, HistoryAssumption DEF RunsAreWhole, HistoryAssumption
<1> QED
  BY <1>2, <1>3, <1>4, <1>5 DEF SaveInv

\* A step of one save that leaves what other connections see.
LEMMA SaveMoves ==
    ASSUME SaveInv, NEW r \in Runs, NEW at \in {"idle", "targets", "commit", "failed"},
           NEW rows \in Nat, Step(r, at, rows), UNCHANGED <<stored, exported>>,
           saver[r].at # "saved",
           at = "targets" => rows \in 1 .. (Len(Targets[r]) + 1),
           at = "commit" => rows = RowCount(r),
           at # "idle"
    PROVE  SaveInv'
<1> USE DEF Step
<1>1. saver' = [saver EXCEPT ![r] = [at |-> at, rows |-> rows]]
  OBVIOUS
<1>2. SaveTypes'
  BY <1>1 DEF SaveInv, SaveTypes
<1>3. \A q \in Runs : saver'[q] = IF q = r THEN [at |-> at, rows |-> rows] ELSE saver[q]
  BY <1>1 DEF SaveInv, SaveTypes
<1>4. (\A q \in Runs :
        /\ saver[q].at = "idle" => saver[q].rows = 0
        /\ saver[q].at = "targets" => saver[q].rows \in 1 .. (Len(Targets[q]) + 1)
        /\ saver[q].at = "commit" => saver[q].rows = RowCount(q))'
  BY <1>3 DEF SaveInv, RowCount
<1>5. RunsAreWhole'
  BY <1>3 DEF SaveInv, RunsAreWhole, RowCount
<1>6. (\A q \in OldRuns : stored[q] # RowCount(q))'
  BY DEF SaveInv, RowCount
<1> QED
  BY <1>2, <1>4, <1>5, <1>6 DEF SaveInv

LEMMA SaveStep == SaveInv /\ [NextDb]_dbVars => SaveInv'
<1> SUFFICES ASSUME SaveInv, [NextDb]_dbVars PROVE SaveInv'
  OBVIOUS
<1>0. ASSUME UNCHANGED <<saver, stored, exported>> PROVE SaveInv'
  BY <1>0 DEF SaveInv, SaveTypes, RunsAreWhole, RowCount
<1>1. ASSUME NEW i \in Installers, InstallStep(i) \/ Fault(i) \/ Rerun(i)
      PROVE  SaveInv'
  BY <1>0, <1>1 DEF InstallStep, Open, Look, Apply, Record, Commit, Fault, Rerun
<1>2. ASSUME NEW r \in Runs, Abandon(r), saver[r].at # "saved", UNCHANGED <<stored, exported>>
      PROVE  SaveInv'
  BY <1>2, SaveMoves DEF Abandon
<1>3. ASSUME NEW r \in Runs, SaveRun(r) PROVE SaveInv'
  <2>1. saver[r].at = "idle" /\ UNCHANGED <<stored, exported>> /\ saver[r].rows = 0
    BY <1>3 DEF SaveRun, Insert, SaveInv
  <2>2. Abandon(r) \/ Step(r, "targets", saver[r].rows + 1)
    BY <1>3 DEF SaveRun, Insert
  <2>3. CASE Abandon(r)
    BY <1>2, <2>1, <2>3
  <2>4. CASE Step(r, "targets", saver[r].rows + 1)
    <3>1. 1 \in 1 .. (Len(Targets[r]) + 1) /\ saver[r].rows + 1 = 1
      BY <2>1, RowsAreCounted
    <3> QED
      BY <2>1, <2>4, <3>1, SaveMoves
  <2> QED
    BY <2>2, <2>3, <2>4
<1>4. ASSUME NEW r \in Runs, SaveTarget(r) PROVE SaveInv'
  <2>1. /\ saver[r].at = "targets" /\ UNCHANGED <<stored, exported>>
        /\ saver[r].rows <= Len(Targets[r])
    BY <1>4 DEF SaveTarget, Insert
  <2>2. Abandon(r) \/ Step(r, "targets", saver[r].rows + 1)
    BY <1>4 DEF SaveTarget, Insert
  <2>3. saver[r].rows \in 1 .. (Len(Targets[r]) + 1) /\ Len(Targets[r]) \in Nat
    BY <2>1, RowsAreCounted DEF SaveInv
  <2>4. saver[r].rows + 1 \in 1 .. (Len(Targets[r]) + 1) /\ saver[r].rows + 1 \in Nat
    BY <2>1, <2>3
  <2>5. CASE Abandon(r)
    BY <1>2, <2>1, <2>5
  <2>6. CASE Step(r, "targets", saver[r].rows + 1)
    BY <2>1, <2>4, <2>6, SaveMoves
  <2> QED
    BY <2>2, <2>5, <2>6
<1>5. ASSUME NEW r \in Runs, SaveArchive(r) PROVE SaveInv'
  <2>1. /\ saver[r].at = "targets" /\ UNCHANGED <<stored, exported>>
        /\ saver[r].rows > Len(Targets[r])
    BY <1>5 DEF SaveArchive, Insert
  <2>2. Abandon(r) \/ Step(r, "commit", saver[r].rows + 1)
    BY <1>5 DEF SaveArchive, Insert
  <2>3. saver[r].rows \in 1 .. (Len(Targets[r]) + 1) /\ Len(Targets[r]) \in Nat
    BY <2>1, RowsAreCounted DEF SaveInv
  <2>4. saver[r].rows + 1 = RowCount(r) /\ saver[r].rows + 1 \in Nat
    BY <2>1, <2>3 DEF RowCount
  <2>5. CASE Abandon(r)
    BY <1>2, <2>1, <2>5
  <2>6. CASE Step(r, "commit", saver[r].rows + 1)
    BY <2>1, <2>4, <2>6, SaveMoves
  <2> QED
    BY <2>2, <2>5, <2>6
<1>6. ASSUME NEW r \in Runs, SaveFault(r) PROVE SaveInv'
  BY <1>2, <1>6 DEF SaveFault
<1>7. ASSUME NEW r \in Runs, SaveCommit(r) PROVE SaveInv'
  <2>1. /\ stored' = [stored EXCEPT ![r] = saver[r].rows]
        /\ saver' = [saver EXCEPT ![r] = [at |-> "saved", rows |-> 0]]
        /\ saver[r].at = "commit" /\ UNCHANGED exported
    BY <1>7 DEF SaveCommit, Step
  <2>2. saver[r].rows = RowCount(r)
    BY <2>1 DEF SaveInv
  <2>3. SaveTypes'
    BY <2>1 DEF SaveInv, SaveTypes
  <2>4. /\ \A q \in Runs : saver'[q] = IF q = r THEN [at |-> "saved", rows |-> 0] ELSE saver[q]
        /\ \A q \in Runs \cup OldRuns : stored'[q] = IF q = r THEN RowCount(r) ELSE stored[q]
    BY <2>1, <2>2 DEF SaveInv, SaveTypes
  <2>5. (\A q \in Runs :
          /\ saver[q].at = "idle" => saver[q].rows = 0
          /\ saver[q].at = "targets" => saver[q].rows \in 1 .. (Len(Targets[q]) + 1)
          /\ saver[q].at = "commit" => saver[q].rows = RowCount(q))'
    BY <2>4 DEF SaveInv, RowCount
  <2>6. (\A q \in OldRuns : stored[q] # RowCount(q))'
    BY <2>4, HistoryAssumption DEF SaveInv, RowCount, HistoryAssumption
  <2>7. RunsAreWhole'
    BY <2>1, <2>4 DEF SaveInv, SaveTypes, RunsAreWhole, RowCount
  <2> QED
    BY <2>3, <2>5, <2>6, <2>7 DEF SaveInv
<1>8. ASSUME NEW r \in Runs \cup OldRuns, Export(r) PROVE SaveInv'
  <2>1. /\ UNCHANGED <<saver, stored>> /\ exported' = exported \cup {r}
        /\ stored[r] = RowCount(r)
    BY <1>8 DEF Export
  <2>2. r \in Runs
    BY <2>1 DEF SaveInv
  <2> QED
    BY <2>1, <2>2 DEF SaveInv, SaveTypes, RunsAreWhole, RowCount
<1>9. CASE UNCHANGED dbVars
  BY <1>0, <1>9 DEF dbVars
<1> QED
  BY <1>1, <1>3, <1>4, <1>5, <1>6, <1>7, <1>8, <1>9 DEF NextDb

\* storage.py:226: other connections see all rows of a run or none, and only
\* what has an archive is exported.
THEOREM WholeRuns == Spec => []RunsAreWhole
<1>1. Init => SaveInv
  BY SaveInit DEF Init
<1>2. SaveInv /\ [Next]_vars => SaveInv'
  <2>1. [Next]_vars => [NextDb]_dbVars
    BY DEF Next, vars, Compare, dbVars
  <2> QED
    BY <2>1, SaveStep
<1>3. SaveInv => RunsAreWhole
  BY DEF SaveInv
<1> QED
  BY <1>1, <1>2, <1>3, PTL DEF Spec

-----------------------------------------------------------------------------
(* Installations.                                                          *)

\* What the ledger says of a version it has.
LEMMA Behind ==
    ASSUME TypeOK, LedgerInv, NEW i \in Installers, Mine(i), NEW v \in Versions, Ours(i, v)
    PROVE  SchemaOf(v) \subseteq schema
  BY HistoryAssumption DEF LedgerInv, Mine, Ours, HistoryAssumption

LEMMA InstallInit == InitDb => InstallInv
<1> SUFFICES ASSUME InitDb PROVE InstallInv
  OBVIOUS
<1>1. PICK v \in 0 .. Len(Migrations), foreign \in Versions \cup {None} :
        /\ schema = SchemaOf(v)
        /\ ledger = [w \in Versions |-> IF w > v THEN None
                                        ELSE IF w = foreign THEN "foreign" ELSE "ours"]
        /\ stored = [r \in Runs \cup OldRuns |->
                        IF r \in OldRuns /\ v > 0 THEN RowCount(r) - 1 ELSE 0]
  BY DEF InitDb
<1>2. \A i \in Installers : installer[i] = Fresh
  BY DEF InitDb
<1>3. v \in Nat /\ \A w \in Versions : w \in Nat /\ w <= 4 /\ w >= 1
  BY Numbers
<1>4. schema \subseteq Schema
  <2>1. \A w \in 1 .. v : w \in Versions
    BY DEF Versions
  <2> QED
    BY <1>1, <2>1 DEF Schema, SchemaOf, Versions
<1>5. TypeOK
  <2>1. Fresh \in InstallerStates
    BY Numbers DEF Fresh, InstallerStates
  <2>2. installer \in [Installers -> InstallerStates]
    BY <2>1 DEF InitDb
  <2>3. SaveTypes
    BY SaveInit DEF SaveInv
  <2>4. ledger \in [Versions -> {None, "ours", "foreign"}]
    BY <1>1
  <2>5. faults \in 0 .. MaxFaults
    BY HistoryAssumption DEF InitDb, HistoryAssumption
  <2> QED
    BY <1>4, <2>2, <2>3, <2>4, <2>5 DEF TypeOK
<1>6. LedgerInv
  <2> SUFFICES ASSUME NEW w \in Versions, ledger[w] # None
               PROVE  SchemaOf(w) \subseteq schema /\ \A x \in 1 .. w : ledger[x] # None
    BY DEF LedgerInv
  <2>1. w <= v /\ w \in Nat
    BY <1>1, <1>3
  <2>2. \A x \in 1 .. w : x \in 1 .. v /\ x \in Versions /\ ~(x > v)
    BY <1>3, <2>1, Numbers
  <2>3. SchemaOf(w) \subseteq schema
    BY <1>1, <2>2 DEF SchemaOf
  <2>4. \A x \in 1 .. w : ledger[x] # None
    BY <1>1, <2>2, HistoryAssumption DEF HistoryAssumption
  <2> QED
    BY <2>3, <2>4
<1>7. NobodyElses
  BY <1>2 DEF NobodyElses, Fresh
<1>8. ASSUME NEW i \in Installers PROVE Mine(i) /\ ViewHolds(i) /\ Stage(i)
  BY <1>2 DEF Mine, ViewHolds, Stage, InRun, Fresh
<1> QED
  BY <1>5, <1>6, <1>7, <1>8 DEF InstallInv

\* A step of one installer that keeps what the ledger and the schema hold, and
\* records nothing that another one has recorded, leaves the others alone.
Onwards ==
    /\ schema \subseteq schema'
    /\ \A v \in Versions : ledger[v] # None => ledger'[v] = ledger[v]

LEMMA OthersStay ==
    ASSUME InstallInv, Onwards, NEW j \in Installers, installer'[j] = installer[j],
           \A v \in installer[j].mine : ledger'[v] = None
    PROVE  (Mine(j) /\ ViewHolds(j) /\ Stage(j))'
<1>1. Mine(j) /\ ViewHolds(j) /\ Stage(j) /\ installer[j] \in InstallerStates
  BY DEF InstallInv, TypeOK
<1>2. "ours" # None /\ "foreign" # None
  BY HistoryAssumption DEF HistoryAssumption
<1>3. \A v \in Versions : Ours(j, v) => Ours(j, v)'
  BY <1>2 DEF Ours, Onwards
<1>4. installer[j].mine \subseteq Versions /\ installer[j].version \in Versions
  BY <1>1 DEF InstallerStates
<1>5. \A v \in Versions : \A w \in 1 .. v : w \in Versions
  BY Numbers
<1>6. \A v \in Versions : \A w \in 1 .. (v - 1) : w \in Versions
  BY Numbers
<1>7. Mine(j)'
  BY <1>1, <1>3, <1>4, <1>5 DEF Mine, Onwards
<1>8. ViewHolds(j)'
  BY <1>1, <1>2, <1>3 DEF ViewHolds, Onwards
<1>9. Stage(j)'
  <2>1. (installer[j].at \in {"look", "apply", "record"} =>
            \A w \in 1 .. (installer[j].version - 1) : Ours(j, w))'
    BY <1>1, <1>3, <1>4, <1>6 DEF Stage
  <2>2. (installer[j].at = "commit" => \A v \in Versions : Ours(j, v))'
    BY <1>1, <1>3 DEF Stage
  <2>3. (installer[j].at = "done" => \A v \in Versions : ledger[v] = "ours")'
    BY <1>1, <1>2 DEF Stage, Onwards
  <2>4. (installer[j].at = "apply" =>
          /\ installer[j].next \in 1 .. Len(Migrations[installer[j].version])
          /\ \A n \in 1 .. (installer[j].next - 1) :
                Migrations[installer[j].version][n] \in schema)'
    BY <1>1 DEF Stage, Onwards
  <2>5. (installer[j].at = "record" => StatementsOf(installer[j].version) \subseteq schema)'
    BY <1>1 DEF Stage, Onwards
  <2>6. (/\ ~InRun(j) => installer[j].mine = {} /\ installer[j].view = None
         /\ InRun(j) => "schema_version" \in schema
         /\ installer[j].at = "idle" => installer[j].version = 1)'
    BY <1>1 DEF Stage, Onwards, InRun
  <2> QED
    BY <2>1, <2>2, <2>3, <2>4, <2>5, <2>6 DEF Stage
<1> QED
  BY <1>7, <1>8, <1>9

\* The step of installer i keeps the invariant if it does so for i itself.
LEMMA OneMoves ==
    ASSUME InstallInv, Onwards, SaveTypes', NEW i \in Installers, NEW record \in InstallerStates,
           Move(i, record), LedgerInv', (Mine(i) /\ ViewHolds(i) /\ Stage(i))',
           schema' \subseteq Schema, ledger' \in [Versions -> {None, "ours", "foreign"}],
           faults' \in 0 .. MaxFaults,
           \A j \in Installers \ {i} : \A v \in installer[j].mine :
                ledger'[v] = None /\ v \notin record.mine
    PROVE  InstallInv'
<1>1. installer' \in [Installers -> InstallerStates]
  BY DEF Move, InstallInv, TypeOK
<1>2. \A j \in Installers : installer'[j] = IF j = i THEN record ELSE installer[j]
  BY DEF Move, InstallInv, TypeOK
<1>3. TypeOK'
  BY <1>1 DEF TypeOK
<1>4. NobodyElses'
  BY <1>2 DEF InstallInv, NobodyElses
<1>5. ASSUME NEW j \in Installers PROVE (Mine(j) /\ ViewHolds(j) /\ Stage(j))'
  <2>1. CASE j = i
    BY <2>1
  <2>2. CASE j # i
    <3>1. installer'[j] = installer[j] /\ \A v \in installer[j].mine : ledger'[v] = None
      BY <1>2, <2>2
    <3> QED
      BY <3>1, OthersStay
  <2> QED
    BY <2>1, <2>2
<1> QED
  BY <1>3, <1>4, <1>5 DEF InstallInv

\* Committing what installer i has recorded.
LEMMA MergedKeeps ==
    ASSUME InstallInv, NEW i \in Installers, ledger' = Merged(i), schema \subseteq schema'
    PROVE  /\ Onwards
           /\ LedgerInv'
           /\ ledger' \in [Versions -> {None, "ours", "foreign"}]
           /\ \A v \in Versions : Ours(i, v) => ledger'[v] = "ours"
           /\ \A j \in Installers \ {i} : \A v \in installer[j].mine : ledger'[v] = None
<1>1. \A v \in Versions : ledger'[v] = IF v \in installer[i].mine THEN "ours" ELSE ledger[v]
  BY DEF Merged
<1>2. /\ TypeOK /\ LedgerInv /\ NobodyElses
      /\ \A j \in Installers : Mine(j) /\ installer[j].mine \subseteq Versions
  BY DEF InstallInv, TypeOK, InstallerStates
<1>3. ledger' \in [Versions -> {None, "ours", "foreign"}]
  BY <1>2 DEF TypeOK, Merged
<1>4. Onwards
  BY <1>1, <1>2 DEF Onwards, Mine
<1>5. \A v \in Versions : Ours(i, v) => ledger'[v] = "ours"
  BY <1>1 DEF Ours
<1>6. "ours" # None
  BY HistoryAssumption DEF HistoryAssumption
<1>7. LedgerInv'
  <2> SUFFICES ASSUME NEW v \in Versions, ledger'[v] # None
               PROVE  SchemaOf(v) \subseteq schema' /\ \A w \in 1 .. v : ledger'[w] # None
    BY DEF LedgerInv
  <2>1. \A w \in 1 .. v : w \in Versions
    BY Numbers
  <2>2. CASE v \in installer[i].mine
    BY <1>2, <1>5, <1>6, <2>1, <2>2 DEF Mine
  <2>3. CASE v \notin installer[i].mine
    <3>1. ledger[v] # None
      BY <1>1, <2>3
    <3>2. SchemaOf(v) \subseteq schema /\ \A w \in 1 .. v : ledger[w] # None
      BY <1>2, <3>1 DEF LedgerInv
    <3> QED
      BY <1>4, <2>1, <3>2 DEF Onwards
  <2> QED
    BY <2>2, <2>3
<1>8. \A j \in Installers \ {i} : \A v \in installer[j].mine : ledger'[v] = None
  BY <1>1, <1>2 DEF NobodyElses, Mine
<1> QED
  BY <1>3, <1>4, <1>5, <1>7, <1>8

\* A step that only moves installer i.
LEMMA OnlyMoves ==
    ASSUME InstallInv, UNCHANGED <<schema, ledger, saver, stored, exported>>,
           faults' \in 0 .. MaxFaults,
           NEW i \in Installers, NEW record \in InstallerStates, Move(i, record),
           (Mine(i) /\ ViewHolds(i) /\ Stage(i))',
           \A j \in Installers \ {i} : installer[j].mine \cap record.mine = {}
    PROVE  InstallInv' /\ Onwards
<1>1. Onwards
  BY DEF Onwards
<1>2. SaveTypes' /\ LedgerInv'
  BY DEF InstallInv, TypeOK, SaveTypes, LedgerInv
<1>3. /\ schema' \subseteq Schema
      /\ ledger' \in [Versions -> {None, "ours", "foreign"}]
  BY DEF InstallInv, TypeOK
<1>4. \A j \in Installers \ {i} : \A v \in installer[j].mine :
          ledger'[v] = None /\ v \notin record.mine
  BY DEF InstallInv, Mine
<1> QED
  BY <1>1, <1>2, <1>3, <1>4, OneMoves

\* An installer that has failed, or starts again.
LEMMA Restarts ==
    ASSUME NEW i \in Installers, installer \in [Installers -> InstallerStates],
           NEW at \in {"idle", "failed"}, Move(i, [Fresh EXCEPT !.at = at])
    PROVE  /\ (Mine(i) /\ ViewHolds(i) /\ Stage(i))'
           /\ [Fresh EXCEPT !.at = at] \in InstallerStates
           /\ [Fresh EXCEPT !.at = at].mine = {}
<1>1. installer'[i] = [at |-> at, version |-> 1, next |-> 1, view |-> None, mine |-> {}]
  BY DEF Move, Fresh
<1>2. [Fresh EXCEPT !.at = at] \in InstallerStates
  BY Numbers DEF Fresh, InstallerStates
<1> QED
  BY <1>1, <1>2 DEF Mine, ViewHolds, Stage, InRun, Fresh

LEMMA RestartStep ==
    ASSUME InstallInv, NEW i \in Installers, Fault(i) \/ Rerun(i)
    PROVE  InstallInv' /\ Onwards
<1>1. PICK at \in {"idle", "failed"} : Move(i, [Fresh EXCEPT !.at = at])
  BY DEF Fault, Rerun, GiveUp, Fresh
<1>2. faults' \in 0 .. MaxFaults
  BY HistoryAssumption DEF Fault, Rerun, InstallInv, TypeOK, HistoryAssumption
<1>3. UNCHANGED <<schema, ledger, saver, stored, exported>>
  BY DEF Fault, Rerun
<1>4. installer \in [Installers -> InstallerStates]
  BY DEF InstallInv, TypeOK
<1> QED
  BY <1>1, <1>2, <1>3, <1>4, Restarts, OnlyMoves

LEMMA OpenStep ==
    ASSUME InstallInv, NEW i \in Installers, Open(i)
    PROVE  InstallInv' /\ Onwards
<1> DEFINE self == installer[i]
           record == [self EXCEPT !.at = "look"]
<1>1. /\ self.at = "idle" /\ self \in InstallerStates
      /\ self.mine = {} /\ self.view = None /\ self.version = 1
  BY DEF Open, InstallInv, TypeOK, Stage, InRun
<1>2. installer' = [installer EXCEPT ![i] = record] /\ schema' = schema \cup {"schema_version"}
      /\ UNCHANGED <<ledger, saver, stored, exported, faults>>
  BY DEF Open, Move
<1>3. installer'[i] = record /\ record \in InstallerStates
  BY <1>1, <1>2 DEF InstallInv, TypeOK, InstallerStates
<1>4. /\ record.at = "look" /\ record.mine = {} /\ record.view = None /\ record.version = 1
  BY <1>1 DEF InstallerStates
<1>5. Onwards
  BY <1>2 DEF Onwards
<1>6. SaveTypes' /\ LedgerInv'
  BY <1>2 DEF InstallInv, TypeOK, SaveTypes, LedgerInv
<1>7. schema' \subseteq Schema
  <2>1. 1 \in Versions /\ 1 \in 1 .. Len(Migrations[1])
    BY Numbers
  <2>2. Migrations[1][1] \in Schema
    BY <2>1, Contained
  <2> QED
    BY <1>2, <2>2, Numbers DEF InstallInv, TypeOK
<1>8. (Mine(i) /\ ViewHolds(i) /\ Stage(i))'
  <2>1. \A w \in 1 .. (record.version - 1) : FALSE
    BY <1>4
  <2> HIDE DEF record
  <2> QED
    BY <1>2, <1>3, <1>4, <2>1 DEF Mine, ViewHolds, Stage, InRun
<1>9. \A j \in Installers \ {i} : \A v \in installer[j].mine : ledger'[v] = None /\ v \notin record.mine
  BY <1>2, <1>4 DEF InstallInv, Mine
<1>10. /\ ledger' \in [Versions -> {None, "ours", "foreign"}] /\ faults' \in 0 .. MaxFaults
  BY <1>2 DEF InstallInv, TypeOK
<1>11. Move(i, record)
  BY <1>2 DEF Move
<1> HIDE DEF record, self
<1> QED
  BY <1>3, <1>5, <1>6, <1>7, <1>8, <1>9, <1>10, <1>11, OneMoves

\* Going on to the next version: the versions so far are recorded.
LEMMA AfterHolds ==
    ASSUME NEW self \in InstallerStates, self.at \in {"look", "record"}
    PROVE  /\ After(self) \in InstallerStates
           /\ After(self).mine = self.mine /\ After(self).view = self.view
           /\ \/ After(self).at = "commit" /\ self.version = 4
              \/ /\ After(self).at = "look" /\ self.version # 4
                 /\ After(self).version = self.version + 1
<1>1. self.version \in 1 .. 4
  BY Numbers DEF InstallerStates
<1>2. CASE self.version = 4
  <2>1. After(self) = [self EXCEPT !.at = "commit"]
    BY <1>2, Numbers DEF After
  <2> QED
    BY <1>2, <2>1 DEF InstallerStates
<1>3. CASE self.version # 4
  <2>1. After(self) = [self EXCEPT !.at = "look", !.version = @ + 1]
    BY <1>3, Numbers DEF After
  <2>2. self.version + 1 \in Versions
    BY <1>1, <1>3, Numbers
  <2> QED
    BY <1>3, <2>1, <2>2 DEF InstallerStates
<1> QED
  BY <1>2, <1>3

LEMMA AfterStage ==
    ASSUME NEW i \in Installers, NEW self \in InstallerStates, self.at \in {"look", "record"},
           installer'[i] = After(self), "schema_version" \in schema',
           \A w \in 1 .. self.version : Ours(i, w)'
    PROVE  Stage(i)'
<1>1. /\ self.version \in 1 .. 4 /\ Versions = 1 .. 4
  BY Numbers DEF InstallerStates
<1>2. CASE After(self).at = "commit" /\ self.version = 4
  BY <1>1, <1>2 DEF Stage, InRun
<1>3. CASE /\ After(self).at = "look" /\ self.version # 4
           /\ After(self).version = self.version + 1
  <2>1. \A w \in 1 .. (After(self).version - 1) : w \in 1 .. self.version
    BY <1>1, <1>3
  <2> QED
    BY <1>3, <2>1 DEF Stage, InRun
<1> QED
  BY <1>2, <1>3, AfterHolds

LEMMA CommitStep ==
    ASSUME InstallInv, NEW i \in Installers, Commit(i)
    PROVE  InstallInv' /\ Onwards
<1> DEFINE record == [Fresh EXCEPT !.at = "done"]
<1>1. /\ ledger' = Merged(i) /\ Move(i, record) /\ installer[i].at = "commit"
      /\ UNCHANGED <<schema, saver, stored, exported, faults>>
  BY DEF Commit
<1>2. /\ record \in InstallerStates /\ record.at = "done" /\ record.mine = {}
      /\ record.view = None
  BY Numbers DEF Fresh, InstallerStates
<1>3. installer'[i] = record
  BY <1>1 DEF Move, InstallInv, TypeOK
<1>4. /\ Onwards /\ LedgerInv' /\ ledger' \in [Versions -> {None, "ours", "foreign"}]
      /\ \A v \in Versions : Ours(i, v) => ledger'[v] = "ours"
      /\ \A j \in Installers \ {i} : \A v \in installer[j].mine : ledger'[v] = None
  BY <1>1, MergedKeeps
<1>5. \A v \in Versions : Ours(i, v)
  BY <1>1 DEF InstallInv, Stage
<1>6. (Mine(i) /\ ViewHolds(i) /\ Stage(i))'
  <2> HIDE DEF record
  <2> QED
    BY <1>2, <1>3, <1>4, <1>5 DEF Mine, ViewHolds, Stage, InRun
<1>7. SaveTypes' /\ schema' \subseteq Schema /\ faults' \in 0 .. MaxFaults
  BY <1>1 DEF InstallInv, TypeOK, SaveTypes
<1> HIDE DEF record
<1> QED
  BY <1>1, <1>2, <1>4, <1>6, <1>7, OneMoves

LEMMA LookStep ==
    ASSUME InstallInv, NEW i \in Installers, Look(i)
    PROVE  InstallInv' /\ Onwards
<1> DEFINE self == installer[i]
           view == IF self.view = None THEN Merged(i) ELSE self.view
           seen == [self EXCEPT !.view = view]
<1>1. /\ self.at = "look" /\ self \in InstallerStates /\ InRun(i)
      /\ UNCHANGED <<schema, ledger, saver, stored, exported, faults>>
  BY DEF Look, InstallInv, TypeOK, InRun
<1>2. \/ view[self.version] = "foreign" /\ GiveUp(i)
      \/ view[self.version] = "ours" /\ Move(i, After(seen))
      \/ view[self.version] = None /\ Move(i, Begun(seen))
  BY DEF Look
<1>3. Mine(i) /\ ViewHolds(i) /\ Stage(i) /\ "schema_version" \in schema
  BY <1>1 DEF InstallInv, Stage
<1>4. /\ view \in [Versions -> {None, "ours", "foreign"}]
      /\ \A v \in Versions : /\ view[v] = "ours" => Ours(i, v)
                             /\ view[v] = "foreign" => ledger[v] = "foreign"
  <2>1. CASE self.view = None
    <3>1. view = Merged(i)
      BY <2>1
    <3>2. ledger \in [Versions -> {None, "ours", "foreign"}]
      BY DEF InstallInv, TypeOK
    <3> QED
      BY <3>1, <3>2 DEF Merged, Ours
  <2>2. CASE self.view # None
    BY <1>1, <1>3, <2>2 DEF InstallerStates, ViewHolds
  <2> QED
    BY <2>1, <2>2
<1>5. /\ seen \in InstallerStates /\ seen.view = view /\ seen.mine = self.mine
      /\ seen.version = self.version /\ seen.at = "look"
  BY <1>1, <1>4 DEF InstallerStates
<1>6. \A v \in Versions : Ours(i, v)' <=> v \in installer'[i].mine \/ ledger[v] = "ours"
  BY <1>1 DEF Ours
<1>7. \A w \in 1 .. (self.version - 1) : Ours(i, w)
  BY <1>1, <1>3 DEF Stage
<1>8. \A v \in Versions : \A w \in 1 .. v : w \in Versions
  BY Numbers
<1>9. \A j \in Installers \ {i} : installer[j].mine \cap self.mine = {}
  BY DEF InstallInv, NobodyElses
<1>10. ASSUME NEW record \in InstallerStates, Move(i, record), record.mine = self.mine,
              record.view = view, Stage(i)'
       PROVE  InstallInv' /\ Onwards
  <2>1. installer'[i] = record
    BY <1>10 DEF Move, InstallInv, TypeOK
  <2>2. (Mine(i) /\ ViewHolds(i))'
    BY <1>1, <1>3, <1>4, <1>10, <2>1 DEF Mine, ViewHolds, Ours
  <2>3. faults' \in 0 .. MaxFaults
    BY <1>1 DEF InstallInv, TypeOK
  <2> HIDE DEF view, self, seen
  <2> QED
    BY <1>1, <1>9, <1>10, <2>2, <2>3, OnlyMoves
<1>11. CASE GiveUp(i)
  <2>1. Move(i, [Fresh EXCEPT !.at = "failed"])
    BY <1>11 DEF GiveUp
  <2>2. installer \in [Installers -> InstallerStates] /\ faults' \in 0 .. MaxFaults
    BY <1>1 DEF InstallInv, TypeOK
  <2> QED
    BY <1>1, <2>1, <2>2, Restarts, OnlyMoves
<1>12. CASE view[self.version] = "ours" /\ Move(i, After(seen))
  <2>1. installer'[i] = After(seen)
    BY <1>12 DEF Move, InstallInv, TypeOK
  <2>2. /\ After(seen) \in InstallerStates /\ After(seen).mine = self.mine
        /\ After(seen).view = view
    <3> HIDE DEF seen, self, view
    <3> QED
      BY <1>5, AfterHolds
  <2>3. self.version \in Versions /\ Ours(i, self.version)
    BY <1>1, <1>4, <1>12 DEF InstallerStates
  <2>4. \A w \in 1 .. self.version : w \in Versions /\ Ours(i, w)
    <3>1. \A w \in 1 .. self.version : w = self.version \/ w \in 1 .. (self.version - 1)
      BY <2>3, Numbers
    <3> QED
      BY <1>7, <1>8, <2>3, <3>1
  <2>5. \A w \in 1 .. seen.version : Ours(i, w)'
    BY <1>1, <1>5, <2>1, <2>2, <2>4 DEF Ours
  <2>6. "schema_version" \in schema'
    BY <1>1, <1>3
  <2>7. Stage(i)'
    <3> HIDE DEF seen, self, view
    <3> QED
      BY <1>5, <2>1, <2>5, <2>6, AfterStage
  <2> HIDE DEF seen, self, view
  <2> QED
    BY <1>10, <1>12, <2>2, <2>7
<1>13. CASE Move(i, Begun(seen))
  <2> DEFINE first == FirstStatement(self.version)
             record == Begun(seen)
  <2>1. /\ self.version \in Versions
        /\ first \in 1 .. Len(Migrations[self.version])
        /\ first \in Nat /\ Len(Migrations[self.version]) \in Nat
    BY <1>1, Numbers DEF InstallerStates
  <2>2. /\ record \in InstallerStates /\ record.mine = self.mine /\ record.view = view
        /\ record.at = "apply" /\ record.version = self.version /\ record.next = first
    <3>1. ~(first > Len(Migrations[self.version]))
      BY <2>1
    <3>2. record = [seen EXCEPT !.next = first, !.at = "apply"]
      BY <1>5, <3>1 DEF Begun
    <3> QED
      BY <1>5, <2>1, <3>2 DEF InstallerStates
  <2>3. installer'[i] = record
    BY <1>13 DEF Move, InstallInv, TypeOK
  <2>4. \A n \in 1 .. (first - 1) : Migrations[self.version][n] \in schema
    <3>1. CASE self.version = 1
      BY <1>3, <3>1, Numbers
    <3>2. CASE self.version # 1
      BY <2>1, <3>2, Numbers
    <3> QED
      BY <3>1, <3>2
  <2>5. \A w \in 1 .. (self.version - 1) : Ours(i, w)'
    BY <1>1, <1>7, <2>2, <2>3 DEF Ours
  <2>6. Stage(i)'
    <3> HIDE DEF seen, self, view, record, first
    <3> QED
      BY <1>1, <1>3, <2>1, <2>2, <2>3, <2>4, <2>5 DEF Stage, InRun
  <2> HIDE DEF seen, self, view, record, first
  <2>7. Move(i, record)
    BY <1>13 DEF record
  <2> QED
    BY <1>10, <2>2, <2>6, <2>7
<1> QED
  BY <1>2, <1>11, <1>12, <1>13

LEMMA RecordStep ==
    ASSUME InstallInv, NEW i \in Installers, Record(i)
    PROVE  InstallInv' /\ Onwards
<1> DEFINE self == installer[i]
           told == [self EXCEPT !.mine = @ \cup {self.version}]
<1>1. /\ self.at = "record" /\ self \in InstallerStates /\ InRun(i)
      /\ UNCHANGED <<schema, ledger, saver, stored, exported, faults>>
  BY DEF Record, InstallInv, TypeOK, InRun
<1>2. /\ \A j \in Installers \ {i} : self.version \notin installer[j].mine
      /\ \/ GiveUp(i)
         \/ ledger[self.version] = None /\ Move(i, After(told))
  BY DEF Record
<1>3. /\ Mine(i) /\ ViewHolds(i) /\ Stage(i) /\ "schema_version" \in schema
      /\ TypeOK /\ LedgerInv
  BY <1>1 DEF InstallInv, Stage
<1>4. faults' \in 0 .. MaxFaults /\ installer \in [Installers -> InstallerStates]
  BY <1>1 DEF InstallInv, TypeOK
<1>5. CASE GiveUp(i)
  BY <1>1, <1>4, <1>5, Restarts, OnlyMoves DEF GiveUp
<1>6. CASE ledger[self.version] = None /\ Move(i, After(told))
  <2>1. /\ told \in InstallerStates /\ told.at = "record" /\ told.version = self.version
        /\ told.mine = self.mine \cup {self.version} /\ told.view = self.view
    BY <1>1 DEF InstallerStates
  <2>2. installer'[i] = After(told)
    BY <1>4, <1>6 DEF Move
  <2>3. /\ After(told) \in InstallerStates /\ After(told).mine = self.mine \cup {self.version}
        /\ After(told).view = self.view
    BY <2>1, AfterHolds
  <2>4. /\ self.version \in Versions /\ self.mine \subseteq Versions
        /\ \A v \in Versions : \A w \in 1 .. v : w \in Versions
        /\ \A w \in 1 .. self.version : w = self.version \/ w \in 1 .. (self.version - 1)
    BY <1>1, Numbers DEF InstallerStates
  <2>5. \A w \in 1 .. (self.version - 1) : Ours(i, w)
    BY <1>1, <1>3 DEF Stage
  <2>6. /\ \A v \in Versions : Ours(i, v) => Ours(i, v)'
        /\ \A v \in Versions : v = self.version => Ours(i, v)'
    <3>1. installer'[i].mine = self.mine \cup {self.version} /\ ledger' = ledger
      BY <1>1, <2>2, <2>3
    <3> QED
      BY <3>1 DEF Ours
  <2>7. \A w \in 1 .. self.version : Ours(i, w)'
    <3> HIDE DEF self
    <3>1. \A w \in 1 .. self.version : w \in Versions /\ (w = self.version \/ Ours(i, w))
      BY <2>4, <2>5
    <3> QED
      BY <2>6, <3>1
  <2>8. SchemaOf(self.version) \subseteq schema
    <3>1. StatementsOf(self.version) \subseteq schema
      BY <1>1, <1>3 DEF Stage
    <3>2. ASSUME NEW w \in 1 .. (self.version - 1) PROVE StatementsOf(w) \subseteq schema
      <4>1. w \in Versions /\ w \in Nat /\ w \in 1 .. w
        BY <2>4, Numbers
      <4>2. SchemaOf(w) \subseteq schema
        BY <1>3, <2>5, <4>1, Behind
      <4> QED
        BY <4>1, <4>2, Contained
    <3>3. self.version \in Nat
      BY <2>4, Numbers
    <3> QED
      BY <2>4, <3>1, <3>2, <3>3, Contained
  <2>9. Mine(i)'
    <3>1. installer'[i].mine = self.mine \cup {self.version}
      BY <2>2, <2>3
    <3>2. ASSUME NEW v \in self.mine
          PROVE  ledger[v] = None /\ SchemaOf(v) \subseteq schema /\ \A w \in 1 .. v : Ours(i, w)'
      BY <1>3, <2>4, <2>6 DEF Mine
    <3> HIDE DEF self
    <3> QED
      BY <1>1, <1>6, <2>7, <2>8, <3>1, <3>2 DEF Mine
  <2>10. ViewHolds(i)'
    BY <1>1, <1>3, <2>2, <2>3, <2>6 DEF ViewHolds
  <2>11. Stage(i)'
    <3>1. "schema_version" \in schema'
      BY <1>1, <1>3
    <3> HIDE DEF self, told
    <3> QED
      BY <2>1, <2>2, <2>7, <3>1, AfterStage
  <2>12. \A j \in Installers \ {i} : installer[j].mine \cap After(told).mine = {}
    BY <1>2, <2>3 DEF InstallInv, NobodyElses
  <2> HIDE DEF self, told
  <2> QED
    BY <1>1, <1>4, <1>6, <2>3, <2>9, <2>10, <2>11, <2>12, OnlyMoves
<1> QED
  BY <1>2, <1>5, <1>6

\* No statement is refused: what it needs is there, from this attempt or another.
LEMMA NeverRefused ==
    ASSUME InstallInv, NEW i \in Installers, installer[i].at = "apply"
    PROVE  ~Refused(Migrations[installer[i].version][installer[i].next], schema)
<1> DEFINE self == installer[i]
<1>1. /\ self \in InstallerStates /\ TypeOK /\ LedgerInv /\ Mine(i) /\ Stage(i)
  BY DEF InstallInv, TypeOK
<1>2. /\ self.version \in Versions
      /\ self.next \in 1 .. Len(Migrations[self.version])
      /\ \A m \in 1 .. (self.next - 1) : Migrations[self.version][m] \in schema
      /\ \A w \in 1 .. (self.version - 1) : Ours(i, w)
  BY <1>1 DEF Stage, InstallerStates
<1>3. ASSUME NEW w \in 1 .. (self.version - 1) PROVE StatementsOf(w) \subseteq schema
  <2>1. w \in Versions /\ w \in Nat /\ w \in 1 .. w
    BY <1>2, Numbers
  <2>2. SchemaOf(w) \subseteq schema
    BY <1>1, <1>2, <2>1, Behind
  <2> QED
    BY <2>1, <2>2, Contained
<1> HIDE DEF self
<1>4. Requires(Migrations[self.version][self.next]) \subseteq schema
  BY <1>2, <1>3, Dependencies
<1> QED
  BY <1>4 DEF Refused, self

LEMMA ApplyStep ==
    ASSUME InstallInv, NEW i \in Installers, Apply(i)
    PROVE  InstallInv' /\ Onwards /\ installer'[i].at # "failed"
<1> DEFINE self == installer[i]
           statement == Migrations[self.version][self.next]
           record == [self EXCEPT !.view = None, !.mine = {}, !.next = @ + 1,
                                  !.at = IF self.next < Len(Migrations[self.version])
                                         THEN "apply" ELSE "record"]
<1>1. /\ self.at = "apply" /\ self \in InstallerStates /\ InRun(i)
      /\ ledger' = Merged(i) /\ UNCHANGED <<saver, stored, exported, faults>>
  BY DEF Apply, InstallInv, TypeOK, InRun
<1>2. schema' = schema \cup {statement} /\ Move(i, record)
  BY <1>1, NeverRefused DEF Apply
<1>3. /\ Mine(i) /\ Stage(i) /\ "schema_version" \in schema
      /\ installer \in [Installers -> InstallerStates]
  BY <1>1 DEF InstallInv, Stage, TypeOK
<1>4. /\ self.version \in Versions /\ Len(Migrations[self.version]) \in Nat
      /\ self.next \in 1 .. Len(Migrations[self.version]) /\ self.next \in Nat
      /\ \A m \in 1 .. (self.next - 1) : Migrations[self.version][m] \in schema
      /\ \A w \in 1 .. (self.version - 1) : w \in Versions /\ Ours(i, w)
  BY <1>1, <1>3, Numbers DEF Stage, InstallerStates
<1>5. /\ record \in InstallerStates /\ record.view = None /\ record.mine = {}
      /\ record.version = self.version /\ record.next = self.next + 1
      /\ record.at = IF self.next < Len(Migrations[self.version]) THEN "apply" ELSE "record"
  <2> DEFINE at == IF self.next < Len(Migrations[self.version]) THEN "apply" ELSE "record"
  <2>1. at \in {"apply", "record"}
    OBVIOUS
  <2>2. record = [at |-> at, version |-> self.version, next |-> self.next + 1,
                  view |-> None, mine |-> {}]
    <3>1. record = [self EXCEPT !.view = None, !.mine = {}, !.next = @ + 1, !.at = at]
      BY Zenon
    <3> HIDE DEF at, record
    <3> QED
      BY <1>1, <3>1 DEF InstallerStates
  <2> HIDE DEF at, record
  <2>3. record \in InstallerStates
    BY <1>4, <2>1, <2>2 DEF InstallerStates
  <2> QED
    BY <2>2, <2>3 DEF at
<1>6. installer'[i] = record
  BY <1>2, <1>3 DEF Move
<1>7. /\ Onwards /\ LedgerInv' /\ ledger' \in [Versions -> {None, "ours", "foreign"}]
      /\ \A v \in Versions : Ours(i, v) => ledger'[v] = "ours"
      /\ \A j \in Installers \ {i} : \A v \in installer[j].mine : ledger'[v] = None
  BY <1>1, <1>2, MergedKeeps
<1>8. schema' \subseteq Schema
  <2> HIDE DEF self
  <2>1. Migrations[self.version][self.next] \in Schema
    BY <1>4, Contained
  <2> QED
    BY <1>2, <2>1 DEF InstallInv, TypeOK
<1>9. \A w \in 1 .. (self.version - 1) : Ours(i, w)'
  BY <1>4, <1>7 DEF Ours
<1>10. \A m \in 1 .. self.next : Migrations[self.version][m] \in schema'
  <2> HIDE DEF self
  <2>1. \A m \in 1 .. self.next : m = self.next \/ m \in 1 .. (self.next - 1)
    BY <1>4
  <2> QED
    BY <1>2, <1>4, <2>1
<1>11. Stage(i)'
  <2> HIDE DEF self, record
  <2>1. "schema_version" \in schema'
    BY <1>2, <1>3
  <2>2. CASE self.next < Len(Migrations[self.version])
    <3>1. record.at = "apply" /\ record.next - 1 = self.next
          /\ record.next \in 1 .. Len(Migrations[self.version])
      BY <1>4, <1>5, <2>2
    <3> QED
      BY <1>5, <1>6, <1>9, <1>10, <2>1, <3>1 DEF Stage, InRun
  <2>3. CASE ~(self.next < Len(Migrations[self.version]))
    <3>1. record.at = "record" /\ self.next = Len(Migrations[self.version])
      BY <1>4, <1>5, <2>3
    <3>2. StatementsOf(self.version) \subseteq schema'
      BY <1>4, <1>10, <3>1, Contained
    <3> QED
      BY <1>5, <1>6, <1>9, <2>1, <3>1, <3>2 DEF Stage, InRun
  <2> QED
    BY <2>2, <2>3
<1>12. (Mine(i) /\ ViewHolds(i))'
  <2> HIDE DEF record
  <2> QED
    BY <1>5, <1>6 DEF Mine, ViewHolds
<1>13. SaveTypes' /\ faults' \in 0 .. MaxFaults
  BY <1>1 DEF InstallInv, TypeOK, SaveTypes
<1>14. installer'[i].at # "failed"
  <2> HIDE DEF record
  <2> QED
    BY <1>5, <1>6
<1> HIDE DEF self, record
<1> QED
  BY <1>2, <1>5, <1>7, <1>8, <1>11, <1>12, <1>13, <1>14, OneMoves

LEMMA DbStep ==
    SaveInv /\ InstallInv /\ [NextDb]_dbVars => InstallInv' /\ Onwards
<1> SUFFICES ASSUME SaveInv, InstallInv, [NextDb]_dbVars PROVE InstallInv' /\ Onwards
  OBVIOUS
<1>1. ASSUME NEW i \in Installers, InstallStep(i) \/ Fault(i) \/ Rerun(i)
      PROVE  InstallInv' /\ Onwards
  BY <1>1, OpenStep, LookStep, ApplyStep, RecordStep, CommitStep, RestartStep DEF InstallStep
<1>2. SaveTypes'
  BY SaveStep DEF SaveInv
<1>3. ASSUME UNCHANGED <<schema, ledger, installer>>, faults' \in 0 .. MaxFaults
      PROVE  InstallInv' /\ Onwards
  <2>1. TypeOK' /\ LedgerInv' /\ NobodyElses'
    BY <1>2, <1>3 DEF InstallInv, TypeOK, LedgerInv, NobodyElses
  <2>2. Onwards
    BY <1>3 DEF Onwards
  <2>3. \A i \in Installers : (Mine(i) /\ ViewHolds(i) /\ Stage(i))'
    BY <1>3 DEF InstallInv, Mine, ViewHolds, Stage, Ours, InRun
  <2> QED
    BY <2>1, <2>2, <2>3 DEF InstallInv
<1>4. ASSUME NEW r \in Runs, \/ SaveRun(r) \/ SaveTarget(r) \/ SaveArchive(r)
                              \/ SaveCommit(r) \/ SaveFault(r)
      PROVE  InstallInv' /\ Onwards
  <2>1. UNCHANGED <<schema, ledger, installer>>
    BY <1>4 DEF SaveRun, SaveTarget, SaveArchive, SaveCommit, SaveFault, Insert
  <2>2. faults' \in 0 .. MaxFaults
    BY <1>4, HistoryAssumption
    DEF SaveRun, SaveTarget, SaveArchive, SaveCommit, SaveFault, Insert, InstallInv, TypeOK,
        HistoryAssumption
  <2> QED
    BY <1>3, <2>1, <2>2
<1>5. ASSUME NEW r \in Runs \cup OldRuns, Export(r) PROVE InstallInv' /\ Onwards
  BY <1>3, <1>5 DEF Export, InstallInv, TypeOK
<1>6. CASE UNCHANGED dbVars
  BY <1>3, <1>6 DEF dbVars, InstallInv, TypeOK
<1> QED
  BY <1>1, <1>4, <1>5, <1>6 DEF NextDb

LEMMA DbInvariant == Spec => [](SaveInv /\ InstallInv)
<1>1. Init => SaveInv /\ InstallInv
  BY SaveInit, InstallInit DEF Init
<1>2. SaveInv /\ InstallInv /\ [Next]_vars => SaveInv' /\ InstallInv'
  <2>1. [Next]_vars => [NextDb]_dbVars
    BY DEF Next, vars, Compare, dbVars
  <2> QED
    BY <2>1, SaveStep, DbStep
<1> QED
  BY <1>1, <1>2, PTL DEF Spec

\* storage.py:196: the version `db status` reports is carried out with all
\* before it, and a successful install leaves every version recorded.
THEOREM CompleteInstalls == Spec => []InstalledIsComplete
<1>1. InstallInv => InstalledIsComplete
  <2> SUFFICES ASSUME InstallInv PROVE InstalledIsComplete
    OBVIOUS
  <2>1. /\ SchemaOf(ReportedVersion) \subseteq schema
        /\ \A w \in 1 .. ReportedVersion : ledger[w] # None
    <3> DEFINE recorded == {v \in Versions : ledger[v] # None}
    <3>1. CASE recorded = {}
      <4>1. ReportedVersion = 0
        BY <3>1 DEF ReportedVersion
      <4> QED
        BY <4>1 DEF SchemaOf
    <3>2. CASE recorded # {}
      <4>1. \E v \in recorded : \A w \in recorded : w <= v
        <5>1. recorded \subseteq 1 .. 4
          BY Numbers
        <5>2. CASE 4 \in recorded
          BY <5>1, <5>2
        <5>3. CASE 4 \notin recorded /\ 3 \in recorded
          BY <5>1, <5>3
        <5>4. CASE 4 \notin recorded /\ 3 \notin recorded /\ 2 \in recorded
          BY <5>1, <5>4
        <5>5. CASE 4 \notin recorded /\ 3 \notin recorded /\ 2 \notin recorded
          BY <3>2, <5>1, <5>5
        <5> QED
          BY <5>2, <5>3, <5>4, <5>5
      <4>2. ReportedVersion = CHOOSE v \in recorded : \A w \in recorded : w <= v
        BY <3>2 DEF ReportedVersion
      <4>3. ReportedVersion \in recorded
        BY <4>1, <4>2
      <4> QED
        BY <4>3 DEF InstallInv, LedgerInv
    <3> QED
      BY <3>1, <3>2
  <2>2. (\E i \in Installers : installer[i].at = "done") => \A v \in Versions : ledger[v] = "ours"
    BY DEF InstallInv, Stage
  <2> QED
    BY <2>1, <2>2 DEF InstalledIsComplete, InstallInv
<1> QED
  BY <1>1, DbInvariant, PTL

\* storage.py:189: an install fails only for a lost connection, a foreign
\* checksum or another installer, and nothing recorded changes.
THEOREM InstallFailures == Spec => InstallFailsForCause
<1> DEFINE Causes ==
        /\ \A i \in Installers :
            installer[i].at # "failed" /\ installer'[i].at = "failed" =>
                \/ faults' > faults
                \/ ledger[installer[i].version] # None
        /\ \A v \in Versions : ledger[v] # None => ledger'[v] = ledger[v]
<1>1. SaveInv /\ InstallInv /\ [Next]_vars => [Causes]_dbVars
  <2> SUFFICES ASSUME SaveInv, InstallInv, NextDb PROVE Causes
    BY DEF Next, vars, Compare, dbVars
  <2>1. Onwards
    BY DbStep
  <2>2. ASSUME NEW i \in Installers, installer[i].at # "failed", installer'[i].at = "failed"
        PROVE  faults' > faults \/ ledger[installer[i].version] # None
    <3>1. installer \in [Installers -> InstallerStates] /\ faults \in Nat
      BY HistoryAssumption DEF InstallInv, TypeOK, HistoryAssumption
    <3>2. PICK k \in Installers : InstallStep(k) \/ Fault(k) \/ Rerun(k)
      <4>1. ~ UNCHANGED installer
        BY <2>2
      <4> QED
        BY <4>1 DEF NextDb, SaveRun, SaveTarget, SaveArchive, SaveCommit, SaveFault, Insert, Export
    <3>3. k = i
      <4>1. \E record : Move(k, record)
        BY <3>2 DEF InstallStep, Open, Look, Apply, Record, Commit, Fault, Rerun, GiveUp
      <4> QED
        BY <2>2, <3>1, <4>1 DEF Move
    <3>4. CASE Open(i)
      BY <2>2, <3>1, <3>4 DEF Open, Move, InstallerStates
    <3>5. CASE Look(i)
      <4> DEFINE self == installer[i]
                 view == IF self.view = None THEN Merged(i) ELSE self.view
                 seen == [self EXCEPT !.view = view]
      <4>1. /\ self \in InstallerStates /\ self.version \in Versions
            /\ ViewHolds(i)
        BY <3>1 DEF InstallInv, InstallerStates
      <4>2. CASE view[self.version] = "foreign"
        <5>1. ledger[self.version] # None
          BY <4>1, <4>2, HistoryAssumption DEF ViewHolds, Merged, HistoryAssumption
        <5> QED
          BY <5>1
      <4>3. CASE view[self.version] # "foreign"
        <5>1. seen.at = "look" /\ (Move(i, After(seen)) \/ Move(i, Begun(seen)))
          BY <3>5, <4>1, <4>3 DEF Look, InstallerStates
        <5>2. After(seen).at # "failed" /\ Begun(seen).at # "failed"
          BY <4>1, <5>1 DEF After, Begun, InstallerStates
        <5> QED
          BY <2>2, <3>1, <5>1, <5>2 DEF Move
      <4> QED
        BY <4>2, <4>3
    <3>6. CASE Apply(i)
      BY <2>2, <3>6, ApplyStep
    <3>7. CASE Record(i)
      <4> DEFINE self == installer[i]
                 told == [self EXCEPT !.mine = @ \cup {self.version}]
      <4>1. CASE ledger[self.version] # None
        BY <4>1
      <4>2. CASE ledger[self.version] = None
        <5>1. Move(i, After(told)) /\ told \in InstallerStates /\ told.at = "record"
          BY <3>1, <3>7, <4>2 DEF Record, InstallerStates
        <5>2. After(told).at # "failed"
          <6> HIDE DEF told
          <6> QED
            BY <5>1, AfterHolds
        <5> QED
          BY <2>2, <3>1, <5>1, <5>2 DEF Move
      <4> QED
        BY <4>1, <4>2
    <3>8. CASE Commit(i)
      BY <2>2, <3>1, <3>8 DEF Commit, Move, Fresh
    <3>9. CASE Fault(i)
      BY <3>1, <3>9 DEF Fault
    <3>10. CASE Rerun(i)
      BY <2>2, <3>1, <3>10 DEF Rerun, Move, Fresh
    <3> QED
      BY <3>2, <3>3, <3>4, <3>5, <3>6, <3>7, <3>8, <3>9, <3>10 DEF InstallStep
  <2> QED
    BY <2>1, <2>2 DEF Onwards
<1> QED
  BY <1>1, DbInvariant, PTL DEF Spec, InstallFailsForCause

-----------------------------------------------------------------------------
(* Comparison.                                                             *)

\* compare.py:102: what is called resolved was looked for by the later scan and
\* is gone from the target's own pages and from every page that scan has read.
THEOREM ResolutionsAreTrue == Spec => []ResolvedIsGone
<1>1. Init => ResolvedIsGone
  BY DEF Init, ResolvedIsGone
<1>2. ResolvedIsGone /\ [Next]_vars => ResolvedIsGone'
  <2> SUFFICES ASSUME ResolvedIsGone, [Next]_vars PROVE ResolvedIsGone'
    OBVIOUS
  <2>1. CASE UNCHANGED claim
    BY <2>1 DEF ResolvedIsGone
  <2>2. CASE Compare
    <3>1. PICK before \in SUBSET ({Shown[p] : p \in Places} \cup {Opinion}), oldRoot \in Roots,
               s \in Scans, flawed \in SUBSET Places :
            \E after \in Sees(s, flawed) :
              claim' = [resolved |-> Resolved(before, oldRoot, s, after),
                        read |-> {Shown[p] : p \in s.visited},
                        still |-> {Shown[p] : p \in
                                    flawed \cap ((s.visited \ s.down) \cup {oldRoot, s.root})}]
      BY <2>2 DEF Compare
    <3>2. PICK after \in Sees(s, flawed) :
              claim' = [resolved |-> Resolved(before, oldRoot, s, after),
                        read |-> {Shown[p] : p \in s.visited},
                        still |-> {Shown[p] : p \in
                                    flawed \cap ((s.visited \ s.down) \cup {oldRoot, s.root})}]
      BY <3>1
    <3> DEFINE resolved == Resolved(before, oldRoot, s, after)
               missing == before \ after
    <3>3. /\ s.root \in Roots /\ s.root \in s.visited /\ s.visited \subseteq Places
          /\ s.complete \in BOOLEAN /\ s.sameProfile \in BOOLEAN
          /\ oldRoot \in Places /\ s.root \in Places
      BY ComparisonAssumption DEF Scans, ComparisonAssumption
    <3>4. ASSUME NEW x \in resolved
          PROVE  /\ x \in missing /\ x \in Executed(s) /\ x # Opinion
                 /\ oldRoot \notin Bearing /\ s.root \notin Bearing
                 /\ s.root \notin s.down /\ Shown[oldRoot] = Shown[s.root]
                 /\ s.sameProfile /\ s.complete
      BY <3>4 DEF Resolved, QueryInput, CleanExposure
    <3>5. ASSUME NEW x \in resolved PROVE x \in {Shown[p] : p \in s.visited}
      BY <3>4 DEF Executed
    <3>6. ASSUME NEW x \in resolved,
                 NEW p \in flawed \cap ((s.visited \ s.down) \cup {oldRoot, s.root}), x = Shown[p]
          PROVE  FALSE
      <4> HIDE DEF resolved
      <4>1. oldRoot = s.root
        BY <3>3, <3>4, ComparisonAssumption DEF ComparisonAssumption
      <4>2. p \in (flawed \cap s.visited) \ s.down
        BY <3>3, <3>4, <3>6, <4>1
      <4>3. {Shown[q] : q \in (flawed \cap s.visited) \ s.down} \subseteq after
        BY <3>2, <3>4 DEF Sees, Sound
      <4> QED
        BY <3>4, <3>6, <4>2, <4>3
    <3> HIDE DEF resolved
    <3>7. /\ claim'.resolved = resolved
          /\ claim'.read = {Shown[p] : p \in s.visited}
          /\ claim'.still = {Shown[p] : p \in
                              flawed \cap ((s.visited \ s.down) \cup {oldRoot, s.root})}
      BY <3>2 DEF resolved
    <3> QED
      BY <3>5, <3>6, <3>7 DEF ResolvedIsGone
  <2> QED
    BY <2>1, <2>2 DEF Next, vars
<1> QED
  BY <1>1, <1>2, PTL DEF Spec
=============================================================================

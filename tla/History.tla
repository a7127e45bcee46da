------------------------------ MODULE History ------------------------------
(***************************************************************************)
(* The optional MariaDB history: `db install` (MariaDbStore.install), the  *)
(* save of `scan --store-db`, `history list` and `history export`          *)
(* (storage.py), and `compare` on two exported documents                   *)
(* (reports/compare.py).                                                   *)
(*                                                                         *)
(* MariaDB is external and modelled from the use made of it: a DDL         *)
(* statement commits the transaction it interrupts, a transaction reads    *)
(* the ledger as it was at its first SELECT, a duplicate primary key is    *)
(* refused once the first row is committed and waited for until then, and  *)
(* a lost connection rolls back.  Several installers and the saves of      *)
(* several runs proceed at the same time, each on its own connection.      *)
(***************************************************************************)
EXTENDS Naturals, Sequences, FiniteSets

CONSTANTS
    Installers,   \* processes running `db install`
    Runs,         \* scan runs this release saves
    OldRuns,      \* runs stored before schema 4, without an archive
    Targets,      \* run -> sequence of the public URLs of its targets
    Huge,         \* runs whose archive exceeds 20 MB
    MaxFaults,    \* bound: lost connections and killed processes
    None

ASSUME HistoryAssumption ==
    /\ OldRuns \cap Runs = {}
    /\ Huge \subseteq Runs
    /\ \A r \in Runs \cup OldRuns : Len(Targets[r]) \in Nat
    /\ MaxFaults \in Nat
    /\ None \notin {"ours", "foreign"}

-----------------------------------------------------------------------------
(* The schema.                                                             *)

\* The statements of each migration, by the table or the columns they add.
Migrations == << <<"schema_version", "scan_run", "scan_target", "scan_finding">>,
                 <<"run.components", "target.exposure", "scan_component">>,
                 <<"target.length">>,
                 <<"scan_archive">> >>

Versions == 1 .. Len(Migrations)

\* What must exist for a statement to succeed: the altered or referenced table.
Requires(statement) ==
    IF statement \in {"schema_version", "scan_run"} THEN {}
    ELSE IF statement \in {"scan_target", "run.components", "scan_archive"} THEN {"scan_run"}
    ELSE {"scan_target"}

StatementsOf(v) == {Migrations[v][n] : n \in 1 .. Len(Migrations[v])}

\* All statements of the migrations up to v.
SchemaOf(v) == UNION {StatementsOf(w) : w \in 1 .. v}

Schema == SchemaOf(Len(Migrations))

\* Mutant: the first statement of every migration is taken for the ledger's.
AlwaysSecond(v) == 2

\* The ledger is created on its own, before any version is looked at.
FirstStatement(v) == IF v = 1 THEN 2 ELSE 1

\* Mutant: a statement without IF NOT EXISTS.
RefusedTwice(statement, done) ==
    ~(Requires(statement) \subseteq done) \/ statement \in done

\* Every statement says IF NOT EXISTS.
Refused(statement, done) == ~(Requires(statement) \subseteq done)

VARIABLES
    schema,    \* the statements MariaDB has carried out
    ledger,    \* schema_version, committed: Versions -> None, "ours" or "foreign"
    installer, \* Installers -> where it is, its version and statement, the
               \* ledger its transaction sees, the versions it has not committed
    saver,     \* Runs -> where save() is, the number of rows in its transaction
    stored,    \* run -> the number of its rows other connections see
    exported,  \* runs whose archive has been written to a file
    faults

dbVars == <<schema, ledger, installer, saver, stored, exported, faults>>

Fresh == [at |-> "idle", version |-> 1, next |-> 1, view |-> None, mine |-> {}]

\* A run is a row for itself, one for each target with its findings and
\* components, and the archive, written in this order.
RowCount(r) == Len(Targets[r]) + 2

InitDb ==
    \E v \in 0 .. Len(Migrations), foreign \in Versions \cup {None} :
        /\ schema = SchemaOf(v)
        /\ ledger = [w \in Versions |-> IF w > v THEN None
                                        ELSE IF w = foreign THEN "foreign" ELSE "ours"]
        /\ stored = [r \in Runs \cup OldRuns |->
                        IF r \in OldRuns /\ v > 0 THEN RowCount(r) - 1 ELSE 0]
        /\ installer = [i \in Installers |-> Fresh]
        /\ saver = [r \in Runs |-> [at |-> "idle", rows |-> 0]]
        /\ exported = {}
        /\ faults = 0

-----------------------------------------------------------------------------
(* install().                                                              *)

Move(i, record) == installer' = [installer EXCEPT ![i] = record]

\* The ledger with the rows installer i has not committed yet.
Merged(i) == [v \in Versions |-> IF v \in installer[i].mine THEN "ours" ELSE ledger[v]]

\* On to the next version, or to the final commit.
After(self) == IF self.version = Len(Migrations)
               THEN [self EXCEPT !.at = "commit"]
               ELSE [self EXCEPT !.at = "look", !.version = @ + 1]

\* The statements of a missing version, if there are any left to carry out.
Begun(self) ==
    LET first == FirstStatement(self.version)
    IN  [self EXCEPT !.next = first,
                     !.at = IF first > Len(Migrations[self.version]) THEN "record" ELSE "apply"]

\* rollback(), then StorageError.
GiveUp(i) == Move(i, [Fresh EXCEPT !.at = "failed"])

\* CREATE TABLE IF NOT EXISTS schema_version.
Open(i) ==
    /\ installer[i].at = "idle"
    /\ schema' = schema \cup {"schema_version"}
    /\ Move(i, [installer[i] EXCEPT !.at = "look"])
    /\ UNCHANGED <<ledger, saver, stored, exported, faults>>

\* SELECT checksum: recorded by us, recorded by another release, or missing.
Look(i) ==
    LET self == installer[i]
        view == IF self.view = None THEN Merged(i) ELSE self.view
        seen == [self EXCEPT !.view = view]
    IN  /\ self.at = "look"
        /\ \/ view[self.version] = "foreign" /\ GiveUp(i)
           \/ view[self.version] = "ours" /\ Move(i, After(seen))
           \/ /\ view[self.version] = None
              /\ Move(i, Begun(seen))
        /\ UNCHANGED <<schema, ledger, saver, stored, exported, faults>>

\* One DDL statement, which commits what the transaction has done so far.
Apply(i) ==
    LET self == installer[i]
        statement == Migrations[self.version][self.next]
    IN  /\ self.at = "apply"
        /\ ledger' = Merged(i)
        /\ IF Refused(statement, schema)
           THEN GiveUp(i) /\ UNCHANGED schema
           ELSE /\ schema' = schema \cup {statement}
                /\ Move(i, [self EXCEPT
                        !.view = None, !.mine = {}, !.next = @ + 1,
                        !.at = IF self.next < Len(Migrations[self.version])
                               THEN "apply" ELSE "record"])
        /\ UNCHANGED <<saver, stored, exported, faults>>

\* INSERT INTO schema_version: waits for a row another transaction holds.
Record(i) ==
    LET self == installer[i] IN
    /\ self.at = "record"
    /\ \A j \in Installers \ {i} : self.version \notin installer[j].mine
    /\ IF ledger[self.version] # None
       THEN GiveUp(i)
       ELSE Move(i, After([self EXCEPT !.mine = @ \cup {self.version}]))
    /\ UNCHANGED <<schema, ledger, saver, stored, exported, faults>>

Commit(i) ==
    /\ installer[i].at = "commit"
    /\ ledger' = Merged(i)
    /\ Move(i, [Fresh EXCEPT !.at = "done"])
    /\ UNCHANGED <<schema, saver, stored, exported, faults>>

\* The connection is lost or the process dies between two statements.
Fault(i) ==
    /\ installer[i].at \in {"look", "apply", "record", "commit"}
    /\ faults < MaxFaults
    /\ faults' = faults + 1
    /\ GiveUp(i)
    /\ UNCHANGED <<schema, ledger, saver, stored, exported>>

\* The operator runs `db install` again.
Rerun(i) ==
    /\ installer[i].at = "failed"
    /\ Move(i, Fresh)
    /\ UNCHANGED <<schema, ledger, saver, stored, exported, faults>>

\* status(): MAX(version), which counts any checksum; 0 for "not installed".
ReportedVersion ==
    LET recorded == {v \in Versions : ledger[v] # None}
    IN  IF recorded = {} THEN 0 ELSE CHOOSE v \in recorded : \A w \in recorded : w <= v

-----------------------------------------------------------------------------
(* save(), export() and list_runs().                                       *)

Step(r, at, rows) == saver' = [saver EXCEPT ![r] = [at |-> at, rows |-> rows]]

\* rollback(); the command reports the failure and keeps its local report.
Abandon(r) == Step(r, "failed", 0)

\* Mutant: the connection commits every statement.
InsertAndCommit(r, needed, at) ==
    /\ IF needed \subseteq schema
       THEN /\ Step(r, at, saver[r].rows + 1)
            /\ stored' = [stored EXCEPT ![r] = @ + 1]
       ELSE Abandon(r) /\ UNCHANGED stored
    /\ UNCHANGED <<schema, ledger, installer, exported, faults>>

\* An INSERT: refused when a table or column it names is missing.
Insert(r, needed, at) ==
    /\ IF needed \subseteq schema
       THEN Step(r, at, saver[r].rows + 1)
       ELSE Abandon(r)
    /\ UNCHANGED <<schema, ledger, installer, stored, exported, faults>>

\* The size of the archive is checked before the first statement.
SaveRun(r) ==
    /\ saver[r].at = "idle"
    /\ IF r \in Huge
       THEN Abandon(r) /\ UNCHANGED <<schema, ledger, installer, stored, exported, faults>>
       ELSE Insert(r, {"scan_run", "run.components"}, "targets")

\* The next target with its findings and components; (run, url) is unique.
SaveTarget(r) ==
    LET n == saver[r].rows IN
    /\ saver[r].at = "targets"
    /\ n <= Len(Targets[r])
    /\ IF \E m \in 1 .. (n - 1) : Targets[r][m] = Targets[r][n]
       THEN Abandon(r) /\ UNCHANGED <<schema, ledger, installer, stored, exported, faults>>
       ELSE Insert(r, {"scan_target", "target.exposure", "target.length",
                       "scan_finding", "scan_component"}, "targets")

SaveArchive(r) ==
    /\ saver[r].at = "targets"
    /\ saver[r].rows > Len(Targets[r])
    /\ Insert(r, {"scan_archive"}, "commit")

SaveCommit(r) ==
    /\ saver[r].at = "commit"
    /\ stored' = [stored EXCEPT ![r] = saver[r].rows]
    /\ Step(r, "saved", 0)
    /\ UNCHANGED <<schema, ledger, installer, exported, faults>>

SaveFault(r) ==
    /\ saver[r].at \in {"targets", "commit"}
    /\ faults < MaxFaults
    /\ faults' = faults + 1
    /\ Abandon(r)
    /\ UNCHANGED <<schema, ledger, installer, stored, exported>>

\* Runs `history list` shows.
Listed == {r \in DOMAIN stored : stored[r] > 0}

\* A run without an archive is refused as summary-only.
Export(r) ==
    /\ r \in Listed
    /\ stored[r] = RowCount(r)
    /\ exported' = exported \cup {r}
    /\ UNCHANGED <<schema, ledger, installer, saver, stored, faults>>

InstallStep(i) == Open(i) \/ Look(i) \/ Apply(i) \/ Record(i) \/ Commit(i)

NextDb ==
    \/ \E i \in Installers : InstallStep(i) \/ Fault(i) \/ Rerun(i)
    \/ \E r \in Runs : \/ SaveRun(r) \/ SaveTarget(r) \/ SaveArchive(r)
                       \/ SaveCommit(r) \/ SaveFault(r)
    \/ \E r \in Runs \cup OldRuns : Export(r)

-----------------------------------------------------------------------------
(* Properties.                                                             *)

\* An installer's record: what each field may hold.
InstallerStates ==
    [at : {"idle", "look", "apply", "record", "commit", "done", "failed"},
     version : Versions, next : Nat,
     view : [Versions -> {None, "ours", "foreign"}] \cup {None},
     mine : SUBSET Versions]

SaveTypes ==
    /\ saver \in [Runs -> [at : {"idle", "targets", "commit", "saved", "failed"}, rows : Nat]]
    /\ stored \in [Runs \cup OldRuns -> Nat]
    /\ exported \subseteq Runs \cup OldRuns

\* The ledger, the schema, the transactions and the stored rows have their types.
TypeOK ==
    /\ schema \subseteq Schema
    /\ ledger \in [Versions -> {None, "ours", "foreign"}]
    /\ installer \in [Installers -> InstallerStates]
    /\ SaveTypes
    /\ faults \in 0 .. MaxFaults

\* storage.py:196: the version `db status` reports is one whose statements, and
\* those of all versions before it, have been carried out, whatever was
\* interrupted, rerun or done by another installer meanwhile; and an install
\* that reports success leaves every version recorded.
InstalledIsComplete ==
    /\ TypeOK
    /\ SchemaOf(ReportedVersion) \subseteq schema
    /\ \A w \in 1 .. ReportedVersion : ledger[w] # None
    /\ (\E i \in Installers : installer[i].at = "done") =>
        \A v \in Versions : ledger[v] = "ours"

\* storage.py:189: an install fails only because it lost its connection, met
\* the checksum of another release, or was overtaken by another installer; the
\* leftovers of an earlier attempt never stop it, and nothing that is recorded
\* changes.
InstallFailsForCause ==
    [][/\ \A i \in Installers :
            installer[i].at # "failed" /\ installer'[i].at = "failed" =>
                \/ faults' > faults
                \/ ledger[installer[i].version] # None
       /\ \A v \in Versions : ledger[v] # None => ledger'[v] = ledger[v]]_dbVars

\* storage.py:226: other connections see all rows of a run, its archive
\* included, or none, whether the save fails, is cut off or meets a schema that
\* is being installed; only what has an archive is exported.
RunsAreWhole ==
    /\ \A r \in Runs : stored[r] = IF saver[r].at = "saved" THEN RowCount(r) ELSE 0
    /\ \A r \in exported : r \in Runs /\ stored[r] = RowCount(r)

-----------------------------------------------------------------------------
(* The inductive invariants of the properties above.                       *)

\* What an installer knows to be recorded or has recorded itself.
Ours(i, v) == v \in installer[i].mine \/ ledger[v] = "ours"
InRun(i) == installer[i].at \in {"look", "apply", "record", "commit"}

\* A recorded version has its statements and all versions before it.
LedgerInv ==
    \A v \in Versions : ledger[v] # None =>
        SchemaOf(v) \subseteq schema /\ \A w \in 1 .. v : ledger[w] # None

\* So has one that is recorded but not committed, which nobody else records.
Mine(i) ==
    \A v \in installer[i].mine :
        /\ ledger[v] = None
        /\ SchemaOf(v) \subseteq schema
        /\ \A w \in 1 .. v : Ours(i, w)

NobodyElses ==
    \A i, j \in Installers : i # j => installer[i].mine \cap installer[j].mine = {}

\* What a transaction has seen is still so.
ViewHolds(i) ==
    installer[i].view # None =>
        \A v \in Versions :
            /\ installer[i].view[v] = "ours" => Ours(i, v)
            /\ installer[i].view[v] = "foreign" => ledger[v] = "foreign"

\* An installer gets to a version when those before it are recorded, and to
\* the ledger when the statements of the version are carried out.
Stage(i) ==
    LET self == installer[i] IN
    /\ ~InRun(i) => self.mine = {} /\ self.view = None
    /\ InRun(i) => "schema_version" \in schema
    /\ self.at = "idle" => self.version = 1
    /\ self.at \in {"look", "apply", "record"} =>
        \A w \in 1 .. (self.version - 1) : Ours(i, w)
    /\ self.at = "apply" =>
        /\ self.next \in 1 .. Len(Migrations[self.version])
        /\ \A n \in 1 .. (self.next - 1) : Migrations[self.version][n] \in schema
    /\ self.at = "record" => StatementsOf(self.version) \subseteq schema
    /\ self.at = "commit" => \A v \in Versions : Ours(i, v)
    /\ self.at = "done" => \A v \in Versions : ledger[v] = "ours"

InstallInv ==
    /\ TypeOK
    /\ LedgerInv
    /\ NobodyElses
    /\ \A i \in Installers : Mine(i) /\ ViewHolds(i) /\ Stage(i)

\* A save counts its rows, and what has no archive never has all of them.
SaveInv ==
    /\ SaveTypes
    /\ \A r \in Runs :
        /\ saver[r].at = "idle" => saver[r].rows = 0
        /\ saver[r].at = "targets" => saver[r].rows \in 1 .. (Len(Targets[r]) + 1)
        /\ saver[r].at = "commit" => saver[r].rows = RowCount(r)
    /\ \A r \in OldRuns : stored[r] # RowCount(r)
    /\ RunsAreWhole

=============================================================================

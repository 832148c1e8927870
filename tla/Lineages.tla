------------------------------- MODULE Lineages -------------------------------
(***************************************************************************)
(* Migrating Cloud's database: alembic/env.py with compose_lineages of     *)
(* migration_lineages.py, run as `alembic upgrade heads` (make migrate),   *)
(* `alembic upgrade heads --sql` or `alembic downgrade <lineage>@base`.    *)
(*                                                                         *)
(* Each migrator is a process in an environment of its own: release says   *)
(* how many revisions of each lineage its distributions carry, 0 when a    *)
(* distribution is not installed.  It runs env.py from top to bottom, then *)
(* the revisions, in one PostgreSQL transaction (work) that Commit         *)
(* publishes.  The revision graph is built when the run needs it, not      *)
(* before: what env.py has not installed or appended by then is not in it. *)
(***************************************************************************)
EXTENDS Prerequisites

CONSTANTS
    Migrators,      \* concurrent alembic processes
    Releases,       \* environments that may be deployed
    Commands,       \* what a migrator is asked to do, see below
    Rank,           \* Alembic's walk over the lineages; equal ranks: any order
    MaxRedeploys,   \* bound: changes of the deployed release
    MaxFaults       \* bound: runs lost to a crash, a bad URL or a dead server

(* `upgrade heads`, the same with --sql, `downgrade <lineage>@base`. *)
Upgrades == {"heads", "sql"}

ASSUME LineagesAssumption ==
    /\ Releases \subseteq Schemas
    /\ \A r \in Releases : r["kernel"] > 0 /\ r["cloud"] = 1
    /\ Commands \subseteq Upgrades \cup Lineages
    /\ Rank \in [Lineages -> Nat]
    /\ MaxRedeploys \in Nat
    /\ MaxFaults \in Nat

VARIABLES
    applied,      \* the database: how far each lineage has been applied
    deployed,     \* the release new migrators run with
    pc, command, release,
    bound,        \* effects the kernel's resolver has an answer for
    selected,     \* modules the kernel knows the plane of
    locations,    \* lineages in the live ScriptDirectory
    read, work,   \* heads read at the start; heads as the transaction leaves them
    redeploys, faults

vars == <<applied, deployed, pc, command, release, bound, selected, locations,
          read, work, redeploys, faults>>
job == <<command, release>>
environment == <<bound, selected, locations>>
transaction == <<read, work>>
bounds == <<redeploys, faults>>

TypeOK ==
    /\ applied \in Schemas
    /\ deployed \in Releases
    /\ pc \in [Migrators -> {"idle", "bind", "select", "compose", "connect", "run"}]
    /\ command \in [Migrators -> Upgrades \cup Lineages]
    /\ release \in [Migrators -> Releases]
    /\ bound \in [Migrators -> SUBSET DOMAIN Bindings]
    /\ selected \in [Migrators -> SUBSET Modules]
    /\ locations \in [Migrators -> SUBSET Lineages]
    /\ read \in [Migrators -> Schemas]
    /\ work \in [Migrators -> Schemas]
    /\ redeploys \in 0..MaxRedeploys
    /\ faults \in 0..MaxFaults

Init ==
    /\ applied = Base
    /\ deployed \in Releases
    /\ pc = [m \in Migrators |-> "idle"]
    /\ command = [m \in Migrators |-> "heads"]
    /\ release = [m \in Migrators |-> deployed]
    /\ bound = [m \in Migrators |-> {}]
    /\ selected = [m \in Migrators |-> {}]
    /\ locations = [m \in Migrators |-> {}]
    /\ read = [m \in Migrators |-> Base]
    /\ work = [m \in Migrators |-> Base]
    /\ redeploys = 0
    /\ faults = 0

(* Another set of distributions is installed; running processes keep theirs. *)
Redeploy ==
    /\ redeploys < MaxRedeploys
    /\ redeploys' = redeploys + 1
    /\ deployed' \in Releases \ {deployed}
    /\ UNCHANGED <<applied, pc, job, environment, transaction, faults>>

Running(m) == pc[m] # "idle"

(***************************************************************************)
(* An operator, a deployment or CI starts alembic.  Upgrades may overlap;  *)
(* unwinding a lineage is done alone, as CI does it.                       *)
(***************************************************************************)
Start(m) ==
    /\ ~Running(m)
    /\ \E c \in Commands :
        /\ \A other \in Migrators : Running(other) =>
                c \in Upgrades /\ command[other] \in Upgrades
        /\ command' = [command EXCEPT ![m] = c]
    /\ release' = [release EXCEPT ![m] = deployed]
    /\ locations' = [locations EXCEPT ![m] = {"cloud"}]   \* alembic.ini
    /\ pc' = [pc EXCEPT ![m] = "bind"]
    /\ UNCHANGED <<applied, deployed, bound, selected, transaction, bounds>>

(* The process ends, well or badly; what it had not committed is gone. *)
Exit(m) ==
    /\ pc' = [pc EXCEPT ![m] = "idle"]
    /\ bound' = [bound EXCEPT ![m] = {}]
    /\ selected' = [selected EXCEPT ![m] = {}]
    /\ locations' = [locations EXCEPT ![m] = {}]
    /\ read' = [read EXCEPT ![m] = Base]
    /\ work' = [work EXCEPT ![m] = Base]
    /\ UNCHANGED <<deployed, job, redeploys>>

-----------------------------------------------------------------------------
(* install_prerequisite_bindings(ASSEMBLY_PREREQUISITE_BINDINGS) *)
InstallBindings(m) ==
    /\ pc[m] = "bind"
    /\ bound' = [bound EXCEPT ![m] = DOMAIN Bindings]
    /\ pc' = [pc EXCEPT ![m] = "select"]
    /\ UNCHANGED <<applied, deployed, job, selected, locations, transaction, bounds>>

(* install_module_plane_selections(MODULE_PLANE_SELECTIONS) *)
SelectPlanes(m) ==
    /\ pc[m] = "select"
    /\ selected' = [selected EXCEPT ![m] = Selections]
    /\ pc' = [pc EXCEPT ![m] = "compose"]
    /\ UNCHANGED <<applied, deployed, job, bound, locations, transaction, bounds>>

(* _locations: the foundation, then every composed module. *)
Composed == {"kernel"} \cup Modules
Installed(m, l) == release[m][l] > 0

(* Mutation of ComposeLineages: a distribution that is absent is skipped. *)
ComposeInstalled(m) ==
    /\ pc[m] = "compose"
    /\ locations' = [locations EXCEPT ![m] = @ \cup {l \in Composed : Installed(m, l)}]
    /\ pc' = [pc EXCEPT ![m] = "connect"]
    /\ UNCHANGED <<applied, deployed, job, bound, selected, transaction, bounds>>

(* Mutation of ComposeLineages: version_locations is set where nobody reads it. *)
ComposeUnread(m) ==
    /\ pc[m] = "compose"
    /\ pc' = [pc EXCEPT ![m] = "connect"]
    /\ UNCHANGED <<applied, deployed, job, environment, transaction, bounds>>

(* compose_lineages appends every location to the live ScriptDirectory. *)
ComposeLineages(m) ==
    /\ pc[m] = "compose"
    /\ \A l \in Composed : Installed(m, l)
    /\ locations' = [locations EXCEPT ![m] = @ \cup Composed]
    /\ pc' = [pc EXCEPT ![m] = "connect"]
    /\ UNCHANGED <<applied, deployed, job, bound, selected, transaction, bounds>>

(* _locations raises ModuleNotFoundError before any connection is made. *)
LineageMissing(m) ==
    /\ pc[m] = "compose"
    /\ \E l \in Composed : ~Installed(m, l)
    /\ Exit(m)
    /\ UNCHANGED <<applied, faults>>

-----------------------------------------------------------------------------
(* The revision graph of m, as Alembic builds it from the live locations. *)
InGraph(m, l, n) == l \in locations[m] /\ n \in 1..release[m][l]

(* Every revision loads: its plane is chosen, what it names has an answer ... *)
Loads(m) ==
    /\ locations[m] \cap Modules \subseteq selected[m]
    /\ \A need \in Needs : InGraph(m, need.lineage, need.revision) =>
          need.effect \in bound[m]

(* ... and what it depends on is in the graph. *)
Resolves(m) ==
    /\ Loads(m)
    /\ \A l \in Lineages : \A n \in 1..release[m][l] : InGraph(m, l, n) =>
          \A k \in DependsOn(l, n) : InGraph(m, "kernel", k)

(* The database holds no revision this graph does not have. *)
Locates(m, heads) == \A l \in Lineages : heads[l] > 0 => InGraph(m, l, heads[l])

(* run_migrations_online reads the heads; offline there is nothing to read. *)
Heads(m) == IF command[m] = "sql" THEN Base ELSE applied

Connect(m) ==
    /\ pc[m] = "connect"
    /\ Resolves(m) /\ Locates(m, Heads(m))
    /\ read' = [read EXCEPT ![m] = Heads(m)]
    /\ work' = [work EXCEPT ![m] = Heads(m)]
    /\ pc' = [pc EXCEPT ![m] = "run"]
    /\ UNCHANGED <<applied, deployed, job, environment, bounds>>

(* An unanswered effect, a KeyError, or "can't locate revision". *)
Refuse(m) ==
    /\ pc[m] = "connect"
    /\ ~(Resolves(m) /\ Locates(m, Heads(m)))
    /\ Exit(m)
    /\ UNCHANGED <<applied, faults>>

-----------------------------------------------------------------------------
(* m has applied or removed revisions of l that nobody else sees yet. *)
Holds(m, l) == command[m] # "sql" /\ work[m][l] # read[m][l]

(* All that the next revision of l in m's run depends on is there ... *)
Possible(m, l) ==
    /\ InGraph(m, l, work[m][l] + 1)
    /\ \A k \in DependsOn(l, work[m][l] + 1) : work[m]["kernel"] >= k

(* Mutation of Ready: each run takes what is possible in an order of its own. *)
ReadyInAnyOrder(m, l) ==
    pc[m] = "run" /\ command[m] \in Upgrades /\ Possible(m, l)

(* ... and the walk over the graph comes to it next. *)
Ready(m, l) ==
    /\ pc[m] = "run" /\ command[m] \in Upgrades
    /\ Possible(m, l)
    /\ \A k \in Lineages : Possible(m, k) => Rank[l] <= Rank[k]

(* Another migrator committed revisions of l since m read the heads. *)
Overtaken(m, l) == command[m] # "sql" /\ applied[l] # read[m][l]

(* The same objects and version row, uncommitted elsewhere: PostgreSQL waits. *)
WaitsFor(m, other, l) ==
    /\ Ready(m, l) /\ ~Overtaken(m, l)
    /\ other # m /\ command[m] # "sql" /\ Holds(other, l)
Waits(m, l) == \E other \in Migrators : WaitsFor(m, other, l)

(* Mutation of Upgrade: nothing tells m that it is late. *)
UpgradeLate(m, l) ==
    /\ Ready(m, l)
    /\ ~Waits(m, l)
    /\ work' = [work EXCEPT ![m][l] = @ + 1]
    /\ UNCHANGED <<applied, deployed, pc, job, environment, read, bounds>>

(* One revision's upgrade(), and its row of alembic_version. *)
Upgrade(m, l) ==
    /\ Ready(m, l)
    /\ ~Overtaken(m, l) /\ ~Waits(m, l)
    /\ work' = [work EXCEPT ![m][l] = @ + 1]
    /\ UNCHANGED <<applied, deployed, pc, job, environment, read, bounds>>

(* What the revision creates exists already: the whole run is rolled back. *)
Clash(m, l) ==
    /\ Ready(m, l)
    /\ Overtaken(m, l)
    /\ Exit(m)
    /\ UNCHANGED <<applied, faults>>

(* All of S wait, each for another of S. *)
Stuck(S) == \A d \in S : \E e \in S, l \in Lineages : WaitsFor(d, e, l)

(* PostgreSQL kills one of those that wait for one another. *)
Deadlock(m) ==
    /\ \E S \in SUBSET Migrators : m \in S /\ Stuck(S)
    /\ Exit(m)
    /\ UNCHANGED <<applied, faults>>

(* `downgrade b@base` takes what depends on b with it. *)
Falls(m, l) ==
    /\ work[m][l] > 0
    /\ \/ l = command[m]
       \/ command[m] = "kernel" /\ \E n \in 1..work[m][l] : DependsOn(l, n) # {}

(* No revision that is still applied depends on the last one of l. *)
Leaf(m, l) ==
    /\ Falls(m, l)
    /\ l = "kernel" => \A d \in Lineages : \A n \in 1..work[m][d] :
          work[m]["kernel"] \notin DependsOn(d, n)

(* One revision's downgrade(), dependents first. *)
Downgrade(m, l) ==
    /\ pc[m] = "run" /\ command[m] \in Lineages
    /\ Leaf(m, l)
    /\ work' = [work EXCEPT ![m][l] = @ - 1]
    /\ UNCHANGED <<applied, deployed, pc, job, environment, read, bounds>>

(* Every revision the command asks for has run. *)
Finished(m) ==
    /\ pc[m] = "run"
    /\ IF command[m] \in Upgrades
       THEN \A l \in locations[m] : work[m][l] >= release[m][l]
       ELSE \A l \in Lineages : ~Falls(m, l)

(* What the database becomes when m commits. *)
Result(m) == [l \in Lineages |-> IF Holds(m, l) THEN work[m][l] ELSE applied[l]]

(* Mutation of Commit: a transaction per migration. *)
CommitEach(m) ==
    /\ pc[m] = "run"
    /\ applied' = Result(m)
    /\ IF Finished(m) THEN Exit(m)
       ELSE /\ read' = [read EXCEPT ![m] = work[m]]
            /\ UNCHANGED <<deployed, pc, job, environment, work, redeploys>>
    /\ UNCHANGED faults

(* begin_transaction() ends: one transaction for the whole run. *)
Commit(m) ==
    /\ Finished(m)
    /\ applied' = Result(m)
    /\ Exit(m)
    /\ UNCHANGED faults

(* No URL is installed, the server is gone, a revision raises, a crash. *)
Fail(m) ==
    /\ Running(m) /\ faults < MaxFaults
    /\ faults' = faults + 1
    /\ Exit(m)
    /\ UNCHANGED applied

Install(m) == InstallBindings(m) \/ SelectPlanes(m) \/ ComposeLineages(m) \/ LineageMissing(m)
Perform(m) ==
    \/ Connect(m)
    \/ Refuse(m)
    \/ \E l \in Lineages : Upgrade(m, l) \/ Clash(m, l) \/ Downgrade(m, l)
    \/ Deadlock(m)
    \/ Commit(m)
Next ==
    \/ Redeploy
    \/ \E m \in Migrators : Start(m) \/ Install(m) \/ Perform(m) \/ Fail(m)

Spec == Init /\ [][Next]_vars

(***************************************************************************)
(* `upgrade heads` is asked for again and again; a process does its next   *)
(* step, and PostgreSQL grants a lock to who waits for it, in the end.     *)
(***************************************************************************)
StartHeads(m) == Start(m) /\ command'[m] = "heads"
Fairness == \A m \in Migrators :
    /\ SF_vars(StartHeads(m))
    /\ WF_vars(Install(m))
    /\ SF_vars(Perform(m))
FairSpec == Spec /\ Fairness
-----------------------------------------------------------------------------
(* The schema m's own transaction sees, or its script has created so far. *)
Seen(m) == IF command[m] = "sql" THEN work[m] ELSE Result(m)

(***************************************************************************)
(* The effects that applied revisions need are in the schema, whole, at    *)
(* every step of every run and in what is committed: after overlapping     *)
(* upgrades of different releases, crashes and unwindings in any order.    *)
(* The receipt table is never granted to a role that does not exist, nor   *)
(* left behind by it.                                                      *)
(***************************************************************************)
SchemaIsSupported ==
    /\ Supported(applied)
    /\ \A m \in Migrators : pc[m] = "run" => Supported(Seen(m))

(***************************************************************************)
(* Why it holds: unwinding is done alone, a run has the whole graph, what  *)
(* it has done supports itself ...                                         *)
(***************************************************************************)
UnwindsAlone == \A m, other \in Migrators :
    Running(m) /\ Running(other) /\ m # other => command[m] \in Upgrades

Equipped(m) ==
    /\ pc[m] # "idle" => "cloud" \in locations[m]
    /\ pc[m] \in {"connect", "run"} =>
          locations[m] = Lineages /\ \A l \in Lineages : Installed(m, l)
    /\ pc[m] = "run" => Loads(m) /\ Supported(work[m])
    /\ pc[m] # "run" => work[m] = read[m]

(* ... an upgrade only adds, to lineages that nobody has committed since ... *)
Upgrading(m) ==
    pc[m] = "run" /\ command[m] \in Upgrades => \A l \in Lineages :
        /\ read[m][l] <= work[m][l]
        /\ command[m] = "heads" =>
              /\ read[m][l] <= applied[l]
              /\ Holds(m, l) => applied[l] = read[m][l]

(* ... unwinding only takes away what it was asked to ... *)
Unwinding(m) ==
    pc[m] = "run" /\ command[m] \in Lineages =>
        /\ read[m] = applied
        /\ \A l \in Lineages :
              /\ work[m][l] <= read[m][l]
              /\ Holds(m, l) => l = command[m] \/ command[m] = "kernel"

(* ... and no two runs hold revisions of one lineage. *)
HeldOnce == \A m, other \in Migrators, l \in Lineages :
    Holds(m, l) /\ Holds(other, l) => m = other

(***************************************************************************)
(* The inductive invariant: whichever run commits, fails or is killed      *)
(* next, the committed schema supports itself.                             *)
(***************************************************************************)
IInv ==
    /\ TypeOK
    /\ Supported(applied)
    /\ UnwindsAlone
    /\ \A m \in Migrators : Equipped(m) /\ Upgrading(m) /\ Unwinding(m)
    /\ HeldOnce

(***************************************************************************)
(* If Alembic walks the lineages in one order, overlapping upgrades of     *)
(* whatever releases never wait for one another in a circle: PostgreSQL    *)
(* has no deadlock to break, and nobody who deploys at once is killed for  *)
(* it.  The walk may come to the foundation before or after what needs it. *)
(***************************************************************************)
OneWalk == \A k, l \in Lineages : Rank[k] = Rank[l] => k = l
NoDeadlock == OneWalk => \A S \in SUBSET Migrators : S # {} => ~Stuck(S)

(***************************************************************************)
(* Why: what m has taken it took when it could, and before whatever the    *)
(* heads it read already made possible and it has not come to yet.         *)
(***************************************************************************)
Offered(m, l) ==
    /\ InGraph(m, l, read[m][l] + 1)
    /\ \A k \in DependsOn(l, read[m][l] + 1) : read[m]["kernel"] >= k

TakenInOrder == \A m \in Migrators, l \in Lineages :
    pc[m] = "run" /\ command[m] = "heads" /\ Holds(m, l) =>
        /\ InGraph(m, l, read[m][l] + 1)
        /\ \A k \in DependsOn(l, read[m][l] + 1) : work[m]["kernel"] >= k
        /\ \A other \in Lineages : Offered(m, other) /\ ~Holds(m, other) =>
              Rank[l] <= Rank[other]

(***************************************************************************)
(* `alembic upgrade heads` reports success only when every owner's schema  *)
(* is there, at least as far as this release carries it, and a script made *)
(* with --sql is as whole: no absent distribution is ever skipped.         *)
(***************************************************************************)
Succeeds(m) == Commit(m) /\ command[m] \in Upgrades
Outcome(m) == IF command[m] = "sql" THEN work[m] ELSE applied'
SuccessIsWhole == [][\A m \in Migrators : Succeeds(m) =>
    \A l \in Lineages : Outcome(m)[l] > 0 /\ Outcome(m)[l] >= release[m][l]]_vars

(***************************************************************************)
(* The database goes from one whole schema to another: no overlap, failure *)
(* or late commit undoes an upgrade or leaves half of one behind.          *)
(***************************************************************************)
Promise == INSTANCE SchemaPromise
KeepsTheSchemaPromise == Promise!Spec

(***************************************************************************)
(* A release whose distributions are all there, whose effects have answers *)
(* and which is not older than the database is installed in the end,       *)
(* whatever the runs before it left behind.                                *)
(***************************************************************************)
Sound(r) ==
    /\ \A l \in Lineages : r[l] > 0
    /\ \A need \in Needs : r[need.lineage] >= need.revision =>
          /\ need.effect \in DOMAIN WholeAt
          /\ r["kernel"] >= WholeAt[need.effect]
Outdated(r) == \E l \in Lineages : applied[l] > r[l]
Installs(r) == \A l \in Lineages : applied[l] >= r[l]
SoundReleaseIsInstalled ==
    <>[](Sound(deployed) /\ ~Outdated(deployed)) => []<>Installs(deployed)
=============================================================================

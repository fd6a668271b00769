# galera-doctor in TLA+

`galera-doctor` reads the nodes of one or more Galera clusters over SQL, compares
what they say with each other, with the previous run and with the proxy in front
of them, and prints findings. It writes nothing to a cluster. What it keeps is
one JSON file, the `--state` file, which holds counters and verdicts so that the
next run can grade an interval instead of a lifetime.

The hard part is not any single check. It is that a report is made from answers
of different moments, some of which did not come, compared with a baseline of an
earlier process that may have died half way, over servers that restart and groups
that split in between. A wrong report looks like a right one. The properties here
are about that.

## The parts

| Part | Source | State it keeps | Operations | What makes it correct |
|---|---|---|---|---|
| Command line, main loop | `cmd/galera-doctor/main.go` | targets, the baseline `prev`, in a watch the statuses of the last tick | `runOnce`, `watch`, exit | each pass is graded against the one before; what was saved is what was read |
| State cache | `internal/state/state.go` | the file: nodes and findings under `cluster/…` keys | `Load`, `New`, `Merge`, `Scope`, `Since`, `Save` | a node is compared with itself, over a real interval, or not at all; an interrupted save leaves the old file |
| Collector | `internal/cluster/collect.go` | one snapshot per node | `CollectAll`, `Collect`, `AskBackup` | complete, in order, in time; a failure costs one part of one node |
| Audit | `internal/audit/audit.go` | none (a report per cluster) | `Run` and about forty checks | no alarm without a cause, no silence with one |
| Findings | `internal/finding/finding.go` | none | severity, sorting, worst | – |
| Output | `internal/output/output.go` | none | `Text`, `Changed`, `Statuses`, `JSON`, `Findings` | a watch prints what moved, all of it, and nothing else |
| ProxySQL | `internal/proxysql/proxysql.go` | one snapshot of the admin interface | `Collect`, `Audit` | a disagreement is one between the proxy and the cluster |
| Configuration | `internal/config/config.go` | none | `Load`, validation | – |

Calls go one way: `main` loads the state, and per cluster collects, asks the
backup question, audits against the scoped baseline, appends the proxy's findings
and merges the new state; then it saves, and prints. The concurrency is in
`CollectAll` (a goroutine per node, one slice, a channel of completions) and in
the world: servers work, restart, leave and join while they are read, processes
are killed, and several processes can be given one file.

## The modules

| Module | Models | Extends / uses |
|---|---|---|
| `StateCache` | `New`, `Merge`, `Scope`, `Since` as operators, names as paths | used by `Rates`, `Transitions` |
| `Rates` | servers with counters, uptime and boots; processes that load, read, grade, save, watch and die | `StateCache` |
| `RatesProofs` | theorems about `Rates` | `Rates`, TLAPS |
| `Transitions` | the verdicts of runs and watches: `carry`, `changes`, `Statuses`, `Changed` | `StateCache` |
| `Collector` | `CollectAll`, the queries of `Collect` one by one, `AskBackup`, `coverage` | – |
| `StateRegister` | what a state file promises: a register | – |
| `StateFile` | `Load` and `Save` one system call at a time, refining `StateRegister` | instance of `StateRegister` |
| `StateFileProofs` | theorems about `StateFile` | `StateFile`, TLAPS |
| `Membership` | `clusterIdentity`, `membership`, `nodeState`, `membershipView` over a group that splits, merges and is bootstrapped while it is read | `Snapshot` |
| `ProxySQL` | `proxysql.Collect` query by query and `proxysql.Audit`, over nodes, servers and a monitor that change while they are read | `Snapshot` |
| `MembershipProofs` | theorems about `Membership` | `Membership`, TLAPS |
| `ProxySQLProofs` | theorems about `ProxySQL` | `ProxySQL`, TLAPS |
| `Snapshot` | the names a node answers to, findings | used by `Membership`, `ProxySQL` |
| `Clocks` | `clockSkew`, `backupFreshness`, `longTransactions`, the readings they subtract and the thresholds of `validate`, over clocks that disagree | – |
| `ClocksProofs` | theorems about `Clocks` | `Clocks`, TLAPS |
| `CollectorProofs` | theorems about `Collector` | `Collector`, TLAPS |
| `TransitionsProofs` | theorems about `Transitions` | `Transitions`, TLAPS |
| `Drift` | `sysTableDrift`, `schemaDrift` and the reads they compare, over servers whose schemas change | – |
| `Settings` | `quorumSettings`, `peerList`, `autoIncrement`, and what becomes of a cluster with these settings | – |
| `ConfigurationProofs` | theorems about `Drift` and about `Settings`: what the nodes were set up with | `Drift`, `Settings`, TLAPS |

The same code appears in several modules at different grain: a save is one step
in `Rates` and `Transitions`, several in `StateFile`, and `StateFileProofs` is
why one step is enough where saves do not overlap. A read is two steps in `Rates`
(the time is stamped, then the status answers) and all of its queries in
`Collector`.

**State and actions against the code.** In `Rates`, `file` is the state file,
`prev` and `merged` are `main`'s variables of these names, `snaps` the snapshots
of the clusters read so far, `graded` and `restarted` the part of the report that
depends on the baseline. `graded` has one element per check and counter that was
graded, with the movement it rests on: `FlowControl` of each node, `Certification`
of nodes with both baselines that originated a writeset, `Writers` of all nodes that
were read or of none, `GCache` of nodes that tell a size (`Sized`) and wrote bytes. A
file that gives no baseline is `NoFile`, whether it is missing, of another format or
does not parse: `main` treats them alike except for a message. `Start`, `Stamp`,
`Fetch`, `FailRead`, `Audit`, `Save`, `NextPass` and `Kill` are the steps of a process, `Tick`, `StepBack`,
`Work` (which moves several counters at once, as a writeset does), `Restart`,
`FlushStatus`, `Answer` and `LoseFile` the world. Every
reading carries in `seen` what the server really was at that moment; no code
reads it, the properties do. In `Transitions` a verdict is a sequence of statuses
under a key, the program's state is `file`, `prev`, `merged`, `statuses`, and
`told` is what a reader of a watch believes. In `Collector`, `at` is the query a
goroutine is at, `left` its time, `local` its snapshot, `snaps` the shared slice
and `done` the channel. In `StateFile` a file is an inode and names are pointers
to inodes, so that a process can go on writing to a file that has been renamed;
`Load` tells a missing file, which is no error, from one that does not parse, and
`Holds` is the baseline `main` makes of either.
In `Membership`, `agreed` is the view a component of the group has agreed on,
`view` the one a node has installed, `status` and `members` its two answers. In
`ProxySQL`, `synced`, `rows` and `monitor` are what is true of the nodes and of
the proxy's tables, `snaps` and `proxy` what was read of them; the world moves
between any two reads, and `Follow` is the proxy's own monitor, which parks a node
that lost its sync in the offline hostgroup and takes it out again.
In `Clocks` a clock is real time plus an error: `host` is that of the auditing host,
`skew` those of the servers, and the program's variables (`optNow`, `snap`, `answer`,
`declared`) hold only what clocks said; `truth` remembers when they were asked. A
behaviour is one of the two conversations of a pass, `CollectAll` or `AskBackup`,
which share no state. In `Drift` a definition is the sequence of changes a table went
through, so that two nodes have one definition exactly if the same changes succeeded
in the same order; `settled` is how far a node has applied the common order. In
`Settings` the first five variables are what the nodes are configured with, `live`
the nodes the audit reads, and `components` the cluster it is about, of which only
what the hints of these checks say of Galera is modelled (marked external in `map`).

## The runs

| Run | Question | Bounds |
|---|---|---|
| `Rates` | Is every node graded against itself, over the last interval, and does each counter check say all that two passes allow, with two clusters in one file whose names nest (`eu`, `eu/x`)? | 3 passes, 2 seconds, two nodes in `eu` and one in `eu/x`, one of which writes one writeset, no reset, a clock that may be set back between passes |
| `RatesOneNode` | Does a rate ever claim more than the server did, and is `node/restarted` ever false? | one server, 2 passes, 2 units of work that all four counters count, 1 reset, 3 seconds, a clock that may be set back at any time |
| `RatesRestarted` | *violated:* a node reported as restarted is not graded | as above |
| `Transitions` | Do the lines of a watch and `audit/changes` say exactly what moved, and in the right direction? | two clusters, each with a proxy, 3 passes, 2 changes of the world |
| `Collector` | Does a node that hangs, refuses or breaks off cost anybody else anything; is every gap said; does the pass end? | two nodes, a timeout of one tick, one fault, any point of any read |
| `StateFile` | Is the file a register under kills and failed saves? | two processes, 3 runs each, documents of 2 blocks, the file deleted twice |
| `Membership` | Does a clean report mean one group, is a split always `BAD`, is a healthy group left alone, is a member that was not audited named? | two nodes, an arbitrator, 2 or 3 members expected, 3 changes of the group |
| `ProxySQL` | Is traffic to a node that is not synced found, is a proxy that follows its nodes left alone, and does a clean report mean it follows them? | two nodes, each in any of five sets of hostgroups under either of two names, 2 changes and any moves of the monitor |
| `Clocks` | Are a skew, the age of a backup and the age of a transaction what they really are, to within what the code cannot know? | two servers, 2 ticks per node and conversation, one step of the host's clock, errors up to 5 |
| `ClocksZone` | *violated:* a backup in the future is a clock that is ahead | as above, all clocks right, a `DATETIME`, servers ahead of UTC |
| `Drift` | Is a difference that stands reported, and does everything reported have a cause? | three nodes, two application tables and one of `mysql`, 1 of them listed, 2 changes, one node that denies |
| `Settings` | Where quorum and peers have no finding, does the cluster ever take writes twice; does a node said to hold a majority keep it; are ids said to be distinct distinct? | three nodes, weights 0 to 3, one odd node, any splits and restarts |

Why the bounds are enough. A baseline is one pass old, so what a third pass is
graded against shows every way of keeping, dropping or confusing an older one;
two clusters are enough for one to be read under the other's prefix, and two nodes
in one of them for one to be read, or to have a baseline, where the other has not,
which is what `writers` depends on. Two seconds make one interval to grade; it lies
between the first two passes or the last two. A node that writes and one that does
not tell `Certification` and `GCache` apart from a mere baseline. A movement
is a difference of two readings: one reset before, between or after two units of
work gives each order of the two. One fault in `Collector` is put at each of the
queries of either node, and two nodes are enough for one to disturb the other. In
`StateFile` two blocks make a document that is half written; three runs let two
saves be interrupted before one succeeds. In `Membership` three changes split
the two nodes and bootstrap both halves, the state in which no comparison between
the nodes helps, and the group may begin without its arbitrator. In `ProxySQL` two
changes let a node lose its sync and the monitor stop, or a node turn and a server
be shunned, before or after any of the reads; a node in both serving hostgroups has
two rows that can disagree with it, and the list of servers may break off after any
of its rows. In `Clocks` two ticks put a wait before, between and after the two readings
a difference is made of; the errors reach each of the grades of `node/clock`, whose
thresholds are 2 and 4, in either direction, and the declarations each of the branches
of `validate`. In `Drift` two changes are enough for two orders of one table, for two
tables (one more than is listed) and for a repair that repeats what another node has;
the third node makes a majority, which the code does not ask for. In `Settings` the
weights reach more than half, exactly half and 0 in a sum that is odd or even; the
state space of splits and restarts is finite and is explored to its end.

The properties of `ProxySQL` are about passes in which the nodes and the proxy stood
still (`Stands`): the code compares what it read at four moments as if they were one,
and where something moved in between it does report a disagreement nobody had. The
run has those behaviours too; nothing is claimed of them but `TypeOK`.

`NoSilence` in `Rates` asks of each check what that check can say, and no more: one
node that was read and has no baseline leaves `repl/writers` of its whole cluster
ungraded, a node that originated nothing has no conflict ratio, and one that wrote no
bytes or tells no size no window. A node that was not read is no excuse for the others.

What the properties of `Clocks`, `Drift` and `Settings` allow the code: `SkewIsReal` a
round trip and the steps of the host's clock, `AgesAreReal` the error between the two
clocks a difference is taken of and the time zone, `DriftIsExplained` a change on its way
while the nodes are read; `NoSplitBrain`, `MajoritySurvives` and `IdsAreDistinct` are
about passes that read every node.

In `Membership` `expect_nodes` is chosen when the pass is configured. `CleanMeansOneGroup`
is claimed where it is more than half of the servers there are: where it is what half of
them amount to, each half is what was asked for. `SplitIsGraded` is claimed where it is
all of them; with a mere majority of it a node that has not noticed yet that it was left
behind, and the new group without it, differ in the configuration id alone, a `WARN`.

Deadlock is checked in every run of `Rates`, `Transitions`, `Collector`, `Clocks` and
`Drift` (the end of the last three is a step of its own, `Terminating` or `Done`). In
`Settings`, whose cfg says `CHECK_DEADLOCK FALSE`, a cluster that is wholly down stays
down until somebody bootstraps it. In `StateFile`, `Membership` and `ProxySQL` the cfg says `CHECK_DEADLOCK FALSE`: the model stops when its bounds are used up or its one
pass is over, which says nothing of the program.

**Fairness** is assumed only in `Collector`: that time passes, a goroutine whose
context is done gets its error and delivers its snapshot, and the caller goes on.
That is the Go scheduler and its timers. Nothing is assumed of a server: it need
not ever answer, refuse or fail. `Returns` holds because of the timeouts alone.

## What is proved

For every value of the constants that satisfies the modules' assumptions:

* `RatesProofs`. `TypeCorrect`; then `Invariant`, of which the rest are
  consequences: `NothingInvented`, `ExactMovement`, `ComparedWithItself`,
  `GradedOverItsInterval`, `NoFalseRestart`, `NothingSilent`. The properties speak of the report
  only and are not inductive: what is reported comes from snapshots and a
  baseline. The invariant says of every entry there is (in the file, in `prev`,
  in `merged`, in a snapshot) that it is what its own server answered at one
  moment that is not later than now, in the pass it is tagged with, and that the
  file, the baseline and the passes of a process agree on which pass that is.
  `NothingSilent` needs more (`WatchInv`): that what one pass of a watch answered is
  still there, under the same stamp, in `merged` and then in the baseline its next
  pass compares with. From it `AuditSaysAll` shows of each check of a cluster that it
  grades what `SaysAll` asks of it, for `writers` of all nodes that were read at once,
  and `SaysAllKept` that no later step of the pass takes it back. The assumption the theorems need is that no `/` in a name makes two servers share a key; the
  code does not check that.
* `StateFileProofs`. `TypeCorrect`, whatever runs overlap. As long as no two saves are
  under way at once (`[]SavesApart`, a hypothesis of the theorems), `WholeAnyway` and
  `RegisterAnyway`: the file implements `StateRegister`. Where no two runs overlap no two
  saves do, which gives `AlwaysWhole` and `FileIsRegister`, the refinement the run checks.
  The invariant (`Kept`) has three parts besides the types: the file and the temporary
  file are not one inode; who writes has the temporary file open and has written a prefix
  of its own document to it; what the name denotes is a whole document of an earlier run.
  Together they make a rename a `Replace` of the register and everything else a `Load`, a
  `Lose` or a stutter. `Overlap` is a constant because the code enforces neither: two
  processes use one `path.tmp`, and where one opens it while the other writes, one
  document truncates the other and either may be renamed. A watch and a run by hand may
  well overlap, and do no harm unless their saves do.

* `ClocksProofs`. `TypeCorrect`, `SkewReported`, `AgesReported`, from `Invariant`: what
  the program holds is what the clock it asked said at the moment it asked (so `now`,
  `at` and `clock` are real times plus errors), the errors of any two stamps differ by
  no more than the steps of the host's clock, and the report is made of these readings
  once nothing moves any more. The spread of the readings is then compared with that of
  the clocks through the servers at which either is largest and smallest;
  `LargestExists` is the lemma that there are such, by a smallest set without one.
* `CollectorProofs`. Every safety property of `Collector`: `TypeCorrect`,
  `CollectedAll`, `CollectedOnTime`, `PartialKept`, `CoverageIsHonest`,
  `BackupOfFirst`. The invariant has six parts. `Types`. `Built`: a snapshot holds
  no answer beyond the goroutine's place in `Queries`, and all of them up to it
  unless something was lost; since no query is sent twice (`QueriesOnce`, whichever
  reads are skipped), a mandatory one that failed is never in it. `Counted`: the
  completions taken plus those in the channel are as many as the snapshots in the
  slice, so N taken means N there. `Timed`: the nodes that are still read have the
  same time left, so the clock moves at most `Timeout` times. `Asked`: the nodes
  before the one that is asked refused. `Covered`: the finding is made of the slice
  as it is at the end. Two more theorems are the safety half of `Returns`.
  `StepsAreSpent`: every step leaves less `Work`, a natural number that counts the
  phases ahead, the nodes to ask, the queries without an outcome, the snapshots to
  deliver, the completions to take, and the timers and ticks of the collection and of
  each round of `AskBackup`; a fresh timeout for the next node therefore counts as
  spent from the start. `AlwaysDue`: before the end the guard of a step that `Spec` is
  fair to holds. A pass of finitely many steps that cannot stop short of its end ends,
  whatever the timeout and however many nodes hang. TLC checked both on the instance
  of the run `Collector`.
* `TransitionsProofs`. `TypeCorrect`, and, where a report has one finding under a key
  (`OneFinding`, a hypothesis of the theorems, not an assumption of the module),
  `WatcherIsTold`, `QuietTicks`, `ChangesTold`. Two facts carry them. About names:
  under its own prefix a cluster finds its own keys only (`PrefixIsOwn`), and no two
  findings are spelled alike (`KeysDiffer`), both from the assumption that no name is
  another one's and a `/`. About states: `Holds` says that a map has the last status
  of each key of the reports it was made of and nothing else; it is true of the file,
  the baseline and the map a pass builds, at every step, and is kept by `Merge` and
  read back by `Scope`. A watch carries the statuses of the tick it printed last
  (`Watched`), and what its reader knows is what it carries (`Agreed`).
* `MembershipProofs`. Every property of `Membership`: `TypeCorrect`, `CleanIsOneGroup`,
  `SplitIsBad`, `QuietIsQuiet`, `UnauditedNamed`. `CleanIsOneGroup` is about answers of
  different moments, and is where the invariant is needed. `Whole`: the members of the
  view of a server that runs are the servers that run and have agreed on it. `Ordered`:
  no member of a Primary view that anybody holds (agreed on, installed or read) has
  agreed on anything before it. `Unique`, which follows step by step from the two: two
  Primary views with a member in common have different state uuids or configuration ids,
  or are one view. Every change of the group is brought into one form (`Moves`): a server
  stays, goes on to a later view together with all of its members, or comes back alone
  and not Primary. Then two nodes with one uuid, one configuration id and the expected
  size, more than half of the servers, have a member in common and one view
  (`HalvesMeet`).
* `ProxySQLProofs`. Every property of `ProxySQL`: `TypeCorrect`, `TrafficIsSynced`,
  `MissingIsMissing`, `FollowedIsLeftAlone`, `CleanIsFollowed`. The invariant (`Faithful`)
  says of each part of the snapshots that it is so while nothing has happened since the
  pass began, and that the report is made of them. What is left is about the report: a
  row of a serving hostgroup is matched with its node (`ServingMatched`), and where the
  mapping was read nothing else is (`MatchedServes`).

* `ConfigurationProofs`, on `Drift`. Every property of it: `TypeCorrect`, `DriftFound`, `DriftHasCause`.
  `Made` says what a definition consists of: its beginning, the changes of the table
  that its node went through except failed ones, and nothing else, in increasing order
  where the table's changes have one order. `InTurn`: a node goes through the replicated
  ones in turn. `Grown`: a definition only grows, so what was read of it lies between
  the one at the beginning of the pass and the present one, and is both where these are
  equal. Two increasing sequences of the same numbers are one sequence (`SameOrder`), so
  where nothing explains a difference all nodes have one definition (`OneDefinition`) and
  the table is not named; and a table that stands differs in what was read as it does
  in fact (`DifferenceDrifts`), so it is named or counted.
* `ConfigurationProofs`, on `Settings`. Every property of it, for any number of nodes and
  any weights, peers, switches and ids: `SettingsTypeCorrect`, `NoSecondWritable`,
  `MajorityIsKept`, `FirstIdsNeverMeet`. Three more are stated of the steps of the
  cluster, and no run lists them: `PrimaryHandedOn` (where the quorum and the peers have
  no finding, a component becomes Primary only from a Primary one it shares a member
  with), `MajorityTakesAll` (where the node that alone holds a majority dies, its
  component is Primary no more) and `EqualLosesOne` (where the weights are said to be
  equal, more than two nodes outlive any one of them). Votes are a set, `weight[n]` of
  them for each node, so that the weights of disjoint parts add (`WeightsAdd`) and of the
  two sides of a split at most one has more than half (`OneSide`). The properties are not
  inductive: what is said speaks of the settings, what is true of the components. The
  invariant (`SettingsInv`) has what is said follow from the settings (`Told`), and says
  of the components what the settings give: `OnePrimary` where nobody may take writes
  without a quorum or begin a cluster (`Sound`), and `MajorityKept` of every node with
  more than half of all votes that was never stopped. `OnePrimary` has no word on the
  weights, and needs none: a Primary component only ever comes of another one. Each action
  of the cluster replaces some components by others; `Lawful` says what such a change
  must be to keep the invariant, and each action is shown to be one. `IdsNeverMeet` is
  about all rows, of which `IdsAreDistinct` counts the first: two sequences of one step
  that begin at different places within it never meet (`NeverMeet`).


`ConfigurationProofs` extends two components that have nothing in common: their
constants and variables are disjoint (the names of `Settings` are its own for that
reason), each theorem uses the assumption of its own component only, and `DriftAssumption`
is hidden where those of `Settings` begin.

What is model-checked only is liveness, the one property `Returns` of `Collector`: it and
`ENABLED` are out of the proof system's reach. `StepsAreSpent` and `AlwaysDue` are what
can be proved of it; that the guards of `Due` enable the fair actions, and the step from
the two theorems to `Returns`, are an argument on paper.

## What the models disagree with

Two statements of the documentation or of a hint do not hold of the code; the runs
marked *violated* show them and `PROJECT.json` quotes the lines. Worth knowing
besides, with no run of their own:

* with two findings under one key (two links of `repl/async-in`) of different statuses
  a watch prints a line on every tick, though nothing changed (`docs/usage.md:115`);
* `audit/changes` is made before the proxy's findings join the report and names none
  of them (`docs/checks.md:408`: what moved since the previous run);
* "every check ran" although optional reads failed: the two replication reads are one
  gap only when both failed, and other reads are no gap at all;
* where the mapping of the proxy's hostgroups cannot be read, the hostgroup the monitor
  parks nodes in is graded (`docs/checks.md:579`: its contents are never a finding);
* `--no-systables` and `--no-schema` give every node a `WARN` that its definitions were
  not read and that the audit user needs `SELECT`;
* the addresses a peer list is held against include the node's own, so a node whose
  list names only itself, which cannot rejoin, has no finding (`docs/checks.md:377`);
* `repl/auto-increment` says `OK` of steps that differ or offsets beyond the step, with
  which ids do collide;
* the arbitrator votes but is not read, so a node said to hold a majority alone may
  not; the model of `Settings` has none;
* the hint of a weight of 0 says that losing one of the other nodes is losing quorum
  (`src/internal/audit/audit.go:865`): that is so of three nodes, not of more;
* the age of a transaction is measured on this host's clock at the beginning of the
  pass, against a `DATETIME` of the server; only the backup is asked for the server's;
* `bad_after` below the default of `warn_after` is refused where `warn_after` is left
  out;
* where every node has the `wsrep_info` plugin, each half of a split lists itself,
  so the `BAD` of `cluster/membership-view` is never raised;
* a proxy hostgroup that has lost all its servers has no row and is not graded;
* the baseline of an unread node is dropped, not kept;
* `audit/coverage` names a missing baseline only where there is no previous state at
  all, so a cluster that is new to a shared file is said to have had every check run
  (`docs/checks.md:471` says a missing baseline is named);
* the state is saved before the reports are printed, not after (`docs/usage.md:139`),
  so a run that dies in between leaves a baseline nobody was shown.

## What is not modelled

* Formatting, wording and the renderers: no property is about them.
* Flag parsing, exit codes and `validWatch`: straight-line code with tests.
* What a query computes from its rows (sizes, replica links, the text of a fingerprint).
* The checks that compare one setting of one set of snapshots (SST readiness, durability,
  segments, flow control and the like): no order of steps is in them, and they have
  unit tests.
* The thresholds of the counter checks and what they compute (a share, a ratio, the
  minutes a gcache holds) and the latencies of replication: arithmetic over one snapshot
  or over the deltas of `Rates`. That a check grades, and which deltas, is modelled.
* An `information_schema` that is filtered by privilege and answers short without an
  error: a denial in `Drift` is a query that fails, as `docs/checks.md` takes it.
* Galera itself, beyond what `Membership` and `Settings` need of it.
* A power failure (`Save` does not sync): it costs a baseline, as a deleted file does.
* Servers that are not Galera nodes are told apart in `Collector` only.
* Scripts, site, packaging and CI.

## The plan

1. `ProxySQL` composed with `Membership`: the nodes of the proxy are those of a
   group that splits, and rows of servers that are no node of this cluster.
2. The values of the counter checks over `Rates`' deltas: the window of the gcache, the
   shares of the writers and their thresholds; the donors and the rejoin of `sst`.
3. An abstract cluster, of which `Settings` and `Membership` are two implementations: one
   Primary component, which only ever comes of another one.

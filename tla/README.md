# zsync: a verification project

TLA+ specifications of the Go program in `src/zsync-go` (with its predecessor,
the shell script in `src/bashclub-zsync`): TLC checks them on small instances,
TLAPS proves the most important results for every value of the constants.
`PROJECT.json` lists the runs, the lines of the source each definition
translates, the hazards and the theorems. Paths below are relative to
`src/zsync-go`.

## 1. The system

zsync is started by cron on a backup host. A run reads what snapshots a source
host has (over ssh) and what the local pool has, computes a plan, and executes
it: `zfs send | zfs receive` per snapshot, then `zfs destroy` of what exceeds
the retention. Nothing is stored between runs except the datasets themselves
and, after an interrupted receive, ZFS's resume token.

| component | state | operations | interacts with |
|---|---|---|---|
| `cmd/zsync/main.go` | phase of the run | discover source, discover target, build, execute, report, exit | all of the below, in order |
| `internal/config` | the configuration | Load, defaults, Validate | read by all |
| `internal/replication/discovery.go` | two listings | DiscoverSource, DiscoverTarget | ZFS client; the plan works on the listings, not on the hosts |
| `internal/replication/plan.go`, `state.go` | none (pure) | Build, buildDatasetPlan, buildCleanup, trimForInitial | listings in, plan out |
| `internal/replication/execute.go` | results per dataset | Execute, executeInitial, executeReinitialize, executeIncremental, executeCleanup | plan in; SendReceive, rename, destroy |
| `internal/zfs/client.go` | loop over the attempts | SendReceive, getResumeToken, single zfs commands | executors |
| `internal/exec/exec.go` | processes, goroutines, pipe, byte count | runPipe | ssh, zfs |
| `internal/zabbix/status.go` | status file on one of two hosts | buildReport, publish | results, a second listing of the target |
| `internal/checkzfs/checkzfs.go` | spool file on one of two hosts | Run, spoolLocally, spoolToSource | checkzfs |
| ZFS on both hosts (external) | snapshots, resume token, names | send, receive, destroy, rename | also changed by the source's own rotation |

What is hard about it:

* **Stale state.** The plan is made from listings. The source goes on taking
  and destroying snapshots between the listing and every later send; the
  receive rolls the target back (`-F`), so that the target at cleanup is not
  the target the cleanup was planned for.
* **Partial failure and retries.** A stream can be cut anywhere, also after its
  last byte, when the receiver has committed and the sender says it failed. A
  cut receive leaves a token that changes what the next attempt, the next
  snapshot and the next run can do.
* **Crashes.** A run can die between any two commands; the next run must make
  sense of what it finds.
* **Interleaving.** `runPipe` runs two processes, two goroutines of its own and
  two of `os/exec`, connected by three pipes, and must neither hang nor report
  success too early.
* **Publication.** The status is read by an agent at any time while runs
  replace it, on temporary names that may be unique to a run or shared by all.
* **The tree.** Datasets are replicated one by one, but a rename takes what lies
  below along, and nothing can be received below a dataset that is not there.
* **Overlapping runs.** Nothing keeps two runs apart: cron starts the next one
  while a long transfer is still under way, and each works from its own listing.
* **Retention arithmetic** per filter entry, with entries that may overlap.

What makes each component correct:

* configuration: what Load accepts meets what the rest takes for granted, and a
  run never reads what it writes;
* discovery: the datasets the tags select are the ones that are replicated, and
  what happens to one of them is not lost on the report of another;
* plan: the base is the newest snapshot both sides have; the cleanup never
  takes what min_keep protects, nor the newest snapshot;
* execution: a dataset without a reported error has the newest snapshot; no
  cleanup without a sync; the possibility of incremental replication is never
  lost; repeated runs converge;
* SendReceive: success means that *this* snapshot arrived; at most
  `1 + max_retries` attempts;
* runPipe: it returns; success means that the whole stream was received;
  nothing of an attempt runs on into the next one;
* monitoring: a status that says OK is not contradicted by the target, and one
  that does not has a reason; a reader never sees half a file; a run that
  reports no error has published its own results.

## 2. The modules

| module | what it is |
|---|---|
| `Config` | the configuration file: defaults, validation, and the constants of the other modules that an accepted file stands for |
| `PlanBuilder` | the plan as functions on *sets* of snapshots; every other module about replication builds on it |
| `PlanOnLists`, `MCPlanOnLists` | the plan as the code computes it, on slices, shown to be the same plan; what the dry run announces |
| `Zfs` | the external half: what send, receive and destroy accept and do |
| `Replication`, `MCReplication` | the state machine: runs, sends, attempts, cleanup, crashes, the source's rotation |
| `ReplicaSpec` | what replication promises, without listings, plans, attempts or phases; `Replication` implements it |
| `ReplicationInvariant` | the inductive invariants `IInv`, `KeepInv` and `RetainInv`, in named parts |
| `Hierarchy`, `MCHierarchy` | the datasets as a tree: tags, roots, parents that are missing or renamed away; with `resumable: false` |
| `HierarchyInvariant` | the inductive invariant `HInv` of Hierarchy, in named parts |
| `Overlap`, `TwoRuns`, `MCTwoRuns` | two instances of Replication on the same hosts, in any interleaving |
| `OverlapInvariant` | what holds of the hosts and of a run while another one is at work (`HostInv`, `RunInv`), in named parts |
| `RunPipe` | one attempt: processes, copying goroutines, waiting goroutines, select |
| `PipeSpec` | what SendReceive relies on; `RunPipe` implements it |
| `Status` | the Zabbix report as a function of the state Replication ends in |
| `Monitoring` | how the report and the spool file of checkzfs reach their readers, step by step, for several runs at once |
| `MonitoringInvariant` | the inductive invariant `MInv` of Monitoring, in named parts |
| `PlanProofs` | lemmas about the plan's operators |
| `ReplicationProofs`, `OutcomeProofs` | the proofs about Replication: what a run delivers; what its cleanup leaves, the abstract replica and the report |
| `OverlapProofs`, `TwoRunsProofs` | the proofs about two runs: what one run guarantees and relies on; both together |
| `HierarchyProofs` | the proofs about Hierarchy, and about the configuration a run starts with |
| `RunPipeProofs`, `MonitoringProofs` | the proofs about the modules of these names |

### Snapshots as numbers

A snapshot of a dataset is its position in creation order. Its GUID, which is
how the code compares snapshots of two hosts, is that number; a listing sorted
by creation is a set of numbers; "oldest" and "newest" are minimum and maximum.
What a name says is reduced to the set of filter entries whose pattern it
contains (`Match`), which is all the code asks of it (`strings.Contains`).
`PlanOnLists` undoes the step from slices to sets and TLC compares the two.

### Replication

| variable | in the code or on the hosts |
|---|---|
| `src`, `taken` | the source's snapshots; how many it ever had |
| `root`, `exists`, `snaps`, `token` | the target: root dataset, datasets, their snapshots, `receive_resume_token` |
| `old` | how many former replicas lie beside it as `-old`, `-old-2`, ... |
| `pc` | the phase: `main`'s and, inside `Execute`, what its loop is doing |
| `seen`, `plan` | `SourceState`, `Plan` |
| `blind` | history: in this run `DatasetExists` took a target root that is there for absent |
| `cur`, `queue`, `base`, `attempt`, `clean` | loop variables of Execute, executeInitial/Incremental, SendReceive, executeCleanup |
| `syncErr`, `cleanErr`, `execErr` | `ExecuteResult` and Execute's error |

One action is one command that reaches a host, or one step of the control flow
between two of them, so the source can change between any two of them. All
datasets are listed in one step: they do not influence one another, and the
order in which their listings are taken makes no difference to any of them.
`SendFails` is the connection that cannot be made, is lost, or is lost after
the last byte; `SendRefused` is the stream one of the two sides cannot start.
A resume token that cannot be read (`getResumeToken` fails) leads to a fresh
send, which a dataset with a partial receive refuses: to the model that is an
attempt that fails without effect. `Crash` is the death of the process at any
point, and an exit because a discovery command failed; a transfer under way may
still come to its end. One discovery command is different: `DatasetExists`
(`client.go:74-77`) takes every error of `zfs list` on the target root for its
absence, so the run goes on (`discovery.go:76-85`) with a plan that has every
dataset absent (`BuildWithoutTarget`), a *blind* run. Its `zfs create -p` of the
root finds it there and does nothing, or fails (`CreateRootFails`).

Assumptions about the environment, all in `Zfs`: a fresh stream is refused
while a partial receive is there; `-F` rolls back to the base when the stream
completes; a destroy of the base of a partial receive is refused. The parent of
a target dataset is assumed to exist, a rename to move one dataset only, and
the runs to follow one another: `Hierarchy` and `TwoRuns` do without these
assumptions.

### Hierarchy

`Parent` is the source's tree, numbered in the order of `zfs get -r`. `setup` is
what an administrator has arranged: the tag as set on some of the datasets (from
which `Property` computes what zfs reports for each), `source.datasets`, and the
datasets that exist below the target root before the first run. `Listed` is what
`DiscoverSource` returns, root by root; under overlapping roots a dataset is
listed more than once. `todo` holds the plans Execute has not finished with, and
`Current` is the one its loop is at, in the order of the list (`Order`); a plan
carries the root it is listed under and the number of the `-old` name that
`uniqueName` found free in the listing. The plans themselves are
`PlanBuilder`'s. Where Replication has a step per command, here all sends of one
dataset are one step that delivers all of them (`SendSucceeds`), a first part
because the source has lost a snapshot or a parent is missing (`SendRefused`), or
any part (`SendFails`), and so with the destroys: the detail within a dataset is
Replication's, the question here is what datasets do to one another. `blind` is
`DatasetExists` taking an error for absence. `carried` is a history variable: the
replicas that a rename of this run took along with the one above them.

Hierarchy is about `resumable: false` (the constant `Resumable`, which
`HierarchyAssumption` fixes) and about a source that rotates its oldest snapshot.
It has no tokens and no attempts: without tokens all attempts of a send are one
and the same stream, so that one step can stand for them. `resumable: true`,
which is the default, adds what the run `finding_wrong_token` and the paragraph on
misled runs in section 3 show, on any dataset of the tree.

External assumption: a child can be received below a parent that is there but
has no snapshot yet.

### TwoRuns

`Overlap` is one run of Replication that shares its hosts with another:
Replication's actions, restricted or extended where the other run makes a
difference. `name[d]` is the `-old` name chosen at the listing; a rename needs it
to be free still (`RenameRefused`). `ListArriving` is a listing that shows a
dataset the other run is just receiving; renaming it (`RenameReceiving`) is one
step with what becomes of the other's stream (`Diverted`). `Busy` is a receive
into a dataset that is being received into. `TwoRuns` instantiates it as `A` and
`B`, each with run variables of its own and with the other's phase and dataset as
`otherPc` and `otherCur`. What it instantiates is `OverlapProofs`, which is Overlap
together with what is proved about it, so that `TwoRunsProofs` can cite the lemmas
about either run. `overtaken` is a history variable: a replica was renamed, by the
other run, between a run's listing and its end. It stays TRUE, because what a run
that was overtaken has destroyed is still gone when the run is over.

### Config

A file is a record in which a field left out holds YAML's zero value, so that
`max_retries: 0` and no `max_retries` are one value, as they are to the code. A
dataset name is the sequence of its components; `Within` is the prefix test of
`Validate`. `MCReplication` takes its values of `MinKeep` from files by these
definitions and has TLC evaluate the facts about small files (`ConfigFacts`).

### RunPipe

`main` is the position of runPipe; `sendDone` and `recvDone` are the channels
of the same name, filled by the waiting goroutines when process *and* copying
goroutine have ended, which is how `os/exec` defines `Wait` for a command whose
stdin or stdout is not a file. `copyOut` and `copyIn` are these copying
goroutines. A pipe of the system holds `Capacity` chunks; `io.Pipe` holds none
(`HandOver`). `sent` is `countingWriter.n`.

### Status and Monitoring

`Status` adds no state to Replication: `Datasets` and `OK` are what
`buildReport` makes of `seen` (the inventory before the sync), `snaps` (the
listing after it), the recorded errors, and the datasets whose listing failed.

`Monitoring` starts where `Execute` has returned. `pc[r]` is the position of
run r in `zabbix.Run` and then in `checkzfs.Run`, both of them enabled.
`tmp[r]` and `staged[r]` are files with names of r's own; `remoteTmp`,
`spoolTmp`, `status` and `spool` are names all runs share. A name stands for a
file, and a `mv` takes the file with whatever has it open along: `into[r]` says
which of the two names r's scp is writing to. Between rename and copy (`/tmp`
on another file system or not) the model leaves the choice. The status path may
also be a directory, the one case in which Go reports that a rename target
exists. External and taken to be one step: a local `mv` of the spool file, a
local write of the temporary file.

## 3. The runs

| run | question | instance |
|---|---|---|
| `replication_oldest` | the common snapshot, `KeepInv`, types and convergence, when the source rotates its oldest snapshot | 1 dataset, 5 snapshots, 2 entries (min_keep 2 and 1), 2 attempts, 2 faults, resumable |
| `replication_any` | no cleanup before a sync, the abstract replica, no unreported failure unless the run was misled, `IInv`, convergence, whatever the source destroys | 1 dataset, 4 snapshots of which one matches nothing, 1 entry, 3 attempts, 3 faults, resumable |
| `replication_two` | two datasets and two entries without resume: gaps, errors of one dataset; the Zabbix report; min_keep, existing deletions and `RetainInv` | 2 datasets, 3 snapshots each, 2 attempts, 1 fault, the source rotates its oldest |
| `hierarchy` | how far datasets are independent: renamed parents, overlapping roots, missing parents, a target taken for absent; `HInv` | a chain of 3 datasets, 6 arrangements of tags and roots, 2 snapshots each, 4 together, 1 fault, no resume, the source rotates its oldest |
| `two_runs` | what one run can do to the other until a rename overtakes one of them | 1 dataset, 3 snapshots, 1 entry (min_keep 2), 1 attempt, no resume, 1 fault, the source rotates its oldest |
| `run_pipe` | all of RunPipe | 6 chunks, pipes of 2 |
| `plan_lists` | slices against sets, retention, announced number | all pairs of listings of 7 snapshots, 2 entries |
| `monitoring` | whole reports, no leftovers, no failure in silence, `MInv` | 2 runs in sequence or overlapping, 2 failures or deaths, both places, files of 2 chunks |

`MaxSnap`, `MaxFaults`, `Capacity` and `Chunks` are bounds. They are large
enough that the interesting cases occur: five snapshots of two intervals with
min_keep 2 and 1 are a first replication with a gap, an incremental one with
more than one send, and a cleanup of each interval; two faults are a partial
receive and a crash, or a lost acknowledgement and a failed retry; three
attempts of one send allow a failure, a resume that fails and one that
succeeds; six chunks fill both pipes, both goroutines' hands and leave some
with the sender; two runs and two faults are a death half way and a run that
fails after it, or two runs in each other's way; a chain of three datasets has
one with something above and below it, and four snapshots let one of them
change between two runs after all three had one; three snapshots and min_keep 2
let one run send, and with what it sent the other's cleanup be out of date.
Each property of a passing run has a mutant in `PROJECT.json`, an operator
marked *Mutant* next to the one it replaces, under which TLC refutes the
property.

`two_runs` has a `VIEW` (`EitherWay`): two states that differ only in which of the
runs is called A are taken for one. `TwoRuns` and its properties treat the two
alike, so nothing is lost, and the states are halved.

### Disagreements between the code and what it says

Each is a run that TLC ends with a counterexample.

* `finding_pipe_hang`: a receiver that fails while the sender is silent is not
  noticed. `Wait` for the receiver also waits for the goroutine that feeds its
  stdin, and that one is blocked reading from a sender that sends nothing. The
  comment at `exec.go:161` promises immediate detection. (With a sender that
  goes on sending or ends, `Returns` holds.)
* `finding_wrong_token`: a retry resumes whatever token it finds. If it belongs
  to another snapshot (left by an earlier run), its completion counts as the
  delivery of the snapshot being sent; the run reports success and cleans up. With
  one filter entry it takes a blind discovery to get there (below).
* `finding_path_missing`: with the tag on a child, or `subvols` on the pool
  (`discovery.go:123`: replicate the children), the replicas of the children
  need a parent on the target that no plan contains. `Execute` creates the target
  root only (`execute.go:59-64`), and the first replication fails in every run;
  the shell script creates the path
  (`src/bashclub-zsync/usr/bin/bashclub-zsync:272`).
* `finding_spool_lost`: `LocalExecutor.Run` returns no output for a command that
  exits non-zero, so what checkzfs says in a WARN or CRIT state is dropped and
  an empty section replaces the last one, just when it matters.

Limits of the code that a property states as its condition:

* *Misled runs* (`Misled`: blind and `resumable`). `ErrorOrReplicated`,
  `ReportIsRight`, `NoRegression` and the parts `SendOK`, `CleanOK` and `DoneOK` of
  `IInv` except them, because they are false of them, also with one filter entry.
  Let the target have 1 and a token for 2 (on 1), and the source 1, 2 and 3. A run
  whose `zfs list` of the target root fails once plans to send 3 in full. The first
  attempt is refused, for the dataset is there; the second finds the token and
  completes 2 (`client.go:233-241`); `SendReceive` returns nil for 3. The run
  reports no error and, as 2 is on both sides, an OK status, although the newest
  snapshot is missing. Without the condition TLC finds this in `replication_any`.
  What is destroyed is not touched by it: a plan that saw no target has no
  deletions (`BlindSpares`), so `CleanupAfterSync`, `ImplementsReplica`, `KeepsCommon`
  and the properties of min_keep hold of misled runs too, and the next run that
  sees the target sends what is missing (`ConvergesUnlessStuck`). Without resumable
  transfers a blind run's full streams are all refused, and recorded.
* What Hierarchy says of unreported failures and of the report
  (`CarriedOrReplicated`, `ReportNotices`), and `DoneIsSettled` in `HInv`, is therefore
  about `resumable: false` only, and so is the list of causes in `RefusalExplained`,
  and `ConvergesUnlessOrphaned`, which would need the exception of
  `ConvergesUnlessStuck` as well.
* `min_keep` (a minimum, `config.go:26`, `zsync.yaml.example:22`) is kept under
  three conditions, and without any one of them TLC finds `RetainsMinKeep`
  violated:
  - *the source rotates its oldest snapshot first* (`OldestFirst`). Snapshot tools
    rotate per interval, and then it fails: the cleanup is planned for the target
    before the sync, including snapshots that the receive rolls back. Let 1 and 4
    be weeklies, 2 and 3 hourlies, min_keep 2 for hourlies. The target has 1 and
    2; when 3 and 4 have been taken, the source rotates its hourlies away, down to
    1 and 4. The base is then 1, and receiving 4 rolls 2 back: no hourly is left
    (`replication_two` with one dataset, five snapshots, `KeepTwoOne` and
    `Rotation = "interval"`);
  - *no name matches two entries* (`Disjoint`): each entry plans its deletions for
    itself, and one destroys what the other counts on, or has destroyed before;
  - *no gaps under resume* (`NoGaps`, section 4): a wrong transfer that is resumed
    rolls back and adds what the plan has not counted.
* `KeepsCommon` needs the first of them only. Under per-interval rotation, gaps
  and resumed transfers together can cost the last common snapshot.
* `ReaderSeesWhole` excepts overlapping runs with the status on the source: the
  one temporary name is moved into place by one run while the other is still
  writing to it, and then also holds a mixture of both.
* `SuccessIsPublished` excepts a directory of the status file's name on the
  source, into which `mv` moves the file.
* `ConvergesUnlessStuck` excepts a token of a snapshot that the source has
  destroyed: every first attempt is then refused and every retry resumes in vain,
  in this run and all later ones, where `client.go:197` speaks of falling back to
  a fresh send.
* `ConvergesUnlessOrphaned` excepts datasets below one that is missing and that
  no run sends.
* `CarriedOrReplicated` excepts replicas that were renamed away with a parent and
  whose own plan then skips them: the run records no error for them and prints
  that it has completed (`main.go:148`). The Zabbix report, which lists the
  target once more, is not OK then (`ReportNotices`), and the next run sends them
  afresh.
* The properties of `TwoRuns` hold until a rename overtakes one of the runs
  (`~overtaken`). A run that lists the dataset another one is only
  just receiving finds it empty, plans to rename it away, and takes it from under
  the other's transfer; the cleanup of the slower run may then destroy the only
  snapshot there is. The rename itself is excepted even when nobody is overtaken:
  the run that planned it saw an empty dataset, and what the other has delivered
  since and finished with is renamed away too. Beyond that the theorems about two
  runs (section 4) need
  - *one filter entry and no resumed transfers* (`Plain`). With two entries the
    target can have gaps, and a run that still means to fill one (from a listing
    taken before) rolls back what the other has brought since; a retry under
    `-s` resumes whatever token there is, also the one the other run left. TLC
    refutes `TogetherImplementReplica` on three snapshots of which the first
    belongs to one entry and the others to the second, and `NotBehind` with
    `Resumable`, two attempts and two faults;
  - for `TogetherKeepCommon` and `TogetherRetainMinKeep`, `OldestFirst`, as above.
* A first replication interrupted under `-s` is renamed away by the next run and
  started again, where `config.go:98` promises that it is resumed; that it
  converges all the same is what the liveness property says.
* `max_retries: 0` means three retries, contrary to `config.go:93` and
  `zsync.yaml.example:36`, and so does `min_keep: 0`; a negative `max_retries` is
  accepted and makes `SendReceive` return nil without an attempt
  (`NeverOneAttempt`).

Two more sentences of the source are not true in general and were left as they
are: `plan.go:218` says that *exactly* min_keep snapshots remain (more do when
more than min_keep are sent, for only old ones are deleted), and
`plan.go:102` says that `Keep` will remain (not after a rollback);
`KeepIsWhatRemains` states when the second holds.

### Fairness

`Replication!FairSpec` has weak fairness of a run's steps: a running process is
scheduled and cron starts the next run. Failures are bounded by `MaxFaults`, so
they stop; the source need not do anything. `Hierarchy!FairSpec` is the same for
its steps. `TwoRuns` and `Monitoring` are safety only. `RunPipe!FairSpec` has weak
fairness of each goroutine, of the receiver while it has input or its input has
ended, and of the sender; `SilentSpec` drops the last, for nothing obliges a
remote host to go on sending. `CHECK_DEADLOCK FALSE` stands only where the
system ends: after runPipe has returned, after the plan is built, and when the last
of the bounded number of runs in Monitoring has ended. A run of
zsync always has a next step, so the deadlock check is on for Replication,
Hierarchy and TwoRuns.

## 4. What is proved

| theorem | statement | from |
|---|---|---|
| `AcceptedFilter`, `TargetApart`, `NeverOneAttempt` | what an accepted file guarantees: filter entries with a positive min_keep; no dataset that is read is within what is written; never a single attempt | `Validate`, `defaults` |
| `TypeCorrect` | `Spec => []TypeOK` | the assumptions on the constants |
| `AlwaysIInv` | `Spec => []IInv` (where a run was misled, `SendOK`, `CleanOK` and `DoneOK` say less of it) | `NoGaps` |
| `ErrorOrDelivered` | `Spec => []ErrorOrReplicated`, which excepts misled runs | `NoGaps` |
| `CleanupOnlyAfterSync` | `Spec => CleanupAfterSync` | `NoGaps` |
| `Refinement` | `Spec => Replica!Spec` | `NoGaps` |
| `ReportTrue` | `Spec => []ReportIsRight`, which excepts misled runs | `NoGaps` |
| `NewestIsKept` | `Spec => []KeepInv` | the assumptions on the constants |
| `CommonIsKept` | `Spec => KeepsCommon` | `OldestFirst` |
| `CleanupStaysDispensable`, `PlannedDeletes`, `MinKeepRetained` | `Spec => []RetainInv`, `[]PlannedDeletesExist`, `RetainsMinKeep` | `NoGaps`, `OldestFirst`, `Disjoint` |
| `AlwaysHInv`, `HierarchyTypeCorrect` | `Spec => []HInv`, `[]TypeOK` of Hierarchy | `resumable: false` (`HierarchyAssumption`) |
| `NoneForgotten`, `ReportNoticesAll` | `Spec => []CarriedOrReplicated`, `[]ReportNotices` | the same |
| `RefusalsExplained` | `Spec => RefusalExplained` | the same |
| `PipeTypeCorrect`, `AlwaysPInv` | `Spec => []TypeOK`, `[]PInv` of RunPipe | the assumption on the constants |
| `SuccessIsReal`, `AttemptIsOver` | `Spec => []OkMeansReceived`, `[]NothingRunsOn` | the assumption on the constants |
| `PipeRefines` | `Spec => Attempt!Spec` | the same |
| `MonitoringTypeCorrect`, `AlwaysMInv` | `Spec => []TypeOK`, `[]MInv` of Monitoring | that files, directories and their absence can be told apart |
| `ReportsAreWhole`, `NeverWithoutStatus`, `TemporariesGone` | `Spec => []ReaderSeesWhole`, `StatusStays`, `[]NoLeftovers` | the same |
| `NoErrorPublished`, `NoErrorSpooled` | `Spec => []SuccessIsPublished`, `[]SpoolIsOfRun` | the same |
| `TypesKept` | `Spec => []TypeOK` of TwoRuns | the assumptions on the constants |
| `RunsFitTogether`, `NeitherBehind`, `TogetherReplicate` | `Spec => []TogetherInv`, `[]NotBehind`, `TogetherImplementReplica` | `Plain` |
| `CommonSurvivesBoth`, `MinKeepSurvivesBoth` | `Spec => TogetherKeepCommon`, `TogetherRetainMinKeep` | `Plain`, `OldestFirst` |

`AcceptedFilter` discharges the assumption `PlanAssumption` on `NFilter` and
`MinKeep` for the configuration a run starts with. The theorems about runs hold
for any number of datasets, snapshots, filter entries (overlapping ones
included), retries, faults and chunks, and any rotation, where the last column
does not say otherwise; those about Hierarchy for every tree, every choice of
tags and roots and any state of the target before the first run, but only without
resumable transfers and for a source that rotates its oldest snapshot.

**NoGaps** is `~Resumable \/ NFilter = 1`. It is needed: without it
`finding_wrong_token` is a counterexample. A first replication to several
entries leaves gaps between the snapshots it sends. If a later snapshot of the
sequence arrives partially, and the source then loses it or its base, and the
next run's plan starts somewhere else, a token can be of another snapshot than
the one being sent. With one entry a first replication sends a contiguous range, so
a token that can still be sent is always that of the next planned snapshot.

**Plain** is `NFilter = 1 /\ ~Resumable`: one filter entry and no resumed transfers.
It restricts only the theorems about two runs; retries, datasets and rotation are
as general there as elsewhere.

**OldestFirst** is `Rotation \in {"none", "oldest"}` and **Disjoint** says that no
snapshot's name matches two entries. Section 3 (*Limits of the code*) shows why
min_keep needs them.

**The invariant** `IInv` (module ReplicationInvariant) says why the properties
hold. `ErrorOrReplicated` alone is not inductive: it speaks only of `pc =
"done"`. What carries it there:

* `Numbered`, `Discovered`: a snapshot taken after the listing is newer than
  everything in it and is not on the target, so stale listings err on one side;
* `TargetOK`, `TokenOK`: what can be on a target between runs; a token
  continues the newest shared snapshot;
* `PlanFresh`: the plans of datasets the loop has not reached are those one
  would make now, as far as the target is concerned, or, in a blind run, those for
  an empty target (`PlanNow`);
* `Planned`, `SendOK`: what is left to send ends with the goal, the newest
  listed matching snapshot; unless the run was misled, the base is the newest
  shared snapshot, and a token that can be resumed is that of the next send
  (`NextOK`);
* `CleanOK`, `DoneOK`: once arrived the goal stays, unless the run was misled;
* `GapFree`, `CleansOldest`, `BlindSpares`: with resumable transfers the target has
  no gaps, whatever a misled run leaves on it, because a cleanup takes the oldest
  snapshots and a blind run takes none; so the runs after a misled one have all
  of the above again.

**What a cleanup leaves** needs two more invariants. `KeepInv` holds without any
hypothesis, so also where a wrong transfer is resumed: until something of the plan
has arrived, nothing that is left to send, nor what a token continues, is planned
for destruction (`SendSpares`, `TokenAhead`), and from then on the newest snapshot
on the target is spared (`NewestSpared`, `CleanSpares`). If the source rotates
oldest first, what it has is contiguous (`Contiguous`), so the newest snapshot on
the target is a common one or there is none: hence `KeepsCommon`. `RetainInv`
counts: per entry the planned deletions are on the target (nothing that counts is
rolled back, `NothingRolledBack`), and the snapshots that are there, with those
still to come, are min_keep without them (`Dispensable`). Every attempt takes from
the queue what it adds to the target (`AttemptKeepsTogether`), and a destroy takes
from both sides (`DestroyTakesPlanned`).

**In `Hierarchy`** the invariant is `HInv`. `CarriedOrReplicated` speaks of the end
of a run; what carries it there is that every dataset the loop is through with, or
skips, is settled (`DoneIsSettled`): its sync failed, there was nothing to send, its
newest snapshot is there, or a rename took all of it along. A later plan of the same
dataset (overlapping roots) keeps that so, because it is the same plan
(`OnePlanEach`), which sends the newest snapshot and spares it (`PlansReachGoal`,
`AtWork`). `RefusalExplained` follows from the other half: the plan of a dataset
that no rename has carried away, that was not processed before and that was really
listed (`AsListed`) is the plan one would make now (`PlansAreFresh`), down to the
free `-old` name, and what is being sent can be received (`SendIsFresh`). The step
that needs thought is the rename (`RenameAway`): what it empties below is exactly
what it marks as carried, for what was absent had no snapshots (`TargetSound`).

Layout: `PlanProofs` has the facts about the plan's operators (what is sent,
that the goal is sent and never planned for destruction, how many a cleanup takes,
that `Max` and `Min` of a finite nonempty set of naturals are in it and bound it).
`ReplicationProofs` proves types by action, then that each action preserves each
part of `IInv` it can disturb, then the theorems. `OutcomeProofs` does the same
for `KeepInv` and `RetainInv`, and then maps each action to a step of
`ReplicaSpec`: a completed transfer is a `Receive`, a destroy a `Prune`, a rename
`PutAside`, the source's changes `ChangeSource`, everything else a stutter; for the
report it needs only `DoneOK`: the goal of a dataset without an error is in both
listings and the newest in either. `HierarchyProofs` has a lemma for each kind of
step: the loop moving on (`MoveOn`, which five actions share), discovery, the start
of a sync, the rename, the end of a run. In `RunPipe` the invariant is `PInv`:
chunks are never doubled (`Flow`), the channels repeat what the processes said
(`Reported`), runPipe waited for what it reports (`Awaited`). TLC checks these
invariants as well: `IInv` (`replication_any`), `KeepInv`
(`replication_oldest`), `RetainInv` (`replication_two`), `HInv` (`hierarchy`),
`PInv` (`run_pipe`). `TogetherInv` can be added to the invariants of
`two_runs`, where TLC finds no counterexample either; the run leaves it out because
it is costly to evaluate and doubles the time.

**Two runs at once** share nothing but the hosts, so the argument is by what each
guarantees to the other and relies on. A step of either changes a target in one of
few ways (`HostStep` in OverlapProofs): a snapshot arrives that is the newest there
and rolls back only what the source has lost (`Arrives`); the oldest snapshot goes,
and is not the only one (`DropsOldest`); the replica is renamed away (`Renamed`).
What rotation does to the source is `SourceMoved`. `HostStays` shows
that `HostInv` survives these, and `RunStays` that `RunInv` does, that is whatever
a run still means to do, as long as no rename overtakes it. `RunInv` is `IInv` made
to withstand them: a plan may be outrun, so instead of being the plan one would
make now (`PlanFresh`) it still sends a suffix of what was listed
(`SendsSuffix`), still destroys only what is lowest on the target, or gone already
(`Lowest`), and still leaves min_keep (`Spared`); instead of having the goal, the
target has that or something newer (`Reached`). `StepKeeps` then shows of a run's
own steps that they keep its own `RunInv` and are such steps. In
`TwoRunsProofs`, `Inv` puts the two together: hosts and both runs keep their
invariants while nobody is overtaken, and a step that leaves that so cannot
have been a rename that mattered (`DivertedIsOvertaken`, `OwnClear`). The properties
follow from the kinds of step: `ReplicaSteps`, `CommonRemains`, `MinKeepRemains`.

In `Monitoring` the invariant is `MInv`. Runs begin in order, and without an
overlap only the last that has begun is under way (`Ordered`), so whatever lies
under a name that runs share is what this one run has put there (`InTurn`): its
own chunks so far in the remote temporary file, its own output in the spool file.
The rest holds with overlaps too: a file that is written to is there and not
full (`Writing`), and what a run has under names of its own fits the step it is
at (`OwnFiles`). `MonitoringProofs` shows first that a step of one run leaves what
is another's alone (`Frame`), and then takes the parts one at a time, with a
case per action. TLC checks `MInv` in `monitoring`.

**Only model-checked:**

* liveness (`ConvergesUnlessStuck`, `ConvergesUnlessOrphaned`, `Returns`), which the
  prover does not reach;
* `SamePlan` and the rest of `PlanOnLists`: the slices are built by recursion over
  sequences, and what such a definition computes takes induction over data;
* of two runs with several filter entries or with resumed transfers there is
  neither a theorem nor a run: there the properties fail, as section 3 says.

## 5. Plan

Done: PlanBuilder, Zfs, Replication with its abstract specification and
invariant, RunPipe with its abstract specification, PlanOnLists, Status,
Monitoring, Hierarchy, TwoRuns, Config, the proofs above (what a run delivers,
what its cleanup leaves, what datasets and what two runs do to one another). What
would come next:

1. `SendAttempts`: SendReceive alone, with the numbers as the configuration
   gives them (negative ones too), built on PipeSpec.
2. `TwoRuns` with resume (which of the properties survive it) and the tree;
   `Hierarchy` with resume tokens.
3. `LegacySync`: the loop of `bashclub-zsync`, against ReplicaSpec.
4. Proofs: what two runs guarantee after a rename, if one of them lists again.

## 6. What is not modelled, and why

* Resume tokens and attempts in `Hierarchy`, and any rotation there but that of the
  oldest snapshot: the module is about `resumable: false`. With the default,
  `resumable: true`, what it says of unreported failures and of the report is not
  true in general: `finding_wrong_token` and misled runs (section 3) are
  counterexamples on any dataset of a tree.
* In `Overlap`, the failure to create a target root that the other run has created
  since the listing: to the model that is a run that dies there.
* Two overlapping runs with resume tokens: not run, because the guarantees already
  end at the first resumed transfer. With retries or several datasets they are
  beyond what TLC finishes; for these the theorems stand alone. In `Hierarchy`
  runs follow one another.
* A negative `max_retries` in Replication: its `MaxRetries` is a natural number.
* The legacy scripts (`src/bashclub-zsync`, the snapshot manager, the autorun and
  configuration scripts): predecessors and helpers of the Go program; from them
  only what the Go code is compared with was read.
* The dry run changes nothing; of what it prints, `PlanOnLists` checks the number
  of snapshots it announces.
* An scp that outlives the zsync that started it: `Die` ends both.
* Command lines, quoting, ssh options, cipher choice, parsing of zfs output,
  the display of the plan, logging: pure functions on strings, without a
  history that could go wrong.
* Bytes and durations of `DatasetResult`: measurements nothing depends on; the
  count of one attempt is in RunPipe.
* A cancelled context: `main` uses a background context, which never is.

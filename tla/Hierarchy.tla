----------------------------- MODULE Hierarchy -----------------------------
(***************************************************************************)
(* Datasets as a tree: which of them a run lists (tags, inheritance and    *)
(* source.datasets), and what becomes of a replica when the one above it   *)
(* is missing or is renamed away (internal/replication).                   *)
(*                                                                         *)
(* Replication takes the datasets of a run one by one, in full detail and  *)
(* as independent of one another.  Here the sends of one dataset are one   *)
(* step that delivers all, some or none of them, and the question is how   *)
(* far the datasets are independent.                                       *)
(*                                                                         *)
(* The module is about runs with resumable: false, whose source rotates    *)
(* its oldest snapshot.  It has no resume tokens: with them, which is the  *)
(* default, an attempt can succeed with another snapshot than the planned  *)
(* one, and what Replication says of wrong tokens and of misled runs holds *)
(* of every dataset here too.                                              *)
(***************************************************************************)
EXTENDS PlanBuilder, Sequences, Functions

CONSTANTS NDataset,     \* the source's datasets, as zfs get lists them
          Resumable,    \* retry.resumable, which is off here
          Parent,       \* Parent[d]: the dataset above d, or Top
          Setups,       \* the configurations and surroundings to look at
          MaxTaken,     \* bound: the snapshots of all datasets together
          MaxFaults     \* bound: the failures and crashes of a behaviour

Dataset == 1 .. NDataset
Top == 0                \* the target root, which every run creates
Unset == "-"

\* tag: the tag as set on each dataset itself; roots: source.datasets;
\* made: what somebody has created below the target root beforehand.
Setting == [value : {"all", "subvols", "exclude"}, source : {"local", "received"}]

ASSUME HierarchyAssumption ==
    /\ NDataset \in Nat /\ MaxTaken \in Nat /\ MaxFaults \in Nat
    /\ Resumable = FALSE
    /\ DOMAIN Parent = Dataset
    /\ \A d \in Dataset : Parent[d] \in 0 .. d - 1
    /\ \A s \in Setups :
          /\ DOMAIN s.tag \subseteq Dataset
          /\ \A d \in DOMAIN s.tag : s.tag[d] \in Setting
          /\ s.roots \in Seq(Dataset) /\ s.made \subseteq Dataset
          /\ \A d \in s.made : Parent[d] \in s.made \cup {Top}

VARIABLES
    setup,      \* one of Setups
    src,        \* src[d]: the snapshots of source dataset d
    taken,      \* taken[d]: how many it ever had
    exists,     \* exists[d]: there is a dataset at d's place on the target
    snaps,      \* snaps[d]: its snapshots
    old,        \* old[d]: how many "-old" names are in use beside it
    faults,     \* failures left
    pc,         \* "idle", "dataset", "send" or "cleanup"
    todo,       \* the plans Execute has not finished with, in Order
    seen,       \* seen[d]: the source snapshots discovery listed
    blind,      \* the target root looked absent when the plan was made
    carried,    \* the datasets renamed away with an ancestor in this run
    syncErr,    \* the datasets whose sync failed
    cleanErr    \* the datasets whose cleanup failed

source == <<setup, src, taken>>
target == <<exists, snaps, old>>
run == <<pc, todo, seen, blind, carried, syncErr, cleanErr>>
vars == <<source, target, faults, run>>

Above[d \in Dataset] ==
    IF Parent[d] = Top THEN {} ELSE {Parent[d]} \cup Above[Parent[d]]
Below == [d \in Dataset |-> {c \in Dataset : d \in Above[c]}]

-----------------------------------------------------------------------------
(* Discovery of the source.                                                *)

\* What zfs get says of the tag: what is set on the dataset, or what it
\* inherits.
Property(tag) ==
    LET of[d \in Dataset] ==
            IF d \in DOMAIN tag THEN tag[d]
            ELSE IF Parent[d] = Top \/ of[Parent[d]].value = Unset
                 THEN [value |-> Unset, source |-> Unset]
                 ELSE [value |-> of[Parent[d]].value, source |-> "inherited"]
    IN  of

shouldInclude(prop) ==
    prop.value = "all" \/ (prop.value = "subvols" /\ prop.source # "local")

Selected(tag) ==
    {d \in Dataset : Property(tag)[d].source # "received" /\ shouldInclude(Property(tag)[d])}

\* Per root its selected datasets; under overlapping roots one is listed
\* more than once.
ListedIn ==
    [s \in Setups |->
        [i \in DOMAIN s.roots |->
            ({s.roots[i]} \cup Below[s.roots[i]]) \cap Selected(s.tag)]]

Listed == ListedIn[setup]
Discovered == UNION {Listed[i] : i \in DOMAIN Listed}

-----------------------------------------------------------------------------
Init ==
    /\ setup \in Setups
    /\ src = [d \in Dataset |-> {}] /\ taken = [d \in Dataset |-> 0]
    /\ exists = [d \in Dataset |-> d \in setup.made]
    /\ snaps = [d \in Dataset |-> {}] /\ old = [d \in Dataset |-> 0]
    /\ faults = MaxFaults
    /\ pc = "idle" /\ todo = {} /\ seen = [d \in Dataset |-> {}]
    /\ blind = FALSE /\ carried = {} /\ syncErr = {} /\ cleanErr = {}

Fault == faults > 0 /\ faults' = faults - 1

TakeSnapshot(d) ==
    /\ taken[d] < MaxSnap
    /\ FoldFunction(+, 0, taken) < MaxTaken
    /\ taken' = [taken EXCEPT ![d] = @ + 1]
    /\ src' = [src EXCEPT ![d] = @ \cup {taken[d] + 1}]
    /\ UNCHANGED <<setup, target, faults, run>>

RotateSource(d) ==
    /\ src[d] # {}
    /\ src' = [src EXCEPT ![d] = @ \ {Min(@)}]
    /\ UNCHANGED <<setup, taken, target, faults, run>>

-----------------------------------------------------------------------------
\* A plan, the root it is listed under and the number of the free name that
\* uniqueName found.
Planned == [root : Nat, ds : Dataset, name : Nat, do : DatasetPlan]

PlanFor(i, d, there) ==
    [root |-> i, ds |-> d, name |-> old[d] + 1,
     do |-> buildDatasetPlan(src[d], there, IF there THEN snaps[d] ELSE {})]

\* Nothing changes the target between the two listings, and a change of the
\* source between them is one after both, so they are one step.
\* DatasetExists takes any error for absence, and then everything is.
DiscoverAndBuild ==
    /\ pc = "idle"
    /\ pc' = "dataset"
    /\ \/ blind' = FALSE /\ UNCHANGED faults
       \/ blind' = TRUE /\ Fault
    /\ todo' = UNION {{PlanFor(i, d, exists[d] /\ ~blind') : d \in Listed[i]}
                         : i \in DOMAIN Listed}
    /\ seen' = src
    /\ UNCHANGED <<source, target, carried, syncErr, cleanErr>>

\* Root by root, and below a root as zfs lists it.
Order(p, q) == p.root < q.root \/ (p.root = q.root /\ p.ds <= q.ds)

\* The plan the loop is at: the dataset and what is to be done with it.
Current == CHOOSE p \in todo : \A q \in todo : Order(p, q)
ds == Current.ds
do == Current.do

\* The plans that are left when the loop moves on.
Rest == todo \ {Current}

-----------------------------------------------------------------------------
(* Execute: the loop over the plans.                                       *)

SkipDataset ==
    /\ pc = "dataset" /\ todo # {} /\ do.action = "skip"
    /\ todo' = Rest
    /\ UNCHANGED <<source, target, faults, pc, seen, blind, carried, syncErr, cleanErr>>

StartSync ==
    /\ pc = "dataset" /\ todo # {} /\ do.action \in {"initial", "incremental"}
    /\ pc' = "send"
    /\ UNCHANGED <<source, target, faults, todo, seen, blind, carried, syncErr, cleanErr>>

\* The rename takes everything below along, former replicas included.
Renamed ==
    /\ exists' = [d \in Dataset |-> exists[d] /\ d # ds /\ d \notin Below[ds]]
    /\ snaps' = [d \in Dataset |-> IF d = ds \/ d \in Below[ds] THEN {} ELSE snaps[d]]
    /\ old' = [d \in Dataset |->
                  IF d = ds THEN old[d] + 1 ELSE IF d \in Below[ds] THEN 0 ELSE old[d]]
    /\ carried' = carried \cup {d \in Below[ds] : exists[d]}

\* The dataset is there and the name that was free at the listing still is.
Renamable == exists[ds] /\ old[ds] + 1 = Current.name

Reinitialize ==
    /\ pc = "dataset" /\ todo # {} /\ do.action = "reinitialize"
    /\ Renamable
    /\ Renamed
    /\ pc' = "send"
    /\ UNCHANGED <<source, faults, todo, seen, blind, syncErr, cleanErr>>

\* Mutant: the error is forgotten.
SyncFailedSilently ==
    /\ pc' = "dataset" /\ todo' = Rest
    /\ UNCHANGED <<seen, blind, syncErr, cleanErr>>

\* Mutant: the dataset is tried again with the plan it has.
SyncFailedAgain ==
    /\ syncErr' = syncErr \cup {ds}
    /\ pc' = "dataset"
    /\ UNCHANGED <<todo, seen, blind, cleanErr>>

SyncFailed ==
    /\ syncErr' = syncErr \cup {ds}
    /\ pc' = "dataset" /\ todo' = Rest
    /\ UNCHANGED <<seen, blind, cleanErr>>

ReinitializeFails ==
    /\ pc = "dataset" /\ todo # {} /\ do.action = "reinitialize"
    /\ IF Renamable THEN Fault ELSE UNCHANGED faults
    /\ SyncFailed
    /\ UNCHANGED <<source, target, carried>>

\* A full stream needs the dataset above to be there and its own not to be;
\* an incremental one needs its base.
Receivable ==
    IF do.common = None
    THEN ~exists[ds] /\ (Parent[ds] # Top => exists[Parent[ds]])
    ELSE exists[ds] /\ do.common \in snaps[ds]

\* The snapshots that can be sent one after another from what the source has
\* by now: each needs the one before as its base.
Deliverable ==
    {s \in do.send : \A x \in do.send \cup ({do.common} \ {None}) : x <= s => x \in src[ds]}

\* What is there after the snapshots in S: newer ones than the common one
\* were rolled back, unless they are the planned ones, already received.
Deliver(S) ==
    /\ exists' = [exists EXCEPT ![ds] = TRUE]
    /\ snaps' = [snaps EXCEPT ![ds] =
           IF S = {} THEN @ ELSE {x \in @ : x <= do.common \/ x \in do.send} \cup S]

Doomed == UNION {do.cleanup[f] : f \in Filter}

\* Mutant: the loop moves on before the cleanup.
SyncedNext ==
    /\ todo' = Rest
    /\ pc' = IF Doomed = {} THEN "dataset" ELSE "cleanup"

Synced ==
    IF Doomed = {} THEN pc' = "dataset" /\ todo' = Rest
                   ELSE pc' = "cleanup" /\ UNCHANGED todo

SendSucceeds ==
    /\ pc = "send"
    /\ Receivable /\ Deliverable = do.send
    /\ Deliver(do.send)
    /\ Synced
    /\ UNCHANGED <<source, old, faults, seen, blind, carried, syncErr, cleanErr>>

\* Refused at the first stream, or at the first one the source has lost.  A
\* snapshot that is already there may be refused as well.  The attempts all
\* send the same stream, since without Resumable none asks for a token.
SendRefused ==
    /\ pc = "send"
    /\ \/ ~Receivable /\ UNCHANGED <<exists, snaps>>
       \/ Receivable /\ Deliverable # do.send
            /\ IF Deliverable = {} THEN UNCHANGED <<exists, snaps>> ELSE Deliver(Deliverable)
       \/ do.send \cap snaps[ds] # {} /\ UNCHANGED <<exists, snaps>>
    /\ SyncFailed
    /\ UNCHANGED <<source, old, faults, carried>>

\* Cut short: before the first stream, in the middle of it (an empty dataset
\* stays behind if it was a full one) or after some of them.
SendFails ==
    /\ pc = "send"
    /\ Fault
    /\ Receivable
    /\ \/ UNCHANGED <<exists, snaps>>
       \/ \E n \in 0 .. Cardinality(Deliverable) : Deliver(OldestOf(Deliverable, n))
    /\ SyncFailed
    /\ UNCHANGED <<source, old, carried>>

Cleanup ==
    /\ pc = "cleanup"
    /\ Doomed \subseteq snaps[ds]
    /\ snaps' = [snaps EXCEPT ![ds] = @ \ Doomed]
    /\ pc' = "dataset" /\ todo' = Rest
    /\ UNCHANGED <<source, exists, old, faults, seen, blind, carried, syncErr, cleanErr>>

\* Oldest first up to the first error: a fault, or one that is gone.
CleanupFails ==
    /\ pc = "cleanup"
    /\ IF Doomed \subseteq snaps[ds] THEN Fault ELSE UNCHANGED faults
    /\ \E n \in 0 .. Cardinality(Doomed) - 1 :
          /\ OldestOf(Doomed, n) \subseteq snaps[ds]
          /\ snaps' = [snaps EXCEPT ![ds] = @ \ OldestOf(Doomed, n)]
    /\ cleanErr' = cleanErr \cup {ds}
    /\ pc' = "dataset" /\ todo' = Rest
    /\ UNCHANGED <<source, exists, old, seen, blind, carried, syncErr>>

Ended ==
    /\ pc' = "idle" /\ todo' = {} /\ seen' = [d \in Dataset |-> {}]
    /\ blind' = FALSE /\ carried' = {} /\ syncErr' = {} /\ cleanErr' = {}

\* Execute has been through all plans.
Executed == pc = "dataset" /\ todo = {}

Exit ==
    /\ Executed
    /\ Ended
    /\ UNCHANGED <<source, target, faults>>

Crash ==
    /\ pc # "idle"
    /\ Fault
    /\ Ended
    /\ UNCHANGED <<source, target>>

-----------------------------------------------------------------------------
\* Mutant: a run without errors counts as OK.
ReportOKWithoutListing ==
    /\ syncErr \cup cleanErr = {}
    /\ \A d \in Discovered : FilterSnapshots(seen[d]) # {}

\* The verdict of the Zabbix report, from a new listing of the target.
ReportOK ==
    /\ syncErr \cup cleanErr = {}
    /\ \A d \in Discovered : FilterSnapshots(seen[d]) \cap snaps[d] # {}

-----------------------------------------------------------------------------
Run ==
    \/ DiscoverAndBuild \/ SkipDataset \/ StartSync
    \/ Reinitialize \/ ReinitializeFails
    \/ SendSucceeds \/ SendRefused \/ SendFails
    \/ Cleanup \/ CleanupFails \/ Exit

Environment == \E d \in Dataset : TakeSnapshot(d) \/ RotateSource(d)

Next == Run \/ Crash \/ Environment

Spec == Init /\ [][Next]_vars
FairSpec == Spec /\ WF_vars(Run)

-----------------------------------------------------------------------------
(* Properties.                                                             *)

\* Every variable keeps its type, and there is a plan to work on while a
\* dataset is being sent or cleaned up.
TypeOK ==
    /\ setup \in Setups
    /\ src \in [Dataset -> SUBSET Snapshot] /\ taken \in [Dataset -> 0 .. MaxSnap]
    /\ exists \in [Dataset -> BOOLEAN] /\ snaps \in [Dataset -> SUBSET Snapshot]
    /\ old \in [Dataset -> Nat] /\ faults \in 0 .. MaxFaults
    /\ pc \in {"idle", "dataset", "send", "cleanup"}
    /\ todo \in SUBSET Planned
    /\ pc \in {"send", "cleanup"} => todo # {}
    /\ seen \in [Dataset -> SUBSET Snapshot] /\ blind \in BOOLEAN
    /\ carried \subseteq Dataset /\ syncErr \subseteq Dataset /\ cleanErr \subseteq Dataset

Goal(d) == Max(FilterSnapshots(seen[d]))

\* When a run ends, every dataset it listed has the newest snapshot listed,
\* or a recorded error, or was renamed away together with an ancestor, which
\* the exit code says nothing of (execute.go:46-47, plan.go:185-191).  Without
\* resumable transfers only: a misled run has a third way (client.go:233-241).
CarriedOrReplicated ==
    Executed =>
        \A d \in Discovered :
            \/ d \in syncErr \cup carried
            \/ FilterSnapshots(seen[d]) = {}
            \/ Goal(d) \in snaps[d]

\* The Zabbix report lists the target once more, so it does notice: when it
\* is OK (status.go:45-46), nothing is missing, whatever was carried away,
\* unless transfers are resumable (client.go:233-241).
ReportNotices ==
    Executed /\ ReportOK =>
        \A d \in Discovered : Goal(d) \in snaps[d]

\* Datasets are independent but for these: a plan that discovery made is
\* refused only when the source has lost a snapshot of it, the dataset above
\* is not there, an ancestor was renamed after the listing (plan.go:188), an
\* overlapping root had the dataset processed before (discovery.go:24), or
\* the target could not be listed (discovery.go:77).  A resume token would
\* be one more.
Processed ==
    {d \in Dataset : \E i \in DOMAIN Listed :
        d \in Listed[i] /\ \A p \in todo : ~(p.root = i /\ p.ds = d)}

Repeated == ds \in Processed

RefusalExplained ==
    [][(SendRefused \/ ReinitializeFails) /\ faults' = faults =>
          \/ ~(do.send \cup ({do.common} \ {None}) \subseteq src[ds])
          \/ Parent[ds] # Top /\ ~exists[Parent[ds]]
          \/ ds \in carried \/ Repeated \/ blind]_vars

UpToDate(d) ==
    LET matching == FilterSnapshots(src[d])
    IN  matching # {} => Max(matching) \in snaps[d]

\* Replication brings d up to date and keeps it so.
Replicates(d) == d \in Discovered /\ FilterSnapshots(src[d]) # {}

\* A dataset above d is missing that no run will ever send.
Orphaned(d) == \E a \in Above[d] : ~exists[a] /\ ~Replicates(a)

\* Once failures stop and the source is quiet, repeated runs bring every
\* listed dataset up to date, whatever was renamed along with a parent,
\* listed twice or in whatever order, unless it is orphaned.  A resume token
\* nothing can finish is the other obstacle, which Replication is about.
ConvergesUnlessOrphaned ==
    <>[](\A d \in Discovered : UpToDate(d) \/ Orphaned(d))

\* "subvols" means: replicate the children (discovery.go:123): every dataset
\* that discovery selects is replicated in the end.
SelectedArrive == <>[](\A d \in Discovered : UpToDate(d))
=============================================================================

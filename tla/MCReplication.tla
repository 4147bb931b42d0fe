--------------------------- MODULE MCReplication ---------------------------
(***************************************************************************)
(* Small instances of Replication: snapshot schedules and retention.       *)
(***************************************************************************)
EXTENDS ReplicationInvariant, Status

Hourly == 1
Weekly == 2

\* One interval; every third snapshot is of no entry.
OneInterval == [s \in Snapshot |-> IF s % 3 = 0 THEN {} ELSE {Hourly}]
\* Two intervals whose names do not contain one another.
TwoIntervals == [s \in Snapshot |-> IF s % 3 = 1 THEN {Weekly} ELSE {Hourly}]

-----------------------------------------------------------------------------
(* The retention comes from configuration files.                           *)

LOCAL C == INSTANCE Config WITH
              Component <- {"tank", "backup", "vm", "my files"},
              Spaced <- {"my files"},
              Word <- {"frequent"}

\* A file that mentions what it has to, and the entries of the filter.
FileWith(entries) ==
    [target |-> <<"backup">>, datasets |-> <<<<"tank">>>>, tag |-> "",
     host |-> "", port |-> 0, filter |-> entries,
     max_retries |-> 0, delay_seconds |-> 0, resumable |-> "absent",
     spool |-> "", place |-> ""]

HourlyKeeping(keep) == [filter |-> "hourly", min_keep |-> keep]
WeeklyKeeping(keep) == [filter |-> "weekly", min_keep |-> keep]

KeepOne == C!MinKeepOf(FileWith(<<HourlyKeeping(1)>>))
KeepOneEach == C!MinKeepOf(FileWith(<<HourlyKeeping(1), WeeklyKeeping(1)>>))
KeepTwoOne == C!MinKeepOf(FileWith(<<HourlyKeeping(2), WeeklyKeeping(1)>>))

SmallPaths == UNION {[1 .. n -> {"tank", "backup", "my files"}] : n \in 0 .. 2}

SmallFiles ==
    {[FileWith(entries) EXCEPT !.target = t, !.datasets = <<ds, <<"vm">>>>, !.max_retries = r] :
        entries \in {<<>>, <<HourlyKeeping(0)>>, <<HourlyKeeping(-1)>>, <<HourlyKeeping(2)>>},
        t \in SmallPaths, ds \in SmallPaths, r \in {-1, 0, 1}}

\* TLC evaluates on these files what HierarchyProofs proves of all.
ASSUME ConfigFacts ==
    /\ \A file \in SmallFiles : C!Accepted(file) =>
          /\ C!MinKeepOf(file) \in [1 .. C!NFilterOf(file) -> 1 .. 3]
          /\ \A x \in SmallPaths : ~(C!Read(file, x) /\ C!Written(file, x))
          /\ file.max_retries >= 0 => C!MaxRetriesOf(file) \in {1, 3}
    /\ \E file \in SmallFiles : C!Accepted(file)
    /\ \E file \in SmallFiles : ~C!Accepted(file)
=============================================================================

------------------------------- MODULE Config -------------------------------
(***************************************************************************)
(* The configuration (internal/config/config.go): what a file says, the    *)
(* values that take the place of what it leaves out, and which files are   *)
(* refused.  Load turns a file into the constants of the other modules.    *)
(*                                                                         *)
(* YAML leaves the zero value in a field that the file does not mention,   *)
(* so that zero and absent are one value here as they are in the code.  A  *)
(* dataset is the sequence of the components of its name, the empty one    *)
(* for "".                                                                 *)
(***************************************************************************)
EXTENDS Integers, Sequences

CONSTANTS Component,    \* the components of dataset names
          Spaced,       \* those with a space in them
          Word          \* the patterns an administrator may write

Path == Seq(Component)

Pattern == Word \cup {"", "hourly", "daily", "weekly", "monthly"}

Entry == [filter : Pattern, min_keep : Int]

File == [target : Path, datasets : Seq(Path), tag : STRING,
         host : STRING, port : Int, filter : Seq(Entry),
         max_retries : Int, delay_seconds : Int,
         resumable : {"absent", "true", "false"},
         spool : STRING, place : STRING]

\* A dataset is t or lies beneath it.
Within(t, ds) == Len(t) <= Len(ds) /\ \A i \in 1 .. Len(t) : ds[i] = t[i]

Or(value, zero, default) == IF value = zero THEN default ELSE value

Kept(pattern, keep) == [filter |-> pattern, min_keep |-> keep]

DefaultFilter ==
    <<Kept("hourly", 3), Kept("daily", 3), Kept("weekly", 3), Kept("monthly", 3)>>

defaultFilter(filter) ==
    IF filter = <<>> THEN DefaultFilter
    ELSE [i \in 1 .. Len(filter) |-> Kept(filter[i].filter, Or(filter[i].min_keep, 0, 3))]

defaults(c) ==
    [c EXCEPT !.tag = Or(@, "", "bashclub:zsync"),
              !.filter = defaultFilter(@),
              !.port = Or(@, 0, 22),
              !.max_retries = Or(@, 0, 3),
              !.delay_seconds = Or(@, 0, 30),
              !.resumable = Or(@, "absent", "true"),
              !.spool = Or(@, "", "local"),
              !.place = Or(@, "", "source")]

Places == {"local", "source"}

Overlaps(t, ds) == Within(t, ds) \/ Within(ds, t)

Validate(c) ==
    /\ c.target # <<>>
    /\ \A i \in 1 .. Len(c.target) : c.target[i] \notin Spaced
    /\ c.datasets # <<>>
    /\ \A i \in 1 .. Len(c.datasets) :
          c.datasets[i] # <<>> /\ ~Overlaps(c.target, c.datasets[i])
    /\ c.filter # <<>>
    /\ \A i \in 1 .. Len(c.filter) : c.filter[i].filter # "" /\ c.filter[i].min_keep >= 1
    /\ c.host = "" \/ c.port >= 1
    /\ c.spool \in Places /\ c.place \in Places

Accepted(file) == Validate(defaults(file))

-----------------------------------------------------------------------------
(* What the rest of the program takes from an accepted file.               *)

NFilterOf(file) == Len(defaults(file).filter)
MinKeepOf(file) == [f \in 1 .. NFilterOf(file) |-> defaults(file).filter[f].min_keep]
MaxRetriesOf(file) == defaults(file).max_retries
ResumableOf(file) == defaults(file).resumable = "true"

\* What discovery may list under the source's roots, and what lies under the
\* root that replicas are created, received and renamed under.
Read(file, x) == \E i \in 1 .. Len(file.datasets) : Within(file.datasets[i], x)
Written(file, x) == Within(file.target, x)

\* targetRoot + "/" + sourceName
TargetName(file, ds) == file.target \o ds
=============================================================================

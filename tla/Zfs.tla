-------------------------------- MODULE Zfs --------------------------------
(***************************************************************************)
(* ZFS as zsync relies on it.  This is not code of the repository: every   *)
(* definition is external, modelled from the commands zsync issues         *)
(* (zfs send [-w] [-p] [-i base] snap, zfs send -t token, zfs receive      *)
(* [-F] [-s], zfs destroy, zfs rename) and from what it expects of them.   *)
(*                                                                         *)
(* A stream is the snapshot it carries and the base it is relative to      *)
(* (0 for a full stream).  A receive that was interrupted under -s leaves  *)
(* the stream behind as the dataset's resume token.                        *)
(***************************************************************************)
EXTENDS Integers

Stream(snap, base) == [snap |-> snap, base |-> base]

NoToken == Stream(0, 0)

\* zfs send opens the snapshot and, for an incremental stream, its base;
\* so does zfs send -t.  S: the snapshots the source has now.
Sendable(stream, S) ==
    /\ stream.snap \in S
    /\ stream.base # 0 => stream.base \in S

\* A fresh stream is refused while the dataset holds a partial receive.  A
\* full stream without -F needs the dataset not to exist; an incremental
\* one needs its base, and that its snapshot is not there yet.
Receivable(stream, exists, T, token) ==
    /\ token = NoToken
    /\ IF stream.base = 0 THEN ~exists
       ELSE stream.base \in T /\ stream.snap \notin T

\* A snapshot that is already there may be read to the end and ignored.
AlreadyThere(stream, T, token) ==
    /\ token = NoToken
    /\ stream.base # 0
    /\ stream.snap \in T

\* receive -F rolls the dataset back to the base when the stream completes.
Received(stream, T) == {x \in T : x <= stream.base} \cup {stream.snap}

\* zfs destroy refuses a snapshot that is not there and the base of a
\* partial receive.
Destroyable(s, T, token) == s \in T /\ (token # NoToken => s # token.base)
=============================================================================

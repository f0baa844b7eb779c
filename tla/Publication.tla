---------------------------- MODULE Publication ----------------------------
(***************************************************************************)
(* What the pipeline promises to whoever reads its tables: each step only  *)
(* adds what rests on what is there, except that a snapshot of which some  *)
(* version extracts nothing may lose its features again.  Tasks, attempts, *)
(* objects and transactions are Pipeline's, which implements it.           *)
(***************************************************************************)
CONSTANTS
    SnapshotKeys, ChangesetKeys,
    Emptiable,      \* snapshots that may be published without a feature
    Sides(_)        \* the two snapshots of a changeset

VARIABLES
    ingested,       \* snapshots with a metadata row
    built,          \* changesets with a metadata row
    shown,          \* snapshots with features to serve
    approved,       \* changesets whose prerequisites an attempt has found
    loaded          \* changesets whose change layer is served

vars == <<ingested, built, shown, approved, loaded>>

Init ==
    /\ ingested = {} /\ built = {}
    /\ shown = {} /\ approved = {} /\ loaded = {}

Ingest(s) ==
    /\ ingested' = ingested \cup {s}
    /\ UNCHANGED <<built, shown, approved, loaded>>

Build(c) ==
    /\ Sides(c) \subseteq ingested
    /\ built' = built \cup {c}
    /\ UNCHANGED <<ingested, shown, approved, loaded>>

Show(s) ==
    /\ s \in ingested
    /\ shown' = shown \cup {s}
    /\ UNCHANGED <<ingested, built, approved, loaded>>

\* Published again, without a feature.
Withdraw(s) ==
    /\ s \in ingested \cap Emptiable
    /\ shown' = shown \ {s}
    /\ UNCHANGED <<ingested, built, approved, loaded>>

Approve(c) ==
    /\ c \in built
    /\ Sides(c) \subseteq shown
    /\ approved' = approved \cup {c}
    /\ UNCHANGED <<ingested, built, shown, loaded>>

Abandon(c) ==
    /\ approved' = approved \ {c}
    /\ UNCHANGED <<ingested, built, shown, loaded>>

\* A snapshot may have been withdrawn since the approval; and another attempt
\* may hold an approval of its own.
Load(c) ==
    /\ c \in approved
    /\ loaded' = loaded \cup {c}
    /\ approved' \in {approved, approved \ {c}}
    /\ UNCHANGED <<ingested, built, shown>>

Next ==
    \/ \E s \in SnapshotKeys : Ingest(s) \/ Show(s) \/ Withdraw(s)
    \/ \E c \in ChangesetKeys : Build(c) \/ Approve(c) \/ Abandon(c) \/ Load(c)

Spec == Init /\ [][Next]_vars
=============================================================================

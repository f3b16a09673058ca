----------------------------- MODULE DeltaState -----------------------------
(***************************************************************************)
(* The last-write-wins state of core/memory.py: CRDTState and the          *)
(* DeltaStateReconciler that keeps it in a file with mirrors.  DsReplicas  *)
(* exchange deltas, which may be late, repeated or out of order.  Keys do  *)
(* not interact, so the model has one; a value is named by the timestamp   *)
(* of its update, and clocks agree.                                        *)
(***************************************************************************)
EXTENDS Integers, Sequences, FiniteSets

CONSTANTS
    DsReplicas,
    Mirrors,        \* vault mirrors (2)
    MaxStamp,       \* bound: updates and deletes
    MaxCrashes      \* bound: crashes during a save, and mirrors that refuse a write

ASSUME DeltaStateAssumption ==
    Mirrors \in Nat /\ MaxStamp \in Nat /\ MaxCrashes \in Nat

VARIABLES
    dsFiles,    \* per replica: file 0 is the primary, the others its mirrors
    dsSave,     \* per replica: << >>, or the state being saved, the next file and the delta
    dsDeltas,   \* deltas that were returned to a caller
    dsClock,    \* the last timestamp given
    dsCrashes,  \* crashes so far
    dsRefused   \* history: mirror writes that failed

dsVars == <<dsFiles, dsSave, dsDeltas, dsClock, dsCrashes, dsRefused>>

DsFiles == 0 .. Mirrors
Torn == "torn"       \* a file that does not parse, or is not there

\* values and timestamps, tombstones, and as history the deltas it absorbed.
Empty == [stamp |-> 0, tomb |-> 0, seen |-> {}]

DsInit ==
    /\ dsFiles = [r \in DsReplicas |-> [f \in DsFiles |-> [x |-> Torn, st |-> Empty]]]
    /\ dsSave = [r \in DsReplicas |-> << >>]
    /\ dsDeltas = {} /\ dsClock = 0 /\ dsCrashes = 0 /\ dsRefused = 0

Readable(file) == file.x # Torn
-----------------------------------------------------------------------------
\* CRDTState.update: not under a tombstone as new, nor over a newer value.
Update(st, t) ==
    IF st.tomb >= t \/ st.stamp >= t THEN st
    ELSE [stamp |-> t, tomb |-> 0, seen |-> st.seen \cup {t}]

\* CRDTState.delete looks at the tombstone only.
Delete(st, t) == IF st.tomb >= t THEN st ELSE [stamp |-> 0, tomb |-> t, seen |-> st.seen \cup {t}]

\* Mutant: a tombstone does not look at the value it removes.
MergeTombstoneAlways(st, d) ==
    IF d.kind = "delete"
    THEN IF d.t > st.tomb THEN [st EXCEPT !.stamp = 0, !.tomb = d.t] ELSE st
    ELSE IF st.tomb < d.t /\ d.t > st.stamp THEN [st EXCEPT !.stamp = d.t, !.tomb = 0] ELSE st

\* CRDTState.merge_delta
Merge(st, d) ==
    IF d.kind = "delete"
    THEN IF d.t > st.stamp /\ d.t > st.tomb THEN [st EXCEPT !.stamp = 0, !.tomb = d.t] ELSE st
    ELSE IF st.tomb < d.t /\ d.t > st.stamp THEN [st EXCEPT !.stamp = d.t, !.tomb = 0] ELSE st

Absorb(st, d) == [Merge(st, d) EXCEPT !.seen = @ \cup {d.t}]

\* Mutant: a torn primary is taken for a state that was never saved.
LoadPrimaryOnly(r) == IF Readable(dsFiles[r][0]) THEN dsFiles[r][0].st ELSE Empty

\* _load_state: the primary, else the first mirror that can be read.
Load(r) ==
    LET ok == {f \in DsFiles : Readable(dsFiles[r][f])}
        first == CHOOSE f \in ok : \A g \in ok : f <= g
    IN  IF ok = {} THEN Empty ELSE dsFiles[r][first].st

\* ... which is written back to the primary.
Healed(r) ==
    IF \E f \in DsFiles : Readable(dsFiles[r][f])
    THEN [dsFiles EXCEPT ![r][0] = [x |-> "ok", st |-> Load(r)]] ELSE dsFiles

\* apply_update and apply_delete, under the lock, up to _save_state.
Apply(r, kind) ==
    LET t == dsClock + 1
        st == IF kind = "update" THEN Update(Load(r), t) ELSE Delete(Load(r), t)
    IN  /\ dsSave[r] = << >> /\ dsClock < MaxStamp
        /\ dsClock' = t
        /\ dsFiles' = Healed(r)
        /\ dsSave' = [dsSave EXCEPT ![r] = [st |-> st, file |-> 0, delta |-> {[kind |-> kind, t |-> t, by |-> r]}]]
        /\ UNCHANGED <<dsDeltas, dsCrashes, dsRefused>>

\* The files of a replica that lack nothing of a delta: it changes none of them.
AbsorbUnchanged(files, d) ==
    [f \in DsFiles |-> IF Readable(files[f]) /\ Merge(files[f].st, d) = files[f].st
                         THEN [files[f] EXCEPT !.st = Absorb(@, d)] ELSE files[f]]

\* merge_delta: saved when something changed; a file that absorbs the delta
\* without a change is as good as one that was given it.
MergeDelta(r, d) ==
    /\ dsSave[r] = << >> /\ (d.t \notin Load(r).seen \/ Healed(r) # dsFiles)
    /\ IF Merge(Load(r), d) # Load(r)
       THEN /\ dsFiles' = Healed(r)
            /\ dsSave' = [dsSave EXCEPT ![r] = [st |-> Absorb(Load(r), d), file |-> 0, delta |-> {}]]
       ELSE /\ dsFiles' = [Healed(r) EXCEPT ![r] = AbsorbUnchanged(@, d)]
            /\ UNCHANGED dsSave
    /\ UNCHANGED <<dsDeltas, dsClock, dsCrashes, dsRefused>>

\* _save_state writes one file after the other; after the last the delta is
\* returned.  A mirror that refuses is skipped.
SaveFile(r) ==
    LET sv == dsSave[r]
    IN  /\ sv # << >>
        /\ \/ dsFiles' = [dsFiles EXCEPT ![r][sv.file] = [x |-> "ok", st |-> sv.st]] /\ UNCHANGED dsRefused
           \/ sv.file > 0 /\ dsRefused < MaxCrashes /\ dsRefused' = dsRefused + 1 /\ UNCHANGED dsFiles
        /\ IF sv.file = Mirrors
           THEN dsSave' = [dsSave EXCEPT ![r] = << >>] /\ dsDeltas' = dsDeltas \cup sv.delta
           ELSE dsSave' = [dsSave EXCEPT ![r].file = @ + 1] /\ UNCHANGED dsDeltas
        /\ UNCHANGED <<dsClock, dsCrashes>>

\* The process dies while it writes a file, which is left torn.
CrashInSave(r) ==
    /\ dsSave[r] # << >> /\ dsCrashes < MaxCrashes
    /\ dsFiles' = [dsFiles EXCEPT ![r][dsSave[r].file].x = Torn]
    /\ dsSave' = [dsSave EXCEPT ![r] = << >>]
    /\ dsCrashes' = dsCrashes + 1
    /\ UNCHANGED <<dsDeltas, dsClock, dsRefused>>

DsNext ==
    \E r \in DsReplicas :
        \/ (\E kind \in {"update", "delete"} : Apply(r, kind))
        \/ (\E d \in dsDeltas : MergeDelta(r, d))
        \/ SaveFile(r) \/ CrashInSave(r)
-----------------------------------------------------------------------------
Visible(r) == [stamp |-> Load(r).stamp, tomb |-> Load(r).tomb]

\* DsReplicas that were given the same deltas show the same state, in whatever
\* order and however often the deltas came, and whichever file it is read from.
SameDeltasSameState ==
    \A r, q \in DsReplicas : Load(r).seen = Load(q).seen => Visible(r) = Visible(q)

\* An update or delete that was acknowledged is still there after crashes of
\* saves: absorbed by the file its replica loads.  A mirror that refused a
\* write is stale, and may be the one that is read after the next crash; and a
\* torn mirror stays torn until the next whole save, so that a crash for every
\* file can leave none.
AcknowledgedDeltasStay ==
    dsRefused = 0 /\ dsCrashes <= Mirrors => \A d \in dsDeltas : d.t \in Load(d.by).seen
=============================================================================

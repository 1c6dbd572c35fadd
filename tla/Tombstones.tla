----------------------------- MODULE Tombstones -----------------------------
(***************************************************************************)
(* Which of two versions of a record wins: src/database/tombstones.ts.  Of *)
(* a version its three times matter: of its last change, of its deletion   *)
(* (0: not deleted) and of its last restore (0: never).                    *)
(***************************************************************************)
EXTENDS Naturals

CONSTANT NoRecord    \* no record

Versions(Time) == [updated : Time, deleted : Time, restored : Time]

Dead(v) == v.deleted # 0
Alive(v) == v # NoRecord /\ ~Dead(v)

(* A restore counts against the deletions before it, and only those. *)
RestoredAfter(active, tombstone) == active.restored > tombstone.deleted

Stamp(v) == IF Dead(v) THEN v.deleted ELSE v.updated

NewestWins(next, cur) ==   \* mutant: a deletion is one more change
  next.updated > cur.updated

(* shouldReplaceWithNextRecord *)
Beats(next, cur) ==
  \/ Dead(cur) /\ ~Dead(next) /\ RestoredAfter(next, cur)
  \/ Dead(next) /\ ~Dead(cur) /\ ~RestoredAfter(cur, next)
  \/ (Dead(next) <=> Dead(cur)) /\ Stamp(next) > Stamp(cur)

(* The times of a new record, and those of buildTombstoneRecord and of     *)
(* buildRestorePatch.                                                      *)
Written(now) == [updated |-> now, deleted |-> 0, restored |-> 0]
Tombstone(now) == [updated |-> now, deleted |-> now, restored |-> 0]
Restored(now) == [updated |-> now, deleted |-> 0, restored |-> now]
=============================================================================

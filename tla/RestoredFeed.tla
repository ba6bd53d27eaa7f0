----------------------------- MODULE RestoredFeed -----------------------------
(***************************************************************************)
(* The feed of a database that is copied while it runs and restored from   *)
(* that copy later, which the documentation of the feed and of the local   *)
(* database both speak of.  Clients keep the cursors they hold.            *)
(***************************************************************************)
EXTENDS MCEventFeed

VARIABLES backup,        \* the copy of the database, or None
          older          \* readers whose cursor was issued after that copy

restoreVars == <<vars, backup, older>>

RestoreInit == Init /\ backup = None /\ older = {}

Backup ==
  /\ backup = None /\ HeadFree
  /\ backup' = [item |-> item, feed |-> feed, head |-> head, pruned |-> pruned]
  /\ UNCHANGED <<vars, older>>

\* The copy holds the key of the cursors too, which the database stores.
Restore ==
  /\ backup # None /\ HeadFree
  /\ item' = backup.item /\ feed' = backup.feed
  /\ head' = backup.head /\ pruned' = backup.pruned
  /\ answer' = [r \in Readers |-> None]
  /\ older' = {r \in Readers : cursor[r] # None /\ cursor[r].position > backup.head}
  /\ UNCHANGED <<now, txn, cursor, view, backup>>

RestoreNext ==
  \/ Next /\ OneReader' /\ older' = {r \in older : cursor'[r] = cursor[r]} /\ UNCHANGED backup
  \/ Backup
  \/ Restore

RestoreSpec == RestoreInit /\ [][RestoreNext]_restoreVars

\* "The first connection, expiry, corruption, a database restore or key change,
\* and a retention gap return a new watermark and reset_required"
\* (docs/memory-collaboration-events.md:45): a cursor from before the restore,
\* which names a position the restored feed never had, is not used again.
RestoreIsNoticed == \A r \in older : ~Usable(r)
=============================================================================

------------------------------ MODULE Database ------------------------------
(***************************************************************************)
(* The database file (database.rs): it is loaded when the program starts   *)
(* and rewritten in place after every scan and every event.  All dark-     *)
(* sorter processes of a user share it.  Readers and writers exclude each  *)
(* other with file locks, which the system drops when a process ends.  In  *)
(* Mirror the whole of store_to_disk is the one step Store.                *)
(***************************************************************************)
CONSTANTS
  Process,
  Entry,     \* sidecars whose edits are in the database
  Trouble,   \* what may go wrong in this instance
  Missing,   \* no file
  New,       \* a file that was created and never written: empty
  Torn       \* a file that was truncated and not written to its end

Map == SUBSET Entry

ASSUME TroubleAssumption == Trouble \subseteq {"crash", "diskFull"}
ASSUME FileAssumption ==
  /\ Missing # New /\ Missing # Torn /\ New # Torn
  /\ \A m \in Map : m \notin {Missing, New, Torn}

VARIABLES
  file,    \* Missing, New, Torn or a Map; no map can be read from New or Torn
  pc,      \* pc[p]: where process p is
  mem,     \* mem[p]: the map in the memory of p
  damaged  \* has a store been broken off that left New or Torn behind, since the
           \* last one that ended? (history variable)

vars == <<file, pc, mem, damaged>>

Init ==
  /\ file = Missing
  /\ pc = [p \in Process |-> "off"]
  /\ mem = [p \in Process |-> {}]
  /\ damaged = FALSE

Goes(p, where) == pc' = [pc EXCEPT ![p] = where]

Shared    == {p \in Process : pc[p] = "reading"}
Exclusive == {p \in Process : pc[p] \in {"locked", "writing"}}

-----------------------------------------------------------------------------
(* load_from_default_dir_or_create                                         *)

LoadFindsNone(p) ==
  /\ pc[p] = "off" /\ file = Missing
  /\ mem' = [mem EXCEPT ![p] = {}]
  /\ Goes(p, "running")
  /\ UNCHANGED <<file, damaged>>

LoadOpens(p) ==
  /\ pc[p] = "off" /\ file # Missing
  /\ Goes(p, "wantsShared")
  /\ UNCHANGED <<file, mem, damaged>>

\* Mutant: the file is read without a lock.
LoadDoesNotLock(p) ==
  /\ pc[p] = "wantsShared"
  /\ Goes(p, "reading")
  /\ UNCHANGED <<file, mem, damaged>>

LoadLocks(p) ==
  /\ pc[p] = "wantsShared" /\ Exclusive = {}
  /\ Goes(p, "reading")
  /\ UNCHANGED <<file, mem, damaged>>

\* The lock was not to be had for a second.
LoadTimesOut(p) ==
  /\ pc[p] = "wantsShared" /\ Exclusive # {}
  /\ Goes(p, "failed")
  /\ UNCHANGED <<file, mem, damaged>>

\* Mutant: what cannot be deserialized is taken for a map.
LoadReadsAnything(p) ==
  /\ pc[p] = "reading"
  /\ mem' = [mem EXCEPT ![p] = file]
  /\ Goes(p, "running")
  /\ UNCHANGED <<file, damaged>>

LoadReads(p) ==
  /\ pc[p] = "reading" /\ file \notin {New, Torn}
  /\ mem' = [mem EXCEPT ![p] = file]
  /\ Goes(p, "running")
  /\ UNCHANGED <<file, damaged>>

LoadFails(p) ==
  /\ pc[p] = "reading" /\ file \in {New, Torn}
  /\ Goes(p, "notDeserialized")
  /\ UNCHANGED <<file, mem, damaged>>

-----------------------------------------------------------------------------
(* store_to_disk                                                           *)

\* Edits are exported and entered before the map is stored.
Inserts(p, e) ==
  /\ pc[p] = "running" /\ e \notin mem[p]
  /\ mem' = [mem EXCEPT ![p] = @ \cup {e}]
  /\ UNCHANGED <<file, pc, damaged>>

\* The file is created, empty, before it is locked.
StoreOpens(p) ==
  /\ pc[p] = "running"
  /\ file' = IF file = Missing THEN New ELSE file
  /\ Goes(p, "wantsExclusive")
  /\ UNCHANGED <<mem, damaged>>

\* Mutant: writers shut out writers only.
StoreLocksWriters(p) ==
  /\ pc[p] = "wantsExclusive" /\ Exclusive = {}
  /\ Goes(p, "locked")
  /\ UNCHANGED <<file, mem, damaged>>

StoreLocks(p) ==
  /\ pc[p] = "wantsExclusive" /\ Exclusive = {} /\ Shared = {}
  /\ Goes(p, "locked")
  /\ UNCHANGED <<file, mem, damaged>>

StoreTimesOut(p) ==
  /\ pc[p] = "wantsExclusive" /\ Exclusive \cup Shared # {}
  /\ Goes(p, "failed")
  /\ damaged' = (damaged \/ file = New)
  /\ UNCHANGED <<file, mem>>

\* set_len(0), after which the file fills up from its start.
StoreTruncates(p) ==
  /\ pc[p] = "locked"
  /\ file' = Torn
  /\ Goes(p, "writing")
  /\ UNCHANGED <<mem, damaged>>

\* The compressor is finished, the writer dropped and with it the lock.
StoreEnds(p) ==
  /\ pc[p] = "writing"
  /\ file' = mem[p] /\ damaged' = FALSE
  /\ Goes(p, "running")
  /\ UNCHANGED mem

\* A write fails.  Those of the BufWriter that is dropped go unnoticed.
StoreFails(p) ==
  /\ "diskFull" \in Trouble
  /\ pc[p] = "writing"
  /\ \/ Goes(p, "failed")
     \/ Goes(p, "running")
  /\ damaged' = TRUE
  /\ UNCHANGED <<file, mem>>

-----------------------------------------------------------------------------
Ended == {"failed", "notDeserialized", "stopped"}

\* A store of p is under way and has not put a map into the file yet.
Storing(p) ==
  pc[p] = "writing" \/ (file = New /\ pc[p] \in {"wantsExclusive", "locked"})

Stops(p) ==
  /\ pc[p] = "running" \/ ("crash" \in Trouble /\ pc[p] \notin Ended \cup {"off"})
  /\ Goes(p, "stopped")
  /\ damaged' = (damaged \/ Storing(p))
  /\ UNCHANGED <<file, mem>>

Restarts(p) ==
  /\ pc[p] \in Ended
  /\ Goes(p, "off")
  /\ UNCHANGED <<file, mem, damaged>>

Load(p) ==
  \/ LoadFindsNone(p) \/ LoadOpens(p) \/ LoadLocks(p) \/ LoadTimesOut(p)
  \/ LoadReads(p) \/ LoadFails(p)

Store(p) ==
  \/ StoreOpens(p) \/ StoreLocks(p) \/ StoreTimesOut(p)
  \/ StoreTruncates(p) \/ StoreEnds(p) \/ StoreFails(p)

Next ==
  \E p \in Process :
    \/ Load(p)
    \/ \E e \in Entry : Inserts(p, e)
    \/ Store(p)
    \/ Stops(p) \/ Restarts(p)

Spec == Init /\ [][Next]_vars

-----------------------------------------------------------------------------
(* Properties                                                              *)

\* Types.
TypeOK ==
  /\ file \in {Missing, New, Torn} \/ file \in Map
  /\ pc \in [Process -> Ended \cup {"off", "wantsShared", "reading", "running",
                                    "wantsExclusive", "locked", "writing"}]
  /\ mem \in [Process -> Map]
  /\ damaged \in BOOLEAN

\* The locks are what they say, and a file without a map in it belongs to a
\* store under way or was left behind by one that was broken off.
LocksInv ==
  /\ \A p, q \in Exclusive : p = q
  /\ Exclusive # {} => Shared = {}
  /\ file \in {New, Torn} => damaged \/ \E p \in Process : Storing(p)
  /\ file = Missing => \A p \in Process : pc[p] \in Ended \cup {"off", "running"}

\* Loading fails on a file that was left behind by a store that was broken
\* off, and on one that another process has created and has not locked yet;
\* never on one another process is writing.  (load_from_file, store_to_disk
\* and the locks both take; the window before the lock is
\* open_db_file_writable's.)
FailsOnlyDamaged ==
  [][ \A p \in Process : LoadFails(p) =>
        damaged \/ (file = New /\ \E q \in Process : pc[q] = "wantsExclusive") ]_vars

\* While somebody reads the file it does not change, so that what is read is
\* one map and not parts of two.
ReadersUndisturbed == [][ Shared # {} => file' = file ]_vars

\* Not a property of the code, see README.md.
\* store_to_disk: "any corruption will just lead to an image being
\* re-exported not data loss".  It does not keep the program from starting.
CorruptionHarmless == \A p \in Process : pc[p] # "notDeserialized"

=============================================================================

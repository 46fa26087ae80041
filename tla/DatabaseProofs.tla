--------------------------- MODULE DatabaseProofs ---------------------------
(* The locks of the database file do their work, for any number of         *)
(* processes and entries, crashes and full disks.                          *)
EXTENDS Database, TLAPS

IInv == TypeOK /\ LocksInv

LEMMA InitLocks == Init => IInv
  BY FileAssumption
     DEF Init, IInv, TypeOK, LocksInv, Map, Exclusive, Shared, Ended, Storing

\* Loading, while nobody holds the exclusive lock, disturbs nobody.
LEMMA LoadStep ==
  ASSUME IInv, NEW p \in Process, Load(p)
  PROVE  /\ IInv' /\ file' = file
         /\ LoadFails(p) => damaged \/ (file = New /\ \E q \in Process : pc[q] = "wantsExclusive")
<1>1. UNCHANGED <<file, damaged>>
  BY DEF Load, LoadFindsNone, LoadOpens, LoadLocks, LoadTimesOut, LoadReads, LoadFails
<1>2. mem' \in [Process -> Map] /\ pc[p] \in {"off", "wantsShared", "reading"}
  <2>1. LoadReads(p) => file \in Map
    BY DEF LoadReads, IInv, TypeOK, LocksInv, Ended
  <2> QED
    BY <2>1 DEF Load, LoadFindsNone, LoadOpens, LoadLocks, LoadTimesOut, LoadReads, LoadFails,
                IInv, TypeOK, Map
<1>3. \E s \in {"running", "wantsShared", "reading", "failed", "notDeserialized"} :
        pc' = [pc EXCEPT ![p] = s] /\ (s = "reading" => Exclusive = {})
  BY DEF Load, LoadFindsNone, LoadOpens, LoadLocks, LoadTimesOut, LoadReads, LoadFails, Goes
<1>4. TypeOK'
  BY <1>1, <1>2, <1>3 DEF IInv, TypeOK, Ended
<1>5. Exclusive' = Exclusive /\ (Exclusive # {} => Shared' \subseteq Shared)
  BY <1>2, <1>3 DEF IInv, TypeOK, Exclusive, Shared
<1>6. \A q \in Process : Storing(q) => Storing(q)'
  BY <1>1, <1>2, <1>3 DEF IInv, TypeOK, Storing
<1>7. LocksInv'
  <2>1. file = Missing => \A q \in Process : pc'[q] \in Ended \cup {"off", "running"}
    BY <1>2 DEF Load, LoadFindsNone, LoadOpens, LoadLocks, LoadTimesOut, LoadReads, LoadFails, Goes,
                IInv, TypeOK, LocksInv, Ended
  <2> QED
    BY <1>1, <1>5, <1>6, <2>1 DEF IInv, LocksInv
<1>8. ASSUME LoadFails(p), ~damaged
      PROVE  file = New /\ \E q \in Process : pc[q] = "wantsExclusive"
  <2>1. pc[p] = "reading" /\ file \in {New, Torn}
    BY <1>8 DEF LoadFails
  <2>2. \A q \in Process : pc[q] \notin {"locked", "writing"}
    BY <2>1 DEF IInv, LocksInv, Exclusive, Shared
  <2>3. PICK q \in Process : Storing(q)
    BY <1>8, <2>1 DEF IInv, LocksInv
  <2> QED
    BY <2>2, <2>3 DEF Storing
<1> QED
  BY <1>1, <1>4, <1>7, <1>8 DEF IInv

\* Storing changes the file only where nobody reads.
LEMMA StoreStep ==
  ASSUME IInv, NEW p \in Process, Store(p)
  PROVE  IInv' /\ (Shared # {} => file' = file)
<1>1. mem' = mem /\ pc[p] \in {"running", "wantsExclusive", "locked", "writing"}
  BY DEF Store, StoreOpens, StoreLocks, StoreTimesOut, StoreTruncates, StoreEnds, StoreFails
<1>2. TypeOK'
  BY DEF Store, StoreOpens, StoreLocks, StoreTimesOut, StoreTruncates, StoreEnds, StoreFails,
         Goes, IInv, TypeOK, Ended
<1>6. file' # Missing /\ (Shared # {} => file # Missing)
  BY FileAssumption DEF Store, StoreOpens, StoreLocks, StoreTimesOut, StoreTruncates, StoreEnds,
     StoreFails, IInv, TypeOK, LocksInv, Shared, Ended
<1>3. CASE StoreOpens(p) \/ StoreTimesOut(p)
  <2>1. Exclusive' = Exclusive /\ Shared' = Shared
    BY <1>3 DEF StoreOpens, StoreTimesOut, Goes, IInv, TypeOK, Exclusive, Shared
  <2>2. file' \in {New, Torn} => damaged' \/ \E q \in Process : Storing(q)'
    <3>1. CASE StoreOpens(p) /\ file = Missing
      BY <3>1, FileAssumption DEF StoreOpens, Goes, IInv, TypeOK, Storing
    <3>2. CASE StoreOpens(p) /\ file # Missing
      BY <3>2 DEF StoreOpens, Goes, IInv, TypeOK, LocksInv, Storing
    <3>3. CASE StoreTimesOut(p)
      BY <3>3 DEF StoreTimesOut, Goes, IInv, TypeOK, LocksInv, Storing
    <3> QED
      BY <1>3, <3>1, <3>2, <3>3
  <2>3. Shared # {} => file' = file
    BY <1>3, <1>6 DEF StoreOpens, StoreTimesOut
  <2>4. LocksInv'
    BY <1>6, <2>1, <2>2 DEF IInv, LocksInv
  <2> QED
    BY <1>2, <2>3, <2>4 DEF IInv
<1>4. CASE StoreLocks(p)
  <2>1. /\ Exclusive = {} /\ Shared = {} /\ UNCHANGED <<file, damaged>>
        /\ pc' = [pc EXCEPT ![p] = "locked"]
    BY <1>4 DEF StoreLocks, Goes
  <2>2. Exclusive' \subseteq {p} /\ Shared' = {}
    BY <2>1 DEF IInv, TypeOK, Exclusive, Shared
  <2>3. \A q \in Process : Storing(q) => Storing(q)'
    BY <1>4, <2>1 DEF StoreLocks, Storing, IInv, TypeOK
  <2> QED
    BY <1>2, <1>6, <2>1, <2>2, <2>3 DEF IInv, LocksInv
<1>5. CASE StoreTruncates(p) \/ StoreEnds(p) \/ StoreFails(p)
  <2>1. p \in Exclusive /\ Shared = {} /\ Exclusive = {p}
    BY <1>5 DEF StoreTruncates, StoreEnds, StoreFails, Exclusive, IInv, LocksInv
  <2>2. Exclusive' \subseteq {p} /\ Shared' = {}
    BY <1>5, <2>1 DEF StoreTruncates, StoreEnds, StoreFails, Goes, Exclusive, Shared, IInv, TypeOK
  <2>3. file' \in {New, Torn} => damaged' \/ Storing(p)'
    BY <1>5, FileAssumption DEF StoreTruncates, StoreEnds, StoreFails, Goes, IInv, TypeOK, Storing
  <2> QED
    BY <1>2, <1>6, <2>1, <2>2, <2>3 DEF IInv, LocksInv
<1> QED
  BY <1>3, <1>4, <1>5 DEF Store

LEMMA OtherStep ==
  ASSUME IInv, NEW p \in Process, (\E e \in Entry : Inserts(p, e)) \/ Stops(p) \/ Restarts(p)
  PROVE  IInv' /\ file' = file
<1>1. CASE \E e \in Entry : Inserts(p, e)
  BY <1>1 DEF Inserts, IInv, TypeOK, LocksInv, Exclusive, Shared, Map, Ended, Storing
<1>2. CASE Stops(p) \/ Restarts(p)
  <2>1. \E s \in {"stopped", "off"} : pc' = [pc EXCEPT ![p] = s]
    BY <1>2 DEF Stops, Restarts, Goes
  <2>2. UNCHANGED <<file, mem>> /\ damaged' \in BOOLEAN /\ (damaged \/ Storing(p) => damaged')
    BY <1>2 DEF Stops, Restarts, IInv, TypeOK, Ended, Storing
  <2>3. TypeOK'
    BY <2>1, <2>2 DEF IInv, TypeOK, Ended
  <2>4. Exclusive' \subseteq Exclusive /\ Shared' \subseteq Shared
    BY <2>1 DEF IInv, TypeOK, Exclusive, Shared
  <2>5. \A q \in Process : Storing(q) => Storing(q)' \/ damaged'
    BY <2>1, <2>2 DEF IInv, TypeOK, Storing
  <2>6. LocksInv'
    BY <2>1, <2>2, <2>4, <2>5 DEF IInv, TypeOK, LocksInv, Ended
  <2> QED
    BY <2>2, <2>3, <2>6 DEF IInv
<1> QED
  BY <1>1, <1>2

LEMMA LocksStep == IInv /\ [Next]_vars => IInv'
<1> SUFFICES ASSUME IInv, [Next]_vars PROVE IInv'
  OBVIOUS
<1>1. CASE UNCHANGED vars
  BY <1>1 DEF vars, IInv, TypeOK, LocksInv, Exclusive, Shared, Storing
<1>2. CASE Next
  BY <1>2, LoadStep, StoreStep, OtherStep DEF Next
<1> QED
  BY <1>1, <1>2

\* The locks exclude each other, and without a map in it the file belongs to
\* a store under way or was left behind by one that was broken off.
THEOREM LocksWork == Spec => []LocksInv
<1>1. IInv => LocksInv
  BY DEF IInv
<1> QED
  BY <1>1, InitLocks, LocksStep, PTL DEF Spec

\* Types of the file, the locks and the maps in memory.
THEOREM TypeCorrect == Spec => []TypeOK
<1>1. IInv => TypeOK
  BY DEF IInv
<1> QED
  BY <1>1, InitLocks, LocksStep, PTL DEF Spec

\* What keeps a program from loading the database is what a broken store has
\* left, and the instant between the creation of the file and its first lock;
\* not another process that is writing, whatever the others do at the time.
THEOREM LoadFailures == Spec => FailsOnlyDamaged
<1>1. IInv /\ [Next]_vars =>
        [\A p \in Process : LoadFails(p) =>
           damaged \/ (file = New /\ \E q \in Process : pc[q] = "wantsExclusive")]_vars
  BY LoadStep DEF Load
<1> QED
  BY <1>1, InitLocks, LocksStep, PTL DEF Spec, FailsOnlyDamaged

\* What somebody reads stays as it is until it is read.
THEOREM ReadersAreUndisturbed == Spec => ReadersUndisturbed
<1>1. IInv /\ [Next]_vars => [Shared # {} => file' = file]_vars
  BY LoadStep, StoreStep, OtherStep DEF Next
<1> QED
  BY <1>1, InitLocks, LocksStep, PTL DEF Spec, ReadersUndisturbed

=============================================================================

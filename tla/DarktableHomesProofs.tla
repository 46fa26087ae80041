------------------------ MODULE DarktableHomesProofs ------------------------
(* Exports never share a home, for any number of exports and slots, whatever *)
(* exports are dropped and however often the program starts again.          *)
EXTENDS DarktableHomes, TLAPS

LEMMA InitHomes == Init => TypeOK /\ HomesDistinct
  BY SlotsAssumption, NoneAssumption
     DEF Init, TypeOK, HomesDistinct, Slot, Home, Inside, Panics

\* A step of an export that neither gets a home nor gives one up.
LEMMA Stutters ==
  ASSUME TypeOK, NEW t \in Task,
         \/ Acquire(t) \/ CheckFails(t) \/ CheckPasses(t) \/ TryLock(t)
         \/ Ends(t) \/ Dropped(t) \/ DropLocks(t)
  PROVE  /\ TypeOK' /\ UNCHANGED <<home, slot, created>>
         /\ left' = left \/ Exclusive!Abandon(t)
<1>1. UNCHANGED <<home, slot, created>>
  BY DEF Acquire, CheckFails, CheckPasses, TryLock, Ends, Dropped, Leaves, DropLocks
<1>2. CASE Acquire(t) \/ CheckFails(t)
  BY <1>1, <1>2 DEF Acquire, CheckFails, Goes, TypeOK, Inside, Panics
<1>3. CASE CheckPasses(t) \/ Ends(t) \/ Dropped(t)
  <2>1. 1 \in Slot
    BY SlotsAssumption DEF Slot
  <2>2. /\ pc[t] \in {"checking", "exporting"} /\ lock' = lock
        /\ at' = [at EXCEPT ![t] = 1]
        /\ pc' = [pc EXCEPT ![t] = IF pc[t] = "checking" THEN "trying" ELSE "locking"]
    BY <1>3 DEF CheckPasses, Ends, Dropped, Leaves, Goes
  <2>3. /\ left' = left \/ Exclusive!Abandon(t)
        /\ left' \in SUBSET Home
    BY <1>1, <1>3 DEF CheckPasses, Ends, Dropped, Leaves, TypeOK, Exclusive!Abandon
  <2> QED
    BY <1>1, <2>1, <2>2, <2>3 DEF TypeOK, Inside, Panics
<1>4. CASE TryLock(t)
  <2>1. pc[t] = "trying" /\ left' = left
    BY <1>4 DEF TryLock
  <2>2. CASE lock[at[t]] = None
    <3>1. /\ lock' = [lock EXCEPT ![at[t]] = t] /\ at' = at
          /\ pc' = [pc EXCEPT ![t] = "choosing"]
      BY <1>4, <2>2 DEF TryLock, Goes
    <3>2. at[t] \in Slot /\ \A u \in Task : lock[at[t]] # u
      BY <2>2, NoneAssumption DEF TypeOK
    <3> QED
      BY <1>1, <2>1, <3>1, <3>2, NoneAssumption DEF TypeOK, Inside, Panics
  <2>3. CASE lock[at[t]] # None
    <3>1. /\ lock' = lock
          /\ \/ at' = [at EXCEPT ![t] = @ + 1] /\ at[t] < Slots /\ pc' = pc
             \/ at' = at /\ pc' = [pc EXCEPT ![t] = "noSlotLocked"]
      BY <1>4, <2>3 DEF TryLock, Goes
    <3>2. at' \in [Task -> Slot]
      BY <3>1, SlotsAssumption DEF TypeOK, Slot
    <3>3. \A u \in Task : u # t => at'[u] = at[u] /\ pc'[u] = pc[u]
      BY <3>1 DEF TypeOK
    <3>4. pc'[t] \in {"trying", "noSlotLocked"} /\ pc' \in [Task -> Inside \cup Panics \cup {"idle"}]
      BY <2>1, <3>1 DEF TypeOK, Inside, Panics
    <3> QED
      BY <1>1, <2>1, <3>1, <3>2, <3>3, <3>4 DEF TypeOK
  <2> QED
    BY <1>1, <2>1, <2>2, <2>3
<1>5. CASE DropLocks(t)
  <2>1. /\ at[t] \in Slot /\ pc[t] = "locking" /\ lock[at[t]] = None /\ UNCHANGED <<at, left>>
        /\ lock' = [lock EXCEPT ![at[t]] = t] /\ pc' = [pc EXCEPT ![t] = "looking"]
    BY <1>5 DEF DropLocks, Goes, TypeOK
  <2>2. \A u \in Task : lock[at[t]] # u
    BY <2>1, NoneAssumption
  <2> QED
    BY <1>1, <2>1, <2>2, NoneAssumption DEF TypeOK, Inside, Panics
<1> QED
  BY <1>1, <1>2, <1>3, <1>4, <1>5 DEF Acquire, CheckFails

\* The holder of a mutex gives it back and goes on to where none is held.
LEMMA Unlock ==
  ASSUME TypeOK, NEW t \in Task, pc[t] \in {"choosing", "looking"}, Unlocks(t),
         NEW where \in {"idle", "exporting", "locking", "noEmptySlot"}, Goes(t, where),
         \A u \in Task \ {t} : at'[u] = at[u]
  PROVE  /\ lock' \in [Slot -> Task \cup {None}]
         /\ pc' \in [Task -> Inside \cup Panics \cup {"idle"}]
         /\ \A u \in Task, i \in Slot :
              lock'[i] = u <=> at'[u] = i /\ pc'[u] \in {"choosing", "looking"}
<1>1. /\ at[t] \in Slot /\ lock[at[t]] = t
      /\ lock' = [lock EXCEPT ![at[t]] = None] /\ pc' = [pc EXCEPT ![t] = where]
  BY DEF TypeOK, Unlocks, Goes
<1>2. /\ lock' \in [Slot -> Task \cup {None}]
      /\ pc' \in [Task -> Inside \cup Panics \cup {"idle"}]
  BY <1>1 DEF TypeOK, Inside, Panics
<1>3. ASSUME NEW u \in Task, NEW i \in Slot
      PROVE  lock'[i] = u <=> at'[u] = i /\ pc'[u] \in {"choosing", "looking"}
  <2>1. CASE u = t
    BY <1>1, <2>1, NoneAssumption DEF TypeOK
  <2>2. CASE u # t
    <3>1. lock[i] = u <=> at[u] = i /\ pc[u] \in {"choosing", "looking"}
      BY DEF TypeOK
    <3>2. at'[u] = at[u] /\ pc'[u] = pc[u]
      BY <1>1, <2>2 DEF TypeOK
    <3>3. lock'[i] = u <=> lock[i] = u
      BY <1>1, <2>2, NoneAssumption DEF TypeOK
    <3> QED
      BY <3>1, <3>2, <3>3
  <2> QED
    BY <2>1, <2>2
<1> QED
  BY <1>2, <1>3

LEMMA TakeStep ==
  ASSUME TypeOK, HomesDistinct, NEW t \in Task, Take(t)
  PROVE  TypeOK' /\ HomesDistinct' /\ left' = left /\ Exclusive!Begin(t)
<1> DEFINE h == slot[at[t]]
<1>1. /\ at[t] \in Slot /\ h \in Home /\ h # None /\ home[t] = None
      /\ home' = [home EXCEPT ![t] = h] /\ slot' = [slot EXCEPT ![at[t]] = None]
      /\ UNCHANGED <<at, created>>
  BY DEF Take, TypeOK
<1>2. TypeOK'
  <2>1. /\ pc[t] = "choosing" /\ Goes(t, "exporting") /\ Unlocks(t) /\ left' = left
    BY DEF Take
  <2>2. /\ lock' \in [Slot -> Task \cup {None}] /\ pc' \in [Task -> Inside \cup Panics \cup {"idle"}]
        /\ \A u \in Task, i \in Slot :
             lock'[i] = u <=> at'[u] = i /\ pc'[u] \in {"choosing", "looking"}
    BY <1>1, <2>1, Unlock
  <2>3. /\ home' \in [Task -> Home \cup {None}] /\ slot' \in [Slot -> Home \cup {None}]
        /\ \A u \in Task : home'[u] # None <=> pc'[u] \in {"exporting", "locking", "looking"}
    BY <1>1, <2>1 DEF Goes, TypeOK
  <2> QED
    BY <1>1, <2>1, <2>2, <2>3 DEF TypeOK
<1>3. HomesDistinct'
  BY <1>1 DEF HomesDistinct, TypeOK
<1>4. \A v \in Task : home[v] # h
  BY <1>1 DEF HomesDistinct
<1>5. left' = left
  BY DEF Take
<1> QED
  BY <1>1, <1>2, <1>3, <1>4, <1>5 DEF Exclusive!Begin

LEMMA CreateStep ==
  ASSUME TypeOK, HomesDistinct, NEW t \in Task, Create(t)
  PROVE  /\ TypeOK' /\ HomesDistinct' /\ left' = left
         /\ Exclusive!Begin(t) \/ home' = home
<1>1. /\ home[t] = None /\ created \in Home /\ created # None /\ created' = created + 1
      /\ created \in Nat /\ UNCHANGED <<at, slot>>
  BY SlotsAssumption, NoneAssumption DEF Create, TypeOK, Home
<1>2. home' = home \/ home' = [home EXCEPT ![t] = created]
  BY DEF Create
<1>3. TypeOK'
  <2>1. created' \in 0 .. MaxHomes
    BY SlotsAssumption DEF Create, TypeOK
  <2>2. \E where \in {"idle", "exporting"} :
          /\ Goes(t, where) /\ home' = IF where = "idle" THEN home ELSE [home EXCEPT ![t] = created]
    BY DEF Create
  <2>3. pc[t] = "choosing" /\ Unlocks(t) /\ UNCHANGED <<at, slot, left>>
    BY DEF Create
  <2>4. /\ lock' \in [Slot -> Task \cup {None}] /\ pc' \in [Task -> Inside \cup Panics \cup {"idle"}]
        /\ \A u \in Task, i \in Slot :
             lock'[i] = u <=> at'[u] = i /\ pc'[u] \in {"choosing", "looking"}
    BY <2>2, <2>3, Unlock
  <2> QED
    BY <1>1, <2>1, <2>2, <2>3, <2>4 DEF Goes, TypeOK
<1>4. /\ \A v \in Task : home[v] # None => home[v] < created /\ home[v] \in Nat
      /\ \A i \in Slot : slot[i] # None => slot[i] < created /\ slot[i] \in Nat
  BY SlotsAssumption DEF HomesDistinct, TypeOK, Home
<1>5. /\ \A v \in Task : home[v] # created
      /\ \A i \in Slot : slot[i] # created
  BY <1>1, <1>4
<1>6. HomesDistinct'
  BY <1>1, <1>2, <1>4, <1>5 DEF HomesDistinct, TypeOK
<1> QED
  BY <1>1, <1>2, <1>3, <1>5, <1>6 DEF Create, Exclusive!Begin

LEMMA DropStep ==
  ASSUME TypeOK, HomesDistinct, NEW t \in Task, DropFills(t) \/ DropGoesOn(t)
  PROVE  TypeOK' /\ HomesDistinct' /\ left' = left /\ (Exclusive!End(t) \/ home' = home)
<1>1. home[t] # None /\ home[t] \in Home /\ at[t] \in Slot /\ created' = created
  BY DEF DropFills, DropGoesOn, TypeOK, Home
<1>2. CASE DropFills(t)
  <2>1. home' = [home EXCEPT ![t] = None] /\ slot' = [slot EXCEPT ![at[t]] = home[t]]
    BY <1>2 DEF DropFills
  <2>2. TypeOK'
    <3>1. pc[t] = "looking" /\ Goes(t, "idle") /\ Unlocks(t) /\ UNCHANGED <<at, left>>
      BY <1>2 DEF DropFills
    <3>2. /\ lock' \in [Slot -> Task \cup {None}] /\ pc' \in [Task -> Inside \cup Panics \cup {"idle"}]
          /\ \A u \in Task, i \in Slot :
               lock'[i] = u <=> at'[u] = i /\ pc'[u] \in {"choosing", "looking"}
      BY <3>1, Unlock
    <3>3. /\ home' \in [Task -> Home \cup {None}] /\ slot' \in [Slot -> Home \cup {None}]
          /\ \A u \in Task : home'[u] # None <=> pc'[u] \in {"exporting", "locking", "looking"}
      BY <1>1, <2>1, <3>1 DEF Goes, TypeOK
    <3> QED
      BY <1>1, <3>1, <3>2, <3>3 DEF TypeOK
  <2>3. HomesDistinct'
    BY <1>1, <2>1 DEF HomesDistinct, TypeOK
  <2> QED
    BY <1>1, <1>2, <2>1, <2>2, <2>3 DEF DropFills, Exclusive!End
<1>3. CASE DropGoesOn(t)
  <2>1. slot' = slot /\ (home' = home \/ home' = [home EXCEPT ![t] = None])
    BY <1>3 DEF DropGoesOn
  <2>2. TypeOK'
    <3>1. at' = at \/ (at' = [at EXCEPT ![t] = @ + 1] /\ at[t] < Slots)
      BY <1>3 DEF DropGoesOn
    <3>2. at' \in [Task -> Slot] /\ \A u \in Task \ {t} : at'[u] = at[u]
      BY <3>1, SlotsAssumption DEF TypeOK, Slot
    <3>3. /\ pc[t] = "looking" /\ Unlocks(t) /\ left' = left
          /\ \/ Goes(t, "locking") /\ home' = home
             \/ Goes(t, "noEmptySlot") /\ home' = [home EXCEPT ![t] = None]
      BY <1>3 DEF DropGoesOn
    <3>4. /\ lock' \in [Slot -> Task \cup {None}] /\ pc' \in [Task -> Inside \cup Panics \cup {"idle"}]
          /\ \A u \in Task, i \in Slot :
               lock'[i] = u <=> at'[u] = i /\ pc'[u] \in {"choosing", "looking"}
      BY <3>2, <3>3, Unlock
    <3>5. slot' = slot /\ created' = created
      BY <1>1, <2>1
    <3> QED
      BY <3>2, <3>3, <3>4, <3>5 DEF Goes, TypeOK
  <2>3. HomesDistinct'
    BY <1>1, <2>1 DEF HomesDistinct, TypeOK
  <2> QED
    BY <1>1, <1>3, <2>1, <2>2, <2>3 DEF DropGoesOn, Exclusive!End
<1> QED
  BY <1>2, <1>3

\* A process left to itself ends, or the program starts again.
LEMMA OtherStep ==
  ASSUME TypeOK, HomesDistinct, Restart \/ \E h \in Home : LeftEnds(h)
  PROVE  /\ TypeOK' /\ HomesDistinct'
         /\ Exclusive!Restart \/ \E h \in Home : Exclusive!Finish(h)
<1>1. CASE Restart
  <2>1. /\ pc' = [t \in Task |-> "idle"] /\ at' = [t \in Task |-> 1]
        /\ home' = [t \in Task |-> None] /\ slot' = [i \in Slot |-> None]
        /\ lock' = [i \in Slot |-> None] /\ created' = 0
    BY <1>1 DEF Restart
  <2>2. left' \in SUBSET Home
    BY <1>1 DEF Restart, TypeOK
  <2>3. 1 \in Slot /\ 0 \in 0 .. MaxHomes
    BY SlotsAssumption DEF Slot
  <2>4. \A t \in Task : None # t
    BY NoneAssumption
  <2>5. Exclusive!Restart
    <3>1. left' = left \cup {home[t] : t \in {u \in Task : pc[u] = "exporting"}}
      BY <1>1 DEF Restart
    <3>2. \A t \in Task : pc[t] = "exporting" => home[t] # None
      BY DEF TypeOK
    <3> QED
      BY <2>1, <3>1, <3>2 DEF Exclusive!Restart
  <2> QED
    BY <2>1, <2>2, <2>3, <2>4, <2>5 DEF TypeOK, HomesDistinct, Inside, Panics
<1>2. ASSUME NEW h \in Home, LeftEnds(h)
      PROVE  TypeOK' /\ HomesDistinct' /\ Exclusive!Finish(h)
  BY <1>2 DEF LeftEnds, TypeOK, HomesDistinct, Exclusive!Finish
<1> QED
  BY <1>1, <1>2

LEMMA HomesStep ==
  ASSUME TypeOK, HomesDistinct, [Next]_vars
  PROVE  TypeOK' /\ HomesDistinct' /\ [Exclusive!Next]_(Exclusive!vars)
<1>1. CASE UNCHANGED vars
  BY <1>1 DEF vars, TypeOK, HomesDistinct, Exclusive!vars
<1>2. ASSUME NEW t \in Task,
             \/ Acquire(t) \/ CheckFails(t) \/ CheckPasses(t) \/ TryLock(t) \/ Ends(t)
             \/ Dropped(t) \/ DropLocks(t)
      PROVE  TypeOK' /\ HomesDistinct' /\ [Exclusive!Next]_(Exclusive!vars)
  BY <1>2, Stutters DEF HomesDistinct, Exclusive!Next, Exclusive!vars
<1>3. ASSUME NEW t \in Task, Take(t) \/ Create(t) \/ DropFills(t) \/ DropGoesOn(t)
      PROVE  TypeOK' /\ HomesDistinct' /\ [Exclusive!Next]_(Exclusive!vars)
  BY <1>3, TakeStep, CreateStep, DropStep DEF Exclusive!Next, Exclusive!vars
<1>4. CASE Restart \/ \E h \in Home : LeftEnds(h)
  BY <1>4, OtherStep DEF Exclusive!Next
<1> QED
  BY <1>1, <1>2, <1>3, <1>4 DEF Next

\* A home is in one place at a time, whatever the number of exports, permits
\* and homes, and however the exports interleave, are dropped, or end with
\* the program.  (darktable_cli.rs: darktable_home, drop.)
THEOREM HomesStayDistinct == Spec => [](TypeOK /\ HomesDistinct)
<1>1. TypeOK /\ HomesDistinct /\ [Next]_vars => (TypeOK /\ HomesDistinct)'
  BY HomesStep
<1> QED
  BY <1>1, InitHomes, PTL DEF Spec

\* Types: the mutex of a slot is held by the export that looks at it, and by
\* nobody else; an export that ended has neither a home nor a mutex.
THEOREM TypeCorrect == Spec => []TypeOK
  BY HomesStayDistinct, PTL

\* No export gets a home another one is using, and no process shares its home
\* while none is left without its export: the pool of homes implements
\* ExclusiveUse.
THEOREM HomesAreExclusive == Spec => HomesExclusive
<1>1. Init => TypeOK /\ HomesDistinct /\ Exclusive!Init
  BY InitHomes DEF Init, Exclusive!Init
<1>2. TypeOK /\ HomesDistinct /\ [Next]_vars =>
        (TypeOK /\ HomesDistinct)' /\ [Exclusive!Next]_(Exclusive!vars)
  BY HomesStep
<1> QED
  BY <1>1, <1>2, PTL DEF Spec, HomesExclusive, Exclusive!Spec

=============================================================================

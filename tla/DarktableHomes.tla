--------------------------- MODULE DarktableHomes ---------------------------
(***************************************************************************)
(* The homes of darktable (darktable_cli.rs).  A semaphore lets a few      *)
(* exports run at a time.  Each takes a directory for darktable to call    *)
(* home out of an array of mutexes, or creates one, and puts it back when  *)
(* its DarkTableHome is dropped.  The exports of one directory share a     *)
(* task, those of different directories run on different threads: a step   *)
(* of this module is one access to a mutex of the array.                   *)
(*                                                                         *)
(* darktable-cli is started without kill_on_drop.  Where the future of an  *)
(* export is dropped, because another one of its directory failed, or the  *)
(* program ends, the process goes on in its home.                          *)
(***************************************************************************)
EXTENDS Naturals, FiniteSets

CONSTANTS
  Task,      \* exports that may be under way at the same time
  Slots,     \* MAX_PARALLEL_EXPORTS: permits of the semaphore, length of HOMES
  MaxHomes,  \* bound: homes created
  Trouble,   \* what may go wrong in this instance
  None

Slot == 1 .. Slots
Home == 0 .. MaxHomes - 1

ASSUME SlotsAssumption == Slots \in Nat \ {0} /\ MaxHomes \in Nat
ASSUME TroubleAssumption == Trouble \subseteq {"dropped", "restart"}
ASSUME NoneAssumption  == None \notin Nat /\ None \notin Task

VARIABLES
  pc,       \* pc[t]: where export t is
  at,       \* at[t]: the slot t looks at, in darktable_home or in drop
  home,     \* home[t]: the DarkTableHome of t
  slot,     \* slot[i]: what is in HOMES[i]
  lock,     \* lock[i]: who holds the mutex of HOMES[i]
  created,  \* CREATED
  left      \* homes in which a darktable-cli of a dropped export still runs

vars == <<pc, at, home, slot, lock, created, left>>

\* Where the permit of the semaphore is held.
Inside == {"checking", "trying", "choosing", "exporting", "locking", "looking"}
Panics == {"noSlotLocked", "noEmptySlot"}

Init ==
  /\ pc = [t \in Task |-> "idle"]
  /\ at = [t \in Task |-> 1]
  /\ home = [t \in Task |-> None]
  /\ slot = [i \in Slot |-> None]
  /\ lock = [i \in Slot |-> None]
  /\ created = 0
  /\ left = {}

Goes(t, where) == pc' = [pc EXCEPT ![t] = where]

-----------------------------------------------------------------------------
(* export: the permit, and the checks before darktable is started          *)

Holders == {t \in Task : pc[t] \in Inside}

Acquire(t) ==
  /\ pc[t] = "idle" /\ Cardinality(Holders) < Slots
  /\ Goes(t, "checking")
  /\ UNCHANGED <<at, home, slot, lock, created, left>>

\* asses_file_state: no input file, or no permission for one of the two.
CheckFails(t) ==
  /\ pc[t] = "checking"
  /\ Goes(t, "idle")
  /\ UNCHANGED <<at, home, slot, lock, created, left>>

CheckPasses(t) ==
  /\ pc[t] = "checking"
  /\ Goes(t, "trying")
  /\ at' = [at EXCEPT ![t] = 1]
  /\ UNCHANGED <<home, slot, lock, created, left>>

-----------------------------------------------------------------------------
(* darktable_home: the first slot whose mutex is not held, full or empty   *)

TryLock(t) ==
  /\ pc[t] = "trying"
  /\ \/ /\ lock[at[t]] = None
        /\ lock' = [lock EXCEPT ![at[t]] = t]
        /\ Goes(t, "choosing")
        /\ UNCHANGED at
     \/ /\ lock[at[t]] # None /\ at[t] < Slots
        /\ at' = [at EXCEPT ![t] = @ + 1]
        /\ UNCHANGED <<pc, lock>>
     \/ /\ lock[at[t]] # None /\ at[t] = Slots
        /\ Goes(t, "noSlotLocked")
        /\ UNCHANGED <<at, lock>>
  /\ UNCHANGED <<home, slot, created, left>>

Unlocks(t) == lock' = [lock EXCEPT ![at[t]] = None]

\* Mutant: the home is copied from its slot.
TakeCopy(t) ==
  /\ pc[t] = "choosing" /\ slot[at[t]] # None
  /\ home' = [home EXCEPT ![t] = slot[at[t]]]
  /\ Goes(t, "exporting") /\ Unlocks(t)
  /\ UNCHANGED <<at, slot, created, left>>

Take(t) ==
  /\ pc[t] = "choosing" /\ slot[at[t]] # None
  /\ home' = [home EXCEPT ![t] = slot[at[t]]]
  /\ slot' = [slot EXCEPT ![at[t]] = None]
  /\ Goes(t, "exporting") /\ Unlocks(t)
  /\ UNCHANGED <<at, created, left>>

\* The slot is empty: the next home is created, which may fail.
Create(t) ==
  /\ pc[t] = "choosing" /\ slot[at[t]] = None /\ created < MaxHomes
  /\ created' = created + 1
  /\ \/ home' = [home EXCEPT ![t] = created] /\ Goes(t, "exporting")
     \/ Goes(t, "idle") /\ UNCHANGED home
  /\ Unlocks(t)
  /\ UNCHANGED <<at, slot, left>>

-----------------------------------------------------------------------------
(* The export ends, in success or failure, or its future is dropped.  The  *)
(* DarkTableHome goes before the permit.                                   *)

Leaves(t) ==
  /\ pc[t] = "exporting"
  /\ Goes(t, "locking")
  /\ at' = [at EXCEPT ![t] = 1]
  /\ UNCHANGED <<home, slot, lock, created>>

\* darktable-cli has ended, or was not started yet.
Ends(t) == Leaves(t) /\ UNCHANGED left

\* darktable-cli runs on.
Dropped(t) ==
  /\ "dropped" \in Trouble
  /\ Leaves(t)
  /\ left' = left \cup {home[t]}

\* Mutant: the search of drop does not wait for the mutex of a slot.
DropDoesNotWait(t) ==
  /\ pc[t] = "locking"
  /\ lock' = [lock EXCEPT ![at[t]] = t]
  /\ Goes(t, "looking")
  /\ UNCHANGED <<at, home, slot, created, left>>

DropLocks(t) ==
  /\ pc[t] = "locking" /\ lock[at[t]] = None
  /\ lock' = [lock EXCEPT ![at[t]] = t]
  /\ Goes(t, "looking")
  /\ UNCHANGED <<at, home, slot, created, left>>

DropFills(t) ==
  /\ pc[t] = "looking" /\ slot[at[t]] = None
  /\ slot' = [slot EXCEPT ![at[t]] = home[t]]
  /\ home' = [home EXCEPT ![t] = None]
  /\ Goes(t, "idle") /\ Unlocks(t)
  /\ UNCHANGED <<at, created, left>>

DropGoesOn(t) ==
  /\ pc[t] = "looking" /\ slot[at[t]] # None
  /\ \/ /\ at[t] < Slots
        /\ at' = [at EXCEPT ![t] = @ + 1]
        /\ Goes(t, "locking")
        /\ UNCHANGED home
     \/ /\ at[t] = Slots
        /\ Goes(t, "noEmptySlot")
        /\ home' = [home EXCEPT ![t] = None]
        /\ UNCHANGED at
  /\ Unlocks(t)
  /\ UNCHANGED <<slot, created, left>>

LeftEnds(h) ==
  /\ h \in left
  /\ left' = left \ {h}
  /\ UNCHANGED <<pc, at, home, slot, lock, created>>

\* The program ends and starts again.  HOMES and CREATED begin anew, and the
\* homes have the names of those before.
Restart ==
  /\ "restart" \in Trouble /\ created > 0
  /\ pc' = [t \in Task |-> "idle"] /\ at' = [t \in Task |-> 1]
  /\ home' = [t \in Task |-> None]
  /\ slot' = [i \in Slot |-> None] /\ lock' = [i \in Slot |-> None]
  /\ created' = 0
  /\ left' = left \cup {home[t] : t \in {u \in Task : pc[u] = "exporting"}}

Next ==
  \/ Restart
  \/ \E h \in Home : LeftEnds(h)
  \/ \E t \in Task :
      \/ Acquire(t) \/ CheckFails(t) \/ CheckPasses(t)
      \/ TryLock(t) \/ Take(t) \/ Create(t)
      \/ Ends(t) \/ Dropped(t) \/ DropLocks(t) \/ DropFills(t) \/ DropGoesOn(t)

Spec == Init /\ [][Next]_vars

-----------------------------------------------------------------------------
(* Properties                                                              *)

\* Types; an export has a home where it uses it, and the mutex of a slot is
\* held by the export that looks at the slot, and by it alone.
TypeOK ==
  /\ pc \in [Task -> Inside \cup Panics \cup {"idle"}]
  /\ at \in [Task -> Slot]
  /\ home \in [Task -> Home \cup {None}]
  /\ slot \in [Slot -> Home \cup {None}]
  /\ lock \in [Slot -> Task \cup {None}]
  /\ created \in 0 .. MaxHomes
  /\ left \in SUBSET Home
  /\ \A t \in Task : home[t] # None <=> pc[t] \in {"exporting", "locking", "looking"}
  /\ \A t \in Task, i \in Slot :
       lock[i] = t <=> at[t] = i /\ pc[t] \in {"choosing", "looking"}

\* Every home that was created is in one place, with one export, in one slot
\* or nowhere, while exports take, create and put back homes in any order.
\* (darktable_cli.rs: darktable_home, drop.)
HomesDistinct ==
  /\ \A t \in Task : home[t] # None =>
       /\ home[t] < created
       /\ \A u \in Task \ {t} : home[u] # home[t]
       /\ \A i \in Slot : slot[i] # home[t]
  /\ \A i \in Slot : slot[i] # None =>
       /\ slot[i] < created
       /\ \A j \in Slot \ {i} : slot[j] # slot[i]

\* No export gets a home that another one is using; and while no darktable-cli
\* runs on without its export, each has its home for itself.  Where an export
\* is dropped, drop puts the home back and darktable_home gives it to the next
\* one with the process still in it, which ExclusiveUse allows for.
\* (darktable_cli.rs: export, darktable_home, drop.)
Exclusive == INSTANCE ExclusiveUse WITH User <- Task, using <- home, abandoned <- left

HomesExclusive == Exclusive!Spec

\* Not a property of the code where an export is dropped.
\* export: "Globally limit to one file at the time", with the semaphore of
\* MAX_PARALLEL_EXPORTS permits.  The permit is given back with the future.
ProcessesLimited ==
  Cardinality(left) + Cardinality({t \in Task : pc[t] = "exporting"}) =< Slots

\* darktable_home: "we create the same number of homes as semaphores".  There
\* are no more exports inside than slots, so that one can be locked.
SlotLockFound == \A t \in Task : pc[t] # "noSlotLocked"

\* drop: "there was an empty slot before exporting".
EmptySlotFound == \A t \in Task : pc[t] # "noEmptySlot"

=============================================================================

-------------------------- MODULE ImmichSyncProofs --------------------------
(* What the thread knows of the server is true, for any number of          *)
(* directories, changes, lost answers and restarts. Libraries the server   *)
(* has are told apart by their ids, and the one that is being deleted is   *)
(* no longer in the table.                                                 *)
(*                                                                         *)
(* And no change of a directory is forgotten silently. A scan that is due  *)
(* for a library disappears when the library does, so one has to know that *)
(* a directory with previews is told empty only by a signal another one    *)
(* follows, and that the thread holds a pending scan only while it waits.  *)
(*                                                                         *)
(* Last, the libraries become those of the directories with previews: for  *)
(* each the last signal that waits says so, or a scan that is to come.     *)
EXTENDS ImmichSync, TLAPS

USE NoneAssumption DEF Id

-----------------------------------------------------------------------------
(* Types                                                                   *)

LEMMA InitTypes == Init => TypeOK
<1> SUFFICES ASSUME Init PROVE TypeOK
  OBVIOUS
<1>1. /\ has \in [Dir -> BOOLEAN] /\ changed \in [Dir -> BOOLEAN] /\ forgotten \subseteq Dir
      /\ overflown \in BOOLEAN /\ main \in {"scan", "next"} /\ todo \subseteq Dir
      /\ pc = "starting" /\ at = None /\ libs \in [Dir -> Id \cup {None}]
      /\ taken \in Id \cup {None} /\ server \subseteq [id : Id, dir : Dir]
  BY DEF Init
<1>2. /\ chan \in Seq(Event) /\ Len(chan) <= Capacity
      /\ pending \in Seq(Id) /\ \A i, j \in DOMAIN pending : pending[i] = pending[j] => i = j
  BY BoundsAssumption DEF Init
<1>3. /\ made \in Nat /\ changes \in 0 .. MaxChanges /\ losses \in 0 .. MaxLosses
      /\ restarts \in 0 .. MaxRestarts
  BY BoundsAssumption DEF Init
<1> QED
  BY <1>1, <1>2, <1>3 DEF TypeOK

\* What sending a signal leaves of the types.
LEMMA SignalTypes ==
  ASSUME TypeOK, NEW kind \in {"added", "empty"}, NEW d \in Dir, Signal(kind, d)
  PROVE  /\ forgotten' \subseteq Dir
         /\ chan' \in Seq(Event) /\ Len(chan') <= Capacity
         /\ overflown' \in BOOLEAN
<1>1. forgotten' \subseteq Dir
  BY DEF Signal, TypeOK
<1>2. overflown' \in BOOLEAN
  BY DEF Signal, TypeOK, signalVars
<1>3. chan' \in Seq(Event) /\ Len(chan') <= Capacity
  <2>1. CASE Len(chan) < Capacity /\ chan' = Append(chan, [kind |-> kind, dir |-> d])
    <3>1. [kind |-> kind, dir |-> d] \in Event
      BY DEF Event
    <3>2. chan' \in Seq(Event) /\ Len(chan') = Len(chan) + 1 /\ Len(chan) \in Nat
      BY <2>1, <3>1 DEF TypeOK
    <3> QED
      BY <2>1, <3>2, BoundsAssumption
  <2>2. CASE chan' = chan
    BY <2>2 DEF TypeOK
  <2> QED
    BY <2>1, <2>2 DEF Signal, signalVars
<1> QED
  BY <1>1, <1>2, <1>3

LEMMA MainTypes ==
  ASSUME TypeOK, Main
  PROVE  TypeOK'
<1>1. UNCHANGED <<syncVars, serverVars, restarts>>
  BY DEF Main, ScanDir, HandleEvent, ScanDone, Rescan
<1>2. /\ has' \in [Dir -> BOOLEAN] /\ changed' \in [Dir -> BOOLEAN] /\ changes' \in 0 .. MaxChanges
      /\ forgotten' \subseteq Dir
      /\ chan' \in Seq(Event) /\ Len(chan') <= Capacity /\ overflown' \in BOOLEAN
  <2>1. ASSUME NEW d \in Dir, Exports(d)
        PROVE  <1>2!1 /\ <1>2!2 /\ <1>2!3
    BY <2>1, SignalTypes, BoundsAssumption DEF Exports, TypeOK
  <2>2. ASSUME NEW d \in Dir, Empties(d)
        PROVE  <1>2!1 /\ <1>2!2 /\ <1>2!3
    BY <2>2, SignalTypes, BoundsAssumption DEF Empties, TypeOK
  <2>3. ASSUME NEW d \in Dir, RemovesStale(d)
        PROVE  <1>2!1 /\ <1>2!2 /\ <1>2!3
    BY <2>3, BoundsAssumption DEF RemovesStale, TypeOK, signalVars
  <2>4. ASSUME NEW d \in Dir, Signal("empty", d), UNCHANGED treeVars
        PROVE  <1>2!1 /\ <1>2!2 /\ <1>2!3
    BY <2>4, SignalTypes DEF TypeOK, treeVars
  <2>5. ASSUME UNCHANGED <<treeVars, forgotten, chan>>, overflown' \in {overflown, FALSE}
        PROVE  <1>2!1 /\ <1>2!2 /\ <1>2!3
    BY <2>5 DEF TypeOK, treeVars
  <2>6. ASSUME NEW d \in Dir, EmptiesAgain(d)
        PROVE  <1>2!1 /\ <1>2!2 /\ <1>2!3
    BY <2>6, SignalTypes, BoundsAssumption DEF EmptiesAgain, TypeOK
  <2> QED
    BY <2>1, <2>2, <2>3, <2>4, <2>5, <2>6 DEF Main, ScanDir, ScanDone, Rescan, HandleEvent, signalVars
<1>3. main' \in {"scan", "next"} /\ todo' \subseteq Dir
  BY DEF Main, ScanDir, ScanDone, Rescan, HandleEvent, TypeOK, mainVars
<1> QED
  BY <1>1, <1>2, <1>3 DEF TypeOK, syncVars, serverVars

LEMMA StartsTypes ==
  ASSUME TypeOK, Starts
  PROVE  TypeOK'
<1>1. libs' \in [Dir -> Id \cup {None}]
  BY DEF Starts, TypeOK
<1> QED
  BY <1>1 DEF Starts, Goes, ThreadFrame, TypeOK, mainVars, serverVars

LEMMA WaitsTypes ==
  ASSUME TypeOK, Waits
  PROVE  TypeOK'
<1>1. /\ taken' \in Id \cup {None} /\ pending' \in Seq(Id)
      /\ \A i, j \in DOMAIN pending' : pending'[i] = pending'[j] => i = j
  <2>1. CASE pending = <<>>
    BY <2>1 DEF Waits, TypeOK
  <2>2. CASE pending # <<>>
    <3>1. /\ taken' = pending[1] /\ pending' = Tail(pending)
          /\ pending \in Seq(Id) /\ Len(pending) \in Nat \ {0}
      BY <2>2 DEF Waits, TypeOK
    <3>2. /\ Len(pending') = Len(pending) - 1
          /\ \A i \in 1 .. Len(pending') : pending'[i] = pending[i + 1]
      BY <3>1
    <3>3. \A i, j \in 1 .. Len(pending) : pending[i] = pending[j] => i = j
      BY <3>1 DEF TypeOK
    <3>4. \A i, j \in 1 .. Len(pending') : pending'[i] = pending'[j] => i = j
      <4> TAKE i, j \in 1 .. Len(pending')
      <4> HAVE pending'[i] = pending'[j]
      <4>1. i + 1 \in 1 .. Len(pending) /\ j + 1 \in 1 .. Len(pending)
        BY <3>1, <3>2
      <4>2. i + 1 = j + 1
        BY <3>2, <3>3, <4>1
      <4> QED
        BY <4>2
    <3>5. taken' \in Id /\ pending' \in Seq(Id)
      BY <3>1
    <3>6. DOMAIN pending' = 1 .. Len(pending')
      BY <3>5
    <3> QED
      BY <3>4, <3>5, <3>6
  <2> QED
    BY <2>1, <2>2
<1> QED
  BY <1>1 DEF Waits, Goes, ThreadFrame, TypeOK, mainVars, serverVars

LEMMA TimerTypes ==
  ASSUME TypeOK, TimerFires
  PROVE  TypeOK'
BY DEF TimerFires, Goes, ThreadFrame, TypeOK, mainVars, serverVars

\* No scan is added twice.
LEMMA AddsPendingTypes ==
  ASSUME TypeOK, NEW id \in Id, AddsPending(id)
  PROVE  pending' \in Seq(Id) /\ \A i, j \in DOMAIN pending' : pending'[i] = pending'[j] => i = j
<1>1. CASE \E i \in DOMAIN pending : pending[i] = id
  BY <1>1 DEF AddsPending, TypeOK
<1>2. CASE ~ \E i \in DOMAIN pending : pending[i] = id
  <2>1. /\ pending \in Seq(Id) /\ Len(pending) \in Nat
        /\ pending' = Append(pending, id)
        /\ \A i, j \in 1 .. Len(pending) : pending[i] = pending[j] => i = j
        /\ \A i \in 1 .. Len(pending) : pending[i] # id
    BY <1>2 DEF AddsPending, TypeOK
  <2>2. /\ pending' \in Seq(Id) /\ Len(pending') = Len(pending) + 1
        /\ pending'[Len(pending) + 1] = id
        /\ \A i \in 1 .. Len(pending) : pending'[i] = pending[i]
    BY <2>1
  <2>3. \A i, j \in 1 .. Len(pending') : pending'[i] = pending'[j] => i = j
    BY <2>1, <2>2
  <2> QED
    BY <2>2, <2>3
<1> QED
  BY <1>1, <1>2

LEMMA TakesEventTypes ==
  ASSUME TypeOK, NEW kind \in {"added", "empty"}, NEW d \in Dir, TakesEvent(kind, d)
  PROVE  /\ forgotten' \subseteq Dir /\ taken' = None
         /\ chan' \in Seq(Event) /\ Len(chan') <= Capacity
<1>1. chan' = Tail(chan) /\ chan \in Seq(Event) /\ Len(chan) \in Nat \ {0} /\ Len(chan) <= Capacity
  BY DEF TakesEvent, TypeOK
<1>2. chan' \in Seq(Event) /\ Len(chan') = Len(chan) - 1
  BY <1>1
<1> QED
  BY <1>1, <1>2, BoundsAssumption DEF TakesEvent, DropsTaken, TypeOK

LEMMA EventTypes ==
  ASSUME TypeOK, NEW d \in Dir, EmptyDir(d) \/ ModifiedOrAdded(d)
  PROVE  TypeOK'
<1>1. CASE EmptyDir(d)
  <2>1. UNCHANGED <<changed, serverVars, has, changes, overflown, mainVars, restarts, pending>>
    BY <1>1 DEF EmptyDir, TakesEvent, ThreadFrame
  <2>2. /\ libs' \in [Dir -> Id \cup {None}]
        /\ \/ pc' = "loop" /\ at' = None
           \/ pc' = "deleting" /\ at' \in Id
    BY <1>1 DEF EmptyDir, Goes, TypeOK
  <2> QED
    BY <1>1, <2>1, <2>2, TakesEventTypes DEF EmptyDir, TypeOK, mainVars, serverVars
<1>2. CASE ModifiedOrAdded(d)
  <2>1. UNCHANGED <<changed, serverVars, has, changes, overflown, mainVars, restarts, libs>>
    BY <1>2 DEF ModifiedOrAdded, TakesEvent, ThreadFrame
  <2>2. CASE libs[d] # None
    <3>1. libs[d] \in Id /\ AddsPending(libs[d]) /\ pc' = "loop" /\ at' = None
      BY <1>2, <2>2 DEF ModifiedOrAdded, Goes, TypeOK
    <3>2. pending' \in Seq(Id) /\ \A i, j \in DOMAIN pending' : pending'[i] = pending'[j] => i = j
      BY <3>1, AddsPendingTypes
    <3> QED
      BY <1>2, <2>1, <3>1, <3>2, TakesEventTypes DEF ModifiedOrAdded, TypeOK, mainVars, serverVars
  <2>3. CASE libs[d] = None
    BY <1>2, <2>1, <2>3, TakesEventTypes DEF ModifiedOrAdded, Goes, TypeOK, mainVars, serverVars
  <2> QED
    BY <2>2, <2>3
<1> QED
  BY <1>1, <1>2

LEMMA RequestTypes ==
  ASSUME TypeOK, Create \/ Delete \/ Scan \/ Dies
  PROVE  TypeOK'
<1>1. CASE Create
  <2>1. /\ at \in Dir /\ made \in Id /\ made' = made + 1
        /\ server' = server \cup {[id |-> made, dir |-> at]}
        /\ UNCHANGED <<changed, forgotten, chan, has, changes, overflown, mainVars, restarts>>
    BY <1>1 DEF Create, ThreadFrame, TypeOK
  <2>2. made' \in Nat /\ server' \subseteq [id : Id, dir : Dir]
    BY <2>1 DEF TypeOK
  <2>3. CASE /\ libs' = [libs EXCEPT ![at] = made] /\ AddsPending(made)
             /\ Goes("loop", None) /\ UNCHANGED <<taken, losses>>
    BY <2>1, <2>2, <2>3, AddsPendingTypes DEF Goes, TypeOK, mainVars
  <2>4. CASE AnswerLost
    <3>1. losses' \in 0 .. MaxLosses
      BY <2>4, BoundsAssumption DEF AnswerLost, TypeOK
    <3> QED
      BY <2>1, <2>2, <2>4, <3>1 DEF AnswerLost, syncVars, TypeOK, mainVars
  <2> QED
    BY <1>1, <2>3, <2>4 DEF Create
<1>2. CASE Delete \/ Scan
  <2>1. /\ server' \subseteq server /\ changed' \in [Dir -> BOOLEAN]
        /\ UNCHANGED <<made, forgotten, chan, has, changes, overflown, mainVars, restarts>>
    BY <1>2 DEF Delete, Scan, ThreadFrame, TypeOK
  <2>2. CASE Goes("loop", None) /\ UNCHANGED <<libs, pending, taken, losses>>
    BY <2>1, <2>2 DEF Goes, TypeOK, mainVars
  <2>3. CASE AnswerLost
    <3>1. losses' \in 0 .. MaxLosses
      BY <2>3, BoundsAssumption DEF AnswerLost, TypeOK
    <3> QED
      BY <2>1, <2>3, <3>1 DEF AnswerLost, syncVars, TypeOK, mainVars
  <2> QED
    BY <1>2, <2>2, <2>3 DEF Delete, Scan
<1>3. CASE Dies
  <2>1. /\ chan' \in Seq(Event) /\ Len(chan') <= Capacity
        /\ pending' \in Seq(Id) /\ \A i, j \in DOMAIN pending' : pending'[i] = pending'[j] => i = j
    BY <1>3, BoundsAssumption DEF Dies
  <2> QED
    BY <1>3, <2>1 DEF Dies, Goes, ThreadFrame, TypeOK, mainVars, serverVars
<1> QED
  BY <1>1, <1>2, <1>3

LEMMA RestartTypes ==
  ASSUME TypeOK, Restart
  PROVE  TypeOK'
<1>1. /\ chan' \in Seq(Event) /\ Len(chan') <= Capacity
      /\ pending' \in Seq(Id) /\ \A i, j \in DOMAIN pending' : pending'[i] = pending'[j] => i = j
      /\ restarts' \in 0 .. MaxRestarts
  BY BoundsAssumption DEF Restart, TypeOK
<1>2. libs' \in [Dir -> Id \cup {None}] /\ forgotten' \subseteq Dir /\ taken' \in Id \cup {None}
  BY DEF Restart
<1> QED
  BY <1>1, <1>2 DEF Restart, Goes, TypeOK, treeVars, serverVars

\* Types are what TypeOK says, and no library waits twice to be scanned.
THEOREM TypeCorrect == Spec => []TypeOK
<1>1. ASSUME TypeOK, [Next]_vars
      PROVE  TypeOK'
  <2>1. CASE Thread
    BY <1>1, <2>1, StartsTypes, WaitsTypes, TimerTypes, EventTypes, RequestTypes DEF Thread
  <2>2. CASE UNCHANGED vars
    BY <1>1, <2>2 DEF TypeOK, vars
  <2> QED
    BY <1>1, <2>1, <2>2, MainTypes, RestartTypes DEF Next
<1> QED
  BY <1>1, InitTypes, PTL DEF Spec

-----------------------------------------------------------------------------
(* The table of libraries                                                  *)

IdsUnique ==
  /\ \A l, m \in server : l.id = m.id => l = m
  /\ \A l \in server : l.id < made

\* The library that is being deleted is in the table no more.
DeletedUnknown == pc = "deleting" => \A d \in Dir : libs[d] # at

TableInv == LibsOnServer /\ IdsUnique /\ DeletedUnknown

\* A library belongs to one directory.
LEMMA OneDirectory ==
  ASSUME TypeOK, TableInv, NEW d \in Dir, NEW e \in Dir, libs[d] # None, libs[e] = libs[d]
  PROVE  d = e
<1>1. [id |-> libs[d], dir |-> d] \in server /\ [id |-> libs[d], dir |-> e] \in server
  BY DEF TableInv, LibsOnServer
<1>2. [id |-> libs[d], dir |-> d] = [id |-> libs[d], dir |-> e]
  BY <1>1 DEF TableInv, IdsUnique
<1> QED
  BY <1>2

LEMMA StartsTable ==
  ASSUME TypeOK, TableInv, Starts
  PROVE  TableInv'
<1>1. UNCHANGED <<server, made>> /\ pc' = "loop"
  BY DEF Starts, Goes, serverVars
<1>2. ASSUME NEW d \in Dir, libs'[d] # None
      PROVE  [id |-> libs'[d], dir |-> d] \in server
  <2>1. libs'[d] \in {l.id : l \in {m \in server : m.dir = d}}
    BY <1>2 DEF Starts
  <2>2. PICK l \in server : l.dir = d /\ libs'[d] = l.id
    BY <2>1
  <2>3. l = [id |-> l.id, dir |-> l.dir]
    BY <2>2 DEF TypeOK
  <2> QED
    BY <2>2, <2>3
<1> QED
  BY <1>1, <1>2 DEF TableInv, LibsOnServer, IdsUnique, DeletedUnknown

LEMMA EmptyDirTable ==
  ASSUME TypeOK, TableInv, NEW d \in Dir, EmptyDir(d)
  PROVE  TableInv'
<1>1. /\ UNCHANGED <<server, made>>
      /\ libs' = [libs EXCEPT ![d] = None] /\ libs \in [Dir -> Id \cup {None}]
  BY DEF EmptyDir, TakesEvent, serverVars, TypeOK
<1>2. LibsOnServer'
  BY <1>1 DEF TableInv, LibsOnServer
<1>3. DeletedUnknown'
  <2> SUFFICES ASSUME pc' = "deleting", NEW e \in Dir
               PROVE  libs'[e] # at'
    BY DEF DeletedUnknown
  <2>1. libs[d] # None /\ at' = libs[d]
    BY DEF EmptyDir, Goes
  <2> QED
    BY <1>1, <2>1, OneDirectory
<1> QED
  BY <1>1, <1>2, <1>3 DEF TableInv, IdsUnique

LEMMA CreateTable ==
  ASSUME TypeOK, TableInv, Create
  PROVE  TableInv'
<1>1. /\ pc = "creating" /\ at \in Dir /\ made \in Nat /\ made' = made + 1
      /\ server' = server \cup {[id |-> made, dir |-> at]}
      /\ \A l \in server : l.id \in Nat /\ l.id < made
  BY DEF Create, TypeOK, TableInv, IdsUnique
<1>2. IdsUnique'
  BY <1>1 DEF TableInv, IdsUnique
<1>3. \/ libs' = [libs EXCEPT ![at] = made] /\ pc' = "loop"
      \/ libs' = libs /\ pc' = pc
  BY DEF Create, Goes, AnswerLost, syncVars
<1>4. LibsOnServer'
  BY <1>1, <1>3 DEF TableInv, LibsOnServer, TypeOK
<1> QED
  BY <1>1, <1>2, <1>3, <1>4 DEF TableInv, DeletedUnknown

LEMMA DeleteTable ==
  ASSUME TypeOK, TableInv, Delete
  PROVE  TableInv'
<1>1. /\ \A d \in Dir : libs[d] # at
      /\ libs' = libs /\ made' = made
      /\ pc' = "loop" \/ (pc' = pc /\ at' = at)
  BY DEF Delete, Goes, AnswerLost, syncVars, TableInv, DeletedUnknown
<1>2. PICK l \in server : l.id = at /\ server' = server \ {l}
  BY DEF Delete
<1> QED
  BY <1>1, <1>2 DEF TableInv, LibsOnServer, IdsUnique, DeletedUnknown

LEMMA TableAlways == Spec => [](TypeOK /\ TableInv)
<1>1. Init => TableInv
  BY DEF Init, TableInv, LibsOnServer, IdsUnique, DeletedUnknown
<1>2. ASSUME TypeOK, TableInv, [Next]_vars
      PROVE  TableInv'
  <2>1. CASE UNCHANGED <<server, made, libs>> /\ (pc' # "deleting" \/ (pc' = pc /\ at' = at))
    BY <1>2, <2>1 DEF TableInv, LibsOnServer, IdsUnique, DeletedUnknown
  <2>2. CASE Main
    BY <2>1, <2>2 DEF Main, ScanDir, HandleEvent, ScanDone, Rescan, syncVars, serverVars
  <2>3. CASE Waits \/ TimerFires \/ Scan \/ Dies
    BY <2>1, <2>3 DEF Waits, TimerFires, Scan, Dies, Goes, AnswerLost, syncVars, serverVars
  <2>4. CASE \E d \in Dir : ModifiedOrAdded(d)
    BY <2>1, <2>4 DEF ModifiedOrAdded, TakesEvent, Goes, serverVars
  <2>5. CASE Restart
    BY <1>2, <2>5 DEF Restart, Goes, serverVars, TableInv, LibsOnServer, IdsUnique, DeletedUnknown
  <2>6. CASE UNCHANGED vars
    BY <2>1, <2>6 DEF vars
  <2> QED
    BY <1>2, <2>2, <2>3, <2>4, <2>5, <2>6, StartsTable, EmptyDirTable, CreateTable, DeleteTable
       DEF Next, Thread
<1> QED
  BY <1>1, <1>2, TypeCorrect, PTL DEF Spec

\* The table names libraries that are there, and the right ones.
\* (immich.rs: libs in maintain_immich_sync.)
THEOREM LibsCorrect == Spec => []LibsOnServer
<1>1. TableInv => LibsOnServer
  BY DEF TableInv
<1> QED
  BY <1>1, TableAlways, PTL

-----------------------------------------------------------------------------
(* What the scans owe.                                                     *)

\* Behind every signal that d is empty comes one that it is not.
Outdated(d) ==
  \A i \in DOMAIN chan : chan[i] = [kind |-> "empty", dir |-> d] =>
    \E j \in DOMAIN chan : j > i /\ chan[j] = [kind |-> "added", dir |-> d]

EmptyOutdated == \A d \in Dir : has[d] => Outdated(d) \/ d \in forgotten

HeldOnlyWaiting ==
  /\ pc \notin {"waiting", "dead"} => taken = None
  /\ pc = "starting" => \A d \in Dir : libs[d] = None

OwedInv == EmptyOutdated /\ HeldOnlyWaiting /\ ScanOwed

Owed(d) ==
  \/ Signalled("added", d)
  \/ ScanDue(d)
  \/ pc = "creating" /\ at = d
  \/ pc = "scanning" /\ at = libs[d]
  \/ d \in forgotten

-----------------------------------------------------------------------------
(* The channel                                                             *)

\* Of the signals that were there, none is lost when one is sent, and those
\* about other directories are not overtaken.
LEMMA Sends ==
  ASSUME TypeOK, NEW kind \in {"added", "empty"}, NEW d \in Dir, Signal(kind, d), NEW e \in Dir
  PROVE  /\ Signalled("added", e) => Signalled("added", e)'
         /\ e # d /\ Outdated(e) => Outdated(e)'
         /\ e # d /\ e \in forgotten => e \in forgotten'
         /\ kind = "added" /\ pc # "dead" => Signalled("added", d)' \/ d \in forgotten'
         /\ kind = "added" => Outdated(d)' \/ d \in forgotten'
<1>1. CASE chan' = Append(chan, [kind |-> kind, dir |-> d]) /\ forgotten' = forgotten \ {d}
  <2> DEFINE s == [kind |-> kind, dir |-> d]
             n == Len(chan) + 1
  <2>1. s \in Event /\ chan \in Seq(Event) /\ Len(chan) \in Nat
    BY DEF Event, TypeOK
  <2>2. /\ chan' \in Seq(Event) /\ Len(chan') = n /\ chan'[n] = s
        /\ \A i \in 1 .. Len(chan) : chan'[i] = chan[i]
    BY <1>1, <2>1
  <2>3. /\ DOMAIN chan = 1 .. Len(chan) /\ DOMAIN chan' = 1 .. n
        /\ \A i \in DOMAIN chan : i \in DOMAIN chan' /\ chan'[i] = chan[i] /\ i < n /\ i # n
        /\ \A i \in DOMAIN chan' : i \in DOMAIN chan \/ i = n
        /\ n \in DOMAIN chan'
    BY <2>1, <2>2
  <2>4. Signalled("added", e) => Signalled("added", e)'
    BY <2>3 DEF Signalled
  <2>5. e # d /\ Outdated(e) => Outdated(e)'
    <3> SUFFICES ASSUME e # d, Outdated(e), NEW i \in DOMAIN chan',
                        chan'[i] = [kind |-> "empty", dir |-> e]
                 PROVE  \E j \in DOMAIN chan' : j > i /\ chan'[j] = [kind |-> "added", dir |-> e]
      BY DEF Outdated
    <3>1. i # n
      BY <2>2
    <3>2. i \in DOMAIN chan /\ chan[i] = [kind |-> "empty", dir |-> e]
      BY <2>3, <3>1
    <3> QED
      BY <2>3, <3>2 DEF Outdated
  <2>6. kind = "added" => Signalled("added", d)'
    BY <2>2, <2>3 DEF Signalled
  <2>7. kind = "added" => Outdated(d)'
    <3> SUFFICES ASSUME kind = "added", NEW i \in DOMAIN chan',
                        chan'[i] = [kind |-> "empty", dir |-> d]
                 PROVE  \E j \in DOMAIN chan' : j > i /\ chan'[j] = [kind |-> "added", dir |-> d]
      BY DEF Outdated
    <3>1. i # n
      BY <2>2
    <3> QED
      BY <2>2, <2>3, <3>1
  <2> QED
    BY <1>1, <2>4, <2>5, <2>6, <2>7
<1>2. CASE chan' = chan /\ forgotten' = IF kind = "added" THEN forgotten \cup {d} ELSE forgotten
  BY <1>2 DEF Signalled, Outdated
<1> QED
  BY <1>1, <1>2 DEF Signal, signalVars

\* The signal at the head of the channel is taken out of it.
LEMMA Takes ==
  ASSUME TypeOK, NEW kind \in {"added", "empty"}, NEW d \in Dir, TakesEvent(kind, d), NEW e \in Dir
  PROVE  /\ Outdated(e) => Outdated(e)'
         /\ Signalled("added", e) => Signalled("added", e)' \/ (kind = "added" /\ e = d)
         /\ kind = "empty" /\ Outdated(d) => Signalled("added", d)'
<1>1. /\ chan' = Tail(chan) /\ chan \in Seq(Event) /\ Len(chan) \in Nat \ {0}
      /\ chan[1] = [kind |-> kind, dir |-> d]
  <2>1. /\ chan' = Tail(chan) /\ chan \in Seq(Event) /\ chan # <<>>
        /\ Head(chan) = [kind |-> kind, dir |-> d]
    BY DEF TakesEvent, TypeOK
  <2>2. Len(chan) \in Nat \ {0} /\ Head(chan) = chan[1]
    BY <2>1
  <2> QED
    BY <2>1, <2>2
<1>2. /\ DOMAIN chan = 1 .. Len(chan) /\ DOMAIN chan' = 1 .. Len(chan) - 1
      /\ \A i \in 1 .. Len(chan) - 1 : chan'[i] = chan[i + 1]
  BY <1>1
<1>3. /\ \A i \in DOMAIN chan' : i \in Nat /\ i + 1 \in DOMAIN chan /\ chan'[i] = chan[i + 1]
      /\ \A i \in DOMAIN chan : i \in Nat /\ (i # 1 => i - 1 \in DOMAIN chan' /\ chan'[i - 1] = chan[i])
      /\ 1 \in DOMAIN chan
  BY <1>1, <1>2
<1>4. Outdated(e) => Outdated(e)'
  <2> SUFFICES ASSUME Outdated(e), NEW i \in DOMAIN chan',
                      chan'[i] = [kind |-> "empty", dir |-> e]
               PROVE  \E j \in DOMAIN chan' : j > i /\ chan'[j] = [kind |-> "added", dir |-> e]
    BY DEF Outdated
  <2>1. PICK k \in DOMAIN chan : k > i + 1 /\ chan[k] = [kind |-> "added", dir |-> e]
    BY <1>3 DEF Outdated
  <2> QED
    BY <1>3, <2>1
<1>5. Signalled("added", e) => Signalled("added", e)' \/ (kind = "added" /\ e = d)
  <2> SUFFICES ASSUME NEW i \in DOMAIN chan, chan[i] = [kind |-> "added", dir |-> e]
               PROVE  Signalled("added", e)' \/ (kind = "added" /\ e = d)
    BY DEF Signalled
  <2>1. CASE i = 1
    BY <1>1, <2>1
  <2>2. CASE i # 1
    BY <1>3, <2>2 DEF Signalled
  <2> QED
    BY <2>1, <2>2
<1>6. kind = "empty" /\ Outdated(d) => Signalled("added", d)'
  <2> SUFFICES ASSUME kind = "empty", Outdated(d)
               PROVE  Signalled("added", d)'
    OBVIOUS
  <2>1. PICK j \in DOMAIN chan : j > 1 /\ chan[j] = [kind |-> "added", dir |-> d]
    BY <1>1, <1>3 DEF Outdated
  <2> QED
    BY <1>3, <2>1 DEF Signalled
<1> QED
  BY <1>4, <1>5, <1>6

-----------------------------------------------------------------------------
(* The steps                                                               *)

LEMMA MainOwed ==
  ASSUME TypeOK, OwedInv, Main
  PROVE  OwedInv'
<1>1. UNCHANGED <<pc, at, libs, pending, taken>>
  BY DEF Main, ScanDir, HandleEvent, ScanDone, Rescan, syncVars
<1>2. HeldOnlyWaiting'
  BY <1>1 DEF OwedInv, HeldOnlyWaiting
<1>3. CASE UNCHANGED <<has, changed, forgotten, chan>>
  BY <1>1, <1>2, <1>3 DEF OwedInv, EmptyOutdated, Outdated, ScanOwed, Signalled, ScanDue
<1>4. ASSUME NEW d \in Dir,
             \/ Exports(d) \/ Empties(d) \/ RemovesStale(d)
             \/ ~has[d] /\ Signal("empty", d) /\ UNCHANGED <<has, changed>>
      PROVE  OwedInv'
  <2>1. \A e \in Dir : e # d => has'[e] = has[e] /\ changed'[e] = changed[e]
    BY <1>4 DEF Exports, Empties, RemovesStale, TypeOK
  <2>2. ~has'[d] \/ Signal("added", d)
    BY <1>4 DEF Exports, Empties, RemovesStale, treeVars, TypeOK
  <2>3. \/ \E kind \in {"added", "empty"} : Signal(kind, d)
        \/ UNCHANGED chan /\ forgotten' = forgotten \cup {d}
    BY <1>4 DEF Exports, Empties, RemovesStale, signalVars
  <2>4. ASSUME NEW e \in Dir, e # d
        PROVE  /\ Outdated(e) => Outdated(e)'
               /\ Signalled("added", e) => Signalled("added", e)'
               /\ e \in forgotten => e \in forgotten'
    <3>1. CASE \E kind \in {"added", "empty"} : Signal(kind, d)
      BY <2>4, <3>1, Sends
    <3>2. CASE UNCHANGED chan /\ forgotten' = forgotten \cup {d}
      BY <3>2 DEF Outdated, Signalled
    <3> QED
      BY <2>3, <3>1, <3>2
  <2>5. EmptyOutdated'
    <3> SUFFICES ASSUME NEW e \in Dir, has'[e]
                 PROVE  Outdated(e)' \/ e \in forgotten'
      BY DEF EmptyOutdated
    <3>1. CASE e # d
      BY <2>1, <2>4, <3>1 DEF OwedInv, EmptyOutdated
    <3>2. CASE e = d
      BY <2>2, <3>2, Sends
    <3> QED
      BY <3>1, <3>2
  <2>6. ScanOwed'
    <3> SUFFICES ASSUME NEW e \in Dir, has'[e], changed'[e], pc' # "dead"
                 PROVE  Owed(e)'
      BY DEF ScanOwed, Owed
    <3>1. CASE e # d
      <4>1. Owed(e)
        BY <1>1, <2>1, <3>1 DEF OwedInv, ScanOwed, Owed
      <4> QED
        BY <1>1, <2>4, <3>1, <4>1 DEF Owed, ScanDue
    <3>2. CASE e = d
      BY <1>1, <2>2, <3>2, Sends DEF Owed
    <3> QED
      BY <3>1, <3>2
  <2> QED
    BY <1>2, <2>5, <2>6 DEF OwedInv
<1> QED
  BY <1>3, <1>4
     DEF Main, ScanDir, HandleEvent, EmptiesAgain, ScanDone, Rescan, treeVars, signalVars

LEMMA StartsOwed ==
  ASSUME TypeOK, OwedInv, Starts
  PROVE  OwedInv'
<1>1. /\ UNCHANGED <<has, changed, forgotten, chan, pending, taken>>
      /\ pc = "starting" /\ pc' = "loop" /\ taken = None /\ \A d \in Dir : libs[d] = None
  BY DEF Starts, Goes, ThreadFrame, OwedInv, HeldOnlyWaiting
<1>2. \A d \in Dir : has[d] /\ changed[d] => Signalled("added", d) \/ d \in forgotten
  BY <1>1 DEF OwedInv, ScanOwed, ScanDue
<1> QED
  BY <1>1, <1>2 DEF OwedInv, EmptyOutdated, Outdated, HeldOnlyWaiting, ScanOwed, Signalled

\* A scan that was pending is held, or is still pending.
LEMMA WaitsOwed ==
  ASSUME TypeOK, OwedInv, Waits \/ TimerFires
  PROVE  OwedInv'
<1>1. UNCHANGED <<has, changed, forgotten, chan, libs>>
  BY DEF Waits, TimerFires, ThreadFrame
<1>2. HeldOnlyWaiting'
  BY DEF Waits, TimerFires, Goes, HeldOnlyWaiting
<1>3. CASE Waits
  <2>1. /\ pc = "loop" /\ pc' = "waiting" /\ taken = None
    BY <1>3 DEF Waits, Goes, OwedInv, HeldOnlyWaiting
  <2>2. ASSUME NEW d \in Dir, ScanDue(d)
        PROVE  ScanDue(d)'
    <3>1. PICK i \in DOMAIN pending : libs[d] # None /\ pending[i] = libs[d]
      BY <2>1, <2>2 DEF ScanDue
    <3>2. /\ pending \in Seq(Id) /\ pending # <<>> /\ Len(pending) \in Nat \ {0}
          /\ i \in 1 .. Len(pending)
      BY <3>1 DEF TypeOK
    <3>3. taken' = pending[1] /\ pending' = Tail(pending)
      BY <1>3, <3>2 DEF Waits
    <3>4. CASE i = 1
      BY <1>1, <3>1, <3>3, <3>4 DEF ScanDue
    <3>5. CASE i # 1
      <4>1. i - 1 \in DOMAIN pending' /\ pending'[i - 1] = pending[i]
        BY <3>2, <3>3, <3>5
      <4> QED
        BY <1>1, <3>1, <4>1 DEF ScanDue
    <3> QED
      BY <3>4, <3>5
  <2> QED
    BY <1>1, <1>2, <2>1, <2>2 DEF OwedInv, EmptyOutdated, Outdated, ScanOwed, Signalled
<1>4. CASE TimerFires
  <2>1. pc = "waiting" /\ pc' = "scanning" /\ at' = taken /\ UNCHANGED pending
    BY <1>4 DEF TimerFires, Goes
  <2> QED
    BY <1>1, <1>2, <2>1 DEF OwedInv, EmptyOutdated, Outdated, ScanOwed, Signalled, ScanDue
<1> QED
  BY <1>3, <1>4

LEMMA AddsDue ==
  ASSUME TypeOK, NEW id \in Id, AddsPending(id)
  PROVE  /\ \E i \in DOMAIN pending' : pending'[i] = id
         /\ \A i \in DOMAIN pending : \E j \in DOMAIN pending' : pending'[j] = pending[i]
<1>1. CASE pending' = Append(pending, id)
  <2>1. pending \in Seq(Id) /\ Len(pending) \in Nat
    BY DEF TypeOK
  <2>2. /\ DOMAIN pending' = 1 .. Len(pending) + 1 /\ pending'[Len(pending) + 1] = id
        /\ \A i \in 1 .. Len(pending) : pending'[i] = pending[i]
    BY <1>1, <2>1
  <2> QED
    BY <2>1, <2>2
<1>2. CASE pending' = pending /\ \E i \in DOMAIN pending : pending[i] = id
  BY <1>2
<1> QED
  BY <1>1, <1>2 DEF AddsPending

\* What an event takes the place of is remembered as forgotten.
LEMMA DropsOwed ==
  ASSUME TypeOK, OwedInv, NEW kind \in {"added", "empty"}, NEW d \in Dir, TakesEvent(kind, d),
         NEW e \in Dir, has[e], changed[e]
  PROVE  \/ Signalled("added", e)' \/ (kind = "added" /\ e = d)
         \/ e \in forgotten'
         \/ libs[e] # None /\ \E i \in DOMAIN pending : pending[i] = libs[e]
<1>1. pc \in {"loop", "waiting"} /\ forgotten \subseteq forgotten'
  BY DEF TakesEvent, DropsTaken
<1>2. Signalled("added", e) \/ ScanDue(e) \/ e \in forgotten
  BY <1>1 DEF OwedInv, ScanOwed
<1>3. CASE Signalled("added", e)
  BY <1>3, Takes
<1>4. CASE ~Signalled("added", e) /\ libs[e] # None /\ taken = libs[e]
  BY <1>4 DEF TakesEvent, DropsTaken
<1> QED
  BY <1>1, <1>2, <1>3, <1>4 DEF ScanDue

LEMMA EventOwed ==
  ASSUME TypeOK, OwedInv, NEW d \in Dir, EmptyDir(d) \/ ModifiedOrAdded(d)
  PROVE  OwedInv'
<1> DEFINE kind == IF EmptyDir(d) THEN "empty" ELSE "added"
<1>1. TakesEvent(kind, d) /\ kind \in {"added", "empty"}
  BY DEF EmptyDir, ModifiedOrAdded
<1>2. /\ UNCHANGED <<has, changed>> /\ taken' = None /\ forgotten \subseteq forgotten'
      /\ pc \in {"loop", "waiting"} /\ pc' \in {"loop", "deleting", "creating"}
  BY <1>1 DEF TakesEvent, DropsTaken, ThreadFrame, EmptyDir, ModifiedOrAdded, Goes
<1>3. HeldOnlyWaiting'
  BY <1>2 DEF HeldOnlyWaiting
<1>4. EmptyOutdated'
  BY <1>1, <1>2, Takes DEF OwedInv, EmptyOutdated
<1>5. ScanOwed'
  <2> SUFFICES ASSUME NEW e \in Dir, has[e], changed[e]
               PROVE  Owed(e)'
    BY <1>2 DEF ScanOwed, Owed
  <2>1. CASE Signalled("added", e)' \/ e \in forgotten'
    BY <2>1 DEF Owed
  <2>2. CASE EmptyDir(d) /\ e = d
    BY <1>1, <1>2, <2>2, Takes DEF OwedInv, EmptyOutdated, Owed
  <2>3. CASE /\ EmptyDir(d) /\ e # d
             /\ libs[e] # None /\ \E i \in DOMAIN pending : pending[i] = libs[e]
    BY <2>3 DEF EmptyDir, Owed, ScanDue, TypeOK
  <2>4. CASE ModifiedOrAdded(d) /\ libs[d] = None
    <3>1. UNCHANGED <<libs, pending>> /\ pc' = "creating" /\ at' = d
      BY <2>4 DEF ModifiedOrAdded, Goes
    <3>2. \/ Owed(e)' \/ e = d
          \/ libs[e] # None /\ \E i \in DOMAIN pending : pending[i] = libs[e]
      BY <1>1, DropsOwed DEF Owed
    <3> QED
      BY <3>1, <3>2 DEF Owed, ScanDue
  <2>5. CASE ModifiedOrAdded(d) /\ libs[d] # None
    <3>1. UNCHANGED libs /\ AddsPending(libs[d]) /\ libs[d] \in Id
      BY <2>5 DEF ModifiedOrAdded, TypeOK
    <3>2. \/ Owed(e)' \/ e = d
          \/ libs[e] # None /\ \E i \in DOMAIN pending : pending[i] = libs[e]
      BY <1>1, DropsOwed DEF Owed
    <3> QED
      BY <2>5, <3>1, <3>2, AddsDue DEF Owed, ScanDue
  <2>6. CASE EmptyDir(d)
    <3>1. TakesEvent("empty", d)
      BY <2>6 DEF EmptyDir
    <3> QED
      BY <2>1, <2>2, <2>3, <2>6, <3>1, DropsOwed
  <2> QED
    BY <2>4, <2>5, <2>6
<1> QED
  BY <1>3, <1>4, <1>5 DEF OwedInv

LEMMA RequestOwed ==
  ASSUME TypeOK, TableInv, OwedInv, Create \/ Delete \/ Scan \/ Dies
  PROVE  OwedInv'
<1>1. CASE Create
  <2>1. /\ UNCHANGED <<has, changed, forgotten, chan, taken>> /\ at \in Dir /\ made \in Id /\ taken = None
    BY <1>1 DEF Create, ThreadFrame, AnswerLost, syncVars, TypeOK, OwedInv, HeldOnlyWaiting
  <2>2. CASE AnswerLost
    BY <2>1, <2>2 DEF AnswerLost, syncVars, OwedInv, EmptyOutdated, Outdated, HeldOnlyWaiting,
                      ScanOwed, Signalled, ScanDue
  <2>3. CASE libs' = [libs EXCEPT ![at] = made] /\ AddsPending(made) /\ Goes("loop", None)
    <3>1. ASSUME NEW d \in Dir, d = at \/ ScanDue(d)
          PROVE  ScanDue(d)'
      <4>1. CASE d = at
        BY <2>1, <2>3, <4>1, AddsDue DEF ScanDue, TypeOK
      <4>2. CASE d # at
        BY <2>1, <2>3, <3>1, <4>2, AddsDue DEF ScanDue, TypeOK
      <4> QED
        BY <4>1, <4>2
    <3>2. HeldOnlyWaiting'
      BY <2>1, <2>3 DEF Goes, HeldOnlyWaiting
    <3>3. pc = "creating" /\ pc' = "loop"
      BY <1>1, <2>3 DEF Create, Goes
    <3> QED
      BY <2>1, <3>1, <3>2, <3>3 DEF OwedInv, EmptyOutdated, Outdated, ScanOwed, Signalled
  <2> QED
    BY <1>1, <2>2, <2>3 DEF Create
<1>2. CASE Delete
  <2>1. /\ UNCHANGED <<has, changed, forgotten, chan, libs, pending, taken>>
        /\ pc = "deleting" /\ pc' \in {"loop", "deleting"}
    BY <1>2 DEF Delete, ThreadFrame, Goes, AnswerLost, syncVars
  <2> QED
    BY <2>1 DEF OwedInv, EmptyOutdated, Outdated, HeldOnlyWaiting, ScanOwed, Signalled, ScanDue
<1>3. CASE Scan
  <2>1. /\ UNCHANGED <<has, forgotten, chan, libs, pending, taken>> /\ pc = "scanning"
        /\ (pc' = "loop" \/ (pc' = pc /\ at' = at))
    BY <1>3 DEF Scan, ThreadFrame, Goes, AnswerLost, syncVars
  <2>2. PICK l \in server : l.id = at /\ changed' = [changed EXCEPT ![l.dir] = FALSE]
    BY <1>3 DEF Scan
  <2>3. \A d \in Dir : changed'[d] => changed[d] /\ d # l.dir
    BY <2>2 DEF TypeOK
  <2>4. ASSUME NEW d \in Dir, at = libs[d]
        PROVE  d = l.dir
    <3>1. libs[d] # None
      BY <2>1, <2>4 DEF TypeOK
    <3>2. [id |-> libs[d], dir |-> d] \in server
      BY <3>1 DEF TableInv, LibsOnServer
    <3> QED
      BY <2>2, <2>4, <3>2 DEF TableInv, IdsUnique
  <2>5. HeldOnlyWaiting' /\ EmptyOutdated'
    BY <2>1 DEF OwedInv, HeldOnlyWaiting, EmptyOutdated, Outdated
  <2>6. ScanOwed'
    BY <2>1, <2>3, <2>4 DEF OwedInv, ScanOwed, Signalled, ScanDue
  <2> QED
    BY <2>5, <2>6 DEF OwedInv
<1>4. CASE Dies
  <2>1. /\ UNCHANGED <<has, forgotten, taken>> /\ chan' = <<>> /\ pc' = "dead"
    BY <1>4 DEF Dies, Goes, ThreadFrame
  <2>2. DOMAIN chan' = {}
    BY <2>1
  <2> QED
    BY <2>1, <2>2 DEF OwedInv, EmptyOutdated, Outdated, HeldOnlyWaiting, ScanOwed
<1> QED
  BY <1>1, <1>2, <1>3, <1>4

LEMMA RestartOwed ==
  ASSUME TypeOK, Restart
  PROVE  OwedInv'
<1>1. /\ UNCHANGED <<has, changed>> /\ chan' = <<>> /\ taken' = None
      /\ \A d \in Dir : libs'[d] = None
      /\ \A d \in Dir : has[d] /\ changed[d] => d \in forgotten'
  BY DEF Restart, treeVars
<1>2. DOMAIN chan' = {}
  BY <1>1
<1> QED
  BY <1>1, <1>2 DEF OwedInv, EmptyOutdated, Outdated, HeldOnlyWaiting, ScanOwed

\* A change the server has not seen is on its way to it, unless its signal or
\* its pending scan was dropped and nothing has been sent since.
\* (immich.rs: maintain_immich_sync.)
THEOREM ScansOwed == Spec => []ScanOwed
<1>1. Init => OwedInv
  <2> SUFFICES ASSUME Init PROVE OwedInv
    OBVIOUS
  <2>1. DOMAIN chan = {}
    BY DEF Init
  <2> QED
    BY <2>1 DEF Init, OwedInv, EmptyOutdated, Outdated, HeldOnlyWaiting, ScanOwed
<1>2. ASSUME TypeOK /\ TableInv, OwedInv, [Next]_vars
      PROVE  OwedInv'
  <2>1. CASE Thread
    BY <1>2, <2>1, StartsOwed, WaitsOwed, EventOwed, RequestOwed DEF Thread
  <2>2. CASE UNCHANGED vars
    BY <1>2, <2>2 DEF vars, OwedInv, EmptyOutdated, Outdated, HeldOnlyWaiting, ScanOwed,
                      Signalled, ScanDue
  <2> QED
    BY <1>2, <2>1, <2>2, MainOwed, RestartOwed DEF Next
<1>3. OwedInv => ScanOwed
  BY DEF OwedInv
<1> QED
  BY <1>1, <1>2, <1>3, TableAlways, PTL DEF Spec

-----------------------------------------------------------------------------
(* Libraries and directories                                               *)

\* What the last signal about d says, of those in the channel.
Last(kind, d) ==
  \E i \in DOMAIN chan :
    /\ chan[i] = [kind |-> kind, dir |-> d]
    /\ \A j \in DOMAIN chan : chan[j].dir = d => j <= i

NoSignal(d) == \A i \in DOMAIN chan : chan[i].dir # d

\* There is a library of d when the request under way is done.
WillHave(d) ==
  IF pc = "starting" THEN \E l \in server : l.dir = d
                     ELSE libs[d] # None \/ (pc = "creating" /\ at = d)

\* A scan comes that signals d if it is empty.
Repeated(d) == overflown \/ (main = "scan" /\ d \in todo)

\* What the thread makes of d once it has taken the last signal is right.
MatchAt(d) ==
  d \notin forgotten =>
    /\ has[d] => Last("added", d) \/ (NoSignal(d) /\ WillHave(d))
    /\ ~has[d] => Repeated(d) \/ Last("empty", d) \/ (NoSignal(d) /\ pc # "starting" /\ ~WillHave(d))

MatchInv == pc # "dead" => \A d \in Dir : MatchAt(d)

LEMMA SendsLast ==
  ASSUME TypeOK, NEW kind \in {"added", "empty"}, NEW d \in Dir, Signal(kind, d), pc # "dead"
  PROVE  /\ \A e \in Dir \ {d} :
              /\ \A k \in {"added", "empty"} : Last(k, e) => Last(k, e)'
              /\ NoSignal(e) => NoSignal(e)'
              /\ e \in forgotten => e \in forgotten'
         /\ overflown => overflown'
         /\ \/ Last(kind, d)'
            \/ overflown' /\ (kind = "added" => d \in forgotten')
<1>1. CASE chan' = Append(chan, [kind |-> kind, dir |-> d]) /\ forgotten' = forgotten \ {d}
           /\ overflown' = overflown
  <2> DEFINE s == [kind |-> kind, dir |-> d]
             n == Len(chan) + 1
  <2>1. s \in Event /\ chan \in Seq(Event) /\ Len(chan) \in Nat
    BY DEF Event, TypeOK
  <2>2. /\ chan' \in Seq(Event) /\ Len(chan') = n /\ chan'[n] = s
        /\ \A i \in 1 .. Len(chan) : chan'[i] = chan[i]
    BY <1>1, <2>1
  <2>3. /\ DOMAIN chan = 1 .. Len(chan) /\ DOMAIN chan' = 1 .. n
        /\ \A i \in DOMAIN chan : i \in DOMAIN chan' /\ chan'[i] = chan[i]
        /\ \A i \in DOMAIN chan' : i <= n /\ (i \in DOMAIN chan \/ i = n)
        /\ n \in DOMAIN chan'
    BY <2>1, <2>2
  <2>4. ASSUME NEW e \in Dir \ {d}
        PROVE  /\ \A k \in {"added", "empty"} : Last(k, e) => Last(k, e)'
               /\ NoSignal(e) => NoSignal(e)'
    <3>1. chan'[n].dir # e
      BY <2>2
    <3>2. ASSUME NEW k \in {"added", "empty"}, Last(k, e) PROVE Last(k, e)'
      <4>1. PICK i \in DOMAIN chan : /\ chan[i] = [kind |-> k, dir |-> e]
                                     /\ \A j \in DOMAIN chan : chan[j].dir = e => j <= i
        BY <3>2 DEF Last
      <4>2. i \in DOMAIN chan' /\ chan'[i] = [kind |-> k, dir |-> e]
        BY <2>3, <4>1
      <4>3. \A j \in DOMAIN chan' : chan'[j].dir = e => j <= i
        BY <2>3, <3>1, <4>1
      <4> QED
        BY <4>2, <4>3 DEF Last
    <3>3. NoSignal(e) => NoSignal(e)'
      BY <2>3, <3>1 DEF NoSignal
    <3> QED
      BY <3>2, <3>3
  <2>5. Last(kind, d)'
    BY <2>2, <2>3 DEF Last
  <2> QED
    BY <1>1, <2>4, <2>5
<1>2. CASE /\ chan' = chan /\ overflown' = TRUE
           /\ forgotten' = IF kind = "added" THEN forgotten \cup {d} ELSE forgotten
  BY <1>2 DEF Last, NoSignal
<1> QED
  BY <1>1, <1>2 DEF Signal, signalVars

LEMMA TakesLast ==
  ASSUME TypeOK, NEW kind \in {"added", "empty"}, NEW d \in Dir, TakesEvent(kind, d), NEW e \in Dir
  PROVE  /\ NoSignal(e) => e # d /\ NoSignal(e)'
         /\ \A k \in {"added", "empty"} :
              Last(k, e) => Last(k, e)' \/ (NoSignal(e)' /\ k = kind /\ e = d)
<1>1. /\ chan' = Tail(chan) /\ chan \in Seq(Event) /\ Len(chan) \in Nat \ {0}
      /\ chan[1] = [kind |-> kind, dir |-> d]
  <2>1. /\ chan' = Tail(chan) /\ chan \in Seq(Event) /\ chan # <<>>
        /\ Head(chan) = [kind |-> kind, dir |-> d]
    BY DEF TakesEvent, TypeOK
  <2>2. Len(chan) \in Nat \ {0} /\ Head(chan) = chan[1]
    BY <2>1
  <2> QED
    BY <2>1, <2>2
<1>2. /\ DOMAIN chan = 1 .. Len(chan) /\ DOMAIN chan' = 1 .. Len(chan) - 1
      /\ \A i \in 1 .. Len(chan) - 1 : chan'[i] = chan[i + 1]
  BY <1>1
<1>3. /\ \A i \in DOMAIN chan' : i \in Nat /\ i >= 1 /\ i + 1 \in DOMAIN chan /\ chan'[i] = chan[i + 1]
      /\ \A i \in DOMAIN chan : i \in Nat /\ (i # 1 => i - 1 \in DOMAIN chan' /\ chan'[i - 1] = chan[i])
      /\ 1 \in DOMAIN chan
  BY <1>1, <1>2
<1>4. NoSignal(e) => e # d /\ NoSignal(e)'
  BY <1>1, <1>3 DEF NoSignal
<1>5. ASSUME NEW k \in {"added", "empty"}, Last(k, e)
      PROVE  Last(k, e)' \/ (NoSignal(e)' /\ k = kind /\ e = d)
  <2>1. PICK i \in DOMAIN chan : /\ chan[i] = [kind |-> k, dir |-> e]
                                 /\ \A j \in DOMAIN chan : chan[j].dir = e => j <= i
    BY <1>5 DEF Last
  <2>2. CASE i = 1
    <3>1. k = kind /\ e = d
      BY <1>1, <2>1, <2>2
    <3>2. NoSignal(e)'
      <4> SUFFICES ASSUME NEW j \in DOMAIN chan' PROVE chan'[j].dir # e
        BY DEF NoSignal
      <4>1. j \in Nat /\ j >= 1 /\ j + 1 \in DOMAIN chan /\ chan'[j] = chan[j + 1]
        BY <1>3
      <4> QED
        BY <2>1, <2>2, <4>1
    <3> QED
      BY <3>1, <3>2
  <2>3. CASE i # 1
    <3>1. i - 1 \in DOMAIN chan' /\ chan'[i - 1] = [kind |-> k, dir |-> e]
      BY <1>3, <2>1, <2>3
    <3>2. ASSUME NEW j \in DOMAIN chan', chan'[j].dir = e
          PROVE  j <= i - 1
      <4>1. i \in Nat /\ j \in Nat /\ j + 1 \in DOMAIN chan /\ chan'[j] = chan[j + 1]
        BY <1>3
      <4>2. j + 1 <= i
        BY <2>1, <3>2, <4>1
      <4> QED
        BY <4>1, <4>2
    <3> QED
      BY <3>1, <3>2 DEF Last
  <2> QED
    BY <2>2, <2>3
<1> QED
  BY <1>4, <1>5

LEMMA MainMatch ==
  ASSUME TypeOK, MatchInv, Main
  PROVE  MatchInv'
<1>1. UNCHANGED <<pc, at, libs, server>>
  BY DEF Main, ScanDir, HandleEvent, ScanDone, Rescan, syncVars, serverVars
<1>2. \A d \in Dir : (WillHave(d)' <=> WillHave(d))
  BY <1>1 DEF WillHave
<1> SUFFICES ASSUME pc # "dead" PROVE \A d \in Dir : MatchAt(d)'
  BY <1>1 DEF MatchInv
<1>3. CASE ScanDone \/ Rescan
  <2>1. UNCHANGED <<has, forgotten, chan>> /\ \A d \in Dir : Repeated(d) => Repeated(d)'
    BY <1>3 DEF ScanDone, Rescan, Repeated, treeVars, signalVars
  <2> QED
    BY <1>1, <1>2, <2>1 DEF MatchInv, MatchAt, Last, NoSignal
<1>4. ASSUME NEW d \in Dir,
             \/ Exports(d) \/ Empties(d) \/ RemovesStale(d)
             \/ has[d] /\ UNCHANGED <<treeVars, forgotten, signalVars>>
             \/ ~has[d] /\ Signal("empty", d) /\ UNCHANGED <<has, changed>>,
             main' = main, todo \ {d} \subseteq todo'
      PROVE  \A e \in Dir : MatchAt(e)'
  <2> TAKE e \in Dir
  <2>1. CASE e # d
    <3>1. has'[e] = has[e]
      BY <1>4, <2>1 DEF Exports, Empties, RemovesStale, treeVars, TypeOK
    <3>2. /\ \A k \in {"added", "empty"} : Last(k, e) => Last(k, e)'
          /\ NoSignal(e) => NoSignal(e)'
          /\ e \in forgotten => e \in forgotten'
          /\ overflown => overflown'
      <4>1. CASE \E kind \in {"added", "empty"} : Signal(kind, d)
        BY <2>1, <4>1, SendsLast
      <4>2. CASE UNCHANGED signalVars /\ forgotten \subseteq forgotten'
        BY <4>2 DEF signalVars, Last, NoSignal
      <4> QED
        BY <1>4, <4>1, <4>2 DEF Exports, Empties, RemovesStale
    <3>3. Repeated(e) => Repeated(e)'
      BY <1>4, <2>1, <3>2 DEF Repeated
    <3> QED
      BY <1>1, <1>2, <3>1, <3>2, <3>3 DEF MatchInv, MatchAt
  <2>2. CASE e = d
    <3>1. CASE Exports(d)
      <4>1. has'[d] /\ Signal("added", d)
        BY <3>1 DEF Exports, TypeOK
      <4> QED
        BY <2>2, <4>1, SendsLast DEF MatchAt
    <3>2. CASE Empties(d) \/ (~has[d] /\ Signal("empty", d) /\ UNCHANGED <<has, changed>>)
      <4>1. ~has'[d] /\ Signal("empty", d)
        BY <3>2 DEF Empties, TypeOK
      <4> QED
        BY <2>2, <4>1, SendsLast DEF MatchAt, Repeated
    <3>3. CASE RemovesStale(d)
      BY <2>2, <3>3 DEF RemovesStale, MatchAt
    <3>4. CASE has[d] /\ UNCHANGED <<treeVars, forgotten, signalVars>>
      BY <1>1, <1>2, <2>2, <3>4 DEF MatchInv, MatchAt, Last, NoSignal, treeVars, signalVars
    <3> QED
      BY <1>4, <3>1, <3>2, <3>3, <3>4
  <2> QED
    BY <2>1, <2>2
<1>5. ASSUME NEW d \in Dir, ScanDir(d) \/ HandleEvent(d)
      PROVE  \A e \in Dir : MatchAt(e)'
  <2>1. CASE ScanDir(d)
    BY <1>4, <2>1 DEF ScanDir, treeVars
  <2>2. CASE HandleEvent(d)
    BY <1>4, <2>2 DEF HandleEvent, EmptiesAgain, mainVars
  <2> QED
    BY <1>5, <2>1, <2>2
<1> QED
  BY <1>3, <1>5 DEF Main

LEMMA EventMatch ==
  ASSUME TypeOK, MatchInv, NEW d \in Dir, EmptyDir(d) \/ ModifiedOrAdded(d)
  PROVE  MatchInv'
<1> DEFINE kind == IF EmptyDir(d) THEN "empty" ELSE "added"
<1>1. TakesEvent(kind, d) /\ kind \in {"added", "empty"}
  BY DEF EmptyDir, ModifiedOrAdded
<1>2. /\ UNCHANGED <<has, overflown, main, todo>> /\ forgotten \subseteq forgotten'
      /\ pc \in {"loop", "waiting"} /\ pc' \in {"loop", "deleting", "creating"}
  BY <1>1 DEF TakesEvent, DropsTaken, ThreadFrame, EmptyDir, ModifiedOrAdded, Goes, mainVars
<1>3. \A e \in Dir : Repeated(e)' <=> Repeated(e)
  BY <1>2 DEF Repeated
<1>4. \A e \in Dir \ {d} : WillHave(e)' <=> WillHave(e)
  BY <1>2 DEF WillHave, EmptyDir, ModifiedOrAdded, Goes, TypeOK
<1>5. IF kind = "empty" THEN ~WillHave(d)' ELSE WillHave(d)'
  BY <1>2 DEF WillHave, EmptyDir, ModifiedOrAdded, Goes, TypeOK
<1>6. ASSUME NEW e \in Dir PROVE MatchAt(e)'
  <2>1. MatchAt(e)
    BY <1>2 DEF MatchInv
  <2>2. /\ NoSignal(e) => e # d /\ NoSignal(e)'
        /\ \A k \in {"added", "empty"} :
             Last(k, e) => Last(k, e)' \/ (NoSignal(e)' /\ k = kind /\ e = d)
    BY <1>1, TakesLast
  <2> QED
    BY <1>2, <1>3, <1>4, <1>5, <2>1, <2>2 DEF MatchAt
<1> QED
  BY <1>6 DEF MatchInv

LEMMA ThreadMatch ==
  ASSUME TypeOK, MatchInv, Thread
  PROVE  MatchInv'
<1>1. ASSUME UNCHANGED <<has, forgotten, chan, overflown, main, todo>>,
             pc \notin {"starting", "dead"}, pc' \notin {"starting", "dead"},
             \A d \in Dir : WillHave(d)' <=> WillHave(d)
      PROVE  MatchInv'
  BY <1>1 DEF MatchInv, MatchAt, Last, NoSignal, Repeated
<1>2. CASE Starts
  <2>1. /\ UNCHANGED <<has, forgotten, chan, overflown, main, todo>> /\ pc = "starting" /\ pc' = "loop"
    BY <1>2 DEF Starts, Goes, ThreadFrame, mainVars
  <2>2. ASSUME NEW d \in Dir, \E l \in server : l.dir = d
        PROVE  libs'[d] # None
    <3>1. {l.id : l \in {m \in server : m.dir = d}} # {}
      BY <2>2
    <3>2. libs'[d] \in {l.id : l \in {m \in server : m.dir = d}}
      BY <1>2, <3>1 DEF Starts
    <3> QED
      BY <3>2 DEF TypeOK
  <2>3. \A d \in Dir : WillHave(d) => WillHave(d)'
    BY <2>1, <2>2 DEF WillHave
  <2> QED
    BY <2>1, <2>3 DEF MatchInv, MatchAt, Last, NoSignal, Repeated
<1>3. CASE Waits \/ TimerFires
  <2>1. /\ UNCHANGED <<has, forgotten, chan, overflown, main, todo, libs>>
        /\ pc \in {"loop", "waiting"} /\ pc' \in {"waiting", "scanning"}
    BY <1>3 DEF Waits, TimerFires, Goes, ThreadFrame, mainVars
  <2> QED
    BY <1>1, <2>1 DEF WillHave
<1>4. CASE Create
  <2>1. /\ UNCHANGED <<has, forgotten, chan, overflown, main, todo>> /\ pc = "creating" /\ at \in Dir
        /\ \/ libs' = [libs EXCEPT ![at] = made] /\ pc' = "loop" /\ at' = None
           \/ UNCHANGED <<libs, pc, at>>
    BY <1>4 DEF Create, Goes, ThreadFrame, AnswerLost, syncVars, mainVars, TypeOK
  <2>2. made # None /\ libs \in [Dir -> Id \cup {None}]
    BY DEF TypeOK
  <2>3. \A d \in Dir : WillHave(d)' <=> WillHave(d)
    BY <2>1, <2>2 DEF WillHave
  <2> QED
    BY <1>1, <2>1, <2>3
<1>5. CASE Delete \/ Scan
  <2>1. /\ UNCHANGED <<has, forgotten, chan, overflown, main, todo, libs>>
        /\ pc \in {"deleting", "scanning"} /\ pc' \in {"loop", "deleting", "scanning"}
    BY <1>5 DEF Delete, Scan, Goes, ThreadFrame, AnswerLost, syncVars, mainVars
  <2> QED
    BY <1>1, <2>1 DEF WillHave
<1>6. CASE Dies
  BY <1>6 DEF Dies, Goes, MatchInv
<1> QED
  BY <1>2, <1>3, <1>4, <1>5, <1>6, EventMatch DEF Thread

LEMMA RestartMatch ==
  ASSUME Restart
  PROVE  MatchInv'
<1>1. /\ UNCHANGED <<has, server>> /\ chan' = <<>> /\ main' = "scan" /\ todo' = Dir /\ pc' = "starting"
      /\ \A d \in Dir : has[d] /\ d \notin forgotten' => \E l \in server : l.dir = d
  BY DEF Restart, Goes, treeVars, serverVars
<1>2. DOMAIN chan' = {}
  BY <1>1
<1> QED
  BY <1>1, <1>2 DEF MatchInv, MatchAt, NoSignal, WillHave, Repeated

\* When all signals are handled the thread has a library of exactly the
\* directories with previews, except where a signal was forgotten: signals that a
\* directory is empty may be dropped, because the flag stands for them until the
\* scan that repeats them has come by.
\* (immich.rs: needs_rescan, maintain_immich_sync; scan.rs: signal_dir_empty.)
THEOREM LibrariesRight == Spec => []LibrariesMatch
<1>1. Init => MatchInv
  <2> SUFFICES ASSUME Init PROVE MatchInv
    OBVIOUS
  <2>1. DOMAIN chan = {}
    BY DEF Init
  <2> QED
    BY <2>1 DEF Init, MatchInv, MatchAt, Repeated
<1>2. ASSUME TypeOK, MatchInv, [Next]_vars
      PROVE  MatchInv'
  <2>1. CASE UNCHANGED vars
    BY <1>2, <2>1 DEF vars, MatchInv, MatchAt, Last, NoSignal, WillHave, Repeated
  <2> QED
    BY <1>2, <2>1, MainMatch, ThreadMatch, RestartMatch DEF Next
<1>3. TypeOK /\ MatchInv => LibrariesMatch
  <2> SUFFICES ASSUME TypeOK, MatchInv, Settled PROVE LibrariesMatch
    BY DEF LibrariesMatch
  <2>1. DOMAIN chan = {}
    BY DEF Settled
  <2> QED
    BY <2>1 DEF MatchInv, MatchAt, Last, NoSignal, WillHave, Repeated, Settled, LibrariesMatch
<1> QED
  BY <1>1, <1>2, <1>3, TypeCorrect, PTL DEF Spec

=============================================================================

----------------------------- MODULE ImmichSync -----------------------------
(***************************************************************************)
(* Keeping Immich up to date (immich.rs, immich/client.rs).  The main loop *)
(* and the scan signal which target directories got previews or became     *)
(* empty.  A bounded channel takes the signals to a thread that creates    *)
(* and deletes a library on the server for each directory, and asks it to  *)
(* scan a library a while after a preview of its directory changed.  Every *)
(* request is repeated until the server answers; an answer that says the   *)
(* request was wrong ends the thread.                                      *)
(*                                                                         *)
(* The source side is reduced to what it signals: exports, and directories *)
(* from which the last preview is removed.  All pending scans wait equally *)
(* long, as last_scanned is never set, so that they come due in the order  *)
(* in which they were added; the paths in them are not used.               *)
(***************************************************************************)
EXTENDS Naturals, Sequences

CONSTANTS
  Dir,          \* target directories
  Capacity,     \* of the channel to the thread (512 in the program)
  MaxChanges,   \* bound: previews exported, directories emptied or found empty
  MaxLosses,    \* bound: answers of the server that get lost
  MaxRestarts,  \* bound: times the program is started again
  None

ASSUME BoundsAssumption ==
  /\ Capacity \in Nat \ {0} /\ MaxChanges \in Nat /\ MaxLosses \in Nat /\ MaxRestarts \in Nat
ASSUME NoneAssumption == None \notin Nat /\ None \notin Dir

Event == [kind : {"added", "empty"}, dir : Dir]
Id    == Nat

VARIABLES
  has,        \* has[d]: are there previews in d?  (*.jpg, the ones a scan counts)
  changed,    \* changed[d]: did one change since the server scanned d?
  forgotten,  \* directories of which a signal or pending scan was dropped, or
              \* a signal never sent, since the last signal that was accepted
              \* (history variable)
  chan,       \* the channel to the thread
  overflown,  \* the AtomicBool that says it was full
  main,       \* where the main loop is: scanning, or waiting for file events
  todo,       \* directories the scan has still to do
  pc,         \* where the thread is
  at,         \* the directory or library of the request under way, or None
  libs,       \* libs[d]: the library of d the thread knows of, or None
  pending,    \* libraries to be scanned, the one that is due first at the head
  taken,      \* the pending scan whose time the thread waits for, or None
  server,     \* the libraries on the server
  made,       \* how many there ever were
  changes, losses, restarts

treeVars   == <<has, changed, changes>>
signalVars == <<chan, overflown>>
mainVars   == <<main, todo>>
syncVars   == <<pc, at, libs, pending, taken>>
serverVars == <<server, made, losses>>
vars == <<has, changed, changes, forgotten, chan, overflown, main, todo,
          pc, at, libs, pending, taken, server, made, losses, restarts>>

\* The target directory may be older than the wish to have it in Immich.
Init ==
  /\ has \in [Dir -> BOOLEAN] /\ changed = has
  /\ forgotten = {d \in Dir : has[d]}
  /\ chan = <<>> /\ overflown = FALSE
  /\ main = "scan" /\ todo = Dir
  /\ pc = "starting" /\ at = None
  /\ libs = [d \in Dir |-> None]
  /\ pending = <<>> /\ taken = None
  /\ server = {} /\ made = 0
  /\ changes = 0 /\ losses = 0 /\ restarts = 0

-----------------------------------------------------------------------------
(* signal_dir_empty, signal_file_modified_or_added                         *)

Signal(kind, d) ==
  \/ /\ pc # "dead" /\ Len(chan) < Capacity
     /\ chan' = Append(chan, [kind |-> kind, dir |-> d])
     /\ forgotten' = forgotten \ {d}
     /\ UNCHANGED overflown
  \/ /\ pc # "dead" /\ Len(chan) >= Capacity
     /\ overflown' = TRUE
     /\ forgotten' = IF kind = "added" THEN forgotten \cup {d} ELSE forgotten
     /\ UNCHANGED chan
  \/ /\ pc = "dead"    \* the error of the thread is logged once
     /\ forgotten' = IF kind = "added" THEN forgotten \cup {d} ELSE forgotten
     /\ UNCHANGED signalVars

\* A preview is exported into d.
Exports(d) ==
  /\ changes < MaxChanges /\ changes' = changes + 1
  /\ has' = [has EXCEPT ![d] = TRUE]
  /\ changed' = [changed EXCEPT ![d] = TRUE]
  /\ Signal("added", d)

\* The last preview in d is removed.
Empties(d) ==
  /\ has[d]
  /\ changes < MaxChanges /\ changes' = changes + 1
  /\ has' = [has EXCEPT ![d] = FALSE]
  /\ changed' = [changed EXCEPT ![d] = FALSE]
  /\ Signal("empty", d)

-----------------------------------------------------------------------------
(* The scan and the main loop                                              *)

\* remove_stale removes the last preview, whose sidecar is gone.  The count
\* that decides about the signal does not know of it.
RemovesStale(d) ==
  /\ has[d]
  /\ changes < MaxChanges /\ changes' = changes + 1
  /\ has' = [has EXCEPT ![d] = FALSE]
  /\ changed' = [changed EXCEPT ![d] = FALSE]
  /\ forgotten' = forgotten \cup {d}
  /\ UNCHANGED signalVars

\* A scan signals the previews it exports and the directories it finds or
\* makes empty.  Of a preview that is up to date it signals nothing.
ScanDir(d) ==
  /\ main = "scan" /\ d \in todo
  /\ todo' = todo \ {d}
  /\ \/ Exports(d) \/ Empties(d) \/ RemovesStale(d)
     \/ has[d] /\ UNCHANGED <<treeVars, forgotten, signalVars>>
     \/ ~has[d] /\ Signal("empty", d) /\ UNCHANGED treeVars
  /\ UNCHANGED <<main, syncVars, serverVars, restarts>>

ScanDone ==
  /\ main = "scan" /\ todo = {}
  /\ main' = "next"
  /\ UNCHANGED <<treeVars, forgotten, signalVars, todo, syncVars, serverVars, restarts>>

\* needs_rescan, which is asked after a file event and before it is handled.
RescanNeeded == overflown /\ Capacity - Len(chan) > Capacity \div 2

\* Mutant: the flag is lowered and the scan does not happen.
OnlyLowersFlag ==
  /\ main = "next" /\ RescanNeeded
  /\ overflown' = FALSE
  /\ UNCHANGED <<treeVars, forgotten, chan, mainVars, syncVars, serverVars, restarts>>

Rescan ==
  /\ main = "next" /\ RescanNeeded
  /\ overflown' = FALSE
  /\ main' = "scan" /\ todo' = Dir
  /\ UNCHANGED <<treeVars, forgotten, chan, syncVars, serverVars, restarts>>

\* clean_up does not mind that the preview of a sidecar that came or went is
\* missing.  A target directory without previews that stays, the base or one
\* with subdirectories, is signalled empty again.
EmptiesAgain(d) ==
  /\ ~has[d]
  /\ changes < MaxChanges /\ changes' = changes + 1
  /\ UNCHANGED <<has, changed>>
  /\ Signal("empty", d)

HandleEvent(d) ==
  /\ main = "next" /\ ~RescanNeeded
  /\ Exports(d) \/ Empties(d) \/ EmptiesAgain(d)
  /\ UNCHANGED <<mainVars, syncVars, serverVars, restarts>>

Main == (\E d \in Dir : ScanDir(d) \/ HandleEvent(d)) \/ ScanDone \/ Rescan

-----------------------------------------------------------------------------
(* The thread: maintain_immich_sync                                        *)

ThreadFrame == UNCHANGED <<has, changes, overflown, mainVars, restarts>>

Goes(where, request) == pc' = where /\ at' = request

\* The libraries this program has made are looked up; of two for the same
\* directory the later one in the answer is kept.
Starts ==
  /\ pc = "starting"
  /\ libs' \in [Dir -> {l.id : l \in server} \cup {None}]
  /\ \A d \in Dir :
       LET mine == {l.id : l \in {m \in server : m.dir = d}}
       IN IF mine = {} THEN libs'[d] = None ELSE libs'[d] \in mine
  /\ Goes("loop", None)
  /\ UNCHANGED <<changed, forgotten, chan, pending, taken, serverVars>>
  /\ ThreadFrame

\* Mutant: only the channel is waited for.
WaitsForEvent ==
  /\ pc = "loop" /\ chan = <<>>
  /\ Goes("waiting", None)
  /\ UNCHANGED <<changed, forgotten, chan, libs, pending, taken, serverVars>>
  /\ ThreadFrame

\* The channel is polled first.  When it is empty next_pending is polled too,
\* which takes the scan that is due first out of the list before it sleeps.
Waits ==
  /\ pc = "loop" /\ chan = <<>>
  /\ Goes("waiting", None)
  /\ IF pending = <<>> THEN UNCHANGED <<pending, taken>>
                       ELSE taken' = Head(pending) /\ pending' = Tail(pending)
  /\ UNCHANGED <<changed, forgotten, chan, libs, serverVars>>
  /\ ThreadFrame

TimerFires ==
  /\ pc = "waiting" /\ taken # None
  /\ Goes("scanning", taken)
  /\ taken' = None
  /\ UNCHANGED <<changed, forgotten, chan, libs, pending, serverVars>>
  /\ ThreadFrame

Signalled(kind, d) == \E i \in DOMAIN chan : chan[i] = [kind |-> kind, dir |-> d]

\* When an event wins the race, the future of next_pending is dropped, and
\* with it the scan it has taken.
DropsTaken ==
  /\ taken' = None
  /\ forgotten' = forgotten \cup
       {d \in Dir : taken # None /\ libs[d] = taken /\ changed[d] /\ ~Signalled("added", d)}

\* Mutant: a scan is added when there is one already.
AlwaysAdds(id) == pending' = Append(pending, id)

\* Mutant: no scan is added when there is one of another library.
AddsFirst(id) == pending' = IF pending = <<>> THEN <<id>> ELSE pending

AddsPending(id) ==
  pending' = IF \E i \in DOMAIN pending : pending[i] = id THEN pending ELSE Append(pending, id)

TakesEvent(kind, d) ==
  /\ pc \in {"loop", "waiting"} /\ chan # <<>>
  /\ Head(chan) = [kind |-> kind, dir |-> d]
  /\ chan' = Tail(chan)
  /\ DropsTaken
  /\ UNCHANGED <<changed, serverVars>>
  /\ ThreadFrame

\* Mutant: the library stays in the table.
EmptyKeepsLib(d) ==
  /\ TakesEvent("empty", d)
  /\ IF libs[d] = None THEN Goes("loop", None) ELSE Goes("deleting", libs[d])
  /\ UNCHANGED <<libs, pending>>

EmptyDir(d) ==
  /\ TakesEvent("empty", d)
  /\ libs' = [libs EXCEPT ![d] = None]
  /\ IF libs[d] = None THEN Goes("loop", None) ELSE Goes("deleting", libs[d])
  /\ UNCHANGED pending

ModifiedOrAdded(d) ==
  /\ TakesEvent("added", d)
  /\ IF libs[d] # None THEN AddsPending(libs[d]) /\ Goes("loop", None)
                       ELSE Goes("creating", d) /\ UNCHANGED pending
  /\ UNCHANGED libs

-----------------------------------------------------------------------------
(* Requests, as repeated by retry.  An attempt that does not reach the     *)
(* server changes nothing; one that does may have its answer lost, and is  *)
(* then made again.                                                        *)

AnswerLost == losses < MaxLosses /\ losses' = losses + 1 /\ UNCHANGED syncVars

Create ==
  /\ pc = "creating"
  /\ made' = made + 1
  /\ server' = server \cup {[id |-> made, dir |-> at]}
  /\ \/ /\ libs' = [libs EXCEPT ![at] = made]
        /\ AddsPending(made)
        /\ Goes("loop", None)
        /\ UNCHANGED <<taken, losses>>
     \/ AnswerLost
  /\ UNCHANGED <<changed, forgotten, chan>>
  /\ ThreadFrame

Delete ==
  /\ pc = "deleting"
  /\ \E l \in server : l.id = at /\ server' = server \ {l}
  /\ \/ Goes("loop", None) /\ UNCHANGED <<libs, pending, taken, losses>>
     \/ AnswerLost
  /\ UNCHANGED <<changed, forgotten, chan, made>>
  /\ ThreadFrame

\* update_library: from now on the server sees all there is in the directory.
Scan ==
  /\ pc = "scanning"
  /\ \E l \in server :
       /\ l.id = at
       /\ changed' = [changed EXCEPT ![l.dir] = FALSE]
  /\ \/ Goes("loop", None) /\ UNCHANGED <<libs, pending, taken, losses>>
     \/ AnswerLost
  /\ UNCHANGED <<forgotten, chan, server, made>>
  /\ ThreadFrame

\* The server knows no such library, or refuses the request for reasons of
\* its own: not recoverable.
Dies ==
  /\ \/ pc \in {"deleting", "scanning"} /\ \A l \in server : l.id # at
     \/ pc \in {"starting", "creating", "deleting", "scanning"}
  /\ Goes("dead", None)
  /\ chan' = <<>> /\ pending' = <<>>
  /\ UNCHANGED <<changed, forgotten, libs, taken, serverVars>>
  /\ ThreadFrame

Thread ==
  \/ Starts \/ Waits \/ TimerFires
  \/ \E d \in Dir : EmptyDir(d) \/ ModifiedOrAdded(d)
  \/ Create \/ Delete \/ Scan \/ Dies

-----------------------------------------------------------------------------
\* The program ends, in whatever way, and is started again.
Restart ==
  /\ restarts < MaxRestarts /\ restarts' = restarts + 1
  /\ chan' = <<>> /\ overflown' = FALSE
  /\ main' = "scan" /\ todo' = Dir
  /\ Goes("starting", None)
  /\ libs' = [d \in Dir |-> None] /\ pending' = <<>> /\ taken' = None
  /\ forgotten' = {d \in Dir : has[d] /\ (changed[d] \/ \A l \in server : l.dir # d)}
  /\ UNCHANGED <<treeVars, serverVars>>

Next == Main \/ Thread \/ Restart

Spec == Init /\ [][Next]_vars

\* The thread runs, and the server answers in the end.
FairSpec == Spec /\ WF_vars(Thread)

-----------------------------------------------------------------------------
(* Properties                                                              *)

\* Types; no library waits twice to be scanned.
TypeOK ==
  /\ has \in [Dir -> BOOLEAN] /\ changed \in [Dir -> BOOLEAN]
  /\ forgotten \subseteq Dir
  /\ chan \in Seq(Event) /\ Len(chan) <= Capacity
  /\ overflown \in BOOLEAN
  /\ main \in {"scan", "next"} /\ todo \subseteq Dir
  /\ \/ pc \in {"starting", "loop", "waiting", "dead"} /\ at = None
     \/ pc = "creating" /\ at \in Dir
     \/ pc \in {"deleting", "scanning"} /\ at \in Id
  /\ libs \in [Dir -> Id \cup {None}]
  /\ pending \in Seq(Id)
  /\ \A i, j \in DOMAIN pending : pending[i] = pending[j] => i = j
  /\ taken \in Id \cup {None}
  /\ server \subseteq [id : Id, dir : Dir] /\ made \in Nat
  /\ changes \in 0 .. MaxChanges /\ losses \in 0 .. MaxLosses /\ restarts \in 0 .. MaxRestarts

\* What the thread knows of the server is true: the library it has for a
\* directory is there, and is one of that directory.  No library is ever
\* scanned for a directory it does not belong to, though answers get lost,
\* libraries are made twice, and the program starts again.
\* (immich.rs: libs in maintain_immich_sync.)
LibsOnServer == \A d \in Dir : libs[d] # None => [id |-> libs[d], dir |-> d] \in server

ScanDue(d) ==
  libs[d] # None /\ (taken = libs[d] \/ (\E i \in DOMAIN pending : pending[i] = libs[d]))

\* A change the server has not seen is in the channel, waits to be scanned,
\* or is being seen to, unless it was forgotten: its signal found the channel
\* full, an event took the place of its pending scan, or the program ended.
\* (immich.rs: maintain_immich_sync.)
ScanOwed ==
  \A d \in Dir : has[d] /\ changed[d] /\ pc # "dead" =>
    \/ Signalled("added", d)
    \/ ScanDue(d)
    \/ pc = "creating" /\ at = d
    \/ pc = "scanning" /\ at = libs[d]
    \/ d \in forgotten

\* Nothing is left to do until a file changes or a pending scan comes due.
Settled == main = "next" /\ pc = "waiting" /\ chan = <<>> /\ ~overflown

\* When all signals are handled there is a library of exactly the directories
\* with previews, but for those of which the last signal was forgotten; and
\* signals that a directory is empty are not forgotten when the channel is
\* full, as the next scan repeats them, nor when the program starts again.
\* (immich.rs: needs_rescan, maintain_immich_sync; scan.rs: signal_dir_empty.)
LibrariesMatch ==
  Settled => \A d \in Dir \ forgotten : libs[d] # None <=> has[d]

\* README: "triggering selective rescans when needed".  When there is nothing
\* left to do at all, the server has seen every preview that changed while
\* the program was running.
InSync ==
  Settled /\ taken = None /\ restarts = 0 =>
    \A d \in Dir : libs[d] # None => ~changed[d]

\* A change is seen by the server in the end, or it was forgotten, or the
\* thread has ended.
EventuallyScanned ==
  \A d \in Dir : (has[d] /\ changed[d]) ~> (~(has[d] /\ changed[d]) \/ d \in forgotten \/ pc = "dead")

=============================================================================

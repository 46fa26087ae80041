------------------------------- MODULE Mirror -------------------------------
(***************************************************************************)
(* The core of dark-sorter: a source directory with xmp sidecars, the      *)
(* mirror directory with the exported previews, and between them           *)
(*                                                                         *)
(*   - the fanotify queue of the kernel and the watcher thread that        *)
(*     forwards relevant events to a bounded channel (watcher.rs),         *)
(*   - the main loop: scan, store the database, handle events (lib.rs),    *)
(*   - the scan of a directory (scan.rs, scan/preview.rs),                 *)
(*   - the handling of one event (watcher.rs, scan/preview.rs),            *)
(*   - the database of exported edits, in memory and on disk.              *)
(*                                                                         *)
(* What the model leaves to other modules: directories below the base, the *)
(* Immich signals, the steps inside store_to_disk, the locking inside      *)
(* ParsedXmps and the homes of darktable.  A run of the program without    *)
(* --daemon is the instance with Daemon = FALSE.  Every sidecar has a      *)
(* preview of its own: an image beside a raw file of the same stem, and    *)
(* the duplicates of a photo, share one and are not in the model.          *)
(***************************************************************************)
EXTENDS Naturals, Sequences

CONSTANTS
  Raw,          \* sidecars of raw photos: previews are exported by darktable
  Jpg,          \* sidecars of `.jpg` images: previews are copies named .jpg
  Odd,          \* sidecars of .JPG .png .gif .jpeg images: copies that keep
                \* their extension, which no listing of previews recognises
  MaxEdits,     \* edit histories are numbered 0 .. MaxEdits
  Capacity,     \* of the channel to the main loop (4096 in the program)
  KernelCap,    \* length of the fanotify queue at which the kernel drops
  Daemon,       \* is the program started with --daemon?  (main evaluates
                \* `start()?` without it too, and drops that watcher at once)
  Env,          \* what happens around the program in this instance
  MaxOps,       \* bound: operations of the user
  MaxRestarts,  \* bound: times the program is started again
  None, Absent, Partial, Unread

Files == Raw \cup Jpg \cup Odd
Edits == 0 .. MaxEdits

\* "immich" is a rescan asked for by the Immich thread; with "survive" a
\* darktable-cli goes on after the program that started it.
EnvAll == { "rewrite", "moveTo", "deleted", "movedFrom", "other",
            "undo", "exportFails", "crash", "immich", "survive" }

Kinds == {"modified", "deleted", "movedFrom", "movedTo"}
Event == [file : Files, kind : Kinds]
Hand  == [file : Files \cup {None}, todo : SUBSET Kinds, failed : BOOLEAN]

ASSUME FilesAssumption == Raw \cap Jpg = {} /\ Raw \cap Odd = {} /\ Jpg \cap Odd = {}
ASSUME BoundsAssumption ==
  /\ MaxEdits \in Nat /\ Capacity \in Nat /\ KernelCap \in Nat
  /\ MaxOps \in Nat /\ MaxRestarts \in Nat
  /\ Daemon \in BOOLEAN /\ Env \subseteq EnvAll
ASSUME NoneAssumption ==
  /\ None \notin Files /\ None \notin Nat /\ Partial \notin Nat
  /\ \A v \in {None, Absent, Partial, Unread} :
       v \notin [rated : BOOLEAN, edits : Nat]
  /\ Absent # Partial /\ Unread \notin {None, Absent, Partial}
  /\ None \notin {Absent, Partial} /\ None \notin Event \cup Hand

VARIABLES
  src,        \* src[f]: Absent, Partial while a program writes it, or an xmp
  newest,     \* newest[f]: largest edit history saved or being saved
              \* (history variable)
  preview,    \* preview[f]: None, the edit history the preview shows, or
              \* Partial, the beginning of a copy
  kq,         \* the fanotify queue of the kernel
  hand,       \* the event the watcher thread is forwarding, or None
  overflown,  \* the AtomicBool shared by the watcher thread and the main loop
  chan,       \* the channel from the watcher thread to the main loop
  dropped,    \* files that lost an event since a rescan last put them right
              \* (history variable)
  pc,         \* where the main loop is
  ev,         \* the event the main loop took from the channel
  db,         \* db[f]: edit hash of the last export, in memory
  disk,       \* the same map as last stored on disk
  read,       \* read[f]: the xmp as read by the scan or by handle_event
  stale,      \* stale[f]: the future of remove_stale for the preview of f
  job,        \* job[f]: the future of create_update_or_clean_one for f
  seen,       \* seen[f]: the edits darktable-cli read for the export of f
  strays,     \* exports whose darktable-cli outlived the program
  strayed,    \* raw files that ever had one (history variable)
  ops, restarts

envVars   == <<src, newest, ops>>
watchVars == <<kq, hand, overflown, chan, dropped>>
scanVars  == <<read, stale, job>>
dbVars    == <<db, disk>>
runVars   == <<restarts, seen, strays, strayed>>
vars == <<src, newest, ops, kq, hand, overflown, chan, dropped, pc, ev,
          db, disk, preview, read, stale, job, restarts, seen, strays, strayed>>

-----------------------------------------------------------------------------
(* Values                                                                  *)

Xmp == [rated : BOOLEAN, edits : Edits]

\* Mutant: the two halves of a move are looked at in the other order.
RankSwapped == [modified |-> 1, deleted |-> 2, movedTo |-> 3, movedFrom |-> 4]

\* The order in which forward_if_relevant looks at the bits of a mask.
Rank == [modified |-> 1, deleted |-> 2, movedFrom |-> 3, movedTo |-> 4]

\* Mutant: a file moved over the sidecar is not taken for a change of it.
CreatingOnWrite == {"modified"}

Creating == {"modified", "movedTo"}

Down == {"failed", "crashed", "complete"}

\* A copied image shows no edits at all, whatever its sidecar says.
Render(f, x) == IF f \in Raw THEN x.edits ELSE 0

\* What reading a sidecar gives.  Half of a text may be an xmp: the one being
\* saved with its first edits only, or with one rating and not the other.
Readings(f) ==
  IF src[f] = Partial THEN {Partial} \cup {x \in Xmp : x.edits <= newest[f]} ELSE {src[f]}

\* The preview shows what the sidecar says.
Mirrored(f) == IF src[f].rated THEN preview[f] = Render(f, src[f]) ELSE preview[f] = None

Init ==
  /\ src \in [Files -> {Absent} \cup [rated : BOOLEAN, edits : {0}]]
  /\ newest = [f \in Files |-> 0]
  /\ preview \in [Files -> {None, 0}]
  /\ kq = <<>> /\ hand = None /\ overflown = FALSE /\ chan = <<>> /\ dropped = {}
  /\ pc = "scan" /\ ev = None
  /\ disk \in [Files -> {None, 0}] /\ db = disk
  /\ read = [f \in Files |-> None]
  /\ stale = [f \in Files |-> "idle"] /\ job = [f \in Files |-> "idle"]
  /\ ops = 0 /\ restarts = 0
  /\ seen = [f \in Files |-> None] /\ strays = {} /\ strayed = {}

-----------------------------------------------------------------------------
(* The fanotify queue.  FAN_CLOSE_WRITE, FAN_DELETE, FAN_MOVED_FROM and    *)
(* FAN_MOVED_TO are marked, nothing is reported for a file being created   *)
(* or truncated.  The kernel may merge an event into the last one about    *)
(* the file when both are about the same inode under the same name, and it *)
(* drops events once the queue is full, leaving one overflow event in      *)
(* their place.                                                            *)

Irrelevant == [file |-> None, mask |-> {}]
Lost       == [file |-> None, mask |-> {"overflow"}]
Notice     == [file : Files, mask : SUBSET Kinds] \cup {Irrelevant, Lost}

Watching == Daemon /\ pc \notin Down

\* The inode an event with this mask is about still has its name.
InPlace(mask) == "deleted" \notin mask /\ ("movedFrom" \in mask => "movedTo" \in mask)

MayMerge(f, k, i) ==
  /\ kq[i].file = f
  /\ \A j \in DOMAIN kq : kq[j].file = f => j <= i
  /\ IF k = "movedTo" THEN "deleted" \notin kq[i].mask /\ "movedFrom" \in kq[i].mask
                      ELSE InPlace(kq[i].mask)

Enqueue(n) ==
  IF Len(kq) < KernelCap
    THEN kq' = Append(kq, n) /\ UNCHANGED dropped
    ELSE /\ kq' = IF \E i \in DOMAIN kq : kq[i] = Lost THEN kq ELSE Append(kq, Lost)
         /\ dropped' = dropped \cup ({n.file} \ {None})

Post(f, k) ==
  IF Watching
    THEN \/ Enqueue([file |-> f, mask |-> {k}])
         \/ \E i \in DOMAIN kq :
              /\ MayMerge(f, k, i)
              /\ kq' = [kq EXCEPT ![i] = [file |-> f, mask |-> @.mask \cup {k}]]
              /\ UNCHANGED dropped
    ELSE UNCHANGED <<kq, dropped>>

-----------------------------------------------------------------------------
(* The user: whatever program edits, moves and deletes sidecars.           *)

Operation(kind) ==
  /\ kind \in Env /\ ops < MaxOps
  /\ ops' = ops + 1
  /\ UNCHANGED <<hand, overflown, chan, pc, ev, preview, dbVars, scanVars, runVars>>

\* Unless the user goes back in the history, an edit is a new one.
Saved(f, x) ==
  /\ "undo" \in Env \/ x.edits >= newest[f]
  /\ src' = [src EXCEPT ![f] = x]
  /\ newest' = [newest EXCEPT ![f] = IF x.edits > @ THEN x.edits ELSE @]

\* The file is created or truncated: readable, and not all there yet.
BeginRewrite(f, e) ==
  /\ Operation("rewrite")
  /\ src[f] # Partial
  /\ "undo" \in Env \/ e >= newest[f]
  /\ src' = [src EXCEPT ![f] = Partial]
  /\ newest' = [newest EXCEPT ![f] = IF e > @ THEN e ELSE @]
  /\ UNCHANGED <<kq, dropped>>

EndRewrite(f, x) ==
  /\ src[f] = Partial
  /\ Saved(f, x)
  /\ Post(f, "modified")
  /\ UNCHANGED <<ops, hand, overflown, chan, pc, ev, preview, dbVars, scanVars, runVars>>

\* A complete file is renamed to the sidecar's name.
MoveTo(f, x) ==
  /\ Operation("moveTo")
  /\ src[f] # Partial
  /\ Saved(f, x)
  /\ Post(f, "movedTo")

\* The sidecar is deleted or moved out of the way.
Remove(f, kind) ==
  /\ Operation(kind)
  /\ src[f] \in Xmp
  /\ src' = [src EXCEPT ![f] = Absent]
  /\ Post(f, kind)
  /\ UNCHANGED newest

\* Some other file of the watched filesystem is written.
OtherActivity ==
  /\ Operation("other")
  /\ Watching
  /\ Enqueue(Irrelevant)
  /\ UNCHANGED <<src, newest>>

User ==
  \/ \E f \in Files, e \in Edits : BeginRewrite(f, e)
  \/ \E f \in Files, x \in Xmp : EndRewrite(f, x)
  \/ \E f \in Files, x \in Xmp : MoveTo(f, x)
  \/ \E f \in Files, kind \in {"deleted", "movedFrom"} : Remove(f, kind)
  \/ OtherActivity

-----------------------------------------------------------------------------
(* The watcher thread: forward_if_relevant, one shared-memory access at a  *)
(* time.  It is the only writer of the overflown flag and stores it after  *)
(* every event, relevant or not.                                           *)

WatcherRead ==
  /\ hand = None /\ kq # <<>>
  /\ LET n == Head(kq)
         relevant == n.file # None /\ src[n.file] # Absent   \* path.is_file()
     IN hand' = [file |-> n.file, todo |-> IF relevant THEN n.mask ELSE {},
                 failed |-> n = Lost]
  /\ kq' = Tail(kq)
  /\ UNCHANGED <<envVars, overflown, chan, dropped, pc, ev, preview, dbVars, scanVars, runVars>>

WatcherSend ==
  /\ hand # None
  /\ \E k \in hand.todo :
       /\ \A j \in hand.todo : Rank[k] <= Rank[j]
       /\ IF Len(chan) < Capacity
            THEN /\ chan' = Append(chan, [file |-> hand.file, kind |-> k])
                 /\ hand' = [hand EXCEPT !.todo = @ \ {k}]
                 /\ UNCHANGED dropped
            ELSE /\ hand' = [hand EXCEPT !.todo = @ \ {k}, !.failed = TRUE]
                 /\ dropped' = dropped \cup {hand.file}
                 /\ UNCHANGED chan
  /\ UNCHANGED <<envVars, kq, overflown, pc, ev, preview, dbVars, scanVars, runVars>>

WatcherStore ==
  /\ hand # None /\ hand.todo = {}
  /\ overflown' = hand.failed
  /\ hand' = None
  /\ UNCHANGED <<envVars, kq, chan, dropped, pc, ev, preview, dbVars, scanVars, runVars>>

Watcher == WatcherRead \/ WatcherSend \/ WatcherStore

\* Where an event of a sidecar can be before the main loop takes it.
AtKernel(f)  == \E i \in DOMAIN kq : kq[i].file = f
AtWatcher(f) == hand # None /\ hand.file = f /\ hand.todo # {}
AtChannel(f) == \E i \in DOMAIN chan : chan[i].file = f
Pending(f)   == AtKernel(f) \/ AtWatcher(f) \/ AtChannel(f)

-----------------------------------------------------------------------------
(* The program ends: with an error that `?` carries out of main_loop, by a *)
(* crash, or because there is nothing to watch.  What is on disk stays.    *)

Ends(reason, stored) ==
  /\ pc' = reason /\ ev' = None
  /\ kq' = <<>> /\ hand' = None /\ overflown' = FALSE /\ chan' = <<>> /\ dropped' = {}
  /\ disk' = stored /\ db' = stored
  /\ read' = [f \in Files |-> None]
  /\ stale' = [f \in Files |-> "idle"] /\ job' = [f \in Files |-> "idle"]
  /\ seen' = [f \in Files |-> None]

Underway(kind) == {f \in kind : job[f] = "export"}

\* A copy under way when the program ends is cut off where it is, or whole
\* already.  Nobody kills the darktable-cli of an export; those in `over`
\* have ended by themselves.
Leaves(over) ==
  \E whole \in SUBSET Underway(Jpg \cup Odd),
     alive \in SUBSET (IF "survive" \in Env THEN Underway(Raw) \ over ELSE {}) :
    /\ preview' = [f \in Files |-> IF f \in whole THEN 0 ELSE preview[f]]
    /\ strays' = strays \cup {[file |-> f, edits |-> seen[f]] : f \in alive}
    /\ strayed' = strayed \cup alive

Fails(over) == Ends("failed", disk) /\ Leaves(over) /\ UNCHANGED <<envVars, restarts>>

Crash ==
  /\ "crash" \in Env /\ restarts < MaxRestarts /\ pc \notin Down
  /\ Ends("crashed", disk)
  /\ Leaves({})
  /\ UNCHANGED <<envVars, restarts>>

\* main: the database is loaded and the watcher starts before the first scan.
Start ==
  /\ pc \in Down /\ restarts < MaxRestarts
  /\ pc' = "scan"
  /\ restarts' = restarts + 1
  /\ UNCHANGED <<envVars, watchVars, ev, preview, dbVars, scanVars, seen, strays, strayed>>

\* A darktable-cli left over from an earlier run reads the sidecar, if it had
\* not yet, and ends with a preview or without one.
StrayEnds(s) ==
  /\ s \in strays
  /\ strays' = strays \ {s}
  /\ \/ UNCHANGED preview
     \/ /\ preview[s.file] = None
        /\ s.edits = None => src[s.file] \in Xmp
        /\ preview' = [preview EXCEPT ![s.file] =
                          IF s.edits = None THEN src[s.file].edits ELSE s.edits]
  /\ UNCHANGED <<envVars, watchVars, pc, ev, dbVars, scanVars, restarts, seen, strayed>>

-----------------------------------------------------------------------------
(* create_update_or_clean_one, for the scan and for handle_event alike.    *)

MakeReturns(f) ==
  /\ job' = [job EXCEPT ![f] = "idle"]
  /\ IF pc = "making"
       THEN pc' = "store" /\ ev' = None /\ read' = [read EXCEPT ![f] = None]
       ELSE UNCHANGED <<pc, ev, read>>

\* Mutant: the preview to remove is found by preview_path, as in clean_up.
MakeCleanByPath(f) ==
  /\ job[f] = "check" /\ read[f] \in Xmp /\ ~read[f].rated
  /\ preview' = IF f \in Odd THEN preview ELSE [preview EXCEPT ![f] = None]
  /\ MakeReturns(f)
  /\ UNCHANGED <<envVars, watchVars, dbVars, stale, runVars>>

\* The preview of an unrated sidecar is removed, if there is one.
MakeClean(f) ==
  /\ job[f] = "check" /\ read[f] \in Xmp /\ ~read[f].rated
  /\ preview' = [preview EXCEPT ![f] = None]
  /\ MakeReturns(f)
  /\ UNCHANGED <<envVars, watchVars, dbVars, stale, runVars>>

\* Mutants: only the preview, or only the database, is looked at.
PreviewExists(f) == preview[f] # None
HashMatches(f)   == db[f] = read[f].edits

AlreadyExported(f) == db[f] = read[f].edits /\ preview[f] # None

MakeNothing(f) ==
  /\ job[f] = "check" /\ read[f] \in Xmp /\ read[f].rated
  /\ AlreadyExported(f)
  /\ MakeReturns(f)
  /\ UNCHANGED <<envVars, watchVars, dbVars, preview, stale, runVars>>

\* Mutant: the old output file is left for darktable-cli to find.
MakeBeginsOver(f) ==
  /\ job[f] = "check" /\ read[f] \in Xmp /\ read[f].rated
  /\ ~AlreadyExported(f)
  /\ job' = [job EXCEPT ![f] = "export"]
  /\ UNCHANGED <<envVars, watchVars, pc, ev, dbVars, preview, read, stale, runVars>>

\* An export first removes the output file, as darktable-cli would not
\* write over it; a copy begins by truncating it.
MakeBegins(f) ==
  /\ job[f] = "check" /\ read[f] \in Xmp /\ read[f].rated
  /\ ~AlreadyExported(f)
  /\ job' = [job EXCEPT ![f] = "export"]
  /\ preview' = [preview EXCEPT ![f] = IF f \in Raw THEN None ELSE Partial]
  /\ UNCHANGED <<envVars, watchVars, pc, ev, dbVars, read, stale, runVars>>

\* darktable-cli reads the sidecar itself, later than the program did.
DarktableReads(f) ==
  /\ job[f] = "export" /\ f \in Raw /\ seen[f] = None
  /\ src[f] \in Xmp
  /\ seen' = [seen EXCEPT ![f] = src[f].edits]
  /\ UNCHANGED <<envVars, watchVars, pc, ev, dbVars, preview, scanVars, restarts, strays, strayed>>

MakeEnds(f) ==
  /\ job[f] = "export" /\ (f \in Raw => seen[f] # None)
  /\ preview' = [preview EXCEPT ![f] =
                   IF f \in Raw THEN (IF @ = None THEN seen[f] ELSE @) ELSE 0]
  /\ db' = [db EXCEPT ![f] = read[f].edits]
  /\ seen' = [seen EXCEPT ![f] = None]
  /\ MakeReturns(f)
  /\ UNCHANGED <<envVars, watchVars, disk, stale, restarts, strays, strayed>>

\* It finds no sidecar, or half of one.
CannotMake(f) ==
  /\ job[f] = "export" /\ f \in Raw /\ seen[f] = None
  /\ src[f] \notin Xmp
  /\ Fails({f})

\* An export or a copy fails for reasons of its own, before it touches the
\* preview or after.
MakeFails(f) ==
  /\ "exportFails" \in Env
  /\ \/ job[f] = "check" /\ read[f] \in Xmp /\ read[f].rated /\ ~AlreadyExported(f)
     \/ job[f] = "export"
  /\ Fails({f})

Make(f) ==
  \/ MakeClean(f) \/ MakeNothing(f)
  \/ MakeBegins(f) \/ DarktableReads(f) \/ MakeEnds(f) \/ CannotMake(f)

-----------------------------------------------------------------------------
(* scan_clean_and_link for one directory.                                  *)

\* The source and the target are listed, then all futures start.
ScanLists ==
  /\ pc = "scan"
  /\ read'  = [f \in Files |-> IF src[f] = Absent THEN None ELSE Unread]
  /\ job'   = [f \in Files |-> IF src[f] = Absent THEN "idle" ELSE "check"]
  /\ stale' = [f \in Files |-> IF preview[f] # None /\ f \notin Odd THEN "check" ELSE "idle"]
  /\ pc' = "scanning"
  /\ UNCHANGED <<envVars, watchVars, ev, preview, dbVars, runVars>>

\* cached_or_parse_from: a sidecar is read once in a scan.
ScanReads(f) ==
  /\ read[f] = Unread
  /\ \E x \in Readings(f) : read' = [read EXCEPT ![f] = x]
  /\ UNCHANGED <<envVars, watchVars, pc, ev, preview, dbVars, stale, job, runVars>>

\* Mutant: a preview without a sidecar is not taken for stale.
StaleIfUnrated(f) ==
  /\ stale[f] = "check" /\ read[f] \in {None, Absent} \cup Xmp
  /\ stale' = [stale EXCEPT ![f] =
                 IF read[f] \in Xmp /\ ~read[f].rated THEN "remove" ELSE "idle"]
  /\ UNCHANGED <<envVars, watchVars, pc, ev, preview, dbVars, read, job, runVars>>

\* should_remove: no sidecar was listed, it is gone, or it is not rated.
StaleDecides(f) ==
  /\ stale[f] = "check" /\ read[f] \in {None, Absent} \cup Xmp
  /\ stale' = [stale EXCEPT ![f] =
                 IF read[f] \in Xmp /\ read[f].rated THEN "idle" ELSE "remove"]
  /\ UNCHANGED <<envVars, watchVars, pc, ev, preview, dbVars, read, job, runVars>>

\* remove_stale: the file has to be there still.
StaleRemoves(f) ==
  /\ stale[f] = "remove" /\ preview[f] # None
  /\ preview' = [preview EXCEPT ![f] = None]
  /\ stale' = [stale EXCEPT ![f] = "idle"]
  /\ UNCHANGED <<envVars, watchVars, pc, ev, dbVars, read, job, runVars>>

\* One future of the try_join returns an error: the removal of a preview
\* that is gone, or a sidecar that is gone or cannot be parsed.
ScanFails(f) ==
  /\ \/ stale[f] = "remove" /\ preview[f] = None
     \/ stale[f] = "check" /\ read[f] = Partial
     \/ job[f] = "check" /\ read[f] \in {Absent, Partial}
  /\ Fails({})

ScanDone ==
  /\ pc = "scanning"
  /\ \A f \in Files : stale[f] = "idle" /\ job[f] = "idle"
  /\ pc' = "store"
  /\ read' = [f \in Files |-> None]
  /\ UNCHANGED <<envVars, watchVars, ev, preview, dbVars, stale, job, runVars>>

Scan ==
  \/ ScanLists
  \/ \E f \in Files : ScanReads(f) \/ StaleDecides(f) \/ StaleRemoves(f) \/ ScanFails(f)
  \/ ScanDone

-----------------------------------------------------------------------------
(* The main loop.                                                          *)

\* Without a watcher the program is complete after the first scan.
Store ==
  /\ pc = "store"
  /\ \/ /\ Daemon
        /\ disk' = db
        /\ pc' = "next"
        /\ UNCHANGED <<watchVars, ev, db, scanVars, seen>>
     \/ /\ ~Daemon
        /\ Ends("complete", db)
  /\ UNCHANGED <<envVars, preview, restarts, strays, strayed>>

TakeEvent ==
  /\ pc = "next" /\ chan # <<>>
  /\ ev' = Head(chan)
  /\ chan' = Tail(chan)
  /\ pc' = "check"
  /\ UNCHANGED <<envVars, kq, hand, overflown, dropped, preview, dbVars, scanVars, runVars>>

\* Mutant: the channel is cleared and no scan follows.
ClearsOnly ==
  /\ pc = "check" /\ overflown
  /\ chan' = <<>> /\ ev' = None
  /\ dropped' = {f \in dropped : AtKernel(f) \/ AtWatcher(f)}
  /\ pc' = "next"
  /\ UNCHANGED <<envVars, kq, hand, overflown, preview, dbVars, scanVars, runVars>>

\* On overflow the channel is cleared, the event in hand with it.  The scan
\* that follows makes up for the events of a file that were lost, unless
\* older events of the file are still on their way to the channel.
SeesOverflow ==
  /\ pc = "check" /\ overflown
  /\ chan' = <<>> /\ ev' = None
  /\ dropped' = {f \in dropped : AtKernel(f) \/ AtWatcher(f)}
  /\ pc' = "scan"
  /\ UNCHANGED <<envVars, kq, hand, overflown, preview, dbVars, scanVars, runVars>>

SeesNoOverflow ==
  /\ pc = "check" /\ ~overflown
  /\ pc' = "handle"
  /\ UNCHANGED <<envVars, watchVars, ev, preview, dbVars, scanVars, runVars>>

\* The Immich thread fell behind and wants a scan: the event in hand is
\* thrown away, the channel is not cleared.
SeesImmichOverflow ==
  /\ pc = "check" /\ ~overflown
  /\ "immich" \in Env
  /\ ev' = None /\ pc' = "scan"
  /\ UNCHANGED <<envVars, watchVars, preview, dbVars, scanVars, runVars>>

\* Mutant: the event stays in hand.
SkipsKeepingEvent ==
  /\ pc = "handle" /\ src[ev.file] = Absent
  /\ pc' = "store"
  /\ UNCHANGED <<envVars, watchVars, ev, preview, dbVars, scanVars, runVars>>

\* The sidecar in the event is gone: nothing is done.
HandleSkips ==
  /\ pc = "handle" /\ src[ev.file] = Absent
  /\ pc' = "store" /\ ev' = None
  /\ UNCHANGED <<envVars, watchVars, preview, dbVars, scanVars, runVars>>

\* clean_up goes by preview_path, which always ends in `.jpg`.
HandleCleans ==
  /\ pc = "handle" /\ Readings(ev.file) \cap Xmp # {} /\ ev.kind \notin Creating
  /\ preview' = IF ev.file \in Odd THEN preview ELSE [preview EXCEPT ![ev.file] = None]
  /\ pc' = "store" /\ ev' = None
  /\ UNCHANGED <<envVars, watchVars, dbVars, scanVars, runVars>>

HandleMakes ==
  /\ pc = "handle" /\ ev.kind \in Creating
  /\ \E x \in Readings(ev.file) \cap Xmp : read' = [read EXCEPT ![ev.file] = x]
  /\ job' = [job EXCEPT ![ev.file] = "check"]
  /\ pc' = "making"
  /\ UNCHANGED <<envVars, watchVars, ev, preview, dbVars, stale, runVars>>

\* A sidecar that is being written is seldom an xmp.
HandleFails ==
  /\ pc = "handle" /\ Partial \in Readings(ev.file)
  /\ Fails({})

Handle == HandleSkips \/ HandleCleans \/ HandleMakes \/ HandleFails

Main ==
  \/ Scan
  \/ Store
  \/ TakeEvent \/ SeesOverflow \/ SeesImmichOverflow \/ SeesNoOverflow
  \/ Handle
  \/ \E f \in Files : Make(f)

Next ==
  \/ User
  \/ Watcher
  \/ Main
  \/ \E f \in Files : MakeFails(f)
  \/ \E s \in strays : StrayEnds(s)
  \/ Crash
  \/ Start

Spec == Init /\ [][Next]_vars

\* The two threads of the program are scheduled; a save that has begun ends.
Fairness ==
  /\ WF_vars(Watcher)
  /\ WF_vars(Main)
  /\ \A f \in Files : WF_vars(\E x \in Xmp : EndRewrite(f, x))

FairSpec == Spec /\ Fairness

-----------------------------------------------------------------------------
(* Properties                                                              *)

TreeType ==
  /\ src \in [Files -> {Absent, Partial} \cup Xmp]
  /\ newest \in [Files -> Edits]
  /\ preview \in [Files -> {None, Partial} \cup Edits]
  /\ \A f \in Raw : preview[f] # Partial
  /\ ops \in 0 .. MaxOps

WatchType ==
  /\ kq \in Seq(Notice)
  /\ hand \in {None} \cup Hand
  /\ hand # None /\ hand.file = None => hand.todo = {}
  /\ overflown \in BOOLEAN
  /\ chan \in Seq(Event) /\ Len(chan) <= Capacity
  /\ dropped \subseteq Files

MainType ==
  /\ pc \in Down \cup {"scan", "scanning", "store", "next", "check", "handle", "making"}
  /\ ev \in {None} \cup Event
  /\ ev = None <=> pc \notin {"check", "handle", "making"}
  /\ restarts \in 0 .. MaxRestarts
  /\ strays \subseteq [file : strayed, edits : {None} \cup Edits] /\ strayed \subseteq Raw

DbType ==
  /\ db \in [Files -> {None} \cup Edits]
  /\ disk \in [Files -> {None} \cup Edits]

ScanType ==
  /\ read \in [Files -> {None, Unread, Absent, Partial} \cup Xmp]
  /\ stale \in [Files -> {"idle", "check", "remove"}]
  /\ job \in [Files -> {"idle", "check", "export"}]
  /\ seen \in [Files -> {None} \cup Edits]
  /\ \A f \in Files : job[f] = "export" => read[f] \in Xmp /\ read[f].rated

\* Types; the channel never holds more than its capacity, and the main loop
\* has an event in hand exactly where it handles one; only what was read as
\* a rated xmp is exported.
TypeOK == TreeType /\ WatchType /\ MainType /\ DbType /\ ScanType

\* What the database is for: when it says that the edits of a raw photo are
\* exported and there is a preview, that preview shows these edits.  The
\* hash is taken before darktable-cli reads the sidecar for itself, the file
\* may change in between, and a crash may leave an old map on disk.  Given
\* that darktable-cli writes its output all at once; a photo with an export
\* that outlived the program is excepted, see AllUpToDate.
\* (preview.rs: the early return of create_update_or_clean_one.)
SkipIsRight ==
  \A f \in Raw \ strayed : src[f] \in Xmp /\ preview[f] # None =>
    (src[f].edits \in {db[f], disk[f]} => preview[f] = src[f].edits)

\* Why: without undo, the edits in a sidecar only grow.  The database may be
\* behind the preview and the preview behind the sidecar, never the reverse.
SkipInv ==
  \A f \in Files :
    /\ src[f] \in Xmp => src[f].edits = newest[f]
    /\ read[f] \in Xmp => read[f].edits <= newest[f]
    /\ db[f] # None => db[f] <= newest[f]
    /\ disk[f] # None => disk[f] <= newest[f]
    /\ f \notin Raw => preview[f] \in {None, Partial, 0}
    /\ f \in Raw \ strayed /\ preview[f] # None =>
         /\ preview[f] <= newest[f]
         /\ db[f] # None => db[f] <= preview[f]
         /\ disk[f] # None => disk[f] <= preview[f]
         /\ job[f] # "export"
    /\ f \in Raw /\ seen[f] # None =>
         /\ read[f].edits <= seen[f] /\ seen[f] <= newest[f]
         /\ db[f] # None => db[f] <= seen[f]
         /\ disk[f] # None => disk[f] <= seen[f]

-----------------------------------------------------------------------------
(* Nothing is forgotten.                                                   *)

\* The two cases in which the program rests on a preview that is wrong.  A
\* copy was cut off and a hash from before vouches for what there is of it;
\* a darktable-cli of an earlier run wrote what it had read then.
CutOff(f) ==
  f \notin Raw /\ src[f].rated /\ preview[f] = Partial /\ db[f] = src[f].edits

Settled(f) == Mirrored(f) \/ CutOff(f) \/ f \in strayed

\* Where the event or the scan that will see to a changed sidecar can be.
InKernel(f)  == \E i \in DOMAIN kq : kq[i].file = f /\ kq[i].mask \cap Creating # {}
InHand(f)    == hand # None /\ hand.file = f /\ hand.todo \cap Creating # {}
InChannel(f) == \E i \in DOMAIN chan : chan[i].file = f /\ chan[i].kind \in Creating
InLoop(f)    == pc \in {"check", "handle"} /\ ev.file = f /\ ev.kind \in Creating
InScan(f)    == pc = "scan" \/ read[f] = Unread \/ (job[f] # "idle" /\ read[f] = src[f])

\* No change of a sidecar is forgotten: as long as the program runs, either
\* the preview shows what the sidecar says, or an event or a scan that will
\* see to it is on its way, or an event of this file was refused by a full
\* queue.  Excepted are the two cases of Settled.  (lib.rs: main_loop; watcher.rs: handle_event.)
NoLostChange ==
  \A f \in Files : src[f] \in Xmp /\ pc \notin Down =>
    \/ Settled(f)
    \/ InKernel(f) \/ InHand(f) \/ InChannel(f) \/ InLoop(f) \/ InScan(f)
    \/ f \in dropped
    \/ ~Daemon

\* The bits of this mask, in the order they are forwarded, end with one that
\* makes the main loop create the preview.
EndsCreating(mask) == mask \cap Creating # {} /\ InPlace(mask)

\* Why, first: behind every event of a sidecar that is there, one follows
\* that creates its preview, even behind a removal the main loop has in hand.
KernelOrder(f) ==
  \A i \in DOMAIN kq : kq[i].file = f =>
    \E j \in DOMAIN kq : i <= j /\ kq[j].file = f /\ EndsCreating(kq[j].mask)

WatcherOrder(f) == AtWatcher(f) => AtKernel(f) \/ EndsCreating(hand.todo)

ChannelOrder(f) ==
  \A i \in DOMAIN chan : chan[i].file = f =>
    \/ AtKernel(f) \/ AtWatcher(f)
    \/ \E j \in DOMAIN chan : i <= j /\ chan[j].file = f /\ chan[j].kind \in Creating

LoopOrder(f) ==
  pc \in {"check", "handle"} /\ ev.file = f /\ ev.kind \notin Creating => Pending(f)

LastWordCreates(f) == KernelOrder(f) /\ WatcherOrder(f) /\ ChannelOrder(f) /\ LoopOrder(f)

\* Why, second: what was read of a sidecar is what it says, unless an event
\* that tells otherwise is on its way.
ReadIsFresh(f) ==
  \/ Pending(f)
  \/ /\ pc = "scanning" => read[f] \in {Unread, src[f]}
     /\ pc = "making" /\ ev.file = f => read[f] = src[f]

\* Which futures there are, and what a removal was decided on.
FuturesInv ==
  \A f \in Files :
    /\ read[f] = Unread => pc = "scanning" /\ job[f] = "check"
    /\ stale[f] # "idle" => pc = "scanning"
    /\ stale[f] = "remove" => read[f] \in {None, Absent} \/ (read[f] \in Xmp /\ ~read[f].rated)
    /\ job[f] # "idle" => pc = "scanning" \/ (pc = "making" /\ ev.file = f)
    /\ seen[f] # None => job[f] = "export"

\* A program that is not running has no queue.
DownInv == pc \in Down => kq = <<>> /\ hand = None /\ chan = <<>>

LastWord ==
  Daemon /\ pc \notin Down =>
    \A f \in Files : src[f] \in Xmp /\ f \notin dropped => LastWordCreates(f) /\ ReadIsFresh(f)

\* Why, third: what is not mirrored has somebody who will see to it.
Kept(f) == Settled(f) \/ Pending(f) \/ InLoop(f) \/ InScan(f)

KeptInv ==
  Daemon /\ pc \notin Down => \A f \in Files : src[f] \in Xmp /\ f \notin dropped => Kept(f)

\* Nothing is left to do and nothing will happen until the user acts.
Idle == pc = "next" /\ chan = <<>> /\ kq = <<>> /\ hand = None

\* README: the tree contains up-to-date exports.  When the daemon idles, the
\* preview of every sidecar that is there shows what the sidecar says, except
\* of those that lost an event to a full queue and the two cases of Settled.
UpToDate ==
  Daemon /\ Idle => \A f \in Files \ dropped : src[f] \in Xmp => Settled(f)

\* The same without these cases, as README.md says it: "creates and maintains
\* file tree containing up-to-date jpeg exports of those raw files that are
\* rated".
AllUpToDate ==
  Daemon /\ Idle => \A f \in Files \ dropped : src[f] \in Xmp => Mirrored(f)

\* watcher.rs: when events are dropped, "we clear all the events in it's
\* queue and do a full rescan".  When the program idles and the flag asks for
\* no rescan, the sidecars that lost an event are mirrored like the others.
OverflowHealed ==
  Idle /\ ~overflown => \A f \in dropped : src[f] \in Xmp => Mirrored(f)

\* The same doc: the program does not idle while the flag asks for a rescan.
OverflowSeen == Idle => ~overflown

\* README: ... of those raw files that are rated.  When the program idles
\* there is no preview of a sidecar that does not exist.
NoOrphans == Idle => \A f \in Files : src[f] = Absent => preview[f] = None

\* What a finished scan leaves behind, whatever was there before and however
\* the files changed meanwhile: previews of exactly the sidecars it read as
\* rated.  (scan.rs: remove_stale next to create_update_or_clean.)
ScanIsExact ==
  [][ ScanDone => \A f \in (Raw \cup Jpg) \ strayed :
        (preview[f] # None) = (read[f] \in Xmp /\ read[f].rated) ]_vars

\* A sidecar that nobody changed while the scan was running is mirrored when
\* the scan is done, whatever the database said before; with the two
\* exceptions of Settled.
\* (scan/preview.rs: create_update_or_clean.)
ScanMirrors ==
  [][ ScanDone => \A f \in Files : src[f] \in Xmp /\ read[f] = src[f] => Settled(f) ]_vars

\* A clean stop is the only stop: no error ever leaves the main loop.
NeverFails == pc # "failed"

\* Every saved sidecar is mirrored sooner or later, unless it changes again,
\* the program stops, or an event of it was refused by a full queue; with
\* the two exceptions of Settled.
EventuallyMirrored ==
  \A f \in Files : \A x \in Xmp :
    (src[f] = x /\ pc \notin Down) ~>
      (src[f] # x \/ Settled(f) \/ pc \in Down \/ f \in dropped)

=============================================================================

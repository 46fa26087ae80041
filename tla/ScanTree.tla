------------------------------ MODULE ScanTree ------------------------------
(***************************************************************************)
(* The scan of the directory tree (scan.rs), the main loop around it       *)
(* (lib.rs), and what handle_event (watcher.rs) does to directories.       *)
(*                                                                         *)
(* A scan is a task per source directory, all running together.  A task    *)
(* lists its source directory, creates its target directory and whatever   *)
(* is missing above it, lists that, starts a task for each subdirectory,   *)
(* sees to its own sidecars and previews, removes its target directory     *)
(* when its count says that it is empty, and then joins its children.      *)
(* Each call of the file system is a step, so that parents and children    *)
(* get at each other's directories in any order.                           *)
(*                                                                         *)
(* Left to other modules: half written sidecars and the order of events    *)
(* (Mirror), the two steps of an export (Mirror, DarktableHomes), and the  *)
(* waiting inside ParsedXmps.  Edits are not told apart here: whether an   *)
(* existing preview is up to date is open.  Open files are the directories *)
(* a task reads and the sidecars being read; those of copies, of           *)
(* darktable-cli and of the database are left out.                         *)
(***************************************************************************)
EXTENDS Integers, Sequences, FiniteSets

CONSTANTS
  Dirs, Base,   \* directories, the same names in source and target
  Parent,       \* Parent[d]: the directory d is in, for d other than Base
  Under,        \* Under[d]: d and the directories below it
  Raw, Jpg, Odd,\* sidecars by what becomes of them, see Mirror
  In,           \* In[p]: the directory sidecar p and its preview are in
  Permits,      \* of the semaphore file_limit
  Handles,      \* directories and sidecars the process can have open at a time
  Env,          \* what happens around the program in this instance
  MaxOps,       \* bound: operations of the user
  MaxScans,     \* bound: scans after the first
  None

Photos == Raw \cup Jpg \cup Odd
EnvAll == {"rate", "replace", "removeTree", "makeDir", "exportFails", "overflow", "crash"}

ASSUME TreeAssumption ==
  /\ Base \in Dirs
  /\ Parent \in [Dirs \ {Base} -> Dirs]
  /\ Under \in [Dirs -> SUBSET Dirs] /\ Under[Base] = Dirs
  /\ \A d \in Dirs : d \in Under[d]
  /\ \A d \in Dirs, c \in Dirs \ {Base} : c \in Under[d] <=> c = d \/ Parent[c] \in Under[d]
  /\ \A d \in Dirs \ {Base} : Parent[d] # d /\ Base \notin Under[d]
  /\ \A d \in Dirs : \A x \in Under[d] : Under[x] \subseteq Under[d]
  /\ \A d \in Dirs : \A x \in Under[d] \ {d} : \E c \in Dirs \ {Base} : Parent[c] = d /\ x \in Under[c]
ASSUME PhotosAssumption ==
  /\ Raw \cap Jpg = {} /\ Raw \cap Odd = {} /\ Jpg \cap Odd = {}
  /\ IsFiniteSet(Photos) /\ Photos \cap Dirs = {} /\ In \in [Photos -> Dirs]
ASSUME NoneAssumption == None \notin {"unread", "absent", "unrated", "rated"}
ASSUME BoundsAssumption ==
  /\ Permits \in Nat \ {0} /\ Handles \in Nat /\ MaxOps \in Nat /\ MaxScans \in Nat
  /\ Env \subseteq EnvAll

VARIABLES
  srcDirs,   \* source directories that exist
  src,       \* src[p]: "absent", "unrated" or "rated"
  tgt,       \* target directories that exist
  owned,     \* those of them that belong to the user darktable runs as
  previews,  \* sidecars whose preview exists
  task,      \* task[d]: where the scan of d is
  permit,    \* who holds a permit of file_limit: a task, for a directory, or
             \* the reading of a sidecar
  found,     \* found[d]: subdirectories listed and not yet started
  at,        \* at[d]: the directory create_dir_all tries next
  missing,   \* missing[d]: the directories it has still to create
  read,      \* read[p]: None, not listed; "unread"; or what was read
  jobs,      \* sidecars whose create_update_or_clean_one is not done
  stale,     \* previews remove_stale is not done with
  count,     \* count[d]: previews.len() and the changes so far
  pc, why,   \* where the main loop is, and the error that ended it
  ev, chan,  \* the event in hand, and those that wait
  quiet,     \* has the user left the source alone since the scan began?
             \* (history variable)
  ops, scans

envVars  == <<srcDirs, src, quiet, ops>>
treeVars == <<tgt, owned, previews>>
fileVars == <<read, jobs, stale, count>>
makeVars == <<at, missing>>
mainVars == <<pc, why, ev, scans>>
vars == <<srcDirs, src, quiet, ops, tgt, owned, previews, task, permit, found, at, missing,
          read, jobs, stale, count, pc, why, ev, scans, chan>>

-----------------------------------------------------------------------------
(* Values                                                                  *)

\* Why a task or the program ended.  "noHandle": no file handle was left;
\* "noTarget": a target directory was not there; "vanished": a source directory
\* or a sidecar was gone; "gone": the preview to remove was gone;
\* "denied": the target directory belongs to somebody else.
Errors == {"noHandle", "noTarget", "vanished", "gone", "export", "denied", "shared", "crash"}

Alive == {"source", "stat", "mkdir", "isdir", "fill", "target", "work", "remove", "join"}

Ended == {"ok"} \cup Errors

ChildrenOf(d) == {c \in Dirs \ {Base} : Parent[c] = d}
InDir(d)      == {p \in Photos : In[p] = d}

\* PreviewFile::try_from: a listing recognises previews by the extension jpg.
Recognised == Raw \cup Jpg

Event == [photo : Photos, kind : {"made", "gone"}]

\* Both directory streams of a task are open until its function returns.
SourceOpen == Alive \ {"source"}
TargetOpen == {"work", "remove", "join"}
OpenStreams == Cardinality({d \in Dirs : task[d] \in SourceOpen})
               + Cardinality({d \in Dirs : task[d] \in TargetOpen})

\* A permit is held while a directory is opened or a sidecar is read, not while
\* the directory is open.
HasPermit(x) == x \in permit

\* Mutant: a permit is kept until the task returns.
Keeps(x) == UNCHANGED permit

Releases(x) == permit' = permit \ {x}

Goes(d, where) == task' = [task EXCEPT ![d] = where]

NoTasks == [d \in Dirs |-> "none"]
NoJobs  == /\ read' = [p \in Photos |-> None] /\ jobs' = {} /\ stale' = {}
           /\ count' = [d \in Dirs |-> 0]
           /\ found' = [d \in Dirs |-> {}] /\ missing' = [d \in Dirs |-> {}]
           /\ at' = [d \in Dirs |-> d] /\ permit' = {}

\* With a directory all those above it exist.
ClosedUp(S) == \A d \in Dirs : Under[d] \cap S # {} => d \in S

Init ==
  /\ srcDirs \in {S \in SUBSET Dirs : Base \in S /\ ClosedUp(S)}
  /\ src \in [Photos -> {"absent", "unrated", "rated"}]
  /\ \A p \in Photos : src[p] # "absent" => In[p] \in srcDirs
  /\ tgt \in {S \in SUBSET Dirs : Base \in S /\ ClosedUp(S)}
  /\ owned = tgt
  /\ previews \in SUBSET {p \in Photos : In[p] \in tgt}
  /\ task = [d \in Dirs |-> IF d = Base THEN "source" ELSE "none"]
  /\ permit = {} /\ found = [d \in Dirs |-> {}]
  /\ at = [d \in Dirs |-> d] /\ missing = [d \in Dirs |-> {}]
  /\ read = [p \in Photos |-> None] /\ jobs = {} /\ stale = {} /\ count = [d \in Dirs |-> 0]
  /\ pc = "scan" /\ why = None /\ ev = None /\ chan = <<>>
  /\ quiet = TRUE /\ ops = 0 /\ scans = 0

-----------------------------------------------------------------------------
(* The user.  Events are queued while the daemon runs; those of files that *)
(* are gone when the watcher looks are not forwarded (see Mirror).         *)

Operation(kind) ==
  /\ kind \in Env /\ ops < MaxOps
  /\ ops' = ops + 1 /\ quiet' = FALSE
  /\ UNCHANGED <<treeVars, task, permit, found, makeVars, fileVars, mainVars>>

Queue(es) == chan' = IF pc = "failed" THEN chan ELSE chan \o es

\* A sidecar is written, with or without a rating.
Rate(p, rating) ==
  /\ Operation("rate")
  /\ In[p] \in srcDirs /\ src[p] # rating
  /\ src' = [src EXCEPT ![p] = rating]
  /\ Queue(<<[photo |-> p, kind |-> "made"]>>)
  /\ UNCHANGED srcDirs

\* A sidecar is deleted and written anew before the watcher looks.
Replace(p, rating) ==
  /\ Operation("replace")
  /\ src[p] # "absent"
  /\ src' = [src EXCEPT ![p] = rating]
  /\ Queue(<<[photo |-> p, kind |-> "gone"], [photo |-> p, kind |-> "made"]>>)
  /\ UNCHANGED srcDirs

RemoveTree(d) ==
  /\ Operation("removeTree")
  /\ d \in srcDirs \ {Base}
  /\ srcDirs' = srcDirs \ Under[d]
  /\ src' = [p \in Photos |-> IF In[p] \in Under[d] THEN "absent" ELSE src[p]]
  /\ UNCHANGED chan

MakeDir(d) ==
  /\ Operation("makeDir")
  /\ d \in Dirs \ srcDirs /\ Parent[d] \in srcDirs
  /\ srcDirs' = srcDirs \cup {d}
  /\ UNCHANGED <<src, chan>>

User ==
  \/ \E p \in Photos, r \in {"unrated", "rated"} : Rate(p, r) \/ Replace(p, r)
  \/ \E d \in Dirs \ {Base} : RemoveTree(d) \/ MakeDir(d)

-----------------------------------------------------------------------------
(* A task ends with an error.  Its futures are dropped, the tasks of its   *)
(* subdirectories go on, detached.                                         *)

Fails(d, error) ==
  /\ Goes(d, error) /\ permit' = permit \ ({d} \cup InDir(d))
  /\ jobs' = jobs \ InDir(d) /\ stale' = stale \ InDir(d)
  /\ read' = [p \in Photos |-> IF In[p] = d THEN None ELSE read[p]]
  /\ UNCHANGED <<envVars, treeVars, found, makeVars, count, mainVars, chan>>

-----------------------------------------------------------------------------
(* Opening a file, with a permit.  A sidecar whose reading has a permit is *)
(* open for a part of that time, a directory until its task returns.       *)

MayAcquire(x) == ~HasPermit(x) /\ Cardinality(permit) < Permits

Acquire(d) ==
  /\ task[d] \in {"source", "target"} /\ MayAcquire(d)
  /\ permit' = permit \cup {d}
  /\ UNCHANGED <<envVars, treeVars, task, found, makeVars, fileVars, mainVars, chan>>

CanOpen    == OpenStreams < Handles
Crowded(x) == OpenStreams + Cardinality((permit \cap Photos) \ {x}) >= Handles

\* What can come of opening a file for x.
Outcomes(x, there, error) ==
  (IF Crowded(x) THEN {"noHandle"} ELSE {})
  \cup (IF CanOpen THEN {IF there THEN "ok" ELSE error} ELSE {})

-----------------------------------------------------------------------------
(* Listing the source.                                                     *)

ListsSource(d) ==
  /\ found' = [found EXCEPT ![d] = ChildrenOf(d) \cap srcDirs]
  /\ read' = [p \in Photos |-> IF In[p] = d /\ src[p] # "absent" THEN "unread" ELSE read[p]]
  /\ Goes(d, "stat") /\ Releases(d)
  /\ UNCHANGED <<envVars, treeVars, makeVars, jobs, stale, count, mainVars, chan>>

ListSource(d) ==
  /\ task[d] = "source" /\ HasPermit(d)
  /\ \E outcome \in Outcomes(d, d \in srcDirs, "vanished") :
       IF outcome = "ok" THEN ListsSource(d) ELSE Fails(d, outcome)

\* The metadata of every entry is asked for: it has to be there still.
EntriesThere(d) ==
  found[d] \subseteq srcDirs /\ \A p \in InDir(d) : read[p] = "unread" => src[p] # "absent"

Stat(d) ==
  /\ task[d] = "stat" /\ EntriesThere(d)
  /\ Goes(d, "mkdir")
  /\ UNCHANGED <<envVars, treeVars, permit, found, makeVars, fileVars, mainVars, chan>>

StatFails(d) == task[d] = "stat" /\ ~EntriesThere(d) /\ Fails(d, "vanished")

-----------------------------------------------------------------------------
(* create_dir_all tries the directory, then the one above it and so on up  *)
(* to one that is there or can be created, and comes down again.  That a   *)
(* directory exists but is none when looked at is an AlreadyExists, which  *)
(* the scan ignores.                                                       *)

MkdirExists(d) ==
  /\ task[d] = "mkdir" /\ at[d] \in tgt
  /\ Goes(d, "isdir")
  /\ UNCHANGED <<envVars, treeVars, permit, found, makeVars, fileVars, mainVars, chan>>

\* Mutant: a directory is created without the one it is in.
MkdirCreatesBelow(d) ==
  /\ task[d] = "mkdir" /\ at[d] \notin tgt
  /\ tgt' = tgt \cup {at[d]}
  /\ Goes(d, "fill")
  /\ UNCHANGED <<envVars, owned, previews, permit, found, makeVars, fileVars, mainVars, chan>>

MkdirCreates(d) ==
  /\ task[d] = "mkdir" /\ at[d] \notin tgt /\ Parent[at[d]] \in tgt
  /\ tgt' = tgt \cup {at[d]}
  /\ Goes(d, "fill")
  /\ UNCHANGED <<envVars, owned, previews, permit, found, makeVars, fileVars, mainVars, chan>>

MkdirClimbs(d) ==
  /\ task[d] = "mkdir" /\ at[d] \notin tgt /\ Parent[at[d]] \notin tgt
  /\ missing' = [missing EXCEPT ![d] = @ \cup {at[d]}]
  /\ at' = [at EXCEPT ![d] = Parent[at[d]]]
  /\ UNCHANGED <<envVars, treeVars, task, permit, found, fileVars, mainVars, chan>>

IsDir(d) ==
  /\ task[d] = "isdir"
  /\ missing' = [missing EXCEPT ![d] = IF at[d] \in tgt THEN @ ELSE {}]
  /\ Goes(d, "fill")
  /\ UNCHANGED <<envVars, treeVars, permit, found, at, fileVars, mainVars, chan>>

Topmost(d) == {x \in missing[d] : Parent[x] \notin missing[d]}

Fill(d) ==
  /\ task[d] = "fill"
  /\ \E x \in Topmost(d) :
       IF {x, Parent[x]} \cap tgt # {}
         THEN /\ tgt' = tgt \cup {x}
              /\ missing' = [missing EXCEPT ![d] = @ \ {x}]
              /\ UNCHANGED <<envVars, owned, previews, task, permit, found, at, fileVars, mainVars, chan>>
         ELSE Fails(d, "noTarget")

\* take_ownership of the directory itself, not of those created above it.
Own(d) ==
  /\ task[d] = "fill" /\ missing[d] = {}
  /\ IF d \in tgt
       THEN /\ owned' = owned \cup {d}
            /\ at' = [at EXCEPT ![d] = d]
            /\ Goes(d, "target")
            /\ UNCHANGED <<envVars, tgt, previews, permit, found, missing, fileVars, mainVars, chan>>
       ELSE Fails(d, "noTarget")

Create(d) ==
  MkdirExists(d) \/ MkdirCreates(d) \/ MkdirClimbs(d) \/ IsDir(d) \/ Fill(d) \/ Own(d)

-----------------------------------------------------------------------------
(* The target is listed, and the tasks of the subdirectories are spawned.  *)

Seen(d) == previews \cap InDir(d) \cap Recognised

Lists(d) ==
  /\ stale' = stale \cup Seen(d)
  /\ count' = [count EXCEPT ![d] = Cardinality(Seen(d))]
  /\ jobs' = jobs \cup {p \in InDir(d) : read[p] = "unread"}
  /\ task' = [c \in Dirs |-> IF c = d THEN "work" ELSE IF c \in found[d] THEN "source" ELSE task[c]]
  /\ found' = [found EXCEPT ![d] = {}]
  /\ Releases(d)
  /\ UNCHANGED <<envVars, treeVars, makeVars, read, mainVars, chan>>

ListTarget(d) ==
  /\ task[d] = "target" /\ HasPermit(d)
  /\ \E outcome \in Outcomes(d, d \in tgt, "noTarget") :
       IF outcome = "ok" THEN Lists(d) ELSE Fails(d, outcome)

-----------------------------------------------------------------------------
(* remove_stale and create_update_or_clean, as futures of one try_join.    *)

Works(p) == task[In[p]] = "work"

\* cached_or_parse_from: once for both futures.
AcquireFile(p) ==
  /\ Works(p) /\ read[p] = "unread" /\ MayAcquire(p)
  /\ permit' = permit \cup {p}
  /\ UNCHANGED <<envVars, treeVars, task, found, makeVars, fileVars, mainVars, chan>>

Reads(p) ==
  /\ read' = [read EXCEPT ![p] = src[p]]
  /\ Releases(p)
  /\ UNCHANGED <<envVars, treeVars, task, found, makeVars, jobs, stale, count, mainVars, chan>>

Read(p) ==
  /\ Works(p) /\ read[p] = "unread" /\ HasPermit(p)
  /\ \E outcome \in Outcomes(p, TRUE, "vanished") :
       IF outcome = "ok" THEN Reads(p) ELSE Fails(In[p], outcome)

StaleKeeps(p) ==
  /\ Works(p) /\ p \in stale /\ read[p] = "rated"
  /\ stale' = stale \ {p}
  /\ UNCHANGED <<envVars, treeVars, task, permit, found, makeVars, read, jobs, count, mainVars, chan>>

StaleRemoves(p) ==
  /\ Works(p) /\ p \in stale /\ read[p] \in {None, "absent", "unrated"}
  /\ p \in previews
  /\ previews' = previews \ {p}
  /\ stale' = stale \ {p}
  /\ UNCHANGED <<envVars, tgt, owned, task, permit, found, makeVars, read, jobs, count, mainVars, chan>>

StaleFails(p) ==
  /\ Works(p) /\ p \in stale /\ read[p] \in {None, "absent", "unrated"}
  /\ p \notin previews
  /\ Fails(In[p], "gone")

\* What one job adds to the count of its directory.
Done(p, change) ==
  /\ jobs' = jobs \ {p}
  /\ count' = [count EXCEPT ![In[p]] = @ + change]
  /\ UNCHANGED <<envVars, tgt, owned, task, permit, found, makeVars, read, stale, mainVars, chan>>

JobCleans(p) ==
  /\ Works(p) /\ p \in jobs /\ read[p] = "unrated"
  /\ previews' = previews \ {p}
  /\ Done(p, IF p \in previews THEN -1 ELSE 0)

\* Mutant: only what is removed is counted.
JobExportsUncounted(p) ==
  /\ Works(p) /\ p \in jobs /\ read[p] = "rated"
  /\ previews' = previews \cup {p}
  /\ Done(p, 0)

JobExports(p) ==
  /\ Works(p) /\ p \in jobs /\ read[p] = "rated"
  /\ IF In[p] \in tgt
       THEN previews' = previews \cup {p} /\ Done(p, 1)
       ELSE Fails(In[p], "noTarget")

\* Mutant: what the database says is believed of a preview that was deleted.
JobSkipsUnseen(p) ==
  /\ Works(p) /\ p \in jobs /\ read[p] = "rated"
  /\ UNCHANGED previews
  /\ Done(p, 0)

\* The preview exists and shows the edits of the sidecar.
JobSkips(p) ==
  /\ Works(p) /\ p \in jobs /\ read[p] = "rated"
  /\ p \in previews
  /\ UNCHANGED previews
  /\ Done(p, 0)

JobFails(p) ==
  /\ Works(p) /\ p \in jobs
  /\ \/ read[p] = "absent" /\ Fails(In[p], "vanished")
     \/ read[p] = "rated" /\ "exportFails" \in Env /\ Fails(In[p], "export")

Photo(p) ==
  \/ AcquireFile(p) \/ Read(p) \/ StaleKeeps(p) \/ StaleRemoves(p) \/ StaleFails(p)
  \/ JobCleans(p) \/ JobExports(p) \/ JobSkips(p) \/ JobFails(p)

-----------------------------------------------------------------------------
(* The end of a task.                                                      *)

WorkDone(d) ==
  /\ task[d] = "work" /\ InDir(d) \cap (jobs \cup stale) = {}
  /\ Goes(d, IF count[d] = 0 /\ d # Base THEN "remove" ELSE "join")
  /\ read' = [p \in Photos |-> IF In[p] = d THEN None ELSE read[p]]
  /\ UNCHANGED <<envVars, treeVars, permit, found, makeVars, jobs, stale, count, mainVars, chan>>

IsEmpty(d) == InDir(d) \cap previews = {} /\ ChildrenOf(d) \cap tgt = {}

\* Mutant: remove_dir_all.
RemoveAll(d) ==
  /\ task[d] = "remove"
  /\ tgt' = tgt \ Under[d]
  /\ owned' = owned \ Under[d]
  /\ previews' = {p \in previews : In[p] \notin Under[d]}
  /\ Goes(d, "join")
  /\ UNCHANGED <<envVars, permit, found, makeVars, fileVars, mainVars, chan>>

\* remove_dir; that the directory is not empty after all is ignored.
Remove(d) ==
  /\ task[d] = "remove"
  /\ IF d \in tgt
       THEN /\ tgt' = IF IsEmpty(d) THEN tgt \ {d} ELSE tgt
            /\ owned' = IF IsEmpty(d) THEN owned \ {d} ELSE owned
            /\ Goes(d, "join")
            /\ UNCHANGED <<envVars, previews, permit, found, makeVars, fileVars, mainVars, chan>>
       ELSE Fails(d, "noTarget")

\* Mutant: the tasks of the subdirectories are not waited for.
NotJoined(d) ==
  /\ task[d] = "join"
  /\ Goes(d, "ok")
  /\ UNCHANGED <<envVars, treeVars, permit, found, makeVars, fileVars, mainVars, chan>>

Join(d) ==
  /\ task[d] = "join"
  /\ \A c \in ChildrenOf(d) : task[c] \in {"none", "ok"}
  /\ Goes(d, "ok")
  /\ UNCHANGED <<envVars, treeVars, permit, found, makeVars, fileVars, mainVars, chan>>

\* The first error is returned; the other subdirectories are not waited for.
JoinFails(d) ==
  /\ task[d] = "join"
  /\ \E c \in ChildrenOf(d) : task[c] \in Errors /\ Fails(d, task[c])

Scan(d) ==
  \/ Acquire(d)
  \/ ListSource(d) \/ Stat(d) \/ StatFails(d)
  \/ Create(d)
  \/ ListTarget(d)
  \/ WorkDone(d) \/ Remove(d)
  \/ Join(d) \/ JoinFails(d)

-----------------------------------------------------------------------------
(* The main loop.                                                          *)

\* The program ends, and its tasks with it.
Exits(error) ==
  /\ pc' = "failed" /\ why' = error /\ ev' = None /\ chan' = <<>>
  /\ task' = NoTasks /\ NoJobs
  /\ UNCHANGED <<envVars, scans>>

Begins ==
  /\ task' = [NoTasks EXCEPT ![Base] = "source"]
  /\ pc' = "scan" /\ why' = None /\ ev' = None /\ chan' = <<>>
  /\ quiet' = TRUE
  /\ scans' = scans + 1
  /\ NoJobs
  /\ UNCHANGED <<srcDirs, src, ops, treeVars>>

ScanOk ==
  /\ pc = "scan" /\ task[Base] = "ok"
  /\ pc' = "store"
  /\ UNCHANGED <<envVars, treeVars, task, permit, found, makeVars, fileVars, why, ev, scans, chan>>

ScanFails ==
  /\ pc = "scan" /\ task[Base] \in Errors
  /\ Exits(task[Base]) /\ UNCHANGED treeVars

\* store_to_disk: the tasks of a scan hold clones of the database, and
\* Arc::get_mut returns nothing as long as one of them does.
Holders == {d \in Dirs : task[d] \in Alive}

Store ==
  /\ pc = "store"
  /\ IF Holders = {}
       THEN /\ pc' = "idle" /\ ev' = None
            /\ task' = NoTasks /\ NoJobs
            /\ UNCHANGED <<envVars, why, scans, chan>>
       ELSE Exits("shared")
  /\ UNCHANGED treeVars

TakeEvent ==
  /\ pc = "idle" /\ chan # <<>>
  /\ ev' = Head(chan) /\ chan' = Tail(chan)
  /\ pc' = "handle"
  /\ UNCHANGED <<envVars, treeVars, task, permit, found, makeVars, fileVars, why, scans>>

\* An overflow of the watcher, seen when an event is received.
Rescan ==
  /\ pc = "idle" /\ chan # <<>> /\ "overflow" \in Env /\ scans < MaxScans
  /\ Begins

Crash ==
  /\ "crash" \in Env /\ pc # "failed" /\ scans < MaxScans
  /\ Exits("crash") /\ UNCHANGED treeVars

Restart ==
  /\ pc = "failed" /\ scans < MaxScans
  /\ Begins

-----------------------------------------------------------------------------
(* handle_event: it creates no directories.                                *)

HandleSkips ==
  /\ pc = "handle"
  /\ \/ src[ev.photo] = "absent"
     \/ ev.kind = "made" /\ src[ev.photo] = "unrated" /\ ev.photo \notin previews
     \/ ev.kind = "made" /\ src[ev.photo] = "rated" /\ ev.photo \in previews
  /\ pc' = "store"
  /\ UNCHANGED <<envVars, treeVars, task, permit, found, makeVars, fileVars, why, ev, scans, chan>>

\* clean_up goes by preview_path, which always ends in jpg.
HandleCleans ==
  /\ pc = "handle" /\ ev.kind = "gone" /\ src[ev.photo] # "absent"
  /\ previews' = previews \ ({ev.photo} \cap Recognised)
  /\ pc' = "emptied"
  /\ UNCHANGED <<envVars, tgt, owned, task, permit, found, makeVars, fileVars, why, ev, scans, chan>>

HandleUnrates ==
  /\ pc = "handle" /\ ev.kind = "made" /\ src[ev.photo] = "unrated" /\ ev.photo \in previews
  /\ previews' = previews \ {ev.photo}
  /\ pc' = "emptied"
  /\ UNCHANGED <<envVars, tgt, owned, task, permit, found, makeVars, fileVars, why, ev, scans, chan>>

Exporting == pc = "handle" /\ ev.kind = "made" /\ src[ev.photo] = "rated"

HandleCopies ==
  /\ Exporting /\ ev.photo \notin Raw /\ In[ev.photo] \in tgt
  /\ previews' = previews \cup {ev.photo}
  /\ pc' = "store"
  /\ UNCHANGED <<envVars, tgt, owned, task, permit, found, makeVars, fileVars, why, ev, scans, chan>>

\* darktable-cli runs as its own user, and creates the directories of its
\* output file; asses_file_state lets it, and looks at their owner before.
Above(d)   == {x \in Dirs : d \in Under[x]}
Deepest(d) == CHOOSE x \in Above(d) \cap tgt : \A y \in Above(d) \cap tgt : x \in Under[y]

HandleExports ==
  /\ Exporting /\ ev.photo \in Raw /\ Deepest(In[ev.photo]) \in owned
  /\ tgt' = tgt \cup Above(In[ev.photo])
  /\ owned' = owned \cup (Above(In[ev.photo]) \ tgt)
  /\ previews' = previews \cup {ev.photo}
  /\ pc' = "store"
  /\ UNCHANGED <<envVars, task, permit, found, makeVars, fileVars, why, ev, scans, chan>>

\* tokio::fs::copy finds no directory, darktable-cli is not allowed in, or
\* either fails.
HandleFails ==
  /\ Exporting
  /\ \/ "exportFails" \in Env /\ Exits("export")
     \/ ev.photo \notin Raw /\ In[ev.photo] \notin tgt /\ Exits("noTarget")
     \/ ev.photo \in Raw /\ Deepest(In[ev.photo]) \notin owned /\ Exits("denied")
  /\ UNCHANGED treeVars

\* no_previews_in lists the directory, which has to be there.
Emptied ==
  /\ pc = "emptied" /\ In[ev.photo] \in tgt
  /\ LET d == In[ev.photo]
         gone == d # Base /\ IsEmpty(d)
     IN /\ tgt' = IF gone THEN tgt \ {d} ELSE tgt
        /\ owned' = IF gone THEN owned \ {d} ELSE owned
  /\ pc' = "store"
  /\ UNCHANGED <<envVars, previews, task, permit, found, makeVars, fileVars, why, ev, scans, chan>>

EmptiedFails ==
  /\ pc = "emptied" /\ In[ev.photo] \notin tgt
  /\ Exits("noTarget") /\ UNCHANGED treeVars

Main ==
  \/ ScanOk \/ ScanFails \/ Store \/ TakeEvent
  \/ HandleSkips \/ HandleCleans \/ HandleUnrates \/ HandleCopies \/ HandleExports
  \/ HandleFails \/ Emptied \/ EmptiedFails

Next ==
  \/ User
  \/ \E d \in Dirs : Scan(d)
  \/ \E p \in Photos : Photo(p)
  \/ Main
  \/ Rescan \/ Crash \/ Restart

Spec == Init /\ [][Next]_vars

\* The executor polls every task that can go on.
FairSpec ==
  /\ Spec
  /\ \A d \in Dirs : WF_vars(Scan(d))
  /\ \A p \in Photos : WF_vars(Photo(p))
  /\ WF_vars(Main)

-----------------------------------------------------------------------------
(* Properties                                                              *)

TreeType ==
  /\ srcDirs \subseteq Dirs /\ Base \in srcDirs /\ ClosedUp(srcDirs)
  /\ tgt \subseteq Dirs /\ Base \in tgt /\ ClosedUp(tgt)
  /\ owned \subseteq tgt
  /\ src \in [Photos -> {"absent", "unrated", "rated"}]
  /\ \A p \in Photos : src[p] # "absent" => In[p] \in srcDirs
  /\ previews \subseteq Photos /\ \A p \in previews : In[p] \in tgt

TaskType ==
  /\ task \in [Dirs -> {"none"} \cup Alive \cup Ended]
  /\ permit \subseteq Dirs \cup Photos
  /\ found \in [Dirs -> SUBSET Dirs] /\ missing \in [Dirs -> SUBSET Dirs]
  /\ at \in [Dirs -> Dirs]
  /\ read \in [Photos -> {None, "unread", "absent", "unrated", "rated"}]
  /\ jobs \subseteq Photos /\ stale \subseteq Photos
  /\ count \in [Dirs -> Int]

MainType ==
  /\ pc \in {"scan", "store", "idle", "handle", "emptied", "failed"}
  /\ why \in Errors \cup {None}
  /\ ev \in Event \cup {None} /\ chan \in Seq(Event)
  /\ pc \in {"handle", "emptied"} => ev \in Event
  /\ quiet \in BOOLEAN /\ ops \in 0 .. MaxOps /\ scans \in 0 .. MaxScans

\* Types; directories and previews are in directories that exist.
TypeOK == TreeType /\ TaskType /\ MainType

\* As long as the main loop does not scan, no task of a scan is left that
\* could touch the target tree or holds a clone of the database, whatever
\* subdirectories there are and in whatever order they were done.
\* (database.rs, store_to_disk: "Can only be called when nothing else holds
\* a lock to the map anymore"; lib.rs handles events right after.)
NobodyLeft == pc # "scan" => Holders = {}

\* The tasks of parents and children create and remove each other's
\* directories, and never to the loss of one another: no task finds its
\* target directory missing, or fails to create one.  (scan.rs: create_dir_all
\* before, remove_dir after the subdirectories are started.)
TargetsStay == \A d \in Dirs : task[d] # "noTarget"

\* A directory is taken for empty, to be removed and signalled to Immich,
\* when it has no previews, though the count starts from a list made before
\* any were removed.  With Odd previews it is false.  (scan.rs: "previews.len()
\* as isize + changes".)
CountIsRight ==
  Odd = {} => \A d \in Dirs : task[d] = "remove" => InDir(d) \cap previews = {}

\* When a scan is done during which the user did nothing, the whole tree is
\* mirrored: every rated photo has its preview, in a directory darktable may
\* write to, and no other sidecar has one that a listing can tell.
\* (README: "creates and maintains file tree".)
TreeMirrored ==
  pc = "scan" /\ task[Base] = "ok" /\ quiet =>
    \A p \in Photos : In[p] \in srcDirs =>
      /\ src[p] = "rated" => p \in previews /\ In[p] \in owned
      /\ p \in previews /\ p \in Recognised => src[p] = "rated"

\* A scan ends: no task waits for ever for a permit or for a child.
ScanEnds == pc = "scan" ~> pc # "scan"

\* fs.rs: "Limit concurrent fs access so we do not exceed the open file handle
\* limit".  No task finds that no file can be opened any more.
HandlesSuffice == \A d \in Dirs : task[d] # "noHandle"

\* README: the group of the user darktable runs as "has read access to raws and
\* read+write to jpgs".  Handling an event never ends the program because that
\* user may not write to a directory the program has made.
HandlerAllowed == ~(pc = "failed" /\ why = "denied")

\* README: "creates and maintains file tree".  Handling an event never ends
\* the program for want of a target directory.
HandlerFindsTarget == ~(pc = "failed" /\ why = "noTarget")

=============================================================================

--------------------------- MODULE ScanTreeProofs ---------------------------
(***************************************************************************)
(* Theorems about ScanTree, for any tree of directories, any photos, and   *)
(* any number of permits and file handles.                                 *)
(***************************************************************************)
EXTENDS ScanTree, FiniteSetTheorems, TLAPS

\* The task of d removes nothing any more.
PastRemoval(d) == task[d] \in {"join"} \cup Ended

\* It has started the tasks of its subdirectories.
PastSpawn(d) == task[d] \in {"work", "remove", "join"} \cup Ended

Creating(d) == task[d] \in {"mkdir", "isdir", "fill"}

\* A task that succeeded leaves none below it that runs or failed; below one
\* that has not started none has.
JoinInv ==
  /\ \A d \in Dirs : task[d] = "ok" => \A x \in Under[d] : task[x] \in {"none", "ok"}
  /\ \A d \in Dirs : task[d] = "none" => \A x \in Under[d] : task[x] = "none"
  /\ pc # "scan" => \A d \in Dirs : task[d] \in {"none", "ok"}

\* Tasks are started by those of their parents.
SpawnInv ==
  /\ \A d \in Dirs : found[d] \subseteq ChildrenOf(d)
  /\ \A d \in Dirs \ {Base} : task[d] # "none" => PastSpawn(Parent[d])
  /\ task[Base] # "remove"

\* Where create_dir_all is for d.  A directory it has to create besides d is one
\* whose task will not remove it again, and so is the one above.
CreateAt(d) ==
  /\ task[d] \in {"none", "source", "stat"} => at[d] = d /\ missing[d] = {}
  /\ task[d] \in {"mkdir", "isdir"} =>
       /\ at[d] # d => PastRemoval(at[d])
       /\ d = at[d] \/ d \in missing[d]
       /\ \A x \in missing[d] : Parent[x] \in missing[d] \cup tgt \cup {at[d]}
  /\ task[d] = "isdir" => at[d] \in tgt
  /\ task[d] = "fill" =>
       /\ d \in tgt \/ d \in missing[d]
       /\ \A x \in missing[d] : Parent[x] \in missing[d] \cup tgt
  /\ Creating(d) => \A x \in missing[d] : x # Base /\ PastRemoval(Parent[x])

CreateInv == \A d \in Dirs : CreateAt(d)

\* A task that has listed its target directory finds it there until it removes it.
TargetInv ==
  \A d \in Dirs : task[d] \in {"target", "work", "remove"} => d \in tgt

TasksInv == JoinInv /\ SpawnInv /\ CreateInv /\ TargetInv /\ TargetsStay

Inv == TypeOK /\ TasksInv

\* The count of a directory is never below the number of its previews.
CountAt(d) ==
  /\ task[d] = "work" => count[d] >= Cardinality(previews \cap InDir(d))
  /\ task[d] = "remove" => InDir(d) \cap previews = {}

CountInv == Odd = {} => \A d \in Dirs : CountAt(d)

\* Files are worked on by tasks that have listed them.
WorkAt(d) ==
  \A p \in InDir(d) :
    /\ p \in jobs \cup stale => task[d] = "work"
    /\ task[d] \in {"none", "source"} => read[p] = None

WorkInv == \A d \in Dirs : WorkAt(d)

Listed == {"stat", "mkdir", "isdir", "fill", "target"}

Mirrored(p) ==
  /\ src[p] = "rated" => p \in previews /\ In[p] \in owned
  /\ p \in previews /\ p \in Recognised => src[p] = "rated"

\* How far the mirroring of p has come when the task of its directory works.
PhotoAt(p) ==
  /\ read[p] = IF src[p] = "absent" THEN None ELSE IF read[p] = "unread" THEN "unread" ELSE src[p]
  /\ read[p] = "unread" => p \in jobs
  /\ src[p] = "rated" /\ p \notin jobs => p \in previews
  /\ src[p] # "rated" /\ p \in previews /\ p \in Recognised => p \in jobs \cup stale

\* What is done in d as long as nothing changes in the source.
QuietAt(d) ==
  /\ task[d] \in Listed =>
       /\ found[d] = ChildrenOf(d) \cap srcDirs
       /\ \A p \in InDir(d) : read[p] = IF src[p] = "absent" THEN None ELSE "unread"
  /\ task[d] \in {"target", "work", "remove"} => d \in owned
  /\ task[d] = "work" => \A p \in InDir(d) : PhotoAt(p)
  /\ task[d] \in {"remove", "join", "ok"} => \A p \in InDir(d) : Mirrored(p)
  /\ task[d] \in {"work", "remove", "join", "ok"} =>
       \A c \in ChildrenOf(d) \cap srcDirs : task[c] # "none"
  /\ task[d] = "ok" => \A x \in Under[d] \cap srcDirs : task[x] = "ok"

QuietInv == quiet /\ pc = "scan" => \A d \in Dirs : QuietAt(d)

-----------------------------------------------------------------------------
(* Types                                                                   *)

\* Opening a file goes well only if it is there, and otherwise the task fails.
LEMMA OutcomesAre ==
  /\ \A d \in Dirs : ListSource(d) =>
       ListsSource(d) \/ Fails(d, "noHandle") \/ Fails(d, "vanished")
  /\ \A d \in Dirs : ListTarget(d) =>
       Lists(d) \/ Fails(d, "noHandle") \/ (d \notin tgt /\ Fails(d, "noTarget"))
  /\ \A p \in Photos : Read(p) => Reads(p) \/ Fails(In[p], "noHandle")
<1>1. ASSUME NEW d \in Dirs, ListSource(d)
      PROVE  ListsSource(d) \/ Fails(d, "noHandle") \/ Fails(d, "vanished")
  <2> PICK outcome \in {"ok", "noHandle", "vanished"} :
        IF outcome = "ok" THEN ListsSource(d) ELSE Fails(d, outcome)
    BY <1>1 DEF ListSource, Outcomes
  <2> QED
    OBVIOUS
<1>2. ASSUME NEW d \in Dirs, ListTarget(d)
      PROVE  Lists(d) \/ Fails(d, "noHandle") \/ (d \notin tgt /\ Fails(d, "noTarget"))
  <2> PICK outcome \in {"ok", "noHandle", "noTarget"} :
        /\ outcome = "noTarget" => d \notin tgt
        /\ IF outcome = "ok" THEN Lists(d) ELSE Fails(d, outcome)
    BY <1>2 DEF ListTarget, Outcomes
  <2> QED
    OBVIOUS
<1>3. ASSUME NEW p \in Photos, Read(p)
      PROVE  Reads(p) \/ Fails(In[p], "noHandle")
  <2> PICK outcome \in {"ok", "noHandle"} :
        IF outcome = "ok" THEN Reads(p) ELSE Fails(In[p], outcome)
    BY <1>3 DEF Read, Outcomes
  <2> QED
    OBVIOUS
<1> QED
  BY <1>1, <1>2, <1>3

LEMMA FailsTypes ==
  ASSUME TypeOK, NEW d \in Dirs, NEW error \in Errors, Fails(d, error)
  PROVE  TypeOK'
BY DEF Fails, Goes, TypeOK, TreeType, TaskType, MainType, Ended,
       envVars, treeVars, makeVars, mainVars

LEMMA SeenCounted ==
  ASSUME NEW d \in Dirs
  PROVE  IsFiniteSet(Seen(d)) /\ Cardinality(Seen(d)) \in Nat
<1>1. Seen(d) \subseteq Photos
  BY DEF Seen, InDir
<1> QED
  BY <1>1, PhotosAssumption, FS_Subset, FS_CardinalityType

LEMMA InitTypes == Init => TypeOK
<1> SUFFICES ASSUME Init PROVE TypeOK
  OBVIOUS
<1>1. TreeType
  BY TreeAssumption DEF Init, TreeType, ClosedUp
<1>2. TaskType
  BY TreeAssumption DEF Init, TaskType, Alive
<1>3. MainType
  BY BoundsAssumption DEF Init, MainType
<1> QED
  BY <1>1, <1>2, <1>3 DEF TypeOK

\* A directory is created in one that exists, and removed when none is in it.
LEMMA UpwardsClosed ==
  ASSUME NEW S \in SUBSET Dirs, ClosedUp(S), NEW d \in Dirs \ {Base}
  PROVE  /\ Parent[d] \in S => ClosedUp(S \cup {d})
         /\ ChildrenOf(d) \cap S = {} => ClosedUp(S \ {d})
<1>1. ASSUME Parent[d] \in S PROVE ClosedUp(S \cup {d})
  BY <1>1, TreeAssumption DEF ClosedUp
<1>2. ASSUME ChildrenOf(d) \cap S = {} PROVE ClosedUp(S \ {d})
  <2> SUFFICES ASSUME NEW e \in Dirs, NEW x \in Under[e] \cap S, x # d
               PROVE  e \in S \ {d}
    BY DEF ClosedUp
  <2>1. e \in S
    BY DEF ClosedUp
  <2>2. ASSUME e = d PROVE FALSE
    <3>1. PICK c \in Dirs \ {Base} : Parent[c] = d /\ x \in Under[c]
      BY <2>2, TreeAssumption
    <3>2. c \in S
      BY <3>1 DEF ClosedUp
    <3> QED
      BY <1>2, <3>1, <3>2 DEF ChildrenOf
  <2> QED
    BY <2>1, <2>2
<1> QED
  BY <1>1, <1>2

LEMMA QueueTypes ==
  ASSUME MainType, NEW es \in Seq(Event), Queue(es)
  PROVE  chan' \in Seq(Event)
BY DEF Queue, MainType

LEMMA UserTypes ==
  ASSUME TypeOK, User
  PROVE  TypeOK'
<1>1. TaskType'
  BY DEF User, Rate, Replace, RemoveTree, MakeDir, Operation, TypeOK, TaskType, makeVars, fileVars
<1>2. /\ ops' \in 0 .. MaxOps /\ quiet' = FALSE /\ UNCHANGED <<treeVars, mainVars>>
  <2>1. \E kind \in Env : Operation(kind)
    BY DEF User, Rate, Replace, RemoveTree, MakeDir, Operation
  <2>2. ops < MaxOps /\ ops' = ops + 1 /\ quiet' = FALSE /\ UNCHANGED <<treeVars, mainVars>>
    BY <2>1 DEF Operation
  <2> QED
    BY <2>2, BoundsAssumption DEF TypeOK, MainType
<1>3. chan' \in Seq(Event)
  <2>1. ASSUME NEW p \in Photos
        PROVE  /\ <<[photo |-> p, kind |-> "made"]>> \in Seq(Event)
               /\ <<[photo |-> p, kind |-> "gone"], [photo |-> p, kind |-> "made"]>> \in Seq(Event)
    BY DEF Event
  <2> QED
    BY <2>1, QueueTypes DEF User, Rate, Replace, RemoveTree, MakeDir, TypeOK, MainType
<1>4. MainType'
  BY <1>2, <1>3 DEF TypeOK, MainType, mainVars
<1>5. TreeType'
  <2>1. ASSUME NEW p \in Photos, NEW r \in {"unrated", "rated"}, Rate(p, r) \/ Replace(p, r)
        PROVE  TreeType'
    BY <2>1, <1>2 DEF Rate, Replace, TypeOK, TreeType, treeVars
  <2>2. ASSUME NEW d \in Dirs \ {Base}, RemoveTree(d)
        PROVE  TreeType'
    <3>1. /\ srcDirs' = srcDirs \ Under[d]
          /\ src' = [p \in Photos |-> IF In[p] \in Under[d] THEN "absent" ELSE src[p]]
      BY <2>2 DEF RemoveTree
    <3>2. ClosedUp(srcDirs')
      <4> SUFFICES ASSUME NEW e \in Dirs, NEW x \in Under[e], x \in srcDirs \ Under[d]
                   PROVE  e \in srcDirs \ Under[d]
        BY <3>1 DEF ClosedUp
      <4>1. e \in srcDirs
        BY DEF TypeOK, TreeType, ClosedUp
      <4>2. e \notin Under[d]
        BY TreeAssumption
      <4> QED
        BY <4>1, <4>2
    <3>3. Base \in srcDirs' /\ srcDirs' \subseteq Dirs
      BY <3>1, TreeAssumption DEF TypeOK, TreeType
    <3>4. /\ src' \in [Photos -> {"absent", "unrated", "rated"}]
          /\ \A p \in Photos : src'[p] # "absent" => In[p] \in srcDirs'
      BY <3>1 DEF TypeOK, TreeType
    <3> QED
      BY <1>2, <3>2, <3>3, <3>4 DEF TypeOK, TreeType, treeVars
  <2>3. ASSUME NEW d \in Dirs \ {Base}, MakeDir(d)
        PROVE  TreeType'
    <3>1. ClosedUp(srcDirs')
      BY <2>3, UpwardsClosed DEF MakeDir, TypeOK, TreeType
    <3> QED
      BY <2>3, <1>2, <3>1 DEF MakeDir, TypeOK, TreeType, treeVars
  <2> QED
    BY <2>1, <2>2, <2>3 DEF User
<1> QED
  BY <1>1, <1>4, <1>5 DEF TypeOK

LEMMA CreateTypes ==
  ASSUME TypeOK, NEW d \in Dirs, Create(d)
  PROVE  TypeOK'
<1> USE DEF TypeOK, TreeType, TaskType, MainType, Alive, Goes,
            envVars, treeVars, makeVars, fileVars, mainVars
<1>1. CASE MkdirExists(d)
  BY <1>1 DEF MkdirExists
<1>2. CASE MkdirCreates(d)
  <2>1. at[d] \in Dirs \ {Base} /\ Parent[at[d]] \in tgt /\ tgt' = tgt \cup {at[d]}
    BY <1>2 DEF MkdirCreates
  <2>2. ClosedUp(tgt')
    BY <2>1, UpwardsClosed
  <2> QED
    BY <1>2, <2>1, <2>2 DEF MkdirCreates
<1>3. CASE MkdirClimbs(d)
  <2>1. Parent[at[d]] \in Dirs
    BY <1>3, TreeAssumption DEF MkdirClimbs
  <2> QED
    BY <1>3, <2>1 DEF MkdirClimbs
<1>4. CASE IsDir(d)
  BY <1>4 DEF IsDir
<1>5. CASE Fill(d)
  <2> PICK x \in Topmost(d) :
        IF {x, Parent[x]} \cap tgt # {}
          THEN /\ tgt' = tgt \cup {x}
               /\ missing' = [missing EXCEPT ![d] = @ \ {x}]
               /\ UNCHANGED <<envVars, owned, previews, task, permit, found, at, fileVars, mainVars, chan>>
          ELSE Fails(d, "noTarget")
    BY <1>5 DEF Fill
  <2>1. CASE {x, Parent[x]} \cap tgt # {}
    <3>1. x \in Dirs
      BY DEF Topmost
    <3>2. ClosedUp(tgt')
      <4>1. tgt' = tgt \cup {x} /\ ClosedUp(tgt)
        BY <2>1
      <4>2. CASE x \in tgt
        <5>1. tgt' = tgt
          BY <4>1, <4>2
        <5> QED
          BY <4>1, <5>1
      <4>3. CASE x \notin tgt
        <5>1. x \in Dirs \ {Base} /\ Parent[x] \in tgt /\ tgt \in SUBSET Dirs
          BY <2>1, <3>1, <4>3
        <5> QED
          BY <4>1, <5>1, UpwardsClosed
      <4> QED
        BY <4>2, <4>3
    <3>3. /\ tgt' = tgt \cup {x} /\ missing' = [missing EXCEPT ![d] = @ \ {x}]
          /\ UNCHANGED <<envVars, owned, previews, task, permit, found, at, fileVars, mainVars, chan>>
      BY <2>1
    <3>4. TaskType' /\ MainType'
      BY <3>3
    <3>5. TreeType'
      BY <3>1, <3>2, <3>3
    <3> QED
      BY <3>4, <3>5
  <2>2. CASE {x, Parent[x]} \cap tgt = {}
    BY <2>2, FailsTypes DEF Errors
  <2> QED
    BY <2>1, <2>2
<1>6. CASE Own(d)
  <2>1. CASE d \in tgt
    <3>1. /\ owned' = owned \cup {d} /\ at' = [at EXCEPT ![d] = d] /\ Goes(d, "target")
          /\ UNCHANGED <<envVars, tgt, previews, permit, found, missing, fileVars, mainVars, chan>>
      BY <1>6, <2>1 DEF Own
    <3>2. TaskType' /\ MainType'
      BY <3>1
    <3>3. TreeType'
      BY <2>1, <3>1
    <3> QED
      BY <3>2, <3>3
  <2>2. CASE d \notin tgt
    BY <1>6, <2>2, FailsTypes DEF Own, Errors
  <2> QED
    BY <2>1, <2>2
<1> QED
  BY <1>1, <1>2, <1>3, <1>4, <1>5, <1>6 DEF Create

LEMMA ScanTypes ==
  ASSUME TypeOK, task[Base] # "remove", NEW d \in Dirs, Scan(d)
  PROVE  TypeOK'
<1> USE DEF TypeOK, TreeType, TaskType, MainType, Alive, Goes, Releases,
            envVars, treeVars, makeVars, fileVars, mainVars
<1>1. CASE Acquire(d)
  BY <1>1 DEF Acquire
<1>2. CASE ListSource(d)
  <2>1. CASE ListsSource(d)
    BY <2>1 DEF ListsSource, ChildrenOf
  <2>2. ASSUME NEW outcome \in {"noHandle", "vanished"}, Fails(d, outcome)
        PROVE  TypeOK'
    BY <2>2, FailsTypes DEF Errors
  <2> QED
    BY <1>2, <2>1, <2>2, OutcomesAre
<1>3. CASE StatFails(d)
  BY <1>3, FailsTypes DEF StatFails, Errors
<1>4. CASE Stat(d)
  BY <1>4 DEF Stat
<1>5. CASE Create(d)
  BY <1>5, CreateTypes
<1>6. CASE ListTarget(d)
  <2>1. CASE Lists(d)
    <3>1. count' \in [Dirs -> Int]
      BY <2>1, SeenCounted DEF Lists
    <3>2. stale' \subseteq Photos /\ jobs' \subseteq Photos
      BY <2>1 DEF Lists, Seen, InDir
    <3> QED
      BY <2>1, <3>1, <3>2 DEF Lists
  <2>2. ASSUME NEW outcome \in {"noHandle", "noTarget"}, Fails(d, outcome)
        PROVE  TypeOK'
    BY <2>2, FailsTypes DEF Errors
  <2> QED
    BY <1>6, <2>1, <2>2, OutcomesAre
<1>7. CASE WorkDone(d)
  BY <1>7 DEF WorkDone
<1>8. CASE Remove(d)
  <2>1. CASE d \in tgt
    <3>1. d # Base
      BY <1>8 DEF Remove
    <3>2. ASSUME IsEmpty(d)
          PROVE  /\ tgt' \subseteq Dirs /\ Base \in tgt' /\ ClosedUp(tgt') /\ owned' \subseteq tgt'
                 /\ previews' \subseteq Photos /\ \A p \in previews' : In[p] \in tgt'
      <4>1. /\ tgt' = tgt \ {d} /\ owned' = owned \ {d} /\ previews' = previews
        BY <1>8, <2>1, <3>2 DEF Remove
      <4>2. ClosedUp(tgt')
        BY <3>1, <3>2, <4>1, UpwardsClosed DEF IsEmpty
      <4>3. \A p \in previews' : In[p] \in tgt'
        BY <3>2, <4>1 DEF IsEmpty, InDir
      <4> QED
        BY <3>1, <4>1, <4>2, <4>3
    <3>3. ASSUME ~IsEmpty(d)
          PROVE  tgt' = tgt /\ owned' = owned /\ previews' = previews
      <4>1. tgt' = tgt /\ owned' = owned /\ previews' = previews
        BY <1>8, <2>1, <3>3 DEF Remove
      <4> QED
        BY <4>1
    <3>4. srcDirs' = srcDirs /\ src' = src
      BY <1>8, <2>1 DEF Remove
    <3>5. TreeType'
      BY <3>2, <3>3, <3>4
    <3>6. TaskType' /\ MainType'
      BY <1>8, <2>1 DEF Remove
    <3> QED
      BY <3>5, <3>6
  <2>2. CASE d \notin tgt
    BY <1>8, <2>2, FailsTypes DEF Remove, Errors
  <2> QED
    BY <2>1, <2>2
<1>9. CASE Join(d)
  BY <1>9 DEF Join, Ended
<1>10. CASE JoinFails(d)
  BY <1>10, FailsTypes DEF JoinFails
<1> QED
  BY <1>1, <1>2, <1>3, <1>4, <1>5, <1>6, <1>7, <1>8, <1>9, <1>10 DEF Scan

LEMMA PhotoTypes ==
  ASSUME TypeOK, NEW p \in Photos, Photo(p)
  PROVE  TypeOK'
<1> USE DEF TypeOK, TreeType, TaskType, MainType, Releases,
            envVars, treeVars, makeVars, fileVars, mainVars
<1>1. In[p] \in Dirs
  BY PhotosAssumption
<1>2. CASE Read(p)
  <2>1. CASE Reads(p)
    BY <1>1, <2>1 DEF Reads
  <2>2. ASSUME Fails(In[p], "noHandle")
        PROVE  TypeOK'
    BY <1>1, <2>2, FailsTypes DEF Errors
  <2> QED
    BY <1>2, <2>1, <2>2, OutcomesAre
<1>3. CASE StaleKeeps(p) \/ StaleRemoves(p)
  BY <1>3 DEF StaleKeeps, StaleRemoves
<1>4. CASE StaleFails(p) \/ JobFails(p)
  BY <1>1, <1>4, FailsTypes DEF StaleFails, JobFails, Errors
<1>5. CASE JobCleans(p)
  BY <1>1, <1>5 DEF JobCleans, Done
<1>6. CASE JobExports(p)
  <2>1. CASE In[p] \in tgt
    BY <1>1, <1>6, <2>1 DEF JobExports, Done
  <2>2. CASE In[p] \notin tgt
    BY <1>1, <1>6, <2>2, FailsTypes DEF JobExports, Errors
  <2> QED
    BY <2>1, <2>2
<1>7. CASE JobSkips(p)
  BY <1>1, <1>7 DEF JobSkips, Done
<1>8. CASE AcquireFile(p)
  BY <1>8 DEF AcquireFile
<1> QED
  BY <1>2, <1>3, <1>4, <1>5, <1>6, <1>7, <1>8 DEF Photo

\* The scan is over, or another one begins.
LEMMA NoJobsTypes ==
  ASSUME NoJobs, task' = NoTasks \/ task' = [NoTasks EXCEPT ![Base] = "source"]
  PROVE  TaskType'
BY TreeAssumption DEF NoJobs, NoTasks, TaskType, Alive

LEMMA ExitsTypes ==
  ASSUME TypeOK, NEW error \in Errors, Exits(error), UNCHANGED treeVars
  PROVE  TypeOK'
<1>1. TaskType'
  BY NoJobsTypes DEF Exits
<1>2. TreeType'
  BY DEF Exits, TypeOK, TreeType, ClosedUp, treeVars, envVars
<1>3. MainType'
  BY DEF Exits, TypeOK, MainType, envVars
<1> QED
  BY <1>1, <1>2, <1>3 DEF TypeOK

LEMMA BeginsTypes ==
  ASSUME TypeOK, scans < MaxScans, Begins
  PROVE  TypeOK'
<1>1. TaskType'
  BY NoJobsTypes DEF Begins
<1>2. TreeType'
  BY DEF Begins, TypeOK, TreeType, ClosedUp, treeVars
<1>3. MainType'
  BY BoundsAssumption DEF Begins, TypeOK, MainType
<1> QED
  BY <1>1, <1>2, <1>3 DEF TypeOK

LEMMA MainTypes ==
  ASSUME TypeOK, Main
  PROVE  TypeOK'
<1> USE DEF TypeOK, TreeType, TaskType, MainType,
            envVars, treeVars, makeVars, fileVars, mainVars
<1>1. CASE ScanOk
  BY <1>1 DEF ScanOk
<1>2. CASE ScanFails
  BY <1>2, ExitsTypes DEF ScanFails
<1>3. CASE Store
  <2>1. CASE Holders = {}
    <3>1. TaskType'
      BY <1>3, <2>1, NoJobsTypes DEF Store
    <3> QED
      BY <1>3, <2>1, <3>1 DEF Store, ClosedUp
  <2>2. CASE Holders # {}
    BY <1>3, <2>2, ExitsTypes DEF Store, Errors
  <2> QED
    BY <2>1, <2>2
<1>4. CASE TakeEvent
  <2>1. Head(chan) \in Event /\ Tail(chan) \in Seq(Event)
    BY <1>4 DEF TakeEvent
  <2> QED
    BY <1>4, <2>1 DEF TakeEvent
<1>5. CASE HandleSkips \/ HandleCleans \/ HandleUnrates
  BY <1>5 DEF HandleSkips, HandleCleans, HandleUnrates
<1>6. pc \in {"handle", "emptied"} => ev.photo \in Photos /\ In[ev.photo] \in Dirs
  BY PhotosAssumption DEF Event
<1>7. CASE HandleCopies
  BY <1>6, <1>7 DEF HandleCopies, Exporting
<1>8. CASE HandleExports
  <2> DEFINE d == In[ev.photo]
  <2>1. d \in Dirs /\ ev.photo \in Photos
    BY <1>6, <1>8 DEF HandleExports, Exporting
  <2>2. Above(d) \subseteq Dirs /\ d \in Above(d)
    BY <2>1, TreeAssumption DEF Above
  <2>3. ClosedUp(Above(d))
    BY TreeAssumption DEF Above, ClosedUp
  <2>4. /\ tgt' = tgt \cup Above(d) /\ owned' = owned \cup (Above(d) \ tgt)
        /\ previews' = previews \cup {ev.photo} /\ pc' = "store"
        /\ UNCHANGED <<envVars, task, permit, found, makeVars, fileVars, why, ev, scans, chan>>
    BY <1>8 DEF HandleExports
  <2>5. ClosedUp(tgt')
    BY <2>3, <2>4 DEF ClosedUp
  <2> QED
    BY <2>1, <2>2, <2>4, <2>5 DEF ClosedUp
<1>9. CASE HandleFails
  BY <1>9, ExitsTypes DEF HandleFails, Errors
<1>10. CASE Emptied
  <2> DEFINE d == In[ev.photo]
  <2>1. CASE d # Base /\ IsEmpty(d)
    <3>1. tgt' = tgt \ {d} /\ owned' = owned \ {d} /\ previews' = previews
      BY <1>10, <2>1 DEF Emptied
    <3>2. ClosedUp(tgt')
      <4>1. d \in Dirs \ {Base} /\ ChildrenOf(d) \cap tgt = {}
        BY <1>6, <1>10, <2>1 DEF IsEmpty, Emptied
      <4> QED
        BY <3>1, <4>1, UpwardsClosed
    <3>3. \A p \in previews' : In[p] \in tgt'
      BY <2>1, <3>1 DEF IsEmpty, InDir
    <3> QED
      BY <1>10, <2>1, <3>1, <3>2, <3>3 DEF Emptied, ClosedUp
  <2>2. CASE ~(d # Base /\ IsEmpty(d))
    BY <1>10, <2>2 DEF Emptied
  <2> QED
    BY <2>1, <2>2
<1>11. CASE EmptiedFails
  BY <1>11, ExitsTypes DEF EmptiedFails, Errors
<1> QED
  BY <1>1, <1>2, <1>3, <1>4, <1>5, <1>7, <1>8, <1>9, <1>10, <1>11 DEF Main

LEMMA NextTypes ==
  ASSUME TypeOK, task[Base] # "remove", [Next]_vars
  PROVE  TypeOK'
<1>1. CASE User
  BY <1>1, UserTypes
<1>2. ASSUME NEW d \in Dirs, Scan(d) PROVE TypeOK'
  BY <1>2, ScanTypes
<1>3. ASSUME NEW p \in Photos, Photo(p) PROVE TypeOK'
  BY <1>3, PhotoTypes
<1>4. CASE Main
  BY <1>4, MainTypes
<1>5. CASE Rescan \/ Restart
  BY <1>5, BeginsTypes DEF Rescan, Restart
<1>6. CASE Crash
  BY <1>6, ExitsTypes DEF Crash, Errors
<1>7. CASE UNCHANGED vars
  BY <1>7 DEF vars, TypeOK, TreeType, TaskType, MainType, ClosedUp
<1> QED
  BY <1>1, <1>2, <1>3, <1>4, <1>5, <1>6, <1>7 DEF Next

-----------------------------------------------------------------------------
(* The tasks and their directories                                         *)

LEMMA InitTasks == Init => TasksInv
<1> SUFFICES ASSUME Init PROVE TasksInv
  OBVIOUS
<1>1. /\ task = [d \in Dirs |-> IF d = Base THEN "source" ELSE "none"]
      /\ found = [d \in Dirs |-> {}] /\ at = [d \in Dirs |-> d]
      /\ missing = [d \in Dirs |-> {}] /\ pc = "scan"
  BY DEF Init
<1>2. JoinInv
  BY <1>1, TreeAssumption DEF JoinInv
<1>3. SpawnInv
  BY <1>1, TreeAssumption DEF SpawnInv
<1>4. CreateInv
  BY <1>1 DEF CreateInv, CreateAt, Creating
<1>5. TargetInv /\ TargetsStay
  BY <1>1 DEF TargetInv, TargetsStay
<1> QED
  BY <1>2, <1>3, <1>4, <1>5 DEF TasksInv

\* Between two scans there are no tasks, and in the beginning there is one.
LEMMA FreshTasks ==
  ASSUME NoJobs,
         \/ task' = NoTasks
         \/ task' = [NoTasks EXCEPT ![Base] = "source"] /\ pc' = "scan"
  PROVE  TasksInv'
<1>1. /\ task' \in [Dirs -> {"none", "source"}]
      /\ \A d \in Dirs \ {Base} : task'[d] = "none"
      /\ task'[Base] = "source" => pc' = "scan"
      /\ found' = [d \in Dirs |-> {}] /\ at' = [d \in Dirs |-> d]
      /\ missing' = [d \in Dirs |-> {}]
  BY TreeAssumption DEF NoJobs, NoTasks
<1>2. JoinInv'
  BY <1>1, TreeAssumption DEF JoinInv
<1>3. SpawnInv'
  BY <1>1, TreeAssumption DEF SpawnInv
<1>4. CreateInv'
  BY <1>1 DEF CreateInv, CreateAt, Creating
<1>5. TargetInv' /\ TargetsStay'
  BY <1>1 DEF TargetInv, TargetsStay
<1> QED
  BY <1>2, <1>3, <1>4, <1>5 DEF TasksInv

\* Steps of others leave the target alone, or no task is left.
LEMMA SameTasks ==
  ASSUME Inv, UNCHANGED <<task, found, at, missing>>,
         tgt' = tgt \/ pc # "scan",
         pc' # "scan" => \A d \in Dirs : task[d] \in {"none", "ok"}
  PROVE  TasksInv'
<1>1. JoinInv'
  BY DEF Inv, TasksInv, JoinInv
<1>2. SpawnInv'
  BY DEF Inv, TasksInv, SpawnInv, PastSpawn
<1>3. TargetsStay'
  BY DEF Inv, TasksInv, TargetsStay
<1>4. CASE tgt' = tgt
  <2>1. CreateInv'
    BY <1>4 DEF Inv, TasksInv, CreateInv, CreateAt, Creating, PastRemoval
  <2>2. TargetInv'
    BY <1>4 DEF Inv, TasksInv, TargetInv
  <2> QED
    BY <1>1, <1>2, <1>3, <2>1, <2>2 DEF TasksInv
<1>5. CASE pc # "scan"
  <2>1. \A d \in Dirs : task[d] \in {"none", "ok"}
    BY <1>5 DEF Inv, TasksInv, JoinInv
  <2>2. CreateInv'
    BY <2>1 DEF Inv, TasksInv, CreateInv, CreateAt, Creating
  <2>3. TargetInv'
    BY <2>1 DEF TargetInv
  <2> QED
    BY <1>1, <1>2, <1>3, <2>2, <2>3 DEF TasksInv
<1> QED
  BY <1>4, <1>5

\* The task of d goes on to w.
Moves(d, w) ==
  /\ task[d] \in Alive /\ w \in Alive \cup Ended
  /\ task' = [task EXCEPT ![d] = w] /\ pc' = pc

\* No target directory goes but that of d, when its task removes it.
TargetsKept(d) == \A x \in tgt : x # d \/ task[d] # "remove" => x \in tgt'

LEMMA MoveJoin ==
  ASSUME Inv, NEW d \in Dirs, NEW w, Moves(d, w),
         w = "ok" => \A x \in Under[d] \ {d} : task[x] \in {"none", "ok"}
  PROVE  JoinInv'
<1>1. task \in [Dirs -> {"none"} \cup Alive \cup Ended] /\ Under \in [Dirs -> SUBSET Dirs]
  BY TreeAssumption DEF Inv, TypeOK, TaskType
<1>2. /\ task'[d] = w /\ w # "none" /\ task[d] \notin {"none", "ok"}
      /\ \A x \in Dirs \ {d} : task'[x] = task[x]
      /\ pc' = pc
  BY <1>1 DEF Moves, Alive, Ended, Errors
<1>3. pc' = "scan"
  BY <1>2 DEF Inv, TasksInv, JoinInv
<1>4. \A e \in Dirs : task'[e] = "ok" => \A x \in Under[e] : task'[x] \in {"none", "ok"}
  <2> TAKE e \in Dirs
  <2> HAVE task'[e] = "ok"
  <2>1. CASE e = d
    BY <1>1, <1>2, <2>1
  <2>2. CASE e # d
    <3>1. \A x \in Under[e] : task[x] \in {"none", "ok"}
      BY <1>2, <2>2 DEF Inv, TasksInv, JoinInv
    <3> QED
      BY <1>1, <1>2, <3>1
  <2> QED
    BY <2>1, <2>2
<1>5. \A e \in Dirs : task'[e] = "none" => \A x \in Under[e] : task'[x] = "none"
  <2> TAKE e \in Dirs
  <2> HAVE task'[e] = "none"
  <2>1. \A x \in Under[e] : task[x] = "none"
    BY <1>2 DEF Inv, TasksInv, JoinInv
  <2> QED
    BY <1>1, <1>2, <2>1
<1> QED
  BY <1>3, <1>4, <1>5 DEF JoinInv

LEMMA MoveSpawn ==
  ASSUME Inv, NEW d \in Dirs, NEW w, Moves(d, w),
         PastSpawn(d) => w \in {"work", "remove", "join"} \cup Ended,
         d = Base => w # "remove",
         \A c \in Dirs : found'[c] \subseteq ChildrenOf(c)
  PROVE  SpawnInv'
<1>1. task \in [Dirs -> {"none"} \cup Alive \cup Ended] /\ Parent \in [Dirs \ {Base} -> Dirs]
  BY TreeAssumption DEF Inv, TypeOK, TaskType
<1>2. task'[d] = w /\ task[d] # "none" /\ \A x \in Dirs \ {d} : task'[x] = task[x]
  BY <1>1 DEF Moves, Alive
<1>3. \A x \in Dirs : PastSpawn(x) => PastSpawn(x)'
  BY <1>2 DEF PastSpawn
<1>4. \A e \in Dirs \ {Base} : task'[e] # "none" => PastSpawn(Parent[e])'
  BY <1>1, <1>2, <1>3 DEF Inv, TasksInv, SpawnInv
<1>5. task'[Base] # "remove"
  BY <1>2, TreeAssumption DEF Inv, TasksInv, SpawnInv
<1> QED
  BY <1>4, <1>5 DEF SpawnInv, ChildrenOf

\* What a step of d does to what other tasks have to create: nothing.
LEMMA CreateOthers ==
  ASSUME Inv, NEW d \in Dirs, NEW e \in Dirs \ {d}, TargetsKept(d),
         \A x \in Dirs : PastRemoval(x) => PastRemoval(x)',
         task'[e] = task[e] \/ (task[e] = "none" /\ task'[e] = "source"),
         at'[e] = at[e], missing'[e] = missing[e]
  PROVE  CreateAt(e)'
<1>1. CreateAt(e)
  BY DEF Inv, TasksInv, CreateInv
<1>2. /\ at[e] \in Dirs /\ missing[e] \subseteq Dirs /\ tgt \subseteq Dirs
      /\ \A x \in Dirs \ {Base} : Parent[x] \in Dirs
  BY TreeAssumption DEF Inv, TypeOK, TaskType, TreeType
<1>3. \A x \in Dirs : x \in tgt /\ (x = e \/ PastRemoval(x)) => x \in tgt'
  BY DEF TargetsKept, PastRemoval, Ended, Errors
<1>4. CASE task[e] = "none"
  BY <1>1, <1>4 DEF CreateAt, Creating
<1>5. CASE task'[e] = task[e] /\ ~Creating(e)
  BY <1>1, <1>5 DEF CreateAt, Creating
<1>6. CASE task'[e] = task[e] /\ Creating(e)
  <2>1. \A x \in missing[e] : x # Base /\ Parent[x] \in Dirs /\ PastRemoval(Parent[x])
    BY <1>1, <1>2, <1>6 DEF CreateAt
  <2>2. \A x \in missing[e] : Parent[x] \in tgt => Parent[x] \in tgt'
    BY <1>3, <2>1
  <2>3. /\ task[e] \in {"mkdir", "isdir"} => (at[e] # e => PastRemoval(at[e])')
        /\ \A x \in missing[e] : PastRemoval(Parent[x])'
    BY <1>1, <1>2, <2>1 DEF CreateAt
  <2>4. task[e] = "isdir" => at[e] \in tgt'
    BY <1>1, <1>2, <1>3 DEF CreateAt
  <2>5. task[e] = "fill" => e \in tgt' \/ e \in missing[e]
    BY <1>1, <1>3 DEF CreateAt
  <2> QED
    BY <1>1, <1>6, <2>1, <2>2, <2>3, <2>4, <2>5 DEF CreateAt, Creating
<1> QED
  BY <1>4, <1>5, <1>6

LEMMA MoveCreate ==
  ASSUME Inv, NEW d \in Dirs, NEW w, Moves(d, w), TargetsKept(d),
         task[d] = "join" => w \in {"join"} \cup Ended,
         \A e \in Dirs \ {d} : at'[e] = at[e] /\ missing'[e] = missing[e],
         CreateAt(d)'
  PROVE  CreateInv'
<1>1. task \in [Dirs -> {"none"} \cup Alive \cup Ended]
  BY DEF Inv, TypeOK, TaskType
<1>2. \A x \in Dirs \ {d} : task'[x] = task[x]
  BY <1>1 DEF Moves
<1>3. \A x \in Dirs : PastRemoval(x) => PastRemoval(x)'
  BY <1>1, <1>2 DEF PastRemoval, Moves, Alive, Ended, Errors
<1>4. \A e \in Dirs \ {d} : CreateAt(e)'
  BY <1>2, <1>3, CreateOthers
<1> QED
  BY <1>4 DEF CreateInv

LEMMA MoveTarget ==
  ASSUME Inv, NEW d \in Dirs, NEW w, Moves(d, w), TargetsKept(d), w # "noTarget",
         w \in {"target", "work", "remove"} => d \in tgt'
  PROVE  TargetInv' /\ TargetsStay'
<1>1. task \in [Dirs -> {"none"} \cup Alive \cup Ended]
  BY DEF Inv, TypeOK, TaskType
<1>2. task'[d] = w /\ \A x \in Dirs \ {d} : task'[x] = task[x]
  BY <1>1 DEF Moves
<1>3. TargetInv'
  BY <1>2 DEF Inv, TasksInv, TargetInv, TargetsKept
<1>4. TargetsStay'
  BY <1>2 DEF Inv, TasksInv, TargetsStay
<1> QED
  BY <1>3, <1>4

LEMMA FailsTasks ==
  ASSUME Inv, NEW d \in Dirs, NEW error \in Errors \ {"noTarget"}, Fails(d, error),
         task[d] \in Alive
  PROVE  TasksInv'
<1>1. Moves(d, error) /\ TargetsKept(d) /\ UNCHANGED <<found, at, missing>>
  BY DEF Fails, Goes, Moves, TargetsKept, treeVars, makeVars, mainVars, Ended
<1>2. /\ error \in Ended /\ error # "ok" /\ error \notin Alive /\ error # "remove" /\ error # "none"
  BY DEF Errors, Ended, Alive
<1>3. task'[d] = error
  BY <1>1 DEF Moves, Inv, TypeOK, TaskType
<1>4. CreateAt(d)'
  BY <1>2, <1>3 DEF CreateAt, Creating, Alive
<1>5. JoinInv'
  BY <1>1, <1>2, MoveJoin
<1>6. SpawnInv'
  BY <1>1, <1>2, MoveSpawn DEF Inv, TasksInv, SpawnInv
<1>7. CreateInv'
  BY <1>1, <1>2, <1>4, MoveCreate
<1>8. TargetInv' /\ TargetsStay'
  BY <1>1, <1>2, MoveTarget DEF Alive
<1> QED
  BY <1>5, <1>6, <1>7, <1>8 DEF TasksInv

LEMMA PhotoTasks ==
  ASSUME Inv, NEW p \in Photos, Photo(p)
  PROVE  TasksInv'
<1>1. In[p] \in Dirs
  BY PhotosAssumption
<1>2. ASSUME NEW error \in Errors \ {"noTarget"}, Works(p), Fails(In[p], error)
      PROVE  TasksInv'
  BY <1>1, <1>2, FailsTasks DEF Works, Alive
<1>3. CASE UNCHANGED <<task, found, at, missing, tgt, pc>>
  BY <1>3, SameTasks DEF Inv, TasksInv, JoinInv
<1>4. CASE Read(p) \/ AcquireFile(p)
  <2>1. CASE Reads(p) \/ AcquireFile(p)
    BY <1>3, <2>1 DEF Reads, AcquireFile, makeVars, treeVars, mainVars
  <2>2. ASSUME Works(p), Fails(In[p], "noHandle")
        PROVE  TasksInv'
    BY <1>2, <2>2 DEF Errors
  <2> QED
    BY <1>4, <2>1, <2>2, OutcomesAre DEF Read
<1>5. CASE StaleKeeps(p) \/ StaleRemoves(p) \/ JobCleans(p) \/ JobSkips(p)
  BY <1>3, <1>5 DEF StaleKeeps, StaleRemoves, JobCleans, JobSkips, Done, makeVars, treeVars, mainVars
<1>6. CASE StaleFails(p) \/ JobFails(p)
  BY <1>2, <1>6 DEF StaleFails, JobFails, Errors
<1>7. CASE JobExports(p)
  <2>1. In[p] \in tgt
    BY <1>1, <1>7 DEF JobExports, Works, Inv, TasksInv, TargetInv
  <2> QED
    BY <1>3, <1>7, <2>1 DEF JobExports, Done, makeVars, mainVars
<1> QED
  BY <1>4, <1>5, <1>6, <1>7 DEF Photo

\* Creating a target directory: every conjunct that is about the step of one task.
LEMMA CreateMoves ==
  ASSUME Inv, NEW d \in Dirs, NEW w \in {"mkdir", "isdir", "fill", "target"}, Creating(d),
         task' = [task EXCEPT ![d] = w], pc' = pc, found' = found, tgt \subseteq tgt',
         \A e \in Dirs \ {d} : at'[e] = at[e] /\ missing'[e] = missing[e],
         CreateAt(d)', w = "target" => d \in tgt'
  PROVE  TasksInv'
<1>1. Moves(d, w) /\ TargetsKept(d)
  BY DEF Moves, TargetsKept, Creating, Alive
<1>2. w \notin Ended /\ ~PastSpawn(d)
  BY DEF Ended, Errors, PastSpawn, Creating
<1>3. JoinInv'
  BY <1>1, MoveJoin
<1>4. SpawnInv'
  BY <1>1, <1>2, MoveSpawn DEF Inv, TasksInv, SpawnInv
<1>5. CreateInv'
  BY <1>1, MoveCreate DEF Creating
<1>6. TargetInv' /\ TargetsStay'
  BY <1>1, MoveTarget
<1> QED
  BY <1>3, <1>4, <1>5, <1>6 DEF TasksInv

\* A directory above that of a task is there, or was removed by its own task, which
\* is past that.
LEMMA AboveStays ==
  ASSUME Inv, NEW x \in Dirs \ {Base}, task[x] # "none", Parent[x] \notin tgt
  PROVE  PastRemoval(Parent[x])
<1>1. PastSpawn(Parent[x]) /\ Parent[x] \in Dirs
  BY TreeAssumption DEF Inv, TasksInv, SpawnInv
<1>2. task[Parent[x]] \notin {"work", "remove"}
  BY <1>1 DEF Inv, TasksInv, TargetInv
<1> QED
  BY <1>1, <1>2 DEF PastSpawn, PastRemoval

LEMMA CreateTasks ==
  ASSUME Inv, NEW d \in Dirs, Create(d)
  PROVE  TasksInv'
<1>1. /\ task \in [Dirs -> {"none"} \cup Alive \cup Ended] /\ at \in [Dirs -> Dirs]
      /\ missing \in [Dirs -> SUBSET Dirs] /\ Base \in tgt /\ tgt \subseteq Dirs
      /\ Parent \in [Dirs \ {Base} -> Dirs]
  BY TreeAssumption DEF Inv, TypeOK, TaskType, TreeType
<1>2. CreateAt(d)
  BY DEF Inv, TasksInv, CreateInv
<1>3. CASE MkdirExists(d)
  <2>1. /\ task[d] = "mkdir" /\ at[d] \in tgt /\ task' = [task EXCEPT ![d] = "isdir"]
        /\ UNCHANGED <<pc, found, at, missing, tgt>>
    BY <1>3 DEF MkdirExists, Goes, treeVars, makeVars, mainVars
  <2>2. \A x \in Dirs : PastRemoval(x) => PastRemoval(x)'
    BY <1>1, <2>1 DEF PastRemoval, Ended, Errors
  <2>3. CreateAt(d)'
    BY <1>1, <1>2, <2>1, <2>2 DEF CreateAt, Creating
  <2> QED
    BY <2>1, <2>3, CreateMoves DEF Creating
<1>4. CASE MkdirCreates(d)
  <2>1. /\ task[d] = "mkdir" /\ at[d] \notin tgt /\ task' = [task EXCEPT ![d] = "fill"]
        /\ tgt' = tgt \cup {at[d]} /\ UNCHANGED <<pc, found, at, missing>>
    BY <1>4 DEF MkdirCreates, Goes, makeVars, mainVars
  <2>2. \A x \in Dirs : PastRemoval(x) => PastRemoval(x)'
    BY <1>1, <2>1 DEF PastRemoval, Ended, Errors
  <2>3. CreateAt(d)'
    BY <1>1, <1>2, <2>1, <2>2 DEF CreateAt, Creating
  <2> QED
    BY <2>1, <2>3, CreateMoves DEF Creating
<1>5. CASE MkdirClimbs(d)
  <2> DEFINE up == Parent[at[d]]
  <2>1. /\ task[d] = "mkdir" /\ at[d] \notin tgt /\ up \notin tgt
        /\ missing' = [missing EXCEPT ![d] = @ \cup {at[d]}]
        /\ at' = [at EXCEPT ![d] = up] /\ UNCHANGED <<task, pc, found, tgt>>
    BY <1>5 DEF MkdirClimbs, treeVars, mainVars
  <2>2. at[d] \in Dirs \ {Base} /\ up \in Dirs
    BY <1>1, <2>1
  <2>3. task[at[d]] # "none"
    BY <1>2, <2>1 DEF CreateAt, PastRemoval, Ended, Errors
  <2>4. PastRemoval(up)
    BY <2>1, <2>2, <2>3, AboveStays
  <2>5. CreateAt(d)'
    <3>1. at'[d] = up /\ missing'[d] = missing[d] \cup {at[d]}
      BY <1>1, <2>1, <2>2
    <3>2. \A x \in missing'[d] : x # Base /\ PastRemoval(Parent[x])'
      BY <1>2, <2>1, <2>2, <2>4, <3>1 DEF CreateAt, Creating, PastRemoval
    <3>3. \A x \in missing'[d] : Parent[x] \in missing'[d] \cup tgt' \cup {up}
      BY <1>2, <2>1, <3>1 DEF CreateAt
    <3>4. d \in missing'[d]
      BY <1>2, <2>1, <3>1 DEF CreateAt
    <3> QED
      BY <2>1, <2>4, <3>1, <3>2, <3>3, <3>4 DEF CreateAt, PastRemoval
  <2>6. task' = [task EXCEPT ![d] = "mkdir"]
    BY <1>1, <2>1
  <2> QED
    BY <1>1, <2>1, <2>5, <2>6, CreateMoves DEF Creating
<1>6. CASE IsDir(d)
  <2>1. /\ task[d] = "isdir" /\ at[d] \in tgt /\ task' = [task EXCEPT ![d] = "fill"]
        /\ missing' = [missing EXCEPT ![d] = IF at[d] \in tgt THEN @ ELSE {}]
        /\ UNCHANGED <<pc, found, at, tgt>>
    BY <1>2, <1>6 DEF IsDir, Goes, CreateAt, treeVars, mainVars
  <2>2. missing' = missing
    BY <1>1, <2>1
  <2>3. \A x \in Dirs : PastRemoval(x) => PastRemoval(x)'
    BY <1>1, <2>1 DEF PastRemoval, Ended, Errors
  <2>4. CreateAt(d)'
    BY <1>1, <1>2, <2>1, <2>2, <2>3 DEF CreateAt, Creating
  <2> QED
    BY <2>1, <2>2, <2>4, CreateMoves DEF Creating
<1>7. CASE Fill(d)
  <2>1. task[d] = "fill"
    BY <1>7 DEF Fill
  <2>2. PICK x \in Topmost(d) :
          {x, Parent[x]} \cap tgt # {} =>
            /\ tgt' = tgt \cup {x}
            /\ missing' = [missing EXCEPT ![d] = @ \ {x}]
            /\ UNCHANGED <<envVars, owned, previews, task, permit, found, at, fileVars, mainVars, chan>>
    BY <1>7 DEF Fill
  <2>3. x \in missing[d] /\ Parent[x] \in tgt
    BY <1>2, <2>1 DEF Topmost, CreateAt
  <2>4. /\ tgt' = tgt \cup {x} /\ missing' = [missing EXCEPT ![d] = @ \ {x}]
        /\ UNCHANGED <<task, pc, found, at>>
    BY <2>2, <2>3 DEF mainVars
  <2>5. CreateAt(d)'
    <3>1. missing'[d] = missing[d] \ {x}
      BY <1>1, <2>4
    <3>2. d \in tgt' \/ d \in missing'[d]
      BY <1>2, <2>1, <2>4, <3>1 DEF CreateAt
    <3>3. \A y \in missing'[d] : Parent[y] \in missing'[d] \cup tgt'
      BY <1>2, <2>1, <2>4, <3>1 DEF CreateAt
    <3>4. \A y \in missing'[d] : y # Base /\ PastRemoval(Parent[y])'
      BY <1>2, <2>1, <2>4, <3>1 DEF CreateAt, Creating, PastRemoval
    <3> QED
      BY <2>1, <2>4, <3>2, <3>3, <3>4 DEF CreateAt
  <2>6. task' = [task EXCEPT ![d] = "fill"]
    BY <1>1, <2>1, <2>4
  <2> QED
    BY <1>1, <2>1, <2>4, <2>5, <2>6, CreateMoves DEF Creating
<1>8. CASE Own(d)
  <2>1. task[d] = "fill" /\ d \in tgt
    BY <1>2, <1>8 DEF Own, CreateAt
  <2>2. /\ task' = [task EXCEPT ![d] = "target"] /\ at' = [at EXCEPT ![d] = d]
        /\ UNCHANGED <<pc, found, missing, tgt>>
    BY <1>8, <2>1 DEF Own, Goes, mainVars
  <2>3. CreateAt(d)'
    BY <1>1, <2>2 DEF CreateAt, Creating
  <2> QED
    BY <1>1, <2>1, <2>2, <2>3, CreateMoves DEF Creating
<1> QED
  BY <1>3, <1>4, <1>5, <1>6, <1>7, <1>8 DEF Create

LEMMA NotStarted ==
  ASSUME Inv, NEW d \in Dirs, task[d] = "target", NEW c \in found[d]
  PROVE  c \in ChildrenOf(d) /\ c # d /\ task[c] = "none"
<1>1. c \in Dirs \ {Base} /\ Parent[c] = d
  BY DEF Inv, TasksInv, SpawnInv, ChildrenOf
<1>2. task[c] = "none"
  BY <1>1 DEF Inv, TasksInv, SpawnInv, PastSpawn, Ended, Errors
<1> QED
  BY <1>1, <1>2 DEF ChildrenOf

\* A directory that lists its target starts the tasks below it, which have not
\* been started before.
LEMMA ListsTasks ==
  ASSUME Inv, NEW d \in Dirs, task[d] = "target", Lists(d)
  PROVE  TasksInv'
<1>1. /\ task \in [Dirs -> {"none"} \cup Alive \cup Ended] /\ Parent \in [Dirs \ {Base} -> Dirs]
      /\ found \in [Dirs -> SUBSET Dirs] /\ Under \in [Dirs -> SUBSET Dirs]
  BY TreeAssumption DEF Inv, TypeOK, TaskType
<1>2. /\ task' = [c \in Dirs |-> IF c = d THEN "work" ELSE IF c \in found[d] THEN "source" ELSE task[c]]
      /\ found' = [found EXCEPT ![d] = {}] /\ UNCHANGED <<tgt, at, missing, pc>>
  BY DEF Lists, treeVars, makeVars, mainVars
<1>3. \A c \in found[d] : c \in Dirs \ {Base} /\ Parent[c] = d /\ c # d
  BY NotStarted DEF ChildrenOf
<1>4. \A c \in found[d] : task[c] = "none"
  BY NotStarted
<1>5. \A c \in Dirs : task'[c] = IF c = d THEN "work" ELSE IF c \in found[d] THEN "source" ELSE task[c]
  BY <1>2
<1>6. JoinInv'
  <2>1. pc' = "scan"
    BY <1>2 DEF Inv, TasksInv, JoinInv
  <2>2. \A e \in Dirs : task'[e] \in {"none", "ok"} =>
          task'[e] = task[e] /\ d \notin Under[e] /\ Under[e] \cap found[d] = {}
    <3> TAKE e \in Dirs
    <3> HAVE task'[e] \in {"none", "ok"}
    <3>1. e # d /\ task'[e] = task[e] /\ e \notin found[d]
      BY <1>5
    <3>2. d \notin Under[e]
      BY <3>1 DEF Inv, TasksInv, JoinInv
    <3>3. \A c \in found[d] : c \notin Under[e]
      BY <1>3, <3>1, <3>2, TreeAssumption
    <3> QED
      BY <3>1, <3>2, <3>3
  <2>3. \A e \in Dirs : task'[e] \in {"none", "ok"} => \A x \in Under[e] : task'[x] = task[x]
    BY <1>1, <1>5, <2>2
  <2>4. \A e \in Dirs : task'[e] = "ok" => \A x \in Under[e] : task'[x] \in {"none", "ok"}
    BY <2>2, <2>3 DEF Inv, TasksInv, JoinInv
  <2>5. \A e \in Dirs : task'[e] = "none" => \A x \in Under[e] : task'[x] = "none"
    BY <2>2, <2>3 DEF Inv, TasksInv, JoinInv
  <2> QED
    BY <2>1, <2>4, <2>5 DEF JoinInv
<1>7. SpawnInv'
  <2>1. \A c \in Dirs : found'[c] \subseteq ChildrenOf(c)
    BY <1>1, <1>2 DEF Inv, TasksInv, SpawnInv
  <2>2. \A x \in Dirs : PastSpawn(x) => PastSpawn(x)'
    BY <1>4, <1>5 DEF PastSpawn, Ended, Errors
  <2>3. PastSpawn(d)'
    BY <1>5 DEF PastSpawn
  <2>4. \A e \in Dirs \ {Base} : task'[e] # "none" => PastSpawn(Parent[e])'
    BY <1>1, <1>3, <1>5, <2>2, <2>3 DEF Inv, TasksInv, SpawnInv
  <2>5. task'[Base] # "remove"
    BY <1>5, TreeAssumption DEF Inv, TasksInv, SpawnInv
  <2> QED
    BY <2>1, <2>4, <2>5 DEF SpawnInv, ChildrenOf
<1>8. CreateInv'
  <2>1. \A x \in Dirs : PastRemoval(x) => PastRemoval(x)'
    BY <1>4, <1>5 DEF PastRemoval, Ended, Errors
  <2>2. TargetsKept(d)
    BY <1>2 DEF TargetsKept
  <2>3. \A e \in Dirs \ {d} : task'[e] = task[e] \/ (task[e] = "none" /\ task'[e] = "source")
    BY <1>4, <1>5
  <2>4. \A e \in Dirs \ {d} : CreateAt(e)'
    BY <1>2, <2>1, <2>2, <2>3, CreateOthers
  <2>5. CreateAt(d)'
    BY <1>5 DEF CreateAt, Creating
  <2> QED
    BY <2>4, <2>5 DEF CreateInv
<1>9. TargetInv' /\ TargetsStay'
  BY <1>2, <1>5 DEF Inv, TasksInv, TargetInv, TargetsStay
<1> QED
  BY <1>6, <1>7, <1>8, <1>9 DEF TasksInv

LEMMA ScanTasks ==
  ASSUME Inv, NEW d \in Dirs, Scan(d)
  PROVE  TasksInv'
<1>1. task \in [Dirs -> {"none"} \cup Alive \cup Ended] /\ found \in [Dirs -> SUBSET Dirs]
  BY DEF Inv, TypeOK, TaskType
<1>2. ASSUME NEW w \in {"stat", "mkdir", "remove", "join", "ok"}, Moves(d, w), TargetsKept(d),
             task[d] \in {"work", "remove", "join"} <=> w \in {"remove", "join", "ok"},
             task[d] = "join" => w = "ok",
             w = "remove" => d # Base /\ d \in tgt',
             w = "ok" => \A x \in Under[d] \ {d} : task[x] \in {"none", "ok"},
             w \in {"stat", "mkdir"} => task[d] \in {"source", "stat"},
             UNCHANGED <<at, missing>>, \A c \in Dirs : found'[c] \subseteq ChildrenOf(c)
      PROVE  TasksInv'
  <2>1. task'[d] = w
    BY <1>1, <1>2 DEF Moves
  <2>2. CreateAt(d)'
    BY <1>2, <2>1 DEF CreateAt, Creating, Inv, TasksInv, CreateInv
  <2>3. JoinInv'
    BY <1>2, MoveJoin
  <2>4. SpawnInv'
    BY <1>2, MoveSpawn DEF PastSpawn, Ended, Moves, Alive, Errors
  <2>5. CreateInv'
    BY <1>2, <2>2, MoveCreate DEF Ended
  <2>6. TargetInv' /\ TargetsStay'
    BY <1>2, MoveTarget
  <2> QED
    BY <2>3, <2>4, <2>5, <2>6 DEF TasksInv
<1>3. CASE Acquire(d)
  BY <1>3, SameTasks DEF Acquire, treeVars, makeVars, mainVars, Inv, TasksInv, JoinInv
<1>4. CASE ListSource(d) /\ ListsSource(d)
  <2>1. /\ task[d] = "source" /\ found' = [found EXCEPT ![d] = ChildrenOf(d) \cap srcDirs]
        /\ task' = [task EXCEPT ![d] = "stat"] /\ UNCHANGED <<at, missing, tgt, pc>>
    BY <1>4 DEF ListSource, ListsSource, Goes, treeVars, makeVars, mainVars
  <2>2. \A c \in Dirs : found'[c] \subseteq ChildrenOf(c)
    BY <1>1, <2>1 DEF Inv, TasksInv, SpawnInv
  <2>3. Moves(d, "stat") /\ TargetsKept(d)
    BY <2>1 DEF Moves, TargetsKept, Alive
  <2> QED
    BY <1>2, <2>1, <2>2, <2>3
<1>5. CASE (ListSource(d) /\ ~ListsSource(d)) \/ StatFails(d)
  <2>1. \E error \in Errors \ {"noTarget"} : Fails(d, error)
    BY <1>5, OutcomesAre DEF StatFails, Errors
  <2>2. task[d] \in Alive
    BY <1>5 DEF ListSource, StatFails, Alive
  <2> QED
    BY <2>1, <2>2, FailsTasks
<1>6. CASE Stat(d)
  <2>1. /\ task[d] = "stat" /\ task' = [task EXCEPT ![d] = "mkdir"]
        /\ UNCHANGED <<found, at, missing, tgt, pc>>
    BY <1>6 DEF Stat, Goes, treeVars, makeVars, mainVars
  <2>2. Moves(d, "mkdir") /\ TargetsKept(d)
    BY <2>1 DEF Moves, TargetsKept, Alive
  <2> QED
    BY <1>2, <2>1, <2>2 DEF Inv, TasksInv, SpawnInv
<1>7. CASE Create(d)
  BY <1>7, CreateTasks
<1>8. CASE ListTarget(d)
  <2>1. task[d] = "target" /\ d \in tgt
    BY <1>8 DEF ListTarget, Inv, TasksInv, TargetInv
  <2>2. ASSUME Lists(d)
        PROVE  TasksInv'
    BY <2>1, <2>2, ListsTasks
  <2>3. ASSUME Fails(d, "noHandle")
        PROVE  TasksInv'
    BY <2>1, <2>3, FailsTasks DEF Errors, Alive
  <2> QED
    BY <1>8, <2>1, <2>2, <2>3, OutcomesAre
<1>9. CASE WorkDone(d)
  <2>1. /\ task[d] = "work" /\ d \in tgt
        /\ task' = [task EXCEPT ![d] = IF count[d] = 0 /\ d # Base THEN "remove" ELSE "join"]
        /\ UNCHANGED <<found, at, missing, tgt, pc>>
    BY <1>9 DEF WorkDone, Goes, treeVars, makeVars, mainVars, Inv, TasksInv, TargetInv
  <2>2. TargetsKept(d)
    BY <2>1 DEF TargetsKept
  <2>3. CASE count[d] = 0 /\ d # Base
    <3>1. Moves(d, "remove")
      BY <2>1, <2>3 DEF Moves, Alive
    <3> QED
      BY <1>2, <2>1, <2>2, <2>3, <3>1 DEF Inv, TasksInv, SpawnInv
  <2>4. CASE ~(count[d] = 0 /\ d # Base)
    <3>1. Moves(d, "join")
      BY <2>1, <2>4 DEF Moves, Alive
    <3> QED
      BY <1>2, <2>1, <2>2, <3>1 DEF Inv, TasksInv, SpawnInv
  <2> QED
    BY <2>3, <2>4
<1>10. CASE Remove(d)
  <2>1. task[d] = "remove" /\ d \in tgt
    BY <1>10 DEF Remove, Inv, TasksInv, TargetInv
  <2>2. /\ tgt' = IF IsEmpty(d) THEN tgt \ {d} ELSE tgt
        /\ task' = [task EXCEPT ![d] = "join"] /\ UNCHANGED <<found, at, missing, pc>>
    BY <1>10, <2>1 DEF Remove, Goes, makeVars, mainVars
  <2>3. Moves(d, "join") /\ TargetsKept(d)
    BY <2>1, <2>2 DEF Moves, TargetsKept, Alive
  <2> QED
    BY <1>2, <2>1, <2>2, <2>3 DEF Inv, TasksInv, SpawnInv
<1>11. CASE Join(d)
  <2>1. /\ task[d] = "join" /\ task' = [task EXCEPT ![d] = "ok"]
        /\ \A c \in ChildrenOf(d) : task[c] \in {"none", "ok"}
        /\ UNCHANGED <<found, at, missing, tgt, pc>>
    BY <1>11 DEF Join, Goes, treeVars, makeVars, mainVars
  <2>2. \A x \in Under[d] \ {d} : task[x] \in {"none", "ok"}
    <3> TAKE x \in Under[d] \ {d}
    <3>1. PICK c \in Dirs \ {Base} : Parent[c] = d /\ x \in Under[c]
      BY TreeAssumption
    <3>2. task[c] \in {"none", "ok"}
      BY <2>1, <3>1 DEF ChildrenOf
    <3> QED
      BY <3>1, <3>2 DEF Inv, TasksInv, JoinInv
  <2>3. Moves(d, "ok") /\ TargetsKept(d)
    BY <2>1 DEF Moves, TargetsKept, Alive, Ended
  <2> QED
    BY <1>2, <2>1, <2>2, <2>3 DEF Inv, TasksInv, SpawnInv
<1>12. CASE JoinFails(d)
  <2>1. PICK c \in ChildrenOf(d) : task[c] \in Errors /\ Fails(d, task[c])
    BY <1>12 DEF JoinFails
  <2>2. task[c] # "noTarget"
    BY <2>1 DEF ChildrenOf, Inv, TasksInv, TargetsStay
  <2> QED
    BY <1>12, <2>1, <2>2, FailsTasks DEF JoinFails, Alive
<1> QED
  BY <1>3, <1>4, <1>5, <1>6, <1>7, <1>8, <1>9, <1>10, <1>11, <1>12 DEF Scan

LEMMA MainTasks ==
  ASSUME Inv, Main
  PROVE  TasksInv'
<1>1. ASSUME NEW error, Exits(error)
      PROVE  TasksInv'
  BY <1>1, FreshTasks DEF Exits
<1>2. CASE ScanOk
  <2>1. \A d \in Dirs : task[d] \in {"none", "ok"}
    BY <1>2, TreeAssumption DEF ScanOk, Inv, TasksInv, JoinInv
  <2> QED
    BY <1>2, <2>1, SameTasks DEF ScanOk, makeVars, treeVars
<1>3. CASE ScanFails \/ HandleFails \/ EmptiedFails
  BY <1>1, <1>3 DEF ScanFails, HandleFails, EmptiedFails
<1>4. CASE Store
  BY <1>1, <1>4, FreshTasks DEF Store
<1>5. CASE UNCHANGED <<task, found, at, missing>> /\ pc # "scan"
  BY <1>5, SameTasks DEF Inv, TasksInv, JoinInv
<1> QED
  BY <1>2, <1>3, <1>4, <1>5
  DEF Main, TakeEvent, HandleSkips, HandleCleans, HandleUnrates, HandleCopies, HandleExports,
      Exporting, Emptied, makeVars

LEMMA NextInv ==
  ASSUME Inv, [Next]_vars
  PROVE  Inv'
<1>1. TypeOK'
  BY NextTypes DEF Inv, TasksInv, SpawnInv
<1>2. CASE User
  <2>1. UNCHANGED <<task, found, at, missing, tgt, pc>>
    BY <1>2 DEF User, Rate, Replace, RemoveTree, MakeDir, Operation, treeVars, makeVars, mainVars
  <2>2. TasksInv'
    BY <2>1, SameTasks DEF Inv, TasksInv, JoinInv
  <2> QED
    BY <1>1, <2>2 DEF Inv
<1>3. ASSUME NEW d \in Dirs, Scan(d) PROVE Inv'
  BY <1>1, <1>3, ScanTasks DEF Inv
<1>4. ASSUME NEW p \in Photos, Photo(p) PROVE Inv'
  BY <1>1, <1>4, PhotoTasks DEF Inv
<1>5. CASE Main
  BY <1>1, <1>5, MainTasks DEF Inv
<1>6. CASE Rescan \/ Restart
  BY <1>1, <1>6, FreshTasks DEF Rescan, Restart, Begins, Inv
<1>7. CASE Crash
  BY <1>1, <1>7, FreshTasks DEF Crash, Exits, Inv
<1>8. CASE UNCHANGED vars
  <2>1. UNCHANGED <<task, found, at, missing, tgt, pc>>
    BY <1>8 DEF vars
  <2>2. TasksInv'
    BY <2>1, SameTasks DEF Inv, TasksInv, JoinInv
  <2> QED
    BY <1>1, <2>2 DEF Inv
<1> QED
  BY <1>2, <1>3, <1>4, <1>5, <1>6, <1>7, <1>8 DEF Next

\* The tasks of a scan are in step with each other and with the directories they
\* create, list and remove, in whatever order they take their turns.
THEOREM InvHolds == Spec => []Inv
<1>1. Init => Inv
  BY InitTypes, InitTasks DEF Inv
<1>2. Inv /\ [Next]_vars => Inv'
  BY NextInv
<1> QED
  BY <1>1, <1>2, PTL DEF Spec

-----------------------------------------------------------------------------
(* What a task does to its own directory and files, and to no others       *)

Local(d) ==
  /\ UNCHANGED <<srcDirs, src, quiet, pc>>
  /\ task[d] \in Alive /\ task'[d] # "none"
  /\ \A e \in Dirs \ {d} :
       /\ found'[e] = found[e] /\ count'[e] = count[e]
       /\ e \in owned => e \in owned'
       /\ task'[e] = task[e] \/ (task[e] = "none" /\ task'[e] = "source")
  /\ \A p \in Photos \ InDir(d) :
       /\ read'[p] = read[p]
       /\ p \in previews' <=> p \in previews
       /\ p \in jobs' <=> p \in jobs
       /\ p \in stale' <=> p \in stale

\* A step of d's task, after which what was true of d is still true.
Kept(d) ==
  /\ Local(d)
  /\ WorkAt(d)'
  /\ Odd = {} /\ CountAt(d) => CountAt(d)'
  /\ (\A e \in Dirs : QuietAt(e)) => QuietAt(d)'

LEMMA FailsKept ==
  ASSUME Inv, NEW d \in Dirs, NEW error \in Errors, Fails(d, error), task[d] \in Alive
  PROVE  Kept(d)
<1>1. /\ task' = [task EXCEPT ![d] = error] /\ task'[d] = error
      /\ UNCHANGED <<srcDirs, src, quiet, pc, owned, previews, found, count>>
      /\ jobs' = jobs \ InDir(d) /\ stale' = stale \ InDir(d)
      /\ read' = [p \in Photos |-> IF In[p] = d THEN None ELSE read[p]]
  BY DEF Fails, Goes, envVars, treeVars, mainVars, Inv, TypeOK, TaskType
<1>2. error \notin {"none", "source", "target", "work", "remove", "join", "ok"} \cup Listed
  BY DEF Errors, Listed
<1>3. Local(d)
  BY <1>1, <1>2 DEF Local, InDir
<1>4. WorkAt(d)' /\ CountAt(d)' /\ QuietAt(d)'
  BY <1>1, <1>2 DEF WorkAt, CountAt, QuietAt, InDir
<1> QED
  BY <1>3, <1>4 DEF Kept

\* A task that goes on without touching a file.
LEMMA GoesKept ==
  ASSUME Inv, WorkInv, NEW d \in Dirs, task[d] \in Listed,
         NEW w \in Listed, task' = [task EXCEPT ![d] = w],
         w = "target" => d \in owned', owned \subseteq owned',
         UNCHANGED <<srcDirs, src, quiet, pc, previews, found, read, jobs, stale, count>>
  PROVE  Kept(d)
<1>1. task'[d] = w /\ \A e \in Dirs \ {d} : task'[e] = task[e]
  BY DEF Inv, TypeOK, TaskType
<1>2. Local(d)
  BY <1>1 DEF Local, Listed, Alive
<1>3. WorkAt(d)'
  BY <1>1 DEF WorkInv, WorkAt, Listed, InDir
<1>4. CountAt(d)'
  BY <1>1 DEF CountAt, Listed
<1>5. ASSUME QuietAt(d) PROVE QuietAt(d)'
  BY <1>1, <1>5 DEF QuietAt, Listed, InDir, ChildrenOf
<1> QED
  BY <1>2, <1>3, <1>4, <1>5 DEF Kept

LEMMA CreateKept ==
  ASSUME Inv, WorkInv, NEW d \in Dirs, Create(d)
  PROVE  Kept(d)
<1> USE DEF Goes, envVars, treeVars, fileVars, mainVars
<1>1. task \in [Dirs -> {"none"} \cup Alive \cup Ended]
  BY DEF Inv, TypeOK, TaskType
<1>2. CASE MkdirExists(d) \/ MkdirCreates(d) \/ IsDir(d)
  BY <1>2, GoesKept DEF MkdirExists, MkdirCreates, IsDir, Listed
<1>3. CASE MkdirClimbs(d)
  <2>1. task' = [task EXCEPT ![d] = "mkdir"]
    BY <1>1, <1>3 DEF MkdirClimbs
  <2> QED
    BY <1>3, <2>1, GoesKept DEF MkdirClimbs, Listed
<1>4. CASE Fill(d)
  <2>1. task[d] = "fill" /\ task[d] \in Alive
    BY <1>4 DEF Fill, Alive
  <2>2. CASE Fails(d, "noTarget")
    BY <2>1, <2>2, FailsKept DEF Errors
  <2>3. CASE UNCHANGED <<envVars, owned, previews, task, permit, found, at, fileVars, mainVars, chan>>
    <3>1. task' = [task EXCEPT ![d] = "fill"]
      BY <1>1, <2>1, <2>3
    <3> QED
      BY <2>1, <2>3, <3>1, GoesKept DEF Listed
  <2> QED
    BY <1>4, <2>2, <2>3 DEF Fill
<1>5. CASE Own(d)
  <2>1. task[d] = "fill" /\ task[d] \in Alive
    BY <1>5 DEF Own, Alive
  <2>2. CASE Fails(d, "noTarget")
    BY <2>1, <2>2, FailsKept DEF Errors
  <2>3. CASE d \in tgt
    BY <1>5, <2>1, <2>3, GoesKept DEF Own, Listed
  <2> QED
    BY <1>5, <2>2, <2>3 DEF Own
<1> QED
  BY <1>2, <1>3, <1>4, <1>5 DEF Create

\* The lists a task works on are those of its own directory.
LEMMA ListsKept ==
  ASSUME Inv, WorkInv, NEW d \in Dirs, task[d] = "target", Lists(d)
  PROVE  Kept(d)
<1>1. /\ task' = [c \in Dirs |-> IF c = d THEN "work" ELSE IF c \in found[d] THEN "source" ELSE task[c]]
      /\ found' = [found EXCEPT ![d] = {}] /\ count' = [count EXCEPT ![d] = Cardinality(Seen(d))]
      /\ stale' = stale \cup Seen(d) /\ jobs' = jobs \cup {p \in InDir(d) : read[p] = "unread"}
      /\ UNCHANGED <<srcDirs, src, quiet, pc, owned, previews, read>>
  BY DEF Lists, envVars, treeVars, mainVars
<1>2. \A c \in found[d] : c \in ChildrenOf(d) /\ c # d /\ task[c] = "none"
  BY NotStarted
<1>3. /\ \A c \in Dirs : task'[c] = IF c = d THEN "work" ELSE IF c \in found[d] THEN "source" ELSE task[c]
      /\ \A c \in Dirs \ {d} : found'[c] = found[c] /\ count'[c] = count[c]
      /\ count'[d] = Cardinality(Seen(d))
  BY <1>1 DEF Inv, TypeOK, TaskType
<1>4. Seen(d) \subseteq InDir(d)
  BY DEF Seen
<1>5. Local(d)
  BY <1>1, <1>2, <1>3, <1>4 DEF Local, Alive
<1>6. WorkAt(d)'
  BY <1>3 DEF WorkAt
<1>7. ASSUME Odd = {} PROVE CountAt(d)'
  <2>1. Seen(d) = previews \cap InDir(d)
    BY <1>7 DEF Seen, InDir, Recognised, Photos
  <2>2. count'[d] = Cardinality(previews' \cap InDir(d)) /\ count'[d] \in Nat /\ task'[d] = "work"
    BY <1>1, <1>3, <2>1, SeenCounted
  <2> QED
    BY <2>2 DEF CountAt, InDir
<1>8. ASSUME QuietAt(d) PROVE QuietAt(d)'
  <2>1. /\ found[d] = ChildrenOf(d) \cap srcDirs /\ d \in owned
        /\ \A p \in InDir(d) : read[p] = IF src[p] = "absent" THEN None ELSE "unread"
    BY <1>8 DEF QuietAt, Listed
  <2>2. \A p \in InDir(d) : PhotoAt(p)'
    <3> TAKE p \in InDir(d)
    <3>1. read'[p] = read[p] /\ src'[p] = src[p] /\ (read[p] = "unread" => p \in jobs')
      BY <1>1
    <3>2. p \in previews' /\ p \in Recognised => p \in stale'
      BY <1>1 DEF Seen
    <3> QED
      BY <2>1, <3>1, <3>2, NoneAssumption DEF PhotoAt
  <2>3. \A c \in ChildrenOf(d) \cap srcDirs : task'[c] # "none"
    BY <1>3, <2>1 DEF ChildrenOf
  <2> QED
    BY <1>1, <1>3, <2>1, <2>2, <2>3 DEF QuietAt, Listed, InDir, ChildrenOf
<1> QED
  BY <1>5, <1>6, <1>7, <1>8 DEF Kept

LEMMA WorkDoneKept ==
  ASSUME Inv, WorkInv, NEW d \in Dirs, WorkDone(d)
  PROVE  Kept(d)
<1>1. /\ task[d] = "work" /\ InDir(d) \cap (jobs \cup stale) = {} /\ d \in Dirs
      /\ task' = [task EXCEPT ![d] = IF count[d] = 0 /\ d # Base THEN "remove" ELSE "join"]
      /\ read' = [p \in Photos |-> IF In[p] = d THEN None ELSE read[p]]
      /\ UNCHANGED <<srcDirs, src, quiet, pc, owned, previews, found, jobs, stale, count>>
  BY DEF WorkDone, Goes, envVars, treeVars, mainVars
<1>2. /\ task'[d] = IF count[d] = 0 /\ d # Base THEN "remove" ELSE "join"
      /\ \A e \in Dirs \ {d} : task'[e] = task[e]
  BY <1>1 DEF Inv, TypeOK, TaskType
<1>3. Local(d)
  BY <1>1, <1>2 DEF Local, Alive, InDir
<1>4. WorkAt(d)'
  BY <1>1, <1>2 DEF WorkAt, InDir
<1>5. ASSUME CountAt(d) PROVE CountAt(d)'
  <2> SUFFICES ASSUME task'[d] = "remove" PROVE previews \cap InDir(d) = {}
    BY <1>1, <1>2 DEF CountAt, InDir
  <2>1. count[d] = 0 /\ count[d] >= Cardinality(previews \cap InDir(d))
    BY <1>1, <1>2, <1>5 DEF CountAt
  <2>2. IsFiniteSet(previews \cap InDir(d))
    BY PhotosAssumption, FS_Subset DEF InDir
  <2>3. Cardinality(previews \cap InDir(d)) = 0
    BY <2>1, <2>2, FS_CardinalityType
  <2> QED
    BY <2>2, <2>3, FS_EmptySet
<1>6. ASSUME QuietAt(d) PROVE QuietAt(d)'
  <2>1. \A p \in InDir(d) : Mirrored(p)'
    BY <1>1, <1>6 DEF QuietAt, PhotoAt, Mirrored, InDir
  <2>2. \A c \in ChildrenOf(d) : c # d
    BY TreeAssumption DEF ChildrenOf
  <2>3. \A c \in ChildrenOf(d) \cap srcDirs : task'[c] # "none"
    BY <1>1, <1>2, <1>6, <2>2 DEF QuietAt, ChildrenOf
  <2> QED
    BY <1>1, <1>2, <1>6, <2>1, <2>3 DEF QuietAt, Listed, InDir, ChildrenOf
<1> QED
  BY <1>3, <1>4, <1>5, <1>6 DEF Kept

LEMMA RemoveKept ==
  ASSUME Inv, WorkInv, NEW d \in Dirs, Remove(d)
  PROVE  Kept(d)
<1>1. /\ task[d] = "remove" /\ d \in tgt
  BY DEF Remove, Inv, TasksInv, TargetInv
<1>2. /\ owned' = IF IsEmpty(d) THEN owned \ {d} ELSE owned
      /\ task' = [task EXCEPT ![d] = "join"]
      /\ UNCHANGED <<srcDirs, src, quiet, pc, previews, found, read, jobs, stale, count>>
  BY <1>1 DEF Remove, Goes, envVars, fileVars, mainVars
<1>3. task'[d] = "join" /\ \A e \in Dirs \ {d} : task'[e] = task[e]
  BY <1>2 DEF Inv, TypeOK, TaskType
<1>4. Local(d)
  BY <1>1, <1>2, <1>3 DEF Local, Alive
<1>5. WorkAt(d)'
  BY <1>1, <1>2, <1>3 DEF WorkInv, WorkAt, InDir
<1>6. CountAt(d)'
  BY <1>3 DEF CountAt
<1>7. ASSUME QuietAt(d) PROVE QuietAt(d)'
  <2>1. \A p \in InDir(d) : Mirrored(p)
    BY <1>1, <1>7 DEF QuietAt
  <2>2. \A p \in InDir(d) : Mirrored(p)'
    <3> TAKE p \in InDir(d)
    <3>1. CASE IsEmpty(d)
      BY <1>2, <2>1, <3>1 DEF Mirrored, IsEmpty
    <3>2. CASE ~IsEmpty(d)
      BY <1>2, <2>1, <3>2 DEF Mirrored
    <3> QED
      BY <3>1, <3>2
  <2>3. \A c \in ChildrenOf(d) \cap srcDirs : task'[c] # "none"
    BY <1>1, <1>2, <1>3, <1>7 DEF QuietAt, ChildrenOf
  <2> QED
    BY <1>2, <1>3, <2>2, <2>3 DEF QuietAt, Listed, InDir, ChildrenOf
<1> QED
  BY <1>4, <1>5, <1>6, <1>7 DEF Kept

\* Joined, a task has a whole tree below it that is done.
LEMMA JoinKept ==
  ASSUME Inv, WorkInv, NEW d \in Dirs, Join(d)
  PROVE  Kept(d)
<1>1. /\ task[d] = "join" /\ \A c \in ChildrenOf(d) : task[c] \in {"none", "ok"}
      /\ task' = [task EXCEPT ![d] = "ok"]
      /\ UNCHANGED <<srcDirs, src, quiet, pc, owned, previews, found, read, jobs, stale, count>>
  BY DEF Join, Goes, envVars, treeVars, fileVars, mainVars
<1>2. task'[d] = "ok" /\ \A e \in Dirs \ {d} : task'[e] = task[e]
  BY <1>1 DEF Inv, TypeOK, TaskType
<1>3. Local(d)
  BY <1>1, <1>2 DEF Local, Alive
<1>4. WorkAt(d)' /\ CountAt(d)'
  BY <1>1, <1>2 DEF WorkInv, WorkAt, CountAt, InDir
<1>5. ASSUME \A e \in Dirs : QuietAt(e) PROVE QuietAt(d)'
  <2>1. \A p \in InDir(d) : Mirrored(p)'
    BY <1>1, <1>5 DEF QuietAt, Mirrored, InDir
  <2>2. \A c \in ChildrenOf(d) \cap srcDirs : task[c] = "ok" /\ task'[c] # "none"
    BY <1>1, <1>2, <1>5 DEF QuietAt, ChildrenOf
  <2>3. \A x \in Under[d] \cap srcDirs : task'[x] = "ok"
    <3> SUFFICES ASSUME NEW x \in Under[d] \cap srcDirs, x # d PROVE task[x] = "ok"
      BY <1>2, TreeAssumption
    <3>1. PICK c \in Dirs \ {Base} : Parent[c] = d /\ x \in Under[c]
      BY TreeAssumption
    <3>2. c \in srcDirs
      BY <3>1 DEF Inv, TypeOK, TreeType, ClosedUp
    <3>3. task[c] = "ok"
      BY <2>2, <3>1, <3>2 DEF ChildrenOf
    <3> QED
      BY <1>5, <3>1, <3>3 DEF QuietAt
  <2> QED
    BY <1>1, <1>2, <2>1, <2>2, <2>3 DEF QuietAt, Listed, InDir, ChildrenOf
<1> QED
  BY <1>3, <1>4, <1>5 DEF Kept

LEMMA ScanKept ==
  ASSUME Inv, WorkInv, NEW d \in Dirs, Scan(d)
  PROVE  Kept(d)
<1>1. CASE Acquire(d)
  <2>1. UNCHANGED <<srcDirs, src, quiet, pc, owned, previews, task, found, read, jobs, stale, count>>
    BY <1>1 DEF Acquire, envVars, treeVars, fileVars, mainVars
  <2>2. task[d] \in Alive
    BY <1>1 DEF Acquire, Alive
  <2>3. Local(d)
    BY <2>1, <2>2 DEF Local, Alive
  <2>4. WorkAt(d)' /\ (CountAt(d) => CountAt(d)')
    BY <2>1 DEF WorkInv, WorkAt, CountAt, InDir
  <2>5. QuietAt(d) => QuietAt(d)'
    BY <2>1 DEF QuietAt, PhotoAt, Mirrored, InDir, ChildrenOf
  <2> QED
    BY <2>3, <2>4, <2>5 DEF Kept
<1>2. CASE ListSource(d) /\ ListsSource(d)
  <2>1. /\ task[d] = "source" /\ found' = [found EXCEPT ![d] = ChildrenOf(d) \cap srcDirs]
        /\ read' = [p \in Photos |-> IF In[p] = d /\ src[p] # "absent" THEN "unread" ELSE read[p]]
        /\ task' = [task EXCEPT ![d] = "stat"]
        /\ UNCHANGED <<srcDirs, src, quiet, pc, owned, previews, jobs, stale, count>>
    BY <1>2 DEF ListSource, ListsSource, Goes, envVars, treeVars, mainVars
  <2>2. /\ task'[d] = "stat" /\ \A e \in Dirs \ {d} : task'[e] = task[e] /\ found'[e] = found[e]
        /\ found'[d] = ChildrenOf(d) \cap srcDirs
    BY <2>1 DEF Inv, TypeOK, TaskType
  <2>3. Local(d)
    BY <2>1, <2>2 DEF Local, Alive, InDir
  <2>4. WorkAt(d)' /\ CountAt(d)'
    BY <2>1, <2>2 DEF WorkInv, WorkAt, CountAt, InDir
  <2>5. \A p \in InDir(d) : read'[p] = IF src'[p] = "absent" THEN None ELSE "unread"
    BY <2>1 DEF WorkInv, WorkAt, InDir
  <2>6. QuietAt(d)'
    BY <2>1, <2>2, <2>5 DEF QuietAt, Listed, InDir, ChildrenOf
  <2> QED
    BY <2>3, <2>4, <2>6 DEF Kept
<1>3. CASE (ListSource(d) /\ ~ListsSource(d)) \/ StatFails(d)
  <2>1. task[d] \in Alive
    BY <1>3 DEF ListSource, StatFails, Alive
  <2>2. \E error \in Errors : Fails(d, error)
    BY <1>3, OutcomesAre DEF StatFails, Errors
  <2> QED
    BY <2>1, <2>2, FailsKept
<1>4. CASE Stat(d)
  BY <1>4, GoesKept DEF Stat, Goes, Listed, envVars, treeVars, fileVars, mainVars
<1>5. CASE Create(d)
  BY <1>5, CreateKept
<1>6. CASE ListTarget(d)
  <2>1. task[d] = "target" /\ task[d] \in Alive
    BY <1>6 DEF ListTarget, Alive
  <2> QED
    BY <1>6, <2>1, ListsKept, FailsKept, OutcomesAre DEF Errors
<1>7. CASE JoinFails(d)
  <2>1. task[d] \in Alive
    BY <1>7 DEF JoinFails, Alive
  <2> QED
    BY <1>7, <2>1, FailsKept DEF JoinFails
<1> QED
  BY <1>1, <1>2, <1>3, <1>4, <1>5, <1>6, <1>7, WorkDoneKept, RemoveKept, JoinKept DEF Scan

\* Previews come and go one at a time, and the count with those that come.
LEMMA CountOf ==
  ASSUME Inv, NEW d \in Dirs, NEW p \in InDir(d)
  PROVE  LET n == Cardinality(previews \cap InDir(d))
         IN /\ n \in Nat
            /\ Cardinality((previews \ {p}) \cap InDir(d)) = IF p \in previews THEN n - 1 ELSE n
            /\ Cardinality((previews \cup {p}) \cap InDir(d)) = IF p \in previews THEN n ELSE n + 1
<1> DEFINE S == previews \cap InDir(d)
<1>1. IsFiniteSet(S)
  BY PhotosAssumption, FS_Subset DEF InDir
<1>2. /\ (previews \ {p}) \cap InDir(d) = S \ {p}
      /\ (previews \cup {p}) \cap InDir(d) = S \cup {p}
      /\ p \in previews <=> p \in S
  OBVIOUS
<1>3. Cardinality(S) \in Nat
  BY <1>1, FS_CardinalityType
<1>4. Cardinality(S \ {p}) = IF p \in S THEN Cardinality(S) - 1 ELSE Cardinality(S)
  BY <1>1, FS_RemoveElement
<1>5. Cardinality(S \cup {p}) = IF p \in S THEN Cardinality(S) ELSE Cardinality(S) + 1
  BY <1>1, FS_AddElement
<1> QED
  BY <1>2, <1>3, <1>4, <1>5

\* A job or a check of a stale preview is done, or a sidecar is read.
LEMMA FileKept ==
  ASSUME Inv, WorkInv, NEW p \in Photos, Works(p), NEW d \in Dirs, d = In[p],
         UNCHANGED <<srcDirs, src, quiet, pc, owned, task, found>>,
         \A q \in Photos \ {p} : /\ read'[q] = read[q] /\ (q \in previews' <=> q \in previews)
                                 /\ (q \in jobs' <=> q \in jobs) /\ (q \in stale' <=> q \in stale),
         \A e \in Dirs \ {d} : count'[e] = count[e],
         CountAt(d) => count'[d] >= Cardinality(previews' \cap InDir(d)),
         PhotoAt(p) => PhotoAt(p)'
  PROVE  Kept(d)
<1>1. d \in Dirs /\ task[d] = "work" /\ p \in InDir(d)
  BY PhotosAssumption DEF Works, InDir
<1>2. Local(d)
  BY <1>1 DEF Local, Alive
<1>3. WorkAt(d)'
  BY <1>1 DEF WorkAt
<1>4. CountAt(d) => CountAt(d)'
  BY <1>1 DEF CountAt, InDir
<1>5. ASSUME QuietAt(d) PROVE QuietAt(d)'
  <2>1. \A q \in InDir(d) : PhotoAt(q)'
    <3> TAKE q \in InDir(d)
    <3>1. PhotoAt(q) /\ q \in Photos
      BY <1>1, <1>5 DEF QuietAt, InDir
    <3>2. CASE q = p
      BY <3>1, <3>2
    <3>3. CASE q # p
      BY <3>1, <3>3 DEF PhotoAt
    <3> QED
      BY <3>2, <3>3
  <2> QED
    BY <1>1, <1>5, <2>1 DEF QuietAt, Listed, InDir, ChildrenOf
<1> QED
  BY <1>2, <1>3, <1>4, <1>5 DEF Kept

LEMMA PhotoKept ==
  ASSUME Inv, WorkInv, NEW p \in Photos, Photo(p)
  PROVE  In[p] \in Dirs /\ Kept(In[p])
<1> USE DEF envVars, treeVars, makeVars, mainVars
<1>1. /\ In[p] \in Dirs /\ p \in InDir(In[p])
      /\ src[p] \in {"absent", "unrated", "rated"} /\ count[In[p]] \in Int
      /\ count \in [Dirs -> Int] /\ read \in [Photos -> {None, "unread", "absent", "unrated", "rated"}]
  BY PhotosAssumption DEF InDir, Inv, TypeOK, TaskType, TreeType
<1>2. Works(p)
  BY DEF Photo, AcquireFile, Read, StaleKeeps, StaleRemoves, StaleFails, JobCleans, JobExports,
     JobSkips, JobFails
<1>3. ASSUME NEW error \in Errors, Fails(In[p], error)
      PROVE  Kept(In[p])
  BY <1>1, <1>2, <1>3, FailsKept DEF Works, Alive
<1>4. /\ Cardinality(previews \cap InDir(In[p])) \in Nat
      /\ Cardinality((previews \ {p}) \cap InDir(In[p]))
           = IF p \in previews THEN Cardinality(previews \cap InDir(In[p])) - 1
                               ELSE Cardinality(previews \cap InDir(In[p]))
      /\ Cardinality((previews \cup {p}) \cap InDir(In[p]))
           = IF p \in previews THEN Cardinality(previews \cap InDir(In[p]))
                               ELSE Cardinality(previews \cap InDir(In[p])) + 1
  BY <1>1, CountOf
<1>5. CountAt(In[p]) => count[In[p]] >= Cardinality(previews \cap InDir(In[p]))
  BY <1>2 DEF CountAt, Works
<1>6. ASSUME NEW change \in Int, Done(p, change)
      PROVE  /\ jobs' = jobs \ {p} /\ count'[In[p]] = count[In[p]] + change
             /\ \A e \in Dirs \ {In[p]} : count'[e] = count[e]
             /\ UNCHANGED <<srcDirs, src, quiet, pc, owned, task, found, read, stale>>
  BY <1>1, <1>6 DEF Done
<1>7. CASE Read(p)
  <2>1. CASE Reads(p)
    <3>1. /\ read' = [read EXCEPT ![p] = src[p]]
          /\ UNCHANGED <<srcDirs, src, quiet, pc, owned, previews, task, found, jobs, stale, count>>
          /\ read[p] = "unread"
      BY <1>7, <2>1 DEF Read, Reads
    <3>2. PhotoAt(p) => PhotoAt(p)'
      BY <1>1, <3>1, NoneAssumption DEF PhotoAt
    <3>3. \A q \in Photos \ {p} : read'[q] = read[q]
      BY <1>1, <3>1
    <3>4. CountAt(In[p]) => count'[In[p]] >= Cardinality(previews' \cap InDir(In[p]))
      BY <1>5, <3>1
    <3>5. Kept(In[p])
      BY <1>1, <1>2, <3>1, <3>2, <3>3, <3>4, FileKept
    <3> QED
      BY <1>1, <3>5
  <2>2. ASSUME Fails(In[p], "noHandle")
        PROVE  Kept(In[p])
    BY <1>1, <1>3, <2>2 DEF Errors
  <2> QED
    BY <1>1, <1>7, <2>1, <2>2, OutcomesAre DEF Read
<1>14. CASE AcquireFile(p)
  <2>1. UNCHANGED <<srcDirs, src, quiet, pc, owned, previews, task, found, read, jobs, stale, count>>
    BY <1>14 DEF AcquireFile, fileVars
  <2>2. PhotoAt(p) => PhotoAt(p)'
    BY <2>1 DEF PhotoAt
  <2> QED
    BY <1>1, <1>2, <1>5, <2>1, <2>2, FileKept
<1>8. CASE StaleKeeps(p)
  <2>1. PhotoAt(p) => PhotoAt(p)'
    BY <1>1, <1>8, NoneAssumption DEF StaleKeeps, PhotoAt
  <2> QED
    BY <1>1, <1>2, <1>5, <1>8, <2>1, FileKept DEF StaleKeeps
<1>9. CASE StaleRemoves(p)
  <2>1. PhotoAt(p) => PhotoAt(p)'
    BY <1>1, <1>9, NoneAssumption DEF StaleRemoves, PhotoAt
  <2>2. CountAt(In[p]) => count'[In[p]] >= Cardinality(previews' \cap InDir(In[p]))
    BY <1>1, <1>4, <1>5, <1>9 DEF StaleRemoves
  <2> QED
    BY <1>1, <1>2, <1>9, <2>1, <2>2, FileKept DEF StaleRemoves
<1>10. CASE StaleFails(p) \/ JobFails(p)
  BY <1>1, <1>3, <1>10 DEF StaleFails, JobFails, Errors
<1>11. CASE JobCleans(p)
  <2>1. PICK change \in {-1, 0} : /\ change = IF p \in previews THEN -1 ELSE 0
                                  /\ Done(p, change)
    BY <1>11 DEF JobCleans
  <2>2. /\ previews' = previews \ {p} /\ read[p] = "unrated" /\ jobs' = jobs \ {p}
        /\ count'[In[p]] = count[In[p]] + change /\ \A e \in Dirs \ {In[p]} : count'[e] = count[e]
        /\ UNCHANGED <<srcDirs, src, quiet, pc, owned, task, found, read, stale>>
    BY <1>6, <1>11, <2>1 DEF JobCleans
  <2>3. PhotoAt(p) => PhotoAt(p)'
    BY <1>1, <2>2, NoneAssumption DEF PhotoAt
  <2>4. CountAt(In[p]) => count'[In[p]] >= Cardinality(previews' \cap InDir(In[p]))
    BY <1>1, <1>4, <1>5, <2>1, <2>2
  <2> QED
    BY <1>1, <1>2, <2>2, <2>3, <2>4, FileKept
<1>12. CASE JobExports(p)
  <2>1. CASE In[p] \in tgt
    <3>1. previews' = previews \cup {p} /\ Done(p, 1) /\ read[p] = "rated"
      BY <1>12, <2>1 DEF JobExports
    <3>2. PhotoAt(p) => PhotoAt(p)'
      BY <1>1, <1>6, <3>1, NoneAssumption DEF PhotoAt
    <3>3. CountAt(In[p]) => count'[In[p]] >= Cardinality(previews' \cap InDir(In[p]))
      BY <1>1, <1>4, <1>5, <1>6, <3>1
    <3> QED
      BY <1>1, <1>2, <1>6, <3>1, <3>2, <3>3, FileKept
  <2>2. CASE In[p] \notin tgt
    BY <1>1, <1>3, <1>12, <2>2 DEF JobExports, Errors
  <2> QED
    BY <2>1, <2>2, <1>1
<1>13. CASE JobSkips(p)
  <2>1. Done(p, 0) /\ 0 \in Int
    BY <1>13 DEF JobSkips
  <2>2. /\ previews' = previews /\ read[p] = "rated" /\ p \in previews /\ jobs' = jobs \ {p}
        /\ count'[In[p]] = count[In[p]] + 0 /\ \A e \in Dirs \ {In[p]} : count'[e] = count[e]
        /\ UNCHANGED <<srcDirs, src, quiet, pc, owned, task, found, read, stale>>
    BY <1>6, <1>13, <2>1 DEF JobSkips
  <2>3. PhotoAt(p) => PhotoAt(p)'
    BY <1>1, <2>2, NoneAssumption DEF PhotoAt
  <2>4. CountAt(In[p]) => count'[In[p]] >= Cardinality(previews' \cap InDir(In[p]))
    BY <1>1, <1>5, <2>2
  <2> QED
    BY <1>1, <1>2, <2>2, <2>3, <2>4, FileKept
<1> QED
  BY <1>1, <1>7, <1>8, <1>9, <1>10, <1>11, <1>12, <1>13, <1>14 DEF Photo

\* What is true of the other directories is still true of them.
LEMMA OthersKept ==
  ASSUME Inv, NEW d \in Dirs, Local(d), NEW e \in Dirs \ {d}
  PROVE  /\ WorkAt(e) => WorkAt(e)'
         /\ CountAt(e) => CountAt(e)'
         /\ QuietAt(e) => QuietAt(e)'
<1>1. /\ UNCHANGED <<srcDirs, src>> /\ found'[e] = found[e] /\ count'[e] = count[e]
      /\ e \in owned => e \in owned'
      /\ task'[e] = task[e] \/ (task[e] = "none" /\ task'[e] = "source")
      /\ \A x \in Dirs : task[x] # "none" => task'[x] # "none"
  BY DEF Local, Alive
<1>2. \A p \in InDir(e) : /\ read'[p] = read[p] /\ (p \in previews' <=> p \in previews)
                          /\ (p \in jobs' <=> p \in jobs) /\ (p \in stale' <=> p \in stale)
  BY DEF Local, InDir
<1>3. WorkAt(e) => WorkAt(e)'
  BY <1>1, <1>2 DEF WorkAt, InDir
<1>4. ASSUME CountAt(e) PROVE CountAt(e)'
  <2>1. previews' \cap InDir(e) = previews \cap InDir(e)
    BY <1>2
  <2> QED
    BY <1>1, <1>4, <2>1 DEF CountAt, InDir
<1>5. ASSUME QuietAt(e) PROVE QuietAt(e)'
  <2>1. task[e] = "work" => \A p \in InDir(e) : PhotoAt(p)'
    BY <1>1, <1>2, <1>5 DEF QuietAt, PhotoAt
  <2>2. task[e] \in {"remove", "join", "ok"} => \A p \in InDir(e) : Mirrored(p)'
    BY <1>1, <1>2, <1>5 DEF QuietAt, Mirrored, InDir
  <2>3. task[e] \in {"work", "remove", "join", "ok"} =>
          \A c \in ChildrenOf(e) \cap srcDirs : task'[c] # "none"
    BY <1>1, <1>5 DEF QuietAt, ChildrenOf
  <2>4. task[e] = "ok" => \A x \in Under[e] \cap srcDirs : task'[x] = "ok"
    <3> SUFFICES ASSUME task[e] = "ok", NEW x \in Under[e] \cap srcDirs PROVE task'[x] = "ok"
      OBVIOUS
    <3>1. task[x] = "ok" /\ x \in Dirs
      BY <1>5, TreeAssumption DEF QuietAt
    <3> QED
      BY <3>1 DEF Local, Alive
  <2>5. task[e] \in Listed => /\ found'[e] = ChildrenOf(e) \cap srcDirs
                              /\ \A p \in InDir(e) : read'[p] = IF src[p] = "absent" THEN None ELSE "unread"
    BY <1>1, <1>2, <1>5 DEF QuietAt
  <2> QED
    BY <1>1, <1>5, <2>1, <2>2, <2>3, <2>4, <2>5 DEF QuietAt, Listed, InDir, ChildrenOf
<1> QED
  BY <1>3, <1>4, <1>5

\* All that a step of a task has to keep.
FilesInv == WorkInv /\ CountInv /\ QuietInv

LEMMA KeptAll ==
  ASSUME Inv, FilesInv, NEW d \in Dirs, Kept(d)
  PROVE  FilesInv'
<1>1. WorkInv'
  BY OthersKept DEF FilesInv, WorkInv, Kept
<1>2. CountInv'
  BY OthersKept DEF FilesInv, CountInv, Kept
<1>3. QuietInv'
  BY OthersKept DEF FilesInv, QuietInv, Kept, Local
<1> QED
  BY <1>1, <1>2, <1>3 DEF FilesInv

\* Nothing has been done yet.
LEMMA FreshFiles ==
  ASSUME TaskType', \A d \in Dirs : task'[d] \in {"none", "source"},
         read' = [p \in Photos |-> None], jobs' = {}, stale' = {}
  PROVE  FilesInv'
<1>1. WorkInv'
  BY DEF WorkInv, WorkAt, InDir
<1>2. CountInv' /\ QuietInv'
  BY DEF CountInv, CountAt, QuietInv, QuietAt, Listed
<1> QED
  BY <1>1, <1>2 DEF FilesInv

LEMMA InitFiles == Init => FilesInv
<1> SUFFICES ASSUME Init PROVE FilesInv
  OBVIOUS
<1>1. \A d \in Dirs : task[d] \in {"none", "source"}
  BY DEF Init
<1>2. WorkInv
  BY DEF Init, WorkInv, WorkAt, InDir
<1>3. CountInv /\ QuietInv
  BY <1>1 DEF CountInv, CountAt, QuietInv, QuietAt, Listed
<1> QED
  BY <1>2, <1>3 DEF FilesInv

\* The main loop goes on: no task runs, and what is done is done.
LEMMA LoopFiles ==
  ASSUME Inv, FilesInv, Inv', pc' # "scan", UNCHANGED <<task, read, jobs, stale>>
  PROVE  FilesInv'
<1>1. \A d \in Dirs : task'[d] \in {"none", "ok"}
  BY DEF Inv, TasksInv, JoinInv
<1>2. WorkInv'
  BY DEF FilesInv, WorkInv, WorkAt, InDir
<1>3. CountInv' /\ QuietInv'
  BY <1>1 DEF CountInv, CountAt, QuietInv
<1> QED
  BY <1>2, <1>3 DEF FilesInv

LEMMA NextFiles ==
  ASSUME Inv, FilesInv, [Next]_vars
  PROVE  FilesInv'
<1>1. Inv'
  BY NextInv
<1>2. CASE User
  <2>1. quiet' = FALSE /\ UNCHANGED <<task, read, jobs, stale, count, previews>>
    BY <1>2 DEF User, Rate, Replace, RemoveTree, MakeDir, Operation, treeVars, fileVars
  <2>2. WorkInv' /\ CountInv'
    BY <2>1 DEF FilesInv, WorkInv, WorkAt, CountInv, CountAt, InDir
  <2>3. QuietInv'
    BY <2>1 DEF QuietInv
  <2> QED
    BY <2>2, <2>3 DEF FilesInv
<1>3. ASSUME NEW d \in Dirs, Scan(d) PROVE FilesInv'
  BY <1>3, ScanKept, KeptAll DEF FilesInv
<1>4. ASSUME NEW p \in Photos, Photo(p) PROVE FilesInv'
  BY <1>4, PhotoKept, KeptAll DEF FilesInv
<1>5. ASSUME task' = NoTasks \/ task' = [NoTasks EXCEPT ![Base] = "source"], NoJobs
      PROVE  FilesInv'
  <2>1. \A d \in Dirs : task'[d] \in {"none", "source"}
    BY <1>5 DEF NoTasks
  <2> QED
    BY <1>1, <1>5, <2>1, FreshFiles DEF NoJobs, Inv, TypeOK
<1>6. CASE Main
  <2>1. CASE ScanFails \/ HandleFails \/ EmptiedFails \/ Store
    BY <1>5, <2>1 DEF ScanFails, HandleFails, EmptiedFails, Store, Exits
  <2>2. CASE pc' # "scan" /\ UNCHANGED <<task, fileVars>>
    BY <1>1, <2>2, LoopFiles DEF fileVars
  <2> QED
    BY <1>6, <2>1, <2>2
    DEF Main, ScanOk, TakeEvent, HandleSkips, HandleCleans, HandleUnrates, HandleCopies,
        HandleExports, Emptied
<1>7. CASE Rescan \/ Restart \/ Crash
  BY <1>5, <1>7 DEF Rescan, Restart, Crash, Begins, Exits
<1>8. CASE UNCHANGED vars
  <2>1. UNCHANGED <<srcDirs, src, quiet, owned, previews, task, found, read, jobs, stale, count, pc>>
    BY <1>8 DEF vars
  <2>2. WorkInv' /\ CountInv'
    BY <2>1 DEF FilesInv, WorkInv, WorkAt, CountInv, CountAt, InDir
  <2>3. QuietInv'
    BY <2>1 DEF FilesInv, QuietInv, QuietAt, PhotoAt, Mirrored, InDir, ChildrenOf
  <2> QED
    BY <2>2, <2>3 DEF FilesInv
<1> QED
  BY <1>2, <1>3, <1>4, <1>6, <1>7, <1>8 DEF Next

\* A task never loses sight of a file of its directory: what it has listed it
\* works on, what it counts is there, and as long as the user leaves the source
\* alone what it has done stays done.
THEOREM FilesHold == Spec => []FilesInv
<1>1. Init => FilesInv
  BY InitFiles
<1>2. Inv /\ FilesInv /\ [Next]_vars => FilesInv'
  BY NextFiles
<1> QED
  BY <1>1, <1>2, InvHolds, PTL DEF Spec

-----------------------------------------------------------------------------
(* What the scan promises                                                  *)

\* Types are right, and directories and previews are in directories that exist:
\* create_dir_all never leaves one without the one above it, and remove_dir takes
\* none away that something is in.
THEOREM TypeCorrect == Spec => []TypeOK
<1>1. Inv => TypeOK
  BY DEF Inv
<1> QED
  BY <1>1, InvHolds, PTL

\* When a scan returns without an error nothing of it runs any more: each task
\* waits for those it started, so that one that succeeded has nothing running
\* below it (scan.rs, the loop over join_handles).
THEOREM NobodyIsLeft == Spec => []NobodyLeft
<1>1. Inv => NobodyLeft
  BY DEF Inv, TasksInv, JoinInv, NobodyLeft, Holders, Alive
<1> QED
  BY <1>1, InvHolds, PTL

\* Parents that remove their target directory never take it from a task that is
\* creating its own below: a task is started by its parent before that one
\* removes anything, and what create_dir_all then finds removed is not removed
\* again (scan.rs, create_dir_all and remove_dir).
THEOREM TargetsAlwaysStay == Spec => []TargetsStay
<1>1. Inv => TargetsStay
  BY DEF Inv, TasksInv
<1> QED
  BY <1>1, InvHolds, PTL

\* The count a task keeps of its previews, made before any were removed and not
\* told of those remove_stale removes, is never too low (scan.rs, changes).
THEOREM CountNeverTooLow == Spec => []CountIsRight
<1>1. FilesInv => CountIsRight
  BY DEF FilesInv, CountInv, CountAt, CountIsRight
<1> QED
  BY <1>1, FilesHold, PTL

\* A scan that nobody disturbs mirrors the whole tree, for any tree, any photos
\* and any state the last one was left in.
THEOREM TreeIsMirrored == Spec => []TreeMirrored
<1>1. Inv /\ FilesInv => TreeMirrored
  <2> SUFFICES ASSUME Inv, FilesInv, pc = "scan", task[Base] = "ok", quiet,
                      NEW p \in Photos, In[p] \in srcDirs
               PROVE  Mirrored(p)
    BY DEF TreeMirrored, Mirrored
  <2>1. \A d \in Dirs : QuietAt(d)
    BY DEF FilesInv, QuietInv
  <2>2. In[p] \in Dirs /\ p \in InDir(In[p])
    BY PhotosAssumption DEF InDir
  <2>3. task[In[p]] = "ok"
    BY <2>1, <2>2, TreeAssumption DEF QuietAt
  <2> QED
    BY <2>1, <2>2, <2>3 DEF QuietAt
<1> QED
  BY <1>1, InvHolds, FilesHold, PTL

=============================================================================

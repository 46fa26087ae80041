---------------------------- MODULE MirrorProofs ----------------------------
(* Theorems about Mirror, for every set of files, every capacity of the    *)
(* queues and every environment.                                           *)
(*                                                                         *)
(* The later parts are about what the mirror shows: the early return of an *)
(* export is right, the last event of a sidecar is one that makes its      *)
(* preview, no change of a sidecar is lost, and whatever lost no event is  *)
(* mirrored when the daemon idles. All but the second suppose that the     *)
(* user does not go back in the edit history: with "undo" in Env they are  *)
(* false.                                                                  *)
EXTENDS Mirror, TLAPS, SequenceTheorems

-----------------------------------------------------------------------------
(* Type correctness                                                        *)

LEMMA InitTypes == Init => TypeOK
<1> SUFFICES ASSUME Init PROVE TypeOK
  OBVIOUS
<1>1. TreeType
  <2>1. 0 \in Edits /\ ops \in 0 .. MaxOps /\ None # Partial /\ 0 # Partial
    BY BoundsAssumption, NoneAssumption DEF Init, Edits
  <2>2. \A f \in Raw : preview[f] # Partial
    BY <2>1 DEF Init, Files
  <2> QED
    BY <2>1, <2>2 DEF Init, TreeType, Xmp
<1>2. WatchType
  <2>1. kq \in Seq(Notice) /\ chan \in Seq(Event) /\ Len(chan) = 0
    BY DEF Init
  <2>2. overflown \in BOOLEAN
    BY DEF Init
  <2>3. hand = None /\ dropped = {}
    BY DEF Init
  <2> QED
    BY <2>1, <2>2, <2>3, BoundsAssumption DEF WatchType
<1>3. MainType
  BY BoundsAssumption DEF Init, MainType
<1>4. DbType
  BY BoundsAssumption DEF Init, DbType, Edits
<1>5. ScanType
  BY DEF Init, ScanType
<1> QED
  BY <1>1, <1>2, <1>3, <1>4, <1>5 DEF TypeOK

\* A part of the type invariant holds on when its variables do not change.
LEMMA Frames ==
  /\ TreeType /\ UNCHANGED <<envVars, preview>> => TreeType'
  /\ WatchType /\ UNCHANGED watchVars => WatchType'
  /\ MainType /\ UNCHANGED <<pc, ev>> /\ UNCHANGED runVars => MainType'
  /\ DbType /\ UNCHANGED dbVars => DbType'
  /\ ScanType /\ UNCHANGED scanVars /\ UNCHANGED runVars => ScanType'
<1>1. TreeType /\ UNCHANGED <<envVars, preview>> => TreeType'
  BY DEF TreeType, envVars
<1>2. WatchType /\ UNCHANGED watchVars => WatchType'
  BY DEF WatchType, watchVars
<1>3. MainType /\ UNCHANGED <<pc, ev>> /\ UNCHANGED runVars => MainType'
  BY DEF MainType, runVars
<1>4. DbType /\ UNCHANGED dbVars => DbType'
  BY DEF DbType, dbVars
<1>5. ScanType /\ UNCHANGED scanVars /\ UNCHANGED runVars => ScanType'
  BY DEF ScanType, scanVars, runVars
<1> QED
  BY <1>1, <1>2, <1>3, <1>4, <1>5

\* The kernel keeps its queue a sequence of notices.
LEMMA EnqueueTypes ==
  ASSUME kq \in Seq(Notice), dropped \subseteq Files, NEW n \in Notice, Enqueue(n)
  PROVE  kq' \in Seq(Notice) /\ dropped' \subseteq Files
<1>1. n.file \in Files \cup {None} /\ Lost \in Notice
  BY DEF Notice, Lost, Irrelevant
<1> QED
  BY <1>1 DEF Enqueue

LEMMA PostTypes ==
  ASSUME kq \in Seq(Notice), dropped \subseteq Files,
         NEW f \in Files, NEW k \in Kinds, Post(f, k)
  PROVE  kq' \in Seq(Notice) /\ dropped' \subseteq Files
<1>1. [file |-> f, mask |-> {k}] \in Notice
  BY DEF Notice
<1>2. CASE Watching /\ Enqueue([file |-> f, mask |-> {k}])
  BY <1>1, <1>2, EnqueueTypes
<1>3. CASE /\ Watching
           /\ \E i \in DOMAIN kq :
                /\ MayMerge(f, k, i)
                /\ kq' = [kq EXCEPT ![i] = [file |-> f, mask |-> @.mask \cup {k}]]
                /\ UNCHANGED dropped
  <2>1. PICK i \in DOMAIN kq :
               /\ MayMerge(f, k, i)
               /\ kq' = [kq EXCEPT ![i] = [file |-> f, mask |-> @.mask \cup {k}]]
               /\ UNCHANGED dropped
    BY <1>3
  <2>2. kq[i] \in Notice /\ kq[i].file \in Files
    BY <2>1 DEF MayMerge
  <2>3. kq[i].mask \in SUBSET Kinds
    BY <2>2, NoneAssumption DEF Notice, Lost, Irrelevant
  <2>4. [file |-> f, mask |-> kq[i].mask \cup {k}] \in Notice
    BY <2>3 DEF Notice
  <2> QED
    BY <2>1, <2>4
<1>4. CASE ~Watching
  BY <1>4 DEF Post
<1> QED
  BY <1>2, <1>3, <1>4 DEF Post

LEMMA OperationTypes ==
  ASSUME TypeOK, NEW kind, Operation(kind)
  PROVE  /\ ops' \in 0 .. MaxOps
         /\ preview' = preview
         /\ hand' = hand /\ overflown' = overflown /\ chan' = chan
         /\ MainType' /\ DbType' /\ ScanType'
<1>1. ops' \in 0 .. MaxOps
  BY BoundsAssumption DEF TypeOK, TreeType, Operation
<1>2. UNCHANGED <<hand, overflown, chan, pc, ev, preview>> /\ UNCHANGED dbVars /\ UNCHANGED scanVars
      /\ UNCHANGED runVars
  BY DEF Operation
<1>3. MainType' /\ DbType' /\ ScanType'
  BY <1>2, Frames DEF TypeOK
<1> QED
  BY <1>1, <1>2, <1>3 DEF TypeOK, TreeType

LEMMA SavedTypes ==
  ASSUME TreeType, NEW f \in Files, NEW x \in Xmp, Saved(f, x)
  PROVE  /\ src' \in [Files -> {Absent, Partial} \cup Xmp]
         /\ newest' \in [Files -> Edits]
  BY DEF TreeType, Saved, Xmp

\* What the watcher holds stays typed when only the kernel's queue moves.
LEMMA KernelTypes ==
  ASSUME WatchType, UNCHANGED <<hand, overflown, chan>>,
         kq' \in Seq(Notice), dropped' \subseteq Files
  PROVE  WatchType'
  BY DEF WatchType

LEMMA UserTypes ==
  ASSUME TypeOK, User
  PROVE  TypeOK'
<1> USE DEF TypeOK
<1>1. ASSUME NEW f \in Files, NEW e \in Edits, BeginRewrite(f, e) PROVE TypeOK'
  <2>1. /\ Operation("rewrite") /\ src' = [src EXCEPT ![f] = Partial] /\ UNCHANGED <<kq, dropped>>
        /\ newest' = [newest EXCEPT ![f] = IF e > @ THEN e ELSE @]
    BY <1>1 DEF BeginRewrite
  <2>2. TreeType'
    BY <2>1, OperationTypes DEF TreeType
  <2>3. WatchType'
    BY <2>1, OperationTypes DEF WatchType
  <2> QED
    BY <2>1, <2>2, <2>3, OperationTypes
<1>2. ASSUME NEW f \in Files, NEW x \in Xmp, EndRewrite(f, x) PROVE TypeOK'
  <2>1. /\ Saved(f, x) /\ Post(f, "modified")
        /\ UNCHANGED <<ops, hand, overflown, chan, pc, ev, preview, dbVars, scanVars, runVars>>
    BY <1>2 DEF EndRewrite
  <2>2. TreeType'
    BY <2>1, SavedTypes DEF TreeType
  <2>3. kq' \in Seq(Notice) /\ dropped' \subseteq Files
    BY <2>1, PostTypes DEF WatchType, Kinds
  <2>4. WatchType'
    BY <2>1, <2>3, KernelTypes
  <2> QED
    BY <2>1, <2>2, <2>4, Frames
<1>3. ASSUME NEW f \in Files, NEW x \in Xmp, MoveTo(f, x) PROVE TypeOK'
  <2>1. Operation("moveTo") /\ Saved(f, x) /\ Post(f, "movedTo")
    BY <1>3 DEF MoveTo
  <2>2. TreeType'
    BY <2>1, SavedTypes, OperationTypes DEF TreeType
  <2>3. kq' \in Seq(Notice) /\ dropped' \subseteq Files
    BY <2>1, PostTypes DEF WatchType, Kinds
  <2>4. WatchType'
    BY <2>1, <2>3, KernelTypes, OperationTypes
  <2> QED
    BY <2>1, <2>2, <2>4, OperationTypes
<1>4. ASSUME NEW f \in Files, NEW kind \in {"deleted", "movedFrom"}, Remove(f, kind) PROVE TypeOK'
  <2>1. Operation(kind) /\ src' = [src EXCEPT ![f] = Absent] /\ Post(f, kind) /\ UNCHANGED newest
    BY <1>4 DEF Remove
  <2>2. TreeType'
    BY <2>1, OperationTypes DEF TreeType
  <2>3. kq' \in Seq(Notice) /\ dropped' \subseteq Files
    BY <2>1, PostTypes DEF WatchType, Kinds
  <2>4. WatchType'
    BY <2>1, <2>3, KernelTypes, OperationTypes
  <2> QED
    BY <2>1, <2>2, <2>4, OperationTypes
<1>5. ASSUME OtherActivity PROVE TypeOK'
  <2>1. Operation("other") /\ Enqueue(Irrelevant) /\ UNCHANGED <<src, newest>>
    BY <1>5 DEF OtherActivity
  <2>2. TreeType'
    BY <2>1, OperationTypes DEF TreeType
  <2>3. kq' \in Seq(Notice) /\ dropped' \subseteq Files
    BY <2>1, EnqueueTypes DEF WatchType, Notice
  <2>4. WatchType'
    BY <2>1, <2>3, KernelTypes, OperationTypes
  <2> QED
    BY <2>1, <2>2, <2>4, OperationTypes
<1> QED
  BY <1>1, <1>2, <1>3, <1>4, <1>5 DEF User

LEMMA WatcherTypes ==
  ASSUME TypeOK, Watcher
  PROVE  TypeOK'
<1> USE DEF TypeOK
<1>1. UNCHANGED <<envVars, pc, ev, preview, dbVars, scanVars, runVars>>
  BY DEF Watcher, WatcherRead, WatcherSend, WatcherStore
<1>2. ASSUME WatcherRead PROVE WatchType'
  <2>1. Head(kq) \in Notice /\ Tail(kq) \in Seq(Notice)
    BY <1>2 DEF WatcherRead, WatchType
  <2>2. Head(kq).file \in Files \cup {None} /\ (Head(kq).file # None => Head(kq).mask \in SUBSET Kinds)
    BY <2>1 DEF Notice, Irrelevant, Lost
  <2>3. /\ hand' \in Hand
        /\ hand'.file = None => hand'.todo = {}
    BY <1>2, <2>2 DEF WatcherRead, Hand
  <2>4. kq' \in Seq(Notice) /\ UNCHANGED <<overflown, chan, dropped>>
    BY <1>2, <2>1 DEF WatcherRead
  <2> QED
    BY <2>3, <2>4 DEF WatchType
<1>3. ASSUME WatcherSend PROVE WatchType'
  <2>1. hand \in Hand
    BY <1>3 DEF WatcherSend, WatchType, Hand
  <2>2. PICK k \in hand.todo :
          IF Len(chan) < Capacity
            THEN /\ chan' = Append(chan, [file |-> hand.file, kind |-> k])
                 /\ hand' = [hand EXCEPT !.todo = @ \ {k}]
                 /\ UNCHANGED dropped
            ELSE /\ hand' = [hand EXCEPT !.todo = @ \ {k}, !.failed = TRUE]
                 /\ dropped' = dropped \cup {hand.file}
                 /\ UNCHANGED chan
    BY <1>3 DEF WatcherSend
  <2>3. hand.file \in Files /\ k \in Kinds
    BY <1>3, <2>1, <2>2 DEF WatcherSend, WatchType, Hand
  <2>4. /\ hand' \in Hand
        /\ hand'.file = hand.file
    BY <2>1, <2>2 DEF Hand
  <2>5. chan' \in Seq(Event) /\ Len(chan') <= Capacity
    <3>1. [file |-> hand.file, kind |-> k] \in Event
      BY <2>3 DEF Event
    <3>2. CASE Len(chan) < Capacity
      <4>1. chan' = Append(chan, [file |-> hand.file, kind |-> k])
        BY <2>2, <3>2
      <4>2. chan \in Seq(Event) /\ Len(chan) \in Nat
        BY DEF WatchType
      <4> QED
        BY <4>1, <4>2, <3>1, <3>2, BoundsAssumption
    <3>3. CASE ~(Len(chan) < Capacity)
      BY <2>2, <3>3 DEF WatchType
    <3> QED
      BY <3>2, <3>3
  <2>6. UNCHANGED <<kq, overflown>> /\ dropped' \subseteq Files
    BY <1>3, <2>2, <2>3 DEF WatcherSend, WatchType, Hand
  <2> QED
    BY <2>3, <2>4, <2>5, <2>6, NoneAssumption DEF WatchType
<1>4. ASSUME WatcherStore PROVE WatchType'
  <2>1. hand \in Hand
    BY <1>4 DEF WatcherStore, WatchType, Hand
  <2>2. hand.failed \in BOOLEAN
    BY <2>1 DEF Hand
  <2>3. overflown' \in BOOLEAN
    BY <1>4, <2>2 DEF WatcherStore
  <2>4. hand' = None /\ UNCHANGED <<kq, chan, dropped>>
    BY <1>4 DEF WatcherStore
  <2> QED
    BY <2>3, <2>4 DEF WatchType
<1> QED
  BY <1>1, <1>2, <1>3, <1>4, Frames DEF Watcher

LEMMA EndsTypes ==
  ASSUME TypeOK, NEW reason \in Down, NEW stored, stored \in [Files -> {None} \cup Edits],
         Ends(reason, stored), UNCHANGED envVars, TreeType', UNCHANGED restarts,
         strays' \subseteq [file : strayed', edits : {None} \cup Edits], strayed' \subseteq Raw
  PROVE  TypeOK'
<1> USE DEF TypeOK
<1>2. WatchType'
  <2>1. kq' = <<>> /\ hand' = None /\ chan' = <<>> /\ dropped' = {}
    BY DEF Ends
  <2>2. overflown' \in BOOLEAN
    BY DEF Ends
  <2> QED
    BY <2>1, <2>2, BoundsAssumption DEF WatchType
<1>3. MainType'
  BY DEF Ends, MainType, Down
<1>4. DbType'
  BY DEF Ends, DbType
<1>5. ScanType'
  BY DEF Ends, ScanType
<1> QED
  BY <1>2, <1>3, <1>4, <1>5

\* What a program that ends leaves of the exports and copies under way.
LEMMA LeavesWhat ==
  ASSUME TypeOK, NEW over, Leaves(over)
  PROVE  /\ preview' = [f \in Files |-> preview'[f]]
         /\ \A f \in Files : \/ preview'[f] = preview[f]
                           \/ (f \notin Raw /\ job[f] = "export" /\ preview'[f] = 0)
         /\ strayed \subseteq strayed' /\ strayed' \subseteq Raw
         /\ strays' \subseteq [file : strayed', edits : {None} \cup Edits]
<1>1. PICK whole \in SUBSET Underway(Jpg \cup Odd), alive \in SUBSET Underway(Raw) :
        /\ preview' = [f \in Files |-> IF f \in whole THEN 0 ELSE preview[f]]
        /\ strays' = strays \cup {[file |-> f, edits |-> seen[f]] : f \in alive}
        /\ strayed' = strayed \cup alive
  BY DEF Leaves
<1>2. \A f \in whole : f \notin Raw /\ job[f] = "export"
  BY <1>1, FilesAssumption DEF Underway
<1>3. alive \subseteq Raw /\ alive \subseteq Files
  BY <1>1 DEF Underway, Files
<1>4. strays' \subseteq [file : strayed', edits : {None} \cup Edits]
  <2>1. strays \subseteq [file : strayed', edits : {None} \cup Edits]
    BY <1>1 DEF TypeOK, MainType
  <2>2. \A f \in alive : seen[f] \in {None} \cup Edits
    BY <1>3 DEF TypeOK, ScanType
  <2> QED
    BY <1>1, <2>1, <2>2
<1>5. strayed \subseteq strayed' /\ strayed' \subseteq Raw
  BY <1>1, <1>3 DEF TypeOK, MainType
<1> QED
  BY <1>1, <1>2, <1>4, <1>5

LEMMA LeavesTypes ==
  ASSUME TypeOK, NEW over, Leaves(over), UNCHANGED envVars
  PROVE  TreeType'
<1>1. preview' \in [Files -> {None, Partial} \cup Edits]
  BY LeavesWhat, BoundsAssumption DEF TypeOK, TreeType, Edits
<1>2. \A f \in Raw : preview'[f] # Partial
  BY LeavesWhat DEF TypeOK, TreeType, Files
<1> QED
  BY <1>1, <1>2 DEF TypeOK, TreeType, envVars

LEMMA FailsTypes ==
  ASSUME TypeOK, NEW over, Fails(over)
  PROVE  TypeOK'
<1>1. Ends("failed", disk) /\ Leaves(over) /\ UNCHANGED envVars /\ UNCHANGED restarts
  BY DEF Fails
<1>2. disk \in [Files -> {None} \cup Edits] /\ "failed" \in Down
  BY DEF TypeOK, DbType, Down
<1> QED
  BY <1>1, <1>2, EndsTypes, LeavesTypes, LeavesWhat

LEMMA CrashTypes ==
  ASSUME TypeOK, Crash
  PROVE  TypeOK'
<1>1. Ends("crashed", disk) /\ Leaves({}) /\ UNCHANGED envVars /\ UNCHANGED restarts
  BY DEF Crash
<1>2. disk \in [Files -> {None} \cup Edits] /\ "crashed" \in Down
  BY DEF TypeOK, DbType, Down
<1> QED
  BY <1>1, <1>2, EndsTypes, LeavesTypes, LeavesWhat

LEMMA StartTypes ==
  ASSUME TypeOK, Start
  PROVE  TypeOK'
<1> USE DEF TypeOK
<1>1. MainType'
  BY BoundsAssumption DEF Start, MainType, Down
<1>2. UNCHANGED <<envVars, preview>> /\ UNCHANGED watchVars /\ UNCHANGED dbVars
  BY DEF Start
<1>3. ScanType'
  BY DEF Start, ScanType, scanVars
<1> QED
  BY <1>1, <1>2, <1>3, Frames

\* A left-over darktable-cli writes the preview of a raw file.
LEMMA StrayTypes ==
  ASSUME TypeOK, NEW s \in strays, StrayEnds(s)
  PROVE  TypeOK'
<1> USE DEF TypeOK
<1>1. s.file \in Raw /\ s.file \in Files /\ s.edits \in {None} \cup Edits
  BY DEF MainType, Files
<1>2. \E e \in {preview[s.file]} \cup Edits : preview' = [preview EXCEPT ![s.file] = e]
  <2>1. CASE UNCHANGED preview
    BY <1>1, <2>1 DEF TreeType
  <2>2. CASE /\ s.edits = None => src[s.file] \in Xmp
             /\ preview' = [preview EXCEPT ![s.file] =
                               IF s.edits = None THEN src[s.file].edits ELSE s.edits]
    BY <1>1, <2>2 DEF Xmp
  <2> QED
    BY <2>1, <2>2 DEF StrayEnds
<1>3. TreeType'
  <2>1. UNCHANGED envVars
    BY DEF StrayEnds
  <2>2. Partial \notin Edits
    BY NoneAssumption, BoundsAssumption DEF Edits
  <2> QED
    BY <1>1, <1>2, <2>1, <2>2 DEF TreeType, envVars
<1>4. MainType'
  BY DEF StrayEnds, MainType
<1>5. ScanType'
  BY DEF StrayEnds, ScanType, scanVars
<1> QED
  BY <1>3, <1>4, <1>5, Frames DEF StrayEnds

\* create_update_or_clean_one returns to the scan or to the main loop.
LEMMA MakeReturnsTypes ==
  ASSUME TypeOK, NEW f \in Files, MakeReturns(f), UNCHANGED <<stale, restarts, strays, strayed>>,
         seen' \in {seen, [seen EXCEPT ![f] = None]}
  PROVE  MainType' /\ ScanType'
<1>1. MainType'
  BY DEF TypeOK, MakeReturns, MainType, Down
<1>2. ScanType'
  BY DEF TypeOK, MakeReturns, ScanType, Xmp
<1> QED
  BY <1>1, <1>2

LEMMA MakeTypes ==
  ASSUME TypeOK, NEW f \in Files, Make(f)
  PROVE  TypeOK'
<1> USE DEF TypeOK
<1>1. CASE MakeClean(f)
  <2>1. TreeType'
    BY <1>1, NoneAssumption DEF MakeClean, TreeType, envVars
  <2>2. MainType' /\ ScanType'
    BY <1>1, MakeReturnsTypes DEF MakeClean, runVars
  <2> QED
    BY <1>1, <2>1, <2>2, Frames DEF MakeClean
<1>2. CASE MakeNothing(f)
  <2>1. MainType' /\ ScanType'
    BY <1>2, MakeReturnsTypes DEF MakeNothing, runVars
  <2> QED
    BY <1>2, <2>1, Frames DEF MakeNothing
<1>3. CASE MakeBegins(f)
  <2>1. TreeType'
    BY <1>3, NoneAssumption DEF MakeBegins, TreeType, envVars
  <2>2. ScanType'
    BY <1>3 DEF MakeBegins, ScanType, runVars
  <2> QED
    BY <1>3, <2>1, <2>2, Frames DEF MakeBegins
<1>4. CASE MakeEnds(f)
  <2>1. TreeType'
    <3>1. PICK e \in {preview[f], seen[f], 0} : preview' = [preview EXCEPT ![f] = e]
      BY <1>4 DEF MakeEnds
    <3>2. e \in {None, Partial} \cup Edits
      BY BoundsAssumption DEF TreeType, ScanType, Edits
    <3>3. f \in Raw => e # Partial
      BY <1>4, <3>1, NoneAssumption, BoundsAssumption DEF MakeEnds, TreeType, ScanType, Edits
    <3>4. UNCHANGED envVars
      BY <1>4 DEF MakeEnds
    <3> QED
      BY <3>1, <3>2, <3>3, <3>4 DEF TreeType, envVars
  <2>2. DbType'
    BY <1>4 DEF MakeEnds, DbType, ScanType, Xmp
  <2>3. MainType' /\ ScanType'
    BY <1>4, MakeReturnsTypes DEF MakeEnds
  <2> QED
    BY <1>4, <2>1, <2>2, <2>3, Frames DEF MakeEnds
<1>5. CASE CannotMake(f)
  BY <1>5, FailsTypes DEF CannotMake
<1>6. CASE DarktableReads(f)
  <2>1. src[f].edits \in Edits
    BY <1>6 DEF DarktableReads, Xmp
  <2>2. ScanType'
    BY <1>6, <2>1 DEF DarktableReads, ScanType, scanVars
  <2>3. MainType'
    BY <1>6 DEF DarktableReads, MainType
  <2> QED
    BY <1>6, <2>2, <2>3, Frames DEF DarktableReads
<1> QED
  BY <1>1, <1>2, <1>3, <1>4, <1>5, <1>6 DEF Make

LEMMA ScanTypes ==
  ASSUME TypeOK, Scan
  PROVE  TypeOK'
<1> USE DEF TypeOK
<1>1. CASE ScanLists
  <2>1. MainType'
    BY <1>1 DEF ScanLists, MainType, Down, runVars
  <2>2. ScanType'
    BY <1>1 DEF ScanLists, ScanType, runVars
  <2> QED
    BY <1>1, <2>1, <2>2, Frames DEF ScanLists
<1>2. ASSUME NEW f \in Files, ScanReads(f) PROVE TypeOK'
  <2>1. PICK x \in {Absent, Partial} \cup Xmp : read' = [read EXCEPT ![f] = x]
    BY <1>2 DEF ScanReads, Readings, TreeType
  <2>2. job[f] # "export"
    BY <1>2, NoneAssumption DEF ScanReads, ScanType, Xmp, Edits
  <2>3. ScanType'
    BY <1>2, <2>1, <2>2 DEF ScanReads, ScanType, runVars
  <2> QED
    BY <1>2, <2>3, Frames DEF ScanReads
<1>3. ASSUME NEW f \in Files, StaleDecides(f) PROVE TypeOK'
  <2>1. ScanType'
    BY <1>3 DEF StaleDecides, ScanType, runVars
  <2> QED
    BY <1>3, <2>1, Frames DEF StaleDecides
<1>4. ASSUME NEW f \in Files, StaleRemoves(f) PROVE TypeOK'
  <2>1. TreeType'
    BY <1>4, NoneAssumption DEF StaleRemoves, TreeType, envVars
  <2>2. ScanType'
    BY <1>4 DEF StaleRemoves, ScanType, runVars
  <2> QED
    BY <1>4, <2>1, <2>2, Frames DEF StaleRemoves
<1>5. ASSUME NEW f \in Files, ScanFails(f) PROVE TypeOK'
  BY <1>5, FailsTypes DEF ScanFails
<1>6. CASE ScanDone
  <2>1. MainType'
    BY <1>6 DEF ScanDone, MainType, Down, runVars
  <2>2. ScanType'
    BY <1>6 DEF ScanDone, ScanType, runVars
  <2> QED
    BY <1>6, <2>1, <2>2, Frames DEF ScanDone
<1> QED
  BY <1>1, <1>2, <1>3, <1>4, <1>5, <1>6 DEF Scan

\* The steps of the main loop between a scan and the next.
LEMMA LoopTypes ==
  ASSUME TypeOK, Store \/ TakeEvent \/ SeesOverflow \/ SeesImmichOverflow \/ SeesNoOverflow
  PROVE  TypeOK'
<1> USE DEF TypeOK
<1>1. CASE Store
  <2>1. CASE /\ Daemon
             /\ disk' = db
             /\ pc' = "next"
             /\ UNCHANGED <<watchVars, ev, db, scanVars, seen>>
    <3>1. MainType'
      BY <1>1, <2>1 DEF Store, MainType, Down
    <3>2. DbType'
      BY <2>1 DEF DbType
    <3> QED
      BY <1>1, <2>1, <3>1, <3>2, Frames DEF Store, runVars
  <2>2. CASE ~Daemon /\ Ends("complete", db)
    <3>1. TreeType'
      BY <1>1, Frames DEF Store
    <3>2. /\ strays' \subseteq [file : strayed', edits : {None} \cup Edits]
          /\ strayed' \subseteq Raw
      BY <1>1 DEF Store, MainType
    <3> QED
      BY <1>1, <2>2, <3>1, <3>2, EndsTypes DEF Store, DbType, Down
  <2> QED
    BY <1>1, <2>1, <2>2 DEF Store
<1>2. CASE TakeEvent
  <2>1. Head(chan) \in Event /\ Tail(chan) \in Seq(Event) /\ Len(Tail(chan)) <= Capacity
    BY <1>2, BoundsAssumption DEF TakeEvent, WatchType
  <2>2. WatchType'
    BY <1>2, <2>1 DEF TakeEvent, WatchType
  <2>3. MainType'
    BY <1>2, <2>1, NoneAssumption DEF TakeEvent, MainType, Down, runVars
  <2> QED
    BY <1>2, <2>2, <2>3, Frames DEF TakeEvent
<1>3. CASE SeesOverflow
  <2>1. WatchType'
    <3>1. chan' = <<>> /\ UNCHANGED <<kq, hand, overflown>>
      BY <1>3 DEF SeesOverflow
    <3>2. dropped' \subseteq Files
      BY <1>3 DEF SeesOverflow, WatchType
    <3> QED
      BY <3>1, <3>2, BoundsAssumption DEF WatchType
  <2>2. MainType'
    BY <1>3 DEF SeesOverflow, MainType, Down, runVars
  <2> QED
    BY <1>3, <2>1, <2>2, Frames DEF SeesOverflow
<1>4. CASE SeesNoOverflow
  <2>1. MainType'
    BY <1>4 DEF SeesNoOverflow, MainType, Down, runVars
  <2> QED
    BY <1>4, <2>1, Frames DEF SeesNoOverflow
<1>5. CASE SeesImmichOverflow
  <2>1. MainType'
    BY <1>5 DEF SeesImmichOverflow, MainType, Down, runVars
  <2> QED
    BY <1>5, <2>1, Frames DEF SeesImmichOverflow
<1> QED
  BY <1>1, <1>2, <1>3, <1>4, <1>5

LEMMA HandleTypes ==
  ASSUME TypeOK, Handle
  PROVE  TypeOK'
<1> USE DEF TypeOK
<1>1. pc = "handle" => ev \in Event /\ ev.file \in Files
  BY DEF MainType, Event
<1>2. CASE HandleSkips
  <2>1. MainType'
    BY <1>2 DEF HandleSkips, MainType, Down, runVars
  <2> QED
    BY <1>2, <2>1, Frames DEF HandleSkips
<1>3. CASE HandleCleans
  <2>1. TreeType'
    BY <1>1, <1>3, NoneAssumption DEF HandleCleans, TreeType, envVars
  <2>2. MainType'
    BY <1>3 DEF HandleCleans, MainType, Down, runVars
  <2> QED
    BY <1>3, <2>1, <2>2, Frames DEF HandleCleans
<1>4. CASE HandleMakes
  <2>1. MainType'
    BY <1>4 DEF HandleMakes, MainType, Down, runVars
  <2>2. ScanType'
    <3>1. PICK x \in Xmp : read' = [read EXCEPT ![ev.file] = x]
      BY <1>4 DEF HandleMakes
    <3> QED
      BY <1>1, <1>4, <3>1 DEF HandleMakes, ScanType, runVars
  <2> QED
    BY <1>4, <2>1, <2>2, Frames DEF HandleMakes
<1>5. CASE HandleFails
  BY <1>5, FailsTypes DEF HandleFails
<1> QED
  BY <1>2, <1>3, <1>4, <1>5 DEF Handle

LEMMA StepTypes == TypeOK /\ [Next]_vars => TypeOK'
<1> SUFFICES ASSUME TypeOK, [Next]_vars PROVE TypeOK'
  OBVIOUS
<1>1. CASE UNCHANGED vars
  BY <1>1, Frames DEF TypeOK, vars, envVars, watchVars, dbVars, scanVars, runVars
<1>2. CASE Main
  BY <1>2, ScanTypes, LoopTypes, HandleTypes, MakeTypes DEF Main
<1>3. ASSUME NEW f \in Files, MakeFails(f) PROVE TypeOK'
  BY <1>3, FailsTypes DEF MakeFails
<1> QED
  BY <1>1, <1>2, <1>3, UserTypes, WatcherTypes, CrashTypes, StartTypes, StrayTypes DEF Next

\* However the user, the kernel, the watcher thread and the main loop
\* interleave and wherever the program stops and starts again: the channel
\* keeps to its capacity, the main loop has an event in hand exactly while it
\* handles one, and only a sidecar read as rated is exported.
THEOREM TypeCorrect == Spec => []TypeOK
<1>1. Init => TypeOK
  BY InitTypes
<1>2. TypeOK /\ [Next]_vars => TypeOK'
  BY StepTypes
<1> QED
  BY <1>1, <1>2, PTL DEF Spec

-----------------------------------------------------------------------------
(* The futures of a scan                                                   *)

LEMMA FuturesFrame ==
  FuturesInv /\ UNCHANGED <<read, stale, job, seen, pc, ev>> => FuturesInv'
  BY DEF FuturesInv

LEMMA FuturesInit == Init => FuturesInv
  BY NoneAssumption DEF Init, FuturesInv

\* Nothing is in flight.
LEMMA FuturesNone ==
  ASSUME \A f \in Files : /\ read'[f] # Unread /\ stale'[f] = "idle" /\ job'[f] = "idle"
                          /\ seen'[f] = None
  PROVE  FuturesInv'
  BY DEF FuturesInv

LEMMA FuturesFails ==
  ASSUME NEW reason, NEW stored, Ends(reason, stored)
  PROVE  FuturesInv'
  BY NoneAssumption, FuturesNone DEF Ends

\* Away from a scan and from making, nothing is in flight.
LEMMA FuturesQuiet ==
  ASSUME TypeOK, FuturesInv, pc \notin {"scanning", "making"}, UNCHANGED scanVars, UNCHANGED seen
  PROVE  FuturesInv'
<1>1. \A f \in Files : read[f] # Unread /\ stale[f] = "idle" /\ job[f] = "idle" /\ seen[f] = None
  BY DEF FuturesInv
<1> QED
  BY <1>1, FuturesNone DEF scanVars

LEMMA FuturesMakeReturns ==
  ASSUME TypeOK, FuturesInv, NEW f \in Files, job[f] # "idle", MakeReturns(f), UNCHANGED stale,
         read[f] # Unread, \A g \in Files : seen'[g] = IF g = f THEN None ELSE seen[g]
  PROVE  FuturesInv'
<1>1. job' = [job EXCEPT ![f] = "idle"]
  BY DEF MakeReturns
<1>2. CASE pc = "making"
  <2>1. read' = [read EXCEPT ![f] = None]
    BY <1>2 DEF MakeReturns
  <2>2. f = ev.file /\ \A g \in Files : stale[g] = "idle" /\ (g # f => job[g] = "idle" /\ seen[g] = None)
    BY <1>2 DEF FuturesInv
  <2>3. \A g \in Files : read[g] # Unread
    BY <1>2 DEF FuturesInv
  <2> QED
    BY <1>1, <2>1, <2>2, <2>3, FuturesNone, NoneAssumption DEF TypeOK, ScanType
<1>3. CASE pc # "making"
  <2>1. UNCHANGED <<pc, ev, read>> /\ pc = "scanning"
    BY <1>3 DEF MakeReturns, FuturesInv
  <2> QED
    BY <1>1, <2>1 DEF FuturesInv, TypeOK, ScanType
<1> QED
  BY <1>2, <1>3

LEMMA FuturesMake ==
  ASSUME TypeOK, FuturesInv, NEW f \in Files, Make(f)
  PROVE  FuturesInv'
<1>1. Unread \notin Xmp
  BY NoneAssumption, BoundsAssumption DEF Xmp, Edits
<1>2. CASE MakeClean(f) \/ MakeNothing(f)
  <2>1. \A g \in Files : seen'[g] = IF g = f THEN None ELSE seen[g]
    BY <1>2 DEF MakeClean, MakeNothing, FuturesInv, runVars
  <2> QED
    BY <1>1, <1>2, <2>1, FuturesMakeReturns DEF MakeClean, MakeNothing
<1>3. CASE MakeBegins(f)
  BY <1>1, <1>3 DEF MakeBegins, FuturesInv, TypeOK, ScanType, runVars
<1>4. CASE MakeEnds(f)
  <2>1. read[f] # Unread
    BY <1>1, <1>4 DEF MakeEnds, TypeOK, ScanType
  <2>2. \A g \in Files : seen'[g] = IF g = f THEN None ELSE seen[g]
    BY <1>4 DEF MakeEnds, TypeOK, ScanType
  <2> QED
    BY <1>4, <2>1, <2>2, FuturesMakeReturns DEF MakeEnds
<1>5. CASE CannotMake(f)
  BY <1>5, FuturesFails DEF CannotMake, Fails
<1>6. CASE DarktableReads(f)
  BY <1>6 DEF DarktableReads, FuturesInv, TypeOK, ScanType, scanVars
<1> QED
  BY <1>2, <1>3, <1>4, <1>5, <1>6 DEF Make

LEMMA FuturesScan ==
  ASSUME TypeOK, FuturesInv, Scan
  PROVE  FuturesInv'
<1>1. Unread \notin Xmp \cup {None, Absent, Partial}
  BY NoneAssumption, BoundsAssumption DEF Xmp, Edits
<1>2. CASE ScanLists
  <2>1. pc' = "scanning" /\ \A f \in Files : seen'[f] = None
    BY <1>2 DEF ScanLists, FuturesInv, runVars
  <2>2. \A f \in Files : /\ read'[f] = Unread => job'[f] = "check"
                         /\ stale'[f] # "remove"
    BY <1>1, <1>2 DEF ScanLists
  <2> QED
    BY <2>1, <2>2 DEF FuturesInv
<1>3. ASSUME NEW f \in Files, ScanReads(f) PROVE FuturesInv'
  <2>1. UNCHANGED <<pc, ev, stale, job, seen>> /\ read[f] = Unread
    BY <1>3 DEF ScanReads, runVars
  <2>2. PICK x \in Readings(f) : read' = [read EXCEPT ![f] = x]
    BY <1>3 DEF ScanReads
  <2>3. x # Unread /\ stale[f] # "remove"
    BY <1>1, <2>1 DEF TypeOK, TreeType, FuturesInv, Readings
  <2> QED
    BY <2>1, <2>2, <2>3 DEF FuturesInv, TypeOK, ScanType
<1>4. ASSUME NEW f \in Files, StaleDecides(f) PROVE FuturesInv'
  BY <1>4 DEF StaleDecides, FuturesInv, TypeOK, ScanType, runVars
<1>5. ASSUME NEW f \in Files, StaleRemoves(f) PROVE FuturesInv'
  BY <1>5 DEF StaleRemoves, FuturesInv, TypeOK, ScanType, runVars
<1>6. ASSUME NEW f \in Files, ScanFails(f) PROVE FuturesInv'
  BY <1>6, FuturesFails DEF ScanFails, Fails
<1>7. CASE ScanDone
  <2>1. \A f \in Files : seen'[f] = None
    BY <1>7 DEF ScanDone, FuturesInv, runVars
  <2> QED
    BY <1>1, <1>7, <2>1, FuturesNone DEF ScanDone
<1> QED
  BY <1>2, <1>3, <1>4, <1>5, <1>6, <1>7 DEF Scan

LEMMA FuturesHandle ==
  ASSUME TypeOK, FuturesInv, Handle
  PROVE  FuturesInv'
<1>1. CASE HandleSkips \/ HandleCleans
  BY <1>1, FuturesQuiet DEF HandleSkips, HandleCleans, runVars
<1>2. CASE HandleMakes
  <2> DEFINE f == ev.file
  <2>1. /\ pc = "handle" /\ pc' = "making" /\ UNCHANGED <<ev, stale, seen>>
        /\ job' = [job EXCEPT ![f] = "check"]
        /\ \E x \in Xmp : read' = [read EXCEPT ![f] = x]
    BY <1>2 DEF HandleMakes, runVars
  <2>2. \A g \in Files : read[g] # Unread /\ stale[g] = "idle" /\ job[g] = "idle" /\ seen[g] = None
    BY <2>1 DEF FuturesInv
  <2>3. Unread \notin Xmp
    BY NoneAssumption, BoundsAssumption DEF Xmp, Edits
  <2>4. \A g \in Files : read'[g] # Unread /\ stale'[g] = "idle" /\ (g # f => job'[g] = "idle")
                       /\ seen'[g] = None
    BY <2>1, <2>2, <2>3 DEF TypeOK, ScanType
  <2> QED
    BY <2>1, <2>4 DEF FuturesInv
<1>3. CASE HandleFails
  BY <1>3, FuturesFails DEF HandleFails, Fails
<1> QED
  BY <1>1, <1>2, <1>3 DEF Handle

LEMMA FuturesStep ==
  ASSUME TypeOK, FuturesInv, [Next]_vars
  PROVE  FuturesInv'
<1>1. CASE UNCHANGED vars
  BY <1>1, FuturesFrame DEF vars
<1>2. CASE User
  BY <1>2, FuturesFrame
     DEF User, BeginRewrite, EndRewrite, MoveTo, Remove, OtherActivity, Operation, scanVars, runVars
<1>3. CASE Watcher
  BY <1>3, FuturesFrame DEF Watcher, WatcherRead, WatcherSend, WatcherStore, scanVars, runVars
<1>4. CASE Store
  BY <1>4, FuturesFails, FuturesQuiet DEF Store
<1>5. CASE TakeEvent \/ SeesOverflow \/ SeesImmichOverflow \/ SeesNoOverflow
  BY <1>5, FuturesQuiet DEF TakeEvent, SeesOverflow, SeesImmichOverflow, SeesNoOverflow, runVars
<1>6. CASE Main
  BY <1>4, <1>5, <1>6, FuturesScan, FuturesHandle, FuturesMake DEF Main
<1>7. ASSUME NEW f \in Files, MakeFails(f) PROVE FuturesInv'
  BY <1>7, FuturesFails DEF MakeFails, Fails
<1>8. CASE Crash
  BY <1>8, FuturesFails DEF Crash
<1>9. CASE Start
  BY <1>9, FuturesQuiet DEF Start, Down
<1>10. ASSUME NEW s \in strays, StrayEnds(s) PROVE FuturesInv'
  BY <1>10, FuturesFrame DEF StrayEnds, scanVars
<1> QED
  BY <1>1, <1>2, <1>3, <1>6, <1>7, <1>8, <1>9, <1>10 DEF Next

-----------------------------------------------------------------------------
(* The database, the preview and the sidecar                               *)

LEMMA SkipFrame ==
  SkipInv /\ UNCHANGED <<src, newest, read, db, disk, preview, job, seen, strayed>> => SkipInv'
  BY DEF SkipInv

LEMMA SkipInit == Init => SkipInv
<1> SUFFICES ASSUME Init, NEW f \in Files
             PROVE  /\ src[f] \in Xmp => src[f].edits = 0
                    /\ read[f] = None /\ None \notin Xmp /\ newest[f] = 0
                    /\ db[f] \in {None, 0} /\ disk[f] \in {None, 0}
                    /\ preview[f] \in {None, 0}
                    /\ job[f] = "idle" /\ seen[f] = None
  BY DEF SkipInv
<1>1. src[f] \in Xmp => src[f].edits = 0
  <2>1. src[f] \in {Absent} \cup [rated : BOOLEAN, edits : {0}] /\ Absent \notin Xmp
    BY NoneAssumption, BoundsAssumption DEF Init, Xmp, Edits
  <2> QED
    BY <2>1
<1>2. None \notin Xmp
  BY NoneAssumption, BoundsAssumption DEF Xmp, Edits
<1> QED
  BY <1>1, <1>2 DEF Init

\* Newer histories make nothing wrong that was right.
LEMMA SkipGrows ==
  ASSUME TypeOK, SkipInv, UNCHANGED <<read, db, disk, preview, job, seen, strayed>>,
         \A f \in Files : /\ newest'[f] \in Nat /\ newest[f] <= newest'[f]
                          /\ src'[f] \in Xmp => src'[f].edits = newest'[f]
  PROVE  SkipInv'
<1> SUFFICES ASSUME NEW g \in Files
             PROVE  /\ src'[g] \in Xmp => src'[g].edits = newest'[g]
                    /\ read[g] \in Xmp => read[g].edits <= newest'[g]
                    /\ db[g] # None => db[g] <= newest'[g]
                    /\ disk[g] # None => disk[g] <= newest'[g]
                    /\ g \in Raw \ strayed /\ preview[g] # None => preview[g] <= newest'[g]
                    /\ g \in Raw /\ seen[g] # None => seen[g] <= newest'[g]
  BY DEF SkipInv
<1>1. newest[g] \in Nat
  BY BoundsAssumption DEF TypeOK, TreeType, Edits
<1>2. /\ read[g] \in Xmp => read[g].edits \in Nat
      /\ db[g] # None => db[g] \in Nat
      /\ disk[g] # None => disk[g] \in Nat
      /\ g \in Raw /\ preview[g] # None => preview[g] \in Nat
      /\ seen[g] # None => seen[g] \in Nat
  BY BoundsAssumption DEF TypeOK, TreeType, DbType, ScanType, Xmp, Edits
<1> QED
  BY <1>1, <1>2 DEF SkipInv

LEMMA SkipUser ==
  ASSUME "undo" \notin Env, TypeOK, SkipInv, User
  PROVE  SkipInv'
<1>1. UNCHANGED <<read, db, disk, preview, job, seen, strayed>>
  BY DEF User, BeginRewrite, EndRewrite, MoveTo, Remove, OtherActivity, Operation, dbVars, scanVars,
         runVars
<1>2. \A f \in Files : newest[f] \in Nat /\ (src[f] \in Xmp => src[f].edits = newest[f])
  <2>1. newest \in [Files -> Nat]
    BY BoundsAssumption DEF TypeOK, TreeType, Edits
  <2> QED
    BY <2>1 DEF SkipInv
<1>3. ASSUME NEW f \in Files, NEW e \in Edits, BeginRewrite(f, e) PROVE SkipInv'
  <2>1. e \in Nat /\ Partial \notin Xmp
    BY NoneAssumption, BoundsAssumption DEF Xmp, Edits
  <2>2. src' = [src EXCEPT ![f] = Partial] /\ newest' = [newest EXCEPT ![f] = IF e > @ THEN e ELSE @]
    BY <1>3 DEF BeginRewrite
  <2>3. \A g \in Files : /\ newest'[g] \in Nat /\ newest[g] <= newest'[g]
                         /\ src'[g] \in Xmp => src'[g].edits = newest'[g]
    BY <1>2, <2>1, <2>2 DEF TypeOK, TreeType
  <2> QED
    BY <1>1, <2>3, SkipGrows
<1>4. ASSUME NEW f \in Files, NEW x \in Xmp, Saved(f, x) PROVE SkipInv'
  <2>1. newest[f] \in Nat /\ x.edits \in Nat /\ x.edits >= newest[f]
    BY <1>4, BoundsAssumption DEF TypeOK, TreeType, Saved, Xmp, Edits
  <2>2. /\ newest'[f] = x.edits /\ src' = [src EXCEPT ![f] = x]
        /\ \A g \in Files \ {f} : newest'[g] = newest[g]
    BY <1>4, <2>1 DEF Saved, TypeOK, TreeType
  <2>3. \A g \in Files : /\ newest'[g] \in Nat /\ newest[g] <= newest'[g]
                         /\ src'[g] \in Xmp => src'[g].edits = newest'[g]
    BY <1>2, <2>1, <2>2 DEF TypeOK, TreeType
  <2> QED
    BY <1>1, <2>3, SkipGrows
<1>5. ASSUME NEW f \in Files, NEW kind \in {"deleted", "movedFrom"}, Remove(f, kind) PROVE SkipInv'
  BY <1>1, <1>5, NoneAssumption DEF Remove, SkipInv, TypeOK, TreeType, Xmp, Edits
<1>6. ASSUME OtherActivity PROVE SkipInv'
  BY <1>1, <1>6, SkipFrame DEF OtherActivity
<1> QED
  BY <1>3, <1>4, <1>5, <1>6 DEF User, EndRewrite, MoveTo

\* The program ends: what was in memory is the map on disk, or was stored.
LEMMA SkipEnds ==
  ASSUME TypeOK, SkipInv, NEW reason, Ends(reason, disk) \/ Ends(reason, db),
         UNCHANGED envVars, strayed \subseteq strayed',
         \A f \in Files : preview'[f] = preview[f] \/ (f \notin Raw /\ preview'[f] = 0)
  PROVE  SkipInv'
<1>1. /\ UNCHANGED <<src, newest>>
      /\ (db' = disk /\ disk' = disk) \/ (db' = db /\ disk' = db)
      /\ \A f \in Files : read'[f] = None /\ job'[f] = "idle" /\ seen'[f] = None
  BY DEF Ends, envVars
<1>2. None \notin Xmp
  BY NoneAssumption, BoundsAssumption DEF Xmp, Edits
<1> SUFFICES ASSUME NEW f \in Files
             PROVE  /\ src[f] \in Xmp => src[f].edits = newest[f]
                    /\ db'[f] # None => db'[f] <= newest[f]
                    /\ disk'[f] # None => disk'[f] <= newest[f]
                    /\ f \notin Raw => preview'[f] \in {None, Partial, 0}
                    /\ f \in Raw \ strayed' /\ preview'[f] # None =>
                         /\ preview'[f] <= newest[f]
                         /\ db'[f] # None => db'[f] <= preview'[f]
                         /\ disk'[f] # None => disk'[f] <= preview'[f]
  BY <1>1, <1>2 DEF SkipInv
<1>3. f \in Raw \ strayed' => f \in Raw \ strayed /\ preview'[f] = preview[f]
  OBVIOUS
<1> QED
  BY <1>1, <1>3 DEF SkipInv

LEMMA SkipFails ==
  ASSUME TypeOK, SkipInv, NEW over, Fails(over)
  PROVE  SkipInv'
  BY SkipEnds, LeavesWhat DEF Fails

\* Taking a preview away, and forgetting what was read, breaks nothing.
LEMMA SkipRemoves ==
  ASSUME TypeOK, SkipInv, NEW f \in Files,
         preview' = preview \/ preview' = [preview EXCEPT ![f] = None],
         read' = read \/ (seen[f] = None /\ read' = [read EXCEPT ![f] = None]),
         job' = job \/ job' = [job EXCEPT ![f] = "idle"],
         UNCHANGED <<src, newest, db, disk, seen, strayed>>
  PROVE  SkipInv'
<1>1. None \notin Xmp
  BY NoneAssumption, BoundsAssumption DEF Xmp, Edits
<1> SUFFICES ASSUME NEW g \in Files
             PROVE  /\ read'[g] = read[g] \/ (read'[g] = None /\ seen[g] = None)
                    /\ preview'[g] = preview[g] \/ preview'[g] = None
                    /\ job'[g] = job[g] \/ job'[g] = "idle"
  BY <1>1 DEF SkipInv
<1> QED
  BY DEF TypeOK, TreeType, ScanType

LEMMA SkipMake ==
  ASSUME TypeOK, SkipInv, FuturesInv, NEW f \in Files, Make(f)
  PROVE  SkipInv'
<1>1. job[f] = "check" => seen[f] = None
  BY DEF FuturesInv
<1>2. CASE MakeClean(f) \/ MakeNothing(f)
  BY <1>1, <1>2, SkipRemoves DEF MakeClean, MakeNothing, MakeReturns, envVars, dbVars, runVars
<1>3. CASE MakeBegins(f)
  <2>1. /\ UNCHANGED <<src, newest, read, db, disk, seen, strayed>> /\ job' = [job EXCEPT ![f] = "export"]
        /\ preview' = [preview EXCEPT ![f] = IF f \in Raw THEN None ELSE Partial]
    BY <1>3 DEF MakeBegins, envVars, dbVars, runVars
  <2>2. ASSUME NEW g \in Files, g # f PROVE preview'[g] = preview[g] /\ job'[g] = job[g]
    BY <2>1, <2>2 DEF TypeOK, TreeType, ScanType
  <2>3. preview'[f] = IF f \in Raw THEN None ELSE Partial
    BY <2>1 DEF TypeOK, TreeType
  <2> QED
    BY <2>1, <2>2, <2>3 DEF SkipInv
<1>4. CASE DarktableReads(f)
  <2>1. /\ UNCHANGED <<src, newest, read, db, disk, job, preview, strayed>>
        /\ seen' = [seen EXCEPT ![f] = src[f].edits] /\ src[f] \in Xmp /\ job[f] = "export"
    BY <1>4 DEF DarktableReads, envVars, dbVars, scanVars
  <2>2. /\ seen'[f] = newest[f] /\ \A g \in Files \ {f} : seen'[g] = seen[g]
        /\ read[f] \in Xmp /\ newest[f] \in Nat
    BY <2>1, BoundsAssumption DEF SkipInv, TypeOK, ScanType, TreeType, Edits
  <2> QED
    BY <2>1, <2>2 DEF SkipInv
<1>5. CASE MakeEnds(f)
  <2>1. /\ UNCHANGED <<src, newest, disk, strayed>> /\ db' = [db EXCEPT ![f] = read[f].edits]
        /\ job' = [job EXCEPT ![f] = "idle"] /\ seen' = [seen EXCEPT ![f] = None]
        /\ read' = read \/ read' = [read EXCEPT ![f] = None]
        /\ job[f] = "export" /\ (f \in Raw => seen[f] # None)
    BY <1>5 DEF MakeEnds, MakeReturns, envVars
  <2>2. preview' = [preview EXCEPT ![f] = IF f \in Raw THEN (IF preview[f] = None THEN seen[f] ELSE preview[f])
                                                      ELSE 0]
    BY <1>5 DEF MakeEnds
  <2>3. f \in Raw \ strayed => preview[f] = None
    BY <2>1 DEF SkipInv
  <2>4. read[f].edits <= newest[f] /\ newest[f] \in Nat
    BY <2>1, BoundsAssumption DEF TypeOK, ScanType, TreeType, SkipInv, Edits
  <2>5. None \notin Xmp
    BY NoneAssumption, BoundsAssumption DEF Xmp, Edits
  <2>6. ASSUME NEW g \in Files, g # f
        PROVE  /\ preview'[g] = preview[g] /\ db'[g] = db[g] /\ job'[g] = job[g]
               /\ read'[g] = read[g] /\ seen'[g] = seen[g]
    BY <2>1, <2>2, <2>6 DEF TypeOK, TreeType, DbType, ScanType
  <2>7. /\ f \notin Raw => preview'[f] = 0
        /\ f \in Raw \ strayed => preview'[f] = seen[f]
        /\ db'[f] = read[f].edits /\ job'[f] = "idle" /\ read'[f] \in {read[f], None} /\ seen'[f] = None
    BY <2>1, <2>2, <2>3 DEF TypeOK, TreeType, DbType, ScanType
  <2>8. f \in Raw \ strayed =>
          /\ read[f].edits <= seen[f] /\ seen[f] <= newest[f]
          /\ disk[f] # None => disk[f] <= seen[f]
    BY <2>1 DEF SkipInv
  <2> SUFFICES ASSUME NEW g \in Files
               PROVE  /\ src[g] \in Xmp => src[g].edits = newest[g]
                      /\ read'[g] \in Xmp => read'[g].edits <= newest[g]
                      /\ db'[g] # None => db'[g] <= newest[g]
                      /\ disk[g] # None => disk[g] <= newest[g]
                      /\ g \notin Raw => preview'[g] \in {None, Partial, 0}
                      /\ g \in Raw \ strayed /\ preview'[g] # None =>
                           /\ preview'[g] <= newest[g]
                           /\ db'[g] # None => db'[g] <= preview'[g]
                           /\ disk[g] # None => disk[g] <= preview'[g]
                           /\ job'[g] # "export"
                      /\ g \in Raw /\ seen'[g] # None =>
                           /\ read'[g].edits <= seen'[g] /\ seen'[g] <= newest[g]
                           /\ db'[g] # None => db'[g] <= seen'[g]
                           /\ disk[g] # None => disk[g] <= seen'[g]
    BY <2>1 DEF SkipInv
  <2>9. CASE g = f
    BY <2>4, <2>5, <2>7, <2>8, <2>9 DEF SkipInv
  <2>10. CASE g # f
    BY <2>6, <2>10 DEF SkipInv
  <2> QED
    BY <2>9, <2>10
<1>6. CASE CannotMake(f)
  BY <1>6, SkipFails DEF CannotMake
<1> QED
  BY <1>2, <1>3, <1>4, <1>5, <1>6 DEF Make

\* What a sidecar can be read as is no newer than what was saved in it.
LEMMA ReadingsOld ==
  ASSUME TypeOK, SkipInv, NEW f \in Files, NEW x \in Readings(f), x \in Xmp
  PROVE  x.edits <= newest[f]
<1>1. newest[f] \in Nat /\ (src[f] \in Xmp => src[f].edits = newest[f])
  BY BoundsAssumption DEF TypeOK, TreeType, SkipInv, Edits
<1> QED
  BY <1>1 DEF Readings

\* One sidecar is read, for an export that has not begun.
LEMMA SkipReads ==
  ASSUME TypeOK, SkipInv, NEW f \in Files, NEW x \in Readings(f), seen[f] = None,
         read' = [read EXCEPT ![f] = x], job' = job \/ job' = [job EXCEPT ![f] = "check"],
         UNCHANGED <<src, newest, db, disk, preview, seen, strayed>>
  PROVE  SkipInv'
<1>1. /\ read'[f] = x /\ job'[f] \in {job[f], "check"}
      /\ \A g \in Files \ {f} : read'[g] = read[g] /\ job'[g] = job[g]
  BY DEF TypeOK, ScanType
<1>2. x \in Xmp => x.edits <= newest[f]
  BY ReadingsOld
<1> QED
  BY <1>1, <1>2 DEF SkipInv

LEMMA SkipScan ==
  ASSUME TypeOK, SkipInv, FuturesInv, Scan
  PROVE  SkipInv'
<1>1. /\ None \notin Xmp /\ Unread \notin Xmp
  BY NoneAssumption, BoundsAssumption DEF Xmp, Edits
<1>2. CASE ScanLists
  <2>1. /\ UNCHANGED <<src, newest, db, disk, preview, seen, strayed>>
        /\ \A f \in Files : read'[f] \in {None, Unread} /\ job'[f] # "export"
        /\ pc = "scan"
    BY <1>2 DEF ScanLists, envVars, dbVars, runVars
  <2>2. \A f \in Files : seen[f] = None
    BY <2>1 DEF FuturesInv
  <2> QED
    BY <1>1, <2>1, <2>2 DEF SkipInv
<1>3. ASSUME NEW f \in Files, ScanReads(f) PROVE SkipInv'
  <2>1. UNCHANGED <<src, newest, db, disk, preview, job, seen, strayed>> /\ read[f] = Unread
    BY <1>3 DEF ScanReads, envVars, dbVars, runVars
  <2>2. PICK x \in Readings(f) : read' = [read EXCEPT ![f] = x]
    BY <1>3 DEF ScanReads
  <2>3. seen[f] = None
    BY <2>1 DEF FuturesInv
  <2> QED
    BY <2>1, <2>2, <2>3, SkipReads
<1>4. ASSUME NEW f \in Files, StaleDecides(f) PROVE SkipInv'
  BY <1>4, SkipFrame DEF StaleDecides, envVars, dbVars, runVars
<1>5. ASSUME NEW f \in Files, StaleRemoves(f) PROVE SkipInv'
  BY <1>5, SkipRemoves DEF StaleRemoves, envVars, dbVars, runVars
<1>6. ASSUME NEW f \in Files, ScanFails(f) PROVE SkipInv'
  BY <1>6, SkipFails DEF ScanFails
<1>7. CASE ScanDone
  <2>1. /\ UNCHANGED <<src, newest, db, disk, preview, job, seen, strayed>>
        /\ \A f \in Files : read'[f] = None /\ job[f] = "idle"
    BY <1>7 DEF ScanDone, envVars, dbVars, runVars
  <2>2. \A f \in Files : seen[f] = None
    BY <2>1 DEF FuturesInv
  <2> QED
    BY <1>1, <2>1, <2>2 DEF SkipInv
<1> QED
  BY <1>2, <1>3, <1>4, <1>5, <1>6, <1>7 DEF Scan

LEMMA SkipLoop ==
  ASSUME TypeOK, SkipInv, FuturesInv,
         Store \/ TakeEvent \/ SeesOverflow \/ SeesImmichOverflow \/ SeesNoOverflow \/ Handle
  PROVE  SkipInv'
<1>1. CASE Store
  <2>1. CASE disk' = db /\ UNCHANGED <<db, scanVars, seen>>
    BY <1>1, <2>1 DEF Store, SkipInv, envVars, scanVars
  <2>2. CASE Ends("complete", db)
    <3>1. UNCHANGED <<envVars, preview, strayed>>
      BY <1>1 DEF Store
    <3> QED
      BY <2>2, <3>1, SkipEnds
  <2> QED
    BY <1>1, <2>1, <2>2 DEF Store
<1>2. CASE TakeEvent \/ SeesOverflow \/ SeesImmichOverflow \/ SeesNoOverflow
  BY <1>2, SkipFrame DEF TakeEvent, SeesOverflow, SeesImmichOverflow, SeesNoOverflow, envVars, dbVars,
                         scanVars, runVars
<1>3. CASE HandleSkips
  BY <1>3, SkipFrame DEF HandleSkips, envVars, dbVars, scanVars, runVars
<1>4. CASE HandleCleans
  <2>1. ev.file \in Files
    BY <1>4 DEF HandleCleans, TypeOK, MainType, Event
  <2> QED
    BY <1>4, <2>1, SkipRemoves DEF HandleCleans, envVars, dbVars, scanVars, runVars
<1>5. CASE HandleMakes
  <2>1. ev.file \in Files
    BY <1>5 DEF HandleMakes, TypeOK, MainType, Event
  <2>2. /\ UNCHANGED <<src, newest, db, disk, preview, seen, strayed>>
        /\ job' = [job EXCEPT ![ev.file] = "check"] /\ pc = "handle"
    BY <1>5 DEF HandleMakes, envVars, dbVars, runVars
  <2>3. PICK x \in Readings(ev.file) : read' = [read EXCEPT ![ev.file] = x]
    BY <1>5 DEF HandleMakes
  <2>4. seen[ev.file] = None
    BY <2>1, <2>2 DEF FuturesInv
  <2> QED
    BY <2>1, <2>2, <2>3, <2>4, SkipReads
<1>6. CASE HandleFails
  BY <1>6, SkipFails DEF HandleFails
<1> QED
  BY <1>1, <1>2, <1>3, <1>4, <1>5, <1>6 DEF Handle

\* What a left-over darktable-cli writes is excepted.
LEMMA SkipStray ==
  ASSUME TypeOK, SkipInv, NEW s \in strays, StrayEnds(s)
  PROVE  SkipInv'
<1>1. UNCHANGED <<src, newest, read, db, disk, job, seen, strayed>>
  BY DEF StrayEnds, envVars, dbVars, scanVars
<1>2. s.file \in strayed /\ s.file \in Raw
  BY DEF TypeOK, MainType
<1>3. \A f \in Files \ {s.file} : preview'[f] = preview[f]
  BY DEF StrayEnds, TypeOK, TreeType
<1> QED
  BY <1>1, <1>2, <1>3 DEF SkipInv

LEMMA SkipStep ==
  ASSUME "undo" \notin Env, TypeOK, SkipInv, FuturesInv, [Next]_vars
  PROVE  SkipInv'
<1>1. CASE UNCHANGED vars
  BY <1>1, SkipFrame DEF vars
<1>2. CASE Watcher
  BY <1>2, SkipFrame
     DEF Watcher, WatcherRead, WatcherSend, WatcherStore, envVars, dbVars, scanVars, runVars
<1>3. CASE Main
  BY <1>3, SkipScan, SkipLoop, SkipMake DEF Main
<1>4. ASSUME NEW f \in Files, MakeFails(f) PROVE SkipInv'
  BY <1>4, SkipFails DEF MakeFails
<1>5. CASE Crash
  BY <1>5, SkipEnds, LeavesWhat DEF Crash
<1>6. CASE Start
  BY <1>6, SkipFrame DEF Start, envVars, dbVars, scanVars
<1>7. ASSUME NEW s \in strays, StrayEnds(s) PROVE SkipInv'
  BY <1>7, SkipStray
<1> QED
  BY <1>1, <1>2, <1>3, <1>4, <1>5, <1>6, <1>7, SkipUser DEF Next

LEMMA SkipFollows == TypeOK /\ SkipInv => SkipIsRight
<1> SUFFICES ASSUME TypeOK, SkipInv, NEW f \in Raw \ strayed, src[f] \in Xmp, preview[f] # None,
                    src[f].edits \in {db[f], disk[f]}
             PROVE  preview[f] = src[f].edits
  BY DEF SkipIsRight
<1>1. f \in Files /\ src[f].edits \in Nat /\ preview[f] \in Nat
  BY BoundsAssumption DEF TypeOK, TreeType, Xmp, Edits, Files
<1>2. src[f].edits # None
  BY <1>1, NoneAssumption
<1> QED
  BY <1>1, <1>2 DEF SkipInv

\* If the user does not go back in the history, the early return of
\* create_update_or_clean_one is right for raw photos: when the database, in
\* memory or on disk, holds the hash of the edits in the sidecar and there is
\* a preview, the preview shows them.  Crashes between an export and the
\* storing of the database, failed exports, half-written sidecars and changes
\* in the middle of an export included; given that darktable-cli writes its
\* output all at once, and but for the photos with an export that went on
\* after the program.
THEOREM SkipCorrect ==
  ASSUME "undo" \notin Env
  PROVE  Spec => []SkipIsRight
<1> DEFINE IInv == TypeOK /\ SkipInv /\ FuturesInv
<1>1. Init => IInv
  BY InitTypes, SkipInit, FuturesInit
<1>2. IInv /\ [Next]_vars => IInv'
  BY StepTypes, SkipStep, FuturesStep
<1>3. IInv => SkipIsRight
  BY SkipFollows
<1> QED
  BY <1>1, <1>2, <1>3, PTL DEF Spec

-----------------------------------------------------------------------------
(* The queues                                                              *)

\* What the kernel does for one file leaves the events of another in order.
LEMMA EnqueueOther ==
  ASSUME TypeOK, NEW f \in Files, NEW n \in Notice, n.file # f, Enqueue(n), f \notin dropped'
  PROVE  /\ f \notin dropped
         /\ AtKernel(f)' <=> AtKernel(f)
         /\ KernelOrder(f) => KernelOrder(f)'
<1>1. Lost \in Notice /\ Lost.file # f
  BY NoneAssumption DEF Notice, Lost
<1>2. PICK m \in Notice : m.file # f /\ kq' \in {kq, Append(kq, m)}
  BY <1>1 DEF Enqueue
<1>3. kq \in Seq(Notice) /\ f \notin dropped
  BY DEF TypeOK, WatchType, Enqueue
<1>4. CASE kq' = kq
  BY <1>3, <1>4 DEF AtKernel, KernelOrder
<1>5. CASE kq' = Append(kq, m)
  BY <1>2, <1>3, <1>5 DEF AtKernel, KernelOrder
<1> QED
  BY <1>2, <1>3, <1>4, <1>5

LEMMA PostOther ==
  ASSUME TypeOK, NEW f \in Files, NEW g \in Files, g # f, NEW k \in Kinds, Post(g, k),
         f \notin dropped'
  PROVE  /\ f \notin dropped
         /\ AtKernel(f)' <=> AtKernel(f)
         /\ KernelOrder(f) => KernelOrder(f)'
<1>1. CASE Watching /\ Enqueue([file |-> g, mask |-> {k}])
  <2>1. [file |-> g, mask |-> {k}] \in Notice
    BY DEF Notice
  <2> QED
    BY <1>1, <2>1, EnqueueOther
<1>2. ASSUME NEW i \in DOMAIN kq, MayMerge(g, k, i), UNCHANGED dropped,
             kq' = [kq EXCEPT ![i] = [file |-> g, mask |-> @.mask \cup {k}]]
      PROVE  /\ f \notin dropped
             /\ AtKernel(f)' <=> AtKernel(f)
             /\ KernelOrder(f) => KernelOrder(f)'
  <2>1. kq[i].file = g /\ kq'[i].file = g /\ DOMAIN kq' = DOMAIN kq
    BY <1>2 DEF MayMerge, TypeOK, WatchType
  <2>2. \A j \in DOMAIN kq : j # i => kq'[j] = kq[j]
    BY <1>2 DEF TypeOK, WatchType
  <2> QED
    BY <1>2, <2>1, <2>2 DEF AtKernel, KernelOrder
<1>3. CASE ~Watching
  BY <1>3 DEF Post, AtKernel, KernelOrder
<1> QED
  BY <1>1, <1>2, <1>3 DEF Post

\* The event of a save or a move is the last word on its file, whether it is
\* queued or merged, unless the kernel drops it.
LEMMA PostCreates ==
  ASSUME TypeOK, NEW f \in Files, NEW k \in Creating, Watching, Post(f, k), f \notin dropped'
  PROVE  AtKernel(f)' /\ KernelOrder(f)'
<1>1. kq \in Seq(Notice)
  BY DEF TypeOK, WatchType
<1>2. CASE Enqueue([file |-> f, mask |-> {k}])
  <2> DEFINE n == [file |-> f, mask |-> {k}]
  <2>1. kq' = Append(kq, n)
    <3>1. n.file = f /\ f # None
      BY NoneAssumption
    <3> QED
      BY <1>2, <3>1 DEF Enqueue
  <2>2. n.file = f /\ EndsCreating(n.mask)
    BY DEF EndsCreating, InPlace, Creating
  <2> HIDE DEF n
  <2>3. Len(kq) \in Nat /\ DOMAIN kq' = 1 .. Len(kq) + 1 /\ kq'[Len(kq) + 1] = n
    BY <1>1, <2>1
  <2> QED
    BY <2>2, <2>3 DEF AtKernel, KernelOrder
<1>3. ASSUME NEW i \in DOMAIN kq, MayMerge(f, k, i),
             kq' = [kq EXCEPT ![i] = [file |-> f, mask |-> @.mask \cup {k}]]
      PROVE  AtKernel(f)' /\ KernelOrder(f)'
  <2>1. /\ DOMAIN kq' = DOMAIN kq /\ kq'[i] = [file |-> f, mask |-> kq[i].mask \cup {k}]
        /\ \A j \in DOMAIN kq : j # i => kq'[j] = kq[j]
    BY <1>1, <1>3
  <2>2. \A j \in DOMAIN kq' : kq'[j].file = f => j <= i
    BY <1>1, <1>3, <2>1 DEF MayMerge
  <2>3. EndsCreating(kq'[i].mask)
    BY <1>3, <2>1 DEF MayMerge, EndsCreating, InPlace, Creating
  <2>4. i \in DOMAIN kq' /\ kq'[i].file = f
    BY <2>1
  <2>5. AtKernel(f)'
    BY <2>4 DEF AtKernel
  <2>6. KernelOrder(f)'
    BY <2>2, <2>3, <2>4 DEF KernelOrder
  <2> QED
    BY <2>5, <2>6
<1> QED
  BY <1>2, <1>3 DEF Post

-----------------------------------------------------------------------------
(* The last word on a sidecar                                              *)

LEMMA DownStep ==
  ASSUME DownInv, [Next]_vars
  PROVE  DownInv'
<1>1. CASE UNCHANGED vars
  BY <1>1 DEF vars, DownInv
<1>2. CASE User
  <2>1. UNCHANGED <<hand, chan, pc>>
    BY <1>2 DEF User, BeginRewrite, EndRewrite, MoveTo, Remove, OtherActivity, Operation
  <2>2. pc \in Down => kq' = kq
    BY <1>2 DEF User, BeginRewrite, EndRewrite, MoveTo, Remove, OtherActivity, Post, Watching
  <2> QED
    BY <2>1, <2>2 DEF DownInv
<1>3. CASE Watcher
  BY <1>3 DEF Watcher, WatcherRead, WatcherSend, WatcherStore, DownInv
<1>4. ASSUME NEW reason, NEW stored, Ends(reason, stored) PROVE DownInv'
  BY <1>4 DEF Ends, DownInv
<1>5. CASE Scan
  BY <1>4, <1>5 DEF Scan, ScanLists, ScanReads, StaleDecides, StaleRemoves, ScanFails, ScanDone,
                    Fails, watchVars, DownInv, Down
<1>6. CASE Store \/ TakeEvent \/ SeesOverflow \/ SeesImmichOverflow \/ SeesNoOverflow
  BY <1>4, <1>6 DEF Store, TakeEvent, SeesOverflow, SeesImmichOverflow, SeesNoOverflow, watchVars, DownInv, Down
<1>7. CASE Handle
  BY <1>4, <1>7 DEF Handle, HandleSkips, HandleCleans, HandleMakes, HandleFails, Fails, watchVars,
                    DownInv, Down
<1>8. ASSUME NEW f \in Files, Make(f) PROVE DownInv'
  BY <1>4, <1>8 DEF Make, MakeClean, MakeNothing, MakeBegins, MakeEnds, CannotMake, MakeReturns,
                    DarktableReads, Fails, watchVars, DownInv, Down
<1>9. ASSUME NEW f \in Files, MakeFails(f) PROVE DownInv'
  BY <1>4, <1>9 DEF MakeFails, Fails
<1>10. CASE Crash
  BY <1>4, <1>10 DEF Crash
<1>11. CASE Start
  BY <1>11 DEF Start, DownInv, Down
<1>12. ASSUME NEW s \in strays, StrayEnds(s) PROVE DownInv'
  BY <1>12 DEF StrayEnds, watchVars, DownInv
<1> QED
  BY <1>1, <1>2, <1>3, <1>5, <1>6, <1>7, <1>8, <1>9, <1>10, <1>11, <1>12 DEF Next, Main

\* What the user and the kernel do to the queue, seen from one file.
LEMMA UserKeeps ==
  ASSUME TypeOK, User, NEW f \in Files, Daemon, pc \notin Down, src'[f] \in Xmp, f \notin dropped'
  PROVE  \/ AtKernel(f)' /\ KernelOrder(f)'
         \/ /\ src'[f] = src[f] /\ f \notin dropped
            /\ AtKernel(f)' <=> AtKernel(f)
            /\ KernelOrder(f) => KernelOrder(f)'
<1> DEFINE Saw   == AtKernel(f)' /\ KernelOrder(f)'
           Stays == /\ src'[f] = src[f] /\ f \notin dropped
                    /\ AtKernel(f)' <=> AtKernel(f)
                    /\ KernelOrder(f) => KernelOrder(f)'
<1>1. Absent \notin Xmp /\ Partial \notin Xmp
  BY NoneAssumption, BoundsAssumption DEF Xmp, Edits
<1>2. Watching
  BY DEF Watching
<1>3. src \in [Files -> {Absent, Partial} \cup Xmp]
  BY DEF TypeOK, TreeType
<1>4. ASSUME NEW g \in Files, NEW e \in Edits, BeginRewrite(g, e) PROVE Stays
  <2>1. g # f
    BY <1>1, <1>3, <1>4 DEF BeginRewrite
  <2> QED
    BY <1>3, <1>4, <2>1 DEF BeginRewrite, AtKernel, KernelOrder
<1>5. ASSUME NEW g \in Files, NEW x \in Xmp, NEW k \in Creating, Saved(g, x), Post(g, k) PROVE Saw \/ Stays
  <2>1. CASE g = f
    BY <1>2, <1>5, <2>1, PostCreates
  <2>2. CASE g # f
    <3>1. src'[f] = src[f]
      BY <1>3, <1>5, <2>2 DEF Saved
    <3> QED
      BY <1>5, <2>2, <3>1, PostOther DEF Creating, Kinds
  <2> QED
    BY <2>1, <2>2
<1>6. ASSUME NEW g \in Files, NEW k \in {"deleted", "movedFrom"}, Remove(g, k) PROVE Stays
  <2>1. g # f /\ src'[f] = src[f]
    BY <1>1, <1>3, <1>6 DEF Remove
  <2> QED
    BY <1>6, <2>1, PostOther DEF Remove, Kinds
<1>7. ASSUME OtherActivity PROVE Stays
  <2>1. Irrelevant \in Notice /\ Irrelevant.file # f
    BY NoneAssumption DEF Notice, Irrelevant
  <2> QED
    BY <1>7, <2>1, EnqueueOther DEF OtherActivity
<1> QED
  BY <1>4, <1>5, <1>6, <1>7 DEF User, EndRewrite, MoveTo, Creating

LEMMA LostUser ==
  ASSUME TypeOK, LastWord, User, NEW f \in Files, Daemon, pc' \notin Down,
         src'[f] \in Xmp, f \notin dropped'
  PROVE  LastWordCreates(f)' /\ ReadIsFresh(f)'
<1>1. UNCHANGED <<hand, chan, pc, ev, read>>
  BY DEF User, BeginRewrite, EndRewrite, MoveTo, Remove, OtherActivity, Operation, scanVars
<1>2. CASE AtKernel(f)' /\ KernelOrder(f)'
  BY <1>2 DEF LastWordCreates, ReadIsFresh, WatcherOrder, ChannelOrder, LoopOrder, Pending
<1>3. CASE /\ src'[f] = src[f] /\ f \notin dropped
           /\ AtKernel(f)' <=> AtKernel(f)
           /\ KernelOrder(f) => KernelOrder(f)'
  <2>1. LastWordCreates(f) /\ ReadIsFresh(f)
    BY <1>1, <1>3 DEF LastWord
  <2>2. (AtWatcher(f)' <=> AtWatcher(f)) /\ (AtChannel(f)' <=> AtChannel(f))
    BY <1>1 DEF AtWatcher, AtChannel
  <2>3. Pending(f)' <=> Pending(f)
    BY <1>3, <2>2 DEF Pending
  <2> QED
    BY <1>1, <1>3, <2>1, <2>2, <2>3
       DEF LastWordCreates, ReadIsFresh, WatcherOrder, ChannelOrder, LoopOrder
<1> QED
  BY <1>1, <1>2, <1>3, UserKeeps

\* The watcher thread passes the events of a file on in their order.
LEMMA LostWatcherRead ==
  ASSUME TypeOK, WatcherRead, NEW f \in Files, src[f] \in Xmp, LastWordCreates(f)
  PROVE  LastWordCreates(f)' /\ (Pending(f) => Pending(f)')
<1> DEFINE n == Head(kq)
<1>1. kq \in Seq(Notice) /\ kq # <<>> /\ hand = None /\ kq' = Tail(kq)
  BY DEF WatcherRead, TypeOK, WatchType
<1>2. UNCHANGED <<chan, pc, ev>>
  BY DEF WatcherRead
<1>3. /\ DOMAIN kq = 1 .. Len(kq) /\ Len(kq) \in Nat \ {0}
      /\ DOMAIN kq' = 1 .. Len(kq) - 1
      /\ \A i \in 1 .. Len(kq) - 1 : kq'[i] = kq[i + 1]
      /\ n = kq[1]
  BY <1>1
<1>4. Absent \notin Xmp /\ f # None
  BY NoneAssumption, BoundsAssumption DEF Xmp, Edits
<1>5. /\ hand' # None /\ hand'.file = n.file
      /\ n.file = f => hand'.todo = n.mask
  <2>1. hand' = [file |-> n.file,
                 todo |-> IF n.file # None /\ src[n.file] # Absent THEN n.mask ELSE {},
                 failed |-> n = Lost]
    BY DEF WatcherRead
  <2>2. hand' # None
    <3>1. n \in Notice
      BY <1>1
    <3>2. hand' \in Hand
      BY <2>1, <3>1 DEF Hand, Notice, Irrelevant, Lost
    <3> QED
      BY <3>2, NoneAssumption
  <2> QED
    BY <1>4, <2>1, <2>2
<1>6. ~AtWatcher(f)
  BY <1>1 DEF AtWatcher
<1> HIDE DEF n
<1>7. KernelOrder(f)'
  <2> SUFFICES ASSUME NEW i \in 1 .. Len(kq) - 1, kq'[i].file = f
               PROVE  \E j \in 1 .. Len(kq) - 1 : i <= j /\ kq'[j].file = f /\ EndsCreating(kq'[j].mask)
    BY <1>3 DEF KernelOrder
  <2>1. i + 1 \in DOMAIN kq /\ kq[i + 1].file = f
    BY <1>3
  <2>2. PICK j \in DOMAIN kq : i + 1 <= j /\ kq[j].file = f /\ EndsCreating(kq[j].mask)
    BY <2>1 DEF LastWordCreates, KernelOrder
  <2>3. j - 1 \in 1 .. Len(kq) - 1 /\ i <= j - 1 /\ kq'[j - 1] = kq[j]
    BY <1>3, <2>2
  <2> QED
    BY <2>2, <2>3
<1>8. n.file = f => AtKernel(f)' \/ EndsCreating(n.mask)
  <2> SUFFICES ASSUME n.file = f PROVE AtKernel(f)' \/ EndsCreating(n.mask)
    OBVIOUS
  <2>1. PICK j \in DOMAIN kq : kq[j].file = f /\ EndsCreating(kq[j].mask)
    BY <1>3 DEF LastWordCreates, KernelOrder
  <2>2. CASE j = 1
    BY <1>3, <2>1, <2>2
  <2>3. CASE j # 1
    <3>1. j - 1 \in DOMAIN kq' /\ kq'[j - 1] = kq[j]
      BY <1>3, <2>3
    <3> QED
      BY <2>1, <3>1 DEF AtKernel
  <2> QED
    BY <2>2, <2>3
<1>9. AtKernel(f) => AtKernel(f)' \/ n.file = f
  <2> SUFFICES ASSUME NEW i \in DOMAIN kq, kq[i].file = f, n.file # f PROVE AtKernel(f)'
    BY DEF AtKernel
  <2>1. i - 1 \in DOMAIN kq' /\ kq'[i - 1] = kq[i]
    BY <1>3
  <2> QED
    BY <2>1 DEF AtKernel
<1>10. AtKernel(f) => AtKernel(f)' \/ AtWatcher(f)'
  BY <1>5, <1>8, <1>9 DEF AtWatcher, EndsCreating
<1>11. WatcherOrder(f)'
  BY <1>5, <1>8 DEF WatcherOrder, AtWatcher
<1>12. ChannelOrder(f)'
  BY <1>2, <1>6, <1>10 DEF ChannelOrder, LastWordCreates
<1>13. Pending(f) => Pending(f)'
  BY <1>2, <1>6, <1>10 DEF Pending, AtChannel
<1>14. LoopOrder(f)'
  BY <1>2, <1>13 DEF LoopOrder, LastWordCreates
<1> QED
  BY <1>7, <1>11, <1>12, <1>13, <1>14 DEF LastWordCreates

LEMMA LostWatcherSend ==
  ASSUME TypeOK, WatcherSend, NEW f \in Files, f \notin dropped', LastWordCreates(f)
  PROVE  /\ f \notin dropped
         /\ LastWordCreates(f)'
         /\ Pending(f) => Pending(f)'
<1>1. hand \in Hand
  BY DEF WatcherSend, TypeOK, WatchType
<1>2. PICK k \in hand.todo :
        /\ \A j \in hand.todo : Rank[k] <= Rank[j]
        /\ IF Len(chan) < Capacity
             THEN /\ chan' = Append(chan, [file |-> hand.file, kind |-> k])
                  /\ hand' = [hand EXCEPT !.todo = @ \ {k}]
                  /\ UNCHANGED dropped
             ELSE /\ hand' = [hand EXCEPT !.todo = @ \ {k}, !.failed = TRUE]
                  /\ dropped' = dropped \cup {hand.file}
                  /\ UNCHANGED chan
  BY DEF WatcherSend
<1>3. UNCHANGED <<kq, pc, ev>> /\ hand # None
  BY DEF WatcherSend
<1>4. f \notin dropped
  BY <1>2
<1>5. /\ hand'.file = hand.file /\ hand'.todo = hand.todo \ {k}
      /\ hand' # None
  <2>1. hand' \in Hand /\ hand'.file = hand.file /\ hand'.todo = hand.todo \ {k}
    BY <1>1, <1>2 DEF Hand
  <2> QED
    BY <2>1, NoneAssumption
<1>6. k \in Kinds /\ hand.todo \subseteq Kinds
  BY <1>1, <1>2 DEF Hand
<1>7. (AtKernel(f)' <=> AtKernel(f)) /\ (KernelOrder(f) => KernelOrder(f)')
  BY <1>3 DEF AtKernel, KernelOrder
<1>8. CASE hand.file # f
  <2>1. ~AtWatcher(f) /\ ~AtWatcher(f)'
    BY <1>5, <1>8 DEF AtWatcher
  <2>2. CASE chan' = chan
    BY <1>3, <1>4, <1>7, <2>1, <2>2
       DEF LastWordCreates, WatcherOrder, ChannelOrder, LoopOrder, Pending, AtChannel
  <2>3. CASE chan' = Append(chan, [file |-> hand.file, kind |-> k])
    <3>1. /\ DOMAIN chan = 1 .. Len(chan) /\ Len(chan) \in Nat
          /\ DOMAIN chan' = 1 .. Len(chan) + 1
          /\ \A i \in DOMAIN chan : chan'[i] = chan[i]
          /\ chan'[Len(chan) + 1].file # f
      BY <1>8, <2>3 DEF TypeOK, WatchType
    <3>2. AtChannel(f)' <=> AtChannel(f)
      BY <3>1 DEF AtChannel
    <3>3. ChannelOrder(f)'
      BY <1>7, <2>1, <3>1 DEF LastWordCreates, ChannelOrder
    <3> QED
      BY <1>3, <1>4, <1>7, <2>1, <3>2, <3>3 DEF LastWordCreates, WatcherOrder, LoopOrder, Pending
  <2> QED
    BY <1>2, <2>2, <2>3
<1>9. CASE hand.file = f
  <2>1. chan' = Append(chan, [file |-> f, kind |-> k])
    BY <1>2, <1>9
  <2>2. /\ DOMAIN chan = 1 .. Len(chan) /\ Len(chan) \in Nat
        /\ DOMAIN chan' = 1 .. Len(chan) + 1
        /\ \A i \in DOMAIN chan : chan'[i] = chan[i]
        /\ chan'[Len(chan) + 1] = [file |-> f, kind |-> k]
    BY <2>1 DEF TypeOK, WatchType
  <2>3. Pending(f)'
    BY <2>2 DEF Pending, AtChannel
  <2>4. AtKernel(f) \/ EndsCreating(hand.todo)
    BY <1>2, <1>3, <1>9 DEF LastWordCreates, WatcherOrder, AtWatcher
  <2>5. EndsCreating(hand.todo) =>
          IF hand'.todo = {} THEN k \in Creating ELSE EndsCreating(hand'.todo)
    BY <1>2, <1>5, <1>6 DEF EndsCreating, InPlace, Creating, Kinds, Rank
  <2>6. WatcherOrder(f)'
    BY <1>5, <1>7, <1>9, <2>4, <2>5 DEF WatcherOrder, AtWatcher
  <2>7. AtKernel(f)' \/ AtWatcher(f)' \/ k \in Creating
    BY <1>5, <1>7, <1>9, <2>4, <2>5 DEF AtWatcher
  <2>8. ChannelOrder(f)'
    BY <2>2, <2>7 DEF ChannelOrder
  <2>9. LoopOrder(f)'
    BY <2>3 DEF LoopOrder
  <2> QED
    BY <1>4, <1>7, <2>3, <2>6, <2>8, <2>9 DEF LastWordCreates
<1> QED
  BY <1>8, <1>9

LEMMA LostWatcher ==
  ASSUME TypeOK, LastWord, Watcher, NEW f \in Files, Daemon, pc' \notin Down,
         src'[f] \in Xmp, f \notin dropped'
  PROVE  /\ LastWordCreates(f)' /\ ReadIsFresh(f)'
         /\ f \notin dropped
         /\ Pending(f) => Pending(f)'
<1>1. UNCHANGED <<src, pc, ev, read>>
  BY DEF Watcher, WatcherRead, WatcherSend, WatcherStore, envVars, scanVars
<1>2. f \notin dropped => LastWordCreates(f) /\ ReadIsFresh(f)
  BY <1>1 DEF LastWord
<1>3. CASE WatcherRead
  BY <1>1, <1>2, <1>3, LostWatcherRead DEF WatcherRead, ReadIsFresh
<1>4. CASE WatcherSend
  <2>1. f \notin dropped
    BY <1>4 DEF WatcherSend
  <2> QED
    BY <1>1, <1>2, <1>4, <2>1, LostWatcherSend DEF ReadIsFresh
<1>5. CASE WatcherStore
  <2>1. UNCHANGED <<kq, chan, dropped>> /\ ~AtWatcher(f) /\ ~AtWatcher(f)'
    BY <1>5 DEF WatcherStore, AtWatcher
  <2>2. (AtKernel(f)' <=> AtKernel(f)) /\ (AtChannel(f)' <=> AtChannel(f))
    BY <2>1 DEF AtKernel, AtChannel
  <2>3. Pending(f)' <=> Pending(f)
    BY <2>1, <2>2 DEF Pending
  <2> QED
    BY <1>1, <1>2, <2>1, <2>2, <2>3
       DEF LastWordCreates, KernelOrder, WatcherOrder, ChannelOrder, LoopOrder, ReadIsFresh
<1> QED
  BY <1>3, <1>4, <1>5 DEF Watcher

\* The queues do not move, and no removal is taken in hand.
LEMMA LostStill ==
  ASSUME NEW f \in Files, LastWordCreates(f), UNCHANGED <<kq, hand, chan>>,
         pc' \in {"check", "handle"} => pc \in {"check", "handle"} /\ ev' = ev
  PROVE  LastWordCreates(f)' /\ (Pending(f)' <=> Pending(f))
<1>1. /\ AtKernel(f)' <=> AtKernel(f)
      /\ AtWatcher(f)' <=> AtWatcher(f)
      /\ AtChannel(f)' <=> AtChannel(f)
  BY DEF AtKernel, AtWatcher, AtChannel
<1>2. KernelOrder(f)' /\ WatcherOrder(f)' /\ ChannelOrder(f)'
  BY <1>1 DEF LastWordCreates, KernelOrder, WatcherOrder, ChannelOrder
<1> QED
  BY <1>1, <1>2 DEF LastWordCreates, LoopOrder, Pending

\* The scan sees what a sidecar says when it reads it, and later changes of it
\* are behind in a queue.
LEMMA LostScan ==
  ASSUME TypeOK, Scan, NEW f \in Files, pc' \notin Down, src[f] \in Xmp,
         LastWordCreates(f), ReadIsFresh(f), FuturesInv
  PROVE  LastWordCreates(f)' /\ ReadIsFresh(f)' /\ UNCHANGED <<src, dropped>>
<1>1. \A g \in Files : ~ScanFails(g)
  BY DEF ScanFails, Fails, Ends, Down
<1>2. UNCHANGED <<src, kq, hand, chan, dropped>>
  BY <1>1 DEF Scan, ScanLists, ScanReads, StaleDecides, StaleRemoves, ScanDone, envVars, watchVars
<1>3. pc' \in {"check", "handle"} => pc \in {"check", "handle"} /\ ev' = ev
  BY <1>1 DEF Scan, ScanLists, ScanReads, StaleDecides, StaleRemoves, ScanDone
<1>4. LastWordCreates(f)' /\ (Pending(f)' <=> Pending(f))
  BY <1>2, <1>3, LostStill
<1>5. ASSUME ScanLists PROVE ReadIsFresh(f)'
  <2>1. pc' = "scanning" /\ read'[f] = Unread
    BY <1>5, NoneAssumption, BoundsAssumption DEF ScanLists, Xmp, Edits
  <2> QED
    BY <1>2, <1>4, <2>1 DEF ReadIsFresh
<1>6. ASSUME NEW g \in Files, ScanReads(g) PROVE ReadIsFresh(f)'
  <2>1. pc = "scanning" /\ UNCHANGED pc
    BY <1>6 DEF ScanReads, FuturesInv
  <2>2. read'[f] = read[f] \/ read'[f] = src[f]
    <3>1. src[f] # Partial
      BY NoneAssumption, BoundsAssumption DEF Xmp, Edits
    <3> QED
      BY <1>6, <3>1 DEF ScanReads, Readings, TypeOK, ScanType
  <2> QED
    BY <1>2, <1>4, <2>1, <2>2 DEF ReadIsFresh
<1>7. ASSUME NEW g \in Files, StaleDecides(g) \/ StaleRemoves(g) PROVE ReadIsFresh(f)'
  BY <1>2, <1>4, <1>7 DEF StaleDecides, StaleRemoves, ReadIsFresh
<1>8. ASSUME ScanDone PROVE ReadIsFresh(f)'
  BY <1>4, <1>8 DEF ScanDone, ReadIsFresh
<1>9. ReadIsFresh(f)'
  BY <1>1, <1>5, <1>6, <1>7, <1>8 DEF Scan
<1> QED
  BY <1>2, <1>4, <1>9

LEMMA LostTakeEvent ==
  ASSUME TypeOK, TakeEvent, NEW f \in Files, LastWordCreates(f)
  PROVE  /\ LastWordCreates(f)' /\ ReadIsFresh(f)'
         /\ Pending(f) => Pending(f)' \/ (ev'.file = f /\ ev'.kind \in Creating)
<1>1. /\ chan \in Seq(Event) /\ chan # <<>> /\ chan' = Tail(chan) /\ ev' = Head(chan)
      /\ pc' = "check" /\ UNCHANGED <<kq, hand>>
  BY DEF TakeEvent, TypeOK, WatchType
<1>2. /\ DOMAIN chan = 1 .. Len(chan) /\ Len(chan) \in Nat \ {0}
      /\ DOMAIN chan' = 1 .. Len(chan) - 1
      /\ \A i \in 1 .. Len(chan) - 1 : chan'[i] = chan[i + 1]
      /\ ev' = chan[1]
  BY <1>1
<1>3. (AtKernel(f)' <=> AtKernel(f)) /\ (AtWatcher(f)' <=> AtWatcher(f))
  BY <1>1 DEF AtKernel, AtWatcher
<1>4. ASSUME NEW i \in DOMAIN chan, chan[i].file = f, ~AtKernel(f), ~AtWatcher(f)
      PROVE  \E j \in DOMAIN chan : i <= j /\ chan[j].file = f /\ chan[j].kind \in Creating
  BY <1>4 DEF LastWordCreates, ChannelOrder
<1>5. ChannelOrder(f)'
  <2> SUFFICES ASSUME NEW i \in 1 .. Len(chan) - 1, chan'[i].file = f, ~AtKernel(f), ~AtWatcher(f)
               PROVE  \E j \in 1 .. Len(chan) - 1 :
                        i <= j /\ chan'[j].file = f /\ chan'[j].kind \in Creating
    BY <1>2, <1>3 DEF ChannelOrder
  <2>1. i + 1 \in DOMAIN chan /\ chan[i + 1].file = f
    BY <1>2
  <2>2. PICK j \in DOMAIN chan : i + 1 <= j /\ chan[j].file = f /\ chan[j].kind \in Creating
    BY <1>4, <2>1
  <2>3. j - 1 \in 1 .. Len(chan) - 1 /\ i <= j - 1 /\ chan'[j - 1] = chan[j]
    BY <1>2, <2>2
  <2> QED
    BY <2>2, <2>3
<1>6. ev'.file = f => Pending(f)' \/ ev'.kind \in Creating
  <2> SUFFICES ASSUME ev'.file = f, ~AtKernel(f), ~AtWatcher(f), ev'.kind \notin Creating
               PROVE  AtChannel(f)'
    BY <1>3 DEF Pending
  <2>1. PICK j \in DOMAIN chan : 1 <= j /\ chan[j].file = f /\ chan[j].kind \in Creating
    BY <1>2, <1>4
  <2>2. j # 1
    BY <1>2, <2>1
  <2>3. j - 1 \in DOMAIN chan' /\ chan'[j - 1] = chan[j]
    BY <1>2, <2>2
  <2> QED
    BY <2>1, <2>3 DEF AtChannel
<1>7. AtChannel(f) => AtChannel(f)' \/ ev'.file = f
  <2> SUFFICES ASSUME NEW i \in DOMAIN chan, chan[i].file = f, ev'.file # f PROVE AtChannel(f)'
    BY DEF AtChannel
  <2>1. i - 1 \in DOMAIN chan' /\ chan'[i - 1] = chan[i]
    BY <1>2
  <2> QED
    BY <2>1 DEF AtChannel
<1>8. KernelOrder(f)' /\ WatcherOrder(f)'
  BY <1>1, <1>3 DEF LastWordCreates, KernelOrder, WatcherOrder
<1>9. LoopOrder(f)' /\ ReadIsFresh(f)'
  BY <1>1, <1>6 DEF LoopOrder, ReadIsFresh
<1> QED
  BY <1>3, <1>5, <1>6, <1>7, <1>8, <1>9 DEF LastWordCreates, Pending

\* The rescan: where the channel is cleared, nothing of the file is in it.
LEMMA LostOverflow ==
  ASSUME TypeOK, LastWord, SeesOverflow, NEW f \in Files, Daemon, src[f] \in Xmp, f \notin dropped'
  PROVE  LastWordCreates(f)' /\ ReadIsFresh(f)'
<1>1. chan' = <<>> /\ pc' = "scan" /\ pc = "check" /\ UNCHANGED <<kq, hand>>
  BY DEF SeesOverflow
<1>2. (AtKernel(f)' <=> AtKernel(f)) /\ (AtWatcher(f)' <=> AtWatcher(f))
  BY <1>1 DEF AtKernel, AtWatcher
<1>3. f \in dropped => ~AtKernel(f) /\ ~AtWatcher(f)
  BY DEF SeesOverflow
<1>4. f \notin dropped => KernelOrder(f) /\ WatcherOrder(f)
  BY <1>1 DEF LastWord, LastWordCreates, Down
<1>5. KernelOrder(f)' /\ WatcherOrder(f)'
  BY <1>1, <1>2, <1>3, <1>4 DEF KernelOrder, WatcherOrder, AtKernel
<1>6. ChannelOrder(f)' /\ LoopOrder(f)' /\ ReadIsFresh(f)'
  BY <1>1 DEF ChannelOrder, LoopOrder, ReadIsFresh
<1> QED
  BY <1>5, <1>6 DEF LastWordCreates

LEMMA LostMake ==
  ASSUME TypeOK, FuturesInv, NEW g \in Files, Make(g) \/ MakeFails(g), NEW f \in Files,
         pc' \notin Down, LastWordCreates(f), ReadIsFresh(f)
  PROVE  LastWordCreates(f)' /\ ReadIsFresh(f)' /\ UNCHANGED <<src, dropped, kq, hand, chan>>
<1>1. ~CannotMake(g) /\ ~MakeFails(g)
  BY DEF CannotMake, MakeFails, Fails, Ends, Down
<1>2. UNCHANGED <<src, dropped, kq, hand, chan>> /\ pc \in {"scanning", "making"}
  BY <1>1 DEF Make, MakeClean, MakeNothing, MakeBegins, MakeEnds, DarktableReads, envVars, watchVars,
            FuturesInv
<1>3. UNCHANGED <<pc, ev, read>> \/ pc' = "store"
  BY <1>1 DEF Make, MakeClean, MakeNothing, MakeBegins, MakeEnds, MakeReturns, DarktableReads, scanVars
<1>4. LastWordCreates(f)' /\ (Pending(f)' <=> Pending(f))
  BY <1>2, <1>3, LostStill
<1> QED
  BY <1>2, <1>3, <1>4 DEF ReadIsFresh

LEMMA LostHandle ==
  ASSUME TypeOK, Handle, NEW f \in Files, src[f] \in Xmp, pc' \notin Down,
         LastWordCreates(f), ReadIsFresh(f)
  PROVE  LastWordCreates(f)' /\ ReadIsFresh(f)' /\ UNCHANGED <<src, dropped, kq, hand, chan>>
<1>1. ~HandleFails
  BY DEF HandleFails, Fails, Ends, Down
<1>2. UNCHANGED <<src, dropped, kq, hand, chan>> /\ pc' \in {"store", "making"}
  BY <1>1 DEF Handle, HandleSkips, HandleCleans, HandleMakes, envVars, watchVars
<1>3. LastWordCreates(f)' /\ (Pending(f)' <=> Pending(f))
  BY <1>2, LostStill
<1>4. pc' = "making" /\ ev'.file = f => read'[f] = src[f]
  <2>1. src[f] # Partial
    BY NoneAssumption, BoundsAssumption DEF Xmp, Edits
  <2> QED
    BY <1>1, <2>1 DEF Handle, HandleSkips, HandleCleans, HandleMakes, Readings, TypeOK, ScanType
<1> QED
  BY <1>2, <1>3, <1>4 DEF ReadIsFresh

LEMMA LostStep ==
  ASSUME TypeOK, FuturesInv, DownInv, LastWord, [Next]_vars
  PROVE  LastWord'
<1> SUFFICES ASSUME Daemon, pc' \notin Down, NEW f \in Files, src'[f] \in Xmp, f \notin dropped'
             PROVE  LastWordCreates(f)' /\ ReadIsFresh(f)'
  BY DEF LastWord
<1>1. CASE UNCHANGED vars
  <2>1. LastWordCreates(f) /\ ReadIsFresh(f)
    BY <1>1 DEF LastWord, vars
  <2>2. LastWordCreates(f)' /\ (Pending(f)' <=> Pending(f))
    BY <1>1, <2>1, LostStill DEF vars
  <2> QED
    BY <1>1, <2>1, <2>2 DEF ReadIsFresh, vars
<1>2. CASE User
  BY <1>2, LostUser
<1>3. CASE Watcher
  BY <1>3, LostWatcher
<1>4. CASE Scan
  <2>1. \A g \in Files : ~ScanFails(g)
    BY DEF ScanFails, Fails, Ends, Down
  <2>2. UNCHANGED <<src, dropped>>
    BY <1>4, <2>1 DEF Scan, ScanLists, ScanReads, StaleDecides, StaleRemoves, ScanDone,
                      envVars, watchVars
  <2>3. pc \in {"scan", "scanning"}
    BY <1>4, <2>1 DEF Scan, ScanLists, ScanReads, StaleDecides, StaleRemoves, ScanDone, FuturesInv
  <2>4. LastWordCreates(f) /\ ReadIsFresh(f)
    BY <2>2, <2>3 DEF LastWord, Down
  <2> QED
    BY <1>4, <2>2, <2>4, LostScan
<1>5. CASE Store
  <2>1. pc = "store" /\ pc' = "next" /\ UNCHANGED <<src, dropped, kq, hand, chan>>
    BY <1>5 DEF Store, envVars, watchVars
  <2>2. LastWordCreates(f)
    BY <2>1 DEF LastWord, Down
  <2>3. LastWordCreates(f)'
    BY <2>1, <2>2, LostStill
  <2> QED
    BY <2>1, <2>3 DEF ReadIsFresh
<1>6. CASE TakeEvent
  BY <1>6, LostTakeEvent DEF LastWord, TakeEvent, envVars, Down
<1>7. CASE SeesOverflow
  BY <1>7, LostOverflow DEF SeesOverflow, envVars
<1>8. CASE SeesNoOverflow
  <2>1. pc = "check" /\ pc' = "handle" /\ UNCHANGED <<src, dropped, kq, hand, chan, ev>>
    BY <1>8 DEF SeesNoOverflow, envVars, watchVars
  <2>2. LastWordCreates(f)
    BY <2>1 DEF LastWord, Down
  <2>3. LastWordCreates(f)'
    BY <2>1, <2>2, LostStill
  <2> QED
    BY <2>1, <2>3 DEF ReadIsFresh
<1>9. CASE Handle
  <2>1. ~HandleFails
    BY DEF HandleFails, Fails, Ends, Down
  <2>2. pc = "handle" /\ UNCHANGED <<src, dropped>>
    BY <1>9, <2>1 DEF Handle, HandleSkips, HandleCleans, HandleMakes, envVars, watchVars
  <2>3. LastWordCreates(f) /\ ReadIsFresh(f)
    BY <2>2 DEF LastWord, Down
  <2> QED
    BY <1>9, <2>2, <2>3, LostHandle
<1>10. ASSUME NEW g \in Files, Make(g) \/ MakeFails(g) PROVE LastWordCreates(f)' /\ ReadIsFresh(f)'
  <2>1. ~CannotMake(g) /\ ~MakeFails(g)
    BY DEF CannotMake, MakeFails, Fails, Ends, Down
  <2>2. pc \in {"scanning", "making"} /\ UNCHANGED <<src, dropped>>
    BY <1>10, <2>1 DEF Make, MakeClean, MakeNothing, MakeBegins, MakeEnds, DarktableReads, FuturesInv,
                       envVars, watchVars
  <2>3. LastWordCreates(f) /\ ReadIsFresh(f)
    BY <2>2 DEF LastWord, Down
  <2> QED
    BY <1>10, <2>2, <2>3, LostMake
<1>11. CASE Crash
  BY <1>11 DEF Crash, Ends, Down
<1>12. CASE Start
  <2>1. kq' = <<>> /\ hand' = None /\ chan' = <<>> /\ pc' = "scan"
    BY <1>12 DEF Start, DownInv, watchVars
  <2> QED
    BY <2>1 DEF LastWordCreates, KernelOrder, WatcherOrder, AtWatcher, ChannelOrder, LoopOrder,
                ReadIsFresh
<1>13. CASE SeesImmichOverflow
  <2>1. pc = "check" /\ pc' = "scan" /\ UNCHANGED <<src, dropped, kq, hand, chan>>
    BY <1>13 DEF SeesImmichOverflow, envVars, watchVars
  <2>2. LastWordCreates(f)
    BY <2>1 DEF LastWord, Down
  <2>3. LastWordCreates(f)'
    BY <2>1, <2>2, LostStill
  <2> QED
    BY <2>1, <2>3 DEF ReadIsFresh
<1>14. ASSUME NEW s \in strays, StrayEnds(s) PROVE LastWordCreates(f)' /\ ReadIsFresh(f)'
  <2>1. UNCHANGED <<src, dropped, kq, hand, chan, pc, ev, read>>
    BY <1>14 DEF StrayEnds, envVars, watchVars, scanVars
  <2>2. LastWordCreates(f) /\ ReadIsFresh(f)
    BY <2>1 DEF LastWord
  <2>3. LastWordCreates(f)' /\ (Pending(f)' <=> Pending(f))
    BY <2>1, <2>2, LostStill
  <2> QED
    BY <2>1, <2>2, <2>3 DEF ReadIsFresh
<1> QED
  BY <1>1, <1>2, <1>3, <1>4, <1>5, <1>6, <1>7, <1>8, <1>9, <1>10, <1>11, <1>12, <1>13, <1>14
     DEF Next, Main

-----------------------------------------------------------------------------
(* Nothing is lost                                                         *)

\* The queues, and what the program does for one file, stay as they are.
LEMMA KeptStill ==
  ASSUME NEW f \in Files, src'[f] = src[f], preview'[f] = preview[f],
         db'[f] = db[f], strayed \subseteq strayed', Pending(f) => Pending(f)'
  PROVE  /\ Settled(f) \/ Pending(f) => Kept(f)'
         /\ Kept(f) /\ UNCHANGED <<pc, ev>> /\ read'[f] = read[f] /\ job'[f] = job[f] => Kept(f)'
<1>1. Settled(f) => Settled(f)'
  BY DEF Settled, CutOff, Mirrored, Render
<1> QED
  BY <1>1 DEF Kept, InLoop, InScan

LEMMA PendingStill ==
  ASSUME NEW f \in Files, UNCHANGED <<kq, hand, chan>>
  PROVE  Pending(f)' <=> Pending(f)
  BY DEF Pending, AtKernel, AtWatcher, AtChannel

\* Outside of a scan and of making, nothing is in flight.
LEMMA NotInScan ==
  ASSUME FuturesInv, NEW f \in Files, pc \notin {"scan", "scanning", "making"}
  PROVE  ~InScan(f)
  BY DEF FuturesInv, InScan

LEMMA KeptUser ==
  ASSUME TypeOK, KeptInv, User, NEW f \in Files, Daemon, pc' \notin Down,
         src'[f] \in Xmp, f \notin dropped'
  PROVE  Kept(f)'
<1>1. UNCHANGED <<hand, chan, pc, ev, read, job, preview, db, strayed>>
  BY DEF User, BeginRewrite, EndRewrite, MoveTo, Remove, OtherActivity, Operation, scanVars, dbVars,
         runVars
<1>2. CASE AtKernel(f)'
  BY <1>2 DEF Kept, Pending
<1>3. CASE src'[f] = src[f] /\ f \notin dropped /\ (AtKernel(f)' <=> AtKernel(f))
  <2>1. Kept(f)
    BY <1>1, <1>3 DEF KeptInv
  <2>2. Pending(f)' <=> Pending(f)
    BY <1>1, <1>3 DEF Pending, AtWatcher, AtChannel
  <2> QED
    BY <1>1, <1>3, <2>1, <2>2, KeptStill
<1> QED
  BY <1>1, <1>2, <1>3, UserKeeps

LEMMA KeptWatcher ==
  ASSUME TypeOK, LastWord, KeptInv, Watcher, NEW f \in Files, Daemon, pc' \notin Down,
         src'[f] \in Xmp, f \notin dropped'
  PROVE  Kept(f)'
<1>1. UNCHANGED <<src, pc, ev, read, job, preview, db, strayed>>
  BY DEF Watcher, WatcherRead, WatcherSend, WatcherStore, envVars, scanVars, dbVars, runVars
<1>2. f \notin dropped /\ (Pending(f) => Pending(f)')
  BY LostWatcher
<1>3. Kept(f)
  BY <1>1, <1>2 DEF KeptInv
<1> QED
  BY <1>1, <1>2, <1>3, KeptStill

LEMMA KeptScan ==
  ASSUME TypeOK, FuturesInv, Scan, NEW f \in Files, pc' \notin Down, src[f] \in Xmp,
         ReadIsFresh(f), Kept(f)
  PROVE  Kept(f)'
<1>1. \A g \in Files : ~ScanFails(g)
  BY DEF ScanFails, Fails, Ends, Down
<1>2. UNCHANGED <<src, kq, hand, chan, db, strayed>>
  BY <1>1 DEF Scan, ScanLists, ScanReads, StaleDecides, StaleRemoves, ScanDone, envVars, watchVars,
              dbVars, runVars
<1>3. Pending(f)' <=> Pending(f)
  BY <1>2, PendingStill
<1>4. {Absent, Unread, None} \cap Xmp = {} /\ Unread \notin {None, Absent}
  BY NoneAssumption, BoundsAssumption DEF Xmp, Edits
<1>5. ASSUME ScanLists PROVE Kept(f)'
  <2>1. read'[f] = Unread
    BY <1>4, <1>5 DEF ScanLists
  <2> QED
    BY <2>1 DEF Kept, InScan
<1>6. ASSUME NEW g \in Files, ScanReads(g) PROVE Kept(f)'
  <2>1. /\ UNCHANGED <<pc, ev, job, preview>> /\ read[g] = Unread
        /\ \E x \in Readings(g) : read' = [read EXCEPT ![g] = x]
    BY <1>6 DEF ScanReads
  <2>2. CASE g = f
    <3>1. Readings(f) = {src[f]}
      BY NoneAssumption, BoundsAssumption DEF Readings, Xmp, Edits
    <3>2. job'[f] # "idle" /\ read'[f] = src'[f]
      BY <1>2, <2>1, <2>2, <3>1 DEF FuturesInv, TypeOK, ScanType
    <3> QED
      BY <3>2 DEF Kept, InScan
  <2>3. CASE g # f
    <3>1. read'[f] = read[f]
      BY <2>1, <2>3 DEF TypeOK, ScanType
    <3> QED
      BY <1>2, <1>3, <2>1, <3>1, KeptStill
  <2> QED
    BY <2>2, <2>3
<1>7. ASSUME NEW g \in Files, StaleDecides(g) PROVE Kept(f)'
  BY <1>2, <1>3, <1>7, KeptStill DEF StaleDecides
<1>8. ASSUME NEW g \in Files, StaleRemoves(g) PROVE Kept(f)'
  <2>1. UNCHANGED <<pc, ev, job, read>> /\ preview' = [preview EXCEPT ![g] = None] /\ stale[g] = "remove"
    BY <1>8 DEF StaleRemoves
  <2>2. CASE g = f
    <3>1. pc = "scanning" /\ (read[f] \in {None, Absent} \/ (read[f] \in Xmp /\ ~read[f].rated))
      BY <2>1, <2>2 DEF FuturesInv
    <3>2. CASE Pending(f)
      BY <1>3, <3>2 DEF Kept
    <3>3. CASE ~Pending(f)
      <4>1. ~src[f].rated
        BY <1>4, <3>1, <3>3 DEF ReadIsFresh
      <4>2. preview'[f] = None
        BY <2>1, <2>2 DEF TypeOK, TreeType
      <4> QED
        BY <1>2, <4>1, <4>2 DEF Kept, Settled, Mirrored
    <3> QED
      BY <3>2, <3>3
  <2>3. CASE g # f
    <3>1. preview'[f] = preview[f]
      BY <2>1, <2>3 DEF TypeOK, TreeType
    <3> QED
      BY <1>2, <1>3, <2>1, <3>1, KeptStill
  <2> QED
    BY <2>2, <2>3
<1>9. ASSUME ScanDone PROVE Kept(f)'
  <2>1. ~InScan(f) /\ ~InLoop(f)
    BY <1>9 DEF ScanDone, FuturesInv, InScan, InLoop
  <2> QED
    BY <1>2, <1>3, <1>9, <2>1, KeptStill DEF ScanDone, Kept
<1> QED
  BY <1>1, <1>5, <1>6, <1>7, <1>8, <1>9 DEF Scan

LEMMA KeptMake ==
  ASSUME TypeOK, SkipInv, FuturesInv, NEW g \in Files, Make(g) \/ MakeFails(g), NEW f \in Files,
         pc' \notin Down, src[f] \in Xmp, ReadIsFresh(f), Kept(f)
  PROVE  Kept(f)'
<1>1. ~CannotMake(g) /\ ~MakeFails(g)
  BY DEF CannotMake, MakeFails, Fails, Ends, Down
<1>2. /\ UNCHANGED <<src, kq, hand, chan, strayed>> /\ pc \in {"scanning", "making"}
      /\ job[g] # "idle"
  BY <1>1 DEF Make, MakeClean, MakeNothing, MakeBegins, MakeEnds, DarktableReads, envVars, watchVars,
            FuturesInv, runVars
<1>3. Pending(f)' <=> Pending(f)
  BY <1>2, PendingStill
<1>4. CASE g # f
  <2>1. preview'[f] = preview[f] /\ db'[f] = db[f]
    BY <1>1, <1>4 DEF Make, MakeClean, MakeNothing, MakeBegins, MakeEnds, DarktableReads, TypeOK, TreeType, dbVars, DbType
  <2>2. job'[f] = job[f]
    BY <1>1, <1>4 DEF Make, MakeClean, MakeNothing, MakeBegins, MakeEnds, MakeReturns, DarktableReads, scanVars,
            TypeOK, ScanType
  <2>3. UNCHANGED <<pc, ev, read>> \/ pc = "making"
    BY <1>1 DEF Make, MakeClean, MakeNothing, MakeBegins, MakeEnds, MakeReturns, DarktableReads, scanVars
  <2>4. pc = "making" => ~InScan(f)
    BY <1>2, <1>4 DEF FuturesInv, InScan
  <2>5. ~InLoop(f)
    BY <1>2 DEF InLoop
  <2>6. pc = "making" => Settled(f) \/ Pending(f)
    BY <2>4, <2>5 DEF Kept
  <2> QED
    BY <1>2, <1>3, <2>1, <2>2, <2>3, <2>6, KeptStill
<1>5. CASE g = f /\ Pending(f)
  BY <1>3, <1>5 DEF Kept
<1>6. CASE g = f /\ ~Pending(f)
  <2>1. Unread \notin Xmp
    BY NoneAssumption, BoundsAssumption DEF Xmp, Edits
  <2>2. read[f] \in Xmp
    BY <1>1, <1>6 DEF Make, MakeClean, MakeNothing, MakeBegins, MakeEnds, DarktableReads, TypeOK, ScanType
  <2>3. read[f] = src[f]
    BY <1>2, <1>6, <2>1, <2>2 DEF ReadIsFresh, FuturesInv
  <2>4. ASSUME MakeClean(f) PROVE Settled(f)'
    BY <1>2, <2>3, <2>4 DEF MakeClean, Settled, Mirrored, TypeOK, TreeType
  <2>5. ASSUME MakeNothing(f) PROVE Settled(f)'
    <3>1. /\ src[f].rated /\ preview[f] # None /\ db[f] = src[f].edits
          /\ UNCHANGED <<preview, db>>
      BY <2>3, <2>5 DEF MakeNothing, AlreadyExported, dbVars
    <3>2. CASE f \in strayed
      BY <1>2, <3>2 DEF Settled
    <3>3. CASE f \in Raw \ strayed
      <4>1. preview[f] = Render(f, src[f])
        BY <3>1, <3>3, SkipFollows DEF SkipIsRight, Render
      <4> QED
        BY <1>2, <3>1, <4>1 DEF Settled, Mirrored, Render
    <3>4. CASE f \notin Raw
      <4>1. preview[f] \in {Partial, 0}
        BY <3>1, <3>4 DEF SkipInv
      <4> QED
        BY <1>2, <3>1, <3>4, <4>1 DEF Settled, CutOff, Mirrored, Render
    <3> QED
      BY <3>2, <3>3, <3>4
  <2>6. ASSUME MakeBegins(f) PROVE InScan(f)'
    BY <1>2, <2>3, <2>6 DEF MakeBegins, InScan, TypeOK, ScanType
  <2>7. ASSUME MakeEnds(f) PROVE Settled(f)'
    <3>1. src[f].rated /\ job[f] = "export" /\ (f \in Raw => seen[f] # None)
      BY <2>3, <2>7 DEF MakeEnds, TypeOK, ScanType
    <3>2. preview'[f] = IF f \in Raw THEN (IF preview[f] = None THEN seen[f] ELSE preview[f]) ELSE 0
      BY <2>7 DEF MakeEnds, TypeOK, TreeType
    <3>3. f \in Raw \ strayed => preview[f] = None
      BY <3>1 DEF SkipInv
    <3>4. f \in Raw => seen[f] = src[f].edits
      <4>1. f \in Raw => src[f].edits <= seen[f] /\ seen[f] <= newest[f] /\ src[f].edits = newest[f]
        BY <2>3, <3>1 DEF SkipInv
      <4>2. newest[f] \in Nat /\ (f \in Raw => seen[f] \in Nat)
        BY <3>1, BoundsAssumption DEF TypeOK, TreeType, ScanType, Edits
      <4> QED
        BY <4>1, <4>2
    <3>5. f \notin strayed => preview'[f] = Render(f, src[f])
      BY <3>2, <3>3, <3>4 DEF Render
    <3> QED
      BY <1>2, <3>1, <3>5 DEF Settled, Mirrored, Render
  <2>8. ASSUME DarktableReads(f) PROVE InScan(f)'
    BY <1>2, <2>3, <2>8 DEF DarktableReads, InScan, scanVars
  <2> QED
    BY <1>1, <1>6, <2>4, <2>5, <2>6, <2>7, <2>8 DEF Make, Kept
<1> QED
  BY <1>4, <1>5, <1>6

LEMMA KeptHandle ==
  ASSUME TypeOK, FuturesInv, Handle, NEW f \in Files, pc' \notin Down, src[f] \in Xmp,
         LoopOrder(f), Kept(f)
  PROVE  Kept(f)'
<1>1. ~HandleFails
  BY DEF HandleFails, Fails, Ends, Down
<1>2. UNCHANGED <<src, kq, hand, chan, db, strayed>> /\ pc = "handle"
  BY <1>1 DEF Handle, HandleSkips, HandleCleans, HandleMakes, envVars, watchVars, dbVars, runVars
<1>3. Pending(f)' <=> Pending(f)
  BY <1>2, PendingStill
<1>4. ~InScan(f)
  BY <1>2, NotInScan
<1>5. CASE ev.file = f
  <2>1. Absent \notin Xmp
    BY NoneAssumption, BoundsAssumption DEF Xmp, Edits
  <2>2. ASSUME HandleCleans PROVE Kept(f)'
    BY <1>2, <1>3, <1>5, <2>2 DEF HandleCleans, LoopOrder, Kept
  <2>3. ASSUME HandleMakes PROVE Kept(f)'
    <3>1. Readings(f) = {src[f]}
      BY NoneAssumption, BoundsAssumption DEF Readings, Xmp, Edits
    <3>2. job'[f] # "idle" /\ read'[f] = src'[f]
      BY <1>2, <1>5, <2>3, <3>1 DEF HandleMakes, TypeOK, ScanType
    <3> QED
      BY <3>2 DEF Kept, InScan
  <2>4. ~HandleSkips
    BY <1>5, <2>1 DEF HandleSkips
  <2> QED
    BY <1>1, <2>2, <2>3, <2>4 DEF Handle
<1>6. CASE ev.file # f
  <2>1. Settled(f) \/ Pending(f)
    BY <1>4, <1>6 DEF Kept, InLoop
  <2>2. preview'[f] = preview[f]
    BY <1>1, <1>6 DEF Handle, HandleSkips, HandleCleans, HandleMakes, TypeOK, TreeType
  <2> QED
    BY <1>2, <1>3, <2>1, <2>2, KeptStill
<1> QED
  BY <1>5, <1>6

LEMMA KeptStep ==
  ASSUME TypeOK, SkipInv, FuturesInv, LastWord, KeptInv, [Next]_vars
  PROVE  KeptInv'
<1> SUFFICES ASSUME Daemon, pc' \notin Down, NEW f \in Files, src'[f] \in Xmp, f \notin dropped'
             PROVE  Kept(f)'
  BY DEF KeptInv
<1>1. CASE UNCHANGED vars
  <2>1. Kept(f)
    BY <1>1 DEF KeptInv, vars
  <2> QED
    BY <1>1, <2>1, PendingStill, KeptStill DEF vars
<1>2. CASE User
  BY <1>2, KeptUser
<1>3. CASE Watcher
  BY <1>3, KeptWatcher
<1>4. CASE Scan
  <2>1. \A g \in Files : ~ScanFails(g)
    BY DEF ScanFails, Fails, Ends, Down
  <2>2. UNCHANGED <<src, dropped>>
    BY <1>4, <2>1 DEF Scan, ScanLists, ScanReads, StaleDecides, StaleRemoves, ScanDone,
                      envVars, watchVars
  <2>3. pc \in {"scan", "scanning"}
    BY <1>4, <2>1 DEF Scan, ScanLists, ScanReads, StaleDecides, StaleRemoves, ScanDone, FuturesInv
  <2>4. ReadIsFresh(f) /\ Kept(f)
    BY <2>2, <2>3 DEF LastWord, KeptInv, Down
  <2> QED
    BY <1>4, <2>2, <2>4, KeptScan
<1>5. CASE Store \/ SeesNoOverflow
  <2>1. pc \in {"store", "check"} /\ UNCHANGED <<src, dropped, kq, hand, chan, preview, db, strayed>>
    BY <1>5 DEF Store, SeesNoOverflow, envVars, watchVars, dbVars, runVars
  <2>2. Kept(f) /\ ~InScan(f)
    BY <2>1, NotInScan DEF KeptInv, Down
  <2>3. InLoop(f) => InLoop(f)'
    BY <1>5 DEF InLoop, Store, SeesNoOverflow
  <2> QED
    BY <2>1, <2>2, <2>3, PendingStill, KeptStill DEF Kept
<1>6. CASE TakeEvent
  <2>1. pc = "next" /\ pc' = "check" /\ UNCHANGED <<src, dropped, preview, db, strayed>>
    BY <1>6 DEF TakeEvent, envVars, dbVars, runVars
  <2>2. LastWordCreates(f) /\ Kept(f) /\ ~InScan(f) /\ ~InLoop(f)
    BY <2>1, NotInScan DEF LastWord, KeptInv, InLoop, Down
  <2>3. Pending(f) => Pending(f)' \/ InLoop(f)'
    BY <1>6, <2>1, <2>2, LostTakeEvent DEF InLoop
  <2>4. Settled(f) => Settled(f)'
    BY <2>1 DEF Settled, CutOff, Mirrored, Render
  <2> QED
    BY <2>2, <2>3, <2>4 DEF Kept
<1>7. CASE SeesOverflow \/ SeesImmichOverflow \/ Start
  BY <1>7 DEF SeesOverflow, SeesImmichOverflow, Start, Kept, InScan
<1>8. CASE Handle
  <2>1. ~HandleFails
    BY DEF HandleFails, Fails, Ends, Down
  <2>2. pc = "handle" /\ UNCHANGED <<src, dropped>>
    BY <1>8, <2>1 DEF Handle, HandleSkips, HandleCleans, HandleMakes, envVars, watchVars
  <2>3. LoopOrder(f) /\ Kept(f)
    BY <2>2 DEF LastWord, LastWordCreates, KeptInv, Down
  <2> QED
    BY <1>8, <2>2, <2>3, KeptHandle
<1>9. ASSUME NEW g \in Files, Make(g) \/ MakeFails(g) PROVE Kept(f)'
  <2>1. ~CannotMake(g) /\ ~MakeFails(g)
    BY DEF CannotMake, MakeFails, Fails, Ends, Down
  <2>2. pc \in {"scanning", "making"} /\ UNCHANGED <<src, dropped>>
    BY <1>9, <2>1 DEF Make, MakeClean, MakeNothing, MakeBegins, MakeEnds, DarktableReads, FuturesInv,
                      envVars, watchVars
  <2>3. ReadIsFresh(f) /\ Kept(f)
    BY <2>2 DEF LastWord, KeptInv, Down
  <2> QED
    BY <1>9, <2>2, <2>3, KeptMake
<1>10. CASE Crash
  BY <1>10 DEF Crash, Ends, Down
<1>11. ASSUME NEW s \in strays, StrayEnds(s) PROVE Kept(f)'
  <2>1. /\ UNCHANGED <<src, dropped, kq, hand, chan, pc, ev, read, job, db, strayed>>
        /\ s.file \in strayed
        /\ s.file # f => preview'[f] = preview[f]
    BY <1>11 DEF StrayEnds, envVars, watchVars, scanVars, dbVars, TypeOK, MainType, TreeType
  <2>2. Kept(f)
    BY <2>1 DEF KeptInv
  <2>3. CASE s.file = f
    BY <2>1, <2>3 DEF Kept, Settled
  <2>4. CASE s.file # f
    BY <2>1, <2>2, <2>4, PendingStill, KeptStill
  <2> QED
    BY <2>3, <2>4
<1> QED
  BY <1>1, <1>2, <1>3, <1>4, <1>5, <1>6, <1>7, <1>8, <1>9, <1>10, <1>11 DEF Next, Main

LEMMA LossInit == Init => FuturesInv /\ DownInv /\ LastWord /\ KeptInv
<1> SUFFICES ASSUME Init PROVE FuturesInv /\ DownInv /\ LastWord /\ KeptInv
  OBVIOUS
<1>1. pc = "scan" /\ kq = <<>> /\ hand = None /\ chan = <<>>
  BY DEF Init
<1>2. FuturesInv
  BY NoneAssumption DEF Init, FuturesInv
<1>3. DownInv
  BY <1>1 DEF DownInv
<1>4. LastWord
  BY <1>1 DEF LastWord, LastWordCreates, KernelOrder, WatcherOrder, AtWatcher, ChannelOrder,
              LoopOrder, ReadIsFresh
<1>5. KeptInv
  BY <1>1 DEF KeptInv, Kept, InScan
<1> QED
  BY <1>2, <1>3, <1>4, <1>5

LEMMA NothingLostFollows == LastWord /\ KeptInv => NoLostChange
<1> SUFFICES ASSUME LastWord, KeptInv, Daemon, NEW f \in Files, src[f] \in Xmp, pc \notin Down,
                    f \notin dropped
             PROVE  \/ Settled(f)
                    \/ InKernel(f) \/ InHand(f) \/ InChannel(f) \/ InLoop(f) \/ InScan(f)
  BY DEF NoLostChange
<1>1. LastWordCreates(f) /\ Kept(f)
  BY DEF LastWord, KeptInv
<1>2. AtKernel(f) => InKernel(f)
  BY <1>1 DEF LastWordCreates, KernelOrder, AtKernel, InKernel, EndsCreating
<1>3. AtWatcher(f) => InKernel(f) \/ InHand(f)
  BY <1>1, <1>2 DEF LastWordCreates, WatcherOrder, AtWatcher, InHand, EndsCreating
<1>4. AtChannel(f) => InKernel(f) \/ InHand(f) \/ InChannel(f)
  BY <1>1, <1>2, <1>3 DEF LastWordCreates, ChannelOrder, AtChannel, InChannel
<1> QED
  BY <1>1, <1>2, <1>3, <1>4 DEF Kept, Pending

\* While the daemon runs, behind every event of a sidecar that is there, at
\* any place between the kernel and the main loop, another one follows that
\* makes its preview anew, and what the main loop has read of the sidecar is
\* what it says unless an event that tells otherwise is on its way.
THEOREM LastWordHolds == Spec => []LastWord
<1> DEFINE IInv == TypeOK /\ FuturesInv /\ DownInv /\ LastWord
<1>1. Init => IInv
  BY InitTypes, LossInit
<1>2. IInv /\ [Next]_vars => IInv'
  BY StepTypes, FuturesStep, DownStep, LostStep
<1>3. IInv => LastWord
  OBVIOUS
<1> QED
  BY <1>1, <1>2, <1>3, PTL DEF Spec

\* If the user does not go back in the history, no change of a sidecar is
\* lost while the daemon runs: either its preview shows it, or an event that
\* creates the preview or a scan that reads the sidecar is still to come, or
\* a full queue refused an event of it; but for the two cases of Settled, a
\* copy that was cut off and an export that outlived the program.  For any number of files, operations
\* and restarts, any capacity of the queues, and any merging of the events
\* of a file by the kernel.
THEOREM NothingLost ==
  ASSUME "undo" \notin Env
  PROVE  Spec => []NoLostChange
<1> DEFINE IInv == TypeOK /\ SkipInv /\ FuturesInv /\ DownInv /\ LastWord /\ KeptInv
<1>1. Init => IInv
  BY InitTypes, SkipInit, LossInit
<1>2. IInv /\ [Next]_vars => IInv'
  BY StepTypes, SkipStep, FuturesStep, DownStep, LostStep, KeptStep
<1>3. IInv => NoLostChange
  BY NothingLostFollows
<1> QED
  BY <1>1, <1>2, <1>3, PTL DEF Spec

\* Under the same assumption: when the daemon idles, the preview of every
\* sidecar that is there shows what the sidecar says, unless a full queue
\* refused an event of it; with the same two exceptions.
THEOREM IdleUpToDate ==
  ASSUME "undo" \notin Env
  PROVE  Spec => []UpToDate
<1>1. Init => TypeOK /\ FuturesInv
  BY InitTypes, LossInit
<1>2. TypeOK /\ FuturesInv /\ [Next]_vars => TypeOK' /\ FuturesInv'
  BY StepTypes, FuturesStep
<1>3. FuturesInv /\ NoLostChange => UpToDate
  <2> SUFFICES ASSUME FuturesInv, NoLostChange, Daemon, Idle,
                      NEW f \in Files, src[f] \in Xmp, f \notin dropped
               PROVE  Settled(f)
    BY DEF UpToDate
  <2>1. ~InKernel(f) /\ ~InHand(f) /\ ~InChannel(f) /\ ~InLoop(f)
    BY DEF Idle, InKernel, InHand, InChannel, InLoop
  <2>2. ~InScan(f)
    BY DEF Idle, InScan, FuturesInv
  <2> QED
    BY <2>1, <2>2 DEF NoLostChange, Idle, Down
<1> QED
  BY <1>1, <1>2, <1>3, NothingLost, PTL DEF Spec

-----------------------------------------------------------------------------
(* What a scan leaves behind                                               *)

\* How far the futures of a scan have come with the preview of f.
ScannedAt(f) ==
  pc = "scanning" =>
    /\ read[f] \in {Unread, Absent, Partial} => job[f] = "check"
    /\ f \notin strayed =>
         /\ job[f] = "idle" /\ read[f] \in Xmp => (preview[f] # None <=> read[f].rated)
         /\ read[f] = None /\ f \notin Odd /\ preview[f] # None => stale[f] # "idle"

\* The preview shows what was read, or is a cut-off copy nobody will mend.
RightOrCut(f) ==
  \/ preview[f] = Render(f, read[f])
  \/ f \notin Raw /\ preview[f] = Partial /\ db[f] = read[f].edits

\* A sidecar that was read as it is now is shown when its future is done.
ShownAt(f) ==
  pc = "scanning" /\ job[f] = "idle" /\ read[f] \in Xmp /\ read[f].rated
    /\ read[f].edits = newest[f] /\ f \notin strayed => RightOrCut(f)

ScannedInv == \A f \in Files : ScannedAt(f)
ShownInv   == \A f \in Files : ShownAt(f)

\* Nothing happens to the other files.
LEMMA ScannedOthers ==
  ASSUME NEW f \in Files, UNCHANGED <<newest, strayed>>,
         \A g \in Files \ {f} : /\ read'[g] = read[g] /\ job'[g] = job[g] /\ db'[g] = db[g]
                                /\ stale'[g] = stale[g] /\ preview'[g] = preview[g],
         pc' = "scanning" => pc = "scanning"
  PROVE  /\ ScannedInv /\ ScannedAt(f)' => ScannedInv'
         /\ ShownInv /\ ShownAt(f)' => ShownInv'
<1>1. ASSUME NEW g \in Files \ {f}
      PROVE  (ScannedAt(g) => ScannedAt(g)') /\ (ShownAt(g) => ShownAt(g)')
  BY DEF ScannedAt, ShownAt, RightOrCut, Render
<1> QED
  BY <1>1 DEF ScannedInv, ShownInv

LEMMA ScannedMake ==
  ASSUME TypeOK, FuturesInv, ScannedInv, NEW f \in Files, Make(f)
  PROVE  /\ ScannedInv'
         /\ SkipInv /\ ShownInv => ShownInv'
<1> USE DEF envVars, dbVars, runVars
<1>1. CASE pc # "scanning"
  <2>1. pc' # "scanning"
    BY <1>1 DEF Make, MakeClean, MakeNothing, MakeBegins, MakeEnds, DarktableReads, MakeReturns,
                CannotMake, Fails, Ends
  <2> QED
    BY <2>1 DEF ScannedInv, ScannedAt, ShownInv, ShownAt
<1>2. CASE CannotMake(f)
  <2>1. pc' # "scanning"
    BY <1>2 DEF CannotMake, Fails, Ends
  <2> QED
    BY <2>1 DEF ScannedInv, ScannedAt, ShownInv, ShownAt
<1>3. CASE DarktableReads(f)
  <2>1. UNCHANGED <<newest, strayed, pc, read, stale, job, preview, db>>
    BY <1>3 DEF DarktableReads, scanVars
  <2> QED
    BY <2>1 DEF ScannedInv, ScannedAt, ShownInv, ShownAt, RightOrCut, Render
<1>4. CASE pc = "scanning" /\ ~CannotMake(f) /\ ~DarktableReads(f)
  <2>1. /\ UNCHANGED <<src, newest, strayed, pc, read, stale>> /\ read[f] \in Xmp /\ job[f] # "idle"
        /\ \E w \in {"idle", "export"} : job' = [job EXCEPT ![f] = w]
        /\ \E v : preview' = [preview EXCEPT ![f] = v]
        /\ db' = db \/ db' = [db EXCEPT ![f] = read[f].edits]
    <3>1. CASE MakeClean(f) \/ MakeBegins(f)
      BY <1>4, <3>1 DEF MakeClean, MakeBegins, MakeReturns
    <3>2. CASE MakeNothing(f)
      <4>1. preview' = [preview EXCEPT ![f] = preview[f]]
        BY <3>2 DEF MakeNothing, TypeOK, TreeType
      <4> QED
        BY <1>4, <3>2, <4>1 DEF MakeNothing, MakeReturns
    <3>3. CASE MakeEnds(f)
      BY <1>4, <3>3 DEF MakeEnds, MakeReturns, TypeOK, ScanType
    <3> QED
      BY <1>4, <3>1, <3>2, <3>3 DEF Make
  <2>2. /\ \A g \in Files \ {f} : job'[g] = job[g] /\ preview'[g] = preview[g] /\ db'[g] = db[g]
        /\ job'[f] \in {"idle", "export"}
    BY <2>1 DEF TypeOK, TreeType, ScanType, DbType
  <2>3. read[f] \notin {None, Unread, Absent, Partial}
    BY <2>1, NoneAssumption, BoundsAssumption DEF Xmp, Edits
  <2>4. ScannedAt(f)' /\ (SkipInv => ShownAt(f)')
    <3>1. CASE MakeClean(f)
      <4>1. preview'[f] = None /\ ~read[f].rated
        BY <3>1 DEF MakeClean, TypeOK, TreeType
      <4> QED
        BY <2>1, <2>3, <4>1 DEF ScannedAt, ShownAt
    <3>2. CASE MakeNothing(f)
      <4>1. /\ preview'[f] = preview[f] /\ preview[f] # None /\ read[f].rated /\ db[f] = read[f].edits
            /\ db'[f] = db[f]
        BY <3>2 DEF MakeNothing, AlreadyExported
      <4>2. (f \in Raw => preview[f] \in Nat) /\ newest[f] \in Nat /\ db[f] # None
        BY <2>1, <4>1, NoneAssumption, BoundsAssumption DEF TypeOK, TreeType, Edits, Xmp
      <4>3. db[f] \in Nat
        BY <4>2, BoundsAssumption DEF TypeOK, DbType, Edits
      <4>4. SkipInv /\ read[f].edits = newest[f] /\ f \in Raw \ strayed => preview[f] = read[f].edits
        BY <4>1, <4>2, <4>3 DEF SkipInv
      <4>5. SkipInv /\ f \notin Raw => preview[f] \in {0, Partial}
        BY <4>1 DEF SkipInv
      <4> QED
        BY <2>1, <2>3, <4>1, <4>4, <4>5 DEF ScannedAt, ShownAt, RightOrCut, Render
    <3>3. CASE MakeBegins(f)
      <4>1. job'[f] = "export"
        BY <3>3 DEF MakeBegins, TypeOK, ScanType
      <4> QED
        BY <2>1, <2>3, <4>1 DEF ScannedAt, ShownAt
    <3>4. CASE MakeEnds(f)
      <4>1. /\ preview'[f] = IF f \in Raw THEN (IF preview[f] = None THEN seen[f] ELSE preview[f]) ELSE 0
            /\ read[f].rated /\ job[f] = "export" /\ (f \in Raw => seen[f] # None)
        BY <3>4 DEF MakeEnds, TypeOK, TreeType, ScanType
      <4>2. preview'[f] # None
        BY <4>1, NoneAssumption
      <4>3. newest[f] \in Nat /\ (f \in Raw => seen[f] \in Nat)
        BY <4>1, BoundsAssumption DEF TypeOK, TreeType, ScanType, Edits
      <4>4. SkipInv /\ read[f].edits = newest[f] /\ f \in Raw \ strayed => preview'[f] = read[f].edits
        BY <4>1, <4>3 DEF SkipInv
      <4> QED
        BY <2>1, <2>3, <4>1, <4>2, <4>4 DEF ScannedAt, ShownAt, RightOrCut, Render
    <3> QED
      BY <1>4, <3>1, <3>2, <3>3, <3>4 DEF Make
  <2> QED
    BY <2>1, <2>2, <2>4, ScannedOthers
<1> QED
  BY <1>1, <1>2, <1>3, <1>4

LEMMA ScannedScan ==
  ASSUME TypeOK, FuturesInv, ScannedInv, Scan
  PROVE  /\ ScannedInv'
         /\ ShownInv => ShownInv'
<1> USE DEF envVars, dbVars, runVars
<1>1. /\ Unread \notin Xmp /\ None \notin Xmp /\ Absent \notin Xmp /\ Partial \notin Xmp
      /\ None \notin {Unread, Absent, Partial} /\ Unread \notin {Absent, Partial}
  BY NoneAssumption, BoundsAssumption DEF Xmp, Edits
<1>2. CASE ScanLists
  <2>1. /\ \A f \in Files : /\ read'[f] \in {None, Unread} /\ (read'[f] = Unread => job'[f] = "check")
                            /\ preview'[f] # None /\ f \notin Odd => stale'[f] = "check"
    BY <1>1, <1>2 DEF ScanLists
  <2> QED
    BY <1>1, <2>1 DEF ScannedInv, ScannedAt, ShownInv, ShownAt
<1>3. ASSUME NEW f \in Files, ScanReads(f)
      PROVE  ScannedInv' /\ (ShownInv => ShownInv')
  <2>1. /\ UNCHANGED <<newest, strayed, pc, preview, db, stale, job>>
        /\ job[f] = "check"
        /\ \E x \in Readings(f) : x # None /\ read' = [read EXCEPT ![f] = x]
    BY <1>1, <1>3 DEF ScanReads, Readings, FuturesInv, TypeOK, TreeType
  <2>2. read'[f] # None /\ \A g \in Files \ {f} : read'[g] = read[g]
    BY <2>1 DEF TypeOK, ScanType
  <2>3. ScannedAt(f)' /\ ShownAt(f)'
    BY <2>1, <2>2 DEF ScannedAt, ShownAt
  <2> QED
    BY <2>1, <2>2, <2>3, ScannedOthers
<1>4. ASSUME NEW f \in Files, StaleDecides(f)
      PROVE  ScannedInv' /\ (ShownInv => ShownInv')
  <2>1. /\ UNCHANGED <<newest, strayed, pc, preview, db, read, job>>
        /\ stale' = [stale EXCEPT ![f] = IF read[f] \in Xmp /\ read[f].rated THEN "idle" ELSE "remove"]
    BY <1>4 DEF StaleDecides
  <2>2. \A g \in Files \ {f} : stale'[g] = stale[g]
    BY <2>1 DEF TypeOK, ScanType
  <2>3. read[f] = None => stale'[f] # "idle"
    BY <1>1, <2>1 DEF TypeOK, ScanType
  <2>4. ScannedAt(f)' /\ (ShownInv => ShownAt(f)')
    BY <2>1, <2>3 DEF ScannedInv, ScannedAt, ShownInv, ShownAt, RightOrCut, Render
  <2> QED
    BY <2>1, <2>2, <2>4, ScannedOthers
<1>5. ASSUME NEW f \in Files, StaleRemoves(f)
      PROVE  ScannedInv' /\ (ShownInv => ShownInv')
  <2>1. /\ UNCHANGED <<newest, strayed, pc, db, read, job>> /\ stale[f] = "remove"
        /\ preview' = [preview EXCEPT ![f] = None] /\ stale' = [stale EXCEPT ![f] = "idle"]
    BY <1>5 DEF StaleRemoves
  <2>2. /\ \A g \in Files \ {f} : stale'[g] = stale[g] /\ preview'[g] = preview[g]
        /\ preview'[f] = None
    BY <2>1 DEF TypeOK, ScanType, TreeType
  <2>3. read[f] \in Xmp => ~read[f].rated
    BY <1>1, <2>1 DEF FuturesInv
  <2>4. ScannedAt(f)' /\ ShownAt(f)'
    BY <2>1, <2>2, <2>3 DEF ScannedInv, ScannedAt, ShownAt
  <2> QED
    BY <2>1, <2>2, <2>4, ScannedOthers
<1>6. CASE pc' # "scanning"
  BY <1>6 DEF ScannedInv, ScannedAt, ShownInv, ShownAt
<1> QED
  BY <1>2, <1>3, <1>4, <1>5, <1>6 DEF Scan, ScanFails, Fails, Ends, ScanDone

\* What is read as it is now was read so before: edit histories do not go back.
LEMMA ScannedUser ==
  ASSUME TypeOK, ScannedInv, User
  PROVE  /\ ScannedInv'
         /\ SkipInv /\ ShownInv => ShownInv'
<1>1. UNCHANGED <<pc, preview, db, read, stale, job, strayed>>
  BY DEF User, BeginRewrite, EndRewrite, MoveTo, Remove, OtherActivity, Operation, scanVars, dbVars,
         runVars
<1>2. ScannedInv'
  BY <1>1 DEF ScannedInv, ScannedAt
<1>3. ASSUME NEW f \in Files PROVE newest'[f] >= newest[f] /\ newest[f] \in Nat /\ newest'[f] \in Nat
  <2>1. newest[f] \in Nat
    BY BoundsAssumption DEF TypeOK, TreeType, Edits
  <2>2. ASSUME NEW g \in Files, NEW x \in Xmp, Saved(g, x)
        PROVE  newest'[f] = newest[f] \/ (newest'[f] \in Nat /\ newest'[f] > newest[f])
    <3>1. newest' = [newest EXCEPT ![g] = IF x.edits > @ THEN x.edits ELSE @] /\ x.edits \in Nat
      BY <2>2, BoundsAssumption DEF Saved, Xmp, Edits
    <3> QED
      BY <3>1 DEF TypeOK, TreeType
  <2>3. ASSUME NEW g \in Files, NEW e \in Edits, BeginRewrite(g, e)
        PROVE  newest'[f] = newest[f] \/ (newest'[f] \in Nat /\ newest'[f] > newest[f])
    <3>1. newest' = [newest EXCEPT ![g] = IF e > @ THEN e ELSE @] /\ e \in Nat
      BY <2>3, BoundsAssumption DEF BeginRewrite, Edits
    <3> QED
      BY <3>1 DEF TypeOK, TreeType
  <2> QED
    BY <2>1, <2>2, <2>3 DEF User, EndRewrite, MoveTo, Remove, OtherActivity
<1>4. ASSUME SkipInv, ShownInv, NEW f \in Files PROVE ShownAt(f)'
  <2> SUFFICES ASSUME pc = "scanning", job[f] = "idle", read[f] \in Xmp, read[f].rated,
                      read[f].edits = newest'[f], f \notin strayed
               PROVE  RightOrCut(f)
    BY <1>1 DEF ShownAt, RightOrCut, Render
  <2>1. read[f].edits <= newest[f] /\ read[f].edits \in Nat
    BY <1>4, BoundsAssumption DEF SkipInv, Xmp, Edits
  <2>2. read[f].edits = newest[f]
    BY <1>3, <2>1
  <2> QED
    BY <1>4, <2>2 DEF ShownInv, ShownAt
<1> QED
  BY <1>2, <1>4 DEF ShownInv

LEMMA ScannedStep ==
  ASSUME TypeOK, FuturesInv, ScannedInv, [Next]_vars
  PROVE  /\ ScannedInv'
         /\ SkipInv /\ ShownInv => ShownInv'
<1>1. CASE pc' # "scanning"
  BY <1>1 DEF ScannedInv, ScannedAt, ShownInv, ShownAt
<1>2. CASE UNCHANGED <<newest, pc, preview, db, read, stale, job, strayed>>
  BY <1>2 DEF ScannedInv, ScannedAt, ShownInv, ShownAt, RightOrCut, Render
<1>3. CASE Watcher \/ UNCHANGED vars
  BY <1>2, <1>3 DEF Watcher, WatcherRead, WatcherSend, WatcherStore, vars, envVars, scanVars, dbVars, runVars
<1>4. CASE Main
  <2>1. CASE Store \/ TakeEvent \/ SeesOverflow \/ SeesImmichOverflow \/ SeesNoOverflow \/ Handle
    BY <1>1, <2>1 DEF Store, TakeEvent, SeesOverflow, SeesImmichOverflow, SeesNoOverflow, Handle, HandleSkips,
                      HandleCleans, HandleMakes, HandleFails, Fails, Ends
  <2> QED
    BY <1>4, <2>1, ScannedScan, ScannedMake DEF Main
<1>5. CASE Crash \/ Start \/ \E f \in Files : MakeFails(f)
  BY <1>1, <1>5 DEF Crash, Start, MakeFails, Fails, Ends
<1>6. ASSUME NEW s \in strays, StrayEnds(s)
      PROVE  ScannedInv' /\ (SkipInv /\ ShownInv => ShownInv')
  <2>1. /\ UNCHANGED <<newest, pc, db, read, stale, job, strayed>> /\ s.file \in strayed
        /\ \A f \in Files \ {s.file} : preview'[f] = preview[f]
    BY <1>6 DEF StrayEnds, envVars, scanVars, dbVars, TypeOK, MainType, TreeType
  <2>2. ASSUME NEW f \in Files
        PROVE  (ScannedAt(f) => ScannedAt(f)') /\ (ShownAt(f) => ShownAt(f)')
    BY <2>1 DEF ScannedAt, ShownAt, RightOrCut, Render
  <2> QED
    BY <2>2 DEF ScannedInv, ShownInv
<1> QED
  BY <1>3, <1>4, <1>5, <1>6, ScannedUser DEF Next

LEMMA ScannedInit == Init => ScannedInv /\ ShownInv
  BY DEF Init, ScannedInv, ScannedAt, ShownInv, ShownAt

\* A finished scan leaves previews of exactly the sidecars it read as rated,
\* although remove_stale and create_update_or_clean take their turns in any
\* order, and the files change meanwhile; but for the photos with an export
\* that outlived the program.
THEOREM ScansAreExact == Spec => ScanIsExact
<1> DEFINE IInv == TypeOK /\ FuturesInv /\ ScannedInv
<1>1. Init => IInv
  BY InitTypes, LossInit, ScannedInit
<1>2. IInv /\ [Next]_vars => IInv'
  BY StepTypes, FuturesStep, ScannedStep
<1>3. IInv => [ ScanDone => \A f \in (Raw \cup Jpg) \ strayed :
                  (preview[f] # None) = (read[f] \in Xmp /\ read[f].rated) ]_vars
  <2> SUFFICES ASSUME IInv, ScanDone, NEW f \in (Raw \cup Jpg) \ strayed
               PROVE  (preview[f] # None) <=> (read[f] \in Xmp /\ read[f].rated)
    OBVIOUS
  <2>1. f \in Files /\ f \notin Odd /\ stale[f] = "idle" /\ job[f] = "idle" /\ pc = "scanning"
    BY FilesAssumption DEF ScanDone, Files
  <2>2. read[f] = None \/ read[f] \in Xmp
    BY <2>1 DEF ScannedInv, ScannedAt, TypeOK, ScanType
  <2>3. None \notin Xmp
    BY NoneAssumption, BoundsAssumption DEF Xmp, Edits
  <2> QED
    BY <2>1, <2>2, <2>3 DEF ScannedInv, ScannedAt
<1> QED
  BY <1>1, <1>2, <1>3, PTL DEF Spec, ScanIsExact

\* If the user does not go back in the history, a sidecar nobody changed during a
\* scan is mirrored when it is done, whatever the database said before, and also
\* when the sidecar was changed and changed back; but for the two cases of
\* Settled.
THEOREM ScansMirror ==
  ASSUME "undo" \notin Env
  PROVE  Spec => ScanMirrors
<1> DEFINE IInv == TypeOK /\ SkipInv /\ FuturesInv /\ ScannedInv /\ ShownInv
<1>1. Init => IInv
  BY InitTypes, SkipInit, LossInit, ScannedInit
<1>2. IInv /\ [Next]_vars => IInv'
  BY StepTypes, SkipStep, FuturesStep, ScannedStep
<1>3. IInv => [ ScanDone => \A f \in Files : src[f] \in Xmp /\ read[f] = src[f] => Settled(f) ]_vars
  <2> SUFFICES ASSUME IInv, ScanDone, NEW f \in Files, src[f] \in Xmp, read[f] = src[f]
               PROVE  Settled(f)
    OBVIOUS
  <2>1. job[f] = "idle" /\ pc = "scanning" /\ src[f].edits = newest[f]
    BY DEF ScanDone, SkipInv
  <2> QED
    BY <2>1 DEF ScannedInv, ScannedAt, ShownInv, ShownAt, RightOrCut, Settled, CutOff, Mirrored, Render
<1> QED
  BY <1>1, <1>2, <1>3, PTL DEF Spec, ScanMirrors

=============================================================================

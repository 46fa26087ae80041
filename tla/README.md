# A verification model of dark-sorter

dark-sorter keeps a *mirror* of a directory tree of photos: for every xmp sidecar
that rates its photo there is an exported jpeg in the target tree, made by
`darktable-cli`, and with Immich configured each target directory is an external
library there. This directory holds TLA+ modules of the parts where order and
interleaving decide, TLC configurations that check them on small instances, and
proofs, checked by TLAPS, for instances of any size.

    tlc -config Mirror_changes.cfg MCMirror     # any run: module and cfg as in PROJECT.json
    tlapm MirrorProofs.tla                      # any *Proofs module

Paths below are relative to the crate, so `watcher.rs` is `src/watcher.rs` of the repository.

## 1. Inventory

| part | state | operations | hard about it |
|---|---|---|---|
| **main loop** `lib.rs` | the `Db`, the watcher, the scan flag | scan the tree, store the db, take an event, ask for overflows of the watcher and of Immich, handle the event, store the db | an event is handled long after it happened; the overflow flags are read once per event |
| **watcher thread** `watcher.rs` `FanotifyWatcher`, `forward_if_relevant` | the fanotify queue (kernel), a bounded channel (4096), an `AtomicBool` | read an event, test `is_file`, send one event per bit of its mask, store the flag | two threads share flag and channel; the kernel merges and drops events; the file has changed since |
| **event handling** `watcher.rs` `handle_event` | – | read the sidecar, remove or make the preview, remove an empty directory, signal Immich | partial files, vanished files, events in a wrong order |
| **scan of a directory** `scan.rs`, `scan/preview.rs` | the lists of sidecars and previews | `remove_stale` and `create_update_or_clean` as futures that run together; the count of previews left | both touch the same previews; the first error drops all the others where they are |
| **scan of the tree** `scan.rs` | a task per directory | create and remove target directories, join the tasks | parents and children remove and create in each other's directories |
| **export** `darktable_cli.rs` | a semaphore, a pool of darktable home directories in mutex-protected slots | take or create a home, run `darktable-cli`, put the home back in `drop` | homes must never be shared; `drop` panics when it finds no slot; the process outlives a dropped future |
| **database** `database.rs` | a map from sidecar to edit hash, in memory and in one file | load, insert, store; file locks with a timeout of a second | other processes, crashes and a full disk during the rewrite in place |
| **parsed xmps** `xmp.rs` `ParsedXmps` | a map from sidecar to loading / done | `cached_or_parse_from`: one future reads, the others wait for its `Notify` | lost notifications, several readers |
| **xmp and edit parser** `xmp.rs`, `xmp/edits.rs`, `edits/helpers.rs` | a position in the text | rating, file and edits of a sidecar | other sequences in the text, texts cut off anywhere, what the hash covers |
| **Immich sync** `immich.rs` | a channel (512) with an overflow flag, a thread with the table of libraries and the pending scans | signal from the main thread; create, delete and scan libraries | a race of two futures, a thread that ends on errors, rescans after an overflow |
| **Immich client** `immich/client.rs` | – | requests, repeated with a backoff until answered or refused | repeated requests that are not idempotent |
| **names** `fs.rs`, `xmp.rs` | – | sidecar ↔ raw ↔ preview | three rules that do not quite agree |
| **file access** `fs.rs` `ThrottledFs` | a semaphore of open files | read, read_dir | permits against streams that stay open; a copy is made piece by piece |
| **start** `main.rs` | – | load the db, start the watcher, run the loop | the order of the first two and the first scan; `then_some(start()?)` starts the watcher without `--daemon` too |

How they interact: the kernel queues events for the watcher thread, which sends them
through the channel to the main loop; both share the overflow flag. The main loop
owns everything else: it scans and handles events, never both at once. Inside
a scan the directories are tasks and their files futures, which share the parsed
xmps, the homes, the permits and, through a mutex, the db. The db goes to disk after
each scan and each event. Scan and event handling signal the Immich thread through
its own channel and flag; the main loop asks that flag before each event.

What makes each part correct:

* *mirror*: when the daemon idles every rated sidecar has the preview of its present edits,
  no other sidecar has one; a change is never lost silently; a database that survived a
  crash never vouches for a preview it should not; nothing but a broken environment ends the program;
* *export*: two darktable processes never share a home, and an export that ends can put its home back;
* *database*: nobody reads half a map, and a broken file costs exports, not the start;
* *parsed xmps*: a scan sees one content of a sidecar, and every future that waits is woken;
* *tree*: the tasks of a scan never take each other's directories away, all end, and leave every directory
  that is needed, none of the clones of the db, and a mirror behind;
* *parser and names*: a sidecar is read back as it was written, its hash changes with its edits, and all
  who ask which preview it has get the same answer;
* *Immich*: the table of libraries is true, and each change leads to a scan of its library.

## 2. Modules

| module | models | checked by | proved in |
|---|---|---|---|
| `Mirror` | main loop, watcher, scan and event handling of one directory, db as a map, exports and copies in several steps that may end anywhere | `MCMirror`, four runs | `MirrorProofs` |
| `ImmichSync` | the channel to the sync thread, the thread, the server, lost answers, restarts | `MCImmichSync`, two runs | `ImmichSyncProofs` |
| `DarktableHomes` | `export` and `DarkTableHome`: permits, slots, each access to a mutex a step, processes of dropped exports | `MCDarktableHomes`, one run | `DarktableHomesProofs` |
| `ExclusiveUse` | abstract: things used by one at a time, but for those that were abandoned in use | refined by `DarktableHomes` | `HomesAreExclusive` |
| `ParsedXmps` | `cached_or_parse_from`, a step per access to the map, the `Notify` or the file | `MCParsedXmps`, one run | `ParsedXmpsProofs` |
| `ReadOnce` | abstract: a value is read once and given to all who ask | refined by `ParsedXmps` | `XmpsReadOnce` |
| `Database` | loading and storing with file locks, by several processes | `MCDatabase`, one run | `DatabaseProofs` |
| `ScanTree` | the tasks of a scan and their directories, the main loop around them, what `handle_event` does to directories, permits and open files, a call of the file system a step | `MCScanTree`, two runs | `ScanTreeProofs` |
| `SidecarText` | `read_from_file`, `parse_edits` and `ParserHelper` on texts of tokens; what darktable writes | through `SidecarFile` | `SidecarTextProofs` (lemmas) |
| `Naming` | `corresponds_to`, `preview_file`, `preview_path` | through `SidecarFile` | through `SidecarFile` |
| `SidecarFile` | a sidecar that is written, deleted, replaced and read at any time | `MCSidecarFile`, one run | `SidecarFileProofs` |

The modules meet as follows. `Mirror` takes `ParsedXmps` as one step per sidecar (`ScanReads`), which
`ReadOnce` justifies; it takes an export as exclusive use of a home, which `ExclusiveUse`
justifies as long as no darktable-cli is left behind in it, and storing the db as one step, which `Database` justifies as far as there is no crash in
it (section 5 says what a crash does). `ImmichSync` sees of `Mirror` only the signals. `ScanTree` is
what `Mirror` leaves out, several directories, and leaves out what `Mirror` has, the order of
events and the steps of an export. `SidecarFile` composes `SidecarText` and `Naming`; it justifies
that the others take a sidecar for a rating and a number per edit history, and that they tell
photos apart by three classes only (`RulesAgree`).

### Mirror

`pc` is where `main_loop` is: `scan`, `scanning`, `store`, `next`, `check` (the flags are read), `handle`,
`making`, or one of the ends `failed`, `crashed`, `complete`. `kq` is the kernel's queue of
masks, `hand` the event `forward_if_relevant` is taking apart, `chan` and `overflown` what the
threads share. `read`, `stale` and `job` hold, per sidecar, the futures of a scan: what the sidecar
was read as, where `remove_stale` is, where `create_update_or_clean_one` is. The same `job` serves
`handle_event`. `newest`, `dropped` and `strayed` are history variables. The other end of the inner
loop, the flag of the Immich thread, is `SeesImmichOverflow`: the event in hand is thrown away, the channel kept.

An export is `MakeBegins` (the old file is removed), `DarktableReads` (darktable-cli reads the sidecar *as it is
then*, `seen`) and `MakeEnds` (these edits become the preview, the hash *as it was read* before goes to the
db). A copy is `MakeBegins` (the preview is truncated, `Partial`) and `MakeEnds`. Either can fail or be cut off by a
crash in between (`Leaves`): a copy leaves the beginning of itself, or all of it, an export leaves
no preview, and, with "survive" in `Env`, a darktable-cli that goes on (`strays`) and writes its preview at any later time,
or never (`StrayEnds`). Two things are assumed of darktable-cli: that it writes its output all at once, and that
half a sidecar makes it fail.

The user (`User`) rewrites a file in place (it is `Partial` meanwhile), moves one over it, deletes it or
moves it away; each leaves an event in `kq`, which the kernel may merge into the last one about the
same file, or drop with a mark when the queue is full. Whoever reads a `Partial` sidecar gets an error or any
sidecar with no more edits than the one that is being saved (`Readings`), which is what `SidecarFile` shows of
torn texts, and a little more.

Three classes of sidecars stand for the naming rules: `Raw` (exported by darktable), `Jpg`
(copied, named `.jpg`), `Odd` (copied, keeping an extension that listings of previews do not
recognise). An edit history is a number; going back to an earlier one is "undo" in `Env`.

Each sidecar has a preview of its own. In the code two can have the same one: those of `a.NEF` and `a.jpg`
in one directory, and that of a photo and its duplicates (`a.NEF.xmp`, `a_01.NEF.xmp`). What such a pair does to its
preview, two jobs that write one file and a rated one beside one that is not, is not in `Mirror`; `RulesAgree` says for which names it happens.

### ImmichSync

`chan` and `overflown` are `ImmichSync`, `libs`, `pending` and `taken` the locals of
`maintain_immich_sync` and of the future of `next_pending`. A step of the thread is what it does between two awaits. A
request reaches the server and is answered, reaches it while its answer is lost
(`AnswerLost`: `retry` makes it again), or is refused (`Dies`). `race` polls `recv` first, so that a signal
that is there already is taken without a pending scan being touched; once both are waited for,
either may win. All pending scans wait thirty seconds, as `last_scanned` is never set; so the
list is a queue. `forgotten` is a history variable: directories whose last signal was dropped, never
sent, or lost its pending scan. A directory without previews is signalled empty once more whenever a sidecar in it
comes or goes (`EmptiesAgain`), as `clean_up` does not mind a missing preview. Directories whose previews do not end in `.jpg` are
left out here, as a scan counts them as empty (see section 5).

### DarktableHomes, ParsedXmps, Database

Each is a transition system of several processes with a program counter, one step per
access to something shared. `DarktableHomes` lets every task walk the slots with
`try_lock`, in `darktable_home` and in `drop`; `left` are the homes in which the darktable-cli of a dropped
export still runs ("dropped" in `Trouble`), or one of a program that has ended ("restart"; `CREATED` begins at 0 again, so the homes get the
names of those before). `ParsedXmps` separates taking the `Notify` out of the map from
registering with it, and the file may change at any time. `Database` has the order
open – lock – truncate – write – unlock with the timeout of each lock, a crash in every state,
and a full disk that the program notices or does not. `New` is a file that was created and not yet locked, `Torn` one that was truncated.

### ScanTree

`task[d]` is where `scan_clean_and_link_dir` is for the directory `d`: `source` (the stream is to be
opened), `stat` (the entries' metadata), `mkdir`, `isdir`, `fill` (`create_dir_all`: `at` climbs up to a directory that exists
or can be created, `missing` is what is still to be created on the way down), `target`, `work` (the two
futures), `remove`, `join`, or how it ended. A task that fails drops its futures and leaves the tasks of its
subdirectories alone, which go on, as a dropped `JoinHandle` detaches. `jobs`, `stale`, `read` and
`count` are per file what `create_update_or_clean`, `remove_stale` and the cache are doing, and the sum
`previews.len() + changes`. `permit` is who holds a permit: a task for each directory it opens, and each reading of a sidecar for itself. `OpenStreams` counts the two directory streams
a task keeps open to its end, which no permit stands for; sidecars being read are open as well (`Crowded`). The files of copies, of darktable-cli and of the db are not counted. `owned` is what `take_ownership` gave to the user
of darktable, which `asses_file_state` looks at. `Holders` are the tasks that hold clones of the db.
`handle_event` is here for what it does to directories: it creates none, darktable-cli does (external).

`create_dir_all` and `remove_dir` are the library's and the system's; they are modelled as
they are called, a system call a step. Whether an existing preview is up to date is left open
(`JobSkips` and `JobExports` are both possible).

### SidecarText, Naming, SidecarFile

A text is a sequence of tokens: the strings the parser searches or accepts, a run of whitespace, and the
values between them. `AcceptField` is `accept_field`: `Layout` is what it accepts in order, `Accept` one
such step with the errors it can return, the two `expect`s being the error "panic". A hash is
what was hashed (`DefaultHasher` is taken to be collision free). `Text` is what darktable writes, after
`tests/assets`: the history of the masks before, and tags or names of people behind the
edits, each with sequences of their own. `SidecarFile` cuts such a text off at every token, deletes
and replaces it; `reading` is what a reader is given at that moment. In `Naming` a name is the sequence of its
parts between dots; the name of the sidecar (`Names`) and the name of the photo in its text are two things, as they are for darktable's duplicates.

## 3. Runs

| run | what it asks | states |
|---|---|---|
| `changes` | Is any change of a raw file lost, wrongly vouched for, or never mirrored, with full queues, merged events, half-written sidecars, rescans for Immich, and a crash? | 792 000 |
| `once` | Does a scan leave exactly the right previews of a raw and a `.png` file, in three runs, with crashes, exports and copies that fail half-way, and a darktable-cli left over from the run before? | 1 671 000 |
| `homes` | Do three exports over two slots ever share a home, when exports are dropped and the program starts again beside their processes? | 220 000 |
| `xmps` | Do three futures read a changing file once, and are all answered? | 640 |
| `database` | Do three processes ever read half a map? | 251 000 |
| `immich` | Is the table of libraries true, and does the server see the changes, with a full channel, lost answers and a restart? | 457 000 |
| `tree` | Do the tasks of three directories, one inside the other, get in each other's way, end, and leave a mirror, whatever trees they start from? | 189 000 |
| `sidecars` | Is what was written read back, also cut off, with a hash that tells edits apart, and when do the rules for names agree? | 3 000 |
| `untouched`, `cut_off`, `immich_forgets`, `tree_first` | four things the documentation says and the code does not do, see section 5 | – |

**Bounds.** `changes` has one sidecar, two places in either queue, three operations of the user and
a restart. One sidecar is enough for what the properties ask, as each is about one sidecar and in `Mirror` the sidecars share only the
queues, the main loop and the error that ends it (sidecars with one preview are not in it, section 2); a second one in a queue takes a place of it, as
`OtherActivity` does. Two
places suffice to have an event behind the one that overflows, or another in hand; three operations give
removal, return and change of a file, all in the queues at once. The proofs (section 4) have no
such bound. `once` has a raw file and a copy, and three runs: one that makes a preview and stores its hash, one that is cut off, and one that
looks at what is left; `.jpg` copies differ from the `.png` in that a listing recognises them, and are in `cut_off` and in the proofs.
A failing export or copy ends its run. `homes` needs one more task than slots to have a home
created while another is put back, and has exports dropped and a restart at any point. `immich` has a channel of three, which is the smallest for which
"more than half free" differs from "empty", four changes (create, empty, create again or empty again, and one about the other
directory), two lost answers and one restart. `tree` has a chain of three directories, since a race of a removal and a
creation needs a directory, one to create in it, and one above it to climb to, and two photos, a raw
one at the bottom and a copied one in the middle, so that directories become empty independently; every
closed set of source and target directories, and every state of the photos, is an initial state; two
permits are fewer than the tasks and readings that want one, and seven handles one fewer than the six streams of three tasks and
two readings can have open, so that both run out; the user does one thing at any time during or between the scans. `sidecars` has histories
of up to two edits that differ in parameters, in being enabled and in order, with each kind of
other sequence, and the names of two stems with four extensions; each sidecar may be called after its photo, after another or
be a duplicate; the text is cut off at each token. The histories of the
run are short, as TLC writes out every text; those of the proofs are of any length.

`CHECK_DEADLOCK FALSE` stands in every cfg but those of `SidecarFile`: the user is bounded, and a program that has
ended, or a daemon nobody touches any more, rightly stops.

**Fairness.** `Mirror!Fairness`: the watcher thread and the main loop are scheduled (weak fairness of
each thread as a whole, nothing more), and a save that has begun is finished. Nothing is assumed
of the kernel, the user and crashes. `ParsedXmps!FairSpec`: a future that can go on is polled, which
the executor does for woken futures. `ImmichSync!FairSpec`: the thread runs and each request
is answered in the end; `retry` has no last attempt, as the second backoff never ends, and the bound on lost
answers stands for a server that comes back. The main loop needs no fairness there. `ScanTree!FairSpec`: each
task, each file's futures and the main loop are polled when they can go on; the semaphore of tokio is fair and a
permit is given back at once. `changes`, `xmps`, `immich` and `tree` check liveness.

**Mutants.** Every property of a passing run has a changed definition in its module, marked *Mutant* and
listed in PROJECT.json, with which TLC finds the property violated: what a plausible slip
in the code would do.

## 4. Proofs

For every value of the constants, assuming only what the modules' named assumptions say:

| theorem | says | by |
|---|---|---|
| `MirrorProofs!TypeCorrect` | types, bound of the channel, event in hand exactly where one is handled | `TypeOK` is inductive |
| `MirrorProofs!SkipCorrect` | `SkipIsRight`, without undo: of raw photos, with a darktable-cli that writes all at once, except for a photo with an export that outlived the program | `SkipInv`: db ≤ preview ≤ newest sidecar in the order of edit histories, on disk and in the export too |
| `MirrorProofs!LastWordHolds` | `LastWord`: behind every event of a sidecar that exists one follows that makes its preview | with `FuturesInv` (which futures exist) and `DownInv` |
| `MirrorProofs!NothingLost` | `NoLostChange`, without undo, but for the two cases of `Settled` | all the above and `KeptInv`: what is not mirrored has somebody who sees to it |
| `MirrorProofs!IdleUpToDate` | `UpToDate`, without undo, but for the two cases of `Settled` | from `NothingLost`: when the daemon idles nobody is left but the full queue |
| `MirrorProofs!ScansAreExact` | `ScanIsExact`: a finished scan leaves previews of exactly the raw and `.jpg` photos it read as rated, except those with an export that outlived a run | `ScannedInv`: for each file, what the previews and the two futures of the scan say of each other |
| `MirrorProofs!ScansMirror` | `ScanMirrors`, without undo, but for the two cases of `Settled` | `ShownInv`, with `SkipInv` for the early return |
| `DarktableHomesProofs!HomesStayDistinct`, `HomesAreExclusive` | no home is in two places of the pool; `DarktableHomes` implements `ExclusiveUse`: whatever is dropped, a darktable-cli shares its home only with processes left behind in it | ids of homes in use or in slots are distinct and below the counter |
| `ParsedXmpsProofs!OneReaderAlways`, `XmpsReadOnce` | one reader; `ParsedXmps` implements `ReadOnce` | the map's entry says who reads |
| `DatabaseProofs!LocksWork`, `LoadFailures`, `ReadersAreUndisturbed` | the locks exclude; a load fails only on what a broken store left or on a file that was just created and not locked yet; a reader sees no write | `LocksInv`: a file without a map has a store under way or was left by a broken one |
| `ImmichSyncProofs!TypeCorrect`, `LibsCorrect` | no scan pends twice; the table of libraries is true of the server | `TableInv`: ids are unique, and the library being deleted is not in the table |
| `ImmichSyncProofs!ScansOwed` | `ScanOwed`: an unseen change is signalled, pending, being scanned, or forgotten | `EmptyOutdated`: an "empty" signal of a directory with previews has an "added" one behind it |
| `ImmichSyncProofs!LibrariesRight` | `LibrariesMatch`: when all signals are handled, there are libraries of exactly the directories with previews | `MatchInv`: the last signal of a directory in the channel, or a scan that will signal it, says what its library will be |
| `ScanTreeProofs!NobodyIsLeft`, `TargetsAlwaysStay` | in any tree, nobody holds the db after a scan, and no task loses its target directory to another | `Inv`: who has started whom (`SpawnInv`, `JoinInv`), what `create_dir_all` still has to create (`CreateInv`) |
| `ScanTreeProofs!CountNeverTooLow`, `TreeIsMirrored` | the count of previews is never below their number; a scan nobody disturbs mirrors the tree | `FilesInv`: how far each file has come (`WorkInv`, `CountInv`, `QuietInv`) |
| `SidecarFileProofs!Backs`, `Tells`, `Torn` | `ReadsBack`, `HashTellsEdits`, `TornIsPrefix`, unless a sidecar has people and no edits (`PeopleBesideEdits`) | `ReadInv`, that the reader has what the parser makes of the text there is, and `BeginningRead`, what that is for any beginning of any text |
| `SidecarFileProofs!Agree` | `RulesAgree`: the three rules for the preview agree for a sidecar called after its photo whose preview ends in `jpg`, and for no other, whatever names there are | `ReadInv`, and that what is read as the file is the one in the text |
| `TypeCorrect` of `ScanTreeProofs`, `DarktableHomesProofs`, `ParsedXmpsProofs`, `DatabaseProofs` | types; in `DarktableHomes` also who holds a mutex, in `ScanTree` also that every directory and preview is in a directory that exists | parts of the invariants above |

Why the invariants must be stronger: `SkipIsRight` compares the sidecar of now with hashes of then; only the order in which
db, preview and sidecar were made makes it inductive, and with undo there is no such order. Indeed
with "undo" in `Env` TLC finds that `SkipIsRight` and `UpToDate` fail: the edits are changed while darktable runs
and changed back, the db then holds the hash of the old edits, the preview shows the others, and the
early return keeps it. It speaks of raw photos only: a copy shows no edits, so there is no order to keep, and what a hash can vouch for
wrongly is a copy that was cut off (`CutOff`), which the code does not tell from a whole one. `Settled` names this case and that of an export that
outlived the program (`strayed`) as exceptions of the theorems about the mirror; `AllUpToDate` is `UpToDate` without them, and TLC finds it violated
in either case (section 5). `NoLostChange` is about a change and a remover: a removal event that was
in the queue when the sidecar came back would take the new preview away, unless a later event makes it
again, which is what `LastWord` says of all four places an event can be in. `TargetsStay` says that no
`create_dir_all` fails, and it is the race of a parent that removes its empty target with a child that creates its own
below that makes it hard: it holds because the parent removes its directory once and starts the children before,
so that each directory a child finds missing, and creates, is one whose task is past its removal. That
is `CreateInv`; it needs `SpawnInv`, that a child runs only when its parent has started its children, and `TargetInv`,
that from then on the parent's directory is there until the parent removes it. `TreeMirrored` needs for each file how far the two futures have come
with it (`QuietInv`), and that no directory with a preview is removed (`remove_dir` fails on what is not empty). The tree is
any tree: `TreeAssumption` says only what `Parent` and `Under` have to do with each other, as nothing in these proofs is
an induction over its depth.

The parser. `SidecarFile` has as many states as there are texts, and the question is what one function makes
of each, so the work is in `SidecarTextProofs`. It finds first where each piece of a text is: how long an edit,
the attributes and the other sequences are, and that nothing in between looks like a piece the parser searches (an
operation or a parameter is a `Word`, no piece of the syntax; this is what quoting does in the file). Cut
off at `n`, a piece is there or it is not: `Reaches` says of each of the thirteen steps of `accept_field` that it comes to
its position when its piece is there, and is an error when it is not. So an edit is read whole or is an error,
and since the parser reads edits one behind the other, what it makes of the text from the `k`-th on follows
from what it makes of it from the `k+1`-th on: an induction from the last edit down to the first, which ends where no `<rdf:li` follows.
That two histories with one list of hashes are the same (`HashesTell`) is that a hash has all of an edit in it, and that the number in it depends on the place of the edit alone.

Induction is possible here because it is never over a formula the provers would have to guess: `LeastNumber` (from the
library's `NatLessThanWellFounded` and `WFMin`) says that a set of numbers has a least one, `Induction` and `DownInduction`
follow from it for *sets*, and each use names the set of the numbers its formula holds of. The same gives that the recursive
functions `AcceptField`, `FieldsFrom` and `FlattenSeq` exist and satisfy their equations, of which the prover knows nothing by itself.

`PeopleBesideEdits`, which three of the theorems suppose, is what the code needs and not more: behind an empty history the
parser goes on to the next sequence, and with people in it that is an error, see section 5.
Tags do no harm, as they are in an `<rdf:Bag>`, nor do the masks, as they stand before `<darktable:history>`.

`TLC` evaluates every named assumption of the modules for the values of its runs: `DocumentsAssumption`, that sidecars are as darktable
writes them and of a known extension, is one of them.

Only model-checked: what is temporal with fairness (`EventuallyMirrored`, `AllAnswered`, `EventuallyScanned`,
`ScanEnds`), which is out of the prover's reach. Every other property of a passing run, each invariant, action property
and refinement, is a theorem.

## 5. Where code and documentation disagree

Each of these is a run that ends in a violation, and an entry of "findings":

* `untouched`: a sidecar lost its rating while the program was not running. Both halves of the scan remove the preview, and the one that comes second takes the missing file for an error, which ends the program.
* `cut_off`: `tokio::fs::copy` truncates the preview and fills it. Cut off by a crash or a full disk, what there is of it passes for the preview in every later run, if the database has a hash of the sidecar from before: from an earlier rating, or because somebody removed the preview.
* `immich_forgets`: a signal that arrives while a pending scan sleeps makes the thread forget the scan.
* `tree_first`: a scan removes target directories without previews, and `handle_event` creates none. The first photo of such a directory that is rated, if it is copied and not exported, is copied into nothing, and the program ends.

The next ones are stated as well, but no run checks them; TLC finds each violated with the constants named.

* a darktable-cli that outlives the program writes its preview after the next run has looked at the photo (`AllUpToDate` of `Mirror`, with a raw photo and "moveTo", "crash" and "survive" in `Env`). Under the systemd unit of the nix module, whose `KillMode` is the default, the whole group is stopped with the program; a run by hand has nothing of the kind;
* a dropped export gives permit and home back while its darktable-cli runs, so that more of them run than there are permits, two of them in one home (`ProcessesLimited` of `DarktableHomes`, with those of the run `homes`);
* a crash while the db is created or rewritten leaves a file the program will not start on, though a comment says corruption only costs exports (`CorruptionHarmless` of `Database`, with one process and "crash");
* when a child makes the directory its parent has just removed again, that one belongs to root until the next scan; a later export of the event handler into it, or below it, is denied, and the program ends (`HandlerAllowed` of `ScanTree`, with those of `tree_first`);
* the permit is given back while the directory stream stays open (`fs.rs:55`), so a tree with more directories than file handles ends the scan (`HandlesSuffice` of `ScanTree`, with those of `tree`);
* the history of a photo without edits is written `<rdf:Seq/>`. The parser goes on to the next `<rdf:Seq>` in the text, say that of the names of people, and takes their names for edits it cannot read: an error, which ends a scan (`EmptyHistoryRead` of `SidecarFile`, with a sidecar that has people and no edits).

Others were met on the way; a name in brackets is that of a property that says so:

* the watcher thread stores the overflow flag after *every* event, so the next event that fits takes it back; the rescan the doc of the module promises does not happen (`OverflowHealed` of `Mirror`). Where it is still set, the main loop looks at it only when an event arrives, so that an overflow may wait for ever (`OverflowSeen`);
* an event is forwarded only if its path is a file, and `handle_event` does nothing for a sidecar that is gone; the preview of a deleted sidecar stays until the next full scan (`NoOrphans` of `Mirror`);
* `darktable_home` tries one slot, not all; it makes homes while others lie unused, until a `drop` finds no empty slot and panics (`EmptySlotFound` of `DarktableHomes`); `drop` panics as well when all slots are locked by others for an instant (`SlotLockFound`);
* with "undo" in `Env`, `UpToDate` is false (section 4);
* a pending scan outlives its library: when it comes due the server answers 404, which is not retried, and the sync thread ends (`Dies` in `ImmichSync`). The same happens when the answer to a deletion was lost;
* the rescan after an overflow of the Immich channel signals empty directories again, but not previews that are up to date (`Change::None`), so that dropped "added" signals stay dropped (`forgotten`); `immich.rs:87` says it gets "in sync again";
* previews of a source directory that was removed stay: a scan goes by the source's directories only;
* `CountIsRight` needs `Odd = {}`: previews that do not end in `.jpg` are not in the count, so that with a `.png` removed and a `.jpg` kept the directory counts as empty and is signalled so; a preview without a sidecar is in it after it was removed, and its empty directory stays until the next scan;
* a sidecar that is read while it is written can be read without an error and with its first edits only (`TornIsPrefix`), or panic behind a number or a name that is cut off (`edits.rs:90`). When it is no error, the event at the end of the write repeats the export (`Readings` of `Mirror`, over which `NoLostChange` and `UpToDate` hold);
* the hash leaves out `darktable:history_end`, so that stepping back in the history exports nothing;
* `store_to_disk` creates the file before it locks it (`database.rs:209-219`): a process that loads in this window finds an empty file and does not start (`FailsOnlyDamaged` has it as an exception);
* the preview of a duplicate (`a_01.NEF.xmp` of `a.NEF`) is that of the photo itself, as `preview_file` goes by the name in the text, while `corresponds_to` and `preview_path` go by the name of the sidecar (`RulesAgree`): a later scan of a directory with the duplicate alone removes the preview it made, and handling an event of it cleans up another name; likewise `a.NEF` and `a.jpg` in one directory are two photos with one preview;
* `main.rs:102-104` evaluates `start()?` before `then_some` looks at `--daemon`: without CAP_SYS_ADMIN the program does not start at all, though README.md says that only `--daemon` needs root;
* for names with more dots (`a.b.NEF.xmp`) `corresponds_to` compares `a` with `a.b`: each scan removes the preview the other half makes;
* a raw named `.NEF` has a dot but no extension, and `needs_no_export` panics.

## 6. Not modelled

| part | why |
|---|---|
| more dots in names, directories in paths | `Naming` has names with one dot before the `.xmp`, those of duplicates too; section 5 says what more dots do |
| names of operations, spans and labels of parse errors | nothing but messages depends on them |
| the number of permits | a constant; `ThrottledFs::new` subtracts ten from the limit of the system |
| panics of the watcher thread, the capability check | they end the program at once |
| two sidecars with one preview | each has its own in `Mirror`, `ScanTree` and `ImmichSync`; `RulesAgree` says for which names this is so |
| what darktable-cli does with its output file, and with half a sidecar | external; that it writes all at once and fails on half a sidecar is assumed in `Mirror` |
| exports left over in a tree of directories; the file handles of copies, darktable-cli and the db | `ScanTree` has a crash end everything; left-over exports are in `Mirror` and `DarktableHomes` |
| start | in `Mirror` as the order of load, watch and scan. Users, groups, capabilities and options are configuration |
| `thread_pool.rs`, `do_initial_scan`, `get_asset_from_path` | never called |
| HTTP, XML and serialization formats, times of the backoffs, logging | I/O and layout |
| `test_support.rs`, tests, nix module | not the program |

The order of work was: `Mirror`, as the purpose of the program; then the parts it takes for granted
(`DarktableHomes`, `ParsedXmps`, `Database`); then `ImmichSync`, `ScanTree`, and the parser with the
names, and last the proofs of what the runs had found to hold.

----------------------------- MODULE ParsedXmps -----------------------------
(***************************************************************************)
(* One entry of ParsedXmps (xmp.rs): the content of a sidecar, shared by   *)
(* the futures of a scan that ask for it.  The first to ask finds no entry *)
(* and reads the file, those that ask meanwhile wait to be notified, and   *)
(* later ones find the result.  The futures that ask for one sidecar are   *)
(* all those of its directory, and these are polled by a single task: from *)
(* one await to the next, no other of them takes a step.                   *)
(***************************************************************************)
CONSTANTS
  User,      \* futures that call cached_or_parse_from for the sidecar
  Content,   \* what can be read: an xmp or an XmpError
  None, Vacant, Loading

ASSUME ValuesAssumption ==
  /\ {None, Vacant, Loading} \cap Content = {}
  /\ Vacant # Loading /\ None \notin User

VARIABLES
  file,     \* what the file holds now
  state,    \* the entry of the map: Vacant, Loading or a Content
  pc,       \* pc[u]: where u is
  result,   \* result[u]: what u read, or None
  got,      \* got[u]: what was returned to u, or None
  running   \* the future that is being polled, between two awaits

vars == <<file, state, pc, result, got, running>>

Init ==
  /\ file \in Content
  /\ state = Vacant
  /\ pc = [u \in User |-> "start"]
  /\ result = [u \in User |-> None]
  /\ got = [u \in User |-> None]
  /\ running = None

\* Mutant: the futures are polled by several threads.
AnyPoll(u) == u \in User

Polls(u) == running \in {None, u}

Goes(u, where) == pc' = [pc EXCEPT ![u] = where]

Returns(u, value) ==
  /\ got' = [got EXCEPT ![u] = value]
  /\ Goes(u, "done")
  /\ running' = None

\* Another program writes the file.
Change ==
  /\ file' \in Content
  /\ UNCHANGED <<state, pc, result, got, running>>

\* Mutant: the entry is not taken by the one that will read the file.
EntersVacantUnmarked(u) ==
  /\ Polls(u) /\ pc[u] = "start" /\ state = Vacant
  /\ Goes(u, "reading")
  /\ running' = None
  /\ UNCHANGED <<file, state, result, got>>

\* The first access to the map, under its lock.
EntersVacant(u) ==
  /\ Polls(u) /\ pc[u] = "start" /\ state = Vacant
  /\ state' = Loading
  /\ Goes(u, "reading")
  /\ running' = None
  /\ UNCHANGED <<file, result, got>>

EntersLoading(u) ==
  /\ Polls(u) /\ pc[u] = "start" /\ state = Loading
  /\ Goes(u, "cloned")
  /\ running' = u
  /\ UNCHANGED <<file, state, result, got>>

EntersDone(u) ==
  /\ Polls(u) /\ pc[u] = "start" /\ state \in Content
  /\ Returns(u, state)
  /\ UNCHANGED <<file, state, result>>

\* notified(): from here on, notify_waiters reaches this future.
Waits(u) ==
  /\ Polls(u) /\ pc[u] = "cloned"
  /\ Goes(u, "waiting")
  /\ running' = None
  /\ UNCHANGED <<file, state, result, got>>

\* read_from_file, on a thread for blocking calls.
Reads(u) ==
  /\ pc[u] = "reading"
  /\ result' = [result EXCEPT ![u] = file]
  /\ Goes(u, "read")
  /\ UNCHANGED <<file, state, got, running>>

\* Mutant: the result does not get into the map.
PublishesNothing(u) ==
  /\ Polls(u) /\ pc[u] = "read"
  /\ Goes(u, "published")
  /\ running' = u
  /\ UNCHANGED <<file, state, result, got>>

Publishes(u) ==
  /\ Polls(u) /\ pc[u] = "read"
  /\ state' = result[u]
  /\ Goes(u, "published")
  /\ running' = u
  /\ UNCHANGED <<file, result, got>>

\* notify_waiters reaches those who wait, and leaves nothing for later ones.
Notifies(u) ==
  /\ Polls(u) /\ pc[u] = "published"
  /\ pc' = [v \in User |-> IF v = u THEN "done" ELSE
                           IF pc[v] = "waiting" THEN "notified" ELSE pc[v]]
  /\ got' = [got EXCEPT ![u] = result[u]]
  /\ running' = None
  /\ UNCHANGED <<file, state, result>>

\* The second access to the map, by one that was notified.
Wakes(u) ==
  /\ Polls(u) /\ pc[u] = "notified"
  /\ IF state \in Content
       THEN Returns(u, state)
       ELSE Goes(u, "unreachable") /\ running' = None /\ UNCHANGED got
  /\ UNCHANGED <<file, state, result>>

Step(u) ==
  \/ EntersVacant(u) \/ EntersLoading(u) \/ EntersDone(u)
  \/ Waits(u) \/ Reads(u) \/ Publishes(u) \/ Notifies(u) \/ Wakes(u)

Next == Change \/ \E u \in User : Step(u)

Spec == Init /\ [][Next]_vars

\* The task polls every future that can go on, and reads end.
FairSpec == Spec /\ \A u \in User : WF_vars(Step(u))

-----------------------------------------------------------------------------
(* Properties                                                              *)

Readers == {"reading", "read", "published"}

\* Types; nobody is notified and finds no result, which is unreachable!.
TypeOK ==
  /\ file \in Content
  /\ state \in Content \cup {Vacant, Loading}
  /\ pc \in [User -> Readers \cup {"start", "cloned", "waiting", "notified", "done"}]
  /\ result \in [User -> Content \cup {None}]
  /\ got \in [User -> Content \cup {None}]
  /\ running \in User \cup {None}

\* At most one future reads the file, the entry says Loading just as long,
\* and what it read is in the map before anybody is notified or given
\* something.  (xmp.rs, cached_or_parse_from: "we where notified".)
OneReader ==
  /\ \A u \in User :
       /\ pc[u] \in Readers => \A v \in User \ {u} : pc[v] \notin Readers /\ result[v] = None
       /\ pc[u] \in {"reading", "read"} => state = Loading
       /\ pc[u] = "reading" => result[u] = None
       /\ pc[u] \in {"read", "published"} => result[u] \in Content
       /\ result[u] # None => \/ pc[u] = "read" \/ state = result[u]
       /\ pc[u] = "done" <=> got[u] # None
       /\ got[u] # None => state = got[u]
       /\ pc[u] \in {"published", "notified"} => state \in Content
  /\ state = Vacant => \A u \in User : pc[u] = "start" /\ result[u] = None
  /\ state = Loading => \E u \in User : pc[u] \in {"reading", "read"}

\* What was read, in the map or still with the one that read it.
ReadValue ==
  IF state \in Content THEN state
  ELSE IF \E u \in User : pc[u] = "read" THEN result[CHOOSE u \in User : pc[u] = "read"]
  ELSE None

Once == INSTANCE ReadOnce WITH value <- ReadValue

\* The file is read once, and everybody is given what was read then, though
\* it changes while they ask.  (xmp.rs: cached_or_parse_from.)
ReadsOnce == Once!Spec

\* Whoever asks is answered: nobody waits for a notification that has been
\* sent already.
AllAnswered == \A u \in User : (pc[u] = "start") ~> (pc[u] = "done")

=============================================================================

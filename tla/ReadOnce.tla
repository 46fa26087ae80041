------------------------------ MODULE ReadOnce ------------------------------
(***************************************************************************)
(* What ParsedXmps promises for one sidecar: however often its content is  *)
(* asked for in a scan, the file is read once and all get what was read    *)
(* then.  The action ScanReads of Mirror is Read here.                     *)
(***************************************************************************)
CONSTANTS User, Content, None

VARIABLES
  file,    \* what the file holds now; it may change at any time
  value,   \* what was read, or None
  got      \* got[u]: what u was given, or None

vars == <<file, value, got>>

Init == file \in Content /\ value = None /\ got = [u \in User |-> None]

Change == file' \in Content /\ UNCHANGED <<value, got>>

Read == value = None /\ value' = file /\ UNCHANGED <<file, got>>

Get(u) ==
  /\ value # None /\ got[u] = None
  /\ got' = [got EXCEPT ![u] = value]
  /\ UNCHANGED <<file, value>>

Next == Change \/ Read \/ \E u \in User : Get(u)

Spec == Init /\ [][Next]_vars

=============================================================================

---------------------------- MODULE ExclusiveUse ----------------------------
(***************************************************************************)
(* What the pool of homes promises to the exports that use them: nobody    *)
(* gets a home that somebody else is using.  It promises nothing about the *)
(* processes in the homes.  A user that goes without waiting for its own   *)
(* abandons it, and the home may be given away with the process in it.  As *)
(* long as nothing is abandoned, a process has its home for itself.        *)
(***************************************************************************)
CONSTANTS User, Home, None

VARIABLES
  using,      \* using[u]: the home of user u, or None
  abandoned   \* homes in which a process runs that no user waits for

vars == <<using, abandoned>>

Init ==
  /\ using = [u \in User |-> None]
  /\ abandoned = {}

Begin(u) ==
  /\ using[u] = None
  /\ \E h \in Home :
       /\ \A v \in User : using[v] # h
       /\ using' = [using EXCEPT ![u] = h]
  /\ UNCHANGED abandoned

Abandon(u) ==
  /\ using[u] # None
  /\ abandoned' = abandoned \cup {using[u]}
  /\ UNCHANGED using

End(u) ==
  /\ using[u] # None
  /\ using' = [using EXCEPT ![u] = None]
  /\ UNCHANGED abandoned

\* All users go at once, and some of their processes stay.
Restart ==
  /\ using' = [u \in User |-> None]
  /\ abandoned \subseteq abandoned'
  /\ abandoned' \subseteq abandoned \cup ({using[u] : u \in User} \ {None})

Finish(h) ==
  /\ h \in abandoned
  /\ abandoned' = abandoned \ {h}
  /\ UNCHANGED using

Next ==
  \/ \E u \in User : Begin(u) \/ Abandon(u) \/ End(u)
  \/ \E h \in Home : Finish(h)
  \/ Restart

Spec == Init /\ [][Next]_vars

=============================================================================

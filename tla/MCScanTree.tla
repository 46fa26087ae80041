----------------------------- MODULE MCScanTree -----------------------------
(* Instances of ScanTree for TLC: a base directory with a chain of two     *)
(* below it, or with one more beside them.                                 *)
EXTENDS ScanTree

CONSTANTS top, event, day, more, raw, jpg

Chain == {top, event, day}
Fork  == {top, event, day, more}

ChainParent == [d \in {event, day} |-> IF d = day THEN event ELSE top]
ForkParent  == [d \in {event, day, more} |-> IF d = event THEN top ELSE event]

ChainUnder == [d \in Chain |-> CASE d = top -> Chain [] d = event -> {event, day} [] d = day -> {day}]
ForkUnder  == [d \in Fork |-> CASE d = top -> Fork [] d = event -> {event, day, more}
                                [] d = day -> {day} [] d = more -> {more}]

InDay       == [p \in {raw} |-> day]
InEventDay  == [p \in {raw, jpg} |-> IF p = raw THEN day ELSE event]

=============================================================================

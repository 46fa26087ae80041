-------------------------- MODULE ParsedXmpsProofs --------------------------
(* A sidecar is read once in a scan, for any number of futures that ask.   *)
(* None of these proofs uses that one task polls them: only AllAnswered,   *)
(* which TLC checks, depends on it.                                        *)
EXTENDS ParsedXmps, TLAPS

LEMMA InitOnce == Init => TypeOK /\ OneReader /\ Once!Init
<1> SUFFICES ASSUME Init PROVE TypeOK /\ OneReader /\ Once!Init
  OBVIOUS
<1>1. TypeOK /\ OneReader
  BY ValuesAssumption DEF Init, TypeOK, OneReader, Readers
<1>2. ReadValue = None
  BY ValuesAssumption DEF Init, ReadValue
<1> QED
  BY <1>1, <1>2 DEF Init, Once!Init

\* The one that has read the file is the one ReadValue chooses.
LEMMA ReadValueOfReader ==
  ASSUME OneReader, NEW u \in User, pc[u] = "read"
  PROVE  ReadValue = result[u] /\ state = Loading
<1>1. state = Loading /\ state \notin Content
  BY ValuesAssumption DEF OneReader
<1>2. \A v \in User : pc[v] = "read" => v = u
  BY DEF OneReader, Readers
<1>3. (CHOOSE v \in User : pc[v] = "read") = u
  BY <1>2
<1> QED
  BY <1>1, <1>3 DEF ReadValue

LEMMA ChangeStep ==
  ASSUME TypeOK, OneReader, Change
  PROVE  TypeOK' /\ OneReader' /\ Once!Change
<1>1. ReadValue' = ReadValue
  BY DEF Change, ReadValue
<1> QED
  BY <1>1 DEF Change, TypeOK, OneReader, Once!Change

LEMMA EntersStep ==
  ASSUME TypeOK, OneReader, NEW u \in User, EntersVacant(u) \/ EntersLoading(u) \/ Waits(u)
  PROVE  TypeOK' /\ OneReader' /\ UNCHANGED <<file, ReadValue, got>>
<1>1. UNCHANGED <<file, got, result>>
  BY DEF EntersVacant, EntersLoading, Waits
<1>2. TypeOK'
  BY DEF EntersVacant, EntersLoading, Waits, Goes, TypeOK, Readers
<1>3. OneReader'
  <2>1. CASE EntersVacant(u)
    BY <2>1, ValuesAssumption DEF EntersVacant, Goes, TypeOK, OneReader, Readers
  <2>2. CASE EntersLoading(u) \/ Waits(u)
    BY <2>2, ValuesAssumption DEF EntersLoading, Waits, Goes, TypeOK, OneReader, Readers
  <2> QED
    BY <2>1, <2>2
<1>4. ReadValue' = ReadValue
  <2>1. \A v \in User : pc'[v] = "read" <=> pc[v] = "read"
    BY DEF EntersVacant, EntersLoading, Waits, Goes, TypeOK
  <2>2. (CHOOSE v \in User : pc'[v] = "read") = (CHOOSE v \in User : pc[v] = "read")
    BY <2>1
  <2>3. state' = state \/ (state \notin Content /\ state' \notin Content)
    BY ValuesAssumption DEF EntersVacant, EntersLoading, Waits
  <2> QED
    BY <1>1, <2>1, <2>2, <2>3 DEF ReadValue
<1> QED
  BY <1>1, <1>2, <1>3, <1>4

LEMMA ReadsStep ==
  ASSUME TypeOK, OneReader, NEW u \in User, Reads(u)
  PROVE  TypeOK' /\ OneReader' /\ Once!Read
<1>1. /\ pc[u] = "reading" /\ result' = [result EXCEPT ![u] = file] /\ file \in Content
      /\ pc' = [pc EXCEPT ![u] = "read"] /\ UNCHANGED <<file, state, got, running>>
  BY DEF Reads, Goes, TypeOK
<1>2. TypeOK'
  BY <1>1 DEF TypeOK, Readers
<1>3. OneReader'
  BY <1>1, ValuesAssumption DEF TypeOK, OneReader, Readers
<1>4. ReadValue = None
  <2>1. state \notin Content /\ \A v \in User : pc[v] # "read"
    BY <1>1, ValuesAssumption DEF OneReader, Readers
  <2> QED
    BY <2>1 DEF ReadValue
<1>5. ReadValue' = file
  <2>1. pc'[u] = "read" /\ result'[u] = file
    BY <1>1 DEF TypeOK
  <2>2. state' \notin Content
    BY <1>1, ValuesAssumption DEF OneReader
  <2>3. \A v \in User : pc'[v] = "read" => v = u
    BY <1>1 DEF OneReader, Readers, TypeOK
  <2>4. (CHOOSE v \in User : pc'[v] = "read") = u
    BY <2>1, <2>3
  <2> QED
    BY <2>1, <2>2, <2>4 DEF ReadValue
<1> QED
  BY <1>1, <1>2, <1>3, <1>4, <1>5 DEF Once!Read

LEMMA PublishesStep ==
  ASSUME TypeOK, OneReader, NEW u \in User, Publishes(u)
  PROVE  TypeOK' /\ OneReader' /\ UNCHANGED <<file, ReadValue, got>>
<1>1. /\ pc[u] = "read" /\ state' = result[u] /\ result[u] \in Content
      /\ pc' = [pc EXCEPT ![u] = "published"] /\ UNCHANGED <<file, result, got>>
  BY DEF Publishes, Goes, OneReader
<1>2. TypeOK'
  BY <1>1 DEF Publishes, TypeOK, Readers
<1>3. OneReader'
  BY <1>1, ValuesAssumption DEF TypeOK, OneReader, Readers
<1>4. ReadValue' = ReadValue
  BY <1>1, ReadValueOfReader DEF ReadValue
<1> QED
  BY <1>1, <1>2, <1>3, <1>4

\* Those who are given a value are given the one in the map.
LEMMA ReturnsStep ==
  ASSUME TypeOK, OneReader, NEW u \in User, EntersDone(u) \/ Notifies(u) \/ Wakes(u)
  PROVE  TypeOK' /\ OneReader' /\ Once!Get(u)
<1>1. state \in Content /\ state # None /\ got[u] = None
  BY ValuesAssumption DEF EntersDone, Notifies, Wakes, OneReader
<1>2. got' = [got EXCEPT ![u] = state] /\ UNCHANGED <<file, state, result>>
  BY <1>1, ValuesAssumption DEF EntersDone, Notifies, Wakes, Returns, OneReader
<1>3. /\ pc' \in [User -> Readers \cup {"start", "cloned", "waiting", "notified", "done"}]
      /\ pc'[u] = "done"
      /\ \A v \in User \ {u} : pc'[v] = pc[v] \/ (pc[v] = "waiting" /\ pc'[v] = "notified")
      /\ running' = None
  BY <1>1 DEF EntersDone, Notifies, Wakes, Returns, Goes, TypeOK
<1>4. TypeOK'
  BY <1>1, <1>2, <1>3 DEF TypeOK
<1>5. OneReader'
  BY <1>1, <1>2, <1>3, ValuesAssumption DEF TypeOK, OneReader, Readers
<1>6. ReadValue = state /\ ReadValue' = state
  BY <1>1, <1>2 DEF ReadValue
<1> QED
  BY <1>1, <1>2, <1>4, <1>5, <1>6 DEF Once!Get

LEMMA OnceStep ==
  ASSUME TypeOK, OneReader, [Next]_vars
  PROVE  TypeOK' /\ OneReader' /\ [Once!Next]_(Once!vars)
<1>1. CASE UNCHANGED vars
  <2>1. ReadValue' = ReadValue
    BY <1>1 DEF vars, ReadValue
  <2> QED
    BY <1>1, <2>1 DEF vars, TypeOK, OneReader, Once!vars
<1>2. CASE Change
  BY <1>2, ChangeStep DEF Once!Next
<1>3. ASSUME NEW u \in User, Step(u) PROVE TypeOK' /\ OneReader' /\ [Once!Next]_(Once!vars)
  BY <1>3, EntersStep, ReadsStep, PublishesStep, ReturnsStep DEF Step, Once!Next, Once!vars
<1> QED
  BY <1>1, <1>2, <1>3 DEF Next

\* One future reads, and whoever is notified finds the result in the map.
THEOREM OneReaderAlways == Spec => [](TypeOK /\ OneReader)
  BY InitOnce, OnceStep, PTL DEF Spec

\* Types of the map, of the futures and of what they were given.
THEOREM TypeCorrect == Spec => []TypeOK
  BY OneReaderAlways, PTL

\* cached_or_parse_from implements a file that is read once: all that ask
\* are given the same content, whatever becomes of the file meanwhile.
THEOREM XmpsReadOnce == Spec => ReadsOnce
<1>1. Init => Once!Init
  BY InitOnce
<1>2. TypeOK /\ OneReader /\ [Next]_vars => [Once!Next]_(Once!vars)
  BY OnceStep
<1> QED
  BY <1>1, <1>2, OneReaderAlways, PTL DEF Spec, ReadsOnce, Once!Spec

=============================================================================

------------------------- MODULE SidecarFileProofs -------------------------
(* Theorems about what a reader of a sidecar is given, and about the name  *)
(* of its preview.  The first three suppose that no sidecar without edits  *)
(* has names of people: these are read as edits, see EmptyHistoryRead.     *)
EXTENDS SidecarFile, SidecarTextProofs

-----------------------------------------------------------------------------
(* The specification.                                                      *)

\* What is read is always what SidecarText makes of what is there.
ReadInv ==
  /\ doc \in Documents /\ length \in -1 .. Len(Text(doc))
  /\ reading = Read(doc, length)

\* Every sidecar that is written is a document with a known extension.
LEMMA TextLength ==
  ASSUME NEW d \in Documents
  PROVE  d \in Document /\ d.raw[2] \in DOMAIN Lower /\ Len(Text(d)) \in Nat
<1>1. d \in Document /\ d.raw[2] \in DOMAIN Lower
  BY DocumentsAssumption
<1>2. Text(d) \in Seq(Piece)
  BY <1>1, PositionsFound DEF Positions
<1> QED
  BY <1>1, <1>2

\* What is read is read anew with every change of the file.
LEMMA HoldsInv ==
  ASSUME NEW d \in Documents, NEW n \in -1 .. Len(Text(d)), Holds(d, n)
  PROVE  ReadInv'
<1>1. doc' = d /\ length' = n /\ reading' = Read(d, n)
  BY DEF Holds
<1> QED
  BY <1>1 DEF ReadInv

\* Whatever is done to the file, what a reader is given is what SidecarText
\* makes of as much as there is of the text that is being written.  (xmp.rs,
\* read_from_file.)
THEOREM Reading == Spec => []ReadInv
<1>1. Init => ReadInv
  <2>1. SUFFICES ASSUME Init PROVE ReadInv
    OBVIOUS
  <2>2. doc \in Documents /\ length \in {-1, Len(Text(doc))} /\ reading = Read(doc, length)
    BY <2>1 DEF Init
  <2>3. Len(Text(doc)) \in Nat
    BY <2>2, TextLength
  <2> QED
    BY <2>2, <2>3 DEF ReadInv
<1>2. ReadInv /\ [Next]_vars => ReadInv'
  <2>1. SUFFICES ASSUME ReadInv, [Next]_vars PROVE ReadInv'
    OBVIOUS
  <2>2. doc \in Documents /\ length \in -1 .. Len(Text(doc)) /\ Len(Text(doc)) \in Nat
    BY <2>1, TextLength DEF ReadInv
  <2>3. CASE Truncate
    <3>1. PICK d \in Documents : Holds(d, 0)
      BY <2>3 DEF Truncate
    <3>2. 0 \in -1 .. Len(Text(d))
      BY TextLength
    <3> QED
      BY <3>1, <3>2, HoldsInv
  <2>4. CASE Write
    <3>1. Holds(doc, length + 1) /\ length # Len(Text(doc))
      BY <2>4 DEF Write, Whole
    <3>2. length + 1 \in -1 .. Len(Text(doc))
      BY <2>2, <3>1
    <3> QED
      BY <2>2, <3>1, <3>2, HoldsInv
  <2>5. CASE Delete
    <3>1. Holds(doc, -1) /\ -1 \in -1 .. Len(Text(doc))
      BY <2>2, <2>5 DEF Delete
    <3> QED
      BY <2>2, <3>1, HoldsInv
  <2>6. CASE MoveOver
    <3>1. PICK d \in Documents : Holds(d, Len(Text(d)))
      BY <2>6 DEF MoveOver
    <3>2. Len(Text(d)) \in -1 .. Len(Text(d))
      BY TextLength
    <3> QED
      BY <3>1, <3>2, HoldsInv
  <2>7. CASE UNCHANGED vars
    BY <2>1, <2>7 DEF ReadInv, vars
  <2> QED
    BY <2>1, <2>3, <2>4, <2>5, <2>6, <2>7 DEF Next
<1> QED
  BY <1>1, <1>2, PTL DEF Spec
\* What the reader of a sidecar is given, whatever there is of it.
LEMMA ReadingIs ==
  ASSUME ReadInv, length # -1
  PROVE  /\ doc \in Document /\ Begins(doc, length, SubSeq(Text(doc), 1, length))
         /\ reading = ReadFromFile(SubSeq(Text(doc), 1, length))
<1>1. doc \in Documents /\ doc \in Document /\ Len(Text(doc)) \in Nat
  BY TextLength DEF ReadInv
<1>2. length \in 0 .. Len(Text(doc))
  BY <1>1 DEF ReadInv
<1>3. Begins(doc, length, SubSeq(Text(doc), 1, length))
  BY <1>1, <1>2, BeginningBegins
<1>4. reading = ReadFromFile(SubSeq(Text(doc), 1, length))
  BY Zenon DEF ReadInv, Read
<1> QED
  BY <1>1, <1>3, <1>4

\* Beside the name of a person, a history: see EmptyHistoryRead.
PeopleBesideEdits == \A d \in Documents : d.people => d.edits # <<>>

\* What all of a text is read as.
LEMMA WholeRead ==
  ASSUME PeopleBesideEdits, NEW d \in Documents
  PROVE  /\ ReadFromFile(Text(d)) = [rating |-> d.rating, edits |-> Hashes(d, 1, Len(d.edits)), raw |-> d.raw]
         /\ Len(d.edits) \in Nat
<1>1. d \in Document /\ Len(Text(d)) \in 0 .. Len(Text(d)) /\ Len(d.edits) \in Nat
  <2>1. d \in Document /\ Len(Text(d)) \in Nat
    BY TextLength
  <2> QED
    BY <2>1 DEF Document
<1>2. Begins(d, Len(Text(d)), Text(d))
  BY <1>1, BeginningBegins
<1>3. ReadAs(d, Len(Text(d)), ReadFromFile(Text(d)))
  BY <1>1, <1>2, BeginningRead DEF PeopleBesideEdits
<1> QED
  BY <1>1, <1>3, Zenon DEF ReadAs

\* What the reader is given of a sidecar of which there is something.
LEMMA ReadingAs ==
  ASSUME PeopleBesideEdits, ReadInv, length # -1
  PROVE  ReadAs(doc, length, reading)
<1>1. doc.people => doc.edits # <<>>
  BY DEF PeopleBesideEdits, ReadInv
<1> QED
  BY <1>1, ReadingIs, BeginningRead

\* A sidecar written to its end is read as it was, with any number of edits,
\* masks or none, tags or people.  (xmp.rs, read_from_file.)
THEOREM Backs ==
  ASSUME PeopleBesideEdits
  PROVE  Spec => []ReadsBack
<1>1. ReadInv => ReadsBack
  <2>1. SUFFICES ASSUME ReadInv, Whole
                 PROVE  /\ ~IsError(reading) /\ reading.rating = doc.rating /\ reading.raw = doc.raw
                        /\ Len(reading.edits) = Len(doc.edits)
    BY DEF ReadsBack
  <2>2. doc \in Documents /\ length = Len(Text(doc)) /\ length # -1
    BY <2>1, TextLength DEF ReadInv, Whole
  <2>3. ReadAs(doc, length, reading)
    BY <2>1, <2>2, ReadingAs
  <2>4. reading = [rating |-> doc.rating, edits |-> Hashes(doc, 1, Len(doc.edits)), raw |-> doc.raw]
    BY <2>2, <2>3, Zenon DEF ReadAs
  <2>5. Len(Hashes(doc, 1, Len(doc.edits))) = Len(doc.edits)
    <3>1. Len(doc.edits) \in Nat
      BY <2>2, WholeRead
    <3>2. Len(doc.edits) \in 0 .. Len(doc.edits)
      BY <3>1
    <3> QED
      BY <3>1, <3>2, HashesPrefix
  <2> QED
    BY <2>4, <2>5 DEF IsError
<1> QED
  BY <1>1, Reading, PTL

\* The hash of the edits tells any two histories apart and nothing else.
\* (xmp.rs, edits.rs: the hash that decides whether to export again.)
THEOREM Tells ==
  ASSUME PeopleBesideEdits
  PROVE  Spec => []HashTellsEdits
<1>1. ReadInv => HashTellsEdits
  <2>1. SUFFICES ASSUME ReadInv, Whole, NEW d \in Documents
                 PROVE  EditHash(ReadFromFile(Text(d))) = EditHash(reading) <=> d.edits = doc.edits
    BY DEF HashTellsEdits
  <2>2. doc \in Documents /\ doc \in Document /\ d \in Document /\ length = Len(Text(doc)) /\ length # -1
    BY <2>1, TextLength DEF ReadInv, Whole
  <2>3. ReadAs(doc, length, reading)
    BY <2>1, <2>2, ReadingAs
  <2>4. reading = [rating |-> doc.rating, edits |-> Hashes(doc, 1, Len(doc.edits)), raw |-> doc.raw]
    BY <2>2, <2>3, Zenon DEF ReadAs
  <2>5. EditHash(reading) = Hashes(doc, 1, Len(doc.edits))
    BY <2>4 DEF EditHash
  <2>6. EditHash(ReadFromFile(Text(d))) = Hashes(d, 1, Len(d.edits))
    BY WholeRead DEF EditHash
  <2> QED
    BY <2>2, <2>5, <2>6, HashesTell
<1> QED
  BY <1>1, Reading, PTL

\* A sidecar cut anywhere is an error or has its first edits, each entirely.
\* (edits.rs, accept_field: a reader may come while it is written.)
THEOREM Torn ==
  ASSUME PeopleBesideEdits
  PROVE  Spec => []TornIsPrefix
<1>1. ReadInv => TornIsPrefix
  <2>1. SUFFICES ASSUME ReadInv, ~IsError(reading)
                 PROVE  /\ reading.rating = doc.rating /\ reading.raw = doc.raw
                        /\ IsPrefix(reading.edits, ReadFromFile(Text(doc)).edits)
    BY DEF TornIsPrefix
  <2>2. length # -1
    BY <2>1, ErrorIs DEF ReadInv, Read
  <2>3. doc \in Documents
    BY <2>1 DEF ReadInv
  <2>4. ReadAs(doc, length, reading)
    BY <2>1, <2>2, ReadingAs
  <2>5. PICK k \in 0 .. Len(doc.edits) :
          reading = [rating |-> doc.rating, edits |-> Hashes(doc, 1, k), raw |-> doc.raw]
    BY <2>1, <2>4, Zenon DEF ReadAs
  <2>6. ReadFromFile(Text(doc)).edits = Hashes(doc, 1, Len(doc.edits)) /\ Len(doc.edits) \in Nat
    BY <2>3, WholeRead
  <2>7. IsPrefix(Hashes(doc, 1, k), Hashes(doc, 1, Len(doc.edits)))
    BY <2>6, HashesPrefix
  <2> QED
    BY <2>5, <2>6, <2>7
<1> QED
  BY <1>1, Reading, PTL

\* A name of two parts, and what the rules make of it.
LEMMA NameIs ==
  ASSUME NEW d \in Documents
  PROVE  d.raw = <<d.raw[1], d.raw[2]>> /\ d.raw[2] \in DOMAIN Lower
<1>1. d \in Document /\ d.raw[2] \in DOMAIN Lower
  BY TextLength
<1>2. d.raw = <<d.raw[1], d.raw[2]>>
  BY <1>1 DEF Document
<1> QED
  BY <1>1, <1>2

\* Sequences of one piece and of two.
LEMMA OneLong ==
  ASSUME NEW S, NEW x \in Seq(S), Len(x) = 1, NEW a, x[1] = a
  PROVE  x = <<a>>
OBVIOUS

\* Two.
LEMMA TwoLong ==
  ASSUME NEW S, NEW x \in Seq(S), Len(x) = 2, NEW a, x[1] = a, NEW b, x[2] = b
  PROVE  x = <<a, b>>
OBVIOUS

\* Front, Head and Last.
LEMMA FirstOf ==
  ASSUME NEW S, NEW x \in Seq(S), Len(x) >= 1
  PROVE  /\ Front(x) \in Seq(S) /\ Len(Front(x)) = Len(x) - 1
         /\ \A i \in 1 .. Len(x) - 1 : Front(x)[i] = x[i]
         /\ Head(x) = x[1] /\ Last(x) = x[Len(x)]
<1>1. Front(x) = SubSeq(x, 1, Len(x) - 1) /\ Last(x) = x[Len(x)]
  BY Zenon DEF Front, Last
<1>2. PICK m \in Nat : m = Len(x) - 1 /\ m \in 0 .. Len(x)
  <2>1. Len(x) - 1 \in Nat /\ Len(x) - 1 \in 0 .. Len(x)
    OBVIOUS
  <2> QED
    BY <2>1, Zenon
<1>3. SubSeq(x, 1, m) \in Seq(S) /\ Len(SubSeq(x, 1, m)) = m /\ \A i \in 1 .. m : SubSeq(x, 1, m)[i] = x[i]
  <2>1. m \in Nat /\ m =< Len(x)
    BY <1>2
  <2>2. SubSeq(x, 1, m) = [i \in 1 .. m |-> x[i]]
    BY <2>1
  <2>3. \A i \in 1 .. m : x[i] \in S
    BY <2>1
  <2> QED
    BY <2>1, <2>2, <2>3
<1>4. Head(x) = x[1]
  OBVIOUS
<1> QED
  BY <1>1, <1>2, <1>3, <1>4, Zenon

\* Sequences with the same pieces are the same.
LEMMA SameSequence ==
  ASSUME NEW S, NEW x \in Seq(S), NEW y \in Seq(S), Len(x) = Len(y), \A i \in 1 .. Len(x) : x[i] = y[i]
  PROVE  x = y
OBVIOUS

\* What Append does.
LEMMA AppendIs ==
  ASSUME NEW S, NEW x \in Seq(S), NEW a \in S
  PROVE  /\ Append(x, a) \in Seq(S) /\ Len(Append(x, a)) = Len(x) + 1
         /\ Append(x, a)[Len(x) + 1] = a /\ \A i \in 1 .. Len(x) : Append(x, a)[i] = x[i]
OBVIOUS

\* Names of two parts,
LEMMA PairIs ==
  ASSUME NEW a, NEW b
  PROVE  /\ Front(<<a, b>>) = <<a>> /\ Last(<<a, b>>) = b /\ Len(<<a, b>>) > 1
         /\ Head(<<a, b>>) = a /\ Append(<<a>>, b) = <<a, b>>
<1>1. PICK x \in Seq({a, b}) : x = <<a, b>> /\ Len(x) = 2 /\ x[1] = a /\ x[2] = b
  <2>1. <<a, b>> \in Seq({a, b}) /\ Len(<<a, b>>) = 2 /\ <<a, b>>[1] = a /\ <<a, b>>[2] = b
    OBVIOUS
  <2> QED
    BY <2>1, Zenon
<1>2. PICK y \in Seq({a, b}) : y = <<a>> /\ Len(y) = 1 /\ y[1] = a
  <2>1. <<a>> \in Seq({a, b}) /\ Len(<<a>>) = 1 /\ <<a>>[1] = a
    OBVIOUS
  <2> QED
    BY <2>1, Zenon
<1>3. Front(x) = <<a>> /\ Last(x) = b /\ Head(x) = a
  <2>1. /\ Front(x) \in Seq({a, b}) /\ Len(Front(x)) = 1 /\ Front(x)[1] = a /\ Head(x) = a /\ Last(x) = b
    <3>1. Len(x) >= 1 /\ Len(x) - 1 = 1 /\ 1 \in 1 .. 1
      BY <1>1
    <3>2. /\ Front(x) \in Seq({a, b}) /\ Len(Front(x)) = Len(x) - 1
          /\ \A i \in 1 .. Len(x) - 1 : Front(x)[i] = x[i]
          /\ Head(x) = x[1] /\ Last(x) = x[Len(x)]
      BY <3>1, FirstOf, Zenon
    <3> QED
      BY <1>1, <3>1, <3>2, Zenon
  <2> QED
    BY <2>1, OneLong, Zenon
<1>4. Append(y, b) = <<a, b>>
  <2>1. b \in {a, b} /\ 1 + 1 = 2 /\ 1 \in 1 .. 1
    OBVIOUS
  <2>2. /\ Append(y, b) \in Seq({a, b}) /\ Len(Append(y, b)) = Len(y) + 1
        /\ Append(y, b)[Len(y) + 1] = b /\ \A i \in 1 .. Len(y) : Append(y, b)[i] = y[i]
    BY <2>1, AppendIs
  <2>3. Append(y, b) \in Seq({a, b}) /\ Len(Append(y, b)) = 2 /\ Append(y, b)[1] = a /\ Append(y, b)[2] = b
    BY <1>2, <2>1, <2>2, Zenon
  <2>4. PICK z \in Seq({a, b}) : z = Append(y, b) /\ Len(z) = 2 /\ z[1] = a /\ z[2] = b
    BY <2>3, Zenon
  <2>5. Len(z) = Len(x) /\ \A i \in 1 .. Len(z) : z[i] = x[i]
    <3>1. \A i \in 1 .. 2 : i \in {1, 2}
      OBVIOUS
    <3>2. \A i \in {1, 2} : z[i] = x[i]
      BY <1>1, <2>4
    <3> QED
      BY <1>1, <2>4, <3>1, <3>2, Zenon
  <2>6. z = x
    BY <2>5, SameSequence, Zenon
  <2> QED
    BY <1>1, <2>4, <2>6, Zenon
<1>5. Len(x) > 1
  BY <1>1
<1> QED
  BY <1>1, <1>2, <1>3, <1>4, <1>5, Zenon

\* and of three.
LEMMA TripleIs ==
  ASSUME NEW a, NEW b, NEW c
  PROVE  /\ Front(<<a, b, c>>) = <<a, b>> /\ Last(<<a, b, c>>) = c /\ Len(<<a, b, c>>) > 1
         /\ Append(<<a, b>>, c) = <<a, b, c>>
<1>1. a \in {a, b, c} /\ b \in {a, b, c} /\ c \in {a, b, c}
  OBVIOUS
<1>2. PICK x \in Seq({a, b, c}) : x = <<a, b, c>> /\ Len(x) = 3 /\ x[1] = a /\ x[2] = b /\ x[3] = c
  <2>1. /\ <<a, b, c>> \in Seq({a, b, c}) /\ Len(<<a, b, c>>) = 3
        /\ <<a, b, c>>[1] = a /\ <<a, b, c>>[2] = b /\ <<a, b, c>>[3] = c
    OBVIOUS
  <2> QED
    BY <2>1, Zenon
<1>3. PICK y \in Seq({a, b, c}) : y = <<a, b>> /\ Len(y) = 2 /\ y[1] = a /\ y[2] = b
  <2>1. <<a, b>> \in Seq({a, b, c}) /\ Len(<<a, b>>) = 2 /\ <<a, b>>[1] = a /\ <<a, b>>[2] = b
    OBVIOUS
  <2> QED
    BY <2>1, Zenon
<1>4. Front(x) = <<a, b>> /\ Last(x) = c
  <2>1. Front(x) \in Seq({a, b, c}) /\ Len(Front(x)) = 2 /\ Front(x)[1] = a /\ Front(x)[2] = b /\ Last(x) = c
    <3>1. Len(x) >= 1 /\ Len(x) - 1 = 2 /\ 1 \in 1 .. 2 /\ 2 \in 1 .. 2
      BY <1>2
    <3>2. /\ Front(x) \in Seq({a, b, c}) /\ Len(Front(x)) = Len(x) - 1
          /\ \A i \in 1 .. Len(x) - 1 : Front(x)[i] = x[i]
          /\ Head(x) = x[1] /\ Last(x) = x[Len(x)]
      BY <3>1, FirstOf, Zenon
    <3> QED
      BY <1>2, <3>1, <3>2, Zenon
  <2> QED
    BY <2>1, TwoLong
<1>5. Append(y, c) = <<a, b, c>>
  <2>1. 2 + 1 = 3 /\ 1 \in 1 .. 2 /\ 2 \in 1 .. 2
    OBVIOUS
  <2>2. /\ Append(y, c) \in Seq({a, b, c}) /\ Len(Append(y, c)) = Len(y) + 1
        /\ Append(y, c)[Len(y) + 1] = c /\ \A i \in 1 .. Len(y) : Append(y, c)[i] = y[i]
    BY <1>1, AppendIs
  <2>3. /\ Append(y, c) \in Seq({a, b, c}) /\ Len(Append(y, c)) = 3
        /\ Append(y, c)[1] = a /\ Append(y, c)[2] = b /\ Append(y, c)[3] = c
    BY <1>3, <2>1, <2>2, Zenon
  <2>4. PICK z \in Seq({a, b, c}) : z = Append(y, c) /\ Len(z) = 3 /\ z[1] = a /\ z[2] = b /\ z[3] = c
    BY <2>3, Zenon
  <2>5. Len(z) = Len(x) /\ \A i \in 1 .. Len(z) : z[i] = x[i]
    <3>1. \A i \in 1 .. 3 : i \in {1, 2, 3}
      OBVIOUS
    <3>2. \A i \in {1, 2, 3} : z[i] = x[i]
      BY <1>2, <2>4
    <3> QED
      BY <1>2, <2>4, <3>1, <3>2, Zenon
  <2>6. z = x
    BY <2>5, SameSequence, Zenon
  <2> QED
    BY <1>2, <2>4, <2>6, Zenon
<1>6. Len(x) > 1
  BY <1>2
<1> QED
  BY <1>2, <1>3, <1>4, <1>5, <1>6, Zenon

\* The preview has the name of the file, with another extension when it was
\* exported.
LEMMA PreviewIs ==
  ASSUME NEW d \in Documents
  PROVE  PreviewFile(d.raw) = <<d.raw[1], IF NeedsNoExport(d.raw) THEN d.raw[2] ELSE "jpg">>
<1>1. d.raw = <<d.raw[1], d.raw[2]>>
  BY NameIs
<1>2. PICK a, b : a = d.raw[1] /\ b = d.raw[2] /\ d.raw = <<a, b>>
  BY <1>1
<1>3. Extension(d.raw) = b /\ \A e : WithExtension(d.raw, e) = <<a, e>>
  <2>1. Front(d.raw) = <<a>> /\ Last(d.raw) = b
    BY <1>2, PairIs, Zenon
  <2>2. \A e : Append(<<a>>, e) = <<a, e>>
    BY PairIs, Zenon
  <2> QED
    BY <2>1, <2>2, Zenon DEF Extension, WithExtension, FileStem
<1> QED
  BY <1>2, <1>3, Zenon DEF PreviewFile

\* The same of a name of two parts with xmp behind them.
LEMMA SidecarIs ==
  ASSUME NEW name \in Names
  PROVE  \E g, f : /\ name = <<g, f>> /\ Head(name) = g /\ Front(name) = <<g>>
                   /\ Append(name, "xmp") = <<g, f, "xmp">>
<1>1. PICK g, f : name = <<g, f>>
  BY NamesAssumption
<1>2. \A c : Append(<<g, f>>, c) = <<g, f, c>>
  BY TripleIs, Zenon
<1>3. Head(<<g, f>>) = g /\ Front(<<g, f>>) = <<g>>
  BY PairIs, Zenon
<1> QED
  BY <1>1, <1>2, <1>3, Zenon

\* Whatever the names of photos and sidecars, and however much of the text is
\* there, the rules for the preview agree for sidecars called after their
\* photo, but for images that keep an extension other than jpg; and for no
\* duplicates.  (fs.rs, xmp.rs.)
THEOREM Agree == Spec => []RulesAgree
<1>1. ReadInv => RulesAgree
  <2>1. SUFFICES ASSUME ReadInv, ~IsError(reading) PROVE RulesAgree
    BY DEF RulesAgree
  <2>2. doc \in Documents /\ length # -1
    BY <2>1, ErrorIs DEF ReadInv, Read
  <2>3. reading.raw = doc.raw
    BY <2>1, <2>2, ReadingIs, RawOfBeginning
  <2>4. PICK a, b : doc.raw = <<a, b>> /\ b \in DOMAIN Lower /\ a = doc.raw[1] /\ b = doc.raw[2]
    BY <2>2, NameIs
  <2>5. PICK kept \in BOOLEAN : kept <=> NeedsNoExport(doc.raw)
    OBVIOUS
  <2>6. PICK e : e = IF kept THEN b ELSE "jpg"
    OBVIOUS
  <2>7. PreviewFile(doc.raw) = <<a, e>>
    <3>1. PreviewFile(doc.raw) = <<doc.raw[1], IF NeedsNoExport(doc.raw) THEN doc.raw[2] ELSE "jpg">>
      BY <2>2, PreviewIs, Zenon
    <3>2. e = IF NeedsNoExport(doc.raw) THEN doc.raw[2] ELSE "jpg"
      BY <2>4, <2>5, <2>6, Zenon
    <3> QED
      BY <2>4, <3>1, <3>2, Zenon
  <2>8. IsRaw(doc.raw) \/ IsJpg(doc.raw) <=> ~kept \/ b = "jpg"
    <3>1. Extension(doc.raw) = b
      BY <2>4, PairIs, Zenon DEF Extension
    <3> QED
      BY <2>5, <3>1, Zenon DEF IsRaw, IsJpg
  <2>9. e = "jpg" <=> ~kept \/ b = "jpg"
    BY <2>6
  <2>10. IsPreviewFile(<<a, e>>) <=> e = "jpg"
    <3>1. Len(<<a, e>>) > 1 /\ Last(<<a, e>>) = e
      BY PairIs
    <3> QED
      BY <3>1, Zenon DEF IsPreviewFile, Extension
  <2>11. ASSUME NEW name \in Names
         PROVE  LET xmp == Append(name, "xmp")
                IN /\ IsXmpFile(xmp)
                   /\ InputFile(xmp) = <<a, b>> <=> name = <<a, b>>
                   /\ CorrespondsTo(xmp, <<a, e>>) <=> Head(name) = Head(<<a, b>>)
                   /\ PreviewPath(xmp) = <<a, e>> <=> e = "jpg" /\ Head(name) = Head(<<a, b>>)
    <3>1. PICK g, f : /\ name = <<g, f>> /\ Head(name) = g /\ Front(name) = <<g>>
                      /\ Append(name, "xmp") = <<g, f, "xmp">>
      BY SidecarIs, Zenon
    <3>2. Len(<<g, f, "xmp">>) > 1 /\ Last(<<g, f, "xmp">>) = "xmp" /\ Front(<<g, f, "xmp">>) = <<g, f>>
      BY TripleIs
    <3>3. Front(<<a, e>>) = <<a>> /\ Head(<<a, b>>) = a
      BY PairIs, Zenon
    <3>4. IsXmpFile(<<g, f, "xmp">>) /\ InputFile(<<g, f, "xmp">>) = <<g, f>>
      BY <3>2, Zenon DEF IsXmpFile, InputFile, NoExtension, FileStem, Extension
    <3>5. CorrespondsTo(<<g, f, "xmp">>, <<a, e>>) <=> g = a
      <4>1. CorrespondsTo(<<g, f, "xmp">>, <<a, e>>) <=> <<g>> = <<a>>
        BY <3>1, <3>2, <3>3, Zenon DEF CorrespondsTo, FileStem
      <4>2. <<g>> = <<a>> <=> g = a
        OBVIOUS
      <4> QED
        BY <4>1, <4>2, Zenon
    <3>6. PreviewPath(<<g, f, "xmp">>) = <<a, e>> <=> e = "jpg" /\ g = a
      <4>1. \A c : Append(<<g>>, c) = <<g, c>>
        BY PairIs, Zenon
      <4>2. PreviewPath(<<g, f, "xmp">>) = <<g, "jpg">>
        BY <3>1, <3>2, <4>1, Zenon DEF PreviewPath, WithExtension, NoExtension, FileStem
      <4>3. <<g, "jpg">> = <<a, e>> <=> e = "jpg" /\ g = a
        OBVIOUS
      <4> QED
        BY <4>2, <4>3, Zenon
    <3> QED
      BY <3>1, <3>3, <3>4, <3>5, <3>6, Zenon
  <2> QED
    BY <2>3, <2>4, <2>7, <2>8, <2>9, <2>10, <2>11, Zenon DEF RulesAgree
<1> QED
  BY <1>1, Reading, PTL

=============================================================================

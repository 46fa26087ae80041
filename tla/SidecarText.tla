---------------------------- MODULE SidecarText -----------------------------
(***************************************************************************)
(* What the program makes of the text of a sidecar: Xmp::read_from_file    *)
(* (xmp.rs) with the parser of the edits (xmp/edits.rs, edits/helpers.rs). *)
(* A text is a sequence of tokens, the pieces the parser looks for and the *)
(* values between them; a run of whitespace is one token, and so are the   *)
(* parts of an edit the parser skips.                                      *)
(*                                                                         *)
(* DefaultHasher is taken to tell texts apart: a hash is what was hashed.  *)
(***************************************************************************)
EXTENDS Integers, Sequences, SequencesExt

Ratings == {"-1", "0", "1", "2", "3", "4", "5"}
Digits  == {"0", "1", "2", "3", "4", "5", "6"}
Numbers == {"-1"} \cup Digits

Error(e)   == [error |-> e]
IsError(r) == "error" \in DOMAIN r

-----------------------------------------------------------------------------
(* ParserHelper, with positions in the text instead of a position.         *)

AtEnd(s, p)      == p > Len(s)
Accepts(s, p, t) == p \in DOMAIN s /\ s[p] = t

\* Where the next token t is, or the end of the text.
Until(s, p, t) ==
  CHOOSE i \in p .. Len(s) + 1 :
    /\ AtEnd(s, i) \/ s[i] = t
    /\ \A j \in p .. i - 1 : s[j] # t

\* The text from p to before q.
Span(s, p, q) == SubSeq(s, p, q - 1)

-----------------------------------------------------------------------------
(* The rating and the file the sidecar is about.                           *)

\* The text between the first t and the quote after it.
Quoted(s, t, missing) ==
  LET from == Until(s, 1, t)
      to   == Until(s, from, "quote")
  IN IF AtEnd(s, from) THEN Error(missing)
     ELSE IF AtEnd(s, to) THEN Error("NoFieldEnd")
     ELSE [text |-> Span(s, from + 1, to)]

RatingOf(s) ==
  LET field == Quoted(s, "Rating=", "NoRatingStart")
  IN IF IsError(field) THEN field
     ELSE IF \A n \in Numbers : field.text # <<n>> THEN Error("RatingNotNumber")
     ELSE IF \A n \in Ratings : field.text # <<n>> THEN Error("RatingOutOfRange")
     ELSE [rating |-> field.text[1]]

\* A name is the sequence of its parts between dots, see Naming.
Parts(text) == [i \in 1 .. (Len(text) + 1) \div 2 |-> text[2 * i - 1]]

RawOf(s) ==
  LET field == Quoted(s, "DerivedFrom=", "NoRawListed")
  IN IF IsError(field) THEN field
     ELSE IF \A i \in DOMAIN field.text : field.text[i] # "dot" THEN Error("RawWithoutExtension")
     ELSE [name |-> Parts(field.text)]

-----------------------------------------------------------------------------
(* The edits.                                                              *)

\* Mutant: the parameters of an edit are left out of its hash.
HashOfHead(s, p, q) == Span(s, p, Until(s, p, "params"))

HashOf(s, p, q) == Span(s, p, q)

\* What accept_field accepts behind `<rdf:li`, in this order.
Layout == <<"ws", "num=", "number", "quote", "ws", "operation=", "name", "quote",
            "ws", "enabled=", "flag", "rest", "ws">>

Values == [number |-> Digits, flag |-> {"0", "1"}]

\* One of them; so is how far the parser has come.  accept_until_char takes a
\* value up to a quote.  That the text ends with the number or the name is a
\* panic, "peeked for accept until".
Accept(s, so, item) ==
  LET p   == so.at
      to  == Until(s, p, "quote")
      end == Until(s, p, "/>")
  IN IF IsError(so) THEN so
     ELSE IF item = "rest"
       THEN IF AtEnd(s, end) THEN Error("ParseEdits")
            ELSE [at |-> end + 1, start |-> so.start, hash |-> HashOf(s, so.start, end)]
     ELSE IF item = "name" THEN [so EXCEPT !.at = to]
     ELSE IF item \in DOMAIN Values
       THEN IF \A v \in Values[item] : Span(s, p, to) # <<v>> THEN Error("ParseEdits")
            ELSE [so EXCEPT !.at = to]
     ELSE IF Accepts(s, p, item) THEN [so EXCEPT !.at = p + 1]
     ELSE Error(IF item = "quote" THEN "panic" ELSE "ParseEdits")

\* Mutant: the text is split where fields begin.
SplitField(s, p) == [at |-> Until(s, p, "li"), hash |-> Span(s, p, Until(s, p, "li"))]

\* accept_field: the hash of the edit and the position behind it.
AcceptField(s, p) ==
  LET accepted[i \in 0 .. Len(Layout)] ==
        IF i = 0 THEN [at |-> p, start |-> p + 1, hash |-> <<>>]
        ELSE LET so == accepted[i - 1] IN Accept(s, so, Layout[i])
  IN accepted[Len(Layout)]

\* accept_field again and again, from p on: the hashes of the edits.
FieldsFrom(s, p) ==
  LET fields[q \in 1 .. Len(s) + 1] ==
        IF ~Accepts(s, q, "li") THEN [hashes |-> <<>>]
        ELSE LET field  == AcceptField(s, q + 1)
                 others == fields[field.at]
             IN IF IsError(field) THEN field
                ELSE IF IsError(others) THEN others
                ELSE [hashes |-> <<field.hash>> \o others.hashes]
  IN fields[p]

\* Mutant: the first sequence of the text is taken for that of the history.
HistoryAtFirst(s) == 1

HistoryAt(s) == Until(s, 1, "history")

\* parse_edits.  The sequence of the history is looked for in all of the text
\* behind `<darktable:history>`.
EditsOf(s) ==
  LET first == Until(s, HistoryAt(s), "Seq")
  IN IF AtEnd(s, first) THEN [hashes |-> <<>>]
     ELSE IF ~Accepts(s, first + 1, "ws") THEN Error("ParseEdits")
     ELSE FieldsFrom(s, first + 2)

-----------------------------------------------------------------------------
(* read_from_file: the first of the three parts that fails is the error.   *)

ReadFromFile(s) ==
  LET rating == RatingOf(s)
      edits  == EditsOf(s)
      raw    == RawOf(s)
  IN IF IsError(rating) THEN rating
     ELSE IF IsError(edits) THEN edits
     ELSE IF IsError(raw) THEN raw
     ELSE [rating |-> rating.rating, edits |-> edits.hashes, raw |-> raw.name]

EditHash(xmp) == xmp.edits

-----------------------------------------------------------------------------
(* What darktable writes, after tests/assets: the attributes, the history  *)
(* of the masks, that of the edits, and tags or names of people.           *)

Syntax ==
  {"DerivedFrom=", "Rating=", "dot", "quote", "ws", "history", "Seq", "/Seq", "Seq/", "Bag", "/Bag",
   "li", ">", "/>", "num=", "operation=", "enabled=", "params"}

\* Names, operations and parameters are told from the pieces around them.
Word == STRING \ Syntax

Edit == [operation : Word, enabled : {"0", "1"}, params : Word]

Document ==
  [raw : Word \X Word, rating : Ratings, edits : Seq(Edit), masked : BOOLEAN, people : BOOLEAN]

Field(n, e) ==
  <<"li", "ws", "num=", n, "quote", "ws", "operation=", e.operation, "quote", "ws",
    "enabled=", e.enabled, "quote", "ws", "params", e.params, "quote", "/>", "ws">>

Sequence(fields) ==
  IF fields = <<>> THEN <<"Seq/", "ws">> ELSE <<"Seq", "ws">> \o FlattenSeq(fields) \o <<"/Seq", "ws">>

\* The number of an edit, of which the parser asks only that it is one.
Num(i) == <<"0", "1", "2", "3", "4", "5", "6">>[((i - 1) % 7) + 1]

Mask == [operation |-> "mask", enabled |-> "1", params |-> "p"]

Text(d) ==
  <<"DerivedFrom=", d.raw[1], "dot", d.raw[2], "quote", "ws", "Rating=", d.rating, "quote", "ws">>
  \o Sequence(IF d.masked THEN <<Field("0", Mask)>> ELSE <<>>)
  \o <<"history", "ws">>
  \o Sequence([i \in DOMAIN d.edits |-> Field(Num(i), d.edits[i])])
  \o (IF d.people THEN <<"Seq", "ws", "li", ">", "name", "/Seq">>
                  ELSE <<"Bag", "ws", "li", ">", "tag", "/Bag">>)

=============================================================================

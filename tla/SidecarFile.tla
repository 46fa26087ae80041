---------------------------- MODULE SidecarFile -----------------------------
(***************************************************************************)
(* A sidecar is written piece by piece, deleted and replaced, and may be   *)
(* read at any time: what is read is what SidecarText makes of the text    *)
(* that is there, and Naming says which preview that sidecar has.  Who     *)
(* reads, and how often, is the matter of ParsedXmps and Mirror.           *)
(***************************************************************************)
EXTENDS SidecarText, Naming

CONSTANTS
  Documents,   \* sidecars that are written, see Text
  Names        \* names a sidecar may have, without the xmp at their end

ASSUME DocumentsAssumption ==
  Documents \subseteq {d \in Document : d.raw[2] \in DOMAIN Lower}
ASSUME NamesAssumption == Names \subseteq Word \X Word

VARIABLES
  doc,      \* the sidecar written last, or being written
  length,   \* how much of its text there is; -1 when there is no file
  reading   \* what a reader is given now

vars == <<doc, length, reading>>

Whole == length = Len(Text(doc))

Read(d, n) == IF n = -1 THEN Error("NotFound") ELSE ReadFromFile(SubSeq(Text(d), 1, n))

Init ==
  /\ doc \in Documents /\ length \in {-1, Len(Text(doc))}
  /\ reading = Read(doc, length)

Holds(d, n) == doc' = d /\ length' = n /\ reading' = Read(d, n)

\* The file is created or truncated, and then written to its end.
Truncate == (length = -1 \/ Whole) /\ \E d \in Documents : Holds(d, 0)

Write == length # -1 /\ ~Whole /\ Holds(doc, length + 1)

\* It is deleted, or a complete one is moved to its place.
Delete == Whole /\ Holds(doc, -1)

MoveOver == (length = -1 \/ Whole) /\ \E d \in Documents : Holds(d, Len(Text(d)))

Next == Truncate \/ Write \/ Delete \/ MoveOver

Spec == Init /\ [][Next]_vars

-----------------------------------------------------------------------------
(* Properties                                                              *)

\* A sidecar that was written to its end is read, and read as it was: its
\* rating, its file, and an edit for each of its history, whatever else in it
\* has sequences.  (xmp.rs, read_from_file; edits.rs, parse_edits.)
ReadsBack ==
  Whole => /\ ~IsError(reading)
           /\ reading.rating = doc.rating /\ reading.raw = doc.raw
           /\ Len(reading.edits) = Len(doc.edits)

\* xmp.rs: "if the edits changed we need to re-export".  When one sidecar takes
\* the place of another, at once or after being written, the hash is another
\* exactly when the edits are, whatever else they say.
HashTellsEdits ==
  Whole => \A d \in Documents :
    EditHash(ReadFromFile(Text(d))) = EditHash(reading) <=> d.edits = doc.edits

\* What is read of a sidecar while it is being written is an error, or its
\* rating, its file, and the first of its edits: an edit is there entirely or
\* not at all.  (edits.rs, accept_field.)
TornIsPrefix ==
  ~IsError(reading) =>
    /\ reading.rating = doc.rating /\ reading.raw = doc.raw
    /\ IsPrefix(reading.edits, ReadFromFile(Text(doc)).edits)

\* Where the rules for the preview of a sidecar agree, and where they do not.
\* A listing recognises the preview if it ends in jpg; the scan takes it for
\* that of the sidecars with the stem of the photo in their name; handle_event
\* looks for it where the scan made it if both hold.  So all is well for a
\* sidecar called after its photo, and a duplicate, called otherwise, makes a
\* preview that the scan takes for that of another sidecar, and that
\* handle_event does not remove.  (fs.rs: corresponds_to, preview_path; xmp.rs:
\* preview_file.)
RulesAgree ==
  ~IsError(reading) =>
    LET preview == PreviewFile(reading.raw)
        simple  == IsRaw(reading.raw) \/ IsJpg(reading.raw)
    IN /\ IsPreviewFile(preview) <=> simple
       /\ \A name \in Names :
            LET xmp == Append(name, "xmp")
            IN /\ IsXmpFile(xmp)
               /\ InputFile(xmp) = reading.raw <=> name = reading.raw
               /\ CorrespondsTo(xmp, preview) <=> Head(name) = Head(reading.raw)
               /\ PreviewPath(xmp) = preview <=> simple /\ Head(name) = Head(reading.raw)

\* edits.rs: "xmp uses having only the end tag `<rfd:Seq/>` to signal an empty
\* sequence".  A photo without edits reads as one without edits.
EmptyHistoryRead ==
  Whole /\ doc.edits = <<>> => ~IsError(reading) /\ reading.edits = <<>>

=============================================================================

------------------------------- MODULE Naming -------------------------------
(***************************************************************************)
(* Which preview a sidecar has (fs.rs, xmp.rs).  Three rules say so: the   *)
(* scan finds the sidecar of a preview by corresponds_to, makes and looks  *)
(* for the preview at preview_file, and handle_event cleans up at          *)
(* preview_path.  The first and the last go by the name of the sidecar,    *)
(* the second by the name of the photo in its text; of the duplicate       *)
(* a_01.NEF.xmp of a.NEF.xmp these are two names.  A name is the sequence  *)
(* of its parts between dots.                                              *)
(***************************************************************************)
EXTENDS Naturals, Sequences, SequencesExt

Extension(name) == Last(name)   \* of a name with a dot
FileStem(name)  == Front(name)

WithExtension(name, e) == Append(FileStem(name), e)
NoExtension(name)      == FileStem(name)    \* with_extension("")

Lower == [NEF |-> "nef", nef |-> "nef", jpg |-> "jpg", JPG |-> "jpg",
          jpeg |-> "jpeg", gif |-> "gif", png |-> "png", PNG |-> "png"]

NeedsNoExport(raw) == Lower[Extension(raw)] \in {"jpeg", "jpg", "gif", "png"}

\* try_from of a directory entry.
IsPreviewFile(name) == Len(name) > 1 /\ Extension(name) = "jpg"
IsXmpFile(name)     == Len(name) > 1 /\ Extension(name) = "xmp"

InputFile(xmp) == NoExtension(xmp)

PreviewFile(raw) ==
  IF NeedsNoExport(raw) THEN WithExtension(raw, Extension(raw)) ELSE WithExtension(raw, "jpg")

\* Mutant: only the extension xmp is replaced.
PreviewBeside(xmp) == WithExtension(xmp, "jpg")

PreviewPath(xmp) == WithExtension(NoExtension(xmp), "jpg")

CorrespondsTo(xmp, preview) == <<Head(FileStem(xmp))>> = FileStem(preview)

\* What becomes of a sidecar, see Mirror and ScanTree.
IsRaw(raw) == ~NeedsNoExport(raw)
IsJpg(raw) == NeedsNoExport(raw) /\ Extension(raw) = "jpg"

=============================================================================

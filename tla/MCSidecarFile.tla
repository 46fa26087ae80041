---------------------------- MODULE MCSidecarFile ---------------------------
(* Instances of SidecarFile for TLC.                                       *)
EXTENDS SidecarFile

Flip(is, params) == [operation |-> "flip", enabled |-> is, params |-> params]

Histories == { <<>>, <<Flip("1", "p")>>, <<Flip("0", "p")>>, <<Flip("1", "q")>>,
               <<Flip("1", "p"), Flip("1", "q")>>, <<Flip("1", "q"), Flip("1", "p")>> }

Photos == {"a", "b"} \X {"NEF", "jpg", "JPG", "png"}

\* Every history with a history of masks and names of people and without, two
\* photos, and a photo of every name; an unedited photo with the name of a
\* person is read wrongly, see EmptyHistoryRead.
Written ==
  {d \in [raw : {<<"a", "NEF">>}, rating : {"0", "3"}, edits : Histories,
          masked : BOOLEAN, people : BOOLEAN] : d.edits # <<>> \/ ~d.people}
  \cup [raw : Photos, rating : {"-1"}, edits : {<<Flip("1", "p")>>}, masked : {FALSE}, people : {TRUE}]

\* The sidecars of these photos and of duplicates of them.
Called == Photos \cup ({"a_01"} \X {"NEF", "jpg"})

=============================================================================

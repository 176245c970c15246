------------------------------- MODULE MCPatch -------------------------------
(* Instances of PatchService: one or two files, previews that push each other *)
(* out of the retention limits, direct applies with and without a base.       *)
EXTENDS PatchService

CONSTANTS x, y, z, t1, t2

TextX   == <<x>>
TextsY  == {<<y>>}
TextsYZ == {<<y>>, <<z>>}
EditsX  == {<<x, CR>>}
AllBase == {{"mtime", "hash"}}

ASSUME MCMarksAreFirst == MarksAreFirst({x, y, z, NL, CR})
=============================================================================

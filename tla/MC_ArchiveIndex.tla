-------------------------- MODULE MC_ArchiveIndex --------------------------
(***************************************************************************)
(* All trees of depth two over three names.  A file "a" is empty.          *)
(***************************************************************************)
EXTENDS ArchiveIndex

\* "a", "a.b" and "b"
WithDot == {<<97>>, <<97, 46, 98>>, <<98>>}

\* The length of the last name, less one.
Sizes(f) == Len(f[Len(f)]) - 1
=============================================================================

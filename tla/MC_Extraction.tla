---------------------------- MODULE MC_Extraction ----------------------------
(***************************************************************************)
(* Five entries, the second one empty and a gap before the fifth: copying  *)
(* all of them takes a group of four and a group of one, and skipping one  *)
(* in the middle of the first group may split it.                          *)
(***************************************************************************)
EXTENDS Extraction

Offsets == <<0, 2, 2, 4, 6>>
Sizes == <<2, 0, 2, 1, 1>>
All == 1..5

\* The fourth entry is stored plain and the third compressed: one of them or
\* none is corrupt.  The third is out of range or not, and exists or not.
CopyDirs ==
    {c \in [single : {FALSE}, requested : {All}, valid : {All, All \ {3}, All \ {4}}, outOfRange : {{}, {3}},
            existing : {{3}, {1, 4}}, overwrite : BOOLEAN, cleanDest : BOOLEAN,
            removeErrors : BOOLEAN] :
        /\ c.outOfRange # {} => c.valid = All
        /\ c.cleanDest => ~c.overwrite
        /\ c.removeErrors => c.overwrite}

\* CopyFile of the third entry
CopyFiles ==
    [single : {TRUE}, requested : {{3}}, valid : {All, All \ {3}}, outOfRange : {{}},
     existing : {{}, {3}}, overwrite : BOOLEAN, cleanDest : {FALSE}, removeErrors : BOOLEAN]

Copies == CopyDirs \cup CopyFiles
=============================================================================

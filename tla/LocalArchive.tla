---------------------------- MODULE LocalArchive ----------------------------
(***************************************************************************)
(* Archives in two local files: OpenFile reads the index and opens the     *)
(* data, Save replaces the two files one after the other, CreateBlob       *)
(* truncates them and writes them in place.  All of them work on one pair  *)
(* of paths, while the Blobs that were opened there are being read, as     *)
(* BlobRead says.                                                          *)
(*                                                                         *)
(* An archive is named by the call that writes it.  Every archive holds    *)
(* the same files at places of its own, so an index finds its files only   *)
(* in the data that belongs to it.  What a path leads to is an inode: it   *)
(* outlives the path as long as a Blob has it open.                        *)
(***************************************************************************)
EXTENDS BlobRead, Sequences

CONSTANTS
    Writers,  \* calls of Save and CreateBlob
    Blobs     \* Blobs of the readers

\* A Blob in local files finds nothing before it is opened, and the data stays as
\* it is (steady) where no file is written in place.
ASSUME LocalAssumption ==
    \A c \in Configs :
        /\ c.blobOf \in [Readers -> Blobs]
        /\ c.source \in [Blobs -> {None} \cup [Files -> {"good", "bad", "short"}]]
        /\ c.jobs \in [Writers -> {"none", "save", "create"}]
        /\ c.local => \A b \in Blobs : c.source[b] = None
        /\ c.steady => \A w \in Writers : c.jobs[w] # "create"

VARIABLES
    disk,    \* disk[n]: what inode n holds, <<archive, "part" or "whole">>
    link,    \* link.index, link.data: the inodes at the paths, 0 if there is none
    wpc,     \* wpc[w]: what writer w does next
    fd,      \* fd[w]: the inodes that CreateBlob has open
    opened   \* opened[b]: the archive of b's index, the inode of its data and, as
             \* history, what that inode held at the time

local == <<disk, link, wpc, fd, opened>>

Whole(v) == <<v, "whole">>
Empty == <<None, "part">>
Mixed == <<None, "whole">>
NoFile == [of |-> None, inode |-> 0, found |-> Empty]
NoFiles == [index |-> 0, data |-> 0]

LocalInit ==
    /\ Init
    /\ disk = IF conf.existing THEN <<Whole("old"), Whole("old")>> ELSE <<>>
    /\ link = IF conf.existing THEN [index |-> 1, data |-> 2] ELSE NoFiles
    /\ wpc = conf.jobs
    /\ fd = [w \in Writers |-> NoFiles]
    /\ opened = [b \in Blobs |-> NoFile]

\* What a Blob with the index of archive v finds in a data file.
Finds(v, content) ==
    IF content = Whole(v) THEN "good" ELSE IF content[2] = "part" THEN "short" ELSE "bad"

\* Part of an open file was read before its data changed.
Blend(p, w) == IF p > 0 /\ w = "good" THEN "bad" ELSE w

\* The inodes are d and the Blobs o: what the Blobs, and the files that are being
\* read from them, find now.
Become(d, o) ==
    LET seen == [b \in Blobs |-> IF o[b].inode = 0 THEN source[b]
                                 ELSE [f \in Files |-> Finds(o[b].of, d[o[b].inode])]]
        New(r) == seen[BlobOf(r)][file[r]]
    IN  /\ disk' = d
        /\ opened' = o
        /\ source' = seen
        /\ what' = [r \in Readers |->
              IF At(r, "open") /\ from[r] = "source" /\ pos[r] < Chunks /\ New(r) # Source(r)
              THEN Blend(pos[r], New(r)) ELSE what[r]]
        /\ UNCHANGED <<cache, pc, file, from, pos, verified, res, conf>>

WGoto(w, label) == wpc' = [wpc EXCEPT ![w] = label]
WAt(w, label) == wpc[w] = label
Fail(w, label) ==
    /\ conf.ioErrors
    /\ WGoto(w, label)
    /\ Become(disk, opened)
    /\ UNCHANGED <<link, fd>>

\* os.Remove of the paths in ps; errors are ignored.
Remove(w, ps) ==
    /\ \E gone \in {ps} \cup (IF conf.removeErrors THEN SUBSET ps ELSE {}) :
          link' = [p \in DOMAIN link |-> IF p \in gone THEN 0 ELSE link[p]]
    /\ WGoto(w, "err")
    /\ Become(disk, opened)
    /\ UNCHANGED fd

-----------------------------------------------------------------------------
(* Save *)

ReplaceInPlace(w, p) ==  \* mutant: the file at the path is written
    IF link[p] = 0
    THEN Become(Append(disk, Whole(w)), opened) /\ link' = [link EXCEPT ![p] = Len(disk) + 1]
    ELSE Become([disk EXCEPT ![link[p]] = Whole(w)], opened) /\ UNCHANGED link
\* A temporary file is written and renamed; it is gone if one of the steps fails.
Replace(w, p) ==
    /\ Become(Append(disk, Whole(w)), opened)
    /\ link' = [link EXCEPT ![p] = Len(disk) + 1]

SaveIndex(w) ==
    /\ WAt(w, "save")
    /\ \/ Replace(w, "index") /\ WGoto(w, "savedata") /\ UNCHANGED fd
       \/ Fail(w, "err")

SaveData(w) ==
    /\ WAt(w, "savedata")
    /\ \/ Replace(w, "data") /\ WGoto(w, "nil") /\ UNCHANGED fd
       \/ Fail(w, "saveundo")

SaveUndo(w) == WAt(w, "saveundo") /\ Remove(w, {"index"})

-----------------------------------------------------------------------------
(* CreateBlob *)

\* os.Create
Truncate(w, p) ==
    IF link[p] = 0
    THEN /\ Become(Append(disk, Empty), opened)
         /\ link' = [link EXCEPT ![p] = Len(disk) + 1]
         /\ fd' = [fd EXCEPT ![w][p] = Len(disk) + 1]
    ELSE /\ Become([disk EXCEPT ![link[p]] = Empty], opened)
         /\ fd' = [fd EXCEPT ![w][p] = link[p]]
         /\ UNCHANGED link

\* A write to the open file p that should hold old by now.
WriteTo(w, p, old, new) ==
    /\ Become([disk EXCEPT ![fd[w][p]] = IF @ = old THEN new ELSE Mixed], opened)
    /\ UNCHANGED <<link, fd>>

CreateIndex(w) ==
    /\ WAt(w, "create")
    /\ \/ Truncate(w, "index") /\ WGoto(w, "createdata")
       \/ Fail(w, "err")

CreateData(w) ==
    /\ WAt(w, "createdata")
    /\ \/ Truncate(w, "data") /\ WGoto(w, "write")
       \/ Fail(w, "createundo")

\* Create writes the files one by one and the index at the end.
WriteData(w) ==
    /\ WAt(w, "write")
    /\ \/ WriteTo(w, "data", Empty, <<w, "part">>) /\ WGoto(w, "writerest")
       \/ Fail(w, "undo")

WriteRest(w) ==
    /\ WAt(w, "writerest")
    /\ \/ WriteTo(w, "data", <<w, "part">>, Whole(w)) /\ WGoto(w, "writeindex")
       \/ Fail(w, "undo")

WriteIndex(w) ==
    /\ WAt(w, "writeindex")
    /\ \/ WriteTo(w, "index", Empty, Whole(w)) /\ WGoto(w, "close")
       \/ Fail(w, "undo")

CloseFiles(w) ==
    /\ WAt(w, "close")
    /\ \/ WGoto(w, "nil") /\ Become(disk, opened) /\ UNCHANGED <<link, fd>>
       \/ Fail(w, "undo")

CreateUndo(w) == WAt(w, "createundo") /\ Remove(w, {"index"})
Undo(w) == WAt(w, "undo") /\ Remove(w, {"index", "data"})

-----------------------------------------------------------------------------
(* OpenFile, which CreateBlob ends with, too *)

\* An index that is missing or does not load is an error.
OpenIndex(b) ==
    /\ conf.local /\ opened[b] = NoFile
    /\ \E r \in conf.active : BlobOf(r) = b
    /\ link.index # 0 /\ disk[link.index] \in {Whole(v) : v \in Writers \cup {"old"}}
    /\ Become(disk, [opened EXCEPT ![b].of = disk[link.index][1]])
    /\ UNCHANGED <<link, wpc, fd>>

OpenData(b) ==
    /\ opened[b] # NoFile /\ opened[b].inode = 0
    /\ Become(disk, [opened EXCEPT ![b] = IF link.data = 0 THEN NoFile
                                          ELSE [@ EXCEPT !.inode = link.data, !.found = disk[link.data]]])
    /\ UNCHANGED <<link, wpc, fd>>

Writer(w) ==
    \/ SaveIndex(w) \/ SaveData(w) \/ SaveUndo(w)
    \/ CreateIndex(w) \/ CreateData(w) \/ WriteData(w) \/ WriteRest(w) \/ WriteIndex(w)
    \/ CloseFiles(w) \/ CreateUndo(w) \/ Undo(w)

\* Readers call an open Blob.
Reads(r) ==
    /\ Step(r) \/ (r \in conf.active /\ source[BlobOf(r)] # None /\ Call(r))
    /\ UNCHANGED <<source, conf, local>>

LocalNext ==
    \/ \E r \in Readers : Reads(r)
    \/ \E f \in Files : Damage(f) /\ UNCHANGED <<source, conf, local>>
    \/ \E w \in Writers : Writer(w)
    \/ \E b \in Blobs : OpenIndex(b) \/ OpenData(b)
    \/ /\ \A w \in Writers : wpc[w] \in {"none", "nil", "err"}  \* nothing to open
       /\ \A b \in Blobs : conf.local /\ opened[b] = NoFile
       /\ UNCHANGED <<vars, local>>

\* Goroutines inside a call are scheduled; writers may stop anywhere.
LocalSpec ==
    /\ LocalInit /\ [][LocalNext]_<<vars, local>>
    /\ \A r \in Readers : WF_<<vars, local>>(Step(r) /\ UNCHANGED <<source, conf, local>>)
-----------------------------------------------------------------------------
(* Properties *)

Paired == \E v \in Writers \cup {"old"} :
    disk[link.index] = Whole(v) /\ link.data # 0 /\ disk[link.data] = Whole(v)

\* Save "uses atomic writes (temp file + rename) to prevent partial writes on
\* failure": where archives are only saved, the files at the paths are whole at
\* every moment, and the data of a Blob stays as it was when the Blob was opened,
\* whatever is saved to its paths meanwhile.  A lone call of Save or CreateBlob
\* that has returned, with an error or not, leaves no index beside the data of
\* another archive, unless it could not remove it.
FilesPaired ==
    /\ (\A w \in Writers : conf.jobs[w] # "create") =>
         /\ \A p \in DOMAIN link : link[p] # 0 => disk[link[p]][2] = "whole"
         /\ \A b \in Blobs : opened[b].inode # 0 => disk[opened[b].inode] = opened[b].found
    /\ \A w \in Writers :
         /\ wpc[w] \in {"nil", "err"} /\ ~conf.removeErrors
         /\ \A u \in Writers \ {w} : conf.jobs[u] = "none"
         => link.index = 0 \/ Paired
=============================================================================

---------------------------- MODULE ArchiveIndex ----------------------------
(***************************************************************************)
(* Writing the index of an archive, and finding entries in it.  Create     *)
(* walks a directory tree and appends one entry per file (writeData,       *)
(* processEntry); buildIndex keeps that order.  LookupView is a binary     *)
(* search over the entries and EntriesWithPrefixView a binary search       *)
(* followed by a scan; Stat, ReadDir, DirStats, CopyDir and the handles of *)
(* open directories are built on them.                                     *)
(*                                                                         *)
(* A file is the sequence of the names on the way to it and a name is the  *)
(* sequence of its bytes, because the searches compare paths as bytes.     *)
(***************************************************************************)
EXTENDS Grouping, FiniteSets, FiniteSetsExt

CONSTANTS
    Names,      \* names of files and directories
    SizeOf(_),  \* stored size of a file
    MaxPage,    \* bound on the argument of openDir.ReadDir
    MaxFiles    \* CreateWithMaxFiles or its default; not positive: no limit

Slash == <<47>>
Dot == <<46>>  \* the root

VARIABLES
    tree,     \* the files below the root of the directory
    entries,  \* the entries written so far: records of path, offset and size
    total,    \* bytes written to the data blob
    phase,    \* "walk", "err" or "done"
    handle    \* an openDir and what it has returned since its iterator began

archive == <<tree, entries, total, phase>>
vars == <<archive, handle>>

Directories == {Dot} \cup Names
Files == {<<n>> : n \in Names} \cup {<<m, n>> : m, n \in Names}

\* A name is a file or a directory, not both.
IsTree(t) == \A n \in Names : <<n>> \in t => \A m \in Names : <<n, m>> \notin t

NoIter == [views |-> <<>>, prefix |-> <<>>, last |-> <<>>, done |-> FALSE, made |-> FALSE]
NoHandle == [open |-> FALSE, name |-> Dot, iter |-> NoIter, listed |-> <<>>, eof |-> FALSE]

Init ==
    /\ tree \in {t \in SUBSET Files : IsTree(t)}
    /\ entries = <<>>
    /\ total = 0
    /\ phase = "walk"
    /\ handle = NoHandle

-----------------------------------------------------------------------------
\* bytes.Compare(p, q) < 0
Less(p, q) ==
    \/ Len(p) < Len(q) /\ IsPrefix(p, q)
    \/ \E k \in 1..Len(p) :
          /\ k <= Len(q)
          /\ SubSeq(p, 1, k - 1) = SubSeq(q, 1, k - 1)
          /\ p[k] < q[k]

\* fs.WalkDir reads every directory in the order of its names.
WalksBefore(f, g) ==
    \/ Less(f[1], g[1])
    \/ f # g /\ f[1] = g[1] /\ Less(f[2], g[2])

Path(f) == IF Len(f) = 1 THEN f[1] ELSE f[1] \o Slash \o f[2]

NoOffset == 0  \* mutant: the offset is not set
\* entry.DataOffset = totalBytes
NextOffset == total

\* The walk visits its next file: processEntry, then the entry is appended.
Visit ==
    /\ phase = "walk"
    /\ \E f \in tree :
         /\ \A e \in Range(entries) : e.path # Path(f)
         /\ \A g \in tree : WalksBefore(g, f) => \E e \in Range(entries) : e.path = Path(g)
         /\ IF MaxFiles > 0 /\ Len(entries) >= MaxFiles
            THEN phase' = "err" /\ UNCHANGED <<entries, total>>
            ELSE /\ entries' = Append(entries,
                        [path |-> Path(f), offset |-> NextOffset, size |-> SizeOf(f)])
                 /\ total' = total + SizeOf(f)
                 /\ UNCHANGED phase
    /\ UNCHANGED <<tree, handle>>

\* The walk is over: buildIndex stores the entries as they are.
BuildIndex ==
    /\ phase = "walk"
    /\ Len(entries) = Cardinality(tree)
    /\ phase' = "done"
    /\ UNCHANGED <<tree, entries, total, handle>>

-----------------------------------------------------------------------------
(* The index.  Positions begin at 0, as in the code. *)

PathAt(i) == entries[i + 1].path

Later(start, middle) == start + middle  \* mutant: off by one
After(start, middle) == start + middle + 1

\* LookupByKey: is key among the span entries from start on?
RECURSIVE LookupByKey(_, _, _)
LookupByKey(key, start, span) ==
    LET middle == span \div 2 IN
    /\ span # 0
    /\ \/ PathAt(start + middle) = key
       \/ Less(key, PathAt(start + middle)) /\ LookupByKey(key, start, middle)
       \/ /\ Less(PathAt(start + middle), key)
          /\ LookupByKey(key, After(start, middle), span - middle - 1)

LookupView(key) == LookupByKey(key, 0, Len(entries))

\* sort.Search(n, f), with f(i) = the path at i is not before key
RECURSIVE Search(_, _, _)
Search(key, i, j) ==
    LET h == (i + j) \div 2 IN
    IF i >= j THEN i
    ELSE IF Less(PathAt(h), key) THEN Search(key, h + 1, j) ELSE Search(key, i, h)

SearchRest(key, n) == IF n = 0 THEN 0 ELSE Search(key, 1, n)  \* mutant: skips the first entry
SearchAll(key, n) == Search(key, 0, n)

\* EntriesWithPrefixView: scan from the first candidate while the prefix matches.
EntriesWithPrefixView(prefix) ==
    LET start == SearchAll(prefix, Len(entries))
        end == CHOOSE k \in start..Len(entries) :
                  /\ \A i \in start..(k - 1) : IsPrefix(prefix, PathAt(i))
                  /\ k < Len(entries) => ~IsPrefix(prefix, PathAt(k))
    IN  SubSeq(entries, start + 1, end)

\* file.DirPrefix
DirPrefix(name) == IF name = Dot THEN <<>> ELSE name \o Slash

\* file.Child: the part of the path after the prefix, up to the first slash.
Child(path, prefix) ==
    LET rel == SubSeq(path, Len(prefix) + 1, Len(path))
        cut == {k \in 1..Len(rel) : rel[k] = Slash[1]}
    IN  IF cut = {} THEN [name |-> rel, dir |-> FALSE]
        ELSE [name |-> SubSeq(rel, 1, Min(cut) - 1), dir |-> TRUE]

-----------------------------------------------------------------------------
(* Questions about a path *)

\* A slash stays if an element precedes it and another one follows at once.
JoinElements(p) ==
    LET Element(k) == k \in DOMAIN p /\ p[k] # Slash[1]
        Stays(k) == Element(k) \/ (Element(k + 1) /\ \E i \in 1..k : Element(i))
        kept == SelectSeq([k \in DOMAIN p |-> k], Stays)
    IN  [i \in DOMAIN kept |-> p[kept[i]]]

NormalizePath(p) == LET q == JoinElements(p) IN IF q = <<>> THEN Dot ELSE q

\* fs.ValidPath; no name is "." or "..".
ValidPath(p) == p # <<>> /\ JoinElements(p) = p

isDir(name) ==
    IF name = Dot THEN entries # <<>> ELSE EntriesWithPrefixView(name \o Slash) # <<>>

\* Stat, and what Open opens
Stat(name) ==
    IF ~ValidPath(name) THEN "invalid"
    ELSE IF LookupView(name) THEN "file" ELSE IF isDir(name) THEN "dir" ELSE "missing"

\* Every entry is a regular file.
IsFile(path) == ValidPath(NormalizePath(path)) /\ LookupView(NormalizePath(path))
IsDir(path) == ValidPath(NormalizePath(path)) /\ isDir(NormalizePath(path))
Exists(path) == IsFile(path) \/ IsDir(path)

\* ValidateFiles: what is wrong with the first bad path of a list.
Validate(path) ==
    LET p == NormalizePath(path) IN
    IF ~ValidPath(p) THEN "invalid"
    ELSE IF LookupView(p) THEN "ok" ELSE IF isDir(p) THEN "directory" ELSE "missing"
ValidateFiles(paths) ==
    LET bad == {i \in DOMAIN paths : Validate(paths[i]) # "ok"}
    IN  IF bad = {} THEN "ok" ELSE Validate(paths[Min(bad)])

\* DirStats: one file, or all files below a directory
StatsOf(es) == [files |-> Len(es), bytes |-> FoldLeft(LAMBDA n, e : n + e.size, 0, es)]
DirStats(path) ==
    LET p == NormalizePath(path) IN
    IF ~ValidPath(p) THEN StatsOf(<<>>)
    ELSE IF p # Dot /\ LookupView(p) THEN StatsOf(SelectSeq(entries, LAMBDA e : e.path = p))
    ELSE StatsOf(EntriesWithPrefixView(DirPrefix(p)))

-----------------------------------------------------------------------------
(* Directories *)

newDirIter(prefix) ==
    [NoIter EXCEPT !.views = EntriesWithPrefixView(prefix), !.prefix = prefix, !.made = TRUE]

RepeatsNone(it, c) == FALSE  \* mutant: every file of a subdirectory is listed
\* childName == it.lastName
Repeats(it, c) == it.last = c.name

\* dirIter.Next until n entries are read, all of them if n is 0.
RECURSIVE ReadEntries(_, _, _)
ReadEntries(it, n, list) ==
    IF it.done \/ (n > 0 /\ Len(list) = n) THEN [iter |-> it, list |-> list]
    ELSE IF it.views = <<>> THEN [iter |-> [it EXCEPT !.done = TRUE], list |-> list]
    ELSE LET c == Child(Head(it.views).path, it.prefix)
             rest == [it EXCEPT !.views = Tail(@)]
         IN  IF Repeats(it, c) THEN ReadEntries(rest, n, list)
             ELSE ReadEntries([rest EXCEPT !.last = c.name], n, Append(list, c))

ReadDir(name) == ReadEntries(newDirIter(DirPrefix(name)), 0, <<>>).list

\* Open of a directory
OpenDir(name) ==
    /\ phase = "done" /\ ~handle.open
    /\ Stat(name) = "dir"
    /\ handle' = [NoHandle EXCEPT !.open = TRUE, !.name = name]
    /\ UNCHANGED archive

AfreshIter(h) == newDirIter(DirPrefix(h.name))  \* mutant: each call begins again
\* if d.iter == nil
Iter(h) == IF h.iter.made THEN h.iter ELSE newDirIter(DirPrefix(h.name))

\* openDir.ReadDir(n)
ReadDirN(n) ==
    LET r == ReadEntries(Iter(handle), n, <<>>) IN
    /\ handle.open
    /\ handle' = [handle EXCEPT !.iter = r.iter, !.listed = @ \o r.list,
                                !.eof = n > 0 /\ r.list = <<>>]
    /\ UNCHANGED archive

\* openDir.Close: a handle that is read again begins again.
CloseDir ==
    /\ handle.open /\ handle.iter.made
    /\ handle' = [handle EXCEPT !.iter = NoIter, !.listed = <<>>, !.eof = FALSE]
    /\ UNCHANGED archive

\* The caller is done with the handle.
Leave == handle.open /\ handle' = NoHandle /\ UNCHANGED archive

Next ==
    \/ Visit \/ BuildIndex
    \/ \E d \in Directories : OpenDir(d)
    \/ \E n \in 0..MaxPage : ReadDirN(n)
    \/ CloseDir \/ Leave
    \/ phase # "walk" /\ UNCHANGED vars

Spec == Init /\ [][Next]_vars
-----------------------------------------------------------------------------
(* Properties *)

\* The archive is there; handles change no answer.
Loaded == phase = "done" /\ ~handle.open

Below(dir) == IF dir = Dot THEN tree ELSE {f \in tree : Len(f) = 2 /\ f[1] = dir}

\* "The index can use binary search for O(log n) lookups" (architecture.md):
\* the lookup finds every file of the archive and nothing else.
LookupExact == phase = "done" => \A f \in Files : LookupView(Path(f)) <=> f \in tree

\* Beside some directory there is a name that extends its name with a byte that
\* sorts before the slash: the order of the walk is not the order of the paths.
Confusable ==
    \E f \in tree, g \in tree :
        /\ Len(f) = 2 /\ g[1] # f[1] /\ IsPrefix(f[1], g[1])
        /\ g[1][Len(f[1]) + 1] < Slash[1]

\* What is at a sequence of names; the root of an archive without files is missing.
Kind(q) ==
    IF q \in tree THEN "file"
    ELSE IF \E f \in tree : IsPrefix(q, f) THEN "dir" ELSE "missing"

\* Ways to write the path of q.
Spellings(q) ==
    LET wide == IF Len(q) = 2 THEN q[1] \o Slash \o Slash \o q[2]
                ELSE IF Len(q) = 1 THEN q[1] ELSE <<>>
    IN  {wide, Slash \o wide, wide \o Slash, Slash \o Slash \o wide \o Slash}

\* Stat, Open, Exists, IsFile, IsDir and ValidateFiles tell files, directories and
\* missing paths apart, however the path is written where it "is normalized
\* before lookup": in all trees but the confusable ones.
PathsAnswered ==
    Loaded /\ ~Confusable => \A q \in Files \cup {<<>>} :
        LET p == IF q = <<>> THEN Dot ELSE Path(q) IN
        /\ Stat(p) = Kind(q)
        /\ \A s \in Spellings(q) :
             /\ Stat(s) # "invalid" => s = p
             /\ IsFile(s) <=> Kind(q) = "file"
             /\ IsDir(s) <=> Kind(q) = "dir"
             /\ Exists(s) <=> Kind(q) # "missing"
             /\ \A g \in tree : ValidateFiles(<<Path(g), s, Slash>>) =
                   (IF Kind(q) = "missing" THEN "missing" ELSE "directory")

\* CopyDir and DirStats see every file below a directory and no other, unless
\* the tree is confusable.
PrefixExact ==
    Loaded /\ ~Confusable => \A d \in Directories :
        LET below == {e \in Range(entries) : \E f \in Below(d) : e.path = Path(f)} IN
        /\ Range(EntriesWithPrefixView(DirPrefix(d))) = below
        /\ <<d>> \notin tree => DirStats(Slash \o d) =
               [files |-> Cardinality(below), bytes |-> MapThenSumSet(LAMBDA e : e.size, below)]

\* "ReadDir returns directory entries for the named directory, sorted by name":
\* each child exactly once, files and directories told apart, unless the tree is
\* confusable.
ListingExact ==
    Loaded /\ ~Confusable => \A d \in Directories :
        LET depth == IF d = Dot THEN 1 ELSE 2
            children == {[name |-> f[depth], dir |-> Len(f) > depth] : f \in Below(d)}
        IN  ReadDir(d) = SetToSortSeq(children, LAMBDA x, y : Less(x.name, y.name))

\* Reading an open directory in pages, of any sizes, yields what ReadDir lists, each
\* child once, also when a page ends among the files of a subdirectory; io.EOF
\* comes when all of it was returned.
PagesExact ==
    handle.open /\ handle.iter.made =>
        /\ handle.listed \o ReadEntries(handle.iter, 0, <<>>).list = ReadDir(handle.name)
        /\ handle.eof => handle.listed = ReadDir(handle.name)

\* "Path-sorted storage means directories fetch with a single range request"
\* (README): the files below a directory are adjacent in the data blob, so
\* groupAdjacentEntries makes one group of them.
OneRangePerDirectory ==
    Loaded => \A d \in Directories :
        LET IsBelow(k) == \E f \in Below(d) : entries[k].path = Path(f)
            at == SelectSeq([k \in DOMAIN entries |-> k], IsBelow)
            off == [k \in DOMAIN entries |-> entries[k].offset]
            size == [k \in DOMAIN entries |-> entries[k].size]
        IN  Len(GroupAdjacentEntries(at, off, size)) <= 1
=============================================================================

------------------------------- MODULE Extract -------------------------------
(***************************************************************************)
(* Extracting a pxar archive into a directory: the entries come one after  *)
(* the other, a directory is created when something in it is, and the     *)
(* match patterns that hold in a directory are kept on a stack.  Errors    *)
(* stop the extraction or are passed over, as the caller wants.            *)
(*                                                                         *)
(* The target's files are paths with inodes, so that hard links are seen.  *)
(* Patterns are what they say of each entry; metadata are left out.        *)
(***************************************************************************)
EXTENDS Integers, Sequences, SequencesExt, FiniteSetsExt

CONSTANTS
    Cases   \* archive, options and what is at the target before

VARIABLES
    ar,   \* the case: entries, opt, target
    ex,    \* the extractor
    fs,   \* the target: paths with kind and inode
    inodes  \* content of inodes: the entry it is from, 0 for what was there before

extractVars == <<ar, ex, fs, inodes>>

-----------------------------------------------------------------------------

ArEntry(e) == ar.entries[e]
IsLeaf(e) == ArEntry(e).kind \notin {"dir", "end", "bad"}
Overwrites(flag) == flag \in ar.opt.overwrite
Iter == ar.opt.driver = "iter"

ExtractInit ==
    /\ ar \in Cases
    /\ ex = [i |-> 1, dirs |-> << >>, open |-> TRUE, created |-> 0, errPaths |-> 1, matchStack |-> << >>,
            current |-> ar.opt.matchDefault, level |-> 0, status |-> "run", errors |-> FALSE, dirFailed |-> FALSE]
    /\ fs = ar.target
    /\ inodes = [n \in {fs[p].ino : p \in DOMAIN fs} |-> 0]

(* PxarDir::create_dir and open_dir: what is there already must be a *)
(* directory, and be allowed.                                        *)
CreateDir(r, path) ==
    IF ~r.ok THEN r
    ELSE IF path \notin DOMAIN r.fs
         THEN [r EXCEPT !.fs = (path :> [kind |-> "dir", ino |-> 0]) @@ @, !.created = @ + 1]
    ELSE IF ar.opt.allowExisting /\ r.fs[path].kind = "dir" THEN [r EXCEPT !.created = @ + 1]
    ELSE [r EXCEPT !.ok = FALSE]

(* Mutant: what cannot be created is left out. *)
LastDirFdNearest(dirs) ==
    LET paths == [n \in 1 .. Len(dirs) - ex.created |-> SubSeq(dirs, 1, ex.created + n)]
        r == FoldLeft(CreateDir, [ok |-> TRUE, fs |-> fs, created |-> ex.created], paths)
    IN  [r EXCEPT !.ok = TRUE] @@ [parent |-> SubSeq(dirs, 1, r.created)]

(* last_dir_fd: the directories on the stack that are not there yet are *)
(* created, down to the last one.                                       *)
LastDirFd(dirs) ==
    LET paths == [n \in 1 .. Len(dirs) - ex.created |-> SubSeq(dirs, 1, ex.created + n)]
        r == FoldLeft(CreateDir, [ok |-> TRUE, fs |-> fs, created |-> ex.created], paths)
    IN  r @@ [parent |-> SubSeq(dirs, 1, r.created)]

(* The error handler: none, one for devices, or one that only logs.  The *)
(* sequential extractor logs.                                            *)
Tolerates(kind) == ~Iter \/ ar.opt.handler = "all" \/ (ar.opt.handler = "device" /\ kind = "device")

Fails(y, kind) ==
    IF Tolerates(kind) THEN [y EXCEPT !.errors = TRUE] ELSE [y EXCEPT !.status = "failed", !.errors = TRUE]

(* What the patterns say of an entry, or else what holds in its directory *)
DidMatch(e) ==
    CASE ~Iter -> TRUE
      [] ArEntry(e).match = "include" -> TRUE
      [] ArEntry(e).match = "exclude" -> FALSE
      [] OTHER -> ex.current

Advanced == [ex EXCEPT !.i = @ + 1]
Here == ArEntry(ex.i)
Extracting(kinds) == ex.status = "run" /\ ex.i <= Len(ar.entries) /\ Here.kind \in kinds

(* enter_directory: it is on the stack also when it could not be created, *)
(* but then its match state is not.                                       *)
EnterDirectory ==
    LET dirs == Append(ex.dirs, Here.name)
        create == ~Iter \/ (ex.current /\ Here.match # "exclude")
        r == LastDirFd(dirs)
        y == [Advanced EXCEPT !.dirs = dirs, !.level = @ + 1]
    IN  /\ Extracting({"dir"})
        /\ UNCHANGED <<ar, inodes>>
        /\ fs' = IF create THEN r.fs ELSE fs
        /\ ex' = IF create /\ ~r.ok THEN Fails([y EXCEPT !.created = r.created, !.dirFailed = TRUE], "dir")
                ELSE [y EXCEPT !.created = IF create THEN r.created ELSE @, !.errPaths = @ + 1,
                               !.matchStack = Append(@, ex.current), !.current = DidMatch(ex.i)]

(* PxarDirStack::pop; the root is the last to go. *)
PopDir(y) ==
    IF y.dirs = << >> THEN [y EXCEPT !.open = FALSE]
    ELSE [y EXCEPT !.dirs = Front(@), !.created = IF @ < Len(y.dirs) THEN @ ELSE Len(y.dirs) - 1]

(* A goodbye table: the directory is left and its match state with it; a *)
(* table too many ends the sequential extractor.                         *)
LeaveDirectory ==
    LET y == [PopDir(Advanced) EXCEPT !.level = @ - 1, !.errPaths = IF @ = 0 THEN 0 ELSE @ - 1]
    IN  /\ Extracting({"end"})
        /\ ex' = IF ~Iter THEN [y EXCEPT !.status = IF y.level < 0 THEN "ok" ELSE "run"]
                ELSE IF ex.errPaths = 0 THEN Fails(y, "end")
                ELSE [y EXCEPT !.current = IF ex.matchStack = << >> THEN TRUE ELSE Last(ex.matchStack),
                               !.matchStack = IF @ = << >> THEN @ ELSE Front(@)]
        /\ UNCHANGED <<ar, fs, inodes>>

Skipped == /\ ex' = Advanced /\ UNCHANGED <<ar, fs, inodes>>
SkipEntry == ex.status = "run" /\ ex.i <= Len(ar.entries) /\ IsLeaf(ex.i) /\ ~DidMatch(ex.i) /\ Skipped

NewInode == Max(DOMAIN inodes \cup {0}) + 1

(* A leaf of the tree: its parent is made, then it, unless Refused. *)
Leaf(kinds, Refused(_, _), Effect(_, _)) ==
    LET r == LastDirFd(ex.dirs)
        path == Append(r.parent, Here.name)
        y == [Advanced EXCEPT !.created = r.created]
    IN  /\ Extracting(kinds) /\ DidMatch(ex.i)
        /\ UNCHANGED ar
        /\ IF ~r.ok \/ Refused(r.fs, path)
           THEN ex' = Fails(y, Here.kind) /\ fs' = r.fs /\ UNCHANGED inodes
           ELSE ex' = y /\ Effect(r.fs, path)

(* extract_file: an existing file is emptied and written, never another *)
(* kind of entry.                                                       *)
FileRefused(f, path) == path \in DOMAIN f /\ ~(Overwrites("file") /\ f[path].kind \in {"file", "hardlink"})
FileWritten(f, path) ==
    IF path \in DOMAIN f THEN fs' = f /\ inodes' = [inodes EXCEPT ![f[path].ino] = ex.i]
    ELSE /\ fs' = (path :> [kind |-> "file", ino |-> NewInode]) @@ f
         /\ inodes' = (NewInode :> ex.i) @@ inodes
ExtractFile == Leaf({"file"}, FileRefused, FileWritten)

(* The contents end early, or there is no room for them. *)
ExtractFileFails ==
    LET r == LastDirFd(ex.dirs)
        path == Append(r.parent, Here.name)
    IN  /\ Extracting({"file"}) /\ DidMatch(ex.i) /\ r.ok /\ path \notin DOMAIN r.fs
        /\ ex' = Fails([Advanced EXCEPT !.created = r.created], "file")
        /\ fs' = (path :> [kind |-> "file", ino |-> NewInode]) @@ r.fs
        /\ inodes' = (NewInode :> -ex.i) @@ inodes
        /\ UNCHANGED ar

(* extract_symlink: what is in the way is unlinked, but never a directory. *)
LinkRefused(f, path, flag) == path \in DOMAIN f /\ (~Overwrites(flag) \/ f[path].kind = "dir")
SymlinkRefused(f, path) == LinkRefused(f, path, "symlink")
SymlinkMade(f, path) ==
    /\ fs' = (path :> [kind |-> "symlink", ino |-> NewInode]) @@ f
    /\ inodes' = (NewInode :> ex.i) @@ inodes
ExtractSymlink == Leaf({"symlink"}, SymlinkRefused, SymlinkMade)

(* extract_hardlink: the directory of the link's target is opened without *)
(* following symbolic links.                                              *)
PathDirs(f, path) == \A n \in 1 .. Len(path) - 1 : SubSeq(path, 1, n) \in DOMAIN f /\ f[SubSeq(path, 1, n)].kind = "dir"
HardlinkRefused(f, path) ==
    \/ Here.target \notin DOMAIN f \/ ~PathDirs(f, Here.target) \/ f[Here.target].kind = "dir"
    \/ LinkRefused(f, path, "hardlink")
HardlinkMade(f, path) ==
    /\ fs' = (path :> [kind |-> "hardlink", ino |-> f[Here.target].ino]) @@ f
    /\ UNCHANGED inodes

(* What is in the way is unlinked first: if that was the target itself, or *)
(* the target is a directory, the second linkat fails too and it is gone.  *)
HardlinkLoses(f, path) ==
    /\ Here.target \in DOMAIN f /\ PathDirs(f, Here.target)
    /\ path \in DOMAIN f /\ ~LinkRefused(f, path, "hardlink")
    /\ Here.target = path \/ f[Here.target].kind = "dir"
LinkPath == Append(LastDirFd(ex.dirs).parent, Here.name)
ExtractHardlink ==
    /\ Extracting({"hardlink"}) /\ ~HardlinkLoses(LastDirFd(ex.dirs).fs, LinkPath)
    /\ Leaf({"hardlink"}, HardlinkRefused, HardlinkMade)
ExtractHardlinkLoses ==
    LET r == LastDirFd(ex.dirs)
    IN  /\ Extracting({"hardlink"}) /\ DidMatch(ex.i) /\ r.ok /\ HardlinkLoses(r.fs, LinkPath)
        /\ ex' = Fails([Advanced EXCEPT !.created = r.created], "hardlink")
        /\ fs' = [q \in DOMAIN r.fs \ {LinkPath} |-> r.fs[q]]
        /\ UNCHANGED <<ar, inodes>>

(* extract_special: nothing that exists is replaced, and it may not be *)
(* permitted.                                                          *)
SpecialRefused(f, path) == path \in DOMAIN f
SpecialMade(f, path) ==
    /\ fs' = (path :> [kind |-> "device", ino |-> NewInode]) @@ f
    /\ inodes' = (NewInode :> ex.i) @@ inodes
ExtractSpecial == Leaf({"device"}, SpecialRefused, SpecialMade)
ExtractSpecialFails ==
    LET r == LastDirFd(ex.dirs)
    IN  /\ Extracting({"device"}) /\ DidMatch(ex.i) /\ r.ok
        /\ ex' = Fails([Advanced EXCEPT !.created = r.created], "device") /\ fs' = r.fs
        /\ UNCHANGED <<ar, inodes>>

(* A name with a slash ends the extraction. *)
BadName ==
    /\ Extracting({"bad"})
    /\ ex' = [ex EXCEPT !.status = IF Iter THEN "failed" ELSE "ok", !.errors = TRUE]
    /\ UNCHANGED <<ar, fs, inodes>>

(* The decoder is exhausted, with directories open when the archive is *)
(* cut short.                                                          *)
EndOfArchive ==
    /\ ex.status = "run" /\ ex.i > Len(ar.entries)
    /\ ex' = [ex EXCEPT !.status = IF ex.open /\ Iter THEN "failed" ELSE "ok"]
    /\ UNCHANGED <<ar, fs, inodes>>

ExtractNext ==
    \/ EnterDirectory \/ LeaveDirectory \/ SkipEntry
    \/ ExtractFile \/ ExtractFileFails \/ ExtractSymlink \/ ExtractHardlink \/ ExtractHardlinkLoses
    \/ ExtractSpecial \/ ExtractSpecialFails \/ BadName \/ EndOfArchive

-----------------------------------------------------------------------------
(* What the archive means, read as a tree *)

Depth(e) == Cardinality({k \in 1 .. e - 1 : ArEntry(k).kind = "dir"}) - Cardinality({k \in 1 .. e - 1 : ArEntry(k).kind = "end"})
Encloses(d, e) == d < e /\ ArEntry(d).kind = "dir" /\ \A k \in d + 1 .. e : Depth(k) > Depth(d)
Around(e) == SetToSortSeq({d \in 1 .. e : Encloses(d, e)}, <)
PathOf(e) == [n \in 1 .. Len(Around(e)) |-> ArEntry(Around(e)[n]).name] \o <<ArEntry(e).name>>

(* The innermost pattern that says something of the entry counts. *)
Wanted(e) ==
    LET said == {d \in 1 .. e : (d = e \/ Encloses(d, e)) /\ ArEntry(d).match # "none"}
    IN  ~Iter \/ IF said = {} THEN ar.opt.matchDefault ELSE ArEntry(Max(said)).match = "include"

Leaves == {e \in DOMAIN ar.entries : IsLeaf(e)}
From(p) == inodes[fs[p].ino]

(* What comes from the archive is where the archive has it, or is a hard *)
(* link to what is.                                                      *)
Placed ==
    \A p \in DOMAIN fs :
        fs[p].kind # "dir" /\ From(p) > 0 =>
            \/ PathOf(From(p)) = p
            \/ \E e \in Leaves : ArEntry(e).kind = "hardlink" /\ PathOf(e) = p /\ From(p) = From(ArEntry(e).target)

(* While no directory failed, what is extracted is wanted ... *)
OnlyWanted ==
    ~ex.dirFailed => \A p \in DOMAIN fs :
        fs[p].kind # "dir" /\ From(p) > 0 => \E e \in Leaves : PathOf(e) = p /\ Wanted(e)

(* ... and when all is well everything that is wanted was extracted. *)
AllWanted ==
    ex.status = "ok" /\ ~ex.errors =>
        \A e \in Leaves : Wanted(e) =>
            /\ PathOf(e) \in DOMAIN fs
            /\ IF ArEntry(e).kind = "hardlink" THEN fs[PathOf(e)].ino = fs[ArEntry(e).target].ino ELSE From(PathOf(e)) = e

(* Nothing that was there before is replaced against the flags, and a      *)
(* directory never is; it is gone only where a hard link in the archive is *)
(* to itself or to a directory.                                            *)
OldKept ==
    LET changed == {PathOf(e) : e \in {l \in Leaves : Overwrites(ArEntry(l).kind)}}
        lost == {PathOf(e) : e \in {l \in Leaves : /\ ArEntry(l).kind = "hardlink" /\ Overwrites("hardlink")
                                                /\ \/ ArEntry(l).target = PathOf(l)
                                                   \/ ArEntry(l).target \in DOMAIN fs /\ fs[ArEntry(l).target].kind = "dir"}}
    IN  \A p \in DOMAIN ar.target :
            /\ ar.target[p].kind = "dir" => p \in DOMAIN fs /\ fs[p].kind = "dir"
            /\ p \notin DOMAIN fs => p \in lost
            /\ p \notin changed /\ ar.target[p].kind # "dir" => fs[p] = ar.target[p] /\ From(p) = 0

ExtractInv == Placed /\ OnlyWanted /\ AllWanted /\ OldKept
=============================================================================

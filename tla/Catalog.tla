------------------------------- MODULE Catalog -------------------------------
(* The catalog of an archive: a writer that keeps a stack of open            *)
(* directories and writes each when it is left, behind those inside it, and  *)
(* a reader that starts at the pointer in the last bytes.  A byte is a       *)
(* number; variable length integers have groups of RadixGroup values instead *)
(* of 128, the magic number and the pointer take one place each.  The second *)
(* half is the shell that walks a catalog.                                   *)
EXTENDS Integers, Sequences, FiniteSets, SequencesExt

CONSTANTS
    RadixGroup,         \* values of one byte of an integer
    Magic,
    CatNames,      \* names: sequences of bytes
    CatSizes,      \* sizes of files
    CatTimes,      \* modification times of files, negative ones too
    OtherKinds,    \* the kinds of entry that have a name only
    Excluded,      \* names a pattern excludes
    MaxEntries,    \* bound on the entries and directories of a catalog
    CatNone

VARIABLES
    out,       \* the bytes written
    dirstack,  \* names of the open directories with their entries
    catFinished,
    told       \* the entries the writer was told of, in the order of the reader

catVars == <<out, dirstack, catFinished, told>>

-----------------------------------------------------------------------------
(* catalog_encode_u64: groups from the low end, a marker on all but the last *)
RECURSIVE EncodeU64(_)
EncodeU64(d) == IF d < RadixGroup THEN <<d>> ELSE <<RadixGroup + (d % RadixGroup)>> \o EncodeU64(d \div RadixGroup)

(* catalog_encode_i64: a negative value has the marker on every group and    *)
(* ends in a zero                                                             *)
RECURSIVE EncodeNegative(_)
EncodeNegative(d) == IF d < RadixGroup THEN <<RadixGroup + d, 0>> ELSE <<RadixGroup + (d % RadixGroup)>> \o EncodeNegative(d \div RadixGroup)
EncodeI64(v) == IF v < 0 THEN EncodeNegative(-(v + 1) + 1) ELSE EncodeU64(v)

(* The decoders return the value and what is left, or CatNone at the end *)
RECURSIVE DecodeU64From(_, _, _)
DecodeU64From(data, v, weight) ==
    IF data = << >> THEN CatNone
    ELSE LET t == Head(data)
         IN  IF t < RadixGroup THEN [value |-> v + t * weight, rest |-> Tail(data)]
             ELSE DecodeU64From(Tail(data), v + (t - RadixGroup) * weight, weight * RadixGroup)
DecodeU64(data) == DecodeU64From(data, 0, 1)

RECURSIVE DecodeI64From(_, _, _)
DecodeI64From(data, v, weight) ==
    IF data = << >> THEN CatNone
    ELSE LET t == Head(data)
         IN  IF t = 0 THEN [value |-> IF v = 0 THEN 0 ELSE -(v - 1) - 1, rest |-> Tail(data)]
             ELSE IF t < RadixGroup THEN [value |-> v + t * weight, rest |-> Tail(data)]
             ELSE DecodeI64From(Tail(data), v + (t - RadixGroup) * weight, weight * RadixGroup)
DecodeI64(data) == DecodeI64From(data, 0, 1)

-----------------------------------------------------------------------------
(* DirInfo: an entry has its kind, the length of its name and the name; a    *)
(* directory how far back its block is, a file its size and time              *)
EncodeEntry(entry, pos) ==
    <<entry.kind>> \o EncodeU64(Len(entry.name)) \o entry.name
    \o CASE entry.kind = "d" -> EncodeU64(pos - entry.start)
         [] entry.kind = "f" -> EncodeU64(entry.size) \o EncodeI64(entry.mtime)
         [] OTHER -> << >>
EncodeDir(entries, start) ==
    LET table == EncodeU64(Len(entries)) \o FlattenSeq([i \in DOMAIN entries |-> EncodeEntry(entries[i], start)])
    IN  EncodeU64(Len(table)) \o table

DirEntry(kind, name, start, size, mtime) ==
    CASE kind = "d" -> [kind |-> kind, name |-> name, start |-> start]
      [] kind = "f" -> [kind |-> kind, name |-> name, size |-> size, mtime |-> mtime]
      [] OTHER -> [kind |-> kind, name |-> name]

(* One entry of a block that starts at start, and the rest of the block *)
ParseEntry(data, start) ==
    LET kind == Head(data)
        length == DecodeU64(Tail(data))
        name == SubSeq(length.rest, 1, length.value)
        after == SubSeq(length.rest, length.value + 1, Len(length.rest))
        number == DecodeU64(after)
        mtime == DecodeI64(number.rest)
    IN  CASE kind = "d" -> [entry |-> DirEntry(kind, name, start - number.value, 0, 0), rest |-> number.rest]
          [] kind = "f" -> [entry |-> DirEntry(kind, name, start, number.value, mtime.value), rest |-> mtime.rest]
          [] OTHER -> [entry |-> DirEntry(kind, name, start, 0, 0), rest |-> after]

RECURSIVE ParseEntries(_, _, _)
ParseEntries(count, data, start) ==
    IF count = 0 THEN IF data = << >> THEN << >> ELSE CatNone
    ELSE LET first == ParseEntry(data, start)
             others == ParseEntries(count - 1, first.rest, start)
         IN  IF others = CatNone THEN CatNone ELSE <<first.entry>> \o others
ParseDir(data, start) ==
    LET count == DecodeU64(data) IN ParseEntries(count.value, count.rest, start)

-----------------------------------------------------------------------------
(* CatalogWriter *)
Open(name) == [name |-> name, entries |-> << >>]
CatInit ==
    /\ out = <<Magic>> /\ dirstack = <<Open(<< >>)>>
    /\ catFinished = FALSE /\ told = << >>

Here == FoldLeft(LAMBDA path, dir : IF dir.name = << >> THEN path ELSE Append(path, dir.name), << >>, dirstack)
InLast(stack, entry) == [stack EXCEPT ![Len(stack)].entries = Append(@, entry)]
Room == ~catFinished /\ Len(told) < MaxEntries
Names(dir) == {dir.entries[i].name : i \in DOMAIN dir.entries}
Told(entry) == told' = Append(told, [path |-> Append(Here, entry.name), entry |-> entry])

StartDirectory(name) ==
    /\ Room /\ name \notin Names(Last(dirstack))
    /\ dirstack' = Append(dirstack, Open(name))
    /\ Told([kind |-> "d", name |-> name])
    /\ UNCHANGED <<out, catFinished>>

(* end_directory: the block is written where the output ends *)
EndDirectory ==
    /\ ~catFinished /\ Len(dirstack) > 1
    /\ LET dir == Last(dirstack)
           start == Len(out)
       IN  /\ out' = out \o EncodeDir(dir.entries, start)
           /\ dirstack' = InLast(Front(dirstack), DirEntry("d", dir.name, start, 0, 0))
    /\ UNCHANGED <<catFinished, told>>

AddEntry(entry) ==
    /\ Room /\ entry.name \notin Names(Last(dirstack))
    /\ dirstack' = InLast(dirstack, entry)
    /\ Told(entry)
    /\ UNCHANGED <<out, catFinished>>
AddFile(name, size, mtime) == AddEntry(DirEntry("f", name, 0, size, mtime))
AddOther(kind, name) == AddEntry(DirEntry(kind, name, 0, 0, 0))

(* finish: only at the root *)
CatFinish ==
    /\ ~catFinished /\ Len(dirstack) = 1
    /\ LET start == Len(out)
       IN  out' = out \o EncodeDir(Head(dirstack).entries, start) \o <<start>>
    /\ dirstack' = << >> /\ catFinished' = TRUE
    /\ UNCHANGED told

CatNext ==
    \/ \E name \in CatNames :
           \/ StartDirectory(name)
           \/ \E size \in CatSizes, mtime \in CatTimes : AddFile(name, size, mtime)
           \/ \E kind \in OtherKinds : AddOther(kind, name)
    \/ EndDirectory
    \/ CatFinish

-----------------------------------------------------------------------------
(* CatalogReader; positions in the file count from 0 *)
Root(file) == IF Head(file) = Magic THEN DirEntry("d", << >>, Last(file), 0, 0) ELSE CatNone
ReadRawBlock(file, start) ==
    LET size == DecodeU64(SubSeq(file, start + 1, Len(file)))
    IN  IF size = CatNone \/ size.value < 1 \/ size.value > Len(size.rest) THEN CatNone
        ELSE SubSeq(size.rest, 1, size.value)
ReadDir(file, dir) ==
    LET data == ReadRawBlock(file, dir.start)
    IN  IF data = CatNone THEN CatNone ELSE ParseDir(data, dir.start)

(* lookup stops at the first entry with the name *)
Lookup(file, dir, name) ==
    LET entries == ReadDir(file, dir)
        i == SelectInSeq(entries, LAMBDA e : e.name = name)
    IN  IF i = 0 THEN CatNone ELSE entries[i]
RECURSIVE LookupFrom(_, _, _)
LookupFrom(file, dir, path) ==
    IF path = << >> \/ dir = CatNone THEN dir
    ELSE IF dir.kind # "d" THEN CatNone
    ELSE LookupFrom(file, Lookup(file, dir, Head(path)), Tail(path))
LookupRecursive(file, path) == LookupFrom(file, Root(file), path)

(* dump_dir: every entry below, in the order of the blocks *)
RECURSIVE DumpDir(_, _, _)
DumpDir(file, prefix, dir) ==
    LET entries == ReadDir(file, dir)
        Shown(e) == <<[path |-> Append(prefix, e.name), entry |-> e]>>
    IN  FlattenSeq([i \in DOMAIN entries |->
            Shown(entries[i])
            \o IF entries[i].kind = "d" THEN DumpDir(file, Append(prefix, entries[i].name), entries[i]) ELSE << >>])

(* find: what an excluded name stands for is not entered *)
RECURSIVE FindAll(_, _, _)
FindAll(file, prefix, dir) ==
    LET entries == ReadDir(file, dir)
    IN  FlattenSeq([i \in DOMAIN entries |->
            LET e == entries[i]
                path == Append(prefix, e.name)
            IN  IF e.name \in Excluded THEN << >>
                ELSE <<path>> \o IF e.kind = "d" THEN FindAll(file, path, e) ELSE << >>])

ListDirContents(file, path) ==
    LET entries == ReadDir(file, LookupRecursive(file, path))
    IN  [i \in DOMAIN entries |-> [path |-> Append(path, entries[i].name), leaf |-> entries[i].kind # "d"]]

-----------------------------------------------------------------------------
Bare(entry) == IF entry.kind = "d" THEN [kind |-> "d", name |-> entry.name] ELSE entry
Under(t, path) == Len(t.path) = Len(path) + 1 /\ SubSeq(t.path, 1, Len(path)) = path

(* What is read from a finished catalog is what the writer was told of:      *)
(* every entry once, in its directory, with its size and time, also when     *)
(* the distance to a directory's block takes several bytes; every path is    *)
(* found and listed; and a search leaves out all below an excluded name.     *)
CatalogReadBack ==
    catFinished =>
        LET dump == DumpDir(out, << >>, Root(out))
        IN  /\ Len(dump) = Len(told)
            /\ {[path |-> dump[i].path, entry |-> Bare(dump[i].entry)] : i \in DOMAIN dump} = Range(told)
            /\ \A t \in Range(told) :
                   /\ LET found == LookupRecursive(out, t.path) IN found # CatNone /\ Bare(found) = t.entry
                   /\ t.entry.kind = "d" =>
                          LET listed == ListDirContents(out, t.path)
                          IN  Range(listed) = {[path |-> u.path, leaf |-> u.entry.kind # "d"] : u \in {u \in Range(told) : Under(u, t.path)}}
            /\ Range(FindAll(out, << >>, Root(out)))
               = {t.path : t \in {t \in Range(told) : Range(t.path) \cap Excluded = {}}}

(* Every integer is read back, whatever follows it *)
CodecsRoundTrip ==
    out = <<Magic>> =>
        \A v \in 0 .. RadixGroup ^ 3 + 1, tail \in {<< >>, <<0>>, <<RadixGroup>>} :
            /\ DecodeU64(EncodeU64(v) \o tail) = [value |-> v, rest |-> tail]
            /\ DecodeI64(EncodeU64(v) \o tail) = [value |-> v, rest |-> tail]
            /\ \A s \in {v, -v} : DecodeI64(EncodeI64(s) \o tail) = [value |-> s, rest |-> tail]

CatalogInv == CatalogReadBack /\ CodecsRoundTrip

-----------------------------------------------------------------------------
(* The client's interactive shell: a position in the archive, paths that are *)
(* resolved with the catalog or, when the snapshot has none, with the        *)
(* archive, a selection, and restores that walk the whole archive with four  *)
(* stacks.  Patterns are the sets of paths they match.                       *)
CONSTANTS
    Tree,         \* path -> kind, and the components of a symlink's target
    ShellPaths,   \* the paths of commands: sequences of components
    Patterns,     \* sets of paths
    MaxSymlinks,  \* MAX_SYMLINK_COUNT
    MaxCommands,  \* bound on the commands
    ShNone

VARIABLES
    hasCatalog,  \* the snapshot has a catalog
    position,    \* the path stack: the root and the names below it
    selected,    \* the patterns selected: key and matched paths
    shell,       \* "prompt", "restoring", or "dead" after a panic
    shown,       \* what the last command resolved
    walk,        \* ExtractorState, or ShNone
    commands

shellVars == <<hasCatalog, position, selected, shell, shown, walk, commands>>

RootEntry == "/"
PathOf(stack) == Tail(stack)
EntryAt(stack) == Tree[PathOf(stack)]
IsSymlink(stack) == EntryAt(stack).kind = "symlink"
IsDirectory(stack) == EntryAt(stack).kind = "dir"
Absolute(path) == path # << >> /\ Head(path) = "/"

ShellInit ==
    /\ hasCatalog \in BOOLEAN
    /\ position = <<RootEntry>> /\ selected = {} /\ shell = "prompt"
    /\ shown = ShNone /\ walk = ShNone /\ commands = 0

-----------------------------------------------------------------------------
(* The result of a walk: the stack and the symbolic links followed so far,   *)
(* a failure, or a panic of what takes the last of an empty stack            *)
Walked(stack, count) == [status |-> "ok", stack |-> stack, count |-> count]
Fails == [status |-> "error", stack |-> << >>, count |-> 0]
Panics == [status |-> "panic", stack |-> << >>, count |-> 0]

(* Component::Normal: a name in the directory on top of the stack *)
EnterName(r, name) ==
    IF ~IsDirectory(r.stack) \/ Append(PathOf(r.stack), name) \notin DOMAIN Tree THEN Fails
    ELSE Walked(Append(r.stack, name), r.count)

(* walk_catalog over step; a link's target is looked up from the stack that  *)
(* still has the link on top.  count is ShNone where links are not followed. *)
RECURSIVE WalkCatalog(_, _)
ResolveSymlink(r) ==
    IF r.count = ShNone \/ r.count + 1 > MaxSymlinks THEN Fails
    ELSE LET target == EntryAt(r.stack).target
         IN  WalkCatalog(Walked(IF Absolute(target) THEN SubSeq(r.stack, 1, 1) ELSE r.stack, r.count + 1), target)
Resolved(r) ==
    IF r.stack = << >> THEN Panics
    ELSE IF IsSymlink(r.stack) THEN ResolveSymlink(r)
    ELSE r
Step(r, component) ==
    CASE component = "/" -> Walked(SubSeq(r.stack, 1, IF r.stack = << >> THEN 0 ELSE 1), r.count)
      [] component = "." -> Resolved(r)
      [] component = ".." -> Walked(IF r.stack = << >> THEN << >> ELSE Front(r.stack), r.count)
      [] OTHER -> LET dir == Resolved(r)
                  IN  IF dir.status # "ok" THEN dir
                      ELSE IF dir.stack = << >> THEN Panics
                      ELSE EnterName(dir, component)
WalkCatalog(r, path) ==
    IF r.status # "ok" \/ path = << >> THEN r ELSE WalkCatalog(Step(r, Head(path)), Tail(path))

LookupPath(path, count) ==
    WalkCatalog(Walked(IF Absolute(path) THEN SubSeq(position, 1, 1) ELSE position, count), path)

-----------------------------------------------------------------------------
Command(name, path, r) ==
    /\ shell = "prompt" /\ commands < MaxCommands
    /\ commands' = commands + 1
    /\ shown' = [name |-> name, from |-> position, path |-> path, status |-> r.status, stack |-> r.stack]

(* A panic takes the shell with it *)
Survives(r) == shell' = IF r.status = "panic" THEN "dead" ELSE shell

(* cd does not follow links; above the root is the root *)
Cd(path) ==
    LET r == LookupPath(path, ShNone)
    IN  /\ Command("cd", path, r) /\ Survives(r)
        /\ position' =
               IF r.status # "ok" THEN position
               ELSE IF r.stack = << >> THEN SubSeq(position, 1, 1)
               ELSE IF ~IsDirectory(r.stack) THEN position
               ELSE r.stack
        /\ UNCHANGED <<hasCatalog, selected, walk>>
CdRoot ==
    /\ Command("cd", << >>, Walked(SubSeq(position, 1, 1), ShNone))
    /\ position' = SubSeq(position, 1, 1)
    /\ UNCHANGED <<hasCatalog, selected, shell, walk>>

(* ls and stat take the last of the stack, and the completion of a path in   *)
(* addition fails at links                                                    *)
TakesLast(r) == IF r.status = "ok" /\ r.stack = << >> THEN Panics ELSE r
Ls(path) ==
    LET r == TakesLast(LookupPath(path, 0))
    IN  /\ Command("ls", path, r) /\ Survives(r)
        /\ UNCHANGED <<hasCatalog, position, selected, walk>>
Stat(path) ==
    LET r == TakesLast(LookupPath(path, 0))
    IN  /\ Command("stat", path, r) /\ Survives(r)
        /\ UNCHANGED <<hasCatalog, position, selected, walk>>
CompletePath(path) ==
    LET r == TakesLast(LookupPath(path, ShNone))
    IN  /\ Command("complete", path, r) /\ Survives(r)
        /\ UNCHANGED <<hasCatalog, position, selected, walk>>

Literal(stack) ==
    LET path == IF Len(stack) <= 1 THEN << >> ELSE PathOf(stack) IN [key |-> <<"path", path>>, matched |-> {path}]
Select(path) ==
    LET r == LookupPath(path, 0)
    IN  /\ Command("select", path, r) /\ Survives(r)
        /\ selected' = IF r.status = "ok" THEN selected \cup {Literal(r.stack)} ELSE selected
        /\ UNCHANGED <<hasCatalog, position, walk>>
Deselect(path) ==
    LET r == LookupPath(path, 0)
    IN  /\ Command("deselect", path, r) /\ Survives(r)
        /\ selected' = IF r.status = "ok" THEN {s \in selected : s.key # Literal(r.stack).key} ELSE selected
        /\ UNCHANGED <<hasCatalog, position, walk>>
DeselectAll ==
    /\ Command("clear", << >>, Walked(position, 0))
    /\ selected' = {}
    /\ UNCHANGED <<hasCatalog, position, shell, walk>>

(* find: without a catalog nothing is selected *)
FindPattern(pattern, select) ==
    LET found == pattern \cap (DOMAIN Tree \ {<< >>})
    IN  /\ Command("find", << >>, Walked(position, 0))
        /\ selected' = IF hasCatalog /\ found # {} /\ select THEN selected \cup {[key |-> <<"pattern", pattern>>, matched |-> pattern]}
                       ELSE selected
        /\ UNCHANGED <<hasCatalog, position, shell, walk>>

-----------------------------------------------------------------------------
(* restore_with_match_list: from the root, whatever the position is *)
Children(path) == SetToSeq({p \in DOMAIN Tree : Len(p) = Len(path) + 1 /\ SubSeq(p, 1, Len(path)) = path})
StartWalk(patterns) ==
    walk' = [patterns |-> patterns, dirs |-> << >>, reads |-> <<Children(<< >>)>>, matches |-> patterns = {},
             matchesStack |-> << >>, made |-> {<< >>}, files |-> {}, status |-> "run"]
RestoreSelected ==
    /\ selected # {}
    /\ Command("restore", << >>, Walked(<<RootEntry>>, 0))
    /\ StartWalk({s.matched : s \in selected}) /\ shell' = "restoring"
    /\ UNCHANGED <<hasCatalog, position, selected>>
Restore(patterns) ==
    /\ Command("restore", << >>, Walked(<<RootEntry>>, 0))
    /\ StartWalk(patterns) /\ shell' = "restoring"
    /\ UNCHANGED <<hasCatalog, position, selected>>

Matched(path) == \E p \in walk.patterns : path \in p
DidMatch(path) == Matched(path) \/ walk.matches
ReadNext == walk.reads[Len(walk.reads)]
Restoring == shell = "restoring" /\ UNCHANGED <<hasCatalog, position, selected, shown, commands>>
OneRead == [walk.reads EXCEPT ![Len(walk.reads)] = Tail(@)]

(* handle_entry: a directory is entered whether it matches or not, and made  *)
(* only where everything matches                                              *)
HandleNewDirectory ==
    /\ Restoring /\ ReadNext # << >> /\ Tree[Head(ReadNext)].kind = "dir"
    /\ LET path == Head(ReadNext)
       IN  walk' = [walk EXCEPT !.reads = Append(OneRead, Children(path)), !.dirs = Append(@, Last(path)),
                                !.matchesStack = Append(@, walk.matches),
                                !.made = IF walk.matches THEN @ \cup Prefixes(path) ELSE @]
    /\ UNCHANGED shell
HandleEntry ==
    /\ Restoring /\ ReadNext # << >> /\ Tree[Head(ReadNext)].kind # "dir"
    /\ LET name == Last(Head(ReadNext))
           path == Append(walk.dirs, name)
       IN  walk' = IF DidMatch(path)
                   THEN [walk EXCEPT !.reads = OneRead, !.files = @ \cup {path}, !.made = @ \cup Prefixes(walk.dirs)]
                   ELSE [walk EXCEPT !.reads = OneRead]
    /\ UNCHANGED shell

(* The extraction of an entry fails, and the restore with it *)
ExtractFails ==
    /\ Restoring /\ ReadNext # << >> /\ Tree[Head(ReadNext)].kind # "dir"
    /\ DidMatch(Append(walk.dirs, Last(Head(ReadNext))))
    /\ walk' = [walk EXCEPT !.status = "failed"] /\ shell' = "prompt"

HandleEndOfDirectory ==
    /\ Restoring /\ ReadNext = << >>
    /\ IF Len(walk.reads) = 1
       THEN walk' = [walk EXCEPT !.status = "done"] /\ shell' = "prompt"
       ELSE /\ walk' = [walk EXCEPT !.reads = Front(@), !.dirs = Front(@), !.matches = Last(walk.matchesStack),
                                    !.matchesStack = Front(@)]
            /\ UNCHANGED shell

ShellNext ==
    \/ \E path \in ShellPaths :
           Cd(path) \/ Ls(path) \/ Stat(path) \/ CompletePath(path) \/ Select(path) \/ Deselect(path)
    \/ CdRoot \/ DeselectAll
    \/ \E pattern \in Patterns, select \in BOOLEAN : FindPattern(pattern, select)
    \/ RestoreSelected
    \/ \E pattern \in Patterns : Restore({pattern})
    \/ Restore({})
    \/ HandleNewDirectory \/ HandleEntry \/ ExtractFails \/ HandleEndOfDirectory

-----------------------------------------------------------------------------
(* The path read by its letters, the root its own parent *)
Lexical(from, path) ==
    FoldLeft(LAMBDA at, c : CASE c = "/" -> << >>
                              [] c = "." -> at
                              [] c = ".." -> IF at = << >> THEN << >> ELSE Front(at)
                              [] OTHER -> Append(at, c),
             PathOf(from), path)
CrossesLink(path) == \E n \in 1 .. Len(path) - 1 : SubSeq(path, 1, n) \in DOMAIN Tree /\ Tree[SubSeq(path, 1, n)].kind = "symlink"

FollowsLink(from, path) ==
    \E n \in 1 .. Len(path) - 1 :
        LET at == Lexical(from, SubSeq(path, 1, n)) IN at \in DOMAIN Tree /\ Tree[at].kind = "symlink"
LeavesRoot(from, path) ==
    \E n \in 1 .. Len(path) : path[n] = ".." /\ Lexical(from, SubSeq(path, 1, n - 1)) = << >>

(* The shell is always at a directory of the archive *)
AtDirectory ==
    /\ position # << >> /\ Head(position) = RootEntry
    /\ PathOf(position) \in DOMAIN Tree /\ IsDirectory(position)

(* What a command resolves is an entry of the archive whose way has no link  *)
(* left, and it is the one the letters of the path say unless a link was     *)
(* followed; a panic needs a path that leaves the root.                       *)
ResolvedEntry ==
    shown # ShNone =>
        /\ (shown.status = "ok" /\ shown.stack # << >>) =>
               /\ PathOf(shown.stack) \in DOMAIN Tree /\ ~CrossesLink(PathOf(shown.stack))
               /\ shown.path # << >> /\ ~FollowsLink(shown.from, shown.path) =>
                      PathOf(shown.stack) = Lexical(shown.from, shown.path)
        /\ shown.status = "panic" => FollowsLink(shown.from, shown.path) \/ LeavesRoot(shown.from, shown.path)

(* "restore-selected finally restores all files in the archive matching the  *)
(* patterns": a restore that ended well has brought back exactly the files   *)
(* and links that are matched themselves, or everything without a pattern,   *)
(* each below its own directories.  A directory that is matched, or that was *)
(* selected by its path, counts for nothing: handle_new_directory enters it  *)
(* like any other and leaves matches as it was, so neither it nor what is    *)
(* below comes back, and a selection of directories alone restores nothing.  *)
RestoredRight ==
    (walk # ShNone /\ walk.status = "done") =>
        LET leaves == {p \in DOMAIN Tree : Tree[p].kind # "dir"}
            wanted == IF walk.patterns = {} THEN leaves ELSE leaves \cap UNION walk.patterns
        IN  /\ walk.files = wanted
            /\ walk.made = IF walk.patterns = {} THEN DOMAIN Tree \ leaves
                           ELSE {<< >>} \cup UNION {Prefixes(Front(p)) : p \in wanted}

CatalogShellInv == AtDirectory /\ ResolvedEntry /\ RestoredRight

==============================================================================

--------------------------- MODULE TwoPassInventory ---------------------------
(***************************************************************************)
(* The two passes of src/native/displaced-inventory-helper.c over a tree   *)
(* that changes meanwhile, the inventory it emits when they agree, the     *)
(* drift it emits when they do not, and the reader of that drift in        *)
(* src/lib/native-drift-diagnostic.py.  A pass walks the tree by           *)
(* descriptors, one system call at a time.  The tree keeps a change time   *)
(* that no two changes share.                                              *)
(***************************************************************************)
EXTENDS Naturals, Sequences, FiniteSets, SequencesExt

CONSTANTS
    Order,        \* the paths there may be, in the order of their bytes
    Parent,       \* of each of them but the first, the root
    Inodes,       \* inode numbers of the file system
    Budgets,      \* bounds: changes of the tree beside calls that fail for no reason of it
    None, Unseen

Paths == {Order[i] : i \in DOMAIN Order}
Root == Order[1]
Position(p) == CHOOSE i \in DOMAIN Order : Order[i] = p
Below(p) == {q \in Paths \ {Root} : Parent[q] = p}
Above(p) == IF p = Root THEN {} ELSE {Root, Parent[p]}

ASSUME TreeAssumption ==
    /\ Order \in Seq(Paths) /\ Len(Order) > 1
    /\ \A i, j \in DOMAIN Order : Order[i] = Order[j] => i = j
    /\ Parent \in [Paths \ {Root} -> Paths]
    /\ \A p \in Paths \ {Root} : Parent[p] # Root => Parent[Parent[p]] = Root
    /\ DOMAIN Order \subseteq Inodes
    /\ Budgets \subseteq Nat \X Nat

\* Of issues.
Reasons ==
    <<"DIRECTORY_IDENTITY_RACE", "DIRECTORY_OPEN_UNRESOLVED", "DIRECTORY_READ_UNRESOLVED",
      "ENTRY_FINAL_RACE", "ENTRY_IDENTITY_RACE", "ENTRY_STAT_UNRESOLVED",
      "FILE_GROWTH_RACE", "FILE_IDENTITY_RACE", "FILE_OPEN_UNRESOLVED",
      "FILE_READ_UNRESOLVED", "HARDLINK_UNRESOLVED", "ROOT_IDENTITY_RACE">>

\* In the order of their digests.
Details == <<"growth", "open", "read", "getdents", "stat", "changed", "nlink">>

\* What may lie at a path, what a row tells of it, and an issue.
Objects == [kind : {"DIRECTORY", "REGULAR"}, ino : Inodes, links : {1, 2}, ctime : Nat, born : Nat]
Rows == [path : Paths, hash : Nat \cup {None},
         obj : [kind : {"DIRECTORY", "REGULAR"}, ino : Inodes, links : {1, 2}, ctime : Nat]]
IssueRecords == [reason : ToSet(Reasons), path : Paths, detail : ToSet(Details)]

\* What is emitted of passes that do not agree.
Drifts ==
    [deltas : Seq([path : Paths, change : {"CREATED", "DELETED", "REPLACED", "MODIFIED"},
                   first : Rows \cup {None}, second : Rows \cup {None}]),
     issues : Seq([first : IssueRecords \cup {None}, second : IssueRecords \cup {None}])]

ASSUME NoneAssumption ==
    /\ None \notin Objects \cup Rows \cup IssueRecords \cup Nat \cup [path : Paths, obj : Objects, hash : Nat \cup {None}]
    /\ None \notin Drifts
    /\ Unseen \notin Objects \cup {None}

Affordable(made, failed) == \E b \in Budgets : made <= b[1] /\ failed <= b[2]

Kinds(p) == IF p = Root THEN {"DIRECTORY"}
            ELSE IF Below(p) # {} THEN {"DIRECTORY", "REGULAR"} ELSE {"REGULAR"}

IsDirectory(o) == o # None /\ o.kind = "DIRECTORY"

VARIABLES
    tree,      \* path -> what is there: kind, inode, links, change time, birth
    changes,   \* made so far, and the time of the last
    failures,  \* of calls
    pass, step,
    stack,     \* directories entered: the stat, the names found, those left
    entry,     \* the object in work: the stat before, what was hashed
    rows,      \* of each pass, in the order of the walk
    issues,    \* of each pass
    seen,      \* what was there at the first look of pass 1, the last of pass 2
    between    \* the tree when the second pass began

site == <<tree, changes>>
helper == <<failures, pass, step, stack, entry, rows, issues, seen, between>>
vars == <<site, helper>>

Init ==
    /\ tree \in [Paths -> [kind : {"DIRECTORY", "REGULAR"}, ino : Inodes, links : {1},
                           ctime : {0}, born : {0}] \cup {None}]
    /\ tree[Root] # None
    /\ \A p \in Paths : tree[p] # None =>
        /\ tree[p].kind \in Kinds(p)
        /\ p # Root => IsDirectory(tree[Parent[p]])
        /\ tree[p].ino = Position(p)
    /\ changes = 0 /\ failures = 0
    /\ pass = 1 /\ step = "root" /\ stack = <<>> /\ entry = None
    /\ rows = <<<<>>, <<>>>> /\ issues = <<<<>>, <<>>>>
    /\ seen = [k \in 1 .. 2 |-> [p \in Paths |-> Unseen]] /\ between = None

-----------------------------------------------------------------------------
(* The tree.                                                               *)

New(p, kind, ino) ==
    [kind |-> kind, ino |-> ino, links |-> 1, ctime |-> changes + 1, born |-> changes + 1]

Touched(o, links) == [o EXCEPT !.ctime = changes + 1, !.links = links]

\* A directory changes with the names in it.
Put(p, o) ==
    tree' = [tree EXCEPT ![p] = o, ![Parent[p]] = Touched(@, @.links)]

\* An inode is free when no path has it and the helper has it not open.
Free ==
    {i \in Inodes : /\ \A p \in Paths : tree[p] # None => tree[p].ino # i
                    /\ \A d \in DOMAIN stack : stack[d].obj.ino # i
                    /\ entry # None => entry.obj.ino # i}

Modify(p) ==
    /\ tree[p] # None
    /\ \E links \in IF tree[p].kind = "REGULAR" THEN {1, 2} ELSE {1} :
        tree' = [tree EXCEPT ![p] = Touched(@, links)]

\* A directory the pass has entered somewhere else had this inode; the pass
\* would not list one that has it now.
Repeated(p, ino) ==
    \E r \in ToSet(rows[pass]) : r.path # p /\ r.obj.kind = "DIRECTORY" /\ r.obj.ino = ino

\* A file is created, or takes the place of another in one step.  A bound: no
\* directory gets an inode that is repeated.
Create(p) ==
    /\ p # Root /\ IsDirectory(tree[Parent[p]])
    /\ \E kind \in Kinds(p), ino \in Free :
        /\ tree[p] # None => tree[p].kind = "REGULAR" /\ kind = "REGULAR"
        /\ kind = "DIRECTORY" => ~Repeated(p, ino)
        /\ Put(p, New(p, kind, ino))

Delete(p) ==
    /\ p # Root /\ tree[p] # None /\ \A q \in Below(p) : tree[q] = None
    /\ Put(p, None)

SiteChanges ==
    /\ Affordable(changes + 1, failures) /\ changes' = changes + 1
    /\ \E p \in Paths : Modify(p) \/ Create(p) \/ Delete(p)
    /\ UNCHANGED helper

-----------------------------------------------------------------------------
(* One pass.                                                               *)

\* What stat tells; it does not tell one birth from another.
Stat(o) == [kind |-> o.kind, ino |-> o.ino, links |-> o.links, ctime |-> o.ctime]

\* Wrong on purpose, to test NothingUnreported: the times are not compared.
SameStatButForTimes(a, b) == a.kind = b.kind /\ a.ino = b.ino /\ a.links = b.links

SameStat(a, b) == Stat(a) = Stat(b)

Top == Last(stack)

\* What is found under a name of the directory that is open, which may have
\* been removed since.
Found(p) ==
    IF tree[Top.dir] # None /\ tree[Top.dir].born = Top.obj.born THEN tree[p] ELSE None

Names == {p \in Below(Top.dir) : Found(p) # None}

Issue(reason, p, detail) == [reason |-> reason, path |-> p, detail |-> detail]

Report(new) == issues' = [issues EXCEPT ![pass] = @ \o new]

AddRow(p, o, hash) ==
    rows' = [rows EXCEPT ![pass] = Append(@, [path |-> p, obj |-> Stat(o), hash |-> hash])]

\* The first look counts in the first pass, the last one in the second.
Look(at) ==
    seen' = [seen EXCEPT ![pass] =
        [p \in Paths |-> IF p \in DOMAIN at /\ (pass = 2 \/ @[p] = Unseen)
                         THEN at[p] ELSE @[p]]]

\* Either the call goes through or it fails for no reason of the tree.
Fails == Affordable(changes, failures + 1) /\ failures' = failures + 1
GoesThrough == UNCHANGED failures

\* The root is opened and stat'ed.
OpenRoot ==
    /\ step = "root" /\ step' = "list"
    /\ between' = IF pass = 2 THEN tree ELSE between
    /\ stack' = <<[dir |-> Root, obj |-> tree[Root], names |-> {}, left |-> {}]>>
    /\ AddRow(Root, tree[Root], None)
    /\ Look([p \in {Root} |-> tree[p]])
    /\ UNCHANGED <<failures, pass, entry, issues>>

\* The directory in work is left; what follows is the last stat of it.
Leave ==
    /\ stack' = Front(stack)
    /\ step' = IF Top.dir = Root THEN "rootEnd" ELSE "final"
    /\ entry' = IF Top.dir = Root THEN None ELSE [path |-> Top.dir, obj |-> Top.obj, hash |-> None]

Gone(o, p) == ~(tree[p] # None /\ tree[p].born = o.born)

\* A directory that was removed meanwhile cannot be listed.
List ==
    /\ step = "list"
    /\ \/ /\ Fails \/ (GoesThrough /\ Gone(Top.obj, Top.dir))
          /\ Report(<<Issue("DIRECTORY_READ_UNRESOLVED", Top.dir, "getdents")>>)
          /\ Leave /\ UNCHANGED seen
       \/ /\ GoesThrough /\ ~Gone(Top.obj, Top.dir)
          /\ stack' = [stack EXCEPT ![Len(stack)].names = Names, ![Len(stack)].left = Names]
          /\ step' = "child" /\ Look([p \in Below(Top.dir) \ Names |-> None])
          /\ UNCHANGED <<entry, issues>>
    /\ UNCHANGED <<pass, rows, between>>

\* Names are taken in the order of their bytes.
StatChild ==
    LET p == CHOOSE q \in Top.left : \A r \in Top.left : Position(q) <= Position(r) IN
    /\ step = "child" /\ Top.left # {}
    /\ stack' = [stack EXCEPT ![Len(stack)].left = @ \ {p}]
    /\ \/ /\ \/ Fails /\ UNCHANGED seen
             \/ GoesThrough /\ Found(p) = None /\ Look([q \in {p} |-> None])
          /\ Report(<<Issue("ENTRY_STAT_UNRESOLVED", p, "stat")>>)
          /\ UNCHANGED <<step, entry>>
       \/ /\ GoesThrough /\ Found(p) # None /\ Look([q \in {p} |-> Found(p)])
          /\ entry' = [path |-> p, obj |-> Found(p), hash |-> None] /\ step' = "open"
          /\ UNCHANGED issues
    /\ UNCHANGED <<pass, rows, between>>

\* A directory that cannot be opened, or is another one by then, gets no row
\* and no last stat.
Refuse(reason) ==
    /\ Report(<<Issue(reason, entry.path, "open")>>)
    /\ step' = "child" /\ UNCHANGED <<stack, rows>>

OpenDirectory ==
    LET p == entry.path
        o == Found(p)
        same == IsDirectory(o) /\ SameStat(o, entry.obj)
    IN
    /\ step = "open" /\ entry.obj.kind = "DIRECTORY" /\ entry' = None
    /\ \/ Fails /\ Refuse("DIRECTORY_OPEN_UNRESOLVED") /\ UNCHANGED seen
       \/ /\ GoesThrough /\ ~same /\ Look([q \in {p} |-> o])
          /\ Refuse(IF IsDirectory(o) THEN "DIRECTORY_IDENTITY_RACE" ELSE "DIRECTORY_OPEN_UNRESOLVED")
       \/ /\ GoesThrough /\ same
          /\ stack' = Append(stack, [dir |-> p, obj |-> entry.obj, names |-> {}, left |-> {}])
          /\ AddRow(p, entry.obj, None)
          /\ step' = "list" /\ UNCHANGED <<issues, seen>>
    /\ UNCHANGED <<pass, between>>

\* A file with a second name is an issue whatever comes of its hash.
Hardlink == IF entry.obj.links # 1
            THEN <<Issue("HARDLINK_UNRESOLVED", entry.path, "nlink")>> ELSE <<>>

\* The row of a file that could not be hashed.
Unhashed(issue) ==
    /\ Report(Append(Hardlink, issue)) /\ AddRow(entry.path, entry.obj, None)
    /\ step' = "final" /\ UNCHANGED entry

OpenFile ==
    LET p == entry.path
        o == Found(p) IN
    /\ step = "open" /\ entry.obj.kind = "REGULAR"
    /\ \/ /\ Fails \/ (GoesThrough /\ o = None)
          /\ Unhashed(Issue("FILE_OPEN_UNRESOLVED", p, "open"))
       \/ /\ GoesThrough /\ o # None /\ ~SameStat(o, entry.obj)
          /\ Unhashed(Issue("FILE_IDENTITY_RACE", p, "open"))
       \/ /\ GoesThrough /\ o # None /\ SameStat(o, entry.obj)
          /\ step' = "read" /\ UNCHANGED <<entry, rows, issues>>
    /\ UNCHANGED <<pass, stack, seen, between>>

\* What is read is what the open file holds at the time; a file removed since
\* is what it was.
Read ==
    /\ step = "read"
    /\ \/ /\ Fails
          /\ Unhashed(Issue("FILE_READ_UNRESOLVED", entry.path, "read"))
       \/ /\ GoesThrough /\ step' = "hashed"
          /\ entry' = [entry EXCEPT !.hash =
                IF Gone(entry.obj, entry.path) THEN entry.obj.ctime ELSE tree[entry.path].ctime]
          /\ UNCHANGED <<rows, issues>>
    /\ UNCHANGED <<pass, stack, seen, between>>

\* Wrong on purpose, to test RowsAreOfOneFile: the path is stat'ed, and any
\* file will do.
HashedByName ==
    IF Found(entry.path) = None
    THEN Unhashed(Issue("FILE_IDENTITY_RACE", entry.path, "read"))
    ELSE /\ AddRow(entry.path, entry.obj, entry.hash) /\ Report(Hardlink)
         /\ step' = "final" /\ UNCHANGED entry

\* The file and the path are stat'ed again, and must be what was opened.  One
\* that grows is told from others when the growth is read.
Hashed ==
    LET o == Found(entry.path) IN
    IF o = None \/ ~SameStat(o, entry.obj)
    THEN \/ Unhashed(Issue("FILE_GROWTH_RACE", entry.path, "growth"))
         \/ Unhashed(Issue("FILE_IDENTITY_RACE", entry.path, "read"))
    ELSE /\ AddRow(entry.path, entry.obj, entry.hash) /\ Report(Hardlink)
         /\ step' = "final" /\ UNCHANGED entry

EndHash ==
    /\ step = "hashed" /\ Hashed
    /\ UNCHANGED <<failures, pass, stack, seen, between>>

\* Every object that got a row is stat'ed once more.
Final ==
    LET o == Found(entry.path) IN
    /\ step = "final" /\ step' = "child" /\ entry' = None
    /\ Report(CASE o = None -> <<Issue("ENTRY_FINAL_RACE", entry.path, "stat")>>
                [] o # None /\ ~SameStat(o, entry.obj) ->
                     <<Issue("ENTRY_IDENTITY_RACE", entry.path, "changed")>>
                [] OTHER -> <<>>)
    /\ Look([p \in {entry.path} |-> o])
    /\ UNCHANGED <<failures, pass, stack, rows, between>>

\* The names are read again.
Relist ==
    /\ step = "child" /\ Top.left = {}
    /\ \/ /\ Fails \/ (GoesThrough /\ Gone(Top.obj, Top.dir))
          /\ Report(<<Issue("DIRECTORY_READ_UNRESOLVED", Top.dir, "getdents")>>)
          /\ UNCHANGED seen
       \/ /\ GoesThrough /\ ~Gone(Top.obj, Top.dir)
          /\ Report(IF Names # Top.names
                    THEN <<Issue("DIRECTORY_IDENTITY_RACE", Top.dir, "changed")>> ELSE <<>>)
          /\ Look([p \in Below(Top.dir) \ Top.names |-> tree[p]])
    /\ Leave
    /\ UNCHANGED <<pass, rows, between>>

RootRow == rows[pass][1].obj

EndPass ==
    /\ step = "rootEnd"
    /\ Report(IF RootRow # Stat(tree[Root])
              THEN <<Issue("ROOT_IDENTITY_RACE", Root, "changed")>> ELSE <<>>)
    /\ Look([p \in {Root} |-> tree[p]])
    /\ IF pass = 1 THEN pass' = 2 /\ step' = "root" ELSE pass' = pass /\ step' = "done"
    /\ UNCHANGED <<failures, stack, entry, rows, between>>

Walk ==
    \/ OpenRoot \/ List \/ StatChild \/ OpenDirectory \/ OpenFile
    \/ Read \/ EndHash \/ Final \/ Relist \/ EndPass

Next == SiteChanges \/ (Walk /\ UNCHANGED site)

\* The helper runs to its end unless its time is over.
Spec == Init /\ [][Next]_vars

-----------------------------------------------------------------------------
(* What is emitted.                                                        *)

\* Wrong on purpose, to test DriftIsExact: the order of the walk, which
\* enters "d" before it comes to "d-".
RowsAsWalked(k) == rows[k]

\* The elements of a set in the order of their keys, no two of which are the same.
\* (TLC evaluates a concatenation once, and a function anew at each use.)
InOrder(S, key) ==
    LET keys == {key[x] : x \in S}
        nth(n) == CHOOSE k \in keys : Cardinality({l \in keys : l <= k}) = n
    IN  [n \in 1 .. Cardinality(S) |-> CHOOSE x \in S : key[x] = nth(n)] \o <<>>

\* In a pass no path has two rows.
SortedRows(k) ==
    LET all == ToSet(rows[k]) IN InOrder(all, [r \in all |-> Position(r.path)])

Place(x, s) == CHOOSE i \in DOMAIN s : s[i] = x

\* Issues are in the order of reason, path and digest.
Rank(i) ==
    (Place(i.reason, Reasons) * Len(Order) + Position(i.path)) * (Len(Details) + 1)
        + Place(i.detail, Details)

\* Sorted, and each once.
SortedIssues(k) ==
    LET all == ToSet(issues[k]) IN InOrder(all, [i \in all |-> Rank(i)])

Text(k) == [rows |-> SortedRows(k), issues |-> SortedIssues(k)]

Increasing(s) == \A i \in DOMAIN s : i > 1 => Position(s[i - 1].path) < Position(s[i].path)

\* Two ordered streams are read side by side; what both hold is passed over.
Pairs(a, ra, b, rb) ==
    LET m[n \in (1 .. Len(a) + 1) \X (1 .. Len(b) + 1)] ==
            LET i == n[1]
                j == n[2] IN
            IF i > Len(a) /\ j > Len(b) THEN <<>>
            ELSE IF j > Len(b) \/ (i <= Len(a) /\ ra[i] < rb[j])
            THEN <<[first |-> a[i], second |-> None]>> \o m[<<i + 1, j>>]
            ELSE IF i > Len(a) \/ rb[j] < ra[i]
            THEN <<[first |-> None, second |-> b[j]]>> \o m[<<i, j + 1>>]
            ELSE (IF a[i] = b[j] THEN <<>> ELSE <<[first |-> a[i], second |-> b[j]]>>)
                    \o m[<<i + 1, j + 1>>]
    IN m[<<1, 1>>]

\* Wrong on purpose, to test ChangesAreTrue: the passes are taken for each other.
ChangeBackwards(first, second) ==
    IF first = None THEN "DELETED" ELSE IF second = None THEN "CREATED"
    ELSE IF first.obj.ino # second.obj.ino THEN "REPLACED" ELSE "MODIFIED"

Change(first, second) ==
    IF first = None THEN "CREATED" ELSE IF second = None THEN "DELETED"
    ELSE IF <<first.obj.kind, first.obj.ino>> # <<second.obj.kind, second.obj.ino>>
    THEN "REPLACED" ELSE "MODIFIED"

PathOf(pair) == IF pair.first # None THEN pair.first.path ELSE pair.second.path

Deltas ==
    LET a == SortedRows(1)
        b == SortedRows(2)
        Ranks(s) == [i \in DOMAIN s |-> Position(s[i].path)]
        pairs == Pairs(a, Ranks(a), b, Ranks(b))
    IN  [i \in DOMAIN pairs |->
            [path |-> PathOf(pairs[i]), change |-> Change(pairs[i].first, pairs[i].second),
             first |-> pairs[i].first, second |-> pairs[i].second]]

IssueDeltas ==
    LET a == SortedIssues(1)
        b == SortedIssues(2)
        Ranks(s) == [i \in DOMAIN s |-> Rank(s[i])]
    IN  Pairs(a, Ranks(a), b, Ranks(b))

\* The helper does not emit what it cannot merge, and does not emit nothing.
Diagnostic ==
    IF /\ Text(1) # Text(2)
       /\ \A k \in 1 .. 2 : Increasing(Text(k).rows)
       /\ Len(Deltas) + Len(IssueDeltas) > 0
    THEN [deltas |-> Deltas, issues |-> IssueDeltas]
    ELSE None

\* Wrong on purpose, to test InventoryIsSnapshot: the change times may differ.
AgreeButForTimes ==
    LET Rest(t) == [t EXCEPT !.rows = [i \in DOMAIN @ |-> [@[i] EXCEPT !.obj.ctime = 0, !.hash = None]]]
    IN  Rest(Text(1)) = Rest(Text(2))

Agree == Text(1) = Text(2)

\* The inventory says whether it is complete.
Inventory ==
    IF Agree THEN [rows |-> SortedRows(1), complete |-> issues[1] = <<>>] ELSE None

\* parse_delta and parse_issue.
DeltaParses(d, previous) ==
    /\ previous # None => Position(previous.path) < Position(d.path)
    /\ d.first # None \/ d.second # None
    /\ d.change =
        CASE d.first = None -> "CREATED"
          [] d.first # None /\ d.second = None -> "DELETED"
          [] OTHER -> IF d.first.obj.kind # d.second.obj.kind \/ d.first.obj.ino # d.second.obj.ino
                      THEN "REPLACED" ELSE "MODIFIED"
    /\ d.first # d.second

IssueParses(i, previous) ==
    LET Of(x) == IF x.first # None THEN x.first ELSE x.second IN
    /\ (i.first = None) # (i.second = None)
    /\ previous # None => Rank(Of(previous)) < Rank(Of(i))

\* parse_raw_pass.
Parses(output) ==
    LET Previous(s, i) == IF i = 1 THEN None ELSE s[i - 1] IN
    /\ Len(output.deltas) + Len(output.issues) > 0
    /\ \A i \in DOMAIN output.deltas :
        DeltaParses(output.deltas[i], Previous(output.deltas, i))
    /\ \A i \in DOMAIN output.issues :
        IssueParses(output.issues[i], Previous(output.issues, i))

-----------------------------------------------------------------------------
(* Properties.                                                             *)

Done == step = "done"

Stats == [kind : {"DIRECTORY", "REGULAR"}, ino : Inodes, links : {1, 2}, ctime : 0 .. changes]

TypeOK ==
    /\ \A p \in Paths : tree[p] = None \/ Stat(tree[p]) \in Stats
    /\ Affordable(changes, failures) /\ pass \in 1 .. 2
    /\ step \in {"root", "list", "child", "open", "read", "hashed", "final", "rootEnd", "done"}
    /\ \A k \in 1 .. 2 : ToSet(rows[k]) \subseteq
            [path : Paths, obj : Stats, hash : 0 .. changes \cup {None}]
    /\ \A k \in 1 .. 2 : \A i \in ToSet(issues[k]) : i.reason \in ToSet(Reasons) /\ i.path \in Paths

\* An inventory that says it is complete is the tree as it was at one moment,
\* between the passes, although neither pass saw it at one moment.
InventoryIsSnapshot ==
    Done /\ Inventory # None /\ Inventory.complete =>
        {[path |-> r.path, obj |-> r.obj] : r \in ToSet(Inventory.rows)} =
        {[path |-> p, obj |-> Stat(between[p])] : p \in {q \in Paths : between[q] # None}}

\* A file's row has the hash of the very file its other fields are of.
RowsAreOfOneFile ==
    \A k \in 1 .. 2 : \A r \in ToSet(rows[k]) : r.hash # None => r.hash = r.obj.ctime

ReportedAt == {d.path : d \in ToSet(Deltas)} \cup {PathOf(i) : i \in ToSet(IssueDeltas)}

\* A directory that neither pass could open, for the same reason: it has no row,
\* and the two issues cancel each other.
Unopened ==
    {i.path : i \in {j \in ToSet(issues[1]) \cap ToSet(issues[2]) : j.detail = "open"}}

\* Whatever is not the same at the first look of the first pass and at the last
\* look of the second is reported, there or at a directory above, but for what
\* is in a directory that neither pass could open.
NothingUnreported ==
    Done => \A p \in Paths :
        seen[1][p] # seen[2][p] /\ {seen[1][p], seen[2][p]} # {None, Unseen} =>
            (ReportedAt \cup Unopened) \cap ({p} \cup Above(p)) # {}

\* Every path whose rows differ, and every issue of one pass only, is emitted
\* once; nothing else is.
RowAt(k, p) ==
    LET here == {r \in ToSet(rows[k]) : r.path = p}
    IN  IF here = {} THEN None ELSE CHOOSE r \in here : TRUE

DeltaExact ==
    Done =>
        /\ ToSet(Deltas) =
            {[path |-> p, change |-> Change(RowAt(1, p), RowAt(2, p)),
              first |-> RowAt(1, p), second |-> RowAt(2, p)] :
                p \in {q \in Paths : RowAt(1, q) # RowAt(2, q)}}
        /\ \A i, j \in DOMAIN Deltas : Deltas[i].path = Deltas[j].path => i = j
        /\ ToSet(IssueDeltas) =
            {[first |-> i, second |-> None] : i \in ToSet(issues[1]) \ ToSet(issues[2])} \cup
            {[first |-> None, second |-> i] : i \in ToSet(issues[2]) \ ToSet(issues[1])}

\* What the passes disagree about is emitted, and the reader accepts it.
DifferenceExplained ==
    Done /\ ~Agree => Diagnostic # None /\ Parses(Diagnostic)

\* Why a path, or what lies in it, was not walked.
Hindrance(i) ==
    \/ i.reason \in {"DIRECTORY_OPEN_UNRESOLVED", "DIRECTORY_READ_UNRESOLVED", "ENTRY_STAT_UNRESOLVED"}
    \/ i.reason = "DIRECTORY_IDENTITY_RACE" /\ i.detail = "open"

\* It is told of one pass; or a directory could not be listed at some time in
\* each of them, and the two issues cancel each other.
HinderedIn(k, p) ==
    \E i \in ToSet(issues[k]) :
        /\ i.path = p /\ Hindrance(i)
        /\ i \in ToSet(issues[3 - k]) => i.reason = "DIRECTORY_READ_UNRESOLVED"

\* Both passes have looked at the path.
Compared(p) == Unseen \notin {seen[1][p], seen[2][p]}

\* What was seen there first is not what is there at last, or nothing was.
WentFrom(p) ==
    /\ Compared(p) /\ seen[1][p] # None
    /\ seen[2][p] # None => seen[2][p].born # seen[1][p].born
CameTo(p) == WentFrom(p) \/ (Compared(p) /\ seen[1][p] = None)

\* What is said to be replaced was another thing when first seen than what is
\* there at last.  What is said to be deleted went, or its directory did, or the
\* second pass was hindered at the one or the other; what is said to be created
\* came, or its directory did, or the first pass was hindered.  If no call failed,
\* nothing is said where both passes saw the same at the path and above it.
ChangesAreTrue ==
    Done => \A d \in ToSet(Deltas) :
        LET around == {d.path} \cup Above(d.path) IN
        /\ d.change = "REPLACED" => WentFrom(d.path)
        /\ d.change = "DELETED" => \E p \in around : WentFrom(p) \/ HinderedIn(2, p)
        /\ d.change = "CREATED" => \E p \in around : CameTo(p) \/ HinderedIn(1, p)
        /\ failures = 0 => \E p \in around : Compared(p) /\ seen[1][p] # seen[2][p]

\* Two passes that disagree give a drift, the reader accepts it, and it is exactly
\* what the passes disagree about.
DriftIsExact == DifferenceExplained /\ DeltaExact

=============================================================================

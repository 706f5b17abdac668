------------------------ MODULE TwoPassInventoryProofs ------------------------
(***************************************************************************)
(* Proofs about the two passes, for any tree of the depth that is modelled, *)
(* any number of changes and any number of calls that fail.                *)
(***************************************************************************)
EXTENDS TwoPassInventory, FiniteSetTheorems, SequenceTheorems, TLAPS

Frames == [dir : Paths, obj : Objects, names : SUBSET Paths, left : SUBSET Paths]
Entries == [path : Paths, obj : Objects, hash : Nat \cup {None}]
Steps == {"root", "list", "child", "open", "read", "hashed", "final", "rootEnd", "done"}

\* The rows and the issues of a pass, without their order.
R(k) == ToSet(rows[k])
I(k) == ToSet(issues[k])
Rowed(k, p) == \E r \in R(k) : r.path = p
Issued(k, p) == \E j \in I(k) : j.path = p

Trees == [Paths -> Objects \cup {None}]

TypeInv ==
    /\ tree \in Trees /\ changes \in Nat /\ failures \in Nat
    /\ pass \in 1 .. 2 /\ step \in Steps
    /\ stack \in Seq(Frames) /\ entry \in Entries \cup {None}
    /\ rows \in [1 .. 2 -> Seq(Rows)] /\ issues \in [1 .. 2 -> Seq(IssueRecords)]
    /\ seen \in [1 .. 2 -> [Paths -> Objects \cup {None, Unseen}]]
    /\ between \in Trees \cup {None}

\* The tree is one.
TreeInv ==
    /\ tree[Root] # None
    /\ \A p \in Paths : tree[p] # None =>
        /\ tree[p].kind \in Kinds(p)
        /\ tree[p].born <= tree[p].ctime /\ tree[p].ctime <= changes
        /\ p # Root => IsDirectory(tree[Parent[p]])

InWork == step \in {"open", "read", "hashed", "final"}

\* Where the walk is.
PlaceInv ==
    /\ stack = <<>> <=> step \in {"root", "rootEnd", "done"}
    /\ entry # None <=> InWork
    /\ step = "list" => Top.names = {}
    /\ step = "open" => entry.hash = None
    /\ step \in {"read", "hashed"} => entry.obj.kind = "REGULAR"
    /\ step = "done" => pass = 2

\* The directories entered are one below the other, and none is entered twice.
StackInv ==
    /\ stack # <<>> => stack[1].dir = Root
    /\ \A n \in DOMAIN stack :
        /\ stack[n].obj.kind = "DIRECTORY"
        /\ stack[n].left \subseteq stack[n].names /\ stack[n].names \subseteq Below(stack[n].dir)
        /\ n > 1 => stack[n].dir \in stack[n - 1].names
        /\ \A m \in DOMAIN stack : stack[m].dir \notin stack[n].left /\ (m # n => stack[m].dir # stack[n].dir)

EntryInv ==
    entry # None =>
        /\ entry.path \in Top.names
        /\ \A n \in DOMAIN stack : entry.path \notin stack[n].left /\ entry.path # stack[n].dir

WalkInv == PlaceInv /\ StackInv /\ EntryInv

\* What of the pass is before it: no row, no issue, no look.
Untouched(p) ==
    /\ ~Rowed(pass, p) /\ ~Issued(pass, p)
    /\ pass = 1 => seen[1][p] = Unseen
Fresh(p) == \A q \in {p} \cup Below(p) : Untouched(q)

SecondInv ==
    pass = 1 => between = None /\ R(2) = {} /\ I(2) = {} /\ \A p \in Paths : seen[2][p] = Unseen

FreshInv ==
    /\ step = "root" => \A p \in Paths : Untouched(p)
    /\ \A n \in DOMAIN stack : \A p \in stack[n].left : Fresh(p)
    /\ step = "list" => \A p \in Below(Top.dir) : Fresh(p)
    /\ step \in {"open", "read", "hashed"} => ~Rowed(pass, entry.path) /\ ~Issued(pass, entry.path)
    /\ step = "open" => \A q \in Below(entry.path) : Untouched(q)

\* Of two things that were at a path the second came later, or is the first.
Later(o, e) ==
    /\ o.ctime <= e.ctime /\ o.born <= e.born
    /\ o.ctime = e.ctime => o = e
    /\ o.born = e.born => o.kind = e.kind /\ o.ino = e.ino

Known(p, o) ==
    /\ o.born <= o.ctime /\ o.ctime <= changes
    /\ tree[p] # None => Later(o, tree[p])

Saw(p) == seen[1][p] \notin {None, Unseen}

\* What is known of an object that the pass has looked at.
Handled(p, o) ==
    /\ Known(p, o)
    /\ pass = 1 => seen[1][p] = o
    /\ pass = 2 /\ Saw(p) => Later(seen[1][p], o)

RowOf(k, p, o) == \E r \in R(k) : r.path = p /\ r.obj = Stat(o)

SawInv == \A p \in Paths : Saw(p) => Known(p, seen[1][p])

HandledInv ==
    /\ \A n \in DOMAIN stack : Handled(stack[n].dir, stack[n].obj) /\ RowOf(pass, stack[n].dir, stack[n].obj)
    /\ entry # None => Handled(entry.path, entry.obj)
    /\ step = "final" => RowOf(pass, entry.path, entry.obj)

\* What a row of the second pass tells is no older than what was seen first.
Told(r) ==
    \E o \in Objects : r.obj = Stat(o) /\ Known(r.path, o) /\ (Saw(r.path) => Later(seen[1][r.path], o))

RowInv ==
    /\ \A r \in R(1) : Saw(r.path) /\ r.obj = Stat(seen[1][r.path])
    /\ \A r \in R(2) : Told(r)
    /\ \A k \in 1 .. 2 : \A r, s \in R(k) : r.path = s.path => r = s
    /\ pass = 2 \/ step # "root" => Rowed(1, Root)

SeenInv == SawInv /\ HandledInv /\ RowInv

HashInv ==
    /\ RowsAreOfOneFile
    /\ step = "hashed" => \/ entry.hash = entry.obj.ctime
                          \/ tree[entry.path] # entry.obj

BetweenInv ==
    pass = 2 /\ step # "root" =>
        /\ between \in Trees
        /\ \A p \in Paths :
             between[p] # None => p = Root \/ IsDirectory(between[Parent[p]])
        /\ \A p \in Paths : Saw(p) =>
            /\ tree[p] = seen[1][p] => between[p] = seen[1][p]
            /\ \A r \in R(2) : r.path = p /\ r.obj.ctime = seen[1][p].ctime => between[p] = seen[1][p]
            /\ entry # None /\ entry.path = p /\ entry.obj = seen[1][p] => between[p] = seen[1][p]

Pending(q) ==
    /\ pass = 1
    /\ \/ step = "list" /\ Top.dir = Parent[q]
       \/ \E n \in DOMAIN stack : q \in stack[n].left
       \/ entry # None /\ entry.path = q

Accounted(q) == Rowed(1, q) \/ Issued(1, q) \/ Issued(1, Parent[q]) \/ Pending(q)

\* Whatever lies in a directory that has not changed since it was first seen
\* has got a row, or there is an issue.
Covers(t) ==
    \A q \in Paths \ {Root} :
        LET d == Parent[q] IN
        t[q] # None /\ Rowed(1, d) /\ t[d] = seen[1][d] =>
            Accounted(q)

CoverInv == Covers(IF pass = 1 \/ step = "root" THEN tree ELSE between)

IInv == TypeInv /\ TreeInv /\ WalkInv /\ SecondInv /\ FreshInv /\ SeenInv /\ HashInv /\ BetweenInv /\ CoverInv

-----------------------------------------------------------------------------
(* Sequences as sets.                                                      *)

LEMMA SetOfAppend ==
    ASSUME NEW S, NEW s \in Seq(S), NEW e
    PROVE  ToSet(Append(s, e)) = ToSet(s) \cup {e}
  <1>1. \A x : x \in ToSet(Append(s, e)) <=> x \in ToSet(s) \cup {e}
    <2>1. \A x : x \in ToSet(Append(s, e)) => x \in ToSet(s) \cup {e}
      BY DEF ToSet
    <2>2. \A x : x \in ToSet(s) => x \in ToSet(Append(s, e))
      BY DEF ToSet
    <2>3. e \in ToSet(Append(s, e))
      <3>1. Len(s) + 1 \in DOMAIN Append(s, e) /\ Append(s, e)[Len(s) + 1] = e
        OBVIOUS
      <3> QED
        BY <3>1 DEF ToSet
    <2> QED
      BY <2>1, <2>2, <2>3
  <1> QED
    BY <1>1

LEMMA SetOfConcat ==
    ASSUME NEW S, NEW s \in Seq(S), NEW t \in Seq(S)
    PROVE  ToSet(s \o t) = ToSet(s) \cup ToSet(t)
  <1>1. ToSet(s \o t) \subseteq ToSet(s) \cup ToSet(t)
    <2> SUFFICES ASSUME NEW n \in DOMAIN (s \o t)
                 PROVE  (s \o t)[n] \in ToSet(s) \cup ToSet(t)
      BY DEF ToSet
    <2>1. n \in 1 .. Len(s) + Len(t)
      OBVIOUS
    <2>2. CASE n <= Len(s)
      BY <2>1, <2>2 DEF ToSet
    <2>3. CASE n > Len(s)
      <3>1. n - Len(s) \in DOMAIN t /\ (s \o t)[n] = t[n - Len(s)]
        BY <2>1, <2>3
      <3> QED
        BY <3>1 DEF ToSet
    <2> QED
      BY <2>1, <2>2, <2>3
  <1>2. ToSet(s) \subseteq ToSet(s \o t)
    BY DEF ToSet
  <1>3. ToSet(t) \subseteq ToSet(s \o t)
    <2> SUFFICES ASSUME NEW n \in DOMAIN t
                 PROVE  t[n] \in ToSet(s \o t)
      BY DEF ToSet
    <2>1. Len(s) + n \in DOMAIN (s \o t) /\ (s \o t)[Len(s) + n] = t[n]
      OBVIOUS
    <2> QED
      BY <2>1 DEF ToSet
  <1> QED
    BY <1>1, <1>2, <1>3

LEMMA SetOfShort ==
    ASSUME NEW S
    PROVE  /\ ToSet(<<>>) = {} /\ <<>> \in Seq(S)
           /\ \A e : ToSet(<<e>>) = {e}
           /\ \A e, f : ToSet(<<e, f>>) = {e, f}
           /\ \A e \in S : <<e>> \in Seq(S) /\ (\A f \in S : <<e, f>> \in Seq(S))
  <1>1. \A e, f : ToSet(<<e, f>>) = {e, f}
    <2> TAKE e, f
    <2>1. DOMAIN <<e, f>> = {1, 2} /\ <<e, f>>[1] = e /\ <<e, f>>[2] = f
      OBVIOUS
    <2> QED
      BY <2>1 DEF ToSet
  <1>2. \A e : ToSet(<<e>>) = {e}
    BY DEF ToSet
  <1> QED
    BY <1>1, <1>2 DEF ToSet

-----------------------------------------------------------------------------
(* Paths.                                                                  *)

LEMMA PathFacts ==
    /\ Root \in Paths
    /\ \A p \in Paths \ {Root} : Parent[p] \in Paths /\ Parent[p] # p /\ p \in Below(Parent[p])
    /\ \A p \in Paths : Below(p) \subseteq Paths \ {Root} /\ p \notin Below(p)
    /\ \A p, q \in Paths : q \in Below(p) => Parent[q] = p
    /\ \A p \in Paths \ {Root} : \A q \in Below(p) : Below(q) = {} /\ Parent[p] = Root
  <1>1. Root \in Paths
    BY TreeAssumption DEF Root, Paths
  <1>2. \A p \in Paths \ {Root} : Parent[p] \in Paths /\ Parent[p] # p
    BY TreeAssumption, <1>1
  <1>3. \A p \in Paths : Below(p) \subseteq Paths \ {Root}
    BY DEF Below
  <1>4. \A p, q \in Paths : q \in Below(p) => Parent[q] = p
    BY DEF Below
  <1>5. \A p \in Paths \ {Root} : p \in Below(Parent[p])
    BY DEF Below
  <1>6. ASSUME NEW p \in Paths \ {Root}, NEW q \in Below(p)
        PROVE  Below(q) = {} /\ Parent[p] = Root
    <2>1. q \in Paths \ {Root} /\ Parent[q] = p
      BY <1>6, <1>3, <1>4
    <2>2. Parent[p] = Root
      BY <2>1, TreeAssumption
    <2>3. ASSUME NEW r \in Below(q) PROVE FALSE
      BY <2>1, <2>2, <2>3, <1>3, <1>4, TreeAssumption
    <2> QED
      BY <2>2, <2>3
  <1> QED
    BY <1>1, <1>2, <1>3, <1>4, <1>5, <1>6

-----------------------------------------------------------------------------
(* What the site may do.                                                   *)

\* What one change of the site may make of a path.
Becomes(p) ==
    \/ tree'[p] = tree[p]
    \/ tree'[p] = None
    \/ tree'[p].ctime = changes + 1 /\ tree'[p].born = changes + 1
    \/ /\ tree[p] # None /\ tree'[p].ctime = changes + 1 /\ tree'[p].born = tree[p].born
       /\ tree'[p].kind = tree[p].kind /\ tree'[p].ino = tree[p].ino

\* Another thing is at a path, and the directory above it tells.
Exchanged(p) == tree'[p] # tree[p] /\ (tree'[p] = None \/ tree[p] = None \/ tree'[p].born # tree[p].born)

SiteFacts ==
    /\ UNCHANGED helper /\ changes' = changes + 1
    /\ tree' \in Trees
    /\ \A p \in Paths : Becomes(p)
    /\ \A p \in Paths : Exchanged(p) =>
        /\ p # Root /\ tree'[Parent[p]] # None /\ tree'[Parent[p]].ctime = changes + 1
        /\ tree[p] # None /\ tree[p].kind = "DIRECTORY" => \A q \in Below(p) : tree[q] = None
    /\ \A p \in Paths : tree'[p] # None =>
        /\ tree'[p].kind \in Kinds(p)
        /\ p # Root => IsDirectory(tree'[Parent[p]])

LEMMA Somethings ==
    /\ \A o \in Objects : o \notin {None, Unseen}
    /\ \A e \in Entries : e # None
    /\ \A r \in Rows : r # None
    /\ \A j \in IssueRecords : j # None
    /\ \A n \in Nat : n # None
    /\ None # Unseen
  <1>1. None \notin Objects /\ None \notin Rows /\ None \notin IssueRecords /\ None \notin Nat /\ None \notin Entries
    <2>1. None \notin Objects \cup Rows \cup IssueRecords \cup Nat \cup Entries
      BY NoneAssumption DEF Entries
    <2> QED
      BY <2>1
  <1>2. Unseen \notin Objects /\ Unseen # None
    <2>1. Unseen \notin Objects \cup {None}
      BY NoneAssumption
    <2> QED
      BY <2>1
  <1>3. \A o \in Objects : o # None /\ o # Unseen
    BY <1>1, <1>2
  <1>4. \A e \in Entries : e # None
    BY <1>1
  <1>5. \A r \in Rows : r # None
    BY <1>1
  <1>6. \A j \in IssueRecords : j # None
    BY <1>1
  <1>7. \A n \in Nat : n # None
    BY <1>1
  <1> QED
    BY <1>2, <1>3, <1>4, <1>5, <1>6, <1>7

LEMMA TouchedFacts ==
    ASSUME changes \in Nat, NEW o \in Objects, NEW l \in {1, 2}
    PROVE  LET e == Touched(o, l) IN
           /\ e \in Objects /\ e.ctime = changes + 1 /\ e.born = o.born
           /\ e.kind = o.kind /\ e.ino = o.ino
  <1> DEFINE a == [o EXCEPT !.ctime = changes + 1]
  <1>1. a \in Objects /\ a.ctime = changes + 1 /\ a.born = o.born /\ a.kind = o.kind /\ a.ino = o.ino
    BY DEF Objects
  <1>2. Touched(o, l) = [a EXCEPT !.links = l]
    BY DEF Touched
  <1> HIDE DEF a
  <1>3. /\ [a EXCEPT !.links = l] \in Objects /\ [a EXCEPT !.links = l].ctime = a.ctime
        /\ [a EXCEPT !.links = l].born = a.born /\ [a EXCEPT !.links = l].kind = a.kind
        /\ [a EXCEPT !.links = l].ino = a.ino
    BY <1>1 DEF Objects
  <1> QED
    BY <1>1, <1>2, <1>3

LEMMA PutFacts ==
    ASSUME TypeInv, TreeInv, NEW p \in Paths \ {Root}, NEW o \in Objects \cup {None}, Put(p, o),
           IsDirectory(tree[Parent[p]])
    PROVE  /\ tree' \in Trees /\ tree'[p] = o
           /\ LET d == tree'[Parent[p]] IN
              /\ d # None /\ d.ctime = changes + 1 /\ d.born = tree[Parent[p]].born
              /\ d.kind = tree[Parent[p]].kind /\ d.ino = tree[Parent[p]].ino
           /\ \A q \in Paths \ {p, Parent[p]} : tree'[q] = tree[q]
  <1>1. Parent[p] \in Paths /\ Parent[p] # p
    BY PathFacts
  <1> DEFINE e == tree[Parent[p]]
             d == [e EXCEPT !.ctime = changes + 1, !.links = e.links]
  <1>2. e \in Objects /\ tree \in Trees /\ changes + 1 \in Nat
    BY <1>1 DEF TypeInv, Trees, IsDirectory
  <1>3. d \in Objects /\ d.ctime = changes + 1 /\ d.born = e.born /\ d.kind = e.kind /\ d.ino = e.ino
    BY <1>2 DEF Objects
  <1>4. tree' = [tree EXCEPT ![p] = o, ![Parent[p]] = d]
    <2>1. tree' = [[tree EXCEPT ![p] = o] EXCEPT ![Parent[p]] = Touched(e, e.links)]
      BY DEF Put
    <2>2. Touched(e, e.links) = d
      BY DEF Touched
    <2> HIDE DEF d, e
    <2> QED
      BY <2>1, <2>2
  <1>5. d # None
    BY <1>3, Somethings
  <1> HIDE DEF d
  <1> QED
    BY <1>1, <1>2, <1>3, <1>4, <1>5 DEF Trees

LEMMA NewFacts ==
    ASSUME changes \in Nat, NEW p, NEW kind \in {"DIRECTORY", "REGULAR"}, NEW ino \in Inodes
    PROVE  LET o == New(p, kind, ino) IN
           /\ o \in Objects /\ o # None /\ o.kind = kind
           /\ o.ctime = changes + 1 /\ o.born = changes + 1
  <1>1. New(p, kind, ino) \in Objects
    BY DEF New, Objects
  <1> QED
    BY <1>1, Somethings DEF New

LEMMA SiteModifies ==
    ASSUME TypeInv, TreeInv, SiteChanges, NEW p \in Paths, Modify(p)
    PROVE  SiteFacts
  <1>1. PICK l \in {1, 2} : tree' = [tree EXCEPT ![p] = Touched(@, l)]
    BY DEF Modify
  <1> DEFINE o == Touched(tree[p], l)
  <1>2. tree[p] \in Objects /\ tree[p] # None /\ tree \in Trees /\ changes \in Nat
    BY DEF Modify, TypeInv, Trees
  <1>3. /\ o \in Objects /\ o # None /\ o.ctime = changes + 1 /\ o.born = tree[p].born
        /\ o.kind = tree[p].kind /\ o.ino = tree[p].ino
    BY <1>2, TouchedFacts, Somethings
  <1>4. tree' \in Trees /\ tree'[p] = o /\ \A q \in Paths \ {p} : tree'[q] = tree[q]
    <2> HIDE DEF o
    <2> QED BY <1>1, <1>2, <1>3 DEF Trees, o
  <1>5. \A q \in Paths : Becomes(q)
    BY <1>2, <1>3, <1>4 DEF Becomes
  <1>6. \A q \in Paths : ~Exchanged(q)
    BY <1>2, <1>3, <1>4 DEF Exchanged
  <1>7. \A q \in Paths : tree'[q] # None => /\ tree[q] # None /\ tree'[q].kind = tree[q].kind
    BY <1>2, <1>3, <1>4
  <1>8. ASSUME NEW q \in Paths, tree'[q] # None
        PROVE  tree'[q].kind \in Kinds(q) /\ (q # Root => IsDirectory(tree'[Parent[q]]))
    <2>1. tree[q] # None /\ tree[q].kind \in Kinds(q) /\ (q # Root => IsDirectory(tree[Parent[q]]))
      BY <1>7, <1>8 DEF TreeInv
    <2>2. q # Root => Parent[q] \in Paths
      BY PathFacts
    <2> QED
      BY <2>1, <2>2, <1>2, <1>3, <1>4, <1>7, <1>8 DEF IsDirectory
  <1> QED
    BY <1>4, <1>5, <1>6, <1>8 DEF SiteChanges, SiteFacts

\* A path gets another thing, or none, and its directory a new change time.
LEMMA SitePuts ==
    ASSUME TypeInv, TreeInv, SiteChanges, NEW p \in Paths \ {Root}, NEW o \in Objects \cup {None}, Put(p, o),
           IsDirectory(tree[Parent[p]]),
           o # None => o.ctime = changes + 1 /\ o.born = changes + 1 /\ o.kind \in Kinds(p),
           tree[p] # None /\ (o = None \/ tree[p].kind = "DIRECTORY") => \A q \in Below(p) : tree[q] = None
    PROVE  SiteFacts
  <1>1. Parent[p] \in Paths /\ Parent[p] # p
    BY PathFacts
  <1> DEFINE d == tree'[Parent[p]]
  <1>2. /\ tree' \in Trees /\ tree'[p] = o
        /\ d # None /\ d.ctime = changes + 1 /\ d.born = tree[Parent[p]].born
        /\ d.kind = tree[Parent[p]].kind /\ d.ino = tree[Parent[p]].ino
        /\ \A q \in Paths \ {p, Parent[p]} : tree'[q] = tree[q]
    BY PutFacts
  <1>3. tree[Parent[p]] # None /\ tree[Parent[p]].kind = "DIRECTORY" /\ changes \in Nat /\ tree \in Trees
    BY DEF IsDirectory, TypeInv
  <1>4. \A q \in Paths : Becomes(q)
    BY <1>1, <1>2, <1>3 DEF Becomes
  <1>5. \A q \in Paths : Exchanged(q) => q = p
    BY <1>1, <1>2, <1>3 DEF Exchanged
  <1>6. ASSUME NEW q \in Paths, tree'[q] # None
        PROVE  tree'[q].kind \in Kinds(q) /\ (q # Root => IsDirectory(tree'[Parent[q]]))
    <2>1. tree'[q].kind \in Kinds(q)
      BY <1>1, <1>2, <1>3, <1>6 DEF TreeInv
    <2>2. ASSUME q # Root PROVE IsDirectory(tree'[Parent[q]])
      <3>1. Parent[q] \in Paths /\ q \in Below(Parent[q])
        BY <2>2, PathFacts
      <3>2. CASE q = p
        BY <3>2, <1>2, <1>3 DEF IsDirectory
      <3>3. CASE q # p
        <4>1. tree[q] # None
          BY <3>3, <1>2, <1>3, <1>6
        <4>2. IsDirectory(tree[Parent[q]])
          BY <4>1, <2>2 DEF TreeInv
        <4>3. CASE Parent[q] = p
          <5>1. o # None
            BY <4>1, <4>2, <4>3, <3>1 DEF IsDirectory
          <5>2. tree[p].kind = "DIRECTORY" /\ tree[p] # None
            BY <4>2, <4>3 DEF IsDirectory
          <5> QED
            BY <5>1, <5>2, <4>1, <4>3, <3>1
        <4>4. CASE Parent[q] = Parent[p]
          BY <4>4, <1>2, <1>3 DEF IsDirectory
        <4>5. CASE Parent[q] \notin {p, Parent[p]}
          BY <4>5, <4>2, <3>1, <1>2
        <4> QED
          BY <4>3, <4>4, <4>5
      <3> QED
        BY <3>2, <3>3
    <2> QED
      BY <2>1, <2>2
  <1> QED
    BY <1>2, <1>4, <1>5, <1>6 DEF SiteChanges, SiteFacts

LEMMA SiteStep ==
    ASSUME TypeInv, TreeInv, SiteChanges
    PROVE  SiteFacts
  <1>1. PICK p \in Paths : Modify(p) \/ Create(p) \/ Delete(p)
    BY DEF SiteChanges
  <1>2. CASE Modify(p)
    BY <1>2, SiteModifies
  <1>3. CASE Create(p)
    <2>1. p # Root /\ IsDirectory(tree[Parent[p]])
      BY <1>3 DEF Create
    <2>2. PICK kind \in Kinds(p), ino \in Free :
              /\ tree[p] # None => tree[p].kind = "REGULAR" /\ kind = "REGULAR"
              /\ Put(p, New(p, kind, ino))
      BY <1>3 DEF Create
    <2>3. kind \in {"DIRECTORY", "REGULAR"} /\ ino \in Inodes
      BY DEF Kinds, Free
    <2> DEFINE o == New(p, kind, ino)
    <2>4. /\ o \in Objects /\ o # None /\ o.kind = kind
          /\ o.ctime = changes + 1 /\ o.born = changes + 1
      BY <2>3, NewFacts DEF TypeInv
    <2> HIDE DEF o
    <2>5. Put(p, o) /\ (tree[p] # None => tree[p].kind # "DIRECTORY")
      BY <2>2 DEF o
    <2> QED
      BY <2>1, <2>2, <2>4, <2>5, SitePuts
  <1>4. CASE Delete(p)
    BY <1>4, SitePuts DEF Delete, TreeInv
  <1> QED
    BY <1>1, <1>2, <1>3, <1>4

-----------------------------------------------------------------------------
(* What the helper may do, with rows and issues as sets.                   *)

RowFor(p, o, h) == [path |-> p, obj |-> Stat(o), hash |-> h]

NewRows(S) ==
    /\ rows' \in [1 .. 2 -> Seq(Rows)]
    /\ \A k \in 1 .. 2 : ToSet(rows'[k]) = IF k = pass THEN R(k) \cup S ELSE R(k)

NewIssues(S) ==
    /\ issues' \in [1 .. 2 -> Seq(IssueRecords)]
    /\ \A k \in 1 .. 2 : ToSet(issues'[k]) = IF k = pass THEN I(k) \cup S ELSE I(k)

\* The paths of D are looked at, and t is what is there.
Looks(D, t) ==
    /\ seen' \in [1 .. 2 -> [Paths -> Objects \cup {None, Unseen}]]
    /\ \A k \in 1 .. 2 : \A p \in Paths :
        seen'[k][p] = IF k = pass /\ p \in D /\ (pass = 2 \/ seen[k][p] = Unseen)
                      THEN t[p] ELSE seen[k][p]

LEMMA Added ==
    ASSUME TypeInv, NEW p \in Paths, NEW o \in Objects, NEW h \in Nat \cup {None}, AddRow(p, o, h)
    PROVE  NewRows({RowFor(p, o, h)})
  <1> DEFINE r == RowFor(p, o, h)
  <1>1. r \in Rows
    BY DEF RowFor, Rows, Stat, Objects
  <1>2. rows' = [rows EXCEPT ![pass] = Append(@, r)]
    BY DEF AddRow, RowFor
  <1>3. rows \in [1 .. 2 -> Seq(Rows)] /\ pass \in 1 .. 2
    BY DEF TypeInv
  <1> HIDE DEF r
  <1>4. ToSet(Append(rows[pass], r)) = R(pass) \cup {r}
    BY <1>1, <1>3, SetOfAppend DEF R
  <1>5. /\ rows' \in [1 .. 2 -> Seq(Rows)] /\ rows'[pass] = Append(rows[pass], r)
        /\ \A k \in 1 .. 2 \ {pass} : rows'[k] = rows[k]
    BY <1>1, <1>2, <1>3
  <1> QED
    BY <1>3, <1>4, <1>5 DEF NewRows, R, r

LEMMA NoneAdded ==
    ASSUME TypeInv, rows' = rows
    PROVE  NewRows({})
  BY DEF TypeInv, NewRows, R

LEMMA Reported ==
    ASSUME TypeInv, NEW new \in Seq(IssueRecords), Report(new)
    PROVE  NewIssues(ToSet(new))
  <1>1. issues' = [issues EXCEPT ![pass] = @ \o new]
    BY DEF Report
  <1>2. issues \in [1 .. 2 -> Seq(IssueRecords)] /\ pass \in 1 .. 2
    BY DEF TypeInv
  <1>3. ToSet(issues[pass] \o new) = I(pass) \cup ToSet(new) /\ issues[pass] \o new \in Seq(IssueRecords)
    BY <1>2, SetOfConcat DEF I
  <1> QED
    BY <1>1, <1>2, <1>3 DEF NewIssues, I

LEMMA NoneReported ==
    ASSUME TypeInv, issues' = issues
    PROVE  NewIssues({})
  BY DEF TypeInv, NewIssues, I

LEMMA Looked ==
    ASSUME TypeInv, NEW at, \A p \in DOMAIN at : at[p] \in Objects \cup {None}, Look(at)
    PROVE  Looks(DOMAIN at, at)
  <1> DEFINE f == [p \in Paths |-> IF p \in DOMAIN at /\ (pass = 2 \/ seen[pass][p] = Unseen)
                         THEN at[p] ELSE seen[pass][p]]
  <1>1. seen' = [seen EXCEPT ![pass] = f]
    BY DEF Look
  <1>2. seen \in [1 .. 2 -> [Paths -> Objects \cup {None, Unseen}]] /\ pass \in 1 .. 2
    BY DEF TypeInv
  <1>3. f \in [Paths -> Objects \cup {None, Unseen}]
    BY <1>2
  <1>4. \A p \in Paths : f[p] = IF p \in DOMAIN at /\ (pass = 2 \/ seen[pass][p] = Unseen)
                         THEN at[p] ELSE seen[pass][p]
    OBVIOUS
  <1> HIDE DEF f
  <1>5. seen' \in [1 .. 2 -> [Paths -> Objects \cup {None, Unseen}]]
    BY <1>1, <1>2, <1>3
  <1>6. seen'[pass] = f /\ \A k \in 1 .. 2 \ {pass} : seen'[k] = seen[k]
    BY <1>1, <1>2
  <1> QED
    BY <1>2, <1>4, <1>5, <1>6 DEF Looks

LEMMA NotLooked ==
    ASSUME TypeInv, seen' = seen, NEW t
    PROVE  Looks({}, t)
  BY DEF TypeInv, Looks

\* What t has where is what the look is about.
LEMMA LooksSame ==
    ASSUME NEW D, NEW t, NEW u, Looks(D, t), \A p \in D : t[p] = u[p]
    PROVE  Looks(D, u)
  BY DEF Looks

-----------------------------------------------------------------------------
(* The steps of the helper, by what they do to these sets.                 *)

Nothing == [p \in Paths |-> None]

LooksAt(p) == IF Found(p) = None THEN Looks({p}, Nothing) ELSE Looks({p}, tree)

There(d) == {p \in Below(d) : tree[p] # None}

RootOpened ==
    /\ step = "root" /\ step' = "list" /\ UNCHANGED <<pass, entry, failures>>
    /\ between' = IF pass = 2 THEN tree ELSE between
    /\ stack' = <<[dir |-> Root, obj |-> tree[Root], names |-> {}, left |-> {}]>>
    /\ NewRows({RowFor(Root, tree[Root], None)}) /\ NewIssues({}) /\ Looks({Root}, tree)

Listed ==
    /\ step = "list" /\ step' = "child" /\ UNCHANGED <<pass, entry, between, failures>>
    /\ ~Gone(Top.obj, Top.dir)
    /\ stack' = [stack EXCEPT ![Len(stack)] =
            [dir |-> Top.dir, obj |-> Top.obj, names |-> There(Top.dir), left |-> There(Top.dir)]]
    /\ NewRows({}) /\ NewIssues({}) /\ Looks(Below(Top.dir) \ There(Top.dir), tree)

Left ==
    /\ step \in {"list", "child"} /\ (step = "child" => Top.left = {}) /\ UNCHANGED <<pass, between>>
    /\ stack' = Front(stack)
    /\ IF Top.dir = Root THEN step' = "rootEnd" /\ entry' = None
       ELSE step' = "final" /\ entry' = [path |-> Top.dir, obj |-> Top.obj, hash |-> None]
    /\ NewRows({})
    /\ \/ /\ failures' = failures + 1 \/ (failures' = failures /\ Gone(Top.obj, Top.dir))
          /\ NewIssues({Issue("DIRECTORY_READ_UNRESOLVED", Top.dir, "getdents")}) /\ Looks({}, tree)
       \/ /\ step = "child" /\ ~Gone(Top.obj, Top.dir) /\ UNCHANGED failures
          /\ NewIssues(IF There(Top.dir) # Top.names
                       THEN {Issue("DIRECTORY_IDENTITY_RACE", Top.dir, "changed")} ELSE {})
          /\ Looks(Below(Top.dir) \ Top.names, tree)

StattedSome(p) ==
    /\ step = "child" /\ p \in Top.left /\ UNCHANGED <<pass, between>>
    /\ stack' = [stack EXCEPT ![Len(stack)] =
            [dir |-> Top.dir, obj |-> Top.obj, names |-> Top.names, left |-> Top.left \ {p}]]
    /\ NewRows({})
    /\ \/ /\ step' = step /\ entry' = entry /\ NewIssues({Issue("ENTRY_STAT_UNRESOLVED", p, "stat")})
          /\ \/ failures' = failures + 1 /\ Looks({}, tree)
             \/ UNCHANGED failures /\ Found(p) = None /\ LooksAt(p)
       \/ /\ UNCHANGED failures /\ Found(p) # None /\ LooksAt(p)
          /\ step' = "open" /\ entry' = [path |-> p, obj |-> tree[p], hash |-> None] /\ NewIssues({})

\* The stat did not fail for no reason of the tree.
StatSeen(p) == StattedSome(p) /\ LooksAt(p) /\ (Found(p) # None => step' = "open")

Statted == \E p \in Top.left : StattedSome(p)

Refused ==
    /\ step = "open" /\ entry.obj.kind = "DIRECTORY"
    /\ step' = "child" /\ entry' = None /\ UNCHANGED <<pass, between, stack>>
    /\ NewRows({})
    /\ \/ /\ failures' = failures + 1
          /\ NewIssues({Issue("DIRECTORY_OPEN_UNRESOLVED", entry.path, "open")}) /\ Looks({}, tree)
       \/ /\ ~(IsDirectory(Found(entry.path)) /\ SameStat(tree[entry.path], entry.obj))
          /\ UNCHANGED failures /\ LooksAt(entry.path)
          /\ NewIssues({Issue(IF IsDirectory(Found(entry.path)) THEN "DIRECTORY_IDENTITY_RACE"
                              ELSE "DIRECTORY_OPEN_UNRESOLVED", entry.path, "open")})

Entered ==
    /\ step = "open" /\ entry.obj.kind = "DIRECTORY"
    /\ Found(entry.path) # None /\ SameStat(tree[entry.path], entry.obj)
    /\ step' = "list" /\ entry' = None /\ UNCHANGED <<pass, between, failures>>
    /\ stack' = Append(stack, [dir |-> entry.path, obj |-> entry.obj, names |-> {}, left |-> {}])
    /\ NewRows({RowFor(entry.path, entry.obj, None)}) /\ NewIssues({}) /\ Looks({}, tree)

FileReasons == {"FILE_OPEN_UNRESOLVED", "FILE_IDENTITY_RACE", "FILE_READ_UNRESOLVED",
                "FILE_GROWTH_RACE", "HARDLINK_UNRESOLVED"}

AsOpened == Found(entry.path) # None /\ SameStat(tree[entry.path], entry.obj)

FileRowed ==
    /\ step \in {"open", "read", "hashed"} /\ entry.obj.kind = "REGULAR"
    /\ step' = "final" /\ UNCHANGED <<pass, between, stack, entry>> /\ Looks({}, tree)
    /\ \E h \in Nat \cup {None}, J \in SUBSET IssueRecords :
        /\ NewRows({RowFor(entry.path, entry.obj, h)}) /\ NewIssues(J)
        /\ \A j \in J : j.path = entry.path /\ j.reason \in FileReasons
        /\ \/ failures' = failures + 1 /\ h = None
           \/ failures' = failures /\ ~AsOpened /\ h = None
           \/ failures' = failures /\ AsOpened /\ h = entry.hash /\ step = "hashed"

FileOpened ==
    /\ step = "open" /\ entry.obj.kind = "REGULAR" /\ AsOpened
    /\ step' = "read" /\ UNCHANGED <<pass, between, stack, entry, failures>>
    /\ NewRows({}) /\ NewIssues({}) /\ Looks({}, tree)

FileRead ==
    /\ step = "read" /\ step' = "hashed" /\ UNCHANGED <<pass, between, stack, failures>>
    /\ \E h \in Nat :
        /\ entry' = [path |-> entry.path, obj |-> entry.obj, hash |-> h]
        /\ h = entry.obj.ctime \/ (tree[entry.path] # None /\ h = tree[entry.path].ctime)
    /\ NewRows({}) /\ NewIssues({}) /\ Looks({}, tree)

Finished ==
    /\ step = "final" /\ step' = "child" /\ entry' = None /\ UNCHANGED <<pass, between, stack, failures>>
    /\ NewRows({}) /\ LooksAt(entry.path)
    /\ NewIssues(IF Found(entry.path) = None
                 THEN {Issue("ENTRY_FINAL_RACE", entry.path, "stat")}
                 ELSE IF ~SameStat(tree[entry.path], entry.obj)
                 THEN {Issue("ENTRY_IDENTITY_RACE", entry.path, "changed")} ELSE {})

PassEnded ==
    /\ step = "rootEnd" /\ UNCHANGED <<between, stack, entry, failures>>
    /\ IF pass = 1 THEN pass' = 2 /\ step' = "root" ELSE pass' = pass /\ step' = "done"
    /\ NewRows({}) /\ Looks({Root}, tree)
    /\ NewIssues(IF RootRow # Stat(tree[Root])
                 THEN {Issue("ROOT_IDENTITY_RACE", Root, "changed")} ELSE {})

Steady == UNCHANGED site

WalkFacts ==
    /\ Steady
    /\ \/ RootOpened \/ Listed \/ Left \/ Statted \/ Refused \/ Entered
       \/ FileRowed \/ FileOpened \/ FileRead \/ Finished \/ PassEnded

LEMMA Words ==
    /\ {"DIRECTORY_IDENTITY_RACE", "DIRECTORY_OPEN_UNRESOLVED", "DIRECTORY_READ_UNRESOLVED",
        "ENTRY_FINAL_RACE", "ENTRY_IDENTITY_RACE", "ENTRY_STAT_UNRESOLVED",
        "FILE_GROWTH_RACE", "FILE_IDENTITY_RACE", "FILE_OPEN_UNRESOLVED",
        "FILE_READ_UNRESOLVED", "HARDLINK_UNRESOLVED", "ROOT_IDENTITY_RACE"} = ToSet(Reasons)
    /\ {"growth", "open", "read", "getdents", "stat", "changed", "nlink"} = ToSet(Details)
  <1>1. DOMAIN Details = 1 .. 7 /\ DOMAIN Reasons = 1 .. 12
    BY DEF Details, Reasons
  <1>2. {"growth", "open", "read", "getdents", "stat", "changed", "nlink"} = ToSet(Details)
    <2>1. ToSet(Details) = {Details[1], Details[2], Details[3], Details[4], Details[5], Details[6], Details[7]}
      <3> HIDE DEF Details
      <3> QED
        BY <1>1 DEF ToSet
    <2> QED
      BY <2>1 DEF Details
  <1>3. {"DIRECTORY_IDENTITY_RACE", "DIRECTORY_OPEN_UNRESOLVED", "DIRECTORY_READ_UNRESOLVED",
         "ENTRY_FINAL_RACE", "ENTRY_IDENTITY_RACE", "ENTRY_STAT_UNRESOLVED",
         "FILE_GROWTH_RACE", "FILE_IDENTITY_RACE", "FILE_OPEN_UNRESOLVED",
         "FILE_READ_UNRESOLVED", "HARDLINK_UNRESOLVED", "ROOT_IDENTITY_RACE"} = ToSet(Reasons)
    <2>1. ToSet(Reasons) = {Reasons[1], Reasons[2], Reasons[3], Reasons[4], Reasons[5], Reasons[6],
                            Reasons[7], Reasons[8], Reasons[9], Reasons[10], Reasons[11], Reasons[12]}
      BY <1>1 DEF ToSet
    <2> QED
      BY <2>1 DEF Reasons
  <1> QED
    BY <1>2, <1>3

LEMMA IssueIs ==
    ASSUME NEW r \in ToSet(Reasons), NEW p \in Paths, NEW d \in ToSet(Details)
    PROVE  Issue(r, p, d) \in IssueRecords /\ Issue(r, p, d).path = p
           /\ Issue(r, p, d).reason = r /\ Issue(r, p, d).detail = d
  BY DEF Issue, IssueRecords

LEMMA ReportedNone ==
    ASSUME TypeInv, Report(<<>>)
    PROVE  NewIssues({})
  BY SetOfShort, Reported

LEMMA ReportedOne ==
    ASSUME TypeInv, NEW j \in IssueRecords, Report(<<j>>)
    PROVE  NewIssues({j})
  <1>1. <<j>> \in Seq(IssueRecords) /\ ToSet(<<j>>) = {j}
    BY SetOfShort
  <1> QED
    BY <1>1, Reported

LEMMA ReportedAs ==
    ASSUME TypeInv, NEW r \in ToSet(Reasons), NEW p \in Paths, NEW d \in ToSet(Details), Report(<<Issue(r, p, d)>>)
    PROVE  NewIssues({Issue(r, p, d)})
  <1>1. Issue(r, p, d) \in IssueRecords
    BY IssueIs
  <1> QED
    BY <1>1, ReportedOne

LEMMA TopIs ==
    ASSUME TypeInv, stack # <<>>
    PROVE  /\ Len(stack) \in Nat \ {0} /\ Len(stack) \in DOMAIN stack
           /\ Top = stack[Len(stack)] /\ Top \in Frames
           /\ Top.dir \in Paths /\ Top.obj \in Objects /\ Top.names \subseteq Paths /\ Top.left \subseteq Paths
  <1>1. stack \in Seq(Frames) /\ Top = stack[Len(stack)]
    BY DEF TypeInv, Top, Last
  <1>2. Top \in Frames /\ Len(stack) \in Nat \ {0} /\ Len(stack) \in DOMAIN stack
    BY <1>1
  <1> QED
    BY <1>1, <1>2 DEF Frames

LEMMA FoundIs ==
    ASSUME TypeInv, NEW p \in Paths
    PROVE  /\ Found(p) \in Objects \cup {None}
           /\ Found(p) # None => Found(p) = tree[p]
           /\ ~Gone(Top.obj, Top.dir) => Found(p) = tree[p]
  BY DEF TypeInv, Found, Trees, Gone

LEMMA NamesAre ==
    ASSUME TypeInv, stack # <<>>, ~Gone(Top.obj, Top.dir)
    PROVE  Names = There(Top.dir)
  <1>1. \A p \in Below(Top.dir) : Found(p) = tree[p]
    BY TopIs, PathFacts, FoundIs
  <1> QED
    BY <1>1 DEF Names, There

LEMMA FrontIs ==
    ASSUME TypeInv, stack # <<>>
    PROVE  /\ Front(stack) \in Seq(Frames) /\ Len(Front(stack)) = Len(stack) - 1
           /\ \A n \in 1 .. Len(stack) - 1 : Front(stack)[n] = stack[n]
  <1>1. stack \in Seq(Frames) /\ Len(stack) \in Nat \ {0}
    BY TopIs DEF TypeInv
  <1> DEFINE m == Len(stack) - 1
  <1>2. Front(stack) = SubSeq(stack, 1, m) /\ m \in Nat /\ m <= Len(stack)
    BY <1>1 DEF Front
  <1>3. \A n \in 1 .. m : stack[n] \in Frames
    BY <1>1, <1>2
  <1>4. /\ SubSeq(stack, 1, m) \in Seq(Frames)
        /\ Len(SubSeq(stack, 1, m)) = IF 1 <= m THEN m - 1 + 1 ELSE 0
        /\ \A n \in 1 .. m - 1 + 1 : SubSeq(stack, 1, m)[n] = stack[1 + n - 1]
    <2>1. 1 \in Int /\ m \in Int
      BY <1>2
    <2> HIDE DEF m
    <2> QED
      BY <2>1, <1>3, SubSeqProperties
  <1> HIDE DEF m
  <1>5. Front(stack) \in Seq(Frames) /\ Len(Front(stack)) = m /\ \A n \in 1 .. m : Front(stack)[n] = stack[n]
    BY <1>2, <1>4
  <1> QED
    BY <1>5 DEF m

LEMMA LookedAt ==
    ASSUME TypeInv, NEW p \in Paths, Look([q \in {p} |-> Found(p)])
    PROVE  LooksAt(p)
  <1> DEFINE at == [q \in {p} |-> Found(p)]
  <1>1. \A q \in DOMAIN at : at[q] \in Objects \cup {None}
    BY FoundIs
  <1>2. DOMAIN at = {p} /\ at[p] = Found(p)
    OBVIOUS
  <1>3. Look(at)
    OBVIOUS
  <1> HIDE DEF at
  <1>4. Looks({p}, at)
    BY <1>1, <1>2, <1>3, Looked
  <1>5. CASE Found(p) = None
    <2>1. \A q \in {p} : at[q] = Nothing[q]
      BY <1>2, <1>5 DEF Nothing
    <2> QED
      BY <2>1, <1>4, <1>5, LooksSame DEF LooksAt
  <1>6. CASE Found(p) # None
    <2>1. \A q \in {p} : at[q] = tree[q]
      BY <1>2, <1>6, FoundIs
    <2> QED
      BY <2>1, <1>4, <1>6, LooksSame DEF LooksAt
  <1> QED
    BY <1>5, <1>6

LEMMA LookedOver ==
    ASSUME TypeInv, NEW D \in SUBSET Paths, Look([q \in D |-> tree[q]])
    PROVE  Looks(D, tree)
  <1> DEFINE at == [q \in D |-> tree[q]]
  <1>1. \A q \in DOMAIN at : at[q] \in Objects \cup {None}
    BY DEF TypeInv, Trees
  <1>2. DOMAIN at = D /\ \A q \in D : at[q] = tree[q]
    OBVIOUS
  <1>3. Look(at)
    OBVIOUS
  <1> HIDE DEF at
  <1>4. Looks(D, at)
    BY <1>1, <1>2, <1>3, Looked
  <1> QED
    BY <1>2, <1>4, LooksSame

LEMMA OpenRootIs ==
    ASSUME TypeInv, TreeInv, OpenRoot
    PROVE  RootOpened
  <1>1. Root \in Paths /\ tree[Root] \in Objects
    BY PathFacts DEF TypeInv, TreeInv, Trees
  <1>2. NewRows({RowFor(Root, tree[Root], None)})
    BY <1>1, Added DEF OpenRoot
  <1>3. NewIssues({})
    BY NoneReported DEF OpenRoot
  <1>4. Looks({Root}, tree)
    <2>1. {Root} \in SUBSET Paths
      BY <1>1
    <2> QED
      BY <2>1, LookedOver DEF OpenRoot
  <1> QED
    BY <1>2, <1>3, <1>4 DEF OpenRoot, RootOpened

LEMMA ListIs ==
    ASSUME TypeInv, WalkInv, List
    PROVE  Listed \/ Left
  <1>1. step = "list" /\ stack # <<>> /\ UNCHANGED <<pass, between>> /\ NewRows({})
    BY NoneAdded DEF List, WalkInv, PlaceInv
  <1>2. CASE (Fails \/ (GoesThrough /\ Gone(Top.obj, Top.dir)))
             /\ Report(<<Issue("DIRECTORY_READ_UNRESOLVED", Top.dir, "getdents")>>) /\ Leave /\ UNCHANGED seen
    <2>1. NewIssues({Issue("DIRECTORY_READ_UNRESOLVED", Top.dir, "getdents")})
      <3>1. Top.dir \in Paths
        BY <1>1, TopIs
      <3>2. Report(<<Issue("DIRECTORY_READ_UNRESOLVED", Top.dir, "getdents")>>)
        BY <1>2
      <3>3. "DIRECTORY_READ_UNRESOLVED" \in ToSet(Reasons) /\ "getdents" \in ToSet(Details)
        BY Words
      <3> QED
        BY <3>1, <3>2, <3>3, ReportedAs
    <2>2. Looks({}, tree)
      BY <1>2, NotLooked
    <2>3. failures' = failures + 1 \/ (failures' = failures /\ Gone(Top.obj, Top.dir))
      BY <1>2 DEF Fails, GoesThrough
    <2>4. /\ stack' = Front(stack)
          /\ IF Top.dir = Root THEN step' = "rootEnd" /\ entry' = None
             ELSE step' = "final" /\ entry' = [path |-> Top.dir, obj |-> Top.obj, hash |-> None]
      BY <1>2 DEF Leave
    <2> QED
      BY <1>1, <2>1, <2>2, <2>3, <2>4 DEF Left
  <1>3. CASE /\ GoesThrough /\ ~Gone(Top.obj, Top.dir)
             /\ stack' = [stack EXCEPT ![Len(stack)].names = Names, ![Len(stack)].left = Names]
             /\ step' = "child" /\ Look([p \in Below(Top.dir) \ Names |-> None])
             /\ UNCHANGED <<entry, issues>>
    <2>1. Names = There(Top.dir)
      BY <1>1, <1>3, NamesAre
    <2> DEFINE D == Below(Top.dir) \ There(Top.dir)
               at == [p \in D |-> None]
    <2>2. D \subseteq Paths /\ \A p \in D : tree[p] = None
      BY <1>1, TopIs, PathFacts DEF There
    <2>3. DOMAIN at = D /\ Look(at) /\ \A p \in D : at[p] = None
      BY <1>3, <2>1
    <2>4. Looks(D, tree)
      <3> HIDE DEF D, at
      <3>1. Looks(D, at)
        BY <2>3, Looked
      <3> QED
        BY <2>2, <2>3, <3>1, LooksSame
    <2>5. NewIssues({})
      BY <1>3, NoneReported
    <2> DEFINE n == Len(stack)
               N == There(Top.dir)
               f == [stack[n] EXCEPT !.names = N]
               g == [dir |-> Top.dir, obj |-> Top.obj, names |-> N, left |-> N]
    <2>6. stack' = [stack EXCEPT ![n] = g]
      <3>1. n \in DOMAIN stack /\ Top = stack[n] /\ stack[n] \in Frames /\ stack \in Seq(Frames)
        BY <1>1, TopIs DEF TypeInv
      <3>2. stack' = [[stack EXCEPT ![n] = f] EXCEPT ![n] = [f EXCEPT !.left = N]]
        <4> HIDE DEF N, n
        <4>1. stack' = [[stack EXCEPT ![n].names = N] EXCEPT ![n].left = N]
          BY <1>3, <2>1 DEF N, n
        <4>2. [stack EXCEPT ![n].names = N] = [stack EXCEPT ![n] = f]
          BY <3>1
        <4>3. [stack EXCEPT ![n] = f][n] = f
          BY <3>1
        <4> HIDE DEF f
        <4> QED
          BY <4>1, <4>2, <4>3
      <3>3. [f EXCEPT !.left = N] = g
        <4> HIDE DEF N
        <4>1. f = [dir |-> Top.dir, obj |-> Top.obj, names |-> N, left |-> Top.left]
          BY <3>1 DEF Frames
        <4> HIDE DEF f
        <4> QED
          BY <4>1
      <3> HIDE DEF f, g, N, n
      <3> QED
        BY <3>1, <3>2, <3>3
    <2> QED
      BY <1>1, <1>3, <2>4, <2>5, <2>6 DEF Listed, GoesThrough
  <1> QED
    BY <1>2, <1>3 DEF List

-----------------------------------------------------------------------------
(* Orders.                                                                 *)

\* Any set of natural numbers that has one has a least element.
LEMMA Least ==
    ASSUME NEW T \in SUBSET Nat, T # {}
    PROVE  \E x \in T : \A y \in T : x <= y
  <1> DEFINE Below0 == {ss \in Nat \X Nat : ss[1] < ss[2]}
  <1>1. Below0 = OpToRel(<, Nat)
    BY DEF OpToRel
  <1>2. IsWellFoundedOn(Below0, Nat)
    BY <1>1, NatLessThanWellFounded
  <1>3. PICK x \in T : \A y \in T : ~(<<y, x>> \in Below0)
    <2> HIDE DEF Below0
    <2> QED
      BY <1>2, WFMin
  <1>4. x \in Nat /\ \A y \in T : y \in Nat /\ ~(y < x)
    BY <1>3
  <1> QED
    BY <1>4

LEMMA PositionIs ==
    ASSUME NEW p \in Paths
    PROVE  Position(p) \in DOMAIN Order /\ Position(p) \in Nat /\ Position(p) > 0 /\ Order[Position(p)] = p
  <1>1. \E i \in DOMAIN Order : Order[i] = p
    BY DEF Paths
  <1>2. Position(p) \in DOMAIN Order /\ Order[Position(p)] = p
    BY <1>1 DEF Position
  <1>3. DOMAIN Order = 1 .. Len(Order)
    BY TreeAssumption
  <1> QED
    BY <1>2, <1>3, TreeAssumption

LEMMA Lowest ==
    ASSUME NEW S \in SUBSET Paths, S # {}
    PROVE  \E p \in S : \A q \in S : Position(p) <= Position(q)
  <1> DEFINE T == {Position(p) : p \in S}
  <1>1. T \in SUBSET Nat /\ T # {}
    BY PositionIs
  <1>2. PICK n \in T : \A m \in T : n <= m
    <2> HIDE DEF T
    <2> QED
      BY <1>1, Least
  <1> QED
    BY <1>2

LEMMA Reframed ==
    ASSUME NEW f \in Frames, NEW L
    PROVE  [f EXCEPT !.left = L] = [dir |-> f.dir, obj |-> f.obj, names |-> f.names, left |-> L]
  BY DEF Frames

LEMMA StatChildIs ==
    ASSUME TypeInv, WalkInv, StatChild
    PROVE  Statted
  <1> DEFINE p == CHOOSE q \in Top.left : \A r \in Top.left : Position(q) <= Position(r)
  <1>1. step = "child" /\ stack # <<>> /\ UNCHANGED <<pass, between>> /\ NewRows({})
    BY NoneAdded DEF StatChild, WalkInv, PlaceInv
  <1>2. p \in Top.left
    <2>1. Top.left \in SUBSET Paths /\ Top.left # {}
      BY <1>1, TopIs DEF StatChild
    <2> QED
      BY <2>1, Lowest
  <1>3. /\ stack' = [stack EXCEPT ![Len(stack)].left = @ \ {p}]
        /\ \/ /\ Report(<<Issue("ENTRY_STAT_UNRESOLVED", p, "stat")>>) /\ UNCHANGED <<step, entry>>
              /\ \/ failures' = failures + 1 /\ UNCHANGED seen
                 \/ UNCHANGED failures /\ Found(p) = None /\ Look([q \in {p} |-> None])
           \/ /\ UNCHANGED failures /\ Found(p) # None /\ Look([q \in {p} |-> Found(p)])
              /\ entry' = [path |-> p, obj |-> Found(p), hash |-> None] /\ step' = "open"
              /\ UNCHANGED issues
    BY DEF StatChild, Fails, GoesThrough
  <1> HIDE DEF p
  <1>4. p \in Paths
    BY <1>1, <1>2, TopIs
  <1>5. stack' = [stack EXCEPT ![Len(stack)] =
            [dir |-> Top.dir, obj |-> Top.obj, names |-> Top.names, left |-> Top.left \ {p}]]
    <2>1. Len(stack) \in DOMAIN stack /\ Top = stack[Len(stack)] /\ Top \in Frames
      BY <1>1, TopIs
    <2>2. stack' = [stack EXCEPT ![Len(stack)] = [Top EXCEPT !.left = Top.left \ {p}]]
      BY <1>3, <2>1
    <2>3. [Top EXCEPT !.left = Top.left \ {p}] =
            [dir |-> Top.dir, obj |-> Top.obj, names |-> Top.names, left |-> Top.left \ {p}]
      BY <2>1, Reframed
    <2> QED
      BY <2>2, <2>3
  <1>6. CASE Report(<<Issue("ENTRY_STAT_UNRESOLVED", p, "stat")>>) /\ UNCHANGED <<step, entry>>
    <2>1. "ENTRY_STAT_UNRESOLVED" \in ToSet(Reasons) /\ "stat" \in ToSet(Details)
      BY Words
    <2>2. NewIssues({Issue("ENTRY_STAT_UNRESOLVED", p, "stat")})
      BY <1>4, <1>6, <2>1, ReportedAs
    <2>3. CASE failures' = failures + 1 /\ UNCHANGED seen
      <3>1. Looks({}, tree)
        BY <2>3, NotLooked
      <3> QED
        BY <1>1, <1>2, <1>5, <1>6, <2>2, <2>3, <3>1 DEF Statted, StattedSome
    <2>4. CASE UNCHANGED failures /\ Found(p) = None /\ Look([q \in {p} |-> None])
      <3>1. Look([q \in {p} |-> Found(q)])
        BY <2>4
      <3>2. LooksAt(p)
        BY <1>4, <3>1, LookedAt
      <3> QED
        BY <1>1, <1>2, <1>5, <1>6, <2>2, <2>4, <3>2 DEF Statted, StattedSome
    <2>5. step # "open"
      BY <1>1
    <2> QED
      BY <1>3, <1>6, <2>3, <2>4, <2>5
  <1>7. CASE /\ UNCHANGED failures /\ Found(p) # None /\ Look([q \in {p} |-> Found(p)])
             /\ entry' = [path |-> p, obj |-> Found(p), hash |-> None] /\ step' = "open"
             /\ UNCHANGED issues
    <2>1. NewIssues({}) /\ Found(p) = tree[p]
      BY <1>4, <1>7, NoneReported, FoundIs
    <2>2. Look([q \in {p} |-> Found(q)])
      BY <1>7
    <2>3. LooksAt(p)
      BY <1>4, <2>2, LookedAt
    <2> QED
      BY <1>1, <1>2, <1>5, <1>7, <2>1, <2>3 DEF Statted, StattedSome
  <1> QED
    BY <1>3, <1>6, <1>7

LEMMA EntryIs ==
    ASSUME TypeInv, WalkInv, InWork
    PROVE  /\ entry \in Entries /\ entry.path \in Paths /\ entry.obj \in Objects /\ entry.hash \in Nat \cup {None}
           /\ entry = [path |-> entry.path, obj |-> entry.obj, hash |-> entry.hash]
  BY DEF TypeInv, WalkInv, PlaceInv, Entries

LEMMA OpenDirectoryIs ==
    ASSUME TypeInv, WalkInv, OpenDirectory
    PROVE  Refused \/ Entered
  <1> DEFINE p == entry.path
             o == Found(p)
             same == IsDirectory(o) /\ SameStat(o, entry.obj)
             Declined(reason) == Report(<<Issue(reason, p, "open")>>) /\ step' = "child" /\ UNCHANGED <<stack, rows>>
  <1>1. /\ step = "open" /\ entry.obj.kind = "DIRECTORY" /\ entry' = None /\ UNCHANGED <<pass, between>>
        /\ \/ Fails /\ Declined("DIRECTORY_OPEN_UNRESOLVED") /\ UNCHANGED seen
           \/ /\ GoesThrough /\ ~same /\ Look([q \in {p} |-> o])
              /\ Declined(IF IsDirectory(o) THEN "DIRECTORY_IDENTITY_RACE" ELSE "DIRECTORY_OPEN_UNRESOLVED")
           \/ /\ GoesThrough /\ same
              /\ stack' = Append(stack, [dir |-> p, obj |-> entry.obj, names |-> {}, left |-> {}])
              /\ AddRow(p, entry.obj, None)
              /\ step' = "list" /\ UNCHANGED <<issues, seen>>
    BY DEF OpenDirectory, Refuse
  <1>2. p \in Paths /\ entry.obj \in Objects
    BY <1>1, EntryIs DEF InWork
  <1>3. /\ "DIRECTORY_OPEN_UNRESOLVED" \in ToSet(Reasons) /\ "DIRECTORY_IDENTITY_RACE" \in ToSet(Reasons)
        /\ "open" \in ToSet(Details)
    BY Words
  <1>4. ASSUME NEW reason \in ToSet(Reasons), Declined(reason)
        PROVE  NewRows({}) /\ NewIssues({Issue(reason, p, "open")})
    <2>1. Report(<<Issue(reason, p, "open")>>) /\ UNCHANGED rows
      BY <1>4
    <2> QED
      BY <1>2, <1>3, <2>1, NoneAdded, ReportedAs
  <1>5. CASE Fails /\ Declined("DIRECTORY_OPEN_UNRESOLVED") /\ UNCHANGED seen
    <2>1. NewRows({}) /\ NewIssues({Issue("DIRECTORY_OPEN_UNRESOLVED", p, "open")})
      BY <1>3, <1>4, <1>5
    <2>2. Looks({}, tree)
      BY <1>5, NotLooked
    <2> QED
      BY <1>1, <1>5, <2>1, <2>2 DEF Refused, Fails
  <1>6. CASE /\ GoesThrough /\ ~same /\ Look([q \in {p} |-> o])
             /\ Declined(IF IsDirectory(o) THEN "DIRECTORY_IDENTITY_RACE" ELSE "DIRECTORY_OPEN_UNRESOLVED")
    <2> DEFINE reason == IF IsDirectory(o) THEN "DIRECTORY_IDENTITY_RACE" ELSE "DIRECTORY_OPEN_UNRESOLVED"
    <2>1. NewRows({}) /\ NewIssues({Issue(reason, p, "open")})
      BY <1>3, <1>4, <1>6
    <2>2. Look([q \in {p} |-> Found(q)])
      BY <1>6
    <2>3. LooksAt(p)
      BY <1>2, <2>2, LookedAt
    <2>4. ~(IsDirectory(o) /\ SameStat(tree[p], entry.obj))
      <3>1. IsDirectory(o) => o = tree[p]
        BY <1>2, FoundIs DEF IsDirectory
      <3> QED
        BY <3>1, <1>6
    <2>5. step' = "child" /\ UNCHANGED stack /\ UNCHANGED failures
      BY <1>6 DEF GoesThrough
    <2> QED
      BY <1>1, <2>1, <2>3, <2>4, <2>5 DEF Refused
  <1>7. CASE /\ GoesThrough /\ same
             /\ stack' = Append(stack, [dir |-> p, obj |-> entry.obj, names |-> {}, left |-> {}])
             /\ AddRow(p, entry.obj, None)
             /\ step' = "list" /\ UNCHANGED <<issues, seen>>
    <2>1. NewRows({RowFor(p, entry.obj, None)}) /\ NewIssues({}) /\ Looks({}, tree)
      BY <1>2, <1>7, Added, NoneReported, NotLooked
    <2>2. Found(p) # None /\ SameStat(tree[p], entry.obj)
      <3>1. o # None /\ o = tree[p]
        BY <1>2, <1>7, FoundIs DEF IsDirectory
      <3> QED
        BY <3>1, <1>7
    <2> QED
      BY <1>1, <1>7, <2>1, <2>2 DEF Entered, GoesThrough
  <1> QED
    BY <1>1, <1>5, <1>6, <1>7

LEMMA HardlinkIs ==
    ASSUME TypeInv, WalkInv, InWork
    PROVE  /\ Hardlink \in Seq(IssueRecords)
           /\ \A j \in ToSet(Hardlink) : j \in IssueRecords /\ j.path = entry.path /\ j.reason \in FileReasons
  <1> DEFINE j == Issue("HARDLINK_UNRESOLVED", entry.path, "nlink")
  <1>1. "HARDLINK_UNRESOLVED" \in ToSet(Reasons) /\ "nlink" \in ToSet(Details)
    BY Words
  <1>2. j \in IssueRecords /\ j.path = entry.path /\ j.reason \in FileReasons
    <2>1. j \in IssueRecords /\ j.path = entry.path /\ j.reason = "HARDLINK_UNRESOLVED"
      BY <1>1, EntryIs, IssueIs
    <2> QED
      BY <2>1 DEF FileReasons
  <1>3. Hardlink = <<j>> \/ Hardlink = <<>>
    BY DEF Hardlink
  <1> HIDE DEF j
  <1>4. ToSet(<<j>>) = {j} /\ ToSet(<<>>) = {} /\ <<j>> \in Seq(IssueRecords) /\ <<>> \in Seq(IssueRecords)
    BY <1>2, SetOfShort
  <1> QED
    BY <1>2, <1>3, <1>4

\* The issues of a file.
FileIssues(J) ==
    /\ J \subseteq IssueRecords /\ NewIssues(J)
    /\ \A j \in J : j.path = entry.path /\ j.reason \in FileReasons

LEMMA UnhashedIs ==
    ASSUME TypeInv, WalkInv, InWork, NEW r \in FileReasons, NEW d \in ToSet(Details),
           Unhashed(Issue(r, entry.path, d))
    PROVE  /\ NewRows({RowFor(entry.path, entry.obj, None)}) /\ \E J : FileIssues(J)
           /\ step' = "final" /\ UNCHANGED entry
  <1> DEFINE j == Issue(r, entry.path, d)
  <1>1. r \in ToSet(Reasons)
    BY Words DEF FileReasons
  <1>2. j \in IssueRecords /\ j.path = entry.path /\ j.reason = r
    BY <1>1, EntryIs, IssueIs
  <1>3. Report(Append(Hardlink, j)) /\ AddRow(entry.path, entry.obj, None) /\ step' = "final" /\ UNCHANGED entry
    BY DEF Unhashed
  <1>4. NewRows({RowFor(entry.path, entry.obj, None)})
    BY <1>3, EntryIs, Added
  <1> DEFINE J == ToSet(Append(Hardlink, j))
  <1>5. J = ToSet(Hardlink) \cup {j} /\ Append(Hardlink, j) \in Seq(IssueRecords)
    <2> HIDE DEF j
    <2> QED
      BY <1>2, HardlinkIs, SetOfAppend DEF J
  <1>6. NewIssues(J)
    BY <1>3, <1>5, Reported
  <1> HIDE DEF J, j
  <1>7. FileIssues(J)
    BY <1>2, <1>5, <1>6, HardlinkIs DEF FileIssues
  <1> QED
    BY <1>3, <1>4, <1>7

LEMMA RowedIs ==
    ASSUME step \in {"open", "read", "hashed"}, entry.obj.kind = "REGULAR", step' = "final",
           UNCHANGED <<pass, between, stack, entry>>, Looks({}, tree), NEW h \in Nat \cup {None},
           NewRows({RowFor(entry.path, entry.obj, h)}), \E J : FileIssues(J),
           \/ failures' = failures + 1 /\ h = None
           \/ failures' = failures /\ ~AsOpened /\ h = None
           \/ failures' = failures /\ AsOpened /\ h = entry.hash /\ step = "hashed"
    PROVE  FileRowed
  BY DEF FileRowed, FileIssues

LEMMA OpenFileIs ==
    ASSUME TypeInv, WalkInv, OpenFile
    PROVE  FileRowed \/ FileOpened
  <1> DEFINE p == entry.path
             o == Found(p)
  <1>1. /\ step = "open" /\ entry.obj.kind = "REGULAR" /\ UNCHANGED <<pass, stack, seen, between>> /\ InWork
        /\ \/ /\ Fails \/ (GoesThrough /\ o = None)
              /\ Unhashed(Issue("FILE_OPEN_UNRESOLVED", p, "open"))
           \/ /\ GoesThrough /\ o # None /\ ~SameStat(o, entry.obj)
              /\ Unhashed(Issue("FILE_IDENTITY_RACE", p, "open"))
           \/ /\ GoesThrough /\ o # None /\ SameStat(o, entry.obj)
              /\ step' = "read" /\ UNCHANGED <<entry, rows, issues>>
    BY DEF OpenFile, InWork
  <1>2. Looks({}, tree)
    BY <1>1, NotLooked
  <1>3. p \in Paths /\ entry.obj \in Objects /\ (o # None => o = tree[p])
    BY <1>1, EntryIs, FoundIs
  <1>4. "open" \in ToSet(Details) /\ "FILE_OPEN_UNRESOLVED" \in FileReasons /\ "FILE_IDENTITY_RACE" \in FileReasons
    BY Words DEF FileReasons
  <1>5. AsOpened <=> o # None /\ SameStat(o, entry.obj)
    BY <1>3 DEF AsOpened
  <1>6. CASE /\ Fails \/ (GoesThrough /\ o = None)
             /\ Unhashed(Issue("FILE_OPEN_UNRESOLVED", p, "open"))
    <2>1. /\ NewRows({RowFor(p, entry.obj, None)}) /\ \E J : FileIssues(J)
          /\ step' = "final" /\ UNCHANGED entry
      BY <1>1, <1>4, <1>6, UnhashedIs
    <2>2. failures' = failures + 1 \/ (failures' = failures /\ ~AsOpened)
      BY <1>5, <1>6 DEF Fails, GoesThrough
    <2> QED
      BY <1>1, <1>2, <2>1, <2>2, RowedIs
  <1>7. CASE /\ GoesThrough /\ o # None /\ ~SameStat(o, entry.obj)
             /\ Unhashed(Issue("FILE_IDENTITY_RACE", p, "open"))
    <2>1. /\ NewRows({RowFor(p, entry.obj, None)}) /\ \E J : FileIssues(J)
          /\ step' = "final" /\ UNCHANGED entry
      BY <1>1, <1>4, <1>7, UnhashedIs
    <2>2. failures' = failures /\ ~AsOpened
      BY <1>5, <1>7 DEF GoesThrough
    <2> QED
      BY <1>1, <1>2, <2>1, <2>2, RowedIs
  <1>8. CASE /\ GoesThrough /\ o # None /\ SameStat(o, entry.obj)
             /\ step' = "read" /\ UNCHANGED <<entry, rows, issues>>
    <2>1. NewRows({}) /\ NewIssues({})
      BY <1>8, NoneAdded, NoneReported
    <2> QED
      BY <1>1, <1>2, <1>5, <1>8, <2>1 DEF FileOpened, GoesThrough
  <1> QED
    BY <1>1, <1>6, <1>7, <1>8

LEMMA ReadIs ==
    ASSUME TypeInv, WalkInv, Read
    PROVE  FileRowed \/ FileRead
  <1>1. /\ step = "read" /\ UNCHANGED <<pass, stack, seen, between>> /\ InWork
        /\ \/ /\ Fails
              /\ Unhashed(Issue("FILE_READ_UNRESOLVED", entry.path, "read"))
           \/ /\ GoesThrough /\ step' = "hashed"
              /\ entry' = [entry EXCEPT !.hash =
                    IF Gone(entry.obj, entry.path) THEN entry.obj.ctime ELSE tree[entry.path].ctime]
              /\ UNCHANGED <<rows, issues>>
    BY DEF Read, InWork
  <1>2. Looks({}, tree)
    BY <1>1, NotLooked
  <1>3. entry.obj.kind = "REGULAR"
    BY <1>1 DEF WalkInv, PlaceInv
  <1>4. "read" \in ToSet(Details) /\ "FILE_READ_UNRESOLVED" \in FileReasons
    BY Words DEF FileReasons
  <1>5. CASE Fails /\ Unhashed(Issue("FILE_READ_UNRESOLVED", entry.path, "read"))
    <2>1. /\ NewRows({RowFor(entry.path, entry.obj, None)}) /\ \E J : FileIssues(J)
          /\ step' = "final" /\ UNCHANGED entry
      BY <1>1, <1>4, <1>5, UnhashedIs
    <2>2. failures' = failures + 1
      BY <1>5 DEF Fails
    <2> QED
      BY <1>1, <1>2, <1>3, <2>1, <2>2, RowedIs
  <1>6. CASE /\ GoesThrough /\ step' = "hashed"
             /\ entry' = [entry EXCEPT !.hash =
                    IF Gone(entry.obj, entry.path) THEN entry.obj.ctime ELSE tree[entry.path].ctime]
             /\ UNCHANGED <<rows, issues>>
    <2> DEFINE h == IF Gone(entry.obj, entry.path) THEN entry.obj.ctime ELSE tree[entry.path].ctime
    <2>1. NewRows({}) /\ NewIssues({})
      BY <1>6, NoneAdded, NoneReported
    <2>2. entry \in Entries /\ entry.path \in Paths /\ entry.obj \in Objects /\ tree \in Trees
      BY <1>1, EntryIs DEF TypeInv
    <2>3. h \in Nat /\ (h = entry.obj.ctime \/ (tree[entry.path] # None /\ h = tree[entry.path].ctime))
      BY <2>2 DEF Gone, Trees, Objects
    <2>4. entry' = [entry EXCEPT !.hash = h]
      BY <1>6
    <2> HIDE DEF h
    <2>5. entry' = [path |-> entry.path, obj |-> entry.obj, hash |-> h]
      BY <2>2, <2>4 DEF Entries
    <2> QED
      BY <1>1, <1>2, <1>6, <2>1, <2>3, <2>5 DEF FileRead, GoesThrough
  <1> QED
    BY <1>1, <1>5, <1>6

LEMMA EndHashIs ==
    ASSUME TypeInv, WalkInv, EndHash
    PROVE  FileRowed
  <1> DEFINE p == entry.path
             o == Found(p)
  <1>1. step = "hashed" /\ UNCHANGED <<failures, pass, stack, seen, between>> /\ InWork /\ Hashed
    BY DEF EndHash, InWork
  <1>2. Looks({}, tree) /\ entry.obj.kind = "REGULAR"
    BY <1>1, NotLooked DEF WalkInv, PlaceInv
  <1>3. p \in Paths /\ entry.obj \in Objects /\ entry.hash \in Nat \cup {None} /\ (o # None => o = tree[p])
    BY <1>1, EntryIs, FoundIs
  <1>4. AsOpened <=> o # None /\ SameStat(o, entry.obj)
    BY <1>3 DEF AsOpened
  <1>5. CASE o = None \/ ~SameStat(o, entry.obj)
    <2>1. \/ Unhashed(Issue("FILE_GROWTH_RACE", p, "growth"))
          \/ Unhashed(Issue("FILE_IDENTITY_RACE", p, "read"))
      BY <1>1, <1>5 DEF Hashed
    <2>2. /\ "growth" \in ToSet(Details) /\ "read" \in ToSet(Details)
          /\ "FILE_GROWTH_RACE" \in FileReasons /\ "FILE_IDENTITY_RACE" \in FileReasons
      BY Words DEF FileReasons
    <2>3. /\ NewRows({RowFor(p, entry.obj, None)}) /\ \E J : FileIssues(J)
          /\ step' = "final" /\ UNCHANGED entry
      BY <1>1, <2>1, <2>2, UnhashedIs
    <2> QED
      BY <1>1, <1>2, <1>4, <1>5, <2>3, RowedIs
  <1>6. CASE ~(o = None \/ ~SameStat(o, entry.obj))
    <2>1. AddRow(p, entry.obj, entry.hash) /\ Report(Hardlink) /\ step' = "final" /\ UNCHANGED entry
      BY <1>1, <1>6 DEF Hashed
    <2>2. NewRows({RowFor(p, entry.obj, entry.hash)})
      BY <1>3, <2>1, Added
    <2>3. FileIssues(ToSet(Hardlink))
      BY <1>1, <2>1, HardlinkIs, Reported DEF FileIssues
    <2> QED
      BY <1>1, <1>2, <1>3, <1>4, <1>6, <2>1, <2>2, <2>3, RowedIs
  <1> QED
    BY <1>5, <1>6

LEMMA FinalIs ==
    ASSUME TypeInv, WalkInv, Final
    PROVE  Finished
  <1> DEFINE p == entry.path
             o == Found(p)
  <1>1. /\ step = "final" /\ step' = "child" /\ entry' = None /\ InWork
        /\ Report(CASE o = None -> <<Issue("ENTRY_FINAL_RACE", p, "stat")>>
                    [] o # None /\ ~SameStat(o, entry.obj) -> <<Issue("ENTRY_IDENTITY_RACE", p, "changed")>>
                    [] OTHER -> <<>>)
        /\ Look([q \in {p} |-> o])
        /\ UNCHANGED <<failures, pass, stack, rows, between>>
    BY DEF Final, InWork
  <1>2. p \in Paths /\ (o # None => o = tree[p])
    BY <1>1, EntryIs, FoundIs
  <1>3. Look([q \in {p} |-> Found(q)])
    BY <1>1
  <1>4. LooksAt(p) /\ NewRows({})
    BY <1>1, <1>2, <1>3, LookedAt, NoneAdded
  <1>5. /\ "ENTRY_FINAL_RACE" \in ToSet(Reasons) /\ "ENTRY_IDENTITY_RACE" \in ToSet(Reasons)
        /\ "stat" \in ToSet(Details) /\ "changed" \in ToSet(Details)
    BY Words
  <1>6. CASE o = None
    <2>1. Report(<<Issue("ENTRY_FINAL_RACE", p, "stat")>>)
      BY <1>1, <1>6
    <2>2. NewIssues({Issue("ENTRY_FINAL_RACE", p, "stat")})
      BY <1>2, <1>5, <2>1, ReportedAs
    <2> QED
      BY <1>1, <1>4, <1>6, <2>2 DEF Finished
  <1>7. CASE o # None /\ ~SameStat(o, entry.obj)
    <2>1. Report(<<Issue("ENTRY_IDENTITY_RACE", p, "changed")>>)
      BY <1>1, <1>7
    <2>2. NewIssues({Issue("ENTRY_IDENTITY_RACE", p, "changed")})
      BY <1>2, <1>5, <2>1, ReportedAs
    <2> QED
      BY <1>1, <1>2, <1>4, <1>7, <2>2 DEF Finished
  <1>8. CASE o # None /\ SameStat(o, entry.obj)
    <2>1. Report(<<>>)
      BY <1>1, <1>8
    <2>2. NewIssues({})
      BY <2>1, ReportedNone
    <2> QED
      BY <1>1, <1>2, <1>4, <1>8, <2>2 DEF Finished
  <1> QED
    BY <1>6, <1>7, <1>8

LEMMA RelistIs ==
    ASSUME TypeInv, WalkInv, Relist
    PROVE  Left
  <1>1. /\ step = "child" /\ stack # <<>> /\ Top.left = {} /\ Leave /\ UNCHANGED <<pass, rows, between>>
        /\ \/ /\ Fails \/ (GoesThrough /\ Gone(Top.obj, Top.dir))
              /\ Report(<<Issue("DIRECTORY_READ_UNRESOLVED", Top.dir, "getdents")>>)
              /\ UNCHANGED seen
           \/ /\ GoesThrough /\ ~Gone(Top.obj, Top.dir)
              /\ Report(IF Names # Top.names
                        THEN <<Issue("DIRECTORY_IDENTITY_RACE", Top.dir, "changed")>> ELSE <<>>)
              /\ Look([p \in Below(Top.dir) \ Top.names |-> tree[p]])
    BY DEF Relist, WalkInv, PlaceInv
  <1>2. /\ "DIRECTORY_READ_UNRESOLVED" \in ToSet(Reasons) /\ "DIRECTORY_IDENTITY_RACE" \in ToSet(Reasons)
        /\ "getdents" \in ToSet(Details) /\ "changed" \in ToSet(Details)
    BY Words
  <1>3. Top.dir \in Paths /\ NewRows({})
    BY <1>1, TopIs, NoneAdded
  <1>4. /\ stack' = Front(stack)
        /\ IF Top.dir = Root THEN step' = "rootEnd" /\ entry' = None
           ELSE step' = "final" /\ entry' = [path |-> Top.dir, obj |-> Top.obj, hash |-> None]
    BY <1>1 DEF Leave
  <1>5. CASE /\ Fails \/ (GoesThrough /\ Gone(Top.obj, Top.dir))
             /\ Report(<<Issue("DIRECTORY_READ_UNRESOLVED", Top.dir, "getdents")>>)
             /\ UNCHANGED seen
    <2>1. Report(<<Issue("DIRECTORY_READ_UNRESOLVED", Top.dir, "getdents")>>)
      BY <1>5
    <2>2. NewIssues({Issue("DIRECTORY_READ_UNRESOLVED", Top.dir, "getdents")})
      BY <2>1, <1>2, <1>3, ReportedAs
    <2>3. Looks({}, tree) /\ (failures' = failures + 1 \/ (failures' = failures /\ Gone(Top.obj, Top.dir)))
      BY <1>5, NotLooked DEF Fails, GoesThrough
    <2> QED
      BY <1>1, <1>3, <1>4, <2>2, <2>3 DEF Left
  <1>6. CASE /\ GoesThrough /\ ~Gone(Top.obj, Top.dir)
             /\ Report(IF Names # Top.names
                       THEN <<Issue("DIRECTORY_IDENTITY_RACE", Top.dir, "changed")>> ELSE <<>>)
             /\ Look([p \in Below(Top.dir) \ Top.names |-> tree[p]])
    <2>1. Names = There(Top.dir)
      BY <1>1, <1>6, NamesAre
    <2>2. NewIssues(IF There(Top.dir) # Top.names
                       THEN {Issue("DIRECTORY_IDENTITY_RACE", Top.dir, "changed")} ELSE {})
      <3>1. CASE There(Top.dir) # Top.names
        <4>1. Report(<<Issue("DIRECTORY_IDENTITY_RACE", Top.dir, "changed")>>)
          BY <1>6, <2>1, <3>1
        <4>2. NewIssues({Issue("DIRECTORY_IDENTITY_RACE", Top.dir, "changed")})
          BY <4>1, <1>2, <1>3, ReportedAs
        <4> QED
          BY <4>2, <3>1
      <3>2. CASE There(Top.dir) = Top.names
        <4>1. Report(<<>>)
          BY <1>6, <2>1, <3>2
        <4> QED
          BY <4>1, <3>2, ReportedNone
      <3> QED
        BY <3>1, <3>2
    <2>3. Looks(Below(Top.dir) \ Top.names, tree)
      <3>1. Below(Top.dir) \ Top.names \in SUBSET Paths
        BY <1>3, PathFacts
      <3> QED
        BY <1>6, <3>1, LookedOver
    <2> QED
      BY <1>1, <1>3, <1>4, <1>6, <2>2, <2>3 DEF Left, GoesThrough
  <1> QED
    BY <1>1, <1>5, <1>6

LEMMA EndPassIs ==
    ASSUME TypeInv, EndPass
    PROVE  PassEnded
  <1>1. /\ step = "rootEnd" /\ UNCHANGED <<failures, stack, entry, rows, between>>
        /\ Report(IF RootRow # Stat(tree[Root]) THEN <<Issue("ROOT_IDENTITY_RACE", Root, "changed")>> ELSE <<>>)
        /\ Look([p \in {Root} |-> tree[p]])
        /\ IF pass = 1 THEN pass' = 2 /\ step' = "root" ELSE pass' = pass /\ step' = "done"
    BY DEF EndPass
  <1>2. NewRows({}) /\ {Root} \in SUBSET Paths
    BY <1>1, NoneAdded, PathFacts
  <1>3. Looks({Root}, tree)
    BY <1>1, <1>2, LookedOver
  <1>4. NewIssues(IF RootRow # Stat(tree[Root]) THEN {Issue("ROOT_IDENTITY_RACE", Root, "changed")} ELSE {})
    <2>1. CASE RootRow # Stat(tree[Root])
      <3>1. Report(<<Issue("ROOT_IDENTITY_RACE", Root, "changed")>>)
        BY <1>1, <2>1
      <3>2. "ROOT_IDENTITY_RACE" \in ToSet(Reasons) /\ "changed" \in ToSet(Details)
        BY Words
      <3>3. NewIssues({Issue("ROOT_IDENTITY_RACE", Root, "changed")})
        BY <1>2, <3>1, <3>2, ReportedAs
      <3> QED
        BY <2>1, <3>3
    <2>2. CASE RootRow = Stat(tree[Root])
      <3>1. Report(<<>>)
        BY <1>1, <2>2
      <3> QED
        BY <3>1, <2>2, ReportedNone
    <2> QED
      BY <2>1, <2>2
  <1> QED
    BY <1>1, <1>2, <1>3, <1>4 DEF PassEnded

LEMMA WalkIs ==
    ASSUME TypeInv, TreeInv, WalkInv, Walk, UNCHANGED site
    PROVE  WalkFacts
  <1>1. CASE OpenRoot
    BY <1>1, OpenRootIs DEF WalkFacts, Steady
  <1>2. CASE List
    BY <1>2, ListIs DEF WalkFacts, Steady
  <1>3. CASE StatChild
    BY <1>3, StatChildIs DEF WalkFacts, Steady
  <1>4. CASE OpenDirectory
    BY <1>4, OpenDirectoryIs DEF WalkFacts, Steady
  <1>5. CASE OpenFile
    BY <1>5, OpenFileIs DEF WalkFacts, Steady
  <1>6. CASE Read
    BY <1>6, ReadIs DEF WalkFacts, Steady
  <1>7. CASE EndHash
    BY <1>7, EndHashIs DEF WalkFacts, Steady
  <1>8. CASE Final
    BY <1>8, FinalIs DEF WalkFacts, Steady
  <1>9. CASE Relist
    BY <1>9, RelistIs DEF WalkFacts, Steady
  <1>10. CASE EndPass
    BY <1>10, EndPassIs DEF WalkFacts, Steady
  <1> QED
    BY <1>1, <1>2, <1>3, <1>4, <1>5, <1>6, <1>7, <1>8, <1>9, <1>10 DEF Walk

-----------------------------------------------------------------------------
(* The directories that are open.                                          *)

LEMMA StackBase ==
    ASSUME TypeInv
    PROVE  /\ stack \in Seq(Frames) /\ Len(stack) \in Nat /\ DOMAIN stack = 1 .. Len(stack)
           /\ \A n \in DOMAIN stack :
                /\ stack[n] \in Frames /\ stack[n].dir \in Paths /\ stack[n].obj \in Objects
                /\ stack[n].names \subseteq Paths /\ stack[n].left \subseteq Paths
  <1>1. stack \in Seq(Frames)
    BY DEF TypeInv
  <1>2. Len(stack) \in Nat /\ DOMAIN stack = 1 .. Len(stack) /\ \A n \in DOMAIN stack : stack[n] \in Frames
    BY <1>1
  <1> QED
    BY <1>1, <1>2 DEF Frames

LEMMA FrameIs ==
    ASSUME NEW d \in Paths, NEW o \in Objects, NEW N \in SUBSET Paths, NEW L \in SUBSET Paths
    PROVE  LET f == [dir |-> d, obj |-> o, names |-> N, left |-> L] IN
           f \in Frames /\ f.dir = d /\ f.obj = o /\ f.names = N /\ f.left = L
  BY DEF Frames

\* The directory in work gets other names.
Restacked(N, L) ==
    /\ stack' \in Seq(Frames) /\ Len(stack') = Len(stack) /\ stack' # <<>> /\ DOMAIN stack' = DOMAIN stack
    /\ \A n \in DOMAIN stack : n # Len(stack) => stack'[n] = stack[n]
    /\ Top' = stack'[Len(stack)]
    /\ Top'.dir = Top.dir /\ Top'.obj = Top.obj /\ Top'.names = N /\ Top'.left = L

LEMMA RestackedBy ==
    ASSUME TypeInv, stack # <<>>, NEW N \in SUBSET Paths, NEW L \in SUBSET Paths,
           stack' = [stack EXCEPT ![Len(stack)] =
                        [dir |-> Top.dir, obj |-> Top.obj, names |-> N, left |-> L]]
    PROVE  Restacked(N, L)
  <1> DEFINE f == [dir |-> Top.dir, obj |-> Top.obj, names |-> N, left |-> L]
  <1>1. f \in Frames /\ f.dir = Top.dir /\ f.obj = Top.obj /\ f.names = N /\ f.left = L
    BY TopIs, FrameIs
  <1>2. stack' = [stack EXCEPT ![Len(stack)] = f]
    OBVIOUS
  <1> HIDE DEF f
  <1>3. Len(stack) \in DOMAIN stack /\ Len(stack) \in Nat \ {0} /\ stack \in Seq(Frames)
    BY TopIs DEF TypeInv
  <1>4. /\ stack' \in Seq(Frames) /\ Len(stack') = Len(stack) /\ DOMAIN stack' = DOMAIN stack
        /\ \A n \in DOMAIN stack : n # Len(stack) => stack'[n] = stack[n]
        /\ stack'[Len(stack)] = f
    BY <1>1, <1>2, <1>3
  <1>5. stack' # <<>>
    BY <1>3, <1>4
  <1>6. Top' = stack'[Len(stack')]
    BY <1>4 DEF Top, Last
  <1> QED
    BY <1>1, <1>4, <1>5, <1>6 DEF Restacked

\* A directory is entered.
Stacked(d, o) ==
    /\ stack' \in Seq(Frames) /\ Len(stack') = Len(stack) + 1 /\ stack' # <<>> /\ DOMAIN stack' = 1 .. Len(stack) + 1
    /\ \A n \in DOMAIN stack : stack'[n] = stack[n]
    /\ Top' = stack'[Len(stack) + 1]
    /\ Top'.dir = d /\ Top'.obj = o /\ Top'.names = {} /\ Top'.left = {}

LEMMA StackedBy ==
    ASSUME TypeInv, NEW d \in Paths, NEW o \in Objects,
           stack' = Append(stack, [dir |-> d, obj |-> o, names |-> {}, left |-> {}])
    PROVE  Stacked(d, o)
  <1> DEFINE f == [dir |-> d, obj |-> o, names |-> {}, left |-> {}]
  <1>1. f \in Frames /\ f.dir = d /\ f.obj = o /\ f.names = {} /\ f.left = {}
    BY FrameIs
  <1>2. stack' = Append(stack, f)
    OBVIOUS
  <1> HIDE DEF f
  <1>3. stack \in Seq(Frames) /\ DOMAIN stack = 1 .. Len(stack) /\ Len(stack) \in Nat
    BY StackBase
  <1>4. /\ stack' \in Seq(Frames) /\ Len(stack') = Len(stack) + 1 /\ DOMAIN stack' = 1 .. Len(stack) + 1
        /\ \A n \in DOMAIN stack : stack'[n] = stack[n]
        /\ stack'[Len(stack) + 1] = f
    BY <1>1, <1>2, <1>3
  <1>5. stack' # <<>>
    BY <1>3, <1>4
  <1>6. Top' = stack'[Len(stack')]
    BY <1>4 DEF Top, Last
  <1> QED
    BY <1>1, <1>4, <1>5, <1>6 DEF Stacked

\* A directory is left.
Unstacked ==
    /\ stack' \in Seq(Frames) /\ Len(stack') = Len(stack) - 1 /\ DOMAIN stack' = 1 .. Len(stack) - 1
    /\ \A n \in DOMAIN stack' : n \in DOMAIN stack /\ stack'[n] = stack[n]
    /\ (stack' = <<>>) <=> Len(stack) = 1
    /\ Len(stack) > 1 => Top' = stack[Len(stack) - 1] /\ Len(stack) - 1 \in DOMAIN stack'

LEMMA UnstackedBy ==
    ASSUME TypeInv, stack # <<>>, stack' = Front(stack)
    PROVE  Unstacked
  <1> DEFINE m == Len(stack) - 1
  <1>1. Len(stack) \in Nat \ {0} /\ DOMAIN stack = 1 .. Len(stack) /\ m \in Nat
    BY TopIs, StackBase
  <1>2. stack' \in Seq(Frames) /\ Len(stack') = m /\ \A n \in 1 .. m : stack'[n] = stack[n]
    BY FrontIs
  <1>3. DOMAIN stack' = 1 .. m /\ (stack' = <<>> <=> m = 0)
    BY <1>1, <1>2
  <1>4. m > 0 => Top' = stack[m] /\ m \in 1 .. m
    <2>1. Top' = stack'[Len(stack')]
      BY DEF Top, Last
    <2> QED
      BY <1>1, <1>2, <2>1
  <1> QED
    BY <1>1, <1>2, <1>3, <1>4 DEF Unstacked

\* The root is entered only once.
LEMMA BottomOnly ==
    ASSUME TypeInv, StackInv, stack # <<>>
    PROVE  Top.dir = Root <=> Len(stack) = 1
  <1>1. Len(stack) \in Nat \ {0} /\ Len(stack) \in DOMAIN stack /\ Top = stack[Len(stack)] /\ DOMAIN stack = 1 .. Len(stack)
    BY TopIs, StackBase
  <1>2. stack[1].dir = Root /\ 1 \in DOMAIN stack
    BY <1>1 DEF StackInv
  <1>3. Len(stack) # 1 => Top.dir # Root
    BY <1>1, <1>2 DEF StackInv
  <1> QED
    BY <1>1, <1>2, <1>3

-----------------------------------------------------------------------------
(* Types.                                                                  *)

LEMMA LooksTyped ==
    ASSUME NEW p
    PROVE  LooksAt(p) => seen' \in [1 .. 2 -> [Paths -> Objects \cup {None, Unseen}]]
  BY DEF LooksAt, Looks

\* What the steps give to the invariant of types, but for the place of the walk.
Typed ==
    /\ rows' \in [1 .. 2 -> Seq(Rows)] /\ issues' \in [1 .. 2 -> Seq(IssueRecords)]
    /\ seen' \in [1 .. 2 -> [Paths -> Objects \cup {None, Unseen}]]
    /\ failures' \in Nat

LEMMA TypedBy ==
    ASSUME TypeInv, WalkFacts
    PROVE  Typed
  <1>1. failures \in Nat
    BY DEF TypeInv
  <1>2. CASE RootOpened \/ Listed \/ Left \/ Entered \/ FileOpened \/ FileRead \/ PassEnded
    <2>1. \/ failures' = failures \/ failures' = failures + 1
      BY <1>2 DEF RootOpened, Listed, Left, Entered, FileOpened, FileRead, PassEnded
    <2>2. \E S : NewRows(S)
      BY <1>2 DEF RootOpened, Listed, Left, Entered, FileOpened, FileRead, PassEnded
    <2>3. \E S : NewIssues(S)
      BY <1>2 DEF RootOpened, Listed, Left, Entered, FileOpened, FileRead, PassEnded
    <2>4. \E D : Looks(D, tree)
      BY <1>2 DEF RootOpened, Listed, Left, Entered, FileOpened, FileRead, PassEnded
    <2> QED
      BY <1>1, <2>1, <2>2, <2>3, <2>4 DEF Typed, NewRows, NewIssues, Looks
  <1>3. CASE Statted
    <2>1. PICK p \in Top.left : StattedSome(p)
      BY <1>3 DEF Statted
    <2>2. /\ failures' = failures \/ failures' = failures + 1
          /\ NewRows({}) /\ \E S : NewIssues(S)
          /\ Looks({}, tree) \/ LooksAt(p)
      BY <2>1 DEF StattedSome
    <2> QED
      BY <1>1, <2>2, LooksTyped DEF Typed, NewRows, NewIssues, Looks
  <1>4. CASE Refused
    <2>1. /\ failures' = failures \/ failures' = failures + 1
          /\ NewRows({}) /\ \E S : NewIssues(S)
          /\ Looks({}, tree) \/ LooksAt(entry.path)
      BY <1>4 DEF Refused
    <2> QED
      BY <1>1, <2>1, LooksTyped DEF Typed, NewRows, NewIssues, Looks
  <1>5. CASE FileRowed
    <2>1. /\ failures' = failures \/ failures' = failures + 1
          /\ (\E S : NewRows(S)) /\ (\E S : NewIssues(S)) /\ Looks({}, tree)
      BY <1>5 DEF FileRowed
    <2> QED
      BY <1>1, <2>1 DEF Typed, NewRows, NewIssues, Looks
  <1>6. CASE Finished
    <2>1. failures' = failures /\ NewRows({}) /\ LooksAt(entry.path) /\ \E S : NewIssues(S)
      BY <1>6 DEF Finished
    <2> QED
      BY <1>1, <2>1, LooksTyped DEF Typed, NewRows, NewIssues
  <1> QED
    BY <1>2, <1>3, <1>4, <1>5, <1>6 DEF WalkFacts

LEMMA EntryTyped ==
    ASSUME NEW p \in Paths, NEW o \in Objects, NEW h \in Nat \cup {None}
    PROVE  LET e == [path |-> p, obj |-> o, hash |-> h] IN
           e \in Entries /\ e # None /\ e.path = p /\ e.obj = o /\ e.hash = h
  BY Somethings DEF Entries

\* Where the walk is after a step.
Placed == pass' \in 1 .. 2 /\ step' \in Steps /\ stack' \in Seq(Frames) /\ entry' \in Entries \cup {None}

LEMMA PlacedBy ==
    ASSUME TypeInv, TreeInv, WalkInv, WalkFacts
    PROVE  Placed /\ between' \in Trees \cup {None}
  <1> USE DEF Placed
  <1>1. pass \in 1 .. 2 /\ step \in Steps /\ stack \in Seq(Frames) /\ entry \in Entries \cup {None}
        /\ between \in Trees \cup {None} /\ tree \in Trees
    BY DEF TypeInv
  <1>2. step \in {"list", "child", "open", "read", "hashed", "final"} => stack # <<>>
    BY DEF WalkInv, PlaceInv
  <1>3. CASE RootOpened
    <2>1. Root \in Paths /\ tree[Root] \in Objects
      BY <1>1, PathFacts DEF TreeInv, Trees
    <2>2. [dir |-> Root, obj |-> tree[Root], names |-> {}, left |-> {}] \in Frames
      BY <2>1, FrameIs
    <2>3. stack' \in Seq(Frames)
      BY <1>3, <2>2 DEF RootOpened
    <2> QED
      BY <1>1, <1>3, <2>3 DEF RootOpened, Steps
  <1>4. CASE Listed
    <2>1. There(Top.dir) \in SUBSET Paths
      BY <1>2, <1>4, TopIs, PathFacts DEF Listed, There
    <2>2. Restacked(There(Top.dir), There(Top.dir))
      BY <1>2, <1>4, <2>1, RestackedBy DEF Listed
    <2> QED
      BY <1>1, <1>4, <2>2 DEF Listed, Restacked, Steps
  <1>5. CASE Left
    <2>1. stack # <<>>
      BY <1>2, <1>5 DEF Left
    <2>2. Unstacked
      BY <1>5, <2>1, UnstackedBy DEF Left
    <2>3. [path |-> Top.dir, obj |-> Top.obj, hash |-> None] \in Entries
      BY <2>1, TopIs, EntryTyped
    <2> QED
      BY <1>1, <1>5, <2>2, <2>3 DEF Left, Unstacked, Steps
  <1>6. CASE Statted
    <2>1. PICK p \in Top.left : StattedSome(p)
      BY <1>6 DEF Statted
    <2>2. stack # <<>> /\ p \in Paths
      BY <1>2, <2>1, TopIs DEF StattedSome
    <2>3. Top.left \ {p} \in SUBSET Paths /\ Top.names \in SUBSET Paths
      BY <2>2, TopIs
    <2>4. Restacked(Top.names, Top.left \ {p})
      BY <2>1, <2>2, <2>3, RestackedBy DEF StattedSome
    <2>5. Found(p) # None => [path |-> p, obj |-> tree[p], hash |-> None] \in Entries
      BY <2>2, FoundIs, EntryTyped, Somethings
    <2> QED
      BY <1>1, <2>1, <2>4, <2>5 DEF StattedSome, Restacked, Steps
  <1>7. CASE Refused
    BY <1>1, <1>7 DEF Refused, Steps
  <1>8. CASE Entered
    <2>1. entry.path \in Paths /\ entry.obj \in Objects
      BY <1>8, EntryIs DEF Entered, InWork
    <2>2. Stacked(entry.path, entry.obj)
      BY <1>8, <2>1, StackedBy DEF Entered
    <2> QED
      BY <1>1, <1>8, <2>2 DEF Entered, Stacked, Steps
  <1>9. CASE FileRowed
    BY <1>1, <1>9 DEF FileRowed, Steps
  <1>10. CASE FileOpened
    BY <1>1, <1>10 DEF FileOpened, Steps
  <1>11. CASE FileRead
    <2>1. entry.path \in Paths /\ entry.obj \in Objects
      BY <1>11, EntryIs DEF FileRead, InWork
    <2>2. entry' \in Entries
      BY <1>11, <2>1, EntryTyped DEF FileRead
    <2> QED
      BY <1>1, <1>11, <2>2 DEF FileRead, Steps
  <1>12. CASE Finished
    BY <1>1, <1>12 DEF Finished, Steps
  <1>13. CASE PassEnded
    BY <1>1, <1>13 DEF PassEnded, Steps
  <1> QED
    BY <1>3, <1>4, <1>5, <1>6, <1>7, <1>8, <1>9, <1>10, <1>11, <1>12, <1>13 DEF WalkFacts

LEMMA TypeStep ==
    ASSUME TypeInv, TreeInv, WalkInv, SiteFacts \/ WalkFacts
    PROVE  TypeInv'
  <1>1. CASE SiteFacts
    BY <1>1 DEF SiteFacts, TypeInv, helper
  <1>2. CASE WalkFacts
    <2>1. tree' = tree /\ changes' = changes
      BY <1>2 DEF WalkFacts, Steady, site
    <2> QED
      BY <1>2, <2>1, TypedBy, PlacedBy DEF TypeInv, Typed, Placed
  <1> QED
    BY <1>1, <1>2

LEMMA TreeStep ==
    ASSUME TypeInv, TreeInv, SiteFacts \/ WalkFacts
    PROVE  TreeInv'
  <1>1. CASE SiteFacts
    <2>1. tree \in Trees /\ tree' \in Trees /\ changes \in Nat /\ changes' = changes + 1
      BY <1>1 DEF SiteFacts, TypeInv
    <2>2. tree'[Root] # None
      BY <1>1, PathFacts DEF SiteFacts, Exchanged, TreeInv
    <2>3. ASSUME NEW p \in Paths, tree'[p] # None
          PROVE  tree'[p].born <= tree'[p].ctime /\ tree'[p].ctime <= changes + 1
      <3>1. tree'[p] \in Objects /\ (tree[p] # None => tree[p] \in Objects)
        BY <2>1, <2>3 DEF Trees
      <3>2. tree[p] # None => tree[p].born <= tree[p].ctime /\ tree[p].ctime <= changes
        BY DEF TreeInv
      <3>3. Becomes(p)
        BY <1>1 DEF SiteFacts
      <3> QED
        BY <2>1, <2>3, <3>1, <3>2, <3>3 DEF Becomes, Objects
    <2>4. \A p \in Paths : tree'[p] # None =>
            /\ tree'[p].kind \in Kinds(p)
            /\ p # Root => IsDirectory(tree'[Parent[p]])
      BY <1>1 DEF SiteFacts
    <2> QED
      BY <2>1, <2>2, <2>3, <2>4 DEF TreeInv, IsDirectory
  <1>2. CASE WalkFacts
    BY <1>2 DEF WalkFacts, Steady, site, TreeInv, IsDirectory
  <1> QED
    BY <1>1, <1>2

-----------------------------------------------------------------------------
(* The place of the walk.                                                  *)

LEMMA PlaceStep ==
    ASSUME TypeInv, TreeInv, WalkInv, SiteFacts \/ WalkFacts
    PROVE  PlaceInv'
  <1>0. PlaceInv
    BY DEF WalkInv
  <1>00. \A e \in Entries : e # None
    BY Somethings
  <1>1. CASE SiteFacts
    BY <1>0, <1>1 DEF SiteFacts, helper, PlaceInv, InWork, Top
  <1>2. step \in {"list", "child", "open", "read", "hashed", "final"} => stack # <<>>
    BY DEF WalkInv, PlaceInv
  <1>3. CASE RootOpened
    <2>1. step' = "list" /\ entry' = entry /\ entry = None
      BY <1>0, <1>3 DEF RootOpened, PlaceInv, InWork
    <2>2. stack' # <<>> /\ Top'.names = {}
      <3>1. Len(stack') = 1 /\ stack'[1] = [dir |-> Root, obj |-> tree[Root], names |-> {}, left |-> {}]
        BY <1>3 DEF RootOpened
      <3>2. Top' = stack'[1]
        BY <3>1 DEF Top, Last
      <3>3. Top'.names = {}
        BY <3>1, <3>2
      <3> QED
        BY <3>1, <3>3, <1>3 DEF RootOpened
    <2> QED
      BY <2>1, <2>2 DEF PlaceInv, InWork
  <1>4. CASE Listed
    <2>1. There(Top.dir) \in SUBSET Paths
      BY <1>2, <1>4, TopIs, PathFacts DEF Listed, There
    <2>2. stack' # <<>>
      BY <1>2, <1>4, <2>1, RestackedBy DEF Listed, Restacked
    <2> QED
      BY <1>0, <1>4, <2>2 DEF Listed, PlaceInv, InWork
  <1>5. CASE Left
    <2>1. stack # <<>> /\ Len(stack) \in Nat
      BY <1>2, <1>5, StackBase DEF Left
    <2>2. (stack' = <<>>) <=> Len(stack) = 1
      BY <1>5, <2>1, UnstackedBy DEF Left, Unstacked
    <2>3. Top.dir = Root <=> Len(stack) = 1
      BY <2>1, BottomOnly DEF WalkInv
    <2>4. [path |-> Top.dir, obj |-> Top.obj, hash |-> None] # None
      BY <2>1, TopIs, EntryTyped
    <2> QED
      BY <1>5, <2>2, <2>3, <2>4 DEF Left, PlaceInv, InWork
  <1>6. CASE Statted
    <2>1. PICK p \in Top.left : StattedSome(p)
      BY <1>6 DEF Statted
    <2>2. stack # <<>> /\ p \in Paths
      BY <1>2, <2>1, TopIs DEF StattedSome
    <2>3. Top.left \ {p} \in SUBSET Paths /\ Top.names \in SUBSET Paths
      BY <2>2, TopIs
    <2>4. stack' # <<>>
      BY <2>1, <2>2, <2>3, RestackedBy DEF StattedSome, Restacked
    <2> DEFINE e == [path |-> p, obj |-> tree[p], hash |-> None]
    <2>5. Found(p) # None => e # None /\ e.hash = None
      BY <2>2, FoundIs, EntryTyped, Somethings
    <2>6. (step' = step /\ entry' = entry) \/ (Found(p) # None /\ step' = "open" /\ entry' = e)
      BY <2>1 DEF StattedSome
    <2>7. step = "child"
      BY <2>1 DEF StattedSome
    <2> HIDE DEF e
    <2> QED
      BY <1>0, <2>4, <2>5, <2>6, <2>7 DEF PlaceInv, InWork
  <1>7. CASE Refused
    BY <1>0, <1>7 DEF Refused, PlaceInv, InWork
  <1>8. CASE Entered
    <2>1. entry.path \in Paths /\ entry.obj \in Objects
      BY <1>8, EntryIs DEF Entered, InWork
    <2>2. stack' # <<>> /\ Top'.names = {}
      BY <1>8, <2>1, StackedBy DEF Entered, Stacked
    <2> QED
      BY <1>8, <2>2 DEF Entered, PlaceInv, InWork
  <1>9. CASE FileRowed
    BY <1>0, <1>9 DEF FileRowed, PlaceInv, InWork
  <1>10. CASE FileOpened
    BY <1>0, <1>10 DEF FileOpened, PlaceInv, InWork
  <1>11. CASE FileRead
    <2>1. entry.path \in Paths /\ entry.obj \in Objects
      BY <1>11, EntryIs DEF FileRead, InWork
    <2>2. entry' # None /\ entry'.obj = entry.obj
      BY <1>11, <2>1, EntryTyped DEF FileRead
    <2> QED
      BY <1>0, <1>11, <2>2 DEF FileRead, PlaceInv, InWork
  <1>12. CASE Finished
    BY <1>0, <1>12 DEF Finished, PlaceInv, InWork
  <1>13. CASE PassEnded
    <2>1. pass \in 1 .. 2
      BY DEF TypeInv
    <2> QED
      BY <1>0, <1>13, <2>1 DEF PassEnded, PlaceInv, InWork
  <1> QED
    BY <1>1, <1>3, <1>4, <1>5, <1>6, <1>7, <1>8, <1>9, <1>10, <1>11, <1>12, <1>13 DEF WalkFacts

\* The directories entered stay as they are when the one in work gets other names.
LEMMA StackStays ==
    ASSUME TypeInv, StackInv, stack # <<>>, NEW N \in SUBSET Paths, NEW L \in SUBSET Paths, Restacked(N, L),
           L \subseteq N, N \subseteq Below(Top.dir),
           \A m \in DOMAIN stack : stack[m].dir \notin L
    PROVE  StackInv'
  <1>1. /\ Len(stack) \in DOMAIN stack /\ DOMAIN stack = 1 .. Len(stack) /\ Len(stack) \in Nat \ {0}
        /\ Top = stack[Len(stack)]
    BY TopIs, StackBase
  <1>2. /\ DOMAIN stack' = DOMAIN stack /\ \A n \in DOMAIN stack : n # Len(stack) => stack'[n] = stack[n]
        /\ stack'[Len(stack)].dir = Top.dir /\ stack'[Len(stack)].obj = Top.obj
        /\ stack'[Len(stack)].names = N /\ stack'[Len(stack)].left = L
    BY DEF Restacked
  <1>3. \A n \in DOMAIN stack : stack'[n].dir = stack[n].dir /\ stack'[n].obj = stack[n].obj
    BY <1>1, <1>2
  <1>4. stack'[1].dir = Root
    BY <1>1, <1>3 DEF StackInv
  <1>5. ASSUME NEW n \in DOMAIN stack
        PROVE  /\ stack'[n].obj.kind = "DIRECTORY"
               /\ stack'[n].left \subseteq stack'[n].names /\ stack'[n].names \subseteq Below(stack'[n].dir)
               /\ n > 1 => stack'[n].dir \in stack'[n - 1].names
               /\ \A m \in DOMAIN stack : stack'[m].dir \notin stack'[n].left /\ (m # n => stack'[m].dir # stack'[n].dir)
    <2>1. /\ stack[n].obj.kind = "DIRECTORY"
          /\ stack[n].left \subseteq stack[n].names /\ stack[n].names \subseteq Below(stack[n].dir)
          /\ n > 1 => stack[n].dir \in stack[n - 1].names
          /\ \A m \in DOMAIN stack : stack[m].dir \notin stack[n].left /\ (m # n => stack[m].dir # stack[n].dir)
      BY DEF StackInv
    <2>2. n > 1 => stack'[n - 1] = stack[n - 1]
      BY <1>1, <1>2
    <2>3. CASE n = Len(stack)
      BY <1>1, <1>2, <1>3, <2>1, <2>2, <2>3
    <2>4. CASE n # Len(stack)
      BY <1>1, <1>2, <1>3, <2>1, <2>2, <2>4
    <2> QED
      BY <2>3, <2>4
  <1> QED
    BY <1>2, <1>4, <1>5 DEF StackInv

\* A name that was found below a directory that is open is not above it.
LEMMA NamesAreBelow ==
    ASSUME TypeInv, StackInv, NEW n \in DOMAIN stack, NEW m \in DOMAIN stack, m <= n
    PROVE  stack[m].dir \notin Below(stack[n].dir)
  <1>1. DOMAIN stack = 1 .. Len(stack) /\ Len(stack) \in Nat /\ \A k \in DOMAIN stack : stack[k].dir \in Paths
    BY StackBase
  <1>2. m = n => stack[m].dir \notin Below(stack[n].dir)
    BY <1>1, PathFacts
  <1>3. stack[1].dir = Root /\ 1 \in DOMAIN stack
    BY <1>1 DEF StackInv
  <1>4. m = 1 => stack[m].dir \notin Below(stack[n].dir)
    BY <1>1, <1>3, PathFacts
  <1>5. ASSUME m > 1, m < n PROVE Below(stack[n].dir) = {}
    <2>1. n - 1 \in DOMAIN stack /\ n - 1 > 1 /\ n - 2 \in DOMAIN stack
      BY <1>1, <1>5
    <2>2. stack[n].dir \in Below(stack[n - 1].dir) /\ stack[n - 1].dir \in Below(stack[n - 2].dir)
      BY <1>1, <1>5, <2>1 DEF StackInv
    <2>3. stack[n - 1].dir \in Paths \ {Root}
      BY <1>1, <2>1, <2>2, PathFacts
    <2> QED
      BY <2>2, <2>3, PathFacts
  <1> QED
    BY <1>1, <1>2, <1>4, <1>5

LEMMA StackStep ==
    ASSUME TypeInv, TreeInv, WalkInv, SiteFacts \/ WalkFacts
    PROVE  StackInv'
  <1>0. StackInv /\ EntryInv
    BY DEF WalkInv
  <1>1. CASE SiteFacts
    BY <1>0, <1>1 DEF SiteFacts, helper, StackInv
  <1>2. step \in {"list", "child", "open", "read", "hashed", "final"} => stack # <<>>
    BY DEF WalkInv, PlaceInv
  <1>3. CASE RootOpened
    <2>1. /\ stack' # <<>> /\ DOMAIN stack' = {1}
          /\ stack'[1] = [dir |-> Root, obj |-> tree[Root], names |-> {}, left |-> {}]
      BY <1>3 DEF RootOpened
    <2>2. stack'[1].dir = Root /\ stack'[1].obj.kind = "DIRECTORY" /\ stack'[1].names = {} /\ stack'[1].left = {}
      BY <2>1, PathFacts DEF TreeInv, Kinds
    <2> QED
      BY <2>1, <2>2 DEF StackInv
  <1>4. CASE Listed
    <2> DEFINE N == There(Top.dir)
    <2>1. stack # <<>> /\ Top.dir \in Paths
      BY <1>2, <1>4, TopIs DEF Listed
    <2>2. N \in SUBSET Paths /\ N \subseteq Below(Top.dir)
      BY <2>1, PathFacts DEF There
    <2>3. Restacked(N, N)
      BY <1>4, <2>1, <2>2, RestackedBy DEF Listed
    <2>4. \A m \in DOMAIN stack : stack[m].dir \notin N
      <3>1. Top = stack[Len(stack)] /\ Len(stack) \in DOMAIN stack /\ DOMAIN stack = 1 .. Len(stack) /\ Len(stack) \in Nat
        BY <2>1, TopIs, StackBase
      <3>2. \A m \in DOMAIN stack : m <= Len(stack)
        BY <3>1
      <3> HIDE DEF N
      <3> QED
        BY <1>0, <2>2, <3>1, <3>2, NamesAreBelow
    <2> HIDE DEF N
    <2> QED
      BY <1>0, <2>1, <2>2, <2>3, <2>4, StackStays
  <1>5. CASE Left
    <2>1. stack # <<>> /\ Len(stack) \in Nat /\ DOMAIN stack = 1 .. Len(stack)
      BY <1>2, <1>5, StackBase DEF Left
    <2>2. Unstacked
      BY <1>5, <2>1, UnstackedBy DEF Left
    <2>3. \A n \in DOMAIN stack' : n \in DOMAIN stack /\ stack'[n] = stack[n] /\ (n > 1 => n - 1 \in DOMAIN stack')
      BY <2>1, <2>2 DEF Unstacked
    <2>4. stack' # <<>> => 1 \in DOMAIN stack'
      BY <2>1, <2>2 DEF Unstacked
    <2>5. stack' # <<>> => stack'[1].dir = Root
      BY <1>0, <2>1, <2>3, <2>4 DEF StackInv
    <2>6. ASSUME NEW n \in DOMAIN stack'
          PROVE  /\ stack'[n].obj.kind = "DIRECTORY"
                 /\ stack'[n].left \subseteq stack'[n].names /\ stack'[n].names \subseteq Below(stack'[n].dir)
                 /\ n > 1 => stack'[n].dir \in stack'[n - 1].names
                 /\ \A m \in DOMAIN stack' : stack'[m].dir \notin stack'[n].left /\ (m # n => stack'[m].dir # stack'[n].dir)
      BY <1>0, <2>3 DEF StackInv
    <2> QED
      BY <2>5, <2>6 DEF StackInv
  <1>6. CASE Statted
    <2>1. PICK p \in Top.left : StattedSome(p)
      BY <1>6 DEF Statted
    <2>2. stack # <<>>
      BY <1>2, <2>1 DEF StattedSome
    <2> DEFINE L == Top.left \ {p}
    <2>3. L \in SUBSET Paths /\ Top.names \in SUBSET Paths
      BY <2>2, TopIs
    <2>4. Restacked(Top.names, L)
      BY <2>1, <2>2, <2>3, RestackedBy DEF StattedSome
    <2>5. L \subseteq Top.names /\ Top.names \subseteq Below(Top.dir) /\ \A m \in DOMAIN stack : stack[m].dir \notin L
      BY <1>0, <2>2, TopIs DEF StackInv
    <2> HIDE DEF L
    <2> QED
      BY <1>0, <2>2, <2>3, <2>4, <2>5, StackStays
  <1>7. CASE Entered
    <2>1. entry \in Entries /\ entry.path \in Paths /\ entry.obj \in Objects /\ entry # None /\ stack # <<>>
      BY <1>2, <1>7, EntryIs, Somethings DEF Entered, InWork
    <2>2. Stacked(entry.path, entry.obj)
      BY <1>7, <2>1, StackedBy DEF Entered
    <2>3. Len(stack) \in Nat \ {0} /\ DOMAIN stack = 1 .. Len(stack) /\ Top = stack[Len(stack)]
      BY <2>1, TopIs, StackBase
    <2>4. entry.path \in Top.names /\ \A n \in DOMAIN stack : entry.path \notin stack[n].left /\ entry.path # stack[n].dir
      BY <1>0, <2>1 DEF EntryInv
    <2>5. /\ DOMAIN stack' = 1 .. Len(stack) + 1 /\ \A n \in DOMAIN stack : stack'[n] = stack[n]
          /\ stack'[Len(stack) + 1].dir = entry.path /\ stack'[Len(stack) + 1].obj = entry.obj
          /\ stack'[Len(stack) + 1].names = {} /\ stack'[Len(stack) + 1].left = {}
      BY <2>2 DEF Stacked
    <2>6. entry.obj.kind = "DIRECTORY"
      BY <1>7 DEF Entered
    <2>7. stack'[1].dir = Root
      BY <1>0, <2>1, <2>3, <2>5 DEF StackInv
    <2>8. ASSUME NEW n \in DOMAIN stack'
          PROVE  /\ stack'[n].obj.kind = "DIRECTORY"
                 /\ stack'[n].left \subseteq stack'[n].names /\ stack'[n].names \subseteq Below(stack'[n].dir)
                 /\ n > 1 => stack'[n].dir \in stack'[n - 1].names
                 /\ \A m \in DOMAIN stack' : stack'[m].dir \notin stack'[n].left /\ (m # n => stack'[m].dir # stack'[n].dir)
      <3>1. CASE n \in DOMAIN stack
        <4>1. /\ stack[n].obj.kind = "DIRECTORY"
              /\ stack[n].left \subseteq stack[n].names /\ stack[n].names \subseteq Below(stack[n].dir)
              /\ n > 1 => stack[n].dir \in stack[n - 1].names
              /\ \A m \in DOMAIN stack : stack[m].dir \notin stack[n].left /\ (m # n => stack[m].dir # stack[n].dir)
          BY <1>0, <3>1 DEF StackInv
        <4>2. stack'[n] = stack[n] /\ (n > 1 => stack'[n - 1] = stack[n - 1])
          BY <2>3, <2>5, <3>1
        <4>3. \A m \in DOMAIN stack' : m \in DOMAIN stack \/ m = Len(stack) + 1
          BY <2>3, <2>5
        <4>4. \A m \in DOMAIN stack' : stack'[m].dir \notin stack'[n].left /\ (m # n => stack'[m].dir # stack'[n].dir)
          BY <2>4, <2>5, <3>1, <4>1, <4>2, <4>3
        <4> QED
          BY <4>1, <4>2, <4>4
      <3>2. CASE n = Len(stack) + 1
        <4>1. stack'[n - 1] = Top
          BY <2>3, <2>5, <3>2
        <4>2. \A m \in DOMAIN stack' : m # n => m \in DOMAIN stack
          BY <2>3, <2>5, <3>2
        <4> QED
          BY <2>4, <2>5, <2>6, <3>2, <4>1, <4>2
      <3> QED
        BY <2>3, <2>5, <3>1, <3>2
    <2> QED
      BY <2>7, <2>8 DEF StackInv
  <1>8. CASE Refused \/ FileRowed \/ FileOpened \/ FileRead \/ Finished \/ PassEnded
    <2>1. stack' = stack
      BY <1>8 DEF Refused, FileRowed, FileOpened, FileRead, Finished, PassEnded
    <2> QED
      BY <1>0, <2>1 DEF StackInv
  <1> QED
    BY <1>1, <1>3, <1>4, <1>5, <1>6, <1>7, <1>8 DEF WalkFacts

LEMMA EntryStep ==
    ASSUME TypeInv, TreeInv, WalkInv, SiteFacts \/ WalkFacts
    PROVE  EntryInv'
  <1>0. StackInv /\ EntryInv
    BY DEF WalkInv
  <1>1. CASE SiteFacts
    BY <1>0, <1>1 DEF SiteFacts, helper, EntryInv, Top
  <1>2. step \in {"list", "child", "open", "read", "hashed", "final"} => stack # <<>>
    BY DEF WalkInv, PlaceInv
  <1>3. step \notin {"open", "read", "hashed", "final"} => entry = None
    BY DEF WalkInv, PlaceInv, InWork
  <1>4. CASE RootOpened \/ Listed \/ Refused \/ Entered \/ Finished \/ PassEnded
    <2>1. entry' = None
      BY <1>3, <1>4 DEF RootOpened, Listed, Refused, Entered, Finished, PassEnded
    <2> QED
      BY <2>1 DEF EntryInv
  <1>5. CASE Left
    <2>1. stack # <<>> /\ Len(stack) \in Nat \ {0} /\ DOMAIN stack = 1 .. Len(stack) /\ Top = stack[Len(stack)]
      BY <1>2, <1>5, TopIs, StackBase DEF Left
    <2>2. Unstacked
      BY <1>5, <2>1, UnstackedBy DEF Left
    <2>3. Top.dir = Root <=> Len(stack) = 1
      BY <1>0, <2>1, BottomOnly
    <2>4. CASE Len(stack) = 1
      BY <1>5, <2>3, <2>4 DEF Left, EntryInv
    <2>5. CASE Len(stack) > 1
      <3>1. entry' = [path |-> Top.dir, obj |-> Top.obj, hash |-> None]
        <4>1. Top.dir # Root
          BY <2>1, <2>3, <2>5
        <4> QED
          BY <1>5, <4>1 DEF Left
      <3>2. entry'.path = Top.dir
        BY <3>1
      <3>3. Top' = stack[Len(stack) - 1] /\ \A n \in DOMAIN stack' : n \in DOMAIN stack /\ stack'[n] = stack[n] /\ n # Len(stack)
        <4>1. Top' = stack[Len(stack) - 1]
          BY <2>2, <2>5 DEF Unstacked
        <4>2. DOMAIN stack' = 1 .. Len(stack) - 1 /\ \A n \in DOMAIN stack' : n \in DOMAIN stack /\ stack'[n] = stack[n]
          BY <2>2 DEF Unstacked
        <4>3. \A n \in DOMAIN stack' : n # Len(stack)
          BY <2>1, <4>2
        <4> QED
          BY <4>1, <4>2, <4>3
      <3>4. Top.dir \in Top'.names
        BY <1>0, <2>1, <2>5, <3>3 DEF StackInv
      <3>5. \A n \in DOMAIN stack' : Top.dir \notin stack'[n].left /\ Top.dir # stack'[n].dir
        BY <1>0, <2>1, <3>3 DEF StackInv
      <3> QED
        BY <3>2, <3>4, <3>5 DEF EntryInv
    <2> QED
      BY <2>1, <2>4, <2>5
  <1>6. CASE Statted
    <2>1. PICK p \in Top.left : StattedSome(p)
      BY <1>6 DEF Statted
    <2>2. stack # <<>> /\ step = "child"
      BY <1>2, <2>1 DEF StattedSome
    <2>3. CASE step' = "child"
      BY <1>3, <2>1, <2>2, <2>3 DEF StattedSome, EntryInv
    <2>4. CASE step' # "child"
      <3> DEFINE L == Top.left \ {p}
      <3>1. L \in SUBSET Paths /\ Top.names \in SUBSET Paths /\ p \in Paths
        BY <2>2, TopIs
      <3>2. Restacked(Top.names, L)
        BY <2>1, <2>2, <3>1, RestackedBy DEF StattedSome
      <3>3. entry'.path = p
        BY <2>1, <2>4 DEF StattedSome
      <3>4. Len(stack) \in DOMAIN stack /\ Top = stack[Len(stack)]
        BY <2>2, TopIs
      <3>5. p \in Top.names /\ p \in Below(Top.dir)
        BY <1>0, <3>4 DEF StackInv
      <3>6. ASSUME NEW n \in DOMAIN stack
            PROVE  p \notin stack'[n].left /\ p # stack'[n].dir
        <4>1. CASE n = Len(stack)
          <5>1. stack'[n].left = L /\ stack'[n].dir = Top.dir
            BY <3>2, <4>1 DEF Restacked
          <5> QED
            BY <1>0, <3>4, <5>1 DEF StackInv
        <4>2. CASE n # Len(stack)
          <5>1. stack'[n] = stack[n]
            BY <3>2, <4>2 DEF Restacked
          <5>2. stack[n].left \subseteq Below(stack[n].dir) /\ stack[n].dir # Top.dir /\ p # stack[n].dir
            BY <1>0, <3>4, <4>2 DEF StackInv
          <5>3. Parent[p] = Top.dir /\ (p \in Below(stack[n].dir) => Parent[p] = stack[n].dir)
            BY <2>2, <3>1, <3>5, TopIs, StackBase, PathFacts
          <5> QED
            BY <5>1, <5>2, <5>3
        <4> QED
          BY <4>1, <4>2
      <3> HIDE DEF L
      <3> QED
        BY <3>2, <3>3, <3>5, <3>6 DEF EntryInv, Restacked
    <2> QED
      BY <2>3, <2>4
  <1>7. CASE FileRowed \/ FileOpened \/ FileRead
    <2>1. stack' = stack /\ entry'.path = entry.path /\ entry # None
      <3>1. InWork
        BY <1>7 DEF FileRowed, FileOpened, FileRead, InWork
      <3>2. entry # None
        BY <3>1 DEF WalkInv, PlaceInv
      <3>3. stack' = stack /\ entry'.path = entry.path
        BY <1>7 DEF FileRowed, FileOpened, FileRead
      <3> QED
        BY <3>2, <3>3
    <2> QED
      BY <1>0, <2>1 DEF EntryInv, Top
  <1> QED
    BY <1>1, <1>4, <1>5, <1>6, <1>7 DEF WalkFacts

LEMMA WalkStep ==
    ASSUME TypeInv, TreeInv, WalkInv, SiteFacts \/ WalkFacts
    PROVE  WalkInv'
  BY PlaceStep, StackStep, EntryStep DEF WalkInv

-----------------------------------------------------------------------------
(* What is still to come.                                                  *)

\* Whatever is not in X stays before the pass.
Touches(X) == pass' = pass /\ \A p \in Paths \ X : Untouched(p) => Untouched(p)'

LEMMA TouchesBy ==
    ASSUME TypeInv, pass' = pass, NEW X, NEW S, NEW J, NEW D, NEW t,
           NewRows(S), NewIssues(J), Looks(D, t),
           \A r \in S : r.path \in X, \A j \in J : j.path \in X, D \subseteq X
    PROVE  Touches(X)
  <1>1. pass \in 1 .. 2
    BY DEF TypeInv
  <1> SUFFICES ASSUME NEW p \in Paths \ X, Untouched(p)
               PROVE  Untouched(p)'
    BY DEF Touches
  <1>2. ToSet(rows'[pass']) = R(pass) \cup S /\ ToSet(issues'[pass']) = I(pass) \cup J
    BY <1>1 DEF NewRows, NewIssues
  <1>3. ~Rowed(pass, p)' /\ ~Issued(pass, p)'
    BY <1>2 DEF Untouched, Rowed, Issued, R, I
  <1>4. pass' = 1 => seen'[1][p] = Unseen
    BY <1>1 DEF Untouched, Looks
  <1> QED
    BY <1>3, <1>4 DEF Untouched

LEMMA LooksAtAll ==
    ASSUME NEW p, LooksAt(p)
    PROVE  \E t : Looks({p}, t)
  BY DEF LooksAt

\* What is touched in a directory leaves alone what is left in those that are open.
LEMMA LeftClear ==
    ASSUME TypeInv, StackInv, stack # <<>>, NEW X, X \subseteq {Top.dir} \cup Below(Top.dir),
           NEW n \in DOMAIN stack, NEW r,
           (n # Len(stack) /\ r \in stack[n].left) \/ (n = Len(stack) /\ r \in Below(Top.dir) \ X)
    PROVE  ({r} \cup Below(r)) \cap X = {} /\ r \in Paths \ {Root}
  <1>1. /\ Len(stack) \in DOMAIN stack /\ DOMAIN stack = 1 .. Len(stack) /\ Len(stack) \in Nat \ {0}
        /\ Top = stack[Len(stack)] /\ Top.dir \in Paths /\ stack[n].dir \in Paths
    BY TopIs, StackBase
  <1>2. r \in Below(stack[n].dir) /\ r \in Paths \ {Root} /\ Parent[r] = stack[n].dir
    <2>1. r \in Below(stack[n].dir)
      BY <1>1 DEF StackInv
    <2> QED
      BY <1>1, <2>1, PathFacts
  <1>3. Top.dir # Root => Parent[Top.dir] \in {stack[k].dir : k \in DOMAIN stack}
    <2> SUFFICES ASSUME Top.dir # Root
                 PROVE  Parent[Top.dir] \in {stack[k].dir : k \in DOMAIN stack}
      OBVIOUS
    <2>1. Len(stack) # 1
      BY BottomOnly
    <2>2. Len(stack) - 1 \in DOMAIN stack /\ Len(stack) > 1
      BY <1>1, <2>1
    <2>3. Top.dir \in Below(stack[Len(stack) - 1].dir) /\ stack[Len(stack) - 1].dir \in Paths
      BY <1>1, <2>2, StackBase DEF StackInv
    <2> QED
      BY <1>1, <2>2, <2>3, PathFacts
  <1>4. CASE n # Len(stack) /\ r \in stack[n].left
    <2>1. r # Top.dir /\ stack[n].dir # Top.dir /\ \A k \in DOMAIN stack : r # stack[k].dir
      BY <1>1, <1>4 DEF StackInv
    <2>2. r \notin X
      BY <1>1, <1>2, <2>1, PathFacts
    <2>3. ASSUME NEW q \in Below(r) PROVE q \notin X
      <3>1. q \in Paths \ {Root} /\ Parent[q] = r
        BY <1>2, PathFacts
      <3>2. q # Top.dir
        BY <1>3, <2>1, <3>1
      <3>3. q \notin Below(Top.dir)
        BY <1>1, <2>1, <3>1, PathFacts
      <3> QED
        BY <3>2, <3>3
    <2> QED
      BY <1>2, <2>2, <2>3
  <1>5. CASE n = Len(stack) /\ r \in Below(Top.dir) \ X
    <2>1. ASSUME NEW q \in Below(r) PROVE q \notin X
      <3>1. q \in Paths \ {Root} /\ Parent[q] = r /\ Parent[r] = Root
        BY <1>2, PathFacts
      <3>2. Top.dir = Root
        BY <1>1, <1>2, <1>5, <3>1
      <3>3. q \notin Below(Root)
        BY <1>2, <3>1, PathFacts
      <3> QED
        BY <3>1, <3>2, <3>3
    <2> QED
      BY <1>2, <1>5, <2>1
  <1> QED
    BY <1>4, <1>5

\* The names that are left stay before the pass.
LEMMA LeftStays ==
    ASSUME TypeInv, StackInv, FreshInv, stack # <<>>, NEW X, X \subseteq {Top.dir} \cup Below(Top.dir), Touches(X),
           NEW n \in DOMAIN stack, NEW r,
           (n # Len(stack) /\ r \in stack[n].left) \/ (n = Len(stack) /\ r \in Below(Top.dir) \ X),
           Fresh(r)
    PROVE  Fresh(r)'
  <1>1. ({r} \cup Below(r)) \cap X = {} /\ r \in Paths \ {Root}
    BY LeftClear
  <1>2. \A q \in {r} \cup Below(r) : q \in Paths \ X
    BY <1>1, PathFacts
  <1> QED
    BY <1>2 DEF Touches, Fresh

LEMMA SamePass ==
    ASSUME TypeInv, WalkFacts
    PROVE  /\ pass' = pass \/ PassEnded
           /\ between' = between \/ pass = 2
           /\ \E S : NewRows(S)
           /\ \E J : NewIssues(J)
           /\ \E D, t : Looks(D, t)
  <1>1. CASE RootOpened \/ Listed \/ Left \/ Entered \/ FileOpened \/ FileRead \/ PassEnded
    <2>1. pass' = pass \/ PassEnded
      BY <1>1 DEF RootOpened, Listed, Left, Entered, FileOpened, FileRead
    <2>2. between' = between \/ pass = 2
      BY <1>1 DEF RootOpened, Listed, Left, Entered, FileOpened, FileRead, PassEnded
    <2>3. \E S : NewRows(S)
      BY <1>1 DEF RootOpened, Listed, Left, Entered, FileOpened, FileRead, PassEnded
    <2>4. \E J : NewIssues(J)
      BY <1>1 DEF RootOpened, Listed, Left, Entered, FileOpened, FileRead, PassEnded
    <2>5. \E D : Looks(D, tree)
      BY <1>1 DEF RootOpened, Listed, Left, Entered, FileOpened, FileRead, PassEnded
    <2> QED
      BY <2>1, <2>2, <2>3, <2>4, <2>5
  <1>2. CASE Statted
    <2>1. PICK p \in Top.left : StattedSome(p)
      BY <1>2 DEF Statted
    <2>2. /\ pass' = pass /\ between' = between /\ NewRows({}) /\ \E S : NewIssues(S)
          /\ Looks({}, tree) \/ LooksAt(p)
      BY <2>1 DEF StattedSome
    <2> QED
      BY <2>2, LooksAtAll
  <1>3. CASE Refused
    <2>1. /\ pass' = pass /\ between' = between /\ NewRows({}) /\ \E S : NewIssues(S)
          /\ Looks({}, tree) \/ LooksAt(entry.path)
      BY <1>3 DEF Refused
    <2> QED
      BY <2>1, LooksAtAll
  <1>4. CASE FileRowed
    BY <1>4 DEF FileRowed
  <1>5. CASE Finished
    <2>1. pass' = pass /\ between' = between /\ NewRows({}) /\ LooksAt(entry.path) /\ \E S : NewIssues(S)
      BY <1>5 DEF Finished
    <2> QED
      BY <2>1, LooksAtAll
  <1> QED
    BY <1>1, <1>2, <1>3, <1>4, <1>5 DEF WalkFacts

LEMMA SecondStep ==
    ASSUME TypeInv, SecondInv, SiteFacts \/ WalkFacts
    PROVE  SecondInv'
  <1>1. CASE SiteFacts
    BY <1>1 DEF SiteFacts, helper, SecondInv, R, I
  <1>2. CASE WalkFacts
    <2> SUFFICES ASSUME pass' = 1
                 PROVE  /\ between' = None /\ ToSet(rows'[2]) = {} /\ ToSet(issues'[2]) = {}
                        /\ \A p \in Paths : seen'[2][p] = Unseen
      BY DEF SecondInv, R, I
    <2>1. pass \in 1 .. 2
      BY DEF TypeInv
    <2>2. pass = 1
      BY <1>2, <2>1, SamePass DEF PassEnded
    <2>3. between = None /\ R(2) = {} /\ I(2) = {} /\ \A p \in Paths : seen[2][p] = Unseen
      BY <2>2 DEF SecondInv
    <2>4. between' = None
      BY <1>2, <2>2, <2>3, SamePass
    <2>5. ToSet(rows'[2]) = {}
      BY <1>2, <2>2, <2>3, SamePass DEF NewRows
    <2>6. ToSet(issues'[2]) = {}
      BY <1>2, <2>2, <2>3, SamePass DEF NewIssues
    <2>7. \A p \in Paths : seen'[2][p] = Unseen
      BY <1>2, <2>2, <2>3, SamePass DEF Looks
    <2> QED
      BY <2>4, <2>5, <2>6, <2>7
  <1> QED
    BY <1>1, <1>2

LEMMA RowForIs ==
    ASSUME NEW p, NEW o, NEW h
    PROVE  RowFor(p, o, h).path = p /\ RowFor(p, o, h).obj = Stat(o) /\ RowFor(p, o, h).hash = h
  BY DEF RowFor

LEMMA IssueAt ==
    ASSUME NEW r, NEW p, NEW d
    PROVE  Issue(r, p, d).path = p /\ Issue(r, p, d).reason = r /\ Issue(r, p, d).detail = d
  BY DEF Issue

\* What each step touches.
LEMMA RootTouches ==
    ASSUME TypeInv, RootOpened
    PROVE  Touches({Root})
  <1>1. /\ pass' = pass /\ NewRows({RowFor(Root, tree[Root], None)}) /\ NewIssues({}) /\ Looks({Root}, tree)
    BY DEF RootOpened
  <1> QED
    BY <1>1, RowForIs, TouchesBy

LEMMA ListTouches ==
    ASSUME TypeInv, Listed
    PROVE  Touches(Below(Top.dir) \ There(Top.dir))
  <1>1. pass' = pass /\ NewRows({}) /\ NewIssues({}) /\ Looks(Below(Top.dir) \ There(Top.dir), tree)
    BY DEF Listed
  <1> QED
    BY <1>1, TouchesBy

LEMMA LeaveTouches ==
    ASSUME TypeInv, Left
    PROVE  Touches({Top.dir} \cup (Below(Top.dir) \ Top.names))
  <1> DEFINE X == {Top.dir} \cup (Below(Top.dir) \ Top.names)
  <1>1. pass' = pass /\ NewRows({})
    BY DEF Left
  <1>2. \E J, D : NewIssues(J) /\ Looks(D, tree) /\ D \subseteq X /\ \A j \in J : j.path = Top.dir
    <2>1. CASE /\ NewIssues({Issue("DIRECTORY_READ_UNRESOLVED", Top.dir, "getdents")}) /\ Looks({}, tree)
      BY <2>1, IssueAt
    <2>2. CASE /\ NewIssues(IF There(Top.dir) # Top.names
                       THEN {Issue("DIRECTORY_IDENTITY_RACE", Top.dir, "changed")} ELSE {})
               /\ Looks(Below(Top.dir) \ Top.names, tree)
      <3>1. \A j \in IF There(Top.dir) # Top.names
                       THEN {Issue("DIRECTORY_IDENTITY_RACE", Top.dir, "changed")} ELSE {} : j.path = Top.dir
        BY IssueAt
      <3> QED
        BY <2>2, <3>1
    <2> QED
      BY <2>1, <2>2 DEF Left
  <1> QED
    BY <1>1, <1>2, TouchesBy

LEMMA StatTouches ==
    ASSUME TypeInv, NEW p, StattedSome(p)
    PROVE  Touches({p})
  <1>1. pass' = pass /\ NewRows({}) /\ (Looks({}, tree) \/ LooksAt(p))
    BY DEF StattedSome
  <1>2. \E J : NewIssues(J) /\ \A j \in J : j.path = p
    BY IssueAt DEF StattedSome
  <1>3. CASE Looks({}, tree)
    BY <1>1, <1>2, <1>3, TouchesBy
  <1>4. CASE LooksAt(p)
    BY <1>1, <1>2, <1>4, LooksAtAll, TouchesBy
  <1> QED
    BY <1>1, <1>3, <1>4

LEMMA RefuseTouches ==
    ASSUME TypeInv, Refused
    PROVE  Touches({entry.path})
  <1>1. pass' = pass /\ NewRows({})
    BY DEF Refused
  <1>2. \E J : NewIssues(J) /\ \A j \in J : j.path = entry.path
    <2>1. CASE NewIssues({Issue("DIRECTORY_OPEN_UNRESOLVED", entry.path, "open")})
      BY <2>1, IssueAt
    <2>2. CASE NewIssues({Issue(IF IsDirectory(Found(entry.path)) THEN "DIRECTORY_IDENTITY_RACE"
                              ELSE "DIRECTORY_OPEN_UNRESOLVED", entry.path, "open")})
      BY <2>2, IssueAt
    <2> QED
      BY <2>1, <2>2 DEF Refused
  <1>3. \E D, t : Looks(D, t) /\ D \subseteq {entry.path}
    <2>1. Looks({}, tree) \/ LooksAt(entry.path)
      BY DEF Refused
    <2>2. CASE Looks({}, tree)
      BY <2>2
    <2>3. CASE LooksAt(entry.path)
      <3>1. PICK t : Looks({entry.path}, t)
        BY <2>3, LooksAtAll
      <3> QED
        BY <3>1
    <2> QED
      BY <2>1, <2>2, <2>3
  <1> QED
    BY <1>1, <1>2, <1>3, TouchesBy

LEMMA EnterTouches ==
    ASSUME TypeInv, Entered
    PROVE  Touches({entry.path})
  <1>1. pass' = pass /\ NewRows({RowFor(entry.path, entry.obj, None)}) /\ NewIssues({}) /\ Looks({}, tree)
    BY DEF Entered
  <1> QED
    BY <1>1, RowForIs, TouchesBy

LEMMA FileTouches ==
    ASSUME TypeInv, FileRowed \/ FileOpened \/ FileRead
    PROVE  Touches({entry.path})
  <1>1. CASE FileRowed
    <2>1. pass' = pass /\ Looks({}, tree)
      BY <1>1 DEF FileRowed
    <2>2. PICK h, J : NewRows({RowFor(entry.path, entry.obj, h)}) /\ NewIssues(J) /\ \A j \in J : j.path = entry.path
      BY <1>1 DEF FileRowed
    <2> QED
      BY <2>1, <2>2, RowForIs, TouchesBy
  <1>2. CASE FileOpened \/ FileRead
    <2>1. pass' = pass /\ NewRows({}) /\ NewIssues({}) /\ Looks({}, tree)
      BY <1>2 DEF FileOpened, FileRead
    <2> QED
      BY <2>1, TouchesBy
  <1> QED
    BY <1>1, <1>2

LEMMA FinishTouches ==
    ASSUME TypeInv, Finished
    PROVE  Touches({entry.path})
  <1>1. pass' = pass /\ NewRows({}) /\ LooksAt(entry.path)
    BY DEF Finished
  <1>2. \E J : NewIssues(J) /\ \A j \in J : j.path = entry.path
    <2> DEFINE J == IF Found(entry.path) = None
                 THEN {Issue("ENTRY_FINAL_RACE", entry.path, "stat")}
                 ELSE IF ~SameStat(tree[entry.path], entry.obj)
                 THEN {Issue("ENTRY_IDENTITY_RACE", entry.path, "changed")} ELSE {}
    <2>1. \A j \in J : j.path = entry.path
      BY IssueAt
    <2>2. NewIssues(J)
      BY DEF Finished
    <2> QED
      BY <2>1, <2>2
  <1> QED
    BY <1>1, <1>2, LooksAtAll, TouchesBy

LEMMA FreshWalk ==
    ASSUME TypeInv, WalkInv, SecondInv, FreshInv, WalkFacts
    PROVE  FreshInv'
  <1>0. StackInv /\ EntryInv /\ pass \in 1 .. 2
    BY DEF WalkInv, TypeInv
  <1>1. step \in {"list", "child", "open", "read", "hashed", "final"} => stack # <<>>
    BY DEF WalkInv, PlaceInv
  <1>2. step \in {"root", "rootEnd", "done"} => stack = <<>>
    BY DEF WalkInv, PlaceInv
  <1>3. stack # <<>> => /\ Top.dir \in Paths /\ Len(stack) \in DOMAIN stack /\ Top = stack[Len(stack)]
                        /\ Top.left \subseteq Below(Top.dir) /\ Top.names \subseteq Below(Top.dir)
    BY <1>0, TopIs DEF StackInv
  <1>4. CASE RootOpened
    <2>1. Touches({Root}) /\ step = "root" /\ step' = "list"
      BY <1>4, RootTouches DEF RootOpened
    <2>2. /\ DOMAIN stack' = {1} /\ stack'[1] = [dir |-> Root, obj |-> tree[Root], names |-> {}, left |-> {}]
          /\ Len(stack') = 1
      BY <1>4 DEF RootOpened
    <2>3. stack'[1].left = {} /\ Top'.dir = Root
      BY <2>2 DEF Top, Last
    <2>4. \A p \in Paths \ {Root} : Untouched(p)'
      BY <2>1 DEF FreshInv, Touches
    <2>5. \A p \in Below(Root) : \A q \in {p} \cup Below(p) : q \in Paths \ {Root}
      BY PathFacts
    <2>6. \A p \in Below(Top'.dir) : Fresh(p)'
      BY <2>3, <2>4, <2>5 DEF Fresh
    <2> QED
      BY <2>1, <2>2, <2>3, <2>6 DEF FreshInv
  <1>5. CASE Listed
    <2> DEFINE N == There(Top.dir)
               X == Below(Top.dir) \ N
    <2>1. Touches(X) /\ step = "list" /\ step' = "child" /\ stack # <<>>
      BY <1>1, <1>5, ListTouches DEF Listed
    <2>2. N \in SUBSET Paths /\ N \subseteq Below(Top.dir)
      BY <1>3, <2>1, PathFacts DEF There
    <2>3. Restacked(N, N)
      BY <1>5, <2>1, <2>2, RestackedBy DEF Listed
    <2>4. \A p \in Below(Top.dir) : Fresh(p)
      BY <2>1 DEF FreshInv
    <2> HIDE DEF N
    <2>5. ASSUME NEW n \in DOMAIN stack', NEW r \in stack'[n].left
          PROVE  Fresh(r)'
      <3>1. n \in DOMAIN stack
        BY <2>3 DEF Restacked
      <3>2. CASE n = Len(stack)
        <4>1. stack'[n].left = N
          BY <2>3, <3>2 DEF Restacked
        <4>2. r \in Below(Top.dir) \ X /\ Fresh(r)
          BY <2>2, <2>4, <2>5, <4>1
        <4> QED
          BY <1>0, <2>1, <3>1, <3>2, <4>2, LeftStays
      <3>3. CASE n # Len(stack)
        <4>1. r \in stack[n].left
          BY <2>3, <2>5, <3>1, <3>3 DEF Restacked
        <4>2. Fresh(r)
          BY <3>1, <4>1 DEF FreshInv
        <4> QED
          BY <1>0, <2>1, <3>1, <3>3, <4>1, <4>2, LeftStays
      <3> QED
        BY <3>2, <3>3
    <2> QED
      BY <2>1, <2>5 DEF FreshInv
  <1>6. CASE Left
    <2> DEFINE X == {Top.dir} \cup (Below(Top.dir) \ Top.names)
    <2>1. Touches(X) /\ stack # <<>> /\ step' \in {"rootEnd", "final"}
      BY <1>1, <1>6, LeaveTouches DEF Left
    <2>2. Unstacked /\ Len(stack) \in Nat
      BY <1>6, <2>1, UnstackedBy, StackBase DEF Left
    <2>3. ASSUME NEW n \in DOMAIN stack', NEW r \in stack'[n].left
          PROVE  Fresh(r)'
      <3>1. n \in DOMAIN stack /\ r \in stack[n].left
        BY <2>2, <2>3 DEF Unstacked
      <3>2. n # Len(stack)
        BY <2>2 DEF Unstacked
      <3>3. Fresh(r)
        BY <3>1 DEF FreshInv
      <3> QED
        BY <1>0, <2>1, <3>1, <3>2, <3>3, LeftStays
    <2> QED
      BY <2>1, <2>3 DEF FreshInv
  <1>7. CASE Statted
    <2>1. PICK p \in Top.left : StattedSome(p)
      BY <1>7 DEF Statted
    <2>2. stack # <<>> /\ Touches({p}) /\ step = "child" /\ p \in Paths
      BY <1>1, <1>3, <2>1, StatTouches, TopIs DEF StattedSome
    <2> DEFINE L == Top.left \ {p}
    <2>3. L \in SUBSET Paths /\ Top.names \in SUBSET Paths
      BY <2>2, TopIs
    <2>4. Restacked(Top.names, L)
      BY <2>1, <2>2, <2>3, RestackedBy DEF StattedSome
    <2>5. Fresh(p)
      BY <1>3, <2>2 DEF FreshInv
    <2>6. p \in Below(Top.dir) /\ {p} \subseteq {Top.dir} \cup Below(Top.dir)
      BY <1>3, <2>2
    <2>7. ASSUME NEW n \in DOMAIN stack', NEW r \in stack'[n].left
          PROVE  Fresh(r)'
      <3>1. n \in DOMAIN stack
        BY <2>4 DEF Restacked
      <3>2. CASE n = Len(stack)
        <4>1. stack'[n].left = L
          BY <2>4, <3>2 DEF Restacked
        <4>2. r \in Below(Top.dir) \ {p} /\ r \in stack[n].left
          BY <1>3, <2>2, <2>7, <3>2, <4>1
        <4>3. Fresh(r)
          BY <3>1, <4>2 DEF FreshInv
        <4> QED
          BY <1>0, <2>2, <2>6, <3>1, <3>2, <4>2, <4>3, LeftStays
      <3>3. CASE n # Len(stack)
        <4>1. r \in stack[n].left
          BY <2>4, <2>7, <3>1, <3>3 DEF Restacked
        <4>2. Fresh(r)
          BY <3>1, <4>1 DEF FreshInv
        <4> QED
          BY <1>0, <2>2, <2>6, <3>1, <3>3, <4>1, <4>2, LeftStays
      <3> QED
        BY <3>2, <3>3
    <2>8. CASE step' = "child"
      BY <2>7, <2>8 DEF FreshInv
    <2>9. CASE step' # "child"
      <3>1. step' = "open" /\ entry' = [path |-> p, obj |-> tree[p], hash |-> None] /\ NewRows({}) /\ NewIssues({}) /\ pass' = pass
        BY <2>1, <2>9 DEF StattedSome
      <3>2. entry'.path = p
        BY <3>1
      <3>3. ~Rowed(pass, p) /\ ~Issued(pass, p)
        BY <2>5 DEF Fresh, Untouched
      <3>4. ToSet(rows'[pass']) = R(pass) /\ ToSet(issues'[pass']) = I(pass)
        BY <1>0, <3>1 DEF NewRows, NewIssues
      <3>5. ~Rowed(pass, entry.path)' /\ ~Issued(pass, entry.path)'
        BY <3>2, <3>3, <3>4 DEF Rowed, Issued, R, I
      <3>6. \A q \in Below(p) : Untouched(q)'
        <4>1. \A q \in Below(p) : q \in Paths \ {p} /\ Untouched(q)
          BY <2>2, <2>5, PathFacts DEF Fresh
        <4> QED
          BY <2>2, <4>1 DEF Touches
      <3>7. \A q \in Below(entry'.path) : Untouched(q)'
        BY <3>2, <3>6
      <3> QED
        BY <2>7, <3>1, <3>5, <3>7 DEF FreshInv
    <2> QED
      BY <2>8, <2>9
  <1>8. CASE Refused \/ FileRowed \/ FileOpened \/ FileRead \/ Finished
    <2>1. InWork /\ stack' = stack /\ step' \notin {"root", "list", "open"}
      BY <1>8 DEF Refused, FileRowed, FileOpened, FileRead, Finished, InWork
    <2>2. Touches({entry.path})
      BY <1>8, RefuseTouches, FileTouches, FinishTouches
    <2>3. stack # <<>> /\ entry # None
      BY <1>1, <2>1 DEF InWork, WalkInv, PlaceInv
    <2>4. entry.path \in Top.names /\ \A n \in DOMAIN stack : entry.path \notin stack[n].left
      BY <1>0, <2>3 DEF EntryInv
    <2>5. {entry.path} \subseteq {Top.dir} \cup Below(Top.dir)
      BY <1>3, <2>3, <2>4
    <2>6. ASSUME NEW n \in DOMAIN stack', NEW r \in stack'[n].left
          PROVE  Fresh(r)'
      <3>1. n \in DOMAIN stack /\ r \in stack[n].left
        BY <2>1, <2>6
      <3>2. n = Len(stack) => r \in Below(Top.dir) \ {entry.path}
        BY <1>3, <2>3, <2>4, <3>1
      <3>3. Fresh(r)
        BY <3>1 DEF FreshInv
      <3> QED
        BY <1>0, <2>2, <2>3, <2>5, <3>1, <3>2, <3>3, LeftStays
    <2>7. step' \in {"read", "hashed"} => ~Rowed(pass, entry.path)' /\ ~Issued(pass, entry.path)'
      <3> SUFFICES ASSUME step' \in {"read", "hashed"}
                   PROVE  ~Rowed(pass, entry.path)' /\ ~Issued(pass, entry.path)'
        OBVIOUS
      <3>1. /\ NewRows({}) /\ NewIssues({}) /\ pass' = pass /\ entry'.path = entry.path
            /\ step \in {"open", "read"}
        BY <1>8 DEF Refused, FileRowed, FileOpened, FileRead, Finished
      <3>2. ~Rowed(pass, entry.path) /\ ~Issued(pass, entry.path)
        BY <3>1 DEF FreshInv
      <3>3. ToSet(rows'[pass']) = R(pass) /\ ToSet(issues'[pass']) = I(pass)
        BY <1>0, <3>1 DEF NewRows, NewIssues
      <3> QED
        BY <3>1, <3>2, <3>3 DEF Rowed, Issued, R, I
    <2> QED
      BY <2>1, <2>6, <2>7 DEF FreshInv
  <1>9. CASE Entered
    <2>1. step = "open" /\ step' = "list" /\ InWork /\ stack # <<>> /\ Touches({entry.path})
      BY <1>1, <1>9, EnterTouches DEF Entered, InWork
    <2>2. entry # None /\ entry.path \in Paths /\ entry.obj \in Objects
      BY <2>1, EntryIs DEF WalkInv, PlaceInv
    <2>3. Stacked(entry.path, entry.obj)
      BY <1>9, <2>2, StackedBy DEF Entered
    <2>4. entry.path \in Top.names /\ \A n \in DOMAIN stack : entry.path \notin stack[n].left
      BY <1>0, <2>2 DEF EntryInv
    <2>5. {entry.path} \subseteq {Top.dir} \cup Below(Top.dir) /\ entry.path \in Paths \ {Root}
      BY <1>3, <2>1, <2>4, PathFacts
    <2>6. Len(stack) \in Nat /\ DOMAIN stack = 1 .. Len(stack)
      BY StackBase
    <2>7. ASSUME NEW n \in DOMAIN stack', NEW r \in stack'[n].left
          PROVE  Fresh(r)'
      <3>1. n \in DOMAIN stack /\ r \in stack[n].left
        BY <2>3, <2>6, <2>7 DEF Stacked
      <3>2. n = Len(stack) => r \in Below(Top.dir) \ {entry.path}
        BY <1>3, <2>1, <2>4, <3>1
      <3>3. Fresh(r)
        BY <3>1 DEF FreshInv
      <3> QED
        BY <1>0, <2>1, <2>5, <3>1, <3>2, <3>3, LeftStays
    <2>8. \A p \in Below(entry.path) : Fresh(p)'
      <3>1. \A p \in Below(entry.path) : Below(p) = {} /\ p \in Paths \ {entry.path}
        BY <2>5, PathFacts
      <3>2. \A p \in Below(entry.path) : Untouched(p)
        BY <2>1 DEF FreshInv
      <3> QED
        BY <2>1, <3>1, <3>2 DEF Touches, Fresh
    <2>9. Top'.dir = entry.path
      BY <2>3 DEF Stacked
    <2>10. \A p \in Below(Top'.dir) : Fresh(p)'
      BY <2>8, <2>9
    <2> QED
      BY <2>1, <2>7, <2>10 DEF FreshInv
  <1>10. CASE PassEnded
    <2>1. stack' = <<>> /\ step' \in {"root", "done"} /\ (step' = "root" => pass = 1 /\ pass' = 2)
      BY <1>2, <1>10 DEF PassEnded
    <2>2. DOMAIN stack' = {}
      BY <2>1
    <2>3. ASSUME step' = "root", NEW p \in Paths PROVE Untouched(p)'
      <3>1. pass = 1 /\ pass' = 2
        BY <2>1, <2>3
      <3>2. R(2) = {} /\ I(2) = {}
        BY <3>1 DEF SecondInv
      <3>3. ToSet(rows'[2]) = {} /\ ToSet(issues'[2]) = {}
        BY <1>10, <3>1, <3>2 DEF PassEnded, NewRows, NewIssues
      <3> QED
        BY <3>1, <3>3 DEF Untouched, Rowed, Issued, R, I
    <2> QED
      BY <2>1, <2>2, <2>3 DEF FreshInv
  <1> QED
    BY <1>4, <1>5, <1>6, <1>7, <1>8, <1>9, <1>10 DEF WalkFacts

LEMMA FreshStep ==
    ASSUME TypeInv, WalkInv, SecondInv, FreshInv, SiteFacts \/ WalkFacts
    PROVE  FreshInv'
  <1>1. CASE SiteFacts
    BY <1>1 DEF SiteFacts, helper, FreshInv, Fresh, Untouched, Rowed, Issued, R, I, Top
  <1> QED
    BY <1>1, FreshWalk

-----------------------------------------------------------------------------
(* What was seen.                                                          *)

LEMMA LaterSelf ==
    ASSUME NEW o
    PROVE  o \in Objects => Later(o, o)
  BY DEF Later, Objects

LEMMA LaterLater ==
    ASSUME NEW a \in Objects, NEW b \in Objects, NEW c \in Objects, Later(a, b), Later(b, c)
    PROVE  Later(a, c)
  <1>1. \A o \in Objects : o.ctime \in Nat /\ o.born \in Nat
    BY DEF Objects
  <1>2. a.ctime <= c.ctime /\ a.born <= c.born
    BY <1>1 DEF Later
  <1>3. ASSUME a.ctime = c.ctime PROVE a = c
    <2>1. a.ctime = b.ctime /\ b.ctime = c.ctime
      BY <1>1, <1>3 DEF Later
    <2> QED
      BY <2>1 DEF Later
  <1>4. ASSUME a.born = c.born PROVE a.kind = c.kind /\ a.ino = c.ino
    <2>1. a.born = b.born /\ b.born = c.born
      BY <1>1, <1>4 DEF Later
    <2> QED
      BY <2>1 DEF Later
  <1> QED
    BY <1>2, <1>3, <1>4 DEF Later

\* What is there is known.
LEMMA KnownThere ==
    ASSUME TypeInv, TreeInv, NEW p \in Paths, tree[p] # None
    PROVE  Known(p, tree[p]) /\ tree[p] \in Objects
  <1>1. tree[p] \in Objects
    BY DEF TypeInv, Trees
  <1> QED
    BY <1>1, LaterSelf DEF Known, TreeInv

\* What is known still after a step.
KnownNext(p, o) ==
    /\ o.born <= o.ctime /\ o.ctime <= changes'
    /\ tree'[p] # None => Later(o, tree'[p])

\* What has changed since is later than anything known.
LEMMA KnownKept ==
    ASSUME TypeInv, TreeInv, NEW p \in Paths, NEW o \in Objects, Known(p, o), SiteFacts \/ UNCHANGED site
    PROVE  KnownNext(p, o)
  <1>1. o.ctime \in Nat /\ o.born \in Nat /\ changes \in Nat /\ tree \in Trees
    BY DEF Objects, TypeInv
  <1>2. CASE UNCHANGED site
    BY <1>2 DEF site, Known, KnownNext
  <1>3. CASE SiteFacts
    <2>1. changes' = changes + 1 /\ Becomes(p) /\ tree' \in Trees
      BY <1>3 DEF SiteFacts
    <2>2. o.born <= o.ctime /\ o.ctime <= changes /\ (tree[p] # None => Later(o, tree[p]))
      BY DEF Known
    <2>3. ASSUME tree'[p] # None PROVE Later(o, tree'[p])
      <3>1. tree'[p] \in Objects /\ (tree[p] # None => tree[p] \in Objects)
        BY <1>1, <2>1, <2>3 DEF Trees
      <3>2. tree'[p].born \in Nat /\ (tree[p] # None => tree[p].born \in Nat)
        BY <3>1 DEF Objects
      <3>3. CASE tree'[p] = tree[p]
        BY <2>2, <2>3, <3>3
      <3>4. CASE tree'[p].ctime = changes + 1 /\ tree'[p].born = changes + 1
        BY <1>1, <2>2, <3>4 DEF Later
      <3>5. CASE /\ tree[p] # None /\ tree'[p].ctime = changes + 1 /\ tree'[p].born = tree[p].born
                 /\ tree'[p].kind = tree[p].kind /\ tree'[p].ino = tree[p].ino
        BY <1>1, <2>2, <3>2, <3>5 DEF Later
      <3> QED
        BY <2>1, <2>3, <3>3, <3>4, <3>5 DEF Becomes
    <2> QED
      BY <1>1, <2>1, <2>2, <2>3 DEF KnownNext
  <1> QED
    BY <1>2, <1>3

\* What a look of the first pass tells, it tells once.
SeenFacts ==
    \A p \in Paths :
        \/ seen'[1][p] = seen[1][p]
        \/ pass = 1 /\ seen[1][p] = Unseen /\ seen'[1][p] \in {tree[p], None}

LEMMA SeenBy ==
    ASSUME TypeInv, WalkFacts
    PROVE  SeenFacts
  <1>1. \A p \in Paths : Nothing[p] = None
    BY DEF Nothing
  <1>2. ASSUME NEW D, NEW t, Looks(D, t), t = tree \/ t = Nothing
        PROVE  SeenFacts
    <2>1. pass \in 1 .. 2
      BY DEF TypeInv
    <2> QED
      BY <1>1, <1>2, <2>1 DEF Looks, SeenFacts
  <1>3. ASSUME NEW p, LooksAt(p)
        PROVE  SeenFacts
    BY <1>2, <1>3 DEF LooksAt
  <1>4. CASE RootOpened \/ Listed \/ Left \/ Entered \/ FileRowed \/ FileOpened \/ FileRead \/ PassEnded
    <2>1. \E D : Looks(D, tree)
      BY <1>4 DEF RootOpened, Listed, Left, Entered, FileRowed, FileOpened, FileRead, PassEnded
    <2> QED
      BY <1>2, <2>1
  <1>5. CASE Statted
    <2>1. \E p : Looks({}, tree) \/ LooksAt(p)
      BY <1>5 DEF Statted, StattedSome
    <2> QED
      BY <1>2, <1>3, <2>1
  <1>6. CASE Refused
    <2>1. Looks({}, tree) \/ LooksAt(entry.path)
      BY <1>6 DEF Refused
    <2> QED
      BY <1>2, <1>3, <2>1
  <1>7. CASE Finished
    BY <1>3, <1>7 DEF Finished
  <1> QED
    BY <1>4, <1>5, <1>6, <1>7 DEF WalkFacts

LEMMA SawStep ==
    ASSUME TypeInv, TreeInv, SawInv, SiteFacts \/ WalkFacts
    PROVE  SawInv'
  <1> SUFFICES ASSUME NEW p \in Paths, Saw(p)'
               PROVE  KnownNext(p, seen'[1][p])
    BY DEF SawInv, Known, KnownNext
  <1>1. seen[1][p] \in Objects \cup {None, Unseen}
    BY DEF TypeInv
  <1>2. SiteFacts \/ UNCHANGED site
    BY DEF WalkFacts, Steady
  <1>3. CASE seen'[1][p] = seen[1][p]
    <2>1. Saw(p) /\ seen[1][p] \in Objects
      BY <1>1, <1>3 DEF Saw
    <2>2. Known(p, seen[1][p])
      BY <2>1 DEF SawInv
    <2> QED
      BY <1>2, <1>3, <2>1, <2>2, KnownKept
  <1>4. CASE seen'[1][p] # seen[1][p]
    <2>1. WalkFacts /\ seen'[1][p] \in {tree[p], None}
      BY <1>4, SeenBy DEF SiteFacts, helper, SeenFacts
    <2>2. tree[p] # None /\ seen'[1][p] = tree[p]
      BY <2>1 DEF Saw
    <2>3. Known(p, tree[p]) /\ tree[p] \in Objects
      BY <2>2, KnownThere
    <2> QED
      BY <1>2, <2>2, <2>3, <2>1, KnownKept DEF WalkFacts, Steady
  <1> QED
    BY <1>3, <1>4

\* What is known after a step of what the pass has looked at.
HandledNext(p, o) ==
    /\ KnownNext(p, o)
    /\ pass' = 1 => seen'[1][p] = o
    /\ pass' = 2 /\ seen'[1][p] \notin {None, Unseen} => Later(seen'[1][p], o)

RowOfNext(p, o) == \E r \in ToSet(rows'[pass']) : r.path = p /\ r.obj = Stat(o)

LEMMA HandledKept ==
    ASSUME TypeInv, TreeInv, NEW p \in Paths, NEW o \in Objects, Handled(p, o), SiteFacts \/ WalkFacts, pass' = pass
    PROVE  HandledNext(p, o)
  <1>1. KnownNext(p, o)
    BY KnownKept DEF Handled, WalkFacts, Steady
  <1>2. pass \in 1 .. 2 /\ o \notin {None, Unseen}
    BY Somethings DEF TypeInv
  <1>3. CASE SiteFacts
    <2>1. seen' = seen
      BY <1>3 DEF SiteFacts, helper
    <2> QED
      BY <1>1, <2>1 DEF Handled, HandledNext, Saw
  <1>4. CASE WalkFacts
    BY <1>1, <1>2, <1>4, SeenBy DEF SeenFacts, Handled, HandledNext, Saw
  <1> QED
    BY <1>3, <1>4

LEMMA HandledThere ==
    ASSUME TypeInv, TreeInv, SawInv, WalkFacts, NEW p \in Paths, tree[p] # None, pass' = pass,
           pass = 1 => seen[1][p] = Unseen, NEW D, p \in D, Looks(D, tree)
    PROVE  HandledNext(p, tree[p])
  <1>1. tree[p] \in Objects /\ Known(p, tree[p]) /\ pass \in 1 .. 2
    BY KnownThere DEF TypeInv
  <1>2. KnownNext(p, tree[p])
    BY <1>1, KnownKept DEF WalkFacts, Steady
  <1>3. pass = 1 => seen'[1][p] = tree[p]
    BY DEF Looks
  <1>4. ASSUME pass = 2, seen'[1][p] \notin {None, Unseen}
        PROVE  Later(seen'[1][p], tree[p])
    <2>1. seen'[1][p] = seen[1][p]
      BY <1>4, SeenBy DEF SeenFacts
    <2> QED
      BY <1>4, <2>1 DEF SawInv, Saw, Known
  <1> QED
    BY <1>1, <1>2, <1>3, <1>4 DEF HandledNext

LEMMA RowOfKept ==
    ASSUME TypeInv, NEW p, NEW o, RowOf(pass, p, o), NEW S, NewRows(S), pass' = pass
    PROVE  RowOfNext(p, o)
  BY DEF TypeInv, RowOf, RowOfNext, NewRows

LEMMA RowOfNew ==
    ASSUME TypeInv, NEW p, NEW o, NEW h, NewRows({RowFor(p, o, h)}), pass' = pass
    PROVE  RowOfNext(p, o)
  <1>1. RowFor(p, o, h) \in ToSet(rows'[pass'])
    BY DEF TypeInv, NewRows
  <1> QED
    BY <1>1, RowForIs DEF RowOfNext

LEMMA HandledStep ==
    ASSUME TypeInv, TreeInv, WalkInv, FreshInv, SeenInv, SiteFacts \/ WalkFacts
    PROVE  HandledInv'
  <1>0. SawInv /\ HandledInv /\ RowInv /\ pass \in 1 .. 2
    BY DEF SeenInv, TypeInv
  <1>1. step \in {"list", "child", "open", "read", "hashed", "final"} => stack # <<>>
    BY DEF WalkInv, PlaceInv
  <1>2. /\ \A n \in DOMAIN stack : stack[n].dir \in Paths /\ stack[n].obj \in Objects
                /\ Handled(stack[n].dir, stack[n].obj) /\ RowOf(pass, stack[n].dir, stack[n].obj)
        /\ entry # None => entry.path \in Paths /\ entry.obj \in Objects /\ Handled(entry.path, entry.obj)
        /\ step = "final" => RowOf(pass, entry.path, entry.obj)
    <2>1. entry # None => entry.path \in Paths /\ entry.obj \in Objects
      BY EntryIs DEF WalkInv, PlaceInv
    <2> QED
      BY <1>0, <2>1, StackBase DEF HandledInv
  <1>3. SiteFacts \/ (WalkFacts /\ pass' = pass) \/ (WalkFacts /\ PassEnded)
    BY SamePass
  <1>4. CASE SiteFacts
    <2>1. UNCHANGED helper /\ pass' = pass
      BY <1>4 DEF SiteFacts, helper
    <2>2. \A n \in DOMAIN stack : HandledNext(stack[n].dir, stack[n].obj)
      BY <1>2, <1>4, <2>1, HandledKept
    <2>3. entry # None => HandledNext(entry.path, entry.obj)
      BY <1>2, <1>4, <2>1, HandledKept
    <2> QED
      BY <1>2, <2>1, <2>2, <2>3 DEF helper, HandledInv, Handled, HandledNext, KnownNext, Known, Saw, RowOf, R
  <1>5. CASE WalkFacts /\ PassEnded
    <2>1. entry' = None /\ stack' = <<>> /\ step' \in {"root", "done"}
      BY <1>5 DEF PassEnded, WalkInv, PlaceInv, InWork
    <2> QED
      BY <2>1 DEF HandledInv
  <1>6. CASE WalkFacts /\ pass' = pass
    <2>1. PICK S : NewRows(S)
      BY <1>6, SamePass
    <2>2. \A n \in DOMAIN stack : HandledNext(stack[n].dir, stack[n].obj) /\ RowOfNext(stack[n].dir, stack[n].obj)
      BY <1>2, <1>6, <2>1, HandledKept, RowOfKept
    <2>3. entry # None => HandledNext(entry.path, entry.obj)
      BY <1>2, <1>6, HandledKept
    <2>4. SUFFICES /\ \A n \in DOMAIN stack' : HandledNext(stack'[n].dir, stack'[n].obj) /\ RowOfNext(stack'[n].dir, stack'[n].obj)
                   /\ entry' # None => HandledNext(entry'.path, entry'.obj)
                   /\ step' = "final" => RowOfNext(entry'.path, entry'.obj)
      BY DEF HandledInv, Handled, HandledNext, KnownNext, Known, Saw, RowOf, R, RowOfNext
    <2>5. CASE RootOpened
      <3>1. /\ pass' = pass /\ NewRows({RowFor(Root, tree[Root], None)}) /\ Looks({Root}, tree) /\ step = "root"
            /\ stack' = <<[dir |-> Root, obj |-> tree[Root], names |-> {}, left |-> {}]>> /\ entry' = entry /\ step' = "list"
        BY <2>5 DEF RootOpened
      <3>2. Root \in Paths /\ tree[Root] # None /\ (pass = 1 => seen[1][Root] = Unseen)
        BY <3>1, PathFacts DEF TreeInv, FreshInv, Untouched
      <3>3. HandledNext(Root, tree[Root])
        BY <1>0, <1>6, <3>1, <3>2, HandledThere
      <3>4. RowOfNext(Root, tree[Root])
        BY <3>1, RowOfNew
      <3>5. DOMAIN stack' = {1} /\ stack'[1].dir = Root /\ stack'[1].obj = tree[Root]
        BY <3>1
      <3> QED
        BY <2>3, <3>1, <3>3, <3>4, <3>5
    <2>6. CASE Listed
      <3>1. There(Top.dir) \in SUBSET Paths /\ stack # <<>>
        BY <1>1, <2>6, TopIs, PathFacts DEF Listed, There
      <3>2. Restacked(There(Top.dir), There(Top.dir))
        BY <2>6, <3>1, RestackedBy DEF Listed
      <3>3. Top = stack[Len(stack)] /\ entry' = entry /\ step' = "child"
        BY <2>6, <3>1, TopIs DEF Listed
      <3>4. \A n \in DOMAIN stack' : n \in DOMAIN stack /\ stack'[n].dir = stack[n].dir /\ stack'[n].obj = stack[n].obj
        BY <3>2, <3>3 DEF Restacked
      <3> QED
        BY <2>2, <2>3, <3>3, <3>4
    <2>7. CASE Left
      <3>1. stack # <<>> /\ Len(stack) \in DOMAIN stack /\ Top = stack[Len(stack)]
        BY <1>1, <2>7, TopIs DEF Left
      <3>2. \A n \in DOMAIN stack' : n \in DOMAIN stack /\ stack'[n] = stack[n]
        BY <2>7, <3>1, UnstackedBy DEF Left, Unstacked
      <3>3. HandledNext(Top.dir, Top.obj) /\ RowOfNext(Top.dir, Top.obj)
        BY <2>2, <3>1
      <3>4. \/ entry' = None /\ step' = "rootEnd"
            \/ entry' = [path |-> Top.dir, obj |-> Top.obj, hash |-> None]
        BY <2>7 DEF Left
      <3> QED
        BY <2>2, <3>2, <3>3, <3>4
    <2>8. CASE Statted
      <3>1. PICK p \in Top.left : StattedSome(p)
        BY <2>8 DEF Statted
      <3>2. stack # <<>> /\ step = "child" /\ entry = None
        BY <1>1, <3>1 DEF StattedSome, WalkInv, PlaceInv, InWork
      <3>3. Top.left \ {p} \in SUBSET Paths /\ Top.names \in SUBSET Paths /\ p \in Paths
            /\ Top = stack[Len(stack)] /\ Len(stack) \in DOMAIN stack
        BY <3>2, TopIs
      <3>4. Restacked(Top.names, Top.left \ {p})
        BY <3>1, <3>2, <3>3, RestackedBy DEF StattedSome
      <3>5. \A n \in DOMAIN stack' : n \in DOMAIN stack /\ stack'[n].dir = stack[n].dir /\ stack'[n].obj = stack[n].obj
        BY <3>3, <3>4 DEF Restacked
      <3>6. CASE step' = step
        <4>1. entry' = None /\ step' = "child"
          BY <3>1, <3>2, <3>6 DEF StattedSome
        <4> QED
          BY <2>2, <3>5, <4>1
      <3>7. CASE step' # step
        <4>1. /\ entry' = [path |-> p, obj |-> tree[p], hash |-> None] /\ step' = "open" /\ Looks({p}, tree)
              /\ Found(p) # None
          BY <3>1, <3>7 DEF StattedSome, LooksAt
        <4>2. tree[p] # None
          BY <3>3, <4>1, FoundIs
        <4>3. pass = 1 => seen[1][p] = Unseen
          BY <3>3 DEF FreshInv, Fresh, Untouched
        <4>4. HandledNext(p, tree[p])
          BY <1>0, <1>6, <3>3, <4>1, <4>2, <4>3, HandledThere
        <4>5. entry'.path = p /\ entry'.obj = tree[p]
          BY <4>1
        <4> QED
          BY <2>2, <3>5, <4>1, <4>4, <4>5
      <3> QED
        BY <3>6, <3>7
    <2>9. CASE Refused \/ Finished
      <3>1. stack' = stack /\ entry' = None /\ step' = "child"
        BY <2>9 DEF Refused, Finished
      <3> QED
        BY <2>2, <3>1
    <2>10. CASE Entered
      <3>1. InWork /\ entry # None
        BY <2>10 DEF Entered, InWork, WalkInv, PlaceInv
      <3>2. entry.path \in Paths /\ entry.obj \in Objects /\ entry' = None /\ step' = "list"
            /\ NewRows({RowFor(entry.path, entry.obj, None)})
        BY <2>10, <3>1, EntryIs DEF Entered
      <3>3. Stacked(entry.path, entry.obj) /\ Len(stack) \in Nat /\ DOMAIN stack = 1 .. Len(stack)
        BY <2>10, <3>2, StackedBy, StackBase DEF Entered
      <3>4. HandledNext(entry.path, entry.obj) /\ RowOfNext(entry.path, entry.obj)
        BY <1>6, <2>3, <3>1, <3>2, RowOfNew
      <3>5. \A n \in DOMAIN stack' :
              \/ n \in DOMAIN stack /\ stack'[n] = stack[n]
              \/ stack'[n].dir = entry.path /\ stack'[n].obj = entry.obj
        BY <3>3 DEF Stacked
      <3> QED
        BY <2>2, <3>2, <3>4, <3>5
    <2>11. CASE FileRowed
      <3>1. stack' = stack /\ entry' = entry /\ \E h : NewRows({RowFor(entry.path, entry.obj, h)})
        BY <2>11 DEF FileRowed
      <3>2. RowOfNext(entry.path, entry.obj)
        BY <1>6, <3>1, RowOfNew
      <3> QED
        BY <2>2, <2>3, <3>1, <3>2
    <2>12. CASE FileOpened \/ FileRead
      <3>1. stack' = stack /\ entry'.path = entry.path /\ entry'.obj = entry.obj /\ step' # "final" /\ InWork
        BY <2>12 DEF FileOpened, FileRead, InWork
      <3>2. entry # None
        BY <3>1 DEF WalkInv, PlaceInv
      <3> QED
        BY <2>2, <2>3, <3>1, <3>2
    <2>13. CASE PassEnded
      <3>1. entry' = None /\ stack' = <<>> /\ step' \in {"root", "done"}
        BY <2>13 DEF PassEnded, WalkInv, PlaceInv, InWork
      <3> QED
        BY <3>1
    <2> QED
      BY <1>6, <2>5, <2>6, <2>7, <2>8, <2>9, <2>10, <2>11, <2>12, <2>13 DEF WalkFacts
  <1> QED
    BY <1>3, <1>4, <1>5, <1>6

\* Which rows there may be after a step.
Why(p, o, h) ==
    \/ p = Root /\ o = tree[Root] /\ h = None /\ step = "root"
    \/ /\ p = entry.path /\ o = entry.obj /\ entry # None /\ step # "root"
       /\ h # None => h = entry.hash /\ step = "hashed" /\ AsOpened

RowsBy ==
    \/ NewRows({})
    \/ /\ pass' = pass
       /\ \E p \in Paths, o \in Objects, h \in Nat \cup {None} :
            NewRows({RowFor(p, o, h)}) /\ HandledNext(p, o) /\ ~Rowed(pass, p) /\ Why(p, o, h)

LEMMA RowsAfter ==
    ASSUME TypeInv, TreeInv, WalkInv, FreshInv, SeenInv, WalkFacts
    PROVE  RowsBy
  <1>0. SawInv /\ HandledInv
    BY DEF SeenInv
  <1>1. CASE RootOpened
    <2>1. /\ pass' = pass /\ NewRows({RowFor(Root, tree[Root], None)}) /\ Looks({Root}, tree) /\ step = "root"
      BY <1>1 DEF RootOpened
    <2>2. Root \in Paths /\ tree[Root] # None /\ (pass = 1 => seen[1][Root] = Unseen) /\ ~Rowed(pass, Root)
      BY <2>1, PathFacts DEF TreeInv, FreshInv, Untouched
    <2>3. HandledNext(Root, tree[Root]) /\ tree[Root] \in Objects
      BY <1>0, <2>1, <2>2, HandledThere, KnownThere
    <2> QED
      BY <2>1, <2>2, <2>3 DEF RowsBy, Why
  <1>2. CASE Entered \/ FileRowed
    <2>1. InWork /\ pass' = pass /\ step \in {"open", "read", "hashed"}
      BY <1>2 DEF Entered, FileRowed, InWork
    <2>2. entry # None /\ entry.path \in Paths /\ entry.obj \in Objects
      BY <2>1, EntryIs DEF WalkInv, PlaceInv
    <2>3. HandledNext(entry.path, entry.obj)
      BY <1>0, <2>1, <2>2, HandledKept DEF HandledInv
    <2>4. ~Rowed(pass, entry.path)
      BY <2>1 DEF FreshInv
    <2>5. \E h \in Nat \cup {None} :
             /\ NewRows({RowFor(entry.path, entry.obj, h)})
             /\ h # None => h = entry.hash /\ step = "hashed" /\ AsOpened
      BY <1>2 DEF Entered, FileRowed
    <2> QED
      BY <2>1, <2>2, <2>3, <2>4, <2>5 DEF RowsBy, Why
  <1>3. CASE Listed \/ Left \/ Refused \/ FileOpened \/ FileRead \/ Finished \/ PassEnded
    BY <1>3 DEF Listed, Left, Refused, FileOpened, FileRead, Finished, PassEnded, RowsBy
  <1>4. CASE Statted
    BY <1>4 DEF Statted, StattedSome, RowsBy
  <1> QED
    BY <1>1, <1>2, <1>3, <1>4 DEF WalkFacts

ToldNext(r) ==
    \E o \in Objects : /\ r.obj = Stat(o) /\ KnownNext(r.path, o)
                       /\ seen'[1][r.path] \notin {None, Unseen} => Later(seen'[1][r.path], o)

LEMMA RowPath ==
    ASSUME TypeInv, NEW k \in 1 .. 2, NEW r \in R(k)
    PROVE  r \in Rows /\ r.path \in Paths
  <1>1. rows[k] \in Seq(Rows)
    BY DEF TypeInv
  <1>2. r \in Rows
    BY <1>1 DEF R, ToSet
  <1> QED
    BY <1>2 DEF Rows

LEMMA RowStep ==
    ASSUME TypeInv, TreeInv, WalkInv, SecondInv, FreshInv, SeenInv, SiteFacts \/ WalkFacts
    PROVE  RowInv'
  <1>0. RowInv /\ SawInv /\ pass \in 1 .. 2
    BY DEF SeenInv, TypeInv
  <1>1. \A p \in Paths : seen[1][p] \in Objects \cup {None, Unseen}
    BY DEF TypeInv
  <1>2. SUFFICES /\ \A r \in ToSet(rows'[1]) : seen'[1][r.path] \notin {None, Unseen} /\ r.obj = Stat(seen'[1][r.path])
                 /\ \A r \in ToSet(rows'[2]) : ToldNext(r)
                 /\ \A k \in 1 .. 2 : \A r, s \in ToSet(rows'[k]) : r.path = s.path => r = s
                 /\ pass' = 2 \/ step' # "root" => \E r \in ToSet(rows'[1]) : r.path = Root
    BY DEF RowInv, R, Saw, Told, ToldNext, Known, KnownNext, Rowed
  <1>3. CASE SiteFacts
    <2>1. UNCHANGED helper
      BY <1>3 DEF SiteFacts
    <2>2. ASSUME NEW r \in R(2) PROVE ToldNext(r)
      <3>1. Told(r) /\ r.path \in Paths
        BY <1>0, RowPath DEF RowInv
      <3>2. PICK o \in Objects : r.obj = Stat(o) /\ Known(r.path, o) /\ (Saw(r.path) => Later(seen[1][r.path], o))
        BY <3>1 DEF Told
      <3>3. KnownNext(r.path, o)
        BY <1>3, <3>1, <3>2, KnownKept
      <3> QED
        BY <2>1, <3>2, <3>3 DEF ToldNext, helper, Saw
    <2> QED
      BY <1>0, <2>1, <2>2 DEF helper, RowInv, R, Saw, Rowed
  <1>4. CASE WalkFacts
    <2>1. SeenFacts /\ UNCHANGED site
      BY <1>4, SeenBy DEF WalkFacts, Steady
    <2>2. ASSUME NEW r \in R(1)
          PROVE  seen'[1][r.path] \notin {None, Unseen} /\ r.obj = Stat(seen'[1][r.path])
      BY <1>0, <2>1, RowPath DEF RowInv, Saw, SeenFacts
    <2>3. ASSUME NEW r \in R(2) PROVE ToldNext(r)
      <3>1. Told(r) /\ r.path \in Paths /\ pass = 2
        BY <1>0, RowPath DEF RowInv, SecondInv
      <3>2. PICK o \in Objects : r.obj = Stat(o) /\ Known(r.path, o) /\ (Saw(r.path) => Later(seen[1][r.path], o))
        BY <3>1 DEF Told
      <3>3. KnownNext(r.path, o) /\ seen'[1][r.path] = seen[1][r.path]
        BY <2>1, <3>1, <3>2, KnownKept DEF SeenFacts
      <3> QED
        BY <3>2, <3>3 DEF ToldNext, Saw
    <2>4. \A k \in 1 .. 2 : \A r, s \in R(k) : r.path = s.path => r = s
      BY <1>0 DEF RowInv
    <2>5. (pass = 2 \/ step # "root") /\ (\A r \in R(1) : r \in ToSet(rows'[1])) => \E r \in ToSet(rows'[1]) : r.path = Root
      BY <1>0 DEF RowInv, Rowed
    <2>6. step = "root" => RootOpened
      BY <1>4 DEF WalkFacts, RootOpened, Listed, Left, Statted, StattedSome, Refused, Entered, FileRowed, FileOpened,
                  FileRead, Finished, PassEnded
    <2>7. CASE NewRows({})
      <3>1. ToSet(rows'[1]) = R(1) /\ ToSet(rows'[2]) = R(2)
        BY <2>7 DEF NewRows
      <3>2. step = "root" => \E r \in ToSet(rows'[1]) : r.path = Root
        <4>1. RootOpened => NewRows({RowFor(Root, tree[Root], None)})
          BY DEF RootOpened
        <4>2. step = "root" => RowFor(Root, tree[Root], None) \in ToSet(rows'[pass])
          BY <1>0, <2>6, <4>1 DEF NewRows
        <4> QED
          BY <1>0, <2>5, <3>1, <4>2, RowForIs
      <3> QED
        BY <1>0, <2>2, <2>3, <2>4, <2>5, <3>1, <3>2
    <2>8. ASSUME pass' = pass, NEW p \in Paths, NEW o \in Objects, NEW h \in Nat \cup {None},
                 NewRows({RowFor(p, o, h)}), HandledNext(p, o), ~Rowed(pass, p), Why(p, o, h)
          PROVE  /\ \A r \in ToSet(rows'[1]) : seen'[1][r.path] \notin {None, Unseen} /\ r.obj = Stat(seen'[1][r.path])
                 /\ \A r \in ToSet(rows'[2]) : ToldNext(r)
                 /\ \A k \in 1 .. 2 : \A r, s \in ToSet(rows'[k]) : r.path = s.path => r = s
                 /\ pass' = 2 \/ step' # "root" => \E r \in ToSet(rows'[1]) : r.path = Root
      <3> DEFINE n == RowFor(p, o, h)
      <3>1. n.path = p /\ n.obj = Stat(o)
        BY RowForIs
      <3> HIDE DEF n
      <3>2. \A k \in 1 .. 2 : ToSet(rows'[k]) = IF k = pass THEN R(k) \cup {n} ELSE R(k)
        BY <2>8 DEF NewRows, n
      <3>3. \A r \in R(pass) : r.path # p
        BY <2>8 DEF Rowed
      <3>4. pass = 1 => seen'[1][p] \notin {None, Unseen} /\ n.obj = Stat(seen'[1][p])
        BY <2>8, <3>1, Somethings DEF HandledNext
      <3>5. pass = 2 => ToldNext(n)
        BY <2>8, <3>1 DEF HandledNext, ToldNext
      <3>6. \A r \in ToSet(rows'[1]) : seen'[1][r.path] \notin {None, Unseen} /\ r.obj = Stat(seen'[1][r.path])
        BY <1>0, <2>2, <3>1, <3>2, <3>4
      <3>7. \A r \in ToSet(rows'[2]) : ToldNext(r)
        BY <1>0, <2>3, <3>2, <3>5
      <3>8. \A k \in 1 .. 2 : \A r, s \in ToSet(rows'[k]) : r.path = s.path => r = s
        BY <2>4, <3>1, <3>2, <3>3
      <3>9. \E r \in ToSet(rows'[1]) : r.path = Root
        <4>1. \A r \in R(1) : r \in ToSet(rows'[1])
          BY <3>2
        <4>2. CASE pass = 2 \/ step # "root"
          BY <2>5, <4>1, <4>2
        <4>3. CASE pass = 1 /\ step = "root"
          <5>1. RowFor(Root, tree[Root], None) \in ToSet(rows'[1])
            BY <2>6, <4>3 DEF RootOpened, NewRows
          <5> QED
            BY <5>1, RowForIs
        <4> QED
          BY <1>0, <4>2, <4>3
      <3> QED
        BY <3>6, <3>7, <3>8, <3>9
    <2> QED
      BY <1>4, <2>7, <2>8, RowsAfter DEF RowsBy
  <1> QED
    BY <1>3, <1>4

LEMMA SeenStep ==
    ASSUME TypeInv, TreeInv, WalkInv, SecondInv, FreshInv, SeenInv, SiteFacts \/ WalkFacts
    PROVE  SeenInv'
  <1>1. SawInv
    BY DEF SeenInv
  <1> QED
    BY <1>1, SawStep, HandledStep, RowStep DEF SeenInv

-----------------------------------------------------------------------------
(* Rows and the tree when the second pass begins.                          *)

LEMMA StatIs ==
    ASSUME NEW o
    PROVE  Stat(o).kind = o.kind /\ Stat(o).ino = o.ino /\ Stat(o).links = o.links /\ Stat(o).ctime = o.ctime
  BY DEF Stat

LEMMA SameStatIs ==
    ASSUME NEW a, NEW b, SameStat(a, b)
    PROVE  a.kind = b.kind /\ a.ino = b.ino /\ a.ctime = b.ctime
  BY StatIs DEF SameStat

\* A thing that is known and is no longer there does not come back.
LEMMA NeverBack ==
    ASSUME TypeInv, NEW p \in Paths, NEW o \in Objects, Known(p, o), SiteFacts, tree'[p] = o
    PROVE  tree[p] = o
  <1>1. o.ctime \in Nat /\ changes \in Nat /\ o # None
    BY Somethings DEF Objects, TypeInv
  <1>2. Becomes(p) /\ o.ctime <= changes
    BY DEF SiteFacts, Known
  <1> QED
    BY <1>1, <1>2 DEF Becomes

LEMMA HashStep ==
    ASSUME TypeInv, TreeInv, WalkInv, FreshInv, SeenInv, HashInv, SiteFacts \/ WalkFacts
    PROVE  HashInv'
  <1>0. RowsAreOfOneFile /\ pass \in 1 .. 2
    BY DEF HashInv, TypeInv
  <1>1. InWork => entry # None /\ entry.path \in Paths /\ entry.obj \in Objects /\ Known(entry.path, entry.obj)
    BY EntryIs DEF WalkInv, PlaceInv, SeenInv, HandledInv, Handled
  <1>2. SUFFICES /\ \A k \in 1 .. 2 : \A r \in ToSet(rows'[k]) : r.hash # None => r.hash = r.obj.ctime
                 /\ step' = "hashed" => entry'.hash = entry'.obj.ctime \/ tree'[entry'.path] # entry'.obj
    BY DEF HashInv, RowsAreOfOneFile
  <1>3. CASE SiteFacts
    <2>1. UNCHANGED helper
      BY <1>3 DEF SiteFacts
    <2>2. step = "hashed" => entry.hash = entry.obj.ctime \/ tree'[entry.path] # entry.obj
      BY <1>1, <1>3, NeverBack DEF HashInv, InWork
    <2> QED
      BY <1>0, <2>1, <2>2 DEF helper, RowsAreOfOneFile
  <1>4. CASE WalkFacts
    <2>1. \A k \in 1 .. 2 : \A r \in R(k) : r.hash # None => r.hash = r.obj.ctime
      BY <1>0 DEF RowsAreOfOneFile, R
    <2>2. \A k \in 1 .. 2 : \A r \in ToSet(rows'[k]) : r.hash # None => r.hash = r.obj.ctime
      <3>1. CASE NewRows({})
        BY <2>1, <3>1 DEF NewRows
      <3>2. ASSUME NEW p \in Paths, NEW o \in Objects, NEW h \in Nat \cup {None},
                   NewRows({RowFor(p, o, h)}), Why(p, o, h)
            PROVE  \A k \in 1 .. 2 : \A r \in ToSet(rows'[k]) : r.hash # None => r.hash = r.obj.ctime
        <4> DEFINE n == RowFor(p, o, h)
        <4>1. n.hash = h /\ n.obj.ctime = o.ctime
          BY RowForIs, StatIs
        <4>2. h # None => h = o.ctime
          <5> SUFFICES ASSUME h # None PROVE h = o.ctime
            OBVIOUS
          <5>1. p = entry.path /\ o = entry.obj /\ h = entry.hash /\ step = "hashed" /\ AsOpened
            BY <3>2 DEF Why
          <5>2. tree[p] # None /\ SameStat(tree[p], o)
            BY <5>1, FoundIs DEF AsOpened
          <5>3. tree[p] = o
            BY <1>1, <5>1, <5>2, SameStatIs DEF InWork, Known, Later
          <5> QED
            BY <5>1, <5>3 DEF HashInv
        <4> HIDE DEF n
        <4>3. \A k \in 1 .. 2 : ToSet(rows'[k]) = IF k = pass THEN R(k) \cup {n} ELSE R(k)
          BY <3>2 DEF NewRows, n
        <4> QED
          BY <2>1, <4>1, <4>2, <4>3
      <3> QED
        BY <1>4, <3>1, <3>2, RowsAfter DEF RowsBy
    <2>3. ASSUME step' = "hashed"
          PROVE  entry'.hash = entry'.obj.ctime \/ tree'[entry'.path] # entry'.obj
      <3>1. FileRead /\ UNCHANGED site
        BY <1>4, <2>3 DEF WalkFacts, RootOpened, Listed, Left, Statted, StattedSome, Refused, Entered, FileRowed,
                       FileOpened, FileRead, Finished, PassEnded, Steady
      <3>2. PICK h \in Nat : /\ entry' = [path |-> entry.path, obj |-> entry.obj, hash |-> h]
                             /\ h = entry.obj.ctime \/ (tree[entry.path] # None /\ h = tree[entry.path].ctime)
        BY <3>1 DEF FileRead
      <3>3. tree' = tree /\ entry'.hash = h /\ entry'.obj = entry.obj /\ entry'.path = entry.path
        BY <3>1, <3>2 DEF site
      <3> QED
        BY <3>2, <3>3
    <2> QED
      BY <2>2, <2>3
  <1> QED
    BY <1>3, <1>4

LEMMA BetweenStays ==
    ASSUME WalkFacts, step # "root"
    PROVE  between' = between
  BY DEF WalkFacts, RootOpened, Listed, Left, Statted, StattedSome, Refused, Entered, FileRowed, FileOpened,
         FileRead, Finished, PassEnded

\* What is in work after a step.
LEMMA EntryAfter ==
    ASSUME TypeInv, WalkInv, WalkFacts
    PROVE  \/ entry' = None
           \/ entry # None /\ entry'.path = entry.path /\ entry'.obj = entry.obj
           \/ stack # <<>> /\ entry'.path = Top.dir /\ entry'.obj = Top.obj
           \/ /\ stack # <<>> /\ entry'.path \in Top.left /\ tree[entry'.path] # None
              /\ entry'.obj = tree[entry'.path]
  <1>1. step \in {"list", "child", "open", "read", "hashed", "final"} => stack # <<>>
    BY DEF WalkInv, PlaceInv
  <1>2. InWork <=> entry # None
    BY DEF WalkInv, PlaceInv
  <1>3. CASE RootOpened \/ Listed \/ Refused \/ Entered \/ Finished \/ PassEnded
    BY <1>2, <1>3 DEF RootOpened, Listed, Refused, Entered, Finished, PassEnded, InWork
  <1>4. CASE FileRowed \/ FileOpened \/ FileRead
    <2>1. InWork /\ entry'.path = entry.path /\ entry'.obj = entry.obj
      BY <1>4 DEF FileRowed, FileOpened, FileRead, InWork
    <2> QED
      BY <1>2, <2>1
  <1>5. CASE Left
    <2>1. stack # <<>> /\ (entry' = None \/ entry' = [path |-> Top.dir, obj |-> Top.obj, hash |-> None])
      BY <1>1, <1>5 DEF Left
    <2> QED
      BY <2>1
  <1>6. CASE Statted
    <2>1. PICK p \in Top.left : StattedSome(p)
      BY <1>6 DEF Statted
    <2>2. stack # <<>> /\ entry = None
      BY <1>1, <1>2, <2>1 DEF StattedSome, InWork
    <2>3. CASE step' = step
      BY <2>1, <2>2, <2>3 DEF StattedSome
    <2>4. CASE step' # step
      <3>1. entry' = [path |-> p, obj |-> tree[p], hash |-> None] /\ Found(p) # None
        BY <2>1, <2>4 DEF StattedSome
      <3>2. tree[p] # None
        BY <2>2, <3>1, TopIs, FoundIs
      <3>3. entry'.path = p /\ entry'.obj = tree[p]
        BY <3>1
      <3> QED
        BY <2>2, <3>2, <3>3
    <2> QED
      BY <2>3, <2>4
  <1> QED
    BY <1>3, <1>4, <1>5, <1>6 DEF WalkFacts

LEMMA BetweenStep ==
    ASSUME TypeInv, TreeInv, WalkInv, FreshInv, SeenInv, BetweenInv, SiteFacts \/ WalkFacts
    PROVE  BetweenInv'
  <1>0. SawInv /\ HandledInv /\ pass \in 1 .. 2
    BY DEF SeenInv, TypeInv
  <1> SUFFICES ASSUME pass' = 2, step' # "root"
               PROVE  /\ between' \in Trees
                      /\ \A p \in Paths : between'[p] # None => p = Root \/ IsDirectory(between'[Parent[p]])
                      /\ \A p \in Paths : seen'[1][p] \notin {None, Unseen} =>
                           /\ tree'[p] = seen'[1][p] => between'[p] = seen'[1][p]
                           /\ \A r \in ToSet(rows'[2]) :
                                r.path = p /\ r.obj.ctime = seen'[1][p].ctime => between'[p] = seen'[1][p]
                           /\ entry' # None /\ entry'.path = p /\ entry'.obj = seen'[1][p] => between'[p] = seen'[1][p]
    BY DEF BetweenInv, Saw, R, IsDirectory
  <1>1. CASE SiteFacts
    <2>1. UNCHANGED helper /\ pass = 2 /\ step # "root"
      BY <1>1 DEF SiteFacts, helper
    <2>2. ASSUME NEW p \in Paths, Saw(p), tree'[p] = seen[1][p]
          PROVE  between[p] = seen[1][p]
      <3>1. Known(p, seen[1][p]) /\ seen[1][p] \in Objects
        BY <1>0, <2>2 DEF SawInv, Saw, TypeInv
      <3>2. tree[p] = seen[1][p]
        BY <1>1, <2>2, <3>1, NeverBack
      <3> QED
        BY <2>1, <2>2, <3>2 DEF BetweenInv
    <2> QED
      BY <2>1, <2>2 DEF BetweenInv, helper, Saw, R
  <1>2. CASE WalkFacts /\ step = "root"
    <2>1. RootOpened
      BY <1>2 DEF WalkFacts, RootOpened, Listed, Left, Statted, StattedSome, Refused, Entered, FileRowed, FileOpened,
                  FileRead, Finished, PassEnded
    <2>2. /\ pass = 2 /\ between' = tree /\ tree' = tree /\ entry' = None
          /\ NewRows({RowFor(Root, tree[Root], None)})
      BY <1>2, <2>1 DEF RootOpened, WalkInv, PlaceInv, InWork, WalkFacts, Steady, site
    <2>3. tree \in Trees /\ \A p \in Paths : tree[p] # None => p = Root \/ IsDirectory(tree[Parent[p]])
      BY DEF TypeInv, TreeInv
    <2>4. \A p \in Paths : seen'[1][p] = seen[1][p]
      BY <1>2, <2>2, SeenBy DEF SeenFacts
    <2>5. R(2) = {}
      <3>1. ASSUME NEW r \in R(2) PROVE FALSE
        <4>1. r.path \in Paths
          BY RowPath
        <4> QED
          BY <1>2, <2>2, <4>1 DEF FreshInv, Untouched, Rowed
      <3> QED
        BY <3>1
    <2>6. ToSet(rows'[2]) = {RowFor(Root, tree[Root], None)}
      BY <2>2, <2>5 DEF NewRows
    <2>7. ASSUME NEW p \in Paths, Saw(p), NEW r \in ToSet(rows'[2]), r.path = p, r.obj.ctime = seen[1][p].ctime
          PROVE  tree[p] = seen[1][p]
      <3>1. p = Root /\ tree[Root].ctime = seen[1][p].ctime
        BY <2>6, <2>7, RowForIs, StatIs
      <3>2. Known(p, seen[1][p]) /\ tree[Root] # None
        BY <1>0, <2>7 DEF SawInv, TreeInv
      <3> QED
        BY <3>1, <3>2 DEF Known, Later
    <2> QED
      BY <2>2, <2>3, <2>4, <2>7 DEF Saw
  <1>3. CASE WalkFacts /\ step # "root"
    <2>1. pass = 2
      <3>1. pass' = pass \/ PassEnded
        BY <1>3, SamePass
      <3> QED
        BY <1>0, <3>1 DEF PassEnded
    <2>2. between' = between /\ tree' = tree
      BY <1>3, BetweenStays DEF WalkFacts, Steady, site
    <2>3. \A p \in Paths : seen'[1][p] = seen[1][p]
      BY <1>3, <2>1, SeenBy DEF SeenFacts
    <2>4. /\ between \in Trees
          /\ \A p \in Paths : between[p] # None => p = Root \/ IsDirectory(between[Parent[p]])
      BY <1>3, <2>1 DEF BetweenInv
    <2>5. \A p \in Paths : Saw(p) =>
            /\ tree[p] = seen[1][p] => between[p] = seen[1][p]
            /\ \A r \in R(2) : r.path = p /\ r.obj.ctime = seen[1][p].ctime => between[p] = seen[1][p]
            /\ entry # None /\ entry.path = p /\ entry.obj = seen[1][p] => between[p] = seen[1][p]
      BY <1>3, <2>1 DEF BetweenInv
    <2>6. ASSUME NEW p \in Paths, Saw(p), NEW r \in ToSet(rows'[2]), r.path = p, r.obj.ctime = seen[1][p].ctime
          PROVE  between[p] = seen[1][p]
      <3>1. CASE NewRows({})
        <4>1. r \in R(2)
          BY <2>6, <3>1 DEF NewRows
        <4> QED
          BY <2>5, <2>6, <4>1
      <3>2. ASSUME NEW q \in Paths, NEW o \in Objects, NEW h \in Nat \cup {None}, pass' = pass,
                   NewRows({RowFor(q, o, h)}), HandledNext(q, o), Why(q, o, h)
            PROVE  between[p] = seen[1][p]
        <4>1. r \in R(2) \/ r = RowFor(q, o, h)
          BY <2>1, <2>6, <3>2 DEF NewRows
        <4>2. CASE r = RowFor(q, o, h)
          <5>1. q = p /\ o.ctime = seen[1][p].ctime
            BY <2>6, <4>2, RowForIs, StatIs
          <5>2. entry # None /\ q = entry.path /\ o = entry.obj
            BY <1>3, <3>2 DEF Why
          <5>3. Later(seen[1][p], o)
            BY <2>1, <2>3, <2>6, <3>2, <5>1 DEF HandledNext, Saw
          <5>4. o = seen[1][p]
            BY <5>1, <5>3 DEF Later
          <5> QED
            BY <2>5, <2>6, <5>1, <5>2, <5>4
        <4> QED
          BY <2>5, <2>6, <4>1, <4>2
      <3> QED
        BY <1>3, <3>1, <3>2, RowsAfter DEF RowsBy
    <2>7. ASSUME NEW p \in Paths, Saw(p), entry' # None, entry'.path = p, entry'.obj = seen[1][p]
          PROVE  between[p] = seen[1][p]
      <3>1. CASE entry # None /\ entry'.path = entry.path /\ entry'.obj = entry.obj
        BY <2>5, <2>7, <3>1
      <3>2. CASE stack # <<>> /\ entry'.path = Top.dir /\ entry'.obj = Top.obj
        <4>1. RowOf(2, Top.dir, Top.obj)
          BY <1>0, <2>1, <3>2, TopIs DEF HandledInv
        <4>2. PICK r \in R(2) : r.path = p /\ r.obj = Stat(seen[1][p])
          BY <2>7, <3>2, <4>1 DEF RowOf
        <4> QED
          BY <2>5, <2>7, <4>2, StatIs
      <3>3. CASE /\ stack # <<>> /\ entry'.path \in Top.left /\ tree[entry'.path] # None
                 /\ entry'.obj = tree[entry'.path]
        BY <2>5, <2>7, <3>3
      <3> QED
        BY <1>3, <2>7, <3>1, <3>2, <3>3, EntryAfter
    <2> QED
      BY <2>2, <2>3, <2>4, <2>5, <2>6, <2>7 DEF Saw
  <1> QED
    BY <1>1, <1>2, <1>3

-----------------------------------------------------------------------------
(* What the first pass covers.                                             *)

\* Whatever is pending is so after the step, or has a row or an issue.
LEMMA PendingKept ==
    ASSUME TypeInv, TreeInv, WalkInv, SeenInv, WalkFacts, pass = 1, NEW q \in Paths \ {Root}, tree[q] # None, Pending(q)
    PROVE  Accounted(q)'
  <1>0. StackInv /\ EntryInv /\ HandledInv
    BY DEF WalkInv, SeenInv
  <1>1. step \in {"list", "child", "open", "read", "hashed", "final"} <=> stack # <<>>
    BY DEF WalkInv, PlaceInv, TypeInv, Steps
  <1>2. InWork <=> entry # None
    BY DEF WalkInv, PlaceInv
  <1>3. DOMAIN <<>> = {}
    OBVIOUS
  <1>4. stack # <<>>
    BY <1>1, <1>2, <1>3 DEF Pending, InWork
  <1>5. Top = stack[Len(stack)] /\ Len(stack) \in DOMAIN stack /\ Top.dir \in Paths
    BY <1>4, TopIs
  <1>6. pass' = 1
    BY <1>1, <1>4, SamePass DEF PassEnded
  <1>7. SUFFICES \/ \E r \in ToSet(rows'[1]) : r.path = q
                 \/ \E j \in ToSet(issues'[1]) : j.path \in {q, Parent[q]}
                 \/ step' = "list" /\ Top'.dir = Parent[q]
                 \/ \E n \in DOMAIN stack' : q \in stack'[n].left
                 \/ entry' # None /\ entry'.path = q
    BY <1>6 DEF Accounted, Pending, Rowed, Issued, R, I
  <1>8. CASE Listed
    <2>1. There(Top.dir) \in SUBSET Paths
      BY <1>5, PathFacts DEF There
    <2>2. Restacked(There(Top.dir), There(Top.dir)) /\ step = "list" /\ entry' = entry
      BY <1>4, <1>8, <2>1, RestackedBy DEF Listed
    <2>3. CASE Top.dir = Parent[q]
      <3>1. q \in There(Top.dir)
        BY <2>3, PathFacts DEF There
      <3>2. stack'[Len(stack)].left = There(Top.dir) /\ Len(stack) \in DOMAIN stack'
        BY <1>5, <2>2 DEF Restacked
      <3> QED
        BY <3>1, <3>2
    <2>4. ASSUME NEW n \in DOMAIN stack, q \in stack[n].left, n # Len(stack)
          PROVE  q \in stack'[n].left /\ n \in DOMAIN stack'
      BY <2>2, <2>4 DEF Restacked
    <2>5. ASSUME q \in stack[Len(stack)].left PROVE FALSE
      <3>1. stack[Len(stack)].left = {}
        BY <1>0, <1>5, <2>2 DEF StackInv, WalkInv, PlaceInv
      <3> QED
        BY <2>5, <3>1
    <2> QED
      BY <2>2, <2>3, <2>4, <2>5 DEF Pending
  <1>9. CASE Left
    <2>1. Unstacked /\ entry = None /\ (step = "child" => Top.left = {})
      BY <1>2, <1>4, <1>9, UnstackedBy DEF Left, InWork
    <2>2. CASE step = "list" /\ Top.dir = Parent[q]
      <3>1. NewIssues({Issue("DIRECTORY_READ_UNRESOLVED", Top.dir, "getdents")})
        BY <1>9, <2>2 DEF Left
      <3>2. Issue("DIRECTORY_READ_UNRESOLVED", Top.dir, "getdents") \in ToSet(issues'[1])
        BY <3>1 DEF NewIssues
      <3> QED
        BY <2>2, <3>2, IssueAt
    <2>3. ASSUME NEW n \in DOMAIN stack, q \in stack[n].left
          PROVE  q \in stack'[n].left /\ n \in DOMAIN stack'
      <3>1. stack[Len(stack)].left = {}
        <4>1. CASE step = "child"
          BY <1>5, <2>1, <4>1
        <4>2. CASE step = "list"
          BY <1>0, <1>5, <4>2 DEF StackInv, WalkInv, PlaceInv
        <4> QED
          BY <1>9, <4>1, <4>2 DEF Left
      <3>2. n # Len(stack) /\ Len(stack) \in Nat /\ DOMAIN stack = 1 .. Len(stack)
        BY <2>3, <3>1, StackBase
      <3>3. n \in DOMAIN stack'
        BY <2>1, <3>2 DEF Unstacked
      <3> QED
        BY <2>1, <2>3, <3>3 DEF Unstacked
    <2> QED
      BY <2>1, <2>2, <2>3 DEF Pending
  <1>10. CASE Statted
    <2>1. PICK p \in Top.left : StattedSome(p)
      BY <1>10 DEF Statted
    <2>2. step = "child" /\ entry = None
      BY <1>2, <2>1 DEF StattedSome, InWork
    <2>3. Top.left \ {p} \in SUBSET Paths /\ Top.names \in SUBSET Paths
      BY <1>4, TopIs
    <2>4. Restacked(Top.names, Top.left \ {p})
      BY <1>4, <2>1, <2>3, RestackedBy DEF StattedSome
    <2>5. PICK n \in DOMAIN stack : q \in stack[n].left
      BY <2>2 DEF Pending
    <2>6. CASE n # Len(stack)
      BY <2>4, <2>5, <2>6 DEF Restacked
    <2>7. CASE n = Len(stack) /\ q # p
      <3>1. stack'[n].left = Top.left \ {p} /\ n \in DOMAIN stack'
        BY <1>5, <2>4, <2>7 DEF Restacked
      <3> QED
        BY <1>5, <2>5, <2>7, <3>1
    <2>8. CASE q = p
      <3>1. CASE step' = step
        <4>1. Issue("ENTRY_STAT_UNRESOLVED", p, "stat") \in ToSet(issues'[1])
          BY <2>1, <2>2, <3>1 DEF StattedSome, NewIssues
        <4> QED
          BY <2>8, <4>1, IssueAt
      <3>2. CASE step' # step
        <4>1. entry' = [path |-> p, obj |-> tree[p], hash |-> None]
          BY <2>1, <3>2 DEF StattedSome
        <4>2. entry' # None
          BY <2>8, EntryTyped, <4>1, KnownThere
        <4> QED
          BY <2>8, <4>1, <4>2
      <3> QED
        BY <3>1, <3>2
    <2> QED
      BY <2>6, <2>7, <2>8
  <1>11. CASE Refused \/ Finished
    <2>1. stack' = stack /\ InWork /\ step # "list"
      BY <1>11 DEF Refused, Finished, InWork
    <2>2. CASE entry.path = q
      <3>1. CASE Refused
        <4>1. \E reason : Issue(reason, entry.path, "open") \in ToSet(issues'[1])
          BY <3>1 DEF Refused, NewIssues
        <4> QED
          BY <2>2, <4>1, IssueAt
      <3>2. CASE Finished
        <4>1. step = "final" /\ NewRows({})
          BY <3>2 DEF Finished
        <4>2. \E r \in R(1) : r.path = q
          BY <1>0, <2>2, <4>1 DEF HandledInv, RowOf
        <4>3. ToSet(rows'[1]) = R(1)
          BY <4>1 DEF NewRows
        <4> QED
          BY <4>2, <4>3
      <3> QED
        BY <1>11, <3>1, <3>2
    <2> QED
      BY <2>1, <2>2 DEF Pending
  <1>12. CASE Entered \/ FileRowed
    <2>1. InWork /\ step # "list"
      BY <1>12 DEF Entered, FileRowed, InWork
    <2>2. CASE entry.path = q
      <3>1. PICK h : NewRows({RowFor(entry.path, entry.obj, h)})
        BY <1>12 DEF Entered, FileRowed
      <3>2. RowFor(entry.path, entry.obj, h) \in ToSet(rows'[1])
        BY <3>1 DEF NewRows
      <3> QED
        BY <2>2, <3>2, RowForIs
    <2>3. ASSUME NEW n \in DOMAIN stack, q \in stack[n].left
          PROVE  q \in stack'[n].left /\ n \in DOMAIN stack'
      <3>1. CASE Entered
        <4>1. Stacked(entry.path, entry.obj) /\ Len(stack) \in Nat /\ DOMAIN stack = 1 .. Len(stack)
          BY <2>1, <3>1, EntryIs, StackedBy, StackBase DEF Entered
        <4> QED
          BY <2>3, <4>1 DEF Stacked
      <3>2. CASE FileRowed
        BY <2>3, <3>2 DEF FileRowed
      <3> QED
        BY <1>12, <3>1, <3>2
    <2> QED
      BY <2>1, <2>2, <2>3 DEF Pending
  <1>13. CASE FileOpened \/ FileRead
    <2>1. stack' = stack /\ step # "list" /\ entry'.path = entry.path /\ step' \in {"read", "hashed"}
      BY <1>13 DEF FileOpened, FileRead
    <2>2. entry' # None
      <3>1. PlaceInv'
        BY PlaceStep
      <3> QED
        BY <2>1, <3>1 DEF PlaceInv, InWork
    <2> QED
      BY <2>1, <2>2 DEF Pending
  <1>14. CASE RootOpened \/ PassEnded
    BY <1>1, <1>4, <1>14 DEF RootOpened, PassEnded
  <1> QED
    BY <1>8, <1>9, <1>10, <1>11, <1>12, <1>13, <1>14 DEF WalkFacts

\* Whatever is in a directory that gets its row is pending.
LEMMA RowThenPending ==
    ASSUME TypeInv, TreeInv, WalkInv, FreshInv, SeenInv, WalkFacts, pass = 1, NEW q \in Paths \ {Root}, tree[q] # None,
           ~Rowed(1, Parent[q]), \E r \in ToSet(rows'[1]) : r.path = Parent[q],
           tree[Parent[q]] = seen'[1][Parent[q]]
    PROVE  Accounted(q)'
  <1>0. HandledInv
    BY DEF SeenInv
  <1>1. ~NewRows({})
    BY DEF NewRows, Rowed
  <1>2. \/ RootOpened \/ Entered \/ FileRowed
    BY <1>1 DEF WalkFacts, Listed, Left, Statted, StattedSome, Refused, FileOpened, FileRead, Finished, PassEnded
  <1>3. CASE RootOpened
    <2>1. ToSet(rows'[1]) = R(1) \cup {RowFor(Root, tree[Root], None)} /\ pass' = 1 /\ step' = "list"
      BY <1>3 DEF RootOpened, NewRows
    <2>2. Parent[q] = Root
      BY <2>1, RowForIs DEF Rowed
    <2>3. Len(stack') = 1 /\ stack'[1] = [dir |-> Root, obj |-> tree[Root], names |-> {}, left |-> {}]
      BY <1>3 DEF RootOpened
    <2>4. Top'.dir = Root
      BY <2>3 DEF Top, Last
    <2> QED
      BY <2>1, <2>2, <2>4 DEF Accounted, Pending
  <1>4. CASE Entered \/ FileRowed
    <2>1. InWork /\ pass' = pass
      BY <1>4 DEF Entered, FileRowed, InWork
    <2>2. PICK h : NewRows({RowFor(entry.path, entry.obj, h)})
      BY <1>4 DEF Entered, FileRowed
    <2>3. Parent[q] = entry.path
      BY <2>2, RowForIs DEF NewRows, Rowed
    <2>4. entry # None /\ entry.path \in Paths /\ entry.obj \in Objects
      BY <2>1, EntryIs DEF WalkInv, PlaceInv
    <2>5. CASE Entered
      <3>1. Top'.dir = entry.path /\ step' = "list"
        BY <2>4, <2>5, StackedBy DEF Entered, Stacked
      <3> QED
        BY <2>1, <2>3, <3>1 DEF Accounted, Pending
    <2>6. CASE FileRowed
      <3>1. entry.obj.kind = "REGULAR"
        BY <2>6 DEF FileRowed
      <3>2. seen[1][entry.path] = entry.obj
        BY <1>0, <2>4 DEF HandledInv, Handled
      <3>3. seen'[1][entry.path] = entry.obj
        BY <2>4, <3>2, SeenBy, Somethings DEF SeenFacts
      <3>4. tree[Parent[q]].kind = "DIRECTORY"
        BY DEF TreeInv, IsDirectory
      <3> QED
        BY <2>3, <3>1, <3>3, <3>4
    <2> QED
      BY <1>4, <2>5, <2>6
  <1> QED
    BY <1>2, <1>3, <1>4

LEMMA CoverStep ==
    ASSUME TypeInv, TreeInv, WalkInv, FreshInv, SeenInv, CoverInv, SiteFacts \/ WalkFacts
    PROVE  CoverInv'
  <1>0. SawInv /\ RowInv /\ pass \in 1 .. 2
    BY DEF SeenInv, TypeInv
  <1>1. CASE SiteFacts
    <2>1. UNCHANGED helper /\ changes' = changes + 1
      BY <1>1 DEF SiteFacts
    <2>2. CASE pass = 1 \/ step = "root"
      <3>1. ASSUME NEW q \in Paths \ {Root}, tree'[q] # None, Rowed(1, Parent[q]), tree'[Parent[q]] = seen[1][Parent[q]]
            PROVE  Accounted(q)
        <4> DEFINE d == Parent[q]
        <4>1. d \in Paths
          BY PathFacts
        <4>2. Saw(d) /\ seen[1][d] \in Objects /\ Known(d, seen[1][d])
          <5>1. Saw(d)
            BY <1>0, <3>1 DEF RowInv, Rowed
          <5> QED
            BY <1>0, <4>1, <5>1 DEF SawInv, Saw, TypeInv
        <4>3. tree[d] = seen[1][d]
          BY <1>1, <3>1, <4>1, <4>2, NeverBack
        <4>4. tree[q] # None
          <5> SUFFICES ASSUME tree[q] = None PROVE FALSE
            OBVIOUS
          <5>1. Exchanged(q)
            BY <3>1 DEF Exchanged
          <5>2. tree'[d].ctime = changes + 1
            BY <1>1, <5>1 DEF SiteFacts
          <5>3. seen[1][d].ctime <= changes /\ seen[1][d].ctime \in Nat /\ changes \in Nat
            BY <4>2 DEF Known, Objects, TypeInv
          <5> QED
            BY <3>1, <5>2, <5>3
        <4> QED
          BY <2>2, <3>1, <4>3, <4>4 DEF CoverInv, Covers
      <3> QED
        BY <2>1, <2>2, <3>1 DEF helper, CoverInv, Covers, Accounted, Rowed, Issued, Pending, R, I, Top
    <2>3. CASE ~(pass = 1 \/ step = "root")
      BY <2>1, <2>3 DEF helper, CoverInv, Covers, Accounted, Rowed, Issued, Pending, R, I, Top
    <2> QED
      BY <2>2, <2>3
  <1>2. CASE WalkFacts /\ pass = 1
    <2>1. Covers(tree)
      BY <1>2 DEF CoverInv
    <2>2. (pass' = 1 \/ step' = "root") /\ tree' = tree
      <3>1. pass' = pass \/ (PassEnded /\ step' = "root")
        BY <1>2, SamePass DEF PassEnded
      <3> QED
        BY <1>2, <3>1 DEF WalkFacts, Steady, site
    <2>3. (\A r \in R(1) : r \in ToSet(rows'[1])) /\ (\A j \in I(1) : j \in ToSet(issues'[1]))
      BY <1>2, SamePass DEF NewRows, NewIssues
    <2>4. ASSUME NEW q \in Paths \ {Root}, tree[q] # None, \E r \in ToSet(rows'[1]) : r.path = Parent[q],
                 tree[Parent[q]] = seen'[1][Parent[q]]
          PROVE  Accounted(q)'
      <3>1. CASE Rowed(1, Parent[q])
        <4>1. Saw(Parent[q]) /\ Parent[q] \in Paths
          BY <1>0, <3>1, PathFacts DEF RowInv, Rowed
        <4>2. seen'[1][Parent[q]] = seen[1][Parent[q]]
          BY <1>2, <4>1, SeenBy DEF SeenFacts, Saw
        <4>3. Accounted(q)
          BY <2>1, <2>4, <3>1, <4>2 DEF Covers
        <4>4. CASE Pending(q)
          BY <1>2, <2>4, <4>4, PendingKept
        <4>5. CASE Rowed(1, q)
          BY <2>3, <4>5 DEF Accounted, Rowed, R
        <4>6. CASE Issued(1, q) \/ Issued(1, Parent[q])
          BY <2>3, <4>6 DEF Accounted, Issued, I
        <4> QED
          BY <4>3, <4>4, <4>5, <4>6 DEF Accounted
      <3>2. CASE ~Rowed(1, Parent[q])
        BY <1>2, <2>4, <3>2, RowThenPending
      <3> QED
        BY <3>1, <3>2
    <2> QED
      BY <2>2, <2>4 DEF CoverInv, Covers, Rowed, R
  <1>3. CASE WalkFacts /\ pass = 2
    <2>1. pass' = 2
      BY <1>3, SamePass DEF PassEnded
    <2>2. ToSet(rows'[1]) = R(1) /\ ToSet(issues'[1]) = I(1) /\ \A p \in Paths : seen'[1][p] = seen[1][p]
      <3>1. ToSet(rows'[1]) = R(1)
        BY <1>3, SamePass DEF NewRows
      <3>2. ToSet(issues'[1]) = I(1)
        BY <1>3, SamePass DEF NewIssues
      <3>3. \A p \in Paths : seen'[1][p] = seen[1][p]
        BY <1>3, SeenBy DEF SeenFacts
      <3> QED
        BY <3>1, <3>2, <3>3
    <2>3. Covers(IF step = "root" THEN tree ELSE between)
      BY <1>3 DEF CoverInv
    <2>4. step' # "root" /\ between' = IF step = "root" THEN tree ELSE between
      <3>1. CASE step = "root"
        <4>1. RootOpened
          BY <1>3, <3>1 DEF WalkFacts, RootOpened, Listed, Left, Statted, StattedSome, Refused, Entered, FileRowed,
                  FileOpened, FileRead, Finished, PassEnded
        <4> QED
          BY <1>3, <3>1, <4>1 DEF RootOpened
      <3>2. CASE step # "root"
        <4>1. PassEnded => step' # "root"
          BY <1>3 DEF PassEnded
        <4>2. Left => step' # "root"
          BY DEF Left
        <4>3. Statted => step' # "root"
          BY <3>2 DEF Statted, StattedSome
        <4>4. RootOpened \/ Listed \/ Refused \/ Entered => step' # "root"
          BY DEF RootOpened, Listed, Refused, Entered
        <4>5. FileRowed \/ FileOpened \/ FileRead \/ Finished => step' # "root"
          BY DEF FileRowed, FileOpened, FileRead, Finished
        <4>6. step' # "root"
          BY <1>3, <4>1, <4>2, <4>3, <4>4, <4>5 DEF WalkFacts
        <4> QED
          BY <1>3, <3>2, <4>6, BetweenStays
      <3> QED
        BY <3>1, <3>2
    <2>5. ASSUME NEW q \in Paths \ {Root}, between'[q] # None, \E r \in ToSet(rows'[1]) : r.path = Parent[q],
                 between'[Parent[q]] = seen'[1][Parent[q]]
          PROVE  Accounted(q)'
      <3>1. Rowed(1, Parent[q]) /\ between'[Parent[q]] = seen[1][Parent[q]]
        BY <2>2, <2>5, PathFacts DEF Rowed
      <3>2. Accounted(q)
        BY <2>3, <2>4, <2>5, <3>1 DEF Covers
      <3> QED
        BY <1>3, <2>2, <3>2 DEF Accounted, Pending, Rowed, Issued, R, I
    <2> QED
      BY <2>1, <2>4, <2>5 DEF CoverInv, Covers, Rowed, R
  <1> QED
    BY <1>0, <1>1, <1>2, <1>3

-----------------------------------------------------------------------------
(* The invariant.                                                          *)

LEMMA IInvInit ==
    ASSUME Init
    PROVE  IInv
  <1>1. rows[1] = <<>> /\ rows[2] = <<>> /\ issues[1] = <<>> /\ issues[2] = <<>> /\ DOMAIN stack = {}
    BY DEF Init
  <1>2. R(1) = {} /\ R(2) = {} /\ I(1) = {} /\ I(2) = {}
    BY <1>1 DEF R, I, ToSet
  <1>3. \A p \in Paths : seen[1][p] = Unseen /\ seen[2][p] = Unseen
    BY DEF Init
  <1>4. pass = 1 /\ step = "root" /\ stack = <<>> /\ entry = None /\ between = None /\ changes = 0 /\ failures = 0
    BY DEF Init
  <1>5. \A p \in Paths : tree[p] # None =>
            /\ tree[p] \in Objects /\ tree[p].kind \in Kinds(p) /\ tree[p].ctime = 0 /\ tree[p].born = 0
            /\ p # Root => IsDirectory(tree[Parent[p]])
    BY DEF Init, Objects
  <1>6. tree \in Trees
    BY <1>5 DEF Init, Trees
  <1>7. TypeInv
    <2>1. rows \in [1 .. 2 -> Seq(Rows)] /\ issues \in [1 .. 2 -> Seq(IssueRecords)]
      <3>1. rows = [k \in 1 .. 2 |-> <<>>] /\ issues = [k \in 1 .. 2 |-> <<>>]
        BY DEF Init
      <3>2. <<>> \in Seq(Rows) /\ <<>> \in Seq(IssueRecords)
        OBVIOUS
      <3> QED
        BY <3>1, <3>2
    <2>2. seen \in [1 .. 2 -> [Paths -> Objects \cup {None, Unseen}]]
      BY DEF Init
    <2> QED
      BY <1>4, <1>6, <2>1, <2>2 DEF TypeInv, Steps
  <1>8. TreeInv
    BY <1>4, <1>5 DEF TreeInv, Init
  <1>9. WalkInv
    BY <1>1, <1>4 DEF WalkInv, PlaceInv, StackInv, EntryInv, InWork
  <1>10. SecondInv
    BY <1>2, <1>3, <1>4 DEF SecondInv
  <1>11. FreshInv
    BY <1>1, <1>2, <1>3, <1>4 DEF FreshInv, Untouched, Rowed, Issued
  <1>12. SeenInv
    <2>1. SawInv
      BY <1>3 DEF SawInv, Saw
    <2>2. HandledInv
      BY <1>1, <1>4 DEF HandledInv
    <2>3. RowInv
      BY <1>2, <1>4 DEF RowInv
    <2> QED
      BY <2>1, <2>2, <2>3 DEF SeenInv
  <1>13. HashInv
    BY <1>2, <1>4 DEF HashInv, RowsAreOfOneFile, R
  <1>14. BetweenInv
    BY <1>4 DEF BetweenInv
  <1>15. CoverInv
    BY <1>2, <1>4 DEF CoverInv, Covers, Rowed
  <1> QED
    BY <1>7, <1>8, <1>9, <1>10, <1>11, <1>12, <1>13, <1>14, <1>15 DEF IInv

LEMMA IInvStutter ==
    ASSUME IInv, UNCHANGED vars
    PROVE  IInv'
  <1>1. TypeInv' /\ TreeInv' /\ WalkInv'
    BY DEF IInv, vars, site, helper, TypeInv, TreeInv, WalkInv, PlaceInv, StackInv, EntryInv, InWork, Top
  <1>2. SecondInv' /\ FreshInv'
    BY DEF IInv, vars, site, helper, SecondInv, FreshInv, Fresh, Untouched, Rowed, Issued, R, I, Top
  <1>3. SawInv'
    BY DEF IInv, vars, site, helper, SeenInv, SawInv, Saw, Known
  <1>4. HandledInv'
    BY DEF IInv, vars, site, helper, SeenInv, HandledInv, Handled, Saw, Known, RowOf, R
  <1>5. RowInv'
    BY DEF IInv, vars, site, helper, SeenInv, RowInv, Rowed, Told, Saw, Known, R
  <1>6. HashInv' /\ BetweenInv'
    BY DEF IInv, vars, site, helper, HashInv, RowsAreOfOneFile, BetweenInv, Saw, R
  <1>7. CoverInv'
    BY DEF IInv, vars, site, helper, CoverInv, Covers, Accounted, Pending, Rowed, Issued, R, I, Top
  <1> QED
    BY <1>1, <1>2, <1>3, <1>4, <1>5, <1>6, <1>7 DEF IInv, SeenInv

LEMMA IInvStep ==
    ASSUME IInv, [Next]_vars
    PROVE  IInv'
  <1>1. CASE UNCHANGED vars
    BY <1>1, IInvStutter
  <1>2. CASE Next
    <2>1. SiteFacts \/ WalkFacts
      BY <1>2, SiteStep, WalkIs DEF IInv, Next
    <2> QED
      BY <2>1, TypeStep, TreeStep, WalkStep, SecondStep, FreshStep, SeenStep, HashStep, BetweenStep, CoverStep DEF IInv
  <1> QED
    BY <1>1, <1>2

\* The invariant that the proofs below rest on, of every reachable state: where
\* the walk of src/native/displaced-inventory-helper.c is, what it has looked at,
\* and what its rows and issues tell of the tree.
THEOREM Invariant == Spec => []IInv
  <1>1. Init => IInv
    BY IInvInit
  <1>2. IInv /\ [Next]_vars => IInv'
    BY IInvStep
  <1> QED
    BY <1>1, <1>2, PTL DEF Spec

\* A hash that a row of either pass holds is of the object whose inode, links and
\* change time the row tells, whatever is put in its place or written to it
\* between the two stats of the file (hash_regular).
THEOREM HashesAreOfTheirRows == Spec => []RowsAreOfOneFile
  <1>1. IInv => RowsAreOfOneFile
    BY DEF IInv, HashInv
  <1> QED
    BY <1>1, Invariant, PTL

-----------------------------------------------------------------------------
(* Sorting.                                                                *)

Sorted(s, S, key) ==
    /\ s \in Seq(S) /\ Len(s) = Cardinality(S) /\ ToSet(s) = S
    /\ \A i, j \in DOMAIN s : i < j => key[s[i]] < key[s[j]]

LEMMA InOrderIs ==
    ASSUME NEW S, IsFiniteSet(S), NEW key \in [S -> Nat], \A x, y \in S : key[x] = key[y] => x = y
    PROVE  Sorted(InOrder(S, key), S, key)
  <1> DEFINE keys == {key[x] : x \in S}
             upto(k) == {l \in keys : l <= k}
             n == Cardinality(S)
             rank == [k \in keys |-> Cardinality(upto(k))]
             nth(m) == CHOOSE k \in keys : Cardinality({l \in keys : l <= k}) = m
             f == [m \in 1 .. n |-> CHOOSE x \in S : key[x] = nth(m)]
  <1>1. keys \in SUBSET Nat
    OBVIOUS
  <1>2. IsFiniteSet(keys) /\ Cardinality(keys) = n /\ n \in Nat
    <2>1. key \in [S -> keys]
      OBVIOUS
    <2>2. key \in Bijection(S, keys)
      BY <2>1 DEF Bijection, Injection, Surjection, IsInjective
    <2> HIDE DEF keys
    <2> QED
      BY <2>2, FS_Bijection, FS_CardinalityType DEF ExistsBijection
  <1>3. \A k \in keys : upto(k) \subseteq keys /\ IsFiniteSet(upto(k)) /\ Cardinality(upto(k)) \in 1 .. n
    <2> TAKE k \in keys
    <2>1. upto(k) \subseteq keys /\ k \in upto(k)
      BY <1>1
    <2> HIDE DEF keys, upto
    <2>2. IsFiniteSet(upto(k)) /\ Cardinality(upto(k)) <= n
      BY <1>2, <2>1, FS_Subset
    <2>3. Cardinality(upto(k)) \in Nat /\ Cardinality(upto(k)) # 0
      BY <2>1, <2>2, FS_CardinalityType, FS_EmptySet
    <2> QED
      BY <1>2, <2>1, <2>2, <2>3
  <1>4. \A k, l \in keys : k < l => Cardinality(upto(k)) < Cardinality(upto(l))
    <2> SUFFICES ASSUME NEW k \in keys, NEW l \in keys, k < l
                 PROVE  Cardinality(upto(k)) < Cardinality(upto(l))
      OBVIOUS
    <2>1. upto(k) \subseteq upto(l) /\ l \in upto(l) /\ l \notin upto(k)
      BY <1>1
    <2> HIDE DEF keys, upto
    <2>2. Cardinality(upto(k)) <= Cardinality(upto(l)) /\ Cardinality(upto(l)) # Cardinality(upto(k))
      BY <1>3, <2>1, FS_Subset
    <2> QED
      BY <1>3, <2>2
  <1>5. \A k, l \in keys : Cardinality(upto(k)) = Cardinality(upto(l)) => k = l
    <2> SUFFICES ASSUME NEW k \in keys, NEW l \in keys, k # l
                 PROVE  Cardinality(upto(k)) # Cardinality(upto(l))
      OBVIOUS
    <2>1. k < l \/ l < k
      BY <1>1
    <2> HIDE DEF keys, upto
    <2> QED
      BY <1>3, <1>4, <2>1
  <1>6. \A m \in 1 .. n : \E k \in keys : Cardinality(upto(k)) = m
    <2> HIDE DEF keys, upto
    <2>1. rank \in Injection(keys, 1 .. n)
      BY <1>3, <1>5 DEF Injection, IsInjective
    <2>2. IsFiniteSet(1 .. n) /\ Cardinality(1 .. n) = n
      BY <1>2, FS_Interval
    <2>3. rank \in Surjection(keys, 1 .. n)
      <3> HIDE DEF rank
      <3> QED
        BY <1>2, <2>1, <2>2, FS_Injection
    <2> QED
      BY <2>3 DEF Surjection
  <1>7. \A m \in 1 .. n : nth(m) \in keys /\ Cardinality(upto(nth(m))) = m
    <2> TAKE m \in 1 .. n
    <2>1. \E k \in keys : Cardinality({l \in keys : l <= k}) = m
      BY <1>6
    <2> HIDE DEF keys
    <2> QED
      BY <2>1
  <1>8. \A m \in 1 .. n : f[m] \in S /\ key[f[m]] = nth(m)
    <2> TAKE m \in 1 .. n
    <2>1. \E x \in S : key[x] = nth(m)
      BY <1>7
    <2> HIDE DEF nth
    <2> QED
      BY <2>1
  <1>9. InOrder(S, key) = f \o <<>>
    BY DEF InOrder
  <1>10. f \in [1 .. n -> S]
    <2> HIDE DEF nth
    <2> QED
      BY <1>8
  <1>11. f \in Seq(S) /\ Len(f) = n /\ DOMAIN f = 1 .. n
    <2> HIDE DEF f
    <2> QED
      BY <1>2, <1>10
  <1>12. InOrder(S, key) = f
    <2> HIDE DEF f
    <2> QED
      BY <1>9, <1>11
  <1>13. \A i, j \in 1 .. n : i < j => key[f[i]] < key[f[j]]
    <2> SUFFICES ASSUME NEW i \in 1 .. n, NEW j \in 1 .. n, i < j, ~(key[f[i]] < key[f[j]])
                 PROVE  FALSE
      OBVIOUS
    <2>1. /\ nth(i) \in keys /\ nth(j) \in keys
          /\ Cardinality(upto(nth(i))) = i /\ Cardinality(upto(nth(j))) = j
          /\ key[f[i]] = nth(i) /\ key[f[j]] = nth(j)
      BY <1>7, <1>8
    <2> HIDE DEF keys, nth, upto, f
    <2>2. nth(j) < nth(i) \/ nth(j) = nth(i)
      <3>1. nth(i) \in Nat /\ nth(j) \in Nat
        BY <1>1, <2>1
      <3>2. ~(nth(i) < nth(j))
        BY <2>1
      <3> QED
        BY <3>1, <3>2
    <2>3. ~(nth(j) < nth(i))
      BY <1>2, <1>4, <2>1
    <2> QED
      BY <1>2, <2>1, <2>2, <2>3
  <1>14. S \subseteq ToSet(f)
    <2> SUFFICES ASSUME NEW x \in S PROVE \E m \in 1 .. n : f[m] = x
      BY <1>11 DEF ToSet
    <2> DEFINE m == Cardinality(upto(key[x]))
    <2>1. key[x] \in keys
      OBVIOUS
    <2>2. m \in 1 .. n
      <3> HIDE DEF keys, upto
      <3> QED
        BY <1>3, <2>1
    <2>3. nth(m) = key[x]
      <3>1. nth(m) \in keys /\ Cardinality(upto(nth(m))) = m
        BY <1>7, <2>2
      <3> HIDE DEF keys, upto, nth
      <3> QED
        BY <1>5, <2>1, <3>1
    <2>4. f[m] \in S /\ key[f[m]] = key[x]
      <3> HIDE DEF keys, upto, nth, f, m
      <3> QED
        BY <1>8, <2>2, <2>3
    <2> QED
      BY <2>2, <2>4
  <1>15. ToSet(f) = S
    <2> HIDE DEF f
    <2> QED
      BY <1>10, <1>11, <1>14 DEF ToSet
  <1> HIDE DEF f, n
  <1> QED
    BY <1>11, <1>12, <1>13, <1>15 DEF Sorted, n

LEMMA SetOfFinite ==
    ASSUME NEW S, NEW s \in Seq(S)
    PROVE  IsFiniteSet(ToSet(s))
  <1> DEFINE T == ToSet(s)
  <1>1. s \in [1 .. Len(s) -> T] /\ Len(s) \in Nat
    BY DEF ToSet
  <1>2. \A t \in T : \E i \in 1 .. Len(s) : s[i] = t
    BY DEF ToSet
  <1>3. s \in Surjection(1 .. Len(s), T)
    <2> HIDE DEF T
    <2> QED
      BY <1>1, <1>2 DEF Surjection
  <1> QED
    BY <1>1, <1>3, FS_NatSurjection DEF ExistsSurjection

RowKey(k) == [r \in R(k) |-> Position(r.path)]
IssueKey(k) == [i \in I(k) |-> Rank(i)]

LEMMA PositionOne ==
    ASSUME NEW p \in Paths, NEW q \in Paths, Position(p) = Position(q)
    PROVE  p = q
  BY PositionIs

LEMMA RowsSorted ==
    ASSUME IInv, NEW k \in 1 .. 2
    PROVE  Sorted(SortedRows(k), R(k), RowKey(k))
  <1>1. rows[k] \in Seq(Rows)
    BY DEF IInv, TypeInv
  <1>2. IsFiniteSet(R(k)) /\ R(k) \subseteq Rows
    BY <1>1, SetOfFinite DEF R, ToSet
  <1>3. RowKey(k) \in [R(k) -> Nat]
    <2>1. \A r \in R(k) : r.path \in Paths
      BY <1>2 DEF Rows
    <2> QED
      BY <2>1, PositionIs DEF RowKey
  <1>4. \A r, t \in R(k) : RowKey(k)[r] = RowKey(k)[t] => r = t
    <2> SUFFICES ASSUME NEW r \in R(k), NEW t \in R(k), RowKey(k)[r] = RowKey(k)[t] PROVE r = t
      OBVIOUS
    <2>1. r.path \in Paths /\ t.path \in Paths /\ Position(r.path) = Position(t.path)
      BY <1>2 DEF Rows, RowKey
    <2>2. r.path = t.path
      BY <2>1, PositionOne
    <2> QED
      BY <2>2 DEF IInv, SeenInv, RowInv
  <1>5. SortedRows(k) = InOrder(R(k), RowKey(k))
    BY DEF SortedRows, R, RowKey
  <1> QED
    BY <1>2, <1>3, <1>4, <1>5, InOrderIs

LEMMA PlaceIs ==
    ASSUME NEW s, NEW x \in ToSet(s)
    PROVE  Place(x, s) \in DOMAIN s /\ s[Place(x, s)] = x
  BY DEF ToSet, Place

LEMMA RankIs ==
    ASSUME NEW i \in IssueRecords, NEW j \in IssueRecords
    PROVE  Rank(i) \in Nat /\ (Rank(i) = Rank(j) => i = j)
  <1> DEFINE L == Len(Order)
             a == Place(i.reason, Reasons)
             b == Position(i.path)
             c == Place(i.detail, Details)
             d == Place(j.reason, Reasons)
             e == Position(j.path)
             f == Place(j.detail, Details)
  <1>1. DOMAIN Details = 1 .. 7 /\ DOMAIN Reasons = 1 .. 12 /\ Len(Details) = 7 /\ L \in Nat /\ DOMAIN Order = 1 .. L
    BY TreeAssumption DEF Details, Reasons
  <1>2. /\ i.reason \in ToSet(Reasons) /\ j.reason \in ToSet(Reasons) /\ i.path \in Paths /\ j.path \in Paths
        /\ i.detail \in ToSet(Details) /\ j.detail \in ToSet(Details)
    BY DEF IssueRecords
  <1>3. /\ a \in 1 .. 12 /\ d \in 1 .. 12 /\ b \in 1 .. L /\ e \in 1 .. L /\ c \in 1 .. 7 /\ f \in 1 .. 7
        /\ Reasons[a] = i.reason /\ Reasons[d] = j.reason /\ Order[b] = i.path /\ Order[e] = j.path
        /\ Details[c] = i.detail /\ Details[f] = j.detail
    BY <1>1, <1>2, PlaceIs, PositionIs
  <1>4. Rank(i) = (a * L + b) * 8 + c /\ Rank(j) = (d * L + e) * 8 + f
    BY <1>1 DEF Rank
  <1> HIDE DEF L, a, b, c, d, e, f
  <1>5. a * L + b \in Nat /\ d * L + e \in Nat
    BY <1>1, <1>3
  <1>6. Rank(i) \in Nat
    BY <1>3, <1>4, <1>5
  <1>7. ASSUME Rank(i) = Rank(j)
        PROVE  i = j
    <2> DEFINE x == a * L + b
               y == d * L + e
    <2>1. x \in Nat /\ y \in Nat /\ x * 8 + c = y * 8 + f
      BY <1>4, <1>5, <1>7
    <2>2. x = y /\ c = f
      <3> HIDE DEF x, y
      <3> QED
        BY <1>3, <2>1
    <2>3. ~(a < d)
      <3> SUFFICES ASSUME a < d PROVE FALSE
        OBVIOUS
      <3>1. (d - a) * L >= L /\ d * L = a * L + (d - a) * L
        BY <1>1, <1>3
      <3>2. a * L \in Nat /\ d * L \in Nat /\ (d - a) * L \in Int
        BY <1>1, <1>3
      <3> QED
        BY <1>1, <1>3, <2>2, <3>1, <3>2
    <2>4. ~(d < a)
      <3> SUFFICES ASSUME d < a PROVE FALSE
        OBVIOUS
      <3>1. (a - d) * L >= L /\ a * L = d * L + (a - d) * L
        BY <1>1, <1>3
      <3>2. a * L \in Nat /\ d * L \in Nat /\ (a - d) * L \in Int
        BY <1>1, <1>3
      <3> QED
        BY <1>1, <1>3, <2>2, <3>1, <3>2
    <2>5. a = d
      BY <1>3, <2>3, <2>4
    <2>6. b = e
      BY <1>1, <1>3, <2>2, <2>5
    <2>7. i.reason = j.reason /\ i.path = j.path /\ i.detail = j.detail
      BY <1>3, <2>2, <2>5, <2>6
    <2> QED
      BY <2>7 DEF IssueRecords
  <1> QED
    BY <1>6, <1>7

LEMMA IssuesSorted ==
    ASSUME IInv, NEW k \in 1 .. 2
    PROVE  Sorted(SortedIssues(k), I(k), IssueKey(k))
  <1>1. issues[k] \in Seq(IssueRecords)
    BY DEF IInv, TypeInv
  <1>2. IsFiniteSet(I(k)) /\ I(k) \subseteq IssueRecords
    BY <1>1, SetOfFinite DEF I, ToSet
  <1>3. IssueKey(k) \in [I(k) -> Nat]
    BY <1>2, RankIs DEF IssueKey
  <1>4. \A i, j \in I(k) : IssueKey(k)[i] = IssueKey(k)[j] => i = j
    BY <1>2, RankIs DEF IssueKey
  <1>5. SortedIssues(k) = InOrder(I(k), IssueKey(k))
    BY DEF SortedIssues, I, IssueKey
  <1> QED
    BY <1>2, <1>3, <1>4, <1>5, InOrderIs

\* Passes that agree have the same rows and the same issues.
LEMMA AgreeIs ==
    ASSUME IInv, Agree
    PROVE  R(1) = R(2) /\ I(1) = I(2)
  <1>1. SortedRows(1) = SortedRows(2) /\ SortedIssues(1) = SortedIssues(2)
    BY DEF Agree, Text
  <1>2. \A k \in 1 .. 2 : ToSet(SortedRows(k)) = R(k) /\ ToSet(SortedIssues(k)) = I(k)
    BY RowsSorted, IssuesSorted DEF Sorted
  <1> QED
    BY <1>1, <1>2

LEMMA SnapshotIs ==
    ASSUME IInv
    PROVE  InventoryIsSnapshot
  <1> SUFFICES ASSUME Done, Agree, issues[1] = <<>>
               PROVE  {[path |-> r.path, obj |-> r.obj] : r \in ToSet(SortedRows(1))} =
                      {[path |-> p, obj |-> Stat(between[p])] : p \in {q \in Paths : between[q] # None}}
    BY DEF InventoryIsSnapshot, Inventory
  <1>1. /\ TypeInv /\ PlaceInv /\ RowInv /\ BetweenInv /\ CoverInv
    BY DEF IInv, WalkInv, SeenInv
  <1>2. pass = 2 /\ step = "done"
    BY <1>1 DEF Done, PlaceInv
  <1>3. ToSet(SortedRows(1)) = R(1)
    BY RowsSorted DEF Sorted
  <1>4. R(1) = R(2) /\ I(1) = {}
    BY AgreeIs, SetOfShort DEF I
  <1>5. ASSUME NEW r \in R(1)
        PROVE  r.path \in Paths /\ between[r.path] # None /\ r.obj = Stat(between[r.path])
               /\ between[r.path] = seen[1][r.path]
    <2>1. r.path \in Paths
      BY <1>5, RowPath DEF IInv
    <2>2. Saw(r.path) /\ r.obj = Stat(seen[1][r.path])
      BY <1>1, <1>5 DEF RowInv
    <2>3. r.obj.ctime = seen[1][r.path].ctime
      BY <2>2, StatIs
    <2>4. between[r.path] = seen[1][r.path]
      BY <1>1, <1>2, <1>4, <2>1, <2>2, <2>3 DEF BetweenInv
    <2> QED
      BY <2>1, <2>2, <2>4 DEF Saw
  <1>6. Rowed(1, Root) /\ \A p \in Paths : between[p] # None => p = Root \/ between[Parent[p]] # None
    BY <1>1, <1>2 DEF RowInv, BetweenInv, IsDirectory
  <1>7. ASSUME NEW q \in Paths \ {Root}, between[q] # None, Rowed(1, Parent[q])
        PROVE  Rowed(1, q)
    <2>1. between[Parent[q]] = seen[1][Parent[q]]
      BY <1>5, <1>7 DEF Rowed
    <2>2. Accounted(q)
      BY <1>1, <1>2, <1>7, <2>1 DEF CoverInv, Covers
    <2> QED
      BY <1>2, <1>4, <2>2 DEF Accounted, Pending, Issued
  <1>8. ASSUME NEW p \in Paths, between[p] # None
        PROVE  Rowed(1, p)
    <2>1. CASE p = Root
      BY <1>6, <2>1
    <2>2. CASE p # Root
      <3>1. between[Parent[p]] # None /\ Parent[p] \in Paths
        BY <1>6, <1>8, <2>2, PathFacts
      <3>2. Rowed(1, Parent[p])
        <4>1. CASE Parent[p] = Root
          BY <1>6, <4>1
        <4>2. CASE Parent[p] # Root
          <5>1. Parent[Parent[p]] = Root
            BY <2>2, <4>2, TreeAssumption
          <5> QED
            BY <1>6, <1>7, <3>1, <4>2, <5>1
        <4> QED
          BY <4>1, <4>2
      <3> QED
        BY <1>7, <1>8, <2>2, <3>2
    <2> QED
      BY <2>1, <2>2
  <1>9. ASSUME NEW p \in Paths, between[p] # None
        PROVE  \E r \in R(1) : r.path = p /\ r.obj = Stat(between[p])
    BY <1>5, <1>8, <1>9 DEF Rowed
  <1> QED
    BY <1>3, <1>5, <1>9

\* An inventory of the helper that says it is complete is the tree as it was when
\* the second pass began, although neither pass saw it at one moment: what main
\* compares, two texts, is enough, for any tree and any changes.
THEOREM InventoryIsOneMoment == Spec => []InventoryIsSnapshot
  <1>1. IInv => InventoryIsSnapshot
    BY SnapshotIs
  <1> QED
    BY <1>1, Invariant, PTL

-----------------------------------------------------------------------------
(* The merge.                                                              *)

PairsOf(X) == [first : X \cup {None}, second : X \cup {None}]
KeyOf(e, K) == IF e.first # None THEN K[e.first] ELSE K[e.second]

\* What a merge of two sets finds: the elements of each whose key the other has
\* not, and both of a key when they are not the same.
Merged(X, K, U, V) ==
    {e \in PairsOf(X) :
        /\ e.first # e.second
        /\ e.first \in U \cup {None} /\ e.second \in V \cup {None}
        /\ e.first # None /\ e.second # None => K[e.first] = K[e.second]
        /\ e.first = None => \A u \in U : K[u] # K[e.second]
        /\ e.second = None => \A v \in V : K[v] # K[e.first]}

LEMMA PairIs ==
    ASSUME NEW X, NEW x \in X \cup {None}, NEW y \in X \cup {None}
    PROVE  /\ [first |-> x, second |-> y] \in PairsOf(X)
           /\ [first |-> x, second |-> y].first = x /\ [first |-> x, second |-> y].second = y
  BY DEF PairsOf

LEMMA PairEq ==
    ASSUME NEW X, NEW e \in PairsOf(X)
    PROVE  e = [first |-> e.first, second |-> e.second] /\ e.first \in X \cup {None} /\ e.second \in X \cup {None}
  BY DEF PairsOf

LEMMA MergedIs ==
    ASSUME NEW X, NEW K, NEW U, NEW V, NEW e
    PROVE  e \in Merged(X, K, U, V) <=>
                /\ e \in PairsOf(X) /\ e.first # e.second
                /\ e.first \in U \cup {None} /\ e.second \in V \cup {None}
                /\ e.first # None /\ e.second # None => K[e.first] = K[e.second]
                /\ e.first = None => \A u \in U : K[u] # K[e.second]
                /\ e.second = None => \A v \in V : K[v] # K[e.first]
  BY DEF Merged

LEMMA MergedNone ==
    ASSUME NEW X, NEW K
    PROVE  Merged(X, K, {}, {}) = {}
  BY MergedIs

LEMMA MergedFirst ==
    ASSUME NEW X, None \notin X, NEW K \in [X -> Nat], NEW U \in SUBSET X, NEW V \in SUBSET X,
           NEW u \in X, \A x \in U \cup V : K[u] < K[x]
    PROVE  Merged(X, K, {u} \cup U, V) = {[first |-> u, second |-> None]} \cup Merged(X, K, U, V)
  <1> DEFINE one == [first |-> u, second |-> None]
  <1>0. one \in PairsOf(X) /\ one.first = u /\ one.second = None
    BY PairIs
  <1> HIDE DEF one
  <1>k. /\ K[u] \in Nat /\ \A x \in U \cup V : K[x] \in Nat /\ K[u] < K[x] /\ K[x] # K[u] /\ x # u /\ x # None
        /\ u # None
    OBVIOUS
  <1>1. ASSUME NEW e \in Merged(X, K, {u} \cup U, V)
        PROVE  e \in {one} \cup Merged(X, K, U, V)
    <2>1. /\ e \in PairsOf(X) /\ e.first # e.second
          /\ e.first \in {u} \cup U \cup {None} /\ e.second \in V \cup {None}
          /\ e.first # None /\ e.second # None => K[e.first] = K[e.second]
          /\ e.first = None => \A x \in {u} \cup U : K[x] # K[e.second]
          /\ e.second = None => \A v \in V : K[v] # K[e.first]
      BY <1>1, MergedIs
    <2>2. CASE e.first = u
      <3>1. e.second = None
        BY <1>k, <2>1, <2>2
      <3> QED
        BY <2>1, <2>2, <3>1, PairEq DEF one
    <2>3. CASE e.first # u
      BY <2>1, <2>3, MergedIs
    <2> QED
      BY <2>2, <2>3
  <1>2. one \in Merged(X, K, {u} \cup U, V)
    BY <1>0, <1>k, MergedIs
  <1>3. ASSUME NEW e \in Merged(X, K, U, V)
        PROVE  e \in Merged(X, K, {u} \cup U, V)
    <2>1. /\ e \in PairsOf(X) /\ e.first # e.second
          /\ e.first \in U \cup {None} /\ e.second \in V \cup {None}
          /\ e.first # None /\ e.second # None => K[e.first] = K[e.second]
          /\ e.first = None => \A x \in U : K[x] # K[e.second]
          /\ e.second = None => \A v \in V : K[v] # K[e.first]
      BY <1>3, MergedIs
    <2>2. e.first = None => K[u] # K[e.second]
      BY <1>k, <2>1
    <2> QED
      BY <2>1, <2>2, MergedIs
  <1> QED
    BY <1>1, <1>2, <1>3 DEF one

LEMMA MergedSecond ==
    ASSUME NEW X, None \notin X, NEW K \in [X -> Nat], NEW U \in SUBSET X, NEW V \in SUBSET X,
           NEW v \in X, \A x \in U \cup V : K[v] < K[x]
    PROVE  Merged(X, K, U, {v} \cup V) = {[first |-> None, second |-> v]} \cup Merged(X, K, U, V)
  <1> DEFINE one == [first |-> None, second |-> v]
  <1>0. one \in PairsOf(X) /\ one.first = None /\ one.second = v
    BY PairIs
  <1> HIDE DEF one
  <1>k. /\ K[v] \in Nat /\ \A x \in U \cup V : K[x] \in Nat /\ K[v] < K[x] /\ K[x] # K[v] /\ x # v /\ x # None
        /\ v # None
    OBVIOUS
  <1>1. ASSUME NEW e \in Merged(X, K, U, {v} \cup V)
        PROVE  e \in {one} \cup Merged(X, K, U, V)
    <2>1. /\ e \in PairsOf(X) /\ e.first # e.second
          /\ e.first \in U \cup {None} /\ e.second \in {v} \cup V \cup {None}
          /\ e.first # None /\ e.second # None => K[e.first] = K[e.second]
          /\ e.first = None => \A x \in U : K[x] # K[e.second]
          /\ e.second = None => \A x \in {v} \cup V : K[x] # K[e.first]
      BY <1>1, MergedIs
    <2>2. CASE e.second = v
      <3>1. e.first = None
        BY <1>k, <2>1, <2>2
      <3> QED
        BY <2>1, <2>2, <3>1, PairEq DEF one
    <2>3. CASE e.second # v
      BY <2>1, <2>3, MergedIs
    <2> QED
      BY <2>2, <2>3
  <1>2. one \in Merged(X, K, U, {v} \cup V)
    BY <1>0, <1>k, MergedIs
  <1>3. ASSUME NEW e \in Merged(X, K, U, V)
        PROVE  e \in Merged(X, K, U, {v} \cup V)
    <2>1. /\ e \in PairsOf(X) /\ e.first # e.second
          /\ e.first \in U \cup {None} /\ e.second \in V \cup {None}
          /\ e.first # None /\ e.second # None => K[e.first] = K[e.second]
          /\ e.first = None => \A x \in U : K[x] # K[e.second]
          /\ e.second = None => \A x \in V : K[x] # K[e.first]
      BY <1>3, MergedIs
    <2>2. e.second = None => K[v] # K[e.first]
      BY <1>k, <2>1
    <2> QED
      BY <2>1, <2>2, MergedIs
  <1> QED
    BY <1>1, <1>2, <1>3 DEF one

LEMMA MergedBoth ==
    ASSUME NEW X, None \notin X, NEW K \in [X -> Nat], NEW U \in SUBSET X, NEW V \in SUBSET X,
           NEW u \in X, NEW v \in X, K[u] = K[v], \A x \in U \cup V : K[u] < K[x]
    PROVE  Merged(X, K, {u} \cup U, {v} \cup V) =
                (IF u = v THEN {} ELSE {[first |-> u, second |-> v]}) \cup Merged(X, K, U, V)
  <1> DEFINE one == [first |-> u, second |-> v]
  <1>0. one \in PairsOf(X) /\ one.first = u /\ one.second = v
    BY PairIs
  <1> HIDE DEF one
  <1>k. /\ K[u] \in Nat /\ \A x \in U \cup V : K[x] \in Nat /\ K[u] < K[x] /\ K[x] # K[u] /\ x # u /\ x # v /\ x # None
        /\ u # None /\ v # None
    OBVIOUS
  <1>1. ASSUME NEW e \in Merged(X, K, {u} \cup U, {v} \cup V)
        PROVE  (e = one /\ u # v) \/ e \in Merged(X, K, U, V)
    <2>1. /\ e \in PairsOf(X) /\ e.first # e.second
          /\ e.first \in {u} \cup U \cup {None} /\ e.second \in {v} \cup V \cup {None}
          /\ e.first # None /\ e.second # None => K[e.first] = K[e.second]
          /\ e.first = None => \A x \in {u} \cup U : K[x] # K[e.second]
          /\ e.second = None => \A x \in {v} \cup V : K[x] # K[e.first]
      BY <1>1, MergedIs
    <2>2. CASE e.first = u
      <3>1. e.second = v
        BY <1>k, <2>1, <2>2
      <3> QED
        BY <2>1, <2>2, <3>1, PairEq DEF one
    <2>3. CASE e.first # u
      <3>1. e.second # v
        BY <1>k, <2>1, <2>3
      <3> QED
        BY <2>1, <2>3, <3>1, MergedIs
    <2> QED
      BY <2>2, <2>3
  <1>2. u # v => one \in Merged(X, K, {u} \cup U, {v} \cup V)
    BY <1>0, <1>k, MergedIs
  <1>3. ASSUME NEW e \in Merged(X, K, U, V)
        PROVE  e \in Merged(X, K, {u} \cup U, {v} \cup V)
    <2>1. /\ e \in PairsOf(X) /\ e.first # e.second
          /\ e.first \in U \cup {None} /\ e.second \in V \cup {None}
          /\ e.first # None /\ e.second # None => K[e.first] = K[e.second]
          /\ e.first = None => \A x \in U : K[x] # K[e.second]
          /\ e.second = None => \A x \in V : K[x] # K[e.first]
      BY <1>3, MergedIs
    <2>2. (e.second = None => K[v] # K[e.first]) /\ (e.first = None => K[u] # K[e.second])
      BY <1>k, <2>1
    <2> QED
      BY <2>1, <2>2, MergedIs
  <1> QED
    BY <1>1, <1>2, <1>3 DEF one

LEMMA MergedAbove ==
    ASSUME NEW X, None \notin X, NEW K \in [X -> Nat], NEW U \in SUBSET X, NEW V \in SUBSET X,
           NEW n \in Nat, \A x \in U \cup V : n < K[x], NEW e \in Merged(X, K, U, V)
    PROVE  n < KeyOf(e, K)
  BY MergedIs DEF KeyOf

Rising(s, X, K) ==
    /\ s \in Seq(PairsOf(X))
    /\ \A i, j \in DOMAIN s : i < j => KeyOf(s[i], K) < KeyOf(s[j], K)

LEMMA Prepended ==
    ASSUME NEW X, NEW K, NEW s, Rising(s, X, K), NEW e \in PairsOf(X),
           \A d \in ToSet(s) : KeyOf(e, K) < KeyOf(d, K)
    PROVE  Rising(<<e>> \o s, X, K) /\ ToSet(<<e>> \o s) = {e} \cup ToSet(s)
  <1>1. s \in Seq(PairsOf(X)) /\ <<e>> \in Seq(PairsOf(X)) /\ ToSet(<<e>>) = {e}
    BY SetOfShort DEF Rising
  <1>2. ToSet(<<e>> \o s) = {e} \cup ToSet(s)
    <2> DEFINE one == <<e>>
    <2> HIDE DEF one
    <2>0. one \in Seq(PairsOf(X)) /\ ToSet(one) = {e}
      BY <1>1 DEF one
    <2>1. ToSet(one \o s) = ToSet(one) \cup ToSet(s)
      BY <1>1, <2>0, SetOfConcat
    <2> QED
      BY <1>1, <2>1 DEF one
  <1>3. /\ <<e>> \o s \in Seq(PairsOf(X)) /\ DOMAIN (<<e>> \o s) = 1 .. Len(s) + 1 /\ (<<e>> \o s)[1] = e
        /\ \A i \in 2 .. Len(s) + 1 : i - 1 \in DOMAIN s /\ (<<e>> \o s)[i] = s[i - 1]
    BY <1>1
  <1>4. \A i \in DOMAIN s : s[i] \in ToSet(s)
    BY DEF ToSet
  <1>5. ASSUME NEW i \in 1 .. Len(s) + 1, NEW j \in 1 .. Len(s) + 1, i < j
        PROVE  KeyOf((<<e>> \o s)[i], K) < KeyOf((<<e>> \o s)[j], K)
    <2>1. j \in 2 .. Len(s) + 1 /\ j - 1 \in DOMAIN s /\ (<<e>> \o s)[j] = s[j - 1]
      BY <1>1, <1>3, <1>5
    <2>2. CASE i = 1
      BY <1>3, <1>4, <2>1, <2>2
    <2>3. CASE i # 1
      <3>1. i \in 2 .. Len(s) + 1 /\ i - 1 \in DOMAIN s /\ (<<e>> \o s)[i] = s[i - 1] /\ i - 1 < j - 1
        BY <1>1, <1>3, <1>5, <2>3
      <3> QED
        BY <2>1, <3>1 DEF Rising
    <2> QED
      BY <2>2, <2>3
  <1> QED
    BY <1>2, <1>3, <1>5 DEF Rising

\* What is left of a sequence.
From(s, i) == {s[x] : x \in i .. Len(s)}

LEMMA FromIs ==
    ASSUME NEW S, NEW s \in Seq(S)
    PROVE  /\ From(s, 1) = ToSet(s) /\ From(s, Len(s) + 1) = {}
           /\ \A i \in 1 .. Len(s) : s[i] \in S /\ From(s, i) = {s[i]} \cup From(s, i + 1)
           /\ \A i \in 1 .. Len(s) + 1 : From(s, i) \subseteq S
  <1>1. From(s, 1) = ToSet(s) /\ From(s, Len(s) + 1) = {}
    BY DEF From, ToSet
  <1>2. ASSUME NEW i \in 1 .. Len(s)
        PROVE  s[i] \in S /\ From(s, i) = {s[i]} \cup From(s, i + 1)
    <2>1. i .. Len(s) = {i} \cup (i + 1) .. Len(s)
      OBVIOUS
    <2> QED
      BY <2>1 DEF From
  <1>3. \A i \in 1 .. Len(s) + 1 : From(s, i) \subseteq S
    BY DEF From
  <1> QED
    BY <1>1, <1>2, <1>3

Ascending(s, K) == \A i, j \in DOMAIN s : i < j => K[s[i]] < K[s[j]]

LEMMA FromAbove ==
    ASSUME NEW S, NEW s \in Seq(S), NEW K, Ascending(s, K), NEW i \in 1 .. Len(s)
    PROVE  \A x \in From(s, i + 1) : K[s[i]] < K[x]
  BY DEF From, Ascending

\* One step of the merge, when m is what the steps after it give.
MergeOf(m, a, ra, b, rb, i, j) ==
    IF i > Len(a) /\ j > Len(b) THEN <<>>
    ELSE IF j > Len(b) \/ (i <= Len(a) /\ ra[i] < rb[j])
    THEN <<[first |-> a[i], second |-> None]>> \o m[<<i + 1, j>>]
    ELSE IF i > Len(a) \/ rb[j] < ra[i]
    THEN <<[first |-> None, second |-> b[j]]>> \o m[<<i, j + 1>>]
    ELSE (IF a[i] = b[j] THEN <<>> ELSE <<[first |-> a[i], second |-> b[j]]>>)
            \o m[<<i + 1, j + 1>>]

Places(a, b) == (1 .. Len(a) + 1) \X (1 .. Len(b) + 1)
Rest(a, b, n) == (Len(a) + 1 - n[1]) + (Len(b) + 1 - n[2])

LEMMA RestIs ==
    ASSUME NEW S, NEW a \in Seq(S), NEW b \in Seq(S), NEW n \in Places(a, b)
    PROVE  /\ Rest(a, b, n) \in Nat /\ Rest(a, b, n) <= Len(a) + Len(b)
           /\ n[1] \in 1 .. Len(a) + 1 /\ n[2] \in 1 .. Len(b) + 1
           /\ Rest(a, b, n) = 0 => n[1] > Len(a) /\ n[2] > Len(b)
           /\ n[1] <= Len(a) => <<n[1] + 1, n[2]>> \in Places(a, b) /\ Rest(a, b, <<n[1] + 1, n[2]>>) = Rest(a, b, n) - 1
           /\ n[2] <= Len(b) => <<n[1], n[2] + 1>> \in Places(a, b) /\ Rest(a, b, <<n[1], n[2] + 1>>) = Rest(a, b, n) - 1
           /\ n[1] <= Len(a) /\ n[2] <= Len(b) =>
                /\ <<n[1] + 1, n[2] + 1>> \in Places(a, b)
                /\ Rest(a, b, <<n[1] + 1, n[2] + 1>>) = Rest(a, b, n) - 2
  <1> DEFINE i == n[1]
             j == n[2]
             A == Len(a)
             B == Len(b)
  <1>1. i \in 1 .. A + 1 /\ j \in 1 .. B + 1 /\ A \in Nat /\ B \in Nat
    BY DEF Places
  <1>2. /\ Rest(a, b, n) = (A + 1 - i) + (B + 1 - j)
        /\ \A x, y : Rest(a, b, <<x, y>>) = (A + 1 - x) + (B + 1 - y)
    BY DEF Rest
  <1>3. \A x \in 1 .. A + 1, y \in 1 .. B + 1 : <<x, y>> \in Places(a, b)
    BY DEF Places
  <1> HIDE DEF i, j, A, B
  <1>4. /\ Rest(a, b, n) \in Nat /\ Rest(a, b, n) <= A + B
        /\ Rest(a, b, n) = 0 => i > A /\ j > B
    BY <1>1, <1>2
  <1>5. i <= A => <<i + 1, j>> \in Places(a, b) /\ Rest(a, b, <<i + 1, j>>) = Rest(a, b, n) - 1
    BY <1>1, <1>2, <1>3
  <1>6. j <= B => <<i, j + 1>> \in Places(a, b) /\ Rest(a, b, <<i, j + 1>>) = Rest(a, b, n) - 1
    BY <1>1, <1>2, <1>3
  <1>7. i <= A /\ j <= B =>
            /\ <<i + 1, j + 1>> \in Places(a, b)
            /\ Rest(a, b, <<i + 1, j + 1>>) = Rest(a, b, n) - 2
    BY <1>1, <1>2, <1>3
  <1> QED
    BY <1>1, <1>4, <1>5, <1>6, <1>7 DEF i, j, A, B

LEMMA RestBounds ==
    ASSUME NEW S, NEW a \in Seq(S), NEW b \in Seq(S), NEW n \in Places(a, b)
    PROVE  /\ Rest(a, b, n) \in Nat /\ Rest(a, b, n) <= Len(a) + Len(b)
           /\ Rest(a, b, n) = 0 => n[1] > Len(a) /\ n[2] > Len(b)
  BY DEF Places, Rest

\* A step looks at what is left and at nothing else.
Ahead(a, ra, b, rb) ==
    \A n \in Places(a, b) : \A f, g :
        (\A l \in Places(a, b) : Rest(a, b, l) < Rest(a, b, n) => f[l] = g[l])
            => MergeOf(f, a, ra, b, rb, n[1], n[2]) = MergeOf(g, a, ra, b, rb, n[1], n[2])

LEMMA MergeLooksAhead ==
    ASSUME NEW S, NEW a \in Seq(S), NEW b \in Seq(S), NEW ra, NEW rb
    PROVE  Ahead(a, ra, b, rb)
  <1> SUFFICES ASSUME NEW n \in Places(a, b), NEW f, NEW g,
                      \A l \in Places(a, b) : Rest(a, b, l) < Rest(a, b, n) => f[l] = g[l]
               PROVE  MergeOf(f, a, ra, b, rb, n[1], n[2]) = MergeOf(g, a, ra, b, rb, n[1], n[2])
    BY DEF Ahead
  <1> DEFINE i == n[1]
             j == n[2]
  <1>1. /\ Rest(a, b, n) \in Nat /\ i \in 1 .. Len(a) + 1 /\ j \in 1 .. Len(b) + 1 /\ Len(a) \in Nat /\ Len(b) \in Nat
        /\ i <= Len(a) => <<i + 1, j>> \in Places(a, b) /\ Rest(a, b, <<i + 1, j>>) = Rest(a, b, n) - 1
        /\ j <= Len(b) => <<i, j + 1>> \in Places(a, b) /\ Rest(a, b, <<i, j + 1>>) = Rest(a, b, n) - 1
        /\ i <= Len(a) /\ j <= Len(b) =>
                /\ <<i + 1, j + 1>> \in Places(a, b)
                /\ Rest(a, b, <<i + 1, j + 1>>) = Rest(a, b, n) - 2
    BY RestIs
  <1> HIDE DEF i, j
  <1>2. /\ i <= Len(a) => f[<<i + 1, j>>] = g[<<i + 1, j>>]
        /\ j <= Len(b) => f[<<i, j + 1>>] = g[<<i, j + 1>>]
        /\ i <= Len(a) /\ j <= Len(b) => f[<<i + 1, j + 1>>] = g[<<i + 1, j + 1>>]
    BY <1>1
  <1>3. MergeOf(f, a, ra, b, rb, i, j) = MergeOf(g, a, ra, b, rb, i, j)
    <2>1. CASE i > Len(a) /\ j > Len(b)
      BY <2>1 DEF MergeOf
    <2>2. CASE i <= Len(a) /\ j > Len(b)
      BY <1>1, <1>2, <2>2 DEF MergeOf
    <2>3. CASE i > Len(a) /\ j <= Len(b)
      BY <1>1, <1>2, <2>3 DEF MergeOf
    <2>4. CASE i <= Len(a) /\ j <= Len(b)
      BY <1>1, <1>2, <2>4 DEF MergeOf
    <2> QED
      BY <1>1, <2>1, <2>2, <2>3, <2>4
  <1> QED
    BY <1>3 DEF i, j

IsMerge(m, a, ra, b, rb) == m = [n \in Places(a, b) |-> MergeOf(m, a, ra, b, rb, n[1], n[2])]

\* The definition of the merge is sound: there is such a function.
LEMMA MergeExists ==
    ASSUME NEW S, NEW a \in Seq(S), NEW b \in Seq(S), NEW ra, NEW rb
    PROVE  \E m : IsMerge(m, a, ra, b, rb)
  <1> DEFINE D == Places(a, b)
             Step1(f, n) == MergeOf(f, a, ra, b, rb, n[1], n[2])
             Upto(f, N) == f = [n \in D |-> f[n]] /\ \A n \in D : Rest(a, b, n) <= N => f[n] = Step1(f, n)
             Bad == {N \in Nat : ~(\E f : Upto(f, N))}
  <1> DEFINE rest(n) == Rest(a, b, n)
             all == Len(a) + Len(b)
             last(n) == n[1] > Len(a) /\ n[2] > Len(b)
  <1>0. \A n \in D : rest(n) \in Nat
    BY RestBounds
  <1>m. \A n \in D : rest(n) <= all
    BY RestBounds
  <1>n. \A n \in D : rest(n) = 0 => last(n)
    BY RestBounds
  <1>l. \A n \in D : \A f, g :
            (\A l \in D : Rest(a, b, l) < Rest(a, b, n) => f[l] = g[l])
                => MergeOf(f, a, ra, b, rb, n[1], n[2]) = MergeOf(g, a, ra, b, rb, n[1], n[2])
    <2>1. Ahead(a, ra, b, rb)
      BY MergeLooksAhead
    <2> QED
      BY <2>1, Zenon DEF Ahead
  <1>1. \E f : Upto(f, 0)
    <2> DEFINE f == [n \in D |-> <<>>]
    <2>1. f = [n \in D |-> f[n]]
      OBVIOUS
    <2>2. ASSUME NEW n \in D, Rest(a, b, n) <= 0
          PROVE  f[n] = Step1(f, n)
      <3>1. last(n)
        <4> HIDE DEF D, rest, last
        <4>1. rest(n) \in Nat /\ rest(n) <= 0
          BY <1>0, <2>2 DEF rest
        <4> QED
          BY <1>n, <4>1
      <3>2. Step1(f, n) = <<>>
        BY <3>1 DEF MergeOf
      <3> QED
        BY <3>2
    <2> HIDE DEF f, D, Step1
    <2> QED
      BY <2>1, <2>2
  <1>2. ASSUME NEW N \in Nat, NEW f, Upto(f, N)
        PROVE  \E g : Upto(g, N + 1)
    <2> DEFINE g == [n \in D |-> IF Rest(a, b, n) <= N THEN f[n] ELSE Step1(f, n)]
    <2>1. g = [n \in D |-> g[n]]
      OBVIOUS
    <2>2. ASSUME NEW n \in D, Rest(a, b, n) <= N + 1
          PROVE  g[n] = Step1(g, n)
      <3>1. Rest(a, b, n) \in Nat /\ \A l \in D : Rest(a, b, l) \in Nat
        BY <1>0, Zenon
      <3>2. \A l \in D : Rest(a, b, l) < Rest(a, b, n) => f[l] = g[l]
        <4> HIDE DEF D, Step1
        <4> QED
          BY <2>2, <3>1
      <3> HIDE DEF g
      <3>3. Step1(f, n) = Step1(g, n)
        <4>1. \A h : (\A l \in Places(a, b) : Rest(a, b, l) < Rest(a, b, n) => f[l] = h[l])
                    => MergeOf(f, a, ra, b, rb, n[1], n[2]) = MergeOf(h, a, ra, b, rb, n[1], n[2])
          BY <1>l, Zenon
        <4> QED
          BY <3>2, <4>1, Zenon
      <3>4. g[n] = Step1(f, n)
        <4> HIDE DEF D, Step1
        <4> QED
          BY <1>2 DEF g
      <3> QED
        BY <3>3, <3>4
    <2> HIDE DEF g, D, Step1
    <2> QED
      BY <2>1, <2>2
  <1>3. Bad = {}
    <2> SUFFICES ASSUME Bad # {} PROVE FALSE
      OBVIOUS
    <2>1. Bad \in SUBSET Nat
      OBVIOUS
    <2>2. PICK N \in Bad : \A l \in Bad : N <= l
      <3> HIDE DEF Bad
      <3> QED
        BY <2>1, Least
    <2>3. N \in Nat /\ ~(\E f : Upto(f, N))
      <3> HIDE DEF Upto
      <3> QED
        OBVIOUS
    <2> HIDE DEF Upto
    <2>4. N # 0
      BY <1>1, <2>3
    <2>5. N - 1 \in Nat /\ ~(N <= N - 1) /\ N - 1 + 1 = N
      BY <2>3, <2>4
    <2>6. N - 1 \notin Bad
      <3> HIDE DEF Bad
      <3> QED
        BY <2>2, <2>5
    <2>7. PICK f : Upto(f, N - 1)
      BY <2>5, <2>6
    <2> QED
      BY <1>2, <2>3, <2>5, <2>7
  <1>4. PICK f : Upto(f, Len(a) + Len(b))
    <2>1. Len(a) + Len(b) \in Nat
      OBVIOUS
    <2> HIDE DEF Upto
    <2> QED
      BY <1>3, <2>1
  <1>5. \A n \in D : f[n] = Step1(f, n)
    <2>1. \A n \in D : Rest(a, b, n) <= Len(a) + Len(b)
      BY <1>m, Zenon
    <2> HIDE DEF D, Step1
    <2> QED
      BY <1>4, <2>1
  <1>6. f = [n \in D |-> Step1(f, n)]
    <2> HIDE DEF D, Step1
    <2> QED
      BY <1>4, <1>5
  <1> QED
    BY <1>6 DEF IsMerge

LEMMA PairsIs ==
    ASSUME NEW S, NEW a \in Seq(S), NEW b \in Seq(S), NEW ra, NEW rb
    PROVE  \E m : IsMerge(m, a, ra, b, rb) /\ Pairs(a, ra, b, rb) = m[<<1, 1>>]
  <1> DEFINE m == CHOOSE m : IsMerge(m, a, ra, b, rb)
  <1>1. IsMerge(m, a, ra, b, rb)
    <2>1. \E f : IsMerge(f, a, ra, b, rb)
      BY MergeExists
    <2> QED
      BY <2>1
  <1>2. Pairs(a, ra, b, rb) = m[<<1, 1>>]
    BY DEF Pairs, IsMerge, MergeOf, Places
  <1> HIDE DEF m
  <1> QED
    BY <1>1, <1>2

Merges(s, X, K, U, V) == Rising(s, X, K) /\ ToSet(s) = Merged(X, K, U, V)

LEMMA MergesNone ==
    ASSUME NEW X, NEW K
    PROVE  Merges(<<>>, X, K, {}, {})
  <1>1. <<>> \in Seq(PairsOf(X)) /\ ToSet(<<>>) = {}
    BY SetOfShort
  <1> QED
    BY <1>1, MergedNone DEF Merges, Rising

LEMMA MergesFirst ==
    ASSUME NEW X, None \notin X, NEW K \in [X -> Nat], NEW U \in SUBSET X, NEW V \in SUBSET X,
           NEW u \in X, \A x \in U \cup V : K[u] < K[x], NEW s, Merges(s, X, K, U, V)
    PROVE  Merges(<<[first |-> u, second |-> None]>> \o s, X, K, {u} \cup U, V)
  <1> DEFINE e == [first |-> u, second |-> None]
  <1>1. e \in PairsOf(X) /\ KeyOf(e, K) = K[u] /\ K[u] \in Nat
    BY PairIs DEF KeyOf
  <1>2. Merged(X, K, {u} \cup U, V) = {e} \cup Merged(X, K, U, V)
    BY MergedFirst
  <1> HIDE DEF e
  <1>3. \A d \in ToSet(s) : KeyOf(e, K) < KeyOf(d, K)
    BY <1>1, MergedAbove DEF Merges
  <1>4. Rising(<<e>> \o s, X, K) /\ ToSet(<<e>> \o s) = {e} \cup ToSet(s)
    BY <1>1, <1>3, Prepended DEF Merges
  <1>5. Merges(<<e>> \o s, X, K, {u} \cup U, V)
    BY <1>2, <1>4 DEF Merges
  <1> QED
    BY <1>5 DEF e

LEMMA MergesSecond ==
    ASSUME NEW X, None \notin X, NEW K \in [X -> Nat], NEW U \in SUBSET X, NEW V \in SUBSET X,
           NEW v \in X, \A x \in U \cup V : K[v] < K[x], NEW s, Merges(s, X, K, U, V)
    PROVE  Merges(<<[first |-> None, second |-> v]>> \o s, X, K, U, {v} \cup V)
  <1> DEFINE e == [first |-> None, second |-> v]
  <1>1. e \in PairsOf(X) /\ KeyOf(e, K) = K[v] /\ K[v] \in Nat
    BY PairIs DEF KeyOf
  <1>2. Merged(X, K, U, {v} \cup V) = {e} \cup Merged(X, K, U, V)
    BY MergedSecond
  <1> HIDE DEF e
  <1>3. \A d \in ToSet(s) : KeyOf(e, K) < KeyOf(d, K)
    BY <1>1, MergedAbove DEF Merges
  <1>4. Rising(<<e>> \o s, X, K) /\ ToSet(<<e>> \o s) = {e} \cup ToSet(s)
    BY <1>1, <1>3, Prepended DEF Merges
  <1>5. Merges(<<e>> \o s, X, K, U, {v} \cup V)
    BY <1>2, <1>4 DEF Merges
  <1> QED
    BY <1>5 DEF e

LEMMA MergesBoth ==
    ASSUME NEW X, None \notin X, NEW K \in [X -> Nat], NEW U \in SUBSET X, NEW V \in SUBSET X,
           NEW u \in X, NEW v \in X, K[u] = K[v], \A x \in U \cup V : K[u] < K[x], NEW s, Merges(s, X, K, U, V)
    PROVE  Merges((IF u = v THEN <<>> ELSE <<[first |-> u, second |-> v]>>) \o s, X, K, {u} \cup U, {v} \cup V)
  <1> DEFINE e == [first |-> u, second |-> v]
  <1>1. e \in PairsOf(X) /\ KeyOf(e, K) = K[u] /\ K[u] \in Nat
    BY PairIs DEF KeyOf
  <1>2. Merged(X, K, {u} \cup U, {v} \cup V) = (IF u = v THEN {} ELSE {e}) \cup Merged(X, K, U, V)
    BY MergedBoth
  <1> HIDE DEF e
  <1>3. \A d \in ToSet(s) : KeyOf(e, K) < KeyOf(d, K)
    BY <1>1, MergedAbove DEF Merges
  <1>4. Rising(<<e>> \o s, X, K) /\ ToSet(<<e>> \o s) = {e} \cup ToSet(s)
    BY <1>1, <1>3, Prepended DEF Merges
  <1>5. CASE u = v
    <2>1. <<>> \o s = s
      BY DEF Merges, Rising
    <2>2. Merges(s, X, K, {u} \cup U, {v} \cup V)
      BY <1>2, <1>5 DEF Merges
    <2> QED
      BY <1>5, <2>1, <2>2
  <1>6. CASE u # v
    <2>1. Merges(<<e>> \o s, X, K, {u} \cup U, {v} \cup V)
      BY <1>2, <1>4, <1>6 DEF Merges
    <2> QED
      BY <1>6, <2>1 DEF e
  <1> QED
    BY <1>5, <1>6

KeysOf(r, s, K) == \A i \in DOMAIN s : r[i] = K[s[i]]
MergesAt(m, X, K, a, b, n) == Merges(m[n], X, K, From(a, n[1]), From(b, n[2]))

LEMMA MergesOn ==
    ASSUME NEW X, None \notin X, NEW K \in [X -> Nat], NEW a \in Seq(X), NEW b \in Seq(X),
           Ascending(a, K), Ascending(b, K), NEW ra, NEW rb, KeysOf(ra, a, K), KeysOf(rb, b, K),
           NEW m, IsMerge(m, a, ra, b, rb), NEW n \in Places(a, b),
           \A l \in Places(a, b) : Rest(a, b, l) < Rest(a, b, n) => MergesAt(m, X, K, a, b, l)
    PROVE  MergesAt(m, X, K, a, b, n)
  <1> DEFINE i == n[1]
             j == n[2]
             U == From(a, i + 1)
             V == From(b, j + 1)
  <1>1. /\ Rest(a, b, n) \in Nat /\ i \in 1 .. Len(a) + 1 /\ j \in 1 .. Len(b) + 1 /\ Len(a) \in Nat /\ Len(b) \in Nat
        /\ i <= Len(a) => <<i + 1, j>> \in Places(a, b) /\ Rest(a, b, <<i + 1, j>>) < Rest(a, b, n)
        /\ j <= Len(b) => <<i, j + 1>> \in Places(a, b) /\ Rest(a, b, <<i, j + 1>>) < Rest(a, b, n)
        /\ i <= Len(a) /\ j <= Len(b) => <<i + 1, j + 1>> \in Places(a, b) /\ Rest(a, b, <<i + 1, j + 1>>) < Rest(a, b, n)
    <2>1. /\ Rest(a, b, n) \in Nat /\ i \in 1 .. Len(a) + 1 /\ j \in 1 .. Len(b) + 1 /\ Len(a) \in Nat /\ Len(b) \in Nat
          /\ i <= Len(a) => <<i + 1, j>> \in Places(a, b) /\ Rest(a, b, <<i + 1, j>>) = Rest(a, b, n) - 1
          /\ j <= Len(b) => <<i, j + 1>> \in Places(a, b) /\ Rest(a, b, <<i, j + 1>>) = Rest(a, b, n) - 1
          /\ i <= Len(a) /\ j <= Len(b) =>
                /\ <<i + 1, j + 1>> \in Places(a, b)
                /\ Rest(a, b, <<i + 1, j + 1>>) = Rest(a, b, n) - 2
      BY RestIs
    <2> HIDE DEF i, j
    <2> QED
      BY <2>1
  <1>2. m[n] = MergeOf(m, a, ra, b, rb, i, j)
    BY DEF IsMerge
  <1> SUFFICES Merges(m[n], X, K, From(a, i), From(b, j))
    BY DEF MergesAt
  <1> HIDE DEF i, j
  <1>3. /\ i <= Len(a) => Merges(m[<<i + 1, j>>], X, K, U, From(b, j))
        /\ j <= Len(b) => Merges(m[<<i, j + 1>>], X, K, From(a, i), V)
        /\ i <= Len(a) /\ j <= Len(b) => Merges(m[<<i + 1, j + 1>>], X, K, U, V)
    BY <1>1 DEF MergesAt
  <1>4. i <= Len(a) => /\ a[i] \in X /\ From(a, i) = {a[i]} \cup U /\ U \subseteq X /\ (\A x \in U : K[a[i]] < K[x])
                       /\ ra[i] = K[a[i]]
    <2> SUFFICES ASSUME i <= Len(a)
                 PROVE  /\ a[i] \in X /\ From(a, i) = {a[i]} \cup U /\ U \subseteq X /\ (\A x \in U : K[a[i]] < K[x])
                        /\ ra[i] = K[a[i]]
      OBVIOUS
    <2>1. i \in 1 .. Len(a) /\ i + 1 \in 1 .. Len(a) + 1 /\ i \in DOMAIN a
      BY <1>1
    <2>2. \A x \in U : K[a[i]] < K[x]
      BY <2>1, FromAbove
    <2>3. a[i] \in X /\ From(a, i) = {a[i]} \cup U /\ U \subseteq X
      BY <2>1, FromIs
    <2> QED
      BY <2>1, <2>2, <2>3 DEF KeysOf
  <1>5. j <= Len(b) => /\ b[j] \in X /\ From(b, j) = {b[j]} \cup V /\ V \subseteq X /\ (\A x \in V : K[b[j]] < K[x])
                       /\ rb[j] = K[b[j]]
    <2> SUFFICES ASSUME j <= Len(b)
                 PROVE  /\ b[j] \in X /\ From(b, j) = {b[j]} \cup V /\ V \subseteq X /\ (\A x \in V : K[b[j]] < K[x])
                        /\ rb[j] = K[b[j]]
      OBVIOUS
    <2>1. j \in 1 .. Len(b) /\ j + 1 \in 1 .. Len(b) + 1 /\ j \in DOMAIN b
      BY <1>1
    <2>2. \A x \in V : K[b[j]] < K[x]
      BY <2>1, FromAbove
    <2>3. b[j] \in X /\ From(b, j) = {b[j]} \cup V /\ V \subseteq X
      BY <2>1, FromIs
    <2> QED
      BY <2>1, <2>2, <2>3 DEF KeysOf
  <1>6. (i > Len(a) => From(a, i) = {}) /\ (j > Len(b) => From(b, j) = {})
    <2>1. (i > Len(a) => i = Len(a) + 1) /\ (j > Len(b) => j = Len(b) + 1)
      BY <1>1
    <2> QED
      BY <2>1, FromIs
  <1> HIDE DEF U, V
  <1>7. CASE i > Len(a) /\ j > Len(b)
    <2>1. m[n] = <<>>
      BY <1>2, <1>7 DEF MergeOf
    <2> QED
      BY <1>6, <1>7, <2>1, MergesNone
  <1>8. CASE i <= Len(a) /\ (j > Len(b) \/ ra[i] < rb[j])
    <2>1. m[n] = <<[first |-> a[i], second |-> None]>> \o m[<<i + 1, j>>]
      <3>1. ~(i > Len(a) /\ j > Len(b)) /\ (j > Len(b) \/ (i <= Len(a) /\ ra[i] < rb[j]))
        BY <1>1, <1>8
      <3> QED
        BY <1>2, <3>1 DEF MergeOf
    <2>2. From(b, j) \subseteq X /\ \A x \in U \cup From(b, j) : K[a[i]] < K[x]
      <3>1. CASE j > Len(b)
        BY <1>4, <1>6, <1>8, <3>1
      <3>2. CASE j <= Len(b) /\ ra[i] < rb[j]
        <4>1. K[a[i]] < K[b[j]] /\ K[a[i]] \in Nat /\ K[b[j]] \in Nat /\ \A x \in V : K[x] \in Nat
          BY <1>4, <1>5, <1>8, <3>2
        <4>2. ASSUME NEW x \in V PROVE K[a[i]] < K[x]
          <5>1. K[b[j]] < K[x] /\ K[x] \in Nat
            BY <1>5, <3>2, <4>1
          <5> QED
            BY <4>1, <5>1
        <4>3. From(b, j) = {b[j]} \cup V /\ b[j] \in X /\ V \subseteq X
          BY <1>5, <3>2
        <4> QED
          BY <1>4, <1>8, <4>1, <4>2, <4>3
      <3> QED
        BY <1>1, <1>8, <3>1, <3>2
    <2>3. Merges(m[<<i + 1, j>>], X, K, U, From(b, j)) /\ a[i] \in X /\ U \subseteq X /\ From(a, i) = {a[i]} \cup U
      BY <1>3, <1>4, <1>8
    <2>4. Merges(<<[first |-> a[i], second |-> None]>> \o m[<<i + 1, j>>], X, K, {a[i]} \cup U, From(b, j))
      BY <2>2, <2>3, MergesFirst
    <2> QED
      BY <2>1, <2>3, <2>4
  <1>9. CASE j <= Len(b) /\ (i > Len(a) \/ rb[j] < ra[i])
    <2>1. m[n] = <<[first |-> None, second |-> b[j]]>> \o m[<<i, j + 1>>]
      <3>1. ~(j > Len(b) \/ (i <= Len(a) /\ ra[i] < rb[j]))
        <4>1. i <= Len(a) => ra[i] \in Nat /\ rb[j] \in Nat
          BY <1>4, <1>5, <1>9
        <4> QED
          BY <1>1, <1>9, <4>1
      <3> QED
        BY <1>1, <1>2, <1>9, <3>1 DEF MergeOf
    <2>2. From(a, i) \subseteq X /\ \A x \in From(a, i) \cup V : K[b[j]] < K[x]
      <3>1. CASE i > Len(a)
        BY <1>5, <1>6, <1>9, <3>1
      <3>2. CASE i <= Len(a) /\ rb[j] < ra[i]
        <4>1. K[b[j]] < K[a[i]] /\ K[a[i]] \in Nat /\ K[b[j]] \in Nat /\ \A x \in U : K[x] \in Nat
          BY <1>4, <1>5, <1>9, <3>2
        <4>2. ASSUME NEW x \in U PROVE K[b[j]] < K[x]
          <5>1. K[a[i]] < K[x] /\ K[x] \in Nat
            BY <1>4, <3>2, <4>1
          <5> QED
            BY <4>1, <5>1
        <4>3. From(a, i) = {a[i]} \cup U /\ a[i] \in X /\ U \subseteq X
          BY <1>4, <3>2
        <4> QED
          BY <1>5, <1>9, <4>1, <4>2, <4>3
      <3> QED
        BY <1>1, <1>9, <3>1, <3>2
    <2>3. Merges(m[<<i, j + 1>>], X, K, From(a, i), V) /\ b[j] \in X /\ V \subseteq X /\ From(b, j) = {b[j]} \cup V
      BY <1>3, <1>5, <1>9
    <2>4. Merges(<<[first |-> None, second |-> b[j]]>> \o m[<<i, j + 1>>], X, K, From(a, i), {b[j]} \cup V)
      BY <2>2, <2>3, MergesSecond
    <2> QED
      BY <2>1, <2>3, <2>4
  <1>10. CASE i <= Len(a) /\ j <= Len(b) /\ ~(ra[i] < rb[j]) /\ ~(rb[j] < ra[i])
    <2>1. K[a[i]] = K[b[j]] /\ K[a[i]] \in Nat
      <3>1. K[a[i]] \in Nat /\ K[b[j]] \in Nat
        BY <1>4, <1>5, <1>10
      <3> QED
        BY <1>4, <1>5, <1>10, <3>1
    <2>2. m[n] = (IF a[i] = b[j] THEN <<>> ELSE <<[first |-> a[i], second |-> b[j]]>>) \o m[<<i + 1, j + 1>>]
      <3>1. ~(i > Len(a) /\ j > Len(b)) /\ ~(j > Len(b) \/ (i <= Len(a) /\ ra[i] < rb[j]))
            /\ ~(i > Len(a) \/ rb[j] < ra[i])
        BY <1>1, <1>10
      <3> QED
        BY <1>2, <3>1 DEF MergeOf
    <2>3. /\ Merges(m[<<i + 1, j + 1>>], X, K, U, V) /\ a[i] \in X /\ b[j] \in X /\ U \subseteq X /\ V \subseteq X
          /\ From(a, i) = {a[i]} \cup U /\ From(b, j) = {b[j]} \cup V /\ \A x \in U \cup V : K[a[i]] < K[x]
      BY <1>3, <1>4, <1>5, <1>10, <2>1
    <2>4. Merges((IF a[i] = b[j] THEN <<>> ELSE <<[first |-> a[i], second |-> b[j]]>>) \o m[<<i + 1, j + 1>>],
                 X, K, {a[i]} \cup U, {b[j]} \cup V)
      BY <2>1, <2>3, MergesBoth
    <2> QED
      BY <2>2, <2>3, <2>4
  <1> QED
    BY <1>1, <1>7, <1>8, <1>9, <1>10

\* What the merge gives: what two ordered sequences differ in, in order.
LEMMA PairsMerge ==
    ASSUME NEW X, None \notin X, NEW K \in [X -> Nat], NEW a \in Seq(X), NEW b \in Seq(X),
           Ascending(a, K), Ascending(b, K), NEW ra, NEW rb, KeysOf(ra, a, K), KeysOf(rb, b, K)
    PROVE  Merges(Pairs(a, ra, b, rb), X, K, ToSet(a), ToSet(b))
  <1>1. PICK m : IsMerge(m, a, ra, b, rb) /\ Pairs(a, ra, b, rb) = m[<<1, 1>>]
    BY PairsIs
  <1> DEFINE D == Places(a, b)
             rest(n) == Rest(a, b, n)
             Bad == {N \in Nat : \E n \in D : rest(n) = N /\ ~MergesAt(m, X, K, a, b, n)}
  <1>2. \A n \in D : rest(n) \in Nat
    BY RestBounds
  <1>3. \A n \in D : (\A l \in D : rest(l) < rest(n) => MergesAt(m, X, K, a, b, l)) => MergesAt(m, X, K, a, b, n)
    <2> SUFFICES ASSUME NEW n \in D, \A l \in D : rest(l) < rest(n) => MergesAt(m, X, K, a, b, l)
                 PROVE  MergesAt(m, X, K, a, b, n)
      OBVIOUS
    <2> QED
      BY <1>1, MergesOn
  <1> HIDE DEF D, rest
  <1>4. Bad = {}
    <2> SUFFICES ASSUME Bad # {} PROVE FALSE
      OBVIOUS
    <2>1. Bad \in SUBSET Nat
      OBVIOUS
    <2>2. PICK N \in Bad : \A l \in Bad : N <= l
      <3> HIDE DEF Bad
      <3> QED
        BY <2>1, Least
    <2>3. PICK n \in D : rest(n) = N /\ ~MergesAt(m, X, K, a, b, n)
      OBVIOUS
    <2>4. PICK l \in D : rest(l) < rest(n) /\ ~MergesAt(m, X, K, a, b, l)
      BY <1>3, <2>3
    <2>5. rest(l) \in Bad
      BY <1>2, <2>4
    <2>6. N <= rest(l) /\ rest(l) < N /\ N \in Nat /\ rest(l) \in Nat
      <3> HIDE DEF Bad
      <3> QED
        BY <1>2, <2>1, <2>2, <2>3, <2>4, <2>5
    <2> QED
      BY <2>6
  <1>5. <<1, 1>> \in D
    BY DEF D, Places
  <1>6. MergesAt(m, X, K, a, b, <<1, 1>>)
    BY <1>2, <1>4, <1>5
  <1>7. From(a, 1) = ToSet(a) /\ From(b, 1) = ToSet(b)
    BY FromIs
  <1> QED
    BY <1>1, <1>6, <1>7 DEF MergesAt

-----------------------------------------------------------------------------
(* The drift.                                                              *)

RowsKey == [r \in Rows |-> Position(r.path)]
IssuesKey == [i \in IssueRecords |-> Rank(i)]

Positions(s) == [i \in DOMAIN s |-> Position(s[i].path)]
Ranks(s) == [i \in DOMAIN s |-> Rank(s[i])]

RowPairs == Pairs(SortedRows(1), Positions(SortedRows(1)), SortedRows(2), Positions(SortedRows(2)))
DeltaOf(e) ==
    [path |-> PathOf(e), change |-> Change(e.first, e.second), first |-> e.first, second |-> e.second]

LEMMA RowsTyped ==
    ASSUME IInv, NEW k \in 1 .. 2
    PROVE  /\ R(k) \subseteq Rows /\ I(k) \subseteq IssueRecords
           /\ SortedRows(k) \in Seq(Rows) /\ SortedIssues(k) \in Seq(IssueRecords)
           /\ ToSet(SortedRows(k)) = R(k) /\ ToSet(SortedIssues(k)) = I(k)
  <1>1. rows[k] \in Seq(Rows) /\ issues[k] \in Seq(IssueRecords)
    BY DEF IInv, TypeInv
  <1>2. R(k) \subseteq Rows /\ I(k) \subseteq IssueRecords
    BY <1>1 DEF R, I, ToSet
  <1>3. SortedRows(k) \in Seq(R(k)) /\ ToSet(SortedRows(k)) = R(k)
    BY RowsSorted DEF Sorted
  <1>4. SortedIssues(k) \in Seq(I(k)) /\ ToSet(SortedIssues(k)) = I(k)
    BY IssuesSorted DEF Sorted
  <1> QED
    BY <1>2, <1>3, <1>4

LEMMA KeysTyped ==
    /\ RowsKey \in [Rows -> Nat] /\ IssuesKey \in [IssueRecords -> Nat]
    /\ None \notin Rows /\ None \notin IssueRecords
  <1>1. \A r \in Rows : r.path \in Paths /\ Position(r.path) \in Nat
    BY PositionIs, TreeAssumption DEF Rows
  <1> QED
    BY <1>1, RankIs, NoneAssumption DEF RowsKey, IssuesKey

LEMMA RowsMerge ==
    ASSUME IInv
    PROVE  Merges(RowPairs, Rows, RowsKey, R(1), R(2))
  <1> DEFINE a == SortedRows(1)
             b == SortedRows(2)
  <1>1. a \in Seq(Rows) /\ b \in Seq(Rows) /\ ToSet(a) = R(1) /\ ToSet(b) = R(2)
    BY RowsTyped
  <1>2. Sorted(a, R(1), RowKey(1)) /\ Sorted(b, R(2), RowKey(2))
    BY RowsSorted
  <1> HIDE DEF a, b
  <1>3. ASSUME NEW k \in 1 .. 2, NEW s \in Seq(Rows), ToSet(s) = R(k), Sorted(s, R(k), RowKey(k))
        PROVE  Ascending(s, RowsKey) /\ KeysOf(Positions(s), s, RowsKey)
    <2>1. \A i \in DOMAIN s : s[i] \in R(k) /\ s[i] \in Rows
      BY <1>3 DEF ToSet
    <2>2. \A i \in DOMAIN s : RowKey(k)[s[i]] = RowsKey[s[i]] /\ Positions(s)[i] = RowsKey[s[i]]
      BY <2>1 DEF RowKey, RowsKey, Positions
    <2> QED
      BY <1>3, <2>2 DEF Sorted, Ascending, KeysOf
  <1>4. /\ Ascending(a, RowsKey) /\ KeysOf(Positions(a), a, RowsKey)
        /\ Ascending(b, RowsKey) /\ KeysOf(Positions(b), b, RowsKey)
    BY <1>1, <1>2, <1>3
  <1>5. Merges(Pairs(a, Positions(a), b, Positions(b)), Rows, RowsKey, ToSet(a), ToSet(b))
    BY <1>1, <1>4, KeysTyped, PairsMerge
  <1> QED
    BY <1>1, <1>5 DEF RowPairs, a, b

LEMMA IssuesMerge ==
    ASSUME IInv
    PROVE  Merges(IssueDeltas, IssueRecords, IssuesKey, I(1), I(2))
  <1> DEFINE a == SortedIssues(1)
             b == SortedIssues(2)
  <1>1. a \in Seq(IssueRecords) /\ b \in Seq(IssueRecords) /\ ToSet(a) = I(1) /\ ToSet(b) = I(2)
    BY RowsTyped
  <1>2. Sorted(a, I(1), IssueKey(1)) /\ Sorted(b, I(2), IssueKey(2))
    BY IssuesSorted
  <1>6. IssueDeltas = Pairs(a, Ranks(a), b, Ranks(b))
    BY DEF IssueDeltas, Ranks
  <1> HIDE DEF a, b
  <1>3. ASSUME NEW k \in 1 .. 2, NEW s \in Seq(IssueRecords), ToSet(s) = I(k), Sorted(s, I(k), IssueKey(k))
        PROVE  Ascending(s, IssuesKey) /\ KeysOf(Ranks(s), s, IssuesKey)
    <2>1. \A i \in DOMAIN s : s[i] \in I(k) /\ s[i] \in IssueRecords
      BY <1>3 DEF ToSet
    <2>2. \A i \in DOMAIN s : IssueKey(k)[s[i]] = IssuesKey[s[i]] /\ Ranks(s)[i] = IssuesKey[s[i]]
      BY <2>1 DEF IssueKey, IssuesKey, Ranks
    <2> QED
      BY <1>3, <2>2 DEF Sorted, Ascending, KeysOf
  <1>4. /\ Ascending(a, IssuesKey) /\ KeysOf(Ranks(a), a, IssuesKey)
        /\ Ascending(b, IssuesKey) /\ KeysOf(Ranks(b), b, IssuesKey)
    BY <1>1, <1>2, <1>3
  <1>5. Merges(Pairs(a, Ranks(a), b, Ranks(b)), IssueRecords, IssuesKey, ToSet(a), ToSet(b))
    BY <1>1, <1>4, KeysTyped, PairsMerge
  <1> QED
    BY <1>1, <1>5, <1>6

LEMMA DeltasAre ==
    Deltas = [i \in DOMAIN RowPairs |-> DeltaOf(RowPairs[i])]
  BY DEF Deltas, RowPairs, Positions, DeltaOf

\* The row of a path in a pass.
LEMMA RowAtIs ==
    ASSUME IInv, NEW k \in 1 .. 2
    PROVE  /\ \A r \in R(k) : r.path \in Paths /\ RowAt(k, r.path) = r
           /\ \A p \in Paths : \/ RowAt(k, p) = None
                               \/ RowAt(k, p) \in R(k) /\ RowAt(k, p) \in Rows /\ RowAt(k, p).path = p
  <1>1. R(k) \subseteq Rows /\ None \notin Rows /\ \A r \in Rows : r.path \in Paths
    BY RowsTyped, KeysTyped DEF Rows
  <1>2. ASSUME NEW r \in R(k)
        PROVE  RowAt(k, r.path) = r
    <2> DEFINE here == {x \in R(k) : x.path = r.path}
    <2>1. here = {r}
      BY <1>1 DEF IInv, SeenInv, RowInv
    <2>2. RowAt(k, r.path) = IF here = {} THEN None ELSE CHOOSE x \in here : TRUE
      BY DEF RowAt, R
    <2> HIDE DEF here
    <2> QED
      BY <2>1, <2>2
  <1>3. ASSUME NEW p \in Paths, ~\E r \in R(k) : r.path = p
        PROVE  RowAt(k, p) = None
    <2>1. {x \in R(k) : x.path = p} = {}
      BY <1>3
    <2> QED
      BY <2>1 DEF RowAt, R
  <1> QED
    BY <1>1, <1>2, <1>3

RowsAt(p) == [first |-> RowAt(1, p), second |-> RowAt(2, p)]

LEMMA RowsAtIs ==
    ASSUME IInv, NEW p \in Paths
    PROVE  /\ RowsAt(p) \in PairsOf(Rows) /\ RowsAt(p).first = RowAt(1, p) /\ RowsAt(p).second = RowAt(2, p)
           /\ RowAt(1, p) # RowAt(2, p) => PathOf(RowsAt(p)) = p /\ KeyOf(RowsAt(p), RowsKey) = Position(p)
  <1>1. /\ RowAt(1, p) = None \/ (RowAt(1, p) \in Rows /\ RowAt(1, p).path = p)
        /\ RowAt(2, p) = None \/ (RowAt(2, p) \in Rows /\ RowAt(2, p).path = p)
    BY RowAtIs
  <1>2. \A r \in Rows : r # None /\ RowsKey[r] = Position(r.path)
    BY KeysTyped DEF RowsKey
  <1>3. RowsAt(p) \in PairsOf(Rows) /\ RowsAt(p).first = RowAt(1, p) /\ RowsAt(p).second = RowAt(2, p)
    BY <1>1, PairIs DEF RowsAt
  <1> QED
    BY <1>1, <1>2, <1>3 DEF PathOf, KeyOf

LEMMA RowsMergedIs ==
    ASSUME IInv, NEW e
    PROVE  e \in Merged(Rows, RowsKey, R(1), R(2)) <=>
                \E p \in Paths : RowAt(1, p) # RowAt(2, p) /\ e = RowsAt(p)
  <1>0. R(1) \subseteq Rows /\ R(2) \subseteq Rows /\ None \notin Rows /\ \A r \in Rows : r.path \in Paths
    BY RowsTyped, KeysTyped DEF Rows
  <1>k. \A r, t \in Rows : RowsKey[r] = RowsKey[t] <=> r.path = t.path
    BY <1>0, PositionOne DEF RowsKey
  <1>r. /\ \A r \in R(1) : RowAt(1, r.path) = r
        /\ \A r \in R(2) : RowAt(2, r.path) = r
    BY RowAtIs
  <1>p. \A p \in Paths :
            /\ RowAt(1, p) = None \/ (RowAt(1, p) \in R(1) /\ RowAt(1, p).path = p)
            /\ RowAt(2, p) = None \/ (RowAt(2, p) \in R(2) /\ RowAt(2, p).path = p)
    BY RowAtIs
  <1>1. ASSUME e \in Merged(Rows, RowsKey, R(1), R(2))
        PROVE  \E p \in Paths : RowAt(1, p) # RowAt(2, p) /\ e = RowsAt(p)
    <2>1. /\ e \in PairsOf(Rows) /\ e.first # e.second
          /\ e.first \in R(1) \cup {None} /\ e.second \in R(2) \cup {None}
          /\ e.first # None /\ e.second # None => RowsKey[e.first] = RowsKey[e.second]
          /\ e.first = None => \A u \in R(1) : RowsKey[u] # RowsKey[e.second]
          /\ e.second = None => \A v \in R(2) : RowsKey[v] # RowsKey[e.first]
      BY <1>1, MergedIs
    <2>2. e = [first |-> e.first, second |-> e.second]
      BY <2>1, PairEq
    <2>3. CASE e.first # None
      <3>1. e.first \in R(1) /\ e.first \in Rows /\ e.first.path \in Paths /\ RowAt(1, e.first.path) = e.first
        BY <1>0, <1>r, <2>1, <2>3
      <3>2. RowAt(2, e.first.path) = e.second
        <4>1. CASE e.second = None
          <5>1. \A v \in R(2) : v.path # e.first.path
            BY <1>0, <1>k, <2>1, <3>1, <4>1
          <5> QED
            BY <1>p, <3>1, <4>1, <5>1
        <4>2. CASE e.second # None
          <5>1. e.second \in R(2) /\ e.second \in Rows /\ e.second.path = e.first.path
            BY <1>0, <1>k, <2>1, <2>3, <3>1, <4>2
          <5> QED
            BY <1>r, <5>1
        <4> QED
          BY <4>1, <4>2
      <3> QED
        BY <2>1, <2>2, <3>1, <3>2 DEF RowsAt
    <2>4. CASE e.first = None
      <3>1. e.second \in R(2) /\ e.second \in Rows /\ e.second.path \in Paths /\ RowAt(2, e.second.path) = e.second
        BY <1>0, <1>r, <2>1, <2>4
      <3>2. \A v \in R(1) : v.path # e.second.path
        BY <1>0, <1>k, <2>1, <2>4, <3>1
      <3>3. RowAt(1, e.second.path) = None
        BY <1>p, <3>1, <3>2
      <3> QED
        BY <2>1, <2>2, <2>4, <3>1, <3>3 DEF RowsAt
    <2> QED
      BY <2>3, <2>4
  <1>2. ASSUME NEW p \in Paths, RowAt(1, p) # RowAt(2, p), e = RowsAt(p)
        PROVE  e \in Merged(Rows, RowsKey, R(1), R(2))
    <2>1. e \in PairsOf(Rows) /\ e.first = RowAt(1, p) /\ e.second = RowAt(2, p)
      BY <1>2, RowsAtIs
    <2>2. /\ e.first = None \/ (e.first \in R(1) /\ e.first \in Rows /\ e.first.path = p)
          /\ e.second = None \/ (e.second \in R(2) /\ e.second \in Rows /\ e.second.path = p)
      BY <1>0, <1>p, <2>1
    <2>3. e.first # None /\ e.second # None => RowsKey[e.first] = RowsKey[e.second]
      BY <1>k, <2>2
    <2>4. e.first = None => \A u \in R(1) : RowsKey[u] # RowsKey[e.second]
      BY <1>0, <1>2, <1>k, <1>r, <2>1, <2>2
    <2>5. e.second = None => \A v \in R(2) : RowsKey[v] # RowsKey[e.first]
      BY <1>0, <1>2, <1>k, <1>r, <2>1, <2>2
    <2> QED
      BY <1>2, <2>1, <2>2, <2>3, <2>4, <2>5, MergedIs
  <1> QED
    BY <1>1, <1>2

LEMMA IssuesMergedIs ==
    ASSUME IInv
    PROVE  Merged(IssueRecords, IssuesKey, I(1), I(2)) =
                {[first |-> i, second |-> None] : i \in I(1) \ I(2)} \cup
                {[first |-> None, second |-> i] : i \in I(2) \ I(1)}
  <1>0. I(1) \subseteq IssueRecords /\ I(2) \subseteq IssueRecords /\ None \notin IssueRecords
    BY RowsTyped, KeysTyped
  <1>k. \A i, j \in IssueRecords : IssuesKey[i] = IssuesKey[j] => i = j
    BY RankIs DEF IssuesKey
  <1>1. ASSUME NEW e \in Merged(IssueRecords, IssuesKey, I(1), I(2))
        PROVE  \/ \E i \in I(1) \ I(2) : e = [first |-> i, second |-> None]
               \/ \E i \in I(2) \ I(1) : e = [first |-> None, second |-> i]
    <2>1. /\ e \in PairsOf(IssueRecords) /\ e.first # e.second
          /\ e.first \in I(1) \cup {None} /\ e.second \in I(2) \cup {None}
          /\ e.first # None /\ e.second # None => IssuesKey[e.first] = IssuesKey[e.second]
          /\ e.first = None => \A u \in I(1) : IssuesKey[u] # IssuesKey[e.second]
          /\ e.second = None => \A v \in I(2) : IssuesKey[v] # IssuesKey[e.first]
      BY <1>1, MergedIs
    <2>2. e = [first |-> e.first, second |-> e.second]
      BY <2>1, PairEq
    <2>3. e.first = None \/ e.second = None
      BY <1>0, <1>k, <2>1
    <2>4. CASE e.first = None
      BY <2>1, <2>2, <2>4
    <2>5. CASE e.second = None
      BY <2>1, <2>2, <2>5
    <2> QED
      BY <2>3, <2>4, <2>5
  <1>2. ASSUME NEW i \in I(1) \ I(2)
        PROVE  [first |-> i, second |-> None] \in Merged(IssueRecords, IssuesKey, I(1), I(2))
    <2> DEFINE e == [first |-> i, second |-> None]
    <2>1. e \in PairsOf(IssueRecords) /\ e.first = i /\ e.second = None
      BY <1>0, PairIs
    <2> HIDE DEF e
    <2>2. e \in Merged(IssueRecords, IssuesKey, I(1), I(2))
      BY <1>0, <1>k, <2>1, MergedIs
    <2> QED
      BY <2>2 DEF e
  <1>3. ASSUME NEW i \in I(2) \ I(1)
        PROVE  [first |-> None, second |-> i] \in Merged(IssueRecords, IssuesKey, I(1), I(2))
    <2> DEFINE e == [first |-> None, second |-> i]
    <2>1. e \in PairsOf(IssueRecords) /\ e.first = None /\ e.second = i
      BY <1>0, PairIs
    <2> HIDE DEF e
    <2>2. e \in Merged(IssueRecords, IssuesKey, I(1), I(2))
      BY <1>0, <1>k, <2>1, MergedIs
    <2> QED
      BY <2>2 DEF e
  <1> QED
    BY <1>1, <1>2, <1>3

\* Each row of the drift, and its order.
LEMMA DeltaIs ==
    ASSUME IInv
    PROVE  /\ Deltas \in Seq({DeltaOf(e) : e \in PairsOf(Rows)}) /\ Len(Deltas) = Len(RowPairs)
           /\ DOMAIN Deltas = 1 .. Len(RowPairs)
           /\ \A i \in DOMAIN Deltas :
                \E p \in Paths : /\ RowAt(1, p) # RowAt(2, p) /\ Deltas[i] = DeltaOf(RowsAt(p))
                                 /\ RowPairs[i] = RowsAt(p)
                                 /\ Deltas[i].path = p /\ Deltas[i].first = RowAt(1, p) /\ Deltas[i].second = RowAt(2, p)
                                 /\ Deltas[i].change = Change(RowAt(1, p), RowAt(2, p))
           /\ \A p \in Paths : RowAt(1, p) # RowAt(2, p) => \E i \in DOMAIN Deltas : Deltas[i] = DeltaOf(RowsAt(p))
           /\ \A i, j \in DOMAIN Deltas : i < j => Position(Deltas[i].path) < Position(Deltas[j].path)
  <1>1. /\ RowPairs \in Seq(PairsOf(Rows)) /\ ToSet(RowPairs) = Merged(Rows, RowsKey, R(1), R(2))
        /\ \A i, j \in DOMAIN RowPairs : i < j => KeyOf(RowPairs[i], RowsKey) < KeyOf(RowPairs[j], RowsKey)
    BY RowsMerge DEF Merges, Rising
  <1>2. /\ DOMAIN RowPairs = 1 .. Len(RowPairs) /\ Len(RowPairs) \in Nat
        /\ \A i \in DOMAIN RowPairs : RowPairs[i] \in ToSet(RowPairs) /\ RowPairs[i] \in PairsOf(Rows)
    BY <1>1 DEF ToSet
  <1>3. /\ Deltas \in Seq({DeltaOf(e) : e \in PairsOf(Rows)}) /\ DOMAIN Deltas = 1 .. Len(RowPairs)
        /\ Len(Deltas) = Len(RowPairs) /\ \A i \in DOMAIN Deltas : Deltas[i] = DeltaOf(RowPairs[i])
    BY <1>2, DeltasAre
  <1>4. ASSUME NEW i \in DOMAIN Deltas
        PROVE  \E p \in Paths : RowAt(1, p) # RowAt(2, p) /\ RowPairs[i] = RowsAt(p)
    BY <1>1, <1>2, <1>3, RowsMergedIs
  <1>5. ASSUME NEW p \in Paths, RowAt(1, p) # RowAt(2, p)
        PROVE  /\ DeltaOf(RowsAt(p)).path = p /\ DeltaOf(RowsAt(p)).first = RowAt(1, p)
               /\ DeltaOf(RowsAt(p)).second = RowAt(2, p)
               /\ DeltaOf(RowsAt(p)).change = Change(RowAt(1, p), RowAt(2, p))
               /\ KeyOf(RowsAt(p), RowsKey) = Position(p)
    BY <1>5, RowsAtIs DEF DeltaOf
  <1>6. ASSUME NEW p \in Paths, RowAt(1, p) # RowAt(2, p)
        PROVE  \E i \in DOMAIN Deltas : Deltas[i] = DeltaOf(RowsAt(p))
    <2>1. RowsAt(p) \in ToSet(RowPairs)
      BY <1>1, <1>6, RowsMergedIs
    <2>2. PICK i \in DOMAIN RowPairs : RowPairs[i] = RowsAt(p)
      BY <2>1 DEF ToSet
    <2> QED
      BY <1>2, <1>3, <2>2
  <1>7. ASSUME NEW i \in DOMAIN Deltas, NEW j \in DOMAIN Deltas, i < j
        PROVE  Position(Deltas[i].path) < Position(Deltas[j].path)
    <2>1. PICK p \in Paths : RowAt(1, p) # RowAt(2, p) /\ RowPairs[i] = RowsAt(p)
      BY <1>4
    <2>2. PICK q \in Paths : RowAt(1, q) # RowAt(2, q) /\ RowPairs[j] = RowsAt(q)
      BY <1>4
    <2>3. KeyOf(RowPairs[i], RowsKey) < KeyOf(RowPairs[j], RowsKey)
      BY <1>1, <1>2, <1>3, <1>7
    <2>4. Deltas[i].path = p /\ Deltas[j].path = q
      BY <1>3, <1>5, <2>1, <2>2
    <2>5. Position(p) < Position(q)
      BY <1>5, <2>1, <2>2, <2>3
    <2> QED
      BY <2>4, <2>5
  <1>8. ASSUME NEW i \in DOMAIN Deltas
        PROVE  \E p \in Paths : /\ RowAt(1, p) # RowAt(2, p) /\ Deltas[i] = DeltaOf(RowsAt(p))
                                /\ RowPairs[i] = RowsAt(p)
                                /\ Deltas[i].path = p /\ Deltas[i].first = RowAt(1, p) /\ Deltas[i].second = RowAt(2, p)
                                /\ Deltas[i].change = Change(RowAt(1, p), RowAt(2, p))
    <2>1. PICK p \in Paths : RowAt(1, p) # RowAt(2, p) /\ RowPairs[i] = RowsAt(p)
      BY <1>4
    <2>2. Deltas[i] = DeltaOf(RowsAt(p))
      BY <1>3, <2>1
    <2> QED
      BY <1>5, <2>1, <2>2
  <1> QED
    BY <1>3, <1>6, <1>7, <1>8

LEMMA DeltaExactIs ==
    ASSUME IInv
    PROVE  DeltaExact
  <1> DEFINE D == {[path |-> p, change |-> Change(RowAt(1, p), RowAt(2, p)),
                    first |-> RowAt(1, p), second |-> RowAt(2, p)] : p \in {q \in Paths : RowAt(1, q) # RowAt(2, q)}}
  <1>1. \A p \in Paths : DeltaOf(RowsAt(p)) =
            [path |-> PathOf(RowsAt(p)), change |-> Change(RowAt(1, p), RowAt(2, p)),
             first |-> RowAt(1, p), second |-> RowAt(2, p)]
    BY RowsAtIs DEF DeltaOf
  <1>2. D = {DeltaOf(RowsAt(p)) : p \in {q \in Paths : RowAt(1, q) # RowAt(2, q)}}
    BY <1>1, RowsAtIs
  <1>3. ToSet(Deltas) = {Deltas[i] : i \in DOMAIN Deltas}
    BY DEF ToSet
  <1>4. ToSet(Deltas) = D
    <2> HIDE DEF D
    <2>1. \A x \in ToSet(Deltas) : \E p \in Paths : RowAt(1, p) # RowAt(2, p) /\ x = DeltaOf(RowsAt(p))
      BY <1>3, DeltaIs
    <2>2. \A p \in Paths : RowAt(1, p) # RowAt(2, p) => DeltaOf(RowsAt(p)) \in ToSet(Deltas)
      BY <1>3, DeltaIs
    <2> QED
      BY <1>2, <2>1, <2>2
  <1>5. ASSUME NEW i \in DOMAIN Deltas, NEW j \in DOMAIN Deltas, Deltas[i].path = Deltas[j].path
        PROVE  i = j
    <2>1. i \in Nat /\ j \in Nat
      BY DeltaIs, RowsMerge DEF Merges, Rising
    <2>2. \E p \in Paths : Deltas[i].path = p
      BY DeltaIs
    <2>3. Position(Deltas[i].path) \in Nat /\ Position(Deltas[i].path) = Position(Deltas[j].path)
      BY <1>5, <2>2, PositionIs, TreeAssumption
    <2>4. ~(i < j) /\ ~(j < i)
      BY <2>3, DeltaIs
    <2> QED
      BY <2>1, <2>4
  <1>6. ToSet(IssueDeltas) =
            {[first |-> i, second |-> None] : i \in ToSet(issues[1]) \ ToSet(issues[2])} \cup
            {[first |-> None, second |-> i] : i \in ToSet(issues[2]) \ ToSet(issues[1])}
    BY IssuesMerge, IssuesMergedIs DEF Merges, I
  <1> QED
    BY <1>4, <1>5, <1>6 DEF DeltaExact

\* The helper refuses to merge rows out of order: they never are.
LEMMA AlwaysIncreasing ==
    ASSUME IInv, NEW k \in 1 .. 2
    PROVE  Increasing(SortedRows(k))
  <1> DEFINE s == SortedRows(k)
  <1>1. s \in Seq(Rows) /\ ToSet(s) = R(k)
    BY RowsTyped
  <1>2. Sorted(s, R(k), RowKey(k))
    BY RowsSorted
  <1> HIDE DEF s
  <1>3. \A i \in DOMAIN s : s[i] \in R(k) /\ RowKey(k)[s[i]] = Position(s[i].path)
    BY <1>1 DEF ToSet, RowKey
  <1>4. ASSUME NEW i \in DOMAIN s, i > 1
        PROVE  Position(s[i - 1].path) < Position(s[i].path)
    <2>1. i - 1 \in DOMAIN s /\ i - 1 < i
      BY <1>1, <1>4
    <2> QED
      BY <1>2, <1>3, <2>1 DEF Sorted
  <1> QED
    BY <1>4 DEF Increasing, s

\* The text is a function of the rows and issues as sets.
LEMMA SameTexts ==
    ASSUME R(1) = R(2), I(1) = I(2)
    PROVE  Agree
  <1>1. RowKey(1) = RowKey(2) /\ IssueKey(1) = IssueKey(2)
    BY DEF RowKey, IssueKey
  <1>2. \A k \in 1 .. 2 : SortedRows(k) = InOrder(R(k), RowKey(k)) /\ SortedIssues(k) = InOrder(I(k), IssueKey(k))
    BY DEF SortedRows, SortedIssues, R, I, RowKey, IssueKey
  <1>3. SortedRows(1) = SortedRows(2) /\ SortedIssues(1) = SortedIssues(2)
    BY <1>1, <1>2
  <1> QED
    BY <1>3 DEF Agree, Text

LEMMA SomethingDiffers ==
    ASSUME IInv, ~Agree
    PROVE  Len(Deltas) \in Nat /\ Len(IssueDeltas) \in Nat /\ Len(Deltas) + Len(IssueDeltas) > 0
  <1>1. /\ Len(Deltas) = Len(RowPairs) /\ DOMAIN Deltas = 1 .. Len(RowPairs) /\ Len(RowPairs) \in Nat
        /\ Len(IssueDeltas) \in Nat /\ DOMAIN IssueDeltas = 1 .. Len(IssueDeltas)
    BY DeltaIs, RowsMerge, IssuesMerge DEF Merges, Rising
  <1>2. CASE R(1) # R(2)
    <2>1. \E p \in Paths : RowAt(1, p) # RowAt(2, p)
      <3> SUFFICES ASSUME \A p \in Paths : RowAt(1, p) = RowAt(2, p) PROVE R(1) = R(2)
        BY <1>2
      <3>1. None \notin R(1) /\ None \notin R(2)
        BY RowsTyped, KeysTyped
      <3>2. ASSUME NEW r \in R(1) PROVE r \in R(2)
        <4>1. r.path \in Paths /\ RowAt(1, r.path) = r /\ r # None
          BY <3>1, RowAtIs
        <4>2. RowAt(2, r.path) = r
          BY <4>1
        <4> QED
          BY <4>1, <4>2, RowAtIs
      <3>3. ASSUME NEW r \in R(2) PROVE r \in R(1)
        <4>1. r.path \in Paths /\ RowAt(2, r.path) = r /\ r # None
          BY <3>1, RowAtIs
        <4>2. RowAt(1, r.path) = r
          BY <4>1
        <4> QED
          BY <4>1, <4>2, RowAtIs
      <3> QED
        BY <3>2, <3>3
    <2>2. \E i \in DOMAIN Deltas : TRUE
      BY <2>1, DeltaIs
    <2> QED
      BY <1>1, <2>2
  <1>3. CASE I(1) # I(2)
    <2>1. \E i : i \in ToSet(IssueDeltas)
      <3>1. (\E i : i \in I(1) \ I(2)) \/ (\E i : i \in I(2) \ I(1))
        BY <1>3
      <3>2. ToSet(IssueDeltas) = {[first |-> i, second |-> None] : i \in I(1) \ I(2)} \cup
                                 {[first |-> None, second |-> i] : i \in I(2) \ I(1)}
        BY IssuesMerge, IssuesMergedIs DEF Merges
      <3> HIDE DEF I
      <3> QED
        BY <3>1, <3>2, Zenon
    <2>2. \E i \in DOMAIN IssueDeltas : TRUE
      BY <2>1 DEF ToSet
    <2> QED
      BY <1>1, <2>2
  <1> QED
    BY <1>2, <1>3, SameTexts

LEMMA DriftTyped ==
    ASSUME IInv
    PROVE  [deltas |-> Deltas, issues |-> IssueDeltas] \in Drifts
  <1>1. Deltas \in Seq({DeltaOf(e) : e \in PairsOf(Rows)}) /\ DOMAIN Deltas = 1 .. Len(Deltas) /\ Len(Deltas) \in Nat
    BY DeltaIs, RowsMerge DEF Merges, Rising
  <1> DEFINE DD == [path : Paths, change : {"CREATED", "DELETED", "REPLACED", "MODIFIED"},
                    first : Rows \cup {None}, second : Rows \cup {None}]
  <1>2. \A i \in DOMAIN Deltas : Deltas[i] \in DD
    <2> SUFFICES ASSUME NEW i \in DOMAIN Deltas PROVE Deltas[i] \in DD
      OBVIOUS
    <2>1. PICK p \in Paths : RowAt(1, p) # RowAt(2, p) /\ Deltas[i] = DeltaOf(RowsAt(p))
      BY DeltaIs
    <2>2. RowAt(1, p) \in Rows \cup {None} /\ RowAt(2, p) \in Rows \cup {None}
      BY RowAtIs
    <2>3. PathOf(RowsAt(p)) = p /\ RowsAt(p).first = RowAt(1, p) /\ RowsAt(p).second = RowAt(2, p)
      BY <2>1, RowsAtIs
    <2>4. Change(RowAt(1, p), RowAt(2, p)) \in {"CREATED", "DELETED", "REPLACED", "MODIFIED"}
      BY DEF Change
    <2> QED
      BY <2>1, <2>2, <2>3, <2>4 DEF DeltaOf
  <1>3. Deltas \in Seq(DD)
    <2> HIDE DEF DD
    <2> QED
      BY <1>1, <1>2
  <1>4. IssueDeltas \in Seq([first : IssueRecords \cup {None}, second : IssueRecords \cup {None}])
    BY IssuesMerge DEF Merges, Rising, PairsOf
  <1> QED
    BY <1>3, <1>4 DEF Drifts

\* parse_raw_pass accepts it.
LEMMA DriftParses ==
    ASSUME IInv, ~Agree
    PROVE  Parses([deltas |-> Deltas, issues |-> IssueDeltas])
  <1>0. /\ DOMAIN Deltas = 1 .. Len(Deltas) /\ DOMAIN IssueDeltas = 1 .. Len(IssueDeltas)
        /\ Len(Deltas) \in Nat /\ Len(IssueDeltas) \in Nat /\ Len(Deltas) + Len(IssueDeltas) > 0
    BY SomethingDiffers, DeltaIs, IssuesMerge DEF Merges, Rising
  <1>1. ASSUME NEW i \in DOMAIN Deltas, NEW before, i > 1 => before = Deltas[i - 1], i = 1 => before = None
        PROVE  DeltaParses(Deltas[i], before)
    <2>1. PICK p \in Paths : /\ RowAt(1, p) # RowAt(2, p)
                             /\ Deltas[i].path = p /\ Deltas[i].first = RowAt(1, p) /\ Deltas[i].second = RowAt(2, p)
                             /\ Deltas[i].change = Change(RowAt(1, p), RowAt(2, p))
      BY DeltaIs
    <2>2. before # None => Position(before.path) < Position(Deltas[i].path)
      <3> SUFFICES ASSUME i > 1 PROVE Position(Deltas[i - 1].path) < Position(Deltas[i].path)
        BY <1>0, <1>1
      <3>1. i - 1 \in DOMAIN Deltas /\ i - 1 < i
        BY <1>0
      <3> QED
        BY <3>1, DeltaIs
    <2> DEFINE a == Deltas[i].first
               b == Deltas[i].second
               c == Deltas[i].change
    <2>3. a # b /\ c = Change(a, b)
      BY <2>1
    <2>4. c = CASE a = None -> "CREATED"
                [] a # None /\ b = None -> "DELETED"
                [] OTHER -> IF a.obj.kind # b.obj.kind \/ a.obj.ino # b.obj.ino THEN "REPLACED" ELSE "MODIFIED"
      <3> HIDE DEF a, b, c
      <3>1. CASE a = None
        BY <2>3, <3>1 DEF Change
      <3>2. CASE a # None /\ b = None
        BY <2>3, <3>2 DEF Change
      <3>3. CASE a # None /\ b # None
        BY <2>3, <3>3 DEF Change
      <3> QED
        BY <3>1, <3>2, <3>3
    <2> QED
      BY <2>2, <2>3, <2>4 DEF DeltaParses
  <1>2. ASSUME NEW i \in DOMAIN IssueDeltas, NEW before, i > 1 => before = IssueDeltas[i - 1], i = 1 => before = None
        PROVE  IssueParses(IssueDeltas[i], before)
    <2>1. \A j \in DOMAIN IssueDeltas :
            /\ IssueDeltas[j] \in PairsOf(IssueRecords)
            /\ (IssueDeltas[j].first = None) # (IssueDeltas[j].second = None)
      <3> SUFFICES ASSUME NEW j \in DOMAIN IssueDeltas
                   PROVE  /\ IssueDeltas[j] \in PairsOf(IssueRecords)
                          /\ (IssueDeltas[j].first = None) # (IssueDeltas[j].second = None)
        OBVIOUS
      <3>1. IssueDeltas[j] \in ToSet(IssueDeltas)
        BY DEF ToSet
      <3>2. \/ \E x \in I(1) \ I(2) : IssueDeltas[j] = [first |-> x, second |-> None]
            \/ \E x \in I(2) \ I(1) : IssueDeltas[j] = [first |-> None, second |-> x]
        BY <3>1, IssuesMerge, IssuesMergedIs DEF Merges
      <3>3. \A x \in I(1) \cup I(2) : x # None
        BY RowsTyped, KeysTyped
      <3>4. IssueDeltas[j] \in PairsOf(IssueRecords)
        BY IssuesMerge DEF Merges, Rising
      <3> QED
        BY <3>2, <3>3, <3>4
    <2>2. \A j \in DOMAIN IssueDeltas :
            KeyOf(IssueDeltas[j], IssuesKey) =
                Rank(IF IssueDeltas[j].first # None THEN IssueDeltas[j].first ELSE IssueDeltas[j].second)
      BY <2>1, KeysTyped DEF KeyOf, PairsOf, IssuesKey
    <2>3. ASSUME i > 1
          PROVE  KeyOf(IssueDeltas[i - 1], IssuesKey) < KeyOf(IssueDeltas[i], IssuesKey) /\ i - 1 \in DOMAIN IssueDeltas
      <3>1. i - 1 \in DOMAIN IssueDeltas /\ i - 1 < i
        BY <1>0, <2>3
      <3> QED
        BY <3>1, IssuesMerge DEF Merges, Rising
    <2>4. CASE i = 1
      BY <1>2, <2>1, <2>4 DEF IssueParses
    <2>5. CASE i > 1
      BY <1>2, <2>1, <2>2, <2>3, <2>5 DEF IssueParses
    <2> QED
      BY <1>0, <2>4, <2>5
  <1> DEFINE Previous(s, i) == IF i = 1 THEN None ELSE s[i - 1]
  <1>3. ASSUME NEW i \in DOMAIN Deltas
        PROVE  DeltaParses(Deltas[i], Previous(Deltas, i))
    <2>1. (i > 1 => Previous(Deltas, i) = Deltas[i - 1]) /\ (i = 1 => Previous(Deltas, i) = None)
      BY <1>0
    <2> HIDE DEF Previous
    <2> QED
      BY <1>1, <2>1
  <1>4. ASSUME NEW i \in DOMAIN IssueDeltas
        PROVE  IssueParses(IssueDeltas[i], Previous(IssueDeltas, i))
    <2>1. (i > 1 => Previous(IssueDeltas, i) = IssueDeltas[i - 1]) /\ (i = 1 => Previous(IssueDeltas, i) = None)
      BY <1>0
    <2> HIDE DEF Previous
    <2> QED
      BY <1>2, <2>1
  <1> DEFINE output == [deltas |-> Deltas, issues |-> IssueDeltas]
  <1>5. output.deltas = Deltas /\ output.issues = IssueDeltas
    OBVIOUS
  <1> HIDE DEF output
  <1>6. Parses(output)
    BY <1>0, <1>3, <1>4, <1>5 DEF Parses
  <1> QED
    BY <1>6 DEF output

LEMMA DriftIs ==
    ASSUME IInv
    PROVE  DriftIsExact
  <1>1. ASSUME ~Agree
        PROVE  Diagnostic # None /\ Parses(Diagnostic)
    <2>1. Text(1) # Text(2) /\ \A k \in 1 .. 2 : Increasing(Text(k).rows)
      BY <1>1, AlwaysIncreasing DEF Agree, Text
    <2>2. Diagnostic = [deltas |-> Deltas, issues |-> IssueDeltas]
      BY <1>1, <2>1, SomethingDiffers DEF Diagnostic
    <2>3. [deltas |-> Deltas, issues |-> IssueDeltas] # None
      BY DriftTyped, NoneAssumption
    <2> QED
      BY <1>1, <2>2, <2>3, DriftParses
  <1> QED
    BY <1>1, DeltaExactIs DEF DriftIsExact, DifferenceExplained

\* Two passes that do not agree give a drift, never nothing; the reader in
\* native-drift-diagnostic.py takes it; and it names each path whose rows differ,
\* with both rows and the change between them, and each issue of one pass only,
\* once and nothing else: the merge of the two streams loses and invents nothing.
THEOREM DriftIsTheDifference == Spec => []DriftIsExact
  <1>1. IInv => DriftIsExact
    BY DriftIs
  <1> QED
    BY <1>1, Invariant, PTL

-----------------------------------------------------------------------------
(* What the second pass sees, and why the passes differ.                   *)

\* The names of the n-th directory that is open have been read.
HasNames(n) == n < Len(stack) \/ step # "list"

\* A directory that has not changed has the names that were read; what was not
\* among them has no row, was not there in the first pass, and if it was seen
\* there before, is another thing by now.
Named(f) ==
    /\ tree[f.dir] = f.obj => f.names = There(f.dir)
    /\ \A p \in Below(f.dir) \ f.names :
        /\ ~Rowed(pass, p)
        /\ pass = 1 => seen[1][p] = None
        /\ pass = 2 /\ Saw(p) /\ tree[p] # None => tree[p].born > seen[1][p].born

NamesInv == \A n \in DOMAIN stack : HasNames(n) => Named(stack[n])

\* What has not changed is in a directory that was not removed.
LiveInv ==
    /\ \A n \in DOMAIN stack :
        n > 1 /\ tree[stack[n].dir] = stack[n].obj => ~Gone(stack[n - 1].obj, stack[n - 1].dir)
    /\ entry # None /\ tree[entry.path] = entry.obj => ~Gone(Top.obj, Top.dir)

\* The first row of a pass is that of the root.
RootInv ==
    /\ \A k \in 1 .. 2 : rows[k] # <<>> => rows[k][1].path = Root
    /\ step # "root" => rows[pass] # <<>>

FrameInv == NamesInv /\ LiveInv /\ RootInv

\* What was seen first is no more, and the second pass will not see it.
Past(p) ==
    /\ Saw(p) /\ tree[p] # seen[1][p] /\ seen[2][p] # seen[1][p]
    /\ pass = 2 /\ step # "root" => between[p] # seen[1][p]

\* An issue of an object that was seen and had changed by its last stat, and one
\* of a directory that was not entered.
IsRace(j) ==
    \/ j.reason \in {"ENTRY_FINAL_RACE", "ENTRY_IDENTITY_RACE", "ROOT_IDENTITY_RACE"}
    \/ j.reason = "DIRECTORY_IDENTITY_RACE" /\ j.detail = "changed"
IsRefusal(j) ==
    /\ j.reason \in {"DIRECTORY_OPEN_UNRESOLVED", "DIRECTORY_IDENTITY_RACE"} /\ j.detail = "open"

Raced(k, p) == \E j \in I(k) : j.path = p /\ IsRace(j)
RefusedAt(k, p) == \E j \in I(k) : j.path = p /\ IsRefusal(j)

RefusedInv == \A k \in 1 .. 2 : \A p \in Paths : RefusedAt(k, p) => ~Rowed(k, p)

\* Of the first pass: what it saw got a row, or is a directory it did not enter;
\* what it saw change, or failed to hash because it changed, is past; and where
\* it saw nothing, nothing is unless the directory changed.
FirstInv ==
    \A p \in Paths :
        /\ Raced(1, p) => Past(p)
        /\ Saw(p) => \/ Rowed(1, p)
                     \/ RefusedAt(1, p) /\ (failures = 0 => Past(p))
                     \/ pass = 1 /\ entry # None /\ entry.path = p
        /\ p # Root /\ seen[1][p] = None =>
            Saw(Parent[p]) /\ (tree[p] # None => tree[Parent[p]] # seen[1][Parent[p]])

Unhashable(r) == r.obj.kind = "REGULAR" /\ r.hash = None

UnhashedInv ==
    /\ \A k \in 1 .. 2 : \A r \in R(k) : r.obj.kind = "DIRECTORY" => r.hash = None
    /\ \A r \in R(1) : failures = 0 /\ Unhashable(r) => Past(r.path)

\* The last stat of it is still to come.
InProgress(q) ==
    \/ \E n \in DOMAIN stack : stack[n].dir = q
    \/ step = "final" /\ entry.path = q
    \/ step = "rootEnd" /\ q = Root

\* The second pass sees that it changed, or will.
Changing(q) == Saw(q) /\ tree[q] # seen[1][q] /\ (seen[2][q] # seen[1][q] \/ InProgress(q))

\* What a row of the second pass tells is between what was seen first and last.
Between(r) ==
    \E o \in Objects :
        /\ r.obj = Stat(o) /\ Known(r.path, o) /\ (Saw(r.path) => Later(seen[1][r.path], o))
        /\ seen[2][r.path] # None => Later(o, seen[2][r.path])

SecondRowInv ==
    \A r \in R(2) :
        /\ seen[2][r.path] # Unseen /\ Between(r)
        /\ (seen[2][r.path] # None /\ r.obj = Stat(seen[2][r.path])) \/ Raced(2, r.path)
        /\ failures = 0 /\ Unhashable(r) /\ Saw(r.path) => Changing(r.path)
        /\ r.path # Root /\ seen[1][r.path] = None => Changing(Parent[r.path])

InSecond == pass = 2 /\ step \in {"open", "read", "hashed"}

LastInv ==
    \A p \in Paths : seen[2][p] \notin {None, Unseen} =>
        /\ Saw(p) => Later(seen[1][p], seen[2][p])
        /\ \/ Rowed(2, p)
           \/ InSecond /\ entry.path = p
           \/ RefusedAt(2, p) /\ (failures = 0 => seen[2][p] # seen[1][p])
           \/ /\ p # Root /\ Rowed(2, Parent[p]) /\ Raced(2, Parent[p])
              /\ Saw(p) => seen[2][p].born > seen[1][p].born

ReadInv ==
    InSecond =>
        /\ seen[2][entry.path] = entry.obj
        /\ seen[1][entry.path] = None => tree[Parent[entry.path]] # seen[1][Parent[entry.path]]

WatchInv == RefusedInv /\ FirstInv /\ UnhashedInv /\ SecondRowInv /\ LastInv /\ ReadInv

\* A directory could not be listed; a path could not be stat'ed.
Unread(k, p) == \E j \in I(k) : j.path = p /\ j.reason = "DIRECTORY_READ_UNRESOLVED"
Missed(k, p) == \E j \in I(k) : j.path = p /\ j.reason = "ENTRY_STAT_UNRESOLVED"

Entrance(k, p) == \E r \in R(k) : r.path = p /\ r.obj.kind = "DIRECTORY"

MissedInv == \A k \in 1 .. 2 : \A p \in Paths : Missed(k, p) => ~Rowed(k, p)

\* What has a row is in a directory that has one.
ParentInv == \A k \in 1 .. 2 : \A p \in Paths \ {Root} : Rowed(k, p) => Entrance(k, Parent[p])

\* The look at it is still to come.
Awaited(k, p) ==
    /\ pass = k
    /\ \/ step = "list" /\ Top.dir = Parent[p]
       \/ \E n \in DOMAIN stack : p \in stack[n].left

Overtaken(k, p) == IF k = 1 THEN Past(p) ELSE Saw(p) => Changing(p)

\* Why there was no look at what is in a directory that was entered.
LookInv ==
    \A k \in 1 .. 2 : \A p \in Paths \ {Root} :
        Entrance(k, Parent[p]) /\ seen[k][p] = Unseen =>
            \/ Awaited(k, p)
            \/ /\ Unread(k, Parent[p]) \/ Missed(k, p)
               /\ failures = 0 => Overtaken(k, Parent[p])

LookedInv == MissedInv /\ ParentInv /\ LookInv

Full == IInv /\ FrameInv /\ WatchInv /\ LookedInv

\* An issue of one pass is among the drift.
LEMMA IssueTold ==
    ASSUME IInv, NEW j \in (I(1) \ I(2)) \cup (I(2) \ I(1))
    PROVE  \E i \in ToSet(IssueDeltas) : PathOf(i) = j.path
  <1>1. I(1) \subseteq IssueRecords /\ I(2) \subseteq IssueRecords /\ None \notin IssueRecords
    BY RowsTyped, KeysTyped
  <1>2. ToSet(IssueDeltas) = {[first |-> i, second |-> None] : i \in I(1) \ I(2)} \cup
                             {[first |-> None, second |-> i] : i \in I(2) \ I(1)}
    BY IssuesMerge, IssuesMergedIs DEF Merges
  <1>3. CASE j \in I(1) \ I(2)
    <2> DEFINE e == [first |-> j, second |-> None]
    <2>1. e \in ToSet(IssueDeltas) /\ e.first = j /\ e.first # None
      BY <1>1, <1>2, <1>3
    <2> HIDE DEF e
    <2> QED
      BY <2>1 DEF PathOf
  <1>4. CASE j \in I(2) \ I(1)
    <2> DEFINE e == [first |-> None, second |-> j]
    <2>1. e \in ToSet(IssueDeltas) /\ e.first = None /\ e.second = j
      BY <1>2, <1>4
    <2> HIDE DEF e
    <2> QED
      BY <2>1 DEF PathOf
  <1> QED
    BY <1>3, <1>4

\* What is not reported of a path.
LEMMA QuietIs ==
    ASSUME IInv, NEW q \in Paths, q \notin ReportedAt \cup Unopened
    PROVE  /\ \A r \in R(1) \cup R(2) : r.path = q => r \in R(1) /\ r \in R(2)
           /\ Raced(1, q) <=> Raced(2, q)
           /\ ~RefusedAt(1, q) /\ ~RefusedAt(2, q)
  <1>1. RowAt(1, q) = RowAt(2, q)
    <2> SUFFICES ASSUME RowAt(1, q) # RowAt(2, q) PROVE FALSE
      OBVIOUS
    <2>1. PICK i \in DOMAIN Deltas : Deltas[i] = DeltaOf(RowsAt(q))
      BY DeltaIs
    <2>2. PathOf(RowsAt(q)) = q
      BY RowsAtIs
    <2>3. Deltas[i] \in ToSet(Deltas) /\ Deltas[i].path = q
      BY <2>1, <2>2 DEF ToSet, DeltaOf
    <2> QED
      BY <2>3 DEF ReportedAt
  <1>2. \A r \in R(1) \cup R(2) : r.path = q => r \in R(1) /\ r \in R(2)
    <2>1. /\ \A r \in R(1) : r # None /\ RowAt(1, r.path) = r
          /\ \A r \in R(2) : r # None /\ RowAt(2, r.path) = r
      BY RowAtIs, RowsTyped, KeysTyped
    <2>2. RowAt(1, q) = None \/ (RowAt(1, q) \in R(1) /\ RowAt(2, q) \in R(2))
      BY <1>1, RowAtIs
    <2> QED
      BY <1>1, <2>1, <2>2
  <1>3. \A j \in I(1) \cup I(2) : j.path = q => j \in I(1) /\ j \in I(2)
    BY IssueTold DEF ReportedAt
  <1>4. \A j \in I(1) \cap I(2) : j.path = q => j.detail # "open"
    BY DEF Unopened, I
  <1> QED
    BY <1>2, <1>3, <1>4 DEF Raced, RefusedAt, IsRefusal

\* A path whose rows are the same was the same at the first and at the last look.
LEMMA SameRow ==
    ASSUME IInv, WatchInv, Done, NEW r \in R(1) \cap R(2), Raced(1, r.path) <=> Raced(2, r.path)
    PROVE  /\ seen[2][r.path] = seen[1][r.path] /\ ~Raced(1, r.path)
           /\ between[r.path] = seen[1][r.path]
  <1> DEFINE p == r.path
             a == seen[1][p]
             b == seen[2][p]
  <1>0. pass = 2 /\ step = "done" /\ entry = None
    BY DEF IInv, WalkInv, PlaceInv, InWork, Done
  <1>1. p \in Paths
    BY RowPath DEF IInv
  <1>2. Saw(p) /\ r.obj = Stat(a)
    BY DEF IInv, SeenInv, RowInv
  <1>3. a \in Objects /\ b \in Objects \cup {None, Unseen}
    BY <1>1, <1>2 DEF IInv, TypeInv, Saw
  <1>4. between[p] = a
    <2>1. r.obj.ctime = a.ctime
      BY <1>2, StatIs
    <2> QED
      BY <1>0, <1>1, <1>2, <2>1 DEF IInv, BetweenInv
  <1>5. ~Raced(1, p)
    BY <1>0, <1>1, <1>4 DEF WatchInv, FirstInv, Past
  <1>6. b # Unseen /\ b # None /\ r.obj = Stat(b)
    BY <1>5 DEF WatchInv, SecondRowInv
  <1>7. Later(a, b)
    BY <1>1, <1>2, <1>3, <1>6 DEF WatchInv, LastInv
  <1>8. a.ctime = b.ctime
    <2>1. r.obj.ctime = a.ctime
      BY <1>2, StatIs
    <2>2. r.obj.ctime = b.ctime
      BY <1>6, StatIs
    <2> QED
      BY <2>1, <2>2
  <1> QED
    BY <1>4, <1>5, <1>7, <1>8 DEF Later

LEMMA UnreportedIs ==
    ASSUME IInv, WatchInv
    PROVE  NothingUnreported
  <1> SUFFICES ASSUME Done, NEW p \in Paths,
                      seen[1][p] # seen[2][p], {seen[1][p], seen[2][p]} # {None, Unseen},
                      (ReportedAt \cup Unopened) \cap ({p} \cup Above(p)) = {}
               PROVE  FALSE
    BY DEF NothingUnreported
  <1>0. pass = 2 /\ step = "done" /\ entry = None
    BY DEF IInv, WalkInv, PlaceInv, InWork, Done
  <1>1. seen[1][p] \in Objects \cup {None, Unseen} /\ seen[2][p] \in Objects \cup {None, Unseen}
    BY DEF IInv, TypeInv
  <1>2. /\ \A r \in R(1) \cup R(2) : r.path = p => r \in R(1) /\ r \in R(2)
        /\ Raced(1, p) <=> Raced(2, p)
        /\ ~RefusedAt(1, p) /\ ~RefusedAt(2, p)
    <2>1. p \notin ReportedAt \cup Unopened
      OBVIOUS
    <2> QED
      BY <2>1, QuietIs
  <1>3. ~Rowed(1, p) /\ ~Rowed(2, p)
    <2> SUFFICES ASSUME NEW r \in R(1) \cup R(2), r.path = p PROVE FALSE
      BY DEF Rowed
    <2>1. r \in R(1) \cap R(2)
      BY <1>2
    <2> QED
      BY <1>2, <2>1, SameRow
  <1>4. ~Saw(p)
    BY <1>0, <1>2, <1>3 DEF WatchInv, FirstInv
  <1>5. seen[2][p] \notin {None, Unseen}
    BY <1>1, <1>4 DEF Saw
  <1>6. p # Root /\ Rowed(2, Parent[p]) /\ Raced(2, Parent[p])
    BY <1>0, <1>2, <1>3, <1>5 DEF WatchInv, LastInv, InSecond
  <1>7. Parent[p] \in Paths /\ Parent[p] \notin ReportedAt \cup Unopened
    BY <1>6, PathFacts DEF Above
  <1>8. PICK r \in R(2) : r.path = Parent[p]
    BY <1>6 DEF Rowed
  <1>9. r \in R(1) \cap R(2) /\ (Raced(1, r.path) <=> Raced(2, r.path))
    BY <1>7, <1>8, QuietIs
  <1> QED
    BY <1>6, <1>8, <1>9, SameRow

LEMMA NoLaterThan ==
    ASSUME NEW a \in Objects, NEW b \in Objects, Later(a, b), Later(b, a)
    PROVE  a = b
  <1>1. a.ctime \in Nat /\ b.ctime \in Nat
    BY DEF Objects
  <1> QED
    BY <1>1 DEF Later

\* What there is of one path when both passes are over.
LEMMA AtTheEnd ==
    ASSUME IInv, WatchInv, Done, NEW p \in Paths
    PROVE  /\ pass = 2 /\ step = "done" /\ entry = None /\ stack = <<>>
           /\ seen[1][p] \in Objects \cup {None, Unseen} /\ seen[2][p] \in Objects \cup {None, Unseen}
           /\ Saw(p) => Rowed(1, p) \/ (RefusedAt(1, p) /\ (failures = 0 => Past(p)))
           /\ ~InProgress(p)
  <1>0. pass = 2 /\ step = "done" /\ entry = None /\ stack = <<>>
    BY DEF IInv, WalkInv, PlaceInv, InWork, Done
  <1>1. DOMAIN stack = {}
    BY <1>0
  <1> QED
    BY <1>0, <1>1 DEF IInv, TypeInv, WatchInv, FirstInv, InProgress

\* Why a path was not walked is an issue of one pass, but for a directory that
\* could not be listed.
LEMMA HinderedBy ==
    ASSUME RefusedInv, MissedInv, NEW k \in 1 .. 2, NEW p \in Paths
    PROVE  /\ Unread(k, p) => HinderedIn(k, p)
           /\ (RefusedAt(k, p) \/ Missed(k, p)) /\ Rowed(3 - k, p) => HinderedIn(k, p)
  <1>1. 3 - k \in 1 .. 2
    OBVIOUS
  <1>2. ASSUME NEW j \in I(k), j.path = p, j.reason = "DIRECTORY_READ_UNRESOLVED" PROVE HinderedIn(k, p)
    BY <1>2 DEF HinderedIn, Hindrance, I
  <1>3. ASSUME NEW j \in I(k), j.path = p, IsRefusal(j) \/ j.reason = "ENTRY_STAT_UNRESOLVED", Rowed(3 - k, p)
        PROVE  HinderedIn(k, p)
    <2>1. j \notin I(3 - k)
      BY <1>1, <1>3 DEF RefusedInv, RefusedAt, MissedInv, Missed
    <2>2. Hindrance(j)
      BY <1>3 DEF Hindrance, IsRefusal
    <2> QED
      BY <1>3, <2>1, <2>2 DEF HinderedIn, I
  <1> QED
    BY <1>2, <1>3 DEF Unread, RefusedAt, Missed

Went(p) == WentFrom(p) \/ HinderedIn(2, p)
Came(p) == CameTo(p) \/ HinderedIn(1, p)
Differs(p) == Compared(p) /\ seen[1][p] # seen[2][p]

\* What has two rows that are not the same.
LEMMA ReplacedIs ==
    ASSUME Full, Done, NEW p \in Paths, NEW r \in R(1), r.path = p, NEW s \in R(2), s.path = p, r # s
    PROVE  /\ <<r.obj.kind, r.obj.ino>> # <<s.obj.kind, s.obj.ino>> => WentFrom(p)
           /\ failures = 0 => Differs(p)
  <1> DEFINE a == seen[1][p]
             b == seen[2][p]
  <1>0. IInv /\ WatchInv
    BY DEF Full
  <1>1. Saw(p) /\ a \notin {None, Unseen} /\ r.obj = Stat(a)
    BY <1>0 DEF IInv, SeenInv, RowInv, Saw
  <1>2. a \in Objects /\ b \in Objects \cup {None, Unseen}
    BY <1>0, <1>1, AtTheEnd
  <1>3. Between(s) /\ b # Unseen /\ (failures = 0 /\ Unhashable(s) => Changing(p))
    BY <1>0, <1>1 DEF WatchInv, SecondRowInv
  <1>4. PICK o \in Objects : s.obj = Stat(o) /\ Later(a, o) /\ (b # None => Later(o, b))
    BY <1>1, <1>3 DEF Between
  <1>5. r \in Rows /\ s \in Rows
    BY <1>0, RowPath DEF IInv
  <1>6. ASSUME <<r.obj.kind, r.obj.ino>> # <<s.obj.kind, s.obj.ino>>, b # None
        PROVE  b.born # a.born
    <2>1. a.kind # o.kind \/ a.ino # o.ino
      BY <1>1, <1>4, <1>6, StatIs
    <2>2. b \in Objects /\ Later(o, b)
      BY <1>2, <1>3, <1>4, <1>6
    <2>3. a.born \in Nat /\ b.born \in Nat /\ o.born \in Nat
      BY <1>2, <2>2 DEF Objects
    <2> QED
      BY <1>4, <2>1, <2>2, <2>3 DEF Later
  <1>7. ASSUME failures = 0, a = b
        PROVE  FALSE
    <2>1. o = a
      BY <1>1, <1>2, <1>4, <1>7, NoLaterThan
    <2>2. r.obj = s.obj
      BY <1>1, <1>4, <2>1
    <2>3. r.hash # s.hash
      BY <1>5, <2>2 DEF Rows
    <2>4. r.obj.kind \in {"DIRECTORY", "REGULAR"}
      BY <1>5 DEF Rows
    <2>5. r.obj.kind # "DIRECTORY"
      BY <1>0, <2>2, <2>3 DEF WatchInv, UnhashedInv
    <2>6. ~Unhashable(r)
      BY <1>0, <1>7 DEF WatchInv, UnhashedInv, Past
    <2>7. ~Unhashable(s)
      BY <1>0, <1>3, <1>7, AtTheEnd DEF Changing
    <2>8. r.hash # None /\ s.hash # None
      BY <2>2, <2>4, <2>5, <2>6, <2>7 DEF Unhashable
    <2>9. r.hash = r.obj.ctime /\ s.hash = s.obj.ctime
      BY <1>0, <2>8 DEF IInv, HashInv, RowsAreOfOneFile, R
    <2> QED
      BY <2>2, <2>3, <2>9
  <1>8. Compared(p)
    BY <1>1, <1>3 DEF Compared
  <1> QED
    BY <1>1, <1>6, <1>7, <1>8 DEF WentFrom, Differs

\* Of the second pass: it saw what it has a row of, and of no other thing in a
\* directory it entered was there no look without a reason.
LEMMA SecondEnd ==
    ASSUME Full, Done
    PROVE  /\ Rowed(1, Root) /\ Rowed(2, Root)
           /\ \A p \in Paths : Rowed(1, p) => Saw(p)
           /\ \A p \in Paths : Rowed(2, p) => seen[2][p] # Unseen
           /\ \A k \in 1 .. 2 : \A p \in Paths \ {Root} :
                Entrance(k, Parent[p]) /\ seen[k][p] = Unseen =>
                    /\ Unread(k, Parent[p]) \/ Missed(k, p)
                    /\ failures = 0 => Overtaken(k, Parent[p])
  <1>0. IInv /\ WatchInv /\ FrameInv /\ LookInv /\ TypeInv
    BY DEF Full, IInv, LookedInv
  <1>1. pass = 2 /\ step = "done" /\ DOMAIN stack = {}
    <2>1. pass = 2 /\ step = "done" /\ stack = <<>>
      BY <1>0, AtTheEnd, PathFacts
    <2> QED
      BY <2>1
  <1>2. Rowed(1, Root)
    BY <1>0, <1>1 DEF IInv, SeenInv, RowInv
  <1>3. Rowed(2, Root)
    <2>1. rows[2] # <<>> /\ rows[2][1].path = Root /\ rows[2] \in Seq(Rows)
      BY <1>0, <1>1 DEF FrameInv, RootInv, TypeInv
    <2>2. 1 \in DOMAIN rows[2]
      BY <2>1
    <2> QED
      BY <2>1, <2>2 DEF Rowed, R, ToSet
  <1>4. \A p \in Paths : Rowed(1, p) => Saw(p)
    BY <1>0 DEF IInv, SeenInv, RowInv, Rowed
  <1>5. \A p \in Paths : Rowed(2, p) => seen[2][p] # Unseen
    BY <1>0 DEF WatchInv, SecondRowInv, Rowed
  <1>6. \A k, p : ~Awaited(k, p)
    BY <1>1 DEF Awaited
  <1> QED
    BY <1>0, <1>2, <1>3, <1>4, <1>5, <1>6 DEF LookInv

\* A file where there was a directory, or the other way round.
LEMMA OtherKind ==
    ASSUME Full, Done, NEW p \in Paths,
           \/ Entrance(1, p) /\ Rowed(2, p) /\ ~Entrance(2, p)
           \/ Entrance(2, p) /\ Rowed(1, p) /\ ~Entrance(1, p)
    PROVE  WentFrom(p) /\ (failures = 0 => Differs(p))
  <1>1. PICK r \in R(1), s \in R(2) : r.path = p /\ s.path = p /\ r.obj.kind # s.obj.kind
    BY DEF Entrance, Rowed
  <1> QED
    BY <1>1, ReplacedIs

\* What the second pass has no row of, but has looked at.
LEMMA DeletedHere ==
    ASSUME Full, Done, NEW p \in Paths, Rowed(1, p), ~Rowed(2, p), seen[2][p] # Unseen
    PROVE  Went(p) /\ (failures = 0 => Differs(p))
  <1>0. IInv /\ WatchInv /\ RefusedInv /\ MissedInv /\ pass = 2 /\ step = "done"
    BY AtTheEnd DEF Full, WatchInv, LookedInv
  <1>1. Saw(p) /\ Compared(p)
    BY SecondEnd DEF Compared, Saw
  <1>2. CASE seen[2][p] = None
    BY <1>1, <1>2 DEF Went, WentFrom, Differs, Saw
  <1>3. CASE seen[2][p] # None
    <2>1. \/ RefusedAt(2, p) /\ (failures = 0 => seen[2][p] # seen[1][p])
          \/ seen[2][p].born > seen[1][p].born
      BY <1>0, <1>1, <1>3 DEF WatchInv, LastInv, InSecond
    <2>2. CASE RefusedAt(2, p) /\ (failures = 0 => seen[2][p] # seen[1][p])
      <3>1. Rowed(3 - 2, p)
        OBVIOUS
      <3> QED
        BY <1>0, <1>1, <2>2, <3>1, HinderedBy DEF Went, Differs
    <2>3. CASE seen[2][p].born > seen[1][p].born
      <3>1. seen[1][p] \in Objects /\ seen[2][p] \in Objects
        BY <1>0, <1>1, <1>3, AtTheEnd DEF Saw
      <3>2. seen[1][p].born # seen[2][p].born
        BY <2>3, <3>1 DEF Objects
      <3> QED
        BY <1>1, <3>2 DEF Went, WentFrom, Differs, Saw
    <2> QED
      BY <2>1, <2>2, <2>3
  <1> QED
    BY <1>2, <1>3

\* What the second pass has not looked at, in a directory it has a row of.
LEMMA DeletedUnder ==
    ASSUME Full, Done, NEW p \in Paths \ {Root}, Rowed(1, p), seen[2][p] = Unseen, Rowed(2, Parent[p])
    PROVE  (Went(p) \/ Went(Parent[p])) /\ (failures = 0 => Differs(Parent[p]))
  <1> DEFINE d == Parent[p]
  <1>0. RefusedInv /\ MissedInv /\ ParentInv /\ d \in Paths
    BY PathFacts DEF Full, WatchInv, LookedInv
  <1>1. Entrance(1, d) /\ Rowed(1, d)
    BY <1>0 DEF ParentInv, Entrance, Rowed
  <1>2. Saw(d) /\ Compared(d)
    BY <1>0, <1>1, SecondEnd DEF Compared, Saw
  <1>3. CASE Entrance(2, d)
    <2>1. (Unread(2, d) \/ Missed(2, p)) /\ (failures = 0 => Changing(d))
      BY <1>2, <1>3, SecondEnd DEF Overtaken
    <2>2. failures = 0 => Differs(d)
      BY <1>0, <1>2, <2>1, AtTheEnd DEF Full, Changing, Differs
    <2>3. Rowed(3 - 2, p)
      OBVIOUS
    <2> QED
      BY <1>0, <2>1, <2>2, <2>3, HinderedBy DEF Went
  <1>4. CASE ~Entrance(2, d)
    BY <1>0, <1>1, <1>4, OtherKind DEF Went
  <1> QED
    BY <1>3, <1>4

LEMMA DeletedIs ==
    ASSUME Full, Done, NEW p \in Paths, Rowed(1, p), ~Rowed(2, p)
    PROVE  /\ \E q \in {p} \cup Above(p) : Went(q)
           /\ failures = 0 => \E q \in {p} \cup Above(p) : Differs(q)
  <1>1. p # Root /\ Parent[p] \in Paths /\ Above(p) = {Root, Parent[p]}
    BY SecondEnd, PathFacts DEF Above
  <1>2. CASE seen[2][p] # Unseen
    BY <1>2, DeletedHere
  <1>3. CASE seen[2][p] = Unseen /\ Rowed(2, Parent[p])
    BY <1>1, <1>3, DeletedUnder
  <1>4. CASE ~Rowed(2, Parent[p])
    <2>1. Rowed(1, Parent[p])
      BY <1>1 DEF Full, LookedInv, ParentInv, Entrance, Rowed
    <2>2. Parent[p] # Root /\ Parent[Parent[p]] = Root /\ Rowed(2, Root)
      BY <1>1, <1>4, SecondEnd, PathFacts
    <2>3. CASE seen[2][Parent[p]] # Unseen
      BY <1>1, <1>4, <2>1, <2>3, DeletedHere
    <2>4. CASE seen[2][Parent[p]] = Unseen
      BY <1>1, <2>1, <2>2, <2>4, DeletedUnder
    <2> QED
      BY <2>3, <2>4
  <1> QED
    BY <1>2, <1>3, <1>4

\* What the first pass has no row of, but has looked at.
LEMMA CreatedHere ==
    ASSUME Full, Done, NEW p \in Paths \ {Root}, Rowed(2, p), ~Rowed(1, p), seen[1][p] # Unseen
    PROVE  Came(p) /\ (failures = 0 => Differs(p) \/ Differs(Parent[p]))
  <1>0. IInv /\ WatchInv /\ RefusedInv /\ MissedInv /\ Parent[p] \in Paths
    BY PathFacts DEF Full, WatchInv, LookedInv
  <1>1. Compared(p)
    BY SecondEnd DEF Compared
  <1>2. CASE seen[1][p] = None
    <2>1. Changing(Parent[p])
      BY <1>0, <1>2 DEF WatchInv, SecondRowInv, Rowed
    <2>2. Rowed(2, Parent[p])
      BY DEF Full, LookedInv, ParentInv, Entrance, Rowed
    <2>3. Compared(Parent[p])
      BY <1>0, <2>1, <2>2, SecondEnd DEF Compared, Changing, Saw
    <2>4. Differs(Parent[p])
      BY <1>0, <2>1, <2>3, AtTheEnd DEF Changing, Differs
    <2> QED
      BY <1>1, <1>2, <2>4 DEF Came, CameTo
  <1>3. CASE Saw(p)
    <2>1. RefusedAt(1, p) /\ (failures = 0 => Past(p))
      BY <1>0, <1>3, AtTheEnd
    <2>2. Rowed(3 - 1, p)
      OBVIOUS
    <2> QED
      BY <1>0, <1>1, <2>1, <2>2, HinderedBy DEF Came, Differs, Past
  <1> QED
    BY <1>2, <1>3 DEF Saw

\* What the first pass has not looked at, in a directory it has a row of.
LEMMA CreatedUnder ==
    ASSUME Full, Done, NEW p \in Paths \ {Root}, Rowed(2, p), seen[1][p] = Unseen, Rowed(1, Parent[p])
    PROVE  (Came(p) \/ Came(Parent[p])) /\ (failures = 0 => Differs(Parent[p]))
  <1> DEFINE d == Parent[p]
  <1>0. RefusedInv /\ MissedInv /\ ParentInv /\ d \in Paths
    BY PathFacts DEF Full, WatchInv, LookedInv
  <1>1. Entrance(2, d) /\ Rowed(2, d)
    BY <1>0 DEF ParentInv, Entrance, Rowed
  <1>2. Compared(d)
    BY <1>0, <1>1, SecondEnd DEF Compared, Saw
  <1>3. CASE Entrance(1, d)
    <2>1. (Unread(1, d) \/ Missed(1, p)) /\ (failures = 0 => Past(d))
      BY <1>3, SecondEnd DEF Overtaken
    <2>2. Rowed(3 - 1, p)
      OBVIOUS
    <2> QED
      BY <1>0, <1>2, <2>1, <2>2, HinderedBy DEF Came, Differs, Past
  <1>4. CASE ~Entrance(1, d)
    BY <1>0, <1>1, <1>4, OtherKind DEF Came, CameTo
  <1> QED
    BY <1>3, <1>4

LEMMA CreatedIs ==
    ASSUME Full, Done, NEW p \in Paths, Rowed(2, p), ~Rowed(1, p)
    PROVE  /\ \E q \in {p} \cup Above(p) : Came(q)
           /\ failures = 0 => \E q \in {p} \cup Above(p) : Differs(q)
  <1>1. p # Root /\ Parent[p] \in Paths /\ Above(p) = {Root, Parent[p]}
    BY SecondEnd, PathFacts DEF Above
  <1>2. CASE seen[1][p] # Unseen
    BY <1>1, <1>2, CreatedHere
  <1>3. CASE seen[1][p] = Unseen /\ Rowed(1, Parent[p])
    BY <1>1, <1>3, CreatedUnder
  <1>4. CASE ~Rowed(1, Parent[p])
    <2>1. Rowed(2, Parent[p])
      BY <1>1 DEF Full, LookedInv, ParentInv, Entrance, Rowed
    <2>2. Parent[p] # Root /\ Parent[Parent[p]] = Root /\ Rowed(1, Root)
      BY <1>1, <1>4, SecondEnd, PathFacts
    <2>3. CASE seen[1][Parent[p]] # Unseen
      BY <1>1, <1>4, <2>1, <2>2, <2>3, CreatedHere
    <2>4. CASE seen[1][Parent[p]] = Unseen
      BY <1>1, <2>1, <2>2, <2>4, CreatedUnder
    <2> QED
      BY <2>3, <2>4
  <1> QED
    BY <1>2, <1>3, <1>4

LEMMA TrueIs ==
    ASSUME Full
    PROVE  ChangesAreTrue
  <1>1. SUFFICES ASSUME Done, NEW d \in ToSet(Deltas)
                 PROVE  /\ d.change = "REPLACED" => WentFrom(d.path)
                        /\ d.change = "DELETED" => \E q \in {d.path} \cup Above(d.path) : Went(q)
                        /\ d.change = "CREATED" => \E q \in {d.path} \cup Above(d.path) : Came(q)
                        /\ failures = 0 => \E q \in {d.path} \cup Above(d.path) : Differs(q)
    BY DEF ChangesAreTrue, Went, Came, Differs
  <1>2. PICK i \in DOMAIN Deltas : Deltas[i] = d
    BY DEF ToSet
  <1>3. PICK p \in Paths : /\ RowAt(1, p) # RowAt(2, p) /\ d.path = p
                           /\ d.change = Change(RowAt(1, p), RowAt(2, p))
    BY <1>2, DeltaIs DEF Full
  <1>4. /\ RowAt(1, p) = None \/ (RowAt(1, p) \in R(1) /\ RowAt(1, p).path = p)
        /\ RowAt(2, p) = None \/ (RowAt(2, p) \in R(2) /\ RowAt(2, p).path = p)
        /\ \A r \in R(1) : r # None /\ (r.path = p => RowAt(1, p) = r)
        /\ \A r \in R(2) : r # None /\ (r.path = p => RowAt(2, p) = r)
    BY RowAtIs, RowsTyped, KeysTyped DEF Full
  <1>5. CASE RowAt(1, p) = None
    <2>1. ~Rowed(1, p) /\ Rowed(2, p) /\ d.change = "CREATED"
      BY <1>3, <1>4, <1>5 DEF Rowed, Change
    <2> QED
      BY <1>1, <1>3, <2>1, CreatedIs
  <1>6. CASE RowAt(1, p) # None /\ RowAt(2, p) = None
    <2>1. ~Rowed(2, p) /\ Rowed(1, p) /\ d.change = "DELETED"
      BY <1>3, <1>4, <1>6 DEF Rowed, Change
    <2> QED
      BY <1>1, <1>3, <2>1, DeletedIs
  <1>7. CASE RowAt(1, p) # None /\ RowAt(2, p) # None
    <2>1. /\ RowAt(1, p) \in R(1) /\ RowAt(1, p).path = p
          /\ RowAt(2, p) \in R(2) /\ RowAt(2, p).path = p
      BY <1>4, <1>7
    <2>2. /\ d.change # "CREATED" /\ d.change # "DELETED"
          /\ d.change = "REPLACED" => <<RowAt(1, p).obj.kind, RowAt(1, p).obj.ino>> # <<RowAt(2, p).obj.kind, RowAt(2, p).obj.ino>>
      BY <1>3, <1>7 DEF Change
    <2> QED
      BY <1>1, <1>3, <2>1, <2>2, ReplacedIs
  <1> QED
    BY <1>5, <1>6, <1>7

-----------------------------------------------------------------------------
(* The directories that are open, and their names.                         *)

NamedNext(f) ==
    /\ tree'[f.dir] = f.obj => f.names = {q \in Below(f.dir) : tree'[q] # None}
    /\ \A p \in Below(f.dir) \ f.names :
        /\ ~\E r \in ToSet(rows'[pass']) : r.path = p
        /\ pass' = 1 => seen'[1][p] = None
        /\ pass' = 2 /\ seen'[1][p] \notin {None, Unseen} /\ tree'[p] # None => tree'[p].born > seen'[1][p].born

LEMMA NamesBy ==
    ASSUME \A n \in DOMAIN stack' : n < Len(stack') \/ step' # "list" => NamedNext(stack'[n])
    PROVE  NamesInv'
  BY DEF NamesInv, HasNames, Named, NamedNext, There, Rowed, R, Saw

LEMMA NamedSite ==
    ASSUME TypeInv, TreeInv, SawInv, SiteFacts, NEW f \in Frames, Named(f), Known(f.dir, f.obj)
    PROVE  NamedNext(f)
  <1>1. UNCHANGED helper /\ changes' = changes + 1 /\ changes \in Nat
    BY DEF SiteFacts, TypeInv
  <1>2. f.dir \in Paths /\ f.obj \in Objects /\ Below(f.dir) \subseteq Paths \ {Root}
    BY PathFacts DEF Frames
  <1>3. ASSUME tree'[f.dir] = f.obj
        PROVE  f.names = {q \in Below(f.dir) : tree'[q] # None}
    <2>1. tree[f.dir] = f.obj /\ f.obj.ctime \in Nat /\ f.obj.ctime <= changes
      BY <1>2, <1>3, NeverBack DEF Known, Objects
    <2>2. \A q \in Below(f.dir) : q \in Paths /\ Parent[q] = f.dir
      BY <1>2, PathFacts
    <2>3. ASSUME NEW q \in Below(f.dir)
          PROVE  tree'[q] # None <=> tree[q] # None
      <3> SUFFICES ASSUME ~(tree'[q] # None <=> tree[q] # None) PROVE FALSE
        OBVIOUS
      <3>1. Exchanged(q)
        BY DEF Exchanged
      <3>2. tree'[f.dir].ctime = changes + 1
        BY <2>2, <3>1 DEF SiteFacts
      <3> QED
        BY <1>1, <1>3, <2>1, <3>2
    <2> QED
      BY <2>1, <2>3 DEF Named, There
  <1>4. ASSUME NEW p \in Below(f.dir) \ f.names
        PROVE  /\ ~\E r \in ToSet(rows'[pass']) : r.path = p
               /\ pass' = 1 => seen'[1][p] = None
               /\ pass' = 2 /\ seen'[1][p] \notin {None, Unseen} /\ tree'[p] # None => tree'[p].born > seen'[1][p].born
    <2>1. p \in Paths /\ rows' = rows /\ pass' = pass /\ seen' = seen
      BY <1>1, <1>2 DEF helper
    <2>2. ASSUME pass = 2, Saw(p), tree'[p] # None
          PROVE  tree'[p].born > seen[1][p].born
      <3>1. Known(p, seen[1][p]) /\ seen[1][p] \in Objects
        BY <2>1, <2>2 DEF SawInv, TypeInv, Saw
      <3>2. seen[1][p].born \in Nat /\ seen[1][p].ctime \in Nat /\ seen[1][p].born <= changes
        BY <1>1, <3>1 DEF Known, Objects
      <3>3. Becomes(p)
        BY <2>1 DEF SiteFacts
      <3>4. CASE tree'[p] = tree[p]
        BY <2>2, <3>4 DEF Named
      <3>5. CASE tree'[p].born = changes + 1
        BY <1>1, <3>2, <3>5
      <3>6. CASE tree[p] # None /\ tree'[p].born = tree[p].born
        BY <2>2, <3>6 DEF Named
      <3> QED
        BY <2>2, <3>3, <3>4, <3>5, <3>6 DEF Becomes
    <2> QED
      BY <2>1, <2>2 DEF Named, Rowed, R, Saw
  <1> QED
    BY <1>3, <1>4 DEF NamedNext

\* A row is given to a name of the directory in work, so to none beside the names.
LEMMA NoRowBeside ==
    ASSUME TypeInv, TreeInv, WalkInv, FreshInv, SeenInv, WalkFacts, pass' = pass, NEW n \in DOMAIN stack,
           NEW p \in Below(stack[n].dir) \ stack[n].names, ~Rowed(pass, p)
    PROVE  ~\E r \in ToSet(rows'[pass']) : r.path = p
  <1>0. pass \in 1 .. 2 /\ step # "root" /\ stack # <<>>
    BY DEF TypeInv, WalkInv, PlaceInv
  <1>1. CASE NewRows({})
    BY <1>0, <1>1 DEF NewRows, Rowed
  <1>2. ASSUME NEW q \in Paths, NEW o, NEW h, NewRows({RowFor(q, o, h)}), Why(q, o, h)
        PROVE  ~\E r \in ToSet(rows'[pass']) : r.path = p
    <2>1. q = entry.path /\ entry # None
      BY <1>0, <1>2 DEF Why
    <2>2. q \in Top.names /\ Top = stack[Len(stack)] /\ Len(stack) \in DOMAIN stack
      BY <1>0, <2>1, TopIs DEF WalkInv, EntryInv
    <2>3. q \in Below(Top.dir) /\ Top.dir \in Paths /\ stack[n].dir \in Paths
      BY <2>2, StackBase DEF WalkInv, StackInv
    <2>4. q # p
      <3> SUFFICES ASSUME q = p PROVE FALSE
        OBVIOUS
      <3>1. Parent[q] = Top.dir /\ Parent[q] = stack[n].dir
        BY <1>2, <2>3, PathFacts
      <3>2. n = Len(stack)
        BY <2>2, <3>1 DEF WalkInv, StackInv
      <3> QED
        BY <2>2, <3>2
    <2>5. ToSet(rows'[pass']) = R(pass) \cup {RowFor(q, o, h)}
      BY <1>0, <1>2 DEF NewRows
    <2>6. RowFor(q, o, h).path = q
      BY RowForIs
    <2> QED
      BY <2>4, <2>5, <2>6 DEF Rowed
  <1> QED
    BY <1>1, <1>2, RowsAfter DEF RowsBy

LEMMA NamedWalk ==
    ASSUME TypeInv, TreeInv, WalkInv, FreshInv, SeenInv, WalkFacts, pass' = pass, NEW n \in DOMAIN stack, Named(stack[n])
    PROVE  NamedNext(stack[n])
  <1> DEFINE f == stack[n]
  <1>1. tree' = tree /\ Below(f.dir) \subseteq Paths
    BY StackBase, PathFacts DEF WalkFacts, Steady, site
  <1>2. ASSUME NEW p \in Below(f.dir) \ f.names
        PROVE  /\ ~\E r \in ToSet(rows'[pass']) : r.path = p
               /\ pass' = 1 => seen'[1][p] = None
               /\ pass' = 2 /\ seen'[1][p] \notin {None, Unseen} /\ tree'[p] # None => tree'[p].born > seen'[1][p].born
    <2>1. ~\E r \in ToSet(rows'[pass']) : r.path = p
      BY <1>2, NoRowBeside DEF Named
    <2>2. /\ pass = 1 => seen[1][p] = None
          /\ pass = 2 /\ Saw(p) /\ tree[p] # None => tree[p].born > seen[1][p].born
      BY <1>2 DEF Named
    <2>3. \/ seen'[1][p] = seen[1][p]
          \/ pass = 1 /\ seen[1][p] = Unseen
      BY <1>1, <1>2, SeenBy DEF SeenFacts
    <2> QED
      BY <1>1, <2>1, <2>2, <2>3, Somethings DEF Saw
  <1>3. tree'[f.dir] = f.obj => f.names = {q \in Below(f.dir) : tree'[q] # None}
    BY <1>1 DEF Named, There
  <1> QED
    BY <1>2, <1>3 DEF NamedNext

LEMMA NamesStep ==
    ASSUME IInv, NamesInv, SiteFacts \/ WalkFacts
    PROVE  NamesInv'
  <1>0. /\ TypeInv /\ TreeInv /\ WalkInv /\ FreshInv /\ SeenInv /\ SawInv /\ HandledInv
        /\ pass \in 1 .. 2 /\ DOMAIN stack = 1 .. Len(stack) /\ Len(stack) \in Nat
    BY StackBase DEF IInv, SeenInv, TypeInv
  <1>1. step \in {"list", "child", "open", "read", "hashed", "final"} => stack # <<>>
    BY <1>0 DEF WalkInv, PlaceInv
  <1>2. CASE SiteFacts
    <2>1. UNCHANGED helper
      BY <1>2 DEF SiteFacts
    <2>2. \A n \in DOMAIN stack : HasNames(n) => NamedNext(stack[n])
      BY <1>0, <1>2, NamedSite, StackBase DEF NamesInv, HandledInv, Handled
    <2> QED
      BY <2>1, <2>2, NamesBy DEF helper, HasNames
  <1>3. CASE WalkFacts /\ PassEnded
    <2>1. stack' = <<>>
      BY <1>0, <1>3 DEF PassEnded, WalkInv, PlaceInv
    <2> QED
      BY <2>1, NamesBy
  <1>4. CASE WalkFacts /\ pass' = pass
    <2>1. \A n \in DOMAIN stack : HasNames(n) => NamedNext(stack[n])
      BY <1>0, <1>4, NamedWalk DEF NamesInv
    <2>2. CASE RootOpened
      <3>1. step' = "list" /\ DOMAIN stack' = {1} /\ Len(stack') = 1
        BY <2>2 DEF RootOpened
      <3> QED
        BY <3>1, NamesBy
    <2>3. CASE Listed
      <3> DEFINE T == There(Top.dir)
      <3>1. T \in SUBSET Paths /\ stack # <<>> /\ step = "list" /\ Top = stack[Len(stack)]
            /\ Top.dir \in Paths /\ Below(Top.dir) \subseteq Paths
        BY <1>0, <1>1, <2>3, TopIs, PathFacts DEF Listed, There
      <3>2. Restacked(T, T)
        BY <1>0, <2>3, <3>1, RestackedBy DEF Listed
      <3>3. \A p \in Below(Top.dir) : p \in Paths /\ ~Rowed(pass, p) /\ (pass = 1 => seen[1][p] = Unseen)
        BY <1>0, <3>1, PathFacts DEF FreshInv, Fresh, Untouched
      <3>4. ASSUME NEW p \in Below(Top.dir) \ T
            PROVE  /\ ~\E r \in ToSet(rows'[pass']) : r.path = p
                   /\ pass' = 1 => seen'[1][p] = None
                   /\ tree'[p] = None
        <4>1. p \in Paths /\ tree[p] = None /\ tree' = tree
          BY <1>4, <3>3, <3>4 DEF There, WalkFacts, Steady, site
        <4>2. ToSet(rows'[pass']) = R(pass)
          BY <1>0, <1>4, <2>3 DEF Listed, NewRows
        <4>3. pass = 1 => seen'[1][p] = tree[p]
          BY <2>3, <3>3, <3>4, <4>1 DEF Listed, Looks
        <4> QED
          BY <1>4, <3>3, <3>4, <4>1, <4>2, <4>3 DEF Rowed
      <3>5. T = {q \in Below(Top.dir) : tree'[q] # None}
        BY <1>4 DEF There, WalkFacts, Steady, site
      <3>6. NamedNext(Top')
        <4> HIDE DEF T
        <4>1. Top'.dir = Top.dir /\ Top'.names = T
          BY <3>2 DEF Restacked
        <4> QED
          BY <3>4, <3>5, <4>1 DEF NamedNext
      <3>7. \A n \in DOMAIN stack' :
              \/ n \in DOMAIN stack /\ n # Len(stack) /\ stack'[n] = stack[n]
              \/ stack'[n] = Top'
        BY <3>2 DEF Restacked
      <3>8. \A n \in DOMAIN stack : n # Len(stack) => HasNames(n)
        BY <1>0 DEF HasNames
      <3> QED
        BY <2>1, <3>6, <3>7, <3>8, NamesBy
    <2>4. CASE Left
      <3>1. stack # <<>> /\ stack' = Front(stack)
        BY <1>1, <2>4 DEF Left
      <3>2. \A n \in DOMAIN stack' : n \in DOMAIN stack /\ stack'[n] = stack[n] /\ HasNames(n)
        BY <1>0, <3>1, UnstackedBy DEF Unstacked, HasNames
      <3> QED
        BY <2>1, <3>2, NamesBy
    <2>5. CASE Statted
      <3>1. PICK p \in Top.left : StattedSome(p)
        BY <2>5 DEF Statted
      <3>2. stack # <<>> /\ step = "child"
        BY <1>1, <3>1 DEF StattedSome
      <3>3. Top.left \ {p} \in SUBSET Paths /\ Top.names \in SUBSET Paths
            /\ Top = stack[Len(stack)] /\ Len(stack) \in DOMAIN stack
        BY <1>0, <3>2, TopIs
      <3>4. Restacked(Top.names, Top.left \ {p})
        BY <1>0, <3>1, <3>2, <3>3, RestackedBy DEF StattedSome
      <3>5. \A n \in DOMAIN stack' : n \in DOMAIN stack /\ stack'[n].dir = stack[n].dir /\ stack'[n].obj = stack[n].obj
                                     /\ stack'[n].names = stack[n].names
        BY <3>3, <3>4 DEF Restacked
      <3>6. \A n \in DOMAIN stack' : NamedNext(stack'[n])
        BY <2>1, <3>2, <3>5 DEF NamedNext, HasNames
      <3> QED
        BY <3>6, NamesBy
    <2>6. CASE Refused \/ Finished \/ FileRowed \/ FileOpened \/ FileRead
      <3>1. stack' = stack /\ step # "list"
        BY <2>6 DEF Refused, Finished, FileRowed, FileOpened, FileRead
      <3> QED
        BY <2>1, <3>1, NamesBy DEF HasNames
    <2>7. CASE Entered
      <3>1. InWork /\ entry # None
        BY <1>0, <2>7 DEF Entered, InWork, WalkInv, PlaceInv
      <3>2. entry.path \in Paths /\ entry.obj \in Objects /\ step = "open" /\ step' = "list"
        BY <1>0, <2>7, <3>1, EntryIs DEF Entered
      <3>3. Stacked(entry.path, entry.obj)
        BY <1>0, <2>7, <3>2, StackedBy DEF Entered
      <3>4. \A n \in DOMAIN stack' : n < Len(stack') => n \in DOMAIN stack /\ stack'[n] = stack[n]
        BY <1>0, <3>3 DEF Stacked
      <3> QED
        BY <2>1, <3>2, <3>4, NamesBy DEF HasNames
    <2>8. CASE PassEnded
      BY <1>3, <1>4, <2>8
    <2> QED
      BY <1>4, <2>2, <2>3, <2>4, <2>5, <2>6, <2>7, <2>8 DEF WalkFacts
  <1> QED
    BY <1>0, <1>2, <1>3, <1>4, SamePass

\* What lies below a directory keeps it from being removed.
Lives(p, o, d, e) == tree[p] = o => tree[d] # None /\ tree[d].born = e.born
LivesNext(p, o, d, e) == tree'[p] = o => tree'[d] # None /\ tree'[d].born = e.born

LEMMA LivesBy ==
    /\ LiveInv <=>
        /\ \A n \in DOMAIN stack : n > 1 => Lives(stack[n].dir, stack[n].obj, stack[n - 1].dir, stack[n - 1].obj)
        /\ entry # None => Lives(entry.path, entry.obj, Top.dir, Top.obj)
    /\ LiveInv' <=>
        /\ \A n \in DOMAIN stack' : n > 1 => LivesNext(stack'[n].dir, stack'[n].obj, stack'[n - 1].dir, stack'[n - 1].obj)
        /\ entry' # None => LivesNext(entry'.path, entry'.obj, Top'.dir, Top'.obj)
  <1>1. LiveInv <=>
        /\ \A n \in DOMAIN stack : n > 1 => Lives(stack[n].dir, stack[n].obj, stack[n - 1].dir, stack[n - 1].obj)
        /\ entry # None => Lives(entry.path, entry.obj, Top.dir, Top.obj)
    BY DEF LiveInv, Lives, Gone
  <1>2. LiveInv' <=>
        /\ \A n \in DOMAIN stack' : n > 1 => LivesNext(stack'[n].dir, stack'[n].obj, stack'[n - 1].dir, stack'[n - 1].obj)
        /\ entry' # None => LivesNext(entry'.path, entry'.obj, Top'.dir, Top'.obj)
    BY DEF LiveInv, LivesNext, Gone
  <1> QED
    BY <1>1, <1>2

LEMMA LivesOn ==
    ASSUME TypeInv, TreeInv, SiteFacts \/ WalkFacts, NEW d \in Paths, NEW e \in Objects, NEW p \in Below(d),
           NEW o \in Objects, Known(p, o), Lives(p, o, d, e)
    PROVE  LivesNext(p, o, d, e)
  <1>1. CASE WalkFacts
    BY <1>1 DEF WalkFacts, Steady, site, Lives, LivesNext
  <1>2. CASE SiteFacts
    <2> SUFFICES ASSUME tree'[p] = o
                 PROVE  tree'[d] # None /\ tree'[d].born = e.born
      BY DEF LivesNext
    <2>1. p \in Paths \ {Root} /\ Parent[p] = d
      BY PathFacts
    <2>2. tree[p] = o /\ o # None
      BY <1>2, <2>1, NeverBack, Somethings
    <2>3. tree[d] # None /\ tree[d].born = e.born /\ tree[d].kind = "DIRECTORY"
      BY <2>1, <2>2 DEF Lives, TreeInv, IsDirectory
    <2>4. ~Exchanged(d)
      BY <1>2, <2>2, <2>3 DEF SiteFacts
    <2> QED
      BY <2>3, <2>4 DEF Exchanged
  <1> QED
    BY <1>1, <1>2

LEMMA LiveStep ==
    ASSUME IInv, LiveInv, SiteFacts \/ WalkFacts
    PROVE  LiveInv'
  <1>0. /\ TypeInv /\ TreeInv /\ WalkInv /\ FreshInv /\ SeenInv /\ SawInv /\ HandledInv
        /\ pass \in 1 .. 2 /\ DOMAIN stack = 1 .. Len(stack) /\ Len(stack) \in Nat
    BY StackBase DEF IInv, SeenInv, TypeInv
  <1>1. step \in {"list", "child", "open", "read", "hashed", "final"} => stack # <<>>
    BY <1>0 DEF WalkInv, PlaceInv
  <1>2. \A n \in DOMAIN stack :
            n > 1 => LivesNext(stack[n].dir, stack[n].obj, stack[n - 1].dir, stack[n - 1].obj)
    <2> SUFFICES ASSUME NEW n \in DOMAIN stack, n > 1
                 PROVE  LivesNext(stack[n].dir, stack[n].obj, stack[n - 1].dir, stack[n - 1].obj)
      OBVIOUS
    <2>1. n - 1 \in DOMAIN stack
      BY <1>0
    <2>2. stack[n].dir \in Below(stack[n - 1].dir)
      BY <1>0, <2>1 DEF WalkInv, StackInv
    <2>3. stack[n - 1].dir \in Paths /\ stack[n - 1].obj \in Objects /\ stack[n].obj \in Objects
          /\ Known(stack[n].dir, stack[n].obj)
      BY <1>0, <2>1, StackBase DEF HandledInv, Handled
    <2>4. Lives(stack[n].dir, stack[n].obj, stack[n - 1].dir, stack[n - 1].obj)
      BY LivesBy
    <2> QED
      BY <1>0, <2>2, <2>3, <2>4, LivesOn
  <1>3. entry # None => LivesNext(entry.path, entry.obj, Top.dir, Top.obj)
    <2> SUFFICES ASSUME entry # None
                 PROVE  LivesNext(entry.path, entry.obj, Top.dir, Top.obj)
      OBVIOUS
    <2>1. InWork /\ stack # <<>>
      BY <1>0, <1>1 DEF WalkInv, PlaceInv, InWork
    <2>2. Top.dir \in Paths /\ Top.obj \in Objects /\ Top = stack[Len(stack)] /\ Len(stack) \in DOMAIN stack
      BY <1>0, <2>1, TopIs
    <2>3. entry.path \in Below(Top.dir)
      BY <1>0, <2>2 DEF WalkInv, StackInv, EntryInv
    <2>4. entry.obj \in Objects /\ Known(entry.path, entry.obj)
      BY <1>0, <2>1, EntryIs DEF HandledInv, Handled
    <2>5. Lives(entry.path, entry.obj, Top.dir, Top.obj)
      BY LivesBy
    <2> QED
      BY <1>0, <2>2, <2>3, <2>4, <2>5, LivesOn
  <1>4. SUFFICES /\ \A n \in DOMAIN stack' :
                        n > 1 => LivesNext(stack'[n].dir, stack'[n].obj, stack'[n - 1].dir, stack'[n - 1].obj)
                 /\ entry' # None => LivesNext(entry'.path, entry'.obj, Top'.dir, Top'.obj)
    BY LivesBy
  <1>5. CASE SiteFacts
    <2>1. stack' = stack /\ entry' = entry /\ Top' = Top
      BY <1>5 DEF SiteFacts, helper, Top
    <2> QED
      BY <1>2, <1>3, <2>1
  <1>6. CASE RootOpened
    <2>1. DOMAIN stack' = {1} /\ entry' = None
      BY <1>0, <1>6 DEF RootOpened, WalkInv, PlaceInv, InWork
    <2> QED
      BY <2>1
  <1>7. CASE Listed
    <2> DEFINE T == There(Top.dir)
    <2>1. T \in SUBSET Paths /\ stack # <<>> /\ step = "list" /\ Top = stack[Len(stack)] /\ Len(stack) \in DOMAIN stack
      BY <1>0, <1>1, <1>7, TopIs, PathFacts DEF Listed, There
    <2>2. Restacked(T, T) /\ entry' = None
      BY <1>0, <1>7, <2>1, RestackedBy DEF Listed, WalkInv, PlaceInv, InWork
    <2>3. DOMAIN stack' = DOMAIN stack /\ \A n \in DOMAIN stack : stack'[n].dir = stack[n].dir /\ stack'[n].obj = stack[n].obj
      BY <2>1, <2>2 DEF Restacked
    <2> QED
      BY <1>0, <1>2, <2>2, <2>3
  <1>8. CASE Left
    <2>1. stack # <<>> /\ stack' = Front(stack) /\ Len(stack) \in DOMAIN stack /\ Top = stack[Len(stack)] /\ Len(stack) \in Nat \ {0}
      BY <1>0, <1>1, <1>8, TopIs DEF Left
    <2>2. Unstacked
      BY <1>0, <2>1, UnstackedBy
    <2>3. \A n \in DOMAIN stack' : n > 1 => n \in DOMAIN stack /\ n - 1 \in DOMAIN stack' /\ stack'[n] = stack[n] /\ stack'[n - 1] = stack[n - 1]
      BY <1>0, <2>2 DEF Unstacked
    <2>4. CASE Top.dir = Root
      <3>1. entry' = None
        BY <1>8, <2>4 DEF Left
      <3> QED
        BY <1>2, <2>3, <3>1
    <2>5. CASE Top.dir # Root
      <3>1. entry' = [path |-> Top.dir, obj |-> Top.obj, hash |-> None]
        BY <1>8, <2>5 DEF Left
      <3>2. entry'.path = Top.dir /\ entry'.obj = Top.obj
        BY <3>1
      <3>3. Len(stack) > 1
        BY <1>0, <2>1, <2>5, BottomOnly DEF WalkInv
      <3>4. Top' = stack[Len(stack) - 1]
        BY <2>2, <3>3 DEF Unstacked
      <3>5. LivesNext(Top.dir, Top.obj, stack[Len(stack) - 1].dir, stack[Len(stack) - 1].obj)
        BY <1>2, <2>1, <3>3
      <3> QED
        BY <1>2, <2>3, <3>2, <3>4, <3>5
    <2> QED
      BY <2>4, <2>5
  <1>9. ASSUME NEW p \in Top.left, StattedSome(p), WalkFacts
        PROVE  /\ \A n \in DOMAIN stack' :
                        n > 1 => LivesNext(stack'[n].dir, stack'[n].obj, stack'[n - 1].dir, stack'[n - 1].obj)
               /\ entry' # None => LivesNext(entry'.path, entry'.obj, Top'.dir, Top'.obj)
    <2>1. stack # <<>> /\ step = "child" /\ entry = None
      BY <1>0, <1>1, <1>9 DEF StattedSome, WalkInv, PlaceInv, InWork
    <2>2. Top.left \ {p} \in SUBSET Paths /\ Top.names \in SUBSET Paths
          /\ Top = stack[Len(stack)] /\ Len(stack) \in DOMAIN stack
      BY <1>0, <2>1, TopIs
    <2>3. Restacked(Top.names, Top.left \ {p})
      BY <1>0, <1>9, <2>1, <2>2, RestackedBy DEF StattedSome
    <2>4. DOMAIN stack' = DOMAIN stack /\ \A n \in DOMAIN stack : stack'[n].dir = stack[n].dir /\ stack'[n].obj = stack[n].obj
      BY <2>2, <2>3 DEF Restacked
    <2>5. Top'.dir = Top.dir /\ Top'.obj = Top.obj
      BY <2>3 DEF Restacked
    <2>6. entry' # None => LivesNext(entry'.path, entry'.obj, Top'.dir, Top'.obj)
      <3> SUFFICES ASSUME entry' # None
                   PROVE  tree'[Top.dir] # None /\ tree'[Top.dir].born = Top.obj.born
        BY <2>5 DEF LivesNext
      <3>1. Found(p) # None
        BY <1>9, <2>1 DEF StattedSome
      <3> QED
        BY <1>9, <3>1 DEF Found, WalkFacts, Steady, site
    <2> QED
      BY <1>0, <1>2, <2>4, <2>6
  <1>10. CASE Refused \/ Finished \/ FileRowed \/ FileOpened \/ FileRead
    <2>1. stack' = stack /\ Top' = Top
      BY <1>10 DEF Refused, Finished, FileRowed, FileOpened, FileRead, Top
    <2>2. entry' = None \/ (entry'.path = entry.path /\ entry'.obj = entry.obj /\ entry # None)
      <3>1. CASE Refused \/ Finished
        BY <3>1 DEF Refused, Finished
      <3>2. CASE FileRowed \/ FileOpened \/ FileRead
        <4>1. InWork /\ entry'.path = entry.path /\ entry'.obj = entry.obj
          BY <3>2 DEF FileRowed, FileOpened, FileRead, InWork
        <4> QED
          BY <1>0, <4>1 DEF WalkInv, PlaceInv
      <3> QED
        BY <1>10, <3>1, <3>2
    <2> QED
      BY <1>2, <1>3, <2>1, <2>2
  <1>11. CASE Entered
    <2>1. InWork /\ entry # None /\ stack # <<>>
      BY <1>0, <1>1, <1>11 DEF Entered, InWork, WalkInv, PlaceInv
    <2>2. entry.path \in Paths /\ entry.obj \in Objects /\ entry' = None /\ Top = stack[Len(stack)] /\ Len(stack) \in DOMAIN stack
      BY <1>0, <1>11, <2>1, EntryIs, TopIs DEF Entered
    <2>3. Stacked(entry.path, entry.obj)
      BY <1>0, <1>11, <2>2, StackedBy DEF Entered
    <2>4. ASSUME NEW n \in DOMAIN stack', n > 1
          PROVE  LivesNext(stack'[n].dir, stack'[n].obj, stack'[n - 1].dir, stack'[n - 1].obj)
      <3>1. n - 1 \in DOMAIN stack /\ stack'[n - 1] = stack[n - 1]
        BY <1>0, <2>3, <2>4 DEF Stacked
      <3>2. CASE n \in DOMAIN stack
        <4>1. stack'[n] = stack[n]
          BY <2>3, <3>2 DEF Stacked
        <4> QED
          BY <1>2, <2>4, <3>1, <3>2, <4>1
      <3>3. CASE n \notin DOMAIN stack
        <4>1. n = Len(stack) + 1 /\ n - 1 = Len(stack)
          BY <1>0, <2>3, <2>4, <3>3 DEF Stacked
        <4>2. stack'[n].dir = entry.path /\ stack'[n].obj = entry.obj
          BY <2>3, <4>1 DEF Stacked
        <4> QED
          BY <1>3, <2>1, <2>2, <3>1, <4>1, <4>2
      <3> QED
        BY <3>2, <3>3
    <2> QED
      BY <2>2, <2>4
  <1>12. CASE PassEnded
    <2>1. DOMAIN stack' = {} /\ entry' = None
      BY <1>0, <1>12 DEF PassEnded, WalkInv, PlaceInv, InWork
    <2> QED
      BY <2>1
  <1> QED
    BY <1>5, <1>6, <1>7, <1>8, <1>9, <1>10, <1>11, <1>12 DEF WalkFacts, Statted

\* A row is added at the end of its pass, or none is.
RowsGrow ==
    \/ rows' = rows /\ step # "root"
    \/ \E p, o, h : AddRow(p, o, h) /\ (step = "root" => p = Root)

LEMMA RowsGrown ==
    ASSUME Walk
    PROVE  RowsGrow
  <1>1. CASE OpenRoot
    BY <1>1 DEF OpenRoot, RowsGrow
  <1>2. CASE List \/ StatChild \/ Final \/ Relist \/ EndPass
    BY <1>2 DEF List, StatChild, Final, Relist, EndPass, RowsGrow
  <1>3. CASE OpenDirectory
    BY <1>3 DEF OpenDirectory, Refuse, RowsGrow
  <1>4. CASE OpenFile
    BY <1>4 DEF OpenFile, Unhashed, RowsGrow
  <1>5. CASE Read
    BY <1>5 DEF Read, Unhashed, RowsGrow
  <1>6. CASE EndHash
    BY <1>6 DEF EndHash, Hashed, Unhashed, RowsGrow
  <1> QED
    BY <1>1, <1>2, <1>3, <1>4, <1>5, <1>6 DEF Walk

LEMMA AppendedFirst ==
    ASSUME NEW S, NEW s \in Seq(S), NEW e
    PROVE  Append(s, e) # <<>> /\ Append(s, e)[1] = IF s = <<>> THEN e ELSE s[1]
  <1> DEFINE T == S \cup {e}
  <1>1. s \in Seq(T) /\ e \in T
    OBVIOUS
  <1> HIDE DEF T
  <1>2. /\ Append(s, e) \in Seq(T) /\ Append(s, e) # <<>> /\ Len(Append(s, e)) = Len(s) + 1
        /\ \A i \in 1 .. Len(s) : Append(s, e)[i] = s[i]
        /\ Append(s, e)[Len(s) + 1] = e
    BY <1>1, AppendProperties
  <1>3. CASE s = <<>>
    <2>1. Len(s) + 1 = 1
      BY <1>3
    <2> QED
      BY <1>2, <1>3, <2>1
  <1>4. CASE s # <<>>
    <2>1. 1 \in 1 .. Len(s)
      BY <1>1, <1>4
    <2> QED
      BY <1>2, <1>4, <2>1
  <1> QED
    BY <1>3, <1>4

LEMMA RootStep ==
    ASSUME TypeInv, RootInv, SiteFacts \/ (Walk /\ WalkFacts)
    PROVE  RootInv'
  <1>1. CASE SiteFacts
    BY <1>1 DEF SiteFacts, helper, RootInv
  <1>2. CASE Walk /\ WalkFacts
    <2>1. pass' = pass \/ step' = "root"
      BY <1>2, SamePass DEF PassEnded
    <2>2. rows \in [1 .. 2 -> Seq(Rows)] /\ pass \in 1 .. 2
      BY DEF TypeInv
    <2>3. CASE rows' = rows /\ step # "root"
      BY <2>1, <2>3 DEF RootInv
    <2>4. ASSUME NEW p, NEW o, NEW h, AddRow(p, o, h), step = "root" => p = Root
          PROVE  RootInv'
      <3> DEFINE r == [path |-> p, obj |-> Stat(o), hash |-> h]
      <3>1. r.path = p
        OBVIOUS
      <3>2. rows' = [rows EXCEPT ![pass] = Append(@, r)]
        BY <2>4 DEF AddRow
      <3> HIDE DEF r
      <3>3. rows'[pass] = Append(rows[pass], r) /\ \A k \in 1 .. 2 : k # pass => rows'[k] = rows[k]
        BY <2>2, <3>2
      <3>4. rows[pass] \in Seq(Rows)
        BY <2>2
      <3>5. rows'[pass] # <<>> /\ rows'[pass][1] = IF rows[pass] = <<>> THEN r ELSE rows[pass][1]
        <4>1. Append(rows[pass], r) # <<>>
              /\ Append(rows[pass], r)[1] = IF rows[pass] = <<>> THEN r ELSE rows[pass][1]
          BY <3>4, AppendedFirst
        <4>2. rows'[pass] = Append(rows[pass], r)
          BY <3>3
        <4> QED
          BY ONLY <4>1, <4>2
      <3>6. rows'[pass][1].path = Root
        BY <2>2, <2>4, <3>1, <3>5 DEF RootInv
      <3> QED
        BY <2>1, <3>3, <3>5, <3>6 DEF RootInv
    <2> QED
      BY <1>2, <2>3, <2>4, RowsGrown DEF RowsGrow
  <1> QED
    BY <1>1, <1>2

-----------------------------------------------------------------------------
(* What the issues tell.                                                   *)

\* What a new issue of a race tells.
RaceTold(j) ==
    \/ Finished /\ j.path = entry.path /\ ~AsOpened
    \/ /\ Left /\ step = "child" /\ j.path = Top.dir
       /\ ~Gone(Top.obj, Top.dir) /\ There(Top.dir) # Top.names
    \/ PassEnded /\ j.path = Root /\ RootRow # Stat(tree[Root])

RaceTells(J) ==
    /\ NewIssues(J)
    /\ \A j \in J : /\ IsRefusal(j) => Refused /\ j.path = entry.path
                    /\ IsRace(j) => RaceTold(j)

LEMMA RaceTellsNone ==
    ASSUME NewIssues({})
    PROVE  RaceTells({})
  BY DEF RaceTells

LEMMA RaceTellsOne ==
    ASSUME NEW r, NEW p, NEW d, NewIssues({Issue(r, p, d)}),
           IsRefusal(Issue(r, p, d)) => Refused /\ p = entry.path,
           IsRace(Issue(r, p, d)) => RaceTold(Issue(r, p, d))
    PROVE  \E J : RaceTells(J)
  <1>1. Issue(r, p, d).path = p
    BY IssueAt
  <1>2. RaceTells({Issue(r, p, d)})
    BY <1>1 DEF RaceTells
  <1> QED
    BY <1>2

LEMMA IssuesAfter ==
    ASSUME TypeInv, WalkFacts
    PROVE  \E J : RaceTells(J)
  <1>1. CASE NewIssues({})
    BY <1>1, RaceTellsNone
  <1>2. CASE RootOpened \/ Listed \/ Entered \/ FileOpened \/ FileRead
    BY <1>1, <1>2 DEF RootOpened, Listed, Entered, FileOpened, FileRead
  <1>3. CASE Left
    <2>1. CASE NewIssues({Issue("DIRECTORY_READ_UNRESOLVED", Top.dir, "getdents")})
      <3> DEFINE j == Issue("DIRECTORY_READ_UNRESOLVED", Top.dir, "getdents")
      <3>1. j.reason = "DIRECTORY_READ_UNRESOLVED" /\ j.detail = "getdents"
        BY IssueAt
      <3>2. ~IsRefusal(j) /\ ~IsRace(j)
        <4> HIDE DEF j
        <4> QED
          BY <3>1 DEF IsRefusal, IsRace
      <3> QED
        BY <2>1, <3>2, RaceTellsOne
    <2>2. CASE /\ step = "child" /\ ~Gone(Top.obj, Top.dir) /\ There(Top.dir) # Top.names
               /\ NewIssues({Issue("DIRECTORY_IDENTITY_RACE", Top.dir, "changed")})
      <3> DEFINE j == Issue("DIRECTORY_IDENTITY_RACE", Top.dir, "changed")
      <3>1. j.reason = "DIRECTORY_IDENTITY_RACE" /\ j.detail = "changed" /\ j.path = Top.dir
        BY IssueAt
      <3>2. ~IsRefusal(j) /\ RaceTold(j)
        <4> HIDE DEF j
        <4> QED
          BY <1>3, <2>2, <3>1 DEF IsRefusal, RaceTold
      <3> QED
        BY <2>2, <3>2, RaceTellsOne
    <2> QED
      BY <1>1, <1>3, <2>1, <2>2 DEF Left
  <1>4. CASE Statted
    <2>1. PICK p \in Top.left : StattedSome(p)
      BY <1>4 DEF Statted
    <2>2. CASE NewIssues({Issue("ENTRY_STAT_UNRESOLVED", p, "stat")})
      <3> DEFINE j == Issue("ENTRY_STAT_UNRESOLVED", p, "stat")
      <3>1. j.reason = "ENTRY_STAT_UNRESOLVED" /\ j.detail = "stat"
        BY IssueAt
      <3>2. ~IsRefusal(j) /\ ~IsRace(j)
        <4> HIDE DEF j
        <4> QED
          BY <3>1 DEF IsRefusal, IsRace
      <3> QED
        BY <2>2, <3>2, RaceTellsOne
    <2> QED
      BY <1>1, <2>1, <2>2 DEF StattedSome
  <1>5. CASE Refused
    <2>1. ASSUME NEW r \in {"DIRECTORY_OPEN_UNRESOLVED", "DIRECTORY_IDENTITY_RACE"},
                 NewIssues({Issue(r, entry.path, "open")})
          PROVE  \E J : RaceTells(J)
      <3> DEFINE j == Issue(r, entry.path, "open")
      <3>1. j.reason = r /\ j.detail = "open"
        BY IssueAt
      <3>2. ~IsRace(j)
        <4> HIDE DEF j
        <4> QED
          BY <2>1, <3>1 DEF IsRace
      <3> QED
        BY <1>5, <2>1, <3>2, RaceTellsOne
    <2> QED
      BY <1>5, <2>1 DEF Refused
  <1>6. CASE FileRowed
    <2>1. PICK h \in Nat \cup {None}, J \in SUBSET IssueRecords :
            NewIssues(J) /\ \A j \in J : j.reason \in FileReasons
      BY <1>6 DEF FileRowed
    <2>2. \A j \in J : ~IsRace(j) /\ ~IsRefusal(j)
      BY <2>1 DEF FileReasons, IsRace, IsRefusal
    <2> QED
      BY <2>1, <2>2 DEF RaceTells
  <1>7. CASE Finished
    <2>1. ASSUME NEW r, NEW d, NewIssues({Issue(r, entry.path, d)}), d # "open", ~AsOpened
          PROVE  \E J : RaceTells(J)
      <3> DEFINE j == Issue(r, entry.path, d)
      <3>1. j.reason = r /\ j.detail = d /\ j.path = entry.path
        BY IssueAt
      <3>2. ~IsRefusal(j) /\ RaceTold(j)
        <4> HIDE DEF j
        <4> QED
          BY <1>7, <2>1, <3>1 DEF IsRefusal, RaceTold
      <3> QED
        BY <2>1, <3>2, RaceTellsOne
    <2> QED
      BY <1>1, <1>7, <2>1 DEF Finished, AsOpened
  <1>8. CASE PassEnded
    <2>1. CASE /\ RootRow # Stat(tree[Root])
               /\ NewIssues({Issue("ROOT_IDENTITY_RACE", Root, "changed")})
      <3> DEFINE j == Issue("ROOT_IDENTITY_RACE", Root, "changed")
      <3>1. j.detail = "changed" /\ j.path = Root
        BY IssueAt
      <3>2. ~IsRefusal(j) /\ RaceTold(j)
        <4> HIDE DEF j
        <4> QED
          BY <1>8, <2>1, <3>1 DEF IsRefusal, RaceTold
      <3> QED
        BY <2>1, <3>2, RaceTellsOne
    <2> QED
      BY <1>1, <1>8, <2>1 DEF PassEnded
  <1> QED
    BY <1>2, <1>3, <1>4, <1>5, <1>6, <1>7, <1>8 DEF WalkFacts

RacedThen(k, p) == \E j \in ToSet(issues'[k]) : j.path = p /\ IsRace(j)
RefusedThen(k, p) == \E j \in ToSet(issues'[k]) : j.path = p /\ IsRefusal(j)
RowedThen(k, p) == \E r \in ToSet(rows'[k]) : r.path = p

LEMMA AddedIssue ==
    ASSUME TypeInv, NEW r, NEW p, NEW d, NewIssues({Issue(r, p, d)})
    PROVE  \E j \in ToSet(issues'[pass]) : j.path = p /\ j.reason = r /\ j.detail = d
  <1>1. Issue(r, p, d).path = p /\ Issue(r, p, d).reason = r /\ Issue(r, p, d).detail = d
    BY IssueAt
  <1>2. Issue(r, p, d) \in ToSet(issues'[pass])
    BY DEF NewIssues, TypeInv
  <1> QED
    BY <1>1, <1>2

LEMMA FinishRaces ==
    ASSUME TypeInv, Finished, ~AsOpened
    PROVE  RacedThen(pass, entry.path)
  <1>1. \/ NewIssues({Issue("ENTRY_FINAL_RACE", entry.path, "stat")})
        \/ NewIssues({Issue("ENTRY_IDENTITY_RACE", entry.path, "changed")})
    BY DEF Finished, AsOpened
  <1> QED
    BY <1>1, AddedIssue DEF RacedThen, IsRace

LEMMA ListRaces ==
    ASSUME TypeInv, NewIssues({Issue("DIRECTORY_IDENTITY_RACE", Top.dir, "changed")})
    PROVE  RacedThen(pass, Top.dir)
  BY AddedIssue DEF RacedThen, IsRace

LEMMA RootRaces ==
    ASSUME TypeInv, PassEnded, RootRow # Stat(tree[Root])
    PROVE  RacedThen(pass, Root)
  <1>1. NewIssues({Issue("ROOT_IDENTITY_RACE", Root, "changed")})
    BY DEF PassEnded
  <1> QED
    BY <1>1, AddedIssue DEF RacedThen, IsRace

LEMMA RefuseRefuses ==
    ASSUME TypeInv, Refused
    PROVE  RefusedThen(pass, entry.path)
  <1>1. \/ NewIssues({Issue("DIRECTORY_OPEN_UNRESOLVED", entry.path, "open")})
        \/ NewIssues({Issue("DIRECTORY_IDENTITY_RACE", entry.path, "open")})
    BY DEF Refused
  <1> QED
    BY <1>1, AddedIssue DEF RefusedThen, IsRefusal

\* Nothing that was found is lost.
LEMMA FoundKept ==
    ASSUME TypeInv, SiteFacts \/ WalkFacts, NEW k \in 1 .. 2
    PROVE  /\ I(k) \subseteq ToSet(issues'[k]) /\ R(k) \subseteq ToSet(rows'[k])
           /\ k # pass => ToSet(issues'[k]) = I(k) /\ ToSet(rows'[k]) = R(k)
           /\ failures' = 0 => failures = 0
  <1>1. CASE SiteFacts
    BY <1>1 DEF SiteFacts, helper, I, R
  <1>2. CASE WalkFacts
    <2>1. /\ \E S : NewRows(S)
          /\ \E J : NewIssues(J)
      BY <1>2, SamePass
    <2>2. /\ I(k) \subseteq ToSet(issues'[k]) /\ R(k) \subseteq ToSet(rows'[k])
          /\ k # pass => ToSet(issues'[k]) = I(k) /\ ToSet(rows'[k]) = R(k)
      BY <2>1 DEF NewRows, NewIssues
    <2>3. failures' = failures \/ failures' = failures + 1
      BY <1>2 DEF WalkFacts, RootOpened, Listed, Left, Statted, StattedSome, Refused, Entered,
                  FileRowed, FileOpened, FileRead, Finished, PassEnded
    <2> QED
      BY <2>2, <2>3 DEF TypeInv
  <1> QED
    BY <1>1, <1>2

\* A row comes of what is in work: the root, or the entry.
LEMMA RowsOf ==
    ASSUME TypeInv, TreeInv, WalkInv, FreshInv, SeenInv, WalkFacts, NEW k \in 1 .. 2, NEW r \in ToSet(rows'[k])
    PROVE  \/ r \in R(k)
           \/ /\ k = pass /\ pass' = pass /\ ~Rowed(pass, r.path)
              /\ \E o \in Objects, h \in Nat \cup {None} :
                    /\ r = RowFor(r.path, o, h) /\ r.obj = Stat(o) /\ r.hash = h
                    /\ HandledNext(r.path, o) /\ Why(r.path, o, h) /\ r.path \in Paths
  <1>1. CASE NewRows({})
    BY <1>1 DEF NewRows
  <1>2. ASSUME pass' = pass, NEW p \in Paths, NEW o \in Objects, NEW h \in Nat \cup {None},
               NewRows({RowFor(p, o, h)}), HandledNext(p, o), ~Rowed(pass, p), Why(p, o, h), r \notin R(k)
        PROVE  /\ k = pass /\ ~Rowed(pass, r.path)
               /\ r = RowFor(r.path, o, h) /\ r.obj = Stat(o) /\ r.hash = h
               /\ HandledNext(r.path, o) /\ Why(r.path, o, h) /\ r.path \in Paths
    <2>1. k = pass /\ r = RowFor(p, o, h)
      BY <1>2 DEF NewRows
    <2>2. RowFor(p, o, h).path = p /\ RowFor(p, o, h).obj = Stat(o) /\ RowFor(p, o, h).hash = h
      BY RowForIs
    <2> QED
      BY <1>2, <2>1, <2>2
  <1> QED
    BY <1>1, <1>2, RowsAfter DEF RowsBy

\* A path that gets a row has none, and no issue.
LEMMA RowsAtFresh ==
    ASSUME TypeInv, WalkInv, FreshInv, HandledInv, NEW p \in Paths, NEW o, NEW h, Why(p, o, h), ~Rowed(pass, p)
    PROVE  ~Issued(pass, p) /\ (step # "root" => step \in {"open", "read", "hashed"})
  <1>1. CASE step = "root"
    BY <1>1 DEF FreshInv, Untouched
  <1>2. CASE step # "root"
    <2>1. p = entry.path /\ entry # None
      BY <1>2 DEF Why
    <2>2. InWork
      BY <2>1 DEF WalkInv, PlaceInv
    <2>3. step # "final"
      BY <2>1 DEF HandledInv, RowOf, Rowed
    <2> QED
      BY <2>1, <2>2, <2>3 DEF FreshInv, InWork
  <1> QED
    BY <1>1, <1>2

LEMMA RefusedStep ==
    ASSUME IInv, RefusedInv, SiteFacts \/ WalkFacts
    PROVE  RefusedInv'
  <1>0. /\ TypeInv /\ TreeInv /\ WalkInv /\ FreshInv /\ SeenInv /\ HandledInv /\ pass \in 1 .. 2
    BY DEF IInv, SeenInv, TypeInv
  <1> SUFFICES ASSUME NEW k \in 1 .. 2, NEW p \in Paths, NEW j \in ToSet(issues'[k]), j.path = p, IsRefusal(j),
                      NEW r \in ToSet(rows'[k]), r.path = p
               PROVE  FALSE
    BY DEF RefusedInv, RefusedAt, Rowed, I, R
  <1>1. CASE j \in I(k) /\ r \in R(k)
    BY <1>1 DEF RefusedInv, RefusedAt, Rowed
  <1>2. CASE SiteFacts
    BY <1>1, <1>2 DEF SiteFacts, helper, I, R
  <1>3. CASE WalkFacts /\ j \notin I(k)
    <2>1. PICK J : RaceTells(J)
      BY <1>0, <1>3, IssuesAfter
    <2>2. k = pass /\ j \in J
      BY <1>0, <1>3, <2>1 DEF RaceTells, NewIssues
    <2>3. Refused /\ p = entry.path
      BY <2>1, <2>2 DEF RaceTells
    <2>4. r \in R(pass) /\ step = "open"
      BY <1>0, <2>2, <2>3 DEF Refused, NewRows
    <2> QED
      BY <1>0, <2>3, <2>4 DEF FreshInv, Rowed
  <1>4. CASE WalkFacts /\ j \in I(k) /\ r \notin R(k)
    <2>1. /\ k = pass /\ ~Rowed(pass, p)
          /\ \E o, h : Why(p, o, h)
      BY <1>0, <1>4, RowsOf
    <2>2. ~Issued(pass, p)
      BY <1>0, <2>1, RowsAtFresh
    <2> QED
      BY <1>4, <2>1, <2>2 DEF Issued
  <1> QED
    BY <1>1, <1>2, <1>3, <1>4

-----------------------------------------------------------------------------
(* What is looked at.                                                      *)

Relisted ==
    /\ Left /\ step = "child" /\ ~Gone(Top.obj, Top.dir) /\ UNCHANGED failures
    /\ NewIssues(IF There(Top.dir) # Top.names
                 THEN {Issue("DIRECTORY_IDENTITY_RACE", Top.dir, "changed")} ELSE {})
    /\ Looks(Below(Top.dir) \ Top.names, tree)

AnotherFound ==
    Refused /\ UNCHANGED failures /\ ~(IsDirectory(Found(entry.path)) /\ SameStat(tree[entry.path], entry.obj))

\* What is seen of a path, and by which step.
Sight(p, v) ==
    \/ RootOpened /\ p = Root /\ v = tree[Root]
    \/ Listed /\ p \in Below(Top.dir) \ There(Top.dir) /\ v = None
    \/ Relisted /\ p \in Below(Top.dir) \ Top.names /\ v = tree[p]
    \/ p \in Top.left /\ StatSeen(p) /\ v = Found(p)
    \/ AnotherFound /\ p = entry.path /\ v = Found(p)
    \/ Finished /\ p = entry.path /\ v = Found(p)
    \/ PassEnded /\ p = Root /\ v = tree[Root]

LEMMA LooksAtFound ==
    ASSUME TypeInv, NEW q \in Paths, LooksAt(q)
    PROVE  \A k \in 1 .. 2 : \A p \in Paths :
                seen'[k][p] = IF k = pass /\ p = q /\ (pass = 2 \/ seen[k][p] = Unseen)
                              THEN Found(p) ELSE seen[k][p]
  <1>1. CASE Found(q) = None
    BY <1>1 DEF LooksAt, Looks, Nothing
  <1>2. CASE Found(q) # None
    <2>1. Found(q) = tree[q]
      BY <1>2, FoundIs
    <2> QED
      BY <1>2, <2>1 DEF LooksAt, Looks
  <1> QED
    BY <1>1, <1>2

LEMMA SightIs ==
    ASSUME TypeInv, WalkInv, WalkFacts, NEW k \in 1 .. 2, NEW p \in Paths
    PROVE  \/ seen'[k][p] = seen[k][p]
           \/ k = pass /\ (pass = 2 \/ seen[k][p] = Unseen) /\ Sight(p, seen'[k][p])
  <1>1. CASE Looks({}, tree)
    BY <1>1 DEF Looks
  <1>2. CASE Entered \/ FileRowed \/ FileOpened \/ FileRead
    BY <1>1, <1>2 DEF Entered, FileRowed, FileOpened, FileRead
  <1>3. CASE RootOpened
    <2>1. Looks({Root}, tree)
      BY <1>3 DEF RootOpened
    <2> QED
      BY <1>3, <2>1 DEF Looks, Sight
  <1>4. CASE Listed
    <2>1. Looks(Below(Top.dir) \ There(Top.dir), tree)
      BY <1>4 DEF Listed
    <2>2. \A q \in Below(Top.dir) \ There(Top.dir) : tree[q] = None
      BY DEF There
    <2> QED
      BY <1>4, <2>1, <2>2 DEF Looks, Sight
  <1>5. CASE Left
    <2>1. Looks({}, tree) \/ Relisted
      BY <1>5 DEF Left, Relisted
    <2>2. CASE Relisted
      <3>1. Looks(Below(Top.dir) \ Top.names, tree)
        BY <2>2 DEF Relisted
      <3> QED
        BY <2>2, <3>1 DEF Looks, Sight
    <2> QED
      BY <1>1, <2>1, <2>2
  <1>6. CASE Statted
    <2>1. PICK q \in Top.left : StattedSome(q)
      BY <1>6 DEF Statted
    <2>2. q \in Paths
      <3>1. stack # <<>>
        BY <2>1 DEF StattedSome, WalkInv, PlaceInv
      <3> QED
        BY <2>1, <3>1, TopIs DEF StattedSome
    <2>3. Looks({}, tree) \/ StatSeen(q)
      BY <2>1 DEF StattedSome, StatSeen
    <2>4. CASE StatSeen(q)
      BY <2>1, <2>2, <2>4, LooksAtFound DEF Sight, StatSeen
    <2> QED
      BY <1>1, <2>3, <2>4
  <1>7. CASE Refused
    <2>1. Looks({}, tree) \/ (AnotherFound /\ LooksAt(entry.path))
      BY <1>7 DEF Refused, AnotherFound
    <2>2. entry.path \in Paths
      BY <1>7, EntryIs DEF Refused, InWork
    <2>3. CASE AnotherFound /\ LooksAt(entry.path)
      BY <2>2, <2>3, LooksAtFound DEF Sight
    <2> QED
      BY <1>1, <2>1, <2>3
  <1>8. CASE Finished
    <2>1. LooksAt(entry.path) /\ entry.path \in Paths
      BY <1>8, EntryIs DEF Finished, InWork
    <2> QED
      BY <1>8, <2>1, LooksAtFound DEF Sight
  <1>9. CASE PassEnded
    <2>1. Looks({Root}, tree)
      BY <1>9 DEF PassEnded
    <2> QED
      BY <1>9, <2>1 DEF Looks, Sight
  <1> QED
    BY <1>2, <1>3, <1>4, <1>5, <1>6, <1>7, <1>8, <1>9 DEF WalkFacts

LEMMA SecondLook ==
    ASSUME TypeInv, WalkInv, WalkFacts, NEW p \in Paths
    PROVE  seen'[2][p] = seen[2][p] \/ (pass = 2 /\ seen'[2][p] \in {tree[p], None})
  <1>1. \A v : Sight(p, v) => v \in {tree[p], None}
    <2>1. Found(p) \in {tree[p], None}
      BY FoundIs
    <2> QED
      BY <2>1 DEF Sight
  <1> QED
    BY <1>1, SightIs

LEMMA PastKept ==
    ASSUME TypeInv, TreeInv, WalkInv, SawInv, SiteFacts \/ WalkFacts, NEW p \in Paths, Past(p)
    PROVE  Past(p)'
  <1>1. seen[1][p] \in Objects /\ seen[1][p] # None /\ seen[1][p] # Unseen /\ Known(p, seen[1][p])
    BY DEF Past, Saw, SawInv, TypeInv
  <1>2. CASE SiteFacts
    <2>1. UNCHANGED helper /\ tree'[p] # seen[1][p]
      BY <1>1, <1>2, NeverBack DEF SiteFacts, Past
    <2> QED
      BY <2>1 DEF Past, Saw, helper
  <1>3. CASE WalkFacts
    <2>1. seen'[1][p] = seen[1][p] /\ tree' = tree
      BY <1>1, <1>3, SeenBy DEF SeenFacts, WalkFacts, Steady, site
    <2>2. seen'[2][p] # seen[1][p]
      BY <1>1, <1>3, SecondLook DEF Past
    <2>3. pass' = 2 /\ step' # "root" => between'[p] # seen[1][p]
      <3> SUFFICES ASSUME pass' = 2, step' # "root" PROVE between'[p] # seen[1][p]
        OBVIOUS
      <3>1. pass = 2
        BY <1>3, SamePass DEF PassEnded
      <3>2. CASE step = "root"
        <4>1. RootOpened
          BY <1>3, <3>2 DEF WalkFacts, RootOpened, Listed, Left, Statted, StattedSome, Refused, Entered, FileRowed,
                 FileOpened, FileRead, Finished, PassEnded
        <4> QED
          BY <3>1, <4>1 DEF RootOpened, Past
      <3>3. CASE step # "root"
        BY <1>3, <3>1, <3>3, BetweenStays DEF Past
      <3> QED
        BY <3>2, <3>3
    <2> QED
      BY <2>1, <2>2, <2>3 DEF Past, Saw
  <1> QED
    BY <1>2, <1>3

\* In the first pass, what was seen and has changed is past.
LEMMA PastInFirst ==
    ASSUME SecondInv, pass = 1, NEW p \in Paths, Saw(p), tree[p] # seen[1][p]
    PROVE  Past(p)
  BY DEF Past, Saw, SecondInv

-----------------------------------------------------------------------------
(* What the first pass saw.                                                *)

\* Of the directory in work, and of the object in work.
LEMMA TopFacts ==
    ASSUME IInv, stack # <<>>
    PROVE  /\ Len(stack) \in DOMAIN stack /\ Top = stack[Len(stack)] /\ Top.dir \in Paths /\ Top.obj \in Objects
           /\ Handled(Top.dir, Top.obj) /\ Rowed(pass, Top.dir)
           /\ Top.left \subseteq Top.names /\ Top.names \subseteq Below(Top.dir)
           /\ \A p \in Below(Top.dir) : p \in Paths \ {Root} /\ Parent[p] = Top.dir
           /\ tree[Top.dir] = Top.obj => ~Gone(Top.obj, Top.dir)
  <1>0. TypeInv /\ StackInv /\ HandledInv
    BY DEF IInv, WalkInv, SeenInv
  <1>1. Len(stack) \in DOMAIN stack /\ Top = stack[Len(stack)] /\ Top.dir \in Paths /\ Top.obj \in Objects
    BY <1>0, TopIs
  <1>2. Handled(Top.dir, Top.obj) /\ Rowed(pass, Top.dir)
    BY <1>0, <1>1 DEF HandledInv, RowOf, Rowed
  <1>3. Top.left \subseteq Top.names /\ Top.names \subseteq Below(Top.dir)
    BY <1>0, <1>1 DEF StackInv
  <1>4. tree[Top.dir] = Top.obj => ~Gone(Top.obj, Top.dir)
    BY <1>1, Somethings DEF Gone
  <1> QED
    BY <1>1, <1>2, <1>3, <1>4, PathFacts

LEMMA EntryFacts ==
    ASSUME IInv, LiveInv, entry # None
    PROVE  /\ InWork /\ stack # <<>> /\ entry.path \in Paths \ {Root} /\ entry.obj \in Objects
           /\ entry.path \in Below(Top.dir) /\ Parent[entry.path] = Top.dir
           /\ Handled(entry.path, entry.obj)
           /\ step = "final" => Rowed(pass, entry.path)
           /\ tree[entry.path] = entry.obj => Found(entry.path) = entry.obj
  <1>0. TypeInv /\ WalkInv /\ HandledInv
    BY DEF IInv, SeenInv
  <1>1. InWork /\ stack # <<>>
    BY <1>0 DEF WalkInv, PlaceInv, InWork
  <1>2. entry.path \in Paths /\ entry.obj \in Objects
    BY <1>0, <1>1, EntryIs
  <1>3. entry.path \in Below(Top.dir)
    BY <1>0, <1>1, TopFacts DEF WalkInv, EntryInv
  <1>4. entry.path \in Paths \ {Root} /\ Parent[entry.path] = Top.dir
    BY <1>1, <1>3, TopFacts
  <1>5. tree[entry.path] = entry.obj => Found(entry.path) = entry.obj
    BY <1>0, <1>2, FoundIs DEF LiveInv
  <1> QED
    BY <1>0, <1>1, <1>2, <1>3, <1>4, <1>5 DEF HandledInv, RowOf, Rowed

\* A race of the first pass is about something that had changed.
LEMMA RaceIsPast ==
    ASSUME IInv, FrameInv, pass = 1, NEW j, RaceTold(j)
    PROVE  j.path \in Paths /\ Past(j.path)
  <1>0. SecondInv
    BY DEF IInv
  <1>1. CASE Finished /\ j.path = entry.path /\ ~AsOpened
    <2>1. entry # None
      BY <1>1 DEF IInv, WalkInv, PlaceInv, InWork, Finished
    <2>2. /\ entry.path \in Paths /\ entry.obj \in Objects /\ Handled(entry.path, entry.obj)
          /\ tree[entry.path] = entry.obj => Found(entry.path) = entry.obj
      BY <2>1, EntryFacts DEF FrameInv
    <2>3. seen[1][entry.path] = entry.obj /\ Saw(entry.path)
      BY <2>2, Somethings DEF Handled, Saw
    <2>4. tree[entry.path] # entry.obj
      BY <1>1, <2>2, Somethings DEF AsOpened, SameStat
    <2> QED
      BY <1>0, <1>1, <2>2, <2>3, <2>4, PastInFirst
  <1>2. CASE Left /\ step = "child" /\ j.path = Top.dir /\ There(Top.dir) # Top.names
    <2>1. stack # <<>>
      BY <1>2 DEF IInv, WalkInv, PlaceInv
    <2>2. /\ Len(stack) \in DOMAIN stack /\ Top = stack[Len(stack)]
          /\ Top.dir \in Paths /\ Top.obj \in Objects /\ Handled(Top.dir, Top.obj)
      BY <2>1, TopFacts
    <2>3. seen[1][Top.dir] = Top.obj /\ Saw(Top.dir)
      BY <2>2, Somethings DEF Handled, Saw
    <2>4. tree[Top.dir] # Top.obj
      BY <1>2, <2>2 DEF FrameInv, NamesInv, HasNames, Named
    <2> QED
      BY <1>0, <1>2, <2>2, <2>3, <2>4, PastInFirst
  <1>3. CASE PassEnded /\ j.path = Root /\ RootRow # Stat(tree[Root])
    <2>1. rows[1] # <<>> /\ rows[1][1].path = Root /\ rows[1] \in Seq(Rows)
      BY <1>3 DEF FrameInv, RootInv, PassEnded, IInv, TypeInv
    <2>2. rows[1][1] \in R(1)
      <3>1. 1 \in DOMAIN rows[1]
        BY <2>1
      <3> QED
        BY <3>1 DEF R, ToSet
    <2>3. Saw(Root) /\ rows[1][1].obj = Stat(seen[1][Root])
      BY <2>1, <2>2 DEF IInv, SeenInv, RowInv
    <2>4. tree[Root] # seen[1][Root] /\ Root \in Paths
      BY <1>3, <2>3, PathFacts DEF RootRow
    <2> QED
      BY <1>0, <1>3, <2>3, <2>4, PastInFirst
  <1> QED
    BY <1>1, <1>2, <1>3 DEF RaceTold

\* How the first pass comes to see something for the first time.
LEMMA FirstSight ==
    ASSUME IInv, FrameInv, pass = 1, NEW p \in Paths, seen[1][p] = Unseen, NEW v, Sight(p, v)
    PROVE  \/ RootOpened /\ p = Root /\ v = tree[Root]
           \/ Listed /\ p \in Below(Top.dir) \ There(Top.dir) /\ v = None
           \/ p \in Top.left /\ StatSeen(p) /\ v = Found(p)
  <1>1. ~(AnotherFound /\ p = entry.path) /\ ~(Finished /\ p = entry.path)
    <2> SUFFICES ASSUME step \in {"open", "final"}, p = entry.path PROVE FALSE
      BY DEF AnotherFound, Refused, Finished
    <2>1. entry # None
      BY DEF IInv, WalkInv, PlaceInv, InWork
    <2>2. entry.obj \in Objects /\ Handled(entry.path, entry.obj)
      BY <2>1, EntryFacts DEF FrameInv
    <2> QED
      BY <2>2, Somethings DEF Handled
  <1>2. ~(Relisted /\ p \in Below(Top.dir) \ Top.names)
    <2> SUFFICES ASSUME step = "child", p \in Below(Top.dir) \ Top.names PROVE FALSE
      BY DEF Relisted
    <2>1. stack # <<>>
      BY DEF IInv, WalkInv, PlaceInv
    <2>2. Len(stack) \in DOMAIN stack /\ Top = stack[Len(stack)]
      BY <2>1, TopFacts
    <2> QED
      BY <2>2, Somethings DEF FrameInv, NamesInv, HasNames, Named
  <1>3. ~(PassEnded /\ p = Root)
    <2> SUFFICES ASSUME step = "rootEnd", p = Root PROVE FALSE
      BY DEF PassEnded
    <2>1. Saw(Root)
      BY DEF IInv, SeenInv, RowInv, Rowed
    <2> QED
      BY <2>1 DEF Saw
  <1> QED
    BY <1>1, <1>2, <1>3 DEF Sight

\* What was seen and is in work is past, or in a row, when the work ends.
LEMMA EntryLeft ==
    ASSUME IInv, FrameInv, WalkFacts, pass = 1, NEW p \in Paths, entry # None, entry.path = p
    PROVE  \/ RowedThen(1, p)
           \/ RefusedThen(1, p) /\ (failures' = 0 => Past(p)')
           \/ pass' = 1 /\ entry' # None /\ entry'.path = p
  <1>0. TypeInv /\ TreeInv /\ WalkInv /\ SawInv /\ SecondInv
    BY DEF IInv, SeenInv
  <1>1. /\ InWork /\ entry.obj \in Objects /\ Handled(entry.path, entry.obj)
        /\ step = "final" => Rowed(pass, entry.path)
        /\ tree[entry.path] = entry.obj => Found(entry.path) = entry.obj
    BY EntryFacts DEF FrameInv
  <1>2. Saw(p) /\ seen[1][p] = entry.obj
    BY <1>1, Somethings DEF Handled, Saw
  <1>3. CASE Refused
    <2>1. RefusedThen(1, p)
      BY <1>0, <1>3, RefuseRefuses
    <2>2. ASSUME failures' = 0
          PROVE  Past(p)'
      <3>1. failures' # failures + 1
        BY <1>0, <2>2 DEF TypeInv
      <3>2. ~(IsDirectory(Found(entry.path)) /\ SameStat(tree[entry.path], entry.obj)) /\ entry.obj.kind = "DIRECTORY"
        BY <1>3, <3>1 DEF Refused
      <3>3. tree[entry.path] # entry.obj
        BY <1>1, <3>2, Somethings DEF IsDirectory, SameStat
      <3> QED
        BY <1>0, <1>2, <3>3, PastInFirst, PastKept
    <2> QED
      BY <2>1, <2>2
  <1>4. CASE Entered \/ FileRowed
    <2>1. \E o, h : NewRows({RowFor(p, o, h)})
      BY <1>4 DEF Entered, FileRowed
    <2>2. PICK o, h : NewRows({RowFor(p, o, h)})
      BY <2>1
    <2>3. RowFor(p, o, h) \in ToSet(rows'[1]) /\ RowFor(p, o, h).path = p
      BY <2>2, RowForIs DEF NewRows
    <2> QED
      BY <2>3 DEF RowedThen
  <1>5. CASE FileOpened \/ FileRead
    <2>1. pass' = 1 /\ entry'.path = p /\ step' \in {"read", "hashed"}
      BY <1>5 DEF FileOpened, FileRead
    <2>2. PlaceInv'
      BY <1>0, PlaceStep
    <2> QED
      BY <2>1, <2>2 DEF PlaceInv, InWork
  <1>6. CASE Finished
    <2>1. Rowed(1, p)
      BY <1>1, <1>6 DEF Finished
    <2> QED
      BY <1>0, <2>1, FoundKept DEF Rowed, RowedThen
  <1>7. ~(RootOpened \/ Listed \/ Left \/ Statted \/ PassEnded)
    BY <1>1 DEF RootOpened, Listed, Left, Statted, StattedSome, PassEnded, InWork
  <1> QED
    BY <1>3, <1>4, <1>5, <1>6, <1>7 DEF WalkFacts

\* What is seen for the first time is the root, which gets a row, or in work.
LEMMA FirstSeen ==
    ASSUME IInv, FrameInv, WalkFacts, pass = 1, NEW p \in Paths, ~Saw(p), seen'[1][p] \notin {None, Unseen}
    PROVE  \/ RowedThen(1, p)
           \/ pass' = 1 /\ entry' # None /\ entry'.path = p
  <1>0. TypeInv /\ TreeInv /\ WalkInv
    BY DEF IInv
  <1>1. seen[1][p] = Unseen /\ Sight(p, seen'[1][p])
    BY <1>0, SightIs, SeenBy DEF Saw, SeenFacts
  <1>2. CASE RootOpened /\ p = Root
    <2>1. RowFor(p, tree[Root], None) \in ToSet(rows'[1]) /\ RowFor(p, tree[Root], None).path = p
      BY <1>2, RowForIs DEF RootOpened, NewRows
    <2> QED
      BY <2>1 DEF RowedThen
  <1>3. CASE StatSeen(p) /\ seen'[1][p] = Found(p)
    <2>1. Found(p) # None
      BY <1>3
    <2>2. entry' = [path |-> p, obj |-> tree[p], hash |-> None] /\ step' = "open" /\ pass' = 1
      BY <1>3, <2>1 DEF StatSeen, StattedSome
    <2>3. PlaceInv' /\ entry'.path = p
      BY <1>0, <2>2, PlaceStep
    <2> QED
      BY <2>2, <2>3 DEF PlaceInv, InWork
  <1> QED
    BY <1>1, <1>2, <1>3, FirstSight

\* Where nothing is seen, the directory is seen, and changes before something is there.
LEMMA NothingSeen ==
    ASSUME IInv, FrameInv, FirstInv, SiteFacts \/ WalkFacts, NEW p \in Paths \ {Root}, seen'[1][p] = None
    PROVE  /\ seen'[1][Parent[p]] \notin {None, Unseen}
           /\ tree'[p] # None => tree'[Parent[p]] # seen'[1][Parent[p]]
  <1>0. TypeInv /\ TreeInv /\ WalkInv /\ SawInv
    BY DEF IInv, SeenInv
  <1>1. Parent[p] \in Paths /\ p \in Paths
    BY PathFacts
  <1>2. CASE SiteFacts
    <2>1. seen' = seen
      BY <1>2 DEF SiteFacts, helper
    <2>2. Saw(Parent[p]) /\ (tree[p] # None => tree[Parent[p]] # seen[1][Parent[p]])
      BY <2>1 DEF FirstInv
    <2>3. seen[1][Parent[p]] \in Objects /\ Known(Parent[p], seen[1][Parent[p]])
      BY <1>0, <1>1, <2>2 DEF Saw, SawInv, TypeInv
    <2>4. ASSUME tree'[p] # None, tree'[Parent[p]] = seen[1][Parent[p]]
          PROVE  FALSE
      <3>1. tree[Parent[p]] = seen[1][Parent[p]]
        BY <1>0, <1>1, <1>2, <2>3, <2>4, NeverBack
      <3>2. tree[p] = None
        BY <2>2, <3>1
      <3>3. tree'[Parent[p]].ctime = changes + 1
        BY <1>2, <2>4, <3>2 DEF SiteFacts, Exchanged
      <3> QED
        BY <1>0, <2>3, <2>4, <3>3 DEF Known, TypeInv, Objects
    <2> QED
      BY <2>1, <2>2, <2>4 DEF Saw
  <1>3. CASE WalkFacts
    <2>1. tree' = tree
      BY <1>3 DEF WalkFacts, Steady, site
    <2>2. \A q \in Paths : Saw(q) => seen'[1][q] = seen[1][q]
      BY <1>0, <1>3, SeenBy DEF SeenFacts, Saw
    <2>3. CASE seen[1][p] = None
      BY <1>1, <2>1, <2>2, <2>3 DEF FirstInv, Saw
    <2>4. CASE seen[1][p] # None
      <3>1. pass = 1 /\ seen[1][p] = Unseen /\ Sight(p, None)
        BY <1>0, <1>1, <1>3, <2>4, SightIs, SeenBy DEF SeenFacts
      <3>2. \/ Listed /\ p \in Below(Top.dir) \ There(Top.dir)
            \/ p \in Top.left /\ StatSeen(p) /\ Found(p) = None
        BY <1>1, <3>1, FirstSight
      <3>3. stack # <<>>
        BY <1>0, <3>2 DEF Listed, StatSeen, StattedSome, WalkInv, PlaceInv
      <3>4. /\ Top.dir \in Paths /\ Top.obj \in Objects /\ Handled(Top.dir, Top.obj)
            /\ Parent[p] = Top.dir
            /\ tree[Top.dir] = Top.obj => ~Gone(Top.obj, Top.dir)
        BY <3>2, <3>3, TopFacts
      <3>5. Saw(Parent[p]) /\ seen[1][Parent[p]] = Top.obj
        BY <3>1, <3>4, Somethings DEF Handled, Saw
      <3>6. tree[p] # None => tree[Top.dir] # Top.obj
        <4>1. CASE p \in Below(Top.dir) \ There(Top.dir)
          BY <4>1 DEF There
        <4>2. CASE Found(p) = None
          BY <1>0, <1>1, <3>4, <4>2, FoundIs
        <4> QED
          BY <3>2, <4>1, <4>2
      <3> QED
        BY <2>1, <2>2, <3>4, <3>5, <3>6 DEF Saw
    <2> QED
      BY <2>3, <2>4
  <1> QED
    BY <1>2, <1>3

LEMMA FirstStep ==
    ASSUME IInv, FrameInv, FirstInv, SiteFacts \/ WalkFacts
    PROVE  FirstInv'
  <1>0. TypeInv /\ TreeInv /\ WalkInv /\ SawInv /\ pass \in 1 .. 2
    BY DEF IInv, SeenInv, TypeInv
  <1>1. SUFFICES ASSUME NEW p \in Paths
                 PROVE  /\ RacedThen(1, p) => Past(p)'
                        /\ seen'[1][p] \notin {None, Unseen} =>
                              \/ RowedThen(1, p)
                              \/ RefusedThen(1, p) /\ (failures' = 0 => Past(p)')
                              \/ pass' = 1 /\ entry' # None /\ entry'.path = p
    BY NothingSeen DEF FirstInv, Raced, RacedThen, Rowed, RowedThen, RefusedAt, RefusedThen, Saw, R, I
  <1>2. ASSUME RacedThen(1, p)
        PROVE  Past(p)'
    <2>1. PICK j \in ToSet(issues'[1]) : j.path = p /\ IsRace(j)
      BY <1>2 DEF RacedThen
    <2>2. CASE j \in I(1)
      <3>1. Past(p)
        BY <2>1, <2>2 DEF FirstInv, Raced
      <3> QED
        BY <1>0, <3>1, PastKept
    <2>3. CASE j \notin I(1)
      <3>1. WalkFacts
        BY <2>1, <2>3 DEF SiteFacts, helper, I
      <3>2. PICK J : RaceTells(J)
        BY <1>0, <3>1, IssuesAfter
      <3>3. pass = 1 /\ j \in J
        BY <2>1, <2>3, <3>2 DEF RaceTells, NewIssues
      <3>4. RaceTold(j)
        BY <2>1, <3>2, <3>3 DEF RaceTells
      <3> QED
        BY <1>0, <2>1, <3>1, <3>3, <3>4, RaceIsPast, PastKept
    <2> QED
      BY <2>2, <2>3
  <1>3. ASSUME seen'[1][p] \notin {None, Unseen}
        PROVE  \/ RowedThen(1, p)
               \/ RefusedThen(1, p) /\ (failures' = 0 => Past(p)')
               \/ pass' = 1 /\ entry' # None /\ entry'.path = p
    <2>1. CASE Saw(p)
      <3>1. CASE Rowed(1, p)
        BY <1>0, <3>1, FoundKept DEF Rowed, RowedThen
      <3>2. CASE RefusedAt(1, p) /\ (failures = 0 => Past(p))
        <4>1. RefusedThen(1, p) /\ (failures' = 0 => failures = 0)
          BY <1>0, <3>2, FoundKept DEF RefusedAt, RefusedThen
        <4> QED
          BY <1>0, <3>2, <4>1, PastKept
      <3>3. CASE pass = 1 /\ entry # None /\ entry.path = p
        <4>1. CASE SiteFacts
          BY <3>3, <4>1 DEF SiteFacts, helper
        <4>2. CASE WalkFacts
          BY <3>3, <4>2, EntryLeft
        <4> QED
          BY <4>1, <4>2
      <3> QED
        BY <2>1, <3>1, <3>2, <3>3 DEF FirstInv
    <2>2. CASE ~Saw(p)
      <3>1. WalkFacts
        BY <1>3, <2>2 DEF SiteFacts, helper, Saw
      <3>2. pass = 1
        BY <1>0, <1>3, <2>2, <3>1, SeenBy DEF SeenFacts, Saw
      <3> QED
        BY <1>3, <2>2, <3>1, <3>2, FirstSeen
    <2> QED
      BY <2>1, <2>2
  <1> QED
    BY <1>2, <1>3

\* A file that could not be hashed although no call failed had changed.
LEMMA UnhashedChanged ==
    ASSUME IInv, FrameInv, WalkFacts, NEW r \in ToSet(rows'[pass]), r \notin R(pass), failures' = 0, Unhashable(r)
    PROVE  entry # None /\ r.path = entry.path /\ tree[entry.path] # entry.obj /\ FileRowed
  <1>0. TypeInv /\ TreeInv /\ WalkInv /\ HashInv /\ pass \in 1 .. 2
    BY DEF IInv, TypeInv
  <1>1. ~NewRows({})
    BY <1>0 DEF NewRows
  <1>2. \A p, o, h : NewRows({RowFor(p, o, h)}) => r.path = p /\ r.obj.kind = o.kind /\ r.hash = h
    BY <1>0, RowForIs, StatIs DEF NewRows
  <1>3. ~RootOpened
    <2> SUFFICES ASSUME RootOpened PROVE FALSE
      OBVIOUS
    <2>1. r.obj.kind = tree[Root].kind
      BY <1>2 DEF RootOpened
    <2> QED
      BY <1>0, <2>1, PathFacts DEF TreeInv, Kinds, Unhashable
  <1>4. ~Entered
    BY <1>2 DEF Entered, Unhashable
  <1>5. FileRowed
    BY <1>1, <1>3, <1>4 DEF WalkFacts, Listed, Left, Statted, StattedSome, Refused, FileOpened, FileRead, Finished, PassEnded
  <1>6. PICK h : /\ NewRows({RowFor(entry.path, entry.obj, h)})
                 /\ \/ failures' = failures + 1
                    \/ ~AsOpened
                    \/ h = entry.hash /\ step = "hashed"
    BY <1>5 DEF FileRowed
  <1>7. h = None /\ r.path = entry.path
    BY <1>2, <1>6 DEF Unhashable
  <1>8. entry # None
    BY <1>0, <1>5 DEF FileRowed, WalkInv, PlaceInv, InWork
  <1>9. entry.obj \in Objects /\ (tree[entry.path] = entry.obj => Found(entry.path) = entry.obj)
    BY <1>8, EntryFacts DEF FrameInv
  <1>10. failures' # failures + 1
    BY <1>0 DEF TypeInv
  <1>11. CASE ~AsOpened
    <2>1. tree[entry.path] # entry.obj
      BY <1>9, <1>11, Somethings DEF AsOpened, SameStat
    <2> QED
      BY <1>5, <1>7, <1>8, <2>1
  <1>12. CASE h = entry.hash /\ step = "hashed"
    <2>1. entry.obj.ctime # None
      BY <1>9, Somethings DEF Objects
    <2> QED
      BY <1>0, <1>5, <1>7, <1>8, <1>12, <2>1 DEF HashInv
  <1> QED
    BY <1>6, <1>10, <1>11, <1>12

LEMMA UnhashedStep ==
    ASSUME IInv, FrameInv, UnhashedInv, SiteFacts \/ WalkFacts
    PROVE  UnhashedInv'
  <1>0. /\ TypeInv /\ TreeInv /\ WalkInv /\ FreshInv /\ SeenInv /\ SawInv /\ SecondInv /\ pass \in 1 .. 2
    BY DEF IInv, SeenInv, TypeInv
  <1>1. SUFFICES /\ \A k \in 1 .. 2 : \A r \in ToSet(rows'[k]) : r.obj.kind = "DIRECTORY" => r.hash = None
                 /\ \A r \in ToSet(rows'[1]) : failures' = 0 /\ Unhashable(r) => Past(r.path)'
    BY DEF UnhashedInv, R, Unhashable
  <1>2. ASSUME NEW k \in 1 .. 2, NEW r \in ToSet(rows'[k]), r.obj.kind = "DIRECTORY", r \notin R(k), WalkFacts
        PROVE  r.hash = None
    <2>1. PICK o \in Objects, h \in Nat \cup {None} : r.obj = Stat(o) /\ r.hash = h /\ Why(r.path, o, h)
      BY <1>0, <1>2, RowsOf
    <2>2. o.kind = "DIRECTORY"
      BY <1>2, <2>1, StatIs
    <2> QED
      BY <1>0, <2>1, <2>2 DEF Why, WalkInv, PlaceInv
  <1>3. ASSUME NEW r \in ToSet(rows'[1]), failures' = 0, Unhashable(r), r \notin R(1), WalkFacts
        PROVE  Past(r.path)'
    <2>1. pass = 1
      BY <1>0, <1>3, FoundKept
    <2>2. entry # None /\ r.path = entry.path /\ tree[entry.path] # entry.obj
      BY <1>3, <2>1, UnhashedChanged
    <2>3. entry.path \in Paths /\ entry.obj \in Objects /\ Handled(entry.path, entry.obj)
      BY <2>2, EntryFacts DEF FrameInv
    <2>4. seen[1][entry.path] = entry.obj /\ Saw(entry.path)
      BY <2>1, <2>3, Somethings DEF Handled, Saw
    <2>5. Past(entry.path)
      BY <1>0, <2>1, <2>2, <2>3, <2>4, PastInFirst
    <2>6. r.path \in Paths /\ Past(r.path)
      BY <2>2, <2>3, <2>5
    <2>7. ASSUME NEW p \in Paths, Past(p)
          PROVE  Past(p)'
      BY <1>0, <1>3, <2>7, PastKept
    <2> QED
      BY <2>6, <2>7 DEF Past, Saw
  <1>4. ASSUME NEW r \in R(1), failures' = 0, Unhashable(r)
        PROVE  Past(r.path)'
    <2>1. failures = 0 /\ r.path \in Paths
      BY <1>0, <1>4, FoundKept, RowPath
    <2>2. Past(r.path)
      BY <1>4, <2>1 DEF UnhashedInv
    <2>3. ASSUME NEW p \in Paths, Past(p)
          PROVE  Past(p)'
      BY <1>0, <2>3, PastKept
    <2> QED
      BY <2>1, <2>2, <2>3 DEF Past, Saw
  <1>5. \A k \in 1 .. 2 : \A r \in R(k) : r.obj.kind = "DIRECTORY" => r.hash = None
    BY DEF UnhashedInv
  <1>6. SiteFacts => \A k \in 1 .. 2 : ToSet(rows'[k]) = R(k)
    BY DEF SiteFacts, helper, R
  <1> QED
    BY <1>2, <1>3, <1>4, <1>5, <1>6

-----------------------------------------------------------------------------
(* What the second pass saw.                                               *)

InProgressNext(q) ==
    \/ \E n \in DOMAIN stack' : stack'[n].dir = q
    \/ step' = "final" /\ entry'.path = q
    \/ step' = "rootEnd" /\ q = Root

\* What a directory that is left is then.
LEMMA StillInProgress ==
    ASSUME IInv, WalkFacts, NEW q \in Paths, NEW n \in DOMAIN stack, stack[n].dir = q
    PROVE  InProgressNext(q)
  <1>0. /\ TypeInv /\ WalkInv /\ DOMAIN stack = 1 .. Len(stack) /\ Len(stack) \in Nat /\ stack # <<>>
    BY StackBase DEF IInv
  <1>1. Top = stack[Len(stack)] /\ Top.dir \in Paths /\ Top.obj \in Objects /\ Top.names \subseteq Paths /\ Top.left \subseteq Paths
        /\ Len(stack) \in DOMAIN stack
    BY <1>0, TopIs
  <1>2. ~(RootOpened \/ PassEnded)
    BY <1>0 DEF RootOpened, PassEnded, WalkInv, PlaceInv
  <1>3. CASE Listed
    <2> DEFINE T == There(Top.dir)
    <2>1. T \in SUBSET Paths
      BY <1>1, PathFacts DEF There
    <2>2. Restacked(T, T)
      BY <1>0, <1>3, <2>1, RestackedBy DEF Listed
    <2>3. n \in DOMAIN stack' /\ stack'[n].dir = q
      BY <1>1, <2>2 DEF Restacked
    <2> QED
      BY <2>3 DEF InProgressNext
  <1>4. CASE Statted
    <2>1. PICK p \in Top.left : StattedSome(p)
      BY <1>4 DEF Statted
    <2>2. Top.left \ {p} \in SUBSET Paths /\ Top.names \in SUBSET Paths
      BY <1>1
    <2>3. Restacked(Top.names, Top.left \ {p})
      BY <1>0, <2>1, <2>2, RestackedBy DEF StattedSome
    <2>4. n \in DOMAIN stack' /\ stack'[n].dir = q
      BY <1>1, <2>3 DEF Restacked
    <2> QED
      BY <2>4 DEF InProgressNext
  <1>5. CASE Left
    <2>1. Unstacked
      BY <1>0, <1>5, UnstackedBy DEF Left
    <2>2. CASE n # Len(stack)
      <3>1. n \in DOMAIN stack' /\ stack'[n] = stack[n]
        BY <1>0, <2>1, <2>2 DEF Unstacked
      <3> QED
        BY <3>1 DEF InProgressNext
    <2>3. CASE n = Len(stack)
      <3>1. \/ q = Root /\ step' = "rootEnd"
            \/ step' = "final" /\ entry' = [path |-> Top.dir, obj |-> Top.obj, hash |-> None]
        BY <1>1, <1>5, <2>3 DEF Left
      <3>2. entry' = [path |-> Top.dir, obj |-> Top.obj, hash |-> None] => entry'.path = q
        BY <1>1, <2>3
      <3> QED
        BY <3>1, <3>2 DEF InProgressNext
    <2> QED
      BY <2>2, <2>3
  <1>6. CASE Entered
    <2>1. entry.path \in Paths /\ entry.obj \in Objects
      BY <1>0, <1>6, EntryIs DEF Entered, InWork
    <2>2. Stacked(entry.path, entry.obj)
      BY <1>0, <1>6, <2>1, StackedBy DEF Entered
    <2>3. n \in DOMAIN stack' /\ stack'[n] = stack[n]
      BY <1>0, <2>2 DEF Stacked
    <2> QED
      BY <2>3 DEF InProgressNext
  <1>7. CASE Refused \/ Finished \/ FileRowed \/ FileOpened \/ FileRead
    BY <1>7 DEF Refused, Finished, FileRowed, FileOpened, FileRead, InProgressNext
  <1> QED
    BY <1>2, <1>3, <1>4, <1>5, <1>6, <1>7 DEF WalkFacts

ChangingNext(q) ==
    /\ seen'[1][q] \notin {None, Unseen} /\ tree'[q] # seen'[1][q]
    /\ seen'[2][q] # seen'[1][q] \/ InProgressNext(q)

LEMMA ChangingKept ==
    ASSUME IInv, pass = 2, SiteFacts \/ WalkFacts, NEW q \in Paths, Changing(q)
    PROVE  ChangingNext(q)
  <1>0. TypeInv /\ TreeInv /\ WalkInv /\ SawInv
    BY DEF IInv, SeenInv
  <1>1. Saw(q) /\ tree[q] # seen[1][q] /\ seen[1][q] \in Objects /\ Known(q, seen[1][q])
    BY <1>0 DEF Changing, Saw, SawInv, TypeInv
  <1>2. CASE SiteFacts
    <2>1. UNCHANGED helper /\ tree'[q] # seen[1][q]
      BY <1>0, <1>1, <1>2, NeverBack DEF SiteFacts
    <2> QED
      BY <2>1 DEF Changing, ChangingNext, InProgress, InProgressNext, Saw, helper
  <1>3. CASE WalkFacts
    <2>1. tree' = tree /\ seen'[1][q] = seen[1][q] /\ seen[1][q] \notin {None, Unseen}
      BY <1>0, <1>1, <1>3, SeenBy DEF SeenFacts, WalkFacts, Steady, site, Saw
    <2>2. seen'[2][q] = seen[2][q] \/ seen'[2][q] # seen[1][q]
      BY <1>0, <1>1, <1>3, <2>1, SecondLook
    <2>3. CASE seen[2][q] # seen[1][q]
      BY <1>1, <2>1, <2>2, <2>3 DEF ChangingNext
    <2>4. CASE \E n \in DOMAIN stack : stack[n].dir = q
      BY <1>1, <1>3, <2>1, <2>4, StillInProgress DEF ChangingNext
    <2>5. CASE step = "final" /\ entry.path = q
      <3>1. LooksAt(q)
        BY <1>3, <2>5 DEF WalkFacts, RootOpened, Listed, Left, Statted, StattedSome, Refused, Entered,
               FileRowed, FileOpened, FileRead, Finished, PassEnded
      <3>2. seen'[2][q] = Found(q)
        BY <1>0, <3>1, LooksAtFound
      <3>3. seen'[2][q] # seen[1][q]
        BY <1>0, <1>1, <2>1, <3>2, FoundIs
      <3> QED
        BY <1>1, <2>1, <3>3 DEF ChangingNext
    <2>6. CASE step = "rootEnd" /\ q = Root
      <3>1. Looks({Root}, tree)
        BY <1>3, <2>6 DEF WalkFacts, RootOpened, Listed, Left, Statted, StattedSome, Refused, Entered,
               FileRowed, FileOpened, FileRead, Finished, PassEnded
      <3>2. seen'[2][q] = tree[q]
        BY <2>6, <3>1 DEF Looks
      <3> QED
        BY <1>1, <2>1, <3>2 DEF ChangingNext
    <2> QED
      BY <2>3, <2>4, <2>5, <2>6 DEF Changing, InProgress
  <1> QED
    BY <1>2, <1>3

LEMMA ReadStep ==
    ASSUME IInv, FrameInv, FirstInv, ReadInv, SiteFacts \/ WalkFacts
    PROVE  ReadInv'
  <1>0. TypeInv /\ TreeInv /\ WalkInv /\ SawInv
    BY DEF IInv, SeenInv
  <1> SUFFICES ASSUME pass' = 2, step' \in {"open", "read", "hashed"}
               PROVE  /\ seen'[2][entry'.path] = entry'.obj
                      /\ seen'[1][entry'.path] = None =>
                            tree'[Parent[entry'.path]] # seen'[1][Parent[entry'.path]]
    BY DEF ReadInv, InSecond
  <1>1. CASE SiteFacts
    <2>1. UNCHANGED helper
      BY <1>1 DEF SiteFacts
    <2>2. InSecond /\ entry # None
      BY <1>0, <2>1 DEF helper, InSecond, WalkInv, PlaceInv, InWork
    <2>3. entry.path \in Paths \ {Root}
      BY <2>2, EntryFacts DEF FrameInv
    <2>4. ASSUME seen[1][entry.path] = None
          PROVE  tree'[Parent[entry.path]] # seen[1][Parent[entry.path]]
      <3>1. Saw(Parent[entry.path]) /\ Parent[entry.path] \in Paths
        BY <2>3, <2>4, PathFacts DEF FirstInv
      <3>2. seen[1][Parent[entry.path]] \in Objects /\ Known(Parent[entry.path], seen[1][Parent[entry.path]])
        BY <1>0, <3>1 DEF Saw, SawInv, TypeInv
      <3> QED
        BY <1>0, <1>1, <2>2, <2>4, <3>1, <3>2, NeverBack DEF ReadInv
    <2> QED
      BY <2>1, <2>2, <2>4 DEF ReadInv, helper
  <1>2. CASE WalkFacts
    <2>1. tree' = tree
      BY <1>2 DEF WalkFacts, Steady, site
    <2>2. Statted \/ FileOpened \/ FileRead
      BY <1>2 DEF WalkFacts, RootOpened, Listed, Left, Refused, Entered, FileRowed, Finished, PassEnded
    <2>3. pass = 2
      BY <2>2 DEF Statted, StattedSome, FileOpened, FileRead
    <2>4. \A p \in Paths : seen'[1][p] = seen[1][p]
      BY <1>0, <1>2, <2>3, SeenBy DEF SeenFacts
    <2>5. CASE Statted
      <3>1. PICK p \in Top.left : StattedSome(p)
        BY <2>5 DEF Statted
      <3>2. stack # <<>> /\ step = "child"
        BY <1>0, <3>1 DEF StattedSome, WalkInv, PlaceInv
      <3>3. p \in Paths \ {Root} /\ Parent[p] \in Paths
        BY <3>1, <3>2, TopFacts, PathFacts
      <3>4. Found(p) # None /\ entry' = [path |-> p, obj |-> tree[p], hash |-> None]
        BY <3>1, <3>2 DEF StattedSome
      <3>5. entry'.path = p /\ entry'.obj = tree[p] /\ Found(p) = tree[p] /\ tree[p] # None
        BY <1>0, <3>3, <3>4, FoundIs
      <3>6. seen'[2][p] = tree[p]
        BY <1>0, <2>3, <3>1, <3>3, <3>5, LooksAtFound DEF StattedSome
      <3>7. seen[1][p] = None => tree[Parent[p]] # seen[1][Parent[p]]
        BY <3>3, <3>5 DEF FirstInv
      <3> QED
        BY <2>1, <2>4, <3>3, <3>5, <3>6, <3>7
    <2>6. CASE FileOpened \/ FileRead
      <3>1. entry'.path = entry.path /\ entry'.obj = entry.obj /\ InSecond /\ entry # None /\ Looks({}, tree)
        BY <1>0, <2>3, <2>6 DEF FileOpened, FileRead, InSecond, WalkInv, PlaceInv, InWork
      <3>2. entry.path \in Paths \ {Root} /\ Parent[entry.path] \in Paths
        BY <3>1, EntryFacts, PathFacts DEF FrameInv
      <3>3. seen'[2][entry.path] = seen[2][entry.path]
        BY <3>1, <3>2 DEF Looks
      <3> QED
        BY <2>1, <2>4, <3>1, <3>2, <3>3 DEF ReadInv
    <2> QED
      BY <2>2, <2>5, <2>6
  <1> QED
    BY <1>1, <1>2

LastNext(p) ==
    /\ seen'[1][p] \notin {None, Unseen} => Later(seen'[1][p], seen'[2][p])
    /\ \/ RowedThen(2, p)
       \/ pass' = 2 /\ step' \in {"open", "read", "hashed"} /\ entry'.path = p
       \/ RefusedThen(2, p) /\ (failures' = 0 => seen'[2][p] # seen'[1][p])
       \/ /\ p # Root /\ RowedThen(2, Parent[p]) /\ RacedThen(2, Parent[p])
          /\ seen'[1][p] \notin {None, Unseen} => seen'[2][p].born > seen'[1][p].born

\* What the second pass saw before, and did not look at again.
LEMMA LastKept ==
    ASSUME IInv, FrameInv, ReadInv, LastInv, WalkFacts, pass = 2, NEW p \in Paths,
           seen'[2][p] = seen[2][p], seen'[2][p] \notin {None, Unseen}, seen'[1][p] = seen[1][p]
    PROVE  LastNext(p)
  <1>0. TypeInv /\ TreeInv /\ WalkInv
    BY DEF IInv
  <1>1. Saw(p) => Later(seen[1][p], seen[2][p])
    BY DEF LastInv
  <1>2. /\ \A q : Rowed(2, q) => RowedThen(2, q)
        /\ \A q : RefusedAt(2, q) => RefusedThen(2, q)
        /\ \A q : Raced(2, q) => RacedThen(2, q)
        /\ failures' = 0 => failures = 0
    <2>1. I(2) \subseteq ToSet(issues'[2]) /\ R(2) \subseteq ToSet(rows'[2]) /\ (failures' = 0 => failures = 0)
      BY <1>0, FoundKept
    <2> QED
      BY <2>1 DEF Rowed, RowedThen, RefusedAt, RefusedThen, Raced, RacedThen
  <1>3. CASE InSecond /\ entry.path = p
    <2>1. entry # None
      BY <1>0, <1>3 DEF InSecond, WalkInv, PlaceInv, InWork
    <2>2. entry.obj \in Objects /\ seen[2][p] = entry.obj
      BY <1>3, <2>1, EntryFacts DEF FrameInv, ReadInv
    <2>3. CASE Refused
      <3>1. RefusedThen(2, p)
        BY <1>0, <1>3, <2>3, RefuseRefuses
      <3>2. failures' # 0
        <4> SUFFICES ASSUME failures' = 0 PROVE FALSE
          OBVIOUS
        <4>1. failures' # failures + 1
          BY <1>0 DEF TypeInv
        <4>2. /\ ~(IsDirectory(Found(p)) /\ SameStat(tree[p], entry.obj))
              /\ LooksAt(p) /\ entry.obj.kind = "DIRECTORY"
          BY <1>3, <2>3, <4>1 DEF Refused
        <4>3. Found(p) = entry.obj
          BY <1>0, <2>2, <4>2, LooksAtFound
        <4>4. tree[p] = entry.obj
          BY <1>0, <2>2, <4>3, FoundIs, Somethings
        <4> QED
          BY <2>2, <4>2, <4>3, <4>4, Somethings DEF IsDirectory, SameStat
      <3> QED
        BY <1>1, <3>1, <3>2 DEF LastNext, Saw
    <2>4. CASE Entered \/ FileRowed
      <3>1. \E o, h : NewRows({RowFor(p, o, h)})
        BY <1>3, <2>4 DEF Entered, FileRowed
      <3>2. RowedThen(2, p)
        BY <3>1, RowForIs DEF NewRows, RowedThen
      <3> QED
        BY <1>1, <3>2 DEF LastNext, Saw
    <2>5. CASE FileOpened \/ FileRead
      <3>1. pass' = 2 /\ step' \in {"open", "read", "hashed"} /\ entry'.path = p
        BY <1>3, <2>5 DEF FileOpened, FileRead
      <3> QED
        BY <1>1, <3>1 DEF LastNext, Saw
    <2> QED
      BY <1>3, <2>3, <2>4, <2>5 DEF WalkFacts, InSecond, RootOpened, Listed, Left, Statted, StattedSome, Finished, PassEnded
  <1>4. CASE \/ Rowed(2, p)
             \/ RefusedAt(2, p) /\ (failures = 0 => seen[2][p] # seen[1][p])
             \/ /\ p # Root /\ Rowed(2, Parent[p]) /\ Raced(2, Parent[p])
                /\ Saw(p) => seen[2][p].born > seen[1][p].born
    BY <1>1, <1>2, <1>4 DEF LastNext, Saw
  <1> QED
    BY <1>3, <1>4 DEF LastInv

\* What the second pass sees now.
LEMMA LastNew ==
    ASSUME IInv, FrameInv, WalkFacts, pass = 2, NEW p \in Paths, NEW v, v = seen'[2][p],
           v \notin {None, Unseen}, Sight(p, v), seen'[1][p] = seen[1][p]
    PROVE  LastNext(p)
  <1>0. TypeInv /\ TreeInv /\ WalkInv /\ SawInv
    BY DEF IInv, SeenInv
  <1>1. v = tree[p]
    <2>1. v \in {tree[p], None}
      BY <1>0, FoundIs DEF Sight
    <2> QED
      BY <2>1
  <1>2. Saw(p) => Later(seen[1][p], v)
    BY <1>0, <1>1 DEF SawInv, Known
  <1>3. \A q : Rowed(2, q) => RowedThen(2, q)
    <2>1. R(2) \subseteq ToSet(rows'[2])
      BY <1>0, FoundKept
    <2> QED
      BY <2>1 DEF Rowed, RowedThen
  <1>4. CASE RowedThen(2, p)
    BY <1>2, <1>4 DEF LastNext, Saw
  <1>5. CASE RootOpened /\ p = Root
    <2>1. RowFor(p, tree[Root], None) \in ToSet(rows'[2]) /\ RowFor(p, tree[Root], None).path = p
      BY <1>5, RowForIs DEF RootOpened, NewRows
    <2> QED
      BY <1>4, <2>1 DEF RowedThen
  <1>6. CASE Relisted /\ p \in Below(Top.dir) \ Top.names
    <2>1. stack # <<>> /\ step = "child"
      BY <1>0, <1>6 DEF Relisted, WalkInv, PlaceInv
    <2>2. /\ Len(stack) \in DOMAIN stack /\ Top = stack[Len(stack)] /\ Rowed(2, Top.dir)
          /\ p # Root /\ Parent[p] = Top.dir
      BY <1>6, <2>1, TopFacts
    <2>3. Named(Top)
      BY <2>1, <2>2 DEF FrameInv, NamesInv, HasNames
    <2>4. Saw(p) => v.born > seen[1][p].born
      BY <1>1, <1>6, <2>3 DEF Named
    <2>5. There(Top.dir) # Top.names
      BY <1>1, <1>6 DEF There
    <2>6. RacedThen(2, Top.dir)
      BY <1>0, <1>6, <2>5, ListRaces DEF Relisted
    <2> QED
      BY <1>2, <1>3, <2>2, <2>4, <2>6 DEF LastNext, Saw
  <1>7. CASE p \in Top.left /\ StatSeen(p) /\ v = Found(p)
    <2>1. entry' = [path |-> p, obj |-> tree[p], hash |-> None] /\ step' = "open" /\ pass' = 2
      BY <1>2, <1>7 DEF StatSeen, StattedSome
    <2>2. entry'.path = p
      BY <2>1
    <2> QED
      BY <1>2, <2>1, <2>2 DEF LastNext, Saw
  <1>8. CASE AnotherFound /\ p = entry.path /\ v = Found(p)
    <2>1. entry # None /\ entry.obj.kind = "DIRECTORY"
      BY <1>0, <1>8 DEF AnotherFound, Refused, WalkInv, PlaceInv, InWork
    <2>2. entry.obj \in Objects /\ Handled(p, entry.obj)
      BY <1>8, <2>1, EntryFacts DEF FrameInv
    <2>3. RefusedThen(2, p)
      BY <1>0, <1>8, RefuseRefuses DEF AnotherFound
    <2>4. v # seen[1][p]
      <3> SUFFICES ASSUME v = seen[1][p] PROVE FALSE
        OBVIOUS
      <3>1. Saw(p) /\ v \in Objects
        BY <1>0 DEF Saw, TypeInv
      <3>2. Later(v, entry.obj) /\ Later(entry.obj, v)
        BY <1>1, <2>2, <3>1 DEF Handled, Known
      <3>3. v = entry.obj
        BY <2>2, <3>1, <3>2, NoLaterThan
      <3> QED
        BY <1>1, <1>8, <2>1, <2>2, <3>3, Somethings DEF AnotherFound, IsDirectory, SameStat
    <2> QED
      BY <1>2, <2>3, <2>4 DEF LastNext, Saw
  <1>9. CASE Finished /\ p = entry.path
    <2>1. entry # None
      BY <1>0, <1>9 DEF Finished, WalkInv, PlaceInv, InWork
    <2>2. Rowed(2, p)
      BY <1>9, <2>1, EntryFacts DEF FrameInv, Finished
    <2> QED
      BY <1>3, <1>4, <2>2
  <1>10. CASE PassEnded /\ p = Root
    <2>1. rows[2] # <<>> /\ rows[2][1].path = Root /\ rows[2] \in Seq(Rows)
      BY <1>10 DEF FrameInv, RootInv, PassEnded, IInv, TypeInv
    <2>2. rows[2][1] \in R(2)
      <3>1. 1 \in DOMAIN rows[2]
        BY <2>1
      <3> QED
        BY <3>1 DEF R, ToSet
    <2>3. Rowed(2, p)
      BY <1>10, <2>1, <2>2 DEF Rowed
    <2> QED
      BY <1>3, <1>4, <2>3
  <1> QED
    BY <1>5, <1>6, <1>7, <1>8, <1>9, <1>10 DEF Sight

LEMMA LastStep ==
    ASSUME IInv, FrameInv, ReadInv, LastInv, SiteFacts \/ WalkFacts
    PROVE  LastInv'
  <1>0. TypeInv /\ WalkInv /\ SecondInv /\ pass \in 1 .. 2
    BY DEF IInv, TypeInv
  <1>1. SUFFICES ASSUME NEW p \in Paths, seen'[2][p] \notin {None, Unseen}
                 PROVE  LastNext(p)
    BY DEF LastInv, LastNext, InSecond, Rowed, RowedThen, RefusedAt, RefusedThen, Raced, RacedThen, Saw, R, I
  <1>2. CASE SiteFacts
    BY <1>1, <1>2 DEF SiteFacts, helper, LastInv, LastNext, InSecond, Rowed, RowedThen, RefusedAt, RefusedThen,
                      Raced, RacedThen, Saw, R, I
  <1>3. CASE WalkFacts
    <2>1. CASE pass = 1
      BY <1>0, <1>1, <1>3, <2>1, SecondLook DEF SecondInv
    <2>2. CASE pass = 2
      <3>1. seen'[1][p] = seen[1][p]
        BY <1>0, <1>3, <2>2, SeenBy DEF SeenFacts
      <3>2. \/ seen'[2][p] = seen[2][p]
            \/ Sight(p, seen'[2][p])
        BY <1>0, <1>3, SightIs
      <3>3. CASE seen'[2][p] = seen[2][p]
        BY <1>1, <1>3, <2>2, <3>1, <3>3, LastKept
      <3>4. CASE Sight(p, seen'[2][p])
        BY <1>1, <1>3, <2>2, <3>1, <3>4, LastNew
      <3> QED
        BY <3>2, <3>3, <3>4
    <2> QED
      BY <1>0, <2>1, <2>2
  <1> QED
    BY <1>2, <1>3

BetweenNext(r) ==
    \E o \in Objects :
        /\ r.obj = Stat(o) /\ KnownNext(r.path, o)
        /\ seen'[1][r.path] \notin {None, Unseen} => Later(seen'[1][r.path], o)
        /\ seen'[2][r.path] # None => Later(o, seen'[2][r.path])

\* Of a row of the second pass, after a step.
SecondRowNext(r) ==
    /\ seen'[2][r.path] # Unseen /\ BetweenNext(r)
    /\ (seen'[2][r.path] # None /\ r.obj = Stat(seen'[2][r.path])) \/ RacedThen(2, r.path)
    /\ failures' = 0 /\ Unhashable(r) /\ seen'[1][r.path] \notin {None, Unseen} => ChangingNext(r.path)
    /\ r.path # Root /\ seen'[1][r.path] = None => ChangingNext(Parent[r.path])

LEMMA SecondRowBy ==
    ASSUME \A r \in ToSet(rows'[2]) : SecondRowNext(r)
    PROVE  SecondRowInv'
  <1>1. \A r : SecondRowNext(r) =>
            /\ (seen[2][r.path] # Unseen)' /\ Between(r)'
            /\ (seen[2][r.path] # None /\ r.obj = Stat(seen[2][r.path]))' \/ Raced(2, r.path)'
            /\ (failures = 0)' /\ Unhashable(r) /\ Saw(r.path)' => Changing(r.path)'
            /\ r.path # Root /\ (seen[1][r.path] = None)' => Changing(Parent[r.path])'
    BY DEF SecondRowNext, BetweenNext, Between, KnownNext, Known, RacedThen, Raced, I, ChangingNext, Changing,
           InProgressNext, InProgress, Saw, Stat, Unhashable
  <1> QED
    BY <1>1 DEF SecondRowInv, R, Unhashable

\* A row is still between, when what is seen last is the same or is there.
LEMMA BetweenOn ==
    ASSUME TypeInv, TreeInv, SiteFacts \/ WalkFacts, NEW r, r.path \in Paths, Between(r),
           seen'[1][r.path] = seen[1][r.path],
           seen'[2][r.path] = seen[2][r.path] \/ seen'[2][r.path] \in {tree[r.path], None}
    PROVE  BetweenNext(r)
  <1>1. PICK o \in Objects :
            /\ r.obj = Stat(o) /\ Known(r.path, o) /\ (Saw(r.path) => Later(seen[1][r.path], o))
            /\ seen[2][r.path] # None => Later(o, seen[2][r.path])
    BY DEF Between
  <1>2. KnownNext(r.path, o)
    BY <1>1, KnownKept DEF WalkFacts, Steady
  <1>3. seen'[2][r.path] # None => Later(o, seen'[2][r.path])
    BY <1>1 DEF Known
  <1> QED
    BY <1>1, <1>2, <1>3 DEF BetweenNext, Saw

\* What follows of a row whatever is seen of it again.
LEMMA RowChanging ==
    ASSUME IInv, SecondRowInv, SiteFacts \/ WalkFacts, pass = 2, NEW r \in R(2),
           seen'[1][r.path] = seen[1][r.path]
    PROVE  /\ failures' = 0 /\ Unhashable(r) /\ seen'[1][r.path] \notin {None, Unseen} => ChangingNext(r.path)
           /\ r.path # Root /\ seen'[1][r.path] = None => ChangingNext(Parent[r.path])
  <1>0. TypeInv /\ r.path \in Paths
    BY RowPath DEF IInv
  <1>1. failures' = 0 => failures = 0
    BY <1>0, FoundKept
  <1>2. r.path # Root => Parent[r.path] \in Paths
    BY <1>0, PathFacts
  <1>3. failures' = 0 /\ Unhashable(r) /\ seen'[1][r.path] \notin {None, Unseen} => Changing(r.path)
    BY <1>1 DEF SecondRowInv, Saw
  <1>4. r.path # Root /\ seen'[1][r.path] = None => Changing(Parent[r.path])
    BY DEF SecondRowInv
  <1> QED
    BY <1>0, <1>2, <1>3, <1>4, ChangingKept

LEMMA SecondRowSame ==
    ASSUME IInv, SecondRowInv, SiteFacts \/ WalkFacts, pass = 2, NEW r \in R(2),
           seen'[1][r.path] = seen[1][r.path], seen'[2][r.path] = seen[2][r.path]
    PROVE  SecondRowNext(r)
  <1>0. TypeInv /\ TreeInv /\ r.path \in Paths
    BY RowPath DEF IInv
  <1>1. seen[2][r.path] # Unseen /\ Between(r)
        /\ ((seen[2][r.path] # None /\ r.obj = Stat(seen[2][r.path])) \/ Raced(2, r.path))
    BY DEF SecondRowInv
  <1>2. BetweenNext(r)
    BY <1>0, <1>1, BetweenOn
  <1>3. Raced(2, r.path) => RacedThen(2, r.path)
    <2>1. I(2) \subseteq ToSet(issues'[2])
      BY <1>0, FoundKept
    <2> QED
      BY <2>1 DEF Raced, RacedThen
  <1> QED
    BY <1>1, <1>2, <1>3, RowChanging DEF SecondRowNext

\* A path that has a row is looked at when the work on it ends, and only then.
LEMMA RowSight ==
    ASSUME IInv, FrameInv, pass = 2, NEW p \in Paths, Rowed(2, p), NEW v, Sight(p, v)
    PROVE  (Finished /\ p = entry.path /\ v = Found(p)) \/ (PassEnded /\ p = Root /\ v = tree[Root])
  <1>0. FreshInv /\ WalkInv /\ PlaceInv
    BY DEF IInv, WalkInv
  <1>1. ~RootOpened
    BY <1>0 DEF RootOpened, FreshInv, Untouched
  <1>2. ~(Listed /\ p \in Below(Top.dir))
    BY <1>0 DEF Listed, FreshInv, Fresh, Untouched
  <1>3. ~(p \in Top.left /\ StatSeen(p))
    <2> SUFFICES ASSUME p \in Top.left, step = "child" PROVE FALSE
      BY DEF StatSeen, StattedSome
    <2>1. stack # <<>>
      BY <1>0 DEF PlaceInv
    <2>2. Len(stack) \in DOMAIN stack /\ Top = stack[Len(stack)]
      BY <2>1, TopFacts
    <2> QED
      BY <1>0, <2>2 DEF FreshInv, Fresh, Untouched
  <1>4. ~(AnotherFound /\ p = entry.path)
    BY <1>0 DEF AnotherFound, Refused, FreshInv
  <1>5. ~(Relisted /\ p \in Below(Top.dir) \ Top.names)
    <2> SUFFICES ASSUME step = "child", p \in Below(Top.dir) \ Top.names PROVE FALSE
      BY DEF Relisted
    <2>1. stack # <<>>
      BY <1>0 DEF PlaceInv
    <2>2. Len(stack) \in DOMAIN stack /\ Top = stack[Len(stack)]
      BY <2>1, TopFacts
    <2> QED
      BY <2>2 DEF FrameInv, NamesInv, HasNames, Named
  <1> QED
    BY <1>1, <1>2, <1>3, <1>4, <1>5 DEF Sight

LEMMA SecondRowSeen ==
    ASSUME IInv, FrameInv, SecondRowInv, WalkFacts, pass = 2, NEW r \in R(2), NEW v, v = seen'[2][r.path],
           Sight(r.path, v), seen'[1][r.path] = seen[1][r.path]
    PROVE  SecondRowNext(r)
  <1> DEFINE p == r.path
  <1>0. TypeInv /\ TreeInv /\ WalkInv /\ HandledInv /\ RowInv /\ p \in Paths
    BY RowPath DEF IInv, SeenInv
  <1>1. Rowed(2, p)
    BY DEF Rowed
  <1>2. v \in {tree[p], None} /\ v # Unseen
    <2>1. v = Found(p) \/ v = tree[p]
      BY <1>0, <1>1, RowSight
    <2>2. tree[p] # Unseen
      BY <1>0, Somethings DEF TypeInv, Trees
    <2> QED
      BY <1>0, <2>1, <2>2, FoundIs, Somethings
  <1>3. BetweenNext(r)
    <2>1. Between(r)
      BY DEF SecondRowInv
    <2> QED
      BY <1>0, <1>2, <2>1, BetweenOn
  <1>4. (v # None /\ r.obj = Stat(v)) \/ RacedThen(2, p)
    <2>1. CASE Finished /\ p = entry.path /\ v = Found(p)
      <3>1. entry # None /\ step = "final"
        BY <1>0, <2>1 DEF Finished, WalkInv, PlaceInv, InWork
      <3>2. PICK s \in R(2) : s.path = p /\ s.obj = Stat(entry.obj)
        BY <2>1, <3>1 DEF IInv, SeenInv, HandledInv, RowOf
      <3>3. r.obj = Stat(entry.obj)
        BY <1>0, <3>2 DEF RowInv
      <3>4. CASE AsOpened
        <4>1. v # None /\ v = tree[p] /\ Stat(tree[p]) = Stat(entry.obj)
          BY <1>0, <2>1, <3>4, FoundIs DEF AsOpened, SameStat
        <4> QED
          BY <3>3, <4>1
      <3>5. CASE ~AsOpened
        BY <1>0, <2>1, <3>5, FinishRaces
      <3> QED
        BY <3>4, <3>5
    <2>2. CASE PassEnded /\ p = Root /\ v = tree[Root]
      <3>1. rows[2] # <<>> /\ rows[2][1].path = Root /\ rows[2] \in Seq(Rows)
        BY <2>2 DEF FrameInv, RootInv, PassEnded, IInv, TypeInv
      <3>2. rows[2][1] \in R(2)
        <4>1. 1 \in DOMAIN rows[2]
          BY <3>1
        <4> QED
          BY <4>1 DEF R, ToSet
      <3>3. rows[2][1] = r
        BY <1>0, <2>2, <3>1, <3>2 DEF RowInv
      <3>4. RootRow = r.obj /\ tree[Root] # None
        BY <1>0, <3>3 DEF RootRow, TreeInv
      <3>5. CASE RootRow # Stat(tree[Root])
        BY <1>0, <2>2, <3>5, RootRaces
      <3> QED
        BY <2>2, <3>4, <3>5
    <2> QED
      BY <1>0, <1>1, <2>1, <2>2, RowSight
  <1> QED
    BY <1>2, <1>3, <1>4, RowChanging DEF SecondRowNext

\* What is open was not what was seen first, if it is something else by now.
LEMMA ChangedSince ==
    ASSUME TypeInv, pass = 2, NEW p \in Paths, NEW o \in Objects, Handled(p, o), Saw(p), tree[p] # o
    PROVE  tree[p] # seen[1][p]
  <1> SUFFICES ASSUME tree[p] = seen[1][p] PROVE FALSE
    OBVIOUS
  <1>1. tree[p] \in Objects /\ tree[p] # None
    BY DEF TypeInv, Saw
  <1>2. Later(tree[p], o) /\ Later(o, tree[p])
    BY <1>1 DEF Handled, Known
  <1> QED
    BY <1>1, <1>2, NoLaterThan

LEMMA RootRowNew ==
    ASSUME IInv, WalkFacts, RootOpened, pass = 2, NEW r, r = RowFor(Root, tree[Root], None), HandledNext(Root, tree[Root])
    PROVE  SecondRowNext(r)
  <1>0. TypeInv /\ TreeInv /\ Root \in Paths
    BY PathFacts DEF IInv
  <1>1. r.path = Root /\ r.obj = Stat(tree[Root]) /\ r.hash = None
    BY RowForIs
  <1>2. seen'[2][Root] = tree[Root] /\ pass' = 2
    BY <1>0 DEF RootOpened, Looks
  <1>3. tree[Root] \in Objects /\ tree[Root].kind = "DIRECTORY" /\ tree[Root] # None
    BY <1>0 DEF TypeInv, TreeInv, Trees, Kinds
  <1>4. ~Unhashable(r)
    BY <1>1, <1>3, StatIs DEF Unhashable
  <1>5. BetweenNext(r)
    BY <1>1, <1>2, <1>3, LaterSelf DEF BetweenNext, HandledNext
  <1> QED
    BY <1>1, <1>2, <1>3, <1>4, <1>5, Somethings DEF SecondRowNext

LEMMA EntryRowNew ==
    ASSUME IInv, FrameInv, FirstInv, ReadInv, WalkFacts, pass = 2, pass' = 2, NEW r \in ToSet(rows'[2]), r \notin R(2),
           step \in {"open", "read", "hashed"}, r.path = entry.path, r.obj = Stat(entry.obj),
           HandledNext(entry.path, entry.obj)
    PROVE  SecondRowNext(r)
  <1>0. TypeInv /\ TreeInv /\ WalkInv
    BY DEF IInv
  <1>1. entry # None
    BY <1>0 DEF WalkInv, PlaceInv, InWork
  <1>2. /\ entry.path \in Paths \ {Root} /\ entry.obj \in Objects /\ Handled(entry.path, entry.obj)
        /\ stack # <<>> /\ Parent[entry.path] = Top.dir
    BY <1>1, EntryFacts DEF FrameInv
  <1>3. Parent[entry.path] \in Paths
    BY <1>2, PathFacts
  <1>4. Entered \/ FileRowed
    <2>1. ~NewRows({})
      BY DEF NewRows
    <2> QED
      BY <2>1 DEF WalkFacts, RootOpened, Listed, Left, Statted, StattedSome, Refused, FileOpened, FileRead, Finished, PassEnded
  <1>5. Looks({}, tree) /\ tree' = tree
    BY <1>4 DEF Entered, FileRowed, WalkFacts, Steady, site
  <1>6. \A k \in 1 .. 2 : \A q \in Paths : seen'[k][q] = seen[k][q]
    BY <1>5 DEF Looks
  <1>7. seen'[2][r.path] = entry.obj
    BY <1>2, <1>6 DEF ReadInv, InSecond
  <1>8. BetweenNext(r)
    BY <1>2, <1>7, LaterSelf DEF BetweenNext, HandledNext
  <1>9. ASSUME failures' = 0, Unhashable(r), seen'[1][r.path] \notin {None, Unseen}
        PROVE  ChangingNext(r.path)
    <2>1. tree[entry.path] # entry.obj /\ FileRowed
      BY <1>9, UnhashedChanged
    <2>2. Saw(entry.path)
      BY <1>2, <1>6, <1>9 DEF Saw
    <2>3. tree[entry.path] # seen[1][entry.path]
      BY <1>0, <1>2, <2>1, <2>2, ChangedSince
    <2>4. step' = "final" /\ entry'.path = entry.path
      BY <2>1 DEF FileRowed
    <2> QED
      BY <1>2, <1>5, <1>6, <1>9, <2>3, <2>4 DEF ChangingNext, InProgressNext
  <1>10. ASSUME seen'[1][r.path] = None
         PROVE  ChangingNext(Parent[r.path])
    <2>1. seen[1][entry.path] = None
      BY <1>2, <1>6, <1>10
    <2>2. tree[Parent[entry.path]] # seen[1][Parent[entry.path]]
      BY <2>1 DEF ReadInv, InSecond
    <2>3. Saw(Parent[entry.path])
      BY <1>2, <2>1 DEF FirstInv
    <2>4. Len(stack) \in DOMAIN stack /\ stack[Len(stack)].dir = Parent[entry.path]
      BY <1>2, TopFacts
    <2>5. InProgressNext(Parent[entry.path])
      BY <1>3, <2>4, StillInProgress
    <2> QED
      BY <1>3, <1>5, <1>6, <2>2, <2>3, <2>5 DEF ChangingNext, Saw
  <1> QED
    BY <1>2, <1>7, <1>8, <1>9, <1>10, Somethings DEF SecondRowNext

LEMMA SecondRowStep ==
    ASSUME IInv, FrameInv, FirstInv, SecondRowInv, ReadInv, SiteFacts \/ WalkFacts
    PROVE  SecondRowInv'
  <1>0. /\ TypeInv /\ TreeInv /\ WalkInv /\ FreshInv /\ SeenInv /\ HandledInv /\ SecondInv /\ pass \in 1 .. 2
    BY DEF IInv, SeenInv, TypeInv
  <1>1. SUFFICES ASSUME NEW r \in ToSet(rows'[2])
                 PROVE  SecondRowNext(r)
    BY SecondRowBy
  <1>2. pass = 2
    <2>1. pass # 2 => ToSet(rows'[2]) = R(2)
      BY <1>0, FoundKept
    <2> QED
      BY <1>0, <1>1, <2>1 DEF SecondInv
  <1>3. \A p \in Paths : seen'[1][p] = seen[1][p]
    <2>1. CASE SiteFacts
      BY <2>1 DEF SiteFacts, helper
    <2>2. CASE WalkFacts
      BY <1>0, <1>2, <2>2, SeenBy DEF SeenFacts
    <2> QED
      BY <2>1, <2>2
  <1>4. CASE r \in R(2)
    <2>1. r.path \in Paths
      BY <1>0, <1>4, RowPath
    <2>2. CASE seen'[2][r.path] = seen[2][r.path]
      BY <1>2, <1>3, <1>4, <2>1, <2>2, SecondRowSame
    <2>3. CASE seen'[2][r.path] # seen[2][r.path]
      <3>1. WalkFacts
        BY <2>3 DEF SiteFacts, helper
      <3>2. Sight(r.path, seen'[2][r.path])
        BY <1>0, <2>1, <2>3, <3>1, SightIs
      <3> QED
        BY <1>2, <1>3, <1>4, <2>1, <3>1, <3>2, SecondRowSeen
    <2> QED
      BY <2>2, <2>3
  <1>5. CASE r \notin R(2)
    <2>1. WalkFacts
      BY <1>1, <1>5 DEF SiteFacts, helper, R
    <2>2. /\ pass' = 2 /\ ~Rowed(2, r.path)
          /\ \E o \in Objects, h \in Nat \cup {None} :
                r = RowFor(r.path, o, h) /\ r.obj = Stat(o) /\ HandledNext(r.path, o) /\ Why(r.path, o, h) /\ r.path \in Paths
      BY <1>0, <1>1, <1>2, <1>5, <2>1, RowsOf
    <2>3. PICK o \in Objects, h \in Nat \cup {None} :
                r = RowFor(r.path, o, h) /\ r.obj = Stat(o) /\ HandledNext(r.path, o) /\ Why(r.path, o, h) /\ r.path \in Paths
      BY <2>2
    <2>4. CASE step = "root"
      <3>1. r = RowFor(Root, tree[Root], None) /\ HandledNext(Root, tree[Root])
        BY <2>3, <2>4 DEF Why
      <3>2. RootOpened
        BY <2>1, <2>4 DEF WalkFacts, RootOpened, Listed, Left, Statted, StattedSome, Refused, Entered, FileRowed,
               FileOpened, FileRead, Finished, PassEnded
      <3> QED
        BY <1>2, <2>1, <3>1, <3>2, RootRowNew
    <2>5. CASE step # "root"
      <3>1. r.path = entry.path /\ r.obj = Stat(entry.obj) /\ HandledNext(entry.path, entry.obj)
        BY <2>3, <2>5 DEF Why
      <3>2. step \in {"open", "read", "hashed"}
        BY <1>0, <1>2, <2>2, <2>3, <2>5, RowsAtFresh
      <3> QED
        BY <1>1, <1>2, <1>5, <2>1, <2>2, <3>1, <3>2, EntryRowNew
    <2> QED
      BY <2>4, <2>5
  <1> QED
    BY <1>4, <1>5

-----------------------------------------------------------------------------
(* Why there was no look at a path.                                        *)

LEMMA OneIssue ==
    ASSUME NEW r, NEW p, NEW d, NewIssues({Issue(r, p, d)}), NEW k \in 1 .. 2, NEW j \in ToSet(issues'[k]), j \notin I(k)
    PROVE  k = pass /\ j.path = p /\ j.reason = r
  <1>1. k = pass /\ j = Issue(r, p, d)
    BY DEF NewIssues
  <1> QED
    BY <1>1, IssueAt

\* What a new issue of a stat tells.
LEMMA MissedBy ==
    ASSUME WalkFacts, NEW k \in 1 .. 2, NEW j \in ToSet(issues'[k]), j \notin I(k), j.reason = "ENTRY_STAT_UNRESOLVED"
    PROVE  k = pass /\ j.path \in Top.left /\ StattedSome(j.path)
  <1>1. ~NewIssues({})
    BY DEF NewIssues
  <1>2. ASSUME NEW r, NEW p, NEW d, NewIssues({Issue(r, p, d)}), r # "ENTRY_STAT_UNRESOLVED" PROVE FALSE
    BY <1>2, OneIssue
  <1>3. ~(RootOpened \/ Listed \/ Entered \/ FileOpened \/ FileRead)
    BY <1>1 DEF RootOpened, Listed, Entered, FileOpened, FileRead
  <1>4. ~(Left \/ PassEnded)
    BY <1>1, <1>2 DEF Left, PassEnded
  <1>5. ~(Refused \/ Finished)
    BY <1>1, <1>2 DEF Refused, Finished
  <1>6. ~FileRowed
    BY DEF FileRowed, NewIssues, FileReasons
  <1>7. PICK p \in Top.left : StattedSome(p)
    BY <1>3, <1>4, <1>5, <1>6 DEF WalkFacts, Statted
  <1>8. NewIssues({Issue("ENTRY_STAT_UNRESOLVED", p, "stat")})
    BY <1>1, <1>7 DEF StattedSome
  <1>9. k = pass /\ j.path = p
    BY <1>8, OneIssue
  <1> QED
    BY <1>7, <1>9

LEMMA MissedStep ==
    ASSUME IInv, MissedInv, SiteFacts \/ WalkFacts
    PROVE  MissedInv'
  <1>0. /\ TypeInv /\ TreeInv /\ WalkInv /\ FreshInv /\ SeenInv /\ HandledInv /\ pass \in 1 .. 2
    BY DEF IInv, SeenInv, TypeInv
  <1> SUFFICES ASSUME NEW k \in 1 .. 2, NEW p \in Paths, NEW j \in ToSet(issues'[k]), j.path = p,
                      j.reason = "ENTRY_STAT_UNRESOLVED", NEW r \in ToSet(rows'[k]), r.path = p
               PROVE  FALSE
    BY DEF MissedInv, Missed, Rowed, I, R
  <1>1. CASE j \in I(k) /\ r \in R(k)
    BY <1>1 DEF MissedInv, Missed, Rowed
  <1>2. CASE SiteFacts
    BY <1>1, <1>2 DEF SiteFacts, helper, I, R
  <1>3. CASE WalkFacts /\ j \notin I(k)
    <2>1. k = pass /\ p \in Top.left /\ StattedSome(p)
      BY <1>3, MissedBy
    <2>2. r \in R(pass) /\ stack # <<>>
      BY <1>0, <2>1 DEF StattedSome, NewRows, WalkInv, PlaceInv
    <2>3. Len(stack) \in DOMAIN stack /\ Top = stack[Len(stack)]
      BY <1>0, <2>2, TopIs
    <2>4. ~Rowed(pass, p)
      BY <1>0, <2>1, <2>3 DEF FreshInv, Fresh, Untouched
    <2> QED
      BY <2>2, <2>4 DEF Rowed
  <1>4. CASE WalkFacts /\ j \in I(k) /\ r \notin R(k)
    <2>1. k = pass /\ ~Rowed(pass, p) /\ \E o, h : Why(p, o, h)
      BY <1>0, <1>4, RowsOf
    <2>2. ~Issued(pass, p)
      BY <1>0, <2>1, RowsAtFresh
    <2> QED
      BY <1>4, <2>1, <2>2 DEF Issued
  <1> QED
    BY <1>1, <1>2, <1>3, <1>4

LEMMA ParentStep ==
    ASSUME IInv, LiveInv, ParentInv, SiteFacts \/ WalkFacts
    PROVE  ParentInv'
  <1>0. /\ TypeInv /\ TreeInv /\ WalkInv /\ StackInv /\ FreshInv /\ SeenInv /\ HandledInv
    BY DEF IInv, SeenInv, WalkInv
  <1> SUFFICES ASSUME NEW k \in 1 .. 2, NEW r \in ToSet(rows'[k]), r.path \in Paths \ {Root}
               PROVE  \E s \in ToSet(rows'[k]) : s.path = Parent[r.path] /\ s.obj.kind = "DIRECTORY"
    BY DEF ParentInv, Rowed, Entrance, R
  <1>1. R(k) \subseteq ToSet(rows'[k])
    BY <1>0, FoundKept
  <1>2. CASE r \in R(k)
    BY <1>1, <1>2 DEF ParentInv, Rowed, Entrance
  <1>3. CASE r \notin R(k)
    <2>1. WalkFacts
      BY <1>3 DEF SiteFacts, helper, R
    <2>2. k = pass /\ \E o, h : Why(r.path, o, h)
      BY <1>0, <1>3, <2>1, RowsOf
    <2>3. r.path = entry.path /\ entry # None
      BY <2>2 DEF Why
    <2>4. stack # <<>> /\ Parent[r.path] = Top.dir
      BY <2>3, EntryFacts
    <2>5. Len(stack) \in DOMAIN stack /\ Top = stack[Len(stack)]
      BY <1>0, <2>4, TopIs
    <2>6. PICK s \in R(k) : s.path = Top.dir /\ s.obj = Stat(Top.obj)
      BY <1>0, <2>2, <2>5 DEF HandledInv, RowOf
    <2>7. s.obj.kind = "DIRECTORY"
      BY <1>0, <2>5, <2>6, StatIs DEF StackInv
    <2> QED
      BY <1>1, <2>4, <2>6, <2>7
  <1> QED
    BY <1>2, <1>3

AwaitedNext(k, p) ==
    /\ pass' = k
    /\ \/ step' = "list" /\ Top'.dir = Parent[p]
       \/ \E n \in DOMAIN stack' : p \in stack'[n].left

\* What is awaited in a directory that could not be listed is overtaken, or a
\* call failed.
LEMMA LeftIsOvertaken ==
    ASSUME IInv, Left, WalkFacts, step = "list", failures' = 0, NEW k \in 1 .. 2, k = pass
    PROVE  Overtaken(k, Top.dir)
  <1>0. TypeInv /\ SecondInv /\ stack # <<>>
    BY DEF IInv, WalkInv, PlaceInv
  <1>1. Len(stack) \in DOMAIN stack /\ Top = stack[Len(stack)] /\ Top.dir \in Paths /\ Top.obj \in Objects
        /\ Handled(Top.dir, Top.obj)
    BY <1>0, TopFacts
  <1>2. failures' # failures + 1
    BY <1>0 DEF TypeInv
  <1>3. Gone(Top.obj, Top.dir)
    BY <1>2 DEF Left
  <1>4. tree[Top.dir] # Top.obj
    BY <1>0, <1>3, TopFacts
  <1>5. CASE k = 1
    <2>1. seen[1][Top.dir] = Top.obj /\ Saw(Top.dir)
      BY <1>1, <1>5, Somethings DEF Handled, Saw
    <2> QED
      BY <1>0, <1>1, <1>4, <1>5, <2>1, PastInFirst DEF Overtaken
  <1>6. CASE k = 2
    <2>1. Saw(Top.dir) => tree[Top.dir] # seen[1][Top.dir]
      BY <1>0, <1>1, <1>4, <1>6, ChangedSince
    <2> QED
      BY <1>1, <1>6, <2>1 DEF Overtaken, Changing, InProgress
  <1> QED
    BY <1>5, <1>6

\* What is overtaken stays so.
LEMMA OvertakenKept ==
    ASSUME IInv, SiteFacts \/ WalkFacts, NEW k \in 1 .. 2, k = 2 => pass = 2, NEW q \in Paths, Overtaken(k, q)
    PROVE  Overtaken(k, q)'
  <1>0. TypeInv /\ TreeInv /\ WalkInv /\ SawInv
    BY DEF IInv, SeenInv
  <1>1. CASE k = 1
    <2>1. Past(q)
      BY <1>1 DEF Overtaken
    <2>2. Past(q)'
      BY <1>0, <2>1, PastKept
    <2> QED
      BY <1>1, <2>2 DEF Overtaken
  <1>2. CASE k = 2
    <2>1. seen'[1][q] = seen[1][q]
      <3>1. CASE SiteFacts
        BY <3>1 DEF SiteFacts, helper
      <3>2. CASE WalkFacts
        BY <1>0, <1>2, <3>2, SeenBy DEF SeenFacts
      <3> QED
        BY <3>1, <3>2
    <2>2. Saw(q) => ChangingNext(q)
      BY <1>2, ChangingKept DEF Overtaken
    <2>3. k # 1
      BY <1>2
    <2> QED
      BY <2>1, <2>2, <2>3 DEF Overtaken, Saw, Changing, ChangingNext, InProgress, InProgressNext
  <1> QED
    BY <1>1, <1>2

\* What is awaited is so after the step, or was looked at, or is missed.
LEMMA AwaitedKept ==
    ASSUME IInv, WalkFacts, NEW k \in 1 .. 2, NEW p \in Paths \ {Root}, Awaited(k, p), seen[k][p] = Unseen
    PROVE  \/ AwaitedNext(k, p) \/ seen'[k][p] # Unseen
           \/ /\ \E j \in ToSet(issues'[k]) : j.path = Parent[p] /\ j.reason = "DIRECTORY_READ_UNRESOLVED"
              /\ failures' = 0 => Overtaken(k, Parent[p])
           \/ /\ \E j \in ToSet(issues'[k]) : j.path = p /\ j.reason = "ENTRY_STAT_UNRESOLVED"
              /\ failures' # 0
  <1>0. TypeInv /\ TreeInv /\ WalkInv /\ PlaceInv /\ StackInv /\ k = pass /\ p \in Below(Parent[p]) /\ Unseen # None
    BY PathFacts, Somethings DEF IInv, WalkInv, Awaited
  <1>1. stack # <<>>
    <2>1. DOMAIN <<>> = {}
      OBVIOUS
    <2> QED
      BY <1>0, <2>1 DEF Awaited, PlaceInv
  <1>2. /\ Len(stack) \in DOMAIN stack /\ Top = stack[Len(stack)] /\ Top.dir \in Paths
        /\ Top.names \in SUBSET Paths /\ Top.left \in SUBSET Paths
        /\ DOMAIN stack = 1 .. Len(stack) /\ Len(stack) \in Nat
    BY <1>0, <1>1, TopIs, StackBase
  <1>3. step = "list" => Top.left = {}
    BY <1>0, <1>2 DEF PlaceInv, StackInv
  <1>4. pass' = pass
    BY <1>0, <1>1, SamePass DEF PassEnded, PlaceInv
  <1>5. SUFFICES ASSUME ~AwaitedNext(k, p)
                 PROVE  \/ seen'[k][p] # Unseen
                        \/ /\ \E j \in ToSet(issues'[k]) : j.path = Parent[p] /\ j.reason = "DIRECTORY_READ_UNRESOLVED"
                           /\ failures' = 0 => Overtaken(k, Parent[p])
                        \/ /\ \E j \in ToSet(issues'[k]) : j.path = p /\ j.reason = "ENTRY_STAT_UNRESOLVED"
                           /\ failures' # 0
    OBVIOUS
  <1>6. ~(step' = "list" /\ Top'.dir = Parent[p]) /\ \A n \in DOMAIN stack' : p \notin stack'[n].left
    BY <1>0, <1>4, <1>5 DEF AwaitedNext
  <1>7. CASE Listed
    <2>1. There(Top.dir) \in SUBSET Paths
      BY <1>2, PathFacts DEF There
    <2>2. Restacked(There(Top.dir), There(Top.dir))
      BY <1>0, <1>1, <1>7, <2>1, RestackedBy DEF Listed
    <2>3. Top.dir = Parent[p]
      BY <1>2, <1>3, <1>6, <1>7, <2>2 DEF Awaited, Restacked, Listed
    <2>4. p \notin There(Top.dir)
      BY <1>2, <1>6, <2>2 DEF Restacked
    <2>5. Looks(Below(Top.dir) \ There(Top.dir), tree) /\ tree[p] = None
      BY <1>0, <1>7, <2>3, <2>4 DEF Listed, There
    <2> QED
      BY <1>0, <2>3, <2>4, <2>5 DEF Looks
  <1>8. CASE Left
    <2>1. Unstacked
      BY <1>0, <1>1, <1>8, UnstackedBy DEF Left
    <2>2. \A n \in DOMAIN stack : p \notin stack[n].left
      <3> SUFFICES ASSUME NEW n \in DOMAIN stack, p \in stack[n].left PROVE FALSE
        OBVIOUS
      <3>1. n # Len(stack)
        BY <1>2, <1>3, <1>8 DEF Left
      <3>2. n \in DOMAIN stack'
        BY <1>2, <2>1, <3>1 DEF Unstacked
      <3> QED
        BY <1>6, <2>1, <3>2 DEF Unstacked
    <2>3. step = "list" /\ Top.dir = Parent[p]
      BY <2>2 DEF Awaited
    <2>4. NewIssues({Issue("DIRECTORY_READ_UNRESOLVED", Top.dir, "getdents")})
      BY <1>8, <2>3 DEF Left
    <2> QED
      BY <1>0, <1>8, <2>3, <2>4, AddedIssue, LeftIsOvertaken
  <1>9. CASE Statted
    <2>1. PICK q \in Top.left : StattedSome(q)
      BY <1>9 DEF Statted
    <2>2. Restacked(Top.names, Top.left \ {q})
      BY <1>0, <1>1, <1>2, <2>1, RestackedBy DEF StattedSome
    <2>3. PICK n \in DOMAIN stack : p \in stack[n].left
      BY <2>1 DEF Awaited, StattedSome
    <2>4. n = Len(stack) /\ q = p
      BY <1>2, <1>6, <2>2, <2>3 DEF Restacked
    <2>5. CASE LooksAt(p)
      <3>1. seen'[k][p] = Found(p)
        BY <1>0, <2>5, LooksAtFound
      <3> QED
        BY <1>0, <3>1, FoundIs, Somethings
    <2>6. CASE ~LooksAt(p)
      <3>1. failures' = failures + 1 /\ NewIssues({Issue("ENTRY_STAT_UNRESOLVED", p, "stat")})
        BY <2>1, <2>4, <2>6 DEF StattedSome
      <3>2. failures' # 0
        BY <1>0, <3>1 DEF TypeInv
      <3> QED
        BY <1>0, <3>1, <3>2, AddedIssue
    <2> QED
      BY <2>5, <2>6
  <1>10. CASE Entered
    <2>1. entry.path \in Paths /\ entry.obj \in Objects
      BY <1>0, <1>10, EntryIs DEF Entered, InWork
    <2>2. Stacked(entry.path, entry.obj) /\ step # "list"
      BY <1>0, <1>10, <2>1, StackedBy DEF Entered
    <2>3. PICK n \in DOMAIN stack : p \in stack[n].left
      BY <2>2 DEF Awaited
    <2> QED
      BY <1>2, <1>6, <2>2, <2>3 DEF Stacked
  <1>11. CASE Refused \/ Finished \/ FileRowed \/ FileOpened \/ FileRead
    <2>1. stack' = stack /\ step # "list"
      BY <1>11 DEF Refused, Finished, FileRowed, FileOpened, FileRead
    <2> QED
      BY <1>6, <2>1 DEF Awaited
  <1>12. CASE RootOpened \/ PassEnded
    BY <1>0, <1>1, <1>12 DEF RootOpened, PassEnded, PlaceInv
  <1> QED
    BY <1>7, <1>8, <1>9, <1>10, <1>11, <1>12 DEF WalkFacts

\* What is in a directory that gets its row is awaited.
LEMMA EntranceAwaits ==
    ASSUME IInv, WalkFacts, NEW k \in 1 .. 2, NEW p \in Paths \ {Root},
           NEW r \in ToSet(rows'[k]), r \notin R(k), r.path = Parent[p], r.obj.kind = "DIRECTORY"
    PROVE  AwaitedNext(k, p)
  <1>0. TypeInv /\ TreeInv /\ WalkInv /\ FreshInv /\ SeenInv
    BY DEF IInv
  <1>1. k = pass /\ pass' = pass /\ \E o, h : Why(r.path, o, h) /\ r.obj = Stat(o)
    BY <1>0, RowsOf
  <1>2. ~NewRows({})
    BY DEF NewRows
  <1>3. RootOpened \/ Entered \/ FileRowed
    BY <1>2 DEF WalkFacts, Listed, Left, Statted, StattedSome, Refused, FileOpened, FileRead, Finished, PassEnded
  <1>4. CASE RootOpened
    <2>1. Parent[p] = Root
      BY <1>1, <1>4 DEF Why, RootOpened
    <2>2. Len(stack') = 1 /\ stack'[1] = [dir |-> Root, obj |-> tree[Root], names |-> {}, left |-> {}]
      BY <1>4 DEF RootOpened
    <2>3. Top'.dir = Root
      BY <2>2 DEF Top, Last
    <2> QED
      BY <1>1, <1>4, <2>1, <2>3 DEF AwaitedNext, RootOpened
  <1>5. CASE Entered
    <2>1. entry.path \in Paths /\ entry.obj \in Objects
      BY <1>0, <1>5, EntryIs DEF Entered, InWork
    <2>2. Stacked(entry.path, entry.obj)
      BY <1>0, <1>5, <2>1, StackedBy DEF Entered
    <2>3. Parent[p] = entry.path
      BY <1>1, <1>5 DEF Why, Entered
    <2> QED
      BY <1>1, <1>5, <2>2, <2>3 DEF AwaitedNext, Entered, Stacked
  <1>6. CASE FileRowed
    <2>1. r.obj = Stat(entry.obj)
      BY <1>1, <1>6 DEF Why, FileRowed
    <2> QED
      BY <1>6, <2>1, StatIs DEF FileRowed
  <1> QED
    BY <1>3, <1>4, <1>5, <1>6

LEMMA LookStep ==
    ASSUME IInv, LookInv, SiteFacts \/ WalkFacts
    PROVE  LookInv'
  <1>0. TypeInv /\ WalkInv /\ SecondInv /\ pass \in 1 .. 2
    BY DEF IInv, TypeInv
  <1>1. SUFFICES ASSUME NEW k \in 1 .. 2, NEW p \in Paths \ {Root}, seen'[k][p] = Unseen,
                        NEW r \in ToSet(rows'[k]), r.path = Parent[p], r.obj.kind = "DIRECTORY"
                 PROVE  \/ AwaitedNext(k, p)
                        \/ /\ \/ \E j \in ToSet(issues'[k]) : j.path = Parent[p] /\ j.reason = "DIRECTORY_READ_UNRESOLVED"
                              \/ \E j \in ToSet(issues'[k]) : j.path = p /\ j.reason = "ENTRY_STAT_UNRESOLVED"
                           /\ failures' = 0 => Overtaken(k, Parent[p])'
    BY DEF LookInv, Entrance, R, I, Unread, Missed, Awaited, AwaitedNext
  <1>2. Parent[p] \in Paths
    BY PathFacts
  <1>3. CASE r \notin R(k)
    <2>1. WalkFacts
      BY <1>3 DEF SiteFacts, helper, R
    <2> QED
      BY <1>1, <1>3, <2>1, EntranceAwaits
  <1>4. CASE r \in R(k)
    <2>1. k = 2 => pass = 2
      BY <1>0, <1>4 DEF SecondInv
    <2>2. seen[k][p] = Unseen
      <3>1. CASE SiteFacts
        BY <1>1, <3>1 DEF SiteFacts, helper
      <3>2. CASE WalkFacts
        <4>1. Sight(p, seen'[k][p]) => FALSE
          <5>1. tree[p] # Unseen /\ tree[Root] # Unseen /\ None # Unseen
            BY <1>0, PathFacts, Somethings DEF TypeInv, Trees
          <5>2. Found(p) # Unseen
            BY <1>0, <5>1, FoundIs
          <5> QED
            BY <1>1, <5>1, <5>2 DEF Sight
        <4> QED
          BY <1>0, <1>1, <3>2, <4>1, SightIs
      <3> QED
        BY <3>1, <3>2
    <2>3. Overtaken(k, Parent[p]) => Overtaken(k, Parent[p])'
      BY <1>2, <2>1, OvertakenKept
    <2>4. I(k) \subseteq ToSet(issues'[k]) /\ (failures' = 0 => failures = 0)
      BY <1>0, FoundKept
    <2>5. \/ Awaited(k, p)
          \/ (Unread(k, Parent[p]) \/ Missed(k, p)) /\ (failures = 0 => Overtaken(k, Parent[p]))
      BY <1>1, <1>4, <2>2 DEF LookInv, Entrance
    <2>6. CASE Awaited(k, p)
      <3>1. CASE SiteFacts
        BY <2>6, <3>1 DEF SiteFacts, helper, Awaited, AwaitedNext, Top
      <3>2. CASE WalkFacts
        BY <1>1, <2>2, <2>3, <2>6, <3>2, AwaitedKept
      <3> QED
        BY <3>1, <3>2
    <2>7. CASE (Unread(k, Parent[p]) \/ Missed(k, p)) /\ (failures = 0 => Overtaken(k, Parent[p]))
      BY <2>3, <2>4, <2>7 DEF Unread, Missed
    <2> QED
      BY <2>5, <2>6, <2>7
  <1> QED
    BY <1>3, <1>4

-----------------------------------------------------------------------------
(* What is reported, and what is said of it.                               *)

LEMMA FullInit ==
    ASSUME Init
    PROVE  Full
  <1>1. IInv
    BY IInvInit
  <1>2. /\ rows[1] = <<>> /\ rows[2] = <<>> /\ issues[1] = <<>> /\ issues[2] = <<>> /\ DOMAIN stack = {}
        /\ pass = 1 /\ step = "root" /\ entry = None
        /\ \A p \in Paths : seen[1][p] = Unseen /\ seen[2][p] = Unseen
    BY DEF Init
  <1>3. R(1) = {} /\ R(2) = {} /\ I(1) = {} /\ I(2) = {}
    BY <1>2 DEF R, I, ToSet
  <1>4. NamesInv /\ LiveInv
    BY <1>2 DEF NamesInv, LiveInv
  <1>5. RootInv
    <2>1. \A k \in 1 .. 2 : rows[k] = <<>>
      BY <1>2
    <2> QED
      BY <1>2, <2>1 DEF RootInv
  <1>6. RefusedInv /\ UnhashedInv /\ SecondRowInv /\ ReadInv
    <2>1. \A k \in 1 .. 2 : R(k) = {} /\ I(k) = {}
      BY <1>3
    <2> QED
      BY <1>2, <1>3, <2>1 DEF RefusedInv, RefusedAt, UnhashedInv, SecondRowInv, ReadInv, InSecond
  <1>7. FirstInv /\ LastInv
    BY <1>2, <1>3, Somethings DEF FirstInv, LastInv, Raced, Saw
  <1>8. LookedInv
    BY <1>3 DEF LookedInv, MissedInv, Missed, ParentInv, Rowed, LookInv, Entrance
  <1> QED
    BY <1>1, <1>4, <1>5, <1>6, <1>7, <1>8 DEF Full, FrameInv, WatchInv

LEMMA FullStutter ==
    ASSUME Full, UNCHANGED vars
    PROVE  Full'
  <1>1. IInv'
    BY IInvStutter DEF Full
  <1>2. NamesInv' /\ LiveInv' /\ RootInv'
    BY DEF Full, FrameInv, vars, site, helper, NamesInv, HasNames, Named, There, Rowed, R, Saw, LiveInv, Gone, Top, RootInv
  <1>3. RefusedInv' /\ UnhashedInv' /\ FirstInv'
    BY DEF Full, WatchInv, vars, site, helper, RefusedInv, RefusedAt, UnhashedInv, Unhashable, FirstInv, Raced, Rowed,
           R, I, Saw, Past
  <1>4. SecondRowInv'
    BY DEF Full, WatchInv, vars, site, helper, SecondRowInv, Between, Known, Saw, R, I, Raced, Unhashable, Changing, InProgress
  <1>5. LastInv' /\ ReadInv'
    BY DEF Full, WatchInv, vars, site, helper, LastInv, ReadInv, InSecond, Rowed, Raced, RefusedAt, R, I, Saw
  <1>6. MissedInv' /\ ParentInv'
    BY DEF Full, LookedInv, vars, site, helper, MissedInv, Missed, ParentInv, Rowed, Entrance, R, I
  <1>7. LookInv'
    BY DEF Full, LookedInv, vars, site, helper, LookInv, Entrance, R, I, Unread, Missed, Awaited, Top, Overtaken, Past,
           Saw, Changing, InProgress
  <1> QED
    BY <1>1, <1>2, <1>3, <1>4, <1>5, <1>6, <1>7 DEF Full, FrameInv, WatchInv, LookedInv

LEMMA FullStep ==
    ASSUME Full, [Next]_vars
    PROVE  Full'
  <1>1. CASE UNCHANGED vars
    BY <1>1, FullStutter
  <1>2. CASE Next
    <2>1. TypeInv /\ TreeInv /\ WalkInv /\ IInv /\ FrameInv /\ WatchInv /\ LookedInv
      BY DEF Full, IInv
    <2>2. SiteFacts \/ (Walk /\ WalkFacts)
      BY <1>2, <2>1, SiteStep, WalkIs DEF Next
    <2>3. IInv'
      BY <1>2, <2>1, IInvStep
    <2>4. FrameInv'
      BY <2>1, <2>2, NamesStep, LiveStep, RootStep DEF FrameInv
    <2>5. RefusedInv' /\ FirstInv' /\ UnhashedInv'
      BY <2>1, <2>2, RefusedStep, FirstStep, UnhashedStep DEF WatchInv
    <2>6. SecondRowInv' /\ LastInv' /\ ReadInv'
      BY <2>1, <2>2, SecondRowStep, LastStep, ReadStep DEF WatchInv
    <2>7. LookedInv'
      BY <2>1, <2>2, MissedStep, ParentStep, LookStep DEF LookedInv, FrameInv
    <2> QED
      BY <2>3, <2>4, <2>5, <2>6, <2>7 DEF Full, WatchInv
  <1> QED
    BY <1>1, <1>2

\* The invariant above and what the second pass sees, of every reachable state.
THEOREM FullInvariant == Spec => []Full
  <1>1. Init => Full
    BY FullInit
  <1>2. Full /\ [Next]_vars => Full'
    BY FullStep
  <1> QED
    BY <1>1, <1>2, PTL DEF Spec

\* Whatever the first pass of displaced-inventory-helper.c looked at first and
\* the second looked at last, and is not the same, is in a delta or in an issue of
\* the drift, at its path or above it; but for what is in a directory that both
\* passes failed to open, whose issues are the same and are passed over.
THEOREM ChangesAreReported == Spec => []NothingUnreported
  <1>1. Full => NothingUnreported
    BY UnreportedIs DEF Full
  <1> QED
    BY <1>1, FullInvariant, PTL

\* What a delta calls REPLACED is another thing when the second pass of
\* displaced-inventory-helper.c last looks than when the first pass first looked.
\* What it calls DELETED went, or a directory above it did, or an issue of the
\* second pass says that it or a directory above it could not be listed, opened or
\* stat'ed; of CREATED likewise, with the first pass.  Where no call failed, the
\* passes saw the path, or a directory above it, differ.
THEOREM DeltasAreTrue == Spec => []ChangesAreTrue
  <1>1. Full => ChangesAreTrue
    BY TrueIs
  <1> QED
    BY <1>1, FullInvariant, PTL

=============================================================================

---------------------------- MODULE StepTreeProofs ----------------------------
(***************************************************************************)
(* What an execution of a step promises, for every tree of wrappers and    *)
(* composites: what it commits, what it reports, what it may start and the *)
(* error it ends with, however failures, timeouts and cancellations meet.  *)
(***************************************************************************)
EXTENDS StepTree, ProofLemmas

-----------------------------------------------------------------------------
(* The tree. *)

Parent(n) == tree.parent[n]

\* Each node but the root has a parent before it.
LEMMA TreeShape ==
  ASSUME tree \in Trees
  PROVE  /\ Nodes \subseteq Nat /\ Nodes = 1..Len(tree.kind) /\ Len(tree.kind) \in Nat /\ Root \in Nodes
         /\ Parent(Root) = 0 /\ 0 \notin Nodes
         /\ \A n \in Nodes : n # Root => Parent(n) \in Nodes /\ Parent(n) < n
         /\ \A n \in Nodes : Kind(n) \in Kinds
<1>1. /\ tree.kind \in Seq(Kinds) /\ tree.kind # <<>>
      /\ tree.parent \in [Node(tree) -> Node(tree) \union {0}]
      /\ \A n \in Node(tree) : n = 1 <=> tree.parent[n] = 0
      /\ \A n \in Node(tree) \ {1} : tree.parent[n] < n
  BY TreesAssumption
<1>2. Len(tree.kind) \in Nat /\ Len(tree.kind) # 0 /\ Node(tree) = 1..Len(tree.kind)
  BY <1>1 DEF Node
<1>3. 1 \in Node(tree) /\ 0 \notin Node(tree) /\ Node(tree) \subseteq Nat
  BY <1>2
<1>. QED
  BY <1>1, <1>2, <1>3 DEF Nodes, Root, Parent, Kind

\* A recursion along the parents of a tree defines a function.
LEMMA ParentsDefine ==
  ASSUME NEW L \in Nat, NEW p, \A n \in (1..L) \ {1} : p[n] \in 1..L /\ p[n] < n
  PROVE  \E f : f = [n \in 1..L |-> IF n = 1 THEN {} ELSE {p[n]} \union f[p[n]]]
<1>. DEFINE Fits(f, k) == f = [n \in 1..k |-> IF n = 1 THEN {} ELSE {p[n]} \union f[p[n]]]
            Defined(k) == \E f : Fits(f, k)
            Bad == {k \in 0..L : ~Defined(k)}
<1>1. ASSUME Bad # {}
      PROVE  FALSE
  <2>. DEFINE k == Min(Bad)
  <2>. HIDE DEF Defined
  <2>0. Bad \in SUBSET Nat
    OBVIOUS
  <2>1. k \in Bad /\ \A x \in Bad : k <= x
    <3>. HIDE DEF Bad
    <3>. QED
      BY <1>1, <2>0, MinIn
  <2>. HIDE DEF k
  <2>2. k \in 0..L /\ ~Defined(k)
    BY <2>1
  <2>3. k # 0
    <3>1. Fits([n \in 1..0 |-> {}], 0)
      OBVIOUS
    <3>. QED
      BY <2>2, <3>1 DEF Defined
  <2>4. k - 1 \in 0..L /\ k - 1 \notin Bad
    <3>1. k - 1 \in 0..L /\ ~(k <= k - 1)
      BY <2>2, <2>3
    <3>. QED
      BY <2>1, <3>1
  <2>5. PICK g : Fits(g, k - 1)
    BY <2>4 DEF Defined
  <2>. DEFINE f == [n \in 1..k |-> IF n = 1 THEN {} ELSE {p[n]} \union g[p[n]]]
  <2>6. ASSUME NEW n \in 1..k, n # 1
        PROVE  p[n] \in 1..(k - 1) /\ f[p[n]] = g[p[n]]
    <3>1. n \in 1..L /\ p[n] \in 1..L /\ p[n] < n
      BY <2>2, <2>6
    <3>2. p[n] \in 1..(k - 1) /\ p[n] \in 1..k
      BY <2>2, <3>1
    <3>3. g[p[n]] = IF p[n] = 1 THEN {} ELSE {p[p[n]]} \union g[p[p[n]]]
      BY <2>5, <3>2
    <3>4. f[p[n]] = IF p[n] = 1 THEN {} ELSE {p[p[n]]} \union g[p[p[n]]]
      BY <3>2
    <3>. QED
      BY <3>2, <3>3, <3>4
  <2>7. f = [n \in 1..k |-> IF n = 1 THEN {} ELSE {p[n]} \union f[p[n]]]
    BY <2>6
  <2>. QED
    BY <2>2, <2>7 DEF Defined
<1>2. Defined(L)
  <2>. HIDE DEF Defined
  <2>1. L \in 0..L
    OBVIOUS
  <2>. QED
    BY <1>1, <2>1
<1>. QED
  BY <1>2 DEF Defined

\* What is around a node: its parent, and what is around that.
LEMMA AncestorsAre ==
  ASSUME tree \in Trees
  PROVE  Ancestors = [n \in Nodes |-> IF n = Root THEN {} ELSE {Parent(n)} \union Ancestors[Parent(n)]]
<1>. DEFINE L == Len(tree.kind)
            p == tree.parent
            Around(f) == [n \in Nodes |-> IF n = Root THEN {} ELSE {tree.parent[n]} \union f[tree.parent[n]]]
<1>1. L \in Nat /\ Nodes = 1..L /\ \A n \in (1..L) \ {1} : p[n] \in 1..L /\ p[n] < n
  BY TreeShape DEF Parent, Root
<1>. HIDE DEF L, p
<1>2. \E f : f = [n \in 1..L |-> IF n = 1 THEN {} ELSE {p[n]} \union f[p[n]]]
  BY <1>1, ParentsDefine
<1>3. \E f : f = Around(f)
  BY <1>1, <1>2 DEF Root, p
<1>4. Ancestors = CHOOSE f : f = Around(f)
  BY DEF Ancestors
<1>. HIDE DEF Around
<1>5. Ancestors = Around(Ancestors)
  BY <1>3, <1>4
<1>. QED
  BY <1>5 DEF Around, Parent

\* What is around a node comes before it, and is a path from the root to its parent.
Path(n) ==
  /\ \A a \in Ancestors[n] : a \in Nodes /\ a < n /\ Ancestors[a] \subseteq Ancestors[n]
  /\ \A a \in Ancestors[n] : a = Parent(n) \/ \E b \in Ancestors[n] : b # Root /\ Parent(b) = a
  /\ n # Root => Root \in Ancestors[n]
  /\ \A a \in Ancestors[n], b \in Ancestors[n] : a = b \/ a \in Ancestors[b] \/ b \in Ancestors[a]

LEMMA Paths ==
  ASSUME tree \in Trees
  PROVE  \A n \in Nodes : Path(n)
<1>. DEFINE Bad == {n \in Nodes : ~Path(n)}
<1>1. Bad \in SUBSET Nat
  BY TreeShape
<1>2. ASSUME Bad # {}
      PROVE  FALSE
  <2>. DEFINE n == Min(Bad)
  <2>. HIDE DEF Bad
  <2>1. n \in Bad /\ \A x \in Bad : n <= x
    BY <1>1, <1>2, MinIn
  <2>. HIDE DEF n
  <2>. USE DEF Bad
  <2>2. n \in Nodes /\ ~Path(n)
    BY <2>1
  <2>3. CASE n = Root
    <3>1. Ancestors[n] = {}
      BY <2>2, <2>3, AncestorsAre
    <3>. QED
      BY <2>2, <2>3, <3>1 DEF Path
  <2>4. CASE n # Root
    <3>. DEFINE p == Parent(n)
    <3>1. p \in Nodes /\ p < n /\ p \in Nat /\ n \in Nat /\ Nodes \subseteq Nat
      BY <2>2, <2>4, TreeShape
    <3>2. Path(p)
      BY <2>1, <3>1
    <3>3. Ancestors[n] = {p} \union Ancestors[p]
      BY <2>2, <2>4, AncestorsAre
    <3>. HIDE DEF p
    <3>4. \A a \in Ancestors[n] : a \in Nodes /\ a < n /\ Ancestors[a] \subseteq Ancestors[n]
      <4>1. \A a \in Ancestors[p] : a \in Nodes /\ a < p /\ Ancestors[a] \subseteq Ancestors[p]
        BY <3>2 DEF Path
      <4>2. ASSUME NEW a \in Ancestors[p]
            PROVE  a < n
        <5>1. a \in Nat /\ a < p
          BY <3>1, <4>1
        <5>. QED
          BY <3>1, <5>1
      <4>. QED
        BY <3>1, <3>3, <4>1, <4>2
    <3>5. \A a \in Ancestors[n] : a = p \/ \E b \in Ancestors[n] : b # Root /\ Parent(b) = a
      <4>1. \A a \in Ancestors[p] : a = Parent(p) \/ \E b \in Ancestors[p] : b # Root /\ Parent(b) = a
        BY <3>2 DEF Path
      <4>2. CASE p = Root
        <5>1. Ancestors[p] = {}
          BY <3>1, <4>2, AncestorsAre
        <5>. QED
          BY <3>3, <5>1
      <4>3. CASE p # Root
        BY <3>3, <4>1, <4>3
      <4>. QED
        BY <4>2, <4>3
    <3>6. Root \in Ancestors[n]
      BY <3>2, <3>3 DEF Path
    <3>7. \A a \in Ancestors[n], b \in Ancestors[n] : a = b \/ a \in Ancestors[b] \/ b \in Ancestors[a]
      BY <3>2, <3>3 DEF Path
    <3>. QED
      BY <2>2, <3>4, <3>5, <3>6, <3>7 DEF Path, p
  <2>. QED
    BY <2>3, <2>4
<1>. QED
  BY <1>2

\* What is around a child is its parent and what is around that.
LEMMA ChildIs ==
  ASSUME tree \in Trees, NEW n \in Nodes, NEW c \in Children(n)
  PROVE  /\ c \in Nodes /\ c # Root /\ Parent(c) = n /\ c # n
         /\ Ancestors[c] = {n} \union Ancestors[n]
<1>1. c \in Nodes /\ tree.parent[c] = n
  BY DEF Children
<1>2. c # Root
  BY <1>1, TreeShape DEF Parent
<1>3. Parent(c) = n /\ Parent(c) < c /\ n \in Nat
  BY <1>1, <1>2, TreeShape DEF Parent
<1>. QED
  BY <1>1, <1>2, <1>3, AncestorsAre

\* A node inside another is one of its children, or inside one.
LEMMA InsideIs ==
  ASSUME tree \in Trees, NEW n \in Nodes, NEW m \in Nodes, n \in Ancestors[m]
  PROVE  \E c \in Children(n) : m = c \/ c \in Ancestors[m]
<1>1. Path(m) /\ m # Root
  BY Paths, AncestorsAre
<1>2. n = Parent(m) \/ \E b \in Ancestors[m] : b # Root /\ Parent(b) = n
  BY <1>1 DEF Path
<1>3. \A b \in Ancestors[m] : b \in Nodes
  BY <1>1 DEF Path
<1>. QED
  BY <1>1, <1>2, <1>3 DEF Children, Parent

\* Nodes are inside one another in one order only.
LEMMA OrderIs ==
  ASSUME tree \in Trees
  PROVE  /\ \A n \in Nodes : n \notin Ancestors[n] /\ Ancestors[n] \subseteq Nodes
         /\ \A n \in Nodes : \A a \in Ancestors[n] : n \notin Ancestors[a] /\ Ancestors[a] \subseteq Ancestors[n]
         /\ \A n \in Nodes : n # Root => Root \in Ancestors[n] /\ Parent(n) \in Ancestors[n]
                                         /\ Ancestors[n] = {Parent(n)} \union Ancestors[Parent(n)]
         /\ Ancestors[Root] = {}
<1>1. \A n \in Nodes : \A a \in Ancestors[n] : a \in Nodes /\ a < n /\ Ancestors[a] \subseteq Ancestors[n]
  BY Paths DEF Path
<1>2. \A n \in Nodes : n \in Nat
  BY TreeShape
<1>3. \A n \in Nodes : n \notin Ancestors[n] /\ Ancestors[n] \subseteq Nodes
  BY <1>1, <1>2
<1>4. \A n \in Nodes : n # Root => Root \in Ancestors[n]
  BY Paths DEF Path
<1>5. \A n \in Nodes : n # Root => Parent(n) \in Ancestors[n] /\ Ancestors[n] = {Parent(n)} \union Ancestors[Parent(n)]
  BY AncestorsAre
<1>6. Ancestors[Root] = {}
  BY AncestorsAre, TreeShape
<1>. QED
  BY <1>1, <1>3, <1>4, <1>5, <1>6

\* Two nodes around or at a third are one inside the other.
LEMMA BelowBoth ==
  ASSUME tree \in Trees, NEW a \in Nodes, NEW b \in Nodes, NEW m \in Nodes, m \in Below(a), m \in Below(b)
  PROVE  a = b \/ a \in Ancestors[b] \/ b \in Ancestors[a]
<1>1. Path(m)
  BY Paths
<1>. QED
  BY <1>1 DEF Path, Below

-----------------------------------------------------------------------------
(* The types. *)

PCs == {"idle", "start", "run", "wait", "done", "listed", "over"}

Act == {"run", "wait"}

Over == {"done", "listed", "over"}

Statuses == {"running", "held", "ok", "failed"}

Work == Nodes \X Nat

\* What the leaves at or inside a node do.
Mine(n) == {w \in Work : w[1] \in Below(n)}

Entries == {e \in [node : Nodes, staged : SUBSET Work] : e.staged \subseteq Mine(e.node)}

LogType ==
  [execs : [Nodes -> Seq(Statuses)],
   hold  : [exec : {<<>>} \union Work, waits : SUBSET Entries],
   cache : [Nodes -> SUBSET Entries]]

FateType == [worked : SUBSET Work, since : [Nodes -> SUBSET Work], dropped : SUBSET Work]

TypeInv ==
  /\ tree \in Trees
  /\ pc \in [Nodes -> PCs]
  /\ ended \in {"no", "canceled", "budget"}
  /\ inner \in [Nodes -> Causes]
  /\ count \in [Nodes -> Nat]
  /\ failures \in [Nodes -> Seq(Errors)]
  /\ result \in [Nodes -> Errors]
  /\ staged \in [Nodes -> SUBSET Work]
  /\ log \in LogType
  /\ verdict \in {"running", "committed", "failed"}
  /\ fate \in FateType

-----------------------------------------------------------------------------
(* The records of the executions. *)

\* The nodes whose execution has begun and is not reported.
Running == {n \in Nodes : ~IsWrapper(n) /\ pc[n] = "run"}

\* Each cached result is filed under the node it is of.
Filed(l) == \A n \in Nodes : \A e \in l.cache[n] : e.node = n

\* The latest execution of each node of R runs, the hold holds one, and every other is reported.
LogFits(l, R) ==
  /\ l \in LogType
  /\ \A n \in Nodes : \A k \in 1..Len(l.execs[n]) :
       /\ l.execs[n][k] = "running" => n \in R /\ k = Len(l.execs[n])
       /\ l.execs[n][k] = "held" => l.hold.exec = <<n, k>>
  /\ \A n \in R : l.execs[n] # <<>> /\ l.execs[n][Len(l.execs[n])] = "running"
  /\ l.hold.exec # <<>> =>
       /\ IsWrapper(Root)
       /\ \E n \in Nodes : \E k \in 1..Len(l.execs[n]) :
            l.hold.exec = <<n, k>> /\ l.execs[n][k] = "held"
  /\ Filed(l)

\* r has the records of l, but that n's k-th execution is how.
Marked(l, r, n, k, how) ==
  /\ r.execs \in [Nodes -> Seq(Statuses)]
  /\ \A m \in Nodes : m # n => r.execs[m] = l.execs[m]
  /\ Len(r.execs[n]) = Len(l.execs[n]) /\ r.execs[n][k] = how
  /\ \A i \in 1..Len(l.execs[n]) : i # k => r.execs[n][i] = l.execs[n][i]

\* The parts of a log.
LEMMA LogParts ==
  ASSUME NEW l \in LogType
  PROVE  /\ l.execs \in [Nodes -> Seq(Statuses)]
         /\ l.hold \in [exec : {<<>>} \union Work, waits : SUBSET Entries]
         /\ l.hold.exec \in {<<>>} \union Work /\ l.hold.waits \in SUBSET Entries
         /\ l.cache \in [Nodes -> SUBSET Entries]
         /\ l = [execs |-> l.execs, hold |-> l.hold, cache |-> l.cache]
         /\ \A n \in Nodes : l.execs[n] \in Seq(Statuses) /\ Len(l.execs[n]) \in Nat
  BY DEF LogType

\* A status of one execution is replaced.
LEMMA MarkIs ==
  ASSUME NEW l \in LogType, NEW n \in Nodes, NEW k \in 1..Len(l.execs[n]), NEW how \in Statuses,
         NEW r, r = [l EXCEPT !.execs = [l.execs EXCEPT ![n] = [l.execs[n] EXCEPT ![k] = how]]]
  PROVE  r \in LogType /\ r.hold = l.hold /\ r.cache = l.cache /\ Marked(l, r, n, k, how)
<1>. DEFINE s == l.execs[n]
            t == [s EXCEPT ![k] = how]
            X == [l.execs EXCEPT ![n] = t]
<1>1. l.execs \in [Nodes -> Seq(Statuses)] /\ s \in Seq(Statuses)
  BY LogParts
<1>. HIDE DEF s
<1>2. t \in Seq(Statuses) /\ Len(t) = Len(s) /\ t[k] = how /\ \A i \in 1..Len(s) : i # k => t[i] = s[i]
  BY <1>1 DEF s
<1>. HIDE DEF t
<1>3. X \in [Nodes -> Seq(Statuses)] /\ X[n] = t /\ \A m \in Nodes : m # n => X[m] = l.execs[m]
  BY <1>1, <1>2
<1>. HIDE DEF X
<1>4. r = [l EXCEPT !.execs = X]
  BY DEF X, t, s
<1>5. r \in LogType /\ r.execs = X /\ r.hold = l.hold /\ r.cache = l.cache
  BY <1>3, <1>4 DEF LogType
<1>6. Marked(l, r, n, k, how)
  BY <1>2, <1>3, <1>5 DEF Marked, s
<1>. QED
  BY <1>5, <1>6

\* A report marks an execution that is not reported yet.
LEMMA ReportIs ==
  ASSUME NEW l \in LogType, NEW n \in Nodes, NEW k \in 1..Len(l.execs[n]),
         l.execs[n][k] \in {"running", "held"}, NEW how \in {"ok", "failed"},
         NEW r, r = Report(l, <<n, k>>, how)
  PROVE  r \in LogType /\ r.hold = l.hold /\ r.cache = l.cache /\ Marked(l, r, n, k, how)
<1>1. l.execs \in [Nodes -> Seq(Statuses)] /\ l.execs[n] \in Seq(Statuses)
  BY LogParts
<1>2. r = [l EXCEPT !.execs = [l.execs EXCEPT ![n] = [l.execs[n] EXCEPT ![k] = how]]]
  BY <1>1 DEF Report, LogType
<1>3. how \in Statuses
  BY DEF Statuses
<1>. QED
  BY <1>2, <1>3, MarkIs

\* An execution that ran, or was held, is marked as reported or as held.
LEMMA MarkFits ==
  ASSUME tree \in Trees, NEW l, NEW R \in SUBSET Nodes, LogFits(l, R), NEW r \in LogType,
         NEW n \in Nodes, NEW k \in 1..Len(l.execs[n]), NEW how \in Statuses,
         Marked(l, r, n, k, how), how # "running", Filed(r), NEW Q,
         \/ /\ n \in R /\ k = Len(l.execs[n]) /\ Q = R \ {n}
            /\ how = "held" => r.hold.exec = <<n, k>> /\ l.hold.exec = <<>> /\ IsWrapper(Root)
            /\ how # "held" => r.hold.exec = l.hold.exec
         \/ /\ l.hold.exec = <<n, k>> /\ l.execs[n][k] = "held" /\ Q = R
            /\ how # "held" /\ r.hold.exec = <<>>
  PROVE  LogFits(r, Q)
<1>1. l \in LogType
  BY DEF LogFits
<1>2. \A m \in Nodes : Len(r.execs[m]) = Len(l.execs[m]) /\ Len(l.execs[m]) \in Nat
                       /\ r.execs[m] \in Seq(Statuses) /\ l.execs[m] \in Seq(Statuses)
  BY <1>1, LogParts DEF Marked
<1>3. \A m \in Nodes : \A i \in 1..Len(l.execs[m]) :
        (m # n \/ i # k) => r.execs[m][i] = l.execs[m][i]
  BY DEF Marked
<1>4. r.execs[n][k] = how
  BY DEF Marked
<1>5. ASSUME NEW m \in Nodes, NEW i \in 1..Len(r.execs[m])
      PROVE  /\ r.execs[m][i] = "running" => m \in Q /\ i = Len(r.execs[m])
             /\ r.execs[m][i] = "held" => r.hold.exec = <<m, i>>
  <2>1. i \in 1..Len(l.execs[m])
    BY <1>2
  <2>2. CASE m = n /\ i = k
    BY <1>4, <2>2
  <2>3. CASE m # n \/ i # k
    <3>1. r.execs[m][i] = l.execs[m][i]
      BY <1>3, <2>1, <2>3
    <3>2. r.execs[m][i] = "running" => m \in R /\ i = Len(r.execs[m])
      BY <1>2, <2>1, <3>1 DEF LogFits
    <3>3. r.execs[m][i] = "running" => m \in Q
      BY <1>2, <2>3, <3>2
    <3>4. r.execs[m][i] = "held" => l.hold.exec = <<m, i>>
      BY <2>1, <3>1 DEF LogFits
    <3>5. l.hold.exec = <<m, i>> => l.hold.exec # <<>> /\ l.hold.exec # <<n, k>>
      BY <2>3
    <3>. QED
      BY <3>2, <3>3, <3>4, <3>5
  <2>. QED
    BY <2>2, <2>3
<1>6. ASSUME NEW m \in Q
      PROVE  r.execs[m] # <<>> /\ r.execs[m][Len(r.execs[m])] = "running"
  <2>1. m \in Nodes /\ l.execs[m] # <<>> /\ l.execs[m][Len(l.execs[m])] = "running"
    BY DEF LogFits
  <2>2. Len(l.execs[m]) \in 1..Len(l.execs[m]) /\ r.execs[m] # <<>>
    BY <1>2, <2>1
  <2>3. m # n \/ Len(l.execs[m]) # k
    BY <2>1
  <2>. QED
    BY <1>2, <1>3, <2>1, <2>2, <2>3
<1>7. ASSUME r.hold.exec # <<>>
      PROVE  /\ IsWrapper(Root)
             /\ \E m \in Nodes : \E i \in 1..Len(r.execs[m]) :
                  r.hold.exec = <<m, i>> /\ r.execs[m][i] = "held"
  <2>1. CASE how = "held"
    BY <1>2, <1>4, <1>7, <2>1
  <2>2. CASE how # "held"
    <3>1. n \in R /\ k = Len(l.execs[n]) /\ r.hold.exec = l.hold.exec
      BY <1>7, <2>2
    <3>2. IsWrapper(Root) /\ \E m \in Nodes : \E i \in 1..Len(l.execs[m]) :
            l.hold.exec = <<m, i>> /\ l.execs[m][i] = "held"
      BY <1>7, <3>1 DEF LogFits
    <3>3. PICK m \in Nodes : \E i \in 1..Len(l.execs[m]) : l.hold.exec = <<m, i>> /\ l.execs[m][i] = "held"
      BY <3>2
    <3>4. PICK i \in 1..Len(l.execs[m]) : l.hold.exec = <<m, i>> /\ l.execs[m][i] = "held"
      BY <3>3
    <3>5. m # n \/ i # k
      <4>1. l.execs[n][Len(l.execs[n])] = "running"
        BY <3>1 DEF LogFits
      <4>. QED
        BY <3>1, <3>4, <4>1
    <3>6. i \in 1..Len(r.execs[m]) /\ r.execs[m][i] = "held" /\ r.hold.exec = <<m, i>>
      BY <1>2, <1>3, <3>1, <3>4, <3>5
    <3>. QED
      BY <3>2, <3>6
  <2>. QED
    BY <2>1, <2>2
<1>. QED
  BY <1>5, <1>6, <1>7 DEF LogFits

\* An execution begins.
LEMMA BegunFits ==
  ASSUME NEW l, NEW R \in SUBSET Nodes, LogFits(l, R), NEW n \in Nodes \ R
  PROVE  /\ LogFits(Begun(l, n), R \union {n})
         /\ Begun(l, n).hold = l.hold /\ Begun(l, n).cache = l.cache
<1>. DEFINE s == l.execs[n]
            t == Append(s, "running")
            X == [l.execs EXCEPT ![n] = t]
            r == [l EXCEPT !.execs = X]
<1>1. l \in LogType /\ l.execs \in [Nodes -> Seq(Statuses)] /\ s \in Seq(Statuses) /\ Len(s) \in Nat
  BY LogParts DEF LogFits
<1>2. Begun(l, n) = r
  BY <1>1 DEF Begun
<1>. HIDE DEF s
<1>3. /\ t \in Seq(Statuses) /\ Len(t) = Len(s) + 1 /\ t[Len(t)] = "running" /\ t # <<>>
      /\ \A i \in 1..Len(t) : i = Len(t) \/ (i \in 1..Len(s) /\ t[i] = s[i])
  BY <1>1 DEF Statuses
<1>4. \A i \in 1..Len(s) : i \in 1..Len(t) /\ t[i] = s[i]
  BY <1>1, <1>3
<1>. HIDE DEF t
<1>5. X \in [Nodes -> Seq(Statuses)] /\ X[n] = t /\ \A m \in Nodes : m # n => X[m] = l.execs[m]
  BY <1>1, <1>3
<1>. HIDE DEF X
<1>6. r \in LogType /\ r.execs = X /\ r.hold = l.hold /\ r.cache = l.cache
  BY <1>1, <1>5 DEF LogType
<1>. HIDE DEF r
<1>7. ASSUME NEW m \in Nodes, NEW k \in 1..Len(r.execs[m])
      PROVE  /\ r.execs[m][k] = "running" => m \in R \union {n} /\ k = Len(r.execs[m])
             /\ r.execs[m][k] = "held" => r.hold.exec = <<m, k>>
  <2>1. CASE m = n
    <3>1. r.execs[m] = t
      BY <1>5, <1>6, <2>1
    <3>2. \A i \in 1..Len(s) : s[i] # "running" /\ (s[i] = "held" => l.hold.exec = <<n, i>>)
      BY DEF LogFits, s
    <3>3. k = Len(t) \/ (k \in 1..Len(s) /\ t[k] = s[k])
      BY <1>3, <3>1
    <3>. QED
      BY <1>3, <1>6, <2>1, <3>1, <3>2, <3>3
  <2>2. CASE m # n
    <3>1. r.execs[m] = l.execs[m]
      BY <1>5, <1>6, <2>2
    <3>. QED
      BY <1>6, <3>1 DEF LogFits
  <2>. QED
    BY <2>1, <2>2
<1>8. ASSUME NEW m \in R \union {n}
      PROVE  r.execs[m] # <<>> /\ r.execs[m][Len(r.execs[m])] = "running"
  BY <1>3, <1>5, <1>6 DEF LogFits
<1>9. ASSUME r.hold.exec # <<>>
      PROVE  /\ IsWrapper(Root)
             /\ \E m \in Nodes : \E i \in 1..Len(r.execs[m]) :
                  r.hold.exec = <<m, i>> /\ r.execs[m][i] = "held"
  <2>1. IsWrapper(Root) /\ \E m \in Nodes : \E i \in 1..Len(l.execs[m]) :
          l.hold.exec = <<m, i>> /\ l.execs[m][i] = "held"
    BY <1>6, <1>9 DEF LogFits
  <2>2. PICK m \in Nodes : \E i \in 1..Len(l.execs[m]) : l.hold.exec = <<m, i>> /\ l.execs[m][i] = "held"
    BY <2>1
  <2>3. PICK i \in 1..Len(l.execs[m]) : l.hold.exec = <<m, i>> /\ l.execs[m][i] = "held"
    BY <2>2
  <2>4. i \in 1..Len(r.execs[m]) /\ r.execs[m][i] = "held"
    BY <1>4, <1>5, <1>6, <2>3 DEF s
  <2>. QED
    BY <1>6, <2>1, <2>3, <2>4
<1>10. Filed(r)
  BY <1>6 DEF LogFits, Filed
<1>. QED
  BY <1>2, <1>6, <1>7, <1>8, <1>9, <1>10 DEF LogFits

\* Only the hold or the cache changes.
LEMMA SameExecsFit ==
  ASSUME NEW l, NEW R \in SUBSET Nodes, LogFits(l, R), NEW r \in LogType,
         r.execs = l.execs, r.hold.exec = l.hold.exec, Filed(r)
  PROVE  LogFits(r, R)
  BY DEF LogFits

\* Cached results are stored.
LEMMA StoreFits ==
  ASSUME NEW l, NEW R \in SUBSET Nodes, LogFits(l, R), NEW entries \in SUBSET Entries
  PROVE  /\ LogFits(Store(l, entries), R)
         /\ Store(l, entries).hold = l.hold /\ Store(l, entries).execs = l.execs
<1>. DEFINE C == [n \in DOMAIN l.cache |->
                    IF \E e \in entries : e.node = n THEN {e \in entries : e.node = n} ELSE l.cache[n]]
            r == [l EXCEPT !.cache = C]
<1>1. l \in LogType /\ l.cache \in [Nodes -> SUBSET Entries]
  BY LogParts DEF LogFits
<1>2. Store(l, entries) = r
  BY <1>1 DEF Store, LogType
<1>3. C \in [Nodes -> SUBSET Entries]
  BY <1>1
<1>4. \A n \in Nodes : \A e \in C[n] : e.node = n
  BY <1>1 DEF LogFits, Filed
<1>. HIDE DEF C
<1>5. r \in LogType /\ r.execs = l.execs /\ r.hold = l.hold /\ r.cache = C
  BY <1>1, <1>3 DEF LogType
<1>6. Filed(r)
  BY <1>4, <1>5 DEF Filed
<1>. QED
  BY <1>2, <1>5, <1>6, SameExecsFit

\* finishHold.end leaves nothing held, and reports what was.
LEMMA ReleaseFits ==
  ASSUME tree \in Trees, NEW l, NEW R \in SUBSET Nodes, LogFits(l, R),
         NEW how \in {"ok", "failed"}, NEW commits \in BOOLEAN
  PROVE  /\ LogFits(Release(l, how, commits), R) /\ Release(l, how, commits).hold.exec = <<>>
         /\ \A m \in Nodes : Len(Release(l, how, commits).execs[m]) = Len(l.execs[m])
<1>. DEFINE open == [l EXCEPT !.hold = NoHold]
<1>1. /\ l \in LogType /\ l.hold.waits \in SUBSET Entries
      /\ l.hold.exec \in {<<>>} \union Work
  BY LogParts DEF LogFits
<1>2. open \in LogType /\ open.execs = l.execs /\ open.hold = NoHold /\ open.cache = l.cache
  BY <1>1 DEF LogType, NoHold
<1>3. Filed(open)
  BY <1>2 DEF LogFits, Filed
<1>4. NoHold.exec = <<>>
  BY DEF NoHold
<1>5. CASE l.hold.exec = <<>>
  <2>1. Release(l, how, commits) = open
    BY <1>5 DEF Release
  <2>2. LogFits(open, R)
    BY <1>2, <1>3, <1>4, <1>5, SameExecsFit
  <2>. QED
    BY <1>2, <1>4, <2>1, <2>2
<1>6. CASE l.hold.exec # <<>>
  <2>. DEFINE r == Report(open, l.hold.exec, how)
  <2>1. \E n \in Nodes : \E k \in 1..Len(l.execs[n]) : l.hold.exec = <<n, k>> /\ l.execs[n][k] = "held"
    BY <1>6 DEF LogFits
  <2>2. PICK n \in Nodes : \E k \in 1..Len(l.execs[n]) : l.hold.exec = <<n, k>> /\ l.execs[n][k] = "held"
    BY <2>1
  <2>3. PICK k \in 1..Len(l.execs[n]) : l.hold.exec = <<n, k>> /\ l.execs[n][k] = "held"
    BY <2>2
  <2>4. r = Report(open, <<n, k>>, how) /\ k \in 1..Len(open.execs[n]) /\ open.execs[n][k] \in {"running", "held"}
    BY <1>2, <2>3
  <2>. HIDE DEF r, open
  <2>5. r \in LogType /\ r.hold = NoHold /\ r.cache = l.cache /\ Marked(open, r, n, k, how)
    BY <1>2, <2>4, ReportIs
  <2>6. Marked(l, r, n, k, how)
    BY <1>2, <2>5 DEF Marked
  <2>7. /\ r.hold.exec = <<>> /\ Filed(r) /\ k \in 1..Len(l.execs[n]) /\ how \in Statuses
        /\ how # "running" /\ how # "held"
    BY <1>4, <2>3, <2>5 DEF Statuses, LogFits, Filed
  <2>8. LogFits(r, R) /\ \A m \in Nodes : Len(r.execs[m]) = Len(l.execs[m])
    <3>1. LogFits(r, R)
      BY <2>3, <2>5, <2>6, <2>7, MarkFits
    <3>2. \A m \in Nodes : Len(r.execs[m]) = Len(l.execs[m])
      BY <2>6 DEF Marked
    <3>. QED
      BY <3>1, <3>2
  <2>9. Release(l, how, commits) = IF commits THEN Store(r, l.hold.waits) ELSE r
    BY <1>6 DEF Release, r, open
  <2>. QED
    BY <1>1, <2>7, <2>8, <2>9, StoreFits
<1>. QED
  BY <1>5, <1>6

\* finishHold.finish reports an execution that ran, or holds it in place of the one held before.
LEMMA FinishHoldFits ==
  ASSUME tree \in Trees, NEW l, NEW R \in SUBSET Nodes, LogFits(l, R), NEW n \in R, NEW err
  PROVE  LogFits(FinishHold(l, n, err), R \ {n})
<1>. DEFINE k == Len(l.execs[n])
<1>1. l \in LogType /\ n \in Nodes /\ l.execs[n] # <<>> /\ l.execs[n][k] = "running"
  BY DEF LogFits
<1>2. k \in 1..Len(l.execs[n]) /\ k \in Nat /\ l.execs[n] \in Seq(Statuses)
  BY <1>1, LogParts
<1>3. Latest(l, n) = <<n, k>>
  BY DEF Latest
<1>4. CASE err = <<>> /\ InHold(n)
  <2>. DEFINE free == Release(l, "ok", TRUE)
              X == [free.execs EXCEPT ![n] = [free.execs[n] EXCEPT ![k] = "held"]]
              r1 == [free EXCEPT !.execs = X]
              r == [r1 EXCEPT !.hold = [free.hold EXCEPT !.exec = <<n, k>>]]
  <2>1. /\ LogFits(free, R) /\ free.hold.exec = <<>> /\ Len(free.execs[n]) = k
        /\ free \in LogType /\ free.hold.waits \in SUBSET Entries /\ Filed(free)
    <3>1. LogFits(free, R) /\ free.hold.exec = <<>> /\ Len(free.execs[n]) = k
      BY <1>1, ReleaseFits
    <3>. QED
      BY <3>1, LogParts DEF LogFits
  <2>2. FinishHold(l, n, err) = r
    <3>1. FinishHold(l, n, err) = [free EXCEPT !.execs[n][k] = "held", !.hold.exec = <<n, k>>]
      BY <1>3, <1>4 DEF FinishHold
    <3>. HIDE DEF free
    <3>2. free = [execs |-> free.execs, hold |-> free.hold, cache |-> free.cache]
      BY <2>1, LogParts
    <3>. QED
      BY <2>1, <3>1, <3>2 DEF LogType
  <2>. HIDE DEF free
  <2>3. r1 \in LogType /\ r1.hold = free.hold /\ r1.cache = free.cache /\ Marked(free, r1, n, k, "held")
    <3>1. "held" \in Statuses /\ k \in 1..Len(free.execs[n])
      BY <1>2, <2>1 DEF Statuses
    <3>. QED
      BY <1>1, <2>1, <3>1, MarkIs
  <2>. HIDE DEF X, r1
  <2>4. r \in LogType /\ r.execs = r1.execs /\ r.cache = free.cache /\ r.hold.exec = <<n, k>>
    <3>1. <<n, k>> \in {<<>>} \union Work
      BY <1>1, <1>2 DEF Work
    <3>. DEFINE h == [free.hold EXCEPT !.exec = <<n, k>>]
    <3>2. h \in [exec : {<<>>} \union Work, waits : SUBSET Entries] /\ h.exec = <<n, k>>
      BY <2>1, <3>1, LogParts
    <3>. HIDE DEF h
    <3>3. r = [r1 EXCEPT !.hold = h]
      BY DEF h
    <3>. HIDE DEF r
    <3>. QED
      BY <2>3, <3>2, <3>3 DEF LogType
  <2>. HIDE DEF r
  <2>5. Marked(free, r, n, k, "held") /\ Filed(r) /\ IsWrapper(Root) /\ "held" \in Statuses
    BY <1>4, <2>1, <2>3, <2>4 DEF Marked, Filed, InHold, Statuses
  <2>6. k \in 1..Len(free.execs[n]) /\ k = Len(free.execs[n])
    BY <1>2, <2>1
  <2>7. LogFits(r, R \ {n})
    BY <1>1, <2>1, <2>4, <2>5, <2>6, MarkFits
  <2>. QED
    BY <2>2, <2>7
<1>5. CASE ~(err = <<>> /\ InHold(n))
  <2>. DEFINE how == IF err = <<>> THEN "ok" ELSE "failed"
              r == Report(l, <<n, k>>, how)
  <2>1. FinishHold(l, n, err) = r
    BY <1>3, <1>5 DEF FinishHold
  <2>2. how \in {"ok", "failed"} /\ how \in Statuses /\ how # "running" /\ how # "held"
    BY DEF Statuses
  <2>. HIDE DEF how
  <2>3. r \in LogType /\ r.hold = l.hold /\ r.cache = l.cache /\ Marked(l, r, n, k, how)
    BY <1>1, <1>2, <2>2, ReportIs
  <2>. HIDE DEF r
  <2>4. Filed(r)
    BY <2>3 DEF Filed, LogFits
  <2>5. LogFits(r, R \ {n})
    BY <1>1, <1>2, <2>2, <2>3, <2>4, MarkFits
  <2>. QED
    BY <2>1, <2>5
<1>. QED
  BY <1>4, <1>5

\* whenSucceeded files an entry, or lets it wait.
LEMMA WhenSucceededFits ==
  ASSUME NEW l, NEW R \in SUBSET Nodes, LogFits(l, R), NEW n, NEW entry \in Entries
  PROVE  LogFits(WhenSucceeded(l, n, entry), R)
<1>1. CASE InHold(n)
  <2>. DEFINE W == l.hold.waits \union {entry}
              h == [l.hold EXCEPT !.waits = W]
              r == [l EXCEPT !.hold = h]
  <2>1. l \in LogType /\ l.hold.waits \in SUBSET Entries /\ Filed(l)
    BY LogParts DEF LogFits
  <2>2. WhenSucceeded(l, n, entry) = r
    BY <1>1, <2>1, LogParts DEF WhenSucceeded, LogType
  <2>3. W \in SUBSET Entries
    BY <2>1
  <2>. HIDE DEF W
  <2>4. h \in [exec : {<<>>} \union Work, waits : SUBSET Entries] /\ h.exec = l.hold.exec
    BY <2>1, <2>3, LogParts
  <2>. HIDE DEF h
  <2>5. r \in LogType /\ r.execs = l.execs /\ r.hold.exec = l.hold.exec /\ r.cache = l.cache
    BY <2>1, <2>4 DEF LogType
  <2>. HIDE DEF r
  <2>6. Filed(r)
    BY <2>1, <2>5 DEF Filed
  <2>. QED
    BY <2>2, <2>5, <2>6, SameExecsFit
<1>2. CASE ~InHold(n)
  <2>1. WhenSucceeded(l, n, entry) = Store(l, {entry}) /\ {entry} \in SUBSET Entries
    BY <1>2 DEF WhenSucceeded
  <2>. QED
    BY <2>1, StoreFits
<1>. QED
  BY <1>1, <1>2

\* A wrapper names a step of the tree.
LEMMA NamedIs ==
  ASSUME tree \in Trees
  PROVE  Named(Root) \in Nodes /\ ~IsWrapper(Named(Root))
<1>. DEFINE L == Len(tree.kind)
            Steps == {n \in Nodes : ~IsWrapper(n)}
            m == Min(Steps)
<1>1. L \in Nodes /\ \A n \in Nodes : n <= L /\ n \in Nat
  BY TreeShape
<1>2. ~IsWrapper(L)
  <2>1. ASSUME IsWrapper(L)
        PROVE  FALSE
    <3>1. Cardinality({c \in Node(tree) : tree.parent[c] = L}) = 1
      BY <1>1, <2>1, TreesAssumption DEF IsWrapper, Kind, Nodes
    <3>2. {c \in Node(tree) : tree.parent[c] = L} = {}
      <4>1. ASSUME NEW c \in Nodes, Parent(c) = L
            PROVE  FALSE
        BY <1>1, <4>1, TreeShape
      <4>. QED
        BY <4>1 DEF Nodes, Parent
    <3>. QED
      BY <3>1, <3>2, FS_EmptySet
  <2>. QED
    BY <2>1
<1>3. Steps \in SUBSET Nat /\ Steps # {}
  BY <1>1, <1>2
<1>4. m \in Steps /\ \A x \in Steps : m <= x
  <2>. HIDE DEF Steps
  <2>. QED
    BY <1>3, MinIn
<1>. HIDE DEF m
<1>5. m \in Nodes /\ ~IsWrapper(m)
  BY <1>4
<1>6. m \in Below(Root)
  BY <1>5, OrderIs DEF Below
<1>7. ASSUME NEW a \in Ancestors[m]
      PROVE  IsWrapper(a)
  <2>1. a \in Nodes /\ a < m
    BY <1>5, Paths DEF Path
  <2>2. ~(m <= a)
    BY <1>1, <1>5, <2>1
  <2>. QED
    BY <1>4, <2>1, <2>2
<1>8. \E x \in Below(Root) : ~IsWrapper(x) /\ \A a \in Ancestors[x] \intersect Below(Root) : IsWrapper(a)
  BY <1>5, <1>6, <1>7
<1>9. Named(Root) \in Below(Root) /\ ~IsWrapper(Named(Root))
  BY <1>8 DEF Named
<1>. QED
  BY <1>9 DEF Below

\* The end of an execution reports it; a wrapper has none.
LEMMA EndsFit ==
  ASSUME tree \in Trees, NEW n \in Nodes, NEW R \in SUBSET Nodes, n \notin R, NEW err,
         NEW l, LogFits(l, IF IsWrapper(n) THEN R ELSE R \union {n})
  PROVE  LogFits(Ends(l, n, err), R)
<1>1. CASE IsWrapper(n)
  BY <1>1 DEF Ends
<1>2. CASE ~IsWrapper(n)
  <2>1. R \union {n} \in SUBSET Nodes /\ n \in R \union {n} /\ (R \union {n}) \ {n} = R
    OBVIOUS
  <2>2. LogFits(l, R \union {n})
    BY <1>2
  <2>3. LogFits(FinishHold(l, n, err), (R \union {n}) \ {n})
    BY <2>1, <2>2, FinishHoldFits
  <2>. QED
    BY <1>2, <2>1, <2>3 DEF Ends
<1>. QED
  BY <1>1, <1>2

\* The check of a top-level result reports what is held, and leaves nothing held.
LEMMA CommitFits ==
  ASSUME tree \in Trees, NEW R \in SUBSET Nodes, Root \notin R, IsWrapper(Root) => Named(Root) \notin R,
         NEW l, LogFits(l, IF IsWrapper(Root) THEN R ELSE R \union {Root}),
         NEW err, NEW work, Commit(l, err, work)
  PROVE  LogFits(log', R) /\ log'.hold.exec = <<>>
<1>1. Root \in Nodes
  BY TreeShape
<1>2. ASSUME NEW e, NEW how \in {"ok", "failed"}, NEW commits \in BOOLEAN
      PROVE  /\ LogFits(Release(Ends(l, Root, e), how, commits), R)
             /\ Release(Ends(l, Root, e), how, commits).hold.exec = <<>>
  <2>. DEFINE r == Ends(l, Root, e)
  <2>1. LogFits(r, R)
    BY <1>1, EndsFit
  <2>. HIDE DEF r
  <2>2. LogFits(Release(r, how, commits), R) /\ Release(r, how, commits).hold.exec = <<>>
    BY <2>1, ReleaseFits
  <2>. QED
    BY <2>2 DEF r
<1>4. CASE /\ IsWrapper(Root)
           /\ log' = LET released == Begun(Release(l, "ok", FALSE), Named(Root))
                     IN Report(released, Latest(released, Named(Root)), "failed")
  <2>. DEFINE free == Release(l, "ok", FALSE)
              n == Named(Root)
              begun == Begun(free, n)
  <2>1. LogFits(free, R) /\ free.hold.exec = <<>>
    BY <1>4, ReleaseFits
  <2>2. n \in Nodes \ R
    BY <1>4, NamedIs
  <2>. HIDE DEF free, n
  <2>3. LogFits(begun, R \union {n}) /\ begun.hold = free.hold
    BY <2>1, <2>2, BegunFits
  <2>. DEFINE k == Len(begun.execs[n])
              r == Report(begun, <<n, k>>, "failed")
  <2>4. log' = r
    BY <1>4 DEF Latest, n, free
  <2>. HIDE DEF begun
  <2>5. begun \in LogType /\ begun.execs[n] # <<>> /\ begun.execs[n][k] = "running"
    BY <2>3 DEF LogFits
  <2>6. k \in 1..Len(begun.execs[n])
    BY <2>2, <2>5, LogParts
  <2>7. /\ r \in LogType /\ r.hold = begun.hold /\ r.cache = begun.cache
        /\ Marked(begun, r, n, k, "failed")
    BY <2>2, <2>5, <2>6, ReportIs
  <2>. HIDE DEF r
  <2>8. Filed(r) /\ "failed" \in Statuses
    BY <2>3, <2>7 DEF LogFits, Filed, Statuses
  <2>9. R \union {n} \in SUBSET Nodes /\ n \in R \union {n} /\ R = (R \union {n}) \ {n}
    BY <2>2
  <2>10. LogFits(r, R)
    BY <2>2, <2>3, <2>6, <2>7, <2>8, <2>9, MarkFits
  <2>. QED
    BY <2>1, <2>3, <2>4, <2>7, <2>10
<1>5. ASSUME NEW e, NEW how \in {"ok", "failed"}, NEW commits \in BOOLEAN,
             log' = Release(Ends(l, Root, e), how, commits)
      PROVE  LogFits(log', R) /\ log'.hold.exec = <<>>
  BY <1>2, <1>5
<1>6. CASE log' = Release(Ends(l, Root, <<>>), "ok", TRUE)
  BY <1>5, <1>6
<1>7. CASE log' = Release(Ends(l, Root, <<"commit">>), "failed", FALSE)
  BY <1>5, <1>7
<1>8. CASE log' = Release(Ends(l, Root, err), "ok", TRUE)
  BY <1>5, <1>8
<1>. QED
  BY <1>4, <1>6, <1>7, <1>8 DEF Commit

-----------------------------------------------------------------------------
(* The invariants, of the places p of the nodes and the rest of a state. *)

\* A node has begun only inside nodes that run; the root is done when the step has ended.
Nested(p, v) ==
  /\ \A m \in Nodes : p[m] # "idle" => \A a \in Ancestors[m] : p[a] \in Act
  /\ p[Root] \in {"start", "run", "wait", "done"}
  /\ p[Root] = "done" <=> v # "running"

\* A policy that waits has an attempt that failed.
Waits(p, r) ==
  \A n \in Nodes : p[n] = "wait" =>
    /\ Kind(n) = "policy"
    /\ \A c \in Children(n) : p[c] = "done" /\ r[c] # <<>>

\* MapCollectUntil runs its elements one after the other.
InTurn(p) ==
  \A n \in Nodes : Kind(n) = "until" =>
    \A c \in Children(n), d \in Children(n) : p[d] # "idle" =>
      /\ p[c] = "idle" => d < c
      /\ p[c] \in Busy => d <= c

\* Once the context of a node's children has ended, so have all made from it.
CutDown(p, i, e) ==
  \A m \in Nodes : p[m] \in Act =>
    /\ e # "no" => i[m] # "no"
    /\ \A a \in Ancestors[m] : i[a] # "no" => i[m] # "no"

NothingHeld(l, v) == v # "running" => l.hold.exec = <<>>

\* Where a node is and has nothing active inside it.
Quiet(n) == \A c \in Children(n) : pc[c] \notin {"start"} \union Act

\* Below a quiet node nothing has begun, but its children may be over.
LEMMA QuietBelow ==
  ASSUME tree \in Trees, Nested(pc, verdict), NEW n \in Nodes, Quiet(n), NEW m \in Nodes, n \in Ancestors[m]
  PROVE  m \in Children(n) \/ pc[m] = "idle"
<1>1. PICK c \in Children(n) : m = c \/ c \in Ancestors[m]
  BY InsideIs
<1>2. pc[c] \notin Act
  BY DEF Quiet
<1>. QED
  BY <1>1, <1>2 DEF Nested

\* How the places change in a step of n: those of n and of the children in C.
Moves(n, C) ==
  /\ n \in Nodes /\ C \subseteq Children(n)
  /\ pc[n] # "idle" /\ pc'[n] # "idle"
  /\ \A m \in Nodes : m # n /\ m \notin C => pc'[m] = pc[m]
  /\ \A c \in C : pc[c] \notin Act /\ pc'[c] \notin Act
  /\ \/ pc'[n] \in Act
     \/ C = Children(n) /\ \A c \in C : pc'[c] = "idle"

\* Such a step keeps the nesting.
LEMMA MovesNest ==
  ASSUME tree \in Trees, Nested(pc, verdict), NEW n, NEW C, Moves(n, C),
         NEW m \in Nodes, pc'[m] # "idle", NEW a \in Ancestors[m]
  PROVE  pc'[a] \in Act
<1>1. n \in Nodes /\ C \subseteq Children(n) /\ a \in Nodes /\ \A c \in C : c \in Nodes
  BY OrderIs, ChildIs DEF Moves
<1>2. ASSUME NEW b \in Ancestors[n]
      PROVE  pc'[b] \in Act
  <2>1. b \in Nodes /\ b # n /\ n \notin Ancestors[b]
    BY <1>1, OrderIs
  <2>2. b \notin C
    BY <1>1, <2>1, ChildIs
  <2>3. pc[b] \in Act
    BY <1>1 DEF Moves, Nested
  <2>. QED
    BY <2>1, <2>2, <2>3 DEF Moves
<1>3. CASE m = n
  BY <1>2, <1>3
<1>4. CASE m \in C
  <2>1. Ancestors[m] = {n} \union Ancestors[n]
    BY <1>1, <1>4, ChildIs
  <2>2. pc'[n] \in Act
    BY <1>4 DEF Moves
  <2>. QED
    BY <1>2, <2>1, <2>2
<1>5. CASE m # n /\ m \notin C
  <2>1. pc'[m] = pc[m]
    BY <1>5 DEF Moves
  <2>2. \A b \in Ancestors[m] : pc[b] \in Act
    BY <2>1 DEF Nested
  <2>3. a \notin C
    BY <2>2 DEF Moves
  <2>4. CASE a = n
    <3>1. CASE pc'[n] \in Act
      BY <2>4, <3>1
    <3>2. CASE C = Children(n)
      <4>1. PICK c \in Children(n) : m = c \/ c \in Ancestors[m]
        BY <1>1, <2>4, InsideIs
      <4>2. pc[c] \notin Act
        BY <3>2 DEF Moves
      <4>. QED
        BY <1>5, <2>2, <3>2, <4>1, <4>2
    <3>. QED
      BY <3>1, <3>2 DEF Moves
  <2>5. CASE a # n
    BY <1>1, <2>2, <2>3, <2>5 DEF Moves
  <2>. QED
    BY <2>4, <2>5
<1>. QED
  BY <1>3, <1>4, <1>5

-----------------------------------------------------------------------------

\* The tree stays what it is.
LEMMA TreeStays ==
  ASSUME tree' = tree
  PROVE  /\ Nodes' = Nodes /\ Ancestors' = Ancestors
         /\ \A n : Kind(n)' = Kind(n) /\ Children(n)' = Children(n) /\ Below(n)' = Below(n)
                 /\ Parent(n)' = Parent(n) /\ IsWrapper(n)' = IsWrapper(n) /\ Mine(n)' = Mine(n)
         /\ Work' = Work /\ LogType' = LogType /\ FateType' = FateType
<1>1. Nodes' = Nodes
  BY DEF Nodes
<1>2. Ancestors' = Ancestors
  BY <1>1 DEF Ancestors
<1>3. Work' = Work
  BY <1>1 DEF Work
<1>4. Entries' = Entries
  BY <1>1, <1>2, <1>3 DEF Entries, Mine, Below
<1>5. LogType' = LogType
  BY <1>1, <1>3, <1>4 DEF LogType
<1>6. FateType' = FateType
  BY <1>1, <1>3 DEF FateType
<1>. QED
  BY <1>1, <1>2, <1>3, <1>5, <1>6 DEF Kind, Children, Below, Parent, IsWrapper, Mine

-----------------------------------------------------------------------------
(* What leaves did, and why steps fail. *)

\* What stands: what leaves did and no failure dropped.
Live == fate.worked \ fate.dropped

Owned == \A n \in Nodes : fate.since[n] \subseteq Mine(n) /\ staged[n] \subseteq Mine(n)

\* Nothing staged is dropped, and a failed step has nothing staged.
StagedStands ==
  /\ \A n \in Nodes : staged[n] \subseteq Live
  /\ \A n \in Nodes : n # Root /\ pc[Parent(n)] \notin Act => staged[n] = {}
  /\ \A n \in Nodes : n # Root /\ pc[n] \in Over /\ result[n] # <<>> => staged[n] = {}
  /\ \A n \in Nodes : pc[n] \in Act /\ Kind(n) # "loop" => staged[n] = {}

\* What a step that runs may drop is staged nowhere around it.
Apart == \A n \in Nodes : pc[n] \in Act => \A a \in Ancestors[n] : staged[a] \intersect fate.since[n] = {}

\* w is staged by n, by a child that is over, or done inside a child that runs.
At(n, w) ==
  \/ w \in staged[n]
  \/ \E c \in Children(n) : pc[c] \in Act /\ w \in fate.since[c]
  \/ \E c \in Children(n) : pc[c] \in Over /\ w \in staged[c]

\* What stands of what was done inside a step that runs is staged somewhere.
Accounted == \A n \in Nodes : pc[n] \in Act => \A w \in fate.since[n] : w \notin fate.dropped => At(n, w)

AllInside ==
  /\ verdict = "running" => Live \subseteq fate.since[Root]
  /\ pc[Root] = "start" => fate.worked = {}

\* Where what is done and staged is, whatever fails.
WorkFits == Owned /\ StagedStands /\ Apart /\ Accounted /\ AllInside /\ CommittedIsWhatStands

Bare(err) == err # <<>> /\ err[1] = "canceled"

\* The causes a step reports as a bare cancellation.
Cancelled == {"canceled", "sibling", "element"}

\* Nothing is kept of an earlier execution.
Fresh == \A n \in Nodes : pc[n] \notin Act => inner[n] = "no" /\ failures[n] = <<>>

\* A context ends with the one around it, with its timeout, or after a failure inside it.
CausesFit ==
  \A n \in Nodes : pc[n] \in Act =>
    \/ inner[n] = "no" \/ inner[n] = Ctx(n)
    \/ inner[n] = "timeout" /\ Kind(n) = "policy"
    \/ inner[n] = "sibling" /\ Kind(n) = "parallel" /\ failures[n] # <<>>
    \/ inner[n] = "element" /\ Kind(n) = "map" /\ failures[n] # <<>>

\* A bare cancellation is one around the step: its own, and the first its children failed with.
BareFits ==
  /\ \A n \in Nodes : pc[n] \in Over /\ Bare(result[n]) => Ctx(n) \in Cancelled
  /\ \A n \in Nodes : pc[n] \in Act /\ failures[n] # <<>> =>
       failures[n][1] # <<>> /\ (Bare(failures[n][1]) => Ctx(n) \in Cancelled)
  /\ \A n \in Nodes : \A c \in Children(n) : pc[c] = "listed" =>
       failures[n] # <<>> /\ Kind(n) \in {"parallel", "map"}

FailFits == Fresh /\ CausesFit /\ BareFits

LogHolds == LogFits(log, Running) /\ NothingHeld(log, verdict)

PlacesFit == Nested(pc, verdict) /\ Waits(pc, result) /\ InTurn(pc)

\* The inductive invariant.
StepTreeInv == TypeInv /\ PlacesFit /\ CutDown(pc, inner, ended) /\ LogHolds /\ WorkFits /\ FailFits

-----------------------------------------------------------------------------
(* A step returns. *)

\* What the history F is once n has done S: the work of S is of n and of what is around it.
Hist(n, F, S) ==
  /\ F \in FateType /\ S \subseteq Mine(n)
  /\ F.worked = fate.worked \union S /\ F.dropped = fate.dropped \ S
  /\ \A m \in Nodes : F.since[m] = IF m = n /\ pc[n] = "start" THEN {}
                                   ELSE IF m = n \/ m \in Ancestors[n] THEN fate.since[m] \union (S \ Live)
                                   ELSE fate.since[m]
  /\ pc[n] = "start" => S = {}

\* n may return err, with the log l and the history F, and with work when it succeeds.
Ready(n, l, F, S, err, work) ==
  /\ n \in Nodes /\ pc[n] \in {"start"} \union Act /\ Quiet(n)
  /\ LogFits(l, IF IsWrapper(n) THEN Running ELSE Running \union {n})
  /\ Hist(n, F, S)
  /\ err \in Errors /\ (Bare(err) => Ctx(n) \in Cancelled)
  /\ err = <<>> => /\ pc[n] \in Act /\ S \subseteq work
                   /\ work \subseteq Mine(n) /\ work \subseteq F.worked \ F.dropped
                   /\ \A w \in F.since[n] : w \notin F.dropped => w \in work

\* Where the nodes are once n has returned.
ReturnPlaces(n) ==
  /\ pc'[n] = "done" /\ inner'[n] = "no" /\ failures'[n] = <<>>
  /\ \A c \in Children(n) : c # n /\ c # Root /\ pc'[c] = "idle" /\ pc[c] \notin {"start"} \union Act
  /\ \A m \in Nodes : m # n /\ m \notin Children(n) => pc'[m] = pc[m] /\ result'[m] = result[m] /\ staged'[m] = staged[m]
  /\ \A m \in Nodes : m # n => inner'[m] = inner[m] /\ failures'[m] = failures[m]
  /\ \A m \in Nodes : pc'[m] \in Act => m # n /\ m \notin Children(n) /\ n \notin Ancestors[m] /\ pc[m] \in Act
  /\ tree' = tree /\ ended' = ended
  /\ IF n = Root THEN verdict = "running" /\ verdict' \in {"committed", "failed"}
     ELSE verdict' = "running" /\ verdict = "running"

\* What is staged and what stands once n has returned err.
ReturnWork(n, F, err, work) ==
  /\ \A c \in Children(n) : staged'[c] = {}
  /\ staged'[n] = IF err = <<>> THEN work ELSE {}
  /\ fate' \in FateType
  /\ fate'.worked = F.worked /\ fate'.since = F.since
  /\ fate'.dropped = IF err = <<>> THEN F.dropped ELSE F.dropped \union F.since[n]
  /\ n # Root => result'[n] = err
  /\ n = Root => (verdict' = "committed" => err = <<>> /\ memory' = work)

LEMMA ReturnIs ==
  ASSUME TypeInv, PlacesFit, NEW n, NEW l, NEW F, NEW S, NEW err, NEW work,
         Ready(n, l, F, S, err, work), Return(n, l, F, err, work)
  PROVE  ReturnPlaces(n) /\ ReturnWork(n, F, err, work)
<1>1. n \in Nodes /\ tree \in Trees /\ tree' = tree /\ ended' = ended /\ pc[n] \in {"start"} \union Act
  BY DEF Ready, TypeInv, Return
<1>2. \A c \in Children(n) : c \in Nodes /\ c # n /\ c # Root /\ Ancestors[c] = {n} \union Ancestors[n]
  BY <1>1, ChildIs
<1>3. /\ pc'[n] = "done"
      /\ \A c \in Children(n) : pc'[c] = "idle"
      /\ \A m \in Nodes : m # n /\ m \notin Children(n) => pc'[m] = pc[m]
  BY <1>1, <1>2 DEF Return
<1>4. inner'[n] = "no" /\ \A m \in Nodes : m # n => inner'[m] = inner[m]
  BY <1>1 DEF Return, TypeInv
<1>5. failures'[n] = <<>> /\ \A m \in Nodes : m # n => failures'[m] = failures[m]
  BY <1>1 DEF Return, TypeInv
<1>6. /\ staged'[n] = IF err = <<>> THEN work ELSE {}
      /\ \A c \in Children(n) : staged'[c] = {}
      /\ \A m \in Nodes : m # n /\ m \notin Children(n) => staged'[m] = staged[m]
  BY <1>1, <1>2 DEF Return
<1>7. result' = Returned(n, IF n = Root /\ verdict' # "committed" /\ err = <<>> THEN <<"commit">> ELSE err)
  <2>1. CASE n = Root
    BY <2>1 DEF Return, Commit
  <2>2. CASE n # Root
    BY <2>2 DEF Return
  <2>. QED
    BY <2>1, <2>2
<1>8. /\ n # Root => result'[n] = err
      /\ \A m \in Nodes : m # n /\ m \notin Children(n) => result'[m] = result[m]
  BY <1>1, <1>7 DEF Returned
<1>9. \A c \in Children(n) : pc[c] \notin {"start"} \union Act
  BY DEF Ready, Quiet
<1>10. ASSUME NEW m \in Nodes, pc'[m] \in Act
       PROVE  m # n /\ m \notin Children(n) /\ n \notin Ancestors[m] /\ pc[m] \in Act
  <2>1. m # n /\ m \notin Children(n)
    BY <1>3, <1>10 DEF Act
  <2>2. pc[m] \in Act
    BY <1>3, <1>10, <2>1
  <2>3. n \notin Ancestors[m]
    BY <1>1, <2>1, <2>2, QuietBelow DEF PlacesFit, Ready, Act
  <2>. QED
    BY <2>1, <2>2, <2>3
<1>11. IF n = Root THEN verdict = "running" /\ verdict' \in {"committed", "failed"}
       ELSE verdict' = "running" /\ verdict = "running"
  <2>1. CASE n = Root
    <3>1. verdict = "running"
      BY <1>1, <2>1 DEF PlacesFit, Nested, Act
    <3>. QED
      BY <2>1, <3>1 DEF Return, Commit
  <2>2. CASE n # Root
    <3>1. Root \in Ancestors[n] /\ pc[n] # "idle"
      BY <1>1, <2>2, OrderIs DEF Act
    <3>2. pc[Root] # "done"
      BY <1>1, <3>1 DEF PlacesFit, Nested, Act
    <3>3. verdict = "running"
      BY <3>2 DEF PlacesFit, Nested
    <3>. QED
      BY <2>2, <3>3 DEF Return
  <2>. QED
    BY <2>1, <2>2
<1>12. n = Root => (verdict' = "committed" => err = <<>> /\ memory' = work)
  BY DEF Return, Commit
<1>13. /\ fate' \in FateType /\ fate'.worked = F.worked /\ fate'.since = F.since
       /\ fate'.dropped = IF err = <<>> THEN F.dropped ELSE F.dropped \union F.since[n]
  <2>1. F \in FateType
    BY DEF Ready, Hist
  <2>2. fate' = IF err # <<>> THEN [F EXCEPT !.dropped = F.dropped \union F.since[n]] ELSE F
    BY <2>1 DEF Return, Fails, FateType
  <2>3. F.dropped \union F.since[n] \in SUBSET Work
    BY <1>1, <2>1 DEF FateType
  <2>. QED
    BY <2>1, <2>2, <2>3 DEF FateType
<1>. QED
  BY <1>1, <1>2, <1>3, <1>4, <1>5, <1>6, <1>8, <1>9, <1>10, <1>11, <1>12, <1>13 DEF ReturnPlaces, ReturnWork

\* Types are kept when n returns; those of the log are part of LogHolds.
LEMMA ReturnTypes ==
  ASSUME TypeInv, PlacesFit, NEW n, NEW l, NEW F, NEW S, NEW err, NEW work,
         Ready(n, l, F, S, err, work), Return(n, l, F, err, work), log' \in LogType
  PROVE  TypeInv'
<1>. USE TreeStays
<1>1. n \in Nodes /\ err \in Errors /\ <<"commit">> \in Errors /\ <<>> \in Errors
  BY DEF Ready, Errors
<1>2. ReturnPlaces(n) /\ ReturnWork(n, F, err, work)
  BY ReturnIs
<1>3. tree' = tree /\ ended' = ended
  BY DEF Return
<1>4. pc' \in [Nodes -> PCs]
  BY DEF Return, TypeInv, PCs
<1>5. inner' \in [Nodes -> Causes] /\ count' \in [Nodes -> Nat] /\ failures' \in [Nodes -> Seq(Errors)]
  <2>1. "no" \in Causes /\ <<>> \in Seq(Errors) /\ 0 \in Nat
    BY DEF Causes
  <2>. QED
    BY <2>1 DEF Return, TypeInv
<1>6. staged' \in [Nodes -> SUBSET Work]
  <2>1. err = <<>> => work \in SUBSET Work
    BY DEF Ready, Mine
  <2>. QED
    BY <2>1 DEF Return, TypeInv
<1>7. result' \in [Nodes -> Errors]
  <2>1. result' = Returned(n, err) \/ result' = Returned(n, <<"commit">>)
    <3>1. CASE n = Root
      BY <3>1 DEF Return, Commit
    <3>2. CASE n # Root
      BY <3>2 DEF Return
    <3>. QED
      BY <3>1, <3>2
  <2>. QED
    BY <1>1, <2>1 DEF Returned, TypeInv
<1>8. verdict' \in {"running", "committed", "failed"}
  BY <1>2 DEF ReturnPlaces
<1>9. Work' = Work /\ LogType' = LogType /\ FateType' = FateType
  BY <1>3
<1>10. fate' \in FateType
  BY <1>2 DEF ReturnWork
<1>11. Nodes' = Nodes /\ tree' \in Trees
  BY <1>3 DEF TypeInv
<1>. QED
  BY <1>3, <1>4, <1>5, <1>6, <1>7, <1>8, <1>9, <1>10, <1>11 DEF TypeInv

\* Nothing is left running inside n.
LEMMA ReturnPlacesFit ==
  ASSUME TypeInv, PlacesFit, NEW n \in Nodes, ReturnPlaces(n), pc[n] \in {"start"} \union Act
  PROVE  PlacesFit'
<1>1. /\ tree' = tree /\ tree \in Trees /\ Nodes' = Nodes /\ Ancestors' = Ancestors
      /\ \A m : Kind(m)' = Kind(m) /\ Children(m)' = Children(m)
  BY TreeStays DEF TypeInv, ReturnPlaces
<1>2. Nested(pc', verdict')
  <2>1. Moves(n, Children(n))
    BY <1>1 DEF Moves, ReturnPlaces, Act, TypeInv, PCs
  <2>2. \A m \in Nodes : pc'[m] # "idle" => \A a \in Ancestors[m] : pc'[a] \in Act
    BY <2>1, <1>1, MovesNest DEF PlacesFit
  <2>3. Root \in Nodes
    BY <1>1, TreeShape
  <2>4. /\ pc'[Root] \in {"start", "run", "wait", "done"}
        /\ pc'[Root] = "done" <=> verdict' # "running"
    <3>1. CASE n = Root
      BY <3>1 DEF ReturnPlaces
    <3>2. CASE n # Root
      <4>1. pc'[Root] = pc[Root]
        BY <2>3, <3>2 DEF ReturnPlaces
      <4>. QED
        BY <3>2, <4>1 DEF ReturnPlaces, PlacesFit, Nested
    <3>. QED
      BY <3>1, <3>2
  <2>. QED
    BY <2>2, <2>4 DEF Nested
<1>3. Waits(pc', result')
  <2>1. SUFFICES ASSUME NEW m \in Nodes, pc'[m] = "wait"
        PROVE  Kind(m) = "policy" /\ \A c \in Children(m) : pc'[c] = "done" /\ result'[c] # <<>>
    BY DEF Waits
  <2>2. m # n /\ pc[m] = "wait"
    BY <2>1 DEF ReturnPlaces, Act
  <2>3. Kind(m) = "policy" /\ \A c \in Children(m) : pc[c] = "done" /\ result[c] # <<>>
    BY <2>2 DEF PlacesFit, Waits
  <2>4. \A c \in Children(m) : c \in Nodes /\ c # n /\ c \notin Children(n)
    BY <2>2, <2>3 DEF Children, Act
  <2>. QED
    BY <2>3, <2>4 DEF ReturnPlaces
<1>4. InTurn(pc')
  <2>1. SUFFICES ASSUME NEW m \in Nodes, Kind(m) = "until", NEW c \in Children(m), NEW d \in Children(m), pc'[d] # "idle"
        PROVE  (pc'[c] = "idle" => d < c) /\ (pc'[c] \in Busy => d <= c)
    BY DEF InTurn
  <2>2. m # n
    BY <2>1 DEF ReturnPlaces
  <2>3. \A k \in Children(m) : k \in Nodes /\ k \notin Children(n)
    BY <2>2 DEF Children
  <2>4. \A k \in Children(m) : pc[k] # "idle" <=> pc'[k] # "idle"
    BY <2>3 DEF ReturnPlaces, Act
  <2>5. \A k \in Children(m) : pc'[k] \in Busy => pc[k] \in Busy
    BY <2>3 DEF ReturnPlaces, Busy, Act
  <2>. QED
    BY <2>1, <2>4, <2>5 DEF PlacesFit, InTurn
<1>. QED
  BY <1>1, <1>2, <1>3, <1>4 DEF PlacesFit, Nested, Waits, InTurn

\* Contexts go on inside what is around n.
LEMMA ReturnCutDown ==
  ASSUME TypeInv, CutDown(pc, inner, ended), NEW n \in Nodes, ReturnPlaces(n)
  PROVE  CutDown(pc, inner, ended)'
<1>1. tree' = tree /\ Nodes' = Nodes /\ Ancestors' = Ancestors /\ ended' = ended
  BY TreeStays DEF ReturnPlaces
<1>2. \A m \in Nodes : Ancestors[m] \subseteq Nodes
  BY OrderIs DEF TypeInv
<1>3. ASSUME NEW m \in Nodes, pc'[m] \in Act
      PROVE  /\ pc[m] \in Act /\ inner'[m] = inner[m]
             /\ \A a \in Ancestors[m] : inner'[a] = inner[a]
  BY <1>2, <1>3 DEF ReturnPlaces
<1>. QED
  BY <1>1, <1>3 DEF CutDown

\* The execution of n is reported, or held.
LEMMA ReturnLog ==
  ASSUME TypeInv, PlacesFit, LogHolds, NEW n, NEW l, NEW F, NEW S, NEW err, NEW work,
         Ready(n, l, F, S, err, work), Return(n, l, F, err, work)
  PROVE  log' \in LogType /\ LogHolds'
<1>. DEFINE R == Running \ {n}
<1>1. /\ n \in Nodes /\ tree \in Trees /\ tree' = tree /\ Nodes' = Nodes /\ LogType' = LogType
      /\ \A m : IsWrapper(m)' = IsWrapper(m)
  BY TreeStays DEF Ready, TypeInv, Return
<1>2. ReturnPlaces(n)
  BY ReturnIs
<1>3. R \in SUBSET Nodes /\ n \notin R
  BY DEF Running
<1>4. Running' = R
  <2>1. \A m \in Nodes : (pc'[m] = "run") <=> (m # n /\ pc[m] = "run")
    BY <1>2 DEF ReturnPlaces, Act
  <2>. QED
    BY <1>1, <2>1 DEF Running
<1>5. LogFits(l, IF IsWrapper(n) THEN R ELSE R \union {n})
  <2>1. IsWrapper(n) => Running = R
    BY DEF Running
  <2>2. ~IsWrapper(n) => Running \union {n} = R \union {n}
    OBVIOUS
  <2>. QED
    BY <2>1, <2>2 DEF Ready
<1>6. LogFits(log', R) /\ NothingHeld(log', verdict')
  <2>1. CASE n = Root
    <3>1. R = {}
      <4>1. ASSUME NEW m \in R
            PROVE  FALSE
        <5>1. m \in Nodes /\ m # Root /\ pc[m] = "run"
          BY <2>1 DEF Running
        <5>2. n \in Ancestors[m]
          BY <1>1, <2>1, <5>1, OrderIs
        <5>. QED
          BY <1>1, <5>1, <5>2, QuietBelow DEF Ready, Quiet, PlacesFit, Act
      <4>. QED
        BY <4>1
    <3>2. Commit(l, err, work)
      BY <2>1 DEF Return
    <3>3. LogFits(log', R) /\ log'.hold.exec = <<>>
      BY <1>1, <1>3, <1>5, <2>1, <3>1, <3>2, CommitFits
    <3>. QED
      BY <3>3 DEF NothingHeld
  <2>2. CASE n # Root
    <3>1. log' = Ends(l, n, err) /\ verdict' = "running"
      BY <1>2, <2>2 DEF Return, ReturnPlaces
    <3>2. LogFits(Ends(l, n, err), R)
      BY <1>1, <1>3, <1>5, EndsFit
    <3>. QED
      BY <3>1, <3>2 DEF NothingHeld
  <2>. QED
    BY <2>1, <2>2
<1>7. log' \in LogType
  BY <1>6 DEF LogFits
<1>8. LogFits(log, Running)'
  <2>. HIDE DEF R
  <2>. QED
    BY <1>1, <1>4, <1>6 DEF LogFits, Filed
<1>. QED
  BY <1>6, <1>7, <1>8 DEF LogHolds, NothingHeld

\* What n does or drops is inside n: nothing of it is outside what is around n.
LEMMA Elsewhere ==
  ASSUME tree \in Trees, NEW n \in Nodes, NEW m \in Nodes, m # n, m \notin Ancestors[n], n \notin Ancestors[m],
         NEW w \in Mine(n)
  PROVE  w \notin Mine(m)
<1>1. SUFFICES ASSUME w \in Mine(m)
      PROVE  FALSE
  OBVIOUS
<1>2. w[1] \in Nodes /\ w[1] \in Below(n) /\ w[1] \in Below(m)
  BY <1>1 DEF Mine, Below
<1>. QED
  BY <1>2, BelowBoth

\* What is around n holds what n does.
LEMMA MineGrows ==
  ASSUME tree \in Trees, NEW n \in Nodes, NEW m \in Ancestors[n]
  PROVE  m \in Nodes /\ Mine(n) \subseteq Mine(m)
<1>1. m \in Nodes /\ \A k \in Nodes : n \in Ancestors[k] => Ancestors[n] \subseteq Ancestors[k]
  BY OrderIs
<1>2. Below(n) \subseteq Below(m)
  BY <1>1 DEF Below
<1>. QED
  BY <1>1, <1>2 DEF Mine

\* What n staged commits with it, or goes with it.
LEMMA ReturnStages ==
  ASSUME TypeInv, PlacesFit, WorkFits, NEW n, NEW l, NEW F, NEW S, NEW err, NEW work,
         Ready(n, l, F, S, err, work), ReturnPlaces(n), ReturnWork(n, F, err, work)
  PROVE  /\ Owned' /\ StagedStands'
         /\ Live' = IF err = <<>> THEN Live \union S ELSE Live \ F.since[n]
         /\ \A m \in Ancestors[n] : m \in Nodes /\ fate'.since[m] = fate.since[m] \union (S \ Live)
         /\ \A m \in Nodes : m # n /\ m \notin Ancestors[n] => fate'.since[m] = fate.since[m]
<1>1. /\ n \in Nodes /\ tree' = tree /\ Nodes' = Nodes /\ Ancestors' = Ancestors /\ tree \in Trees
      /\ \A m : Kind(m)' = Kind(m) /\ Children(m)' = Children(m) /\ Mine(m)' = Mine(m) /\ Parent(m)' = Parent(m)
  BY TreeStays DEF TypeInv, ReturnPlaces, Ready
<1>2. \A m \in Ancestors[n] : m # n /\ m \in Nodes /\ Mine(n) \subseteq Mine(m)
  BY <1>1, MineGrows, OrderIs
<1>3. /\ \A m \in Ancestors[n] : fate'.since[m] = fate.since[m] \union (S \ Live)
      /\ \A m \in Nodes : m # n /\ m \notin Ancestors[n] => fate'.since[m] = fate.since[m]
      /\ fate'.since[n] \subseteq fate.since[n] \union (S \ Live)
      /\ S \ Live \subseteq fate'.since[n] /\ fate'.since[n] = F.since[n]
  BY <1>1, <1>2 DEF ReturnWork, Ready, Hist
<1>4. \A m \in Nodes : fate.since[m] \subseteq Mine(m) /\ staged[m] \subseteq Mine(m) /\ staged[m] \subseteq Live
  BY DEF WorkFits, Owned, StagedStands
<1>5. S \subseteq Mine(n)
  BY DEF Ready, Hist
<1>6. Live' = IF err = <<>> THEN Live \union S ELSE Live \ F.since[n]
  <2>1. /\ F.worked = fate.worked \union S /\ F.dropped = fate.dropped \ S
    BY DEF Ready, Hist
  <2>2. CASE err = <<>>
    BY <2>1, <2>2 DEF ReturnWork, Live
  <2>3. CASE err # <<>>
    <3>1. fate'.worked = F.worked /\ fate'.dropped = F.dropped \union F.since[n]
      BY <2>3 DEF ReturnWork
    <3>2. S \ Live \subseteq F.since[n]
      BY <1>3
    <3>. QED
      BY <2>1, <2>3, <3>1, <3>2 DEF Live
  <2>. QED
    BY <2>2, <2>3
<1>7. \A m \in Nodes : fate'.since[m] \subseteq Mine(m) /\ staged'[m] \subseteq Mine(m)
  <2>1. \A m \in Nodes : fate'.since[m] \subseteq Mine(m)
    BY <1>2, <1>3, <1>4, <1>5
  <2>2. \A m \in Nodes : staged'[m] \subseteq Mine(m)
    <3>1. err = <<>> => work \subseteq Mine(n)
      BY DEF Ready
    <3>. QED
      BY <1>4, <3>1 DEF ReturnWork, ReturnPlaces
  <2>. QED
    BY <2>1, <2>2
<1>8. ASSUME NEW m \in Nodes, m # n, m \notin Children(n)
      PROVE  staged[m] \intersect F.since[n] = {}
  <2>1. CASE pc[n] = "start"
    BY <1>1, <2>1 DEF Ready, Hist
  <2>2. CASE pc[n] \in Act /\ m \in Ancestors[n]
    <3>1. staged[m] \intersect fate.since[n] = {}
      BY <1>1, <2>2 DEF WorkFits, Apart
    <3>. QED
      BY <1>3, <1>4, <3>1
  <2>3. CASE n \in Ancestors[m]
    <3>1. PICK c \in Children(n) : m = c \/ c \in Ancestors[m]
      BY <1>1, <2>3, InsideIs
    <3>2. c \in Ancestors[m] /\ pc[c] \notin Act /\ m # Root /\ c \in Nodes
      BY <1>1, <1>8, <3>1, OrderIs DEF Ready, Quiet, Children
    <3>3. Parent(m) \in Nodes /\ Ancestors[m] = {Parent(m)} \union Ancestors[Parent(m)]
      BY <1>1, <3>2, OrderIs, TreeShape
    <3>4. pc[Parent(m)] \notin Act
      <4>1. CASE c = Parent(m)
        BY <3>2, <4>1
      <4>2. CASE c \in Ancestors[Parent(m)]
        BY <3>2, <3>3, <4>2 DEF PlacesFit, Nested, Act
      <4>. QED
        BY <3>2, <3>3, <4>1, <4>2
    <3>. QED
      BY <3>2, <3>4 DEF WorkFits, StagedStands
  <2>4. CASE m \notin Ancestors[n] /\ n \notin Ancestors[m]
    <3>1. \A w \in Mine(n) : w \notin Mine(m)
      BY <1>1, <1>8, <2>4, Elsewhere
    <3>2. F.since[n] \subseteq Mine(n) /\ staged[m] \subseteq Mine(m)
      BY <1>1, <1>3, <1>4, <1>5
    <3>. QED
      BY <3>1, <3>2
  <2>. QED
    BY <2>1, <2>2, <2>3, <2>4 DEF Ready
<1>9. \A m \in Nodes : staged'[m] \subseteq Live'
  <2>1. err = <<>> => work \subseteq Live'
    BY <1>6 DEF Ready, ReturnWork, Live
  <2>2. ASSUME NEW m \in Nodes, m # n, m \notin Children(n)
        PROVE  staged'[m] \subseteq Live'
    <3>1. staged'[m] = staged[m]
      BY <2>2 DEF ReturnPlaces
    <3>. QED
      BY <1>4, <1>6, <1>8, <2>2, <3>1
  <2>. QED
    BY <2>1, <2>2 DEF ReturnWork
<1>10. ASSUME NEW m \in Nodes, m # Root, pc'[Parent(m)] \notin Act
       PROVE  staged'[m] = {}
  <2>1. Parent(m) \in Nodes /\ m \in Children(Parent(m))
    BY <1>1, <1>10, TreeShape DEF Children, Parent
  <2>2. CASE Parent(m) = n
    BY <2>1, <2>2 DEF ReturnWork
  <2>3. CASE Parent(m) # n
    <3>1. m \notin Children(n)
      BY <2>3 DEF Children, Parent
    <3>2. pc[Parent(m)] \notin Act
      BY <1>10, <2>1, <2>3 DEF ReturnPlaces
    <3>3. m # n
      <4>1. m = n => Parent(m) \in Ancestors[n]
        BY <1>1, <1>10, OrderIs
      <4>. QED
        BY <1>1, <3>2, <4>1 DEF PlacesFit, Nested, Ready, Act
    <3>. QED
      BY <1>10, <3>1, <3>2, <3>3 DEF ReturnPlaces, WorkFits, StagedStands
  <2>. QED
    BY <2>2, <2>3
<1>11. ASSUME NEW m \in Nodes, m # Root, pc'[m] \in Over, result'[m] # <<>>
       PROVE  staged'[m] = {}
  <2>1. CASE m = n
    BY <1>11, <2>1 DEF ReturnWork
  <2>2. CASE m # n
    <3>1. m \notin Children(n)
      BY <1>11 DEF ReturnPlaces, Over
    <3>. QED
      BY <1>11, <2>2, <3>1 DEF ReturnPlaces, WorkFits, StagedStands
  <2>. QED
    BY <2>1, <2>2
<1>12. ASSUME NEW m \in Nodes, pc'[m] \in Act, Kind(m) # "loop"
       PROVE  staged'[m] = {}
  BY <1>12 DEF ReturnPlaces, WorkFits, StagedStands
<1>13. Owned' /\ StagedStands'
  BY <1>1, <1>7, <1>9, <1>10, <1>11, <1>12 DEF Owned, StagedStands
<1>. QED
  BY <1>2, <1>3, <1>6, <1>13

\* What stands is still staged, and apart from what may be dropped.
LEMMA ReturnWorkFits ==
  ASSUME TypeInv, PlacesFit, WorkFits, NEW n, NEW l, NEW F, NEW S, NEW err, NEW work,
         Ready(n, l, F, S, err, work), ReturnPlaces(n), ReturnWork(n, F, err, work)
  PROVE  WorkFits'
<1>1. /\ n \in Nodes /\ tree' = tree /\ Nodes' = Nodes /\ Ancestors' = Ancestors /\ tree \in Trees
      /\ \A m : Kind(m)' = Kind(m) /\ Children(m)' = Children(m)
  BY TreeStays DEF TypeInv, ReturnPlaces, Ready
<1>2. /\ Owned' /\ StagedStands'
      /\ Live' = IF err = <<>> THEN Live \union S ELSE Live \ F.since[n]
      /\ \A m \in Ancestors[n] : m \in Nodes /\ fate'.since[m] = fate.since[m] \union (S \ Live)
      /\ \A m \in Nodes : m # n /\ m \notin Ancestors[n] => fate'.since[m] = fate.since[m]
  BY ReturnStages
<1>3. \A m \in Nodes : staged[m] \subseteq Live /\ fate.since[m] \subseteq Mine(m)
  BY DEF WorkFits, StagedStands, Owned
<1>4. ASSUME NEW m \in Nodes, pc'[m] \in Act
      PROVE  /\ m # n /\ m \notin Children(n) /\ n \notin Ancestors[m] /\ pc[m] \in Act
             /\ staged'[m] = staged[m]
             /\ \A a \in Ancestors[m] : a \in Nodes /\ staged'[a] = staged[a]
  <2>1. m # n /\ m \notin Children(n) /\ n \notin Ancestors[m] /\ pc[m] \in Act
    BY <1>4 DEF ReturnPlaces
  <2>2. ASSUME NEW a \in Ancestors[m]
        PROVE  a \in Nodes /\ a # n /\ a \notin Children(n)
    <3>1. a \in Nodes /\ Ancestors[a] \subseteq Ancestors[m] /\ a # n
      BY <1>1, <2>1, OrderIs
    <3>. QED
      BY <1>1, <2>1, <3>1, ChildIs
  <2>. QED
    BY <2>1, <2>2 DEF ReturnPlaces
<1>5. Apart'
  <2>1. SUFFICES ASSUME NEW m \in Nodes, pc'[m] \in Act, NEW a \in Ancestors[m]
        PROVE  staged'[a] \intersect fate'.since[m] = {}
    BY <1>1 DEF Apart
  <2>2. pc[m] \in Act /\ a \in Nodes /\ staged'[a] = staged[a] /\ m # n
    BY <1>4, <2>1
  <2>3. staged[a] \intersect fate.since[m] = {} /\ staged[a] \subseteq Live
    BY <1>3, <2>2 DEF WorkFits, Apart
  <2>4. fate'.since[m] \subseteq fate.since[m] \union (S \ Live)
    BY <1>2, <2>2
  <2>. QED
    BY <2>2, <2>3, <2>4
<1>6. ASSUME NEW m \in Nodes, pc'[m] \in Act, NEW w \in fate'.since[m], w \notin fate'.dropped
      PROVE  At(m, w)'
  <2>1. m # n /\ m \notin Children(n) /\ n \notin Ancestors[m] /\ pc[m] \in Act /\ staged'[m] = staged[m]
    BY <1>4, <1>6
  <2>2. F.worked = fate.worked \union S /\ F.dropped = fate.dropped \ S /\ S \subseteq Mine(n)
    BY DEF Ready, Hist
  <2>3. ASSUME At(m, w), n \in Children(m) /\ w \in fate.since[n] /\ pc[n] \in Act => w \in staged'[n] /\ pc'[n] \in Over
        PROVE  At(m, w)'
    <3>1. CASE w \in staged[m]
      BY <2>1, <3>1 DEF At
    <3>2. ASSUME NEW c \in Children(m), (pc[c] \in Act /\ w \in fate.since[c]) \/ (pc[c] \in Over /\ w \in staged[c])
          PROVE  At(m, w)'
      <4>1. c \in Nodes /\ Parent(c) = m
        BY <2>1, ChildIs, <1>1
      <4>2. CASE c = n
        <5>1. pc[n] \in Act /\ w \in fate.since[n]
          BY <3>2, <4>2 DEF Ready, Over, Act
        <5>. QED
          BY <1>1, <2>3, <4>2, <5>1 DEF At
      <4>3. CASE c # n
        <5>1. c \notin Children(n)
          BY <2>1, <4>1 DEF Children, Parent
        <5>2. pc'[c] = pc[c] /\ staged'[c] = staged[c] /\ fate.since[c] \subseteq fate'.since[c]
          BY <1>2, <4>1, <4>3, <5>1 DEF ReturnPlaces
        <5>. QED
          BY <1>1, <3>2, <5>2 DEF At
      <4>. QED
        BY <4>2, <4>3
    <3>3. \/ w \in staged[m]
          \/ \E c \in Children(m) : (pc[c] \in Act /\ w \in fate.since[c]) \/ (pc[c] \in Over /\ w \in staged[c])
      BY <2>3 DEF At
    <3>. QED
      BY <3>1, <3>2, <3>3
  <2>4. w \in fate.since[m] /\ w \notin fate.dropped => At(m, w)
    BY <2>1 DEF WorkFits, Accounted
  <2>5. pc'[n] \in Over
    BY DEF ReturnPlaces, Over
  <2>6. CASE err = <<>>
    <3>1. /\ w \notin F.dropped /\ staged'[n] = work /\ S \subseteq work
          /\ \A x \in F.since[n] : x \notin F.dropped => x \in work
      BY <1>6, <2>6 DEF ReturnWork, Ready
    <3>2. pc[n] \in Act => fate.since[n] \subseteq F.since[n]
      BY <1>1 DEF Ready, Hist, Act
    <3>3. w \in fate.since[n] /\ pc[n] \in Act => w \in staged'[n]
      BY <3>1, <3>2
    <3>4. CASE w \in fate.since[m] /\ w \notin fate.dropped
      BY <2>3, <2>4, <2>5, <3>3, <3>4
    <3>5. CASE ~(w \in fate.since[m] /\ w \notin fate.dropped)
      <4>1. w \in S
        BY <1>2, <1>6, <2>1, <2>2, <3>1, <3>5
      <4>2. m \in Ancestors[n]
        <5>1. ASSUME m \notin Ancestors[n]
              PROVE  FALSE
          <6>1. fate'.since[m] = fate.since[m] /\ w \in Mine(m)
            BY <1>2, <1>3, <1>6, <2>1, <5>1
          <6>. QED
            BY <1>1, <2>1, <2>2, <4>1, <5>1, <6>1, Elsewhere
        <5>. QED
          BY <5>1
      <4>3. CASE n \in Children(m)
        BY <1>1, <2>5, <3>1, <4>1, <4>3 DEF At
      <4>4. CASE n \notin Children(m)
        <5>1. PICK c \in Children(m) : n = c \/ c \in Ancestors[n]
          BY <1>1, <4>2, InsideIs
        <5>2. c \in Ancestors[n] /\ c # n /\ c \notin Children(n) /\ c \in Nodes
          BY <1>1, <4>4, <5>1, ChildIs, OrderIs
        <5>3. pc[c] \in Act /\ pc'[c] = pc[c]
          BY <1>1, <5>2 DEF ReturnPlaces, PlacesFit, Nested, Ready, Act
        <5>4. CASE w \in Live
          <6>1. w \in fate.since[m] /\ w \notin fate.dropped
            BY <1>2, <1>6, <4>2, <5>4 DEF Live
          <6>. QED
            BY <3>5, <6>1
        <5>5. CASE w \notin Live
          <6>1. w \in fate'.since[c]
            BY <1>2, <4>1, <5>2, <5>5
          <6>. QED
            BY <1>1, <5>3, <6>1 DEF At
        <5>. QED
          BY <5>4, <5>5
      <4>. QED
        BY <4>3, <4>4
    <3>. QED
      BY <3>4, <3>5
  <2>7. CASE err # <<>>
    <3>1. w \notin F.dropped /\ w \notin F.since[n]
      BY <1>6, <2>7 DEF ReturnWork
    <3>2. S \ Live \subseteq F.since[n] /\ (pc[n] \in Act => fate.since[n] \subseteq F.since[n])
      BY <1>1 DEF Ready, Hist, Act
    <3>3. w \in fate.since[m]
      BY <1>2, <1>6, <2>1, <3>1, <3>2
    <3>4. w \notin fate.dropped
      BY <2>2, <3>1, <3>2 DEF Live
    <3>. QED
      BY <2>3, <2>4, <3>1, <3>2, <3>3, <3>4
  <2>. QED
    BY <2>6, <2>7
<1>7. Accounted'
  BY <1>1, <1>6 DEF Accounted
<1>8. AllInside'
  <2>1. Root \in Nodes
    BY <1>1, TreeShape
  <2>2. CASE n = Root
    BY <2>2 DEF AllInside, ReturnPlaces
  <2>3. CASE n # Root
    <3>1. Root \in Ancestors[n]
      BY <1>1, <2>3, OrderIs
    <3>2. pc'[Root] # "start"
      <4>1. pc[Root] \in Act /\ Root \notin Children(n)
        BY <1>1, <3>1 DEF ReturnPlaces, PlacesFit, Nested, Ready, Act
      <4>. QED
        BY <2>1, <2>3, <4>1 DEF ReturnPlaces, Act
    <3>3. Live \subseteq fate.since[Root]
      BY <2>3 DEF ReturnPlaces, WorkFits, AllInside
    <3>4. Live' \subseteq fate'.since[Root]
      BY <1>2, <3>1, <3>3
    <3>. QED
      BY <3>2, <3>4 DEF AllInside
  <2>. QED
    BY <2>2, <2>3
<1>9. CommittedIsWhatStands'
  <2>1. SUFFICES ASSUME verdict' = "committed"
        PROVE  memory' = fate'.worked \ fate'.dropped
    BY DEF CommittedIsWhatStands
  <2>2. n = Root /\ verdict = "running"
    BY <2>1 DEF ReturnPlaces
  <2>3. err = <<>> /\ memory' = work
    BY <2>1, <2>2 DEF ReturnWork
  <2>4. Live \subseteq fate.since[n]
    BY <2>2 DEF WorkFits, AllInside
  <2>5. Live' = Live \union S /\ fate'.worked = F.worked /\ fate'.dropped = F.dropped
    BY <1>2, <2>3 DEF ReturnWork
  <2>6. /\ pc[n] \in Act /\ S \subseteq work /\ work \subseteq F.worked \ F.dropped
        /\ \A w \in F.since[n] : w \notin F.dropped => w \in work
    BY <2>3 DEF Ready
  <2>7. fate.since[n] \subseteq F.since[n]
    BY <1>1, <2>6 DEF Ready, Hist, Act
  <2>8. Live' = F.worked \ F.dropped
    BY <2>5 DEF Live
  <2>. QED
    BY <2>3, <2>4, <2>5, <2>6, <2>7, <2>8
<1>. QED
  BY <1>2, <1>5, <1>7, <1>8, <1>9 DEF WorkFits

\* A step that returns a bare cancellation was cancelled from outside.
LEMMA ReturnFailFits ==
  ASSUME TypeInv, PlacesFit, FailFits, NEW n \in Nodes, NEW F, NEW err, NEW work,
         ReturnPlaces(n), ReturnWork(n, F, err, work), Bare(err) => Ctx(n) \in Cancelled,
         n = Root => result'[n] \in {err, <<"commit">>}
  PROVE  FailFits'
<1>1. /\ tree' = tree /\ Nodes' = Nodes /\ tree \in Trees /\ ended' = ended
      /\ \A m : Kind(m)' = Kind(m) /\ Children(m)' = Children(m)
  BY TreeStays DEF TypeInv, ReturnPlaces
<1>2. ASSUME NEW m \in Nodes, m \notin Children(n)
      PROVE  Ctx(m)' = Ctx(m)
  <2>1. CASE m = Root
    BY <1>1, <2>1 DEF Ctx
  <2>2. CASE m # Root
    <3>1. tree.parent[m] \in Nodes /\ tree.parent[m] # n
      BY <1>1, <1>2, <2>2, TreeShape DEF Parent, Children
    <3>. QED
      BY <1>1, <2>2, <3>1 DEF Ctx, ReturnPlaces
  <2>. QED
    BY <2>1, <2>2
<1>3. n \notin Children(n)
  BY DEF ReturnPlaces
<1>4. Fresh'
  <2>1. SUFFICES ASSUME NEW m \in Nodes, pc'[m] \notin Act
        PROVE  inner'[m] = "no" /\ failures'[m] = <<>>
    BY <1>1 DEF Fresh
  <2>2. CASE m = n
    BY <2>2 DEF ReturnPlaces
  <2>3. CASE m # n
    <3>1. pc[m] \notin Act
      BY <2>1, <2>3 DEF ReturnPlaces
    <3>. QED
      BY <2>3, <3>1 DEF ReturnPlaces, FailFits, Fresh
  <2>. QED
    BY <2>2, <2>3
<1>5. ASSUME NEW m \in Nodes, pc'[m] \in Act
      PROVE  m # n /\ m \notin Children(n) /\ pc[m] \in Act /\ inner'[m] = inner[m] /\ failures'[m] = failures[m]
  BY <1>5 DEF ReturnPlaces
<1>6. CausesFit'
  BY <1>1, <1>2, <1>5 DEF CausesFit, FailFits
<1>7. BareFits'
  <2>1. ASSUME NEW m \in Nodes, pc'[m] \in Over, Bare(result'[m])
        PROVE  Ctx(m)' \in Cancelled
    <3>1. m \notin Children(n)
      BY <2>1 DEF ReturnPlaces, Over
    <3>2. Ctx(m)' = Ctx(m)
      BY <1>2, <3>1
    <3>3. CASE m = n
      <4>1. ~Bare(<<"commit">>)
        BY DEF Bare
      <4>2. result'[n] \in {err, <<"commit">>}
        BY DEF ReturnWork
      <4>. QED
        BY <2>1, <3>2, <3>3, <4>1, <4>2
    <3>4. CASE m # n
      <4>1. pc'[m] = pc[m] /\ result'[m] = result[m]
        BY <3>1, <3>4 DEF ReturnPlaces
      <4>. QED
        BY <2>1, <3>2, <4>1 DEF FailFits, BareFits
    <3>. QED
      BY <3>3, <3>4
  <2>2. ASSUME NEW m \in Nodes, pc'[m] \in Act, failures'[m] # <<>>
        PROVE  failures'[m][1] # <<>> /\ (Bare(failures'[m][1]) => Ctx(m)' \in Cancelled)
    BY <1>2, <1>5, <2>2 DEF FailFits, BareFits
  <2>3. ASSUME NEW m \in Nodes, NEW c \in Children(m), pc'[c] = "listed"
        PROVE  failures'[m] # <<>> /\ Kind(m) \in {"parallel", "map"}
    <3>1. c \in Nodes /\ c # n /\ c \notin Children(n) /\ m # n
      BY <2>3 DEF ReturnPlaces, Children
    <3>. QED
      BY <2>3, <3>1 DEF ReturnPlaces, FailFits, BareFits
  <2>. QED
    BY <1>1, <2>1, <2>2, <2>3 DEF BareFits, Bare
<1>. QED
  BY <1>4, <1>6, <1>7 DEF FailFits

\* A step that returns keeps the invariant.
LEMMA ReturnKeeps ==
  ASSUME StepTreeInv, NEW n, NEW l, NEW F, NEW S, NEW err, NEW work,
         Ready(n, l, F, S, err, work), Return(n, l, F, err, work)
  PROVE  StepTreeInv'
<1>. USE DEF StepTreeInv
<1>1. ReturnPlaces(n) /\ ReturnWork(n, F, err, work)
  BY ReturnIs
<1>2. n \in Nodes /\ pc[n] \in {"start"} \union Act /\ (Bare(err) => Ctx(n) \in Cancelled)
  BY DEF Ready
<1>3. log' \in LogType /\ LogHolds'
  BY ReturnLog
<1>4. TypeInv'
  BY <1>3, ReturnTypes
<1>5. PlacesFit'
  BY <1>1, <1>2, ReturnPlacesFit
<1>6. CutDown(pc, inner, ended)'
  BY <1>1, <1>2, ReturnCutDown
<1>7. WorkFits'
  BY <1>1, ReturnWorkFits
<1>8. n = Root => result'[n] \in {err, <<"commit">>}
  BY <1>2 DEF Return, Commit, Returned
<1>9. FailFits'
  BY <1>1, <1>2, <1>8, ReturnFailFits
<1>. QED
  BY <1>3, <1>4, <1>5, <1>6, <1>7, <1>9

-----------------------------------------------------------------------------
(* The other steps. *)

\* The records go on as they are.
LEMMA LogStays ==
  ASSUME TypeInv, LogHolds, tree' = tree, log' = log, verdict' = verdict,
         \A m \in Nodes : ~IsWrapper(m) => (pc'[m] = "run" <=> pc[m] = "run")
  PROVE  LogHolds'
<1>1. Nodes' = Nodes /\ LogType' = LogType /\ \A m : IsWrapper(m)' = IsWrapper(m)
  BY TreeStays
<1>2. Running' = Running
  BY <1>1 DEF Running
<1>. QED
  BY <1>1, <1>2 DEF LogHolds, NothingHeld, LogFits, Filed

\* What is staged stays where it is.
LEMMA WorkStays ==
  ASSUME TypeInv, WorkFits, UNCHANGED <<tree, result, verdict, memory, fate, staged>>,
         \A m \in Nodes : pc'[m] \in Act <=> pc[m] \in Act,
         \A m \in Nodes : pc'[m] \in Over => pc[m] \in Over,
         \A m \in Nodes : pc[m] \in Over /\ pc'[m] \notin Over => staged[m] = {},
         pc'[Root] = "start" => pc[Root] = "start"
  PROVE  WorkFits'
<1>1. /\ Nodes' = Nodes /\ Ancestors' = Ancestors /\ tree \in Trees
      /\ \A m : Kind(m)' = Kind(m) /\ Children(m)' = Children(m) /\ Mine(m)' = Mine(m) /\ Parent(m)' = Parent(m)
  BY TreeStays DEF TypeInv
<1>2. Live' = Live
  BY DEF Live
<1>3. Owned' /\ Apart' /\ AllInside' /\ CommittedIsWhatStands'
  BY <1>1, <1>2 DEF WorkFits, Owned, Apart, AllInside, CommittedIsWhatStands
<1>4. StagedStands'
  <2>1. \A m \in Nodes : m # Root => Parent(m) \in Nodes
    BY <1>1, TreeShape
  <2>. QED
    BY <1>1, <1>2, <2>1 DEF WorkFits, StagedStands
<1>5. Accounted'
  <2>1. SUFFICES ASSUME NEW m \in Nodes, pc'[m] \in Act, NEW w \in fate.since[m], w \notin fate.dropped
        PROVE  At(m, w)'
    BY <1>1 DEF Accounted
  <2>2. At(m, w)
    BY <2>1 DEF WorkFits, Accounted
  <2>3. \A c \in Children(m) : c \in Nodes
    BY DEF Children
  <2>. QED
    BY <1>1, <2>2, <2>3 DEF At
<1>. QED
  BY <1>3, <1>4, <1>5 DEF WorkFits

\* A step that goes on keeps the nesting.
LEMMA MovesPlaces ==
  ASSUME TypeInv, PlacesFit, NEW n, NEW C, Moves(n, C), pc[n] \in {"start"} \union Act, pc'[n] \in Act,
         tree' = tree, verdict' = verdict
  PROVE  Nested(pc', verdict') /\ Nested(pc, verdict)'
<1>1. /\ Nodes' = Nodes /\ Ancestors' = Ancestors /\ tree \in Trees /\ n \in Nodes
  BY TreeStays DEF TypeInv, Moves
<1>2. \A m \in Nodes : pc'[m] # "idle" => \A a \in Ancestors[m] : pc'[a] \in Act
  BY <1>1, MovesNest DEF PlacesFit
<1>3. Root \in Nodes /\ Root \notin C
  BY <1>1, TreeShape, ChildIs DEF Moves
<1>4. /\ pc'[Root] \in {"start", "run", "wait", "done"}
      /\ pc'[Root] = "done" <=> verdict' # "running"
  BY <1>3 DEF Moves, PlacesFit, Nested, Act
<1>5. Nested(pc', verdict')
  BY <1>2, <1>4 DEF Nested
<1>. QED
  BY <1>1, <1>2, <1>4, <1>5 DEF Nested

\* A step begins when its own context lives: then nothing around it has ended.
LEMMA AroundBegin ==
  ASSUME StepTreeInv, NEW n \in Nodes, pc[n] = "start", Ctx(n) = "no"
  PROVE  ended = "no" /\ \A a \in Ancestors[n] : a \in Nodes /\ inner[a] = "no"
<1>. USE DEF StepTreeInv
<1>1. tree \in Trees
  BY DEF TypeInv
<1>2. \A a \in Ancestors[n] : a \in Nodes /\ inner[a] = "no"
  <2>1. CASE n = Root
    BY <1>1, <2>1, OrderIs
  <2>2. CASE n # Root
    <3>1. Parent(n) \in Ancestors[n] /\ Ancestors[n] = {Parent(n)} \union Ancestors[Parent(n)] /\ Ancestors[n] \subseteq Nodes
      BY <1>1, <2>2, OrderIs
    <3>2. pc[Parent(n)] \in Act /\ inner[Parent(n)] = "no"
      BY <2>2, <3>1 DEF PlacesFit, Nested, Ctx, Parent
    <3>. QED
      BY <3>1, <3>2 DEF CutDown
  <2>. QED
    BY <2>1, <2>2
<1>3. ended = "no"
  <2>1. CASE n = Root
    BY <2>1 DEF Ctx
  <2>2. CASE n # Root
    <3>1. Root \in Ancestors[n] /\ pc[Root] \in Act
      BY <1>1, <2>2, OrderIs DEF PlacesFit, Nested
    <3>. QED
      BY <1>1, <1>2, <3>1, TreeShape DEF CutDown
  <2>. QED
    BY <2>1, <2>2
<1>. QED
  BY <1>2, <1>3

\* runNode begins: nothing has ended around it, and nothing has begun inside it.
LEMMA BeginKeeps ==
  ASSUME StepTreeInv, NEW n \in Nodes, Begin(n)
  PROVE  StepTreeInv'
<1>. USE DEF StepTreeInv
<1>1. /\ tree' = tree /\ Nodes' = Nodes /\ Ancestors' = Ancestors /\ tree \in Trees
      /\ Work' = Work /\ LogType' = LogType /\ FateType' = FateType
      /\ \A m : Kind(m)' = Kind(m) /\ Children(m)' = Children(m) /\ Mine(m)' = Mine(m) /\ Parent(m)' = Parent(m)
                /\ IsWrapper(m)' = IsWrapper(m)
  BY TreeStays DEF TypeInv, Begin
<1>2. /\ pc[n] = "start" /\ Ctx(n) = "no" /\ ended' = ended /\ inner' = inner /\ failures' = failures
      /\ result' = result /\ verdict' = verdict /\ memory' = memory
  BY DEF Begin
<1>3. \A m \in Nodes : n \in Ancestors[m] => pc[m] = "idle"
  BY <1>2 DEF PlacesFit, Nested, Act
<1>4. \A c \in Children(n) : c \in Nodes /\ c # n /\ c # Root /\ pc[c] = "idle"
  BY <1>1, <1>3, ChildIs
<1>5. /\ pc'[n] = "run" /\ \A c \in Children(n) : pc'[c] \in {"idle", "start"}
      /\ \A m \in Nodes : m # n /\ m \notin Children(n) => pc'[m] = pc[m]
      /\ \A c \in Children(n) : pc'[c] = "start" => Kind(n) \in {"parallel", "policy"}
  BY <1>4 DEF Begin
<1>6. \A m \in Nodes : pc'[m] \in Act <=> m = n \/ pc[m] \in Act
  BY <1>4, <1>5 DEF Act
<1>7. \A m \in Nodes : m # n => staged'[m] = staged[m] /\ fate'.since[m] = fate.since[m]
  BY DEF Begin, TypeInv, FateType
<1>8. /\ staged'[n] = {} /\ fate'.since[n] = {} /\ fate'.worked = fate.worked /\ fate'.dropped = fate.dropped
      /\ fate' \in FateType /\ staged' \in [Nodes -> SUBSET Work]
  BY DEF Begin, TypeInv, FateType
<1>9. log' \in LogType /\ LogHolds'
  <2>. DEFINE R == IF IsWrapper(n) THEN Running ELSE Running \union {n}
  <2>1. n \notin Running /\ Running \in SUBSET Nodes
    BY <1>2 DEF Running
  <2>2. LogFits(log', R) /\ log'.hold = log.hold
    <3>1. LogFits(log, Running)
      BY DEF LogHolds
    <3>2. CASE IsWrapper(n)
      BY <3>1, <3>2 DEF Begin
    <3>3. CASE ~IsWrapper(n)
      <4>1. log' = Begun(log, n)
        BY <3>3 DEF Begin
      <4>2. LogFits(Begun(log, n), Running \union {n}) /\ Begun(log, n).hold = log.hold
        <5>. HIDE DEF Running, StepTreeInv
        <5>1. n \in Nodes \ Running
          BY <2>1
        <5>. QED
          BY <2>1, <3>1, <5>1, BegunFits
      <4>. QED
        BY <3>3, <4>1, <4>2
    <3>. QED
      BY <3>2, <3>3
  <2>3. Running' = R
    <3>1. \A m \in Nodes : pc'[m] = "run" <=> m = n \/ pc[m] = "run"
      BY <1>4, <1>5
    <3>. QED
      BY <1>1, <3>1 DEF Running
  <2>. HIDE DEF R
  <2>4. LogFits(log, Running)'
    BY <1>1, <2>2, <2>3 DEF LogFits, Filed
  <2>5. NothingHeld(log, verdict)'
    BY <1>2, <2>2 DEF LogHolds, NothingHeld
  <2>. QED
    BY <2>2, <2>4, <2>5 DEF LogHolds, LogFits
<1>10. TypeInv'
  <2>1. pc' \in [Nodes -> PCs]
    BY DEF Begin, TypeInv, PCs
  <2>2. count' \in [Nodes -> Nat]
    BY DEF Begin, TypeInv
  <2>. QED
    BY <1>1, <1>2, <1>8, <1>9, <2>1, <2>2 DEF TypeInv
<1>11. PlacesFit'
  <2>1. Moves(n, Children(n))
    BY <1>2, <1>4, <1>5 DEF Moves, Act
  <2>2. Nested(pc, verdict)'
    BY <1>1, <1>2, <1>5, <2>1, MovesPlaces DEF Act
  <2>3. Waits(pc, result)'
    <3>1. SUFFICES ASSUME NEW m \in Nodes, pc'[m] = "wait"
          PROVE  Kind(m) = "policy" /\ \A c \in Children(m) : pc'[c] = "done" /\ result[c] # <<>>
      BY <1>1, <1>2 DEF Waits
    <3>2. m # n /\ pc[m] = "wait"
      BY <1>4, <1>5, <3>1
    <3>3. Kind(m) = "policy" /\ \A c \in Children(m) : pc[c] = "done" /\ result[c] # <<>> /\ c \in Nodes
      BY <3>2 DEF PlacesFit, Waits, Children
    <3>4. \A c \in Children(m) : c # n /\ c \notin Children(n)
      BY <1>2, <3>2, <3>3 DEF Children
    <3>. QED
      BY <1>5, <3>3, <3>4
  <2>4. InTurn(pc)'
    <3>1. SUFFICES ASSUME NEW m \in Nodes, Kind(m) = "until", NEW c \in Children(m), NEW d \in Children(m), pc'[d] # "idle"
          PROVE  (pc'[c] = "idle" => d < c) /\ (pc'[c] \in Busy => d <= c)
      BY <1>1 DEF InTurn
    <3>2. c \in Nodes /\ d \in Nodes /\ tree.parent[c] = m /\ tree.parent[d] = m
      BY DEF Children
    <3>3. m # n
      BY <1>5, <3>1
    <3>4. c \notin Children(n) /\ d \notin Children(n)
      BY <3>2, <3>3 DEF Children
    <3>5. \A k \in {c, d} : (pc'[k] = "idle" <=> pc[k] = "idle") /\ (pc'[k] \in Busy <=> pc[k] \in Busy)
      BY <1>2, <1>5, <3>2, <3>4 DEF Busy
    <3>. QED
      BY <3>1, <3>5 DEF PlacesFit, InTurn
  <2>. QED
    BY <2>2, <2>3, <2>4 DEF PlacesFit
<1>12. \A a \in Ancestors[n] : a \in Nodes /\ inner[a] = "no"
  BY <1>2, AroundBegin
<1>13. ended = "no"
  BY <1>2, AroundBegin
<1>14. CutDown(pc, inner, ended)'
  BY <1>1, <1>2, <1>6, <1>12, <1>13 DEF CutDown
<1>15. WorkFits'
  <2>1. Live' = Live
    BY <1>8 DEF Live
  <2>2. Owned'
    BY <1>1, <1>7, <1>8 DEF WorkFits, Owned
  <2>3. StagedStands'
    <3>1. \A m \in Nodes : m # Root => Parent(m) \in Nodes
      BY <1>1, TreeShape
    <3>2. \A m \in Nodes : pc'[m] \in Over => m # n /\ pc[m] \in Over
      BY <1>4, <1>5 DEF Over
    <3>3. \A m \in Nodes : staged'[m] = {} \/ staged'[m] = staged[m]
      BY <1>7, <1>8
    <3>. QED
      BY <1>1, <1>2, <1>6, <1>8, <2>1, <3>1, <3>2, <3>3 DEF WorkFits, StagedStands
  <2>4. Apart'
    <3>1. \A m \in Nodes : Ancestors[m] \subseteq Nodes
      BY <1>1, OrderIs
    <3>. QED
      BY <1>1, <1>6, <1>7, <1>8, <3>1 DEF WorkFits, Apart
  <2>5. Accounted'
    <3>1. SUFFICES ASSUME NEW m \in Nodes, pc'[m] \in Act, NEW w \in fate'.since[m], w \notin fate'.dropped
          PROVE  At(m, w)'
      BY <1>1 DEF Accounted
    <3>2. m # n /\ pc[m] \in Act /\ w \in fate.since[m] /\ w \notin fate.dropped
      BY <1>6, <1>7, <1>8, <3>1
    <3>3. At(m, w)
      BY <3>2 DEF WorkFits, Accounted
    <3>4. \A c \in Children(m) : c \in Nodes /\ c \notin Children(n)
      BY <3>2 DEF Children
    <3>5. n \in Children(m) => pc[n] \notin Act \union Over
      BY <1>2 DEF Act, Over
    <3>6. staged'[m] = staged[m]
      BY <1>7, <3>2
    <3>7. \A c \in Children(m) : c # n => pc'[c] = pc[c] /\ staged'[c] = staged[c] /\ fate'.since[c] = fate.since[c]
      BY <1>5, <1>7, <3>4
    <3>. QED
      BY <1>1, <3>3, <3>5, <3>6, <3>7 DEF At
  <2>6. AllInside'
    <3>1. Root \in Nodes
      BY <1>1, TreeShape
    <3>2. pc'[Root] # "start"
      <4>1. CASE n = Root
        BY <1>5, <4>1
      <4>2. CASE n # Root
        <5>1. Root \in Ancestors[n]
          BY <1>1, <4>2, OrderIs
        <5>2. pc[Root] \in Act /\ pc'[Root] \in Act
          BY <1>2, <1>6, <3>1, <5>1 DEF PlacesFit, Nested
        <5>. QED
          BY <5>2 DEF Act
      <4>. QED
        BY <4>1, <4>2
    <3>3. Live' \subseteq fate'.since[Root] \/ verdict # "running"
      <4>1. CASE n = Root
        <5>1. Live = {}
          BY <1>2, <4>1 DEF WorkFits, AllInside, Live
        <5>. QED
          BY <2>1, <5>1
      <4>2. CASE n # Root
        BY <1>7, <2>1, <3>1, <4>2 DEF WorkFits, AllInside
      <4>. QED
        BY <4>1, <4>2
    <3>. QED
      BY <1>2, <3>2, <3>3 DEF AllInside
  <2>7. CommittedIsWhatStands'
    BY <1>2, <1>8 DEF WorkFits, CommittedIsWhatStands
  <2>. QED
    BY <2>2, <2>3, <2>4, <2>5, <2>6, <2>7 DEF WorkFits
<1>16. FailFits'
  <2>1. \A m \in Nodes : Ctx(m)' = Ctx(m)
    BY <1>1, <1>2 DEF Ctx
  <2>2. inner[n] = "no" /\ failures[n] = <<>>
    BY <1>2 DEF FailFits, Fresh, Act
  <2>3. Fresh'
    BY <1>1, <1>2, <1>6 DEF FailFits, Fresh
  <2>4. CausesFit'
    BY <1>1, <1>2, <1>6, <2>1, <2>2 DEF FailFits, CausesFit
  <2>5. BareFits'
    <3>1. \A m \in Nodes : pc'[m] \in Over => pc[m] \in Over
      BY <1>4, <1>5 DEF Over
    <3>2. \A m \in Nodes : pc'[m] = "listed" => pc[m] = "listed"
      BY <1>4, <1>5
    <3>3. \A m \in Nodes : \A c \in Children(m) : c \in Nodes
      BY DEF Children
    <3>. QED
      BY <1>1, <1>2, <1>6, <2>1, <2>2, <3>1, <3>2, <3>3 DEF FailFits, BareFits, Bare
  <2>. QED
    BY <2>3, <2>4, <2>5 DEF FailFits
<1>. QED
  BY <1>9, <1>10, <1>11, <1>14, <1>15, <1>16

\* The context of n's children ends, for a cause that n has or the whole run.
CutFor(n, cause) ==
  /\ n \in Nodes /\ cause \in Causes \ {"no"} /\ inner' = Cut(n, cause)
  /\ UNCHANGED <<tree, count, failures, staged, result, log, verdict, memory, fate>>
  /\ \/ pc' = pc
     \/ pc[n] = "run" /\ \E c \in Children(n) : pc[c] = "listed" /\ pc' = [pc EXCEPT ![c] = "over"]
  /\ \/ /\ ended' = ended /\ pc[n] \in Act
        /\ \/ cause = "timeout" /\ Kind(n) = "policy"
           \/ cause = "sibling" /\ Kind(n) = "parallel" /\ failures[n] # <<>>
           \/ cause = "element" /\ Kind(n) = "map" /\ failures[n] # <<>>
     \/ n = Root /\ ended = "no" /\ ended' = cause /\ cause \in {"canceled", "budget"}

\* The end of a context reaches all made from it, and no others.
LEMMA CutKeeps ==
  ASSUME StepTreeInv, NEW n, NEW cause, CutFor(n, cause)
  PROVE  StepTreeInv'
<1>. USE DEF StepTreeInv
<1>1. /\ tree' = tree /\ Nodes' = Nodes /\ Ancestors' = Ancestors /\ tree \in Trees
      /\ Work' = Work /\ LogType' = LogType /\ FateType' = FateType
      /\ \A m : Kind(m)' = Kind(m) /\ Children(m)' = Children(m) /\ Mine(m)' = Mine(m) /\ Parent(m)' = Parent(m)
                /\ IsWrapper(m)' = IsWrapper(m)
  BY TreeStays DEF TypeInv, CutFor
<1>2. UNCHANGED <<count, failures, staged, result, log, verdict, memory, fate>>
  BY DEF CutFor
<1>3. \A m \in Nodes : pc'[m] = pc[m] \/ (pc[m] = "listed" /\ pc'[m] = "over")
  BY DEF CutFor, TypeInv
<1>4. pc' \in [Nodes -> PCs]
  BY DEF CutFor, TypeInv, PCs, Children
<1>5. \A m \in Nodes : pc'[m] \in Act <=> pc[m] \in Act
  BY <1>3 DEF Act
<1>6. \A m \in Nodes : inner'[m] = IF m \in Below(n) /\ pc[m] \in Act /\ inner[m] = "no" THEN cause ELSE inner[m]
  BY DEF CutFor, Cut, Act
<1>7. inner' \in [Nodes -> Causes]
  <2>1. inner' = [m \in Nodes |-> IF m \in Below(n) /\ pc[m] \in Act /\ inner[m] = "no" THEN cause ELSE inner[m]]
    BY DEF CutFor, Cut, Act
  <2>. QED
    BY <2>1 DEF CutFor, TypeInv
<1>8. TypeInv'
  <2>1. ended' \in {"no", "canceled", "budget"}
    BY DEF CutFor, TypeInv
  <2>. QED
    BY <1>1, <1>2, <1>4, <1>7, <2>1 DEF TypeInv
<1>9. PlacesFit'
  <2>1. Root \in Nodes
    BY <1>1, TreeShape
  <2>2. Nested(pc, verdict)'
    <3>1. \A m \in Nodes : pc'[m] # "idle" => pc[m] # "idle"
      BY <1>3
    <3>2. \A m \in Nodes : Ancestors[m] \subseteq Nodes
      BY <1>1, OrderIs
    <3>3. pc'[Root] = pc[Root]
      BY <1>3, <2>1 DEF PlacesFit, Nested
    <3>. QED
      BY <1>1, <1>2, <1>5, <3>1, <3>2, <3>3 DEF PlacesFit, Nested
  <2>3. \A m \in Nodes : \A c \in Children(m) : c \in Nodes
    BY DEF Children
  <2>4. Waits(pc, result)'
    <3>1. \A m \in Nodes : pc'[m] = "wait" => pc[m] = "wait"
      BY <1>3
    <3>2. \A m \in Nodes : pc[m] = "done" => pc'[m] = "done"
      BY <1>3
    <3>. QED
      BY <1>1, <1>2, <2>3, <3>1, <3>2 DEF PlacesFit, Waits
  <2>5. InTurn(pc)'
    <3>1. \A m \in Nodes : (pc'[m] = "idle" <=> pc[m] = "idle") /\ (pc'[m] \in Busy => pc[m] \in Busy)
      BY <1>3 DEF Busy
    <3>. QED
      BY <1>1, <2>3, <3>1 DEF PlacesFit, InTurn
  <2>. QED
    BY <2>2, <2>4, <2>5 DEF PlacesFit
<1>10. CutDown(pc, inner, ended)'
  <2>1. SUFFICES ASSUME NEW m \in Nodes, pc'[m] \in Act
        PROVE  /\ ended' # "no" => inner'[m] # "no"
               /\ \A a \in Ancestors[m] : inner'[a] # "no" => inner'[m] # "no"
    BY <1>1 DEF CutDown
  <2>2. pc[m] \in Act
    BY <1>5, <2>1
  <2>3. cause # "no"
    BY DEF CutFor
  <2>4. ended' # "no" => inner'[m] # "no"
    <3>1. CASE ended' = ended
      BY <1>6, <2>2, <2>3, <3>1 DEF CutDown
    <3>2. CASE n = Root
      <4>1. m \in Below(Root)
        BY <1>1, OrderIs DEF Below
      <4>. QED
        BY <1>6, <2>2, <2>3, <3>2, <4>1
    <3>. QED
      BY <3>1, <3>2 DEF CutFor
  <2>5. ASSUME NEW a \in Ancestors[m], inner'[a] # "no"
        PROVE  inner'[m] # "no"
    <3>1. a \in Nodes /\ Ancestors[a] \subseteq Ancestors[m]
      BY <1>1, OrderIs
    <3>2. a \in Below(n) => m \in Below(n)
      BY <3>1 DEF Below
    <3>3. CASE inner[a] # "no"
      BY <1>6, <2>2, <2>3, <3>3 DEF CutDown
    <3>4. CASE inner[a] = "no"
      BY <1>6, <2>2, <2>3, <2>5, <3>1, <3>2, <3>4
    <3>. QED
      BY <3>3, <3>4
  <2>. QED
    BY <2>4, <2>5
<1>11. LogHolds'
  <2>1. \A m \in Nodes : pc'[m] = "run" <=> pc[m] = "run"
    BY <1>3
  <2>. QED
    BY <1>1, <1>2, <2>1, LogStays
<1>12. WorkFits'
  <2>1. \A m \in Nodes : pc'[m] \in Over <=> pc[m] \in Over
    BY <1>3 DEF Over
  <2>2. Root \in Nodes
    BY <1>1, TreeShape
  <2>. QED
    BY <1>1, <1>2, <1>3, <1>5, <2>1, <2>2, WorkStays
<1>13. \A m \in Nodes : Ctx(m) # "no" => Ctx(m)' = Ctx(m)
  <2>1. \A m \in Nodes : m # Root => tree.parent[m] \in Nodes
    BY <1>1, TreeShape DEF Parent
  <2>. QED
    BY <1>1, <1>6, <2>1 DEF Ctx, CutFor
<1>14. Fresh'
  BY <1>1, <1>2, <1>5, <1>6 DEF FailFits, Fresh
<1>15. CausesFit'
  <2>1. SUFFICES ASSUME NEW m \in Nodes, pc'[m] \in Act
        PROVE  \/ inner'[m] = "no" \/ inner'[m] = Ctx(m)'
               \/ inner'[m] = "timeout" /\ Kind(m) = "policy"
               \/ inner'[m] = "sibling" /\ Kind(m) = "parallel" /\ failures[m] # <<>>
               \/ inner'[m] = "element" /\ Kind(m) = "map" /\ failures[m] # <<>>
    BY <1>1, <1>2 DEF CausesFit
  <2>2. pc[m] \in Act
    BY <1>5, <2>1
  <2>3. CASE inner'[m] = inner[m]
    <3>1. inner[m] = Ctx(m) /\ inner[m] # "no" => inner'[m] = Ctx(m)'
      BY <1>13, <2>3
    <3>. QED
      BY <2>2, <2>3, <3>1 DEF FailFits, CausesFit
  <2>4. CASE inner'[m] # inner[m]
    <3>1. m \in Below(n) /\ inner[m] = "no" /\ inner'[m] = cause
      BY <1>6, <2>4
    <3>2. CASE m = n
      <4>1. n = Root /\ ended' = cause => Ctx(m)' = cause
        BY <1>1, <3>2 DEF Ctx
      <4>. QED
        BY <1>1, <3>1, <3>2, <4>1 DEF CutFor
    <3>3. CASE m # n
      <4>. DEFINE p == Parent(m)
      <4>1. n \in Ancestors[m] /\ m # Root
        BY <1>1, <3>1, <3>3, OrderIs DEF Below
      <4>2. p \in Nodes /\ p \in Ancestors[m] /\ Ancestors[m] = {p} \union Ancestors[p]
        BY <1>1, <4>1, OrderIs, TreeShape
      <4>3. p \in Below(n)
        BY <4>1, <4>2 DEF Below
      <4>4. pc[p] \in Act
        BY <2>2, <4>2 DEF PlacesFit, Nested, Act
      <4>5. inner[p] = "no"
        BY <2>2, <3>1, <4>2 DEF CutDown
      <4>6. inner'[p] = cause
        BY <1>6, <4>2, <4>3, <4>4, <4>5
      <4>7. Ctx(m)' = inner'[p]
        BY <1>1, <4>1 DEF Ctx, Parent
      <4>. QED
        BY <3>1, <4>6, <4>7
    <3>. QED
      BY <3>2, <3>3
  <2>. QED
    BY <2>3, <2>4
<1>16. BareFits'
  <2>1. \A m \in Nodes : Ctx(m) \in Cancelled => Ctx(m)' \in Cancelled
    BY <1>13 DEF Cancelled
  <2>2. \A m \in Nodes : (pc'[m] \in Over => pc[m] \in Over) /\ (pc'[m] = "listed" => pc[m] = "listed")
    BY <1>3 DEF Over
  <2>3. \A m \in Nodes : \A c \in Children(m) : c \in Nodes
    BY DEF Children
  <2>4. ASSUME NEW m \in Nodes, pc'[m] \in Over, Bare(result'[m])
        PROVE  Ctx(m)' \in Cancelled
    BY <1>2, <2>1, <2>2, <2>4 DEF FailFits, BareFits
  <2>5. ASSUME NEW m \in Nodes, pc'[m] \in Act, failures'[m] # <<>>
        PROVE  failures'[m][1] # <<>> /\ (Bare(failures'[m][1]) => Ctx(m)' \in Cancelled)
    BY <1>2, <1>5, <2>1, <2>5 DEF FailFits, BareFits
  <2>6. ASSUME NEW m \in Nodes, NEW c \in Children(m), pc'[c] = "listed"
        PROVE  failures'[m] # <<>> /\ Kind(m) \in {"parallel", "map"}
    BY <1>2, <2>2, <2>3, <2>6 DEF FailFits, BareFits
  <2>. QED
    BY <1>1, <2>4, <2>5, <2>6 DEF BareFits, Bare
<1>. QED
  BY <1>8, <1>9, <1>10, <1>11, <1>12, <1>14, <1>15, <1>16 DEF FailFits

\* n goes on: a child of C starts or is over, or n waits or tries again.
GoesOn(n, C) ==
  /\ n \in Nodes /\ pc[n] \in Act /\ pc'[n] \in Act /\ C \subseteq Children(n)
  /\ UNCHANGED <<tree, ended, result, log, verdict, memory, fate>>
  /\ pc' \in [Nodes -> PCs] /\ count' \in [Nodes -> Nat] /\ failures' \in [Nodes -> Seq(Errors)] /\ inner' \in [Nodes -> Causes]
  /\ \A m \in Nodes : m # n /\ m \notin C => pc'[m] = pc[m]
  /\ \A c \in C : pc[c] \notin Act /\ pc'[c] \notin Act /\ (pc'[c] \in Over => pc[c] \in Over)
  /\ \A m \in Nodes : m # n => inner'[m] = inner[m] /\ failures'[m] = failures[m]
  /\ IsWrapper(n) \/ pc'[n] = pc[n]

\* A policy waits once its attempt has failed, and an element starts after those before it.
Goes(n, C) ==
  /\ pc'[n] = "wait" => Kind(n) = "policy" /\ \A c \in Children(n) : pc'[c] = "done" /\ result[c] # <<>>
  /\ Kind(n) = "until" => \A c \in C :
       /\ C = {c}
       /\ \/ /\ pc[c] = "idle" /\ pc'[c] = "start"
             /\ \A d \in Children(n) : pc[d] \notin Busy /\ (pc[d] = "idle" => c <= d)
          \/ pc[c] # "idle" /\ pc'[c] = "over"

\* The context of the next attempt is made from the one around it.
GoesInside(n) ==
  \/ inner'[n] = inner[n]
  \/ inner'[n] = Ctx(n) /\ \A c \in Children(n) : pc[c] \notin Act /\ pc'[c] = "start"

\* The first failure listed is kept.
GoesListing(n) ==
  /\ failures'[n] # <<>> => failures'[n][1] # <<>> /\ (Bare(failures'[n][1]) => Ctx(n) \in Cancelled)
  /\ failures[n] # <<>> => failures'[n] # <<>>
  /\ \A c \in Children(n) : pc'[c] = "listed" => failures'[n] # <<>> /\ Kind(n) \in {"parallel", "map"}

\* A step that is over leaves what it staged, if anything, to its parent.
GoesStaging(n, C) ==
  \/ staged' = staged /\ \A c \in C : pc[c] \in Over /\ pc'[c] \notin Over => staged[c] = {}
  \/ /\ Kind(n) = "loop" /\ pc[Root] # "start"
     /\ \E c \in Children(n) : /\ C = {c} /\ Children(n) = {c} /\ pc[c] \in Over
                               /\ staged' = [staged EXCEPT ![n] = staged[n] \union staged[c]]

LEMMA GoesPlaces ==
  ASSUME TypeInv, PlacesFit, NEW n, NEW C, GoesOn(n, C), Goes(n, C)
  PROVE  PlacesFit'
<1>1. /\ tree' = tree /\ Nodes' = Nodes /\ Ancestors' = Ancestors /\ tree \in Trees /\ n \in Nodes /\ result' = result
      /\ \A m : Kind(m)' = Kind(m) /\ Children(m)' = Children(m)
  BY TreeStays DEF TypeInv, GoesOn
<1>2. Nested(pc, verdict)'
  <2>1. Moves(n, C)
    BY DEF Moves, GoesOn, Act
  <2>. QED
    BY <1>1, <2>1, MovesPlaces DEF GoesOn
<1>3. \A m \in Nodes : m # n => \A c \in Children(m) : c \in Nodes /\ c \notin C
  BY DEF Children, GoesOn
<1>4. Waits(pc, result)'
  <2>1. SUFFICES ASSUME NEW m \in Nodes, pc'[m] = "wait"
        PROVE  Kind(m) = "policy" /\ \A c \in Children(m) : pc'[c] = "done" /\ result[c] # <<>>
    BY <1>1 DEF Waits
  <2>2. CASE m = n
    BY <2>1, <2>2 DEF Goes
  <2>3. CASE m # n
    <3>1. m \notin C /\ pc[m] = "wait"
      BY <2>1, <2>3 DEF GoesOn, Act
    <3>2. Kind(m) = "policy" /\ \A c \in Children(m) : pc[c] = "done" /\ result[c] # <<>>
      BY <3>1 DEF PlacesFit, Waits
    <3>3. \A c \in Children(m) : c # n
      BY <3>2 DEF GoesOn, Act
    <3>. QED
      BY <1>3, <2>3, <3>2, <3>3 DEF GoesOn
  <2>. QED
    BY <2>2, <2>3
<1>5. InTurn(pc)'
  <2>1. SUFFICES ASSUME NEW m \in Nodes, Kind(m) = "until", NEW c \in Children(m), NEW d \in Children(m), pc'[d] # "idle"
        PROVE  (pc'[c] = "idle" => d < c) /\ (pc'[c] \in Busy => d <= c)
    BY <1>1 DEF InTurn
  <2>2. c \in Nodes /\ d \in Nodes /\ c \in Nat /\ d \in Nat
    BY <1>1, TreeShape DEF Children
  <2>3. pc[d] # "idle" => (pc[c] = "idle" => d < c) /\ (pc[c] \in Busy => d <= c)
    BY <2>1 DEF PlacesFit, InTurn
  <2>4. CASE m # n
    <3>1. \A k \in {c, d} : (pc'[k] = "idle" <=> pc[k] = "idle") /\ (pc'[k] \in Busy <=> pc[k] \in Busy)
      <4>1. \A k \in {c, d} : k \notin C /\ k \in Nodes
        BY <1>3, <2>2, <2>4
      <4>2. (pc'[n] # "idle" /\ pc[n] # "idle") /\ (pc'[n] \in Busy /\ pc[n] \in Busy)
        BY DEF GoesOn, Act, Busy
      <4>. QED
        BY <4>1, <4>2 DEF GoesOn
    <3>. QED
      BY <2>1, <2>3, <3>1
  <2>5. CASE m = n
    <3>1. c # n /\ d # n
      BY <1>1, <2>5, ChildIs
    <3>2. \A k \in {c, d} : k \notin C => pc'[k] = pc[k]
      BY <2>2, <3>1 DEF GoesOn
    <3>3. \A k \in C : C = {k} /\ \/ /\ pc[k] = "idle" /\ pc'[k] = "start"
                                     /\ \A e \in Children(n) : pc[e] \notin Busy /\ (pc[e] = "idle" => k <= e)
                                  \/ pc[k] # "idle" /\ pc'[k] = "over"
      BY <2>1, <2>5 DEF Goes
    <3>4. CASE c \in C /\ d \in C
      <4>1. c = d /\ d <= c
        BY <2>2, <3>3, <3>4
      <4>. QED
        BY <2>1, <4>1
    <3>5. CASE c \in C /\ d \notin C
      <4>1. pc[d] # "idle" /\ pc'[c] # "idle"
        BY <2>1, <3>2, <3>3, <3>5
      <4>2. pc'[c] \in Busy => pc[c] = "idle"
        BY <3>3, <3>5 DEF Busy
      <4>. QED
        BY <2>2, <2>3, <4>1, <4>2
    <3>6. CASE c \notin C /\ d \in C
      <4>1. pc'[c] = pc[c]
        BY <3>2, <3>6
      <4>2. CASE pc[d] # "idle"
        BY <2>3, <4>1, <4>2
      <4>3. CASE pc[d] = "idle"
        <5>1. pc[c] \notin Busy /\ (pc[c] = "idle" => d <= c) /\ c # d
          BY <2>5, <3>3, <3>6, <4>3
        <5>. QED
          BY <2>2, <4>1, <5>1
      <4>. QED
        BY <4>2, <4>3
    <3>7. CASE c \notin C /\ d \notin C
      BY <2>1, <2>3, <3>2, <3>7
    <3>. QED
      BY <3>4, <3>5, <3>6, <3>7
  <2>. QED
    BY <2>4, <2>5
<1>. QED
  BY <1>2, <1>4, <1>5 DEF PlacesFit

LEMMA GoesCutDown ==
  ASSUME TypeInv, PlacesFit, CutDown(pc, inner, ended), NEW n, NEW C, GoesOn(n, C), GoesInside(n)
  PROVE  CutDown(pc, inner, ended)'
<1>1. /\ tree' = tree /\ Nodes' = Nodes /\ Ancestors' = Ancestors /\ tree \in Trees /\ n \in Nodes /\ ended' = ended
  BY TreeStays DEF TypeInv, GoesOn
<1>2. \A m \in Nodes : pc'[m] \in Act => pc[m] \in Act
  BY DEF GoesOn
<1>3. \A m \in Nodes : Ancestors[m] \subseteq Nodes
  BY <1>1, OrderIs
<1>4. CASE inner'[n] = inner[n]
  <2>1. \A m \in Nodes : inner'[m] = inner[m]
    BY <1>4 DEF GoesOn
  <2>. QED
    BY <1>1, <1>2, <1>3, <2>1 DEF CutDown
<1>5. CASE inner'[n] = Ctx(n) /\ \A c \in Children(n) : pc[c] \notin Act
  <2>1. SUFFICES ASSUME NEW m \in Nodes, pc'[m] \in Act
        PROVE  /\ ended # "no" => inner'[m] # "no"
               /\ \A a \in Ancestors[m] : inner'[a] # "no" => inner'[m] # "no"
    BY <1>1 DEF CutDown
  <2>2. pc[m] \in Act
    BY <1>2, <2>1
  <2>3. n \notin Ancestors[m]
    <3>1. ASSUME n \in Ancestors[m]
          PROVE  FALSE
      <4>1. PICK c \in Children(n) : m = c \/ c \in Ancestors[m]
        BY <1>1, <3>1, InsideIs
      <4>. QED
        BY <1>5, <2>2, <4>1 DEF PlacesFit, Nested, Act
    <3>. QED
      BY <3>1
  <2>4. \A a \in Ancestors[m] : inner'[a] = inner[a]
    BY <1>3, <2>3 DEF GoesOn
  <2>5. CASE m # n
    BY <2>2, <2>4, <2>5 DEF GoesOn, CutDown
  <2>6. CASE m = n /\ n = Root
    BY <1>1, <1>5, <2>6, OrderIs DEF Ctx
  <2>7. CASE m = n /\ n # Root
    <3>1. /\ Parent(n) \in Ancestors[n] /\ Ancestors[n] = {Parent(n)} \union Ancestors[Parent(n)]
          /\ Ancestors[n] \subseteq Nodes
      BY <1>1, <2>7, OrderIs
    <3>2. pc[Parent(n)] \in Act /\ Ctx(n) = inner[Parent(n)]
      BY <2>2, <2>7, <3>1 DEF PlacesFit, Nested, Ctx, Parent, Act
    <3>3. /\ ended # "no" => inner[Parent(n)] # "no"
          /\ \A a \in Ancestors[Parent(n)] : inner[a] # "no" => inner[Parent(n)] # "no"
      BY <3>1, <3>2 DEF CutDown
    <3>. QED
      BY <1>5, <2>4, <2>7, <3>1, <3>2, <3>3
  <2>. QED
    BY <2>5, <2>6, <2>7
<1>. QED
  BY <1>4, <1>5 DEF GoesInside

LEMMA GoesWork ==
  ASSUME TypeInv, PlacesFit, WorkFits, NEW n, NEW C, GoesOn(n, C), GoesStaging(n, C)
  PROVE  staged' \in [Nodes -> SUBSET Work] /\ WorkFits'
<1>1. /\ tree' = tree /\ Nodes' = Nodes /\ Ancestors' = Ancestors /\ tree \in Trees /\ n \in Nodes
      /\ \A m : Kind(m)' = Kind(m) /\ Children(m)' = Children(m) /\ Mine(m)' = Mine(m) /\ Parent(m)' = Parent(m)
  BY TreeStays DEF TypeInv, GoesOn
<1>2. UNCHANGED <<result, verdict, memory, fate>>
  BY DEF GoesOn
<1>3. \A m \in Nodes : pc'[m] \in Act <=> pc[m] \in Act
  BY DEF GoesOn
<1>4. \A m \in Nodes : pc'[m] \in Over => pc[m] \in Over
  BY DEF GoesOn, Act, Over
<1>5. \A m \in Nodes : m # n /\ m \notin C => pc'[m] = pc[m]
  BY DEF GoesOn
<1>6. Root \in Nodes /\ Root \notin C
  BY <1>1, TreeShape, ChildIs DEF GoesOn
<1>7. pc'[Root] = "start" => pc[Root] = "start"
  BY <1>5, <1>6 DEF GoesOn, Act
<1>8. CASE staged' = staged /\ \A c \in C : pc[c] \in Over /\ pc'[c] \notin Over => staged[c] = {}
  <2>1. \A m \in Nodes : pc[m] \in Over /\ pc'[m] \notin Over => staged[m] = {}
    BY <1>5, <1>8 DEF GoesOn, Act, Over
  <2>. QED
    BY <1>1, <1>2, <1>3, <1>4, <1>7, <1>8, <2>1, WorkStays DEF TypeInv
<1>9. ASSUME Kind(n) = "loop", NEW c \in Children(n), C = {c}, Children(n) = {c}, pc[c] \in Over,
             staged' = [staged EXCEPT ![n] = staged[n] \union staged[c]]
      PROVE  staged' \in [Nodes -> SUBSET Work] /\ WorkFits'
  <2>1. c \in Nodes /\ c # n /\ Ancestors[c] = {n} \union Ancestors[n] /\ n \in Ancestors[c]
    BY <1>1, ChildIs
  <2>2. /\ staged' \in [Nodes -> SUBSET Work] /\ staged'[n] = staged[n] \union staged[c]
        /\ \A m \in Nodes : m # n => staged'[m] = staged[m]
    BY <1>1, <1>9, <2>1 DEF TypeInv
  <2>3. Live' = Live
    BY <1>2 DEF Live
  <2>4. Mine(c) \subseteq Mine(n)
    BY <1>1, <2>1, MineGrows
  <2>5. Owned'
    BY <1>1, <1>2, <2>1, <2>2, <2>4 DEF WorkFits, Owned
  <2>6. StagedStands'
    <3>1. \A m \in Nodes : staged'[m] \subseteq Live
      BY <2>1, <2>2 DEF WorkFits, StagedStands
    <3>2. n # Root => pc'[Parent(n)] \in Act
      <4>1. n # Root => Parent(n) \in Nodes /\ pc[Parent(n)] \in Act
        BY <1>1, OrderIs, TreeShape DEF PlacesFit, Nested, GoesOn, Act
      <4>. QED
        BY <1>3, <4>1
    <3>3. \A m \in Nodes : m # Root => Parent(m) \in Nodes
      BY <1>1, TreeShape
    <3>4. pc'[n] \notin Over
      BY DEF GoesOn, Act, Over
    <3>. QED
      BY <1>1, <1>2, <1>3, <1>4, <1>9, <2>2, <2>3, <3>1, <3>2, <3>3, <3>4 DEF WorkFits, StagedStands
  <2>7. Apart'
    <3>1. SUFFICES ASSUME NEW m \in Nodes, pc'[m] \in Act, NEW a \in Ancestors[m]
          PROVE  staged'[a] \intersect fate.since[m] = {}
      BY <1>1, <1>2 DEF Apart
    <3>2. pc[m] \in Act /\ a \in Nodes /\ staged[a] \intersect fate.since[m] = {}
      BY <1>1, <1>3, <3>1, OrderIs DEF WorkFits, Apart
    <3>3. a # n
      <4>1. ASSUME n \in Ancestors[m]
            PROVE  FALSE
        <5>1. m = c \/ c \in Ancestors[m]
          BY <1>1, <1>9, <4>1, InsideIs
        <5>. QED
          BY <1>9, <3>2, <5>1 DEF PlacesFit, Nested, Act, Over
      <4>. QED
        BY <4>1
    <3>. QED
      BY <2>2, <3>2, <3>3
  <2>8. Accounted'
    <3>1. SUFFICES ASSUME NEW m \in Nodes, pc'[m] \in Act, NEW w \in fate.since[m], w \notin fate.dropped
          PROVE  At(m, w)'
      BY <1>1, <1>2 DEF Accounted
    <3>2. pc[m] \in Act /\ At(m, w)
      BY <1>3, <3>1 DEF WorkFits, Accounted
    <3>3. CASE m = n
      <4>1. w \in staged[n] \/ w \in staged[c]
        BY <1>9, <3>2, <3>3 DEF At, Act, Over
      <4>. QED
        BY <1>1, <2>2, <3>3, <4>1 DEF At
    <3>4. CASE m # n
      <4>1. \A d \in Children(m) : d \in Nodes /\ d \notin C
        BY <1>9, <3>4 DEF Children
      <4>2. pc'[n] \in Act /\ pc[n] \in Act
        BY DEF GoesOn
      <4>3. \A d \in Children(m) : /\ pc[d] \in Act => pc'[d] \in Act
                                   /\ pc[d] \in Over => pc'[d] \in Over /\ staged'[d] = staged[d]
        BY <1>5, <2>2, <4>1, <4>2 DEF Act, Over
      <4>. QED
        BY <1>1, <1>2, <2>2, <3>2, <3>4, <4>3 DEF At
    <3>. QED
      BY <3>3, <3>4
  <2>9. AllInside' /\ CommittedIsWhatStands'
    BY <1>2, <1>7, <2>3 DEF WorkFits, AllInside, CommittedIsWhatStands
  <2>. QED
    BY <2>2, <2>5, <2>6, <2>7, <2>8, <2>9 DEF WorkFits
<1>. QED
  BY <1>8, <1>9 DEF GoesStaging

LEMMA GoesFail ==
  ASSUME TypeInv, PlacesFit, FailFits, NEW n, NEW C, GoesOn(n, C), GoesInside(n), GoesListing(n)
  PROVE  FailFits'
<1>1. /\ tree' = tree /\ Nodes' = Nodes /\ tree \in Trees /\ n \in Nodes /\ ended' = ended /\ result' = result
      /\ \A m : Kind(m)' = Kind(m) /\ Children(m)' = Children(m)
  BY TreeStays DEF TypeInv, GoesOn
<1>2. \A m \in Nodes : pc'[m] \in Act <=> pc[m] \in Act
  BY DEF GoesOn
<1>3. \A m \in Nodes : pc'[m] \in Over => pc[m] \in Over
  BY DEF GoesOn, Act, Over
<1>4. \A m \in Nodes : m # n => inner'[m] = inner[m] /\ failures'[m] = failures[m]
  BY DEF GoesOn
<1>5. ASSUME NEW m \in Nodes, m \notin Children(n) \/ inner'[n] = inner[n]
      PROVE  Ctx(m)' = Ctx(m)
  <2>1. CASE m = Root
    BY <1>1, <2>1 DEF Ctx
  <2>2. CASE m # Root
    <3>1. tree.parent[m] \in Nodes /\ (m \notin Children(n) => tree.parent[m] # n)
      BY <1>1, <2>2, TreeShape DEF Parent, Children
    <3>2. inner'[tree.parent[m]] = inner[tree.parent[m]]
      BY <1>4, <1>5, <3>1
    <3>. QED
      BY <1>1, <2>2, <3>2 DEF Ctx
  <2>. QED
    BY <2>1, <2>2
<1>6. Fresh'
  BY <1>1, <1>2, <1>4 DEF GoesOn, FailFits, Fresh
<1>7. \A m \in Nodes : pc'[m] \in Act => Ctx(m)' = Ctx(m)
  BY <1>2, <1>5 DEF GoesInside
<1>8. CausesFit'
  <2>1. SUFFICES ASSUME NEW m \in Nodes, pc'[m] \in Act
        PROVE  \/ inner'[m] = "no" \/ inner'[m] = Ctx(m)
               \/ inner'[m] = "timeout" /\ Kind(m) = "policy"
               \/ inner'[m] = "sibling" /\ Kind(m) = "parallel" /\ failures'[m] # <<>>
               \/ inner'[m] = "element" /\ Kind(m) = "map" /\ failures'[m] # <<>>
    BY <1>1, <1>7 DEF CausesFit
  <2>2. pc[m] \in Act /\ (failures[m] # <<>> => failures'[m] # <<>>)
    BY <1>2, <1>4, <2>1 DEF GoesListing
  <2>3. CASE inner'[m] = inner[m]
    BY <2>2, <2>3 DEF FailFits, CausesFit
  <2>4. CASE inner'[m] # inner[m]
    BY <1>4, <2>4 DEF GoesInside
  <2>. QED
    BY <2>3, <2>4
<1>9. BareFits'
  <2>1. ASSUME NEW m \in Nodes, pc'[m] \in Over, Bare(result[m])
        PROVE  Ctx(m)' \in Cancelled
    <3>1. inner'[n] # inner[n] => m \notin Children(n)
      BY <2>1 DEF GoesInside, Over
    <3>. QED
      BY <1>3, <1>5, <2>1, <3>1 DEF FailFits, BareFits
  <2>2. ASSUME NEW m \in Nodes, pc'[m] \in Act, failures'[m] # <<>>
        PROVE  failures'[m][1] # <<>> /\ (Bare(failures'[m][1]) => Ctx(m)' \in Cancelled)
    BY <1>2, <1>4, <1>7, <2>2 DEF GoesListing, FailFits, BareFits
  <2>3. ASSUME NEW m \in Nodes, NEW c \in Children(m), pc'[c] = "listed"
        PROVE  failures'[m] # <<>> /\ Kind(m) \in {"parallel", "map"}
    <3>1. CASE m = n
      BY <2>3, <3>1 DEF GoesListing
    <3>2. CASE m # n
      <4>1. c \in Nodes /\ c \notin C
        BY <3>2 DEF Children, GoesOn
      <4>2. c # n
        BY <2>3 DEF GoesOn, Act
      <4>. QED
        BY <1>4, <2>3, <3>2, <4>1, <4>2 DEF GoesOn, FailFits, BareFits
    <3>. QED
      BY <3>1, <3>2
  <2>. QED
    BY <1>1, <2>1, <2>2, <2>3 DEF BareFits, Bare
<1>. QED
  BY <1>6, <1>8, <1>9 DEF FailFits

\* A step that goes on keeps the invariant.
LEMMA GoesKeeps ==
  ASSUME StepTreeInv, NEW n, NEW C, GoesOn(n, C), Goes(n, C), GoesInside(n), GoesListing(n), GoesStaging(n, C)
  PROVE  StepTreeInv'
<1>. USE DEF StepTreeInv
<1>1. PlacesFit'
  BY GoesPlaces
<1>2. CutDown(pc, inner, ended)'
  BY GoesCutDown
<1>3. staged' \in [Nodes -> SUBSET Work] /\ WorkFits'
  BY GoesWork
<1>4. FailFits'
  BY GoesFail
<1>5. LogHolds'
  <2>1. \A m \in Nodes : ~IsWrapper(m) => (pc'[m] = "run" <=> pc[m] = "run")
    BY DEF GoesOn, Act
  <2>. QED
    BY <2>1, LogStays DEF GoesOn
<1>6. TypeInv'
  BY <1>3, TreeStays DEF GoesOn, TypeInv
<1>. QED
  BY <1>1, <1>2, <1>3, <1>4, <1>5, <1>6

-----------------------------------------------------------------------------
(* Each operation is one of these steps. *)

\* A wrapper and a loop have one step inside.
LEMMA OnlyChild ==
  ASSUME tree \in Trees, NEW n \in Nodes, Kind(n) \in Wrappers \union {"loop"}, NEW c \in Children(n)
  PROVE  Children(n) = {c}
<1>1. Cardinality(Children(n)) = 1
  BY TreesAssumption DEF Kind, Nodes, Children
<1>2. IsFiniteSet(Children(n))
  <2>1. Children(n) \in SUBSET (1..Len(tree.kind)) /\ 1 \in Int /\ Len(tree.kind) \in Int
    BY TreeShape DEF Children
  <2>2. IsFiniteSet(1..Len(tree.kind))
    BY <2>1, FS_Interval
  <2>. QED
    BY <2>1, <2>2, FS_Subset
<1>. QED
  BY <1>1, <1>2, FS_Singleton

\* An error of one part.
LEMMA OneError ==
  ASSUME NEW x \in {"plain", "trans", "panic", "canceled", "budget", "timeout", "perm", "commit"}
  PROVE  <<x>> \in Errors /\ <<>> \in Errors /\ <<x>> # <<>> /\ (Bare(<<x>>) => x = "canceled")
<1>. DEFINE Parts == {"plain", "trans", "panic", "canceled", "budget", "timeout", "perm", "commit"}
<1>1. x \in Parts /\ Errors = Seq(Parts)
  BY DEF Errors
<1>. HIDE DEF Parts
<1>. QED
  BY <1>1 DEF Bare

\* What a context ends with.
LEMMA EndIs ==
  ASSUME TypeInv, NEW n \in Nodes, Ctx(n) # "no"
  PROVE  /\ ContextEnd(Ctx(n)) \in Errors /\ ContextEnd(Ctx(n)) # <<>>
         /\ Bare(ContextEnd(Ctx(n))) => Ctx(n) \in Cancelled
<1>1. Ctx(n) \in Causes
  BY TreeShape DEF TypeInv, Ctx, Causes, Parent
<1>2. CASE Ctx(n) \in StopCauses
  <2>1. ContextEnd(Ctx(n)) = <<Ctx(n)>> /\ Ctx(n) # "canceled"
    BY <1>2 DEF ContextEnd, StopCauses
  <2>. QED
    BY <1>2, <2>1, OneError DEF StopCauses
<1>3. CASE Ctx(n) \notin StopCauses
  <2>1. ContextEnd(Ctx(n)) = <<"canceled">> /\ Ctx(n) \in Cancelled
    BY <1>1, <1>3 DEF ContextEnd, StopCauses, Causes, Cancelled
  <2>. QED
    BY <2>1, OneError
<1>. QED
  BY <1>2, <1>3

\* Nothing is done anew: the history stays.
LEMMA HistIs ==
  ASSUME TypeInv, NEW n \in Nodes, pc[n] \in Act
  PROVE  Hist(n, fate, {})
<1>1. fate \in FateType /\ \A m \in Nodes : fate.since[m] = fate.since[m] \union ({} \ Live)
  BY DEF TypeInv
<1>. QED
  BY <1>1 DEF Hist, Act

\* n did S.
LEMMA SucceedsIs ==
  ASSUME TypeInv, NEW n \in Nodes, pc[n] \in Act, NEW S \in SUBSET Mine(n)
  PROVE  Hist(n, Succeeds(fate, n, S), S)
<1>. DEFINE F == Succeeds(fate, n, S)
            X == [m \in Nodes |-> IF m = n \/ m \in Ancestors[n] THEN fate.since[m] \union (S \ Live) ELSE fate.since[m]]
<1>1. fate \in FateType /\ S \in SUBSET Work
  BY DEF TypeInv, Mine
<1>2. F = [worked |-> fate.worked \union S, since |-> X, dropped |-> fate.dropped \ S]
  BY DEF Succeeds, Live
<1>3. X \in [Nodes -> SUBSET Work]
  BY <1>1 DEF FateType
<1>. HIDE DEF F
<1>4. F \in FateType
  BY <1>1, <1>2, <1>3 DEF FateType
<1>. QED
  BY <1>2, <1>4 DEF Hist, Act, F

\* What n's children did and staged covers what n did, when none of them runs.
LEMMA AllStaged ==
  ASSUME TypeInv, WorkFits, NEW n \in Nodes, pc[n] \in Act, Quiet(n), NEW w \in fate.since[n], w \notin fate.dropped
  PROVE  w \in staged[n] \/ \E c \in Children(n) : pc[c] \in Over /\ w \in staged[c]
<1>1. At(n, w)
  BY DEF WorkFits, Accounted
<1>. QED
  BY <1>1 DEF At, Quiet

\* What n stages is its own, and stands.
LEMMA StagesFit ==
  ASSUME TypeInv, WorkFits, NEW n \in Nodes
  PROVE  /\ staged[n] \subseteq Mine(n) /\ staged[n] \subseteq Live
         /\ \A c \in Children(n) : c \in Nodes /\ staged[c] \subseteq Mine(n) /\ staged[c] \subseteq Live
<1>1. \A m \in Nodes : staged[m] \subseteq Mine(m) /\ staged[m] \subseteq Live
  BY DEF WorkFits, Owned, StagedStands
<1>2. ASSUME NEW c \in Children(n)
      PROVE  c \in Nodes /\ Mine(c) \subseteq Mine(n)
  <2>1. c \in Nodes /\ n \in Ancestors[c]
    BY ChildIs DEF TypeInv
  <2>. QED
    BY <2>1, MineGrows DEF TypeInv
<1>. QED
  BY <1>1, <1>2

\* A step that runs finishes, with its own error or the cause of its context ending.
LEMMA FinishKeeps ==
  ASSUME StepTreeInv, NEW n \in Nodes, pc[n] \in Act, Quiet(n), NEW l, LogFits(l, Running),
         NEW err \in Errors, Bare(err) => Ctx(n) \in Cancelled,
         NEW work, err = <<>> => /\ work \subseteq Mine(n) /\ work \subseteq Live
                                 /\ \A w \in fate.since[n] : w \notin fate.dropped => w \in work,
         Finish(n, l, err, work)
  PROVE  StepTreeInv'
<1>. DEFINE e == Replaced(n, err)
<1>1. e \in Errors /\ (Bare(e) => Ctx(n) \in Cancelled) /\ (e = <<>> => err = <<>>)
  <2>1. CASE e = err
    BY <2>1
  <2>2. CASE Ctx(n) \in StopCauses /\ e = <<Ctx(n)>>
    BY <2>2, OneError DEF StopCauses
  <2>. HIDE DEF e
  <2>. QED
    BY <2>1, <2>2 DEF Replaced, e
<1>. HIDE DEF e
<1>2. LogFits(l, IF IsWrapper(n) THEN Running ELSE Running \union {n})
  <2>1. ~IsWrapper(n) => pc[n] = "run"
    BY DEF StepTreeInv, PlacesFit, Waits, Act, IsWrapper, Wrappers
  <2>2. ~IsWrapper(n) => Running \union {n} = Running
    BY <2>1 DEF Running
  <2>. QED
    BY <2>2
<1>3. Hist(n, fate, {})
  BY HistIs DEF StepTreeInv
<1>4. Ready(n, l, fate, {}, e, work)
  BY <1>1, <1>2, <1>3 DEF Ready, Live
<1>5. Return(n, l, fate, e, work)
  BY DEF Finish, e
<1>. QED
  BY <1>4, <1>5, ReturnKeeps

\* Before it begins, a step has nothing inside.
LEMMA RefuseKeeps ==
  ASSUME StepTreeInv, NEW n \in Nodes, Refuse(n)
  PROVE  StepTreeInv'
<1>. DEFINE l == IF IsWrapper(n) THEN log ELSE Begun(log, n)
            F == [fate EXCEPT !.since[n] = {}]
            err == ContextEnd(Ctx(n))
<1>1. pc[n] = "start" /\ Ctx(n) # "no" /\ Return(n, l, F, err, {})
  BY DEF Refuse
<1>2. Quiet(n)
  <2>1. \A c \in Children(n) : c \in Nodes /\ n \in Ancestors[c]
    BY ChildIs DEF StepTreeInv, TypeInv
  <2>. QED
    BY <1>1, <2>1 DEF Quiet, Act, StepTreeInv, PlacesFit, Nested
<1>3. LogFits(l, IF IsWrapper(n) THEN Running ELSE Running \union {n})
  <2>1. LogFits(log, Running) /\ Running \in SUBSET Nodes /\ n \in Nodes \ Running
    BY <1>1 DEF StepTreeInv, LogHolds, Running
  <2>. HIDE DEF Running
  <2>2. LogFits(Begun(log, n), Running \union {n})
    BY <2>1, BegunFits
  <2>. QED
    BY <2>1, <2>2
<1>4. Hist(n, F, {})
  <2>1. fate \in FateType
    BY DEF StepTreeInv, TypeInv
  <2>2. /\ F \in FateType /\ F.worked = fate.worked /\ F.dropped = fate.dropped
        /\ \A m \in Nodes : F.since[m] = IF m = n THEN {} ELSE fate.since[m]
    BY <2>1 DEF FateType
  <2>. HIDE DEF F
  <2>. QED
    BY <1>1, <2>2 DEF Hist
<1>5. err \in Errors /\ err # <<>> /\ (Bare(err) => Ctx(n) \in Cancelled)
  BY <1>1, EndIs DEF StepTreeInv
<1>. HIDE DEF l, F, err
<1>6. Ready(n, l, F, {}, err, {})
  BY <1>1, <1>2, <1>3, <1>4, <1>5 DEF Ready
<1>. QED
  BY <1>1, <1>6, ReturnKeeps

\* A leaf has nothing inside: what it does is what it stages.
LEMMA LeafKeeps ==
  ASSUME StepTreeInv, NEW n \in Nodes, LeafReturns(n) \/ LeafPanics(n)
  PROVE  StepTreeInv'
<1>1. Kind(n) = "leaf" /\ pc[n] = "run" /\ ~IsWrapper(n) /\ pc[n] \in Act /\ TypeInv
  BY DEF LeafReturns, LeafPanics, IsWrapper, Wrappers, Act, StepTreeInv
<1>2. Children(n) = {}
  <2>1. \A c \in Children(n) : c # Root /\ c \in Nodes /\ tree.parent[c] = n
    BY <1>1, ChildIs DEF TypeInv, Parent
  <2>2. \A c \in Node(tree) \ {1} : tree.kind[tree.parent[c]] # "leaf"
    BY <1>1, TreesAssumption DEF TypeInv
  <2>3. Children(n) \subseteq Node(tree) \ {1}
    BY <2>1 DEF Nodes, Root
  <2>. QED
    BY <1>1, <2>1, <2>2, <2>3 DEF Kind
<1>3. Quiet(n) /\ LogFits(log, IF IsWrapper(n) THEN Running ELSE Running \union {n})
  <2>1. Running \union {n} = Running
    BY <1>1 DEF Running
  <2>. QED
    BY <1>1, <1>2, <2>1 DEF Quiet, StepTreeInv, LogHolds
<1>4. CASE LeafPanics(n)
  <2>1. Return(n, log, fate, <<"panic">>, {})
    BY <1>4 DEF LeafPanics
  <2>2. Ready(n, log, fate, {}, <<"panic">>, {})
    BY <1>1, <1>3, HistIs DEF Ready, Errors, Bare
  <2>. QED
    BY <2>1, <2>2, ReturnKeeps
<1>5. CASE LeafReturns(n)
  <2>. DEFINE work == {Latest(log, n)}
  <2>1. PICK own \in {<<>>, <<"plain">>, <<"trans">>} \union IF Ctx(n) # "no" THEN {<<"canceled">>} ELSE {} :
          LET err == Replaced(n, own)
          IN Return(n, log, IF err = <<>> THEN Succeeds(fate, n, work) ELSE fate, err, work)
    BY <1>5 DEF LeafReturns
  <2>. DEFINE err == Replaced(n, own)
  <2>2. err \in Errors /\ (Bare(err) => Ctx(n) \in Cancelled)
    <3>1. Ctx(n) \in Causes
      BY <1>1, TreeShape DEF TypeInv, Ctx, Causes, Parent
    <3>2. own \in Errors
      BY OneError
    <3>3. own = <<"canceled">> /\ Ctx(n) \in StopCauses => err = <<Ctx(n)>>
      BY DEF Replaced, Has, ToSet, StopCauses
    <3>4. err = own \/ (Ctx(n) \in StopCauses /\ err = <<Ctx(n)>>)
      BY DEF Replaced
    <3>. HIDE DEF err
    <3>5. err \in Errors
      BY <3>2, <3>4, OneError DEF StopCauses
    <3>6. ASSUME Bare(err)
          PROVE  Ctx(n) \in Cancelled
      <4>1. err = own
        BY <3>4, <3>6 DEF Bare, StopCauses
      <4>2. own = <<"canceled">> /\ Ctx(n) # "no"
        BY <2>1, <3>6, <4>1 DEF Bare
      <4>3. Ctx(n) \notin StopCauses
        BY <3>3, <3>6, <4>2 DEF Bare, StopCauses
      <4>. QED
        BY <3>1, <4>2, <4>3 DEF Causes, StopCauses, Cancelled
    <3>. QED
      BY <3>5, <3>6
  <2>3. work \in SUBSET Mine(n)
    <3>1. log.execs[n] \in Seq(Statuses) /\ Len(log.execs[n]) \in Nat
      BY <1>1, LogParts DEF TypeInv
    <3>. QED
      BY <3>1 DEF Latest, Mine, Work, Below
  <2>. HIDE DEF err, work
  <2>4. CASE err = <<>>
    <3>. DEFINE F == Succeeds(fate, n, work)
    <3>1. Return(n, log, F, err, work)
      BY <2>1, <2>4 DEF err
    <3>2. Hist(n, F, work)
      BY <1>1, <2>3, SucceedsIs
    <3>. HIDE DEF F
    <3>3. \A w \in F.since[n] : w \notin F.dropped => w \in work
      <4>1. \A w \in fate.since[n] : w \notin fate.dropped => FALSE
        <5>1. staged[n] = {}
          BY <1>1 DEF StepTreeInv, WorkFits, StagedStands
        <5>. QED
          BY <1>1, <1>2, <1>3, <5>1, AllStaged DEF StepTreeInv
      <4>2. F.since[n] = fate.since[n] \union (work \ Live) /\ F.dropped = fate.dropped \ work
        BY <1>1, <3>2 DEF Hist
      <4>. QED
        BY <4>1, <4>2
    <3>4. work \subseteq F.worked \ F.dropped
      BY <3>2 DEF Hist
    <3>5. Ready(n, log, F, work, err, work)
      BY <1>1, <1>3, <2>2, <2>3, <3>2, <3>3, <3>4 DEF Ready
    <3>. QED
      BY <3>1, <3>5, ReturnKeeps
  <2>5. CASE err # <<>>
    <3>1. Return(n, log, fate, err, work)
      BY <2>1, <2>5 DEF err
    <3>2. Ready(n, log, fate, {}, err, work)
      BY <1>1, <1>3, <2>2, <2>5, HistIs DEF Ready
    <3>. QED
      BY <3>1, <3>2, ReturnKeeps
  <2>. QED
    BY <2>4, <2>5
<1>. QED
  BY <1>4, <1>5

\* A child that was cancelled was cancelled from around its parent, unless its parent did that.
LEMMA ChildBare ==
  ASSUME TypeInv, FailFits, NEW n \in Nodes, pc[n] \in Act, NEW c \in Children(n), pc[c] \in Over, Bare(result[c]),
         Kind(n) \notin {"parallel", "map"} \/ failures[n] = <<>>
  PROVE  Ctx(n) \in Cancelled
<1>1. c \in Nodes /\ c # Root /\ Parent(c) = n
  BY ChildIs DEF TypeInv
<1>2. inner[n] \in Cancelled
  BY <1>1 DEF FailFits, BareFits, Ctx, Parent
<1>3. inner[n] = Ctx(n)
  BY <1>2 DEF FailFits, CausesFit, Cancelled
<1>. QED
  BY <1>2, <1>3

\* The failures listed stay.
LEMMA SameListing ==
  ASSUME TypeInv, FailFits, NEW n \in Nodes, pc[n] \in Act, failures' = failures,
         \A c \in Children(n) : pc'[c] = "listed" => pc[c] = "listed"
  PROVE  GoesListing(n)
<1>1. failures[n] # <<>> => failures[n][1] # <<>> /\ (Bare(failures[n][1]) => Ctx(n) \in Cancelled)
  BY DEF FailFits, BareFits
<1>2. \A c \in Children(n) : pc'[c] = "listed" => failures[n] # <<>> /\ Kind(n) \in {"parallel", "map"}
  BY DEF FailFits, BareFits
<1>. QED
  BY <1>1, <1>2 DEF GoesListing

\* The root of a step with something active inside has begun.
LEMMA RootBegan ==
  ASSUME TypeInv, PlacesFit, NEW n \in Nodes, pc[n] \in Act
  PROVE  pc[Root] \in Act
<1>1. n # Root => Root \in Ancestors[n]
  BY OrderIs DEF TypeInv
<1>. QED
  BY <1>1 DEF PlacesFit, Nested, Act

\* A child goes from one place to another while its parent runs.
LEMMA ChildGoes ==
  ASSUME TypeInv, NEW n \in Nodes, pc[n] = "run", NEW c \in Children(n), pc[c] \notin Act,
         NEW q \in PCs \ Act, q \in Over => pc[c] \in Over, pc' = [pc EXCEPT ![c] = q],
         UNCHANGED <<tree, ended, inner, result, log, verdict, memory, fate>>,
         count' \in [Nodes -> Nat], failures' \in [Nodes -> Seq(Errors)],
         \A m \in Nodes : m # n => failures'[m] = failures[m]
  PROVE  GoesOn(n, {c}) /\ GoesInside(n) /\ pc'[n] = "run" /\ pc'[c] = q
<1>1. c \in Nodes /\ c # n
  BY ChildIs DEF TypeInv
<1>. QED
  BY <1>1 DEF GoesOn, GoesInside, TypeInv, Act

\* A child starts.
LEMMA StartKeeps ==
  ASSUME StepTreeInv, NEW n \in Nodes, pc[n] = "run", NEW c \in Children(n), pc[c] = "idle",
         pc' = [pc EXCEPT ![c] = "start"], count' \in [Nodes -> Nat],
         UNCHANGED <<tree, ended, inner, failures, staged, result, log, verdict, memory, fate>>,
         Kind(n) = "until" => \A d \in Children(n) : pc[d] \notin Busy /\ (pc[d] = "idle" => c <= d)
  PROVE  StepTreeInv'
<1>. USE DEF StepTreeInv
<1>1. "start" \in PCs \ Act /\ "start" \notin Over /\ pc[c] \notin Act /\ pc[n] \in Act
  BY DEF PCs, Act, Over
<1>2. failures' \in [Nodes -> Seq(Errors)]
  BY DEF TypeInv
<1>3. GoesOn(n, {c}) /\ GoesInside(n) /\ pc'[n] = "run" /\ pc'[c] = "start"
  BY <1>1, <1>2, ChildGoes
<1>4. Goes(n, {c})
  BY <1>3 DEF Goes
<1>5. GoesListing(n)
  <2>1. \A d \in Children(n) : pc'[d] = "listed" => pc[d] = "listed"
    BY DEF TypeInv, Children
  <2>. QED
    BY <1>1, <2>1, SameListing
<1>6. GoesStaging(n, {c})
  BY DEF GoesStaging, Over
<1>. QED
  BY <1>3, <1>4, <1>5, <1>6, GoesKeeps

\* The end of an attempt: its result is the policy's, or the policy waits.
LEMMA AttemptEndsKeeps ==
  ASSUME StepTreeInv, NEW n \in Nodes, AttemptEnds(n)
  PROVE  StepTreeInv'
<1>. USE DEF StepTreeInv
<1>1. Kind(n) = "policy" /\ pc[n] = "run" /\ pc[n] \in Act
  BY DEF AttemptEnds, Act
<1>2. PICK c \in Children(n) :
        /\ pc[c] = "done"
        /\ \/ Finish(n, log, result[c], staged[c])
           \/ /\ result[c] # <<>> /\ pc' = [pc EXCEPT ![n] = "wait"]
              /\ UNCHANGED <<tree, ended, inner, count, failures, staged, result, log, verdict, memory, fate>>
  BY DEF AttemptEnds
<1>3. c \in Nodes /\ c # n /\ Children(n) = {c}
  BY <1>1, ChildIs, OnlyChild DEF TypeInv, Wrappers
<1>4. pc[c] \in Over /\ Quiet(n)
  BY <1>2, <1>3 DEF Over, Quiet, Act
<1>5. CASE Finish(n, log, result[c], staged[c])
  <2>1. result[c] \in Errors /\ LogFits(log, Running)
    BY <1>3 DEF TypeInv, LogHolds
  <2>2. Bare(result[c]) => Ctx(n) \in Cancelled
    BY <1>1, <1>4, ChildBare
  <2>3. staged[n] = {} /\ staged[c] \subseteq Mine(n) /\ staged[c] \subseteq Live
    BY <1>1, StagesFit DEF WorkFits, StagedStands
  <2>4. \A w \in fate.since[n] : w \notin fate.dropped => w \in staged[c]
    BY <1>1, <1>3, <1>4, <2>3, AllStaged
  <2>. QED
    BY <1>1, <1>4, <1>5, <2>1, <2>2, <2>3, <2>4, FinishKeeps
<1>6. CASE /\ result[c] # <<>> /\ pc' = [pc EXCEPT ![n] = "wait"]
           /\ UNCHANGED <<tree, ended, inner, count, failures, staged, result, log, verdict, memory, fate>>
  <2>1. pc'[n] = "wait" /\ \A m \in Nodes : m # n => pc'[m] = pc[m]
    BY <1>6 DEF TypeInv
  <2>2. pc' \in [Nodes -> PCs]
    BY <1>6 DEF TypeInv, PCs
  <2>3. IsWrapper(n)
    BY <1>1 DEF IsWrapper, Wrappers
  <2>4. GoesOn(n, {})
    BY <1>1, <1>6, <2>1, <2>2, <2>3 DEF GoesOn, TypeInv, Act
  <2>5. Goes(n, {})
    BY <1>1, <1>2, <1>3, <1>6, <2>1 DEF Goes
  <2>6. GoesInside(n) /\ GoesStaging(n, {})
    BY <1>6 DEF GoesInside, GoesStaging
  <2>7. GoesListing(n)
    <3>1. \A d \in Children(n) : pc'[d] = "listed" => pc[d] = "listed"
      BY <1>3, <2>1
    <3>. QED
      BY <1>1, <1>6, <3>1, SameListing
  <2>. QED
    BY <2>4, <2>5, <2>6, <2>7, GoesKeeps
<1>. QED
  BY <1>2, <1>5, <1>6

\* The wait of a policy ends.
LEMMA WaitKeeps ==
  ASSUME StepTreeInv, NEW n \in Nodes, WaitEndsEarly(n) \/ NextAttempt(n)
  PROVE  StepTreeInv'
<1>. USE DEF StepTreeInv
<1>1. pc[n] = "wait" /\ pc[n] \in Act
  BY DEF WaitEndsEarly, NextAttempt, Act
<1>2. /\ Kind(n) = "policy"
      /\ \A c \in Children(n) : pc[c] = "done" /\ result[c] # <<>> /\ c \in Nodes /\ c # n /\ c # Root
  BY <1>1, ChildIs DEF PlacesFit, Waits, TypeInv
<1>3. Quiet(n) /\ IsWrapper(n)
  BY <1>2 DEF Quiet, Act, IsWrapper, Wrappers
<1>4. CASE WaitEndsEarly(n)
  <2>1. PICK c \in Children(n) : Finish(n, log, Append(result[c], "canceled"), {})
    BY <1>4 DEF WaitEndsEarly
  <2>. DEFINE err == Append(result[c], "canceled")
  <2>2. result[c] \in Errors /\ result[c] # <<>> /\ pc[c] \in Over
    BY <1>2 DEF TypeInv, Over
  <2>3. err \in Errors /\ err # <<>> /\ (Bare(err) => Bare(result[c]))
    <3>. DEFINE Parts == {"plain", "trans", "panic", "canceled", "budget", "timeout", "perm", "commit"}
    <3>1. "canceled" \in Parts /\ Errors = Seq(Parts)
      BY DEF Errors
    <3>. HIDE DEF Parts
    <3>. QED
      BY <2>2, <3>1 DEF Bare
  <2>. HIDE DEF err
  <2>4. Bare(err) => Ctx(n) \in Cancelled
    BY <1>1, <1>2, <2>2, <2>3, ChildBare
  <2>5. LogFits(log, Running) /\ Finish(n, log, err, {})
    BY <2>1 DEF LogHolds, err
  <2>. QED
    BY <1>1, <1>3, <2>3, <2>4, <2>5, FinishKeeps
<1>5. CASE NextAttempt(n)
  <2>1. /\ pc'[n] = "run" /\ \A c \in Children(n) : pc'[c] = "start"
        /\ \A m \in Nodes : m # n /\ m \notin Children(n) => pc'[m] = pc[m]
    BY <1>2, <1>5 DEF NextAttempt
  <2>2. /\ pc' \in [Nodes -> PCs] /\ inner' \in [Nodes -> Causes] /\ count' \in [Nodes -> Nat]
        /\ inner'[n] = Ctx(n) /\ \A m \in Nodes : m # n => inner'[m] = inner[m]
    <3>1. Ctx(n) \in Causes
      BY TreeShape DEF TypeInv, Ctx, Causes, Parent
    <3>2. pc' \in [Nodes -> PCs]
      BY <1>5 DEF NextAttempt, TypeInv, PCs
    <3>3. count' \in [Nodes -> Nat]
      BY <1>5 DEF NextAttempt, TypeInv
    <3>. QED
      BY <1>5, <3>1, <3>2, <3>3 DEF NextAttempt, TypeInv
  <2>3. UNCHANGED <<tree, ended, failures, staged, result, log, verdict, memory, fate>>
    BY <1>5 DEF NextAttempt
  <2>4. GoesOn(n, Children(n))
    BY <1>1, <1>2, <1>3, <2>1, <2>2, <2>3 DEF GoesOn, TypeInv, Act, Over
  <2>5. Goes(n, Children(n))
    BY <1>2, <2>1 DEF Goes
  <2>6. GoesInside(n)
    BY <1>2, <2>1, <2>2 DEF GoesInside, Act
  <2>7. GoesStaging(n, Children(n))
    BY <1>2, <2>3 DEF GoesStaging, WorkFits, StagedStands
  <2>8. GoesListing(n)
    BY <1>1, <2>1, <2>3, SameListing
  <2>. QED
    BY <2>4, <2>5, <2>6, <2>7, <2>8, GoesKeeps
<1>. QED
  BY <1>4, <1>5

\* A cached result is what its node may stage, and it is served with a held or reported execution.
LEMMA LookUpKeeps ==
  ASSUME StepTreeInv, NEW n \in Nodes, LookUp(n)
  PROVE  StepTreeInv'
<1>. USE DEF StepTreeInv
<1>1. Kind(n) = "cache" /\ pc[n] = "run" /\ pc[n] \in Act /\ IsWrapper(n)
  BY DEF LookUp, Act, IsWrapper, Wrappers
<1>2. PICK c \in Children(n) :
        /\ pc[c] = "idle"
        /\ \/ \E entry \in log.cache[n] :
                Return(n, FinishHold(Begun(log, c), c, <<>>), Succeeds(fate, n, entry.staged), Replaced(n, <<>>), entry.staged)
           \/ \E keyed \in {0, 1} :
                /\ pc' = [pc EXCEPT ![c] = "start"] /\ count' = [count EXCEPT ![n] = keyed]
                /\ UNCHANGED <<tree, ended, inner, failures, staged, result, log, verdict, memory, fate>>
  BY DEF LookUp
<1>3. c \in Nodes /\ c # n /\ Children(n) = {c}
  BY <1>1, ChildIs, OnlyChild DEF TypeInv, Wrappers
<1>4. CASE \E entry \in log.cache[n] :
             Return(n, FinishHold(Begun(log, c), c, <<>>), Succeeds(fate, n, entry.staged), Replaced(n, <<>>), entry.staged)
  <2>1. PICK entry \in log.cache[n] :
          Return(n, FinishHold(Begun(log, c), c, <<>>), Succeeds(fate, n, entry.staged), Replaced(n, <<>>), entry.staged)
    BY <1>4
  <2>. DEFINE l == FinishHold(Begun(log, c), c, <<>>)
              S == entry.staged
              F == Succeeds(fate, n, S)
              err == Replaced(n, <<>>)
  <2>2. Return(n, l, F, err, S)
    BY <2>1
  <2>3. S \in SUBSET Mine(n)
    <3>1. log.cache \in [Nodes -> SUBSET Entries] /\ entry.node = n
      BY LogParts DEF TypeInv, LogHolds, LogFits, Filed
    <3>2. entry \in Entries
      BY <3>1
    <3>. QED
      BY <3>1, <3>2 DEF Entries
  <2>. HIDE DEF S
  <2>4. LogFits(l, Running)
    <3>1. LogFits(log, Running) /\ Running \in SUBSET Nodes /\ c \in Nodes \ Running
      BY <1>2, <1>3 DEF LogHolds, Running
    <3>. DEFINE R == Running
                b == Begun(log, c)
    <3>. HIDE DEF R
    <3>2. LogFits(b, R \union {c}) /\ R \union {c} \in SUBSET Nodes /\ (R \union {c}) \ {c} = R
      BY <3>1, BegunFits DEF R
    <3>. HIDE DEF b
    <3>3. c \in R \union {c}
      OBVIOUS
    <3>4. LogFits(FinishHold(b, c, <<>>), (R \union {c}) \ {c})
      BY <3>2, <3>3, FinishHoldFits DEF TypeInv
    <3>. QED
      BY <3>2, <3>4 DEF R, b
  <2>. HIDE DEF l
  <2>5. Hist(n, F, S)
    BY <1>1, <2>3, SucceedsIs
  <2>. HIDE DEF F
  <2>6. err \in Errors /\ ~Bare(err)
    <3>1. "perm" \in {"plain", "trans", "panic", "canceled", "budget", "timeout", "perm", "commit"}
      OBVIOUS
    <3>2. err = <<>> \/ (Ctx(n) \in StopCauses /\ err = <<Ctx(n)>>)
      BY DEF Replaced
    <3>3. <<>> \in Errors /\ ~Bare(<<>>)
      BY <3>1, OneError DEF Bare
    <3>. HIDE DEF err
    <3>4. CASE Ctx(n) \in StopCauses /\ err = <<Ctx(n)>>
      BY <3>4, OneError DEF StopCauses
    <3>. QED
      BY <3>2, <3>3, <3>4
  <2>. HIDE DEF err
  <2>7. Quiet(n)
    BY <1>2, <1>3 DEF Quiet, Act
  <2>8. \A w \in F.since[n] : w \notin F.dropped => w \in S
    <3>1. \A w \in fate.since[n] : w \notin fate.dropped => FALSE
      <4>1. staged[n] = {} /\ pc[c] \notin Over
        BY <1>1, <1>2 DEF WorkFits, StagedStands, Over
      <4>. QED
        BY <1>1, <1>3, <2>7, <4>1, AllStaged
    <3>2. F.since[n] = fate.since[n] \union (S \ Live) /\ F.dropped = fate.dropped \ S
      BY <1>1, <2>5 DEF Hist
    <3>. QED
      BY <3>1, <3>2
  <2>9. S \subseteq F.worked \ F.dropped
    BY <2>5 DEF Hist
  <2>10. Ready(n, l, F, S, err, S)
    BY <1>1, <2>3, <2>4, <2>5, <2>6, <2>7, <2>8, <2>9 DEF Ready
  <2>. QED
    BY <2>2, <2>10, ReturnKeeps
<1>5. CASE \E keyed \in {0, 1} :
             /\ pc' = [pc EXCEPT ![c] = "start"] /\ count' = [count EXCEPT ![n] = keyed]
             /\ UNCHANGED <<tree, ended, inner, failures, staged, result, log, verdict, memory, fate>>
  <2>1. count' \in [Nodes -> Nat]
    BY <1>5 DEF TypeInv
  <2>. QED
    BY <1>1, <1>2, <1>5, <2>1, StartKeeps
<1>. QED
  BY <1>2, <1>4, <1>5

\* A wrapped step that ended commits, and what it staged is kept for the cache.
LEMMA CachedStepKeeps ==
  ASSUME StepTreeInv, NEW n \in Nodes, CachedStepEnds(n)
  PROVE  StepTreeInv'
<1>. USE DEF StepTreeInv
<1>1. Kind(n) = "cache" /\ pc[n] = "run" /\ pc[n] \in Act
  BY DEF CachedStepEnds, Act
<1>2. PICK c \in Children(n) :
        /\ pc[c] = "done"
        /\ \/ Finish(n, log, result[c], staged[c])
           \/ Finish(n, WhenSucceeded(log, n, [node |-> n, staged |-> staged[c]]), result[c], staged[c])
  BY DEF CachedStepEnds
<1>3. c \in Nodes /\ c # n /\ Children(n) = {c}
  BY <1>1, ChildIs, OnlyChild DEF TypeInv, Wrappers
<1>4. pc[c] \in Over /\ Quiet(n)
  BY <1>2, <1>3 DEF Over, Quiet, Act
<1>5. result[c] \in Errors /\ LogFits(log, Running) /\ Running \in SUBSET Nodes
  BY <1>3 DEF TypeInv, LogHolds, Running
<1>6. Bare(result[c]) => Ctx(n) \in Cancelled
  BY <1>1, <1>4, ChildBare
<1>7. staged[n] = {} /\ staged[c] \subseteq Mine(n) /\ staged[c] \subseteq Live
  BY <1>1, StagesFit DEF WorkFits, StagedStands
<1>8. \A w \in fate.since[n] : w \notin fate.dropped => w \in staged[c]
  BY <1>1, <1>3, <1>4, <1>7, AllStaged
<1>9. LogFits(WhenSucceeded(log, n, [node |-> n, staged |-> staged[c]]), Running)
  <2>. DEFINE entry == [node |-> n, staged |-> staged[c]]
              R == Running
  <2>1. entry \in Entries
    BY <1>3, <1>7 DEF Entries, TypeInv
  <2>. HIDE DEF entry, R
  <2>2. LogFits(WhenSucceeded(log, n, entry), R)
    BY <1>5, <2>1, WhenSucceededFits DEF R
  <2>. QED
    BY <2>2 DEF entry, R
<1>10. ASSUME NEW l, LogFits(l, Running), Finish(n, l, result[c], staged[c])
       PROVE  StepTreeInv'
  BY <1>1, <1>4, <1>5, <1>6, <1>7, <1>8, <1>10, FinishKeeps
<1>. QED
  BY <1>2, <1>5, <1>9, <1>10

\* A context ends: by a timeout, a failure listed, or the run.
LEMMA CutsKeep ==
  ASSUME StepTreeInv, \/ Interrupt
                      \/ \E n \in Nodes : TimeoutFires(n) \/ \E c \in Children(n) : CancelOthers(n, c)
  PROVE  StepTreeInv'
<1>. USE DEF StepTreeInv
<1>1. CASE Interrupt
  <2>1. PICK cause \in {"canceled", "budget"} : ended' = cause /\ inner' = Cut(Root, cause)
    BY <1>1 DEF Interrupt
  <2>2. Root \in Nodes
    BY TreeShape DEF TypeInv
  <2>3. CutFor(Root, cause)
    BY <1>1, <2>1, <2>2 DEF Interrupt, CutFor, Causes
  <2>. QED
    BY <2>3, CutKeeps
<1>2. ASSUME NEW n \in Nodes, TimeoutFires(n)
      PROVE  StepTreeInv'
  <2>1. Kind(n) = "policy"
    BY <1>2, TreesAssumption DEF TimeoutFires, TypeInv, Kind
  <2>2. CutFor(n, "timeout")
    BY <1>2, <2>1 DEF TimeoutFires, CutFor, Causes, Act
  <2>. QED
    BY <2>2, CutKeeps
<1>3. ASSUME NEW n \in Nodes, NEW c \in Children(n), CancelOthers(n, c)
      PROVE  StepTreeInv'
  <2>. DEFINE cause == IF Kind(n) = "parallel" THEN "sibling" ELSE "element"
  <2>1. pc[c] = "listed" /\ pc[n] = "run" /\ inner' = Cut(n, cause) /\ pc' = [pc EXCEPT ![c] = "over"]
    BY <1>3 DEF CancelOthers
  <2>2. failures[n] # <<>> /\ Kind(n) \in {"parallel", "map"}
    BY <2>1 DEF FailFits, BareFits
  <2>3. CutFor(n, cause)
    BY <1>3, <2>1, <2>2 DEF CancelOthers, CutFor, Causes, Act
  <2>. QED
    BY <2>3, CutKeeps
<1>. QED
  BY <1>1, <1>2, <1>3

\* A branch ends, and lists the error it failed with.
LEMMA StepEndsKeeps ==
  ASSUME StepTreeInv, NEW n \in Nodes, NEW c \in Children(n), StepEnds(n, c)
  PROVE  StepTreeInv'
<1>. USE DEF StepTreeInv
<1>1. Kind(n) = "parallel" /\ pc[n] = "run" /\ pc[n] \in Act /\ pc[c] = "done" /\ pc[c] \in Over /\ pc[c] \notin Act
  BY DEF StepEnds, Act, Over
<1>2. c \in Nodes /\ c # n
  BY ChildIs DEF TypeInv
<1>. DEFINE q == IF result[c] = <<>> THEN "over" ELSE "listed"
            fs == IF result[c] = <<>> THEN failures[n] ELSE Append(failures[n], result[c])
<1>3. pc' = [pc EXCEPT ![c] = q] /\ failures' = [failures EXCEPT ![n] = fs]
  <2>1. CASE result[c] = <<>>
    <3>1. failures = [failures EXCEPT ![n] = failures[n]]
      BY DEF TypeInv
    <3>. QED
      BY <2>1, <3>1 DEF StepEnds
  <2>2. CASE result[c] # <<>>
    BY <2>2 DEF StepEnds
  <2>. QED
    BY <2>1, <2>2
<1>4. UNCHANGED <<tree, ended, inner, count, staged, result, log, verdict, memory, fate>>
  BY DEF StepEnds
<1>5. q \in PCs \ Act /\ q \in Over /\ (q = "listed" => result[c] # <<>>)
  BY DEF PCs, Act, Over
<1>6. failures[n] \in Seq(Errors) /\ result[c] \in Errors
  BY <1>2 DEF TypeInv
<1>7. fs \in Seq(Errors) /\ (fs # <<>> => fs[1] = IF failures[n] = <<>> THEN result[c] ELSE failures[n][1])
      /\ (failures[n] # <<>> \/ result[c] # <<>> => fs # <<>>) /\ (fs # <<>> /\ failures[n] = <<>> => result[c] # <<>>)
  <2>. HIDE DEF StepTreeInv
  <2>1. CASE result[c] = <<>>
    BY <1>6, <2>1
  <2>2. CASE result[c] # <<>>
    <3>. DEFINE s == failures[n]
                e == result[c]
    <3>1. s \in Seq(Errors) /\ e \in Errors
      BY <1>6
    <3>. HIDE DEF s, e
    <3>2. Append(s, e) \in Seq(Errors) /\ Append(s, e) # <<>> /\ Append(s, e)[1] = IF s = <<>> THEN e ELSE s[1]
      BY <3>1, AppendStarts
    <3>. QED
      BY <2>2, <3>2 DEF s, e
  <2>. QED
    BY <2>1, <2>2
<1>. HIDE DEF fs, q
<1>8. failures' \in [Nodes -> Seq(Errors)] /\ failures'[n] = fs /\ \A m \in Nodes : m # n => failures'[m] = failures[m]
  BY <1>3, <1>7 DEF TypeInv
<1>9. GoesOn(n, {c}) /\ GoesInside(n) /\ pc'[n] = "run" /\ pc'[c] = q
  <2>1. count' \in [Nodes -> Nat] /\ TypeInv
    BY <1>4 DEF TypeInv
  <2>. HIDE DEF StepTreeInv
  <2>2. pc' = [pc EXCEPT ![c] = q]
    BY <1>3
  <2>. QED
    BY <1>1, <1>4, <1>5, <1>8, <2>1, <2>2, ChildGoes, ZenonT(30)
<1>10. Goes(n, {c})
  BY <1>1, <1>9 DEF Goes
<1>11. GoesListing(n)
  <2>1. failures[n] # <<>> => failures[n][1] # <<>> /\ (Bare(failures[n][1]) => Ctx(n) \in Cancelled)
    BY <1>1 DEF FailFits, BareFits
  <2>2. failures[n] = <<>> => (Bare(result[c]) => Ctx(n) \in Cancelled)
    BY <1>1, ChildBare
  <2>3. fs # <<>> => fs[1] # <<>> /\ (Bare(fs[1]) => Ctx(n) \in Cancelled)
    BY <1>7, <2>1, <2>2
  <2>4. ASSUME NEW d \in Children(n), pc'[d] = "listed"
        PROVE  fs # <<>>
    <3>1. CASE d = c
      BY <1>5, <1>7, <1>9, <2>4, <3>1
    <3>2. CASE d # c
      <4>1. pc[d] = "listed"
        BY <1>3, <2>4, <3>2 DEF TypeInv, Children
      <4>. QED
        BY <1>7, <4>1 DEF FailFits, BareFits
    <3>. QED
      BY <3>1, <3>2
  <2>. QED
    BY <1>1, <1>7, <1>8, <2>3, <2>4 DEF GoesListing
<1>12. GoesStaging(n, {c})
  BY <1>4, <1>5, <1>9 DEF GoesStaging
<1>. QED
  BY <1>9, <1>10, <1>11, <1>12, GoesKeeps

\* What a Parallel keeps begins with its first failure.
LEMMA KeptIs ==
  ASSUME NEW n, failures[n] \in Seq(Errors), failures[n] # <<>>, failures[n][1] # <<>>
  PROVE  Kept(n) \in Errors /\ Kept(n) # <<>> /\ Kept(n)[1] = failures[n][1][1]
<1>. DEFINE Parts == {"plain", "trans", "panic", "canceled", "budget", "timeout", "perm", "commit"}
            own(err) == ~Has(err, "canceled") /\ ~Has(err, inner[n])
            fs == failures[n]
            s == [i \in DOMAIN fs |-> IF i = 1 \/ own(fs[i]) THEN fs[i] ELSE <<>>]
<1>1. Errors = Seq(Parts) /\ fs \in Seq(Seq(Parts)) /\ fs # <<>>
  BY DEF Errors
<1>2. Kept(n) = FlattenSeq(s)
  BY DEF Kept
<1>. HIDE DEF Parts, own, fs
<1>3. s \in Seq(Seq(Parts)) /\ s # <<>> /\ s[1] = fs[1]
  <2>1. fs \in [1..Len(fs) -> Seq(Parts)] /\ Len(fs) \in Nat /\ Len(fs) # 0 /\ DOMAIN fs = 1..Len(fs)
    BY <1>1
  <2>2. <<>> \in Seq(Parts)
    OBVIOUS
  <2>3. s \in [1..Len(fs) -> Seq(Parts)]
    BY <2>1, <2>2
  <2>4. s \in Seq(Seq(Parts)) /\ Len(s) = Len(fs)
    BY <2>1, <2>3
  <2>5. s[1] = fs[1]
    BY <2>1
  <2>. HIDE DEF s
  <2>. QED
    BY <2>1, <2>4, <2>5
<1>. HIDE DEF s
<1>4. s[1] # <<>>
  BY <1>3 DEF fs
<1>5. FlattenSeq(s) \in Seq(Parts) /\ FlattenSeq(s) # <<>> /\ FlattenSeq(s)[1] = s[1][1]
  BY <1>3, <1>4, FlattenIs
<1>. QED
  BY <1>1, <1>2, <1>3, <1>5 DEF fs

\* The steps that succeeded staged all that stands of what a step did.
LEMMA SucceededStaged ==
  ASSUME TypeInv, WorkFits, NEW n \in Nodes, pc[n] \in Act, Kind(n) # "loop", Quiet(n),
         NEW C \in SUBSET Children(n), \A c \in Children(n) : pc[c] \in Over => c \in C
  PROVE  /\ StagedBy(Succeeded(C)) \subseteq Mine(n) /\ StagedBy(Succeeded(C)) \subseteq Live
         /\ \A w \in fate.since[n] : w \notin fate.dropped => w \in StagedBy(Succeeded(C))
<1>1. \A c \in Children(n) : c \in Nodes /\ c # Root /\ staged[c] \subseteq Mine(n) /\ staged[c] \subseteq Live
  BY StagesFit, ChildIs DEF TypeInv
<1>2. \A c \in Children(n) : pc[c] \in Over /\ result[c] # <<>> => staged[c] = {}
  BY <1>1 DEF WorkFits, StagedStands
<1>3. staged[n] = {}
  BY DEF WorkFits, StagedStands
<1>4. ASSUME NEW w \in fate.since[n], w \notin fate.dropped
      PROVE  w \in StagedBy(Succeeded(C))
  <2>1. PICK c \in Children(n) : pc[c] \in Over /\ w \in staged[c]
    BY <1>3, <1>4, AllStaged
  <2>2. c \in Succeeded(C)
    BY <1>2, <2>1 DEF Succeeded
  <2>. QED
    BY <2>1, <2>2 DEF StagedBy
<1>. QED
  BY <1>1, <1>4 DEF StagedBy, Succeeded

\* Every branch is over.
LEMMA ParallelEndsKeeps ==
  ASSUME StepTreeInv, NEW n \in Nodes, ParallelEnds(n)
  PROVE  StepTreeInv'
<1>. USE DEF StepTreeInv
<1>1. /\ Kind(n) = "parallel" /\ pc[n] \in Act /\ Quiet(n)
      /\ Finish(n, log, IF failures[n] = <<>> THEN <<>> ELSE Kept(n), StagedBy(Children(n)))
  BY DEF ParallelEnds, Quiet, Act
<1>. DEFINE err == IF failures[n] = <<>> THEN <<>> ELSE Kept(n)
            work == StagedBy(Children(n))
<1>2. err \in Errors /\ (Bare(err) => Ctx(n) \in Cancelled)
  <2>1. CASE failures[n] = <<>>
    BY <2>1, OneError DEF Bare
  <2>2. CASE failures[n] # <<>>
    <3>1. failures[n] \in Seq(Errors)
      BY DEF TypeInv
    <3>2. failures[n][1] # <<>> /\ (Bare(failures[n][1]) => Ctx(n) \in Cancelled)
      BY <1>1, <2>2 DEF FailFits, BareFits
    <3>. HIDE DEF StepTreeInv
    <3>3. Kept(n) \in Errors /\ Kept(n)[1] = failures[n][1][1]
      BY <2>2, <3>1, <3>2, KeptIs
    <3>. QED
      BY <2>2, <3>2, <3>3 DEF Bare
  <2>. QED
    BY <2>1, <2>2
<1>3. work \subseteq Mine(n) /\ work \subseteq Live
  BY StagesFit DEF StagedBy
<1>4. \A w \in fate.since[n] : w \notin fate.dropped => w \in work
  <2>1. staged[n] = {}
    BY <1>1 DEF WorkFits, StagedStands
  <2>. QED
    BY <1>1, <2>1, AllStaged DEF StagedBy
<1>5. LogFits(log, Running)
  BY DEF LogHolds
<1>. HIDE DEF err, work
<1>6. Finish(n, log, err, work)
  BY <1>1 DEF err, work
<1>. QED
  BY <1>1, <1>2, <1>3, <1>4, <1>5, <1>6, FinishKeeps

\* The errors that stop a map.
LEMMA StopIs ==
  ASSUME TypeInv, NEW n \in Nodes, NEW err \in Errors, NEW stop, stop = StopsWith(n, err)
  PROVE  /\ stop \in Seq(Errors)
         /\ stop # <<>> => /\ stop[1] \in Errors /\ stop[1] # <<>>
                           /\ Bare(stop[1]) => Bare(err) \/ Ctx(n) \in Cancelled
<1>1. \/ stop = <<>> \/ (err # <<>> /\ stop = <<err>>)
      \/ (Ctx(n) # "no" /\ stop = <<ContextEnd(Ctx(n))>>)
  BY DEF StopsWith
<1>2. Ctx(n) # "no" => /\ ContextEnd(Ctx(n)) \in Errors /\ ContextEnd(Ctx(n)) # <<>>
                       /\ Bare(ContextEnd(Ctx(n))) => Ctx(n) \in Cancelled
  BY EndIs
<1>3. ASSUME NEW e \in Errors
      PROVE  <<e>> \in Seq(Errors) /\ <<e>>[1] = e
  <2>. HIDE DEF Errors
  <2>. QED
    OBVIOUS
<1>4. CASE stop = <<>>
  BY <1>4
<1>5. CASE err # <<>> /\ stop = <<err>>
  BY <1>3, <1>5
<1>6. CASE Ctx(n) # "no" /\ stop = <<ContextEnd(Ctx(n))>>
  <2>. DEFINE e == ContextEnd(Ctx(n))
  <2>1. e \in Errors /\ e # <<>> /\ (Bare(e) => Ctx(n) \in Cancelled) /\ stop = <<e>>
    BY <1>2, <1>6
  <2>. HIDE DEF e
  <2>. QED
    BY <1>3, <2>1
<1>. QED
  BY <1>1, <1>4, <1>5, <1>6

\* The first of the elements left.
LEMMA NextElementIs ==
  ASSUME TypeInv, NEW n \in Nodes, MoreElements(n)
  PROVE  /\ NextElement(n) \in Children(n) /\ pc[NextElement(n)] = "idle"
         /\ \A d \in Children(n) : pc[d] = "idle" => NextElement(n) <= d
<1>1. Left(n) \in SUBSET Nat /\ Left(n) # {}
  BY TreeShape DEF Left, MoreElements, Children, TypeInv
<1>2. Min(Left(n)) \in Left(n) /\ \A x \in Left(n) : Min(Left(n)) <= x
  BY <1>1, MinIn
<1>. QED
  BY <1>2 DEF NextElement, Left

\* An element starts.
LEMMA StartElementKeeps ==
  ASSUME StepTreeInv, NEW n \in Nodes, pc[n] = "run", MoreElements(n), StartChild(n, NextElement(n)),
         Kind(n) = "until" => \A c \in Children(n) : pc[c] \notin Busy
  PROVE  StepTreeInv'
<1>. DEFINE c == NextElement(n)
<1>1. c \in Children(n) /\ pc[c] = "idle" /\ \A d \in Children(n) : pc[d] = "idle" => c <= d
  BY NextElementIs DEF StepTreeInv
<1>2. count' \in [Nodes -> Nat]
  BY DEF StartChild, StepTreeInv, TypeInv
<1>3. pc' = [pc EXCEPT ![c] = "start"]
  BY DEF StartChild
<1>. HIDE DEF c
<1>4. UNCHANGED <<tree, ended, inner, failures, staged, result, log, verdict, memory, fate>>
  BY DEF StartChild
<1>. QED
  BY <1>1, <1>2, <1>3, <1>4, StartKeeps

\* An element ends, and stops the map.
LEMMA ElementEndsKeeps ==
  ASSUME StepTreeInv, NEW n \in Nodes, NEW c \in Children(n), ElementEnds(n, c)
  PROVE  StepTreeInv'
<1>. USE DEF StepTreeInv
<1>1. /\ Kind(n) = "map" /\ pc[n] = "run" /\ pc[n] \in Act /\ pc[c] = "done" /\ pc[c] \in Over /\ pc[c] \notin Act
      /\ UNCHANGED <<tree, ended, inner, count, staged, result, log, verdict, memory, fate>>
  BY DEF ElementEnds, Act, Over
<1>2. c \in Nodes /\ c # n
  BY ChildIs DEF TypeInv
<1>. DEFINE stop == StopsWith(n, result[c])
            q == IF stop = <<>> THEN "over" ELSE "listed"
            fs == IF failures[n] = <<>> THEN stop ELSE failures[n]
<1>3. pc' = [pc EXCEPT ![c] = q] /\ failures' = [failures EXCEPT ![n] = fs]
  BY DEF ElementEnds
<1>4. /\ stop \in Seq(Errors)
      /\ stop # <<>> => /\ stop[1] \in Errors /\ stop[1] # <<>>
                        /\ Bare(stop[1]) => Bare(result[c]) \/ Ctx(n) \in Cancelled
  <2>1. result[c] \in Errors
    BY <1>2 DEF TypeInv
  <2>. HIDE DEF stop
  <2>. QED
    BY <2>1, StopIs DEF stop
<1>. HIDE DEF stop
<1>5. q \in PCs \ Act /\ q \in Over /\ (q = "listed" => stop # <<>>)
  BY DEF PCs, Act, Over
<1>6. fs \in Seq(Errors) /\ (fs = <<>> => failures[n] = <<>> /\ stop = <<>>)
  BY <1>4 DEF TypeInv
<1>7. failures[n] # <<>> => failures[n][1] # <<>> /\ (Bare(failures[n][1]) => Ctx(n) \in Cancelled)
  BY <1>1 DEF FailFits, BareFits
<1>8. failures[n] = <<>> => (Bare(result[c]) => Ctx(n) \in Cancelled)
  BY <1>1, ChildBare
<1>9. fs # <<>> => fs[1] # <<>> /\ (Bare(fs[1]) => Ctx(n) \in Cancelled)
  BY <1>4, <1>7, <1>8
<1>. HIDE DEF fs, q
<1>10. failures' \in [Nodes -> Seq(Errors)] /\ failures'[n] = fs /\ \A m \in Nodes : m # n => failures'[m] = failures[m]
  BY <1>3, <1>6 DEF TypeInv
<1>11. GoesOn(n, {c}) /\ GoesInside(n) /\ pc'[n] = "run" /\ pc'[c] = q
  <2>1. count' \in [Nodes -> Nat] /\ TypeInv
    BY <1>1 DEF TypeInv
  <2>. HIDE DEF StepTreeInv
  <2>2. pc' = [pc EXCEPT ![c] = q]
    BY <1>3
  <2>. QED
    BY <1>1, <1>5, <1>10, <2>1, <2>2, ChildGoes
<1>12. Goes(n, {c})
  BY <1>1, <1>11 DEF Goes
<1>13. GoesListing(n)
  <2>1. ASSUME NEW d \in Children(n), pc'[d] = "listed"
        PROVE  fs # <<>>
    <3>1. CASE d = c
      BY <1>5, <1>6, <1>11, <2>1, <3>1
    <3>2. CASE d # c
      <4>1. pc[d] = "listed"
        BY <1>3, <2>1, <3>2 DEF TypeInv, Children
      <4>. QED
        BY <1>6, <4>1 DEF FailFits, BareFits
    <3>. QED
      BY <3>1, <3>2
  <2>. QED
    BY <1>1, <1>6, <1>9, <1>10, <2>1 DEF GoesListing
<1>14. GoesStaging(n, {c})
  BY <1>1, <1>5, <1>11 DEF GoesStaging
<1>. QED
  BY <1>11, <1>12, <1>13, <1>14, GoesKeeps

\* Every element begun is over.
LEMMA MapEndsKeeps ==
  ASSUME StepTreeInv, NEW n \in Nodes, MapEnds(n)
  PROVE  StepTreeInv'
<1>. USE DEF StepTreeInv
<1>1. /\ Kind(n) = "map" /\ pc[n] \in Act /\ (~MoreElements(n) \/ inner[n] # "no")
      /\ Finish(n, log,
                IF failures[n] # <<>> THEN failures[n][1] ELSE IF MoreElements(n) THEN ContextEnd(Ctx(n)) ELSE <<>>,
                StagedBy(Succeeded(Children(n))))
  BY DEF MapEnds, Act
<1>2. Quiet(n)
  BY DEF MapEnds, Quiet, Busy, Act
<1>. DEFINE err == IF failures[n] # <<>> THEN failures[n][1] ELSE IF MoreElements(n) THEN ContextEnd(Ctx(n)) ELSE <<>>
            work == StagedBy(Succeeded(Children(n)))
<1>3. err \in Errors /\ (Bare(err) => Ctx(n) \in Cancelled)
  <2>1. CASE failures[n] # <<>>
    <3>1. failures[n] \in Seq(Errors)
      BY DEF TypeInv
    <3>2. Bare(failures[n][1]) => Ctx(n) \in Cancelled
      BY <1>1, <2>1 DEF FailFits, BareFits
    <3>3. failures[n][1] \in Errors
      BY <2>1, <3>1
    <3>. QED
      BY <2>1, <3>2, <3>3
  <2>2. CASE failures[n] = <<>> /\ MoreElements(n)
    <3>1. inner[n] = Ctx(n) /\ Ctx(n) # "no"
      BY <1>1, <2>2 DEF FailFits, CausesFit
    <3>. QED
      BY <2>2, <3>1, EndIs
  <2>3. CASE failures[n] = <<>> /\ ~MoreElements(n)
    BY <2>3, OneError DEF Bare
  <2>. QED
    BY <2>1, <2>2, <2>3
<1>4. /\ work \subseteq Mine(n) /\ work \subseteq Live
      /\ \A w \in fate.since[n] : w \notin fate.dropped => w \in work
  BY <1>1, <1>2, SucceededStaged
<1>5. LogFits(log, Running)
  BY DEF LogHolds
<1>. HIDE DEF err, work
<1>6. Finish(n, log, err, work)
  BY <1>1 DEF err, work
<1>. QED
  BY <1>1, <1>2, <1>3, <1>4, <1>5, <1>6, FinishKeeps

\* The next element of a map that goes in turn starts, or is refused.
LEMMA UntilStartsKeeps ==
  ASSUME StepTreeInv, NEW n \in Nodes, UntilStarts(n)
  PROVE  StepTreeInv'
<1>. USE DEF StepTreeInv
<1>1. /\ Kind(n) = "until" /\ pc[n] = "run" /\ pc[n] \in Act /\ MoreElements(n)
      /\ \A c \in Children(n) : pc[c] \notin Busy
      /\ \/ Ctx(n) # "no" /\ Finish(n, log, ContextEnd(Ctx(n)), {})
         \/ StartChild(n, NextElement(n))
  BY DEF UntilStarts, Act
<1>2. Quiet(n) /\ LogFits(log, Running)
  BY <1>1 DEF Quiet, Busy, Act, LogHolds
<1>3. CASE Ctx(n) # "no" /\ Finish(n, log, ContextEnd(Ctx(n)), {})
  <2>. DEFINE err == ContextEnd(Ctx(n))
  <2>1. err \in Errors /\ err # <<>> /\ (Bare(err) => Ctx(n) \in Cancelled) /\ Finish(n, log, err, {})
    BY <1>3, EndIs
  <2>. HIDE DEF err
  <2>. QED
    BY <1>1, <1>2, <2>1, FinishKeeps
<1>4. CASE StartChild(n, NextElement(n))
  BY <1>1, <1>4, StartElementKeeps
<1>. QED
  BY <1>1, <1>3, <1>4

\* An element of a map that goes in turn ends, all before it over and none after it begun.
LEMMA UntilElementKeeps ==
  ASSUME StepTreeInv, NEW n \in Nodes, NEW c \in Children(n), UntilElementEnds(n, c)
  PROVE  StepTreeInv'
<1>. USE DEF StepTreeInv
<1>1. Kind(n) = "until" /\ pc[n] = "run" /\ pc[n] \in Act /\ pc[c] = "done" /\ pc[c] \in Over /\ pc[c] \notin Act
  BY DEF UntilElementEnds, Act, Over
<1>2. c \in Nodes /\ c # n /\ c \in Nat /\ \A d \in Children(n) : d \in Nat
  BY ChildIs, TreeShape DEF TypeInv, Children
<1>3. \A d \in Children(n) : pc[d] # "idle" => d <= c /\ (pc[d] \in Busy => c <= d)
  BY <1>1 DEF PlacesFit, InTurn, Busy
<1>4. Quiet(n)
  <2>1. ASSUME NEW d \in Children(n), pc[d] \in {"start"} \union Act
        PROVE  FALSE
    <3>1. d <= c /\ c <= d /\ d # c
      BY <1>1, <1>3, <2>1 DEF Busy, Act
    <3>. QED
      BY <1>2, <3>1
  <2>. QED
    BY <2>1 DEF Quiet
<1>. DEFINE err == result[c]
            fatal == Has(err, "panic") \/ Has(err, "timeout")
            stop == StopsWith(n, err)
            C == {m \in Children(n) : m <= c}
            work == StagedBy(Succeeded(C))
<1>5. err \in Errors /\ (Bare(err) => Ctx(n) \in Cancelled) /\ LogFits(log, Running)
  BY <1>1, <1>2, ChildBare DEF TypeInv, LogHolds
<1>6. \/ fatal /\ Finish(n, log, err, {})
      \/ ~fatal /\ stop # <<>> /\ Finish(n, log, stop[1], {})
      \/ Finish(n, log, <<>>, work)
      \/ Ctx(n) # "no" /\ Finish(n, log, ContextEnd(Ctx(n)), {})
      \/ /\ pc' = [pc EXCEPT ![c] = "over"]
         /\ UNCHANGED <<tree, ended, inner, count, failures, staged, result, log, verdict, memory, fate>>
  BY DEF UntilElementEnds
<1>7. fatal => err # <<>>
  BY DEF Has, ToSet
<1>8. /\ stop \in Seq(Errors)
      /\ stop # <<>> => stop[1] \in Errors /\ stop[1] # <<>> /\ (Bare(stop[1]) => Ctx(n) \in Cancelled)
  <2>. HIDE DEF stop, err
  <2>. QED
    BY <1>5, StopIs DEF stop
<1>9. /\ work \subseteq Mine(n) /\ work \subseteq Live
      /\ \A w \in fate.since[n] : w \notin fate.dropped => w \in work
  <2>1. C \in SUBSET Children(n) /\ \A d \in Children(n) : pc[d] \in Over => d \in C
    BY <1>3 DEF Over
  <2>. HIDE DEF C
  <2>. QED
    BY <1>1, <1>4, <2>1, SucceededStaged
<1>. HIDE DEF fatal, stop, work, err
<1>10. ASSUME NEW e \in Errors, e # <<>>, Bare(e) => Ctx(n) \in Cancelled, Finish(n, log, e, {})
       PROVE  StepTreeInv'
  BY <1>1, <1>4, <1>5, <1>10, FinishKeeps
<1>11. CASE Finish(n, log, <<>>, work)
  <2>1. <<>> \in Errors /\ ~Bare(<<>>)
    BY OneError DEF Bare
  <2>. QED
    BY <1>1, <1>4, <1>5, <1>9, <1>11, <2>1, FinishKeeps
<1>12. CASE Ctx(n) # "no" /\ Finish(n, log, ContextEnd(Ctx(n)), {})
  BY <1>10, <1>12, EndIs
<1>13. CASE /\ pc' = [pc EXCEPT ![c] = "over"]
            /\ UNCHANGED <<tree, ended, inner, count, failures, staged, result, log, verdict, memory, fate>>
  <2>1. "over" \in PCs \ Act /\ "over" \in Over
    BY DEF PCs, Act, Over
  <2>2. count' \in [Nodes -> Nat] /\ failures' \in [Nodes -> Seq(Errors)]
    BY <1>13 DEF TypeInv
  <2>3. GoesOn(n, {c}) /\ GoesInside(n) /\ pc'[n] = "run" /\ pc'[c] = "over"
    BY <1>1, <1>13, <2>1, <2>2, ChildGoes
  <2>4. Goes(n, {c})
    BY <1>1, <2>3 DEF Goes
  <2>5. GoesListing(n)
    <3>1. \A d \in Children(n) : pc'[d] = "listed" => pc[d] = "listed"
      BY <1>13 DEF TypeInv, Children
    <3>. QED
      BY <1>1, <1>13, <3>1, SameListing
  <2>6. GoesStaging(n, {c})
    BY <1>13, <2>1, <2>3 DEF GoesStaging
  <2>. QED
    BY <2>3, <2>4, <2>5, <2>6, GoesKeeps
<1>. QED
  BY <1>5, <1>6, <1>7, <1>8, <1>10, <1>11, <1>12, <1>13

\* An iteration starts, or is refused.
LEMMA IterateKeeps ==
  ASSUME StepTreeInv, NEW n \in Nodes, Iterate(n)
  PROVE  StepTreeInv'
<1>. USE DEF StepTreeInv
<1>1. Kind(n) = "loop" /\ pc[n] = "run" /\ pc[n] \in Act
  BY DEF Iterate, Act
<1>2. PICK c \in Children(n) :
        /\ pc[c] = "idle"
        /\ \/ Ctx(n) # "no" /\ Finish(n, log, ContextEnd(Ctx(n)), {})
           \/ StartChild(n, c)
  BY DEF Iterate
<1>3. Children(n) = {c}
  BY <1>1, OnlyChild DEF TypeInv
<1>4. CASE Ctx(n) # "no" /\ Finish(n, log, ContextEnd(Ctx(n)), {})
  <2>. DEFINE err == ContextEnd(Ctx(n))
  <2>1. err \in Errors /\ err # <<>> /\ (Bare(err) => Ctx(n) \in Cancelled) /\ Finish(n, log, err, {})
    BY <1>4, EndIs
  <2>2. Quiet(n) /\ LogFits(log, Running)
    BY <1>2, <1>3 DEF Quiet, Act, LogHolds
  <2>. HIDE DEF err
  <2>. QED
    BY <1>1, <2>1, <2>2, FinishKeeps
<1>5. CASE StartChild(n, c)
  <2>1. count' \in [Nodes -> Nat]
    BY <1>5 DEF StartChild, TypeInv
  <2>. QED
    BY <1>1, <1>2, <1>5, <2>1, StartKeeps DEF StartChild
<1>. QED
  BY <1>2, <1>4, <1>5

\* An iteration ends: the loop ends with it, or keeps what it staged and goes on.
LEMMA IterationEndsKeeps ==
  ASSUME StepTreeInv, NEW n \in Nodes, IterationEnds(n)
  PROVE  StepTreeInv'
<1>. USE DEF StepTreeInv
<1>1. Kind(n) = "loop" /\ pc[n] = "run" /\ pc[n] \in Act
  BY DEF IterationEnds, Act
<1>2. PICK c \in Children(n) :
        /\ pc[c] = "done"
        /\ \/ result[c] # <<>> /\ Finish(n, log, result[c], {})
           \/ \E how \in {<<>>, <<"plain">>} : Finish(n, log, how, staged[n] \union staged[c])
           \/ Finish(n, log, <<"perm">>, {})
           \/ /\ pc' = [pc EXCEPT ![c] = "idle"]
              /\ staged' = [staged EXCEPT ![n] = staged[n] \union staged[c]]
              /\ UNCHANGED <<tree, ended, inner, count, failures, result, log, verdict, memory, fate>>
  BY DEF IterationEnds, LoopStage
<1>3. c \in Nodes /\ c # n /\ Children(n) = {c}
  BY <1>1, ChildIs, OnlyChild DEF TypeInv
<1>4. pc[c] \in Over /\ pc[c] \notin Act /\ Quiet(n) /\ LogFits(log, Running)
  BY <1>2, <1>3 DEF Over, Quiet, Act, LogHolds
<1>5. CASE result[c] # <<>> /\ Finish(n, log, result[c], {})
  <2>1. result[c] \in Errors /\ (Bare(result[c]) => Ctx(n) \in Cancelled)
    BY <1>1, <1>3, <1>4, ChildBare DEF TypeInv
  <2>. QED
    BY <1>1, <1>4, <1>5, <2>1, FinishKeeps
<1>6. ASSUME NEW how \in {<<>>, <<"plain">>}, Finish(n, log, how, staged[n] \union staged[c])
      PROVE  StepTreeInv'
  <2>1. how \in Errors /\ ~Bare(how)
    BY OneError DEF Bare
  <2>2. staged[n] \union staged[c] \subseteq Mine(n) /\ staged[n] \union staged[c] \subseteq Live
    BY <1>3, StagesFit
  <2>3. \A w \in fate.since[n] : w \notin fate.dropped => w \in staged[n] \union staged[c]
    BY <1>1, <1>3, <1>4, AllStaged
  <2>. DEFINE work == staged[n] \union staged[c]
  <2>. HIDE DEF work, StepTreeInv
  <2>4. /\ work \subseteq Mine(n) /\ work \subseteq Live /\ Finish(n, log, how, work)
        /\ \A w \in fate.since[n] : w \notin fate.dropped => w \in work
    BY <1>6, <2>2, <2>3 DEF work
  <2>. QED
    BY <1>1, <1>4, <2>1, <2>4, FinishKeeps
<1>7. CASE Finish(n, log, <<"perm">>, {})
  <2>. DEFINE err == <<"perm">>
  <2>1. err \in Errors /\ ~Bare(err) /\ err # <<>> /\ Finish(n, log, err, {})
    BY <1>7, OneError
  <2>. HIDE DEF err
  <2>. QED
    BY <1>1, <1>4, <2>1, FinishKeeps
<1>8. CASE /\ pc' = [pc EXCEPT ![c] = "idle"]
           /\ staged' = [staged EXCEPT ![n] = staged[n] \union staged[c]]
           /\ UNCHANGED <<tree, ended, inner, count, failures, result, log, verdict, memory, fate>>
  <2>1. "idle" \in PCs \ Act /\ "idle" \notin Over
    BY DEF PCs, Act, Over
  <2>2. count' \in [Nodes -> Nat] /\ failures' \in [Nodes -> Seq(Errors)]
    BY <1>8 DEF TypeInv
  <2>3. GoesOn(n, {c}) /\ GoesInside(n) /\ pc'[n] = "run" /\ pc'[c] = "idle"
    BY <1>1, <1>4, <1>8, <2>1, <2>2, ChildGoes
  <2>4. Goes(n, {c})
    BY <1>1, <2>3 DEF Goes
  <2>5. GoesListing(n)
    <3>1. \A d \in Children(n) : pc'[d] = "listed" => pc[d] = "listed"
      BY <1>8 DEF TypeInv, Children
    <3>. QED
      BY <1>1, <1>8, <3>1, SameListing
  <2>6. GoesStaging(n, {c})
    <3>1. pc[Root] # "start"
      BY <1>1, RootBegan DEF Act
    <3>. QED
      BY <1>1, <1>3, <1>4, <1>8, <3>1 DEF GoesStaging
  <2>. QED
    BY <2>3, <2>4, <2>5, <2>6, GoesKeeps
<1>. QED
  BY <1>2, <1>5, <1>6, <1>7, <1>8

-----------------------------------------------------------------------------
(* The invariant and the properties. *)

\* A step begins with nothing done.
LEMMA InitFits ==
  ASSUME Init
  PROVE  StepTreeInv
<1>1. tree \in Trees /\ Root \in Nodes /\ \A n \in Nodes : n \in Nat
  BY TreeShape DEF Init
<1>2. TypeInv
  <2>1. log \in LogType
    <3>1. NoHold \in [exec : {<<>>} \union Work, waits : SUBSET Entries]
      BY DEF NoHold
    <3>2. <<>> \in Seq(Statuses)
      OBVIOUS
    <3>. QED
      BY <3>1, <3>2 DEF Init, LogType
  <2>2. fate \in FateType
    BY DEF Init, FateType
  <2>3. <<>> \in Errors /\ <<>> \in Seq(Errors)
    BY OneError
  <2>4. pc \in [Nodes -> PCs] /\ inner \in [Nodes -> Causes]
    BY DEF Init, PCs, Causes
  <2>. QED
    BY <2>1, <2>2, <2>3, <2>4 DEF Init, TypeInv
<1>3. PlacesFit
  <2>1. \A n \in Nodes : pc[n] # "idle" => n = Root
    BY DEF Init
  <2>2. Nested(pc, verdict)
    BY <1>1, <2>1, OrderIs DEF Init, Nested
  <2>3. Waits(pc, result)
    BY DEF Init, Waits
  <2>4. InTurn(pc)
    BY <1>1, <2>1, ChildIs DEF InTurn
  <2>. QED
    BY <2>2, <2>3, <2>4 DEF PlacesFit
<1>4. CutDown(pc, inner, ended)
  <2>1. \A m \in Nodes : pc[m] \notin Act
    BY DEF Init, Act
  <2>. QED
    BY <2>1 DEF CutDown
<1>5. LogHolds
  <2>1. Running = {}
    BY DEF Init, Running
  <2>2. LogFits(log, {}) /\ NothingHeld(log, verdict)
    BY <1>2 DEF Init, TypeInv, LogFits, NoHold, Filed, NothingHeld
  <2>. QED
    BY <2>1, <2>2 DEF LogHolds
<1>6. WorkFits
  <2>1. Live = {}
    BY DEF Init, Live
  <2>. QED
    BY <1>1, <2>1 DEF Init, WorkFits, Owned, StagedStands, Apart, Accounted, AllInside, CommittedIsWhatStands
<1>7. FailFits
  BY <1>1 DEF Init, FailFits, Fresh, CausesFit, BareFits, Act, Over, Bare, Children
<1>. QED
  BY <1>2, <1>3, <1>4, <1>5, <1>6, <1>7 DEF StepTreeInv

\* Every step keeps the invariant.
LEMMA NextFits ==
  ASSUME StepTreeInv, [Next]_vars
  PROVE  StepTreeInv'
<1>1. CASE Interrupt
  BY <1>1, CutsKeep
<1>2. ASSUME NEW n \in Nodes, StepOf(n)
      PROVE  StepTreeInv'
  <2>1. CASE Refuse(n)
    BY <2>1, RefuseKeeps
  <2>2. CASE Begin(n)
    BY <2>2, BeginKeeps
  <2>3. CASE LeafReturns(n) \/ LeafPanics(n)
    BY <2>3, LeafKeeps
  <2>4. CASE AttemptEnds(n)
    BY <2>4, AttemptEndsKeeps
  <2>5. CASE WaitEndsEarly(n) \/ NextAttempt(n)
    BY <2>5, WaitKeeps
  <2>6. CASE LookUp(n)
    BY <2>6, LookUpKeeps
  <2>7. CASE CachedStepEnds(n)
    BY <2>7, CachedStepKeeps
  <2>8. CASE ParallelEnds(n)
    BY <2>8, ParallelEndsKeeps
  <2>9. CASE StartElement(n)
    <3>1. Kind(n) = "map" /\ pc[n] = "run" /\ MoreElements(n) /\ StartChild(n, NextElement(n))
      BY <2>9 DEF StartElement
    <3>. QED
      BY <3>1, StartElementKeeps
  <2>10. CASE MapEnds(n)
    BY <2>10, MapEndsKeeps
  <2>11. CASE UntilStarts(n)
    BY <2>11, UntilStartsKeeps
  <2>12. CASE Iterate(n)
    BY <2>12, IterateKeeps
  <2>13. CASE IterationEnds(n)
    BY <2>13, IterationEndsKeeps
  <2>14. ASSUME NEW c \in Children(n), StepEnds(n, c)
         PROVE  StepTreeInv'
    BY <2>14, StepEndsKeeps
  <2>15. ASSUME NEW c \in Children(n), CancelOthers(n, c)
         PROVE  StepTreeInv'
    BY <2>15, CutsKeep
  <2>16. ASSUME NEW c \in Children(n), ElementEnds(n, c)
         PROVE  StepTreeInv'
    BY <2>16, ElementEndsKeeps
  <2>17. ASSUME NEW c \in Children(n), UntilElementEnds(n, c)
         PROVE  StepTreeInv'
    BY <2>17, UntilElementKeeps
  <2>. QED
    BY <1>2, <2>1, <2>2, <2>3, <2>4, <2>5, <2>6, <2>7, <2>8, <2>9, <2>10, <2>11, <2>12, <2>13, <2>14, <2>15, <2>16, <2>17
       DEF StepOf
<1>3. ASSUME NEW n \in Nodes, TimeoutFires(n)
      PROVE  StepTreeInv'
  BY <1>3, CutsKeep
<1>4. CASE UNCHANGED vars
  <2>. USE DEF StepTreeInv
  <2>1. /\ tree' = tree /\ Nodes' = Nodes /\ Ancestors' = Ancestors
        /\ Work' = Work /\ LogType' = LogType /\ FateType' = FateType
        /\ \A m : Kind(m)' = Kind(m) /\ Children(m)' = Children(m)
    BY <1>4, TreeStays DEF vars
  <2>2. TypeInv'
    BY <1>4, <2>1 DEF vars, TypeInv
  <2>3. PlacesFit'
    BY <1>4, <2>1 DEF vars, PlacesFit, Nested, Waits, InTurn
  <2>4. CutDown(pc, inner, ended)'
    BY <1>4, <2>1 DEF vars, CutDown
  <2>5. LogHolds'
    BY <1>4, LogStays DEF vars
  <2>6. WorkFits'
    BY <1>4, WorkStays DEF vars
  <2>7. FailFits'
    <3>1. \A m : Ctx(m)' = Ctx(m)
      BY <1>4 DEF vars, Ctx
    <3>. QED
      BY <1>4, <2>1, <3>1 DEF vars, FailFits, Fresh, CausesFit, BareFits, Bare
  <2>. QED
    BY <2>2, <2>3, <2>4, <2>5, <2>6, <2>7
<1>. QED
  BY <1>1, <1>2, <1>3, <1>4 DEF Next

-----------------------------------------------------------------------------
(* What follows of the invariant. *)

\* The types, the places, the records, the work and the failures stay as StepTreeInv says, whatever
\* runNode, the wrappers and the composites do.
THEOREM StepTreeInvariant == Spec => []StepTreeInv
<1>. QED
  BY InitFits, NextFits, PTL DEF Spec

\* The variables have their types.
THEOREM TypeCorrect == Spec => []TypeOK
<1>1. ASSUME StepTreeInv
      PROVE  TypeOK
  BY <1>1 DEF StepTreeInv, TypeInv, TypeOK, PCs
<1>. QED
  BY <1>1, StepTreeInvariant, PTL

\* For every tree: a step commits for tools exactly what its leaves did in executions that succeeded
\* and are inside nothing that failed (the stages of runNode, Parallel, Map, Loop and WithCache).
THEOREM CommitsWhatStands == Spec => []CommittedIsWhatStands
<1>1. ASSUME StepTreeInv
      PROVE  CommittedIsWhatStands
  BY <1>1 DEF StepTreeInv, WorkFits
<1>. QED
  BY <1>1, StepTreeInvariant, PTL

\* For every tree: no execution is reported twice, and none is left running or held once the step has
\* ended (beginExecution, finishHold).
THEOREM ReportsOnce == Spec => []EachReportedOnce
<1>1. ASSUME StepTreeInv
      PROVE  EachReportedOnce
  <2>1. SUFFICES ASSUME NEW n \in Nodes, NEW k \in 1..Len(log.execs[n])
        PROVE  /\ log.execs[n][k] # "twice"
               /\ verdict # "running" => log.execs[n][k] \in {"ok", "failed"}
    BY DEF EachReportedOnce, Executions, StatusOf
  <2>2. log.execs[n][k] \in Statuses
    <3>1. log.execs[n] \in Seq(Statuses)
      BY <1>1 DEF StepTreeInv, TypeInv, LogType
    <3>. QED
      BY <2>1, <3>1
  <2>3. ASSUME verdict # "running"
        PROVE  log.execs[n][k] \notin {"running", "held"}
    <3>1. pc[Root] = "done"
      BY <1>1, <2>3 DEF StepTreeInv, PlacesFit, Nested
    <3>2. n = Root \/ pc[n] = "idle"
      BY <1>1, <3>1, OrderIs DEF StepTreeInv, TypeInv, PlacesFit, Nested, Act
    <3>3. n \notin Running
      BY <3>1, <3>2 DEF Running
    <3>4. log.hold.exec = <<>>
      BY <1>1, <2>3 DEF StepTreeInv, LogHolds, NothingHeld
    <3>5. LogFits(log, Running)
      BY <1>1 DEF StepTreeInv, LogHolds
    <3>6. log.execs[n][k] # "running"
      BY <2>1, <3>3, <3>5 DEF LogFits
    <3>7. log.execs[n][k] = "held" => log.hold.exec = <<n, k>>
      BY <2>1, <3>5 DEF LogFits
    <3>. QED
      BY <3>4, <3>6, <3>7
  <2>. QED
    BY <2>2, <2>3 DEF Statuses
<1>. QED
  BY <1>1, StepTreeInvariant, PTL

\* For every tree: a step whose own context lives fails with a failure of its own or from inside it,
\* never with a cancellation one of them caused (the first failure of Parallel and Map is kept).
THEOREM FailsForReal == Spec => []FailureIsReal
<1>1. ASSUME StepTreeInv
      PROVE  FailureIsReal
  BY <1>1 DEF StepTreeInv, FailFits, BareFits, FailureIsReal, Over, Bare, Cancelled
<1>. QED
  BY <1>1, StepTreeInvariant, PTL

\* A step that returns starts nothing.
LEMMA ReturnStartsNone ==
  ASSUME NEW n, NEW l, NEW f, NEW err, NEW work, Return(n, l, f, err, work), NEW m \in Nodes, pc[m] = "start"
  PROVE  pc'[m] # "run"
BY DEF Return

\* Only the beginning of a step takes it from its start to its run.
LEMMA OnlyBegin ==
  ASSUME TypeInv, [Next]_vars, NEW m \in Nodes, pc[m] = "start", pc'[m] = "run"
  PROVE  Begin(m)
<1>1. ASSUME NEW n \in Nodes, NEW l, NEW err, NEW work
      PROVE  ~Finish(n, l, err, work)
  BY ReturnStartsNone DEF Finish
<1>2. pc' # pc
  OBVIOUS
<1>3. CASE Interrupt
  BY <1>2, <1>3 DEF Interrupt
<1>4. ASSUME NEW n \in Nodes, StepOf(n)
      PROVE  Begin(m)
  <2>1. CASE Refuse(n)
    BY <2>1, ReturnStartsNone DEF Refuse
  <2>2. CASE Begin(n)
    BY <2>2 DEF Begin
  <2>3. CASE LeafReturns(n) \/ LeafPanics(n)
    BY <2>3, ReturnStartsNone DEF LeafReturns, LeafPanics
  <2>4. CASE AttemptEnds(n)
    BY <1>1, <2>4 DEF AttemptEnds, TypeInv
  <2>5. CASE WaitEndsEarly(n)
    BY <1>1, <2>5 DEF WaitEndsEarly
  <2>6. CASE NextAttempt(n)
    BY <2>6 DEF NextAttempt
  <2>7. CASE LookUp(n)
    BY <2>7, ReturnStartsNone DEF LookUp, TypeInv
  <2>8. CASE CachedStepEnds(n)
    BY <1>1, <2>8 DEF CachedStepEnds
  <2>9. CASE ParallelEnds(n)
    BY <1>1, <2>9 DEF ParallelEnds
  <2>10. CASE StartElement(n)
    BY <2>10 DEF StartElement, StartChild, TypeInv
  <2>11. CASE MapEnds(n)
    BY <1>1, <2>11 DEF MapEnds
  <2>12. CASE UntilStarts(n)
    BY <1>1, <2>12 DEF UntilStarts, StartChild, TypeInv
  <2>13. CASE Iterate(n)
    BY <1>1, <2>13 DEF Iterate, StartChild, TypeInv
  <2>14. CASE IterationEnds(n)
    BY <1>1, <2>14 DEF IterationEnds, TypeInv
  <2>15. ASSUME NEW c \in Children(n), StepEnds(n, c)
         PROVE  FALSE
    BY <2>15 DEF StepEnds, TypeInv
  <2>16. ASSUME NEW c \in Children(n), CancelOthers(n, c)
         PROVE  FALSE
    BY <2>16 DEF CancelOthers, TypeInv
  <2>17. ASSUME NEW c \in Children(n), ElementEnds(n, c)
         PROVE  FALSE
    BY <2>17 DEF ElementEnds, TypeInv
  <2>18. ASSUME NEW c \in Children(n), UntilElementEnds(n, c)
         PROVE  FALSE
    BY <1>1, <2>18 DEF UntilElementEnds, TypeInv
  <2>. QED
    BY <1>4, <2>1, <2>2, <2>3, <2>4, <2>5, <2>6, <2>7, <2>8, <2>9, <2>10, <2>11, <2>12, <2>13, <2>14, <2>15, <2>16, <2>17, <2>18
       DEF StepOf
<1>5. ASSUME NEW n \in Nodes, TimeoutFires(n)
      PROVE  FALSE
  BY <1>2, <1>5 DEF TimeoutFires
<1>6. CASE UNCHANGED vars
  BY <1>2, <1>6 DEF vars
<1>. QED
  BY <1>3, <1>4, <1>5, <1>6 DEF Next

\* For every tree: no leaf starts once a context around it has ended, that of the run, of an attempt,
\* of a branch or of an element (stepCanStart in runNode).
THEOREM NothingStartsLate == Spec => NothingStartsAfterEnd
<1>1. ASSUME StepTreeInv, [Next]_vars
      PROVE  [\A n \in Nodes : Kind(n) = "leaf" /\ pc[n] = "start" /\ pc'[n] = "run" =>
                ended = "no" /\ \A a \in Ancestors[n] : inner[a] = "no"]_vars
  <2>1. SUFFICES ASSUME NEW n \in Nodes, pc[n] = "start", pc'[n] = "run"
        PROVE  ended = "no" /\ \A a \in Ancestors[n] : inner[a] = "no"
    OBVIOUS
  <2>2. Begin(n)
    BY <1>1, <2>1, OnlyBegin DEF StepTreeInv
  <2>3. Ctx(n) = "no"
    BY <2>2 DEF Begin
  <2>. QED
    BY <1>1, <2>1, <2>3, AroundBegin
<1>. QED
  BY <1>1, StepTreeInvariant, PTL DEF Spec, NothingStartsAfterEnd
=============================================================================

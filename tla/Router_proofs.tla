---------------------------- MODULE Router_proofs ----------------------------
(***************************************************************************)
(* The router answers as the list of routes says, for any patterns, methods, *)
(* paths and number of routes: what add_route builds, and that the search    *)
(* with its backtracking misses nothing, in any tree add_route can build.    *)
(***************************************************************************)
EXTENDS Router, SequenceTheorems, FiniteSetTheorems, WellFoundedInduction, TLAPS

-----------------------------------------------------------------------------
(* Nodes, prefixes, and the least and the greatest of some numbers *)

Nodes == Seq(Levels)

\* A node is on the way to a pattern.
Below(n, p) == Len(n) <= Len(p) /\ \A k \in 1 .. Len(n) : n[k] = p[k]

LEMMA PatternType == ASSUME NEW p \in Patterns PROVE p \in Nodes
  BY RouterAssumption DEF Nodes

LEMMA NodeType ==
  ASSUME NEW n \in Nodes
  PROVE  /\ Len(n) \in Nat /\ DOMAIN n = 1 .. Len(n)
         /\ \A k \in 1 .. Len(n) : n[k] \in Levels
         /\ Len(n) = 0 <=> n = Root
<1>1. Len(n) \in Nat /\ DOMAIN n = 1 .. Len(n) /\ \A k \in 1 .. Len(n) : n[k] \in Levels
  BY LenProperties, ElementOfSeq DEF Nodes
<1>2. Len(n) = 0 <=> n = <<>>
  BY EmptySeq DEF Nodes
<1> QED
  BY <1>1, <1>2 DEF Root

LEMMA NodeEqual ==
  ASSUME NEW n \in Nodes, NEW q \in Nodes, Len(n) = Len(q), \A k \in 1 .. Len(n) : n[k] = q[k]
  PROVE  n = q
  BY SeqEqual DEF Nodes

LEMMA RootType == Root \in Nodes /\ Len(Root) = 0
  BY EmptySeq DEF Root, Nodes

\* The first k levels of a node.
LEMMA PrefixType ==
  ASSUME NEW p \in Nodes, NEW k \in 0 .. Len(p)
  PROVE  Prefix(p, k) \in Nodes /\ Len(Prefix(p, k)) = k /\ \A j \in 1 .. k : Prefix(p, k)[j] = p[j]
<1>1. Len(p) \in Nat /\ k \in Nat /\ \A i \in 1 .. k : p[i] \in Levels
  BY NodeType
<1> DEFINE s == SubSeq(p, 1, k)
<1>2. /\ s \in Seq(Levels) /\ Len(s) = IF 1 <= k THEN k - 1 + 1 ELSE 0
      /\ \A i \in 1 .. k - 1 + 1 : s[i] = p[1 + i - 1]
  BY <1>1, SubSeqProperties
<1> HIDE DEF s
<1>3. s \in Seq(Levels) /\ Len(s) = k /\ \A j \in 1 .. k : s[j] = p[j]
  BY <1>1, <1>2
<1> QED
  BY <1>3 DEF Prefix, Nodes, s

LEMMA PrefixFull == ASSUME NEW p \in Nodes PROVE Prefix(p, Len(p)) = p
<1>1. Len(p) \in 0 .. Len(p)
  BY NodeType
<1> QED
  BY <1>1, PrefixType, NodeEqual

\* A prefix is a node on the way.
LEMMA PrefixesAreBelow ==
  ASSUME NEW n \in Nodes, NEW p \in Nodes
  PROVE  /\ n \in PrefixesOf(p) <=> Below(n, p)
         /\ Below(n, p) => n = Prefix(p, Len(n))
<1>1. ASSUME Below(n, p) PROVE n = Prefix(p, Len(n)) /\ Len(n) \in 0 .. Len(p)
  <2>1. Len(n) \in 0 .. Len(p)
    BY <1>1, NodeType DEF Below
  <2>2. Prefix(p, Len(n)) \in Nodes /\ Len(Prefix(p, Len(n))) = Len(n)
        /\ \A j \in 1 .. Len(n) : Prefix(p, Len(n))[j] = p[j]
    BY <2>1, PrefixType
  <2> QED
    BY <1>1, <2>1, <2>2, NodeEqual DEF Below
<1>2. ASSUME n \in PrefixesOf(p) PROVE Below(n, p)
  <2>1. PICK k \in 0 .. Len(p) : n = Prefix(p, k)
    BY <1>2 DEF PrefixesOf
  <2> QED
    BY <2>1, PrefixType DEF Below
<1> QED
  BY <1>1, <1>2 DEF PrefixesOf

LEMMA PrefixesAreNodes ==
  ASSUME NEW p \in Nodes
  PROVE  PrefixesOf(p) \subseteq Nodes /\ Root \in PrefixesOf(p) /\ p \in PrefixesOf(p)
<1>1. PrefixesOf(p) \subseteq Nodes
  BY PrefixType DEF PrefixesOf
<1>2. Below(Root, p) /\ Below(p, p)
  BY RootType, NodeType DEF Below
<1> QED
  BY <1>1, <1>2, RootType, PrefixesAreBelow

LEMMA IsPrefixIsBelow ==
  ASSUME NEW n \in Nodes, NEW p \in Nodes
  PROVE  IsPrefix(n, p) <=> Below(n, p)
<1>1. n = Prefix(n, Len(n))
  BY PrefixFull
<1>2. IsPrefix(n, p) <=> Len(n) <= Len(p) /\ n = Prefix(p, Len(n))
  BY <1>1 DEF IsPrefix, Prefix
<1>3. ASSUME Len(n) <= Len(p), n = Prefix(p, Len(n)) PROVE Below(n, p)
  <2>1. Len(n) \in 0 .. Len(p)
    BY <1>3, NodeType
  <2> QED
    BY <1>3, <2>1, PrefixType DEF Below
<1> QED
  BY <1>2, <1>3, PrefixesAreBelow DEF Below

\* One level further.
LEMMA ChildType ==
  ASSUME NEW n \in Nodes, NEW l \in Levels
  PROVE  /\ Append(n, l) \in Nodes /\ Len(Append(n, l)) = Len(n) + 1
         /\ Append(n, l)[Len(n) + 1] = l /\ Last(Append(n, l)) = l
         /\ \A k \in 1 .. Len(n) : Append(n, l)[k] = n[k]
         /\ Append(n, l) # Root /\ Append(n, l) # n
<1>1. /\ Append(n, l) \in Nodes /\ Len(Append(n, l)) = Len(n) + 1
      /\ Append(n, l)[Len(n) + 1] = l
      /\ \A k \in 1 .. Len(n) : Append(n, l)[k] = n[k]
  BY AppendProperties DEF Nodes
<1> QED
  BY <1>1, NodeType, RootType DEF Last

LEMMA ChildBelow ==
  ASSUME NEW n \in Nodes, NEW l \in Levels, NEW p \in Nodes
  PROVE  /\ Below(Append(n, l), p) <=> Below(n, p) /\ Len(n) < Len(p) /\ p[Len(n) + 1] = l
         /\ Below(n, p) /\ Len(n) < Len(p) => Append(n, p[Len(n) + 1]) = Prefix(p, Len(n) + 1)
<1> DEFINE c == Append(n, l)
<1>1. /\ c \in Nodes /\ Len(c) = Len(n) + 1 /\ c[Len(n) + 1] = l
      /\ \A k \in 1 .. Len(n) : c[k] = n[k]
  BY ChildType
<1>2. Len(n) \in Nat /\ Len(p) \in Nat
  BY NodeType
<1> HIDE DEF c
<1>3. Below(c, p) <=> Below(n, p) /\ Len(n) < Len(p) /\ p[Len(n) + 1] = l
  <2>1. 1 .. Len(c) = 1 .. Len(n) \cup {Len(n) + 1}
    BY <1>1, <1>2
  <2>2. (\A k \in 1 .. Len(c) : c[k] = p[k])
          <=> (\A k \in 1 .. Len(n) : n[k] = p[k]) /\ p[Len(n) + 1] = l
    BY <1>1, <2>1
  <2> QED
    BY <1>1, <1>2, <2>2 DEF Below
<1>4. ASSUME Below(n, p), Len(n) < Len(p) PROVE Append(n, p[Len(n) + 1]) = Prefix(p, Len(n) + 1)
  <2> DEFINE d == Append(n, p[Len(n) + 1])
  <2>1. Len(n) + 1 \in 0 .. Len(p) /\ p[Len(n) + 1] \in Levels
    BY <1>2, <1>4, NodeType
  <2>2. /\ d \in Nodes /\ Len(d) = Len(n) + 1 /\ d[Len(n) + 1] = p[Len(n) + 1]
        /\ \A k \in 1 .. Len(n) : d[k] = n[k]
    BY <2>1, ChildType
  <2>3. /\ Prefix(p, Len(n) + 1) \in Nodes /\ Len(Prefix(p, Len(n) + 1)) = Len(n) + 1
        /\ \A k \in 1 .. Len(n) + 1 : Prefix(p, Len(n) + 1)[k] = p[k]
    BY <2>1, PrefixType
  <2> HIDE DEF d
  <2>4. ASSUME NEW k \in 1 .. Len(n) + 1 PROVE d[k] = Prefix(p, Len(n) + 1)[k]
    <3>1. CASE k \in 1 .. Len(n)
      BY <1>4, <2>2, <2>3, <3>1 DEF Below
    <3>2. CASE k = Len(n) + 1
      BY <2>2, <2>3, <3>2
    <3> QED
      BY <1>2, <3>1, <3>2
  <2>5. d = Prefix(p, Len(n) + 1)
    BY <2>2, <2>3, <2>4, NodeEqual
  <2> QED
    BY <2>5 DEF d
<1> QED
  BY <1>3, <1>4 DEF c

\* The node of the caller, and the level that was added to it.
LEMMA FrontType ==
  ASSUME NEW n \in Nodes, n # Root
  PROVE  /\ Front(n) \in Nodes /\ Last(n) \in Levels /\ Append(Front(n), Last(n)) = n
         /\ Len(Front(n)) = Len(n) - 1 /\ Front(n) = Prefix(n, Len(n) - 1)
         /\ Below(Front(n), n)
<1>1. Len(n) \in Nat /\ Len(n) # 0 /\ Last(n) \in Levels /\ Len(n) - 1 \in 0 .. Len(n)
  BY NodeType DEF Last
<1>2. Front(n) = Prefix(n, Len(n) - 1)
  BY DEF Front, Prefix
<1>3. /\ Front(n) \in Nodes /\ Len(Front(n)) = Len(n) - 1
      /\ \A j \in 1 .. Len(n) - 1 : Front(n)[j] = n[j]
  BY <1>1, <1>2, PrefixType
<1>4. Below(Front(n), n)
  BY <1>1, <1>3 DEF Below
<1>5. Append(Front(n), n[Len(Front(n)) + 1]) = Prefix(n, Len(Front(n)) + 1)
  <2>1. Len(Front(n)) < Len(n)
    BY <1>1, <1>3
  <2> QED
    BY <1>1, <1>3, <1>4, <2>1, ChildBelow
<1>6. Len(Front(n)) + 1 = Len(n)
  BY <1>1, <1>3
<1>7. Append(Front(n), Last(n)) = n
  BY <1>5, <1>6, PrefixFull DEF Last
<1> QED
  BY <1>1, <1>2, <1>3, <1>4, <1>7

LEMMA LeastOf ==
  ASSUME NEW N \in SUBSET Nat, N # {}
  PROVE  Min(N) \in N /\ \A j \in N : Min(N) <= j
<1> DEFINE Less == {ss \in Nat \X Nat : ss[1] < ss[2]}
<1>1. IsWellFoundedOn(Less, Nat)
  BY NatLessThanWellFounded DEF OpToRel
<1>2. PICK i \in N : \A j \in N : <<j, i>> \notin Less
  <2> HIDE DEF Less
  <2> QED
    BY <1>1, WFMin
<1>3. \A j \in N : ~(j < i)
  BY <1>2
<1>4. \A j \in N : i <= j
  BY <1>3
<1> QED
  BY <1>4 DEF Min

\* The greatest of some routes' numbers.
LEMMA GreatestOf ==
  ASSUME NEW k \in Nat, NEW N \in SUBSET (1 .. k), N # {}
  PROVE  Max(N) \in N /\ \A j \in N : Max(N) >= j
<1> DEFINE G == {k - j : j \in N}
<1>1. \A j \in N : j \in 1 .. k /\ k - j \in Nat
  OBVIOUS
<1>2. G \in SUBSET Nat /\ G # {}
  BY <1>1
<1>3. PICK g \in G : \A x \in G : g <= x
  BY <1>2, LeastOf
<1>4. PICK i \in N : g = k - i
  BY <1>3
<1>5. ASSUME NEW j \in N PROVE i >= j
  <2>1. g <= k - j /\ i \in Nat /\ j \in Nat
    BY <1>3
  <2> QED
    BY <1>4, <2>1
<1> QED
  BY <1>5 DEF Max

-----------------------------------------------------------------------------
(* The tree that a list of routes makes: a node for every prefix of a pattern, *)
(* its children in the order in which their first routes came, and at the end  *)
(* of a pattern the handler of the route that was registered last.             *)

Route == [method : Methods, pattern : Patterns]
Entry == [terminal : BOOLEAN, methods : SUBSET Methods, index : [Methods -> Nat], kids : Nodes]

\* The routes through a node, those that end in it, and the first of a node.
Passing(n, r) == {i \in DOMAIN r : Below(n, r[i].pattern)}
Own(m, n, r) == {i \in DOMAIN r : r[i] = [method |-> m, pattern |-> n]}
BirthIn(n, r) == Min({i \in DOMAIN r : IsPrefix(n, r[i].pattern)})

Grown(t, r) ==
  /\ DOMAIN t \subseteq Nodes
  /\ \A n \in DOMAIN t : t[n] \in Entry
  /\ \A n \in Nodes : n \in DOMAIN t <=> n = Root \/ Passing(n, r) # {}

Listed(l, kids) == \E i \in 1 .. Len(kids) : kids[i] = l
Children(n, t, kids) == \A l \in Levels : Append(n, l) \in DOMAIN t <=> Listed(l, kids)
InOrder(n, kids, r) ==
  \A i, j \in 1 .. Len(kids) :
    i < j => BirthIn(Append(n, kids[i]), r) < BirthIn(Append(n, kids[j]), r)
KidsOK(n, t, r) == Children(n, t, t[n].kids) /\ InOrder(n, t[n].kids, r)

\* What an entry says of the routes that end in its node and pass through it.
Ended(e, n, r) ==
  /\ e.terminal = (\E i \in DOMAIN r : r[i].pattern = n)
  /\ \A i \in Passing(n, r) : r[i].method \in e.methods
  /\ \A m \in Methods : e.index[m] = IF Own(m, n, r) = {} THEN Unset ELSE Max(Own(m, n, r))

TreeOK(t, r) ==
  /\ r \in Seq(Route) /\ Grown(t, r)
  /\ \A n \in DOMAIN t : KidsOK(n, t, r) /\ Ended(t[n], n, r)

LEMMA RoutesType ==
  ASSUME NEW r \in Seq(Route)
  PROVE  /\ Len(r) \in Nat /\ DOMAIN r = 1 .. Len(r)
         /\ \A i \in 1 .. Len(r) : /\ r[i] \in Route /\ r[i].method \in Methods
                                   /\ r[i].pattern \in Patterns /\ r[i].pattern \in Nodes
         /\ \A n \in Nodes : Passing(n, r) \subseteq 1 .. Len(r)
<1>1. Len(r) \in Nat /\ DOMAIN r = 1 .. Len(r) /\ \A i \in 1 .. Len(r) : r[i] \in Route
  BY LenProperties, ElementOfSeq
<1> QED
  BY <1>1, PatternType DEF Route, Passing

\* The first route of a node that has one.
LEMMA BirthType ==
  ASSUME NEW r \in Seq(Route), NEW n \in Nodes
  PROVE  /\ BirthIn(n, r) = Min(Passing(n, r))
         /\ Passing(n, r) # {} => /\ BirthIn(n, r) \in Passing(n, r)
                                  /\ \A i \in Passing(n, r) : BirthIn(n, r) <= i
<1>1. {i \in DOMAIN r : IsPrefix(n, r[i].pattern)} = Passing(n, r)
  BY RoutesType, IsPrefixIsBelow DEF Passing
<1>2. Passing(n, r) \in SUBSET Nat
  BY RoutesType
<1> QED
  BY <1>1, <1>2, LeastOf DEF BirthIn

\* A route more,
Registered(m, p, r, s) == s = Append(r, [method |-> m, pattern |-> p])

\* and what that makes of the list.
OneMore(m, p, r, s) ==
  /\ s \in Seq(Route) /\ Len(s) = Len(r) + 1
  /\ \A i : i \in DOMAIN s <=> i \in DOMAIN r \/ i = Len(r) + 1
  /\ s[Len(r) + 1] = [method |-> m, pattern |-> p]
  /\ \A i \in DOMAIN r : s[i] = r[i]
  /\ \A n, i : i \in Passing(n, s) <=> i \in Passing(n, r) \/ (Below(n, p) /\ i = Len(r) + 1)

LEMMA RouteAdded ==
  ASSUME NEW r \in Seq(Route), NEW m \in Methods, NEW p \in Patterns, NEW s,
         Registered(m, p, r, s)
  PROVE  OneMore(m, p, r, s)
<1> DEFINE e == [method |-> m, pattern |-> p]
<1>1. e \in Route /\ e.pattern = p
  BY DEF Route
<1> HIDE DEF e
<1>2. /\ s \in Seq(Route) /\ Len(s) = Len(r) + 1 /\ DOMAIN s = 1 .. Len(r) + 1
      /\ s[Len(r) + 1] = e /\ \A i \in 1 .. Len(r) : s[i] = r[i]
  <2>1. s = Append(r, e)
    BY DEF e, Registered
  <2> QED
    BY <1>1, <2>1, AppendProperties, RoutesType
<1>3. DOMAIN r = 1 .. Len(r) /\ Len(r) \in Nat
  BY RoutesType
<1>4. DOMAIN s = DOMAIN r \cup {Len(r) + 1} /\ Len(r) + 1 \notin DOMAIN r
  BY <1>2, <1>3
<1>5. \A i \in DOMAIN r : s[i].pattern = r[i].pattern
  BY <1>2, <1>3
<1>6. s[Len(r) + 1].pattern = p
  BY <1>1, <1>2
<1>7. (\A i : i \in DOMAIN s <=> i \in DOMAIN r \/ i = Len(r) + 1) /\ \A i \in DOMAIN r : s[i] = r[i]
  BY <1>2, <1>3, <1>4
<1>8. \A n, i : i \in Passing(n, s) <=> i \in Passing(n, r) \/ (Below(n, p) /\ i = Len(r) + 1)
  <2> SUFFICES ASSUME NEW n, NEW i
               PROVE  i \in Passing(n, s) <=> i \in Passing(n, r) \/ (Below(n, p) /\ i = Len(r) + 1)
    OBVIOUS
  <2>1. CASE i \in DOMAIN r
    BY <1>4, <1>5, <2>1, Zenon DEF Passing
  <2>2. CASE i = Len(r) + 1
    BY <1>4, <1>6, <2>2, Zenon DEF Passing
  <2>3. CASE i \notin DOMAIN s
    BY <1>4, <2>3, Zenon DEF Passing
  <2> QED
    BY <1>4, <2>1, <2>2, <2>3, Zenon
<1> QED
  BY <1>2, <1>8, <1>7 DEF e, OneMore

\* It is the first route of the nodes that it brings into the tree, and of no other.
LEMMA BirthKept ==
  ASSUME NEW r \in Seq(Route), NEW m \in Methods, NEW p \in Patterns, NEW s,
         Registered(m, p, r, s), NEW n \in Nodes
  PROVE  /\ Passing(n, r) # {} => BirthIn(n, s) = BirthIn(n, r) /\ BirthIn(n, r) \in 1 .. Len(r)
         /\ Passing(n, r) = {} /\ Below(n, p) => BirthIn(n, s) = Len(r) + 1
<1>1. Len(r) \in Nat /\ Passing(n, r) \subseteq 1 .. Len(r)
  BY RoutesType
<1>2. /\ s \in Seq(Route) /\ Len(r) \in Nat
      /\ \A i : i \in Passing(n, s) <=> i \in Passing(n, r) \/ (Below(n, p) /\ i = Len(r) + 1)
  <2>1. OneMore(m, p, r, s)
    BY RouteAdded
  <2> QED
    BY <1>1, <2>1, Zenon DEF OneMore
<1>3. ASSUME Passing(n, r) # {} PROVE BirthIn(n, s) = BirthIn(n, r) /\ BirthIn(n, r) \in 1 .. Len(r)
  <2>1. BirthIn(n, r) \in Passing(n, r) /\ \A i \in Passing(n, r) : BirthIn(n, r) <= i
    BY <1>3, BirthType
  <2>3. BirthIn(n, r) \in Passing(n, s)
    BY <1>2, <2>1, Zenon
  <2>2. BirthIn(n, s) \in Passing(n, s) /\ \A i \in Passing(n, s) : BirthIn(n, s) <= i
    BY <1>2, <2>3, BirthType
  <2>4. BirthIn(n, r) \in 1 .. Len(r)
        /\ (BirthIn(n, s) \in Passing(n, r) \/ BirthIn(n, s) = Len(r) + 1)
    <3>1. BirthIn(n, s) \in Passing(n, r) \/ BirthIn(n, s) = Len(r) + 1
      BY <1>2, <2>2, Zenon
    <3> QED
      BY <1>1, <2>1, <3>1
  <2>5. BirthIn(n, s) <= BirthIn(n, r)
    BY <2>1, <2>2, <2>3
  <2>6. BirthIn(n, s) \in Passing(n, r)
    BY <1>1, <2>4, <2>5
  <2>7. BirthIn(n, r) <= BirthIn(n, s) /\ BirthIn(n, s) \in Nat
    BY <1>1, <2>1, <2>6
  <2> QED
    BY <1>1, <2>4, <2>5, <2>7
<1>4. ASSUME Passing(n, r) = {}, Below(n, p) PROVE BirthIn(n, s) = Len(r) + 1
  <2>1. Passing(n, s) = {Len(r) + 1}
    BY <1>2, <1>4
  <2> QED
    BY <1>2, <2>1, BirthType
<1> QED
  BY <1>3, <1>4

-----------------------------------------------------------------------------
(* What insert_path makes of a tree *)

\* The entry of a node before insert_path goes through it, new nodes included,
Before(w, n, t) ==
  /\ w \in Entry
  /\ n \in DOMAIN t => w = t[n]
  /\ n \notin DOMAIN t => /\ w.terminal = FALSE /\ w.kids = <<>>
                          /\ \A m \in Methods : w.index[m] = Unset

\* and after it.
After(e, w, n, t, m, p, h) ==
  /\ e \in Entry
  /\ e.terminal = (w.terminal \/ n = p)
  /\ e.methods = w.methods \cup {m}
  /\ \A a \in Methods : e.index[a] = IF a = m /\ n = p THEN h ELSE w.index[a]
  /\ IF n = p \/ Prefix(p, Len(n) + 1) \in DOMAIN t THEN e.kids = w.kids
     ELSE e.kids = Append(w.kids, p[Len(n) + 1])

Planting(t, r, u, s, m, p) ==
  /\ Registered(m, p, r, s)
  /\ \A n : n \in DOMAIN u <=> n \in DOMAIN t \/ n \in PrefixesOf(p)
  /\ \A n \in DOMAIN t : n \notin PrefixesOf(p) => u[n] = t[n]
  /\ \A n \in PrefixesOf(p) : \E w : Before(w, n, t) /\ After(u[n], w, n, t, m, p, Len(r) + 1)

\* A node has a route through it, or it is the root.
LEMMA NodeHasRoute ==
  ASSUME NEW t, NEW r, TreeOK(t, r), NEW n \in Nodes, NEW l \in Levels
  PROVE  /\ n \notin DOMAIN t => Passing(n, r) = {}
         /\ Append(n, l) \in DOMAIN t <=> Passing(Append(n, l), r) # {}
         /\ n \notin DOMAIN t => Append(n, l) \notin DOMAIN t
<1>1. Append(n, l) \in Nodes /\ Append(n, l) # Root
  BY ChildType
<1>2. Passing(Append(n, l), r) \subseteq Passing(n, r)
  <2>1. r \in Seq(Route)
    BY DEF TreeOK
  <2>2. \A i \in DOMAIN r : Below(Append(n, l), r[i].pattern) => Below(n, r[i].pattern)
    BY <2>1, RoutesType, ChildBelow
  <2> QED
    BY <2>2, Zenon DEF Passing
<1> QED
  BY <1>1, <1>2 DEF TreeOK, Grown

LEMMA PlantingGrows ==
  ASSUME NEW t, NEW r, NEW u, NEW s, NEW m \in Methods, NEW p \in Patterns,
         TreeOK(t, r), Planting(t, r, u, s, m, p)
  PROVE  s \in Seq(Route) /\ Grown(u, s)
<1>1. r \in Seq(Route) /\ Grown(t, r) /\ Registered(m, p, r, s)
  BY DEF TreeOK, Planting
<1>2. /\ s \in Seq(Route)
      /\ \A n, i : i \in Passing(n, s) <=> i \in Passing(n, r) \/ (Below(n, p) /\ i = Len(r) + 1)
  <2>1. OneMore(m, p, r, s)
    BY <1>1, RouteAdded
  <2> QED
    BY <2>1, Zenon DEF OneMore
<1>3. p \in Nodes /\ PrefixesOf(p) \subseteq Nodes /\ Root \in PrefixesOf(p)
  BY PatternType, PrefixesAreNodes
<1>4. DOMAIN u \subseteq Nodes
  BY <1>1, <1>3 DEF Planting, Grown
<1>5. ASSUME NEW n \in DOMAIN u PROVE u[n] \in Entry
  <2>1. CASE n \in PrefixesOf(p)
    BY <2>1 DEF Planting, After
  <2>2. CASE n \notin PrefixesOf(p)
    BY <1>1, <2>2 DEF Planting, Grown
  <2> QED
    BY <2>1, <2>2
<1>6. ASSUME NEW n \in Nodes PROVE n \in DOMAIN u <=> n = Root \/ Passing(n, s) # {}
  <2>1. n \in DOMAIN t <=> n = Root \/ Passing(n, r) # {}
    BY <1>1 DEF Grown
  <2>2. n \in PrefixesOf(p) <=> Below(n, p)
    BY <1>3, PrefixesAreBelow
  <2>3. n \in DOMAIN u <=> n \in DOMAIN t \/ n \in PrefixesOf(p)
    BY DEF Planting
  <2>4. Passing(n, s) # {} <=> Passing(n, r) # {} \/ Below(n, p)
    BY <1>2
  <2> QED
    BY <1>3, <2>1, <2>2, <2>3, <2>4
<1> QED
  BY <1>2, <1>4, <1>5, <1>6 DEF Grown

\* A new node says what there is to say of a node without routes.
LEMMA BeforeIsRight ==
  ASSUME NEW t, NEW r, TreeOK(t, r), NEW n \in Nodes, NEW w, Before(w, n, t)
  PROVE  Ended(w, n, r) /\ Children(n, t, w.kids) /\ InOrder(n, w.kids, r)
<1>1. CASE n \in DOMAIN t
  BY <1>1 DEF Before, TreeOK, KidsOK
<1>2. CASE n \notin DOMAIN t
  <2>1. /\ w.terminal = FALSE /\ w.kids = <<>> /\ \A m \in Methods : w.index[m] = Unset
    BY <1>2 DEF Before
  <2>2. Passing(n, r) = {}
    BY <1>2 DEF TreeOK, Grown
  <2>3. \A i \in DOMAIN r : r[i].pattern # n
    <3>1. Below(n, n)
      BY NodeType DEF Below
    <3> QED
      BY <2>2, <3>1 DEF Passing
  <2>4. \A m : Own(m, n, r) = {}
    BY <2>3 DEF Own
  <2>5. Ended(w, n, r)
    BY <2>1, <2>2, <2>3, <2>4 DEF Ended
  <2>6. Len(w.kids) = 0
    BY <2>1
  <2>7. Children(n, t, w.kids)
    BY <1>2, <2>6, NodeHasRoute DEF Children, Listed
  <2>8. InOrder(n, w.kids, r)
    BY <2>6 DEF InOrder
  <2> QED
    BY <2>5, <2>7, <2>8
<1> QED
  BY <1>1, <1>2

\* The routes that end in a node, after one more.
LEMMA OwnAdded ==
  ASSUME NEW r \in Seq(Route), NEW m \in Methods, NEW p \in Patterns, NEW s, Registered(m, p, r, s),
         NEW a \in Methods, NEW n \in Nodes
  PROVE  /\ ~(a = m /\ n = p) => Own(a, n, s) = Own(a, n, r)
         /\ a = m /\ n = p => Own(a, n, s) # {} /\ Max(Own(a, n, s)) = Len(r) + 1
         /\ (\E i \in DOMAIN s : s[i].pattern = n) <=> n = p \/ (\E i \in DOMAIN r : r[i].pattern = n)
<1> DEFINE e == [method |-> m, pattern |-> p]
<1>1. e.pattern = p /\ (e = [method |-> a, pattern |-> n] <=> a = m /\ n = p)
  OBVIOUS
<1>2. Len(r) \in Nat /\ DOMAIN r = 1 .. Len(r)
  BY RoutesType
<1>3. OneMore(m, p, r, s)
  BY RouteAdded
<1>4. /\ \A i : i \in DOMAIN s <=> i \in DOMAIN r \/ i = Len(r) + 1
      /\ \A i \in DOMAIN r : s[i] = r[i]
  BY <1>3, Zenon DEF OneMore
<1>5. s[Len(r) + 1] = e
  BY <1>3 DEF OneMore
<1> HIDE DEF e
<1>6. ASSUME ~(a = m /\ n = p) PROVE Own(a, n, s) = Own(a, n, r)
  BY <1>1, <1>4, <1>5, <1>6, Zenon DEF Own
<1>7. ASSUME a = m, n = p PROVE Own(a, n, s) # {} /\ Max(Own(a, n, s)) = Len(r) + 1
  <2>1. Len(r) + 1 \in Own(a, n, s)
    BY <1>1, <1>4, <1>5, <1>7, Zenon DEF Own
  <2>2. Own(a, n, s) \in SUBSET (1 .. Len(r) + 1) /\ Own(a, n, s) # {} /\ Len(r) + 1 \in Nat
    BY <1>2, <1>4, <2>1 DEF Own
  <2>3. Max(Own(a, n, s)) \in Own(a, n, s) /\ \A j \in Own(a, n, s) : Max(Own(a, n, s)) >= j
    BY <2>2, GreatestOf
  <2>4. Max(Own(a, n, s)) \in 1 .. Len(r) + 1 /\ Max(Own(a, n, s)) >= Len(r) + 1
    BY <2>1, <2>2, <2>3
  <2> QED
    BY <1>2, <2>1, <2>4
<1>8. (\E i \in DOMAIN s : s[i].pattern = n) <=> n = p \/ (\E i \in DOMAIN r : r[i].pattern = n)
  BY <1>1, <1>4, <1>5, Zenon
<1> QED
  BY <1>6, <1>7, <1>8

LEMMA PlantingEnds ==
  ASSUME NEW t, NEW r, NEW u, NEW s, NEW m \in Methods, NEW p \in Patterns,
         TreeOK(t, r), Planting(t, r, u, s, m, p), NEW n \in DOMAIN u
  PROVE  Ended(u[n], n, s)
<1>1. r \in Seq(Route) /\ Registered(m, p, r, s) /\ n \in Nodes /\ p \in Nodes /\ s \in Seq(Route)
  <2>1. s \in Seq(Route) /\ Grown(u, s)
    BY PlantingGrows
  <2> QED
    BY <2>1, PatternType DEF TreeOK, Planting, Grown
<1>2. /\ \A i : i \in Passing(n, s) <=> i \in Passing(n, r) \/ (Below(n, p) /\ i = Len(r) + 1)
      /\ \A i \in DOMAIN r : s[i] = r[i]
      /\ s[Len(r) + 1] = [method |-> m, pattern |-> p] /\ Passing(n, r) \subseteq DOMAIN r
  <2>1. OneMore(m, p, r, s)
    BY <1>1, RouteAdded
  <2> QED
    BY <2>1, Zenon DEF OneMore, Passing
<1>3. (\E i \in DOMAIN s : s[i].pattern = n) <=> n = p \/ (\E i \in DOMAIN r : r[i].pattern = n)
  BY <1>1, OwnAdded
<1>4. \A a \in Methods : /\ ~(a = m /\ n = p) => Own(a, n, s) = Own(a, n, r)
                         /\ a = m /\ n = p => Own(a, n, s) # {} /\ Max(Own(a, n, s)) = Len(r) + 1
  BY <1>1, OwnAdded
<1>5. n \in PrefixesOf(p) <=> Below(n, p)
  BY <1>1, PrefixesAreBelow
<1>6. p \in PrefixesOf(p)
  BY <1>1, PrefixesAreNodes
<1>7. CASE n \notin PrefixesOf(p)
  <2>1. n \in DOMAIN t /\ u[n] = t[n] /\ n # p
    BY <1>6, <1>7 DEF Planting
  <2>2. Ended(t[n], n, r)
    BY <2>1 DEF TreeOK
  <2>3. \A i \in Passing(n, s) : i \in Passing(n, r) /\ s[i] = r[i]
    BY <1>2, <1>5, <1>7
  <2>4. \A a \in Methods : Own(a, n, s) = Own(a, n, r)
    BY <1>4, <2>1
  <2>5. (\E i \in DOMAIN s : s[i].pattern = n) = (\E i \in DOMAIN r : r[i].pattern = n)
    BY <1>3, <2>1
  <2> QED
    BY <2>1, <2>2, <2>3, <2>4, <2>5, Zenon DEF Ended
<1>8. CASE n \in PrefixesOf(p)
  <2>1. PICK w : Before(w, n, t) /\ After(u[n], w, n, t, m, p, Len(r) + 1)
    BY <1>8 DEF Planting
  <2> DEFINE e == u[n]
  <2>2. Ended(w, n, r)
    BY <1>1, <2>1, BeforeIsRight
  <2>3. /\ e.terminal = (w.terminal \/ n = p) /\ e.methods = w.methods \cup {m}
        /\ \A a \in Methods : e.index[a] = IF a = m /\ n = p THEN Len(r) + 1 ELSE w.index[a]
    BY <2>1 DEF After
  <2> HIDE DEF e
  <2>4. e.terminal = (\E i \in DOMAIN s : s[i].pattern = n)
    BY <1>3, <2>2, <2>3, Zenon DEF Ended
  <2>5. ASSUME NEW i \in Passing(n, s) PROVE s[i].method \in e.methods
    <3>1. CASE i \in Passing(n, r)
      BY <1>2, <2>2, <2>3, <3>1 DEF Ended
    <3>2. CASE i = Len(r) + 1
      BY <1>2, <2>3, <3>2
    <3> QED
      BY <1>2, <3>1, <3>2
  <2>6. ASSUME NEW a \in Methods
        PROVE  e.index[a] = IF Own(a, n, s) = {} THEN Unset ELSE Max(Own(a, n, s))
    BY <1>4, <2>2, <2>3, Zenon DEF Ended
  <2> QED
    BY <2>4, <2>5, <2>6, Zenon DEF Ended, e
<1> QED
  BY <1>7, <1>8

\* The children that were in the tree stay in their order.
LEMMA OrderKept ==
  ASSUME NEW t, NEW r, TreeOK(t, r), NEW m \in Methods, NEW p \in Patterns, NEW s,
         Registered(m, p, r, s), NEW n \in Nodes, NEW kids \in Seq(Levels),
         Children(n, t, kids), InOrder(n, kids, r)
  PROVE  /\ InOrder(n, kids, s)
         /\ \A i \in 1 .. Len(kids) : BirthIn(Append(n, kids[i]), s) \in 1 .. Len(r)
<1>1. r \in Seq(Route)
  BY DEF TreeOK
<1>2. ASSUME NEW i \in 1 .. Len(kids)
      PROVE  /\ BirthIn(Append(n, kids[i]), s) = BirthIn(Append(n, kids[i]), r)
             /\ BirthIn(Append(n, kids[i]), r) \in 1 .. Len(r)
  <2>1. kids[i] \in Levels
    BY ElementOfSeq
  <2>2. Append(n, kids[i]) \in DOMAIN t /\ Append(n, kids[i]) \in Nodes
    BY <2>1, ChildType DEF Children, Listed
  <2>3. Passing(Append(n, kids[i]), r) # {}
    BY <2>1, <2>2, NodeHasRoute
  <2> QED
    BY <1>1, <2>2, <2>3, BirthKept
<1> QED
  BY <1>2 DEF InOrder

LEMMA PlantingKids ==
  ASSUME NEW t, NEW r, NEW u, NEW s, NEW m \in Methods, NEW p \in Patterns,
         TreeOK(t, r), Planting(t, r, u, s, m, p), NEW n \in DOMAIN u
  PROVE  KidsOK(n, u, s)
<1>1. r \in Seq(Route) /\ Registered(m, p, r, s) /\ n \in Nodes /\ p \in Nodes /\ s \in Seq(Route)
  <2>1. s \in Seq(Route) /\ Grown(u, s)
    BY PlantingGrows
  <2> QED
    BY <2>1, PatternType DEF TreeOK, Planting, Grown
<1>2. n \in PrefixesOf(p) <=> Below(n, p)
  BY <1>1, PrefixesAreBelow
<1>3. ASSUME NEW l \in Levels
      PROVE  Append(n, l) \in DOMAIN u
               <=> Append(n, l) \in DOMAIN t \/ (Below(n, p) /\ Len(n) < Len(p) /\ p[Len(n) + 1] = l)
  <2>1. Append(n, l) \in Nodes
    BY <1>1, ChildType
  <2>2. Append(n, l) \in PrefixesOf(p) <=> Below(Append(n, l), p)
    BY <1>1, <2>1, PrefixesAreBelow
  <2>3. Below(Append(n, l), p) <=> Below(n, p) /\ Len(n) < Len(p) /\ p[Len(n) + 1] = l
    BY <1>1, ChildBelow
  <2> QED
    BY <2>2, <2>3, Zenon DEF Planting
<1>4. CASE n \notin PrefixesOf(p)
  <2>1. n \in DOMAIN t /\ u[n] = t[n]
    BY <1>4 DEF Planting
  <2>2. KidsOK(n, t, r) /\ t[n].kids \in Seq(Levels)
    BY <2>1 DEF TreeOK, Grown, Entry, Nodes
  <2>3. InOrder(n, t[n].kids, s)
    BY <1>1, <2>2, OrderKept DEF KidsOK
  <2>4. Children(n, u, t[n].kids)
    BY <1>2, <1>3, <1>4, <2>2 DEF KidsOK, Children
  <2> QED
    BY <2>1, <2>3, <2>4 DEF KidsOK
<1>5. CASE n \in PrefixesOf(p)
  <2>1. PICK w : Before(w, n, t) /\ After(u[n], w, n, t, m, p, Len(r) + 1)
    BY <1>5 DEF Planting
  <2>2. Children(n, t, w.kids) /\ InOrder(n, w.kids, r) /\ w.kids \in Seq(Levels)
    BY <1>1, <2>1, BeforeIsRight DEF Before, Entry, Nodes
  <2> DEFINE kids == w.kids
  <2> HIDE DEF kids
  <2>3. Children(n, t, kids) /\ InOrder(n, kids, r) /\ kids \in Seq(Levels)
    BY <2>2 DEF kids
  <2>4. /\ InOrder(n, kids, s)
        /\ \A i \in 1 .. Len(kids) : BirthIn(Append(n, kids[i]), s) \in 1 .. Len(r)
    BY <1>1, <2>3, OrderKept
  <2>5. Below(n, p) /\ Len(n) \in Nat /\ Len(p) \in Nat /\ Len(n) <= Len(p) /\ (Len(n) = Len(p) => n = p)
    BY <1>1, <1>2, <1>5, NodeType, NodeEqual DEF Below
  <2>6. CASE n = p \/ Prefix(p, Len(n) + 1) \in DOMAIN t
    <3>1. u[n].kids = kids
      BY <2>1, <2>6 DEF After, kids
    <3>2. ASSUME NEW l \in Levels, Below(n, p), Len(n) < Len(p), p[Len(n) + 1] = l
          PROVE  Append(n, l) \in DOMAIN t
      <4>1. n # p
        BY <1>1, <3>2, NodeType
      <4>2. Append(n, l) = Prefix(p, Len(n) + 1)
        BY <1>1, <3>2, ChildBelow
      <4> QED
        BY <2>6, <4>1, <4>2
    <3>3. Children(n, u, kids)
      BY <1>3, <2>3, <3>2, Zenon DEF Children
    <3> QED
      BY <2>4, <3>1, <3>3 DEF KidsOK
  <2>7. CASE ~(n = p \/ Prefix(p, Len(n) + 1) \in DOMAIN t)
    <3> DEFINE x == p[Len(n) + 1]
               more == Append(kids, x)
    <3>1. u[n].kids = more
      BY <2>1, <2>7 DEF After, kids
    <3>2. Len(n) < Len(p) /\ x \in Levels
      <4>1. Len(n) < Len(p) /\ Len(n) + 1 \in 1 .. Len(p)
        BY <2>5, <2>7
      <4> QED
        BY <1>1, <4>1, NodeType
    <3> HIDE DEF x
    <3>3. /\ more \in Seq(Levels) /\ Len(more) = Len(kids) + 1 /\ Len(kids) \in Nat
          /\ more[Len(kids) + 1] = x /\ \A i \in 1 .. Len(kids) : more[i] = kids[i]
      BY <2>3, <3>2, AppendProperties, LenProperties
    <3> HIDE DEF more
    <3>4. ASSUME NEW l \in Levels PROVE Listed(l, more) <=> Listed(l, kids) \/ l = x
      <4>1. 1 .. Len(more) = 1 .. Len(kids) \cup {Len(kids) + 1}
        BY <3>3
      <4> QED
        BY <3>3, <4>1, Zenon DEF Listed
    <3>5. Children(n, u, more)
      <4>1. \A l \in Levels : Append(n, l) \in DOMAIN u <=> Append(n, l) \in DOMAIN t \/ l = x
        BY <1>3, <2>5, <3>2 DEF x
      <4> QED
        BY <2>3, <3>4, <4>1, Zenon DEF Children
    <3>6. Append(n, x) = Prefix(p, Len(n) + 1) /\ Append(n, x) \in Nodes
      <4>1. Below(n, p) /\ Len(n) < Len(p)
        BY <2>5, <3>2
      <4> QED
        BY <1>1, <3>2, <4>1, ChildBelow, ChildType DEF x
    <3>7. BirthIn(Append(n, x), s) = Len(r) + 1
      <4>1. Passing(Append(n, x), r) = {}
        BY <1>1, <2>7, <3>2, <3>6, NodeHasRoute
      <4>2. Below(Append(n, x), p)
        BY <1>1, <2>5, <3>2, ChildBelow DEF x
      <4> QED
        BY <1>1, <3>6, <4>1, <4>2, BirthKept
    <3>8. InOrder(n, more, s)
      <4> SUFFICES ASSUME NEW i \in 1 .. Len(more), NEW j \in 1 .. Len(more), i < j
                   PROVE  BirthIn(Append(n, more[i]), s) < BirthIn(Append(n, more[j]), s)
        BY DEF InOrder
      <4>1. i \in 1 .. Len(kids) /\ more[i] = kids[i] /\ Len(r) \in Nat
            /\ BirthIn(Append(n, more[i]), s) \in 1 .. Len(r)
        BY <1>1, <2>4, <3>3, RoutesType
      <4>2. CASE j \in 1 .. Len(kids)
        BY <2>4, <3>3, <4>1, <4>2 DEF InOrder
      <4>3. CASE j = Len(kids) + 1
        BY <3>3, <3>7, <4>1, <4>3
      <4> QED
        BY <3>3, <4>2, <4>3
    <3> QED
      BY <3>1, <3>5, <3>8 DEF KidsOK
  <2> QED
    BY <2>6, <2>7
<1> QED
  BY <1>4, <1>5

LEMMA PlantingIsRight ==
  ASSUME NEW t, NEW r, NEW u, NEW s, NEW m \in Methods, NEW p \in Patterns,
         TreeOK(t, r), Planting(t, r, u, s, m, p)
  PROVE  TreeOK(u, s)
  BY PlantingGrows, PlantingEnds, PlantingKids DEF TreeOK

\* add_route is such a step,
LEMMA AddRoutePlants ==
  ASSUME TreeOK(tree, routes), NEW m \in Methods, NEW p \in Patterns, add_route(m, p)
  PROVE  Planting(tree, routes, tree', routes', m, p)
<1>1. Registered(m, p, routes, routes')
  BY DEF add_route, Registered
<1>2. p \in Nodes /\ Grown(tree, routes) /\ Len(routes) + 1 \in Nat /\ p \in PrefixesOf(p)
  BY PatternType, PrefixesAreNodes, RoutesType DEF TreeOK
<1>3. PICK garbage \in [PrefixesOf(p) \ (DOMAIN tree \cup {p}) -> SUBSET Methods] :
        tree' = [n \in DOMAIN tree \cup PrefixesOf(p) |->
                   IF n \in PrefixesOf(p) THEN Through(n, m, p, Len(routes) + 1, garbage)
                   ELSE tree[n]]
  BY DEF add_route, insert_path
<1>4. /\ \A n : n \in DOMAIN tree' <=> n \in DOMAIN tree \/ n \in PrefixesOf(p)
      /\ \A n \in DOMAIN tree : n \notin PrefixesOf(p) => tree'[n] = tree[n]
      /\ \A n \in PrefixesOf(p) : tree'[n] = Through(n, m, p, Len(routes) + 1, garbage)
  BY <1>3
<1>5. ASSUME NEW n \in PrefixesOf(p)
      PROVE  \E w : Before(w, n, tree) /\ After(tree'[n], w, n, tree, m, p, Len(routes) + 1)
  <2> DEFINE w == Was(n, p, garbage)
             next == Prefix(p, Len(n) + 1)
             e == tree'[n]
  <2>1. Before(w, n, tree)
    <3>1. NewNode \in Entry /\ NewNode.terminal = FALSE /\ NewNode.kids = <<>>
          /\ \A a \in Methods : NewNode.index[a] = Unset
      BY RootType DEF NewNode, Entry, Unset, Root
    <3>2. CASE n \in DOMAIN tree
      BY <1>2, <3>2 DEF Before, Was, Grown
    <3>3. CASE n \notin DOMAIN tree /\ n = p
      BY <3>1, <3>3 DEF Before, Was
    <3>4. CASE n \notin DOMAIN tree /\ n # p
      <4>1. garbage[n] \in SUBSET Methods
        BY <1>3, <3>4
      <4>2. w = [NewNode EXCEPT !.methods = garbage[n]]
        BY <3>4 DEF Was
      <4> HIDE DEF w
      <4> QED
        BY <3>1, <3>4, <4>1, <4>2 DEF Before, Entry
    <3> QED
      BY <3>2, <3>3, <3>4
  <2>2. n \in Nodes /\ Len(n) \in Nat /\ (n # p => Len(n) < Len(p)) /\ Len(p) \in Nat
    <3>1. n \in Nodes /\ Below(n, p) /\ Below(p, p)
      BY <1>2, PrefixesAreNodes, PrefixesAreBelow
    <3> QED
      BY <1>2, <3>1, NodeType, NodeEqual DEF Below
  <2>3. n # p => Last(next) = p[Len(n) + 1] /\ Last(next) \in Levels
    <3>1. n # p => Len(n) + 1 \in 0 .. Len(p)
      BY <2>2
    <3>2. n # p => /\ next \in Nodes /\ Len(next) = Len(n) + 1
                   /\ \A j \in 1 .. Len(n) + 1 : next[j] = p[j]
      BY <1>2, <3>1, PrefixType
    <3> HIDE DEF next
    <3> QED
      BY <1>2, <2>2, <3>2, NodeType DEF Last
  <2>4. e = [terminal |-> w.terminal \/ n = p,
             methods |-> w.methods \cup {m},
             index |-> IF n = p THEN [w.index EXCEPT ![m] = Len(routes) + 1] ELSE w.index,
             kids |-> IF n = p \/ next \in DOMAIN tree THEN w.kids
                      ELSE Append(w.kids, Last(next))]
    BY <1>4 DEF Through
  <2>5. w \in Entry
    BY <2>1 DEF Before
  <2> HIDE DEF w, e
  <2>6. /\ w.terminal \in BOOLEAN /\ w.methods \in SUBSET Methods
        /\ w.index \in [Methods -> Nat] /\ w.kids \in Nodes
    BY <2>5 DEF Entry
  <2>7. /\ e.terminal = (w.terminal \/ n = p) /\ e.methods = w.methods \cup {m}
        /\ e.index = IF n = p THEN [w.index EXCEPT ![m] = Len(routes) + 1] ELSE w.index
        /\ e.kids = IF n = p \/ next \in DOMAIN tree THEN w.kids ELSE Append(w.kids, Last(next))
    BY <2>4, Zenon
  <2>8. e.index \in [Methods -> Nat]
        /\ \A a \in Methods : e.index[a] = IF a = m /\ n = p THEN Len(routes) + 1 ELSE w.index[a]
    BY <1>2, <2>6, <2>7
  <2>9. e.kids \in Nodes
    BY <2>3, <2>6, <2>7, AppendProperties DEF Nodes
  <2>10. e \in Entry
    <3>1. e.terminal \in BOOLEAN /\ e.methods \in SUBSET Methods
      BY <2>6, <2>7
    <3> QED
      BY <2>4, <2>7, <2>8, <2>9, <3>1 DEF Entry
  <2>11. After(e, w, n, tree, m, p, Len(routes) + 1)
    BY <2>3, <2>7, <2>8, <2>10, Zenon DEF After
  <2> QED
    BY <2>1, <2>11 DEF e, w
<1> QED
  BY <1>1, <1>4, <1>5 DEF Planting

\* and the tree starts without a route.
LEMMA TreeInit == ASSUME Init PROVE TreeOK(tree, routes)
<1>1. PICK garbage \in SUBSET Methods : tree = [n \in {Root} |-> [NewNode EXCEPT !.methods = garbage]]
  BY DEF Init
<1>2. routes = <<>> /\ routes \in Seq(Route) /\ DOMAIN routes = {}
  BY EmptySeq DEF Init
<1>3. DOMAIN tree = {Root} /\ tree[Root] \in Entry /\ tree[Root].terminal = FALSE
      /\ tree[Root].kids = <<>> /\ \A m \in Methods : tree[Root].index[m] = Unset
  BY <1>1, RootType DEF NewNode, Entry, Unset, Root
<1>4. \A n : Passing(n, routes) = {}
  BY <1>2 DEF Passing
<1>5. \A m, n : Own(m, n, routes) = {}
  BY <1>2 DEF Own
<1>6. Grown(tree, routes)
  BY <1>3, <1>4, RootType DEF Grown
<1>7. Ended(tree[Root], Root, routes)
  BY <1>2, <1>3, <1>4, <1>5 DEF Ended
<1>8. KidsOK(Root, tree, routes)
  <2>1. Len(tree[Root].kids) = 0
    BY <1>3
  <2>2. \A l \in Levels : Append(Root, l) # Root
    BY RootType, ChildType
  <2> QED
    BY <1>3, <2>1, <2>2 DEF KidsOK, Children, Listed, InOrder
<1> QED
  BY <1>2, <1>3, <1>6, <1>7, <1>8 DEF TreeOK

-----------------------------------------------------------------------------
(* Which routes the search can still come to *)

\* A route that ends in the innermost node or above it is not decided yet; one under
\* it is if its branch comes with the next child or later; any other is if it parts
\* from the way to the node for a younger branch.
Under(p, n, k, t) ==
  /\ Below(n, p) /\ Len(n) < Len(p)
  /\ \E i \in 1 .. Len(t[n].kids) : i >= k /\ t[n].kids[i] = p[Len(n) + 1]

Parts(p, n, k) == k <= Len(p) /\ (\A j \in 1 .. k - 1 : p[j] = n[j]) /\ p[k] # n[k]
Younger(p, n, k, r) == BirthIn(Prefix(n, k), r) < BirthIn(Prefix(p, k), r)
Elsewhere(p, n, r) == \E k \in 1 .. Len(n) : Parts(p, n, k) /\ Younger(p, n, k, r)

ToCome(p, n, k, t, r) == Below(p, n) \/ Under(p, n, k, t) \/ Elsewhere(p, n, r)

\* A pattern's next level is one of the children of a node on the way to it.
LEMMA NextLevel ==
  ASSUME NEW t, NEW r, TreeOK(t, r), NEW i \in DOMAIN r, NEW n \in Nodes, Below(n, r[i].pattern)
  PROVE  /\ n \in DOMAIN t
         /\ Len(n) < Len(r[i].pattern) => Listed(r[i].pattern[Len(n) + 1], t[n].kids)
<1> DEFINE p == r[i].pattern
           l == p[Len(n) + 1]
<1>1. r \in Seq(Route) /\ p \in Nodes
  BY RoutesType DEF TreeOK
<1>2. i \in Passing(n, r)
  BY DEF Passing
<1>3. n \in DOMAIN t
  BY <1>2 DEF TreeOK, Grown
<1>4. ASSUME Len(n) < Len(p) PROVE Listed(l, t[n].kids)
  <2>1. l \in Levels
    BY <1>1, <1>4, NodeType
  <2> HIDE DEF l
  <2>2. Below(Append(n, l), p)
    BY <1>1, <1>4, <2>1, ChildBelow DEF l
  <2>3. i \in Passing(Append(n, l), r)
    BY <2>2 DEF Passing
  <2>4. Append(n, l) \in DOMAIN t
    BY <2>1, <2>3, NodeHasRoute
  <2> QED
    BY <1>3, <2>1, <2>4 DEF TreeOK, KidsOK, Children
<1> QED
  BY <1>3, <1>4

\* The two nodes that a place among the children gives.
LEMMA KidType ==
  ASSUME NEW t, NEW r, TreeOK(t, r), NEW n \in DOMAIN t
  PROVE  /\ n \in Nodes /\ t[n].kids \in Seq(Levels) /\ Len(t[n].kids) \in Nat
         /\ \A i \in 1 .. Len(t[n].kids) :
              /\ t[n].kids[i] \in Levels
              /\ Append(n, t[n].kids[i]) \in DOMAIN t /\ Append(n, t[n].kids[i]) \in Nodes
         /\ InOrder(n, t[n].kids, r)
<1>1. n \in Nodes /\ t[n].kids \in Seq(Levels)
  BY DEF TreeOK, Grown, Entry, Nodes
<1>2. Len(t[n].kids) \in Nat /\ \A i \in 1 .. Len(t[n].kids) : t[n].kids[i] \in Levels
  BY <1>1, LenProperties, ElementOfSeq
<1>3. Children(n, t, t[n].kids) /\ InOrder(n, t[n].kids, r)
  BY DEF TreeOK, KidsOK
<1> QED
  BY <1>1, <1>2, <1>3, ChildType DEF Children, Listed

\* The search starts with every route before it,
LEMMA StartsWithAll ==
  ASSUME NEW t, NEW r, TreeOK(t, r), NEW i \in DOMAIN r
  PROVE  ToCome(r[i].pattern, Root, 1, t, r)
<1> DEFINE p == r[i].pattern
<1>1. p \in Nodes
  BY RoutesType DEF TreeOK
<1>2. Root \in Nodes /\ Len(Root) = 0 /\ Below(Root, p)
  BY <1>1, RootType, NodeType DEF Below
<1>3. CASE Len(p) = 0
  BY <1>3 DEF Below, ToCome
<1>4. CASE Len(p) # 0
  <2>1. Len(Root) < Len(p)
    BY <1>1, <1>2, <1>4, NodeType
  <2>2. Listed(p[Len(Root) + 1], t[Root].kids)
    BY <1>2, <2>1, NextLevel
  <2>3. Under(p, Root, 1, t)
    BY <1>2, <2>1, <2>2 DEF Under, Listed
  <2> QED
    BY <2>3 DEF ToCome
<1> QED
  BY <1>3, <1>4

\* loses none when it goes down to a child,
LEMMA DescentKeeps ==
  ASSUME NEW t, NEW r, TreeOK(t, r), NEW i \in DOMAIN r, NEW n \in DOMAIN t,
         NEW k \in 1 .. Len(t[n].kids), ToCome(r[i].pattern, n, k, t, r)
  PROVE  ToCome(r[i].pattern, Append(n, t[n].kids[k]), 1, t, r)
<1> DEFINE p == r[i].pattern
           kids == t[n].kids
           c == Append(n, kids[k])
<1>1. p \in Nodes /\ Len(p) \in Nat
  BY RoutesType, NodeType DEF TreeOK
<1>2. /\ n \in Nodes /\ Len(n) \in Nat /\ kids[k] \in Levels /\ Len(kids) \in Nat
      /\ InOrder(n, kids, r)
  BY KidType, NodeType
<1>3. /\ c \in Nodes /\ Len(c) = Len(n) + 1 /\ c[Len(n) + 1] = kids[k]
      /\ \A j \in 1 .. Len(n) : c[j] = n[j]
  BY <1>2, ChildType
<1>4. CASE Below(p, n)
  <2>1. Below(p, c)
    BY <1>1, <1>2, <1>3, <1>4 DEF Below
  <2> QED
    BY <2>1 DEF ToCome
<1>5. CASE Elsewhere(p, n, r)
  <2>1. PICK j \in 1 .. Len(n) : Parts(p, n, j) /\ Younger(p, n, j, r)
    BY <1>5 DEF Elsewhere
  <2>2. Parts(p, c, j)
    BY <1>2, <1>3, <2>1 DEF Parts
  <2>3. Prefix(c, j) = Prefix(n, j)
    <3>1. j \in 0 .. Len(n) /\ j \in 0 .. Len(c)
      BY <1>2, <1>3
    <3> HIDE DEF c
    <3>2. /\ Prefix(c, j) \in Nodes /\ Len(Prefix(c, j)) = j /\ \A x \in 1 .. j : Prefix(c, j)[x] = c[x]
          /\ Prefix(n, j) \in Nodes /\ Len(Prefix(n, j)) = j /\ \A x \in 1 .. j : Prefix(n, j)[x] = n[x]
      BY <1>2, <1>3, <3>1, PrefixType
    <3>3. \A x \in 1 .. j : Prefix(c, j)[x] = Prefix(n, j)[x]
      BY <1>2, <1>3, <3>1, <3>2
    <3> QED
      BY <3>2, <3>3, NodeEqual
  <2>4. Younger(p, c, j, r)
    BY <2>1, <2>3 DEF Younger
  <2>5. j \in 1 .. Len(c)
    BY <1>2, <1>3
  <2>6. Elsewhere(p, c, r)
    BY <2>2, <2>4, <2>5 DEF Elsewhere
  <2> QED
    BY <2>6 DEF ToCome
<1>6. CASE Under(p, n, k, t)
  <2>1. PICK j \in 1 .. Len(kids) : j >= k /\ kids[j] = p[Len(n) + 1]
    BY <1>6 DEF Under
  <2>2. Below(n, p) /\ Len(n) < Len(p)
    BY <1>6 DEF Under
  <2>3. CASE j = k
    <3>1. Below(c, p)
      BY <1>1, <1>2, <2>1, <2>2, <2>3, ChildBelow
    <3> HIDE DEF c
    <3>2. CASE Len(c) = Len(p)
      <4>1. Below(p, c)
        BY <3>1, <3>2 DEF Below
      <4> QED
        BY <4>1 DEF ToCome, c
    <3>3. CASE Len(c) # Len(p)
      <4>1. Len(c) < Len(p)
        BY <1>1, <1>2, <1>3, <3>1, <3>3 DEF Below
      <4>2. Listed(p[Len(c) + 1], t[c].kids)
        BY <1>3, <3>1, <4>1, NextLevel
      <4>3. Under(p, c, 1, t)
        BY <3>1, <4>1, <4>2 DEF Under, Listed
      <4> QED
        BY <4>3 DEF ToCome, c
    <3> QED
      BY <3>2, <3>3 DEF c
  <2>4. CASE j # k
    <3>1. k < j
      BY <1>2, <2>1, <2>4
    <3>2. BirthIn(c, r) < BirthIn(Append(n, kids[j]), r)
      BY <1>2, <3>1 DEF InOrder
    <3>3. Append(n, kids[j]) = Prefix(p, Len(n) + 1)
      <4>1. p[Len(n) + 1] \in Levels
        BY <1>1, <1>2, <2>2, NodeType
      <4> QED
        BY <1>1, <1>2, <2>1, <2>2, <4>1, ChildBelow
    <3>4. c = Prefix(c, Len(n) + 1)
      BY <1>3, PrefixFull
    <3>5. kids[j] # kids[k]
      <4>1. Append(n, kids[k]) \in Nodes /\ Append(n, kids[k]) \in DOMAIN t
        BY KidType
      <4>2. BirthIn(c, r) \in Nat
        <5>1. Passing(c, r) # {} /\ r \in Seq(Route)
          BY <1>2, <4>1, NodeHasRoute DEF TreeOK
        <5> QED
          BY <1>3, <5>1, BirthType, RoutesType
      <4> QED
        BY <3>2, <4>2
    <3> HIDE DEF c
    <3>6. Parts(p, c, Len(n) + 1)
      BY <1>1, <1>2, <1>3, <2>1, <2>2, <3>5 DEF Parts, Below
    <3>7. Younger(p, c, Len(n) + 1, r) /\ Len(n) + 1 \in 1 .. Len(c)
      BY <1>2, <1>3, <3>2, <3>3, <3>4 DEF Younger
    <3>8. Elsewhere(p, c, r)
      BY <3>6, <3>7 DEF Elsewhere
    <3> QED
      BY <3>8 DEF ToCome, c
  <2> QED
    BY <2>3, <2>4
<1> QED
  BY <1>4, <1>5, <1>6 DEF ToCome

\* and none when it passes by a child that the route does not go through,
LEMMA PassingByKeeps ==
  ASSUME NEW t, NEW r, TreeOK(t, r), NEW i \in DOMAIN r, NEW n \in DOMAIN t,
         NEW k \in 1 .. Len(t[n].kids), ToCome(r[i].pattern, n, k, t, r),
         ~Below(Append(n, t[n].kids[k]), r[i].pattern)
  PROVE  ToCome(r[i].pattern, n, k + 1, t, r)
<1> DEFINE p == r[i].pattern
           kids == t[n].kids
<1>1. CASE Under(p, n, k, t)
  <2>1. PICK j \in 1 .. Len(kids) : j >= k /\ kids[j] = p[Len(n) + 1]
    BY <1>1 DEF Under
  <2>2. Below(n, p) /\ Len(n) < Len(p)
    BY <1>1 DEF Under
  <2>3. p \in Nodes /\ n \in Nodes /\ kids[k] \in Levels
    BY KidType, RoutesType DEF TreeOK
  <2>4. j # k
    BY <2>1, <2>2, <2>3, ChildBelow
  <2>5. j >= k + 1
    BY <2>1, <2>4
  <2>6. Under(p, n, k + 1, t)
    BY <2>1, <2>2, <2>5 DEF Under
  <2> QED
    BY <2>6 DEF ToCome
<1>2. CASE Below(p, n) \/ Elsewhere(p, n, r)
  BY <1>2 DEF ToCome
<1> QED
  BY <1>1, <1>2 DEF ToCome

\* and none when it leaves a node that is no route's end and has no child left for it.
LEMMA LeavingKeeps ==
  ASSUME NEW t, NEW r, TreeOK(t, r), NEW i \in DOMAIN r, NEW n \in DOMAIN t, n # Root, NEW k,
         ToCome(r[i].pattern, n, k, t, r), ~Under(r[i].pattern, n, k, t), r[i].pattern # n,
         NEW x \in 1 .. Len(t[Front(n)].kids), t[Front(n)].kids[x] = Last(n)
  PROVE  ToCome(r[i].pattern, Front(n), x + 1, t, r)
<1> DEFINE p == r[i].pattern
           f == Front(n)
           kids == t[f].kids
<1>1. p \in Nodes /\ Len(p) \in Nat /\ n \in Nodes /\ Len(n) \in Nat /\ r \in Seq(Route)
  BY RoutesType, NodeType, KidType DEF TreeOK
<1>2. /\ f \in Nodes /\ Len(f) = Len(n) - 1 /\ f = Prefix(n, Len(n) - 1) /\ Below(f, n)
      /\ Append(f, Last(n)) = n /\ Last(n) \in Levels
  BY <1>1, FrontType
<1>3. f \in DOMAIN t
  <2>1. PICK j : j \in Passing(n, r)
    BY <1>1 DEF TreeOK, Grown
  <2>2. j \in DOMAIN r /\ r[j].pattern \in Nodes /\ Below(n, r[j].pattern)
    BY <1>1, <2>1, RoutesType DEF Passing
  <2>3. Below(Append(f, Last(n)), r[j].pattern)
    BY <1>2, <2>2
  <2>4. Below(f, r[j].pattern)
    BY <1>2, <2>2, <2>3, ChildBelow
  <2> QED
    BY <1>2, <2>2, <2>4, NextLevel
<1>4. CASE Below(p, n)
  <2>1. Len(p) # Len(n)
    BY <1>1, <1>4, NodeEqual DEF Below
  <2>2. \A j \in 1 .. Len(f) : f[j] = n[j]
    BY <1>2 DEF Below
  <2> HIDE DEF f
  <2>3. Below(p, f)
    BY <1>1, <1>2, <1>4, <2>1, <2>2 DEF Below
  <2> QED
    BY <2>3 DEF ToCome, f
<1>5. CASE Elsewhere(p, n, r)
  <2>1. PICK j \in 1 .. Len(n) : Parts(p, n, j) /\ Younger(p, n, j, r)
    BY <1>5 DEF Elsewhere
  <2>2. \A y \in 1 .. Len(f) : f[y] = n[y]
    BY <1>2 DEF Below
  <2> HIDE DEF f
  <2>3. CASE j \in 1 .. Len(f)
    <3>1. Parts(p, f, j)
      <4>1. \A y \in 1 .. j - 1 : y \in 1 .. Len(f)
        BY <1>1, <1>2, <2>3
      <4> QED
        BY <2>1, <2>2, <2>3, <4>1 DEF Parts
    <3>2. Prefix(f, j) = Prefix(n, j)
      <4>1. j \in 0 .. Len(n) /\ j \in 0 .. Len(f)
        BY <1>1, <1>2, <2>3
      <4>2. /\ Prefix(f, j) \in Nodes /\ Len(Prefix(f, j)) = j /\ \A y \in 1 .. j : Prefix(f, j)[y] = f[y]
            /\ Prefix(n, j) \in Nodes /\ Len(Prefix(n, j)) = j /\ \A y \in 1 .. j : Prefix(n, j)[y] = n[y]
        BY <1>1, <1>2, <4>1, PrefixType
      <4>3. \A y \in 1 .. j : Prefix(f, j)[y] = Prefix(n, j)[y]
        BY <1>1, <1>2, <2>2, <2>3, <4>1, <4>2
      <4> QED
        BY <4>2, <4>3, NodeEqual
    <3>3. Elsewhere(p, f, r)
      BY <2>1, <2>3, <3>1, <3>2 DEF Elsewhere, Younger
    <3> QED
      BY <3>3 DEF ToCome, f
  <2>4. CASE j = Len(n)
    <3>1. Below(f, p) /\ Len(f) < Len(p) /\ Len(f) + 1 = Len(n)
      BY <1>1, <1>2, <2>1, <2>2, <2>4 DEF Parts, Below
    <3>2. Append(f, p[Len(f) + 1]) = Prefix(p, Len(n))
      BY <1>1, <1>2, <3>1, ChildBelow
    <3>3. PICK y \in 1 .. Len(kids) : kids[y] = p[Len(f) + 1]
      <4>1. Listed(p[Len(f) + 1], t[f].kids)
        BY <1>2, <3>1, NextLevel
      <4> QED
        BY <4>1 DEF Listed
    <3>4. BirthIn(Append(f, kids[x]), r) < BirthIn(Append(f, kids[y]), r)
      <4>1. Append(f, kids[x]) = n /\ n = Prefix(n, Len(n))
        BY <1>1, <1>2, PrefixFull DEF f
      <4> QED
        BY <2>1, <2>4, <3>2, <3>3, <4>1 DEF Younger
    <3>5. /\ InOrder(f, kids, r) /\ Len(kids) \in Nat /\ x \in 1 .. Len(kids)
          /\ \A z \in 1 .. Len(kids) : BirthIn(Append(f, kids[z]), r) \in Nat
      <4>1. /\ InOrder(f, kids, r) /\ Len(kids) \in Nat /\ f \in Nodes
            /\ \A z \in 1 .. Len(kids) : /\ kids[z] \in Levels /\ Append(f, kids[z]) \in DOMAIN t
                                        /\ Append(f, kids[z]) \in Nodes
        BY <1>3, KidType
      <4>2. ASSUME NEW z \in 1 .. Len(kids) PROVE BirthIn(Append(f, kids[z]), r) \in Nat
        <5>1. Passing(Append(f, kids[z]), r) # {} /\ Append(f, kids[z]) \in Nodes
          BY <4>1, NodeHasRoute
        <5> QED
          BY <1>1, <5>1, BirthType, RoutesType
      <4> QED
        BY <4>1, <4>2 DEF f
    <3>6. y >= x + 1
      <4>1. y # x
        BY <3>4, <3>5
      <4>2. ~(y < x)
        BY <3>4, <3>5 DEF InOrder
      <4> QED
        BY <3>5, <4>1, <4>2
    <3>7. Under(p, f, x + 1, t)
      BY <3>1, <3>3, <3>6 DEF Under
    <3> QED
      BY <3>7 DEF ToCome, f
  <2> QED
    BY <1>1, <1>2, <2>3, <2>4
<1> QED
  BY <1>4, <1>5 DEF ToCome

\* The nodes on the way to a node of the tree have routes.
LEMMA PrefixBirth ==
  ASSUME NEW t, NEW r, TreeOK(t, r), NEW n \in DOMAIN t, NEW x \in 1 .. Len(n)
  PROVE  BirthIn(Prefix(n, x), r) \in Nat
<1>1. n \in Nodes /\ Len(n) \in Nat /\ n # Root /\ r \in Seq(Route)
  BY KidType, NodeType, RootType DEF TreeOK
<1>2. PICK j : j \in Passing(n, r)
  BY <1>1 DEF TreeOK, Grown
<1>3. j \in DOMAIN r /\ r[j].pattern \in Nodes /\ Below(n, r[j].pattern)
  BY <1>1, <1>2, RoutesType DEF Passing
<1>4. /\ Prefix(n, x) \in Nodes /\ Len(Prefix(n, x)) = x
      /\ \A y \in 1 .. x : Prefix(n, x)[y] = n[y]
  BY <1>1, PrefixType
<1>5. Below(Prefix(n, x), r[j].pattern)
  <2>1. Len(r[j].pattern) \in Nat /\ \A y \in 1 .. x : y \in 1 .. Len(n)
    BY <1>1, <1>3, NodeType
  <2> QED
    BY <1>1, <1>3, <1>4, <2>1 DEF Below
<1>6. Passing(Prefix(n, x), r) # {}
  BY <1>3, <1>5 DEF Passing
<1> QED
  BY <1>1, <1>4, <1>6, BirthType, RoutesType

\* A route that has no child left to go on with does not come before the node (Precedes,
\* said of any list).
Ahead(p, q, r) ==
  \/ IsStrictPrefix(q, p)
  \/ \E k \in 1 .. Len(p) :
       /\ k <= Len(q) /\ Prefix(p, k - 1) = Prefix(q, k - 1) /\ p[k] # q[k]
       /\ BirthIn(Prefix(p, k), r) < BirthIn(Prefix(q, k), r)

LEMMA NothingAhead ==
  ASSUME NEW t, NEW r, TreeOK(t, r), NEW p \in DOMAIN t, NEW n \in DOMAIN t, NEW k,
         ToCome(p, n, k, t, r), ~Under(p, n, k, t)
  PROVE  ~Ahead(p, n, r)
<1>1. /\ p \in Nodes /\ Len(p) \in Nat /\ DOMAIN p = 1 .. Len(p)
      /\ n \in Nodes /\ Len(n) \in Nat /\ DOMAIN n = 1 .. Len(n)
  BY KidType, NodeType
<1>2. IsStrictPrefix(n, p) <=> Below(n, p) /\ n # p
  BY <1>1, IsPrefixIsBelow DEF IsStrictPrefix
<1>3. CASE Below(p, n)
  <2>1. ~IsStrictPrefix(n, p)
    <3>1. Below(n, p) => n = p
      BY <1>1, <1>3, NodeEqual DEF Below
    <3> QED
      BY <1>2, <3>1
  <2>2. \A k_1 \in 1 .. Len(p) : p[k_1] = n[k_1]
    BY <1>3 DEF Below
  <2> QED
    BY <2>1, <2>2 DEF Ahead
<1>4. CASE Elsewhere(p, n, r)
  <2>1. PICK j \in 1 .. Len(n) : Parts(p, n, j) /\ Younger(p, n, j, r)
    BY <1>4 DEF Elsewhere
  <2>2. ~IsStrictPrefix(n, p)
    BY <1>2, <2>1 DEF Parts, Below
  <2>3. ASSUME NEW x \in 1 .. Len(p), x <= Len(n), Prefix(p, x - 1) = Prefix(n, x - 1), p[x] # n[x],
               BirthIn(Prefix(p, x), r) < BirthIn(Prefix(n, x), r)
        PROVE  FALSE
    <3>1. x - 1 \in 0 .. Len(p) /\ x - 1 \in 0 .. Len(n)
      BY <1>1, <2>3
    <3>2. /\ \A y \in 1 .. x - 1 : Prefix(p, x - 1)[y] = p[y]
          /\ \A y \in 1 .. x - 1 : Prefix(n, x - 1)[y] = n[y]
      BY <1>1, <3>1, PrefixType
    <3>3. \A y \in 1 .. x - 1 : p[y] = n[y]
      BY <2>3, <3>2
    <3>4. x = j
      BY <1>1, <2>1, <2>3, <3>3 DEF Parts
    <3>5. BirthIn(Prefix(p, j), r) < BirthIn(Prefix(n, j), r)
          /\ BirthIn(Prefix(n, j), r) < BirthIn(Prefix(p, j), r)
      BY <2>1, <2>3, <3>4 DEF Younger
    <3>6. BirthIn(Prefix(p, j), r) \in Nat /\ BirthIn(Prefix(n, j), r) \in Nat
      BY <3>4, PrefixBirth
    <3> QED
      BY <3>5, <3>6
  <2> QED
    BY <2>2, <2>3 DEF Ahead
<1> QED
  BY <1>3, <1>4 DEF ToCome

-----------------------------------------------------------------------------
(* The vector of parameters *)

Params(n, k) == {j \in 1 .. k : IsParam(n[j])}

LEMMA RankType ==
  ASSUME NEW n, NEW k \in Nat
  PROVE  /\ IsFiniteSet(Params(n, k)) /\ Rank(n, k) \in Nat /\ Rank(n, 0) = 0
         /\ Rank(n, k + 1) = IF IsParam(n[k + 1]) THEN Rank(n, k) + 1 ELSE Rank(n, k)
<1>1. IsFiniteSet(1 .. k)
  BY FS_Interval
<1>2. Params(n, k) \subseteq 1 .. k /\ Rank(n, k) = Cardinality(Params(n, k))
  BY DEF Params, Rank
<1>3. IsFiniteSet(Params(n, k))
  BY <1>1, <1>2, FS_Subset
<1>4. Rank(n, k) \in Nat
  BY <1>2, <1>3, FS_CardinalityType
<1>5. Rank(n, 0) = 0
  <2>1. {j \in 1 .. 0 : IsParam(n[j])} = {}
    OBVIOUS
  <2> QED
    BY <2>1, FS_EmptySet DEF Rank
<1>6. Rank(n, k + 1) = Cardinality(Params(n, k + 1))
  BY DEF Params, Rank
<1>7. CASE IsParam(n[k + 1])
  <2>1. Params(n, k + 1) = Params(n, k) \cup {k + 1} /\ k + 1 \notin Params(n, k)
    BY <1>7 DEF Params
  <2> QED
    BY <1>2, <1>3, <1>4, <1>5, <1>6, <1>7, <2>1, FS_AddElement
<1>8. CASE ~IsParam(n[k + 1])
  <2>1. Params(n, k + 1) = Params(n, k)
    BY <1>8 DEF Params
  <2> QED
    BY <1>2, <1>3, <1>4, <1>5, <1>6, <1>8, <2>1
<1> QED
  BY <1>3, <1>4, <1>5, <1>7, <1>8

LEMMA RankGrows ==
  ASSUME NEW n, NEW j \in Nat, NEW k \in Nat, j <= k
  PROVE  /\ Rank(n, j) <= Rank(n, k)
         /\ j > 0 /\ IsParam(n[j]) => Rank(n, j) >= 1
<1>1. IsFiniteSet(Params(n, k)) /\ Params(n, j) \subseteq Params(n, k)
  BY RankType DEF Params
<1>2. Rank(n, j) <= Rank(n, k)
  <2>1. Cardinality(Params(n, j)) <= Cardinality(Params(n, k))
    BY <1>1, FS_Subset
  <2> QED
    BY <2>1 DEF Params, Rank
<1>3. ASSUME j > 0, IsParam(n[j]) PROVE Rank(n, j) >= 1
  <2>1. j - 1 \in Nat /\ (j - 1) + 1 = j
    BY <1>3
  <2>2. Rank(n, j) = Rank(n, j - 1) + 1 /\ Rank(n, j - 1) \in Nat
    <3>1. /\ Rank(n, j - 1) \in Nat
          /\ Rank(n, (j - 1) + 1) = IF IsParam(n[(j - 1) + 1]) THEN Rank(n, j - 1) + 1 ELSE Rank(n, j - 1)
      BY <2>1, RankType
    <3> QED
      BY <1>3, <2>1, <3>1
  <2> QED
    BY <2>2
<1> QED
  BY <1>2, <1>3

LEMMA RankSame ==
  ASSUME NEW n, NEW q, NEW k \in Nat, \A j \in 1 .. k : q[j] = n[j]
  PROVE  Rank(q, k) = Rank(n, k)
<1>1. {j \in 1 .. k : IsParam(q[j])} = {j \in 1 .. k : IsParam(n[j])}
  BY DEF IsParam
<1> QED
  BY <1>1 DEF Rank

\* The node covers the path and the vector holds the parameters of its own levels.
Held(n, path, v) ==
  /\ Len(n) <= Len(path) /\ \A k \in 1 .. Len(n) : Accepts(n[k], path[k])
  /\ v \in Seq(STRING) /\ Len(v) = Rank(n, Len(n))
  /\ \A k \in 1 .. Len(n) : IsParam(n[k]) => v[Rank(n, k)] = path[k]

LEMMA HeldByRoot == ASSUME NEW path \in Seq(STRING) PROVE Held(Root, path, <<>>)
<1>1. Len(path) \in Nat /\ Len(Root) = 0 /\ Len(<<>>) = 0 /\ <<>> \in Seq(STRING) /\ Rank(Root, 0) = 0
  BY LenProperties, RootType, RankType, EmptySeq
<1> QED
  BY <1>1 DEF Held

LEMMA HeldByChild ==
  ASSUME NEW path \in Seq(STRING), NEW v, NEW w, NEW n \in Nodes, NEW l \in Levels, Held(n, path, v),
         Len(n) < Len(path), Accepts(l, path[Len(n) + 1]),
         w = IF IsParam(l) THEN Append(v, path[Len(n) + 1]) ELSE v
  PROVE  Held(Append(n, l), path, w)
<1> DEFINE c == Append(n, l)
           d == Len(n)
           text == path[d + 1]
<1>1. /\ d \in Nat /\ Len(c) = d + 1 /\ c[d + 1] = l /\ \A k \in 1 .. d : c[k] = n[k]
      /\ Len(path) \in Nat
  BY ChildType, NodeType, LenProperties
<1>2. text \in STRING
  BY <1>1, ElementOfSeq
<1>3. v \in Seq(STRING) /\ Len(v) = Rank(n, d)
  BY DEF Held
<1> HIDE DEF c, d, text
<1>4. Rank(c, d) = Rank(n, d) /\ Rank(n, d) \in Nat
  <2>1. Rank(c, d) = Rank(n, d)
    BY <1>1, RankSame
  <2>2. Rank(n, d) \in Nat
    BY <1>1, RankType
  <2> QED
    BY <2>1, <2>2
<1>5. Rank(c, d + 1) = IF IsParam(l) THEN Rank(n, d) + 1 ELSE Rank(n, d)
  <2>1. Rank(c, d + 1) = IF IsParam(c[d + 1]) THEN Rank(c, d) + 1 ELSE Rank(c, d)
    BY <1>1, RankType
  <2> QED
    BY <1>1, <1>4, <2>1
<1>6. /\ w \in Seq(STRING) /\ Len(w) = Rank(c, d + 1)
      /\ IsParam(l) => w[Rank(n, d) + 1] = text
      /\ \A i \in 1 .. Rank(n, d) : w[i] = v[i]
  <2>1. CASE IsParam(l)
    <3> DEFINE more == Append(v, text)
    <3>1. w = more
      BY <2>1 DEF text, d
    <3>2. /\ more \in Seq(STRING) /\ Len(more) = Len(v) + 1 /\ more[Len(v) + 1] = text
          /\ \A i \in 1 .. Len(v) : more[i] = v[i]
      BY <1>2, <1>3, AppendProperties
    <3> HIDE DEF more
    <3> QED
      BY <1>5, <1>3, <2>1, <3>1, <3>2
  <2>2. CASE ~IsParam(l)
    BY <1>5, <1>3, <2>2
  <2> QED
    BY <2>1, <2>2
<1>7. ASSUME NEW k \in 1 .. d + 1 PROVE Accepts(c[k], path[k]) /\ (IsParam(c[k]) => w[Rank(c, k)] = path[k])
  <2>1. CASE k \in 1 .. d
    <3>1. c[k] = n[k] /\ Accepts(n[k], path[k]) /\ (IsParam(n[k]) => v[Rank(n, k)] = path[k])
      BY <1>1, <2>1 DEF Held, d
    <3>2. Rank(c, k) = Rank(n, k) /\ Rank(n, k) \in Nat /\ Rank(n, k) <= Rank(n, d)
          /\ (IsParam(n[k]) => Rank(n, k) >= 1)
      <4>1. k \in Nat /\ k <= d /\ k > 0 /\ \A j \in 1 .. k : c[j] = n[j]
        BY <1>1, <2>1
      <4>2. Rank(c, k) = Rank(n, k)
        BY <4>1, RankSame
      <4>3. Rank(n, k) \in Nat
        BY <4>1, RankType
      <4>4. Rank(n, k) <= Rank(n, d) /\ (IsParam(n[k]) => Rank(n, k) >= 1)
        BY <1>1, <4>1, RankGrows
      <4> QED
        BY <4>2, <4>3, <4>4
    <3>3. IsParam(n[k]) => Rank(n, k) \in 1 .. Rank(n, d)
      BY <1>4, <3>2
    <3>4. IsParam(n[k]) => w[Rank(n, k)] = v[Rank(n, k)]
      BY <1>6, <3>3
    <3> QED
      BY <3>1, <3>2, <3>4, Zenon
  <2>2. CASE k = d + 1
    <3>1. c[k] = l /\ path[k] = text /\ Accepts(l, text)
      BY <1>1, <2>2 DEF text, d
    <3> QED
      BY <1>5, <1>6, <2>2, <3>1
  <2>3. k \in 1 .. d \/ k = d + 1
    BY <1>1
  <2> QED
    BY <2>1, <2>2, <2>3, Zenon
<1>8. Len(c) = d + 1 /\ d + 1 <= Len(path)
  BY <1>1 DEF d
<1> QED
  BY <1>6, <1>7, <1>8 DEF Held, c

LEMMA HeldByCaller ==
  ASSUME NEW path \in Seq(STRING), NEW v, NEW w, NEW n \in Nodes, n # Root, Held(n, path, v),
         w = IF IsParam(Last(n)) THEN Front(v) ELSE v
  PROVE  Held(Front(n), path, w)
<1> DEFINE f == Front(n)
           d == Len(n) - 1
<1>1. Len(n) \in Nat /\ d \in Nat /\ Len(n) = d + 1 /\ Len(f) = d /\ Last(n) = n[d + 1] /\ Len(path) \in Nat
  BY FrontType, NodeType, LenProperties DEF Last
<1>2. \A k \in 1 .. d : f[k] = n[k]
  BY <1>1, FrontType DEF Below
<1>3. Rank(f, d) = Rank(n, d) /\ Rank(n, d) \in Nat
      /\ Rank(n, d + 1) = IF IsParam(Last(n)) THEN Rank(n, d) + 1 ELSE Rank(n, d)
  <2>1. Rank(f, d) = Rank(n, d)
    BY <1>1, <1>2, RankSame
  <2>2. Rank(n, d) \in Nat
        /\ Rank(n, d + 1) = IF IsParam(n[d + 1]) THEN Rank(n, d) + 1 ELSE Rank(n, d)
    BY <1>1, RankType
  <2> QED
    BY <1>1, <2>1, <2>2
<1>4. v \in Seq(STRING) /\ Len(v) = Rank(n, d + 1)
  BY <1>1 DEF Held
<1> HIDE DEF f, d
<1>5. w \in Seq(STRING) /\ Len(w) = Rank(f, d) /\ \A i \in 1 .. Rank(n, d) : w[i] = v[i]
  <2>1. CASE IsParam(Last(n))
    <3>1. Len(v) = Rank(n, d) + 1 /\ w = SubSeq(v, 1, Len(v) - 1) /\ Len(v) - 1 = Rank(n, d)
      BY <1>3, <1>4, <2>1 DEF Front
    <3>2. \A i \in 1 .. Rank(n, d) : v[i] \in STRING
      BY <1>3, <1>4, <3>1, ElementOfSeq
    <3> DEFINE x == SubSeq(v, 1, Rank(n, d))
    <3>3. /\ x \in Seq(STRING) /\ Len(x) = IF 1 <= Rank(n, d) THEN Rank(n, d) - 1 + 1 ELSE 0
          /\ \A i \in 1 .. Rank(n, d) - 1 + 1 : x[i] = v[1 + i - 1]
      BY <1>3, <3>2, SubSeqProperties
    <3>4. w = x
      BY <3>1
    <3> HIDE DEF x
    <3> QED
      BY <1>3, <3>3, <3>4
  <2>2. CASE ~IsParam(Last(n))
    BY <1>3, <1>4, <2>2
  <2> QED
    BY <2>1, <2>2
<1>6. ASSUME NEW k \in 1 .. d PROVE Accepts(f[k], path[k]) /\ (IsParam(f[k]) => w[Rank(f, k)] = path[k])
  <2>1. f[k] = n[k] /\ Accepts(n[k], path[k]) /\ (IsParam(n[k]) => v[Rank(n, k)] = path[k])
    BY <1>1, <1>2 DEF Held
  <2>2. Rank(f, k) = Rank(n, k) /\ Rank(n, k) \in Nat /\ Rank(n, k) <= Rank(n, d)
        /\ (IsParam(n[k]) => Rank(n, k) >= 1)
    <3>1. k \in Nat /\ k <= d /\ k > 0 /\ \A j \in 1 .. k : f[j] = n[j]
      BY <1>1, <1>2
    <3>2. Rank(f, k) = Rank(n, k)
      BY <3>1, RankSame
    <3>3. Rank(n, k) \in Nat
      BY <3>1, RankType
    <3>4. Rank(n, k) <= Rank(n, d) /\ (IsParam(n[k]) => Rank(n, k) >= 1)
      BY <1>1, <3>1, RankGrows
    <3> QED
      BY <3>2, <3>3, <3>4
  <2> QED
    BY <1>3, <1>5, <2>1, <2>2
<1>7. Len(f) = d /\ d <= Len(path)
  BY <1>1 DEF Held
<1> QED
  BY <1>5, <1>6, <1>7 DEF Held, f

-----------------------------------------------------------------------------
(* The inductive invariant: the tree is the one of the routes, the vector is the one *)
(* of the node, and every route that the request wants is still to come.             *)

Answers == {"none", "searching", "handler", "file", "bad_request"}
Request == [method : Methods, path : Seq(STRING), at : Nodes, index : Nat, answer : Answers]

Wanted(e, c) == e.method = c.method /\ Covers(e.pattern, c.path)
AllToCome(c, k, t, r) ==
  \A i \in DOMAIN r : Wanted(r[i], c) => ToCome(r[i].pattern, c.at, k, t, r)
Missed(c, r) == \A i \in DOMAIN r : ~Wanted(r[i], c)
Answered(c, r) ==
  /\ \E i \in DOMAIN r : r[i].pattern = c.at
  /\ \A i \in DOMAIN r : Wanted(r[i], c) => ~Ahead(r[i].pattern, c.at, r)
  /\ c.index = IF Own(c.method, c.at, r) = {} THEN Unset ELSE Max(Own(c.method, c.at, r))

AtNode(c, t, v) == c.at \in DOMAIN t /\ Held(c.at, c.path, v)

Inv ==
  /\ TreeOK(tree, routes) /\ cur \in Request /\ kid \in Nat \ {0}
  /\ Searching => AtNode(cur, tree, vars_) /\ AllToCome(cur, kid, tree, routes)
  /\ Routed => AtNode(cur, tree, vars_) /\ Answered(cur, routes)
  /\ (cur # Idle /\ ~Searching /\ ~Routed) => Missed(cur, routes)

LEMMA UnroutedIsNeither ==
  ASSUME NEW m
  PROVE  Unrouted(m) # "searching" /\ Unrouted(m) # "handler" /\ Unrouted(m) \in Answers
  BY DEF Unrouted, Answers

LEMMA IdleType == Idle \in Request /\ Idle.answer # "searching" /\ Idle.answer # "handler"
  BY RouterAssumption, RootType, EmptySeq DEF Idle, Request, Unset, Answers

LEMMA InvInit == ASSUME Init PROVE Inv
<1>1. TreeOK(tree, routes)
  BY TreeInit
<1>2. cur = Idle /\ kid = 1
  BY DEF Init
<1> QED
  BY <1>1, <1>2, IdleType DEF Inv, Searching, Routed

LEMMA AddRouteKeeps ==
  ASSUME Inv, NEW m \in Methods, NEW p \in Patterns, add_route(m, p)
  PROVE  Inv'
<1>1. TreeOK(tree', routes')
  BY AddRoutePlants, PlantingIsRight DEF Inv
<1>2. cur = Idle /\ cur' = cur /\ kid' = kid
  BY DEF add_route
<1> QED
  BY <1>1, <1>2, IdleType DEF Inv, Searching, Routed

\* A route that covers the path, as far as its levels are concerned.
LEMMA CoversType ==
  ASSUME NEW p \in Nodes, NEW path \in Seq(STRING)
  PROVE  Covers(p, path) <=> Len(p) <= Len(path) /\ \A k \in 1 .. Len(p) : Accepts(p[k], path[k])
  BY NodeType DEF Covers

LEMMA DispatchKeeps ==
  ASSUME Inv, NEW text \in Texts, NEW path \in Paths, dispatch_route(text, path)
  PROVE  Inv'
<1> DEFINE m == method_from_string(text)
<1>1. m \in Methods /\ path \in Seq(STRING)
  BY RouterAssumption DEF method_from_string
<1>2. /\ cur' = [method |-> m, path |-> path, at |-> Root, index |-> Unset,
                 answer |-> IF m \in tree[Root].methods THEN "searching" ELSE Unrouted(m)]
      /\ vars_' = <<>> /\ kid' = 1 /\ tree' = tree /\ routes' = routes
  BY DEF dispatch_route
<1> HIDE DEF m
<1>3. /\ cur'.method = m /\ cur'.path = path /\ cur'.at = Root /\ cur'.index = Unset
      /\ cur'.answer = IF m \in tree[Root].methods THEN "searching" ELSE Unrouted(m)
  BY <1>2
<1>4. cur' \in Request
  <2>1. cur'.answer \in Answers
    BY <1>3, UnroutedIsNeither DEF Answers
  <2>2. Unset \in Nat
    BY DEF Unset
  <2> QED
    BY <1>1, <1>2, <1>3, <2>1, <2>2, RootType DEF Request
<1>5. TreeOK(tree, routes) /\ Root \in DOMAIN tree
  BY RootType DEF Inv, TreeOK, Grown
<1>6. CASE m \in tree[Root].methods
  <2>1. cur'.answer = "searching"
    BY <1>3, <1>6
  <2>2. AtNode(cur', tree', vars_')
    BY <1>1, <1>2, <1>3, <1>5, HeldByRoot DEF AtNode
  <2>3. AllToCome(cur', kid', tree', routes')
    BY <1>2, <1>3, <1>5, StartsWithAll DEF AllToCome
  <2> QED
    BY <1>2, <1>4, <1>5, <2>1, <2>2, <2>3 DEF Inv, Searching, Routed
<1>7. CASE m \notin tree[Root].methods
  <2>1. cur'.answer # "searching" /\ cur'.answer # "handler"
    BY <1>3, <1>7, UnroutedIsNeither
  <2>2. ASSUME NEW i \in DOMAIN routes PROVE ~Wanted(routes[i], cur')
    <3>1. routes[i].pattern \in Nodes
      BY <1>5, RoutesType DEF TreeOK
    <3>2. i \in Passing(Root, routes)
      BY <3>1, RootType, NodeType DEF Passing, Below
    <3>3. routes[i].method \in tree[Root].methods
      BY <1>5, <3>2 DEF TreeOK, Ended
    <3> QED
      BY <1>3, <1>7, <3>3 DEF Wanted
  <2>3. Missed(cur', routes')
    BY <1>2, <2>2 DEF Missed
  <2> QED
    BY <1>2, <1>4, <1>5, <2>1, <2>3 DEF Inv, Searching, Routed
<1> QED
  BY <1>6, <1>7

\* What every call of match can rely on.
LEMMA CallFacts ==
  ASSUME Inv, Searching
  PROVE  /\ TreeOK(tree, routes) /\ cur \in Request /\ cur.method \in Methods
         /\ cur.path \in Seq(STRING) /\ Len(cur.path) \in Nat
         /\ cur.at \in DOMAIN tree /\ cur.at \in Nodes /\ Depth \in Nat /\ Depth = Len(cur.at)
         /\ Held(cur.at, cur.path, vars_) /\ Depth <= Len(cur.path)
         /\ AllToCome(cur, kid, tree, routes)
         /\ Kids = tree[cur.at].kids /\ Kids \in Seq(Levels) /\ Len(Kids) \in Nat
         /\ kid \in Nat \ {0} /\ (KidLeft => kid \in 1 .. Len(Kids))
<1>1. /\ TreeOK(tree, routes) /\ cur \in Request /\ cur.at \in DOMAIN tree /\ kid \in Nat \ {0}
      /\ Held(cur.at, cur.path, vars_) /\ AllToCome(cur, kid, tree, routes)
  BY DEF Inv, AtNode
<1>2. cur.method \in Methods /\ cur.path \in Seq(STRING) /\ cur.at \in Nodes
  BY <1>1 DEF Request
<1>3. Len(cur.path) \in Nat /\ Len(cur.at) \in Nat
  BY <1>2, NodeType, LenProperties
<1>4. Kids = tree[cur.at].kids /\ Kids \in Seq(Levels) /\ Len(Kids) \in Nat
  BY <1>1, KidType DEF Kids
<1>5. Depth = Len(cur.at) /\ Len(cur.at) <= Len(cur.path)
  BY <1>1 DEF Depth, Held
<1>6. KidLeft => kid \in 1 .. Len(Kids)
  BY <1>1, <1>4 DEF KidLeft
<1> QED
  BY <1>1, <1>2, <1>3, <1>4, <1>5, <1>6

LEMMA DescendKeeps ==
  ASSUME Inv, Descend
  PROVE  Inv'
<1>1. Searching /\ KidLeft /\ KidMatches
  BY DEF Descend
<1>2. /\ TreeOK(tree, routes) /\ cur \in Request /\ cur.at \in DOMAIN tree /\ cur.at \in Nodes
      /\ cur.path \in Seq(STRING) /\ Held(cur.at, cur.path, vars_) /\ Depth = Len(cur.at)
      /\ AllToCome(cur, kid, tree, routes) /\ Kids = tree[cur.at].kids /\ kid \in 1 .. Len(Kids)
  BY <1>1, CallFacts
<1>3. Kids[kid] \in Levels /\ Child = Append(cur.at, Kids[kid]) /\ Child \in DOMAIN tree /\ Child \in Nodes
  BY <1>2, KidType DEF Child
<1>4. /\ cur' = [cur EXCEPT !.at = Child] /\ kid' = 1 /\ tree' = tree /\ routes' = routes
      /\ vars_' = IF IsParam(Kids[kid]) THEN Append(vars_, cur.path[Depth + 1]) ELSE vars_
  BY DEF Descend
<1>5. /\ cur' \in Request /\ cur'.at = Child /\ cur'.method = cur.method /\ cur'.path = cur.path
      /\ cur'.answer = cur.answer
  BY <1>2, <1>3, <1>4 DEF Request
<1>6. Depth < Len(cur.path) /\ Accepts(Kids[kid], cur.path[Depth + 1])
  BY <1>1 DEF KidLeft, KidMatches
<1>7. Held(Child, cur.path, vars_')
  BY <1>2, <1>3, <1>4, <1>6, HeldByChild
<1>8. ASSUME NEW i \in DOMAIN routes, Wanted(routes[i], cur')
      PROVE  ToCome(routes[i].pattern, Child, 1, tree, routes)
  <2>1. Wanted(routes[i], cur)
    BY <1>5, <1>8 DEF Wanted
  <2>2. ToCome(routes[i].pattern, cur.at, kid, tree, routes)
    BY <1>2, <2>1 DEF AllToCome
  <2> QED
    BY <1>2, <1>3, <2>2, DescentKeeps
<1>9. AtNode(cur', tree', vars_') /\ AllToCome(cur', kid', tree', routes')
  BY <1>3, <1>4, <1>5, <1>7, <1>8 DEF AtNode, AllToCome
<1>10. cur'.answer = "searching"
  BY <1>1, <1>5 DEF Searching
<1> QED
  BY <1>2, <1>4, <1>5, <1>9, <1>10 DEF Inv, Searching, Routed

LEMMA PassByKeeps ==
  ASSUME Inv, PassBy
  PROVE  Inv'
<1>1. Searching /\ KidLeft /\ ~KidMatches
  BY DEF PassBy
<1>2. /\ TreeOK(tree, routes) /\ cur \in Request /\ cur.at \in DOMAIN tree /\ cur.at \in Nodes
      /\ cur.path \in Seq(STRING) /\ Held(cur.at, cur.path, vars_) /\ Depth = Len(cur.at)
      /\ AllToCome(cur, kid, tree, routes) /\ Kids = tree[cur.at].kids /\ kid \in 1 .. Len(Kids)
      /\ kid \in Nat \ {0}
  BY <1>1, CallFacts
<1>3. Kids[kid] \in Levels /\ Child = Append(cur.at, Kids[kid]) /\ Child \in DOMAIN tree /\ Child \in Nodes
  BY <1>2, KidType DEF Child
<1>4. kid' = kid + 1 /\ tree' = tree /\ routes' = routes /\ vars_' = vars_ /\ cur' = cur
  BY DEF PassBy
<1>5. ASSUME NEW i \in DOMAIN routes, Wanted(routes[i], cur)
      PROVE  ToCome(routes[i].pattern, cur.at, kid + 1, tree, routes)
  <2> DEFINE p == routes[i].pattern
  <2>1. p \in Nodes
    BY <1>2, RoutesType DEF TreeOK
  <2>2. ToCome(p, cur.at, kid, tree, routes)
    BY <1>2, <1>5 DEF AllToCome
  <2>3. ~Below(Child, p)
    <3>1. SUFFICES ASSUME Below(Child, p) PROVE FALSE
      OBVIOUS
    <3>2. i \in Passing(Child, routes)
      BY <3>1 DEF Passing
    <3>3. routes[i].method \in tree[Child].methods
      BY <1>2, <1>3, <3>2 DEF TreeOK, Ended
    <3>4. Depth < Len(p) /\ p[Depth + 1] = Kids[kid]
      BY <1>2, <1>3, <2>1, <3>1, ChildBelow
    <3>5. Accepts(p[Depth + 1], cur.path[Depth + 1])
      <4>1. Depth + 1 \in 1 .. Len(p)
        BY <1>2, <2>1, <3>4, NodeType
      <4> QED
        BY <1>2, <1>5, <2>1, <4>1, CoversType DEF Wanted
    <3> QED
      BY <1>1, <1>5, <3>3, <3>4, <3>5 DEF KidMatches, Wanted
  <2> QED
    BY <1>2, <1>3, <2>2, <2>3, PassingByKeeps
<1>6. AllToCome(cur, kid + 1, tree, routes)
  BY <1>5 DEF AllToCome
<1>7. cur.answer = "searching" /\ AtNode(cur, tree, vars_)
  BY <1>1, <1>2 DEF Searching, AtNode
<1> QED
  BY <1>2, <1>4, <1>6, <1>7 DEF Inv, Searching, Routed

\* A wanted route is not under a node that has no child left.
LEMMA NoneUnder ==
  ASSUME Inv, Searching, ~KidLeft, NEW i \in DOMAIN routes, Wanted(routes[i], cur)
  PROVE  /\ routes[i].pattern \in Nodes /\ routes[i].pattern \in DOMAIN tree
         /\ ToCome(routes[i].pattern, cur.at, kid, tree, routes)
         /\ ~Under(routes[i].pattern, cur.at, kid, tree)
<1> DEFINE p == routes[i].pattern
<1>1. /\ TreeOK(tree, routes) /\ cur.at \in Nodes /\ cur.path \in Seq(STRING)
      /\ Len(cur.path) \in Nat /\ Depth = Len(cur.at) /\ Depth \in Nat
      /\ AllToCome(cur, kid, tree, routes) /\ Kids = tree[cur.at].kids /\ Len(Kids) \in Nat
      /\ kid \in Nat
  BY CallFacts
<1>2. p \in Nodes /\ Len(p) \in Nat
  BY <1>1, RoutesType, NodeType DEF TreeOK
<1>3. p \in DOMAIN tree
  <2>1. Below(p, p)
    BY <1>2 DEF Below
  <2> QED
    BY <1>1, <1>2, <2>1, NextLevel
<1>4. ToCome(p, cur.at, kid, tree, routes)
  BY <1>1 DEF AllToCome
<1>5. Len(p) <= Len(cur.path)
  BY <1>1, <1>2, CoversType DEF Wanted
<1>6. ~Under(p, cur.at, kid, tree)
  <2>1. SUFFICES ASSUME Under(p, cur.at, kid, tree) PROVE FALSE
    OBVIOUS
  <2>2. Depth < Len(cur.path)
    BY <1>1, <1>2, <1>5, <2>1 DEF Under
  <2>3. kid <= Len(Kids)
    BY <1>1, <2>1 DEF Under
  <2> QED
    BY <2>2, <2>3 DEF KidLeft
<1> QED
  BY <1>2, <1>3, <1>4, <1>6

LEMMA AnswerKeeps ==
  ASSUME Inv, Answer
  PROVE  Inv'
<1>1. Searching /\ ~KidLeft
  BY DEF Answer
<1>2. /\ TreeOK(tree, routes) /\ cur \in Request /\ cur.at \in DOMAIN tree /\ cur.method \in Methods
      /\ Held(cur.at, cur.path, vars_)
  BY <1>1, CallFacts
<1>3. /\ cur' = [cur EXCEPT !.index = tree[cur.at].index[cur.method], !.answer = "handler"]
      /\ kid' = 1 /\ tree' = tree /\ routes' = routes /\ vars_' = vars_
  BY DEF Answer
<1>4. tree[cur.at].index[cur.method] \in Nat
  BY <1>2 DEF TreeOK, Grown, Entry
<1>5. /\ cur' \in Request /\ cur'.at = cur.at /\ cur'.method = cur.method /\ cur'.path = cur.path
      /\ cur'.index = tree[cur.at].index[cur.method] /\ cur'.answer = "handler"
  BY <1>2, <1>3, <1>4 DEF Request, Answers
<1>6. ASSUME NEW i \in DOMAIN routes, Wanted(routes[i], cur')
      PROVE  ~Ahead(routes[i].pattern, cur.at, routes)
  <2>1. Wanted(routes[i], cur)
    BY <1>5, <1>6 DEF Wanted
  <2> QED
    BY <1>1, <1>2, <2>1, NoneUnder, NothingAhead
<1>7. cur'.index = IF Own(cur.method, cur.at, routes) = {} THEN Unset
                   ELSE Max(Own(cur.method, cur.at, routes))
  BY <1>2, <1>5 DEF TreeOK, Ended
<1>8. \E i \in DOMAIN routes : routes[i].pattern = cur.at
  BY <1>2 DEF Answer, TreeOK, Ended
<1>9. Answered(cur', routes') /\ AtNode(cur', tree', vars_')
  BY <1>2, <1>3, <1>5, <1>6, <1>7, <1>8 DEF Answered, AtNode
<1> QED
  BY <1>2, <1>3, <1>5, <1>9 DEF Inv, Searching, Routed

LEMMA LeaveKeeps ==
  ASSUME Inv, Leave
  PROVE  Inv'
<1> DEFINE n == cur.at
           f == Front(n)
           x == CHOOSE i \in DOMAIN tree[f].kids : tree[f].kids[i] = Last(n)
<1>1. Searching /\ ~KidLeft /\ ~tree[n].terminal /\ n # Root
  BY DEF Leave
<1>2. /\ TreeOK(tree, routes) /\ cur \in Request /\ n \in DOMAIN tree /\ n \in Nodes
      /\ cur.path \in Seq(STRING) /\ Held(n, cur.path, vars_)
  BY <1>1, CallFacts
<1>3. f \in Nodes /\ Last(n) \in Levels /\ Append(f, Last(n)) = n
  BY <1>1, <1>2, FrontType
<1>4. f \in DOMAIN tree
  <2> HIDE DEF f, n
  <2>1. f \notin DOMAIN tree => Append(f, Last(n)) \notin DOMAIN tree
    BY <1>2, <1>3, NodeHasRoute
  <2> QED
    BY <1>2, <1>3, <2>1
<1>5. Listed(Last(n), tree[f].kids) /\ tree[f].kids \in Seq(Levels)
  <2> HIDE DEF f, n
  <2> QED
    BY <1>2, <1>3, <1>4, KidType DEF TreeOK, KidsOK, Children
<1>6. x \in 1 .. Len(tree[f].kids) /\ tree[f].kids[x] = Last(n) /\ Len(tree[f].kids) \in Nat
  <2>1. DOMAIN tree[f].kids = 1 .. Len(tree[f].kids) /\ Len(tree[f].kids) \in Nat
    BY <1>5, LenProperties
  <2>2. \E i \in DOMAIN tree[f].kids : tree[f].kids[i] = Last(n)
    BY <1>5, <2>1 DEF Listed
  <2> QED
    BY <2>1, <2>2
<1>7. /\ cur' = [cur EXCEPT !.at = f] /\ kid' = 1 + x
      /\ vars_' = IF IsParam(Last(n)) THEN Front(vars_) ELSE vars_
      /\ tree' = tree /\ routes' = routes
  BY DEF Leave, NextKid, TakenBack
<1> HIDE DEF x, f
<1>8. /\ cur' \in Request /\ cur'.at = f /\ cur'.method = cur.method /\ cur'.path = cur.path
      /\ cur'.answer = cur.answer
  BY <1>2, <1>3, <1>7 DEF Request
<1>9. Held(f, cur.path, vars_')
  BY <1>1, <1>2, <1>7, HeldByCaller DEF f
<1>10. kid' = x + 1 /\ kid' \in Nat \ {0}
  BY <1>6, <1>7
<1>11. ASSUME NEW i \in DOMAIN routes, Wanted(routes[i], cur')
       PROVE  ToCome(routes[i].pattern, f, x + 1, tree, routes)
  <2>1. Wanted(routes[i], cur)
    BY <1>8, <1>11 DEF Wanted
  <2>2. ToCome(routes[i].pattern, n, kid, tree, routes) /\ ~Under(routes[i].pattern, n, kid, tree)
    BY <1>1, <2>1, NoneUnder
  <2>3. routes[i].pattern # n
    BY <1>1, <1>2 DEF TreeOK, Ended
  <2> HIDE DEF n
  <2> QED
    BY <1>1, <1>2, <1>6, <2>2, <2>3, LeavingKeeps DEF f
<1>12. AtNode(cur', tree', vars_') /\ AllToCome(cur', kid', tree', routes')
  BY <1>4, <1>7, <1>8, <1>9, <1>10, <1>11 DEF AtNode, AllToCome
<1>13. cur'.answer = "searching"
  BY <1>1, <1>8 DEF Searching
<1> QED
  BY <1>2, <1>7, <1>8, <1>10, <1>12, <1>13 DEF Inv, Searching, Routed

LEMMA MissKeeps ==
  ASSUME Inv, Miss
  PROVE  Inv'
<1>1. Searching /\ ~KidLeft /\ ~tree[cur.at].terminal /\ cur.at = Root
  BY DEF Miss
<1>2. TreeOK(tree, routes) /\ cur \in Request /\ cur.at \in DOMAIN tree
  BY <1>1, CallFacts
<1>3. /\ cur' = [cur EXCEPT !.answer = Unrouted(cur.method)] /\ kid' = 1
      /\ tree' = tree /\ routes' = routes
  BY DEF Miss
<1>4. /\ cur' \in Request /\ cur'.method = cur.method /\ cur'.path = cur.path
      /\ cur'.answer = Unrouted(cur.method)
  BY <1>2, <1>3, UnroutedIsNeither DEF Request
<1>5. cur'.answer # "searching" /\ cur'.answer # "handler"
  BY <1>4, UnroutedIsNeither
<1>6. ASSUME NEW i \in DOMAIN routes, Wanted(routes[i], cur') PROVE FALSE
  <2> DEFINE p == routes[i].pattern
  <2>1. Wanted(routes[i], cur)
    BY <1>4, <1>6 DEF Wanted
  <2>2. p \in Nodes /\ ToCome(p, Root, kid, tree, routes) /\ ~Under(p, Root, kid, tree)
    BY <1>1, <2>1, NoneUnder
  <2>3. p # Root
    BY <1>1, <1>2 DEF TreeOK, Ended
  <2>4. ~Below(p, Root)
    BY <2>2, <2>3, RootType, NodeType DEF Below
  <2>5. ~Elsewhere(p, Root, routes)
    BY RootType DEF Elsewhere
  <2> QED
    BY <2>2, <2>4, <2>5 DEF ToCome
<1>7. Missed(cur', routes')
  BY <1>3, <1>6 DEF Missed
<1> QED
  BY <1>2, <1>3, <1>4, <1>5, <1>7 DEF Inv, Searching, Routed

LEMMA InvNext == ASSUME Inv, [Next]_vars PROVE Inv'
<1>1. CASE \E m \in Methods, p \in Patterns : add_route(m, p)
  BY <1>1, AddRouteKeeps
<1>2. CASE \E t \in Texts, p \in Paths : dispatch_route(t, p)
  BY <1>2, DispatchKeeps
<1>3. CASE Search
  BY <1>3, DescendKeeps, PassByKeeps, AnswerKeeps, LeaveKeeps, MissKeeps DEF Search
<1>4. CASE UNCHANGED vars
  BY <1>4 DEF vars, Inv, Searching, Routed
<1> QED
  BY <1>1, <1>2, <1>3, <1>4 DEF Next

LEMMA Invariance == Spec => []Inv
<1> QED
  BY InvInit, InvNext, PTL DEF Spec

-----------------------------------------------------------------------------
(* The theorems *)

LEMMA AheadIsPrecedes == ASSUME NEW p, NEW q PROVE Ahead(p, q, routes) <=> Precedes(p, q)
  BY DEF Ahead, Precedes, Birth, BirthIn

LEMMA OwnIsRoutesFor == ASSUME NEW m, NEW n PROVE Own(m, n, routes) = RoutesFor(m, n)
  BY DEF Own, RoutesFor

LEMMA CandidatesAreWanted ==
  ASSUME NEW p
  PROVE  p \in Candidates(cur.method, cur.path)
           <=> \E i \in DOMAIN routes : Wanted(routes[i], cur) /\ p = routes[i].pattern
  BY Zenon DEF Candidates, Wanted

LEMMA HeldCovers == ASSUME Inv, AtNode(cur, tree, vars_) PROVE Covers(cur.at, cur.path)
  BY CoversType DEF Inv, AtNode, Held, Request

LEMMA InvMatchIsRight == ASSUME Inv PROVE MatchIsRight
<1> DEFINE wanted == Candidates(cur.method, cur.path)
           own == RoutesFor(cur.method, cur.at)
<1> SUFFICES ASSUME cur # Idle, ~Searching, ~Misled
             PROVE  IF wanted = {} THEN ~Routed
                    ELSE /\ Routed /\ cur.at \in wanted
                         /\ \A p \in wanted : ~Precedes(p, cur.at)
                         /\ cur.index = Max(own)
  BY Zenon DEF MatchIsRight
<1>1. CASE Routed
  <2>1. Covers(cur.at, cur.path) /\ Answered(cur, routes)
    BY <1>1, HeldCovers DEF Inv
  <2>2. ASSUME NEW p \in wanted PROVE ~Precedes(p, cur.at)
    <3>1. PICK i \in DOMAIN routes : Wanted(routes[i], cur) /\ p = routes[i].pattern
      BY <2>2, CandidatesAreWanted
    <3>2. ~Ahead(p, cur.at, routes)
      BY <2>1, <3>1 DEF Answered
    <3> QED
      BY <3>2, AheadIsPrecedes
  <2>3. own # {}
    <3>1. SUFFICES ASSUME own = {} PROVE cur.at \in Rivals(cur.method, cur.path)
      BY <1>1, <2>2, Zenon DEF Misled
    <3>2. PICK i \in DOMAIN routes : routes[i].pattern = cur.at
      BY <2>1, Zenon DEF Answered
    <3>3. Covers(routes[i].pattern, cur.path) /\ RoutesFor(cur.method, routes[i].pattern) = {}
      BY <2>1, <3>1, <3>2, Zenon
    <3> QED
      BY <3>2, <3>3, Zenon DEF Rivals
  <2>4. cur.at \in wanted
    <3>1. PICK i \in DOMAIN routes : routes[i] = [method |-> cur.method, pattern |-> cur.at]
      BY <2>3 DEF RoutesFor
    <3>2. Wanted(routes[i], cur) /\ cur.at = routes[i].pattern
      BY <2>1, <3>1 DEF Wanted
    <3> QED
      BY <3>2, CandidatesAreWanted
  <2>5. cur.index = Max(own)
    BY <2>1, <2>3, OwnIsRoutesFor, Zenon DEF Answered
  <2> QED
    BY <1>1, <2>2, <2>4, <2>5
<1>2. CASE ~Routed
  <2>1. Missed(cur, routes)
    BY <1>2 DEF Inv
  <2>2. ASSUME NEW p \in wanted PROVE FALSE
    BY <2>1, <2>2, CandidatesAreWanted DEF Missed
  <2> QED
    BY <1>2, <2>2
<1> QED
  BY <1>1, <1>2

LEMMA InvParamsAreOwn == ASSUME Inv PROVE ParamsAreOwn
<1> SUFFICES ASSUME Routed, cur.index # Unset, NEW name \in Names
             PROVE  LET named == {k \in DOMAIN cur.at :
                                    IsParam(cur.at[k]) /\ cur.at[k].label = name}
                        begun == {k \in DOMAIN cur.at :
                                    IsParam(cur.at[k]) /\ <<cur.at[k].label, name>> \in Begins}
                    IN (\A j \in begun : \E k \in named : k <= j)
                         => get_param(name) = IF named = {} THEN <<>>
                                              ELSE <<cur.path[Min(named)]>>
  BY DEF ParamsAreOwn
<1> DEFINE exact == {k \in DOMAIN cur.at : IsParam(cur.at[k]) /\ cur.at[k].label = name}
           named == {k \in DOMAIN cur.at : IsParam(cur.at[k]) /\ <<cur.at[k].label, name>> \in Begins}
           own == Own(cur.method, cur.at, routes)
<1> SUFFICES ASSUME \A j \in named : \E k \in exact : k <= j
             PROVE  get_param(name) = IF exact = {} THEN <<>> ELSE <<cur.path[Min(exact)]>>
  BY Zenon
<1>1. /\ Answered(cur, routes) /\ Held(cur.at, cur.path, vars_) /\ cur.at \in Nodes
      /\ TreeOK(tree, routes)
  BY DEF Inv, AtNode, Request
<1>2. DOMAIN cur.at = 1 .. Len(cur.at) /\ Len(cur.at) \in Nat
  BY <1>1, NodeType
<1>3. own # {} /\ cur.index = Max(own)
  BY <1>1, Zenon DEF Answered
<1>4. cur.index \in own
  <2>1. own \in SUBSET (1 .. Len(routes)) /\ Len(routes) \in Nat
    BY <1>1, RoutesType DEF Own, TreeOK
  <2> HIDE DEF own
  <2> QED
    BY <1>3, <2>1, GreatestOf
<1>5. routes[cur.index].pattern = cur.at
  BY <1>4 DEF Own
<1>6. get_param(name) = IF named = {} THEN <<>> ELSE <<vars_[Rank(cur.at, Min(named))]>>
  BY <1>5, Zenon DEF get_param
<1>7. ASSUME named # {} PROVE vars_[Rank(cur.at, Min(named))] = cur.path[Min(named)]
  <2>1. named \in SUBSET Nat
    BY <1>2
  <2>2. Min(named) \in named
    <3> HIDE DEF named
    <3> QED
      BY <1>7, <2>1, LeastOf
  <2>3. Min(named) \in 1 .. Len(cur.at) /\ IsParam(cur.at[Min(named)])
    BY <1>2, <2>2
  <2> HIDE DEF named
  <2> QED
    BY <1>1, <2>3 DEF Held
<1>8. exact \subseteq named /\ named \subseteq Nat
  BY <1>2, RouterAssumption
<1> HIDE DEF named, exact
<1>9. (exact = {} <=> named = {}) /\ (named # {} => Min(exact) = Min(named))
  <2>1. CASE named = {}
    BY <1>8, <2>1
  <2>2. CASE named # {}
    <3>1. Min(named) \in named /\ \A j \in named : Min(named) <= j
      BY <1>8, <2>2, LeastOf
    <3>2. PICK k \in exact : k <= Min(named)
      BY <3>1
    <3>3. Min(exact) \in exact /\ Min(exact) <= k
      BY <1>8, <3>2, LeastOf
    <3>4. Min(named) <= Min(exact) /\ Min(exact) \in Nat /\ Min(named) \in Nat /\ k \in Nat
      BY <1>8, <3>1, <3>2, <3>3
    <3> QED
      BY <2>2, <3>2, <3>3, <3>4
  <2> QED
    BY <2>1, <2>2
<1> QED
  BY <1>6, <1>7, <1>9

\* In every tree that add_route can build, the search with its backtracking ends at the
\* handler the list of routes asks for, and without one only where no route of the method
\* covers the path; but for a search that a terminal node of other methods stops before,
\* which Misled names (match, dispatch_route, insert_path).
THEOREM RightMatch == Spec => []MatchIsRight
<1> QED
  BY Invariance, InvMatchIsRight, PTL

\* get_param of the request dispatched last finds a label's level of its own path, whatever
\* branches were tried and left, unless an earlier label begins with the name (match,
\* get_param).
THEOREM OwnParams == Spec => []ParamsAreOwn
<1> QED
  BY Invariance, InvParamsAreOwn, PTL

\* The tree has a node for every prefix of a registered pattern and no other, every
\* node's children in the order in which their first routes came, and at the end of a
\* pattern the handler registered last for each of its methods (add_route, insert_path).
THEOREM RightTree == Spec => []TreeOK(tree, routes)
<1>1. Inv => TreeOK(tree, routes)
  BY DEF Inv
<1> QED
  BY Invariance, <1>1, PTL
=============================================================================

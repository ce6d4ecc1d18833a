--------------------------- MODULE LandingProofs ---------------------------
(***************************************************************************)
(* Lands, rescues and recoveries for any number of attempts, outsiders and *)
(* operator's changes, every landing mode, and any number of failures.     *)
(*                                                                         *)
(* First what merges, replays and the divergence rescue do to a history,   *)
(* then the shape of a reachable state, then one invariant per promise:    *)
(* verified content, one trailer per attempt, no silent drop, a checkout   *)
(* that moves with main, work that outlives a refusal, and the land log.   *)
(***************************************************************************)
EXTENDS Landing, SequenceTheorems, WellFoundedInduction, TLAPS

-----------------------------------------------------------------------------
(* Natural numbers.                                                        *)

\* Every nonempty set of natural numbers has a least element.
LEMMA Least ==
    ASSUME NEW T, T \subseteq Nat, T # {}
    PROVE  \E x \in T : \A y \in T : x <= y
<1>1. IsWellFoundedOn(OpToRel(<, Nat), Nat)
  BY NatLessThanWellFounded
<1>2. PICK x \in T : \A y \in T : ~ (<<y, x>> \in OpToRel(<, Nat))
  BY <1>1, WFMin
<1>3. ASSUME NEW y \in T
      PROVE  x <= y
  <2>1. <<y, x>> \notin OpToRel(<, Nat)
    BY <1>2
  <2>2. x \in Nat /\ y \in Nat
    OBVIOUS
  <2>3. ~ (y < x)
    BY <2>1, <2>2 DEF OpToRel
  <2>4. QED
    BY <2>2, <2>3
<1>4. QED
  BY <1>3

\* Induction, on a set of natural numbers.
LEMMA Induction ==
    ASSUME NEW S, 0 \in S, \A n \in Nat : n \in S => n + 1 \in S
    PROVE  Nat \subseteq S
<1>1. SUFFICES ASSUME Nat \ S # {}
               PROVE  FALSE
  OBVIOUS
<1>2. PICK x \in Nat \ S : \A y \in Nat \ S : x <= y
  BY <1>1, Least
<1>3. x # 0
  OBVIOUS
<1>4. x - 1 \in Nat /\ x - 1 \notin Nat \ S
  BY <1>2, <1>3
<1>5. (x - 1) + 1 \in S
  BY <1>4
<1>6. QED
  BY <1>5

\* A nonempty set of natural numbers below a bound has a greatest element.
LEMMA Greatest ==
    ASSUME NEW b \in Nat, NEW T, T \subseteq 0..b, T # {}
    PROVE  \E x \in T : \A y \in T : y <= x
<1> DEFINE U == {n \in Nat : b - n \in T}
<1>1. U # {}
  <2>1. PICK x \in T : TRUE
    OBVIOUS
  <2>2. b - x \in Nat /\ b - (b - x) = x
    BY <2>1
  <2>3. b - x \in U
    BY <2>1, <2>2
  <2>4. QED
    BY <2>3
<1>2. PICK n \in U : \A m \in U : n <= m
  BY <1>1, Least
<1>3. ASSUME NEW y \in T
      PROVE  y <= b - n
  <2>1. b - y \in Nat /\ b - (b - y) = y /\ y \in Nat
    OBVIOUS
  <2>2. b - y \in U
    BY <2>1
  <2>3. n <= b - y
    BY <2>2, <1>2
  <2>4. QED
    BY <2>1, <2>3
<1>4. QED
  BY <1>3, <1>2

-----------------------------------------------------------------------------
(* Histories.                                                              *)

\* A history begins with the root commit, and its trees only grow: a merge or
\* a replay adds what the other side did.
Monotone(h) == \A i, j \in 1..Len(h) : i <= j => h[i].tree \subseteq h[j].tree
History == {h \in Seq(Commit) : /\ Len(h) > 0
                                /\ h[1] = Root[1]
                                /\ Monotone(h)}

\* What a history is made of.
LEMMA HistoryParts ==
    ASSUME NEW h \in History
    PROVE  /\ h \in Seq(Commit) /\ h # <<>>
           /\ Len(h) \in Nat \ {0} /\ DOMAIN h = 1..Len(h)
           /\ \A i \in 1..Len(h) : h[i] \in Commit
           /\ Tree(h) = h[Len(h)].tree
           /\ Tree(h) \subseteq Change
           /\ \A i \in 1..Len(h) : h[i].tree \subseteq Tree(h)
<1>1. h \in Seq(Commit) /\ Len(h) \in Nat \ {0} /\ DOMAIN h = 1..Len(h)
  BY LenProperties DEF History
<1>2. \A i \in 1..Len(h) : h[i] \in Commit
  BY <1>1, ElementOfSeq
<1>3. Tree(h) = h[Len(h)].tree
  BY DEF Tree, Last
<1>4. Tree(h) \subseteq Change
  BY <1>1, <1>2, <1>3 DEF Commit
<1>5. \A i \in 1..Len(h) : h[i].tree \subseteq Tree(h)
  BY <1>1, <1>3 DEF History, Monotone
<1>6. QED
  BY <1>1, <1>2, <1>3, <1>4, <1>5

\* IsAncestor, commit by commit.
LEMMA PrefixPointwise ==
    ASSUME NEW g \in Seq(Commit), NEW h \in Seq(Commit)
    PROVE  IsAncestor(g, h) <=>
               Len(g) <= Len(h) /\ \A i \in 1..Len(g) : g[i] = h[i]
<1>1. Len(g) \in Nat /\ Len(h) \in Nat
  BY LenProperties
<1>2. SubSeq(g, 1, Len(g)) = g
  BY SubSeqFull
<1>3. ASSUME Len(g) <= Len(h)
      PROVE  /\ SubSeq(h, 1, Len(g)) \in Seq(Commit)
             /\ Len(SubSeq(h, 1, Len(g))) = Len(g)
             /\ \A i \in 1..Len(g) : SubSeq(h, 1, Len(g))[i] = h[i]
  <2>1. \A i \in 1..Len(g) : h[i] \in Commit
    BY <1>1, <1>3, ElementOfSeq
  <2>2. /\ SubSeq(h, 1, Len(g)) \in Seq(Commit)
        /\ Len(SubSeq(h, 1, Len(g))) = IF 1 <= Len(g) THEN Len(g) - 1 + 1 ELSE 0
        /\ \A i \in 1..Len(g) - 1 + 1 : SubSeq(h, 1, Len(g))[i] = h[1 + i - 1]
    BY <1>1, <2>1, SubSeqProperties
  <2>3. QED
    BY <1>1, <2>2
<1>4. ASSUME Len(g) <= Len(h), \A i \in 1..Len(g) : g[i] = h[i]
      PROVE  SubSeq(g, 1, Len(g)) = SubSeq(h, 1, Len(g))
  BY <1>1, <1>2, <1>3, <1>4, SeqEqual
<1>5. QED
  BY <1>1, <1>2, <1>3, <1>4 DEF IsAncestor, IsPrefix
LEMMA PrefixRefl ==
    ASSUME NEW h \in Seq(Commit)
    PROVE  IsAncestor(h, h)
<1>1. Len(h) \in Nat
  BY LenProperties
<1>2. QED
  BY <1>1, PrefixPointwise

LEMMA PrefixTrans ==
    ASSUME NEW f \in Seq(Commit), NEW g \in Seq(Commit), NEW h \in Seq(Commit),
           IsAncestor(f, g), IsAncestor(g, h)
    PROVE  IsAncestor(f, h)
<1>1. Len(f) \in Nat /\ Len(g) \in Nat /\ Len(h) \in Nat
  BY LenProperties
<1>2. Len(f) <= Len(g) /\ \A i \in 1..Len(f) : f[i] = g[i]
  BY PrefixPointwise
<1>3. Len(g) <= Len(h) /\ \A i \in 1..Len(g) : g[i] = h[i]
  BY PrefixPointwise
<1>4. Len(f) <= Len(h) /\ \A i \in 1..Len(f) : f[i] = h[i]
  BY <1>1, <1>2, <1>3
<1>5. QED
  BY <1>4, PrefixPointwise

\* An ancestor has no change that its descendant lacks.
LEMMA PrefixTree ==
    ASSUME NEW g \in History, NEW h \in History, IsAncestor(g, h)
    PROVE  Tree(g) \subseteq Tree(h)
<1>1. Len(g) <= Len(h) /\ \A i \in 1..Len(g) : g[i] = h[i]
  BY HistoryParts, PrefixPointwise
<1>2. Len(g) \in 1..Len(h) /\ g[Len(g)] = h[Len(g)]
  BY <1>1, HistoryParts
<1>3. QED
  BY <1>2, HistoryParts

\* The first commits of a history are a history.
LEMMA FirstCommits ==
    ASSUME NEW h \in History, NEW n \in 1..Len(h)
    PROVE  /\ SubSeq(h, 1, n) \in History
           /\ Len(SubSeq(h, 1, n)) = n
           /\ \A i \in 1..n : SubSeq(h, 1, n)[i] = h[i]
           /\ IsAncestor(SubSeq(h, 1, n), h)
           /\ Tree(SubSeq(h, 1, n)) = h[n].tree
<1> DEFINE g == SubSeq(h, 1, n)
<1>1. h \in Seq(Commit) /\ Len(h) \in Nat /\ n \in Nat /\ n > 0 /\ n <= Len(h)
  BY HistoryParts
<1>2. \A i \in 1..n : h[i] \in Commit
  BY <1>1, HistoryParts
<1>3. /\ g \in Seq(Commit)
      /\ Len(g) = IF 1 <= n THEN n - 1 + 1 ELSE 0
      /\ \A i \in 1..n - 1 + 1 : g[i] = h[1 + i - 1]
  BY <1>1, <1>2, SubSeqProperties
<1>4. Len(g) = n /\ \A i \in 1..n : g[i] = h[i]
  BY <1>1, <1>3
<1>5. g \in History
  <2>1. Monotone(g)
    BY <1>1, <1>4 DEF Monotone, History
  <2>2. g[1] = Root[1]
    BY <1>1, <1>4 DEF History
  <2>3. QED
    BY <1>1, <1>3, <1>4, <2>1, <2>2 DEF History
<1>6. IsAncestor(g, h)
  BY <1>1, <1>3, <1>4, PrefixPointwise
<1>7. Tree(g) = h[n].tree
  BY <1>1, <1>4 DEF Tree, Last
<1>8. QED
  BY <1>4, <1>5, <1>6, <1>7

\* A commit on top of a history.
LEMMA CommitOnTop ==
    ASSUME NEW h \in History, NEW c \in Commit, Tree(h) \subseteq c.tree
    PROVE  /\ Append(h, c) \in History
           /\ Len(Append(h, c)) = Len(h) + 1
           /\ \A i \in 1..Len(h) : Append(h, c)[i] = h[i]
           /\ Append(h, c)[Len(h) + 1] = c
           /\ IsAncestor(h, Append(h, c))
           /\ Tree(Append(h, c)) = c.tree
           /\ Append(h, c) # h
<1> DEFINE g == Append(h, c)
<1>1. h \in Seq(Commit) /\ Len(h) \in Nat \ {0}
  BY HistoryParts
<1>2. /\ g \in Seq(Commit) /\ Len(g) = Len(h) + 1
      /\ \A i \in 1..Len(h) : g[i] = h[i]
      /\ g[Len(h) + 1] = c
  BY <1>1, AppendProperties
<1> HIDE DEF g
<1>3. \A i \in 1..Len(h) : h[i].tree \subseteq c.tree
  BY HistoryParts
<1>4. Monotone(g)
  <2>1. SUFFICES ASSUME NEW i \in 1..Len(g), NEW j \in 1..Len(g), i <= j
                 PROVE  g[i].tree \subseteq g[j].tree
    BY DEF Monotone
  <2>2. CASE j <= Len(h)
    BY <1>1, <1>2, <2>1, <2>2 DEF History, Monotone
  <2>3. CASE j = Len(h) + 1
    BY <1>1, <1>2, <1>3, <2>1, <2>3
  <2>4. QED
    BY <1>1, <1>2, <2>1, <2>2, <2>3
<1>5. g \in History
  <2>1. 1 \in 1..Len(h)
    BY <1>1
  <2>2. g[1] = Root[1]
    BY <1>2, <2>1 DEF History
  <2>3. Len(g) > 0
    BY <1>1, <1>2
  <2>4. QED
    BY <1>2, <1>4, <2>2, <2>3 DEF History
<1>6. IsAncestor(h, g)
  BY <1>1, <1>2, PrefixPointwise
<1>7. Tree(g) = c.tree
  BY <1>1, <1>2 DEF Tree, Last
<1>8. g # h
  BY <1>1, <1>2
<1>9. QED
  BY <1>1, <1>2, <1>5, <1>6, <1>7, <1>8 DEF g

\* The ancestors of a history with one more commit.
LEMMA PrefixOfAppend ==
    ASSUME NEW g \in History, NEW h \in History, NEW c \in Commit,
           Tree(h) \subseteq c.tree, IsAncestor(g, Append(h, c))
    PROVE  IsAncestor(g, h) \/ g = Append(h, c)
<1> DEFINE k == Append(h, c)
<1>1. /\ k \in History /\ Len(k) = Len(h) + 1
      /\ \A i \in 1..Len(h) : k[i] = h[i]
  BY CommitOnTop
<1>2. /\ Len(g) \in Nat /\ Len(h) \in Nat
      /\ g \in Seq(Commit) /\ h \in Seq(Commit) /\ k \in Seq(Commit)
  BY <1>1, HistoryParts
<1>3. Len(g) <= Len(k) /\ \A i \in 1..Len(g) : g[i] = k[i]
  BY <1>2, PrefixPointwise
<1>4. CASE Len(g) <= Len(h)
  BY <1>1, <1>2, <1>3, <1>4, PrefixPointwise
<1>5. CASE Len(g) = Len(h) + 1
  BY <1>1, <1>2, <1>3, <1>5, SeqEqual
<1>6. QED
  BY <1>1, <1>2, <1>3, <1>4, <1>5

\* A history with the same length as its ancestor is that ancestor.
LEMMA PrefixAntisym ==
    ASSUME NEW g \in History, NEW h \in History, IsAncestor(g, h), IsAncestor(h, g)
    PROVE  g = h
<1>1. /\ Len(g) \in Nat /\ Len(h) \in Nat
      /\ g \in Seq(Commit) /\ h \in Seq(Commit)
  BY HistoryParts
<1>2. Len(g) <= Len(h) /\ Len(h) <= Len(g) /\ \A i \in 1..Len(g) : g[i] = h[i]
  BY <1>1, PrefixPointwise
<1>3. QED
  BY <1>1, <1>2, SeqEqual

-----------------------------------------------------------------------------
(* Merge bases, replays and the divergence rescue.                         *)

\* Any two histories have a merge base, and every common ancestor is one of it.
LEMMA MergeBaseProperties ==
    ASSUME NEW g \in History, NEW h \in History
    PROVE  /\ MergeBase(g, h) \in History
           /\ IsAncestor(MergeBase(g, h), g) /\ IsAncestor(MergeBase(g, h), h)
           /\ \A f \in History : IsAncestor(f, g) /\ IsAncestor(f, h) =>
                  Len(f) <= Len(MergeBase(g, h))
<1> DEFINE C == CommonPrefixes({g, h})
           Longest(x) == \A y \in C : Len(y) <= Len(x)
<1>1. /\ g \in Seq(Commit) /\ h \in Seq(Commit)
      /\ Len(g) \in Nat \ {0} /\ Len(h) \in Nat \ {0}
      /\ DOMAIN g = 1..Len(g) /\ DOMAIN h = 1..Len(h)
  BY HistoryParts
<1>2. ASSUME NEW f \in C
      PROVE  /\ f = <<>> \/ f \in History
             /\ f \in Seq(Commit) /\ IsAncestor(f, g) /\ IsAncestor(f, h)
  <2>1. /\ IsPrefix(f, g) /\ IsPrefix(f, h)
        /\ f \in Prefixes(g) \cup Prefixes(h)
    BY <1>2 DEF CommonPrefixes
  <2>2. \E k \in {g, h} : \E n \in 0..Len(k) : f = SubSeq(k, 1, n)
    BY <2>1 DEF Prefixes
  <2>3. f = <<>> \/ f \in History
    <3>1. PICK k \in {g, h} : \E n \in 0..Len(k) : f = SubSeq(k, 1, n)
      BY <2>2
    <3>2. PICK n \in 0..Len(k) : f = SubSeq(k, 1, n)
      BY <3>1
    <3>3. CASE n = 0
      BY <3>2, <3>3, SubSeqEmpty
    <3>4. CASE n \in 1..Len(k)
      BY <3>2, <3>4, FirstCommits
    <3>5. QED
      BY <1>1, <3>2, <3>3, <3>4
  <2>4. f \in Seq(Commit)
    BY <2>3, EmptySeq, HistoryParts
  <2>5. QED
    BY <2>1, <2>3, <2>4 DEF IsAncestor
<1>3. ASSUME NEW f \in History, IsAncestor(f, g), IsAncestor(f, h)
      PROVE  f \in C
  <2>1. /\ f \in Seq(Commit) /\ Len(f) \in Nat \ {0}
    BY HistoryParts
  <2>2. Len(f) <= Len(g)
    BY <1>1, <1>3, <2>1, PrefixPointwise
  <2>3. f = SubSeq(g, 1, Len(f))
    BY <1>3, <2>1, SubSeqFull DEF IsAncestor, IsPrefix
  <2>4. f \in Prefixes(g)
    <3>1. Len(f) \in 0..Len(g)
      BY <1>1, <2>1, <2>2
    <3>2. QED
      BY <2>3, <3>1, Zenon DEF Prefixes
  <2>5. QED
    BY <1>3, <2>4 DEF CommonPrefixes, IsAncestor
<1>4. SubSeq(g, 1, 1) \in C
  <2>1. 1 \in 1..Len(g) /\ 1 \in 1..Len(h)
    BY <1>1
  <2>2. /\ SubSeq(g, 1, 1) \in History /\ Len(SubSeq(g, 1, 1)) = 1
        /\ IsAncestor(SubSeq(g, 1, 1), g)
        /\ SubSeq(g, 1, 1)[1] = g[1]
    BY <2>1, FirstCommits
  <2>3. g[1] = h[1]
    BY DEF History
  <2> DEFINE r == SubSeq(g, 1, 1)
  <2>4. r \in Seq(Commit)
    BY <2>2, HistoryParts
  <2>5. Len(r) = 1 /\ r[1] = h[1]
    BY <2>2, <2>3
  <2>6. IsAncestor(r, h)
    <3> HIDE DEF r
    <3> QED
      BY <1>1, <2>4, <2>5, PrefixPointwise
  <2>7. QED
    BY <1>3, <2>2, <2>6
<1>5. \E x \in C : Longest(x)
  <2> DEFINE T == {Len(x) : x \in C}
  <2>1. \A x \in C : Len(x) \in 0..Len(g)
    BY <1>1, <1>2, LenProperties, PrefixPointwise
  <2>2. T \subseteq 0..Len(g) /\ T # {}
    BY <1>4, <2>1
  <2>3. PICK n \in T : \A m \in T : m <= n
    BY <1>1, <2>2, Greatest
  <2>4. PICK x \in C : Len(x) = n
    BY <2>3
  <2>5. \A y \in C : Len(y) <= Len(x)
    BY <2>3, <2>4
  <2>6. QED
    BY <2>5
<1>6. MergeBase(g, h) \in C /\ Longest(MergeBase(g, h))
  <2>1. MergeBase(g, h) = CHOOSE x \in C : Longest(x)
    BY DEF MergeBase, LongestCommonPrefix
  <2>2. QED
    BY <1>5, <2>1
<1>7. MergeBase(g, h) # <<>>
  <2>1. 1 \in 1..Len(g)
    BY <1>1
  <2>2. Len(SubSeq(g, 1, 1)) = 1
    BY <2>1, FirstCommits
  <2>3. Len(SubSeq(g, 1, 1)) <= Len(MergeBase(g, h))
    BY <1>4, <1>6
  <2>4. QED
    BY <2>2, <2>3, EmptySeq
<1>8. QED
  BY <1>2, <1>3, <1>6, <1>7
LEMMA FrontIsParent ==
    ASSUME NEW h \in History, Len(h) > 1
    PROVE  /\ Front(h) \in History /\ Len(Front(h)) = Len(h) - 1
           /\ \A i \in 1..Len(h) - 1 : Front(h)[i] = h[i]
           /\ IsAncestor(Front(h), h)
           /\ Tree(Front(h)) \subseteq Tree(h)
<1>1. Len(h) - 1 \in 1..Len(h)
  BY HistoryParts
<1>2. /\ Front(h) \in History /\ Len(Front(h)) = Len(h) - 1
      /\ \A i \in 1..Len(h) - 1 : Front(h)[i] = h[i]
      /\ IsAncestor(Front(h), h)
  BY <1>1, FirstCommits DEF Front
<1>3. QED
  BY <1>2, PrefixTree

LEMMA TrailersOnTop ==
    ASSUME NEW h \in History, NEW c \in Commit, Tree(h) \subseteq c.tree
    PROVE  Trailers(Append(h, c)) = Trailers(h) \cup {c.att}
<1> DEFINE g == Append(h, c)
<1>1. /\ g \in History /\ Len(g) = Len(h) + 1
      /\ \A i \in 1..Len(h) : g[i] = h[i]
      /\ g[Len(h) + 1] = c
  BY CommitOnTop
<1>2. DOMAIN g = 1..Len(h) + 1 /\ DOMAIN h = 1..Len(h) /\ Len(h) \in Nat
  BY <1>1, HistoryParts
<1> HIDE DEF g
<1>3. Trailers(g) = {g[i].att : i \in 1..Len(h) + 1}
  BY <1>2 DEF Trailers
<1>4. Trailers(h) = {h[i].att : i \in 1..Len(h)}
  BY <1>2 DEF Trailers
<1>5. ASSUME NEW x \in Trailers(g)
      PROVE  x \in Trailers(h) \cup {c.att}
  <2>1. PICK i \in 1..Len(h) + 1 : x = g[i].att
    BY <1>3, <1>5
  <2>2. CASE i \in 1..Len(h)
    BY <1>1, <1>4, <2>1, <2>2
  <2>3. CASE i = Len(h) + 1
    BY <1>1, <2>1, <2>3
  <2>4. QED
    BY <1>2, <2>1, <2>2, <2>3
<1>6. ASSUME NEW x \in Trailers(h) \cup {c.att}
      PROVE  x \in Trailers(g)
  <2>1. CASE x \in Trailers(h)
    <3>1. PICK i \in 1..Len(h) : x = h[i].att
      BY <1>4, <2>1
    <3>2. i \in 1..Len(h) + 1 /\ x = g[i].att
      BY <1>1, <1>2, <3>1
    <3>3. QED
      BY <1>3, <3>2
  <2>2. CASE x = c.att
    <3>1. Len(h) + 1 \in 1..Len(h) + 1
      BY <1>2
    <3>2. QED
      BY <1>1, <1>3, <2>2, <3>1
  <2>3. QED
    BY <1>6, <2>1, <2>2
<1>7. QED
  BY <1>5, <1>6 DEF g

\* No trailer is on two commits of a history.
Once(h) == \A i, j \in DOMAIN h : h[i].att = h[j].att /\ h[i].att # Nobody => i = j

LEMMA OnceOnTop ==
    ASSUME NEW h \in History, NEW c \in Commit, Tree(h) \subseteq c.tree,
           Once(h), c.att = Nobody \/ c.att \notin Trailers(h)
    PROVE  Once(Append(h, c))
<1> DEFINE g == Append(h, c)
<1>1. /\ g \in History /\ Len(g) = Len(h) + 1
      /\ \A i \in 1..Len(h) : g[i] = h[i]
      /\ g[Len(h) + 1] = c
  BY CommitOnTop
<1>2. DOMAIN g = 1..Len(h) + 1 /\ DOMAIN h = 1..Len(h) /\ Len(h) \in Nat
  BY <1>1, HistoryParts
<1>3. \A i \in 1..Len(h) : h[i].att # Nobody => h[i].att # c.att
  BY <1>2 DEF Trailers
<1> HIDE DEF g
<1>4. ASSUME NEW i \in 1..Len(h) + 1, NEW j \in 1..Len(h) + 1,
             g[i].att = g[j].att, g[i].att # Nobody
      PROVE  i = j
  <2>1. CASE i \in 1..Len(h) /\ j \in 1..Len(h)
    <3>1. g[i] = h[i] /\ g[j] = h[j]
      BY <1>1, <2>1
    <3>2. QED
      BY <1>2, <1>4, <2>1, <3>1 DEF Once
  <2>2. CASE i \in 1..Len(h) /\ j = Len(h) + 1
    BY <1>1, <1>3, <1>4, <2>2
  <2>3. CASE i = Len(h) + 1 /\ j \in 1..Len(h)
    BY <1>1, <1>3, <1>4, <2>3
  <2>4. QED
    BY <1>2, <2>1, <2>2, <2>3
<1>5. QED
  BY <1>2, <1>4 DEF Once, g

\* What a replay leaves: the tip, or one commit more with the same trailer.
LEMMA ReplayProperties ==
    ASSUME NEW tip \in History, NEW h \in History, Len(h) > 1
    PROVE  /\ Replay(tip, h) \in History
           /\ IsAncestor(tip, Replay(tip, h))
           /\ Tree(Replay(tip, h)) = Tree(tip) \cup (Tree(h) \ Tree(Front(h)))
           /\ \/ Replay(tip, h) = tip
              \/ \E c \in Commit : /\ Tree(tip) \subseteq c.tree /\ c.att = Last(h).att
                                   /\ Replay(tip, h) = Append(tip, c)
<1> DEFINE tree == Merged(Tree(Front(h)), Tree(tip), Tree(h))
           c == [Last(h) EXCEPT !.tree = tree]
<1>1. tree = Tree(tip) \cup (Tree(h) \ Tree(Front(h)))
  BY DEF Merged
<1>2. Tree(tip) \subseteq Change /\ Tree(h) \subseteq Change /\ tip \in Seq(Commit)
  BY HistoryParts
<1>3. c \in Commit /\ c.tree = tree /\ c.att = Last(h).att
  <2>1. Last(h) \in Commit
    BY HistoryParts DEF Last
  <2>2. tree \in SUBSET Change
    BY <1>1, <1>2
  <2> HIDE DEF tree
  <2>3. QED
    BY <2>1, <2>2 DEF Commit
<1>4. CASE tree = Tree(tip)
  <2>1. Replay(tip, h) = tip
    BY <1>4 DEF Replay
  <2>2. IsAncestor(tip, tip)
    BY <1>2, PrefixRefl
  <2>3. QED
    BY <1>1, <1>4, <2>1, <2>2
<1>5. CASE tree # Tree(tip)
  <2>1. Replay(tip, h) = Append(tip, c)
    BY <1>5 DEF Replay
  <2>2. Tree(tip) \subseteq c.tree
    BY <1>1, <1>3
  <2>3. /\ Append(tip, c) \in History /\ IsAncestor(tip, Append(tip, c))
        /\ Tree(Append(tip, c)) = c.tree
    BY <1>3, <2>2, CommitOnTop
  <2> HIDE DEF c, tree
  <2>4. QED
    BY <1>1, <1>3, <2>1, <2>2, <2>3
<1>6. QED
  BY <1>4, <1>5
\* The unpushed commits of h: each is h up to one commit past the merge base.
LEMMA UnpushedCommits ==
    ASSUME NEW target \in History, NEW h \in History
    PROVE  LET k == Len(MergeBase(h, target))
           IN /\ k \in 1..Len(h)
              /\ h[k].tree \subseteq Tree(target)
              /\ Len(Unpushed(target, h)) = Len(h) - k
              /\ \A i \in 1..Len(h) - k :
                     /\ Unpushed(target, h)[i] \in History
                     /\ Len(Unpushed(target, h)[i]) > 1
                     /\ Last(Unpushed(target, h)[i]) = h[k + i]
                     /\ Tree(Unpushed(target, h)[i]) = h[k + i].tree
                     /\ Tree(Front(Unpushed(target, h)[i])) = h[k + i - 1].tree
<1> DEFINE m == MergeBase(h, target)
           k == Len(m)
           u == Unpushed(target, h)
<1>1. m \in History /\ IsAncestor(m, h) /\ IsAncestor(m, target)
  BY MergeBaseProperties
<1> HIDE DEF m
<1>2. /\ k \in Nat \ {0} /\ Len(h) \in Nat \ {0}
      /\ m \in Seq(Commit) /\ h \in Seq(Commit)
  BY <1>1, HistoryParts
<1>3. k <= Len(h) /\ m[k] = h[k]
  <2>1. k <= Len(h) /\ \A i \in 1..k : m[i] = h[i]
    BY <1>1, <1>2, PrefixPointwise
  <2>2. k \in 1..k
    BY <1>2
  <2>3. QED
    BY <2>1, <2>2
<1>4. h[k].tree \subseteq Tree(target)
  <2>1. Tree(m) = m[k].tree
    BY <1>1, HistoryParts
  <2>2. Tree(m) \subseteq Tree(target)
    BY <1>1, PrefixTree
  <2>3. QED
    BY <1>3, <2>1, <2>2
<1> HIDE DEF k
<1>5. u = [i \in 1..(Len(h) - k) |-> SubSeq(h, 1, k + i)]
  BY DEF Unpushed, u, k, m
<1>6. Len(h) - k \in Nat
  BY <1>2, <1>3
<1> HIDE DEF u
<1>7. Len(u) = Len(h) - k
  BY <1>5, <1>6
<1>8. ASSUME NEW i \in 1..Len(h) - k
      PROVE  /\ u[i] \in History /\ Len(u[i]) > 1
             /\ Last(u[i]) = h[k + i]
             /\ Tree(u[i]) = h[k + i].tree
             /\ Tree(Front(u[i])) = h[k + i - 1].tree
  <2> DEFINE c == u[i]
             n == k + i
  <2>1. c = SubSeq(h, 1, n)
    BY <1>5
  <2>2. n \in 1..Len(h) /\ n > 1 /\ n - 1 \in 1..n
    BY <1>2, <1>3, <1>6
  <2> HIDE DEF c, n
  <2>3. /\ c \in History /\ Len(c) = n /\ \A j \in 1..n : c[j] = h[j]
        /\ Tree(c) = h[n].tree
    BY <2>1, <2>2, FirstCommits
  <2>4. Last(c) = h[n]
    BY <2>2, <2>3 DEF Last
  <2>5. Tree(Front(c)) = c[n - 1].tree
    <3>1. n - 1 \in 1..Len(c)
      BY <2>2, <2>3
    <3> DEFINE p == n - 1
    <3>2. Front(c) = SubSeq(c, 1, p)
      BY <2>3 DEF Front
    <3> HIDE DEF p
    <3>3. Tree(SubSeq(c, 1, p)) = c[p].tree
      BY <2>3, <3>1, FirstCommits DEF p
    <3>4. QED
      BY <3>2, <3>3 DEF p
  <2>6. c[n - 1] = h[n - 1]
    BY <2>2, <2>3
  <2>7. n - 1 = k + i - 1
    BY <1>2 DEF n
  <2>8. QED
    BY <2>2, <2>3, <2>4, <2>5, <2>6, <2>7 DEF c, n
<1>9. QED
  BY <1>2, <1>3, <1>4, <1>7, <1>8 DEF u, k, m

\* The steps of a rescue: the function its definition writes down exists.
LEMMA RescueSteps ==
    ASSUME NEW target \in History, NEW h \in History
    PROVE  LET todo == Unpushed(target, h)
           IN \E done :
                 /\ done[0] = [tip |-> target, lose |-> {}]
                 /\ \A i \in 1..Len(todo) : done[i] = ReplayOne(done[i - 1], todo[i])
                 /\ Rescue(target, h) = done[Len(todo)]
<1> DEFINE todo == Unpushed(target, h)
           first == [tip |-> target, lose |-> {}]
           G(d, n) == [i \in 0..n |-> IF i = 0 THEN first ELSE ReplayOne(d[i - 1], todo[i])]
           S == {n \in Nat : \E d : d = G(d, n)}
<1>1. Len(todo) \in Nat
  BY UnpushedCommits, HistoryParts
<1> HIDE DEF todo, first
<1>2. 0 \in S
  <2>1. [i \in 0..0 |-> first] = G([i \in 0..0 |-> first], 0)
    OBVIOUS
  <2>2. QED
    BY <2>1
<1>3. ASSUME NEW n \in Nat, n \in S
      PROVE  n + 1 \in S
  <2>1. PICK d : d = G(d, n)
    BY <1>3
  <2> DEFINE e == [i \in 0..n + 1 |-> IF i = n + 1 THEN ReplayOne(d[n], todo[n + 1]) ELSE d[i]]
  <2>2. ASSUME NEW i \in 0..n + 1
        PROVE  e[i] = IF i = 0 THEN first ELSE ReplayOne(e[i - 1], todo[i])
    <3>1. CASE i = 0
      BY <2>1, <3>1
    <3>2. CASE i \in 1..n
      <4>1. e[i] = d[i] /\ e[i - 1] = d[i - 1]
        BY <3>2
      <4>2. d[i] = ReplayOne(d[i - 1], todo[i])
        BY <2>1, <3>2
      <4>3. QED
        BY <3>2, <4>1, <4>2
    <3>3. CASE i = n + 1
      <4>1. e[i] = ReplayOne(d[n], todo[n + 1]) /\ e[i - 1] = d[n]
        BY <3>3
      <4>2. QED
        BY <3>3, <4>1
    <3>4. QED
      BY <3>1, <3>2, <3>3
  <2> HIDE DEF e
  <2>3. e = [i \in 0..n + 1 |-> e[i]]
    BY DEF e
  <2>4. e = G(e, n + 1)
    BY <2>2, <2>3
  <2>5. QED
    BY <2>4
<1>4. Len(todo) \in S
  BY <1>1, <1>2, <1>3, Induction
<1> DEFINE done == CHOOSE d : d = G(d, Len(todo))
<1>5. done = G(done, Len(todo))
  BY <1>4
<1>6. Rescue(target, h) = done[Len(todo)]
  BY DEF Rescue, todo, first
<1> HIDE DEF done
<1>7. /\ done[0] = first
      /\ \A i \in 1..Len(todo) : done[i] = ReplayOne(done[i - 1], todo[i])
  BY <1>1, <1>5
<1>8. QED
  BY <1>6, <1>7 DEF todo, first

\* What a rescue of h onto target leaves.  It is built on target and brings in
\* nothing that neither side had; what it drops of h, it names; and it puts no
\* trailer on two commits unless one of the two sides did.
LEMMA RescueProperties ==
    ASSUME NEW target \in History, NEW h \in History
    PROVE  LET r == Rescue(target, h)
               k == Len(MergeBase(h, target))
           IN /\ r.tip \in History /\ r.lose \subseteq Tree(h)
              /\ IsAncestor(target, r.tip)
              /\ Tree(r.tip) \subseteq Tree(target) \cup Tree(h)
              /\ Tree(h) \subseteq Tree(r.tip) \cup r.lose
              /\ \A i \in Len(target) + 1..Len(r.tip) :
                     \E j \in k + 1..Len(h) : r.tip[i].att = h[j].att
              /\ /\ Once(target) /\ Once(h)
                 /\ \A j \in k + 1..Len(h) :
                        h[j].att = Nobody \/ h[j].att \notin Trailers(target)
                 => Once(r.tip)
<1> DEFINE k == Len(MergeBase(h, target))
           N == Len(h) - k
           todo == Unpushed(target, h)
           Apart == /\ Once(target) /\ Once(h)
                    /\ \A j \in k + 1..Len(h) :
                           h[j].att = Nobody \/ h[j].att \notin Trailers(target)
           Good(acc, n) ==
               /\ acc = [tip |-> acc.tip, lose |-> acc.lose]
               /\ acc.tip \in History /\ acc.lose \subseteq Tree(h)
               /\ IsAncestor(target, acc.tip)
               /\ Tree(acc.tip) \subseteq Tree(target) \cup Tree(h)
               /\ h[k + n].tree \subseteq Tree(acc.tip) \cup acc.lose
               /\ \A i \in Len(target) + 1..Len(acc.tip) :
                      \E j \in k + 1..k + n : acc.tip[i].att = h[j].att
               /\ Apart => Once(acc.tip)
<1>1. /\ k \in 1..Len(h) /\ Len(h) \in Nat \ {0} /\ N \in Nat /\ Len(todo) = N
      /\ h[k].tree \subseteq Tree(target)
      /\ \A i \in 1..N : /\ todo[i] \in History /\ Len(todo[i]) > 1
                         /\ Last(todo[i]) = h[k + i]
                         /\ Tree(todo[i]) = h[k + i].tree
                         /\ Tree(Front(todo[i])) = h[k + i - 1].tree
  <2>1. Len(h) \in Nat \ {0}
    BY HistoryParts
  <2>2. /\ k \in 1..Len(h)
        /\ h[k].tree \subseteq Tree(target)
        /\ Len(todo) = N
        /\ \A i \in 1..N : /\ todo[i] \in History /\ Len(todo[i]) > 1
                           /\ Last(todo[i]) = h[k + i]
                           /\ Tree(todo[i]) = h[k + i].tree
                           /\ Tree(Front(todo[i])) = h[k + i - 1].tree
    BY UnpushedCommits, Zenon
  <2>3. N \in Nat
    BY <2>1, <2>2
  <2>4. QED
    BY <2>1, <2>2, <2>3
<1>2. PICK done : /\ done[0] = [tip |-> target, lose |-> {}]
                  /\ \A i \in 1..Len(todo) : done[i] = ReplayOne(done[i - 1], todo[i])
                  /\ Rescue(target, h) = done[Len(todo)]
  BY RescueSteps
<1>a. /\ h \in Seq(Commit) /\ target \in Seq(Commit)
      /\ DOMAIN h = 1..Len(h) /\ DOMAIN target = 1..Len(target)
      /\ Len(target) \in Nat \ {0}
      /\ \A i \in 1..Len(h) : h[i].tree \subseteq Tree(h)
  BY HistoryParts
<1> HIDE DEF k, N, todo, Apart
<1>3. Good(done[0], 0)
  <2>1. IsAncestor(target, target)
    BY <1>a, PrefixRefl
  <2>2. k + 0 = k
    BY <1>1
  <2>3. \A i \in Len(target) + 1..Len(target) : FALSE
    BY <1>a
  <2>4. Apart => Once(target)
    BY DEF Apart
  <2>5. QED
    BY <1>1, <1>2, <2>1, <2>2, <2>3, <2>4
<1>4. ASSUME NEW n \in Nat, n < N, Good(done[n], n)
      PROVE  Good(done[n + 1], n + 1)
  <2> DEFINE acc == done[n]
             c == todo[n + 1]
             own == Tree(c) \ Tree(Front(c))
             new == done[n + 1]
  <2>1. new = ReplayOne(acc, c)
    <3>1. n + 1 \in 1..Len(todo) /\ (n + 1) - 1 = n
      BY <1>1, <1>4
    <3>2. QED
      BY <1>2, <3>1
  <2>2. /\ c \in History /\ Len(c) > 1 /\ Last(c) = h[k + (n + 1)]
        /\ own = h[k + (n + 1)].tree \ h[k + n].tree
        /\ k + (n + 1) \in k + 1..Len(h)
        /\ k + (n + 1) \in 1..Len(h)
    <3>1. n + 1 \in 1..N /\ k + (n + 1) - 1 = k + n
      BY <1>1, <1>4
    <3>2. k + (n + 1) \in k + 1..Len(h) /\ k + (n + 1) \in 1..Len(h)
      BY <1>1, <1>4 DEF N
    <3>3. QED
      BY <1>1, <3>1, <3>2
  <2>3. own \subseteq Tree(h)
    BY <1>a, <2>2
  <2>4. /\ acc = [tip |-> acc.tip, lose |-> acc.lose]
        /\ acc.tip \in History /\ acc.lose \subseteq Tree(h)
        /\ IsAncestor(target, acc.tip)
        /\ Tree(acc.tip) \subseteq Tree(target) \cup Tree(h)
        /\ h[k + n].tree \subseteq Tree(acc.tip) \cup acc.lose
        /\ \A i \in Len(target) + 1..Len(acc.tip) :
               \E j \in k + 1..k + n : acc.tip[i].att = h[j].att
        /\ Apart => Once(acc.tip)
    BY <1>4
  <2>5. k + n \in Nat /\ k + n <= k + (n + 1)
    BY <1>1
  <2> HIDE DEF acc, c, own, new
  <2>6. CASE ReplayConflicts(acc.tip, c)
    <3>1. new = [tip |-> acc.tip, lose |-> acc.lose \cup own]
      BY <2>1, <2>4, <2>6 DEF ReplayOne, own
    <3>2. /\ new = [tip |-> new.tip, lose |-> new.lose]
          /\ new.tip = acc.tip /\ new.lose = acc.lose \cup own
      BY <3>1
    <3>3. \A i \in Len(target) + 1..Len(acc.tip) :
              \E j \in k + 1..k + (n + 1) : acc.tip[i].att = h[j].att
      BY <1>1, <2>4, <2>5
    <3>4. h[k + (n + 1)].tree \subseteq Tree(new.tip) \cup new.lose
      BY <2>2, <2>4, <3>2
    <3>5. Good(new, n + 1)
      BY <2>3, <2>4, <3>2, <3>3, <3>4
    <3>6. QED
      BY <3>5 DEF new
  <2>7. CASE ~ReplayConflicts(acc.tip, c)
    <3> DEFINE tip == Replay(acc.tip, c)
    <3>1. new = [tip |-> tip, lose |-> acc.lose]
      BY <2>1, <2>4, <2>7 DEF ReplayOne
    <3>2. /\ tip \in History /\ IsAncestor(acc.tip, tip)
          /\ Tree(tip) = Tree(acc.tip) \cup own
          /\ \/ tip = acc.tip
             \/ \E d \in Commit : /\ Tree(acc.tip) \subseteq d.tree
                                  /\ d.att = h[k + (n + 1)].att
                                  /\ tip = Append(acc.tip, d)
      BY <2>2, <2>4, ReplayProperties DEF own
    <3> HIDE DEF tip
    <3>3. /\ new = [tip |-> new.tip, lose |-> new.lose]
          /\ new.tip = tip /\ new.lose = acc.lose
      BY <3>1
    <3>4. IsAncestor(target, tip)
      <4>1. acc.tip \in Seq(Commit) /\ tip \in Seq(Commit)
        BY <2>4, <3>2, HistoryParts
      <4>2. QED
        BY <1>a, <2>4, <3>2, <4>1, PrefixTrans
    <3>5. h[k + (n + 1)].tree \subseteq Tree(tip) \cup acc.lose
      BY <2>2, <2>4, <3>2
    <3>6. Tree(tip) \subseteq Tree(target) \cup Tree(h)
      BY <2>3, <2>4, <3>2
    <3>7. CASE tip = acc.tip
      <4>1. \A i \in Len(target) + 1..Len(tip) :
                \E j \in k + 1..k + (n + 1) : tip[i].att = h[j].att
        BY <1>1, <2>4, <2>5, <3>7
      <4>2. Apart => Once(tip)
        BY <2>4, <3>7
      <4>3. Good(new, n + 1)
        BY <2>4, <3>2, <3>3, <3>4, <3>5, <3>6, <4>1, <4>2
      <4>4. QED
        BY <4>3 DEF new
    <3>8. CASE tip # acc.tip
      <4>1. PICK d \in Commit : /\ Tree(acc.tip) \subseteq d.tree
                                /\ d.att = h[k + (n + 1)].att
                                /\ tip = Append(acc.tip, d)
        BY <3>2, <3>8
      <4>2. /\ Len(tip) = Len(acc.tip) + 1
            /\ \A i \in 1..Len(acc.tip) : tip[i] = acc.tip[i]
            /\ tip[Len(acc.tip) + 1] = d
        BY <2>4, <4>1, CommitOnTop
      <4>a. /\ Len(acc.tip) \in Nat \ {0} /\ DOMAIN acc.tip = 1..Len(acc.tip)
            /\ acc.tip \in Seq(Commit)
        BY <2>4, HistoryParts
      <4>3. ASSUME NEW i \in Len(target) + 1..Len(tip)
            PROVE  \E j \in k + 1..k + (n + 1) : tip[i].att = h[j].att
        <5>1. CASE i \in Len(target) + 1..Len(acc.tip)
          <6>1. i \in 1..Len(acc.tip)
            BY <1>a, <4>a, <5>1
          <6>2. tip[i] = acc.tip[i]
            BY <4>2, <6>1
          <6>3. PICK j \in k + 1..k + n : acc.tip[i].att = h[j].att
            BY <2>4, <5>1
          <6>4. j \in k + 1..k + (n + 1)
            BY <1>1
          <6>5. QED
            BY <6>2, <6>3, <6>4
        <5>2. CASE i = Len(acc.tip) + 1
          <6>1. k + (n + 1) \in k + 1..k + (n + 1)
            BY <1>1
          <6>2. QED
            BY <4>1, <4>2, <5>2, <6>1
        <5>3. QED
          BY <1>a, <4>2, <4>a, <5>1, <5>2
      <4>4. ASSUME Apart
            PROVE  Once(tip)
        <5>1. Once(acc.tip)
          BY <2>4, <4>4
        <5>2. ASSUME d.att # Nobody, d.att \in Trailers(acc.tip)
              PROVE  FALSE
          <6>1. PICK i \in 1..Len(acc.tip) : acc.tip[i].att = d.att
            BY <4>a, <5>2 DEF Trailers
          <6>2. CASE i \in 1..Len(target)
            <7>1. acc.tip[i] = target[i]
              BY <1>a, <2>4, <4>a, <6>2, PrefixPointwise
            <7>2. d.att \in Trailers(target)
              BY <1>a, <6>1, <6>2, <7>1 DEF Trailers
            <7>3. QED
              BY <2>2, <4>1, <4>4, <5>2, <7>2 DEF Apart
          <6>3. CASE i \in Len(target) + 1..Len(acc.tip)
            <7>1. PICK j \in k + 1..k + n : acc.tip[i].att = h[j].att
              BY <2>4, <6>3
            <7>2. /\ j \in DOMAIN h /\ k + (n + 1) \in DOMAIN h
                  /\ j # k + (n + 1)
              BY <1>1, <1>a, <2>2
            <7>3. h[j].att = h[k + (n + 1)].att /\ h[j].att # Nobody
              BY <4>1, <5>2, <6>1, <7>1
            <7>4. QED
              BY <4>4, <7>2, <7>3 DEF Apart, Once
          <6>4. QED
            BY <1>a, <4>a, <6>2, <6>3
        <5>3. QED
          BY <2>4, <4>1, <5>1, <5>2, OnceOnTop
      <4>5. Good(new, n + 1)
        BY <2>4, <3>2, <3>3, <3>4, <3>5, <3>6, <4>3, <4>4
      <4>6. QED
        BY <4>5 DEF new
    <3>9. QED
      BY <3>7, <3>8
  <2>8. QED
    BY <2>6, <2>7
<1> DEFINE S == {n \in Nat : n <= N => Good(done[n], n)}
<1> HIDE DEF Good
<1>5. Nat \subseteq S
  <2>1. 0 \in S
    BY <1>3
  <2>2. ASSUME NEW n \in Nat, n \in S
        PROVE  n + 1 \in S
    <3>1. CASE n + 1 <= N
      <4>1. n < N /\ n <= N
        BY <1>1, <3>1
      <4>2. Good(done[n], n)
        BY <2>2, <4>1
      <4>3. Good(done[n + 1], n + 1)
        BY <1>4, <4>1, <4>2
      <4>4. QED
        BY <4>3
    <3>2. CASE ~(n + 1 <= N)
      BY <3>2
    <3>3. QED
      BY <3>1, <3>2
  <2> HIDE DEF S
  <2>3. QED
    BY <2>1, <2>2, Induction
<1>6. Good(done[N], N)
  <2>1. N \in S /\ N <= N
    BY <1>1, <1>5
  <2>2. QED
    BY <2>1
<1>7. k + N = Len(h)
  BY <1>1 DEF N
<1>8. Tree(h) = h[Len(h)].tree
  BY HistoryParts
<1>9. Rescue(target, h) = done[N]
  BY <1>1, <1>2
<1>10. QED
  BY <1>6, <1>7, <1>8, <1>9 DEF Good, Apart, k

\* A squash of a on h: one commit with the trailer, all of h and all of the
\* branch.  It is refused when h already has what the branch brings.
LEMMA SquashProperties ==
    ASSUME NEW h \in History, NEW a \in Attempt, branch[a] \in History, Stamp \in Nat
    PROVE  /\ \E c \in Commit : /\ c.att = a /\ Tree(h) \subseteq c.tree
                                /\ c.tree = Tree(h) \cup Tree(branch[a])
                                /\ Squash(h, a) = Append(h, c)
           /\ Tree(branch[a]) \subseteq Tree(h) => SquashFails(h, a)
<1> DEFINE mb == Tree(MergeBase(h, branch[a]))
           tree == Merged(mb, Tree(h), Tree(branch[a]))
           c == [tree |-> tree, att |-> a, n |-> Stamp]
<1>1. mb \subseteq Tree(h)
  BY MergeBaseProperties, PrefixTree
<1>2. Tree(h) \subseteq Change /\ Tree(branch[a]) \subseteq Change
  BY HistoryParts
<1>3. tree = Tree(h) \cup Tree(branch[a])
  <2> HIDE DEF mb
  <2> QED
    BY <1>1 DEF Merged
<1>4. c \in Commit /\ c.att = a /\ c.tree = tree
  <2>1. tree \in SUBSET Change
    BY <1>2, <1>3
  <2> HIDE DEF tree
  <2>2. QED
    BY <2>1 DEF Commit
<1>5. Squash(h, a) = Append(h, c)
  BY DEF Squash
<1>6. Tree(branch[a]) \subseteq Tree(h) => SquashFails(h, a)
  BY <1>3 DEF SquashFails
<1> HIDE DEF c, tree
<1>7. QED
  BY <1>3, <1>4, <1>5, <1>6

\* The commit of a resolver on h: h itself, or one commit with the trailer
\* that brings in what h lacks.
LEMMA CherryProperties ==
    ASSUME NEW h \in History, NEW a \in Attempt,
           resolved[a] \in History, Len(resolved[a]) > 1
    PROVE  LET own == Tree(resolved[a]) \ Tree(Front(resolved[a]))
           IN \/ Cherry(h, a) = h /\ own \subseteq Tree(h)
              \/ \E c \in Commit : /\ c.att = a /\ Tree(h) \subseteq c.tree
                                   /\ c.tree = Tree(h) \cup own
                                   /\ ~(own \subseteq Tree(h))
                                   /\ Cherry(h, a) = Append(h, c)
<1> DEFINE own == Tree(resolved[a]) \ Tree(Front(resolved[a]))
           g == Replay(h, resolved[a])
<1>1. /\ g \in History /\ Tree(g) = Tree(h) \cup own
      /\ \/ g = h
         \/ \E c \in Commit : Tree(h) \subseteq c.tree /\ g = Append(h, c)
  BY ReplayProperties
<1>2. Cherry(h, a) = IF resolved[a] = h \/ g = h THEN h
                     ELSE [g EXCEPT ![Len(g)].att = a]
  BY DEF Cherry
<1>3. own \subseteq Tree(resolved[a])
  OBVIOUS
<1>0. g # h => ~(own \subseteq Tree(h))
  <2>1. own = Tree(resolved[a]) \ Tree(Front(resolved[a]))
    OBVIOUS
  <2>2. ASSUME own \subseteq Tree(h)
        PROVE  g = h
    <3> HIDE DEF own
    <3>1. Merged(Tree(Front(resolved[a])), Tree(h), Tree(resolved[a])) = Tree(h)
      BY <2>1, <2>2 DEF Merged
    <3>2. QED
      BY <3>1 DEF Replay
  <2>3. QED
    BY <2>2
<1> HIDE DEF own, g
<1>4. CASE resolved[a] = h
  BY <1>2, <1>3, <1>4 DEF own
<1>5. CASE g = h
  BY <1>1, <1>2, <1>5 DEF own
<1>6. CASE resolved[a] # h /\ g # h
  <2>1. PICK d \in Commit : Tree(h) \subseteq d.tree /\ g = Append(h, d)
    BY <1>1, <1>6
  <2> DEFINE c == [d EXCEPT !.att = a]
             n == Len(h) + 1
  <2>2. /\ Tree(g) = d.tree /\ Len(g) = n /\ g[n] = d
        /\ \A i \in 1..Len(h) : g[i] = h[i]
    BY <2>1, CommitOnTop
  <2>3. c \in Commit /\ c.att = a /\ c.tree = d.tree
    BY DEF Commit
  <2>4. /\ Append(h, c) \in History
        /\ Len(Append(h, c)) = n /\ Append(h, c)[n] = c
        /\ \A i \in 1..Len(h) : Append(h, c)[i] = h[i]
    BY <2>1, <2>3, CommitOnTop
  <2>5. [g EXCEPT ![Len(g)].att = a] = Append(h, c)
    <3> DEFINE k == Append(h, c)
               e == [g EXCEPT ![Len(g)].att = a]
    <3>1. /\ DOMAIN g = 1..n /\ DOMAIN k = 1..n /\ n \in 1..n /\ Len(h) \in Nat
          /\ g = [i \in DOMAIN g |-> g[i]] /\ k = [i \in DOMAIN k |-> k[i]]
      <4>1. Len(h) \in Nat /\ Len(g) \in Nat /\ g \in Seq(Commit) /\ k \in Seq(Commit)
        BY <1>1, <2>4, HistoryParts
      <4>2. DOMAIN g = 1..n /\ DOMAIN k = 1..n
        BY <1>1, <2>2, <2>4, HistoryParts
      <4>3. QED
        BY <4>1, <4>2
    <3> HIDE DEF k, c
    <3>2. e = [i \in 1..n |-> IF i = n THEN [d EXCEPT !.att = a] ELSE g[i]]
      BY <2>2, <3>1
    <3>3. \A i \in 1..n : i = n \/ i \in 1..Len(h)
      BY <3>1
    <3>4. k = [i \in 1..n |-> IF i = n THEN c ELSE g[i]]
      BY <2>2, <2>4, <3>1, <3>3 DEF k
    <3>5. QED
      BY <3>2, <3>4 DEF c, k
  <2>6. d.tree = Tree(h) \cup own
    BY <1>1, <2>2
  <2>7. Cherry(h, a) = Append(h, c)
    BY <1>2, <1>6, <2>5
  <2> HIDE DEF c
  <2>8. QED
    BY <1>0, <1>6, <2>1, <2>3, <2>6, <2>7 DEF own
<1>7. QED
  BY <1>4, <1>5, <1>6

-----------------------------------------------------------------------------
(* The shape of a reachable state.                                         *)

Ref == History \cup {NoRef}
Refs == [Attempt -> Ref]
Pc == {"idle", "fetch", "adopt", "sync", "swap", "sync_advance", "produce",
       "push", "cas", "advance", "open_pr", "teardown", "report"}
Seen == [ref : {"main", "other", "detached"}, at : Ref]
Job == [kind : {"land", "adopt", "cherry", "sync"}, att : Attempt \cup {Nobody},
        pc : Pc, try : Nat, from : Ref, tip : Ref,
        lose : SUBSET Change, lost : SUBSET Change, seen : Seen,
        rerun : BOOLEAN,
        res : {"landed", "behind", "adopted", "transport", "no_changes",
               "conflict", "rejected"}]

\* The type of every variable.
TypeOK ==
    /\ origin \in History /\ local \in History /\ ever \subseteq Change
    /\ branch \in Refs /\ wip \in Refs /\ pr \in Refs
    /\ base \in Refs /\ head \in Refs /\ resolved \in Refs
    /\ phase \in [Attempt -> {"ready", "leased", "queued", "resolving", "done"}]
    /\ verdict \in [Attempt -> {"none", "landed", "behind", "adopted", "transport",
                                "no_changes", "conflict", "rejected", "interrupted"}]
    /\ job \in Job
    /\ throttled \in BOOLEAN
    /\ checkout \in [ref : {"main", "other", "detached"}, at : History, coherent : BOOLEAN]
    /\ dirty \subseteq Local /\ reported \subseteq Change
    /\ mgr \in {"up", "recovering"}
    /\ faults \in Nat /\ crashes \in Nat

\* Where each kind of job can be, and what it holds there.
JobShape ==
    /\ job.pc = "idle" => job = Idle
    /\ job.kind = "sync" =>
           job.att = Nobody /\ job.pc \in {"idle", "sync", "swap", "sync_advance"}
    /\ job.kind # "sync" => job.att \in Attempt
    /\ job.pc = "fetch" => job.att \in Remote
    /\ job.pc = "push" => Mode = "push"
    /\ job.kind \in {"land", "adopt"} => phase[job.att] = "queued"
    /\ job.kind = "adopt" => job.pc \in {"fetch", "adopt", "report"}
    /\ job.kind = "cherry" =>
           /\ phase[job.att] = "resolving"
           /\ job.pc \notin {"fetch", "adopt"}
    /\ job.pc \in {"swap", "sync_advance", "push", "cas", "advance", "open_pr"} =>
           job.tip \in History /\ job.from \in History
    /\ job.pc \in {"swap", "sync_advance", "push", "cas", "advance"} =>
           job.seen.at \in History

\* What the rows of an attempt say about its refs.  Past the fetch a land has
\* the submitted head for a branch, or none.
Past == {"sync", "swap", "sync_advance", "produce", "push", "cas"}
RowShape ==
    /\ \A a \in Attempt :
         /\ phase[a] # "ready" => base[a] \in History
         /\ phase[a] \in {"ready", "leased"} => head[a] = NoRef
         /\ head[a] # NoRef =>
                base[a] \in History /\ Tree(head[a]) = Tree(base[a]) \cup {a}
         /\ a \notin Remote => branch[a] \in {NoRef, base[a], head[a]}
         /\ phase[a] = "resolving" => Mode = "push" /\ resolved[a] # NoRef
         /\ resolved[a] # NoRef =>
                /\ Len(resolved[a]) > 1
                /\ Tree(resolved[a]) \ Tree(Front(resolved[a])) = {a}
    /\ job.kind = "land" /\ job.pc \in Past \cup {"adopt"} =>
           branch[job.att] \in {NoRef, head[job.att]}

Shape == TypeOK /\ JobShape /\ RowShape

-----------------------------------------------------------------------------
(* Only verified content.                                                  *)

\* What a superseded worker left is nowhere but on its WIP ref, and on the
\* branch that was fetched from there.
Clean(h) == h = NoRef \/ Stray \notin Tree(h)
NoStray ==
    /\ Stray \notin ever /\ Clean(origin) /\ Clean(local) /\ Clean(job.tip)
    /\ \A a \in Attempt : Clean(base[a]) /\ Clean(head[a]) /\ Clean(pr[a])
                          /\ Clean(resolved[a])

-----------------------------------------------------------------------------
(* One trailer per attempt.                                                *)

Before == {"fetch", "adopt", "sync", "swap", "sync_advance", "produce", "cas"}

\* The trailers of h are on commits that g has, too.
Shared(h, g) ==
    \A i \in 1..Len(h) : h[i].att # Nobody => IsAncestor(SubSeq(h, 1, i), g)

\* A commit with the trailer of an attempt contains its work and, while the
\* attempt is queued, all that it submitted.
Backed(c) ==
    \A a \in Attempt : c.att = a =>
        /\ a \in c.tree
        /\ phase[a] \notin {"ready", "leased"}
        /\ phase[a] = "queued" => head[a] # NoRef /\ Tree(head[a]) \subseteq c.tree
Stamped(h) == \A i \in 1..Len(h) : Backed(h[i])

\* With pushes, origin has every trailer of local main, and each is backed.
TrailersPushed ==
    Mode = "push" =>
        /\ Stamped(origin) /\ Shared(local, origin)
        /\ job.pc = "swap" => Shared(job.tip, origin)
        /\ job.pc = "push" => Stamped(job.tip)
        /\ job.pc = "cas" => IsAncestor(job.tip, origin)

\* Without, origin has no trailer, and local main has none of an attempt that is
\* still to be landed.
TrailersLocal ==
    Mode # "push" =>
        /\ Trailers(origin) = {Nobody}
        /\ \A a \in Attempt :
             a \in Trailers(local) =>
                 /\ phase[a] \notin {"ready", "leased"}
                 /\ phase[a] = "queued" => mgr = "recovering" \/ job.att = a
        /\ job.kind \in {"land", "adopt"} /\ job.pc \in Before =>
               job.att \notin Trailers(local)
        /\ job.pc = "swap" => Trailers(job.tip) \subseteq Trailers(job.from)
        /\ job.pc = "cas" => Trailers(job.tip) = Trailers(job.from) \cup {job.att}

TrailersOnce ==
    /\ Once(origin) /\ Once(local)
    /\ job.pc \in {"swap", "push", "cas"} => Once(job.tip)
    /\ TrailersPushed /\ TrailersLocal

USE DEF Pc
\* The root commit is a history.
LEMMA RootIsHistory ==
    /\ Root \in History /\ Len(Root) = 1 /\ Root[1].att = Nobody
    /\ Tree(Root) = {} /\ Trailers(Root) = {Nobody}
<1> DEFINE c == [tree |-> {}, att |-> Nobody, n |-> 0]
<1>1. c \in Commit
  BY DEF Commit
<1>2. Root = <<c>> /\ Len(Root) = 1 /\ Root[1] = c
  BY DEF Root
<1>3. Root \in Seq(Commit)
  BY <1>1, <1>2
<1>4. Monotone(Root)
  BY <1>2 DEF Monotone
<1>5. Root \in History
  BY <1>2, <1>3, <1>4 DEF History
<1>6. Tree(Root) = {}
  BY <1>2 DEF Tree, Last
<1>7. Trailers(Root) = {Nobody}
  BY <1>2 DEF Trailers
<1>8. QED
  BY <1>2, <1>5, <1>6, <1>7

\* An empty ref is no history.
LEMMA NoRefIsNone == NoRef \notin History
  BY HistoryParts DEF NoRef

LEMMA IdleIsJob == Idle \in Job
  BY DEF Idle, Job, Seen, Ref, NoRef

LEMMA IdleParts ==
    /\ Idle.kind = "sync" /\ Idle.att = Nobody /\ Idle.pc = "idle" /\ Idle.try = 0
    /\ Idle.tip = NoRef /\ Idle.from = NoRef /\ Idle.lost = {} /\ Idle.rerun = FALSE
  BY DEF Idle

LEMMA ShapeInit == Init => Shape
<1> SUFFICES ASSUME Init
             PROVE  Shape
  OBVIOUS
<1>1. TypeOK
  <2>1. NoRef \in Ref /\ [a \in Attempt |-> NoRef] \in Refs
    BY DEF Ref, Refs
  <2>2. job \in Job
    BY IdleIsJob DEF Init
  <2>3. QED
    BY <2>1, <2>2, RootIsHistory DEF Init, TypeOK
<1>2. JobShape
  BY DEF Init, JobShape, Idle
<1>3. RowShape
  BY DEF Init, RowShape, Idle, Past
<1>4. QED
  BY <1>1, <1>2, <1>3 DEF Shape

LEMMA ShapeStutter ==
    ASSUME Shape, UNCHANGED vars
    PROVE  Shape'
<1> USE DEF vars, repo, refs, rows, oper, ends
<1>1. TypeOK'
  BY DEF Shape, TypeOK
<1>2. JobShape'
  BY DEF Shape, JobShape
<1>3. RowShape'
  BY DEF Shape, RowShape
<1>4. QED
  BY <1>1, <1>2, <1>3 DEF Shape

LEMMA ShapeLandStart ==
    ASSUME Shape, NEW a \in Attempt, NEW r \in BOOLEAN, LandStart(a, r)
    PROVE  Shape'
<1> USE DEF repo, refs, rows, oper, ends
<1>1. /\ TypeOK /\ JobShape /\ RowShape
      /\ job'.kind \in {"land", "adopt"}
      /\ job'.kind = "adopt" <=> branch[a] = base[a]
      /\ job'.att = a /\ job'.pc \in {"fetch", "adopt"}
      /\ job'.pc = "fetch" <=> a \in Remote
      /\ job' \in Job
  BY IdleIsJob DEF Shape, LandStart, Idle, Job
<1>2. TypeOK'
  BY <1>1 DEF TypeOK, LandStart
<1>3. JobShape'
  BY <1>1 DEF JobShape, LandStart
<1>4. RowShape'
  BY <1>1 DEF RowShape, LandStart, Past
<1>5. QED
  BY <1>2, <1>3, <1>4 DEF Shape

\* The job goes on without a change of what it is about.
LEMMA JobGoes ==
    ASSUME job \in Job, NEW pc \in Pc, job' = [job EXCEPT !.pc = pc]
    PROVE  /\ job' \in Job /\ job'.pc = pc
           /\ job'.kind = job.kind /\ job'.att = job.att /\ job'.tip = job.tip
           /\ job'.from = job.from /\ job'.seen = job.seen /\ job'.lost = job.lost
           /\ job'.lose = job.lose /\ job'.res = job.res /\ job'.rerun = job.rerun
           /\ job'.try = job.try
  BY DEF Job

LEMMA JobEnds ==
    ASSUME job \in Job, NEW r \in {"landed", "behind", "adopted", "transport",
                                   "no_changes", "conflict", "rejected"},
           End(r)
    PROVE  /\ job' \in Job /\ job'.pc = "report" /\ job'.res = r
           /\ job'.kind = job.kind /\ job'.att = job.att /\ job'.tip = job.tip
           /\ job'.from = job.from /\ job'.seen = job.seen /\ job'.lost = job.lost
           /\ job'.rerun = job.rerun
  BY DEF Job, End

LEMMA ShapeLandFetch ==
    ASSUME Shape, LandFetch
    PROVE  Shape'
<1> USE DEF repo, refs, rows, oper, ends
<1> DEFINE a == job.att
<1>1. /\ TypeOK /\ JobShape /\ RowShape /\ job \in Job
      /\ a \in Attempt /\ job.pc = "fetch"
  BY DEF Shape, TypeOK, JobShape, LandFetch, At
<1>2. /\ job' \in Job /\ job'.kind = job.kind /\ job'.att = job.att
      /\ job'.pc \in {"adopt", "report"}
      /\ job'.pc = "adopt" => branch'[a] = head[a]
      /\ branch' \in Refs /\ a \in Remote
  BY <1>1, JobGoes, JobEnds DEF LandFetch, Goto, TypeOK, JobShape, Refs
<1>3. TypeOK'
  BY <1>1, <1>2 DEF TypeOK, LandFetch, Fault
<1>4. JobShape'
  BY <1>1, <1>2 DEF JobShape, LandFetch
<1>5. RowShape'
  <2>1. /\ UNCHANGED <<base, head, phase, resolved>>
        /\ \A b \in Attempt : b # a => branch'[b] = branch[b]
    BY <1>1 DEF LandFetch, TypeOK, Refs
  <2>2. QED
    BY <1>1, <1>2, <2>1 DEF RowShape, Past
<1>6. QED
  BY <1>3, <1>4, <1>5 DEF Shape

LEMMA ShapeLandAdopt ==
    ASSUME Shape, LandAdopt
    PROVE  Shape'
<1> USE DEF repo, refs, rows, oper, ends
<1> DEFINE a == job.att
<1>1. /\ TypeOK /\ JobShape /\ RowShape /\ job \in Job
      /\ a \in Attempt /\ job.pc = "adopt" /\ job.kind \in {"land", "adopt"}
  BY DEF Shape, TypeOK, JobShape, LandAdopt, At, Job
<1>2. /\ job' \in Job /\ job'.kind = job.kind /\ job'.att = job.att
      /\ job'.pc \in {"sync", "report"}
      /\ job'.pc = "sync" => job.kind = "land"
  BY <1>1, JobGoes, JobEnds DEF LandAdopt, Goto
<1>3. /\ origin' \in History /\ pr' \in Refs /\ branch' \in Refs
      /\ \A b \in Attempt : branch'[b] = branch[b] \/ branch'[b] = NoRef
      /\ UNCHANGED <<base, head, phase, resolved>>
  BY <1>1 DEF LandAdopt, TypeOK, Refs, Ref
<1>4. TypeOK'
  BY <1>1, <1>2, <1>3 DEF TypeOK, LandAdopt
<1>5. JobShape'
  BY <1>1, <1>2, <1>3, IdleParts DEF JobShape
<1>6. RowShape'
  BY <1>1, <1>2, <1>3, IdleParts DEF RowShape, Past
<1>7. QED
  BY <1>4, <1>5, <1>6 DEF Shape

\* What the checkout looks like, is a state it can be in.
LEMMA CheckoutSeen ==
    ASSUME TypeOK
    PROVE  CheckoutState \in Seen /\ CheckoutState.at \in History
  BY DEF TypeOK, CheckoutState, Seen, Ref

LEMMA SyncReturns ==
    ASSUME job \in Job,
           job' = IF job.kind = "sync" THEN Idle ELSE [job EXCEPT !.pc = "produce"]
    PROVE  /\ job' \in Job
           /\ \/ job.kind = "sync" /\ job' = Idle
              \/ /\ job.kind # "sync" /\ job'.pc = "produce"
                 /\ job'.kind = job.kind /\ job'.att = job.att /\ job'.tip = job.tip
                 /\ job'.lost = job.lost /\ job'.rerun = job.rerun
<1>1. CASE job.kind = "sync"
  BY <1>1, IdleIsJob
<1>2. CASE job.kind # "sync"
  BY <1>2, JobGoes
<1>3. QED
  BY <1>1, <1>2

\* What a sync is about to install: origin's main, or a rescue onto it.
LEMMA SyncChoice ==
    ASSUME Shape, Sync
    PROVE  /\ job.pc = "sync" /\ job.kind # "adopt" /\ job' \in Job
           /\ \/ job.kind = "sync" /\ job' = Idle
              \/ /\ job.kind # "sync" /\ job'.pc = "produce"
                 /\ job'.kind = job.kind /\ job'.att = job.att /\ job'.tip = job.tip
                 /\ job'.lost = job.lost /\ job'.rerun = job.rerun
              \/ /\ job'.pc = "swap" /\ job'.from = local
                 /\ job'.kind = job.kind /\ job'.att = job.att
                 /\ job'.lost = job.lost /\ job'.rerun = job.rerun
                 /\ job'.seen = CheckoutState
                 /\ \/ IsAncestor(local, origin) /\ job'.tip = origin /\ job'.lose = {}
                    \/ /\ job'.tip = Rescue(origin, local).tip
                       /\ job'.lose = Rescue(origin, local).lose
<1>1. /\ TypeOK /\ JobShape /\ job \in Job /\ job.pc = "sync" /\ job.kind # "adopt"
      /\ local \in History /\ origin \in History
  BY DEF Shape, TypeOK, JobShape, Sync, At
<1> DEFINE rescue == Rescue(origin, local)
<1>2. /\ origin \in Ref /\ local \in Ref /\ rescue.tip \in Ref
      /\ rescue.lose \in SUBSET Change /\ CheckoutState \in Seen
  BY <1>1, RescueProperties, CheckoutSeen, HistoryParts DEF Ref
<1> HIDE DEF rescue
<1> DEFINE behind == IsAncestor(local, origin)
           tip == IF behind THEN origin ELSE rescue.tip
           lose == IF behind THEN {} ELSE rescue.lose
           after == IF job.kind = "sync" THEN Idle ELSE [job EXCEPT !.pc = "produce"]
<1>3. \/ job' = after
      \/ job' = [job EXCEPT !.pc = "swap", !.from = local, !.tip = tip,
                            !.lose = lose, !.seen = CheckoutState]
  BY DEF Sync, rescue
<1>4. CASE job' = after
  BY <1>1, <1>4, SyncReturns
<1>5. CASE job' = [job EXCEPT !.pc = "swap", !.from = local, !.tip = tip,
                              !.lose = lose, !.seen = CheckoutState]
  <2>1. tip \in Ref /\ lose \in SUBSET Change
    BY <1>2
  <2> HIDE DEF tip, lose
  <2>2. /\ job' \in Job
        /\ job'.pc = "swap" /\ job'.from = local /\ job'.tip = tip
        /\ job'.lose = lose /\ job'.seen = CheckoutState
        /\ job'.kind = job.kind /\ job'.att = job.att
        /\ job'.lost = job.lost /\ job'.rerun = job.rerun
    BY <1>1, <1>2, <1>5, <2>1 DEF Job
  <2>3. QED
    BY <1>1, <2>2 DEF tip, lose, rescue
<1>6. QED
  BY <1>3, <1>4, <1>5

LEMMA ShapeSync ==
    ASSUME Shape, Sync
    PROVE  Shape'
<1> USE DEF repo, refs, rows, oper, ends
<1>1. /\ TypeOK /\ JobShape /\ RowShape /\ job \in Job
      /\ local \in History /\ origin \in History
  BY DEF Shape, TypeOK
<1>2. /\ job.pc = "sync" /\ job.kind # "adopt" /\ job' \in Job
      /\ \/ job' = Idle
         \/ /\ job'.kind = job.kind /\ job'.att = job.att
            /\ job'.pc = "produce" /\ job.kind # "sync"
         \/ /\ job'.kind = job.kind /\ job'.att = job.att
            /\ job'.pc = "swap" /\ job'.tip \in History /\ job'.from \in History
            /\ job'.seen.at \in History
  BY <1>1, SyncChoice, RescueProperties, CheckoutSeen
<1>3. UNCHANGED <<branch, base, head, phase, resolved>>
  BY DEF Sync
<1>4. TypeOK'
  <2>0. /\ throttled' = throttled \/ throttled' = TRUE
        /\ faults' = faults \/ faults' = faults + 1
        /\ UNCHANGED <<repo, refs, rows, oper, reported, mgr, crashes>>
    BY Zenon DEF Sync, Fault
  <2>1. throttled' \in BOOLEAN
    BY <1>1, <2>0, Zenon DEF TypeOK
  <2>3. faults' \in Nat
    BY <1>1, <2>0 DEF TypeOK
  <2>2. QED
    BY <1>1, <1>2, <2>0, <2>1, <2>3 DEF TypeOK
<1>5. JobShape'
  BY <1>1, <1>2, <1>3, IdleParts DEF JobShape
<1>6. RowShape'
  BY <1>1, <1>2, <1>3, IdleParts DEF RowShape, Past
<1>7. QED
  BY <1>4, <1>5, <1>6 DEF Shape

LEMMA ShapeSyncSwap ==
    ASSUME Shape, SyncSwap
    PROVE  Shape'
<1> USE DEF repo, refs, rows, oper, ends
<1>1. /\ TypeOK /\ JobShape /\ RowShape /\ job \in Job /\ job.pc = "swap"
      /\ job.tip \in History /\ job.from \in History /\ job.seen.at \in History
      /\ Tree(job.tip) \subseteq Change /\ job.kind # "adopt"
  BY HistoryParts DEF Shape, TypeOK, JobShape, SyncSwap, At
<1>2. /\ job' \in Job
      /\ \/ job' = Idle
         \/ /\ job'.kind = job.kind /\ job'.att = job.att
            /\ job'.pc = "produce" /\ job.kind # "sync"
         \/ /\ job'.kind = job.kind /\ job'.att = job.att
            /\ job'.pc = "sync_advance" /\ job'.tip = job.tip /\ job'.from = job.from
            /\ job'.seen = job.seen
  <2>1. CASE local = job.from
    <3>1. job' = [job EXCEPT !.pc = "sync_advance", !.lost = @ \cup job.lose]
      BY <2>1 DEF SyncSwap
    <3>2. job.lost \cup job.lose \in SUBSET Change
      BY <1>1 DEF Job
    <3>3. QED
      BY <1>1, <3>1, <3>2 DEF Job
  <2>2. CASE local # job.from
    BY <1>1, <2>2, SyncReturns DEF SyncSwap
  <2>3. QED
    BY <2>1, <2>2
<1>3. /\ UNCHANGED <<branch, base, head, phase, resolved>>
      /\ local' \in History /\ ever' \subseteq Change
  BY <1>1 DEF SyncSwap, TypeOK
<1>4. TypeOK'
  BY <1>1, <1>2, <1>3 DEF TypeOK, SyncSwap
<1>5. JobShape'
  BY <1>1, <1>2, <1>3, IdleParts DEF JobShape
<1>6. RowShape'
  BY <1>1, <1>2, <1>3, IdleParts DEF RowShape, Past
<1>7. QED
  BY <1>4, <1>5, <1>6 DEF Shape

\* Whatever advance_checkout does, it leaves a checkout.
LEMMA AdvancedIsCheckout ==
    ASSUME TypeOK, NEW seen \in Seen, seen.at \in History, NEW new \in History
    PROVE  Advanced(seen, new) \in
               [ref : {"main", "other", "detached"}, at : History, coherent : BOOLEAN]
  BY DEF TypeOK, Advanced

LEMMA ShapeSyncAdvance ==
    ASSUME Shape, SyncAdvance
    PROVE  Shape'
<1> USE DEF repo, refs, rows, oper, ends
<1>1. /\ TypeOK /\ JobShape /\ RowShape /\ job \in Job /\ job.pc = "sync_advance"
      /\ job.tip \in History /\ job.seen.at \in History /\ job.kind # "adopt"
      /\ job.seen \in Seen
  BY DEF Shape, TypeOK, JobShape, SyncAdvance, At, Job
<1>2. /\ job' \in Job
      /\ \/ job' = Idle
         \/ /\ job'.kind = job.kind /\ job'.att = job.att
            /\ job'.pc = "produce" /\ job.kind # "sync"
  BY <1>1, SyncReturns DEF SyncAdvance
<1>3. UNCHANGED <<branch, base, head, phase, resolved>>
  BY DEF SyncAdvance
<1>4. TypeOK'
  <2>1. checkout' \in [ref : {"main", "other", "detached"}, at : History, coherent : BOOLEAN]
    BY <1>1, AdvancedIsCheckout DEF SyncAdvance
  <2>2. QED
    BY <1>1, <1>2, <2>1 DEF TypeOK, SyncAdvance
<1>5. JobShape'
  BY <1>1, <1>2, <1>3, IdleParts DEF JobShape
<1>6. RowShape'
  BY <1>1, <1>2, <1>3, IdleParts DEF RowShape, Past
<1>7. QED
  BY <1>4, <1>5, <1>6 DEF Shape

\* What is produced on local main: main itself when a resolve is redundant, or
\* one commit more, with the trailer and the work of the attempt.
LEMMA ProducedOnTop ==
    ASSUME Shape, At("produce"), ~ProduceFails(local)
    PROVE  LET a == job.att
               t == Produced(local)
           IN /\ a \in Attempt
              /\ \/ t = local /\ job.kind = "cherry" /\ a \in Tree(local)
                 \/ \E c \in Commit :
                      /\ c.att = a /\ a \in c.tree /\ t = Append(local, c)
                      /\ Tree(local) \subseteq c.tree
                      /\ job.kind = "cherry" =>
                             c.tree = Tree(local) \cup {a} /\ a \notin Tree(local)
                      /\ job.kind # "cherry" =>
                             /\ job.kind = "land" /\ head[a] \in History
                             /\ branch[a] = head[a]
                             /\ c.tree = Tree(local) \cup Tree(head[a])
                             /\ ~(Tree(head[a]) \subseteq Tree(local))
<1> DEFINE a == job.att
<1>1. /\ TypeOK /\ JobShape /\ RowShape /\ job \in Job /\ job.pc = "produce"
      /\ a \in Attempt /\ job.kind \in {"land", "cherry"} /\ local \in History
  BY DEF Shape, TypeOK, JobShape, At, Job
<1>2. CASE job.kind = "cherry"
  <2>1. /\ resolved[a] \in History /\ Len(resolved[a]) > 1
        /\ Tree(resolved[a]) \ Tree(Front(resolved[a])) = {a}
    BY <1>1, <1>2 DEF JobShape, RowShape, TypeOK, Refs, Ref
  <2>2. Produced(local) = Cherry(local, a)
    BY <1>2 DEF Produced
  <2>3. \/ Cherry(local, a) = local /\ a \in Tree(local)
        \/ \E c \in Commit : /\ c.att = a /\ Tree(local) \subseteq c.tree
                             /\ c.tree = Tree(local) \cup {a}
                             /\ a \notin Tree(local)
                             /\ Cherry(local, a) = Append(local, c)
    BY <1>1, <2>1, CherryProperties
  <2>4. QED
    BY <1>1, <1>2, <2>2, <2>3
<1>3. CASE job.kind = "land"
  <2>1. ~SquashFails(local, a)
    BY <1>3 DEF ProduceFails
  <2>2. /\ branch[a] = head[a] /\ head[a] \in History
        /\ Tree(head[a]) = Tree(base[a]) \cup {a}
    <3>1. branch[a] # NoRef
      BY <2>1 DEF SquashFails
    <3>2. branch[a] = head[a]
      BY <1>1, <1>3, <3>1 DEF RowShape, Past
    <3>3. QED
      BY <1>1, <3>1, <3>2 DEF RowShape, TypeOK, Refs, Ref
  <2>3. Stamp \in Nat
    <3>1. crashes \in Nat /\ MaxRetries + 1 \in Nat /\ job.try \in Nat
      BY <1>1, LandingConstants DEF TypeOK, Job
    <3>2. crashes * (MaxRetries + 1) \in Nat
      BY <3>1
    <3>3. QED
      BY <3>1, <3>2 DEF Stamp
  <2>a. branch[a] \in History
    BY <2>2
  <2>4. PICK c \in Commit : /\ c.att = a /\ Tree(local) \subseteq c.tree
                            /\ c.tree = Tree(local) \cup Tree(branch[a])
                            /\ Squash(local, a) = Append(local, c)
    BY <1>1, <2>3, <2>a, SquashProperties
  <2>5. ~(Tree(head[a]) \subseteq Tree(local))
    BY <1>1, <2>1, <2>2, <2>3, SquashProperties
  <2>6. Produced(local) = Squash(local, a)
    BY <1>3 DEF Produced
  <2>7. a \in c.tree
    BY <2>2, <2>4
  <2>8. QED
    BY <1>1, <1>3, <2>2, <2>4, <2>5, <2>6, <2>7
<1>4. QED
  BY <1>1, <1>2, <1>3

LEMMA ShapeProduce ==
    ASSUME Shape, Produce
    PROVE  Shape'
<1> USE DEF repo, refs, rows, oper, ends
<1>1. /\ TypeOK /\ JobShape /\ RowShape /\ job \in Job /\ local \in History
      /\ job.pc = "produce" /\ job.kind \in {"land", "cherry"}
  BY DEF Shape, TypeOK, JobShape, Produce, At, Job
<1>2. /\ job' \in Job /\ job'.kind = job.kind /\ job'.att = job.att
      /\ \/ job'.pc = "report"
         \/ /\ job'.pc \in {"push", "cas"} /\ (job'.pc = "push" => Mode = "push")
            /\ job'.tip \in History /\ job'.from \in History /\ job'.seen.at \in History
  <2>1. CASE ProduceFails(local)
    BY <1>1, <2>1, JobEnds DEF Produce
  <2>2. CASE ~ProduceFails(local)
    <3> DEFINE t == Produced(local)
               pc == IF Mode = "push" THEN "push" ELSE "cas"
    <3>1. t \in History
      BY <1>1, <2>2, ProducedOnTop, CommitOnTop DEF Produce
    <3>2. CheckoutState \in Seen /\ CheckoutState.at \in History
      BY <1>1, CheckoutSeen
    <3>3. job' = [job EXCEPT !.pc = pc, !.from = local, !.tip = t, !.seen = CheckoutState]
      BY <2>2 DEF Produce
    <3>4. pc \in {"push", "cas"} /\ (pc = "push" => Mode = "push")
      OBVIOUS
    <3> HIDE DEF t, pc
    <3>5. QED
      BY <1>1, <3>1, <3>2, <3>3, <3>4 DEF Job, Ref
  <2>3. QED
    BY <2>1, <2>2
<1>3. UNCHANGED <<branch, base, head, phase, resolved>>
  BY DEF Produce
<1>4. TypeOK'
  BY <1>1, <1>2 DEF TypeOK, Produce
<1>5. JobShape'
  BY <1>1, <1>2, <1>3 DEF JobShape
<1>6. RowShape'
  BY <1>1, <1>2, <1>3 DEF RowShape, Past
<1>7. QED
  BY <1>4, <1>5, <1>6 DEF Shape

\* A retry goes back to the sync; the last one ends in a rejection.
LEMMA RetryGoes ==
    ASSUME job \in Job, Retry
    PROVE  /\ job' \in Job /\ job'.kind = job.kind /\ job'.att = job.att
           /\ job'.tip = job.tip /\ job'.lost = job.lost /\ job'.rerun = job.rerun
           /\ \/ job'.pc = "sync"
              \/ job'.pc = "report" /\ job'.res = "rejected"
<1>1. CASE (Syncs \/ Mode # "push") /\ job.try < MaxRetries
  <2> DEFINE t == job.try + 1
  <2>1. job' = [job EXCEPT !.pc = "sync", !.try = t]
    BY <1>1 DEF Retry
  <2>2. t \in Nat
    BY DEF Job
  <2> HIDE DEF t
  <2>3. QED
    BY <2>1, <2>2 DEF Job
<1>2. CASE ~((Syncs \/ Mode # "push") /\ job.try < MaxRetries)
  BY <1>2, JobEnds DEF Retry
<1>3. QED
  BY <1>1, <1>2

LEMMA ShapePush ==
    ASSUME Shape, Push
    PROVE  Shape'
<1> USE DEF repo, refs, rows, oper, ends
<1>1. /\ TypeOK /\ JobShape /\ RowShape /\ job \in Job
      /\ job.pc = "push" /\ job.kind \in {"land", "cherry"}
      /\ job.tip \in History /\ job.from \in History /\ job.seen.at \in History
  BY DEF Shape, TypeOK, JobShape, Push, At, Job
<1>2. /\ job' \in Job /\ job'.kind = job.kind /\ job'.att = job.att
      /\ \/ job'.pc = "report"
         \/ job'.pc = "sync" /\ UNCHANGED origin
         \/ /\ job'.pc = "cas" /\ job'.tip = job.tip /\ job'.from = job.from
            /\ job'.seen = job.seen
  BY <1>1, RetryGoes, JobGoes DEF Push, Goto
<1>3. UNCHANGED <<branch, base, head, phase, resolved>>
  BY DEF Push
<1>4. TypeOK'
  <2>1. origin' \in History /\ faults' \in Nat
    BY <1>1 DEF Push, Fault, TypeOK
  <2>2. QED
    BY <1>1, <1>2, <2>1 DEF TypeOK, Push
<1>5. JobShape'
  BY <1>1, <1>2, <1>3 DEF JobShape
<1>6. RowShape'
  BY <1>1, <1>2, <1>3 DEF RowShape, Past
<1>7. QED
  BY <1>4, <1>5, <1>6 DEF Shape

LEMMA ShapeCas ==
    ASSUME Shape, Cas
    PROVE  Shape'
<1> USE DEF repo, refs, rows, oper, ends
<1>1. /\ TypeOK /\ JobShape /\ RowShape /\ job \in Job
      /\ job.pc = "cas" /\ job.kind \in {"land", "cherry"}
      /\ job.tip \in History /\ job.from \in History /\ job.seen.at \in History
      /\ Tree(job.tip) \subseteq Change
  BY HistoryParts DEF Shape, TypeOK, JobShape, Cas, At, Job
<1>2. /\ job' \in Job /\ job'.kind = job.kind /\ job'.att = job.att
      /\ \/ job'.pc \in {"report", "sync", "teardown"}
         \/ /\ job'.pc = "advance" /\ job'.tip = job.tip /\ job'.from = job.from
            /\ job'.seen = job.seen
  <2>1. CASE local = job.from
    BY <1>1, <2>1, JobGoes DEF Cas, Goto
  <2>2. CASE local # job.from /\ Mode = "push"
    <3>1. job' = [job EXCEPT !.pc = "teardown", !.res = "landed"]
      BY <2>2 DEF Cas
    <3>2. QED
      BY <1>1, <3>1 DEF Job
  <2>3. CASE local # job.from /\ Mode # "push"
    BY <1>1, <2>3, RetryGoes DEF Cas
  <2>4. QED
    BY <2>1, <2>2, <2>3
<1>3. /\ UNCHANGED <<branch, base, head, phase, resolved>>
      /\ local' \in History /\ ever' \subseteq Change
  BY <1>1 DEF Cas, TypeOK
<1>4. TypeOK'
  BY <1>1, <1>2, <1>3 DEF TypeOK, Cas
<1>5. JobShape'
  BY <1>1, <1>2, <1>3 DEF JobShape
<1>6. RowShape'
  BY <1>1, <1>2, <1>3 DEF RowShape, Past
<1>7. QED
  BY <1>4, <1>5, <1>6 DEF Shape

LEMMA ShapeAdvance ==
    ASSUME Shape, Advance
    PROVE  Shape'
<1> USE DEF repo, refs, rows, oper, ends
<1>1. /\ TypeOK /\ JobShape /\ RowShape /\ job \in Job
      /\ job.pc = "advance" /\ job.kind \in {"land", "cherry"}
      /\ job.tip \in History /\ job.from \in History
      /\ job.seen \in Seen /\ job.seen.at \in History
  BY DEF Shape, TypeOK, JobShape, Advance, At, Job
<1>2. /\ job' \in Job /\ job'.kind = job.kind /\ job'.att = job.att
      /\ job'.pc \in {"open_pr", "teardown"} /\ job'.tip = job.tip
      /\ job'.from = job.from
  <2> DEFINE pc == IF Mode = "pr" THEN "open_pr" ELSE "teardown"
             res == IF LeftBehind(job.seen, job.tip) THEN "behind" ELSE "landed"
  <2>1. job' = [job EXCEPT !.pc = pc, !.res = res]
    BY DEF Advance
  <2>2. pc \in {"open_pr", "teardown"} /\ res \in {"behind", "landed"}
    OBVIOUS
  <2> HIDE DEF pc, res
  <2>3. QED
    BY <1>1, <2>1, <2>2 DEF Job
<1>3. /\ UNCHANGED <<branch, base, head, phase, resolved>>
      /\ checkout' \in [ref : {"main", "other", "detached"}, at : History, coherent : BOOLEAN]
  BY <1>1, AdvancedIsCheckout DEF Advance
<1>4. TypeOK'
  BY <1>1, <1>2, <1>3 DEF TypeOK, Advance
<1>5. JobShape'
  BY <1>1, <1>2, <1>3 DEF JobShape
<1>6. RowShape'
  BY <1>1, <1>2, <1>3 DEF RowShape, Past
<1>7. QED
  BY <1>4, <1>5, <1>6 DEF Shape

LEMMA ShapeOpenPr ==
    ASSUME Shape, OpenPr
    PROVE  Shape'
<1> USE DEF repo, refs, rows, oper, ends
<1>1. /\ TypeOK /\ JobShape /\ RowShape /\ job \in Job
      /\ job.pc = "open_pr" /\ job.kind \in {"land", "cherry"}
      /\ job.tip \in History
  BY DEF Shape, TypeOK, JobShape, OpenPr, At, Job
<1>2. /\ job' \in Job /\ job'.kind = job.kind /\ job'.att = job.att
      /\ job'.pc = "teardown"
  BY <1>1, JobGoes DEF OpenPr, Goto
<1>3. /\ UNCHANGED <<branch, base, head, phase, resolved>>
      /\ pr' \in Refs /\ faults' \in Nat
  BY <1>1 DEF OpenPr, Fault, TypeOK, Refs, Ref
<1>4. TypeOK'
  BY <1>1, <1>2, <1>3 DEF TypeOK, OpenPr
<1>5. JobShape'
  BY <1>1, <1>2, <1>3 DEF JobShape
<1>6. RowShape'
  BY <1>1, <1>2, <1>3 DEF RowShape, Past
<1>7. QED
  BY <1>4, <1>5, <1>6 DEF Shape

LEMMA ShapeTeardown ==
    ASSUME Shape, Teardown
    PROVE  Shape'
<1> USE DEF repo, refs, rows, oper, ends
<1>1. /\ TypeOK /\ JobShape /\ RowShape /\ job \in Job
      /\ job.pc = "teardown" /\ job.kind \in {"land", "cherry"}
  BY DEF Shape, TypeOK, JobShape, Teardown, At, Job
<1>2. /\ job' \in Job /\ job'.kind = job.kind /\ job'.att = job.att
      /\ job'.pc = "report"
  BY <1>1, JobGoes DEF Teardown, Goto
<1>3. /\ UNCHANGED <<base, head, phase, resolved>>
      /\ branch' \in Refs /\ wip' \in Refs
      /\ \A b \in Attempt : branch'[b] = branch[b] \/ branch'[b] = NoRef
  BY <1>1 DEF Teardown, TypeOK, Refs, Ref
<1>4. TypeOK'
  BY <1>1, <1>2, <1>3 DEF TypeOK, Teardown
<1>5. JobShape'
  BY <1>1, <1>2, <1>3 DEF JobShape
<1>6. RowShape'
  BY <1>1, <1>2, <1>3 DEF RowShape, Past
<1>7. QED
  BY <1>4, <1>5, <1>6 DEF Shape

LEMMA ShapeReport ==
    ASSUME Shape, ReportLand \/ ReportResolve
    PROVE  Shape'
<1> USE DEF repo, refs, rows, oper, ends
<1> DEFINE a == job.att
<1>1. /\ TypeOK /\ JobShape /\ RowShape /\ job \in Job
      /\ job.kind \in {"land", "adopt", "cherry"} /\ a \in Attempt
      /\ job.res \in {"landed", "behind", "adopted", "transport", "no_changes",
                      "conflict", "rejected"}
      /\ job.lost \subseteq Change
  BY DEF Shape, TypeOK, JobShape, ReportLand, ReportResolve, Job
<1>2. job' = Idle /\ Idle \in Job
  BY IdleIsJob DEF ReportLand, ReportResolve
<1>3. /\ UNCHANGED <<branch, base, head, resolved>>
      /\ phase' = [phase EXCEPT ![a] = "done"]
      /\ \E v \in {"landed", "behind", "adopted", "transport", "no_changes",
                   "conflict", "rejected"} :
             verdict' = verdict \/ verdict' = [verdict EXCEPT ![a] = v]
      /\ reported' \subseteq Change
  BY <1>1 DEF ReportLand, ReportResolve, TypeOK
<1>4. TypeOK'
  <2>1. UNCHANGED <<repo, refs, base, head, resolved, throttled, oper, mgr, ends>>
    BY DEF ReportLand, ReportResolve
  <2>2. /\ phase' \in [Attempt -> {"ready", "leased", "queued", "resolving", "done"}]
        /\ verdict' \in [Attempt -> {"none", "landed", "behind", "adopted", "transport",
                                "no_changes", "conflict", "rejected", "interrupted"}]
    BY <1>1, <1>3 DEF TypeOK
  <2>3. QED
    BY <1>1, <1>2, <1>3, <2>1, <2>2 DEF TypeOK
<1>5. JobShape'
  BY <1>2, IdleParts DEF JobShape
<1>6. RowShape'
  <2>1. phase[a] # "ready"
    BY <1>1 DEF JobShape
  <2>2. \A b \in Attempt : \/ phase'[b] = phase[b]
                           \/ phase'[b] = "done" /\ phase[b] # "ready"
    BY <1>1, <1>3, <2>1 DEF TypeOK
  <2>3. QED
    BY <1>1, <1>2, <1>3, <2>2, IdleParts DEF RowShape
<1>7. QED
  BY <1>4, <1>5, <1>6 DEF Shape

\* Steps that leave the job, the rows and the branches alone.
LEMMA ShapeOutside ==
    ASSUME Shape, TypeOK', UNCHANGED <<job, branch, base, head, phase, resolved>>
    PROVE  Shape'
<1>1. JobShape'
  BY DEF Shape, JobShape
<1>2. RowShape'
  BY DEF Shape, RowShape
<1>3. QED
  BY <1>1, <1>2 DEF Shape

\* A commit with one more change, as an agent, the operator or an outsider makes.
LEMMA PlainCommit ==
    ASSUME NEW h \in History, NEW x \in Change
    PROVE  LET c == [tree |-> Tree(h) \cup {x}, att |-> Nobody, n |-> 0]
           IN /\ c \in Commit /\ c.att = Nobody /\ c.tree = Tree(h) \cup {x}
              /\ Tree(h) \subseteq c.tree
              /\ Append(h, c) \in History /\ IsAncestor(h, Append(h, c))
              /\ Tree(Append(h, c)) = Tree(h) \cup {x}
<1> DEFINE c == [tree |-> Tree(h) \cup {x}, att |-> Nobody, n |-> 0]
<1>1. Tree(h) \subseteq Change
  BY HistoryParts
<1>2. c \in Commit /\ c.tree = Tree(h) \cup {x} /\ Tree(h) \subseteq c.tree /\ c.att = Nobody
  BY <1>1 DEF Commit
<1> HIDE DEF c
<1>3. QED
  BY <1>2, CommitOnTop DEF c

LEMMA ShapeForeignPush ==
    ASSUME Shape, NEW c \in Foreign, ForeignPush(c)
    PROVE  Shape'
<1> USE DEF repo, refs, rows, oper, ends
<1>1. TypeOK /\ origin \in History /\ c \in Change
  BY DEF Shape, TypeOK, Change
<1>2. origin' \in History
  BY <1>1, PlainCommit DEF ForeignPush
<1>3. TypeOK'
  BY <1>1, <1>2 DEF TypeOK, ForeignPush
<1>4. QED
  BY <1>3, ShapeOutside DEF ForeignPush

\* The squash of a pull request on GitHub.
LEMMA GithubSquash ==
    ASSUME TypeOK, NEW a \in Attempt, GithubMerge(a)
    PROVE  \E c \in Commit : /\ c.att = Nobody
                             /\ c.tree = Tree(origin) \cup Tree(pr[a])
                             /\ Tree(origin) \subseteq c.tree
                             /\ origin' = Append(origin, c)
<1> DEFINE mb == Tree(MergeBase(origin, pr[a]))
           tree == Merged(mb, Tree(origin), Tree(pr[a]))
           c == [tree |-> tree, att |-> Nobody, n |-> 0]
<1>1. origin \in History /\ pr[a] \in History
  BY DEF TypeOK, GithubMerge, Refs, Ref
<1>2. mb \subseteq Tree(origin)
  BY <1>1, MergeBaseProperties, PrefixTree
<1>3. Tree(origin) \subseteq Change /\ Tree(pr[a]) \subseteq Change
  BY <1>1, HistoryParts
<1>4. tree = Tree(origin) \cup Tree(pr[a])
  <2> HIDE DEF mb
  <2> QED
    BY <1>2 DEF Merged
<1>5. c \in Commit /\ c.att = Nobody /\ c.tree = tree
  <2>1. tree \in SUBSET Change
    BY <1>3, <1>4
  <2> HIDE DEF tree
  <2>2. QED
    BY <2>1 DEF Commit
<1>6. origin' = Append(origin, c)
  BY DEF GithubMerge
<1> HIDE DEF c, tree
<1>7. QED
  BY <1>4, <1>5, <1>6

LEMMA ShapeGithubMerge ==
    ASSUME Shape, NEW a \in Attempt, GithubMerge(a)
    PROVE  Shape'
<1> USE DEF repo, refs, rows, oper, ends
<1>1. TypeOK /\ origin \in History
  BY DEF Shape, TypeOK
<1>2. origin' \in History
  BY <1>1, GithubSquash, CommitOnTop
<1>3. pr' \in Refs
  BY <1>1 DEF TypeOK, GithubMerge, Refs, Ref
<1>4. TypeOK'
  BY <1>1, <1>2, <1>3 DEF TypeOK, GithubMerge
<1>5. QED
  BY <1>4, ShapeOutside DEF GithubMerge

LEMMA ShapeAgentLands ==
    ASSUME Shape, NEW a \in Attempt, AgentLands(a)
    PROVE  Shape'
<1> USE DEF repo, refs, rows, oper, ends
<1>1. TypeOK /\ local \in History /\ a \in Change
  BY DEF Shape, TypeOK, Change
<1>2. local' \in History
  BY <1>1, PlainCommit DEF AgentLands
<1>3. TypeOK'
  BY <1>1, <1>2 DEF TypeOK, AgentLands
<1>4. QED
  BY <1>3, ShapeOutside DEF AgentLands

LEMMA ShapeOperatorEdit ==
    ASSUME Shape, NEW c \in Local, OperatorEdit(c)
    PROVE  Shape'
<1> USE DEF repo, refs, rows, oper, ends
<1>1. TypeOK'
  BY DEF Shape, TypeOK, OperatorEdit
<1>2. QED
  BY <1>1, ShapeOutside DEF OperatorEdit

LEMMA ShapeOperatorCommit ==
    ASSUME Shape, NEW c \in Local, OperatorCommit(c)
    PROVE  Shape'
<1> USE DEF repo, refs, rows, oper, ends
<1>1. TypeOK /\ local \in History /\ c \in Change
  BY DEF Shape, TypeOK, Change
<1>2. local' \in History
  BY <1>1, PlainCommit DEF OperatorCommit
<1>3. TypeOK'
  BY <1>1, <1>2 DEF TypeOK, OperatorCommit
<1>4. QED
  BY <1>3, ShapeOutside DEF OperatorCommit

LEMMA ShapeOperatorSwitch ==
    ASSUME Shape, OperatorSwitch
    PROVE  Shape'
<1> USE DEF repo, refs, rows, oper, ends
<1>1. TypeOK'
  BY DEF Shape, TypeOK, OperatorSwitch
<1>2. QED
  BY <1>1, ShapeOutside DEF OperatorSwitch

LEMMA ShapeStalePublish ==
    ASSUME Shape, NEW a \in Attempt, StalePublish(a)
    PROVE  Shape'
<1> USE DEF repo, refs, rows, oper, ends
<1>1. TypeOK /\ base[a] \in History /\ Stray \in Change
  BY DEF Shape, TypeOK, Change, RowShape, StalePublish
<1>2. wip' \in Refs
  BY <1>1, PlainCommit DEF StalePublish, TypeOK, Refs, Ref
<1>3. TypeOK'
  BY <1>1, <1>2 DEF TypeOK, StalePublish
<1>4. QED
  BY <1>3, ShapeOutside DEF StalePublish

LEMMA ShapePollSync ==
    ASSUME Shape, PollSync
    PROVE  Shape'
<1> USE DEF repo, refs, rows, oper, ends
<1>1. job' \in Job /\ job'.kind = "sync" /\ job'.att = Nobody /\ job'.pc = "sync"
  BY IdleIsJob DEF PollSync, Idle, Job
<1>2. TypeOK'
  BY <1>1 DEF Shape, TypeOK, PollSync
<1>3. JobShape'
  BY <1>1 DEF JobShape
<1>4. RowShape'
  BY <1>1 DEF Shape, RowShape, PollSync
<1>5. QED
  BY <1>2, <1>3, <1>4 DEF Shape

LEMMA ShapeCherryStart ==
    ASSUME Shape, NEW a \in Attempt, CherryStart(a)
    PROVE  Shape'
<1> USE DEF repo, refs, rows, oper, ends
<1>1. /\ job' \in Job /\ job'.kind = "cherry" /\ job'.att = a /\ job'.pc = "sync"
      /\ phase'[a] = "resolving"
  BY IdleIsJob DEF CherryStart, Idle, Job
<1>2. TypeOK'
  BY <1>1 DEF Shape, TypeOK, CherryStart
<1>3. JobShape'
  BY <1>1 DEF JobShape
<1>4. RowShape'
  BY <1>1 DEF Shape, RowShape, CherryStart
<1>5. QED
  BY <1>2, <1>3, <1>4 DEF Shape

\* Steps of an attempt that no job is about.
LEMMA ShapeLease ==
    ASSUME Shape, NEW a \in Attempt, Lease(a)
    PROVE  Shape'
<1> USE DEF repo, refs, rows, oper, ends
<1>1. TypeOK /\ JobShape /\ RowShape /\ local \in History /\ phase[a] = "ready"
  BY DEF Shape, TypeOK, Lease
<1>2. /\ UNCHANGED <<head, resolved, job>>
      /\ phase'[a] = "leased" /\ base'[a] = local
      /\ branch'[a] = branch[a] \/ branch'[a] = base'[a]
      /\ a \notin Remote => branch'[a] = base'[a]
      /\ \A b \in Attempt \ {a} :
             phase'[b] = phase[b] /\ base'[b] = base[b] /\ branch'[b] = branch[b]
      /\ branch' \in Refs /\ base' \in Refs
  BY <1>1 DEF Lease, TypeOK, Refs, Ref
<1>3. job.kind # "sync" => job.att # a
  BY <1>1 DEF JobShape, TypeOK, Job
<1>4. TypeOK'
  <2>1. phase' \in [Attempt -> {"ready", "leased", "queued", "resolving", "done"}]
    BY <1>1 DEF TypeOK, Lease
  <2>2. QED
    BY <1>1, <1>2, <2>1 DEF TypeOK, Lease
<1>5. JobShape'
  BY <1>1, <1>2, <1>3 DEF JobShape, TypeOK, Job
<1>6. RowShape'
  <2>1. head[a] = NoRef
    BY <1>1 DEF RowShape
  <2>2. ASSUME NEW b \in Attempt
        PROVE  /\ phase'[b] # "ready" => base'[b] \in History
               /\ phase'[b] \in {"ready", "leased"} => head'[b] = NoRef
               /\ head'[b] # NoRef =>
                      base'[b] \in History /\ Tree(head'[b]) = Tree(base'[b]) \cup {b}
               /\ b \notin Remote => branch'[b] \in {NoRef, base'[b], head'[b]}
               /\ phase'[b] = "resolving" => Mode = "push" /\ resolved'[b] # NoRef
               /\ resolved'[b] # NoRef =>
                      /\ Len(resolved'[b]) > 1
                      /\ Tree(resolved'[b]) \ Tree(Front(resolved'[b])) = {b}
    <3>1. CASE b = a
      BY <1>1, <1>2, <2>1, <3>1 DEF RowShape
    <3>2. CASE b # a
      BY <1>1, <1>2, <3>2 DEF RowShape
    <3>3. QED
      BY <3>1, <3>2
  <2>3. job.kind = "land" /\ job.pc \in Past \cup {"adopt"} =>
            branch'[job.att] \in {NoRef, head[job.att]}
    BY <1>1, <1>2, <1>3 DEF RowShape, JobShape
  <2>4. QED
    BY <1>2, <2>2, <2>3 DEF RowShape
<1>7. QED
  BY <1>4, <1>5, <1>6 DEF Shape

LEMMA ShapeSubmit ==
    ASSUME Shape, NEW a \in Attempt, Submit(a)
    PROVE  Shape'
<1> USE DEF repo, refs, rows, oper, ends
<1> DEFINE tip == Append(base[a], [tree |-> Tree(base[a]) \cup {a}, att |-> Nobody, n |-> 0])
<1>1. /\ TypeOK /\ JobShape /\ RowShape /\ base[a] \in History /\ phase[a] = "leased"
      /\ a \in Change
  BY DEF Shape, TypeOK, RowShape, Submit, Change
<1>2. tip \in History /\ Tree(tip) = Tree(base[a]) \cup {a}
  BY <1>1, PlainCommit
<1>3. /\ UNCHANGED <<base, resolved, job>>
      /\ phase'[a] = "queued" /\ head'[a] = tip
      /\ branch'[a] = branch[a] \/ branch'[a] = tip
      /\ a \notin Remote => branch'[a] = tip
      /\ \A b \in Attempt \ {a} :
             phase'[b] = phase[b] /\ head'[b] = head[b] /\ branch'[b] = branch[b]
      /\ branch' \in Refs /\ head' \in Refs /\ wip' \in Refs
  BY <1>1, <1>2 DEF Submit, TypeOK, Refs, Ref
<1> HIDE DEF tip
<1>4. job.kind # "sync" => job.att # a
  BY <1>1 DEF JobShape, TypeOK, Job
<1>5. TypeOK'
  <2>1. phase' \in [Attempt -> {"ready", "leased", "queued", "resolving", "done"}]
    BY <1>1 DEF TypeOK, Submit
  <2>2. UNCHANGED <<repo, pr, base, verdict, resolved, job, throttled, oper, reported, mgr, ends>>
    BY DEF Submit
  <2>3. QED
    BY <1>1, <1>3, <2>1, <2>2 DEF TypeOK
<1>6. JobShape'
  BY <1>1, <1>3, <1>4 DEF JobShape, TypeOK, Job
<1>7. RowShape'
  <2>1. ASSUME NEW b \in Attempt
        PROVE  /\ phase'[b] # "ready" => base'[b] \in History
               /\ phase'[b] \in {"ready", "leased"} => head'[b] = NoRef
               /\ head'[b] # NoRef =>
                      base'[b] \in History /\ Tree(head'[b]) = Tree(base'[b]) \cup {b}
               /\ b \notin Remote => branch'[b] \in {NoRef, base'[b], head'[b]}
               /\ phase'[b] = "resolving" => Mode = "push" /\ resolved'[b] # NoRef
               /\ resolved'[b] # NoRef =>
                      /\ Len(resolved'[b]) > 1
                      /\ Tree(resolved'[b]) \ Tree(Front(resolved'[b])) = {b}
    <3>1. CASE b = a
      BY <1>1, <1>2, <1>3, <3>1 DEF RowShape
    <3>2. CASE b # a
      BY <1>1, <1>3, <3>2 DEF RowShape
    <3>3. QED
      BY <3>1, <3>2
  <2>2. job.kind = "land" /\ job.pc \in Past \cup {"adopt"} =>
            branch'[job.att] \in {NoRef, head'[job.att]}
    BY <1>1, <1>3, <1>4 DEF RowShape, JobShape
  <2>3. QED
    BY <1>3, <2>1, <2>2 DEF RowShape
<1>8. QED
  BY <1>5, <1>6, <1>7 DEF Shape

LEMMA ShapeSubmitNothing ==
    ASSUME Shape, NEW a \in Attempt, SubmitNothing(a)
    PROVE  Shape'
<1> USE DEF repo, refs, rows, oper, ends
<1>1. TypeOK /\ JobShape /\ RowShape /\ phase[a] = "leased"
  BY DEF Shape, SubmitNothing
<1>2. /\ UNCHANGED <<branch, base, head, resolved, job>>
      /\ phase'[a] = "queued" /\ \A b \in Attempt \ {a} : phase'[b] = phase[b]
      /\ phase' \in [Attempt -> {"ready", "leased", "queued", "resolving", "done"}]
  BY <1>1 DEF SubmitNothing, TypeOK
<1>3. TypeOK'
  BY <1>1, <1>2 DEF TypeOK, SubmitNothing
<1>4. JobShape'
  BY <1>1, <1>2 DEF JobShape, TypeOK, Job
<1>5. RowShape'
  BY <1>1, <1>2 DEF RowShape
<1>6. QED
  BY <1>3, <1>4, <1>5 DEF Shape

LEMMA ShapeResolverLands ==
    ASSUME Shape, NEW a \in Attempt, ResolverLands(a)
    PROVE  Shape'
<1> USE DEF repo, refs, rows, oper, ends
<1> DEFINE c == [tree |-> Tree(local) \cup {a}, att |-> Nobody, n |-> 0]
           tip == Append(local, c)
<1>1. /\ TypeOK /\ JobShape /\ RowShape /\ local \in History /\ phase[a] = "done"
      /\ a \in Change /\ job = Idle /\ a \notin Tree(local) /\ Mode = "push"
  BY DEF Shape, TypeOK, JobShape, ResolverLands, At, Change
<1>2. tip \in History /\ Tree(tip) = Tree(local) \cup {a} /\ c \in Commit
  BY <1>1, PlainCommit
<1>3. Len(tip) > 1 /\ Tree(tip) \ Tree(Front(tip)) = {a}
  <2>1. /\ Len(tip) = Len(local) + 1 /\ Len(local) \in Nat \ {0}
        /\ \A i \in 1..Len(local) : tip[i] = local[i]
    BY <1>1, <1>2, PlainCommit, CommitOnTop, HistoryParts
  <2> HIDE DEF tip
  <2>2. Len(tip) > 1
    BY <2>1
  <2>3. /\ Front(tip) \in History /\ Len(Front(tip)) = Len(local)
        /\ \A i \in 1..Len(local) : Front(tip)[i] = local[i]
    BY <1>2, <2>1, <2>2, FrontIsParent
  <2>4. Front(tip) = local
    <3>1. Front(tip) \in Seq(Commit) /\ local \in Seq(Commit)
      BY <1>1, <2>3, HistoryParts
    <3>2. QED
      BY <2>3, <3>1, SeqEqual
  <2>5. QED
    BY <1>1, <1>2, <2>2, <2>4
<1>4. /\ UNCHANGED <<base, head, job>>
      /\ local' = tip /\ resolved' = [resolved EXCEPT ![a] = tip]
      /\ phase' = [phase EXCEPT ![a] = "resolving"]
      /\ branch' = [branch EXCEPT ![a] = NoRef]
      /\ checkout' = Advanced(CheckoutState, tip)
      /\ ever' = ever \cup {a}
      /\ UNCHANGED <<origin, wip, pr, verdict, throttled, dirty, reported, mgr, ends>>
  BY DEF ResolverLands
<1> HIDE DEF tip
<1>5. /\ checkout' \in [ref : {"main", "other", "detached"}, at : History, coherent : BOOLEAN]
      /\ branch' \in Refs /\ resolved' \in Refs
      /\ phase' \in [Attempt -> {"ready", "leased", "queued", "resolving", "done"}]
  <2>1. CheckoutState \in Seen /\ CheckoutState.at \in History
    BY <1>1, CheckoutSeen
  <2>2. checkout' \in [ref : {"main", "other", "detached"}, at : History, coherent : BOOLEAN]
    BY <1>1, <1>2, <1>4, <2>1, AdvancedIsCheckout
  <2>3. QED
    BY <1>1, <1>2, <1>4, <2>2 DEF TypeOK, Refs, Ref
<1>6. TypeOK'
  BY <1>1, <1>2, <1>4, <1>5 DEF TypeOK
<1>7. JobShape'
  BY <1>1, <1>4, IdleParts DEF JobShape
<1>8. RowShape'
  <2>1. \A b \in Attempt \ {a} : /\ phase'[b] = phase[b] /\ resolved'[b] = resolved[b]
                                 /\ branch'[b] = branch[b]
    BY <1>1, <1>4 DEF TypeOK, Refs
  <2>2. phase'[a] = "resolving" /\ resolved'[a] = tip /\ branch'[a] = NoRef
    BY <1>1, <1>4 DEF TypeOK, Refs
  <2>3. tip # NoRef
    BY <1>2, NoRefIsNone
  <2>4. ASSUME NEW b \in Attempt
        PROVE  /\ phase'[b] # "ready" => base'[b] \in History
               /\ phase'[b] \in {"ready", "leased"} => head'[b] = NoRef
               /\ head'[b] # NoRef =>
                      base'[b] \in History /\ Tree(head'[b]) = Tree(base'[b]) \cup {b}
               /\ b \notin Remote => branch'[b] \in {NoRef, base'[b], head'[b]}
               /\ phase'[b] = "resolving" => Mode = "push" /\ resolved'[b] # NoRef
               /\ resolved'[b] # NoRef =>
                      /\ Len(resolved'[b]) > 1
                      /\ Tree(resolved'[b]) \ Tree(Front(resolved'[b])) = {b}
    <3>1. CASE b = a
      BY <1>1, <1>3, <1>4, <2>2, <2>3, <3>1 DEF RowShape
    <3>2. CASE b # a
      BY <1>1, <1>4, <2>1, <3>2 DEF RowShape
    <3>3. QED
      BY <3>1, <3>2
  <2>5. job'.kind = "sync"
    BY <1>1, <1>4, IdleParts
  <2>6. QED
    BY <2>4, <2>5 DEF RowShape
<1>9. QED
  BY <1>6, <1>7, <1>8 DEF Shape

LEMMA ShapeCrash ==
    ASSUME Shape, Crash
    PROVE  Shape'
<1> USE DEF repo, refs, rows, oper, ends
<1>1. TypeOK /\ JobShape /\ RowShape
  BY DEF Shape
<1>2. /\ UNCHANGED <<branch, base, head, resolved>> /\ job' = Idle /\ Idle \in Job
      /\ \A b \in Attempt : \/ phase'[b] = phase[b]
                            \/ phase'[b] = "done" /\ phase[b] # "ready"
      /\ phase' \in [Attempt -> {"ready", "leased", "queued", "resolving", "done"}]
  BY <1>1, IdleIsJob DEF Crash, TypeOK
<1>3. TypeOK'
  <2>1. crashes' \in Nat /\ mgr' \in {"up", "recovering"}
    BY <1>1 DEF TypeOK, Crash
  <2>4. throttled' \in BOOLEAN
    BY Zenon DEF Crash
  <2>2. UNCHANGED <<repo, refs, base, head, verdict, resolved, oper, reported, faults>>
    BY DEF Crash
  <2>3. QED
    BY <1>1, <1>2, <2>1, <2>2, <2>4 DEF TypeOK
<1>4. JobShape'
  BY <1>2, IdleParts DEF JobShape
<1>5. RowShape'
  BY <1>1, <1>2, IdleParts DEF RowShape
<1>6. QED
  BY <1>3, <1>4, <1>5 DEF Shape

LEMMA ShapeRecoverRow ==
    ASSUME Shape, NEW a \in Attempt, RecoverLanded(a) \/ RecoverPark(a)
    PROVE  Shape'
<1> USE DEF repo, refs, rows, oper, ends
<1>1. TypeOK /\ JobShape /\ RowShape /\ job = Idle /\ phase[a] = "queued"
  BY DEF Shape, JobShape, RecoverLanded, RecoverPark, At
<1>2. /\ UNCHANGED <<branch, base, head, resolved, job>>
      /\ \A b \in Attempt : \/ phase'[b] = phase[b]
                            \/ phase'[b] = "done" /\ phase[b] # "ready"
      /\ phase' \in [Attempt -> {"ready", "leased", "queued", "resolving", "done"}]
  BY <1>1 DEF RecoverLanded, RecoverPark, TypeOK
<1>3. TypeOK'
  BY <1>1, <1>2 DEF TypeOK, RecoverLanded, RecoverPark
<1>4. JobShape'
  BY <1>1, <1>2, IdleParts DEF JobShape
<1>5. RowShape'
  BY <1>1, <1>2, IdleParts DEF RowShape
<1>6. QED
  BY <1>3, <1>4, <1>5 DEF Shape

LEMMA ShapeRecoveryDone ==
    ASSUME Shape, RecoveryDone
    PROVE  Shape'
<1> USE DEF repo, refs, rows, oper, ends
<1>1. TypeOK'
  BY DEF Shape, TypeOK, RecoveryDone
<1>2. QED
  BY <1>1, ShapeOutside DEF RecoveryDone

\* The shape is kept by every step of the job.
LEMMA ShapeJobStep ==
    ASSUME Shape, JobStep
    PROVE  Shape'
<1>1. CASE LandFetch
  BY <1>1, ShapeLandFetch
<1>2. CASE LandAdopt
  BY <1>2, ShapeLandAdopt
<1>3. CASE Sync
  BY <1>3, ShapeSync
<1>4. CASE SyncSwap
  BY <1>4, ShapeSyncSwap
<1>5. CASE SyncAdvance
  BY <1>5, ShapeSyncAdvance
<1>6. CASE Produce
  BY <1>6, ShapeProduce
<1>7. CASE Push
  BY <1>7, ShapePush
<1>8. CASE Cas
  BY <1>8, ShapeCas
<1>9. CASE Advance
  BY <1>9, ShapeAdvance
<1>10. CASE OpenPr
  BY <1>10, ShapeOpenPr
<1>11. CASE Teardown
  BY <1>11, ShapeTeardown
<1>12. CASE ReportLand \/ ReportResolve
  BY <1>12, ShapeReport
<1>13. QED
  BY <1>1, <1>2, <1>3, <1>4, <1>5, <1>6, <1>7, <1>8, <1>9, <1>10, <1>11, <1>12
     DEF JobStep

LEMMA ShapeStep ==
    ASSUME Shape, [Next]_vars
    PROVE  Shape'
<1>1. CASE UNCHANGED vars
  BY <1>1, ShapeStutter
<1>2. CASE JobStep
  BY <1>2, ShapeJobStep
<1>3. CASE PollSync
  BY <1>3, ShapePollSync
<1>4. CASE Recover
  <2>1. CASE RecoveryDone
    BY <2>1, ShapeRecoveryDone
  <2>2. ASSUME NEW a \in Attempt, RecoverReenqueue(a)
        PROVE  Shape'
    BY <2>2, ShapeLandStart DEF RecoverReenqueue
  <2>3. ASSUME NEW a \in Attempt, RecoverLanded(a) \/ RecoverPark(a)
        PROVE  Shape'
    BY <2>3, ShapeRecoverRow
  <2>4. QED
    BY <1>4, <2>1, <2>2, <2>3 DEF Recover
<1>5. CASE Crash
  BY <1>5, ShapeCrash
<1>6. ASSUME NEW a \in Attempt, Start(a)
      PROVE  Shape'
  BY <1>6, ShapeLandStart DEF Start
<1>7. ASSUME NEW a \in Attempt,
             \/ Lease(a) \/ Submit(a) \/ AgentLands(a) \/ SubmitNothing(a)
             \/ StalePublish(a) \/ ResolverLands(a) \/ CherryStart(a) \/ GithubMerge(a)
      PROVE  Shape'
  BY <1>7, ShapeLease, ShapeSubmit, ShapeAgentLands, ShapeSubmitNothing,
     ShapeStalePublish, ShapeResolverLands, ShapeCherryStart, ShapeGithubMerge
<1>8. ASSUME NEW c \in Foreign, ForeignPush(c)
      PROVE  Shape'
  BY <1>8, ShapeForeignPush
<1>9. ASSUME NEW c \in Local, OperatorEdit(c) \/ OperatorCommit(c)
      PROVE  Shape'
  BY <1>9, ShapeOperatorEdit, ShapeOperatorCommit
<1>10. CASE OperatorSwitch
  BY <1>10, ShapeOperatorSwitch
<1>11. QED
  BY <1>1, <1>2, <1>3, <1>4, <1>5, <1>6, <1>7, <1>8, <1>9, <1>10 DEF Next

\* Every reachable state has the shape: histories that start at the root and whose
\* trees grow, jobs only where their kind goes, and the branch of a land that is
\* past its fetch at the head_sha that was submitted (or gone).
THEOREM ShapeHolds == Spec => []Shape
<1>1. Init => Shape
  BY ShapeInit
<1>2. Shape /\ [Next]_vars => Shape'
  BY ShapeStep
<1>3. QED
  BY <1>1, <1>2, PTL DEF Spec

-----------------------------------------------------------------------------
(* Only verified content reaches main.                                     *)

LEMMA StrayIsNotWork ==
    ASSUME NEW c \in Attempt \cup Foreign \cup Local
    PROVE  c # Stray
BY LandingConstants

\* Steps that install no content.
LEMMA NoStrayQuiet ==
    ASSUME NoStray, UNCHANGED <<ever, origin, local, base, head, pr, resolved>>,
           job'.tip = job.tip \/ job'.tip = NoRef
    PROVE  NoStray'
BY DEF NoStray, Clean

LEMMA NoStrayJobStep ==
    ASSUME Shape, NoStray, JobStep
    PROVE  NoStray'
<1> USE DEF repo, refs, rows, oper, ends
<1>0. /\ TypeOK /\ JobShape /\ RowShape /\ job \in Job
      /\ local \in History /\ origin \in History
      /\ local # NoRef /\ origin # NoRef
  BY NoRefIsNone DEF Shape, TypeOK
<1>1. CASE LandFetch
  <2>1. job'.tip = job.tip
    BY <1>0, <1>1, JobGoes, JobEnds DEF LandFetch, Goto
  <2>2. QED
    BY <1>1, <2>1, NoStrayQuiet DEF LandFetch
<1>2. CASE LandAdopt
  <2>1. job'.tip = job.tip
    BY <1>0, <1>2, JobGoes, JobEnds DEF LandAdopt, Goto
  <2>2. /\ origin' = origin \/ origin' = local
        /\ \A a \in Attempt : pr'[a] = pr[a] \/ pr'[a] = local
        /\ UNCHANGED <<ever, local, base, head, resolved>>
    BY <1>0, <1>2 DEF LandAdopt, TypeOK, Refs
  <2>3. QED
    BY <2>1, <2>2 DEF NoStray, Clean
<1>3. CASE Sync
  <2>1. UNCHANGED <<ever, origin, local, base, head, pr, resolved>>
    BY <1>3 DEF Sync
  <2>2. Stray \notin Tree(origin) /\ Stray \notin Tree(local)
    BY <1>0 DEF NoStray, Clean
  <2>3. Stray \notin Tree(Rescue(origin, local).tip)
    BY <1>0, <2>2, RescueProperties
  <2>4. Clean(job'.tip)
    BY <1>0, <1>3, <2>2, <2>3, SyncChoice, IdleParts DEF NoStray, Clean
  <2>5. QED
    BY <2>1, <2>4 DEF NoStray, Clean
<1>4. CASE SyncSwap
  <2>1. job.tip \in History /\ job.tip # NoRef /\ job.pc = "swap"
    BY <1>0, <1>4, NoRefIsNone DEF SyncSwap, At, JobShape
  <2>2. UNCHANGED <<origin, base, head, pr, resolved>>
    BY <1>4 DEF SyncSwap
  <2>3. CASE local = job.from
    <3>1. local' = job.tip /\ ever' = ever \cup Tree(job.tip)
      BY <1>4, <2>3 DEF SyncSwap
    <3>2. job'.tip = job.tip
      BY <1>0, <1>4, <2>3 DEF SyncSwap, Job
    <3>3. QED
      BY <2>1, <2>2, <3>1, <3>2 DEF NoStray, Clean
  <2>4. CASE local # job.from
    <3>1. job'.tip = job.tip \/ job'.tip = NoRef
      BY <1>0, <1>4, <2>4, SyncReturns, IdleParts DEF SyncSwap
    <3>2. QED
      BY <1>4, <2>2, <2>4, <3>1, NoStrayQuiet DEF SyncSwap
  <2>5. QED
    BY <2>3, <2>4
<1>5. CASE SyncAdvance
  <2>1. job'.tip = job.tip \/ job'.tip = NoRef
    BY <1>0, <1>5, SyncReturns, IdleParts DEF SyncAdvance
  <2>2. QED
    BY <1>5, <2>1, NoStrayQuiet DEF SyncAdvance
<1>6. CASE Produce
  <2>1. UNCHANGED <<ever, origin, local, base, head, pr, resolved>>
    BY <1>6 DEF Produce
  <2>2. CASE ProduceFails(local)
    BY <1>0, <1>6, <2>1, <2>2, JobEnds, NoStrayQuiet DEF Produce
  <2>3. CASE ~ProduceFails(local)
    <3> DEFINE t == Produced(local)
               a == job.att
    <3>1. /\ a \in Attempt
          /\ \/ t = local
             \/ \E c \in Commit : /\ t = Append(local, c) /\ Tree(local) \subseteq c.tree
                                  /\ \/ c.tree = Tree(local) \cup {a}
                                     \/ /\ head[a] \in History
                                        /\ c.tree = Tree(local) \cup Tree(head[a])
      BY <1>6, <2>3, ProducedOnTop DEF Produce
    <3>2. Stray \notin Tree(local) /\ a # Stray
      BY <1>0, <3>1, StrayIsNotWork DEF NoStray, Clean
    <3>3. head[a] \in History => Stray \notin Tree(head[a])
      BY <3>1, NoRefIsNone DEF NoStray, Clean
    <3>4. Stray \notin Tree(t)
      <4>1. CASE t = local
        BY <3>2, <4>1
      <4>2. CASE \E c \in Commit : /\ t = Append(local, c) /\ Tree(local) \subseteq c.tree
                                  /\ \/ c.tree = Tree(local) \cup {a}
                                     \/ /\ head[a] \in History
                                        /\ c.tree = Tree(local) \cup Tree(head[a])
        <5>1. PICK c \in Commit : /\ t = Append(local, c) /\ Tree(local) \subseteq c.tree
                                  /\ \/ c.tree = Tree(local) \cup {a}
                                     \/ /\ head[a] \in History
                                        /\ c.tree = Tree(local) \cup Tree(head[a])
          BY <4>2
        <5>2. Tree(t) = c.tree
          BY <1>0, <5>1, CommitOnTop
        <5> HIDE DEF t
        <5>3. QED
          BY <3>2, <3>3, <5>1, <5>2
      <4>3. QED
        BY <3>1, <4>1, <4>2
    <3>5. job'.tip = t
      <4> HIDE DEF t
      <4>1. QED
        BY <1>0, <1>6, <2>3 DEF Produce, Job, t
    <3>6. QED
      BY <2>1, <3>4, <3>5 DEF NoStray, Clean
  <2>4. QED
    BY <2>2, <2>3
<1>7. CASE Push
  <2>1. job.tip \in History /\ job.tip # NoRef
    BY <1>0, <1>7, NoRefIsNone DEF Push, At, JobShape
  <2>2. job'.tip = job.tip
    BY <1>0, <1>7, RetryGoes, JobGoes DEF Push, Goto
  <2>3. /\ origin' = origin \/ origin' = job.tip
        /\ UNCHANGED <<ever, local, base, head, pr, resolved>>
    BY <1>7 DEF Push
  <2>4. QED
    BY <2>1, <2>2, <2>3 DEF NoStray, Clean
<1>8. CASE Cas
  <2>1. job.tip \in History /\ job.tip # NoRef
    BY <1>0, <1>8, NoRefIsNone DEF Cas, At, JobShape
  <2>2. job'.tip = job.tip
    <3>1. CASE local = job.from
      BY <1>0, <1>8, <3>1, JobGoes DEF Cas, Goto
    <3>2. CASE local # job.from /\ Mode = "push"
      BY <1>0, <1>8, <3>2 DEF Cas, Job
    <3>3. CASE local # job.from /\ Mode # "push"
      BY <1>0, <1>8, <3>3, RetryGoes DEF Cas
    <3>4. QED
      BY <3>1, <3>2, <3>3
  <2>3. /\ \/ local' = local /\ ever' = ever
           \/ local' = job.tip /\ ever' = ever \cup Tree(job.tip)
        /\ UNCHANGED <<origin, base, head, pr, resolved>>
    BY <1>8 DEF Cas
  <2>4. QED
    BY <2>1, <2>2, <2>3 DEF NoStray, Clean
<1>9. CASE Advance
  <2>1. job'.tip = job.tip
    BY <1>0, <1>9 DEF Advance, Job
  <2>2. QED
    BY <1>9, <2>1, NoStrayQuiet DEF Advance
<1>10. CASE OpenPr
  <2>1. job'.tip = job.tip
    BY <1>0, <1>10, JobGoes DEF OpenPr, Goto
  <2>2. /\ \A a \in Attempt : pr'[a] = pr[a] \/ pr'[a] = job.tip
        /\ UNCHANGED <<ever, origin, local, base, head, resolved>>
    BY <1>0, <1>10 DEF OpenPr, TypeOK, Refs
  <2>3. QED
    BY <2>1, <2>2 DEF NoStray, Clean
<1>11. CASE Teardown
  <2>1. job'.tip = job.tip
    BY <1>0, <1>11, JobGoes DEF Teardown, Goto
  <2>2. QED
    BY <1>11, <2>1, NoStrayQuiet DEF Teardown
<1>12. CASE ReportLand \/ ReportResolve
  <2>1. job'.tip = NoRef
    BY <1>12, IdleParts DEF ReportLand, ReportResolve
  <2>2. QED
    BY <1>12, <2>1, NoStrayQuiet DEF ReportLand, ReportResolve
<1>13. QED
  BY <1>1, <1>2, <1>3, <1>4, <1>5, <1>6, <1>7, <1>8, <1>9, <1>10, <1>11, <1>12
     DEF JobStep

LEMMA NoStrayStep ==
    ASSUME Shape, NoStray, [Next]_vars
    PROVE  NoStray'
<1> USE DEF repo, refs, rows, oper, ends
<1>0. /\ TypeOK /\ JobShape /\ RowShape /\ local \in History /\ origin \in History
      /\ local # NoRef /\ origin # NoRef
      /\ Stray \notin Tree(local) /\ Stray \notin Tree(origin)
      /\ Idle.tip = NoRef
  BY NoRefIsNone, IdleParts DEF Shape, TypeOK, NoStray, Clean
<1>1. CASE UNCHANGED vars
  BY <1>1, NoStrayQuiet DEF vars
<1>2. CASE JobStep
  BY <1>2, NoStrayJobStep
<1>3. ASSUME NEW a \in Attempt, NEW r \in BOOLEAN, LandStart(a, r)
      PROVE  NoStray'
  <2>1. job'.tip = NoRef
    BY <1>3 DEF LandStart, Idle
  <2>2. QED
    BY <1>3, <2>1, NoStrayQuiet DEF LandStart
<1>4. CASE PollSync
  <2>1. job'.tip = NoRef
    BY <1>4 DEF PollSync, Idle
  <2>2. QED
    BY <1>4, <2>1, NoStrayQuiet DEF PollSync
<1>5. CASE Recover
  <2>1. CASE RecoveryDone
    BY <2>1, NoStrayQuiet DEF RecoveryDone
  <2>2. ASSUME NEW a \in Attempt, RecoverReenqueue(a)
        PROVE  NoStray'
    BY <2>2, <1>3 DEF RecoverReenqueue
  <2>3. ASSUME NEW a \in Attempt, RecoverLanded(a) \/ RecoverPark(a)
        PROVE  NoStray'
    BY <2>3, NoStrayQuiet DEF RecoverLanded, RecoverPark
  <2>4. QED
    BY <1>5, <2>1, <2>2, <2>3 DEF Recover
<1>6. CASE Crash
  BY <1>0, <1>6, NoStrayQuiet DEF Crash
<1>7. ASSUME NEW a \in Attempt, Start(a)
      PROVE  NoStray'
  BY <1>3, <1>7 DEF Start
<1>8. ASSUME NEW a \in Attempt, Lease(a)
      PROVE  NoStray'
  <2>1. /\ \A b \in Attempt : base'[b] = base[b] \/ base'[b] = local
        /\ UNCHANGED <<ever, origin, local, head, pr, resolved, job>>
    BY <1>0, <1>8 DEF Lease, TypeOK, Refs
  <2>2. QED
    BY <1>0, <2>1 DEF NoStray, Clean
<1>9. ASSUME NEW a \in Attempt, Submit(a)
      PROVE  NoStray'
  <2> DEFINE tip == Append(base[a], [tree |-> Tree(base[a]) \cup {a}, att |-> Nobody, n |-> 0])
  <2>1. base[a] \in History /\ base[a] # NoRef /\ a \in Change
    BY <1>0, <1>9, NoRefIsNone DEF Submit, RowShape, Change
  <2>2. Tree(tip) = Tree(base[a]) \cup {a}
    BY <2>1, PlainCommit
  <2>3. Stray \notin Tree(tip)
    BY <2>1, <2>2, StrayIsNotWork DEF NoStray, Clean
  <2>4. /\ \A b \in Attempt : head'[b] = head[b] \/ head'[b] = tip
        /\ UNCHANGED <<ever, origin, local, base, pr, resolved, job>>
    BY <1>0, <1>9 DEF Submit, TypeOK, Refs
  <2> HIDE DEF tip
  <2>5. QED
    BY <2>3, <2>4 DEF NoStray, Clean
<1>10. ASSUME NEW a \in Attempt, AgentLands(a)
       PROVE  NoStray'
  <2>1. Tree(local') = Tree(local) \cup {a} /\ ever' = ever \cup {a}
    BY <1>0, <1>10, PlainCommit DEF AgentLands, Change
  <2>2. UNCHANGED <<origin, base, head, pr, resolved, job>>
    BY <1>10 DEF AgentLands
  <2>3. QED
    BY <1>0, <2>1, <2>2, StrayIsNotWork DEF NoStray, Clean
<1>11. ASSUME NEW a \in Attempt, SubmitNothing(a) \/ StalePublish(a)
       PROVE  NoStray'
  BY <1>11, NoStrayQuiet DEF SubmitNothing, StalePublish
<1>12. ASSUME NEW a \in Attempt, ResolverLands(a)
       PROVE  NoStray'
  <2> DEFINE tip == Append(local, [tree |-> Tree(local) \cup {a}, att |-> Nobody, n |-> 0])
  <2>1. Tree(tip) = Tree(local) \cup {a} /\ a # Stray
    BY <1>0, PlainCommit, StrayIsNotWork DEF Change
  <2>2. /\ local' = tip /\ ever' = ever \cup {a}
        /\ \A b \in Attempt : resolved'[b] = resolved[b] \/ resolved'[b] = tip
        /\ UNCHANGED <<origin, base, head, pr, job>>
    BY <1>0, <1>12 DEF ResolverLands, TypeOK, Refs
  <2> HIDE DEF tip
  <2>3. QED
    BY <1>0, <2>1, <2>2 DEF NoStray, Clean
<1>13. ASSUME NEW a \in Attempt, CherryStart(a)
       PROVE  NoStray'
  <2>1. job'.tip = NoRef
    BY <1>13 DEF CherryStart, Idle
  <2>2. QED
    BY <1>13, <2>1, NoStrayQuiet DEF CherryStart
<1>14. ASSUME NEW a \in Attempt, GithubMerge(a)
       PROVE  NoStray'
  <2>1. Stray \notin Tree(pr[a])
    BY <1>14 DEF GithubMerge, NoStray, Clean
  <2>2. Tree(origin') = Tree(origin) \cup Tree(pr[a])
    <3>1. PICK c \in Commit : /\ c.tree = Tree(origin) \cup Tree(pr[a])
                              /\ Tree(origin) \subseteq c.tree
                              /\ origin' = Append(origin, c)
      BY <1>0, <1>14, GithubSquash
    <3>2. QED
      BY <1>0, <3>1, CommitOnTop
  <2>3. /\ \A b \in Attempt : pr'[b] = pr[b] \/ pr'[b] = NoRef
        /\ UNCHANGED <<ever, local, base, head, resolved, job>>
    BY <1>0, <1>14 DEF GithubMerge, TypeOK, Refs
  <2>4. QED
    BY <1>0, <2>1, <2>2, <2>3 DEF NoStray, Clean
<1>15. ASSUME NEW c \in Foreign, ForeignPush(c)
       PROVE  NoStray'
  <2>1. Tree(origin') = Tree(origin) \cup {c}
    BY <1>0, <1>15, PlainCommit DEF ForeignPush, Change
  <2>2. UNCHANGED <<ever, local, base, head, pr, resolved, job>>
    BY <1>15 DEF ForeignPush
  <2>3. QED
    BY <1>0, <2>1, <2>2, StrayIsNotWork DEF NoStray, Clean
<1>16. ASSUME NEW c \in Local, OperatorEdit(c)
       PROVE  NoStray'
  BY <1>16, NoStrayQuiet DEF OperatorEdit
<1>17. ASSUME NEW c \in Local, OperatorCommit(c)
       PROVE  NoStray'
  <2>1. Tree(local') = Tree(local) \cup {c} /\ ever' = ever \cup {c}
    BY <1>0, <1>17, PlainCommit DEF OperatorCommit, Change
  <2>2. UNCHANGED <<origin, base, head, pr, resolved, job>>
    BY <1>17 DEF OperatorCommit
  <2>3. QED
    BY <1>0, <2>1, <2>2, StrayIsNotWork DEF NoStray, Clean
<1>18. CASE OperatorSwitch
  BY <1>18, NoStrayQuiet DEF OperatorSwitch
<1>19. QED
  BY <1>1, <1>2, <1>4, <1>5, <1>6, <1>7, <1>8, <1>9, <1>10, <1>11, <1>12, <1>13,
     <1>14, <1>15, <1>16, <1>17, <1>18 DEF Next

\* What a superseded worker published reaches neither local main nor origin:
\* land_locked compares what it fetched with head_sha, on every run.
THEOREM VerifiedOnlyHolds == Spec => []VerifiedOnly
<1>1. Init => Shape /\ NoStray
  <2>1. Stray \notin Tree(Root) /\ Idle.tip = NoRef
    BY RootIsHistory, IdleParts
  <2>2. Init => NoStray
    BY <2>1 DEF Init, NoStray, Clean
  <2>3. QED
    BY <2>2, ShapeInit
<1>2. Shape /\ NoStray /\ [Next]_vars => Shape' /\ NoStray'
  BY ShapeStep, NoStrayStep
<1>3. Shape /\ NoStray => VerifiedOnly
  BY NoRefIsNone DEF Shape, TypeOK, NoStray, Clean, VerifiedOnly
<1>4. QED
  BY <1>1, <1>2, <1>3, PTL DEF Spec

-----------------------------------------------------------------------------
(* One trailer per attempt, here and on origin.                            *)

LEMMA TrailerAt ==
    ASSUME NEW h \in History
    PROVE  /\ Trailers(h) = {h[i].att : i \in 1..Len(h)}
           /\ Nobody \in Trailers(h)
<1>1. DOMAIN h = 1..Len(h) /\ 1 \in 1..Len(h)
  BY HistoryParts
<1>2. h[1].att = Nobody
  BY DEF History, Root
<1>3. QED
  BY <1>1, <1>2 DEF Trailers

\* The first commits of h are an ancestor of g when g begins with them.
LEMMA FirstCommitsOf ==
    ASSUME NEW h \in History, NEW g \in History, NEW i \in 1..Len(h)
    PROVE  IsAncestor(SubSeq(h, 1, i), g) <=>
               i <= Len(g) /\ \A j \in 1..i : h[j] = g[j]
<1> DEFINE s == SubSeq(h, 1, i)
<1>1. s \in History /\ Len(s) = i /\ \A j \in 1..i : s[j] = h[j]
  BY FirstCommits
<1> HIDE DEF s
<1>2. s \in Seq(Commit) /\ g \in Seq(Commit)
  BY <1>1, HistoryParts
<1>3. IsAncestor(s, g) <=> i <= Len(g) /\ \A j \in 1..i : s[j] = g[j]
  BY <1>1, <1>2, PrefixPointwise
<1>4. QED
  BY <1>1, <1>3 DEF s

LEMMA SharedWithDescendant ==
    ASSUME NEW h \in History, NEW g \in History, IsAncestor(h, g)
    PROVE  Shared(h, g)
<1> SUFFICES ASSUME NEW i \in 1..Len(h)
             PROVE  IsAncestor(SubSeq(h, 1, i), g)
  BY DEF Shared
<1> DEFINE s == SubSeq(h, 1, i)
<1>1. s \in History /\ IsAncestor(s, h)
  BY FirstCommits
<1> HIDE DEF s
<1>2. s \in Seq(Commit) /\ g \in Seq(Commit) /\ h \in Seq(Commit)
  BY <1>1, HistoryParts
<1>3. IsAncestor(s, g)
  BY <1>1, <1>2, PrefixTrans
<1>4. QED
  BY <1>3 DEF s

LEMMA SharedGrows ==
    ASSUME NEW h \in History, NEW f \in History, NEW g \in History,
           Shared(h, f), IsAncestor(f, g)
    PROVE  Shared(h, g)
<1> SUFFICES ASSUME NEW i \in 1..Len(h), h[i].att # Nobody
             PROVE  IsAncestor(SubSeq(h, 1, i), g)
  BY DEF Shared
<1> DEFINE s == SubSeq(h, 1, i)
<1>1. s \in History /\ IsAncestor(s, f)
  BY FirstCommits DEF Shared
<1> HIDE DEF s
<1>2. s \in Seq(Commit) /\ f \in Seq(Commit) /\ g \in Seq(Commit)
  BY <1>1, HistoryParts
<1>3. IsAncestor(s, g)
  BY <1>1, <1>2, PrefixTrans
<1>4. QED
  BY <1>3 DEF s

LEMMA SharedOnTop ==
    ASSUME NEW h \in History, NEW g \in History, NEW c \in Commit,
           Tree(h) \subseteq c.tree, c.att = Nobody, Shared(h, g)
    PROVE  Shared(Append(h, c), g)
<1> DEFINE k == Append(h, c)
<1>1. /\ k \in History /\ Len(k) = Len(h) + 1 /\ k[Len(h) + 1] = c
      /\ \A i \in 1..Len(h) : k[i] = h[i]
  BY CommitOnTop
<1>2. Len(h) \in Nat
  BY HistoryParts
<1> HIDE DEF k
<1>3. ASSUME NEW i \in 1..Len(k), k[i].att # Nobody
      PROVE  IsAncestor(SubSeq(k, 1, i), g)
  <2>1. i \in 1..Len(h)
    BY <1>1, <1>2, <1>3
  <2>2. h[i].att # Nobody
    BY <1>1, <1>3, <2>1
  <2>3. i <= Len(g) /\ \A j \in 1..i : h[j] = g[j]
    BY <2>1, <2>2, FirstCommitsOf DEF Shared
  <2>4. \A j \in 1..i : k[j] = g[j]
    BY <1>1, <1>2, <2>1, <2>3
  <2>5. QED
    BY <1>1, <2>3, <2>4, FirstCommitsOf
<1>4. QED
  BY <1>3 DEF Shared, k

\* A trailer that local main shares with origin is backed when origin's is.
LEMMA StampedShared ==
    ASSUME NEW h \in History, NEW g \in History, Shared(h, g), Stamped(g)
    PROVE  Stamped(h)
<1> SUFFICES ASSUME NEW i \in 1..Len(h)
             PROVE  Backed(h[i])
  BY DEF Stamped
<1>1. CASE h[i].att = Nobody
  BY <1>1, LandingConstants DEF Backed
<1>2. CASE h[i].att # Nobody
  <2>1. i <= Len(g) /\ \A j \in 1..i : h[j] = g[j]
    BY <1>2, FirstCommitsOf DEF Shared
  <2>2. i \in 1..i /\ i \in 1..Len(g)
    BY <2>1, HistoryParts
  <2>3. QED
    BY <2>1, <2>2 DEF Stamped
<1>3. QED
  BY <1>1, <1>2

LEMMA StampedOnTop ==
    ASSUME NEW h \in History, NEW c \in Commit, Tree(h) \subseteq c.tree,
           Stamped(h), Backed(c)
    PROVE  Stamped(Append(h, c))
<1> DEFINE k == Append(h, c)
<1>1. /\ Len(k) = Len(h) + 1 /\ k[Len(h) + 1] = c
      /\ \A i \in 1..Len(h) : k[i] = h[i]
  BY CommitOnTop
<1>2. Len(h) \in Nat
  BY HistoryParts
<1> HIDE DEF k
<1>3. \A i \in 1..Len(k) : i \in 1..Len(h) \/ i = Len(h) + 1
  BY <1>1, <1>2
<1>4. QED
  BY <1>1, <1>3 DEF Stamped, k

\* A stamped history backs every trailer it has.
LEMMA StampedTrailer ==
    ASSUME NEW h \in History, Stamped(h), NEW a \in Attempt, a \in Trailers(h)
    PROVE  /\ a \in Tree(h) /\ phase[a] \notin {"ready", "leased"}
           /\ phase[a] = "queued" => head[a] # NoRef /\ Tree(head[a]) \subseteq Tree(h)
<1>1. PICK i \in 1..Len(h) : h[i].att = a
  BY TrailerAt
<1>2. h[i].tree \subseteq Tree(h)
  BY HistoryParts
<1>3. Backed(h[i])
  BY DEF Stamped
<1>4. QED
  BY <1>1, <1>2, <1>3 DEF Backed

\* What a rescue does to trailers.  With pushes it replays none; otherwise each
\* of them once.
LEMMA RescueTrailers ==
    ASSUME NEW g \in History, NEW h \in History, Once(g), Once(h)
    PROVE  LET tip == Rescue(g, h).tip
           IN /\ Shared(h, g) => Shared(tip, g) /\ Once(tip)
              /\ Trailers(g) = {Nobody} => Trailers(tip) \subseteq Trailers(h) /\ Once(tip)
<1> DEFINE tip == Rescue(g, h).tip
           k == Len(MergeBase(h, g))
<1>1. /\ tip \in History /\ IsAncestor(g, tip)
      /\ \A i \in Len(g) + 1..Len(tip) : \E j \in k + 1..Len(h) : tip[i].att = h[j].att
      /\ (\A j \in k + 1..Len(h) : h[j].att = Nobody \/ h[j].att \notin Trailers(g)) => Once(tip)
  BY RescueProperties
<1>2. k \in 1..Len(h)
  BY UnpushedCommits
<1>3. ASSUME NEW j \in k + 1..Len(h), Shared(h, g)
      PROVE  h[j].att = Nobody
  <2>1. SUFFICES ASSUME h[j].att # Nobody
                 PROVE  FALSE
    OBVIOUS
  <2>2. j \in 1..Len(h)
    BY <1>2
  <2>3. /\ SubSeq(h, 1, j) \in History /\ Len(SubSeq(h, 1, j)) = j
        /\ IsAncestor(SubSeq(h, 1, j), h)
    BY <2>2, FirstCommits
  <2>4. IsAncestor(SubSeq(h, 1, j), g)
    BY <1>3, <2>1, <2>2 DEF Shared
  <2>5. j <= k
    BY <2>3, <2>4, MergeBaseProperties
  <2>6. QED
    BY <1>2, <2>5
<1> HIDE DEF tip, k
<1>4. /\ Len(g) \in Nat /\ Len(h) \in Nat /\ Len(tip) \in Nat /\ Len(g) <= Len(tip)
      /\ \A i \in 1..Len(g) : tip[i] = g[i]
  <2>1. g \in Seq(Commit) /\ tip \in Seq(Commit)
    BY <1>1, HistoryParts
  <2>2. QED
    BY <1>1, <2>1, PrefixPointwise, HistoryParts
<1>5. ASSUME Shared(h, g)
      PROVE  Shared(tip, g) /\ Once(tip)
  <2>1. ASSUME NEW i \in 1..Len(tip), tip[i].att # Nobody
        PROVE  IsAncestor(SubSeq(tip, 1, i), g)
    <3>1. i <= Len(g)
      <4>1. CASE i \in Len(g) + 1..Len(tip)
        BY <1>1, <1>3, <1>5, <2>1, <4>1
      <4>2. QED
        BY <1>4, <4>1
    <3>2. \A j \in 1..i : tip[j] = g[j]
      BY <1>4, <3>1
    <3>3. QED
      BY <1>1, <3>1, <3>2, FirstCommitsOf
  <2>2. Once(tip)
    BY <1>1, <1>3, <1>5
  <2>3. QED
    BY <2>1, <2>2 DEF Shared
<1>6. ASSUME Trailers(g) = {Nobody}
      PROVE  Trailers(tip) \subseteq Trailers(h) /\ Once(tip)
  <2>1. ASSUME NEW x \in Trailers(tip)
        PROVE  x \in Trailers(h)
    <3>1. PICK i \in 1..Len(tip) : x = tip[i].att
      BY <1>1, <2>1, TrailerAt
    <3>2. CASE i \in 1..Len(g)
      <4>1. x = g[i].att
        BY <1>4, <3>1, <3>2
      <4>2. x = Nobody
        BY <1>6, <3>2, <4>1, TrailerAt
      <4>3. QED
        BY <4>2, TrailerAt
    <3>3. CASE i \in Len(g) + 1..Len(tip)
      <4>1. PICK j \in k + 1..Len(h) : x = h[j].att
        BY <1>1, <3>1, <3>3
      <4>2. j \in 1..Len(h)
        BY <1>2
      <4>3. QED
        BY <4>1, <4>2, TrailerAt
    <3>4. QED
      BY <1>4, <3>2, <3>3
  <2>2. Once(tip)
    BY <1>1, <1>6
  <2>3. QED
    BY <2>1, <2>2
<1>7. QED
  BY <1>5, <1>6 DEF tip

\* Steps that neither move a main nor install anything.
LEMMA TrailersQuiet ==
    ASSUME Shape, TrailersOnce, UNCHANGED <<origin, local, head>>,
           \A a \in Attempt : \/ phase'[a] = phase[a]
                              \/ phase'[a] \notin {"ready", "leased", "queued"},
           mgr' = mgr \/ mgr' = "recovering",
           job'.pc \notin {"swap", "push", "cas"},
           Mode # "push" /\ job'.kind \in {"land", "adopt"} /\ job'.pc \in Before =>
               job'.att = job.att /\ job.kind \in {"land", "adopt"} /\ job.pc \in Before,
           \A a \in Attempt : Mode # "push" /\ phase'[a] = "queued" /\ job.att = a =>
               mgr' = "recovering" \/ job'.att = a
    PROVE  TrailersOnce'
<1>1. Once(origin)' /\ Once(local)'
  BY DEF TrailersOnce, Once
<1>2. TrailersPushed'
  <2>1. SUFFICES ASSUME Mode = "push"
                 PROVE  Stamped(origin)' /\ Shared(local, origin)'
    BY DEF TrailersPushed
  <2>2. Stamped(origin) /\ Shared(local, origin)
    BY <2>1 DEF TrailersOnce, TrailersPushed
  <2>3. \A c : Backed(c) => Backed(c)'
    BY DEF Backed
  <2>4. Stamped(origin)'
    BY <2>2, <2>3 DEF Stamped
  <2>5. QED
    BY <2>2, <2>4 DEF Shared
<1>3. TrailersLocal'
  <2>1. SUFFICES ASSUME Mode # "push"
                 PROVE  TrailersLocal'
    BY DEF TrailersLocal
  <2>2. TrailersLocal
    BY DEF TrailersOnce
  <2>3. Trailers(local)' = Trailers(local) /\ Trailers(origin)' = Trailers(origin)
    BY DEF Trailers
  <2>4. QED
    BY <2>1, <2>2, <2>3 DEF TrailersLocal
<1>4. QED
  BY <1>1, <1>2, <1>3 DEF TrailersOnce

\* A lease and a submit: the attempt has no trailer yet.
LEMMA TrailersRow ==
    ASSUME Shape, TrailersOnce, UNCHANGED <<origin, local, job, mgr>>, NEW a \in Attempt,
           phase[a] \in {"ready", "leased"},
           \A b \in Attempt \ {a} : phase'[b] = phase[b] /\ head'[b] = head[b]
    PROVE  TrailersOnce'
<1>1. Once(origin)' /\ Once(local)' /\ (job'.pc \in {"swap", "push", "cas"} => Once(job.tip)')
  BY DEF TrailersOnce, Once
<1>2. TrailersPushed'
  <2>1. SUFFICES ASSUME Mode = "push"
                 PROVE  TrailersPushed'
    BY DEF TrailersPushed
  <2>2. TrailersPushed
    BY DEF TrailersOnce
  <2>3. \A c : Backed(c) => Backed(c)'
    BY DEF Backed
  <2>4. \A h : Stamped(h) => Stamped(h)'
    BY <2>3 DEF Stamped
  <2>5. QED
    BY <2>1, <2>2, <2>4 DEF TrailersPushed, Shared, Stamped
<1>3. TrailersLocal'
  <2>1. SUFFICES ASSUME Mode # "push"
                 PROVE  TrailersLocal'
    BY DEF TrailersLocal
  <2>2. TrailersLocal
    BY DEF TrailersOnce
  <2>3. Trailers(local)' = Trailers(local) /\ Trailers(origin)' = Trailers(origin)
    BY DEF Trailers
  <2>4. a \notin Trailers(local)
    BY <2>1, <2>2 DEF TrailersLocal
  <2>5. \A b \in Attempt : b \in Trailers(local) => phase'[b] = phase[b]
    BY <2>4
  <2>6. QED
    BY <2>1, <2>2, <2>3, <2>5 DEF TrailersLocal
<1>4. QED
  BY <1>1, <1>2, <1>3 DEF TrailersOnce

\* A commit without a trailer on local main.
LEMMA TrailersLocalCommit ==
    ASSUME Shape, TrailersOnce, UNCHANGED <<origin, head, job, mgr>>,
           \A a \in Attempt : \/ phase'[a] = phase[a]
                              \/ phase'[a] \notin {"ready", "leased", "queued"},
           NEW c \in Commit, c.att = Nobody, Tree(local) \subseteq c.tree,
           local' = Append(local, c)
    PROVE  TrailersOnce'
<1>0. local \in History /\ origin \in History /\ local' \in History
  BY CommitOnTop DEF Shape, TypeOK
<1>1. Once(origin)' /\ (job'.pc \in {"swap", "push", "cas"} => Once(job.tip)')
  BY DEF TrailersOnce, Once
<1>2. Once(local')
  BY <1>0, OnceOnTop DEF TrailersOnce
<1>3. TrailersPushed'
  <2>1. SUFFICES ASSUME Mode = "push"
                 PROVE  TrailersPushed'
    BY DEF TrailersPushed
  <2>2. TrailersPushed
    BY DEF TrailersOnce
  <2>3. \A d : Backed(d) => Backed(d)'
    BY DEF Backed
  <2>4. \A h : Stamped(h) => Stamped(h)'
    BY <2>3 DEF Stamped
  <2>5. Shared(local', origin)
    BY <1>0, <2>1, <2>2, SharedOnTop DEF TrailersPushed
  <2>6. QED
    BY <2>1, <2>2, <2>4, <2>5 DEF TrailersPushed, Shared, Stamped
<1>4. TrailersLocal'
  <2>1. SUFFICES ASSUME Mode # "push"
                 PROVE  TrailersLocal'
    BY DEF TrailersLocal
  <2>2. TrailersLocal
    BY DEF TrailersOnce
  <2>3. Trailers(local') = Trailers(local)
    <3>1. Trailers(local') = Trailers(local) \cup {Nobody}
      BY <1>0, TrailersOnTop
    <3>2. Nobody \in Trailers(local)
      BY <1>0, TrailerAt
    <3>3. QED
      BY <3>1, <3>2
  <2>4. Nobody \notin Attempt
    BY LandingConstants
  <2>5. Trailers(origin)' = Trailers(origin) /\ Trailers(local)' = Trailers(local)
    BY <2>3 DEF Trailers
  <2>6. job.kind \in {"land", "adopt"} => job.att \in Attempt
    BY DEF Shape, JobShape
  <2>7. QED
    BY <2>1, <2>2, <2>5 DEF TrailersLocal
<1>5. Once(local)'
  BY <1>2 DEF Once
<1>6. QED
  BY <1>1, <1>3, <1>4, <1>5 DEF TrailersOnce

\* A commit without a trailer on origin.
LEMMA TrailersOriginCommit ==
    ASSUME Shape, TrailersOnce, UNCHANGED <<local, head, phase, job, mgr>>,
           NEW c \in Commit, c.att = Nobody, Tree(origin) \subseteq c.tree,
           origin' = Append(origin, c)
    PROVE  TrailersOnce'
<1>0. /\ local \in History /\ origin \in History /\ origin' \in History
      /\ IsAncestor(origin, origin')
  BY CommitOnTop DEF Shape, TypeOK
<1>1. Once(local)' /\ (job'.pc \in {"swap", "push", "cas"} => Once(job.tip)')
  BY DEF TrailersOnce, Once
<1>2. Once(origin')
  BY <1>0, OnceOnTop DEF TrailersOnce
<1>3. TrailersPushed'
  <2>1. SUFFICES ASSUME Mode = "push"
                 PROVE  TrailersPushed'
    BY DEF TrailersPushed
  <2>2. TrailersPushed
    BY DEF TrailersOnce
  <2>3. \A d : Backed(d) <=> Backed(d)'
    BY DEF Backed
  <2>4. \A h : Stamped(h) => Stamped(h)'
    BY <2>3 DEF Stamped
  <2>5. Shared(local, origin')
    BY <1>0, <2>1, <2>2, SharedGrows DEF TrailersPushed
  <2>6. Stamped(origin')
    <3>1. Backed(c)
      BY LandingConstants DEF Backed
    <3>2. QED
      BY <1>0, <2>1, <2>2, <3>1, StampedOnTop DEF TrailersPushed
  <2>7. job.pc = "swap" => Shared(job.tip, origin')
    BY <1>0, <2>1, <2>2, SharedGrows DEF TrailersPushed, Shape, JobShape
  <2>8. job.pc = "cas" => IsAncestor(job.tip, origin')
    <3>1. SUFFICES ASSUME job.pc = "cas"
                   PROVE  IsAncestor(job.tip, origin')
      OBVIOUS
    <3>2. /\ job.tip \in Seq(Commit) /\ origin \in Seq(Commit) /\ origin' \in Seq(Commit)
          /\ IsAncestor(job.tip, origin)
      BY <1>0, <2>1, <2>2, <3>1, HistoryParts DEF TrailersPushed, Shape, JobShape
    <3>3. QED
      BY <1>0, <3>2, PrefixTrans
  <2>9. Stamped(origin)'
    BY <2>3, <2>6 DEF Stamped
  <2>10. QED
    BY <2>1, <2>2, <2>4, <2>5, <2>7, <2>8, <2>9 DEF TrailersPushed, Shared, Stamped
<1>4. TrailersLocal'
  <2>1. SUFFICES ASSUME Mode # "push"
                 PROVE  TrailersLocal'
    BY DEF TrailersLocal
  <2>2. TrailersLocal
    BY DEF TrailersOnce
  <2>3. Trailers(origin') = Trailers(origin)
    <3>1. Trailers(origin') = Trailers(origin) \cup {Nobody}
      BY <1>0, TrailersOnTop
    <3>2. Nobody \in Trailers(origin)
      BY <1>0, TrailerAt
    <3>3. QED
      BY <3>1, <3>2
  <2>5. Trailers(origin)' = Trailers(origin) /\ Trailers(local)' = Trailers(local)
    BY <2>3 DEF Trailers
  <2>7. QED
    BY <2>1, <2>2, <2>5 DEF TrailersLocal
<1>5. Once(origin)'
  BY <1>2 DEF Once
<1>6. QED
  BY <1>1, <1>3, <1>4, <1>5 DEF TrailersOnce

LEMMA TrailersLandAdopt ==
    ASSUME Shape, TrailersOnce, LandAdopt
    PROVE  TrailersOnce'
<1> USE DEF repo, refs, rows, oper, ends
<1>1. /\ TypeOK /\ JobShape /\ job \in Job /\ local \in History /\ origin \in History
      /\ job.pc = "adopt" /\ job.kind \in {"land", "adopt"}
  BY DEF Shape, TypeOK, JobShape, LandAdopt, At, Job
<1>2. /\ job'.kind = job.kind /\ job'.att = job.att /\ job'.pc \in {"sync", "report"}
      /\ UNCHANGED <<local, head, phase, mgr>>
  BY <1>1, JobGoes, JobEnds DEF LandAdopt, Goto
<1>3. CASE origin' = origin
  <2>1. job'.pc \notin {"swap", "push", "cas"}
    BY <1>2
  <2>2. job'.kind \in {"land", "adopt"} /\ job'.pc \in Before =>
            job'.att = job.att /\ job.kind \in {"land", "adopt"} /\ job.pc \in Before
    BY <1>1, <1>2 DEF Before
  <2>3. QED
    BY <1>2, <1>3, <2>1, <2>2, TrailersQuiet
<1>4. CASE Mode = "push" /\ IsAncestor(origin, local) /\ origin' = local
  <2>1. Once(origin') /\ Once(local')
    BY <1>2, <1>4 DEF TrailersOnce
  <2>2. Stamped(local)
    BY <1>1, <1>4, StampedShared DEF TrailersOnce, TrailersPushed
  <2>3. Shared(local, local)
    <3>1. IsAncestor(local, local)
      BY <1>1, HistoryParts, PrefixRefl
    <3>2. QED
      BY <1>1, <3>1, SharedWithDescendant
  <2>4. \A c : Backed(c) <=> Backed(c)'
    BY <1>2 DEF Backed
  <2>5. Stamped(origin)' /\ Shared(local, origin)'
    BY <1>2, <1>4, <2>2, <2>3, <2>4 DEF Stamped, Shared
  <2>6. Once(origin)' /\ Once(local)'
    BY <2>1 DEF Once
  <2>7. QED
    BY <1>2, <1>4, <2>5, <2>6 DEF TrailersOnce, TrailersPushed, TrailersLocal
<1>5. QED
  BY <1>3, <1>4 DEF LandAdopt

LEMMA TrailersSync ==
    ASSUME Shape, TrailersOnce, Sync
    PROVE  TrailersOnce'
<1> USE DEF repo, refs, rows, oper, ends
<1>1. /\ TypeOK /\ JobShape /\ job \in Job /\ local \in History /\ origin \in History
      /\ job.pc = "sync" /\ UNCHANGED <<origin, local, head, phase, mgr>>
  BY DEF Shape, TypeOK, Sync, At
<1>2. CASE job'.pc # "swap"
  <2>1. \/ job' = Idle /\ job.kind = "sync"
        \/ job'.pc = "produce" /\ job'.kind = job.kind /\ job'.att = job.att
    BY <1>2, SyncChoice
  <2>2. job'.pc \notin {"swap", "push", "cas"}
    BY <2>1, IdleParts
  <2>3. /\ job'.kind \in {"land", "adopt"} /\ job'.pc \in Before =>
               job'.att = job.att /\ job.kind \in {"land", "adopt"} /\ job.pc \in Before
        /\ \A a \in Attempt : job.att = a => job'.att = a
    BY <1>1, <2>1, IdleParts, LandingConstants DEF Before, JobShape
  <2>4. QED
    BY <1>1, <2>2, <2>3, TrailersQuiet
<1>3. CASE job'.pc = "swap"
  <2>1. /\ job'.from = local /\ job'.kind = job.kind /\ job'.att = job.att
        /\ \/ IsAncestor(local, origin) /\ job'.tip = origin
           \/ job'.tip = Rescue(origin, local).tip
    BY <1>3, SyncChoice, IdleParts
  <2>2. Once(origin) /\ Once(local)
    BY DEF TrailersOnce
  <2>3. /\ Shared(local, origin) => Shared(job'.tip, origin) /\ Once(job'.tip)
        /\ Trailers(origin) = {Nobody} =>
               Trailers(job'.tip) \subseteq Trailers(local) /\ Once(job'.tip)
    <3>1. CASE job'.tip = Rescue(origin, local).tip
      <4> DEFINE t == Rescue(origin, local).tip
      <4>1. /\ Shared(local, origin) => Shared(t, origin) /\ Once(t)
            /\ Trailers(origin) = {Nobody} =>
                   Trailers(t) \subseteq Trailers(local) /\ Once(t)
        BY <1>1, <2>2, RescueTrailers
      <4> HIDE DEF t
      <4>2. job'.tip = t
        BY <3>1 DEF t
      <4>3. QED
        BY <4>1, <4>2
    <3>2. CASE job'.tip = origin
      <4>1. IsAncestor(origin, origin)
        BY <1>1, HistoryParts, PrefixRefl
      <4>2. Shared(origin, origin)
        BY <1>1, <4>1, SharedWithDescendant
      <4>3. Nobody \in Trailers(local)
        BY <1>1, TrailerAt
      <4>4. QED
        BY <2>2, <3>2, <4>2, <4>3
    <3>3. QED
      BY <2>1, <3>1, <3>2
  <2>4. Mode = "push" => Shared(local, origin) /\ Stamped(origin)
    BY DEF TrailersOnce, TrailersPushed
  <2>5. Mode # "push" => Trailers(origin) = {Nobody}
    BY DEF TrailersOnce, TrailersLocal
  <2>6. Once(origin)' /\ Once(local)' /\ Once(job.tip)'
    BY <1>1, <2>2, <2>3, <2>4, <2>5 DEF Once
  <2>7. TrailersPushed'
    <3>1. SUFFICES ASSUME Mode = "push"
                   PROVE  Stamped(origin)' /\ Shared(local, origin)' /\ Shared(job'.tip, origin')
      BY <1>3 DEF TrailersPushed, Shared
    <3>2. \A c : Backed(c) <=> Backed(c)'
      BY <1>1 DEF Backed
    <3>3. Stamped(origin)'
      BY <1>1, <2>4, <3>1, <3>2 DEF Stamped
    <3>4. QED
      BY <1>1, <2>3, <2>4, <3>1, <3>3 DEF Shared
  <2>8. TrailersLocal'
    <3>1. SUFFICES ASSUME Mode # "push"
                   PROVE  TrailersLocal'
      BY DEF TrailersLocal
    <3>2. TrailersLocal
      BY DEF TrailersOnce
    <3>3. Trailers(local)' = Trailers(local) /\ Trailers(origin)' = Trailers(origin)
      BY <1>1 DEF Trailers
    <3>4. (Trailers(job.tip) \subseteq Trailers(job.from))'
      BY <1>1, <2>1, <2>3, <2>5, <3>1 DEF Trailers
    <3>5. job.pc \in Before
      BY <1>1 DEF Before
    <3>6. QED
      BY <1>1, <1>3, <2>1, <3>1, <3>2, <3>3, <3>4, <3>5 DEF TrailersLocal
  <2>9. QED
    BY <1>3, <2>6, <2>7, <2>8 DEF TrailersOnce
<1>4. QED
  BY <1>2, <1>3

LEMMA TrailersSyncSwap ==
    ASSUME Shape, TrailersOnce, SyncSwap
    PROVE  TrailersOnce'
<1> USE DEF repo, refs, rows, oper, ends
<1>1. /\ TypeOK /\ JobShape /\ job \in Job /\ job.pc = "swap"
      /\ job.tip \in History /\ origin \in History /\ local \in History
      /\ UNCHANGED <<origin, head, phase, mgr>>
  BY DEF Shape, TypeOK, JobShape, SyncSwap, At
<1>2. CASE local = job.from
  <2>1. /\ local' = job.tip /\ job'.pc = "sync_advance"
        /\ job'.kind = job.kind /\ job'.att = job.att
    BY <1>1, <1>2 DEF SyncSwap, Job
  <2>2. Once(origin)' /\ Once(local)'
    BY <1>1, <2>1 DEF TrailersOnce, Once
  <2>3. TrailersPushed'
    <3>1. SUFFICES ASSUME Mode = "push"
                   PROVE  Stamped(origin)' /\ Shared(local, origin)'
      BY <2>1 DEF TrailersPushed
    <3>2. Stamped(origin) /\ Shared(job.tip, origin)
      BY <1>1, <3>1 DEF TrailersOnce, TrailersPushed
    <3>3. \A c : Backed(c) <=> Backed(c)'
      BY <1>1 DEF Backed
    <3>4. QED
      BY <1>1, <2>1, <3>2, <3>3 DEF Stamped, Shared
  <2>4. TrailersLocal'
    <3>1. SUFFICES ASSUME Mode # "push"
                   PROVE  TrailersLocal'
      BY DEF TrailersLocal
    <3>2. TrailersLocal
      BY DEF TrailersOnce
    <3>3. Trailers(local)' \subseteq Trailers(local) /\ Trailers(origin)' = Trailers(origin)
      BY <1>1, <1>2, <2>1, <3>1, <3>2 DEF Trailers, TrailersLocal
    <3>4. job.pc \in Before
      BY <1>1 DEF Before
    <3>5. QED
      BY <1>1, <2>1, <3>1, <3>2, <3>3, <3>4 DEF TrailersLocal
  <2>5. QED
    BY <2>1, <2>2, <2>3, <2>4 DEF TrailersOnce
<1>3. CASE local # job.from
  <2>1. \/ job' = Idle /\ job.kind = "sync"
        \/ job'.pc = "produce" /\ job'.kind = job.kind /\ job'.att = job.att
    BY <1>1, <1>3, SyncReturns DEF SyncSwap
  <2>2. job'.pc \notin {"swap", "push", "cas"} /\ local' = local
    BY <1>3, <2>1, IdleParts DEF SyncSwap
  <2>3. /\ job'.kind \in {"land", "adopt"} /\ job'.pc \in Before =>
               job'.att = job.att /\ job.kind \in {"land", "adopt"} /\ job.pc \in Before
        /\ \A a \in Attempt : job.att = a => job'.att = a
    BY <1>1, <2>1, IdleParts, LandingConstants DEF Before, JobShape
  <2>4. QED
    BY <1>1, <2>2, <2>3, TrailersQuiet
<1>4. QED
  BY <1>2, <1>3

LEMMA TrailersProduce ==
    ASSUME Shape, TrailersOnce, Produce
    PROVE  TrailersOnce'
<1> USE DEF repo, refs, rows, oper, ends
<1> DEFINE a == job.att
           t == Produced(local)
<1>1. /\ TypeOK /\ JobShape /\ RowShape /\ job \in Job /\ job.pc = "produce"
      /\ local \in History /\ origin \in History
      /\ UNCHANGED <<origin, local, head, phase, mgr>>
  BY DEF Shape, TypeOK, Produce, At
<1>2. CASE ProduceFails(local)
  <2>1. job'.kind = job.kind /\ job'.att = job.att /\ job'.pc = "report"
    BY <1>1, <1>2, JobEnds DEF Produce
  <2>2. job'.pc \notin {"swap", "push", "cas"} /\ job'.pc \notin Before
    BY <2>1 DEF Before
  <2>3. QED
    BY <1>1, <2>1, <2>2, TrailersQuiet
<1>3. CASE ~ProduceFails(local)
  <2>1. /\ a \in Attempt
        /\ \/ t = local /\ job.kind = "cherry" /\ a \in Tree(local)
           \/ \E c \in Commit :
                /\ c.att = a /\ a \in c.tree /\ t = Append(local, c)
                /\ Tree(local) \subseteq c.tree
                /\ job.kind = "cherry" =>
                       c.tree = Tree(local) \cup {a} /\ a \notin Tree(local)
                /\ job.kind # "cherry" =>
                       /\ job.kind = "land" /\ head[a] \in History
                       /\ branch[a] = head[a]
                       /\ c.tree = Tree(local) \cup Tree(head[a])
                       /\ ~(Tree(head[a]) \subseteq Tree(local))
    BY <1>3, ProducedOnTop DEF Produce
  <2> HIDE DEF t
  <2>2. /\ job'.pc = IF Mode = "push" THEN "push" ELSE "cas"
        /\ job'.tip = t /\ job'.from = local /\ job'.kind = job.kind /\ job'.att = a
    BY <1>1, <1>3 DEF Produce, Job, t
  <2>3. Mode = "push" => Stamped(local)
    BY <1>1, StampedShared DEF TrailersOnce, TrailersPushed
  <2>4. job.kind = "cherry" => Mode = "push" /\ phase[a] = "resolving"
    BY <1>1, <2>1 DEF JobShape, RowShape
  <2>5. job.kind # "cherry" => phase[a] = "queued" /\ job.kind = "land"
    BY <1>1, <2>1 DEF JobShape, Job
  <2>6. Once(local) /\ Once(origin)
    BY DEF TrailersOnce
  <2>7. /\ Once(t) /\ (Mode = "push" => Stamped(t))
        /\ Mode # "push" => Trailers(t) = Trailers(local) \cup {a}
    <3>1. CASE t = local /\ job.kind = "cherry"
      BY <2>3, <2>4, <2>6, <3>1
    <3>2. CASE ~(t = local /\ job.kind = "cherry")
      <4>1. PICK c \in Commit :
                /\ c.att = a /\ a \in c.tree /\ t = Append(local, c)
                /\ Tree(local) \subseteq c.tree
                /\ job.kind = "cherry" =>
                       c.tree = Tree(local) \cup {a} /\ a \notin Tree(local)
                /\ job.kind # "cherry" =>
                       /\ job.kind = "land" /\ head[a] \in History
                       /\ branch[a] = head[a]
                       /\ c.tree = Tree(local) \cup Tree(head[a])
                       /\ ~(Tree(head[a]) \subseteq Tree(local))
        BY <2>1, <3>2
      <4>2. a \notin Trailers(local)
        <5>1. CASE Mode = "push"
          BY <1>1, <2>1, <2>3, <2>4, <2>5, <4>1, <5>1, StampedTrailer
        <5>2. CASE Mode # "push"
          <6>1. job.kind \in {"land", "adopt"} /\ job.pc \in Before
            BY <1>1, <2>4, <2>5, <5>2 DEF Before
          <6>2. QED
            BY <5>2, <6>1 DEF TrailersOnce, TrailersLocal
        <5>3. QED
          BY <5>1, <5>2
      <4>3. Backed(c)
        <5>1. \A b \in Attempt : c.att = b => b = a
          BY <4>1
        <5>2. head[a] \in History => head[a] # NoRef
          BY NoRefIsNone
        <5>3. QED
          BY <2>4, <2>5, <4>1, <5>1, <5>2 DEF Backed
      <4>4. Once(t)
        BY <1>1, <2>6, <4>1, <4>2, OnceOnTop
      <4>5. Mode = "push" => Stamped(t)
        BY <1>1, <2>3, <4>1, <4>3, StampedOnTop
      <4>6. Trailers(t) = Trailers(local) \cup {a}
        BY <1>1, <4>1, TrailersOnTop
      <4>7. QED
        BY <4>4, <4>5, <4>6
    <3>3. QED
      BY <3>1, <3>2
  <2>8. Once(origin)' /\ Once(local)' /\ Once(job.tip)'
    BY <1>1, <2>2, <2>6, <2>7 DEF Once
  <2>9. \A c : Backed(c) <=> Backed(c)'
    BY <1>1 DEF Backed
  <2>10. TrailersPushed'
    <3>1. SUFFICES ASSUME Mode = "push"
                   PROVE  TrailersPushed'
      BY DEF TrailersPushed
    <3>2. TrailersPushed
      BY DEF TrailersOnce
    <3>3. QED
      BY <1>1, <2>2, <2>7, <2>9, <3>1, <3>2 DEF TrailersPushed, Stamped, Shared
  <2>11. TrailersLocal'
    <3>1. SUFFICES ASSUME Mode # "push"
                   PROVE  TrailersLocal'
      BY DEF TrailersLocal
    <3>2. TrailersLocal
      BY DEF TrailersOnce
    <3>3. Trailers(local)' = Trailers(local) /\ Trailers(origin)' = Trailers(origin)
      BY <1>1 DEF Trailers
    <3>4. (Trailers(job.tip) = Trailers(job.from) \cup {job.att})'
      BY <2>2, <2>7, <3>1, <1>1 DEF Trailers
    <3>5. job.pc \in Before
      BY <1>1 DEF Before
    <3>6. QED
      BY <1>1, <2>2, <3>1, <3>2, <3>3, <3>4, <3>5 DEF TrailersLocal
  <2>12. QED
    BY <2>8, <2>10, <2>11 DEF TrailersOnce
<1>4. QED
  BY <1>2, <1>3

LEMMA TrailersPush ==
    ASSUME Shape, TrailersOnce, Push
    PROVE  TrailersOnce'
<1> USE DEF repo, refs, rows, oper, ends
<1>1. /\ TypeOK /\ JobShape /\ job \in Job /\ job.pc = "push" /\ Mode = "push"
      /\ job.tip \in History /\ origin \in History /\ local \in History
      /\ UNCHANGED <<local, head, phase, mgr>>
  BY DEF Shape, TypeOK, JobShape, Push, At
<1>2. CASE IsAncestor(origin, job.tip) /\ origin' = job.tip /\ Goto("cas")
  <2>1. job'.pc = "cas" /\ job'.tip = job.tip
    BY <1>1, <1>2, JobGoes DEF Goto
  <2>2. Once(local)' /\ Once(origin)' /\ Once(job.tip)'
    BY <1>1, <1>2, <2>1 DEF TrailersOnce, Once
  <2>3. \A c : Backed(c) <=> Backed(c)'
    BY <1>1 DEF Backed
  <2>4. Stamped(job.tip) /\ Shared(local, job.tip)
    BY <1>1, <1>2, SharedGrows DEF TrailersOnce, TrailersPushed
  <2>5. IsAncestor(job.tip, job.tip)
    BY <1>1, HistoryParts, PrefixRefl
  <2>6. Stamped(origin)' /\ Shared(local, origin)' /\ IsAncestor(job.tip, origin)'
    BY <1>1, <1>2, <2>1, <2>3, <2>4, <2>5 DEF Stamped, Shared
  <2>7. QED
    BY <1>1, <2>1, <2>2, <2>6 DEF TrailersOnce, TrailersPushed, TrailersLocal
<1>3. CASE Retry /\ UNCHANGED origin
  <2>1. job'.att = job.att /\ job'.pc \notin {"swap", "push", "cas"}
    BY <1>1, <1>3, RetryGoes
  <2>2. QED
    BY <1>1, <1>3, <2>1, TrailersQuiet
<1>4. QED
  BY <1>2, <1>3 DEF Push

LEMMA TrailersCas ==
    ASSUME Shape, TrailersOnce, Cas
    PROVE  TrailersOnce'
<1> USE DEF repo, refs, rows, oper, ends
<1>1. /\ TypeOK /\ JobShape /\ RowShape /\ job \in Job /\ job.pc = "cas"
      /\ job.tip \in History /\ origin \in History /\ local \in History
      /\ UNCHANGED <<origin, head, phase, mgr>>
  BY DEF Shape, TypeOK, JobShape, Cas, At
<1>2. CASE local = job.from
  <2>1. /\ local' = job.tip /\ job'.pc = "advance"
        /\ job'.kind = job.kind /\ job'.att = job.att
    BY <1>1, <1>2, JobGoes DEF Cas, Goto
  <2>2. Once(origin)' /\ Once(local)'
    BY <1>1, <2>1 DEF TrailersOnce, Once
  <2>3. TrailersPushed'
    <3>1. SUFFICES ASSUME Mode = "push"
                   PROVE  Stamped(origin)' /\ Shared(local, origin)'
      BY <2>1 DEF TrailersPushed
    <3>2. Stamped(origin) /\ Shared(job.tip, origin)
      BY <1>1, <3>1, SharedWithDescendant DEF TrailersOnce, TrailersPushed
    <3>3. \A c : Backed(c) <=> Backed(c)'
      BY <1>1 DEF Backed
    <3>4. QED
      BY <1>1, <2>1, <3>2, <3>3 DEF Stamped, Shared
  <2>4. TrailersLocal'
    <3>1. SUFFICES ASSUME Mode # "push"
                   PROVE  TrailersLocal'
      BY DEF TrailersLocal
    <3>2. TrailersLocal
      BY DEF TrailersOnce
    <3>3. /\ Trailers(local)' = Trailers(local) \cup {job.att}
          /\ Trailers(origin)' = Trailers(origin)
      <4>1. Trailers(job.tip) = Trailers(local) \cup {job.att}
        BY <1>1, <1>2, <3>1, <3>2 DEF TrailersLocal
      <4>2. Trailers(local)' = Trailers(job.tip)
        BY <2>1 DEF Trailers
      <4>3. Trailers(origin)' = Trailers(origin)
        BY <1>1 DEF Trailers
      <4>4. QED
        BY <4>1, <4>2, <4>3
    <3>4. job.att \in Attempt => phase[job.att] = "queued"
      BY <1>1, <3>1, LandingConstants DEF JobShape, RowShape, Job
    <3>5. job'.pc \notin Before
      BY <2>1 DEF Before
    <3>6. QED
      BY <1>1, <2>1, <3>1, <3>2, <3>3, <3>4, <3>5 DEF TrailersLocal
  <2>5. QED
    BY <2>1, <2>2, <2>3, <2>4 DEF TrailersOnce
<1>3. CASE local # job.from
  <2>1. local' = local
    BY <1>3 DEF Cas
  <2>2. CASE Mode = "push"
    <3>1. job'.pc = "teardown" /\ job'.att = job.att
      BY <1>1, <1>3, <2>2 DEF Cas, Job
    <3>2. job'.pc \notin {"swap", "push", "cas"}
      BY <3>1
    <3>3. QED
      BY <1>1, <2>1, <2>2, <3>1, <3>2, TrailersQuiet
  <2>3. CASE Mode # "push"
    <3>1. /\ job'.kind = job.kind /\ job'.att = job.att
          /\ job'.pc \notin {"swap", "push", "cas"}
      BY <1>1, <1>3, <2>3, RetryGoes DEF Cas
    <3>2. job.pc \in Before
      BY <1>1 DEF Before
    <3>3. QED
      BY <1>1, <2>1, <3>1, <3>2, TrailersQuiet
  <2>4. QED
    BY <2>2, <2>3
<1>4. QED
  BY <1>2, <1>3

LEMMA TrailersJobStep ==
    ASSUME Shape, TrailersOnce, JobStep
    PROVE  TrailersOnce'
<1> USE DEF repo, refs, rows, oper, ends
<1>0. /\ TypeOK /\ JobShape /\ RowShape /\ job \in Job
      /\ Nobody \notin Attempt
  BY LandingConstants DEF Shape, TypeOK
<1>1. CASE LandFetch
  <2>1. /\ job'.kind = job.kind /\ job'.att = job.att /\ job.pc = "fetch"
        /\ job'.pc \in {"adopt", "report"}
        /\ UNCHANGED <<origin, local, head, phase, mgr>>
    BY <1>0, <1>1, JobGoes, JobEnds DEF LandFetch, Goto, At
  <2>2. job'.pc \notin {"swap", "push", "cas"} /\ job.pc \in Before
    BY <2>1 DEF Before
  <2>3. QED
    BY <2>1, <2>2, TrailersQuiet
<1>2. CASE LandAdopt
  BY <1>2, TrailersLandAdopt
<1>3. CASE Sync
  BY <1>3, TrailersSync
<1>4. CASE SyncSwap
  BY <1>4, TrailersSyncSwap
<1>5. CASE SyncAdvance
  <2>1. /\ \/ job' = Idle /\ job.kind = "sync"
           \/ job'.pc = "produce" /\ job'.kind = job.kind /\ job'.att = job.att
        /\ UNCHANGED <<origin, local, head, phase, mgr>> /\ job.pc = "sync_advance"
    BY <1>0, <1>5, SyncReturns DEF SyncAdvance, At
  <2>2. job'.pc \notin {"swap", "push", "cas"} /\ job.pc \in Before
    BY <2>1, IdleParts DEF Before
  <2>3. /\ job'.kind \in {"land", "adopt"} /\ job'.pc \in Before =>
               job'.att = job.att /\ job.kind \in {"land", "adopt"}
        /\ \A a \in Attempt : job.att = a => job'.att = a
    BY <1>0, <2>1, IdleParts DEF JobShape
  <2>4. QED
    BY <2>1, <2>2, <2>3, TrailersQuiet
<1>6. CASE Produce
  BY <1>6, TrailersProduce
<1>7. CASE Push
  BY <1>7, TrailersPush
<1>8. CASE Cas
  BY <1>8, TrailersCas
<1>9. CASE Advance
  <2>1. /\ job'.att = job.att /\ job'.pc \in {"open_pr", "teardown"}
        /\ UNCHANGED <<origin, local, head, phase, mgr>>
    BY <1>0, <1>9 DEF Advance, Job
  <2>2. job'.pc \notin {"swap", "push", "cas"} /\ job'.pc \notin Before
    BY <2>1 DEF Before
  <2>3. QED
    BY <2>1, <2>2, TrailersQuiet
<1>10. CASE OpenPr \/ Teardown
  <2>1. /\ job'.att = job.att /\ job'.pc \in {"report", "teardown"}
        /\ UNCHANGED <<origin, local, head, phase, mgr>>
    BY <1>0, <1>10, JobGoes DEF OpenPr, Teardown, Goto
  <2>2. job'.pc \notin {"swap", "push", "cas"} /\ job'.pc \notin Before
    BY <2>1 DEF Before
  <2>3. QED
    BY <2>1, <2>2, TrailersQuiet
<1>11. CASE ReportLand \/ ReportResolve
  <2>1. /\ job' = Idle /\ phase' = [phase EXCEPT ![job.att] = "done"]
        /\ job.att \in Attempt
        /\ UNCHANGED <<origin, local, head, mgr>>
    BY <1>0, <1>11 DEF ReportLand, ReportResolve, JobShape
  <2>2. job'.pc \notin {"swap", "push", "cas"} /\ job'.kind \notin {"land", "adopt"}
    BY <2>1, IdleParts
  <2>3. /\ phase'[job.att] = "done"
        /\ \A a \in Attempt : phase'[a] = phase[a] \/ phase'[a] = "done"
    BY <1>0, <2>1 DEF TypeOK
  <2>4. QED
    BY <2>1, <2>2, <2>3, TrailersQuiet
<1>12. QED
  BY <1>1, <1>2, <1>3, <1>4, <1>5, <1>6, <1>7, <1>8, <1>9, <1>10, <1>11
     DEF JobStep

\* A land job starts for an attempt without a trailer on local main, unless
\* pushes keep the trailers on origin.
LEMMA TrailersLandStart ==
    ASSUME Shape, TrailersOnce, NEW a \in Attempt, NEW r \in BOOLEAN, LandStart(a, r),
           mgr' = mgr, mgr = "up" \/ a \notin Trailers(local)
    PROVE  TrailersOnce'
<1> USE DEF repo, refs, rows, oper, ends
<1>1. /\ TypeOK /\ job = Idle /\ phase[a] = "queued" /\ Nobody \notin Attempt
      /\ job'.kind \in {"land", "adopt"} /\ job'.att = a
      /\ job'.pc \in {"fetch", "adopt"}
      /\ UNCHANGED <<origin, local, head, phase, mgr>>
  BY LandingConstants DEF Shape, TypeOK, JobShape, LandStart, At, Idle
<1>2. Once(origin)' /\ Once(local)'
  BY <1>1 DEF TrailersOnce, Once
<1>3. TrailersPushed'
  <2>1. \A c : Backed(c) <=> Backed(c)'
    BY <1>1 DEF Backed
  <2>2. TrailersPushed
    BY DEF TrailersOnce
  <2>3. QED
    BY <1>1, <2>1, <2>2 DEF TrailersPushed, Stamped, Shared
<1>4. TrailersLocal'
  <2>1. SUFFICES ASSUME Mode # "push"
                 PROVE  TrailersLocal'
    BY DEF TrailersLocal
  <2>2. TrailersLocal
    BY DEF TrailersOnce
  <2>3. Trailers(local)' = Trailers(local) /\ Trailers(origin)' = Trailers(origin)
    BY <1>1 DEF Trailers
  <2>4. job.att \notin Attempt
    BY <1>1, IdleParts
  <2>5. a \notin Trailers(local)
    BY <1>1, <2>1, <2>2, <2>4 DEF TrailersLocal
  <2>6. QED
    BY <1>1, <2>1, <2>2, <2>3, <2>4, <2>5 DEF TrailersLocal
<1>5. QED
  BY <1>1, <1>2, <1>3, <1>4 DEF TrailersOnce

\* Steps that touch nothing that trailers are about.
LEMMA TrailersUnmoved ==
    ASSUME TrailersOnce, UNCHANGED <<origin, local, head, phase, job>>,
           mgr' = mgr \/ \A a \in Attempt : phase[a] # "queued"
    PROVE  TrailersOnce'
<1>1. \A c : Backed(c) <=> Backed(c)'
  BY DEF Backed
<1>2. TrailersPushed'
  BY <1>1 DEF TrailersOnce, TrailersPushed, Stamped, Shared
<1>3. TrailersLocal'
  <2>1. SUFFICES ASSUME Mode # "push"
                 PROVE  TrailersLocal'
    BY DEF TrailersLocal
  <2>2. TrailersLocal
    BY DEF TrailersOnce
  <2>3. /\ Trailers(local)' = Trailers(local) /\ Trailers(origin)' = Trailers(origin)
        /\ Trailers(job.tip)' = Trailers(job.tip) /\ Trailers(job.from)' = Trailers(job.from)
    BY DEF Trailers
  <2>4. QED
    BY <2>1, <2>2, <2>3 DEF TrailersLocal
<1>4. QED
  BY <1>2, <1>3 DEF TrailersOnce, Once

LEMMA TrailersStep ==
    ASSUME Shape, TrailersOnce, [Next]_vars
    PROVE  TrailersOnce'
<1> USE DEF repo, refs, rows, oper, ends
<1>0. /\ TypeOK /\ JobShape /\ RowShape /\ local \in History /\ origin \in History
      /\ Nobody \notin Attempt /\ (job.pc = "idle" => job = Idle)
  BY LandingConstants DEF Shape, TypeOK, JobShape
<1>1. CASE UNCHANGED vars
  BY <1>1, TrailersUnmoved DEF vars
<1>2. CASE JobStep
  BY <1>2, TrailersJobStep
<1>3. CASE PollSync
  <2>1. /\ job = Idle /\ job'.kind = "sync" /\ job'.pc = "sync"
        /\ UNCHANGED <<origin, local, head, phase, mgr>>
    BY <1>0, <1>3 DEF PollSync, At, Idle
  <2>2. job'.pc \notin {"swap", "push", "cas"} /\ job.att \notin Attempt
    BY <1>0, <2>1, IdleParts
  <2>3. QED
    BY <2>1, <2>2, TrailersQuiet
<1>4. CASE Recover
  <2>1. CASE RecoveryDone
    <3>1. /\ \A a \in Attempt : phase[a] # "queued"
          /\ UNCHANGED <<origin, local, head, phase, job>>
      BY <2>1 DEF RecoveryDone
    <3>2. QED
      BY <3>1, TrailersUnmoved
  <2>2. ASSUME NEW a \in Attempt, RecoverReenqueue(a)
        PROVE  TrailersOnce'
    BY <2>2, TrailersLandStart DEF RecoverReenqueue, FindLandedAttempt, LandStart
  <2>3. ASSUME NEW a \in Attempt, RecoverLanded(a) \/ RecoverPark(a)
        PROVE  TrailersOnce'
    <3>1. /\ job = Idle /\ phase' = [phase EXCEPT ![a] = "done"]
          /\ UNCHANGED <<origin, local, head, job, mgr>>
      BY <1>0, <2>3 DEF RecoverLanded, RecoverPark, At
    <3>2. job'.pc \notin {"swap", "push", "cas"} /\ job'.kind = "sync"
      BY <3>1, IdleParts
    <3>3. \A b \in Attempt : phase'[b] = phase[b] \/ phase'[b] = "done"
      BY <1>0, <3>1 DEF TypeOK
    <3>4. QED
      BY <3>1, <3>2, <3>3, TrailersQuiet
  <2>4. QED
    BY <1>4, <2>1, <2>2, <2>3 DEF Recover
<1>5. CASE Crash
  <2>1. /\ job' = Idle /\ mgr' = "recovering"
        /\ UNCHANGED <<origin, local, head>>
        /\ \A b \in Attempt : phase'[b] = phase[b] \/ phase'[b] = "done"
    BY <1>0, <1>5 DEF Crash, TypeOK
  <2>2. job'.pc \notin {"swap", "push", "cas"} /\ job'.kind = "sync"
    BY <2>1, IdleParts
  <2>3. QED
    BY <2>1, <2>2, TrailersQuiet
<1>6. ASSUME NEW a \in Attempt, Start(a)
      PROVE  TrailersOnce'
  BY <1>6, TrailersLandStart DEF Start, LandStart
<1>7. ASSUME NEW a \in Attempt, Lease(a) \/ Submit(a) \/ SubmitNothing(a)
      PROVE  TrailersOnce'
  <2>1. /\ phase[a] \in {"ready", "leased"}
        /\ UNCHANGED <<origin, local, job, mgr>>
        /\ \A b \in Attempt \ {a} : phase'[b] = phase[b] /\ head'[b] = head[b]
    BY <1>0, <1>7 DEF Lease, Submit, SubmitNothing, TypeOK, Refs
  <2>2. QED
    BY <2>1, TrailersRow
<1>8. ASSUME NEW a \in Attempt, AgentLands(a) \/ ResolverLands(a)
      PROVE  TrailersOnce'
  <2> DEFINE c == [tree |-> Tree(local) \cup {a}, att |-> Nobody, n |-> 0]
  <2>1. c \in Commit /\ c.att = Nobody /\ Tree(local) \subseteq c.tree
    BY <1>0, PlainCommit DEF Change
  <2>2. /\ local' = Append(local, c)
        /\ UNCHANGED <<origin, head, job, mgr>>
        /\ \A b \in Attempt : phase'[b] = phase[b] \/ phase'[b] = "resolving"
    BY <1>0, <1>8 DEF AgentLands, ResolverLands, TypeOK
  <2> HIDE DEF c
  <2>3. QED
    BY <2>1, <2>2, TrailersLocalCommit
<1>9. ASSUME NEW a \in Attempt, StalePublish(a)
      PROVE  TrailersOnce'
  <2>1. UNCHANGED <<origin, local, head, phase, job, mgr>>
    BY <1>9 DEF StalePublish
  <2>2. QED
    BY <2>1, TrailersUnmoved
<1>10. ASSUME NEW a \in Attempt, CherryStart(a)
       PROVE  TrailersOnce'
  <2>1. /\ job = Idle /\ job'.kind = "cherry" /\ job'.pc = "sync"
        /\ UNCHANGED <<origin, local, head, phase, mgr>>
    BY <1>0, <1>10 DEF CherryStart, At, Idle
  <2>2. job'.pc \notin {"swap", "push", "cas"} /\ job.att \notin Attempt
    BY <1>0, <2>1, IdleParts
  <2>3. QED
    BY <2>1, <2>2, TrailersQuiet
<1>11. ASSUME NEW a \in Attempt, GithubMerge(a)
       PROVE  TrailersOnce'
  <2>1. PICK c \in Commit : /\ c.att = Nobody /\ Tree(origin) \subseteq c.tree
                            /\ origin' = Append(origin, c)
    BY <1>0, <1>11, GithubSquash
  <2>2. UNCHANGED <<local, head, phase, job, mgr>>
    BY <1>11 DEF GithubMerge
  <2>3. QED
    BY <2>1, <2>2, TrailersOriginCommit
<1>12. ASSUME NEW x \in Foreign, ForeignPush(x)
       PROVE  TrailersOnce'
  <2> DEFINE c == [tree |-> Tree(origin) \cup {x}, att |-> Nobody, n |-> 0]
  <2>1. c \in Commit /\ c.att = Nobody /\ Tree(origin) \subseteq c.tree
    BY <1>0, PlainCommit DEF Change
  <2>2. origin' = Append(origin, c) /\ UNCHANGED <<local, head, phase, job, mgr>>
    BY <1>12 DEF ForeignPush
  <2> HIDE DEF c
  <2>3. QED
    BY <2>1, <2>2, TrailersOriginCommit
<1>13. ASSUME NEW x \in Local, OperatorCommit(x)
       PROVE  TrailersOnce'
  <2> DEFINE c == [tree |-> Tree(local) \cup {x}, att |-> Nobody, n |-> 0]
  <2>1. c \in Commit /\ c.att = Nobody /\ Tree(local) \subseteq c.tree
    BY <1>0, PlainCommit DEF Change
  <2>2. local' = Append(local, c) /\ UNCHANGED <<origin, head, phase, job, mgr>>
    BY <1>13 DEF OperatorCommit
  <2> HIDE DEF c
  <2>3. QED
    BY <2>1, <2>2, TrailersLocalCommit
<1>14. CASE OperatorSwitch \/ \E x \in Local : OperatorEdit(x)
  <2>1. UNCHANGED <<origin, local, head, phase, job, mgr>>
    BY <1>14 DEF OperatorSwitch, OperatorEdit
  <2>2. QED
    BY <2>1, TrailersUnmoved
<1>15. QED
  BY <1>1, <1>2, <1>3, <1>4, <1>5, <1>6, <1>7, <1>8, <1>9, <1>10, <1>11, <1>12,
     <1>13, <1>14 DEF Next

\* No attempt has its trailer on two commits of main, here or on origin, however
\* often crashes, lost races and rescues make the land run again.
THEOREM TrailerOnceHolds == Spec => []TrailerOnce
<1>1. Init => Shape /\ TrailersOnce
  <2>1. SUFFICES ASSUME Init
                 PROVE  TrailersOnce
    BY ShapeInit
  <2>2. Once(Root) /\ Len(Root) = 1 /\ Root[1].att = Nobody /\ Trailers(Root) = {Nobody}
    BY RootIsHistory, HistoryParts DEF Once
  <2>3. Stamped(Root) /\ Shared(Root, Root)
    BY <2>2, LandingConstants DEF Stamped, Backed, Shared
  <2>4. /\ origin = Root /\ local = Root /\ job.kind = "sync" /\ job.pc = "idle"
        /\ Nobody \notin Attempt
    <3>1. origin = Root /\ local = Root /\ job = Idle
      BY <2>1 DEF Init
    <3>2. Nobody \notin Attempt
      BY LandingConstants
    <3>3. QED
      BY <3>1, <3>2, IdleParts
  <2>5. TrailersPushed
    BY <2>3, <2>4 DEF TrailersPushed
  <2>6. TrailersLocal
    BY <2>2, <2>4 DEF TrailersLocal
  <2>7. QED
    BY <2>2, <2>4, <2>5, <2>6 DEF TrailersOnce
<1>2. Shape /\ TrailersOnce /\ [Next]_vars => Shape' /\ TrailersOnce'
  BY ShapeStep, TrailersStep
<1>3. TrailersOnce => TrailerOnce
  BY DEF TrailersOnce, TrailerOnce, Once
<1>4. QED
  BY <1>1, <1>2, <1>3, PTL DEF Spec

-----------------------------------------------------------------------------
(* Until the first crash, until the first resolve.                         *)

Unresolved == \A a \in Attempt : resolved[a] = NoRef

\* Only a crash counts as one, and only the resolver leaves a commit of its own.
LEMMA CountedSteps ==
    ASSUME [Next]_vars
    PROVE  /\ UNCHANGED crashes \/ Crash
           /\ UNCHANGED resolved \/ \E a \in Attempt : ResolverLands(a)
<1> USE DEF repo, refs, rows, oper, ends
<1>1. CASE JobStep
  <2>1. CASE LandFetch \/ LandAdopt \/ Sync \/ SyncSwap \/ SyncAdvance \/ Produce \/ Push
    BY <2>1 DEF LandFetch, LandAdopt, Sync, SyncSwap, SyncAdvance, Produce, Push
  <2>2. CASE Cas \/ Advance \/ OpenPr \/ Teardown \/ ReportLand \/ ReportResolve
    BY <2>2 DEF Cas, Advance, OpenPr, Teardown, ReportLand, ReportResolve
  <2>3. QED
    BY <1>1, <2>1, <2>2 DEF JobStep
<1>2. CASE PollSync \/ Recover \/ Crash
  BY <1>2 DEF PollSync, Recover, RecoverLanded, RecoverReenqueue, RecoverPark,
              RecoveryDone, LandStart, Crash
<1>3. ASSUME NEW a \in Attempt,
             \/ Start(a) \/ Lease(a) \/ Submit(a) \/ AgentLands(a) \/ SubmitNothing(a)
             \/ StalePublish(a) \/ ResolverLands(a) \/ CherryStart(a) \/ GithubMerge(a)
      PROVE  /\ UNCHANGED crashes
             /\ UNCHANGED resolved \/ ResolverLands(a)
  BY <1>3 DEF Start, LandStart, Lease, Submit, AgentLands, SubmitNothing, StalePublish,
              ResolverLands, CherryStart, GithubMerge
<1>4. ASSUME \/ UNCHANGED vars \/ OperatorSwitch \/ \E c \in Foreign : ForeignPush(c)
             \/ \E c \in Local : OperatorEdit(c) \/ OperatorCommit(c)
      PROVE  UNCHANGED <<crashes, resolved>>
  BY <1>4 DEF vars, OperatorSwitch, ForeignPush, OperatorEdit, OperatorCommit
<1>5. QED
  BY <1>1, <1>2, <1>3, <1>4 DEF Next

\* What has not happened after a step had not happened before.
LEMMA NotYet ==
    ASSUME Shape, [Next]_vars
    PROVE  /\ crashes' = 0 => crashes = 0 /\ ~Crash
           /\ Unresolved' => Unresolved /\ \A a \in Attempt : ~ResolverLands(a)
<1>1. /\ crashes \in Nat /\ resolved \in Refs /\ local \in History
  BY DEF Shape, TypeOK
<1>2. Crash => crashes' # 0
  BY <1>1 DEF Crash
<1>3. ASSUME NEW a \in Attempt, ResolverLands(a)
      PROVE  ~Unresolved'
  <2> DEFINE tip == Append(local, [tree |-> Tree(local) \cup {a}, att |-> Nobody, n |-> 0])
  <2>1. tip # NoRef
    BY <1>1, PlainCommit, NoRefIsNone DEF Change
  <2>2. resolved' = [resolved EXCEPT ![a] = tip]
    BY <1>3 DEF ResolverLands
  <2> HIDE DEF tip
  <2>3. QED
    BY <1>1, <2>1, <2>2 DEF Unresolved, Refs
<1>4. QED
  BY <1>2, <1>3, CountedSteps DEF Unresolved

-----------------------------------------------------------------------------
(* No commit is dropped in silence.                                        *)

\* What a job is about to drop of local main, it knows; the poll's refresh
\* drops nothing.
Drops ==
    /\ mgr = "up" /\ job.rerun = FALSE
    /\ \A a \in Attempt : phase[a] # "resolving"
    /\ job.kind = "sync" => job.try = 0 /\ job.lost = {} /\ (job.pc = "swap" => job.lose = {})
    /\ job.pc = "swap" => Tree(job.from) \subseteq Tree(job.tip) \cup job.lose
    /\ job.pc \in {"push", "cas"} => Tree(job.from) \subseteq Tree(job.tip)
    /\ DropsReported

\* Steps that move neither local main nor what was ever on it.
LEMMA DropsQuiet ==
    ASSUME Drops, UNCHANGED <<local, ever, reported, mgr>>,
           \A a \in Attempt : phase'[a] = phase[a] \/ phase'[a] # "resolving",
           job'.rerun = FALSE, job'.lost = job.lost,
           job'.kind = "sync" => job'.try = 0 /\ job'.lost = {},
           job'.pc \notin {"swap", "push", "cas"}
    PROVE  Drops'
BY DEF Drops, DropsReported

\* A commit on local main.
LEMMA DropsCommit ==
    ASSUME Shape, Drops, UNCHANGED <<job, phase, reported, mgr>>,
           NEW x \in Change, Tree(local') = Tree(local) \cup {x}, ever' = ever \cup {x}
    PROVE  Drops'
BY DEF Drops, DropsReported

LEMMA DropsJobStep ==
    ASSUME Shape, Drops, JobStep
    PROVE  Drops'
<1> USE DEF repo, refs, rows, oper, ends
<1>0. /\ TypeOK /\ JobShape /\ RowShape /\ job \in Job
      /\ local \in History /\ origin \in History
      /\ job.rerun = FALSE
      /\ job.kind = "sync" => job.lost = {}
      /\ job.kind # "cherry"
  BY DEF Shape, TypeOK, JobShape, Drops
<1>1. CASE LandFetch \/ LandAdopt
  <2>1. /\ job'.kind = job.kind /\ job'.lost = job.lost /\ job'.rerun = job.rerun
        /\ job'.pc \in {"adopt", "sync", "report"} /\ job.kind # "sync"
        /\ UNCHANGED <<local, ever, reported, mgr, phase>>
    BY <1>0, <1>1, JobGoes, JobEnds DEF LandFetch, LandAdopt, Goto, At, JobShape
  <2>2. QED
    BY <1>0, <2>1, DropsQuiet
<1>2. CASE Sync
  <2>1. UNCHANGED <<local, ever, reported, mgr, phase>>
    BY <1>2 DEF Sync
  <2>2. CASE job'.pc # "swap"
    <3>1. \/ job.kind = "sync" /\ job' = Idle
          \/ /\ job.kind # "sync" /\ job'.pc = "produce" /\ job'.kind = job.kind
             /\ job'.lost = job.lost /\ job'.rerun = job.rerun
      BY <1>2, <2>2, SyncChoice
    <3>2. /\ job'.rerun = FALSE /\ job'.lost = job.lost
          /\ job'.kind = "sync" => job'.try = 0 /\ job'.lost = {}
          /\ job'.pc \notin {"swap", "push", "cas"}
      BY <1>0, <3>1, IdleParts
    <3>3. QED
      BY <2>1, <3>2, DropsQuiet
  <2>3. CASE job'.pc = "swap"
    <3>1. /\ job'.from = local /\ job'.kind = job.kind
          /\ job'.lost = job.lost /\ job'.rerun = job.rerun
          /\ \/ IsAncestor(local, origin) /\ job'.tip = origin /\ job'.lose = {}
             \/ /\ job'.tip = Rescue(origin, local).tip
                /\ job'.lose = Rescue(origin, local).lose
      BY <1>2, <2>3, SyncChoice, IdleParts
    <3>2. Tree(job'.from) \subseteq Tree(job'.tip) \cup job'.lose
      <4>1. CASE IsAncestor(local, origin) /\ job'.tip = origin
        BY <1>0, <3>1, <4>1, PrefixTree
      <4>2. CASE /\ job'.tip = Rescue(origin, local).tip
                 /\ job'.lose = Rescue(origin, local).lose
        BY <1>0, <3>1, <4>2, RescueProperties
      <4>3. QED
        BY <3>1, <4>1, <4>2
    <3>3. job.kind = "sync" => job'.lose = {} /\ job'.try = 0
      <4>1. SUFFICES ASSUME job.kind = "sync"
                     PROVE  job'.lose = {} /\ job'.try = 0
        OBVIOUS
      <4>2. job.try = 0 /\ ~RescueDivergence
        BY <4>1 DEF Drops, RescueDivergence
      <4> DEFINE behind == IsAncestor(local, origin)
                 tip == IF behind THEN origin ELSE Rescue(origin, local).tip
                 lose == IF behind THEN {} ELSE Rescue(origin, local).lose
      <4>3. /\ behind
            /\ job' = [job EXCEPT !.pc = "swap", !.from = local, !.tip = tip,
                                  !.lose = lose, !.seen = CheckoutState]
        <5>1. job' # Idle /\ job' # [job EXCEPT !.pc = "produce"]
          BY <1>0, <2>3, IdleParts DEF Job
        <5>2. QED
          BY <1>2, <4>2, <5>1, Zenon DEF Sync
      <4>4. lose = {}
        BY <4>3
      <4> HIDE DEF behind, tip, lose
      <4>5. QED
        BY <1>0, <4>2, <4>3, <4>4 DEF Job
    <3>4. DropsReported'
      BY <2>1, <3>1 DEF Drops, DropsReported
    <3>5. QED
      BY <1>0, <2>1, <2>3, <3>1, <3>2, <3>3, <3>4 DEF Drops
  <2>4. QED
    BY <2>2, <2>3
<1>3. CASE SyncSwap
  <2>1. UNCHANGED <<reported, mgr, phase>> /\ job.pc = "swap"
    BY <1>3 DEF SyncSwap, At
  <2>2. CASE local = job.from
    <3> DEFINE lost == job.lost \cup job.lose
    <3>1. /\ local' = job.tip /\ ever' = ever \cup Tree(job.tip)
          /\ job' = [job EXCEPT !.pc = "sync_advance", !.lost = lost]
      BY <1>3, <2>2 DEF SyncSwap
    <3>2. /\ job'.pc = "sync_advance" /\ job'.lost = lost
          /\ job'.kind = job.kind /\ job'.rerun = job.rerun /\ job'.try = job.try
      <4> HIDE DEF lost
      <4> QED
        BY <1>0, <3>1 DEF Job
    <3>3. job'.kind = "sync" => job'.try = 0 /\ job'.lost = {}
      BY <2>1, <3>2 DEF Drops
    <3>4. DropsReported'
      BY <2>1, <2>2, <3>1, <3>2 DEF Drops, DropsReported
    <3>5. QED
      BY <1>0, <2>1, <3>2, <3>3, <3>4 DEF Drops
  <2>3. CASE local # job.from
    <3>1. \/ job.kind = "sync" /\ job' = Idle
          \/ /\ job.kind # "sync" /\ job'.pc = "produce" /\ job'.kind = job.kind
             /\ job'.lost = job.lost /\ job'.rerun = job.rerun
      BY <1>0, <1>3, <2>3, SyncReturns DEF SyncSwap
    <3>2. /\ job'.rerun = FALSE /\ job'.lost = job.lost
          /\ job'.kind = "sync" => job'.try = 0 /\ job'.lost = {}
          /\ job'.pc \notin {"swap", "push", "cas"}
      BY <1>0, <3>1, IdleParts
    <3>3. UNCHANGED <<local, ever>>
      BY <1>3, <2>3 DEF SyncSwap
    <3>4. QED
      BY <2>1, <3>2, <3>3, DropsQuiet
  <2>4. QED
    BY <2>2, <2>3
<1>4. CASE SyncAdvance
  <2>1. \/ job.kind = "sync" /\ job' = Idle
        \/ /\ job.kind # "sync" /\ job'.pc = "produce" /\ job'.kind = job.kind
           /\ job'.lost = job.lost /\ job'.rerun = job.rerun
    BY <1>0, <1>4, SyncReturns DEF SyncAdvance
  <2>2. /\ job'.rerun = FALSE /\ job'.lost = job.lost
        /\ job'.kind = "sync" => job'.try = 0 /\ job'.lost = {}
        /\ job'.pc \notin {"swap", "push", "cas"}
    BY <1>0, <2>1, IdleParts
  <2>3. UNCHANGED <<local, ever, reported, mgr, phase>>
    BY <1>4 DEF SyncAdvance
  <2>4. QED
    BY <2>2, <2>3, DropsQuiet
<1>5. CASE Produce
  <2>1. UNCHANGED <<local, ever, reported, mgr, phase>> /\ job.kind # "sync"
    BY <1>0, <1>5 DEF Produce, At, JobShape
  <2>2. CASE ProduceFails(local)
    <3>1. /\ job'.kind = job.kind /\ job'.lost = job.lost /\ job'.rerun = job.rerun
          /\ job'.pc = "report"
      BY <1>0, <1>5, <2>2, JobEnds DEF Produce
    <3>2. QED
      BY <1>0, <2>1, <3>1, DropsQuiet
  <2>3. CASE ~ProduceFails(local)
    <3> DEFINE t == Produced(local)
    <3>1. Tree(local) \subseteq Tree(t)
      <4>1. CASE t = local
        BY <4>1
      <4>2. CASE \E c \in Commit : t = Append(local, c) /\ Tree(local) \subseteq c.tree
        <5>1. PICK c \in Commit : t = Append(local, c) /\ Tree(local) \subseteq c.tree
          BY <4>2
        <5>2. QED
          BY <1>0, <5>1, CommitOnTop
      <4>3. QED
        BY <1>5, <2>3, <4>1, <4>2, ProducedOnTop DEF Produce
    <3> HIDE DEF t
    <3>2. /\ job'.pc \in {"push", "cas"} /\ job'.tip = t /\ job'.from = local
          /\ job'.kind = job.kind /\ job'.lost = job.lost /\ job'.rerun = job.rerun
      BY <1>0, <1>5, <2>3 DEF Produce, Job, t
    <3>3. DropsReported'
      BY <2>1, <3>2 DEF Drops, DropsReported
    <3>4. QED
      BY <1>0, <2>1, <3>1, <3>2, <3>3 DEF Drops
  <2>4. QED
    BY <2>2, <2>3
<1>6. CASE Push
  <2>1. /\ UNCHANGED <<local, ever, reported, mgr, phase>>
        /\ job.kind # "sync" /\ job.pc = "push"
    BY <1>0, <1>6 DEF Push, At, JobShape
  <2>2. CASE Goto("cas")
    <3>1. /\ job'.kind = job.kind /\ job'.lost = job.lost /\ job'.rerun = job.rerun
          /\ job'.pc = "cas" /\ job'.tip = job.tip /\ job'.from = job.from
      BY <1>0, <2>2, JobGoes DEF Goto
    <3>2. QED
      BY <1>0, <2>1, <3>1 DEF Drops, DropsReported
  <2>3. CASE Retry
    <3>1. /\ job'.kind = job.kind /\ job'.lost = job.lost /\ job'.rerun = job.rerun
          /\ job'.pc \notin {"swap", "push", "cas"}
      BY <1>0, <2>3, RetryGoes
    <3>2. QED
      BY <1>0, <2>1, <3>1, DropsQuiet
  <2>4. QED
    BY <1>6, <2>2, <2>3 DEF Push
<1>7. CASE Cas
  <2>1. UNCHANGED <<reported, mgr, phase>> /\ job.pc = "cas" /\ job.kind # "sync"
    BY <1>0, <1>7 DEF Cas, At, JobShape
  <2>2. CASE local = job.from
    <3>1. /\ local' = job.tip /\ ever' = ever \cup Tree(job.tip)
          /\ job'.kind = job.kind /\ job'.lost = job.lost /\ job'.rerun = job.rerun
          /\ job'.pc = "advance"
      BY <1>0, <1>7, <2>2, JobGoes DEF Cas, Goto
    <3>2. Tree(local) \subseteq Tree(job.tip)
      BY <2>1, <2>2 DEF Drops
    <3>3. QED
      BY <1>0, <2>1, <3>1, <3>2 DEF Drops, DropsReported
  <2>3. CASE local # job.from
    <3>1. UNCHANGED <<local, ever>>
      BY <1>7, <2>3 DEF Cas
    <3>2. CASE Mode = "push"
      <4>1. /\ job'.kind = job.kind /\ job'.lost = job.lost /\ job'.rerun = job.rerun
            /\ job'.pc = "teardown"
        BY <1>0, <1>7, <2>3, <3>2 DEF Cas, Job
      <4>2. QED
        BY <1>0, <2>1, <3>1, <4>1, DropsQuiet
    <3>3. CASE Mode # "push"
      <4>1. /\ job'.kind = job.kind /\ job'.lost = job.lost /\ job'.rerun = job.rerun
            /\ job'.pc \notin {"swap", "push", "cas"}
        BY <1>0, <1>7, <2>3, <3>3, RetryGoes DEF Cas
      <4>2. QED
        BY <1>0, <2>1, <3>1, <4>1, DropsQuiet
    <3>4. QED
      BY <3>2, <3>3
  <2>4. QED
    BY <2>2, <2>3
<1>8. CASE Advance \/ OpenPr \/ Teardown
  <2>1. /\ job'.kind = job.kind /\ job'.lost = job.lost /\ job'.rerun = job.rerun
        /\ job'.pc \in {"open_pr", "teardown", "report"} /\ job.kind # "sync"
    <3>1. CASE Advance
      BY <1>0, <3>1 DEF Advance, Job, At, JobShape
    <3>2. CASE OpenPr \/ Teardown
      BY <1>0, <3>2, JobGoes DEF OpenPr, Teardown, Goto, At, JobShape
    <3>3. QED
      BY <1>8, <3>1, <3>2
  <2>2. UNCHANGED <<local, ever, reported, mgr, phase>>
    BY <1>8 DEF Advance, OpenPr, Teardown
  <2>3. QED
    BY <1>0, <2>1, <2>2, DropsQuiet
<1>9. CASE ReportLand
  <2>1. /\ reported' = reported \cup job.lost /\ job' = Idle
        /\ phase' = [phase EXCEPT ![job.att] = "done"]
        /\ UNCHANGED <<local, ever, mgr>>
    BY <1>0, <1>9 DEF ReportLand
  <2>2. \A a \in Attempt : phase'[a] # "resolving"
    BY <1>0, <2>1 DEF TypeOK, Drops
  <2>3. QED
    BY <2>1, <2>2, IdleParts DEF Drops, DropsReported
<1>10. CASE ReportResolve
  BY <1>0, <1>10 DEF ReportResolve
<1>11. QED
  BY <1>1, <1>2, <1>3, <1>4, <1>5, <1>6, <1>7, <1>8, <1>9, <1>10 DEF JobStep

LEMMA DropsStep ==
    ASSUME Shape, Drops, [Next]_vars, ~Crash, \A a \in Attempt : ~ResolverLands(a)
    PROVE  Drops'
<1> USE DEF repo, refs, rows, oper, ends
<1>0. /\ TypeOK /\ local \in History /\ job \in Job
      /\ (job.pc = "idle" => job = Idle) /\ mgr = "up" /\ Idle.lost = {}
      /\ job.rerun = FALSE
  BY IdleParts DEF Shape, TypeOK, JobShape, Drops
<1>1. CASE JobStep
  BY <1>1, DropsJobStep
<1>2. CASE PollSync
  <2>1. /\ job = Idle /\ job'.kind = "sync" /\ job'.pc = "sync" /\ job'.try = 0
        /\ job'.lost = {} /\ job'.rerun = FALSE
        /\ UNCHANGED <<local, ever, reported, mgr, phase>>
    BY <1>0, <1>2 DEF PollSync, At, Idle
  <2>2. QED
    BY <1>0, <2>1, DropsQuiet
<1>3. CASE Recover \/ Crash
  BY <1>0, <1>3 DEF Recover, RecoverLanded, RecoverReenqueue, RecoverPark, RecoveryDone
<1>4. ASSUME NEW a \in Attempt, Start(a) \/ CherryStart(a)
      PROVE  Drops'
  <2>1. /\ job = Idle /\ job'.kind # "sync" /\ job'.pc \in {"fetch", "adopt", "sync"}
        /\ job'.lost = {} /\ job'.rerun = FALSE
        /\ UNCHANGED <<local, ever, reported, mgr, phase>>
    BY <1>0, <1>4 DEF Start, LandStart, CherryStart, At, Idle
  <2>2. QED
    BY <1>0, <2>1, DropsQuiet
<1>5. ASSUME NEW a \in Attempt, Lease(a) \/ Submit(a) \/ SubmitNothing(a)
      PROVE  Drops'
  <2>1. /\ \A b \in Attempt : phase'[b] = phase[b] \/ phase'[b] # "resolving"
        /\ UNCHANGED <<local, ever, reported, mgr, job>>
    BY <1>0, <1>5 DEF Lease, Submit, SubmitNothing, TypeOK
  <2>2. QED
    BY <1>0, <2>1 DEF Drops, DropsReported
<1>6. ASSUME NEW a \in Attempt, AgentLands(a)
      PROVE  Drops'
  <2>1. Tree(local') = Tree(local) \cup {a} /\ a \in Change
    BY <1>0, <1>6, PlainCommit DEF AgentLands, Change
  <2>2. ever' = ever \cup {a} /\ UNCHANGED <<job, phase, reported, mgr>>
    BY <1>6 DEF AgentLands
  <2>3. QED
    BY <2>1, <2>2, DropsCommit
<1>7. ASSUME NEW a \in Attempt, ResolverLands(a)
      PROVE  Drops'
  BY <1>7
<1>8. ASSUME NEW c \in Local, OperatorCommit(c)
      PROVE  Drops'
  <2>1. Tree(local') = Tree(local) \cup {c} /\ c \in Change
    BY <1>0, <1>8, PlainCommit DEF OperatorCommit, Change
  <2>2. ever' = ever \cup {c} /\ UNCHANGED <<job, phase, reported, mgr>>
    BY <1>8 DEF OperatorCommit
  <2>3. QED
    BY <2>1, <2>2, DropsCommit
<1>9. ASSUME \/ UNCHANGED vars \/ OperatorSwitch
             \/ \E a \in Attempt : StalePublish(a) \/ GithubMerge(a)
             \/ \E c \in Foreign : ForeignPush(c)
             \/ \E c \in Local : OperatorEdit(c)
      PROVE  Drops'
  <2>1. UNCHANGED <<local, ever, job, phase, reported, mgr>>
    BY <1>9 DEF vars, OperatorSwitch, StalePublish, GithubMerge, ForeignPush, OperatorEdit
  <2>2. QED
    BY <2>1 DEF Drops, DropsReported
<1>10. QED
  BY <1>1, <1>2, <1>3, <1>4, <1>5, <1>6, <1>7, <1>8, <1>9 DEF Next

\* Until the first crash and the first resolve, what was ever on local main is
\* still there, or is named in the dropped_commits of an outcome, or will be when
\* the job that dropped it reports (_noting_drops).
THEOREM DropsReportedHolds ==
    Spec => [](crashes = 0 /\ Unresolved => DropsReported)
<1> DEFINE Inv == crashes = 0 /\ Unresolved => Drops
<1>1. Init => Shape /\ Inv
  <2>1. Init => Drops
    BY IdleParts DEF Init, Drops, DropsReported
  <2>2. QED
    BY <2>1, ShapeInit
<1>2. Shape /\ Inv /\ [Next]_vars => Shape' /\ Inv'
  BY ShapeStep, DropsStep, NotYet
<1>3. Inv => (crashes = 0 /\ Unresolved => DropsReported)
  BY DEF Drops
<1>4. QED
  BY <1>1, <1>2, <1>3, PTL DEF Spec

-----------------------------------------------------------------------------
(* The checkout moves with main.                                           *)

Moving == {"sync_advance", "advance"}
Holding == {"swap", "push", "cas"} \cup Moving

\* What a job has seen of the checkout is still so when it acts on it, and
\* between the move of the ref and that of the checkout nobody commits.
Together ==
    /\ checkout.coherent
    /\ job.pc \in Holding =>
           /\ job.seen.ref = checkout.ref
           /\ checkout.ref = "main" => job.seen.at = job.from
    /\ checkout.ref = "main" /\ job.pc \notin Moving => checkout.at = local
    /\ checkout.ref = "main" /\ job.pc \in Moving =>
           \/ job.tip = job.from /\ checkout.at = local
           \/ job.tip # job.from /\ checkout.at = job.from /\ local = job.tip

\* Steps that leave main and the checkout alone.
LEMMA TogetherQuiet ==
    ASSUME Together, UNCHANGED <<local, checkout>>,
           job' = job \/ (job.pc \notin Moving /\ job'.pc \notin Holding)
    PROVE  Together'
BY DEF Together, Holding, Moving

\* A commit in the checkout, with main checked out.
LEMMA TogetherCommit ==
    ASSUME Shape, Together, UNCHANGED job, checkout.ref = "main", checkout.at = local,
           checkout' = [checkout EXCEPT !.at = local']
    PROVE  Together'
<1>1. /\ checkout'.ref = "main" /\ checkout'.at = local'
      /\ checkout'.coherent = checkout.coherent
  BY DEF Shape, TypeOK
<1>2. job.pc \in Moving => job.tip = job.from
  BY DEF Together
<1>3. QED
  BY <1>1, <1>2 DEF Together, Holding

\* The checkout follows a ref that it was seen on.
LEMMA AdvancedFollows ==
    ASSUME Shape, NEW seen \in Seen, NEW new \in History, seen.ref = checkout.ref,
           checkout.coherent
    PROVE  /\ Advanced(seen, new).coherent
           /\ Advanced(seen, new).ref = "main" =>
                  /\ checkout.ref = "main"
                  /\ Advanced(seen, new).at = IF seen.at = new THEN checkout.at ELSE new
  BY DEF Shape, TypeOK, Advanced, Seen

LEMMA TogetherJobStep ==
    ASSUME Shape, Together, JobStep
    PROVE  Together'
<1> USE DEF repo, refs, rows, oper, ends
<1>0. /\ TypeOK /\ JobShape /\ RowShape /\ job \in Job
      /\ checkout \in [ref : {"main", "other", "detached"}, at : History,
                       coherent : BOOLEAN]
      /\ local \in History /\ origin \in History
  BY DEF Shape, TypeOK
<1>1. CASE LandFetch \/ LandAdopt
  <2>1. /\ job'.pc \in {"adopt", "sync", "report"} /\ job.pc \in {"fetch", "adopt"}
        /\ UNCHANGED <<local, checkout>>
    BY <1>0, <1>1, JobGoes, JobEnds DEF LandFetch, LandAdopt, Goto, At
  <2>2. QED
    BY <2>1, TogetherQuiet DEF Holding, Moving
<1>2. CASE Sync
  <2>1. UNCHANGED <<local, checkout>> /\ job.pc = "sync"
    BY <1>2 DEF Sync, At
  <2>2. CASE job'.pc # "swap"
    <3>1. job'.pc \in {"idle", "produce"}
      BY <1>2, <2>2, SyncChoice, IdleParts
    <3>2. QED
      BY <2>1, <3>1, TogetherQuiet DEF Holding, Moving
  <2>3. CASE job'.pc = "swap"
    <3>1. job'.from = local /\ job'.seen = CheckoutState
      BY <1>2, <2>3, SyncChoice, IdleParts
    <3>2. CheckoutState.ref = checkout.ref
          /\ (checkout.ref = "main" => CheckoutState.at = local)
      BY DEF CheckoutState
    <3>3. QED
      BY <2>1, <2>3, <3>1, <3>2 DEF Together, Holding, Moving
  <2>4. QED
    BY <2>2, <2>3
<1>3. CASE SyncSwap
  <2>1. job.pc = "swap" /\ UNCHANGED checkout
    BY <1>3 DEF SyncSwap, At
  <2>2. CASE local = job.from
    <3> DEFINE lost == job.lost \cup job.lose
    <3>1. /\ local' = job.tip
          /\ job' = [job EXCEPT !.pc = "sync_advance", !.lost = lost]
      BY <1>3, <2>2 DEF SyncSwap
    <3> HIDE DEF lost
    <3>2. /\ job'.pc = "sync_advance" /\ job'.tip = job.tip /\ job'.from = job.from
          /\ job'.seen = job.seen
      BY <1>0, <3>1 DEF Job
    <3>3. QED
      BY <2>1, <2>2, <3>1, <3>2 DEF Together, Holding, Moving
  <2>3. CASE local # job.from
    <3>1. job'.pc \in {"idle", "produce"} /\ UNCHANGED local
      BY <1>0, <1>3, <2>3, SyncReturns, IdleParts DEF SyncSwap
    <3>2. QED
      BY <2>1, <3>1, TogetherQuiet DEF Holding, Moving
  <2>4. QED
    BY <2>2, <2>3
<1>4. CASE SyncAdvance \/ Advance
  <2>1. /\ job.pc \in Moving /\ checkout' = Advanced(job.seen, job.tip)
        /\ UNCHANGED local
    BY <1>4 DEF SyncAdvance, Advance, At, Moving
  <2>2. job'.pc \notin Holding
    <3>1. CASE SyncAdvance
      BY <1>0, <3>1, SyncReturns, IdleParts DEF SyncAdvance, Holding, Moving
    <3>2. CASE Advance
      BY <1>0, <3>2 DEF Advance, Job, Holding, Moving
    <3>3. QED
      BY <1>4, <3>1, <3>2
  <2>3. /\ job.seen \in Seen /\ job.tip \in History /\ job.seen.ref = checkout.ref
        /\ checkout.coherent
    BY <1>0, <2>1 DEF JobShape, Job, Together, Holding, Moving
  <2>4. checkout'.coherent
    BY <2>1, <2>3, AdvancedFollows
  <2>5. checkout'.ref = "main" => checkout'.at = local
    <3>1. SUFFICES ASSUME checkout'.ref = "main"
                   PROVE  checkout'.at = local
      OBVIOUS
    <3>2. /\ checkout.ref = "main"
          /\ checkout'.at = IF job.seen.at = job.tip THEN checkout.at ELSE job.tip
      BY <2>1, <2>3, <3>1, AdvancedFollows
    <3>3. QED
      BY <2>1, <3>2 DEF Together, Holding
  <2>6. QED
    BY <2>1, <2>2, <2>4, <2>5 DEF Together, Holding
<1>5. CASE Produce
  <2>1. UNCHANGED <<local, checkout>> /\ job.pc = "produce"
    BY <1>5 DEF Produce, At
  <2>2. CASE ProduceFails(local)
    BY <1>0, <1>5, <2>1, <2>2, JobEnds, TogetherQuiet DEF Produce, Holding, Moving
  <2>3. CASE ~ProduceFails(local)
    <3> DEFINE t == Produced(local)
               seen == CheckoutState
    <3>1. seen.ref = checkout.ref /\ (checkout.ref = "main" => seen.at = local)
      BY DEF CheckoutState
    <3> HIDE DEF t, seen
    <3>2. /\ job'.pc \in {"push", "cas"} /\ job'.from = local /\ job'.seen = seen
      BY <1>0, <1>5, <2>3 DEF Produce, Job, t, seen
    <3>3. QED
      BY <2>1, <3>1, <3>2 DEF Together, Holding, Moving
  <2>4. QED
    BY <2>2, <2>3
<1>6. CASE Push
  <2>1. UNCHANGED <<local, checkout>> /\ job.pc = "push"
    BY <1>6 DEF Push, At
  <2>2. CASE Goto("cas")
    <3>1. job'.pc = "cas" /\ job'.from = job.from /\ job'.seen = job.seen
      BY <1>0, <2>2, JobGoes DEF Goto
    <3>2. QED
      BY <2>1, <3>1 DEF Together, Holding, Moving
  <2>3. CASE Retry
    BY <1>0, <2>1, <2>3, RetryGoes, TogetherQuiet DEF Holding, Moving
  <2>4. QED
    BY <1>6, <2>2, <2>3 DEF Push
<1>7. CASE Cas
  <2>1. job.pc = "cas" /\ UNCHANGED checkout
    BY <1>7 DEF Cas, At
  <2>2. CASE local = job.from
    <3>1. /\ local' = job.tip /\ job'.pc = "advance" /\ job'.tip = job.tip
          /\ job'.from = job.from /\ job'.seen = job.seen
      BY <1>0, <1>7, <2>2, JobGoes DEF Cas, Goto
    <3>2. QED
      BY <2>1, <2>2, <3>1 DEF Together, Holding, Moving
  <2>3. CASE local # job.from
    <3>1. UNCHANGED local
      BY <1>7, <2>3 DEF Cas
    <3>2. job'.pc \notin Holding
      <4>1. CASE Mode = "push"
        BY <1>0, <1>7, <2>3, <4>1 DEF Cas, Job, Holding, Moving
      <4>2. CASE Mode # "push"
        BY <1>0, <1>7, <2>3, <4>2, RetryGoes DEF Cas, Holding, Moving
      <4>3. QED
        BY <4>1, <4>2
    <3>3. QED
      BY <2>1, <3>1, <3>2, TogetherQuiet DEF Moving
  <2>4. QED
    BY <2>2, <2>3
<1>8. CASE OpenPr \/ Teardown
  <2>1. /\ job'.pc \in {"teardown", "report"} /\ job.pc \in {"open_pr", "teardown"}
        /\ UNCHANGED <<local, checkout>>
    BY <1>0, <1>8, JobGoes DEF OpenPr, Teardown, Goto, At
  <2>2. QED
    BY <2>1, TogetherQuiet DEF Holding, Moving
<1>9. CASE ReportLand \/ ReportResolve
  <2>1. /\ job'.pc = "idle" /\ job.pc = "report" /\ UNCHANGED <<local, checkout>>
    BY <1>9, IdleParts DEF ReportLand, ReportResolve, At
  <2>2. QED
    BY <2>1, TogetherQuiet DEF Holding, Moving
<1>10. QED
  BY <1>1, <1>2, <1>3, <1>4, <1>5, <1>6, <1>7, <1>8, <1>9 DEF JobStep

LEMMA TogetherStep ==
    ASSUME ~SwitchAnyTime, Shape, Together, [Next]_vars, ~Crash
    PROVE  Together'
<1> USE DEF repo, refs, rows, oper, ends
<1>0. /\ TypeOK /\ local \in History /\ job \in Job
      /\ checkout \in [ref : {"main", "other", "detached"}, at : History,
                       coherent : BOOLEAN]
      /\ job.pc = "idle" => job = Idle
  BY DEF Shape, TypeOK, JobShape
<1>1. CASE JobStep
  BY <1>1, TogetherJobStep
<1>2. ASSUME NEW a \in Attempt, NEW r \in BOOLEAN, LandStart(a, r)
      PROVE  Together'
  <2>1. /\ job'.pc \in {"fetch", "adopt"} /\ job.pc = "idle"
        /\ UNCHANGED <<local, checkout>>
    BY <1>2 DEF LandStart, Idle, At
  <2>2. QED
    BY <2>1, TogetherQuiet DEF Holding, Moving
<1>3. ASSUME PollSync \/ \E a \in Attempt : CherryStart(a)
      PROVE  Together'
  <2>1. /\ job'.pc = "sync" /\ job.pc = "idle" /\ UNCHANGED <<local, checkout>>
    BY <1>3 DEF PollSync, CherryStart, Idle, At
  <2>2. QED
    BY <2>1, TogetherQuiet DEF Holding, Moving
<1>4. CASE Recover
  <2>1. CASE RecoveryDone \/ \E a \in Attempt : RecoverLanded(a) \/ RecoverPark(a)
    BY <2>1, TogetherQuiet DEF RecoveryDone, RecoverLanded, RecoverPark
  <2>2. CASE \E a \in Attempt : RecoverReenqueue(a)
    BY <1>2, <2>2 DEF RecoverReenqueue
  <2>3. QED
    BY <1>4, <2>1, <2>2 DEF Recover
<1>5. CASE Crash
  BY <1>5
<1>6. CASE \E a \in Attempt : Start(a)
  BY <1>2, <1>6 DEF Start
<1>7. ASSUME NEW a \in Attempt, AgentLands(a)
      PROVE  Together'
  BY <1>7, TogetherCommit DEF AgentLands
<1>8. ASSUME NEW c \in Local, OperatorCommit(c)
      PROVE  Together'
  BY <1>8, TogetherCommit DEF OperatorCommit
<1>9. ASSUME NEW a \in Attempt, ResolverLands(a)
      PROVE  Together'
  <2> DEFINE tip == Append(local, [tree |-> Tree(local) \cup {a}, att |-> Nobody, n |-> 0])
  <2>1. /\ local' = tip /\ checkout' = Advanced(CheckoutState, tip)
        /\ job.pc = "idle" /\ UNCHANGED job
    BY <1>9 DEF ResolverLands, At
  <2>2. /\ tip \in History /\ CheckoutState \in Seen
        /\ CheckoutState.ref = checkout.ref /\ checkout.coherent
        /\ checkout.ref = "main" => CheckoutState.at = local /\ checkout.at = local
    BY <1>0, <2>1, PlainCommit, CheckoutSeen DEF Change, CheckoutState, Together, Moving
  <2> HIDE DEF tip
  <2>3. checkout'.coherent /\ (checkout'.ref = "main" => checkout'.at = tip)
    BY <2>1, <2>2, AdvancedFollows
  <2>4. QED
    BY <2>1, <2>3 DEF Together, Holding, Moving
<1>10. CASE OperatorSwitch
  <2>1. job.pc = "idle" /\ UNCHANGED <<local, job>>
    BY <1>10 DEF OperatorSwitch, At
  <2>2. /\ checkout'.coherent = checkout.coherent
        /\ checkout'.ref = "main" => checkout'.at = local
    BY <1>0, <1>10 DEF OperatorSwitch
  <2>3. QED
    BY <2>1, <2>2 DEF Together, Holding, Moving
<1>11. ASSUME \/ UNCHANGED vars
              \/ \E a \in Attempt : \/ Lease(a) \/ Submit(a) \/ SubmitNothing(a)
                                    \/ StalePublish(a) \/ GithubMerge(a)
              \/ \E c \in Foreign : ForeignPush(c)
              \/ \E c \in Local : OperatorEdit(c)
       PROVE  Together'
  BY <1>11, TogetherQuiet
     DEF vars, Lease, Submit, SubmitNothing, StalePublish, GithubMerge, ForeignPush,
         OperatorEdit
<1>12. QED
  BY <1>1, <1>3, <1>4, <1>5, <1>6, <1>7, <1>8, <1>9, <1>10, <1>11 DEF Next

\* While nobody switches branches under a job, and until a crash cuts one short,
\* `git status' never sees a ref move: HEAD, when it is on main, and the index
\* move with it inside the job.
THEOREM CheckoutCoherentHolds ==
    ASSUME ~SwitchAnyTime
    PROVE  Spec => [](crashes = 0 => CheckoutCoherent)
<1> DEFINE Inv == crashes = 0 => Together
<1>1. Init => Shape /\ Inv
  <2>1. Init => Together
    BY IdleParts DEF Init, Together, Holding, Moving
  <2>2. QED
    BY <2>1, ShapeInit
<1>2. Shape /\ Inv /\ [Next]_vars => Shape' /\ Inv'
  BY ShapeStep, TogetherStep, NotYet
<1>3. Inv => (crashes = 0 => CheckoutCoherent)
  BY DEF Together, CheckoutCoherent, Moving
<1>4. QED
  BY <1>1, <1>2, <1>3, PTL DEF Spec

-----------------------------------------------------------------------------
(* A refused land keeps its branch.                                        *)

\* The branch of an attempt that is to be landed is there until the land is
\* through with it, and stays when the land is refused.
Kept ==
    /\ \A a \in Attempt :
         /\ verdict[a] \in {"conflict", "rejected"} =>
                \/ branch[a] # NoRef /\ phase[a] = "done"
                \/ resolved[a] # NoRef
         /\ phase[a] = "leased" /\ a \notin Remote => branch[a] # NoRef
         /\ mgr = "up" /\ phase[a] = "queued" /\ job.att # a /\ a \notin Remote =>
                branch[a] # NoRef
    /\ job.kind = "land" /\ job.pc \in Past \cup {"adopt"} => branch[job.att] # NoRef
    /\ job.kind \in {"land", "adopt"} /\ job.pc = "report"
         /\ job.res \in {"conflict", "rejected"} => branch[job.att] # NoRef
    /\ job.pc \in {"open_pr", "teardown"} => job.res \in {"landed", "behind"}
    /\ job.kind = "adopt" /\ job.pc = "report" => job.res \notin {"conflict", "rejected"}

\* A step of a job that is not its report.
LEMMA KeptJob ==
    ASSUME Shape, Kept, UNCHANGED <<verdict, phase, resolved, mgr>>,
           job'.att = job.att, job'.kind = job.kind,
           \/ UNCHANGED branch
           \/ /\ job.kind \in {"land", "adopt"}
              /\ \A b \in Attempt : b # job.att => branch'[b] = branch[b],
           job.kind = "land" /\ job'.pc \in Past \cup {"adopt"} => branch'[job.att] # NoRef,
           job'.pc = "report" => \/ job'.res \notin {"conflict", "rejected"}
                                 \/ job.kind \notin {"land", "adopt"}
                                 \/ job.kind = "land" /\ branch'[job.att] # NoRef,
           job'.pc \in {"open_pr", "teardown"} => job'.res \in {"landed", "behind"}
    PROVE  Kept'
<1>1. job.kind \in {"land", "adopt"} => job.att \in Attempt /\ phase[job.att] = "queued"
  BY DEF Shape, JobShape
<1>2. ASSUME NEW a \in Attempt
      PROVE  /\ verdict'[a] \in {"conflict", "rejected"} =>
                    \/ branch'[a] # NoRef /\ phase'[a] = "done"
                    \/ resolved'[a] # NoRef
             /\ phase'[a] = "leased" /\ a \notin Remote => branch'[a] # NoRef
             /\ mgr' = "up" /\ phase'[a] = "queued" /\ job'.att # a /\ a \notin Remote =>
                    branch'[a] # NoRef
  <2>1. CASE branch'[a] = branch[a]
    BY <2>1 DEF Kept
  <2>2. CASE a = job.att /\ job.kind \in {"land", "adopt"}
    BY <1>1, <2>2 DEF Kept
  <2>3. QED
    BY <2>1, <2>2
<1>3. QED
  BY <1>2 DEF Kept

LEMMA KeptJobStep ==
    ASSUME Shape, Kept, JobStep
    PROVE  Kept'
<1> USE DEF repo, refs, rows, oper, ends
<1>0. /\ TypeOK /\ JobShape /\ RowShape /\ job \in Job /\ branch \in Refs
      /\ wip \in Refs
      /\ job.kind = "sync" => job.att = Nobody
      /\ Idle.kind = "sync" /\ Idle.att = Nobody /\ Idle.pc = "idle"
  BY IdleParts DEF Shape, TypeOK, JobShape
<1>1. CASE LandFetch
  <2>1. /\ UNCHANGED <<verdict, phase, resolved, mgr>>
        /\ job.att \in Attempt /\ job.kind \in {"land", "adopt"} /\ job.pc = "fetch"
        /\ \A b \in Attempt : b # job.att => branch'[b] = branch[b]
    BY <1>0, <1>1 DEF LandFetch, At, JobShape, Job, Refs
  <2>2. /\ job'.att = job.att /\ job'.kind = job.kind
        /\ \/ job'.pc = "report" /\ job'.res = "transport"
           \/ job'.pc = "adopt" /\ branch'[job.att] # NoRef
    BY <1>0, <1>1, <2>1, JobGoes, JobEnds DEF LandFetch, Goto, Refs
  <2>3. QED
    BY <2>1, <2>2, KeptJob DEF Past
<1>2. CASE LandAdopt
  <2>1. /\ UNCHANGED <<verdict, phase, resolved, mgr>>
        /\ job.att \in Attempt /\ job.kind \in {"land", "adopt"} /\ job.pc = "adopt"
        /\ \A b \in Attempt : b # job.att => branch'[b] = branch[b]
    BY <1>0, <1>2 DEF LandAdopt, At, JobShape, Job, Refs
  <2>2. /\ job'.att = job.att /\ job'.kind = job.kind
        /\ \/ job'.pc = "report" /\ job'.res \in {"adopted", "no_changes"}
           \/ job'.pc = "sync" /\ job.kind = "land" /\ UNCHANGED branch
    BY <1>0, <1>2, <2>1, JobGoes, JobEnds DEF LandAdopt, Goto
  <2>3. job.kind = "land" => branch[job.att] # NoRef
    BY <2>1 DEF Kept
  <2>4. QED
    BY <2>1, <2>2, <2>3, KeptJob DEF Past
<1>3. CASE Sync \/ SyncSwap \/ SyncAdvance
  <2>1. /\ UNCHANGED <<branch, verdict, phase, resolved, mgr>>
        /\ job.pc \in {"sync", "swap", "sync_advance"}
    BY <1>3 DEF Sync, SyncSwap, SyncAdvance, At
  <2>2. /\ job'.att = job.att /\ job'.kind = job.kind
        /\ job'.pc \in {"idle", "swap", "sync_advance", "produce"}
    <3>1. CASE Sync
      BY <1>0, <3>1, SyncChoice
    <3>2. CASE SyncSwap
      <4>1. CASE local = job.from
        <5> DEFINE lost == job.lost \cup job.lose
        <5>1. job' = [job EXCEPT !.pc = "sync_advance", !.lost = lost]
          BY <3>2, <4>1 DEF SyncSwap
        <5> HIDE DEF lost
        <5>2. QED
          BY <1>0, <5>1 DEF Job
      <4>2. CASE local # job.from
        BY <1>0, <3>2, <4>2, SyncReturns DEF SyncSwap
      <4>3. QED
        BY <4>1, <4>2
    <3>3. CASE SyncAdvance
      BY <1>0, <3>3, SyncReturns DEF SyncAdvance
    <3>4. QED
      BY <1>3, <3>1, <3>2, <3>3
  <2>3. job.kind = "land" => branch[job.att] # NoRef
    BY <2>1 DEF Kept, Past
  <2>4. QED
    BY <2>1, <2>2, <2>3, KeptJob
<1>4. CASE Produce \/ Push
  <2>1. /\ UNCHANGED <<branch, verdict, phase, resolved, mgr>>
        /\ job.pc \in {"produce", "push"} /\ job.kind # "adopt"
    BY <1>0, <1>4 DEF Produce, Push, At, JobShape
  <2>2. /\ job'.att = job.att /\ job'.kind = job.kind
        /\ job'.pc \in {"sync", "push", "cas", "report"}
    <3>1. CASE Produce
      <4>1. CASE ProduceFails(local)
        BY <1>0, <3>1, <4>1, JobEnds DEF Produce
      <4>2. CASE ~ProduceFails(local)
        <5> DEFINE t == Produced(local)
                   seen == CheckoutState
        <5>1. job' = [job EXCEPT !.pc = IF Mode = "push" THEN "push" ELSE "cas",
                                 !.from = local, !.tip = t, !.seen = seen]
          BY <3>1, <4>2 DEF Produce
        <5> HIDE DEF t, seen
        <5>2. QED
          BY <1>0, <5>1 DEF Job
      <4>3. QED
        BY <4>1, <4>2
    <3>2. CASE Push
      BY <1>0, <3>2, JobGoes, RetryGoes DEF Push, Goto
    <3>3. QED
      BY <1>4, <3>1, <3>2
  <2>3. job.kind = "land" => branch[job.att] # NoRef
    BY <2>1 DEF Kept, Past
  <2>4. QED
    BY <1>0, <2>1, <2>2, <2>3, KeptJob DEF Job
<1>5. CASE Cas
  <2>1. /\ UNCHANGED <<branch, verdict, phase, resolved, mgr>>
        /\ job.pc = "cas" /\ job.kind # "adopt"
    BY <1>0, <1>5 DEF Cas, At, JobShape
  <2>2. /\ job'.att = job.att /\ job'.kind = job.kind
        /\ \/ job'.pc \in {"sync", "advance", "report"}
           \/ job'.pc = "teardown" /\ job'.res = "landed"
    <3>1. CASE local = job.from
      BY <1>0, <1>5, <3>1, JobGoes DEF Cas, Goto
    <3>2. CASE local # job.from /\ Mode = "push"
      BY <1>0, <1>5, <3>2 DEF Cas, Job
    <3>3. CASE local # job.from /\ Mode # "push"
      BY <1>0, <1>5, <3>3, RetryGoes DEF Cas
    <3>4. QED
      BY <3>1, <3>2, <3>3
  <2>3. job.kind = "land" => branch[job.att] # NoRef
    BY <2>1 DEF Kept, Past
  <2>4. QED
    BY <1>0, <2>1, <2>2, <2>3, KeptJob DEF Job
<1>6. CASE Advance \/ OpenPr
  <2>1. /\ UNCHANGED <<branch, verdict, phase, resolved, mgr>>
        /\ job.pc \in {"advance", "open_pr"}
    BY <1>6 DEF Advance, OpenPr, At
  <2>2. /\ job'.att = job.att /\ job'.kind = job.kind
        /\ job'.pc \in {"open_pr", "teardown"} /\ job'.res \in {"landed", "behind"}
    <3>1. CASE Advance
      BY <1>0, <3>1 DEF Advance, Job
    <3>2. CASE OpenPr
      BY <1>0, <3>2, JobGoes DEF OpenPr, Goto, At, Kept
    <3>3. QED
      BY <1>6, <3>1, <3>2
  <2>3. QED
    BY <2>1, <2>2, KeptJob DEF Past
<1>7. CASE Teardown
  <2>1. /\ UNCHANGED <<verdict, phase, resolved, mgr>> /\ job.pc = "teardown"
        /\ \/ UNCHANGED branch
           \/ /\ job.kind # "cherry"
              /\ \A b \in Attempt : b # job.att => branch'[b] = branch[b]
    BY <1>0, <1>7 DEF Teardown, At, Refs
  <2>2. /\ job'.att = job.att /\ job'.kind = job.kind /\ job'.pc = "report"
        /\ job'.res \in {"landed", "behind"} /\ job.kind # "sync"
    BY <1>0, <1>7, <2>1, JobGoes DEF Teardown, Goto, Kept, JobShape
  <2>3. QED
    BY <1>0, <2>1, <2>2, KeptJob DEF Past, Job
<1>8. CASE ReportLand
  <2>1. /\ job' = Idle /\ job.pc = "report" /\ job.kind \in {"land", "adopt"}
        /\ job.att \in Attempt
        /\ phase' = [phase EXCEPT ![job.att] = "done"]
        /\ \/ verdict' = [verdict EXCEPT ![job.att] = "landed"]
           \/ verdict' = [verdict EXCEPT ![job.att] = job.res]
        /\ UNCHANGED <<branch, resolved, mgr>>
    BY <1>0, <1>8 DEF ReportLand, At, JobShape
  <2>2. job.res \in {"conflict", "rejected"} => branch[job.att] # NoRef
    BY <2>1 DEF Kept
  <2>3. QED
    BY <1>0, <2>1, <2>2 DEF Kept, TypeOK
<1>9. CASE ReportResolve
  <2>1. /\ job' = Idle /\ job.pc = "report" /\ job.att \in Attempt
        /\ resolved[job.att] # NoRef
        /\ phase' = [phase EXCEPT ![job.att] = "done"]
        /\ UNCHANGED verdict \/ verdict' = [verdict EXCEPT ![job.att] = "landed"]
        /\ UNCHANGED <<branch, resolved, mgr>>
    BY <1>0, <1>9 DEF ReportResolve, At, JobShape, RowShape
  <2>2. QED
    BY <1>0, <2>1 DEF Kept, TypeOK
<1>10. QED
  BY <1>1, <1>2, <1>3, <1>4, <1>5, <1>6, <1>7, <1>8, <1>9 DEF JobStep

LEMMA KeptLandStart ==
    ASSUME Shape, Kept, NEW a \in Attempt, NEW r \in BOOLEAN, LandStart(a, r),
           a \in Remote \/ branch[a] # NoRef
    PROVE  Kept'
<1>1. /\ job' = [Idle EXCEPT !.kind = IF branch[a] = base[a] THEN "adopt" ELSE "land",
                             !.att = a, !.rerun = r,
                             !.pc = IF a \in Remote THEN "fetch" ELSE "adopt"]
      /\ job = Idle
      /\ UNCHANGED <<branch, verdict, phase, resolved, mgr>>
  BY DEF Shape, JobShape, LandStart, At, refs, rows
<1>2. /\ job'.att = a /\ job'.kind \in {"land", "adopt"}
      /\ job'.pc = IF a \in Remote THEN "fetch" ELSE "adopt"
      /\ job.att = Nobody /\ a # Nobody
  BY <1>1, LandingConstants DEF Idle
<1>3. job'.pc = "adopt" => branch[a] # NoRef
  BY <1>2
<1>4. \A b \in Attempt : b # Nobody
  BY LandingConstants
<1>5. QED
  BY <1>1, <1>2, <1>3, <1>4 DEF Kept, Past

LEMMA KeptStep ==
    ASSUME Shape, Kept, [Next]_vars
    PROVE  Kept'
<1> USE DEF repo, refs, rows, oper, ends
<1>0. /\ TypeOK /\ JobShape /\ RowShape /\ local \in History /\ local # NoRef
      /\ job \in Job /\ branch \in Refs /\ resolved \in Refs
      /\ (job.pc = "idle" => job = Idle)
      /\ Idle.kind = "sync" /\ Idle.att = Nobody /\ Idle.pc = "idle"
      /\ \A a \in Attempt : a # Nobody
  BY NoRefIsNone, IdleParts, LandingConstants DEF Shape, TypeOK, JobShape
<1>1. CASE JobStep
  BY <1>1, KeptJobStep
<1>2. CASE PollSync
  <2>1. /\ job = Idle /\ job'.att = Nobody /\ job'.kind = "sync" /\ job'.pc = "sync"
        /\ UNCHANGED <<branch, verdict, phase, resolved, mgr>>
    BY <1>0, <1>2 DEF PollSync, At, Idle
  <2>2. QED
    BY <1>0, <2>1, KeptJob
<1>3. CASE Crash
  <2>1. /\ job' = Idle /\ mgr' = "recovering" /\ UNCHANGED <<branch, verdict, resolved>>
        /\ \A a \in Attempt : phase'[a] = phase[a] \/ phase'[a] = "done"
    BY <1>3 DEF Crash
  <2>2. QED
    BY <1>0, <2>1 DEF Kept
<1>4. ASSUME NEW a \in Attempt, RecoverLanded(a) \/ RecoverPark(a)
      PROVE  Kept'
  <2>1. /\ phase' = [phase EXCEPT ![a] = "done"]
        /\ \E v \in {"landed", "interrupted"} : verdict' = [verdict EXCEPT ![a] = v]
        /\ UNCHANGED <<branch, resolved, mgr, job>>
    BY <1>4 DEF RecoverLanded, RecoverPark
  <2>2. QED
    BY <1>0, <2>1 DEF Kept, TypeOK
<1>5. CASE RecoveryDone
  BY <1>5 DEF RecoveryDone, Kept
<1>6. ASSUME NEW a \in Attempt, RecoverReenqueue(a)
      PROVE  Kept'
  BY <1>6, KeptLandStart DEF RecoverReenqueue, Recoverable
<1>7. ASSUME NEW a \in Attempt, Start(a)
      PROVE  Kept'
  <2>1. mgr = "up" /\ phase[a] = "queued" /\ LandStart(a, FALSE) /\ job = Idle
    BY <1>0, <1>7 DEF Start, LandStart, At
  <2>2. a \in Remote \/ branch[a] # NoRef
    BY <1>0, <2>1 DEF Kept
  <2>3. QED
    BY <2>1, <2>2, KeptLandStart
<1>8. ASSUME NEW a \in Attempt, Lease(a)
      PROVE  Kept'
  <2>1. /\ phase[a] = "ready" /\ phase' = [phase EXCEPT ![a] = "leased"]
        /\ branch' = IF a \in Remote THEN branch ELSE [branch EXCEPT ![a] = local]
        /\ UNCHANGED <<verdict, resolved, mgr, job>>
    BY <1>8 DEF Lease
  <2>2. ~(job.kind \in {"land", "adopt"} /\ job.att = a)
    BY <1>0, <2>1 DEF JobShape
  <2>3. QED
    BY <1>0, <2>1, <2>2 DEF Kept, TypeOK, Refs
<1>9. ASSUME NEW a \in Attempt, Submit(a)
      PROVE  Kept'
  <2> DEFINE tip == Append(base[a], [tree |-> Tree(base[a]) \cup {a}, att |-> Nobody, n |-> 0])
  <2>1. phase[a] = "leased" /\ base[a] \in History
    BY <1>0, <1>9 DEF Submit, RowShape
  <2>2. tip # NoRef
    <3>1. a \in Change
      BY DEF Change
    <3>2. QED
      BY <2>1, <3>1, PlainCommit, NoRefIsNone
  <2>3. /\ phase' = [phase EXCEPT ![a] = "queued"]
        /\ branch' = IF a \in Remote THEN branch ELSE [branch EXCEPT ![a] = tip]
        /\ UNCHANGED <<verdict, resolved, mgr, job>>
    BY <1>9 DEF Submit
  <2> HIDE DEF tip
  <2>4. ~(job.kind \in {"land", "adopt"} /\ job.att = a)
    BY <1>0, <2>1 DEF JobShape
  <2>5. QED
    BY <1>0, <2>1, <2>2, <2>3, <2>4 DEF Kept, TypeOK, Refs
<1>10. ASSUME NEW a \in Attempt, SubmitNothing(a)
       PROVE  Kept'
  <2>1. /\ phase[a] = "leased" /\ a \notin Remote
        /\ phase' = [phase EXCEPT ![a] = "queued"]
        /\ UNCHANGED <<branch, verdict, resolved, mgr, job>>
    BY <1>10 DEF SubmitNothing
  <2>2. QED
    BY <1>0, <2>1 DEF Kept, TypeOK
<1>11. ASSUME NEW a \in Attempt, ResolverLands(a)
       PROVE  Kept'
  <2> DEFINE tip == Append(local, [tree |-> Tree(local) \cup {a}, att |-> Nobody, n |-> 0])
  <2>1. tip # NoRef
    <3>1. a \in Change
      BY DEF Change
    <3>2. local \in History
      BY <1>0
    <3>3. tip \in History
      BY <3>1, <3>2, PlainCommit
    <3>4. QED
      BY <3>3, NoRefIsNone
  <2>2. /\ phase[a] = "done" /\ job = Idle /\ UNCHANGED <<verdict, mgr, job>>
        /\ phase' = [phase EXCEPT ![a] = "resolving"]
        /\ branch' = [branch EXCEPT ![a] = NoRef]
        /\ resolved' = [resolved EXCEPT ![a] = tip]
    BY <1>0, <1>11 DEF ResolverLands, At
  <2> HIDE DEF tip
  <2>3. QED
    BY <1>0, <2>1, <2>2 DEF Kept, TypeOK, Refs
<1>12. ASSUME NEW a \in Attempt, CherryStart(a)
       PROVE  Kept'
  <2>1. /\ job = Idle /\ job'.att = a /\ job'.kind = "cherry" /\ job'.pc = "sync"
        /\ UNCHANGED <<branch, verdict, phase, resolved, mgr>>
    BY <1>0, <1>12 DEF CherryStart, At, Idle
  <2>2. QED
    BY <1>0, <2>1 DEF Kept
<1>13. ASSUME \/ UNCHANGED vars \/ OperatorSwitch
              \/ \E a \in Attempt : AgentLands(a) \/ StalePublish(a) \/ GithubMerge(a)
              \/ \E c \in Foreign : ForeignPush(c)
              \/ \E c \in Local : OperatorEdit(c) \/ OperatorCommit(c)
       PROVE  Kept'
  <2>1. UNCHANGED <<branch, verdict, phase, resolved, mgr, job>>
    BY <1>13 DEF vars, OperatorSwitch, AgentLands, StalePublish, GithubMerge, ForeignPush,
                 OperatorEdit, OperatorCommit
  <2>2. QED
    BY <2>1 DEF Kept
<1>14. QED
  BY <1>1, <1>2, <1>3, <1>4, <1>5, <1>6, <1>7, <1>8, <1>9, <1>10, <1>11, <1>12, <1>13
     DEF Next, Recover

\* A refused land keeps the work, through crashes and re-runs: its branch is there
\* until a resolver has put the work on main itself.
THEOREM WorkKeptHolds ==
    Spec => [](/\ Unresolved => WorkKept
               /\ \A a \in Attempt :
                    verdict[a] \in {"conflict", "rejected"} /\ branch[a] = NoRef =>
                        resolved[a] # NoRef)
<1>1. Init => Shape /\ Kept
  <2>1. Init => Kept
    BY IdleParts DEF Init, Kept
  <2>2. QED
    BY <2>1, ShapeInit
<1>2. Shape /\ Kept /\ [Next]_vars => Shape' /\ Kept'
  BY ShapeStep, KeptStep
<1>3. Kept => /\ Unresolved => WorkKept
              /\ \A a \in Attempt :
                   verdict[a] \in {"conflict", "rejected"} /\ branch[a] = NoRef =>
                       resolved[a] # NoRef
  BY DEF Kept, Unresolved, WorkKept
<1>4. QED
  BY <1>1, <1>2, <1>3, PTL DEF Spec

-----------------------------------------------------------------------------
(* Origin's main and the verdicts implement the land log.                  *)

\* The work of the job's attempt is on origin.
Pushed ==
    \/ job.pc \in {"cas", "advance", "teardown"}
    \/ job.pc = "report" /\ job.res \in {"landed", "behind"}

\* The attempts whose land is to be settled, and has not pushed.
Fresh(a) == phase[a] \in {"ready", "leased", "queued"} /\ ~(job.att = a /\ Pushed)

Lacks(h, a) == h = NoRef \/ a \notin Tree(h)

\* Work gets into a history by its own land only, and what a land that failed
\* says of origin is so when it is reported.
Agreed ==
    /\ mgr = "up" /\ job.rerun = FALSE /\ job.pc # "open_pr"
    /\ job.pc \in {"push", "cas"} => job.att \in Tree(job.tip)
    /\ Pushed => job.att \in Tree(origin)
    /\ job.kind = "cherry" /\ job.pc = "report" => job.res # "adopted"
    /\ \A a \in Attempt :
         /\ pr[a] = NoRef
         /\ phase[a] \in {"ready", "leased", "queued"} => verdict[a] = "none"
         /\ phase[a] = "resolving" => verdict[a] = "conflict"
         /\ Fresh(a) =>
              /\ a \notin Tree(origin) /\ a \notin Tree(local)
              /\ \A b \in Attempt : Lacks(base[b], a)
              /\ job.pc \in {"swap", "push", "cas"} =>
                     a \notin Tree(job.tip) \/ (job.pc = "push" /\ job.att = a)

\* A step of the job that moves no main and settles nothing.
LEMMA AgreedJob ==
    ASSUME Agreed, UNCHANGED <<origin, local, base, pr, phase, verdict, mgr>>,
           job'.att = job.att, job'.rerun = job.rerun,
           job'.pc \notin {"open_pr", "swap", "push", "cas"}, Pushed' <=> Pushed,
           job'.pc = "report" => job'.kind # "cherry" \/ job'.res # "adopted"
    PROVE  Agreed'
BY DEF Agreed, Fresh, Lacks

\* The job is over, and the attempt it was about is settled.
LEMMA AgreedReport ==
    ASSUME Agreed, TypeOK, job.att \in Attempt, job' = Idle,
           UNCHANGED <<origin, local, base, pr, mgr>>,
           phase' = [phase EXCEPT ![job.att] = "done"],
           \A b \in Attempt : b # job.att => verdict'[b] = verdict[b]
    PROVE  Agreed'
<1>1. ~Pushed' /\ job'.rerun = FALSE /\ job'.pc = "idle"
  BY IdleParts DEF Pushed
<1>2. \A b \in Attempt : /\ phase'[b] = IF b = job.att THEN "done" ELSE phase[b]
                         /\ Fresh(b)' => Fresh(b)
  BY <1>1 DEF TypeOK, Fresh
<1>3. QED
  BY <1>1, <1>2 DEF Agreed, Lacks

LEMMA AgreedJobStep ==
    ASSUME Mode = "push", Shape, Kept, Agreed, JobStep
    PROVE  Agreed'
<1> USE DEF repo, refs, rows, oper, ends
<1>0. /\ TypeOK /\ JobShape /\ RowShape /\ job \in Job
      /\ local \in History /\ origin \in History
      /\ job.kind = "sync" => job.att = Nobody
      /\ Idle.kind = "sync" /\ Idle.att = Nobody /\ Idle.pc = "idle" /\ Idle.rerun = FALSE
      /\ job.rerun = FALSE
  BY IdleParts DEF Shape, TypeOK, JobShape, Agreed
<1>1. CASE LandFetch
  <2>1. /\ job.pc = "fetch" /\ job'.att = job.att /\ job'.rerun = job.rerun
        /\ job'.pc = "adopt" \/ (job'.pc = "report" /\ job'.res = "transport")
        /\ UNCHANGED <<origin, local, base, pr, phase, verdict, mgr>>
    BY <1>0, <1>1, JobGoes, JobEnds DEF LandFetch, Goto, At
  <2>2. QED
    BY <2>1, AgreedJob DEF Pushed
<1>2. CASE LandAdopt
  <2>1. /\ job.pc = "adopt" /\ job'.att = job.att /\ job'.rerun = job.rerun
        /\ job'.kind # "cherry"
        /\ \/ job'.pc = "sync"
           \/ job'.pc = "report" /\ job'.res \in {"adopted", "no_changes"}
    BY <1>0, <1>2, JobGoes, JobEnds DEF LandAdopt, Goto, At, JobShape
  <2>2. /\ UNCHANGED <<local, base, pr, phase, verdict, mgr>>
        /\ origin' = origin \/ origin' = local
    BY <1>2 DEF LandAdopt
  <2>3. QED
    BY <2>1, <2>2 DEF Agreed, Fresh, Pushed, Lacks
<1>3. CASE Sync
  <2>1. UNCHANGED <<origin, local, base, pr, phase, verdict, mgr>> /\ job.pc = "sync"
    BY <1>3 DEF Sync, At
  <2>2. job'.att = job.att /\ job'.rerun = job.rerun
        /\ job'.pc \in {"idle", "produce", "swap"}
    BY <1>0, <1>3, SyncChoice
  <2>3. CASE job'.pc # "swap"
    BY <2>1, <2>2, <2>3, AgreedJob DEF Pushed
  <2>4. CASE job'.pc = "swap"
    <3>1. job'.tip = origin \/ job'.tip = Rescue(origin, local).tip
      BY <1>0, <1>3, <2>4, SyncChoice
    <3>2. Tree(job'.tip) \subseteq Tree(origin) \cup Tree(local)
      BY <1>0, <3>1, RescueProperties
    <3>3. \A a \in Attempt : Fresh(a)' => Fresh(a) /\ a \notin Tree(job'.tip)
      BY <2>1, <2>2, <2>4, <3>2 DEF Agreed, Fresh, Pushed
    <3>4. QED
      BY <2>1, <2>2, <2>4, <3>3 DEF Agreed, Pushed, Lacks
  <2>5. QED
    BY <2>3, <2>4
<1>4. CASE SyncSwap
  <2>1. UNCHANGED <<origin, base, pr, phase, verdict, mgr>> /\ job.pc = "swap"
    BY <1>4 DEF SyncSwap, At
  <2>2. CASE local = job.from
    <3> DEFINE lost == job.lost \cup job.lose
    <3>1. /\ local' = job.tip
          /\ job' = [job EXCEPT !.pc = "sync_advance", !.lost = lost]
      BY <1>4, <2>2 DEF SyncSwap
    <3> HIDE DEF lost
    <3>2. job'.pc = "sync_advance" /\ job'.att = job.att /\ job'.rerun = job.rerun
      BY <1>0, <3>1 DEF Job
    <3>3. QED
      BY <2>1, <3>1, <3>2 DEF Agreed, Fresh, Pushed, Lacks
  <2>3. CASE local # job.from
    <3>1. UNCHANGED local
      BY <1>4, <2>3 DEF SyncSwap
    <3>2. job'.att = job.att /\ job'.rerun = job.rerun /\ job'.pc \in {"idle", "produce"}
      BY <1>0, <1>4, <2>3, SyncReturns DEF SyncSwap
    <3>3. QED
      BY <2>1, <3>1, <3>2, AgreedJob DEF Pushed
  <2>4. QED
    BY <2>2, <2>3
<1>5. CASE SyncAdvance
  <2>1. /\ UNCHANGED <<origin, local, base, pr, phase, verdict, mgr>>
        /\ job.pc = "sync_advance"
    BY <1>5 DEF SyncAdvance, At
  <2>2. job'.att = job.att /\ job'.rerun = job.rerun /\ job'.pc \in {"idle", "produce"}
    BY <1>0, <1>5, SyncReturns DEF SyncAdvance
  <2>3. QED
    BY <2>1, <2>2, AgreedJob DEF Pushed
<1>6. CASE Produce
  <2>1. UNCHANGED <<origin, local, base, pr, phase, verdict, mgr>> /\ job.pc = "produce"
    BY <1>6 DEF Produce, At
  <2>2. CASE ProduceFails(local)
    <3>1. /\ job'.att = job.att /\ job'.rerun = job.rerun
          /\ job'.pc = "report" /\ job'.res = "conflict"
      BY <1>0, <1>6, <2>2, JobEnds DEF Produce
    <3>2. QED
      BY <2>1, <3>1, AgreedJob DEF Pushed
  <2>3. CASE ~ProduceFails(local)
    <3> DEFINE t == Produced(local)
               seen == CheckoutState
               x == job.att
    <3>1. x \in Attempt /\ x \in Tree(t) /\ Tree(t) \subseteq Tree(local) \cup {x} \cup
              (IF head[x] \in History THEN Tree(head[x]) ELSE {})
      <4>1. CASE t = local /\ x \in Tree(local) /\ x \in Attempt
        BY <4>1
      <4>2. CASE /\ x \in Attempt
                 /\ \E c \in Commit :
                      /\ t = Append(local, c) /\ x \in c.tree /\ Tree(local) \subseteq c.tree
                      /\ \/ c.tree = Tree(local) \cup {x}
                         \/ /\ head[x] \in History
                            /\ c.tree = Tree(local) \cup Tree(head[x])
        <5>1. PICK c \in Commit :
                      /\ t = Append(local, c) /\ x \in c.tree /\ Tree(local) \subseteq c.tree
                      /\ \/ c.tree = Tree(local) \cup {x}
                         \/ /\ head[x] \in History
                            /\ c.tree = Tree(local) \cup Tree(head[x])
          BY <4>2
        <5>2. Tree(t) = c.tree
          BY <1>0, <5>1, CommitOnTop
        <5> HIDE DEF t
        <5>3. QED
          BY <4>2, <5>1, <5>2
      <4>3. QED
        BY <1>6, <2>3, <4>1, <4>2, ProducedOnTop DEF Produce
    <3>2. job' = [job EXCEPT !.pc = "push", !.from = local, !.tip = t, !.seen = seen]
      BY <1>6, <2>3 DEF Produce
    <3> HIDE DEF t, seen
    <3>3. /\ job'.att = job.att /\ job'.rerun = job.rerun /\ job'.pc = "push"
          /\ job'.tip = t
      BY <1>0, <3>2 DEF Job
    <3>4. head[x] \in History => /\ head[x] # NoRef /\ base[x] # NoRef
                                 /\ Tree(head[x]) = Tree(base[x]) \cup {x}
      BY <1>0, <3>1, NoRefIsNone DEF RowShape
    <3>5. \A a \in Attempt : Fresh(a)' => Fresh(a) /\ (a # x => a \notin Tree(t))
      BY <2>1, <3>1, <3>3, <3>4 DEF Agreed, Fresh, Pushed, Lacks
    <3>6. QED
      BY <2>1, <3>1, <3>3, <3>5 DEF Agreed, Pushed, Lacks
  <2>4. QED
    BY <2>2, <2>3
<1>7. CASE Push
  <2>1. UNCHANGED <<local, base, pr, phase, verdict, mgr>> /\ job.pc = "push"
    BY <1>7 DEF Push, At
  <2>2. CASE origin' = job.tip /\ Goto("cas")
    <3>1. /\ job'.att = job.att /\ job'.rerun = job.rerun /\ job'.pc = "cas"
          /\ job'.tip = job.tip
      BY <1>0, <2>2, JobGoes DEF Goto
    <3>2. QED
      BY <2>1, <2>2, <3>1 DEF Agreed, Fresh, Pushed, Lacks
  <2>3. CASE UNCHANGED origin /\ Retry
    <3>1. /\ job'.att = job.att /\ job'.rerun = job.rerun
          /\ job'.pc = "sync" \/ (job'.pc = "report" /\ job'.res = "rejected")
      BY <1>0, <2>3, RetryGoes
    <3>2. QED
      BY <2>1, <2>3, <3>1, AgreedJob DEF Pushed
  <2>4. QED
    BY <1>7, <2>2, <2>3 DEF Push
<1>8. CASE Cas
  <2>1. UNCHANGED <<origin, base, pr, phase, verdict, mgr>> /\ job.pc = "cas"
    BY <1>8 DEF Cas, At
  <2>2. CASE local = job.from
    <3>1. /\ local' = job.tip
          /\ job'.att = job.att /\ job'.rerun = job.rerun /\ job'.pc = "advance"
      BY <1>0, <1>8, <2>2, JobGoes DEF Cas, Goto
    <3>2. QED
      BY <2>1, <3>1 DEF Agreed, Fresh, Pushed, Lacks
  <2>3. CASE local # job.from
    <3>1. /\ UNCHANGED local /\ job' = [job EXCEPT !.pc = "teardown", !.res = "landed"]
      BY <1>8, <2>3 DEF Cas
    <3>2. job'.att = job.att /\ job'.rerun = job.rerun /\ job'.pc = "teardown"
      BY <1>0, <3>1 DEF Job
    <3>3. QED
      BY <2>1, <3>1, <3>2, AgreedJob DEF Pushed
  <2>4. QED
    BY <2>2, <2>3
<1>9. CASE Advance \/ OpenPr
  <2>1. CASE Advance
    <3>1. /\ job.pc = "advance" /\ UNCHANGED <<origin, local, base, pr, phase, verdict, mgr>>
      BY <2>1 DEF Advance, At
    <3>2. job'.att = job.att /\ job'.rerun = job.rerun /\ job'.pc = "teardown"
      BY <1>0, <2>1 DEF Advance, Job
    <3>3. QED
      BY <3>1, <3>2, AgreedJob DEF Pushed
  <2>2. CASE OpenPr
    BY <2>2 DEF OpenPr, At, Agreed
  <2>3. QED
    BY <1>9, <2>1, <2>2
<1>10. CASE Teardown
  <2>1. /\ job.pc = "teardown" /\ UNCHANGED <<origin, local, base, pr, phase, verdict, mgr>>
        /\ job.res \in {"landed", "behind"}
    BY <1>10 DEF Teardown, At, Kept
  <2>2. /\ job'.att = job.att /\ job'.rerun = job.rerun /\ job'.pc = "report"
        /\ job'.res = job.res
    BY <1>0, <1>10, JobGoes DEF Teardown, Goto
  <2>3. QED
    BY <2>1, <2>2, AgreedJob DEF Pushed
<1>11. CASE ReportLand \/ ReportResolve
  <2>1. /\ job.att \in Attempt /\ job' = Idle
        /\ UNCHANGED <<origin, local, base, pr, mgr>>
        /\ phase' = [phase EXCEPT ![job.att] = "done"]
    BY <1>0, <1>11 DEF ReportLand, ReportResolve, JobShape
  <2>2. \A b \in Attempt : b # job.att => verdict'[b] = verdict[b]
    BY <1>0, <1>11 DEF ReportLand, ReportResolve, TypeOK
  <2>3. QED
    BY <1>0, <2>1, <2>2, AgreedReport
<1>12. QED
  BY <1>1, <1>2, <1>3, <1>4, <1>5, <1>6, <1>7, <1>8, <1>9, <1>10, <1>11 DEF JobStep

LEMMA AgreedStep ==
    ASSUME Mode = "push", ~AgentsLand, Shape, Kept, Agreed, [Next]_vars, ~Crash
    PROVE  Agreed'
<1> USE DEF repo, refs, rows, oper, ends
<1>0. /\ TypeOK /\ JobShape /\ local \in History /\ origin \in History /\ job \in Job
      /\ (job.pc = "idle" => job = Idle) /\ base \in Refs /\ mgr = "up"
      /\ Idle.att = Nobody /\ Idle.pc = "idle" /\ Idle.rerun = FALSE
      /\ \A a \in Attempt : a # Nobody /\ a \notin Foreign \cup Local
  BY IdleParts, LandingConstants DEF Shape, TypeOK, JobShape, Agreed
<1>1. CASE JobStep
  BY <1>1, AgreedJobStep
<1>2. CASE PollSync \/ \E a \in Attempt : Start(a) \/ CherryStart(a)
  <2>1. /\ job = Idle /\ job'.rerun = FALSE /\ job'.pc \in {"sync", "fetch", "adopt"}
        /\ UNCHANGED <<origin, local, base, pr, phase, verdict, mgr>>
    BY <1>0, <1>2 DEF PollSync, Start, LandStart, CherryStart, At, Idle
  <2>2. ~Pushed /\ ~Pushed'
    BY <1>0, <2>1 DEF Pushed
  <2>3. QED
    BY <1>0, <2>1, <2>2 DEF Agreed, Fresh, Lacks
<1>3. CASE Recover \/ Crash
  BY <1>0, <1>3 DEF Recover, RecoverLanded, RecoverReenqueue, RecoverPark, RecoveryDone
<1>4. ASSUME NEW a \in Attempt, Lease(a)
      PROVE  Agreed'
  <2>1. /\ phase[a] = "ready" /\ phase' = [phase EXCEPT ![a] = "leased"]
        /\ \A b \in Attempt : base'[b] = base[b] \/ base'[b] = local
        /\ UNCHANGED <<origin, local, pr, verdict, mgr, job>>
    BY <1>0, <1>4 DEF Lease, Refs
  <2>2. Pushed' <=> Pushed
    BY <2>1 DEF Pushed
  <2>3. \A b \in Attempt : (Fresh(b)' => Fresh(b))
                           /\ (phase'[b] = phase[b] \/ (b = a /\ phase'[b] = "leased"))
    BY <1>0, <2>1, <2>2 DEF TypeOK, Fresh
  <2>4. QED
    BY <1>0, <2>1, <2>2, <2>3 DEF Agreed, Lacks
<1>5. ASSUME NEW a \in Attempt, Submit(a) \/ SubmitNothing(a) \/ AgentLands(a)
      PROVE  Agreed'
  <2>1. /\ phase[a] = "leased" /\ phase' = [phase EXCEPT ![a] = "queued"]
        /\ UNCHANGED <<origin, local, base, pr, verdict, mgr, job>>
    BY <1>5 DEF Submit, SubmitNothing, AgentLands
  <2>2. Pushed' <=> Pushed
    BY <2>1 DEF Pushed
  <2>3. \A b \in Attempt : (Fresh(b)' => Fresh(b))
                           /\ (phase'[b] = phase[b] \/ (b = a /\ phase'[b] = "queued"))
    BY <1>0, <2>1, <2>2 DEF TypeOK, Fresh
  <2>4. QED
    BY <1>0, <2>1, <2>2, <2>3 DEF Agreed, Lacks
<1>6. ASSUME NEW a \in Attempt, ResolverLands(a)
      PROVE  Agreed'
  <2>1. Tree(local') = Tree(local) \cup {a}
    BY <1>0, <1>6, PlainCommit DEF ResolverLands, Change
  <2>2. /\ phase[a] = "done" /\ verdict[a] = "conflict"
        /\ phase' = [phase EXCEPT ![a] = "resolving"]
        /\ UNCHANGED <<origin, base, pr, verdict, mgr, job>> /\ job.pc = "idle"
    BY <1>6 DEF ResolverLands, At
  <2>3. ~Pushed' /\ ~Pushed
    BY <2>2 DEF Pushed
  <2>4. \A b \in Attempt : /\ phase'[b] = IF b = a THEN "resolving" ELSE phase[b]
                           /\ Fresh(b)' => Fresh(b) /\ b # a
    BY <1>0, <2>2, <2>3 DEF TypeOK, Fresh
  <2>5. QED
    BY <2>1, <2>2, <2>3, <2>4 DEF Agreed, Lacks
<1>7. ASSUME NEW a \in Attempt, GithubMerge(a)
      PROVE  Agreed'
  BY <1>7 DEF GithubMerge, Agreed
<1>8. ASSUME NEW c \in Foreign, ForeignPush(c)
      PROVE  Agreed'
  <2>1. Tree(origin') = Tree(origin) \cup {c}
    BY <1>0, <1>8, PlainCommit DEF ForeignPush, Change
  <2>2. UNCHANGED <<local, base, pr, phase, verdict, mgr, job>>
    BY <1>8 DEF ForeignPush
  <2>3. QED
    BY <1>0, <2>1, <2>2 DEF Agreed, Fresh, Pushed, Lacks
<1>9. ASSUME NEW c \in Local, OperatorCommit(c)
      PROVE  Agreed'
  <2>1. Tree(local') = Tree(local) \cup {c}
    BY <1>0, <1>9, PlainCommit DEF OperatorCommit, Change
  <2>2. UNCHANGED <<origin, base, pr, phase, verdict, mgr, job>>
    BY <1>9 DEF OperatorCommit
  <2>3. QED
    BY <1>0, <2>1, <2>2 DEF Agreed, Fresh, Pushed, Lacks
<1>10. ASSUME \/ UNCHANGED vars \/ OperatorSwitch \/ \E a \in Attempt : StalePublish(a)
              \/ \E c \in Local : OperatorEdit(c)
       PROVE  Agreed'
  <2>1. UNCHANGED <<origin, local, base, pr, phase, verdict, mgr, job>>
    BY <1>10 DEF vars, OperatorSwitch, StalePublish, OperatorEdit
  <2>2. QED
    BY <2>1 DEF Agreed, Fresh, Pushed, Lacks
<1>11. QED
  BY <1>1, <1>2, <1>3, <1>4, <1>5, <1>6, <1>7, <1>8, <1>9, <1>10 DEF Next

\* The log that a history stands for.
Entries(h) == [i \in DOMAIN h |-> Entry(h, i)]
Answers == [a \in Attempt |-> Answer(verdict[a])]

\* Prefixes, entry by entry.
LEMMA PrefixEntries ==
    ASSUME NEW S, NEW g \in Seq(S), NEW h \in Seq(S), Len(g) <= Len(h),
           \A i \in 1..Len(g) : g[i] = h[i]
    PROVE  IsPrefix(g, h)
<1>1. Len(g) \in Nat /\ Len(h) \in Nat
  BY LenProperties
<1>2. SubSeq(g, 1, Len(g)) = g
  BY SubSeqFull
<1>3. \A i \in 1..Len(g) : h[i] \in S
  BY <1>1, ElementOfSeq
<1>4. /\ SubSeq(h, 1, Len(g)) \in Seq(S)
      /\ Len(SubSeq(h, 1, Len(g))) = IF 1 <= Len(g) THEN Len(g) - 1 + 1 ELSE 0
      /\ \A i \in 1..Len(g) - 1 + 1 : SubSeq(h, 1, Len(g))[i] = h[1 + i - 1]
  BY <1>1, <1>3, SubSeqProperties
<1>5. /\ Len(SubSeq(h, 1, Len(g))) = Len(g)
      /\ \A i \in 1..Len(g) : SubSeq(h, 1, Len(g))[i] = g[i]
  BY <1>1, <1>4
<1>6. SubSeq(h, 1, Len(g)) = g
  BY <1>4, <1>5, SeqEqual
<1>7. QED
  BY <1>2, <1>6 DEF IsPrefix

\* A history enters the work of an attempt once, and in the end has entered
\* exactly the work that its tree contains.
LEMMA EntriesOfHistory ==
    ASSUME NEW h \in History
    PROVE  /\ Entries(h) \in Seq(SUBSET Attempt) /\ Len(Entries(h)) = Len(h)
           /\ DOMAIN Entries(h) = 1..Len(h)
           /\ \A i \in 1..Len(h) : Entries(h)[i] = Entry(h, i)
           /\ \A i, j \in 1..Len(h) : i # j => Entries(h)[i] \cap Entries(h)[j] = {}
           /\ UNION Range(Entries(h)) = Tree(h) \cap Attempt
<1>1. /\ Len(h) \in Nat \ {0} /\ DOMAIN h = 1..Len(h) /\ Tree(h) = h[Len(h)].tree
      /\ \A i \in 1..Len(h) : h[i].tree \subseteq Tree(h)
      /\ Monotone(h) /\ h[1].tree = {}
  BY HistoryParts, RootIsHistory DEF History, Root
<1>2. \A i \in 1..Len(h) : Entry(h, i) \in SUBSET Attempt
  BY DEF Entry
<1> DEFINE e == Entries(h)
<1>3. e = [i \in 1..Len(h) |-> Entry(h, i)]
  BY <1>1 DEF Entries
<1>4. /\ e \in Seq(SUBSET Attempt) /\ DOMAIN e = 1..Len(h) /\ Len(e) = Len(h)
      /\ \A i \in 1..Len(h) : e[i] = Entry(h, i)
  BY <1>1, <1>2, <1>3
<1> HIDE DEF e
<1>5. ASSUME NEW i \in 1..Len(h), NEW j \in 1..Len(h), i < j
      PROVE  e[i] \cap e[j] = {}
  <2>1. j - 1 \in 1..Len(h) /\ i <= j - 1 /\ j # 1
    BY <1>1, <1>5
  <2>2. h[i].tree \subseteq h[j - 1].tree
    BY <1>1, <2>1 DEF Monotone
  <2>3. e[i] \subseteq h[i].tree /\ e[j] \cap h[j - 1].tree = {}
    BY <1>4, <2>1 DEF Entry
  <2>4. QED
    BY <2>2, <2>3
<1>6. \A i, j \in 1..Len(h) : i # j => e[i] \cap e[j] = {}
  <2>1. ASSUME NEW i \in 1..Len(h), NEW j \in 1..Len(h), i # j
        PROVE  e[i] \cap e[j] = {}
    <3>1. i < j \/ j < i
      BY <1>1, <2>1
    <3>2. QED
      BY <3>1, <1>5
  <2>2. QED
    BY <2>1
<1>7. ASSUME NEW a \in Tree(h) \cap Attempt
      PROVE  \E i \in 1..Len(h) : a \in e[i]
  <2> DEFINE T == {i \in 1..Len(h) : a \in h[i].tree}
  <2>1. T \subseteq Nat /\ T # {}
    BY <1>1
  <2>2. PICK i \in T : \A j \in T : i <= j
    BY <2>1, Least
  <2>3. i \in 1..Len(h) /\ i # 1 /\ i - 1 \in 1..Len(h)
    BY <1>1, <2>2
  <2>4. i - 1 \notin T
    BY <1>1, <2>2, <2>3
  <2>5. a \in Entry(h, i)
    BY <2>2, <2>3, <2>4 DEF Entry
  <2>6. QED
    BY <1>4, <2>3, <2>5
<1>8. \A i \in 1..Len(h) : e[i] \subseteq Tree(h) \cap Attempt
  BY <1>1, <1>4 DEF Entry
<1>9. UNION Range(e) = Tree(h) \cap Attempt
  <2>1. Range(e) = {e[i] : i \in 1..Len(h)}
    BY <1>4 DEF Range
  <2>2. QED
    BY <1>7, <1>8, <2>1
<1>10. QED
  BY <1>4, <1>6, <1>9 DEF e

LEMMA LogInit == Init => Log!Init
<1> SUFFICES ASSUME Init
             PROVE  Log!Init
  OBVIOUS
<1>1. /\ Entries(origin) \in Seq(SUBSET Attempt) /\ Len(Entries(origin)) = 1
      /\ Entries(origin)[1] = {}
  <2>1. origin \in History /\ Len(origin) = 1 /\ Tree(origin) = {}
    BY RootIsHistory DEF Init
  <2>2. /\ Entries(origin) \in Seq(SUBSET Attempt) /\ Len(Entries(origin)) = 1
        /\ Entries(origin)[1] = Entry(origin, 1)
    BY <2>1, EntriesOfHistory
  <2>3. origin[1].tree = {}
    BY <2>1, HistoryParts
  <2>4. QED
    BY <2>2, <2>3 DEF Entry
<1>2. Entries(origin) = << {} >>
  BY <1>1
<1>3. \A a \in Attempt : Answer(verdict[a]) = "open"
  BY DEF Init, Answer
<1>4. QED
  BY <1>2, <1>3 DEF Log!Init, Entries

\* Origin's main only grows.
LEMMA LogExtends ==
    ASSUME origin \in History, origin' \in History, IsAncestor(origin, origin'),
           UNCHANGED verdict
    PROVE  Log!Extend \/ UNCHANGED Log!vars
<1>1. /\ Entries(origin) \in Seq(SUBSET Attempt) /\ Len(Entries(origin)) = Len(origin)
      /\ \A i \in 1..Len(origin) : Entries(origin)[i] = Entry(origin, i)
  BY EntriesOfHistory
<1>2. /\ Entries(origin') \in Seq(SUBSET Attempt) /\ Len(Entries(origin')) = Len(origin')
      /\ \A i \in 1..Len(origin') : Entries(origin')[i] = Entry(origin', i)
      /\ DOMAIN Entries(origin') = 1..Len(origin')
      /\ \A i, j \in 1..Len(origin') :
             i # j => Entries(origin')[i] \cap Entries(origin')[j] = {}
  BY EntriesOfHistory
<1>3. /\ Len(origin) \in Nat /\ Len(origin') \in Nat /\ Len(origin) <= Len(origin')
      /\ \A i \in 1..Len(origin) : origin[i] = origin'[i]
  BY HistoryParts, PrefixPointwise
<1>4. \A i \in 1..Len(origin) : Entry(origin, i) = Entry(origin', i)
  BY <1>3 DEF Entry
<1>5. IsPrefix(Entries(origin), Entries(origin'))
  BY <1>1, <1>2, <1>3, <1>4, PrefixEntries
<1>6. Answers' = Answers /\ Log!IsPrefix(Entries(origin), Entries(origin'))
  BY <1>5 DEF Answers, IsPrefix, Log!IsPrefix
<1>7. CASE Entries(origin') = Entries(origin)
  BY <1>6, <1>7 DEF Log!vars, Entries, Answers
<1>8. CASE Entries(origin') # Entries(origin)
  BY <1>2, <1>6, <1>8 DEF Log!Extend, Entries, Answers
<1>9. QED
  BY <1>7, <1>8

\* Origin takes only what descends from it, whoever pushes.
LEMMA OriginGrows ==
    ASSUME Shape, Shape', [Next]_vars
    PROVE  IsAncestor(origin, origin')
<1> USE DEF repo, refs, rows, oper, ends
<1>0. /\ TypeOK /\ origin \in History /\ origin \in Seq(Commit)
  BY HistoryParts DEF Shape, TypeOK
<1>1. UNCHANGED origin => IsAncestor(origin, origin')
  BY <1>0, PrefixRefl
<1>2. CASE JobStep
  <2>1. CASE LandFetch \/ Sync \/ SyncSwap \/ SyncAdvance \/ Produce \/ Cas \/ Advance
    BY <1>1, <2>1 DEF LandFetch, Sync, SyncSwap, SyncAdvance, Produce, Cas, Advance
  <2>2. CASE OpenPr \/ Teardown \/ ReportLand \/ ReportResolve
    BY <1>1, <2>2 DEF OpenPr, Teardown, ReportLand, ReportResolve
  <2>3. CASE LandAdopt \/ Push
    BY <1>1, <2>3 DEF LandAdopt, Push
  <2>4. QED
    BY <1>2, <2>1, <2>2, <2>3 DEF JobStep
<1>3. CASE PollSync \/ Recover \/ Crash
  BY <1>1, <1>3 DEF PollSync, Recover, RecoverLanded, RecoverReenqueue, RecoverPark,
                    RecoveryDone, LandStart, Crash
<1>4. ASSUME NEW a \in Attempt,
             \/ Start(a) \/ Lease(a) \/ Submit(a) \/ AgentLands(a) \/ SubmitNothing(a)
             \/ StalePublish(a) \/ ResolverLands(a) \/ CherryStart(a)
      PROVE  IsAncestor(origin, origin')
  BY <1>1, <1>4 DEF Start, LandStart, Lease, Submit, AgentLands, SubmitNothing,
                    StalePublish, ResolverLands, CherryStart
<1>5. ASSUME NEW a \in Attempt, GithubMerge(a)
      PROVE  IsAncestor(origin, origin')
  BY <1>0, <1>5, GithubSquash, CommitOnTop
<1>6. ASSUME NEW c \in Foreign, ForeignPush(c)
      PROVE  IsAncestor(origin, origin')
  BY <1>0, <1>6, PlainCommit DEF ForeignPush, Change
<1>7. ASSUME \/ UNCHANGED vars \/ OperatorSwitch
             \/ \E c \in Local : OperatorEdit(c) \/ OperatorCommit(c)
      PROVE  IsAncestor(origin, origin')
  BY <1>1, <1>7 DEF vars, OperatorSwitch, OperatorEdit, OperatorCommit
<1>8. QED
  BY <1>2, <1>3, <1>4, <1>5, <1>6, <1>7 DEF Next

\* Outside of the recovery, a verdict is stored by a report alone.
LEMMA VerdictSteps ==
    ASSUME [Next]_vars, mgr = "up"
    PROVE  ReportLand \/ ReportResolve \/ UNCHANGED verdict
<1> USE DEF repo, refs, rows, oper, ends
<1>1. CASE JobStep
  BY <1>1 DEF JobStep, LandFetch, LandAdopt, Sync, SyncSwap, SyncAdvance, Produce, Push,
              Cas, Advance, OpenPr, Teardown
<1>2. CASE PollSync \/ Recover \/ Crash
  BY <1>2 DEF PollSync, Recover, RecoverLanded, RecoverReenqueue, RecoverPark,
              RecoveryDone, Crash
<1>3. ASSUME NEW a \in Attempt,
             \/ Start(a) \/ Lease(a) \/ Submit(a) \/ AgentLands(a) \/ SubmitNothing(a)
             \/ StalePublish(a) \/ ResolverLands(a) \/ CherryStart(a) \/ GithubMerge(a)
      PROVE  UNCHANGED verdict
  BY <1>3 DEF Start, LandStart, Lease, Submit, AgentLands, SubmitNothing, StalePublish,
              ResolverLands, CherryStart, GithubMerge
<1>4. ASSUME \/ UNCHANGED vars \/ OperatorSwitch \/ \E c \in Foreign : ForeignPush(c)
             \/ \E c \in Local : OperatorEdit(c) \/ OperatorCommit(c)
      PROVE  UNCHANGED verdict
  BY <1>4 DEF vars, OperatorSwitch, ForeignPush, OperatorEdit, OperatorCommit
<1>5. QED
  BY <1>1, <1>2, <1>3, <1>4 DEF Next

\* A verdict that is true of origin when it is stored.
LEMMA LogAnswers ==
    ASSUME TypeOK, NEW a \in Attempt, UNCHANGED origin,
           NEW v \in {"landed", "behind", "adopted", "transport", "no_changes",
                      "conflict", "rejected"},
           verdict' = [verdict EXCEPT ![a] = v],
           \/ /\ verdict[a] \in {"none", "conflict"} /\ v \in {"landed", "behind"}
              /\ a \in Tree(origin)
           \/ /\ verdict[a] = "none" /\ v \in {"conflict", "rejected"}
              /\ a \notin Tree(origin)
           \/ verdict[a] = "none" /\ v \in {"adopted", "transport", "no_changes"}
    PROVE  Log!Accept(a) \/ Log!Refuse(a) \/ Log!Settle(a)
<1>1. UNCHANGED Entries(origin)
  BY DEF Entries, Entry
<1>2. Answers' = [Answers EXCEPT ![a] = Answer(v)] /\ Answers[a] = Answer(verdict[a])
  <2>1. \A b \in Attempt : verdict'[b] = IF b = a THEN v ELSE verdict[b]
    BY DEF TypeOK
  <2>2. \A b \in Attempt : Answer(verdict[b])' = IF b = a THEN Answer(v)
                                                          ELSE Answer(verdict[b])
    BY <2>1 DEF Answer
  <2>3. QED
    BY <2>2 DEF Answers
<1>3. a \in UNION Range(Entries(origin)) <=> a \in Tree(origin)
  BY EntriesOfHistory DEF TypeOK
<1>4. a \in Log!Logged <=> a \in Tree(origin)
  BY <1>3 DEF Log!Logged, Log!Range, Range, Entries
<1>5. /\ Answer("none") = "open" /\ Answer("conflict") = "refused"
      /\ Answer("rejected") = "refused"
      /\ Answer("landed") = "landed" /\ Answer("behind") = "landed"
      /\ Answer("adopted") = "other" /\ Answer("transport") = "other"
      /\ Answer("no_changes") = "other"
  BY DEF Answer
<1>6. CASE /\ verdict[a] \in {"none", "conflict"} /\ v \in {"landed", "behind"}
           /\ a \in Tree(origin)
  <2>1. Answers[a] \in {"open", "refused"} /\ Answers' = [Answers EXCEPT ![a] = "landed"]
    BY <1>2, <1>5, <1>6
  <2>2. QED
    BY <1>1, <1>4, <1>6, <2>1 DEF Log!Accept, Entries, Answers
<1>7. CASE /\ verdict[a] = "none" /\ v \in {"conflict", "rejected"}
           /\ a \notin Tree(origin)
  <2>1. Answers[a] = "open" /\ Answers' = [Answers EXCEPT ![a] = "refused"]
    BY <1>2, <1>5, <1>7
  <2>2. QED
    BY <1>1, <1>4, <1>7, <2>1 DEF Log!Refuse, Entries, Answers
<1>8. CASE verdict[a] = "none" /\ v \in {"adopted", "transport", "no_changes"}
  <2>1. Answers[a] = "open" /\ Answers' = [Answers EXCEPT ![a] = "other"]
    BY <1>2, <1>5, <1>8
  <2>2. QED
    BY <1>1, <2>1 DEF Log!Settle, Entries, Answers
<1>9. QED
  BY <1>6, <1>7, <1>8

LEMMA LogStep ==
    ASSUME Shape, Shape', Agreed, [Next]_vars
    PROVE  Log!Next \/ UNCHANGED Log!vars
<1> USE DEF repo, refs, rows, oper, ends
<1>0. /\ TypeOK /\ JobShape /\ job \in Job /\ origin \in History /\ origin' \in History
      /\ mgr = "up" /\ job.rerun = FALSE
  BY DEF Shape, TypeOK, Agreed
<1>1. CASE UNCHANGED verdict
  BY <1>0, <1>1, OriginGrows, LogExtends DEF Log!Next
<1>2. CASE ReportLand
  <2> DEFINE a == job.att
  <2>1. /\ a \in Attempt /\ job.pc = "report" /\ UNCHANGED origin
        /\ verdict' = [verdict EXCEPT ![a] = job.res] /\ phase[a] = "queued"
    BY <1>0, <1>2 DEF ReportLand, At, JobShape
  <2>2. verdict[a] = "none"
    BY <2>1 DEF Agreed
  <2>3. job.res \in {"landed", "behind"} => a \in Tree(origin)
    BY <2>1 DEF Agreed, Pushed
  <2>4. job.res \in {"conflict", "rejected"} => a \notin Tree(origin)
    BY <2>1 DEF Agreed, Pushed, Fresh
  <2>5. job.res \in {"landed", "behind", "adopted", "transport", "no_changes",
                    "conflict", "rejected"}
    BY <1>0 DEF Job
  <2>6. Log!Accept(a) \/ Log!Refuse(a) \/ Log!Settle(a)
    BY <1>0, <2>1, <2>2, <2>3, <2>4, <2>5, LogAnswers
  <2>7. QED
    BY <2>1, <2>6 DEF Log!Next
<1>3. CASE ReportResolve
  <2> DEFINE a == job.att
  <2>1. /\ a \in Attempt /\ job.pc = "report" /\ UNCHANGED origin
        /\ job.kind = "cherry" /\ phase[a] = "resolving"
    BY <1>0, <1>3 DEF ReportResolve, At, JobShape
  <2>2. verdict[a] = "conflict" /\ job.res # "adopted"
    BY <2>1 DEF Agreed
  <2>3. CASE job.res \in {"landed", "behind"}
    <3>1. verdict' = [verdict EXCEPT ![a] = "landed"] /\ a \in Tree(origin)
      BY <1>3, <2>1, <2>3 DEF ReportResolve, SuccessKinds, Agreed, Pushed
    <3>2. Log!Accept(a) \/ Log!Refuse(a) \/ Log!Settle(a)
      BY <1>0, <2>1, <2>2, <3>1, LogAnswers
    <3>3. QED
      BY <2>1, <3>2 DEF Log!Next
  <2>4. CASE job.res \notin {"landed", "behind"}
    <3>1. UNCHANGED verdict
      BY <1>3, <2>2, <2>4 DEF ReportResolve, SuccessKinds
    <3>2. QED
      BY <1>1, <3>1
  <2>5. QED
    BY <2>3, <2>4
<1>4. QED
  BY <1>0, <1>1, <1>2, <1>3, VerdictSteps

\* When lands are pushed and agents leave main alone, origin's main and the
\* verdicts implement the land log, in a run without crashes: main only grows,
\* work enters it once, and "landed" and "refused" are true when they are stored.
THEOREM ImplementsLogHolds ==
    ASSUME Mode = "push", ~AgentsLand
    PROVE  Spec /\ [](crashes = 0) => ImplementsLog
<1> DEFINE Inv == Shape /\ Kept /\ Agreed
<1>1. Init => Inv /\ Log!Init
  <2>1. Init => Kept
    BY IdleParts DEF Init, Kept
  <2>2. Init => Agreed
    BY IdleParts, RootIsHistory DEF Init, Agreed, Pushed, Lacks
  <2>3. QED
    BY <2>1, <2>2, ShapeInit, LogInit
<1>2. Inv /\ [Next]_vars /\ (crashes = 0)' => Inv'
  BY ShapeStep, KeptStep, AgreedStep, NotYet
<1>3. Inv /\ Inv' /\ [Next]_vars => [Log!Next]_Log!vars
  BY LogStep
<1>4. QED
  BY <1>1, <1>2, <1>3, PTL DEF Spec, ImplementsLog, Log!Spec

\* Nobody rewrites origin: it only ever takes descendants of what it has, since
\* push_main is not forced.
THEOREM OriginOnlyGrows == Spec => [][IsAncestor(origin, origin')]_vars
<1>1. Shape /\ Shape' /\ [Next]_vars => [IsAncestor(origin, origin')]_vars
  BY OriginGrows
<1>2. QED
  BY <1>1, ShapeHolds, PTL DEF Spec
=============================================================================

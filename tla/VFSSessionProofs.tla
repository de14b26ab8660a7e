-------------------------- MODULE VFSSessionProofs --------------------------
(***************************************************************************)
(* Proofs about the workspace of a running VM (VFSSession): for any paths, *)
(* mounts, rules and threads, the listings of a host directory match its   *)
(* content, the guest's open files are the host's, and the tree of nodes   *)
(* of the FUSE daemon follows the host until a call tangles it.            *)
(*                                                                         *)
(* The argument.  Base is about the connection and the host's tree alone.  *)
(* HandleOK matches the handles of the host with the open files and the    *)
(* calls that bring or return one.  Track is about the tree of nodes: each *)
(* node is where its cached path says (Placed), a node's path leads to its *)
(* file unless a call that the host has served but the guest has not yet   *)
(* entered moves or clears it (Follows), and the calls in hand keep out of *)
(* each other's way (PairsOK).  Paths below a directory in memory are left *)
(* out of Track: they are not firm, and inode numbers there are made from  *)
(* the path itself.  FileOK relates the open files to their nodes.         *)
(***************************************************************************)
EXTENDS VFSSession, SequenceTheorems, WellFoundedInduction, TLAPS

-----------------------------------------------------------------------------
(* Paths as sequences of names.                                              *)

(* Every set of numbers that is not empty has a least element.               *)
LEMMA LeastNumber ==
  ASSUME NEW S \in SUBSET Nat, S # {}
  PROVE  \E n \in S : \A m \in S : n <= m
<1>1. PICK n \in S : \A m \in S : ~(<<m, n>> \in OpToRel(<, Nat))
  BY NatLessThanWellFounded, WFMin
<1>2. \A m \in S : ~(m < n)
  BY <1>1 DEF OpToRel
<1>. QED
  BY <1>2

(* A prefix, name by name.                                                   *)
LEMMA PrefixNames ==
  ASSUME NEW x \in Seq(Name), NEW y \in Seq(Name)
  PROVE  IsPrefix(x, y) <=> Len(x) <= Len(y) /\ \A i \in 1..Len(x) : x[i] = y[i]
<1>1. Len(x) \in Nat /\ Len(y) \in Nat
  BY LenProperties
<1>2. \A i \in 1..Len(x) : x[i] \in Name
  BY ElementOfSeq
<1>3. /\ SubSeq(x, 1, Len(x)) \in Seq(Name)
      /\ Len(SubSeq(x, 1, Len(x))) = Len(x)
      /\ \A i \in 1..Len(x) : SubSeq(x, 1, Len(x))[i] = x[i]
  <2>1. /\ Len(SubSeq(x, 1, Len(x))) = IF 1 <= Len(x) THEN Len(x) - 1 + 1 ELSE 0
        /\ SubSeq(x, 1, Len(x)) \in Seq(Name)
        /\ \A i \in 1..Len(x) - 1 + 1 : SubSeq(x, 1, Len(x))[i] = x[1 + i - 1]
    BY <1>1, <1>2, SubSeqProperties
  <2> QED
    BY <1>1, <2>1
<1>4. ASSUME Len(x) <= Len(y)
      PROVE  /\ SubSeq(y, 1, Len(x)) \in Seq(Name)
             /\ Len(SubSeq(y, 1, Len(x))) = Len(x)
             /\ \A i \in 1..Len(x) : SubSeq(y, 1, Len(x))[i] = y[i]
  <2>1. \A i \in 1..Len(x) : y[i] \in Name
    BY <1>1, <1>4, ElementOfSeq
  <2>2. /\ Len(SubSeq(y, 1, Len(x))) = IF 1 <= Len(x) THEN Len(x) - 1 + 1 ELSE 0
        /\ SubSeq(y, 1, Len(x)) \in Seq(Name)
        /\ \A i \in 1..Len(x) - 1 + 1 : SubSeq(y, 1, Len(x))[i] = y[1 + i - 1]
    BY <1>1, <2>1, SubSeqProperties
  <2> QED
    BY <1>1, <2>2
<1>5. ASSUME Len(x) <= Len(y), \A i \in 1..Len(x) : x[i] = y[i]
      PROVE  SubSeq(x, 1, Len(x)) = SubSeq(y, 1, Len(x))
  <2> DEFINE a == SubSeq(x, 1, Len(x))
             b == SubSeq(y, 1, Len(x))
  <2>1. /\ a \in Seq(Name) /\ b \in Seq(Name) /\ Len(a) = Len(b)
        /\ \A i \in 1..Len(a) : a[i] = b[i]
    BY <1>3, <1>4, <1>5
  <2> HIDE DEF a, b
  <2>2. a = b
    BY <2>1, SeqEqual
  <2> QED
    BY <2>2 DEF a, b
<1> QED
  BY <1>3, <1>4, <1>5 DEF IsPrefix

(* Being a prefix is a partial order, and the prefixes of a path form a chain. *)
LEMMA PrefixOrder ==
  ASSUME NEW x \in Seq(Name), NEW y \in Seq(Name), NEW z \in Seq(Name)
  PROVE  /\ IsPrefix(x, x) /\ IsPrefix(<<>>, x)
         /\ IsPrefix(x, y) /\ IsPrefix(y, z) => IsPrefix(x, z)
         /\ IsPrefix(x, y) /\ IsPrefix(y, x) => x = y
         /\ IsPrefix(x, z) /\ IsPrefix(y, z) => IsPrefix(x, y) \/ IsPrefix(y, x)
         /\ IsPrefix(x, z) /\ IsPrefix(y, z) /\ Len(x) <= Len(y) => IsPrefix(x, y)
         /\ IsPrefix(x, y) => Len(x) <= Len(y)
<1>1. Len(x) \in Nat /\ Len(y) \in Nat /\ Len(z) \in Nat /\ <<>> \in Seq(Name) /\ Len(<<>>) = 0
  BY LenProperties, EmptySeq
<1>2. IsPrefix(x, x) /\ IsPrefix(<<>>, x)
  <2> DEFINE e == <<>>
  <2>1. e \in Seq(Name) /\ Len(e) = 0
    BY <1>1
  <2> HIDE DEF e
  <2>2. IsPrefix(e, x)
    <3>1. Len(e) <= Len(x) /\ 1..Len(e) = {}
      BY <1>1, <2>1
    <3> QED
      BY <2>1, <3>1, PrefixNames
  <2>3. IsPrefix(x, x)
    BY <1>1, PrefixNames
  <2> QED
    BY <2>2, <2>3 DEF e
<1>3. ASSUME IsPrefix(x, y), IsPrefix(y, z)
      PROVE  IsPrefix(x, z)
  BY <1>1, <1>3, PrefixNames
<1>4. ASSUME IsPrefix(x, y), IsPrefix(y, x)
      PROVE  x = y
  <2>1. Len(x) = Len(y) /\ \A i \in 1..Len(x) : x[i] = y[i]
    BY <1>1, <1>4, PrefixNames
  <2> QED
    BY <2>1, SeqEqual
<1>5. ASSUME IsPrefix(x, z), IsPrefix(y, z), Len(x) <= Len(y)
      PROVE  IsPrefix(x, y)
  BY <1>1, <1>5, PrefixNames
<1>6. ASSUME IsPrefix(x, z), IsPrefix(y, z), Len(y) <= Len(x)
      PROVE  IsPrefix(y, x)
  BY <1>1, <1>6, PrefixNames
<1>7. IsPrefix(x, y) => Len(x) <= Len(y)
  BY PrefixNames
<1> QED
  BY <1>1, <1>2, <1>3, <1>4, <1>5, <1>6, <1>7

(* What Append does to a sequence.                                           *)
LEMMA AppendElement ==
  ASSUME NEW S, NEW q \in Seq(S), NEW e \in S
  PROVE  /\ Append(q, e) \in Seq(S) /\ Len(q) \in Nat
         /\ Len(Append(q, e)) = Len(q) + 1
         /\ \A i \in 1..Len(q) : Append(q, e)[i] = q[i]
         /\ Append(q, e)[Len(q) + 1] = e
         /\ Append(q, e) # <<>>
OBVIOUS

(* Join, name by name.                                                       *)
LEMMA JoinNames ==
  ASSUME NEW d \in Seq(Name), NEW n \in Name
  PROVE  /\ Join(d, n) \in Seq(Name) /\ Join(d, n) # <<>> /\ Len(d) \in Nat
         /\ Len(Join(d, n)) = Len(d) + 1
         /\ \A i \in 1..Len(d) : Join(d, n)[i] = d[i]
         /\ Join(d, n)[Len(d) + 1] = n
BY AppendElement DEF Join

(* Joining a name, and taking it away again.                               *)
LEMMA JoinFacts ==
  ASSUME NEW d \in Seq(Name), NEW n \in Name
  PROVE  /\ Join(d, n) \in Seq(Name) /\ Join(d, n) # <<>>
         /\ Len(Join(d, n)) = Len(d) + 1
         /\ Front(Join(d, n)) = d /\ Last(Join(d, n)) = n
         /\ IsPrefix(d, Join(d, n)) /\ ~IsPrefix(Join(d, n), d)
         /\ d # Join(d, n)
<1> DEFINE a == Join(d, n)
<1>1. /\ a \in Seq(Name) /\ a # <<>> /\ Len(a) = Len(d) + 1 /\ Len(d) \in Nat
      /\ \A i \in 1..Len(d) : a[i] = d[i]
      /\ a[Len(d) + 1] = n
  BY JoinNames
<1> HIDE DEF a
<1>2. IsPrefix(d, a) /\ ~IsPrefix(a, d) /\ d # a
  BY <1>1, PrefixNames
<1>3. Front(a) = d
  <2>1. \A i \in 1..Len(d) : a[i] \in Name
    BY <1>1, ElementOfSeq
  <2> DEFINE s == SubSeq(a, 1, Len(d))
  <2>2. /\ s \in Seq(Name) /\ Len(s) = IF 1 <= Len(d) THEN Len(d) - 1 + 1 ELSE 0
        /\ \A i \in 1..Len(d) - 1 + 1 : s[i] = a[1 + i - 1]
    BY <1>1, <2>1, SubSeqProperties
  <2>3. Front(a) = s
    BY <1>1 DEF Front
  <2> HIDE DEF s
  <2>4. Len(s) = Len(d) /\ \A i \in 1..Len(s) : s[i] = d[i]
    BY <1>1, <2>2
  <2> QED
    BY <2>2, <2>3, <2>4, SeqEqual
<1>4. Last(a) = n
  BY <1>1 DEF Last
<1> QED
  BY <1>1, <1>2, <1>3, <1>4 DEF a

(* A path that is not empty is its front and its last name.                  *)
LEMMA FrontLast ==
  ASSUME NEW x \in Seq(Name), x # <<>>
  PROVE  /\ Front(x) \in Seq(Name) /\ Last(x) \in Name
         /\ x = Join(Front(x), Last(x))
         /\ IsPrefix(Front(x), x) /\ ~IsPrefix(x, Front(x)) /\ Front(x) # x
         /\ Len(x) = Len(Front(x)) + 1
<1>1. PICK d \in Seq(Name), n \in Name : x = Join(d, n)
  BY SequenceEmptyOrAppend DEF Join
<1>2. Len(d) \in Nat /\ Len(x) = Len(d) + 1
  BY <1>1, JoinNames
<1>3. Front(x) = d /\ Last(x) = n
  BY <1>1, JoinFacts
<1>4. IsPrefix(d, x) /\ ~IsPrefix(x, d) /\ d # x
  BY <1>1, JoinFacts
<1> QED
  BY <1>1, <1>2, <1>3, <1>4

(* The prefixes of a path with one more name.                                *)
LEMMA PrefixOfJoin ==
  ASSUME NEW x \in Seq(Name), NEW d \in Seq(Name), NEW n \in Name
  PROVE  IsPrefix(x, Join(d, n)) <=> x = Join(d, n) \/ IsPrefix(x, d)
<1> DEFINE a == Join(d, n)
<1>1. /\ a \in Seq(Name) /\ Len(a) = Len(d) + 1 /\ IsPrefix(d, a)
      /\ Len(x) \in Nat /\ Len(d) \in Nat
  BY JoinFacts, LenProperties
<1> HIDE DEF a
<1>2. ASSUME IsPrefix(x, a), x # a
      PROVE  IsPrefix(x, d)
  <2>1. Len(x) <= Len(a) /\ \A i \in 1..Len(x) : x[i] = a[i]
    BY <1>1, <1>2, PrefixNames
  <2>2. Len(x) # Len(a)
    BY <1>1, <1>2, <2>1, SeqEqual
  <2> QED
    BY <1>1, <1>2, <2>1, <2>2, PrefixOrder
<1>3. IsPrefix(a, a)
  BY <1>1, PrefixOrder
<1>4. IsPrefix(x, d) => IsPrefix(x, a)
  BY <1>1, PrefixOrder
<1> QED
  BY <1>2, <1>3, <1>4 DEF a

(* Below a path, the front is not above it.                                  *)
LEMMA PrefixOfFront ==
  ASSUME NEW q \in Seq(Name), NEW x \in Seq(Name), IsPrefix(q, x), q # x
  PROVE  x # <<>> /\ IsPrefix(q, Front(x)) /\ Front(x) \in Seq(Name)
<1>1. <<>> \in Seq(Name) /\ IsPrefix(<<>>, q)
  BY EmptySeq, PrefixOrder
<1>2. x # <<>>
  BY <1>1, PrefixOrder
<1> QED
  <2>1. Front(x) \in Seq(Name) /\ Last(x) \in Name /\ x = Join(Front(x), Last(x))
    BY <1>2, FrontLast
  <2>2. IsPrefix(q, Join(Front(x), Last(x))) <=> q = Join(Front(x), Last(x)) \/ IsPrefix(q, Front(x))
    BY <2>1, PrefixOfJoin
  <2> QED
    BY <1>2, <2>1, <2>2

(* A path below old, with new in the place of old.                           *)
LEMMA RebaseNames ==
  ASSUME NEW x \in Seq(Name), NEW old \in Seq(Name), NEW new \in Seq(Name), IsPrefix(old, x)
  PROVE  /\ Rebase(x, old, new) \in Seq(Name)
         /\ Len(Rebase(x, old, new)) = Len(new) + (Len(x) - Len(old))
         /\ \A i \in 1..Len(new) : Rebase(x, old, new)[i] = new[i]
         /\ \A i \in 1..Len(x) - Len(old) : Rebase(x, old, new)[Len(new) + i] = x[Len(old) + i]
<1> DEFINE s == SubSeq(x, Len(old) + 1, Len(x))
<1>1. Len(x) \in Nat /\ Len(old) \in Nat /\ Len(new) \in Nat /\ Len(old) <= Len(x)
  BY LenProperties, PrefixNames
<1>2. \A i \in Len(old) + 1..Len(x) : x[i] \in Name
  BY <1>1, ElementOfSeq
<1>3. /\ s \in Seq(Name)
      /\ Len(s) = IF Len(old) + 1 <= Len(x) THEN Len(x) - (Len(old) + 1) + 1 ELSE 0
      /\ \A i \in 1..Len(x) - (Len(old) + 1) + 1 : s[i] = x[Len(old) + 1 + i - 1]
  BY <1>1, <1>2, SubSeqProperties
<1>4. Rebase(x, old, new) = new \o s
  BY DEF Rebase
<1> HIDE DEF s
<1>5. Len(s) = Len(x) - Len(old) /\ \A i \in 1..Len(s) : s[i] = x[Len(old) + i]
  BY <1>1, <1>3
<1>6. /\ new \o s \in Seq(Name) /\ Len(new \o s) = Len(new) + Len(s)
      /\ \A i \in 1..Len(new) + Len(s) : (new \o s)[i] = IF i <= Len(new) THEN new[i] ELSE s[i - Len(new)]
  BY <1>3, ConcatProperties
<1> QED
  BY <1>1, <1>4, <1>5, <1>6

(* What rebasing does to prefixes, and that it can be undone.                *)
LEMMA RebaseFacts ==
  ASSUME NEW x \in Seq(Name), NEW old \in Seq(Name), NEW new \in Seq(Name), IsPrefix(old, x)
  PROVE  /\ Rebase(x, old, new) \in Seq(Name)
         /\ IsPrefix(new, Rebase(x, old, new))
         /\ Rebase(Rebase(x, old, new), new, old) = x
         /\ Rebase(old, old, new) = new
<1> DEFINE r == Rebase(x, old, new)
           b == Rebase(r, new, old)
<1>1. Len(x) \in Nat /\ Len(old) \in Nat /\ Len(new) \in Nat /\ Len(old) <= Len(x)
  BY LenProperties, PrefixNames
<1>2. /\ r \in Seq(Name) /\ Len(r) = Len(new) + (Len(x) - Len(old))
      /\ \A i \in 1..Len(new) : r[i] = new[i]
      /\ \A i \in 1..Len(x) - Len(old) : r[Len(new) + i] = x[Len(old) + i]
  BY RebaseNames
<1> HIDE DEF r
<1>3. IsPrefix(new, r)
  BY <1>1, <1>2, PrefixNames
<1>4. /\ b \in Seq(Name) /\ Len(b) = Len(old) + (Len(r) - Len(new))
      /\ \A i \in 1..Len(old) : b[i] = old[i]
      /\ \A i \in 1..Len(r) - Len(new) : b[Len(old) + i] = r[Len(new) + i]
  BY <1>2, <1>3, RebaseNames
<1> HIDE DEF b
<1>5. Len(b) = Len(x) /\ Len(r) - Len(new) = Len(x) - Len(old)
  BY <1>1, <1>2, <1>4
<1>6. ASSUME NEW i \in 1..Len(b)
      PROVE  b[i] = x[i]
  <2>1. CASE i <= Len(old)
    <3>1. i \in 1..Len(old) /\ \A j \in 1..Len(old) : old[j] = x[j]
      BY <1>1, <1>5, <2>1, PrefixNames
    <3> QED
      BY <1>4, <3>1
  <2>2. CASE ~(i <= Len(old))
    <3>1. i - Len(old) \in 1..Len(x) - Len(old) /\ Len(old) + (i - Len(old)) = i
      BY <1>1, <1>5, <2>2
    <3>2. b[Len(old) + (i - Len(old))] = r[Len(new) + (i - Len(old))]
      BY <1>4, <1>5, <3>1
    <3>3. r[Len(new) + (i - Len(old))] = x[Len(old) + (i - Len(old))]
      BY <1>2, <3>1
    <3> QED
      BY <3>1, <3>2, <3>3
  <2> QED
    BY <2>1, <2>2
<1>7. b = x
  BY <1>4, <1>5, <1>6, SeqEqual
<1>8. Rebase(old, old, new) = new
  <2> DEFINE o == Rebase(old, old, new)
  <2>1. IsPrefix(old, old)
    BY PrefixOrder
  <2>2. /\ o \in Seq(Name) /\ Len(o) = Len(new) + (Len(old) - Len(old))
        /\ \A i \in 1..Len(new) : o[i] = new[i]
    BY <2>1, RebaseNames
  <2> HIDE DEF o
  <2>3. o = new
    BY <1>1, <2>2, SeqEqual
  <2> QED
    BY <2>3 DEF o
<1> QED
  BY <1>2, <1>3, <1>7, <1>8 DEF r, b

(* Rebasing commutes with joining a name.                                  *)
LEMMA RebaseJoin ==
  ASSUME NEW x \in Seq(Name), NEW old \in Seq(Name), NEW new \in Seq(Name), IsPrefix(old, x),
         NEW n \in Name
  PROVE  Rebase(Join(x, n), old, new) = Join(Rebase(x, old, new), n)
<1> DEFINE a == Join(x, n)
           r == Rebase(x, old, new)
           ra == Rebase(a, old, new)
           ar == Join(r, n)
<1>1. Len(x) \in Nat /\ Len(old) \in Nat /\ Len(new) \in Nat /\ Len(old) <= Len(x)
  BY LenProperties, PrefixNames
<1>2. /\ a \in Seq(Name) /\ Len(a) = Len(x) + 1 /\ IsPrefix(old, a)
      /\ \A i \in 1..Len(x) : a[i] = x[i]
      /\ a[Len(x) + 1] = n
  BY JoinNames, PrefixOfJoin
<1>3. /\ r \in Seq(Name) /\ Len(r) = Len(new) + (Len(x) - Len(old))
      /\ \A i \in 1..Len(new) : r[i] = new[i]
      /\ \A i \in 1..Len(x) - Len(old) : r[Len(new) + i] = x[Len(old) + i]
  BY RebaseNames
<1> HIDE DEF a, r
<1>4. /\ ra \in Seq(Name) /\ Len(ra) = Len(new) + (Len(a) - Len(old))
      /\ \A i \in 1..Len(new) : ra[i] = new[i]
      /\ \A i \in 1..Len(a) - Len(old) : ra[Len(new) + i] = a[Len(old) + i]
  BY <1>2, RebaseNames
<1>5. /\ ar \in Seq(Name) /\ Len(ar) = Len(r) + 1
      /\ \A i \in 1..Len(r) : ar[i] = r[i]
      /\ ar[Len(r) + 1] = n
  BY <1>3, JoinNames
<1> HIDE DEF ra, ar
<1>6. Len(ra) = Len(ar)
  BY <1>1, <1>2, <1>3, <1>4, <1>5
<1>7. ASSUME NEW i \in 1..Len(ra)
      PROVE  ra[i] = ar[i]
  <2>1. CASE i <= Len(new)
    BY <1>1, <1>3, <1>4, <1>5, <2>1
  <2>2. CASE ~(i <= Len(new)) /\ i <= Len(r)
    <3> DEFINE j == i - Len(new)
    <3>1. j \in 1..Len(x) - Len(old) /\ Len(new) + j = i /\ j \in 1..Len(a) - Len(old)
          /\ Len(old) + j \in 1..Len(x)
      BY <1>1, <1>2, <1>3, <2>2
    <3> HIDE DEF j
    <3>2. ra[Len(new) + j] = a[Len(old) + j] /\ r[Len(new) + j] = x[Len(old) + j]
      BY <1>3, <1>4, <3>1
    <3>3. i \in 1..Len(r)
      BY <1>1, <1>3, <2>2
    <3> QED
      BY <1>2, <1>5, <3>1, <3>2, <3>3
  <2>3. CASE i = Len(r) + 1
    <3> DEFINE j == i - Len(new)
    <3>1. j \in 1..Len(a) - Len(old) /\ Len(new) + j = i /\ Len(old) + j = Len(x) + 1
      BY <1>1, <1>2, <1>3, <2>3
    <3> HIDE DEF j
    <3>2. ra[Len(new) + j] = a[Len(old) + j]
      BY <1>4, <3>1
    <3> QED
      BY <1>2, <1>5, <2>3, <3>1, <3>2
  <2> QED
    BY <1>1, <1>3, <1>5, <1>6, <2>1, <2>2, <2>3
<1>8. ra = ar
  BY <1>4, <1>5, <1>6, <1>7, SeqEqual
<1> QED
  BY <1>8 DEF a, r, ra, ar

-----------------------------------------------------------------------------
(* Mounts.  A path is firm when it cannot change under a directory in memory.*)

\* p is at or above a mount.
Pinned(p) == \E m \in Mounts : IsPrefix(p, m)

\* A path whose node the guest keeps in its place: one of a host directory, or one at or above a
\* mount.
Firm(p) == p \in Paths /\ (~InMemory(p) \/ Pinned(p))

(* The paths of an instance.                                                 *)
LEMMA PathFacts ==
  ASSUME NEW p \in Paths
  PROVE  /\ p \in Seq(Name) /\ (p # <<>> => Front(p) \in Paths)
         /\ p # <<>> => /\ Front(p) \in Seq(Name) /\ Last(p) \in Name /\ p = Join(Front(p), Last(p))
                       /\ IsPrefix(Front(p), p) /\ ~IsPrefix(p, Front(p)) /\ Front(p) # p
                       /\ Len(p) = Len(Front(p)) + 1
BY VFSProvidersAssumption, FrontLast

(* Mounts are paths.                                                         *)
LEMMA MountFacts ==
  /\ Mounts \subseteq Paths /\ <<>> \in Mounts /\ ReadOnly \subseteq Mounts /\ Memory \subseteq Mounts
  /\ \A m \in Mounts : m \in Seq(Name)
BY VFSProvidersAssumption

(* resolve finds the longest mount at or above a path.                       *)
LEMMA ResolveFacts ==
  ASSUME NEW p \in Paths
  PROVE  /\ resolve(p) \in Mounts /\ IsPrefix(resolve(p), p)
         /\ \A n \in Mounts : IsPrefix(n, p) => IsPrefix(n, resolve(p))
<1> DEFINE A == {m \in Mounts : IsPrefix(m, p)}
           S == {Len(p) - Len(m) : m \in A}
<1>1. p \in Seq(Name) /\ \A m \in Mounts : m \in Seq(Name)
  BY PathFacts, MountFacts
<1>2. Len(p) \in Nat /\ \A m \in A : Len(m) \in Nat /\ Len(m) <= Len(p)
  BY <1>1, PrefixOrder, LenProperties
<1>3. <<>> \in A
  BY <1>1, MountFacts, PrefixOrder
<1>4. S \in SUBSET Nat /\ S # {}
  BY <1>2, <1>3
<1>5. PICK s \in S : \A r \in S : s <= r
  BY <1>4, LeastNumber
<1>6. PICK m \in A : s = Len(p) - Len(m)
  BY <1>5
<1>7. \A n \in Mounts : IsPrefix(n, p) => Len(n) <= Len(m)
  <2> SUFFICES ASSUME NEW n \in Mounts, IsPrefix(n, p)
               PROVE  Len(n) <= Len(m)
    OBVIOUS
  <2>1. n \in A /\ Len(p) - Len(n) \in S
    OBVIOUS
  <2>2. s <= Len(p) - Len(n)
    BY <1>5, <2>1
  <2> QED
    BY <1>2, <1>6, <2>1, <2>2
<1>8. resolve(p) = CHOOSE k \in Mounts : /\ IsPrefix(k, p)
                                        /\ \A n \in Mounts : IsPrefix(n, p) => Len(n) <= Len(k)
  BY DEF resolve, MountOf
<1>9. /\ resolve(p) \in Mounts /\ IsPrefix(resolve(p), p)
      /\ \A n \in Mounts : IsPrefix(n, p) => Len(n) <= Len(resolve(p))
  BY <1>6, <1>7, <1>8
<1> QED
  BY <1>1, <1>9, PrefixOrder

(* There is only one longest mount.                                          *)
LEMMA ResolveIs ==
  ASSUME NEW p \in Paths, NEW m \in Mounts, IsPrefix(m, p),
         \A n \in Mounts : IsPrefix(n, p) => IsPrefix(n, m)
  PROVE  resolve(p) = m
<1>1. /\ resolve(p) \in Mounts /\ IsPrefix(resolve(p), p)
      /\ \A n \in Mounts : IsPrefix(n, p) => IsPrefix(n, resolve(p))
  BY ResolveFacts
<1>2. resolve(p) \in Seq(Name) /\ m \in Seq(Name)
  BY <1>1, MountFacts
<1> QED
  BY <1>1, <1>2, PrefixOrder

(* A mount is its own; any other path has its parent's mount.                *)
LEMMA ResolveFront ==
  ASSUME NEW p \in Paths
  PROVE  /\ p \in Mounts => resolve(p) = p
         /\ p \notin Mounts => p # <<>> /\ resolve(p) = resolve(Front(p))
         /\ p = resolve(p) <=> p \in Mounts
<1>1. p \in Seq(Name) /\ \A m \in Mounts : m \in Seq(Name)
  BY PathFacts, MountFacts
<1>2. ASSUME p \in Mounts
      PROVE  resolve(p) = p
  BY <1>1, <1>2, PrefixOrder, ResolveIs
<1>3. ASSUME p \notin Mounts
      PROVE  p # <<>> /\ resolve(p) = resolve(Front(p))
  <2>1. p # <<>> /\ Front(p) \in Paths /\ Front(p) \in Seq(Name) /\ Last(p) \in Name
        /\ p = Join(Front(p), Last(p))
    BY <1>3, MountFacts, PathFacts
  <2>2. \A n \in Mounts : IsPrefix(n, p) => IsPrefix(n, Front(p))
    <3> SUFFICES ASSUME NEW n \in Mounts, IsPrefix(n, p)
                 PROVE  IsPrefix(n, Front(p))
      OBVIOUS
    <3>1. n # p /\ n \in Seq(Name)
      BY <1>1, <1>3
    <3> QED
      BY <1>1, <3>1, PrefixOfFront
  <2>3. IsPrefix(Front(p), p)
    BY <2>1, PathFacts
  <2>4. \A n \in Mounts : IsPrefix(n, Front(p)) => IsPrefix(n, p)
    BY <1>1, <2>1, <2>3, PrefixOrder
  <2>5. /\ resolve(Front(p)) \in Mounts /\ IsPrefix(resolve(Front(p)), Front(p))
        /\ \A n \in Mounts : IsPrefix(n, Front(p)) => IsPrefix(n, resolve(Front(p)))
    BY <2>1, ResolveFacts
  <2>6. resolve(p) = resolve(Front(p))
    BY <2>2, <2>4, <2>5, ResolveIs
  <2> QED
    BY <2>1, <2>6
<1>4. resolve(p) \in Mounts
  BY ResolveFacts
<1> QED
  BY <1>2, <1>3, <1>4

(* Below a path with no mount at or below it, all is in one mount.           *)
LEMMA ResolveBelow ==
  ASSUME NEW p \in Paths, NEW x \in Paths, IsPrefix(p, x), ~Pinned(p)
  PROVE  resolve(x) = resolve(p) /\ ~Pinned(x)
<1>1. p \in Seq(Name) /\ x \in Seq(Name) /\ \A m \in Mounts : m \in Seq(Name)
  BY PathFacts, MountFacts
<1>2. ~Pinned(x)
  <2> SUFFICES ASSUME NEW m \in Mounts, IsPrefix(x, m)
               PROVE  FALSE
    BY DEF Pinned
  <2> QED
    BY <1>1, PrefixOrder DEF Pinned
<1>3. \A n \in Mounts : IsPrefix(n, x) => IsPrefix(n, p)
  <2> SUFFICES ASSUME NEW n \in Mounts, IsPrefix(n, x)
               PROVE  IsPrefix(n, p)
    OBVIOUS
  <2>1. ~IsPrefix(p, n)
    BY DEF Pinned
  <2> QED
    BY <1>1, <2>1, PrefixOrder
<1>4. \A n \in Mounts : IsPrefix(n, p) => IsPrefix(n, x)
  BY <1>1, PrefixOrder
<1>5. /\ resolve(p) \in Mounts /\ IsPrefix(resolve(p), p)
      /\ \A n \in Mounts : IsPrefix(n, p) => IsPrefix(n, resolve(p))
  BY ResolveFacts
<1> QED
  BY <1>2, <1>3, <1>4, <1>5, ResolveIs

(* What is above a firm path is firm.                                        *)
LEMMA FirmFront ==
  ASSUME NEW p, Firm(p), p # <<>>
  PROVE  Firm(Front(p))
<1>1. p \in Paths /\ p \in Seq(Name) /\ Front(p) \in Paths /\ Front(p) \in Seq(Name) /\ Last(p) \in Name
      /\ p = Join(Front(p), Last(p))
  BY PathFacts DEF Firm
<1>2. IsPrefix(Front(p), p) /\ IsPrefix(p, p)
  BY <1>1, PathFacts, PrefixOrder
<1>3. CASE Pinned(p)
  <2>1. PICK m \in Mounts : IsPrefix(p, m)
    BY <1>3 DEF Pinned
  <2>2. IsPrefix(Front(p), m)
    BY <1>1, <1>2, <2>1, MountFacts, PrefixOrder
  <2> QED
    BY <1>1, <2>2 DEF Firm, Pinned
<1>4. CASE ~Pinned(p)
  <2>1. ~InMemory(p) /\ p \notin Mounts
    BY <1>2, <1>4 DEF Firm, Pinned
  <2>2. resolve(p) = resolve(Front(p))
    BY <1>1, <2>1, ResolveFront
  <2> QED
    BY <1>1, <2>1, <2>2 DEF Firm, InMemory
<1> QED
  BY <1>3, <1>4

(* An entry of a host directory is firm.                                     *)
LEMMA FirmChild ==
  ASSUME NEW d \in Paths, NEW n \in Name, Join(d, n) \in Paths, ~InMemory(d)
  PROVE  Firm(Join(d, n))
<1> DEFINE x == Join(d, n)
<1>1. d \in Seq(Name) /\ Front(x) = d /\ x \in Seq(Name)
  BY PathFacts, JoinFacts
<1> HIDE DEF x
<1>2. x \in Paths
  BY DEF x
<1>3. ASSUME x \in Mounts PROVE Firm(x)
  <2>1. IsPrefix(x, x)
    BY <1>1, PrefixOrder
  <2> QED
    BY <1>2, <1>3, <2>1 DEF Firm, Pinned
<1>4. ASSUME x \notin Mounts PROVE Firm(x)
  <2>1. resolve(x) = resolve(d)
    BY <1>1, <1>2, <1>4, ResolveFront
  <2> QED
    BY <1>2, <2>1 DEF Firm, InMemory
<1> QED
  BY <1>3, <1>4 DEF x

(* A path at or below one that is not firm is not firm.                      *)
LEMMA FirmAbove ==
  ASSUME NEW p \in Paths, NEW x, x \in Seq(Name), IsPrefix(p, x), ~Firm(p)
  PROVE  ~Firm(x)
<1>1. InMemory(p) /\ ~Pinned(p)
  BY DEF Firm
<1>2. CASE x \in Paths
  <2>1. resolve(x) = resolve(p) /\ ~Pinned(x)
    BY <1>1, <1>2, ResolveBelow
  <2> QED
    BY <1>1, <2>1 DEF Firm, InMemory
<1>3. CASE x \notin Paths
  BY <1>3 DEF Firm
<1> QED
  BY <1>2, <1>3

-----------------------------------------------------------------------------
(* What the providers keep of their tree.                                    *)

\* The number a path leads to, None when nothing is stored there or only a link that
\* leads nowhere.
Id(t, p) == ProviderStat(t, p).id

\* The tree of a host's file system with the ids below n: every entry of a host directory lies in a
\* directory, is not both a file and a directory, and has its number alone.
TreeOK(t, n) ==
  /\ n \in Nat \ {0} /\ t \in Tree(1..n - 1) /\ Dangling \subseteq 1..n - 1
  /\ \A p \in Paths : ~InMemory(p) /\ p # resolve(p) /\ Has(t, p) => HasDir(t, Front(p))
  /\ \A p \in Paths : ~InMemory(p) => ~(HasFile(t, p) /\ HasDir(t, p))
  /\ \A p, q \in Paths : ~InMemory(p) /\ ~InMemory(q) /\ Id(t, p) # None /\ Id(t, p) = Id(t, q) => p = q

(* What the entries of a tree are.                                           *)
LEMMA TreeTyped ==
  ASSUME NEW t, NEW n \in Nat \ {0}
  PROVE  t \in Tree(1..n - 1) <=>
           /\ t = [files |-> t.files, dirs |-> t.dirs]
           /\ t.files \in [Paths -> 0..n - 1] /\ t.dirs \in [Paths -> 0..n - 1]
<1>1. (1..n - 1) \cup {None} = 0..n - 1
  BY DEF None
<1> QED
  BY <1>1 DEF Tree

(* The number of a path, by what is stored there.                            *)
LEMMA IdFacts ==
  ASSUME NEW t, NEW p
  PROVE  /\ HasDir(t, p) => Id(t, p) = t.dirs[p]
         /\ ~HasDir(t, p) => Id(t, p) = IF LeadsNowhere(t, p) THEN None ELSE t.files[p]
         /\ Id(t, p) # None <=> HasDir(t, p) \/ (HasFile(t, p) /\ ~LeadsNowhere(t, p))
         /\ Id(t, p) # None => Has(t, p)
         /\ Id(t, p) \in {t.files[p], t.dirs[p], None}
BY DEF Id, ProviderStat, HasDir, HasFile, Has, Absent, None

(* A stat's number is the provider's.                                        *)
LEMMA StatFacts ==
  ASSUME NEW t, NEW p
  PROVE  /\ Stat(t, p).id = Id(t, p)
         /\ Stat(t, p) = Absent <=> Id(t, p) = None /\ ~hasDescendantMount(p)
         /\ Stat(t, p) # Absent => Stat(t, p).kind \in {"file", "dir"}
         /\ Stat(t, p) = [kind |-> Stat(t, p).kind, id |-> Stat(t, p).id]
         /\ Stat(t, p) # Absent /\ Id(t, p) = None => hasDescendantMount(p) /\ Stat(t, p).kind = "dir"
         /\ HasDir(t, p) => Stat(t, p).kind = "dir"
BY DEF Stat, Id, ProviderStat, HasDir, HasFile, Has, Absent, None

\* The same entries in both trees at a path.
SameAt(t, u, x) == u.files[x] = t.files[x] /\ u.dirs[x] = t.dirs[x]

(* The same entries are the same to every question.                          *)
LEMMA SameAtFacts ==
  ASSUME NEW t, NEW u, NEW x, SameAt(t, u, x)
  PROVE  /\ HasDir(u, x) <=> HasDir(t, x)
         /\ HasFile(u, x) <=> HasFile(t, x)
         /\ Has(u, x) <=> Has(t, x)
         /\ Id(u, x) = Id(t, x) /\ Stat(u, x) = Stat(t, x)
         /\ ProviderStat(u, x) = ProviderStat(t, x)
BY DEF SameAt, HasDir, HasFile, Has, Id, Stat, ProviderStat, LeadsNowhere

(* A tree with one new entry, in a directory.                                *)
LEMMA TreeGrows ==
  ASSUME NEW t, NEW n, TreeOK(t, n), NEW p \in Paths, NEW u,
         \/ u = [t EXCEPT !.files[p] = n]
         \/ u = [t EXCEPT !.dirs[p] = n],
         ParentIsDir(t, p), ~InMemory(p) => ~Has(t, p)
  PROVE  /\ TreeOK(u, n + 1) /\ Has(u, p)
         /\ \A x \in Paths : x # p => SameAt(t, u, x)
         /\ ~InMemory(p) => Id(u, p) = n
<1>1. /\ n \in Nat \ {0} /\ Dangling \subseteq 1..n - 1 /\ n \notin Dangling /\ t = [files |-> t.files, dirs |-> t.dirs]
      /\ t.files \in [Paths -> 0..n - 1] /\ t.dirs \in [Paths -> 0..n - 1]
  BY TreeTyped DEF TreeOK
<1>2. /\ u = [files |-> u.files, dirs |-> u.dirs]
      /\ u.files \in [Paths -> 0..n] /\ u.dirs \in [Paths -> 0..n]
      /\ \A x \in Paths : x # p => SameAt(t, u, x)
      /\ (u.files[p] = n /\ u.dirs[p] = t.dirs[p]) \/ (u.dirs[p] = n /\ u.files[p] = t.files[p])
  <2>1. CASE u = [t EXCEPT !.files[p] = n]
    <3>1. u = [files |-> [t.files EXCEPT ![p] = n], dirs |-> t.dirs]
      BY <1>1, <2>1
    <3> QED
      BY <1>1, <3>1 DEF SameAt
  <2>2. CASE u = [t EXCEPT !.dirs[p] = n]
    <3>1. u = [files |-> t.files, dirs |-> [t.dirs EXCEPT ![p] = n]]
      BY <1>1, <2>2
    <3> QED
      BY <1>1, <3>1 DEF SameAt
  <2> QED
    BY <2>1, <2>2
<1>3. Has(u, p)
  BY <1>1, <1>2 DEF Has, HasFile, HasDir, None
<1>4. u \in Tree(1..(n + 1) - 1)
  <2>1. (n + 1) - 1 = n /\ n + 1 \in Nat \ {0}
    BY <1>1
  <2> QED
    BY <1>2, <2>1, TreeTyped
<1>5. ASSUME ~InMemory(p)
      PROVE  /\ Id(u, p) = n /\ ~(HasFile(u, p) /\ HasDir(u, p))
             /\ p # resolve(p) => HasDir(t, Front(p))
  <2>1. t.files[p] = None /\ t.dirs[p] = None
    BY <1>5 DEF Has, HasFile, HasDir
  <2>2. Id(u, p) = n /\ ~(HasFile(u, p) /\ HasDir(u, p))
    BY <1>1, <1>2, <2>1 DEF Id, ProviderStat, HasFile, HasDir, None, LeadsNowhere
  <2> QED
    BY <1>5, <2>2 DEF ParentIsDir
<1>6. ASSUME NEW x \in Paths, ~InMemory(x), x # resolve(x), Has(u, x)
      PROVE  HasDir(u, Front(x))
  <2>1. x # <<>> /\ Front(x) \in Paths
    BY <1>6, ResolveFront, PathFacts
  <2>2. HasDir(t, Front(x))
    <3>1. CASE x = p
      BY <1>5, <1>6, <3>1
    <3>2. CASE x # p
      BY <1>2, <1>6, <3>2, SameAtFacts DEF TreeOK
    <3> QED
      BY <3>1, <3>2
  <2>3. CASE Front(x) = p
    <3>1. t.dirs[p] # None
      BY <2>2, <2>3 DEF HasDir
    <3>2. u.dirs[p] # None
      BY <1>1, <1>2, <3>1 DEF None
    <3> QED
      BY <2>3, <3>2 DEF HasDir
  <2>4. CASE Front(x) # p
    BY <1>2, <2>1, <2>2, <2>4, SameAtFacts
  <2> QED
    BY <2>3, <2>4
<1>7. ASSUME NEW x \in Paths, ~InMemory(x)
      PROVE  ~(HasFile(u, x) /\ HasDir(u, x))
  <2>1. CASE x = p
    BY <1>5, <1>7, <2>1
  <2>2. CASE x # p
    BY <1>2, <1>7, <2>2, SameAtFacts DEF TreeOK
  <2> QED
    BY <2>1, <2>2
<1>8. \A x \in Paths : x # p => Id(u, x) = Id(t, x) /\ Id(t, x) # n
  BY <1>1, <1>2, SameAtFacts, IdFacts DEF None
<1>9. ASSUME NEW x \in Paths, NEW y \in Paths, ~InMemory(x), ~InMemory(y), Id(u, x) # None, Id(u, x) = Id(u, y)
      PROVE  x = y
  <2>1. CASE x # p /\ y # p
    BY <1>2, <1>8, <1>9, <2>1, SameAtFacts DEF TreeOK
  <2>2. CASE x = p \/ y = p
    BY <1>5, <1>8, <1>9, <2>2
  <2> QED
    BY <2>1, <2>2
<1>10. n + 1 \in Nat \ {0} /\ Dangling \subseteq 1..(n + 1) - 1
  BY <1>1
<1> QED
  BY <1>2, <1>3, <1>4, <1>5, <1>6, <1>7, <1>9, <1>10 DEF TreeOK

(* Open finds a file or makes one.                                           *)
LEMMA OpenFacts ==
  ASSUME NEW t, NEW n, TreeOK(t, n), NEW p \in Paths, NEW w, NEW create, NEW excl, NEW x,
         x = RouterOpen(t, p, w, create, excl, n)
  PROVE  /\ x.err # "ok" => x.tree = t /\ x.id = None
         /\ x.err = "ok" =>
              \/ /\ x.tree = t /\ x.id \in {t.files[p], t.dirs[p]}
                 /\ ~InMemory(p) => x.id = Id(t, p) /\ Id(t, p) # None
                 /\ create => HasFile(t, p) /\ x.id = t.files[p]
              \/ /\ x.tree = [t EXCEPT !.files[p] = n] /\ x.id = n /\ create
                 /\ ParentIsDir(t, p) /\ (~InMemory(p) => ~Has(t, p))
BY DEF RouterOpen, MemoryOpen, HostOpen, Ok, Fail, Has, HasFile, HasDir, Id, ProviderStat

(* Mkdir makes a directory.                                                  *)
LEMMA MkdirFacts ==
  ASSUME NEW t, NEW n, TreeOK(t, n), NEW p \in Paths, NEW x, x = RouterMkdir(t, p, n)
  PROVE  /\ x.err # "ok" => x.tree = t /\ x.id = None
         /\ x.err = "ok" =>
              /\ x.tree = [t EXCEPT !.dirs[p] = n] /\ x.id = n
              /\ ParentIsDir(t, p) /\ (~InMemory(p) => ~Has(t, p))
BY DEF RouterMkdir, MemoryMkdir, HostMkdir, Ok, Fail

(* Changes of the provider in memory leave the host's part in order.         *)
LEMMA TreeOfHost ==
  ASSUME NEW t, NEW n, TreeOK(t, n), NEW u, u \in Tree(1..n - 1),
         \A x \in Paths : ~InMemory(x) => SameAt(t, u, x)
  PROVE  TreeOK(u, n)
<1>1. \A x \in Paths : ~InMemory(x) =>
        /\ HasDir(u, x) <=> HasDir(t, x)
        /\ HasFile(u, x) <=> HasFile(t, x)
        /\ Has(u, x) <=> Has(t, x)
        /\ Id(u, x) = Id(t, x)
  BY SameAtFacts
<1>2. ASSUME NEW x \in Paths, ~InMemory(x), x # resolve(x), Has(u, x)
      PROVE  HasDir(u, Front(x))
  <2>1. x # <<>> /\ Front(x) \in Paths /\ resolve(x) = resolve(Front(x))
    BY <1>2, ResolveFront, PathFacts
  <2>2. ~InMemory(Front(x))
    BY <1>2, <2>1 DEF InMemory
  <2> QED
    BY <1>1, <1>2, <2>1, <2>2 DEF TreeOK
<1> QED
  BY <1>1, <1>2 DEF TreeOK

(* Remove takes one entry away.                                              *)
LEMMA RemoveFacts ==
  ASSUME NEW t, NEW n, TreeOK(t, n), NEW p \in Paths, NEW x, x = RouterRemove(t, p)
  PROVE  /\ x.id = None /\ (x.err # "ok" => x.tree = t)
         /\ TreeOK(x.tree, n)
         /\ \A y \in Paths : y # p => SameAt(t, x.tree, y)
         /\ x.err = "ok" /\ ~InMemory(p) => ~Has(x.tree, p)
<1>1. /\ n \in Nat \ {0} /\ t = [files |-> t.files, dirs |-> t.dirs]
      /\ t.files \in [Paths -> 0..n - 1] /\ t.dirs \in [Paths -> 0..n - 1]
  BY TreeTyped DEF TreeOK
<1>2. x.id = None /\ (x.err # "ok" => x.tree = t)
  BY DEF RouterRemove, MemoryRemove, HostRemove, Ok, Fail
<1>3. CASE x.err # "ok"
  BY <1>2, <1>3 DEF SameAt
<1>4. CASE x.err = "ok" /\ InMemory(p)
  <2>1. x.tree = [t EXCEPT !.dirs[p] = None] \/ x.tree = [t EXCEPT !.files[p] = None]
    BY <1>4 DEF RouterRemove, MemoryRemove, Ok, Fail
  <2>2. \/ x.tree = [files |-> t.files, dirs |-> [t.dirs EXCEPT ![p] = None]]
        \/ x.tree = [files |-> [t.files EXCEPT ![p] = None], dirs |-> t.dirs]
    BY <1>1, <2>1
  <2>3. /\ x.tree = [files |-> x.tree.files, dirs |-> x.tree.dirs]
        /\ x.tree.files \in [Paths -> 0..n - 1] /\ x.tree.dirs \in [Paths -> 0..n - 1]
        /\ \A y \in Paths : y # p => SameAt(t, x.tree, y)
    BY <1>1, <2>2 DEF SameAt, None
  <2>4. TreeOK(x.tree, n)
    BY <1>1, <1>4, <2>3, TreeTyped, TreeOfHost
  <2> QED
    BY <1>2, <1>4, <2>3, <2>4
<1>5. CASE x.err = "ok" /\ ~InMemory(p)
  <2> DEFINE u == x.tree
  <2>1. /\ u = [files |-> [t.files EXCEPT ![p] = None], dirs |-> [t.dirs EXCEPT ![p] = None]]
        /\ ~(HasDir(t, p) /\ Inside(t, p) # {})
    BY <1>5 DEF RouterRemove, HostRemove, Ok, Fail
  <2> HIDE DEF u
  <2>2. /\ u = [files |-> u.files, dirs |-> u.dirs]
        /\ u.files \in [Paths -> 0..n - 1] /\ u.dirs \in [Paths -> 0..n - 1]
        /\ u.files[p] = None /\ u.dirs[p] = None
        /\ \A y \in Paths : y # p => SameAt(t, u, y)
    BY <1>1, <2>1 DEF SameAt, None
  <2>3. ~Has(u, p) /\ ~HasDir(u, p) /\ ~HasFile(u, p)
    BY <2>2 DEF Has, HasFile, HasDir
  <2>4. \A y \in Paths : y # p =>
          /\ HasDir(u, y) <=> HasDir(t, y)
          /\ HasFile(u, y) <=> HasFile(t, y)
          /\ Has(u, y) <=> Has(t, y)
          /\ Id(u, y) = Id(t, y)
    BY <2>2, SameAtFacts
  <2>5. ASSUME NEW y \in Paths, ~InMemory(y), y # resolve(y), Has(u, y)
        PROVE  HasDir(u, Front(y))
    <3>1. /\ y # <<>> /\ Front(y) \in Paths /\ resolve(y) = resolve(Front(y))
          /\ IsPrefix(Front(y), y) /\ Front(y) # y
      BY <2>5, ResolveFront, PathFacts
    <3>2. y # p /\ Has(t, y)
      BY <2>3, <2>4, <2>5
    <3>3. HasDir(t, Front(y))
      BY <2>5, <3>2 DEF TreeOK
    <3>4. Front(y) # p
      <4> SUFFICES ASSUME Front(y) = p
                   PROVE  FALSE
        OBVIOUS
      <4>1. y \in Inside(t, p)
        BY <3>1, <3>2 DEF Inside, Under, Below
      <4> QED
        BY <2>1, <3>3, <4>1
    <3> QED
      BY <2>4, <3>1, <3>3, <3>4
  <2>6. ASSUME NEW y \in Paths, NEW z \in Paths, ~InMemory(y), ~InMemory(z), Id(u, y) # None, Id(u, y) = Id(u, z)
        PROVE  y = z
    <3>1. y # p /\ Id(u, y) # None
      BY <2>3, <2>6, IdFacts
    <3>2. z # p
      BY <2>3, <2>6, <3>1, IdFacts
    <3> QED
      BY <2>4, <2>6, <3>1, <3>2 DEF TreeOK
  <2>7. TreeOK(u, n)
    BY <1>1, <2>2, <2>3, <2>4, <2>5, <2>6, TreeTyped DEF TreeOK
  <2> QED
    BY <1>2, <1>5, <2>2, <2>3, <2>7 DEF u
<1> QED
  BY <1>3, <1>4, <1>5

-----------------------------------------------------------------------------
(* rename(2) on a host directory.                                           *)

(* Above an entry of a host directory there are directories, up to its mount. *)
LEMMA Ancestors ==
  ASSUME NEW t, NEW n, TreeOK(t, n), NEW q \in Paths, NEW p \in Paths,
         ~InMemory(q), resolve(p) = resolve(q), IsPrefix(q, p), q # p, Has(t, p)
  PROVE  HasDir(t, q)
<1> DEFINE B == {y \in Paths : resolve(y) = resolve(q) /\ IsPrefix(q, y) /\ q # y /\ Has(t, y) /\ ~HasDir(t, q)}
           S == {Len(y) : y \in B}
<1> SUFFICES ASSUME p \in B
             PROVE  FALSE
  OBVIOUS
<1>1. q \in Seq(Name) /\ \A y \in Paths : y \in Seq(Name) /\ Len(y) \in Nat
  BY PathFacts, LenProperties
<1>2. S \in SUBSET Nat /\ S # {}
  BY <1>1
<1>3. PICK l \in S : \A k \in S : l <= k
  BY <1>2, LeastNumber
<1>4. PICK y \in B : l = Len(y)
  BY <1>3
<1>5. /\ y # <<>> /\ IsPrefix(q, Front(y)) /\ Front(y) \in Paths /\ Len(y) = Len(Front(y)) + 1
  BY <1>1, <1>4, PrefixOfFront, PathFacts
<1>6. y # resolve(y)
  <2> SUFFICES ASSUME y = resolve(y)
               PROVE  FALSE
    OBVIOUS
  <2>1. resolve(y) = resolve(q) /\ IsPrefix(resolve(q), q)
    BY <1>4, ResolveFacts
  <2> QED
    BY <1>1, <1>4, <2>1, PrefixOrder
<1>7. HasDir(t, Front(y)) /\ resolve(Front(y)) = resolve(y)
  <2>1. ~InMemory(y)
    BY <1>4 DEF InMemory
  <2> QED
    BY <1>4, <1>6, <2>1, ResolveFront DEF TreeOK
<1>8. CASE Front(y) = q
  BY <1>4, <1>7, <1>8
<1>9. CASE Front(y) # q
  <2>1. Front(y) \in B
    BY <1>4, <1>5, <1>7, <1>9 DEF Has
  <2>2. Len(y) <= Len(Front(y)) /\ Len(Front(y)) \in Nat
    BY <1>1, <1>3, <1>4, <1>5, <2>1
  <2> QED
    BY <1>5, <2>2
<1> QED
  BY <1>8, <1>9

\* The tree u has at x what t has at y.
Takes(t, u, x, y) == u.files[x] = t.files[y] /\ u.dirs[x] = t.dirs[y]

(* The same entries elsewhere are the same to every question.                *)
LEMMA TakesFacts ==
  ASSUME NEW t, NEW u, NEW x, NEW y, Takes(t, u, x, y)
  PROVE  /\ HasDir(u, x) <=> HasDir(t, y)
         /\ HasFile(u, x) <=> HasFile(t, y)
         /\ Has(u, x) <=> Has(t, y)
         /\ Id(u, x) = Id(t, y)
BY DEF Takes, HasDir, HasFile, Has, Id, ProviderStat, LeadsNowhere

\* What a rename on the host makes of t, from the old path p to the new path q of one mount.
RenamesTo(t, u, p, q) ==
  \A x \in Paths :
    /\ resolve(x) # resolve(p) => SameAt(t, u, x)
    /\ resolve(x) = resolve(p) =>
         /\ IsPrefix(q, x) =>
              IF Rebase(x, q, p) \in Paths /\ resolve(Rebase(x, q, p)) = resolve(p)
              THEN Takes(t, u, x, Rebase(x, q, p)) ELSE ~Has(u, x)
         /\ ~IsPrefix(q, x) /\ IsPrefix(p, x) => ~Has(u, x)
         /\ ~IsPrefix(q, x) /\ ~IsPrefix(p, x) => SameAt(t, u, x)

(* rename(2) of a host directory.                                            *)
LEMMA HostRenameFacts ==
  ASSUME NEW t, NEW n, TreeOK(t, n), NEW p \in Paths, NEW q \in Paths, NEW x,
         x = HostRename(t, p, q), ~InMemory(p), resolve(p) = resolve(q)
  PROVE  /\ x.id = None /\ (x.err # "ok" \/ p = q => x.tree = t)
         /\ x.err = "ok" /\ p # q =>
              /\ Has(t, p) /\ ParentIsDir(t, q)
              /\ ~IsPrefix(p, q) /\ ~IsPrefix(q, p) /\ Inside(t, q) = {}
              /\ x.tree \in Tree(1..n - 1)
              /\ RenamesTo(t, x.tree, p, q)
<1>1. /\ n \in Nat \ {0} /\ t = [files |-> t.files, dirs |-> t.dirs]
      /\ t.files \in [Paths -> 0..n - 1] /\ t.dirs \in [Paths -> 0..n - 1]
  BY TreeTyped DEF TreeOK
<1> DEFINE own(map) == [y \in Paths |-> IF resolve(y) = resolve(p) THEN map[y] ELSE None]
           merge(map) == [y \in Paths |-> IF resolve(y) = resolve(p)
                                          THEN Moved(own(map), p, q)[y] ELSE map[y]]
<1>2. x.id = None /\ (x.err # "ok" \/ p = q => x.tree = t)
  BY DEF HostRename, Ok, Fail
<1>3. ASSUME x.err = "ok", p # q
      PROVE  /\ Has(t, p) /\ ParentIsDir(t, q) /\ ~Below(q, p)
             /\ (HasDir(t, q) => Inside(t, q) = {})
             /\ x.tree = [files |-> merge(t.files), dirs |-> merge(t.dirs)]
  BY <1>3 DEF HostRename, Ok, Fail
<1>4. ASSUME NEW map \in [Paths -> 0..n - 1]
      PROVE  /\ merge(map) \in [Paths -> 0..n - 1]
             /\ \A y \in Paths :
                  /\ resolve(y) # resolve(p) => merge(map)[y] = map[y]
                  /\ resolve(y) = resolve(p) =>
                       /\ IsPrefix(q, y) =>
                            merge(map)[y] = IF Rebase(y, q, p) \in Paths /\ resolve(Rebase(y, q, p)) = resolve(p)
                                            THEN map[Rebase(y, q, p)] ELSE None
                       /\ ~IsPrefix(q, y) /\ IsPrefix(p, y) => merge(map)[y] = None
                       /\ ~IsPrefix(q, y) /\ ~IsPrefix(p, y) => merge(map)[y] = map[y]
  <2>1. own(map) \in [Paths -> 0..n - 1] /\ \A y \in Paths : own(map)[y] = IF resolve(y) = resolve(p) THEN map[y] ELSE None
    BY <1>1, <1>4 DEF None
  <2> DEFINE o == own(map)
  <2> HIDE DEF o
  <2>2. /\ o \in [Paths -> 0..n - 1]
        /\ \A y \in Paths : o[y] = IF resolve(y) = resolve(p) THEN map[y] ELSE None
    BY <2>1 DEF o
  <2>3. \A y \in Paths : Moved(o, p, q)[y] =
           IF IsPrefix(q, y) /\ Rebase(y, q, p) \in Paths THEN o[Rebase(y, q, p)]
           ELSE IF IsPrefix(q, y) \/ IsPrefix(p, y) THEN None ELSE o[y]
    BY DEF Moved
  <2>4. \A y \in Paths : Moved(o, p, q)[y] \in 0..n - 1
    BY <1>1, <2>2, <2>3 DEF None
  <2>5. merge(map) = [y \in Paths |-> IF resolve(y) = resolve(p) THEN Moved(o, p, q)[y] ELSE map[y]]
    BY DEF o
  <2> HIDE DEF merge, own
  <2>6. merge(map) \in [Paths -> 0..n - 1]
    BY <1>4, <2>4, <2>5
  <2>7. \A y \in Paths : merge(map)[y] = IF resolve(y) = resolve(p) THEN Moved(o, p, q)[y] ELSE map[y]
    BY <2>5
  <2> QED
    BY <2>2, <2>3, <2>6, <2>7
<1>5. ASSUME x.err = "ok", p # q
      PROVE  /\ ~IsPrefix(p, q) /\ ~IsPrefix(q, p) /\ Inside(t, q) = {}
  <2>1. ~IsPrefix(p, q)
    BY <1>3, <1>5 DEF Below
  <2>2. Inside(t, q) = {}
    <3> SUFFICES ASSUME NEW y \in Inside(t, q)
                 PROVE  FALSE
      OBVIOUS
    <3>1. y \in Paths /\ q # y /\ IsPrefix(q, y) /\ resolve(y) = resolve(q) /\ Has(t, y)
      BY DEF Inside, Under, Below
    <3>2. HasDir(t, q)
      BY <3>1, Ancestors DEF InMemory
    <3> QED
      BY <1>3, <1>5, <3>2
  <2>3. ~IsPrefix(q, p)
    <3> SUFFICES ASSUME IsPrefix(q, p)
                 PROVE  FALSE
      OBVIOUS
    <3>1. p \in Inside(t, q)
      BY <1>3, <1>5 DEF Inside, Under, Below
    <3> QED
      BY <2>2, <3>1
  <2> QED
    BY <2>1, <2>2, <2>3
<1>6. ASSUME x.err = "ok", p # q
      PROVE  /\ x.tree \in Tree(1..n - 1)
             /\ RenamesTo(t, x.tree, p, q)
  <2> HIDE DEF merge
  <2>1. x.tree.files = merge(t.files) /\ x.tree.dirs = merge(t.dirs)
        /\ x.tree = [files |-> merge(t.files), dirs |-> merge(t.dirs)]
    BY <1>3, <1>6
  <2>2. x.tree \in Tree(1..n - 1)
    BY <1>1, <1>4, <2>1, TreeTyped
  <2>3. ASSUME NEW y \in Paths
        PROVE  /\ resolve(y) # resolve(p) => SameAt(t, x.tree, y)
               /\ resolve(y) = resolve(p) =>
                    /\ IsPrefix(q, y) =>
                         IF Rebase(y, q, p) \in Paths /\ resolve(Rebase(y, q, p)) = resolve(p)
                         THEN Takes(t, x.tree, y, Rebase(y, q, p)) ELSE ~Has(x.tree, y)
                    /\ ~IsPrefix(q, y) /\ IsPrefix(p, y) => ~Has(x.tree, y)
                    /\ ~IsPrefix(q, y) /\ ~IsPrefix(p, y) => SameAt(t, x.tree, y)
    BY <1>1, <1>4, <2>1 DEF SameAt, Takes, Has, HasFile, HasDir
  <2> QED
    BY <2>2, <2>3 DEF RenamesTo
<1> QED
  BY <1>2, <1>3, <1>5, <1>6

(* A rename on the host keeps the tree in order.                             *)
LEMMA TreeRenamed ==
  ASSUME NEW t, NEW n, TreeOK(t, n), NEW p \in Paths, NEW q \in Paths, NEW u,
         ~InMemory(p), resolve(p) = resolve(q), ParentIsDir(t, q),
         ~IsPrefix(p, q), ~IsPrefix(q, p), u \in Tree(1..n - 1), RenamesTo(t, u, p, q)
  PROVE  TreeOK(u, n)
<1> DEFINE m == resolve(p)
           Source(x) == IF resolve(x) = m /\ IsPrefix(q, x) THEN Rebase(x, q, p) ELSE x
<1>1. p \in Seq(Name) /\ q \in Seq(Name) /\ \A x \in Paths : x \in Seq(Name)
  BY PathFacts
<1>2. ASSUME NEW x \in Paths, Has(u, x)
      PROVE  /\ Source(x) \in Paths /\ Takes(t, u, x, Source(x))
             /\ resolve(Source(x)) = resolve(x)
             /\ resolve(x) = m /\ ~IsPrefix(q, x) => ~IsPrefix(p, x)
  BY <1>2 DEF RenamesTo, SameAt, Takes
<1>3. ASSUME NEW x \in Paths, resolve(x) = m, x # resolve(x), Has(u, x)
      PROVE  HasDir(u, Front(x))
  <2>1. /\ x # <<>> /\ Front(x) \in Paths /\ Front(x) \in Seq(Name) /\ Last(x) \in Name
        /\ x = Join(Front(x), Last(x)) /\ resolve(Front(x)) = m
        /\ IsPrefix(Front(x), x) /\ Front(x) # x
    BY <1>3, ResolveFront, PathFacts
  <2>2. CASE ~IsPrefix(q, x)
    <3>1. ~IsPrefix(p, x) /\ SameAt(t, u, x)
      BY <1>2, <1>3, <2>2 DEF RenamesTo
    <3>2. HasDir(t, Front(x))
      BY <1>3, <3>1, SameAtFacts DEF TreeOK, InMemory
    <3>3. ~IsPrefix(q, Front(x)) /\ ~IsPrefix(p, Front(x))
      BY <1>1, <2>1, <2>2, <3>1, PrefixOrder
    <3> QED
      BY <2>1, <3>2, <3>3, SameAtFacts DEF RenamesTo
  <2>3. CASE x = q
    <3>1. HasDir(t, Front(q))
      BY <1>3, <2>3 DEF ParentIsDir
    <3>2. ~IsPrefix(q, Front(q)) /\ ~IsPrefix(p, Front(q))
      BY <1>1, <2>1, <2>3, PrefixOrder
    <3> QED
      BY <2>1, <2>3, <3>1, <3>2, SameAtFacts DEF RenamesTo
  <2>4. CASE IsPrefix(q, x) /\ x # q
    <3> DEFINE y == Rebase(x, q, p)
    <3>1. y \in Paths /\ Takes(t, u, x, y) /\ resolve(y) = m
      BY <1>2, <1>3, <2>4
    <3>2. IsPrefix(q, Front(x))
      BY <1>1, <2>4, PrefixOfFront
    <3>3. /\ y = Join(Rebase(Front(x), q, p), Last(x)) /\ Rebase(Front(x), q, p) \in Seq(Name)
          /\ IsPrefix(p, Rebase(Front(x), q, p))
      <4>1. /\ Rebase(Front(x), q, p) \in Seq(Name)
            /\ IsPrefix(p, Rebase(Front(x), q, p))
        BY <1>1, <2>1, <3>2, RebaseFacts
      <4>2. Rebase(Join(Front(x), Last(x)), q, p) = Join(Rebase(Front(x), q, p), Last(x))
        BY <1>1, <2>1, <3>2, RebaseJoin
      <4> QED
        BY <2>1, <4>1, <4>2
    <3> HIDE DEF y
    <3>4. Front(y) = Rebase(Front(x), q, p) /\ y # <<>> /\ ~IsPrefix(y, Front(y))
      BY <2>1, <3>3, JoinFacts
    <3>5. Front(y) \in Paths
      BY <3>1, <3>4, PathFacts
    <3>6. y # resolve(y)
      <4> SUFFICES ASSUME y = resolve(y)
                   PROVE  FALSE
        OBVIOUS
      <4>1. IsPrefix(y, p)
        BY <3>1, ResolveFacts
      <4> QED
        BY <1>1, <3>1, <3>3, <3>4, <3>5, <4>1, PrefixOrder
    <3>7. HasDir(t, Front(y)) /\ resolve(Front(y)) = m
      <4>1. Has(t, y)
        BY <1>3, <3>1, TakesFacts
      <4> QED
        BY <3>1, <3>6, <4>1, ResolveFront DEF TreeOK, InMemory
    <3>8. Takes(t, u, Front(x), Front(y))
      BY <2>1, <3>2, <3>4, <3>5, <3>7 DEF RenamesTo
    <3> QED
      BY <3>7, <3>8, TakesFacts
  <2> QED
    BY <2>2, <2>3, <2>4
<1>4. ASSUME NEW x \in Paths, ~InMemory(x), x # resolve(x), Has(u, x)
      PROVE  HasDir(u, Front(x))
  <2>1. CASE resolve(x) = m
    BY <1>3, <1>4, <2>1
  <2>2. CASE resolve(x) # m
    <3>1. Front(x) \in Paths /\ resolve(Front(x)) = resolve(x)
      BY <1>4, ResolveFront, PathFacts
    <3>2. SameAt(t, u, x) /\ SameAt(t, u, Front(x))
      BY <2>2, <3>1 DEF RenamesTo
    <3> QED
      BY <1>4, <3>2, SameAtFacts DEF TreeOK
  <2> QED
    BY <2>1, <2>2
<1>5. ASSUME NEW x \in Paths, ~InMemory(x)
      PROVE  ~(HasFile(u, x) /\ HasDir(u, x))
  <2> SUFFICES ASSUME HasFile(u, x), HasDir(u, x)
               PROVE  FALSE
    OBVIOUS
  <2>1. Has(u, x)
    BY DEF Has
  <2>2. /\ Source(x) \in Paths /\ Takes(t, u, x, Source(x)) /\ resolve(Source(x)) = resolve(x)
    BY <1>2, <2>1
  <2> HIDE DEF Source
  <2> QED
    BY <1>5, <2>2, TakesFacts DEF TreeOK, InMemory
<1>6. ASSUME NEW x \in Paths, NEW y \in Paths, ~InMemory(x), ~InMemory(y), Id(u, x) # None, Id(u, x) = Id(u, y)
      PROVE  x = y
  <2>1. Has(u, x) /\ Has(u, y)
    BY <1>6, IdFacts
  <2>2. /\ Source(x) \in Paths /\ Takes(t, u, x, Source(x)) /\ resolve(Source(x)) = resolve(x)
        /\ Source(y) \in Paths /\ Takes(t, u, y, Source(y)) /\ resolve(Source(y)) = resolve(y)
        /\ resolve(x) = m /\ ~IsPrefix(q, x) => ~IsPrefix(p, x)
        /\ resolve(y) = m /\ ~IsPrefix(q, y) => ~IsPrefix(p, y)
    BY <1>2, <1>6, <2>1
  <2>3. Source(x) = Source(y)
    <3> HIDE DEF Source
    <3>1. Id(t, Source(x)) # None /\ Id(t, Source(x)) = Id(t, Source(y))
      BY <1>6, <2>2, TakesFacts
    <3> QED
      BY <1>6, <2>2, <3>1 DEF TreeOK, InMemory
  <2>4. IsPrefix(q, x) => IsPrefix(p, Rebase(x, q, p)) /\ Rebase(Rebase(x, q, p), p, q) = x
    BY <1>1, RebaseFacts
  <2>5. IsPrefix(q, y) => IsPrefix(p, Rebase(y, q, p)) /\ Rebase(Rebase(y, q, p), p, q) = y
    BY <1>1, RebaseFacts
  <2> QED
    BY <2>2, <2>3, <2>4, <2>5
<1> QED
  BY <1>4, <1>5, <1>6 DEF TreeOK

-----------------------------------------------------------------------------
(* What a request for a path leads to.                                      *)

(* The router's rename.                                                      *)
LEMMA RenameFacts ==
  ASSUME NEW t, NEW n, TreeOK(t, n), NEW p \in Paths, NEW q \in Paths, NEW x, x = RouterRename(t, p, q)
  PROVE  /\ x.id = None /\ (x.err # "ok" => x.tree = t)
         /\ TreeOK(x.tree, n)
         /\ x.err = "ok" => resolve(p) = resolve(q)
         /\ InMemory(p) => \A y \in Paths : y \notin {p, q} => SameAt(t, x.tree, y)
         /\ x.err = "ok" /\ ~InMemory(p) /\ p # q =>
              /\ Has(t, p) /\ ~IsPrefix(p, q) /\ ~IsPrefix(q, p) /\ Inside(t, q) = {}
              /\ RenamesTo(t, x.tree, p, q)
<1>1. /\ n \in Nat \ {0} /\ t = [files |-> t.files, dirs |-> t.dirs]
      /\ t.files \in [Paths -> 0..n - 1] /\ t.dirs \in [Paths -> 0..n - 1]
  BY TreeTyped DEF TreeOK
<1>2. CASE resolve(p) # resolve(q) \/ Frozen(p)
  <2>1. x.err # "ok" /\ x.tree = t /\ x.id = None
    BY <1>2 DEF RouterRename, Fail
  <2> QED
    BY <2>1 DEF SameAt
<1>3. CASE resolve(p) = resolve(q) /\ ~Frozen(p) /\ InMemory(p)
  <2> DEFINE shift(map) == [map EXCEPT ![p] = None, ![q] = map[p]]
  <2>1. x = MemoryRename(t, p, q)
    BY <1>3 DEF RouterRename
  <2>2. /\ x.id = None /\ (x.err # "ok" => x.tree = t)
        /\ x.err = "ok" => \/ x.tree = [t EXCEPT !.files = shift(t.files)]
                           \/ x.tree = [t EXCEPT !.dirs = shift(t.dirs)]
    BY <2>1 DEF MemoryRename, Ok, Fail
  <2>3. \A map \in [Paths -> 0..n - 1] :
          shift(map) \in [Paths -> 0..n - 1] /\ \A y \in Paths : y \notin {p, q} => shift(map)[y] = map[y]
    BY <1>1 DEF None
  <2> HIDE DEF shift
  <2>4. x.err = "ok" => \/ x.tree = [files |-> shift(t.files), dirs |-> t.dirs]
                        \/ x.tree = [files |-> t.files, dirs |-> shift(t.dirs)]
    BY <1>1, <2>2
  <2>5. CASE x.err = "ok"
    <3>1. /\ x.tree = [files |-> x.tree.files, dirs |-> x.tree.dirs]
          /\ x.tree.files \in [Paths -> 0..n - 1] /\ x.tree.dirs \in [Paths -> 0..n - 1]
          /\ \A y \in Paths : y \notin {p, q} => SameAt(t, x.tree, y)
      BY <1>1, <2>3, <2>4, <2>5 DEF SameAt
    <3>2. \A y \in Paths : ~InMemory(y) => y \notin {p, q}
      BY <1>3 DEF InMemory
    <3>3. TreeOK(x.tree, n)
      BY <1>1, <3>1, <3>2, TreeTyped, TreeOfHost
    <3> QED
      BY <1>3, <2>2, <3>1, <3>3
  <2>6. CASE x.err # "ok"
    BY <1>3, <2>2, <2>6 DEF SameAt
  <2> QED
    BY <2>5, <2>6
<1>4. CASE resolve(p) = resolve(q) /\ ~Frozen(p) /\ ~InMemory(p)
  <2>1. x = HostRename(t, p, q)
    BY <1>4 DEF RouterRename
  <2>2. /\ x.id = None /\ (x.err # "ok" \/ p = q => x.tree = t)
        /\ x.err = "ok" /\ p # q =>
             /\ Has(t, p) /\ ParentIsDir(t, q)
             /\ ~IsPrefix(p, q) /\ ~IsPrefix(q, p) /\ Inside(t, q) = {}
             /\ x.tree \in Tree(1..n - 1)
             /\ RenamesTo(t, x.tree, p, q)
    BY <1>4, <2>1, HostRenameFacts
  <2>3. TreeOK(x.tree, n)
    BY <1>4, <2>2, TreeRenamed
  <2> QED
    BY <1>4, <2>2, <2>3
<1> QED
  BY <1>2, <1>3, <1>4

-----------------------------------------------------------------------------
(* What the host answers, and what becomes of the tree.                      *)

(* The answers are no requests and no silence.                               *)
LEMMA ResponseFacts ==
  ASSUME NEW err, NEW stat, NEW fh, NEW names
  PROVE  LET r == Response(err, stat, fh, names)
         IN  r # Nothing /\ r.err = err /\ r.stat = stat /\ r.fh = fh
BY DEF Response, Nothing

\* Requests for a path.
PathRequest(r) ==
  /\ r.path \in Paths /\ r.new \in Paths
  /\ r.op \in PathOps \/ (r.op = "truncate" /\ r.fh = 0)

(* The requests that change nothing.                                         *)
LEMMA QuietOutcome ==
  ASSUME TreeOK(tree, nextId), NEW r, PathRequest(r), r.op \notin Makers \cup Shifters, NEW x, x = Outcome(r)
  PROVE  /\ x.tree = tree /\ x.made # nextId /\ x.resp # Nothing
         /\ r.op = "lookup" /\ x.resp.err = "ok" =>
              Stat(tree, r.path) # Absent /\ x.resp.stat = Stat(tree, r.path)
         /\ r.op = "open" /\ x.resp.err = "ok" =>
              /\ ~InMemory(r.path) => x.resp.stat.id = Id(tree, r.path)
              /\ x.resp.fh = NewFH
<1>1. nextId \in Nat \ {0} /\ nextId # None
  BY DEF TreeOK, None
<1>2. CASE Blocked(HookOps(r)[1], r.path)
  <2>1. x = [tree |-> tree, resp |-> Failed("EPERM"), made |-> None]
    BY <1>2 DEF Outcome
  <2> QED
    BY <1>1, <2>1, ResponseFacts DEF Failed
<1>3. CASE ~Blocked(HookOps(r)[1], r.path) /\ r.op \in {"lookup", "getattr"}
  <2>1. x = [tree |-> tree, made |-> None,
             resp |-> IF Stat(tree, r.path) = Absent THEN Failed("ENOENT")
                      ELSE Response("ok", Stat(tree, r.path), 0, {})]
    BY <1>3 DEF Outcome
  <2> QED
    BY <1>1, <1>3, <2>1, ResponseFacts DEF Failed
<1>4. CASE ~Blocked(HookOps(r)[1], r.path) /\ r.op \in {"fsyncpath", "setattr", "chtimes", "readdir", "truncate"}
  <2>1. CASE r.op = "fsyncpath"
    <3>1. x = [tree |-> tree, made |-> None,
               resp |-> IF ~InMemory(r.path) /\ ProviderStat(tree, r.path) = Absent
                        THEN Failed("ENOENT") ELSE Done]
      BY <1>4, <2>1 DEF Outcome
    <3> QED
      BY <1>1, <2>1, <3>1, ResponseFacts DEF Failed, Done
  <2>2. CASE r.op \in {"setattr", "chtimes"}
    <3>1. x = [tree |-> tree, made |-> None,
               resp |-> IF Frozen(r.path) THEN Failed("EROFS")
                        ELSE IF ProviderStat(tree, r.path) = Absent THEN Failed("ENOENT")
                        ELSE IF r.op = "setattr" /\ Blocked("stat", r.path) THEN Failed("EPERM")
                        ELSE Response("ok", Stat(tree, r.path), 0, {})]
      BY <1>4, <2>2 DEF Outcome
    <3> QED
      BY <1>1, <2>2, <3>1, ResponseFacts DEF Failed
  <2>3. CASE r.op = "readdir"
    <3>1. x = [tree |-> tree, made |-> None,
               resp |-> Response(ReadDir(tree, r.path).err, Absent, 0, ReadDir(tree, r.path).names)]
      BY <1>4, <2>3 DEF Outcome
    <3> QED
      BY <1>1, <2>3, <3>1, ResponseFacts
  <2>4. CASE r.op = "truncate"
    <3> DEFINE y == RouterOpen(tree, r.path, TRUE, FALSE, FALSE, nextId)
    <3>1. x = [tree |-> tree, made |-> None,
               resp |-> IF y.err # "ok" THEN Failed(y.err)
                        ELSE IF Blocked("truncate", r.path) THEN Failed("EPERM") ELSE Done]
      BY <1>4, <2>4 DEF Outcome
    <3> HIDE DEF y
    <3> QED
      BY <1>1, <2>4, <3>1, ResponseFacts DEF Failed, Done
  <2> QED
    BY <1>4, <2>1, <2>2, <2>3, <2>4
<1>5. CASE ~Blocked(HookOps(r)[1], r.path) /\ r.op = "open"
  <2> DEFINE y == RouterOpen(tree, r.path, r.write, r.op = "create", r.excl, nextId)
  <2>1. x = [tree |-> y.tree, made |-> y.id,
             resp |-> IF y.err # "ok" THEN Failed(y.err)
                      ELSE Response("ok", [kind |-> "file", id |-> y.id], NewFH, {})]
    BY <1>5 DEF Outcome
  <2>2. /\ y.err # "ok" => y.tree = tree /\ y.id = None
        /\ y.err = "ok" =>
             /\ y.tree = tree /\ y.id \in {tree.files[r.path], tree.dirs[r.path]}
             /\ ~InMemory(r.path) => y.id = Id(tree, r.path)
    <3> DEFINE no == r.op = "create"
    <3>1. r.path \in Paths /\ ~no
      BY <1>5 DEF PathRequest
    <3>2. y = RouterOpen(tree, r.path, r.write, no, r.excl, nextId)
      OBVIOUS
    <3> HIDE DEF no, y
    <3>3. /\ y.err # "ok" => y.tree = tree /\ y.id = None
          /\ y.err = "ok" =>
               \/ /\ y.tree = tree /\ y.id \in {tree.files[r.path], tree.dirs[r.path]}
                  /\ ~InMemory(r.path) => y.id = Id(tree, r.path)
               \/ /\ y.tree = [tree EXCEPT !.files[r.path] = nextId] /\ y.id = nextId /\ no
                  /\ ParentIsDir(tree, r.path) /\ (~InMemory(r.path) => ~Has(tree, r.path))
      BY <3>1, <3>2, OpenFacts
    <3> QED
      BY <3>1, <3>3
  <2>3. tree.files[r.path] \in 0..nextId - 1 /\ tree.dirs[r.path] \in 0..nextId - 1
    BY <1>1, TreeTyped DEF TreeOK, PathRequest
  <2> HIDE DEF y
  <2>4. x.tree = tree /\ x.made # nextId
    BY <1>1, <2>1, <2>2, <2>3
  <2>5. CASE y.err = "ok"
    BY <1>5, <2>1, <2>2, <2>4, <2>5, ResponseFacts
  <2>6. CASE y.err # "ok"
    BY <1>5, <2>1, <2>4, <2>6, ResponseFacts DEF Failed
  <2> QED
    BY <2>5, <2>6
<1> QED
  BY <1>2, <1>3, <1>4, <1>5 DEF PathRequest, PathOps, Makers, Shifters, Removers

(* A directory or a file is made, or a file is found.                        *)
LEMMA MakerOutcome ==
  ASSUME TreeOK(tree, nextId), NEW r, PathRequest(r), r.op \in Makers, NEW x, x = Outcome(r)
  PROVE  /\ TreeOK(x.tree, IF x.made = nextId THEN nextId + 1 ELSE nextId)
         /\ x.resp # Nothing
         /\ \A y \in Paths : y # r.path => SameAt(tree, x.tree, y)
         /\ x.resp.err # "ok" => x.tree = tree
         /\ Has(tree, r.path) /\ ~InMemory(r.path) => x.tree = tree
         /\ x.resp.err = "ok" => Has(x.tree, r.path) /\ (~InMemory(r.path) => Id(x.tree, r.path) # None)
         /\ x.resp.err = "ok" /\ r.op = "mkdir" =>
              \/ x.resp.stat = Absent
              \/ x.resp.stat = Stat(x.tree, r.path) /\ HasDir(x.tree, r.path)
         /\ x.resp.err = "ok" /\ r.op = "create" =>
              /\ x.resp.fh = NewFH /\ x.resp.stat.id # None /\ x.resp.stat.kind = "file"
              /\ ~InMemory(r.path) => x.resp.stat = Stat(x.tree, r.path)
         /\ x.tree # tree => x.made = nextId /\ (~InMemory(r.path) => Id(x.tree, r.path) = nextId)
<1>1. nextId \in Nat \ {0} /\ nextId # None /\ r.path \in Paths
  BY DEF TreeOK, None, PathRequest
<1>2. CASE Blocked(HookOps(r)[1], r.path)
  <2>1. x = [tree |-> tree, resp |-> Failed("EPERM"), made |-> None]
    BY <1>2 DEF Outcome
  <2> QED
    BY <1>1, <2>1, ResponseFacts DEF Failed, SameAt
<1>3. CASE ~Blocked(HookOps(r)[1], r.path) /\ r.op = "mkdir"
  <2> DEFINE y == RouterMkdir(tree, r.path, nextId)
  <2>1. x = [tree |-> y.tree, made |-> y.id,
             resp |-> IF y.err # "ok" THEN Failed(y.err)
                      ELSE IF Blocked("stat", r.path) THEN Done
                      ELSE Response("ok", Stat(y.tree, r.path), 0, {})]
    BY <1>3 DEF Outcome
  <2>2. /\ y.err # "ok" => y.tree = tree /\ y.id = None
        /\ y.err = "ok" =>
             /\ y.tree = [tree EXCEPT !.dirs[r.path] = nextId] /\ y.id = nextId
             /\ ParentIsDir(tree, r.path) /\ (~InMemory(r.path) => ~Has(tree, r.path))
    BY <1>1, MkdirFacts
  <2> HIDE DEF y
  <2>3. CASE y.err # "ok"
    BY <1>1, <1>3, <2>1, <2>2, <2>3, ResponseFacts DEF Failed, SameAt
  <2>4. CASE y.err = "ok"
    <3>1. /\ TreeOK(y.tree, nextId + 1) /\ Has(y.tree, r.path)
          /\ \A z \in Paths : z # r.path => SameAt(tree, y.tree, z)
          /\ ~InMemory(r.path) => Id(y.tree, r.path) = nextId
      BY <1>1, <2>2, <2>4, TreeGrows
    <3>2. HasDir(y.tree, r.path)
      <4>1. tree.dirs \in [Paths -> 0..nextId - 1] /\ tree = [files |-> tree.files, dirs |-> tree.dirs]
        BY <1>1, TreeTyped DEF TreeOK
      <4>2. y.tree.dirs[r.path] = nextId
        BY <1>1, <2>2, <2>4, <4>1
      <4> QED
        BY <1>1, <4>2 DEF HasDir
    <3>3. x.resp.err = "ok" /\ x.resp # Nothing /\ x.resp.stat \in {Absent, Stat(y.tree, r.path)}
      BY <2>1, <2>4, ResponseFacts DEF Done, Failed
    <3> QED
      BY <1>1, <1>3, <2>1, <2>2, <2>4, <3>1, <3>2, <3>3
  <2> QED
    BY <2>3, <2>4
<1>4. CASE ~Blocked(HookOps(r)[1], r.path) /\ r.op = "create"
  <2> DEFINE y == RouterOpen(tree, r.path, r.write, r.op = "create", r.excl, nextId)
  <2>1. x = [tree |-> y.tree, made |-> y.id,
             resp |-> IF y.err # "ok" THEN Failed(y.err)
                      ELSE Response("ok", [kind |-> "file", id |-> y.id], NewFH, {})]
    BY <1>4 DEF Outcome
  <2>2. /\ y.err # "ok" => y.tree = tree /\ y.id = None
        /\ y.err = "ok" =>
             \/ /\ y.tree = tree /\ HasFile(tree, r.path) /\ y.id = tree.files[r.path]
                /\ ~InMemory(r.path) => Id(tree, r.path) # None
             \/ /\ y.tree = [tree EXCEPT !.files[r.path] = nextId] /\ y.id = nextId
                /\ ParentIsDir(tree, r.path) /\ (~InMemory(r.path) => ~Has(tree, r.path))
    <3>1. y = RouterOpen(tree, r.path, r.write, TRUE, r.excl, nextId)
      BY <1>4 DEF RouterOpen, MemoryOpen, HostOpen
    <3> HIDE DEF y
    <3> QED
      BY <1>1, <3>1 DEF RouterOpen, MemoryOpen, HostOpen, Ok, Fail, Has, HasFile, HasDir, Id, ProviderStat
  <2>3. tree.files \in [Paths -> 0..nextId - 1] /\ tree = [files |-> tree.files, dirs |-> tree.dirs]
        /\ tree.files[r.path] \in 0..nextId - 1
    BY <1>1, TreeTyped DEF TreeOK
  <2> HIDE DEF y
  <2>4. CASE y.err # "ok"
    BY <1>1, <1>4, <2>1, <2>2, <2>4, ResponseFacts DEF Failed, SameAt
  <2>5. ASSUME y.err = "ok"
        PROVE  /\ x.resp.err = "ok" /\ x.resp # Nothing /\ x.resp.fh = NewFH
               /\ x.resp.stat = [kind |-> "file", id |-> y.id]
    BY <2>1, <2>5, ResponseFacts
  <2>6. CASE /\ y.err = "ok" /\ y.tree = tree /\ HasFile(tree, r.path) /\ y.id = tree.files[r.path]
             /\ ~InMemory(r.path) => Id(tree, r.path) # None
    <3>1. ~InMemory(r.path) => Stat(tree, r.path) = [kind |-> "file", id |-> y.id]
      BY <1>1, <2>6 DEF TreeOK, Stat, ProviderStat, Absent, Has, HasFile, HasDir, Id
    <3>2. y.id # None /\ y.id # nextId /\ Has(tree, r.path)
      BY <1>1, <2>3, <2>6 DEF HasFile, Has
    <3> QED
      BY <1>4, <2>1, <2>5, <2>6, <3>1, <3>2 DEF SameAt
  <2>7. CASE /\ y.err = "ok" /\ y.tree = [tree EXCEPT !.files[r.path] = nextId] /\ y.id = nextId
             /\ ParentIsDir(tree, r.path) /\ (~InMemory(r.path) => ~Has(tree, r.path))
    <3>1. /\ TreeOK(y.tree, nextId + 1) /\ Has(y.tree, r.path)
          /\ \A z \in Paths : z # r.path => SameAt(tree, y.tree, z)
          /\ ~InMemory(r.path) => Id(y.tree, r.path) = nextId
      BY <1>1, <2>7, TreeGrows
    <3>2. y.tree.files[r.path] = nextId /\ y.tree.dirs = tree.dirs
      BY <1>1, <2>3, <2>7
    <3>3. ~InMemory(r.path) => Stat(y.tree, r.path) = [kind |-> "file", id |-> y.id]
      BY <1>1, <2>7, <3>1, <3>2 DEF Stat, ProviderStat, Absent, Has, HasFile, HasDir, Id
    <3> QED
      BY <1>1, <1>4, <2>1, <2>5, <2>7, <3>1, <3>3
  <2> QED
    BY <2>2, <2>4, <2>6, <2>7
<1> QED
  BY <1>2, <1>3, <1>4 DEF Makers

(* An entry is removed or moved.                                             *)
LEMMA ShifterOutcome ==
  ASSUME TreeOK(tree, nextId), NEW r, PathRequest(r), r.op \in Shifters, NEW x, x = Outcome(r)
  PROVE  /\ TreeOK(x.tree, nextId) /\ x.made # nextId
         /\ x.resp # Nothing
         /\ x.resp.err # "ok" => x.tree = tree
         /\ r.op \in Removers =>
              /\ \A y \in Paths : y # r.path => SameAt(tree, x.tree, y)
              /\ x.resp.err = "ok" /\ ~InMemory(r.path) => ~Has(x.tree, r.path)
         /\ r.op = "rename" =>
              /\ x.resp.err = "ok" => resolve(r.path) = resolve(r.new)
              /\ InMemory(r.path) => \A y \in Paths : y \notin {r.path, r.new} => SameAt(tree, x.tree, y)
              /\ x.resp.err = "ok" /\ ~InMemory(r.path) /\ r.path # r.new =>
                   /\ ~IsPrefix(r.path, r.new) /\ ~IsPrefix(r.new, r.path)
                   /\ Has(tree, r.path) /\ Inside(tree, r.new) = {}
                   /\ RenamesTo(tree, x.tree, r.path, r.new)
<1>1. nextId \in Nat \ {0} /\ nextId # None /\ r.path \in Paths /\ r.new \in Paths
  BY DEF TreeOK, None, PathRequest
<1>2. CASE Blocked(HookOps(r)[1], r.path)
  <2>1. x = [tree |-> tree, resp |-> Failed("EPERM"), made |-> None]
    BY <1>2 DEF Outcome
  <2> QED
    BY <1>1, <2>1, ResponseFacts DEF Failed, SameAt
<1>3. CASE ~Blocked(HookOps(r)[1], r.path) /\ r.op \in Removers
  <2> DEFINE y == RouterRemove(tree, r.path)
  <2>1. x = [tree |-> y.tree, made |-> y.id, resp |-> Failed(y.err)]
    BY <1>3 DEF Outcome, Removers
  <2>2. /\ y.id = None /\ (y.err # "ok" => y.tree = tree)
        /\ TreeOK(y.tree, nextId)
        /\ \A z \in Paths : z # r.path => SameAt(tree, y.tree, z)
        /\ y.err = "ok" /\ ~InMemory(r.path) => ~Has(y.tree, r.path)
    BY <1>1, RemoveFacts
  <2> HIDE DEF y
  <2>3. x.resp # Nothing /\ x.resp.err = y.err
    BY <2>1, ResponseFacts DEF Failed
  <2> QED
    BY <1>1, <1>3, <2>1, <2>2, <2>3 DEF Removers
<1>4. CASE ~Blocked(HookOps(r)[1], r.path) /\ r.op = "rename"
  <2> DEFINE y == RouterRename(tree, r.path, r.new)
  <2>1. x = [tree |-> y.tree, made |-> y.id, resp |-> Failed(y.err)]
    BY <1>4 DEF Outcome
  <2>2. /\ y.id = None /\ (y.err # "ok" => y.tree = tree)
        /\ TreeOK(y.tree, nextId)
        /\ y.err = "ok" => resolve(r.path) = resolve(r.new)
        /\ InMemory(r.path) => \A z \in Paths : z \notin {r.path, r.new} => SameAt(tree, y.tree, z)
        /\ y.err = "ok" /\ ~InMemory(r.path) /\ r.path # r.new =>
             /\ Has(tree, r.path) /\ ~IsPrefix(r.path, r.new) /\ ~IsPrefix(r.new, r.path)
             /\ Inside(tree, r.new) = {}
             /\ RenamesTo(tree, y.tree, r.path, r.new)
    BY <1>1, RenameFacts
  <2> HIDE DEF y
  <2>3. x.resp # Nothing /\ x.resp.err = y.err
    BY <2>1, ResponseFacts DEF Failed
  <2> QED
    BY <1>1, <1>4, <2>1, <2>2, <2>3 DEF Removers
<1> QED
  BY <1>2, <1>3, <1>4 DEF Shifters

-----------------------------------------------------------------------------
(* Calls in hand and the connection.                                         *)

InHand(t) == thread[t] # Nothing

\* The operations of a guest.
Operations == DirOps \cup NodeOps \cup HandleOps \cup {"open", "readdir", "release"}

\* A record of a call.
IsCall(c) ==
  /\ c = [op |-> c.op, dir |-> c.dir, name |-> c.name, todir |-> c.todir, toname |-> c.toname,
          node |-> c.node, path |-> c.path, new |-> c.new, fh |-> c.fh, write |-> c.write,
          excl |-> c.excl, stage |-> c.stage, raced |-> c.raced, resp |-> c.resp, locked |-> c.locked]
  /\ c.op \in Operations /\ c.path \in Paths /\ c.new \in Paths
  /\ c.stage \in {"ready", "sent", "answered"} /\ c.raced \in BOOLEAN

\* Two records of one call: one may be known to be raced.
SameCall(c, d) ==
  /\ d.op = c.op /\ d.dir = c.dir /\ d.name = c.name /\ d.todir = c.todir /\ d.toname = c.toname
  /\ d.node = c.node /\ d.path = c.path /\ d.new = c.new /\ d.fh = c.fh /\ d.write = c.write
  /\ d.excl = c.excl /\ d.stage = c.stage /\ d.resp = c.resp /\ d.locked = c.locked

CallsOK ==
  /\ thread = [t \in Threads |-> thread[t]]
  /\ \A t \in Threads : InHand(t) => IsCall(thread[t])

\* A call as a handler starts it.
Begun(c) ==
  /\ IsCall(c) /\ c.stage = "ready"
  /\ c.op # "rename" => c.new = c.path
  /\ c.op \in DirOps => c.dir \in DOMAIN nodes /\ IsDir(c.dir) /\ c.path = Child(c.dir, c.name)
  /\ c.op \in {"lookup"} \cup Makers => c.name \in Name
  /\ c.op \in Makers => c.name \notin Kids(c.dir)
  /\ c.op \in Shifters => c.name \in Kids(c.dir) /\ c.node = nodes[c.dir].kids[c.name]
  /\ c.op = "rename" =>
       /\ c.todir \in DOMAIN nodes /\ IsDir(c.todir) /\ c.new = Child(c.todir, c.toname)
       /\ c.toname \in Name /\ c.path # c.new
  /\ c.op = "open" => c.node \in DOMAIN nodes /\ c.path = nodes[c.node].path
  /\ IF c.op = "release"
     THEN \E f \in files : /\ c.fh = f.fh /\ files' = files \ {f}
                           /\ \A u \in Threads : InHand(u) => thread[u].fh # f.fh
     ELSE files' = files


(* What a call starts from.                                                  *)
LEMMA CallFacts ==
  ASSUME NEW op, NEW dir, NEW name, NEW node, NEW p,
         op \in Operations, p \in Paths
  PROVE  LET c == Call(op, dir, name, node, p)
         IN  /\ IsCall(c) /\ c.stage = "ready" /\ c.op = op /\ c.dir = dir /\ c.name = name
             /\ c.node = node /\ c.path = p /\ c.new = p /\ c.fh = 0
BY DEF Call, IsCall

(* Every call the guest begins.                                              *)
LEMMA BeginFacts ==
  ASSUME NEW t \in Threads, Begin(t)
  PROVE  \E c : Begun(c) /\ Start(t, c)
<1>1. ASSUME NEW d \in Directories, NEW p \in Paths, p # <<>>, Front(p) = nodes[d].path,
             Lookup(t, d, Last(p))
      PROVE  \E c : Begun(c) /\ Start(t, c)
  <2> DEFINE c == Call("lookup", d, Last(p), Root, Child(d, Last(p)))
  <2>1. Start(t, c) /\ files' = files
    BY <1>1 DEF Lookup
  <2>2. c.path \in Paths /\ c.path = Child(d, Last(p))
    BY <2>1 DEF Start, Fits, Call
  <2>3. "lookup" \in Operations /\ "lookup" \in DirOps
    BY DEF Operations, DirOps
  <2>4. /\ IsCall(c) /\ c.stage = "ready" /\ c.op = "lookup" /\ c.dir = d /\ c.name = Last(p)
        /\ c.new = c.path
    BY <2>2, <2>3, CallFacts
  <2>5. Last(p) \in Name
    BY <1>1, PathFacts
  <2> HIDE DEF c
  <2>6. Begun(c)
    BY <2>1, <2>2, <2>4, <2>5 DEF Begun, Directories, DirOps, Makers, Shifters, Removers
  <2> QED
    BY <2>1, <2>6
<1>2. ASSUME NEW d \in Directories, NEW p \in Paths, p # <<>>, Front(p) = nodes[d].path,
             NEW op \in Makers, Make(t, d, Last(p), op)
      PROVE  \E c : Begun(c) /\ Start(t, c)
  <2> DEFINE b == Call(op, d, Last(p), Root, Child(d, Last(p)))
             c == [b EXCEPT !.write = (op = "create")]
  <2>1. Start(t, c) /\ files' = files /\ Last(p) \notin Kids(d)
    BY <1>2 DEF Make
  <2>2. c.path \in Paths /\ c.path = Child(d, Last(p)) /\ b.path = c.path
    BY <2>1 DEF Start, Fits, Call
  <2>3. op \in Operations /\ op \in DirOps /\ op \notin Shifters /\ op \notin {"open", "release", "rename"}
    BY <1>2 DEF Operations, DirOps, Makers, Shifters, Removers
  <2>4. /\ IsCall(b) /\ b.stage = "ready" /\ b.op = op /\ b.dir = d /\ b.name = Last(p)
        /\ b.new = b.path
    BY <2>2, <2>3, CallFacts
  <2> HIDE DEF b
  <2>5. /\ IsCall(c) /\ c.stage = "ready" /\ c.op = op /\ c.dir = d /\ c.name = Last(p)
        /\ c.new = c.path
    BY <2>2, <2>4 DEF IsCall
  <2>6. Last(p) \in Name
    BY <1>2, PathFacts
  <2> HIDE DEF c
  <2>7. Begun(c)
    BY <1>2, <2>1, <2>2, <2>3, <2>5, <2>6 DEF Begun, Directories
  <2> QED
    BY <2>1, <2>7
<1>3. ASSUME NEW d \in Directories, NEW n \in Kids(d), Delete(t, d, n)
      PROVE  \E c : Begun(c) /\ Start(t, c)
  <2> DEFINE op == IF IsDir(nodes[d].kids[n]) THEN "rmdir" ELSE "unlink"
             c == Call(op, d, n, nodes[d].kids[n], Child(d, n))
  <2>1. Start(t, c) /\ files' = files
    BY <1>3 DEF Delete
  <2>2. c.path \in Paths /\ c.path = Child(d, n)
    BY <2>1 DEF Start, Fits, Call
  <2>3. /\ op \in Operations /\ op \in DirOps /\ op \in Shifters
        /\ op \notin {"open", "release", "rename", "lookup"} \cup Makers
    BY DEF Operations, DirOps, Makers, Shifters, Removers
  <2> HIDE DEF op
  <2>4. /\ IsCall(c) /\ c.stage = "ready" /\ c.op = op /\ c.dir = d /\ c.name = n
        /\ c.new = c.path /\ c.node = nodes[d].kids[n]
    BY <2>2, <2>3, CallFacts
  <2> HIDE DEF c
  <2>5. Begun(c)
    BY <1>3, <2>1, <2>2, <2>3, <2>4 DEF Begun, Directories
  <2> QED
    BY <2>1, <2>5
<1>4. ASSUME NEW d \in Directories, NEW n \in Kids(d), NEW e \in Directories, NEW p \in Paths,
             p # <<>>, Front(p) = nodes[e].path, Move(t, d, n, e, Last(p))
      PROVE  \E c : Begun(c) /\ Start(t, c)
  <2> DEFINE b == Call("rename", d, n, nodes[d].kids[n], Child(d, n))
             c == [b EXCEPT !.todir = e, !.toname = Last(p), !.new = Child(e, Last(p))]
  <2>1. Start(t, c) /\ files' = files /\ Child(e, Last(p)) # Child(d, n)
    BY <1>4 DEF Move
  <2>2. /\ c.path \in Paths /\ c.path = Child(d, n) /\ b.path = c.path
        /\ c.new \in Paths /\ c.new = Child(e, Last(p))
    BY <2>1 DEF Start, Fits, Call
  <2>3. "rename" \in Operations /\ "rename" \in DirOps /\ "rename" \in Shifters
        /\ "rename" \notin {"open", "release", "lookup"} \cup Makers
    BY DEF Operations, DirOps, Makers, Shifters
  <2>4. /\ IsCall(b) /\ b.stage = "ready" /\ b.op = "rename" /\ b.dir = d /\ b.name = n
        /\ b.node = nodes[d].kids[n]
    BY <2>2, <2>3, CallFacts
  <2>5. /\ IsCall(c) /\ c.stage = "ready" /\ c.op = "rename" /\ c.dir = d /\ c.name = n
        /\ c.todir = e /\ c.toname = Last(p) /\ c.node = nodes[d].kids[n]
    <3> DEFINE q == Child(e, Last(p))
    <3>1. q \in Paths /\ c = [b EXCEPT !.todir = e, !.toname = Last(p), !.new = q]
      BY <2>2
    <3> HIDE DEF b, c, q
    <3>2. /\ IsCall(c) /\ c.stage = b.stage /\ c.op = b.op /\ c.dir = b.dir /\ c.name = b.name
          /\ c.node = b.node /\ c.todir = e /\ c.toname = Last(p)
      BY <2>4, <3>1 DEF IsCall
    <3> QED
      BY <2>4, <3>2
  <2>6. Last(p) \in Name
    BY <1>4, PathFacts
  <2> HIDE DEF c
  <2>7. Begun(c)
    BY <1>4, <2>1, <2>2, <2>3, <2>5, <2>6 DEF Begun, Directories
  <2> QED
    BY <2>1, <2>7
<1>5. ASSUME NEW i \in DOMAIN nodes, NEW op \in NodeOps \cup {"readdir"}, files' = files,
             Start(t, Call(op, i, "", i, nodes[i].path))
      PROVE  \E c : Begun(c) /\ Start(t, c)
  <2> DEFINE c == Call(op, i, "", i, nodes[i].path)
  <2>1. c.path \in Paths /\ c.path = nodes[i].path
    BY <1>5 DEF Start, Fits, Call
  <2>2. op \in Operations /\ op \notin DirOps /\ op \notin {"open", "release", "lookup", "rename"} \cup Makers \cup Shifters
    BY <1>5 DEF Operations, DirOps, NodeOps, Makers, Shifters, Removers
  <2>3. /\ IsCall(c) /\ c.stage = "ready" /\ c.op = op /\ c.new = c.path
    BY <2>1, <2>2 DEF Call, IsCall
  <2> HIDE DEF c
  <2>4. Begun(c)
    BY <1>5, <2>1, <2>2, <2>3 DEF Begun
  <2> QED
    BY <1>5, <2>4 DEF c
<1>6. ASSUME NEW i \in DOMAIN nodes, NEW w, OpenNode(t, i, w)
      PROVE  \E c : Begun(c) /\ Start(t, c)
  <2> DEFINE b == Call("open", i, "", i, nodes[i].path)
             c == [b EXCEPT !.write = w]
  <2>1. Start(t, c) /\ files' = files
    BY <1>6 DEF OpenNode
  <2>2. c.path \in Paths /\ c.path = nodes[i].path /\ b.path = c.path
    BY <2>1 DEF Start, Fits, Call
  <2>3. "open" \in Operations /\ "open" \notin DirOps /\ "open" \notin {"release", "lookup", "rename"} \cup Makers \cup Shifters
    BY DEF Operations, DirOps, Makers, Shifters, Removers
  <2>4. /\ IsCall(b) /\ b.stage = "ready" /\ b.op = "open" /\ b.node = i /\ b.new = b.path
    BY <2>2, <2>3 DEF Call, IsCall
  <2> HIDE DEF b
  <2>5. /\ IsCall(c) /\ c.stage = "ready" /\ c.op = "open" /\ c.node = i /\ c.new = c.path
    BY <2>2, <2>4 DEF IsCall
  <2> HIDE DEF c
  <2>6. Begun(c)
    BY <1>6, <2>1, <2>2, <2>3, <2>5 DEF Begun
  <2> QED
    BY <2>1, <2>6
<1>7. ASSUME NEW f \in files, NEW op \in HandleOps \cup {"truncate", "release"},
             Start(t, [Call(op, f.node, "", f.node, f.path) EXCEPT !.fh = f.fh]),
             IF op = "release" THEN /\ files' = files \ {f}
                                    /\ \A u \in Threads : thread[u] # Nothing => thread[u].fh # f.fh
             ELSE files' = files
      PROVE  \E c : Begun(c) /\ Start(t, c)
  <2> DEFINE b == Call(op, f.node, "", f.node, f.path)
             c == [b EXCEPT !.fh = f.fh]
  <2>2. c.path \in Paths /\ c.path = f.path /\ b.path = c.path
    BY <1>7 DEF Start, Fits, Call
  <2>3. op \in Operations /\ op \notin DirOps /\ op \notin {"open", "lookup", "rename"} \cup Makers \cup Shifters
    BY <1>7 DEF Operations, DirOps, Makers, Shifters, Removers, HandleOps, NodeOps
  <2>4. /\ IsCall(b) /\ b.stage = "ready" /\ b.op = op /\ b.new = b.path
    BY <2>2, <2>3 DEF Call, IsCall
  <2> HIDE DEF b
  <2>5. /\ IsCall(c) /\ c.stage = "ready" /\ c.op = op /\ c.fh = f.fh /\ c.new = c.path
    BY <2>2, <2>4 DEF IsCall
  <2> HIDE DEF c
  <2>6. Begun(c)
    BY <1>7, <2>2, <2>3, <2>5 DEF Begun, InHand
  <2> QED
    BY <1>7, <2>6 DEF c, b
<1>8. ASSUME NEW i \in DOMAIN nodes, NEW op \in NodeOps, OnNode(t, i, op)
      PROVE  \E c : Begun(c) /\ Start(t, c)
  BY <1>5, <1>8 DEF OnNode
<1>9. ASSUME NEW i \in DOMAIN nodes, ReadNode(t, i)
      PROVE  \E c : Begun(c) /\ Start(t, c)
  BY <1>5, <1>9 DEF ReadNode
<1>10. ASSUME NEW f \in files, NEW op \in HandleOps \cup {"truncate"}, OnHandle(t, f, op)
       PROVE  \E c : Begun(c) /\ Start(t, c)
  <2>1. op # "release"
    BY <1>10 DEF HandleOps
  <2> QED
    BY <1>7, <1>10, <2>1 DEF OnHandle
<1>11. ASSUME NEW f \in files, Release(t, f)
       PROVE  \E c : Begun(c) /\ Start(t, c)
  BY <1>7, <1>11 DEF Release
<1> QED
  BY <1>1, <1>2, <1>3, <1>4, <1>6, <1>8, <1>9, <1>10, <1>11 DEF Begin

USE DEF InHand

-----------------------------------------------------------------------------
(* The connection and its mutex.                                            *)

\* The request a call sends.
Asks(c) ==
  [op |-> c.op, path |-> c.path, new |-> c.new, fh |-> c.fh, write |-> c.write, excl |-> c.excl]

\* One call at a time is between its request and its answer.
WireOK ==
  /\ lock \in Threads \cup {Nobody} /\ conn \in BOOLEAN
  /\ \A t \in Threads : lock = t <=> InHand(t) /\ thread[t].stage = "sent"
  /\ lock = Nobody \/ ~conn => inbox = Nothing /\ outbox = Nothing
  /\ lock # Nobody /\ conn =>
       \/ inbox = Asks(thread[lock]) /\ outbox = Nothing
       \/ inbox = Nothing /\ outbox # Nothing

\* The host has not answered the call.
Waiting(t) == InHand(t) /\ (thread[t].stage = "ready" \/ (lock = t /\ inbox # Nothing))

\* A call that a step leaves as it is, but for what is known of races.
Kept(t) ==
  /\ thread'[t] # Nothing <=> thread[t] # Nothing
  /\ thread[t] # Nothing =>
       LET c == thread[t] d == thread'[t]
       IN /\ d.op = c.op /\ d.dir = c.dir /\ d.name = c.name /\ d.todir = c.todir /\ d.toname = c.toname
          /\ d.node = c.node /\ d.path = c.path /\ d.new = c.new /\ d.fh = c.fh /\ d.locked = c.locked
          /\ c.raced => d.raced
          /\ Effective(t)' <=> Effective(t)
          /\ Effective(t) => Answer(t)' = Answer(t)
          /\ Waiting(t)' <=> Waiting(t)

\* What is common to all that the guest and the host do.
Base == CallsOK /\ WireOK /\ TreeOK(tree, nextId)

(* The numbers of threads are not Nobody.                                    *)
LEMMA ThreadNumbers == Nobody \notin Threads
BY GuestFuseAssumption DEF Nobody

(* The request of a call is not silence.                                     *)
LEMMA AsksFacts ==
  ASSUME NEW c
  PROVE  /\ Asks(c) # Nothing /\ Asks(c).op = c.op /\ Asks(c).path = c.path /\ Asks(c).new = c.new
         /\ Asks(c).fh = c.fh
BY DEF Asks, Nothing

(* A record with all its fields is not silence.                              *)
LEMMA CallIsSomething ==
  ASSUME NEW c, IsCall(c)
  PROVE  c # Nothing
BY DEF IsCall, Nothing

(* A call begins.                                                            *)
LEMMA StartStep ==
  ASSUME Base, NEW t \in Threads, NEW c, Begun(c), Start(t, c), UNCHANGED serverVars
  PROVE  /\ Base' /\ thread[t] = Nothing /\ thread'[t] # Nothing
         /\ SameCall([c EXCEPT !.locked = Locked(c)], thread'[t])
         /\ thread'[t].locked = Locked(c)
         /\ thread'[t].raced <=> \E v \in Threads : thread[v] # Nothing /\ Races(c, thread[v])
         /\ ~Effective(t)' /\ Waiting(t)'
         /\ \A u \in Threads \ {t} :
              /\ Kept(u)
              /\ thread[u] # Nothing /\ Races(thread[u], c) => thread'[u].raced
         /\ UNCHANGED <<nodes, lock>>
<1>1. /\ IsCall(c) /\ c.stage = "ready"
  BY DEF Begun
<1>2. /\ thread[t] = Nothing /\ UNCHANGED <<nodes, lock>> /\ ~Excluded(c)
      /\ thread' = [u \in Threads |->
           IF u = t
           THEN [c EXCEPT !.locked = Locked(c),
                          !.raced = \E v \in Threads : thread[v] # Nothing /\ Races(c, thread[v])]
           ELSE IF thread[u] # Nothing /\ Races(thread[u], c)
           THEN [thread[u] EXCEPT !.raced = TRUE] ELSE thread[u]]
  BY DEF Start
<1> DEFINE r == \E v \in Threads : thread[v] # Nothing /\ Races(c, thread[v])
           l == Locked(c)
<1>3. thread'[t] = [c EXCEPT !.locked = l, !.raced = r]
  BY <1>2
<1>4. r \in BOOLEAN
  OBVIOUS
<1> HIDE DEF r, l
<1>5. /\ IsCall(thread'[t]) /\ SameCall([c EXCEPT !.locked = l], thread'[t]) /\ thread'[t].stage = "ready"
      /\ thread'[t].locked = l /\ thread'[t].raced = r
  BY <1>1, <1>3, <1>4 DEF IsCall, SameCall
<1>6. ASSUME NEW u \in Threads \ {t}
      PROVE  /\ thread'[u] # Nothing <=> thread[u] # Nothing
             /\ thread[u] # Nothing =>
                  /\ IsCall(thread'[u]) /\ SameCall(thread[u], thread'[u])
                  /\ thread[u].raced => thread'[u].raced
                  /\ Races(thread[u], c) => thread'[u].raced
  <2>1. CASE thread[u] = Nothing
    BY <1>2, <2>1
  <2>2. CASE thread[u] # Nothing /\ Races(thread[u], c)
    <3>1. IsCall(thread[u]) /\ thread'[u] = [thread[u] EXCEPT !.raced = TRUE]
      BY <1>2, <2>2 DEF Base, CallsOK
    <3>2. IsCall(thread'[u]) /\ SameCall(thread[u], thread'[u]) /\ thread'[u].raced
      BY <3>1 DEF IsCall, SameCall
    <3> QED
      BY <2>2, <3>2, CallIsSomething
  <2>3. CASE thread[u] # Nothing /\ ~Races(thread[u], c)
    <3>1. IsCall(thread[u]) /\ thread'[u] = thread[u]
      BY <1>2, <2>3 DEF Base, CallsOK
    <3> QED
      BY <2>3, <3>1 DEF SameCall
  <2> QED
    BY <2>1, <2>2, <2>3
<1>7. UNCHANGED <<tree, nextId, inbox, outbox, conn, lock>>
  BY <1>2 DEF serverVars
<1>8. t # Nobody /\ lock # t
  BY <1>2, ThreadNumbers DEF Base, WireOK
<1>9. thread'[t] # Nothing
  BY <1>5, CallIsSomething
<1>10. CallsOK'
  BY <1>2, <1>5, <1>6 DEF CallsOK
<1>11. WireOK'
  <2>1. \A u \in Threads : lock' = u <=> thread'[u] # Nothing /\ thread'[u].stage = "sent"
    BY <1>5, <1>6, <1>7, <1>8 DEF Base, WireOK, SameCall
  <2>2. lock # Nobody /\ conn => Asks(thread'[lock]) = Asks(thread[lock])
    BY <1>6, <1>8 DEF Base, WireOK, SameCall, Asks
  <2> QED
    BY <1>7, <2>1, <2>2 DEF Base, WireOK
<1>12. ~Effective(t)' /\ Waiting(t)'
  BY <1>5, <1>7, <1>8, <1>9 DEF Effective, Waiting
<1>13. ASSUME NEW u \in Threads \ {t}
       PROVE  Kept(u)
  BY <1>6, <1>7 DEF Kept, SameCall, Effective, Answer, Waiting
<1>14. Base'
  BY <1>7, <1>10, <1>11 DEF Base
<1> QED
  BY <1>2, <1>5, <1>6, <1>9, <1>12, <1>13, <1>14 DEF r, l

\* A step that ends the call of t.
Ends(t) == thread'[t] = Nothing

(* A call ends.                                                              *)
LEMMA EndStep ==
  ASSUME Base, NEW t \in Threads, EndCall(t), inbox' = inbox \/ lock = t, conn' = conn,
         IF lock = t THEN lock' = Nobody /\ inbox' = Nothing /\ outbox' = Nothing
         ELSE lock' = lock /\ inbox' = inbox /\ outbox' = outbox,
         UNCHANGED <<tree, nextId>>
  PROVE  /\ Base' /\ Ends(t) /\ \A u \in Threads \ {t} : Kept(u) /\ thread'[u] = thread[u]
<1>1. thread' = [thread EXCEPT ![t] = Nothing]
  BY DEF EndCall
<1>2. thread'[t] = Nothing /\ \A u \in Threads \ {t} : thread'[u] = thread[u]
  BY <1>1 DEF Base, CallsOK
<1>3. CallsOK'
  BY <1>1, <1>2 DEF Base, CallsOK
<1>4. WireOK'
  BY <1>2, ThreadNumbers DEF Base, WireOK
<1>5. ASSUME NEW u \in Threads \ {t}
      PROVE  Kept(u)
  <2>1. lock' = u <=> lock = u
    BY ThreadNumbers DEF Base, WireOK
  <2>2. lock = u => inbox' = inbox /\ outbox' = outbox
    OBVIOUS
  <2> QED
    BY <1>2, <2>1, <2>2 DEF Kept, Effective, Answer, Waiting
<1> QED
  BY <1>2, <1>3, <1>4, <1>5 DEF Base, Ends

(* The request goes out; on a dead connection the call ends.                 *)
LEMMA SendStep ==
  ASSUME Base, NEW t \in Threads, Send(t)
  PROVE  /\ Base'
         /\ conn => \A u \in Threads : Kept(u) /\ (thread[u] # Nothing => thread'[u].raced = thread[u].raced)
         /\ UNCHANGED <<nodes, files, tree, nextId, handles, nextFH, hostOpen, conn>>
<1>1. /\ thread[t] # Nothing /\ thread[t].stage = "ready" /\ lock = Nobody
      /\ UNCHANGED <<nodes, files, tree, nextId, handles, nextFH, hostOpen, outbox, conn>>
      /\ IsCall(thread[t])
  BY DEF Send, Base, CallsOK
<1>2. CASE ~conn
  <2>1. EndCall(t) /\ UNCHANGED <<lock, inbox>>
    BY <1>2 DEF Send
  <2>2. Base'
    BY <1>1, <2>1, EndStep, ThreadNumbers
  <2> QED
    BY <1>1, <1>2, <2>2
<1>3. CASE conn
  <2>1. /\ lock' = t /\ thread' = [thread EXCEPT ![t].stage = "sent"] /\ inbox' = Asks(thread[t])
    BY <1>3 DEF Send, Asks
  <2>2. /\ thread'[t] = [thread[t] EXCEPT !.stage = "sent"]
        /\ \A u \in Threads \ {t} : thread'[u] = thread[u]
        /\ thread' = [u \in Threads |-> thread'[u]]
    BY <2>1 DEF Base, CallsOK
  <2>3. /\ IsCall(thread'[t]) /\ thread'[t].stage = "sent" /\ Asks(thread'[t]) = Asks(thread[t])
        /\ SameCall([thread[t] EXCEPT !.stage = "sent"], thread'[t])
        /\ thread'[t].raced = thread[t].raced
    BY <1>1, <2>2 DEF IsCall, Asks, SameCall
  <2>4. thread'[t] # Nothing
    BY <2>3, CallIsSomething
  <2>5. CallsOK'
    BY <2>2, <2>3 DEF Base, CallsOK
  <2>6. WireOK'
    BY <1>1, <1>3, <2>1, <2>2, <2>3, <2>4, ThreadNumbers DEF Base, WireOK
  <2>7. Kept(t)
    <3>1. Asks(thread[t]) # Nothing /\ outbox = Nothing /\ outbox' = Nothing /\ t # Nobody
      BY <1>1, AsksFacts, ThreadNumbers DEF Base, WireOK
    <3>2. ~Effective(t) /\ ~Effective(t)' /\ Waiting(t) /\ Waiting(t)'
      BY <1>1, <2>1, <2>3, <2>4, <3>1 DEF Effective, Waiting
    <3> QED
      BY <1>1, <2>2, <2>4, <3>2 DEF Kept, IsCall
  <2>8. ASSUME NEW u \in Threads \ {t}
        PROVE  Kept(u)
    <3>1. lock # u /\ lock' # u
      BY <1>1, <2>1, ThreadNumbers
    <3> QED
      BY <2>2, <3>1 DEF Kept, Effective, Answer, Waiting
  <2>9. Base'
    BY <1>1, <2>5, <2>6 DEF Base
  <2> QED
    BY <1>1, <1>3, <2>2, <2>3, <2>7, <2>8, <2>9
<1> QED
  BY <1>2, <1>3 DEF Base, WireOK

(* The answer comes in: the call goes on with it, or ends.                   *)
LEMMA ReceiveStep ==
  ASSUME Base, NEW t \in Threads, Receive(t)
  PROVE  /\ Base'
         /\ UNCHANGED <<nodes, files, tree, nextId, handles, nextFH, hostOpen, conn>>
         /\ conn => /\ lock = t /\ \A u \in Threads \ {t} : Kept(u) /\ thread'[u] = thread[u]
                    /\ \/ Kept(t) /\ thread'[t].raced = thread[t].raced
                       \/ Ends(t) /\ ~Effective(t) /\ ~Waiting(t)
<1>1. /\ lock = t /\ (outbox # Nothing \/ ~conn) /\ lock' = Nobody /\ outbox' = Nothing
      /\ UNCHANGED <<nodes, files, tree, nextId, handles, nextFH, hostOpen, inbox, conn>>
      /\ t # Nobody
  BY ThreadNumbers DEF Receive
<1>2. thread[t] # Nothing /\ thread[t].stage = "sent" /\ IsCall(thread[t]) /\ inbox = Nothing
  BY <1>1 DEF Base, WireOK, CallsOK
<1>3. CASE conn /\ outbox.err = "ok"
  <2>1. thread' = [thread EXCEPT ![t].stage = "answered", ![t].resp = outbox]
    BY <1>3 DEF Receive
  <2>2. /\ thread'[t] = [thread[t] EXCEPT !.stage = "answered", !.resp = outbox]
        /\ \A u \in Threads \ {t} : thread'[u] = thread[u]
        /\ thread' = [u \in Threads |-> thread'[u]]
    BY <2>1 DEF Base, CallsOK
  <2>3. /\ IsCall(thread'[t]) /\ thread'[t].stage = "answered" /\ thread'[t].resp = outbox
    BY <1>2, <2>2 DEF IsCall
  <2>4. thread'[t] # Nothing
    BY <2>3, CallIsSomething
  <2>5. CallsOK'
    BY <2>2, <2>3 DEF Base, CallsOK
  <2>6. WireOK'
    BY <1>1, <1>2, <1>3, <2>2, <2>3, <2>4, ThreadNumbers DEF Base, WireOK
  <2>7. Kept(t) /\ thread'[t].raced = thread[t].raced
    <3>1. Effective(t) /\ Effective(t)' /\ Answer(t) = outbox /\ Answer(t)' = outbox
          /\ ~Waiting(t) /\ ~Waiting(t)'
      BY <1>1, <1>2, <1>3, <2>3, <2>4 DEF Effective, Answer, Waiting
    <3> QED
      BY <1>2, <2>2, <2>4, <3>1 DEF Kept, IsCall
  <2>8. ASSUME NEW u \in Threads \ {t}
        PROVE  Kept(u)
    <3>1. lock # u /\ lock' # u
      BY <1>1, ThreadNumbers
    <3> QED
      BY <2>2, <3>1 DEF Kept, Effective, Answer, Waiting
  <2> QED
    BY <1>1, <2>2, <2>5, <2>6, <2>7, <2>8 DEF Base
<1>4. CASE ~(conn /\ outbox.err = "ok")
  <2>1. EndCall(t)
    BY <1>4 DEF Receive
  <2>2. Base' /\ Ends(t) /\ \A u \in Threads \ {t} : Kept(u) /\ thread'[u] = thread[u]
    BY <1>1, <1>2, <2>1, EndStep
  <2>3. conn => ~Effective(t) /\ ~Waiting(t)
    BY <1>1, <1>2, <1>4 DEF Effective, Waiting
  <2> QED
    BY <1>1, <2>2, <2>3
<1> QED
  BY <1>3, <1>4

(* A handler is through with its answer.                                     *)
LEMMA FinishStep ==
  ASSUME Base, NEW t \in Threads, Finish(t), UNCHANGED serverVars
  PROVE  /\ Base' /\ Ends(t) /\ thread[t] # Nothing /\ Effective(t) /\ Answer(t) = thread[t].resp
         /\ \A u \in Threads \ {t} : Kept(u) /\ thread'[u] = thread[u]
         /\ UNCHANGED <<tree, nextId, handles, nextFH, hostOpen, inbox, outbox, conn, lock>>
         /\ nodes' = Pruned(NodesAfter(thread[t]))
         /\ files' = IF thread[t].op \in {"open", "create"} THEN files \cup {Opened(thread[t])} ELSE files
<1>1. /\ thread[t] # Nothing /\ thread[t].stage = "answered" /\ EndCall(t) /\ lock' = lock
      /\ nodes' = Pruned(NodesAfter(thread[t]))
      /\ files' = IF thread[t].op \in {"open", "create"} THEN files \cup {Opened(thread[t])} ELSE files
  BY DEF Finish, Answered
<1>2. UNCHANGED <<tree, nextId, handles, nextFH, hostOpen, inbox, outbox, conn>>
  BY DEF serverVars
<1>3. lock # t
  BY <1>1 DEF Base, WireOK
<1>4. Base' /\ Ends(t) /\ \A u \in Threads \ {t} : Kept(u) /\ thread'[u] = thread[u]
  BY <1>1, <1>2, <1>3, EndStep
<1> QED
  BY <1>1, <1>2, <1>4 DEF Effective, Answer

(* What the host has, when it has a request.                                 *)
LEMMA ReadyFacts ==
  ASSUME Base, Ready
  PROVE  /\ lock \in Threads /\ conn /\ InHand(lock) /\ thread[lock].stage = "sent" /\ IsCall(thread[lock])
         /\ inbox = Asks(thread[lock]) /\ outbox = Nothing
         /\ Waiting(lock) /\ ~Effective(lock)
<1>1. conn /\ inbox # Nothing
  BY DEF Ready
<1>2. lock \in Threads /\ lock # Nobody /\ inbox = Asks(thread[lock]) /\ outbox = Nothing
  BY <1>1 DEF Base, WireOK
<1>3. InHand(lock) /\ thread[lock].stage = "sent"
  BY <1>2 DEF Base, WireOK
<1>4. IsCall(thread[lock])
  BY <1>2, <1>3 DEF Base, CallsOK
<1> QED
  BY <1>1, <1>2, <1>3, <1>4 DEF Waiting, Effective

(* The host answers: only the call that waits is concerned.                  *)
LEMMA ReplyStep ==
  ASSUME Base, Ready, inbox' = Nothing, outbox' # Nothing, conn' = conn, UNCHANGED guestVars,
         TreeOK(tree, nextId)'
  PROVE  /\ Base'
         /\ ~Waiting(lock)' /\ Answer(lock)' = outbox' /\ (Effective(lock)' <=> outbox'.err = "ok")
         /\ \A u \in Threads \ {lock} : Kept(u)
<1>1. UNCHANGED <<nodes, files, thread, lock, ops>>
  BY DEF guestVars
<1>2. CallsOK'
  BY <1>1 DEF Base, CallsOK
<1>3. /\ lock \in Threads /\ conn /\ thread[lock] # Nothing /\ thread[lock].stage = "sent"
  BY ReadyFacts
<1>4. lock # Nobody
  BY <1>3, ThreadNumbers
<1>5. WireOK'
  BY <1>1, <1>3, <1>4 DEF Base, WireOK
<1>6. ASSUME NEW u \in Threads \ {lock}
      PROVE  Kept(u)
  BY <1>1 DEF Kept, Effective, Answer, Waiting
<1>7. ~Waiting(lock)' /\ Answer(lock)' = outbox' /\ (Effective(lock)' <=> outbox'.err = "ok")
  BY <1>1, <1>3 DEF Effective, Answer, Waiting
<1> QED
  BY <1>2, <1>5, <1>6, <1>7 DEF Base

(* A request for a path.                                                     *)
LEMMA DispatchPathStep ==
  ASSUME Base, DispatchPath, UNCHANGED guestVars
  PROVE  /\ Base' /\ Ready /\ PathRequest(inbox)
         /\ tree' = Outcome(inbox).tree /\ outbox' = Outcome(inbox).resp
         /\ nextId' = IF Outcome(inbox).made = nextId THEN nextId + 1 ELSE nextId
         /\ inbox' = Nothing /\ outbox' # Nothing /\ conn' = conn
         /\ IF inbox.op \in {"open", "create"} /\ outbox'.err = "ok"
            THEN /\ nextFH' = nextFH + 1
                 /\ handles' = [h \in DOMAIN handles \cup {NewFH} |->
                                 IF h \in DOMAIN handles THEN handles[h]
                                 ELSE Handle(outbox'.stat.id, inbox.path)]
                 /\ hostOpen' = hostOpen \cup {NewFH}
            ELSE UNCHANGED <<nextFH, handles, hostOpen>>
<1>1. Ready
  BY DEF DispatchPath
<1>2. inbox = Asks(thread[lock]) /\ IsCall(thread[lock])
  BY <1>1, ReadyFacts
<1>3. PathRequest(inbox)
  BY <1>2, AsksFacts DEF DispatchPath, PathRequest, IsCall
<1> DEFINE x == Outcome(inbox)
<1>4. /\ tree' = x.tree /\ outbox' = x.resp /\ inbox' = Nothing /\ conn' = conn
      /\ nextId' = IF x.made = nextId THEN nextId + 1 ELSE nextId
      /\ IF inbox.op \in {"open", "create"} /\ outbox'.err = "ok"
         THEN /\ nextFH' = nextFH + 1
              /\ handles' = [h \in DOMAIN handles \cup {NewFH} |->
                              IF h \in DOMAIN handles THEN handles[h]
                              ELSE Handle(outbox'.stat.id, inbox.path)]
              /\ hostOpen' = hostOpen \cup {NewFH}
         ELSE UNCHANGED <<nextFH, handles, hostOpen>>
  BY DEF DispatchPath, Reply
<1>5. TreeOK(tree, nextId)
  BY DEF Base
<1> HIDE DEF x
<1>6. x.resp # Nothing /\ TreeOK(x.tree, IF x.made = nextId THEN nextId + 1 ELSE nextId)
  <2>1. CASE inbox.op \notin Makers \cup Shifters
    BY <1>3, <1>5, <2>1, QuietOutcome DEF x
  <2>2. CASE inbox.op \in Makers
    BY <1>3, <1>5, <2>2, MakerOutcome DEF x
  <2>3. CASE inbox.op \in Shifters
    BY <1>3, <1>5, <2>3, ShifterOutcome DEF x
  <2> QED
    BY <2>1, <2>2, <2>3
<1>7. TreeOK(tree, nextId)' /\ outbox' # Nothing
  BY <1>4, <1>6
<1>8. Base'
  BY <1>1, <1>4, <1>7, ReplyStep
<1> QED
  BY <1>1, <1>3, <1>4, <1>7, <1>8 DEF x

(* A create whose file is opened but has no stat.                            *)
LEMMA DispatchUnstatedStep ==
  ASSUME Base, DispatchUnstated, UNCHANGED guestVars
  PROVE  /\ Base' /\ Ready /\ PathRequest(inbox) /\ inbox.op = "create"
         /\ tree' = Outcome(inbox).tree
         /\ nextId' = IF Outcome(inbox).made = nextId THEN nextId + 1 ELSE nextId
         /\ inbox' = Nothing /\ outbox' # Nothing /\ outbox'.err # "ok"
         /\ UNCHANGED <<handles, nextFH, hostOpen, conn>>
<1>1. Ready /\ inbox.op = "create"
  BY DEF DispatchUnstated
<1>2. inbox = Asks(thread[lock]) /\ IsCall(thread[lock])
  BY <1>1, ReadyFacts
<1>3. PathRequest(inbox)
  BY <1>1, <1>2, AsksFacts DEF PathRequest, PathOps, IsCall
<1> DEFINE x == Outcome(inbox)
<1>4. /\ tree' = x.tree /\ outbox' = Failed("EIO") /\ inbox' = Nothing
      /\ nextId' = IF x.made = nextId THEN nextId + 1 ELSE nextId
      /\ UNCHANGED <<handles, nextFH, hostOpen, conn>>
  BY DEF DispatchUnstated, Reply
<1>5. TreeOK(tree, nextId)
  BY DEF Base
<1> HIDE DEF x
<1>6. TreeOK(x.tree, IF x.made = nextId THEN nextId + 1 ELSE nextId)
  BY <1>1, <1>3, <1>5, MakerOutcome DEF x, Makers
<1>7. TreeOK(tree, nextId)' /\ outbox' # Nothing /\ outbox'.err # "ok"
  BY <1>4, <1>6, ResponseFacts DEF Failed
<1>8. Base'
  BY <1>1, <1>4, <1>7, ReplyStep
<1> QED
  BY <1>1, <1>3, <1>4, <1>7, <1>8 DEF x

(* A request for a handle.                                                   *)
LEMMA DispatchHandleStep ==
  ASSUME Base, DispatchHandle, UNCHANGED guestVars
  PROVE  /\ Base' /\ Ready
         /\ inbox.op \in HandleOps \/ (inbox.op = "truncate" /\ inbox.fh # 0)
         /\ UNCHANGED <<tree, nextId, handles, nextFH, hostOpen, conn>>
         /\ inbox' = Nothing /\ outbox' # Nothing
<1>1. /\ Ready /\ UNCHANGED <<tree, nextId, handles, nextFH, hostOpen, conn>> /\ inbox' = Nothing
      /\ inbox.op \in HandleOps \/ (inbox.op = "truncate" /\ inbox.fh # 0)
  BY DEF DispatchHandle, Reply
<1>2. outbox' # Nothing
  BY DEF DispatchHandle, Reply, Done, Failed, Response, Nothing
<1>3. TreeOK(tree, nextId)'
  BY <1>1 DEF Base
<1> QED
  BY <1>1, <1>2, <1>3, ReplyStep

(* The release of a handle.                                                  *)
LEMMA DispatchReleaseStep ==
  ASSUME Base, DispatchRelease, UNCHANGED guestVars
  PROVE  /\ Base' /\ Ready /\ inbox.op = "release" /\ Released(inbox.fh)
         /\ UNCHANGED <<tree, nextId, nextFH, conn>>
         /\ inbox' = Nothing /\ outbox' # Nothing
<1>1. /\ Ready /\ UNCHANGED <<tree, nextId, nextFH, conn>> /\ inbox' = Nothing /\ outbox' = Done
      /\ inbox.op = "release" /\ Released(inbox.fh)
  BY DEF DispatchRelease, Reply
<1>2. outbox' # Nothing
  BY <1>1 DEF Done, Failed, Response, Nothing
<1>3. TreeOK(tree, nextId)'
  BY <1>1 DEF Base
<1> QED
  BY <1>1, <1>2, <1>3, ReplyStep

(* The connection breaks.                                                    *)
LEMMA DisconnectStep ==
  ASSUME Base, Disconnect, UNCHANGED guestVars
  PROVE  Base' /\ ~conn' /\ UNCHANGED <<tree, nextId, handles, nextFH, hostOpen, nodes, files>>
<1>1. /\ UNCHANGED <<nodes, files, thread, lock, ops, tree, nextId, handles, nextFH, hostOpen>>
      /\ ~conn' /\ inbox' = Nothing /\ outbox' = Nothing /\ conn' \in BOOLEAN
  BY DEF guestVars, Disconnect
<1>2. CallsOK'
  BY <1>1 DEF Base, CallsOK
<1>3. WireOK'
  BY <1>1 DEF Base, WireOK
<1>4. TreeOK(tree, nextId)'
  BY <1>1 DEF Base
<1> QED
  BY <1>1, <1>2, <1>3, <1>4 DEF Base

(* The state of a VM that has started.                                       *)
LEMMA InitBase ==
  ASSUME Init
  PROVE  Base
<1>1. /\ tree = InitTree /\ nextId = InitIds + 1 /\ inbox = Nothing /\ outbox = Nothing /\ conn = TRUE
      /\ thread = [t \in Threads |-> Nothing] /\ lock = Nobody
  BY DEF Init, ServerInit, GuestInit
<1>2. CallsOK
  BY <1>1 DEF CallsOK
<1>3. WireOK
  BY <1>1, ThreadNumbers DEF WireOK
<1>4. InitIds \in Nat /\ nextId \in Nat \ {0} /\ nextId - 1 = InitIds
  BY <1>1, InitTreeAssumption
<1>5. TreeOK(tree, nextId)
  <2>1. \A p \in Paths : Id(InitTree, p) # None => ProviderStat(InitTree, p) # Absent
    BY DEF Id, Absent
  <2> QED
    BY <1>1, <1>4, <2>1, InitTreeAssumption DEF TreeOK, Id
<1> QED
  BY <1>2, <1>3, <1>5 DEF Base

(* Every step.                                                               *)
LEMMA BaseStep ==
  ASSUME Base, [Next]_vars
  PROVE  Base'
<1>1. ASSUME NEW t \in Threads, Begin(t), UNCHANGED serverVars
      PROVE  Base'
  BY <1>1, BeginFacts, StartStep
<1>2. ASSUME NEW t \in Threads, Send(t)
      PROVE  Base'
  BY <1>2, SendStep
<1>3. ASSUME NEW t \in Threads, Receive(t)
      PROVE  Base'
  BY <1>3, ReceiveStep
<1>4. ASSUME NEW t \in Threads, Finish(t), UNCHANGED serverVars
      PROVE  Base'
  BY <1>4, FinishStep
<1>5. ASSUME ServerStep, UNCHANGED guestVars
      PROVE  Base'
  BY <1>5, DispatchPathStep, DispatchUnstatedStep, DispatchHandleStep, DispatchReleaseStep
  DEF ServerStep
<1>6. ASSUME Disconnect, UNCHANGED guestVars
      PROVE  Base'
  BY <1>6, DisconnectStep
<1>7. ASSUME UNCHANGED vars
      PROVE  Base'
  BY <1>7 DEF vars, serverVars, guestVars, Base, CallsOK, WireOK
<1> QED
  BY <1>1, <1>2, <1>3, <1>4, <1>5, <1>6, <1>7
  DEF Next, GuestBegins, GuestSends, GuestReceives, GuestFinishes, HostServes, ConnectionBreaks

(* In every behaviour the calls in hand are well formed, the mutex belongs to the*)
(* one call whose request or answer is on the connection (fused/main.go:119-152),*)
(* and the host's tree is a file system: an entry lies in a directory, is a file or*)
(* a directory and not both, and no two have one id.                        *)
THEOREM BaseHolds == Spec => []Base
<1>1. Init => Base
  BY InitBase
<1>2. Base /\ [Next]_vars => Base'
  BY BaseStep
<1> QED
  BY <1>1, <1>2, PTL DEF Spec

-----------------------------------------------------------------------------
(* Listings.                                                                *)

(* The next name on the way from a directory down to a path.                 *)
LEMMA NextName ==
  ASSUME NEW d \in Seq(Name), NEW n \in Name, NEW x \in Seq(Name)
  PROVE  Below(x, d) /\ x[Len(d) + 1] = n <=> IsPrefix(Join(d, n), x)
<1> DEFINE p == Join(d, n)
<1>1. /\ p \in Seq(Name) /\ Len(d) \in Nat /\ Len(p) = Len(d) + 1 /\ p[Len(d) + 1] = n
      /\ \A i \in 1..Len(d) : p[i] = d[i]
  BY JoinNames
<1>2. Len(x) \in Nat
  OBVIOUS
<1> HIDE DEF p
<1>3. IsPrefix(p, x) <=> Len(p) <= Len(x) /\ \A i \in 1..Len(p) : p[i] = x[i]
  BY <1>1, PrefixNames
<1>4. IsPrefix(d, x) <=> Len(d) <= Len(x) /\ \A i \in 1..Len(d) : d[i] = x[i]
  BY PrefixNames
<1>5. ASSUME IsPrefix(p, x)
      PROVE  Below(x, d) /\ x[Len(d) + 1] = n
  <2>1. Len(d) + 1 <= Len(x) /\ x[Len(d) + 1] = n /\ \A i \in 1..Len(d) : d[i] = x[i]
    BY <1>1, <1>2, <1>3, <1>5
  <2>2. x # d
    BY <1>1, <2>1
  <2> QED
    BY <1>1, <1>2, <1>4, <2>1, <2>2 DEF Below
<1>6. ASSUME Below(x, d), x[Len(d) + 1] = n
      PROVE  IsPrefix(p, x)
  <2>1. x # d /\ Len(d) <= Len(x) /\ \A i \in 1..Len(d) : d[i] = x[i]
    BY <1>4, <1>6 DEF Below
  <2>2. Len(d) # Len(x)
    <3>1. SUFFICES ASSUME Len(d) = Len(x) PROVE FALSE
      OBVIOUS
    <3>2. IsPrefix(x, d)
      BY <2>1, <3>1, PrefixNames
    <3> QED
      BY <1>4, <2>1, <3>2, PrefixOrder
  <2> QED
    BY <1>1, <1>2, <1>3, <1>6, <2>1, <2>2
<1> QED
  BY <1>5, <1>6 DEF p

(* The mounts a listing shows.                                               *)
LEMMA MountEntries ==
  ASSUME NEW p \in Paths, p # <<>>
  PROVE  Last(p) \in descendantMountEntries(Front(p)) <=> Pinned(p)
<1>1. Front(p) \in Seq(Name) /\ Last(p) \in Name /\ p = Join(Front(p), Last(p))
  BY PathFacts
<1>2. \A m \in Mounts : Below(m, Front(p)) /\ m[Len(Front(p)) + 1] = Last(p) <=> IsPrefix(p, m)
  BY <1>1, MountFacts, NextName
<1> QED
  BY <1>2 DEF descendantMountEntries, Pinned

(* The entries a listing of a host directory shows.                          *)
LEMMA HostEntries ==
  ASSUME NEW t, NEW p \in Paths, p # <<>>, ~InMemory(Front(p))
  PROVE  Last(p) \in ProviderReadDir(t, Front(p)) <=> p \notin Mounts /\ Has(t, p)
<1> DEFINE d == Front(p)
<1>1. /\ d \in Paths /\ d \in Seq(Name) /\ Last(p) \in Name /\ p = Join(d, Last(p)) /\ p \in Seq(Name)
      /\ IsPrefix(d, p) /\ d # p
  BY PathFacts
<1>2. Last(p) \in ProviderReadDir(t, d) <=>
        \E x \in Inside(t, d) : Front(x) = d /\ x[Len(d) + 1] = Last(p)
  BY DEF ProviderReadDir
<1>3. \A x \in Inside(t, d) : Front(x) = d /\ x[Len(d) + 1] = Last(p) => x = p
  <2> SUFFICES ASSUME NEW x \in Inside(t, d), Front(x) = d, x[Len(d) + 1] = Last(p)
               PROVE  x = p
    OBVIOUS
  <2>1. x \in Paths /\ Below(x, d)
    BY <1>1 DEF Inside, Under
  <2>2. x \in Seq(Name)
    BY <2>1, PathFacts
  <2>3. x # <<>>
    BY <1>1, <2>1, <2>2, PrefixOrder DEF Below
  <2>4. x = Join(d, Last(x)) /\ Last(x) \in Name
    BY <2>1, <2>3, PathFacts
  <2>5. Last(x) = x[Len(d) + 1]
    BY <1>1, <2>4, JoinNames
  <2> QED
    BY <1>1, <2>4, <2>5
<1>4. p[Len(d) + 1] = Last(p)
  BY <1>1, JoinNames
<1>5. p \in Inside(t, d) <=> resolve(p) = resolve(d) /\ Has(t, p)
  BY <1>1 DEF Inside, Under, Below
<1>6. resolve(p) = resolve(d) <=> p \notin Mounts
  <2>1. p \notin Mounts => resolve(p) = resolve(d)
    BY ResolveFront
  <2>2. p \in Mounts => resolve(p) = p
    BY ResolveFront
  <2>3. IsPrefix(resolve(d), d) /\ ~IsPrefix(p, d)
    BY <1>1, ResolveFacts, PathFacts
  <2> QED
    BY <2>1, <2>2, <2>3
<1> HIDE DEF d
<1>7. Last(p) \in ProviderReadDir(t, d) <=> p \notin Mounts /\ Has(t, p)
  BY <1>2, <1>3, <1>4, <1>5, <1>6 DEF d
<1> QED
  BY <1>7 DEF d

(* What is stored on the host can be listed.                                 *)
LEMMA ListingOfTree ==
  ASSUME TreeOK(tree, nextId)
  PROVE  ListingMatchesStat
<1> SUFFICES ASSUME \A m \in Mounts : HasDir(tree, m), NEW p \in Paths \ {<<>>}, ~InMemory(Front(p))
             PROVE  (Stat(tree, p) # Absent \/ LeadsNowhere(tree, p))
                      <=> (Last(p) \in ReadDir(tree, Front(p)).names)
  BY DEF ListingMatchesStat
<1>1. Stat(tree, p) # Absent \/ LeadsNowhere(tree, p) <=> Has(tree, p) \/ hasDescendantMount(p)
  <2>1. LeadsNowhere(tree, p) => HasFile(tree, p)
    BY VFSProvidersAssumption DEF LeadsNowhere, HasFile
  <2> QED
    BY <2>1, StatFacts, IdFacts DEF Has
<1>2. Last(p) \in ReadDir(tree, Front(p)).names <=>
        \/ HasDir(tree, Front(p)) /\ Last(p) \in ProviderReadDir(tree, Front(p))
        \/ Last(p) \in descendantMountEntries(Front(p))
  BY DEF ReadDir
<1>3. Last(p) \in descendantMountEntries(Front(p)) <=> Pinned(p)
  BY MountEntries
<1>4. Last(p) \in ProviderReadDir(tree, Front(p)) <=> p \notin Mounts /\ Has(tree, p)
  BY HostEntries
<1>5. Pinned(p) <=> p \in Mounts \/ hasDescendantMount(p)
  <2>1. p \in Seq(Name) /\ IsPrefix(p, p)
    BY PathFacts, PrefixOrder
  <2> QED
    BY <2>1 DEF Pinned, hasDescendantMount, Below
<1>6. p \in Mounts => Has(tree, p)
  BY DEF Has
<1>7. p \notin Mounts /\ Has(tree, p) => HasDir(tree, Front(p))
  <2>1. p \notin Mounts => p # resolve(p) /\ ~InMemory(p)
    BY ResolveFront DEF InMemory
  <2> QED
    BY <2>1 DEF TreeOK
<1> QED
  BY <1>1, <1>2, <1>3, <1>4, <1>5, <1>6, <1>7

(* In every behaviour a path of a host directory is listed by its parent exactly when*)
(* it can be looked up or is a link that leads nowhere, mounts and the directories only*)
(* they imply included (router.go:49-198, realfs.go:52-80).                 *)
THEOREM ListingMatchesStatHolds == Spec => []ListingMatchesStat
<1>1. Base => ListingMatchesStat
  BY ListingOfTree DEF Base
<1> QED
  BY <1>1, BaseHolds, PTL

-----------------------------------------------------------------------------
(* Handles and open files.                                                  *)

\* The calls that hold a handle no open file of the guest has: one the host has
\* given, or one the host has yet to take.
Giving(t) == InHand(t) /\ thread[t].op \in {"open", "create"} /\ Effective(t)
Taking(t) == InHand(t) /\ thread[t].op = "release" /\ Waiting(t)
Holds(t) == Giving(t) \/ Taking(t)
HeldFH(t) == IF thread[t].op = "release" THEN thread[t].fh ELSE Answer(t).fh

\* Every handle of the host has one owner: an open file or a call.
HandleOK ==
  /\ nextFH \in Nat /\ DOMAIN handles \subseteq 1..nextFH /\ hostOpen \subseteq 1..nextFH
  /\ \A h \in DOMAIN handles : handles[h].path \in Paths
  /\ (\A p \in Paths : ~Blocked("close", p)) => hostOpen = DOMAIN handles
  /\ conn =>
       /\ \A f \in files : f.fh \in DOMAIN handles
       /\ \A f, g \in files : f.fh = g.fh => f = g
       /\ \A t \in Threads : Holds(t) => HeldFH(t) \in DOMAIN handles /\ \A f \in files : f.fh # HeldFH(t)
       /\ \A t, u \in Threads : Holds(t) /\ Holds(u) /\ HeldFH(t) = HeldFH(u) => t = u
       /\ \A h \in DOMAIN handles : (\E f \in files : f.fh = h) \/ \E t \in Threads : Holds(t) /\ HeldFH(t) = h

\* A step leaves what a call holds as it is.
HoldsSame(t) == (Holds(t)' <=> Holds(t)) /\ (Holds(t) => HeldFH(t)' = HeldFH(t))

(* A call that is carried on holds the handle it held.                      *)
LEMMA KeptHolds ==
  ASSUME NEW t, Kept(t)
  PROVE  HoldsSame(t)
<1>1. CASE thread[t] = Nothing
  BY <1>1 DEF Kept, HoldsSame, Holds, Giving, Taking
<1>2. CASE thread[t] # Nothing
  <2>1. /\ thread'[t] # Nothing /\ thread'[t].op = thread[t].op /\ thread'[t].fh = thread[t].fh
        /\ Effective(t)' <=> Effective(t)
        /\ Effective(t) => Answer(t)' = Answer(t)
        /\ Waiting(t)' <=> Waiting(t)
    BY <1>2 DEF Kept
  <2> QED
    BY <1>2, <2>1 DEF HoldsSame, Holds, Giving, Taking, HeldFH
<1> QED
  BY <1>1, <1>2

(* Nothing about handles changes.                                            *)
LEMMA HandlesSame ==
  ASSUME HandleOK, UNCHANGED <<files, handles, nextFH, hostOpen>>,
         conn' => conn /\ \A t \in Threads : HoldsSame(t)
  PROVE  HandleOK'
BY DEF HandleOK, HoldsSame

(* A call begins: a release takes its handle over from the open file.       *)
LEMMA HandlesBegin ==
  ASSUME Base, HandleOK, NEW t \in Threads, NEW c, Begun(c), Start(t, c), UNCHANGED serverVars
  PROVE  HandleOK'
<1>1. UNCHANGED <<handles, nextFH, hostOpen, conn>>
  BY DEF serverVars
<1>2. /\ thread[t] = Nothing /\ thread'[t] # Nothing /\ ~Effective(t)' /\ Waiting(t)'
      /\ thread'[t].op = c.op /\ thread'[t].fh = c.fh
      /\ \A u \in Threads \ {t} : HoldsSame(u)
  <2>1. /\ thread[t] = Nothing /\ thread'[t] # Nothing /\ ~Effective(t)' /\ Waiting(t)'
        /\ SameCall([c EXCEPT !.locked = Locked(c)], thread'[t])
        /\ \A u \in Threads \ {t} : Kept(u)
    BY StartStep
  <2>2. thread'[t].op = c.op /\ thread'[t].fh = c.fh
    BY <2>1 DEF SameCall, Begun, IsCall
  <2> QED
    BY <2>1, <2>2, KeptHolds
<1>3. ~Holds(t) /\ (Holds(t)' <=> c.op = "release") /\ (Holds(t)' => HeldFH(t)' = c.fh)
  BY <1>2 DEF Holds, Giving, Taking, HeldFH
<1>4. CASE c.op # "release"
  <2>1. files' = files /\ HoldsSame(t)
    BY <1>3, <1>4 DEF Begun, HoldsSame
  <2> QED
    BY <1>1, <1>2, <2>1, HandlesSame
<1>5. CASE c.op = "release"
  <2>1. PICK f \in files : c.fh = f.fh /\ files' = files \ {f}
    BY <1>5 DEF Begun
  <2> QED
    BY <1>1, <1>2, <1>3, <1>5, <2>1 DEF HandleOK, HoldsSame
<1> QED
  BY <1>4, <1>5

(* A request is sent.                                                       *)
LEMMA HandlesSend ==
  ASSUME Base, HandleOK, NEW t \in Threads, Send(t)
  PROVE  HandleOK'
<1>1. /\ UNCHANGED <<files, handles, nextFH, hostOpen, conn>>
      /\ conn => \A u \in Threads : Kept(u)
  BY SendStep
<1> QED
  BY <1>1, KeptHolds, HandlesSame

(* An answer is read.                                                       *)
LEMMA HandlesReceive ==
  ASSUME Base, HandleOK, NEW t \in Threads, Receive(t)
  PROVE  HandleOK'
<1>1. /\ UNCHANGED <<files, handles, nextFH, hostOpen, conn>>
      /\ conn => /\ \A u \in Threads \ {t} : Kept(u)
                 /\ Kept(t) \/ (Ends(t) /\ ~Effective(t) /\ ~Waiting(t))
  BY ReceiveStep
<1>2. Ends(t) /\ ~Effective(t) /\ ~Waiting(t) => HoldsSame(t)
  BY DEF Ends, HoldsSame, Holds, Giving, Taking
<1> QED
  BY <1>1, <1>2, KeptHolds, HandlesSame

(* A call ends: an open or a create hands its handle to the open file.      *)
LEMMA HandlesFinish ==
  ASSUME Base, HandleOK, NEW t \in Threads, Finish(t), UNCHANGED serverVars
  PROVE  HandleOK'
<1>1. /\ Ends(t) /\ thread[t] # Nothing /\ Effective(t) /\ Answer(t) = thread[t].resp
      /\ \A u \in Threads \ {t} : HoldsSame(u)
      /\ UNCHANGED <<handles, nextFH, hostOpen, conn>>
      /\ files' = IF thread[t].op \in {"open", "create"} THEN files \cup {Opened(thread[t])} ELSE files
  BY FinishStep, KeptHolds
<1>2. ~Waiting(t)
  BY DEF Finish, Answered, Waiting, Base, WireOK
<1>3. ~Holds(t)'
  BY <1>1 DEF Ends, Holds, Giving, Taking
<1>4. CASE thread[t].op \notin {"open", "create"}
  <2>1. HoldsSame(t) /\ files' = files
    BY <1>1, <1>2, <1>3, <1>4 DEF HoldsSame, Holds, Giving, Taking
  <2> QED
    BY <1>1, <2>1, HandlesSame
<1>5. CASE thread[t].op \in {"open", "create"}
  <2>1. Holds(t) /\ HeldFH(t) = Opened(thread[t]).fh /\ files' = files \cup {Opened(thread[t])}
    BY <1>1, <1>5 DEF Holds, Giving, HeldFH, Opened
  <2> QED
    BY <1>1, <1>3, <2>1 DEF HandleOK, HoldsSame
<1> QED
  BY <1>4, <1>5

(* The host serves a request: it makes a handle or gives one up.            *)
LEMMA HandlesServe ==
  ASSUME Base, HandleOK, ServerStep, UNCHANGED guestVars
  PROVE  HandleOK'
<1>1. files' = files /\ lock' = lock /\ thread' = thread
  BY DEF guestVars
<1>2. CASE DispatchPath
  <2>1. Ready /\ inbox' = Nothing /\ outbox' # Nothing /\ conn' = conn /\ TreeOK(tree, nextId)'
    BY <1>2, DispatchPathStep DEF Base
  <2>2. /\ lock \in Threads /\ conn /\ ~Effective(lock) /\ thread[lock] # Nothing /\ inbox = Asks(thread[lock])
        /\ ~Waiting(lock)' /\ Answer(lock)' = outbox' /\ (Effective(lock)' <=> outbox'.err = "ok")
        /\ \A u \in Threads \ {lock} : HoldsSame(u)
    BY <2>1, ReadyFacts, ReplyStep, KeptHolds
  <2>3. inbox.op = thread[lock].op /\ inbox.op # "release" /\ PathRequest(inbox)
    <3>1. PathRequest(inbox)
      BY <1>2, DispatchPathStep
    <3>2. inbox.op # "release"
      BY <3>1 DEF PathRequest, PathOps
    <3> QED
      BY <2>2, <3>1, <3>2, AsksFacts
  <2>4. CASE inbox.op \in {"open", "create"} /\ outbox'.err = "ok"
    <3>1. /\ nextFH' = nextFH + 1
          /\ handles' = [h \in DOMAIN handles \cup {nextFH + 1} |->
                          IF h \in DOMAIN handles THEN handles[h]
                          ELSE Handle(outbox'.stat.id, inbox.path)]
          /\ hostOpen' = hostOpen \cup {nextFH + 1}
      BY <1>2, <2>4, DispatchPathStep DEF NewFH
    <3>2. outbox'.fh = nextFH + 1
      <4>1. CASE inbox.op = "open"
        <5>1. outbox' = Outcome(inbox).resp /\ TreeOK(tree, nextId) /\ inbox.op \notin Makers \cup Shifters
          BY <1>2, <4>1, DispatchPathStep DEF Base, Makers, Shifters, Removers
        <5> QED
          BY <2>3, <2>4, <4>1, <5>1, QuietOutcome DEF NewFH
      <4>2. CASE inbox.op = "create"
        <5>1. outbox' = Outcome(inbox).resp /\ TreeOK(tree, nextId) /\ inbox.op \in Makers
          BY <1>2, <4>2, DispatchPathStep DEF Base, Makers
        <5> QED
          BY <2>3, <2>4, <4>2, <5>1, MakerOutcome DEF NewFH
      <4> QED
        BY <2>4, <4>1, <4>2
    <3>3. ~Holds(lock) /\ Holds(lock)' /\ HeldFH(lock)' = nextFH + 1
      BY <1>1, <2>2, <2>3, <2>4, <3>2 DEF Holds, Giving, Taking, HeldFH
    <3>4. nextFH \in Nat /\ nextFH + 1 \notin DOMAIN handles /\ inbox.path \in Paths
      BY <2>3 DEF HandleOK, PathRequest
    <3>5. /\ DOMAIN handles' = DOMAIN handles \cup {nextFH + 1}
          /\ \A h \in DOMAIN handles' : handles'[h].path \in Paths
      BY <3>1, <3>4 DEF HandleOK, Handle
    <3>6. nextFH' \in Nat /\ DOMAIN handles' \subseteq 1..nextFH' /\ hostOpen' \subseteq 1..nextFH'
      BY <3>1, <3>5 DEF HandleOK
    <3>7. (\A p \in Paths : ~Blocked("close", p)) => hostOpen' = DOMAIN handles'
      BY <3>1, <3>5 DEF HandleOK
    <3>8. /\ \A f \in files : f.fh \in DOMAIN handles
          /\ \A u \in Threads : Holds(u) => HeldFH(u) \in DOMAIN handles
      BY <2>2 DEF HandleOK
    <3> QED
      BY <1>1, <2>2, <3>3, <3>4, <3>5, <3>6, <3>7, <3>8 DEF HandleOK, HoldsSame
  <2>5. CASE ~(inbox.op \in {"open", "create"} /\ outbox'.err = "ok")
    <3>1. UNCHANGED <<handles, nextFH, hostOpen>>
      BY <1>2, <2>5, DispatchPathStep
    <3>2. HoldsSame(lock)
      BY <1>1, <2>2, <2>3, <2>5 DEF HoldsSame, Holds, Giving, Taking
    <3> QED
      BY <1>1, <2>1, <2>2, <3>1, <3>2, HandlesSame
  <2> QED
    BY <2>4, <2>5
<1>3. CASE DispatchHandle
  <2>1. /\ Ready /\ inbox' = Nothing /\ outbox' # Nothing /\ conn' = conn /\ TreeOK(tree, nextId)'
        /\ inbox.op \in HandleOps \cup {"truncate"} /\ UNCHANGED <<handles, nextFH, hostOpen>>
    BY <1>3, DispatchHandleStep DEF Base
  <2>2. /\ lock \in Threads /\ inbox = Asks(thread[lock])
        /\ \A u \in Threads \ {lock} : HoldsSame(u)
    BY <2>1, ReadyFacts, ReplyStep, KeptHolds
  <2>3. thread[lock].op \in HandleOps \cup {"truncate"}
    BY <2>1, <2>2, AsksFacts
  <2>4. HoldsSame(lock)
    BY <1>1, <2>3 DEF HoldsSame, Holds, Giving, Taking, HandleOps
  <2> QED
    BY <1>1, <2>1, <2>2, <2>4, HandlesSame
<1>4. CASE DispatchRelease
  <2>1. /\ Ready /\ inbox' = Nothing /\ outbox' # Nothing /\ conn' = conn /\ TreeOK(tree, nextId)'
        /\ inbox.op = "release" /\ nextFH' = nextFH /\ Released(inbox.fh)
    BY <1>4, DispatchReleaseStep DEF Base
  <2>2. /\ lock \in Threads /\ inbox = Asks(thread[lock]) /\ conn /\ Waiting(lock) /\ thread[lock] # Nothing
        /\ ~Waiting(lock)'
        /\ \A u \in Threads \ {lock} : HoldsSame(u)
    BY <2>1, ReadyFacts, ReplyStep, KeptHolds
  <2>3. thread[lock].op = "release" /\ inbox.fh = thread[lock].fh
    BY <2>1, <2>2, AsksFacts
  <2> DEFINE fh == inbox.fh
  <2>4. Holds(lock) /\ ~Holds(lock)' /\ HeldFH(lock) = fh
    BY <1>1, <2>2, <2>3 DEF Holds, Giving, Taking, HeldFH
  <2>5. fh \in DOMAIN handles /\ handles[fh].path \in Paths
    BY <2>2, <2>4 DEF HandleOK
  <2>6. /\ handles' = [h \in DOMAIN handles \ {fh} |-> handles[h]]
        /\ hostOpen' \subseteq hostOpen
        /\ (\A p \in Paths : ~Blocked("close", p)) => hostOpen' = hostOpen \ {fh}
    BY <2>1, <2>5 DEF Released, HandleBlocked
  <2> HIDE DEF fh
  <2>7. /\ DOMAIN handles' = DOMAIN handles \ {fh}
        /\ \A h \in DOMAIN handles' : handles'[h].path \in Paths
    BY <2>6 DEF HandleOK
  <2>8. /\ nextFH' \in Nat /\ DOMAIN handles' \subseteq 1..nextFH' /\ hostOpen' \subseteq 1..nextFH'
        /\ (\A p \in Paths : ~Blocked("close", p)) => hostOpen' = DOMAIN handles'
    BY <2>1, <2>6, <2>7 DEF HandleOK
  <2> QED
    BY <1>1, <2>1, <2>2, <2>4, <2>7, <2>8 DEF HandleOK, HoldsSame
<1>5. CASE DispatchUnstated
  <2>1. /\ Ready /\ inbox' = Nothing /\ outbox' # Nothing /\ conn' = conn /\ TreeOK(tree, nextId)'
        /\ inbox.op = "create" /\ outbox'.err # "ok" /\ UNCHANGED <<handles, nextFH, hostOpen>>
    BY <1>5, DispatchUnstatedStep DEF Base
  <2>2. /\ lock \in Threads /\ inbox = Asks(thread[lock]) /\ ~Effective(lock)
        /\ (Effective(lock)' <=> outbox'.err = "ok")
        /\ \A u \in Threads \ {lock} : HoldsSame(u)
    BY <2>1, ReadyFacts, ReplyStep, KeptHolds
  <2>3. thread[lock].op = "create"
    BY <2>1, <2>2, AsksFacts
  <2>4. HoldsSame(lock)
    BY <1>1, <2>1, <2>2, <2>3 DEF HoldsSame, Holds, Giving, Taking
  <2> QED
    BY <1>1, <2>1, <2>2, <2>4, HandlesSame
<1> QED
  BY <1>2, <1>3, <1>4, <1>5 DEF ServerStep

(* Every step keeps the tables of handles and of open files matched.        *)
LEMMA HandlesStep ==
  ASSUME Base, HandleOK, [Next]_vars
  PROVE  HandleOK'
<1>1. ASSUME NEW t \in Threads, Begin(t), UNCHANGED serverVars
      PROVE  HandleOK'
  BY <1>1, BeginFacts, HandlesBegin
<1>2. ASSUME Disconnect, UNCHANGED guestVars
      PROVE  HandleOK'
  <2>1. ~conn' /\ UNCHANGED <<handles, nextFH, hostOpen, files>>
    BY <1>2, DisconnectStep
  <2> QED
    BY <2>1, HandlesSame
<1>3. ASSUME UNCHANGED vars
      PROVE  HandleOK'
  <2>1. UNCHANGED <<files, handles, nextFH, hostOpen, conn, thread, lock, inbox, outbox>>
    BY <1>3 DEF vars, serverVars, guestVars
  <2>2. \A t \in Threads : HoldsSame(t)
    BY <2>1 DEF HoldsSame, Holds, Giving, Taking, HeldFH, Effective, Waiting, Answer
  <2> QED
    BY <2>1, <2>2, HandlesSame
<1> QED
  BY <1>1, <1>2, <1>3, HandlesSend, HandlesReceive, HandlesFinish, HandlesServe
  DEF Next, GuestBegins, GuestSends, GuestReceives, GuestFinishes, HostServes, ConnectionBreaks

(* There are no handles at the start.                                       *)
LEMMA InitHandles ==
  ASSUME Init
  PROVE  HandleOK
<1>1. /\ handles = <<>> /\ nextFH = 0 /\ hostOpen = {} /\ files = {}
      /\ thread = [t \in Threads |-> Nothing]
  BY DEF Init, ServerInit, GuestInit
<1>2. \A t \in Threads : ~Holds(t)
  BY <1>1 DEF Holds, Giving, Taking
<1>3. DOMAIN handles = {}
  BY <1>1
<1> QED
  BY <1>1, <1>2, <1>3 DEF HandleOK

-----------------------------------------------------------------------------
(* Trees of nodes.                                                           *)

\* m is the entry n of j.
Edge(ns, j, n, m) == j \in DOMAIN ns /\ n \in DOMAIN ns[j].kids /\ ns[j].kids[n] = m

IsMap(f) == f = [x \in DOMAIN f |-> f[x]]

IsNode(x) ==
  /\ x = [path |-> x.path, isDir |-> x.isDir, kids |-> x.kids]
  /\ x.path \in Seq(Name) /\ IsMap(x.kids)

TreeShape(ns) ==
  /\ IsMap(ns)
  /\ Root \in DOMAIN ns /\ ns[Root].path = <<>>
  /\ \A j \in DOMAIN ns : IsNode(ns[j])
  /\ \A j \in DOMAIN ns : j[1] = "file" => ~ns[j].isDir /\ DOMAIN ns[j].kids = {}
  /\ \A j, n, m : Edge(ns, j, n, m) => n \in Name /\ m \in DOMAIN ns /\ m # Root

(* What a set that holds i, and the entries of what it holds, holds.         *)
LEMMA HangingIn ==
  ASSUME NEW ns, NEW i, NEW k \in Hanging(ns, i), NEW S, i \in S, i \in DOMAIN ns,
         \A j, n, m : Edge(ns, j, n, m) => m \in DOMAIN ns,
         \A j, n, m : j \in S /\ Edge(ns, j, n, m) => m \in S
  PROVE  k \in S /\ k \in DOMAIN ns
<1>1. k \in DOMAIN ns /\ \A T \in SUBSET (DOMAIN ns \ {k}) : i \in T => ~Closed(ns, T)
  BY DEF Hanging
<1>2. SUFFICES ASSUME k \notin S PROVE FALSE
  BY <1>1
<1> DEFINE T == {j \in DOMAIN ns : j \in S}
<1>3. T \in SUBSET (DOMAIN ns \ {k}) /\ i \in T
  BY <1>2
<1>4. Closed(ns, T)
  <2> SUFFICES ASSUME NEW j \in T, NEW n \in DOMAIN ns[j].kids
               PROVE  ns[j].kids[n] \in T
    BY DEF Closed
  <2>1. Edge(ns, j, n, ns[j].kids[n])
    BY DEF Edge
  <2> QED
    BY <2>1
<1> QED
  BY <1>1, <1>3, <1>4

(* And what every such set holds.                                            *)
LEMMA HangingWhen ==
  ASSUME NEW ns, NEW i, NEW k \in DOMAIN ns,
         \A T \in SUBSET DOMAIN ns :
           i \in T /\ (\A j, n, m : j \in T /\ Edge(ns, j, n, m) => m \in T) => k \in T
  PROVE  k \in Hanging(ns, i)
<1> SUFFICES ASSUME NEW T \in SUBSET (DOMAIN ns \ {k}), i \in T, Closed(ns, T)
             PROVE  FALSE
  BY DEF Hanging
<1>1. \A j, n, m : j \in T /\ Edge(ns, j, n, m) => m \in T
  BY DEF Closed, Edge
<1> QED
  BY <1>1

(* A node that hangs below the root has a parent.                            *)
LEMMA HasParent ==
  ASSUME NEW ns, Root \in DOMAIN ns, NEW k \in Hanging(ns, Root), k # Root,
         \A j, n, m : Edge(ns, j, n, m) => m \in DOMAIN ns
  PROVE  \E j, n : Edge(ns, j, n, k) /\ j # k
<1> DEFINE S == DOMAIN ns \ {k}
<1>1. SUFFICES ASSUME \A j, n : Edge(ns, j, n, k) => j = k PROVE FALSE
  OBVIOUS
<1>2. \A j, n, m : j \in S /\ Edge(ns, j, n, m) => m \in S
  BY <1>1
<1>3. k \in S
  BY <1>2, HangingIn
<1> QED
  BY <1>3

(* A tree cut down to what hangs below the root.                             *)
LEMMA PrunedFacts ==
  ASSUME NEW ns, TreeShape(ns), NEW ps, ps = Pruned(ns)
  PROVE  /\ TreeShape(ps) /\ DOMAIN ps = Hanging(ns, Root) /\ DOMAIN ps \subseteq DOMAIN ns
         /\ \A j \in DOMAIN ps : ps[j] = ns[j] /\ j \in Hanging(ps, Root)
         /\ \A j, n, m : Edge(ps, j, n, m) <=> Edge(ns, j, n, m) /\ j \in DOMAIN ps
<1>1. DOMAIN ps = Hanging(ns, Root) /\ \A j \in DOMAIN ps : ps[j] = ns[j]
  BY DEF Pruned
<1>2. DOMAIN ps \subseteq DOMAIN ns
  BY <1>1 DEF Hanging
<1>3. \A j, n, m : Edge(ps, j, n, m) <=> Edge(ns, j, n, m) /\ j \in DOMAIN ps
  BY <1>1, <1>2 DEF Edge
<1>4. Root \in DOMAIN ns /\ \A j, n, m : Edge(ns, j, n, m) => m \in DOMAIN ns
  BY DEF TreeShape
<1>5. Root \in DOMAIN ps
  BY <1>1, <1>4, HangingWhen
<1>6. ASSUME NEW j, NEW n, NEW m, Edge(ns, j, n, m), j \in DOMAIN ps
      PROVE  m \in DOMAIN ps
  <2>1. m \in DOMAIN ns
    BY <1>4, <1>6
  <2>2. ASSUME NEW T \in SUBSET DOMAIN ns, Root \in T,
               \A a, b, e : a \in T /\ Edge(ns, a, b, e) => e \in T
        PROVE  m \in T
    <3>1. j \in T
      BY <1>1, <1>4, <1>6, <2>2, HangingIn
    <3> QED
      BY <1>6, <2>2, <3>1
  <2>3. m \in Hanging(ns, Root)
    BY <2>1, <2>2, HangingWhen
  <2> QED
    BY <1>1, <2>3
<1>7. ASSUME NEW k \in DOMAIN ps
      PROVE  k \in Hanging(ps, Root)
  <2>1. ASSUME NEW T \in SUBSET DOMAIN ps, Root \in T,
               \A a, b, e : a \in T /\ Edge(ps, a, b, e) => e \in T
        PROVE  k \in T
    <3>1. \A a, b, e : a \in T /\ Edge(ns, a, b, e) => e \in T
      BY <1>3, <2>1
    <3> QED
      BY <1>1, <1>4, <1>7, <2>1, <3>1, HangingIn
  <2> QED
    BY <1>7, <2>1, HangingWhen
<1>8. TreeShape(ps)
  <2>1. IsMap(ps)
    BY DEF Pruned, IsMap
  <2>2. ps[Root].path = <<>>
    BY <1>1, <1>5 DEF TreeShape
  <2>3. \A j \in DOMAIN ps : /\ IsNode(ps[j])
                             /\ j[1] = "file" => ~ps[j].isDir /\ DOMAIN ps[j].kids = {}
    BY <1>1, <1>2 DEF TreeShape
  <2>4. \A j, n, m : Edge(ps, j, n, m) => n \in Name /\ m \in DOMAIN ps /\ m # Root
    BY <1>3, <1>6 DEF TreeShape
  <2> QED
    BY <1>5, <2>1, <2>2, <2>3, <2>4 DEF TreeShape
<1> QED
  BY <1>1, <1>2, <1>3, <1>7, <1>8

(* A tree in which all hangs below the root stays as it is.                  *)
LEMMA PrunedSame ==
  ASSUME NEW ns, TreeShape(ns), \A j \in DOMAIN ns : j \in Hanging(ns, Root)
  PROVE  Pruned(ns) = ns
<1>1. Hanging(ns, Root) = DOMAIN ns
  BY DEF Hanging
<1> QED
  BY <1>1 DEF Pruned, TreeShape, IsMap

\* A node with other entries, with an entry more or another one, with an entry less.
WithKids(ns, d, ks) == [ns EXCEPT ![d].kids = ks]
Put(ns, d, name, i) ==
  [ns EXCEPT ![d].kids = [n \in (DOMAIN @) \cup {name} |-> IF n = name THEN i ELSE @[n]]]
Cut(ns, d, name) ==
  [ns EXCEPT ![d].kids = [n \in (DOMAIN @) \ {name} |-> @[n]]]

(* One node gets other entries.                                              *)
LEMMA NewKids ==
  ASSUME NEW ns, \A j \in DOMAIN ns : IsNode(ns[j]), IsMap(ns),
         NEW d \in DOMAIN ns, NEW ks, IsMap(ks), NEW us,
         us = WithKids(ns, d, ks)
  PROVE  /\ IsMap(us) /\ DOMAIN us = DOMAIN ns
         /\ \A j \in DOMAIN us : /\ IsNode(us[j]) /\ us[j].path = ns[j].path /\ us[j].isDir = ns[j].isDir
                                 /\ j # d => us[j] = ns[j]
         /\ us[d].kids = ks
<1>1. /\ DOMAIN us = DOMAIN ns /\ IsMap(us)
      /\ us[d] = [ns[d] EXCEPT !.kids = ks] /\ \A j \in DOMAIN ns \ {d} : us[j] = ns[j]
  <2>1. us = [j \in DOMAIN ns |-> IF j = d THEN [ns[d] EXCEPT !.kids = ks] ELSE ns[j]]
    BY DEF WithKids, IsMap
  <2>2. DOMAIN us = DOMAIN ns
    BY <2>1
  <2>3. IsMap(us)
    BY <2>1 DEF IsMap
  <2> QED
    BY <2>1, <2>2, <2>3
<1>2. IsNode(us[d]) /\ us[d].path = ns[d].path /\ us[d].isDir = ns[d].isDir /\ us[d].kids = ks
  BY <1>1 DEF IsNode
<1> QED
  BY <1>1, <1>2

-----------------------------------------------------------------------------
(* The three edits of the tree of nodes.                                    *)

(* An entry is added or replaced.                                            *)
LEMMA PutFacts ==
  ASSUME NEW ns, TreeShape(ns), NEW d \in DOMAIN ns, d[1] # "file", NEW name \in Name, NEW i \in DOMAIN ns,
         i # Root, NEW us,
         us = Put(ns, d, name, i)
  PROVE  /\ TreeShape(us) /\ DOMAIN us = DOMAIN ns
         /\ \A j \in DOMAIN us : us[j].path = ns[j].path
         /\ \A j, n, m : Edge(us, j, n, m) <=> IF j = d /\ n = name THEN m = i ELSE Edge(ns, j, n, m)
<1> DEFINE old == ns[d].kids
           ks == [n \in (DOMAIN old) \cup {name} |-> IF n = name THEN i ELSE old[n]]
<1>1. us = WithKids(ns, d, ks)
  BY DEF WithKids, Put, Cut
<1>2. /\ DOMAIN ks = (DOMAIN old) \cup {name} /\ IsMap(ks)
      /\ \A n \in DOMAIN ks : ks[n] = IF n = name THEN i ELSE old[n]
  BY DEF IsMap
<1> HIDE DEF ks
<1>3. (\A j \in DOMAIN ns : IsNode(ns[j])) /\ IsMap(ns)
  BY DEF TreeShape
<1>4. /\ IsMap(us) /\ DOMAIN us = DOMAIN ns
      /\ \A j \in DOMAIN us : /\ IsNode(us[j]) /\ us[j].path = ns[j].path /\ us[j].isDir = ns[j].isDir
                              /\ j # d => us[j] = ns[j]
      /\ us[d].kids = ks
  BY <1>1, <1>2, <1>3, NewKids
<1>5. ASSUME NEW j, NEW n, NEW m
      PROVE  Edge(us, j, n, m) <=> IF j = d /\ n = name THEN m = i ELSE Edge(ns, j, n, m)
  <2>1. CASE j # d
    BY <1>4, <2>1 DEF Edge
  <2>2. CASE j = d
    BY <1>2, <1>4, <2>2 DEF Edge
  <2> QED
    BY <2>1, <2>2
<1>6. TreeShape(us)
  <2>1. Root \in DOMAIN us /\ us[Root].path = <<>>
    BY <1>4 DEF TreeShape
  <2>2. \A j \in DOMAIN us : j[1] = "file" => ~us[j].isDir /\ DOMAIN us[j].kids = {}
    BY <1>4 DEF TreeShape
  <2>3. \A j, n, m : Edge(us, j, n, m) => n \in Name /\ m \in DOMAIN us /\ m # Root
    BY <1>4, <1>5 DEF TreeShape
  <2> QED
    BY <1>4, <2>1, <2>2, <2>3 DEF TreeShape
<1> QED
  BY <1>4, <1>5, <1>6

(* An entry is taken out.                                                    *)
LEMMA CutFacts ==
  ASSUME NEW ns, TreeShape(ns), NEW d \in DOMAIN ns, NEW name, NEW us,
         us = Cut(ns, d, name)
  PROVE  /\ TreeShape(us) /\ DOMAIN us = DOMAIN ns
         /\ \A j \in DOMAIN us : us[j].path = ns[j].path
         /\ \A j, n, m : Edge(us, j, n, m) <=> ~(j = d /\ n = name) /\ Edge(ns, j, n, m)
<1> DEFINE old == ns[d].kids
           ks == [n \in (DOMAIN old) \ {name} |-> old[n]]
<1>1. us = WithKids(ns, d, ks)
  BY DEF WithKids, Put, Cut
<1>2. /\ DOMAIN ks = (DOMAIN old) \ {name} /\ IsMap(ks)
      /\ \A n \in DOMAIN ks : ks[n] = old[n]
  BY DEF IsMap
<1> HIDE DEF ks
<1>3. (\A j \in DOMAIN ns : IsNode(ns[j])) /\ IsMap(ns)
  BY DEF TreeShape
<1>4. /\ IsMap(us) /\ DOMAIN us = DOMAIN ns
      /\ \A j \in DOMAIN us : /\ IsNode(us[j]) /\ us[j].path = ns[j].path /\ us[j].isDir = ns[j].isDir
                              /\ j # d => us[j] = ns[j]
      /\ us[d].kids = ks
  BY <1>1, <1>2, <1>3, NewKids
<1>5. ASSUME NEW j, NEW n, NEW m
      PROVE  Edge(us, j, n, m) <=> ~(j = d /\ n = name) /\ Edge(ns, j, n, m)
  <2>1. CASE j # d
    BY <1>4, <2>1 DEF Edge
  <2>2. CASE j = d
    BY <1>2, <1>4, <2>2 DEF Edge
  <2> QED
    BY <2>1, <2>2
<1>6. TreeShape(us)
  <2>1. Root \in DOMAIN us /\ us[Root].path = <<>>
    BY <1>4 DEF TreeShape
  <2>2. \A j \in DOMAIN us : j[1] = "file" => ~us[j].isDir /\ DOMAIN us[j].kids = {}
    BY <1>2, <1>4 DEF TreeShape
  <2>3. \A j, n, m : Edge(us, j, n, m) => n \in Name /\ m \in DOMAIN us /\ m # Root
    BY <1>4, <1>5 DEF TreeShape
  <2> QED
    BY <1>4, <2>1, <2>2, <2>3 DEF TreeShape
<1> QED
  BY <1>4, <1>5, <1>6

(* Lookup, Mkdir and Create.                                                 *)
LEMMA EnteredFacts ==
  ASSUME TreeShape(nodes), NEW c, c.dir \in DOMAIN nodes, c.dir[1] # "file", c.name \in Name,
         c.path \in Paths, NEW i, i = EntryInode(c), i # Root,
         i[1] = "file" => ~(c.op = "mkdir" \/ c.resp.stat.kind = "dir"),
         NEW ns, ns = Entered(c)
  PROVE  /\ TreeShape(ns) /\ DOMAIN ns = DOMAIN nodes \cup {i}
         /\ \A j \in DOMAIN nodes : ns[j].path = nodes[j].path
         /\ i \notin DOMAIN nodes => ns[i].path = c.path
         /\ \A j, n, m : Edge(ns, j, n, m) <=> IF j = c.dir /\ n = c.name THEN m = i ELSE Edge(nodes, j, n, m)
<1> DEFINE isDir == c.op = "mkdir" \/ c.resp.stat.kind = "dir"
           new == [path |-> c.path, isDir |-> isDir, kids |-> <<>>]
           all == [j \in DOMAIN nodes \cup {i} |-> IF j \in DOMAIN nodes THEN nodes[j] ELSE new]
<1>1. ns = Put(all, c.dir, c.name, i)
  BY DEF Entered, Put
<1>2. IsNode(new) /\ DOMAIN new.kids = {} /\ new.path = c.path /\ (i[1] = "file" => ~new.isDir)
  <2>1. new.kids = <<>> /\ new.path = c.path /\ new.isDir = isDir
    OBVIOUS
  <2>5. c.path \in Seq(Name)
    BY PathFacts
  <2>2. DOMAIN new.kids = {}
    BY <2>1
  <2>3. IsMap(new.kids)
    BY <2>1 DEF IsMap
  <2>4. i[1] = "file" => ~new.isDir
    BY <2>1
  <2> QED
    BY <2>1, <2>2, <2>3, <2>4, <2>5 DEF IsNode
<1> HIDE DEF new
<1>3. /\ DOMAIN all = DOMAIN nodes \cup {i} /\ IsMap(all)
      /\ \A j \in DOMAIN nodes : all[j] = nodes[j]
      /\ i \notin DOMAIN nodes => all[i] = new
  BY DEF IsMap
<1> HIDE DEF all
<1>4. \A j, n, m : Edge(all, j, n, m) <=> Edge(nodes, j, n, m)
  BY <1>2, <1>3 DEF Edge
<1>5. TreeShape(all)
  <2>1. Root \in DOMAIN all /\ all[Root].path = <<>>
    BY <1>3 DEF TreeShape
  <2>2. \A j \in DOMAIN all : /\ IsNode(all[j])
                              /\ j[1] = "file" => ~all[j].isDir /\ DOMAIN all[j].kids = {}
    BY <1>2, <1>3 DEF TreeShape
  <2>3. \A j, n, m : Edge(all, j, n, m) => n \in Name /\ m \in DOMAIN all /\ m # Root
    BY <1>3, <1>4 DEF TreeShape
  <2> QED
    BY <1>3, <2>1, <2>2, <2>3 DEF TreeShape
<1>6. i \in DOMAIN all /\ c.dir \in DOMAIN all
  BY <1>3
<1>7. /\ TreeShape(ns) /\ DOMAIN ns = DOMAIN all
      /\ \A j \in DOMAIN ns : ns[j].path = all[j].path
      /\ \A j, n, m : Edge(ns, j, n, m) <=> IF j = c.dir /\ n = c.name THEN m = i ELSE Edge(all, j, n, m)
  BY <1>1, <1>5, <1>6, PutFacts
<1> QED
  BY <1>2, <1>3, <1>4, <1>7

(* Unlink and Rmdir.                                                         *)
LEMMA WithoutFacts ==
  ASSUME TreeShape(nodes), NEW d \in DOMAIN nodes, NEW name, NEW ns, ns = Without(d, name)
  PROVE  /\ TreeShape(ns) /\ DOMAIN ns = DOMAIN nodes
         /\ \A j \in DOMAIN nodes : ns[j].path = nodes[j].path
         /\ \A j, n, m : Edge(ns, j, n, m) <=> ~(j = d /\ n = name) /\ Edge(nodes, j, n, m)
<1>1. ns = Cut(nodes, d, name)
  BY DEF Without, Cut
<1> QED
  BY <1>1, CutFacts

(* The cached paths of a subtree.                                            *)
LEMMA UpdatedFacts ==
  ASSUME TreeShape(nodes), NEW i \in DOMAIN nodes, i # Root, NEW old \in Seq(Name), NEW new \in Seq(Name),
         NEW ns, ns = updateCachedPathsAfterRename(i, old, new)
  PROVE  /\ TreeShape(ns) /\ DOMAIN ns = DOMAIN nodes
         /\ \A j \in DOMAIN nodes :
              ns[j].path = IF j \in Subtree(i) /\ IsPrefix(old, nodes[j].path)
                           THEN Rebase(nodes[j].path, old, new) ELSE nodes[j].path
         /\ \A j, n, m : Edge(ns, j, n, m) <=> Edge(nodes, j, n, m)
<1>1. /\ DOMAIN ns = DOMAIN nodes /\ IsMap(ns)
      /\ \A j \in DOMAIN nodes :
           ns[j] = IF j \in Subtree(i)
                   THEN [nodes[j] EXCEPT !.path = rebasePathForRename(@, old, new)]
                   ELSE nodes[j]
  BY DEF updateCachedPathsAfterRename, IsMap
<1>2. ASSUME NEW j \in DOMAIN nodes
      PROVE  /\ IsNode(ns[j]) /\ ns[j].isDir = nodes[j].isDir /\ ns[j].kids = nodes[j].kids
             /\ ns[j].path = IF j \in Subtree(i) /\ IsPrefix(old, nodes[j].path)
                             THEN Rebase(nodes[j].path, old, new) ELSE nodes[j].path
  <2>1. IsNode(nodes[j])
    BY <1>2 DEF TreeShape
  <2>2. CASE j \notin Subtree(i)
    BY <1>1, <2>1, <2>2
  <2>3. CASE j \in Subtree(i)
    <3> DEFINE x == nodes[j]
               p == rebasePathForRename(x.path, old, new)
    <3>1. p = IF IsPrefix(old, x.path) THEN Rebase(x.path, old, new) ELSE x.path
      BY DEF rebasePathForRename
    <3>2. p \in Seq(Name)
      BY <2>1, <3>1, RebaseFacts DEF IsNode
    <3>3. ns[j] = [x EXCEPT !.path = p]
      BY <1>1, <2>3
    <3> HIDE DEF x, p
    <3>4. IsNode(x)
      BY <2>1 DEF x
    <3>5. /\ ns[j].path = p /\ ns[j].isDir = x.isDir /\ ns[j].kids = x.kids
          /\ ns[j] = [path |-> ns[j].path, isDir |-> ns[j].isDir, kids |-> ns[j].kids]
      BY <3>3, <3>4 DEF IsNode
    <3>6. IsMap(x.kids)
      BY <3>4 DEF IsNode
    <3>7. IsNode(ns[j])
      BY <3>2, <3>5, <3>6 DEF IsNode
    <3> QED
      BY <2>3, <3>1, <3>5, <3>7 DEF x
  <2> QED
    BY <2>2, <2>3
<1>3. \A j, n, m : Edge(ns, j, n, m) <=> Edge(nodes, j, n, m)
  BY <1>1, <1>2 DEF Edge
<1>4. Root \notin Subtree(i)
  <2>1. SUFFICES ASSUME Root \in Hanging(nodes, i) PROVE FALSE
    BY DEF Subtree
  <2> DEFINE S == DOMAIN nodes \ {Root}
  <2>2. /\ i \in S /\ (\A j, n, m : Edge(nodes, j, n, m) => m \in DOMAIN nodes)
        /\ \A j, n, m : j \in S /\ Edge(nodes, j, n, m) => m \in S
    BY DEF TreeShape
  <2>3. Root \in S
    BY <2>1, <2>2, HangingIn
  <2> QED
    BY <2>3
<1>5. TreeShape(ns)
  <2>1. Root \in DOMAIN ns /\ ns[Root].path = <<>>
    BY <1>1, <1>4 DEF TreeShape
  <2>2. \A j \in DOMAIN ns : /\ IsNode(ns[j])
                             /\ j[1] = "file" => ~ns[j].isDir /\ DOMAIN ns[j].kids = {}
    BY <1>1, <1>2 DEF TreeShape
  <2>3. \A j, n, m : Edge(ns, j, n, m) => n \in Name /\ m \in DOMAIN ns /\ m # Root
    BY <1>1, <1>3 DEF TreeShape
  <2> QED
    BY <1>1, <2>1, <2>2, <2>3 DEF TreeShape
<1> QED
  BY <1>1, <1>2, <1>3, <1>5

(* Rename.                                                                   *)
LEMMA RenamedFacts ==
  ASSUME TreeShape(nodes), NEW c, c.dir \in DOMAIN nodes, c.name \in Kids(c.dir), c.todir \in DOMAIN nodes,
         c.todir[1] # "file", c.toname \in Name, c.path \in Seq(Name), c.new \in Seq(Name),
         NEW i, i = nodes[c.dir].kids[c.name], NEW ns, ns = Renamed(c)
  PROVE  /\ TreeShape(ns) /\ DOMAIN ns = DOMAIN nodes /\ i \in DOMAIN nodes /\ i # Root
         /\ Edge(nodes, c.dir, c.name, i)
         /\ \A j \in DOMAIN nodes :
              ns[j].path = IF j \in Subtree(i) /\ IsPrefix(c.path, nodes[j].path)
                           THEN Rebase(nodes[j].path, c.path, c.new) ELSE nodes[j].path
         /\ \A j, n, m : Edge(ns, j, n, m) <=>
              IF j = c.todir /\ n = c.toname THEN m = i
              ELSE ~(j = c.dir /\ n = c.name) /\ Edge(nodes, j, n, m)
<1> DEFINE us == updateCachedPathsAfterRename(i, c.path, c.new)
           cut == Cut(us, c.dir, c.name)
<1>1. ns = Put(cut, c.todir, c.toname, i)
  BY DEF Renamed, Put, Cut
<1>2. Edge(nodes, c.dir, c.name, i)
  BY DEF Edge, Kids
<1>3. i \in DOMAIN nodes /\ i # Root
  BY <1>2 DEF TreeShape
<1> HIDE DEF us
<1>4. /\ TreeShape(us) /\ DOMAIN us = DOMAIN nodes
      /\ \A j \in DOMAIN nodes :
           us[j].path = IF j \in Subtree(i) /\ IsPrefix(c.path, nodes[j].path)
                        THEN Rebase(nodes[j].path, c.path, c.new) ELSE nodes[j].path
      /\ \A j, n, m : Edge(us, j, n, m) <=> Edge(nodes, j, n, m)
  BY <1>3, UpdatedFacts DEF us
<1>5. cut = Cut(us, c.dir, c.name)
  OBVIOUS
<1> HIDE DEF cut
<1>6. /\ TreeShape(cut) /\ DOMAIN cut = DOMAIN us
      /\ \A j \in DOMAIN cut : cut[j].path = us[j].path
      /\ \A j, n, m : Edge(cut, j, n, m) <=> ~(j = c.dir /\ n = c.name) /\ Edge(us, j, n, m)
  BY <1>4, <1>5, CutFacts
<1>7. i \in DOMAIN cut /\ c.todir \in DOMAIN cut
  BY <1>3, <1>4, <1>6
<1>8. /\ TreeShape(ns) /\ DOMAIN ns = DOMAIN cut
      /\ \A j \in DOMAIN ns : ns[j].path = cut[j].path
      /\ \A j, n, m : Edge(ns, j, n, m) <=> IF j = c.todir /\ n = c.toname THEN m = i ELSE Edge(cut, j, n, m)
  BY <1>1, <1>3, <1>6, <1>7, PutFacts
<1> QED
  BY <1>2, <1>3, <1>4, <1>6, <1>8

-----------------------------------------------------------------------------
(* What the tree of nodes keeps up while the connection is up and nothing    *)
(* has tangled it.                                                           *)

V == conn /\ ~tangled

PathOf(k) == nodes[k].path

NodesOK ==
  /\ TreeShape(nodes)
  /\ \A j \in DOMAIN nodes : j \in Hanging(nodes, Root)

\* A number of the host's own belongs to a path of the host.  Any other that is made
\* from a firm path stays with it, and a mount keeps that path where it is.
InodesOK(ns) ==
  \A k \in DOMAIN ns \ {Root} :
    /\ k[1] = "host" => ns[k].path \in Paths /\ ~InMemory(ns[k].path)
    /\ k[1] # "host" /\ (Firm(k[2]) \/ Firm(ns[k].path)) => ns[k].path = k[2] /\ Pinned(k[2])

\* The cached path of an entry is its directory's with its name, where paths are firm.
StructOK(ns) ==
  \A j, n, m : Edge(ns, j, n, m) =>
    /\ Firm(ns[m].path) \/ Firm(Join(ns[j].path, n)) => ns[m].path = Join(ns[j].path, n)
    /\ ns[j].path \in Paths /\ ~InMemory(ns[j].path) => Firm(ns[m].path)

\* What hangs in a tree of nodes hangs at the end of its path.
Placed == NodesOK /\ InodesOK(nodes) /\ StructOK(nodes)

(* The parent of a node with a firm path.                                    *)
LEMMA FirmParent ==
  ASSUME Placed, NEW j, NEW n, NEW m, Edge(nodes, j, n, m), Firm(PathOf(m))
  PROVE  /\ PathOf(m) = Join(PathOf(j), n) /\ PathOf(m) # <<>> /\ PathOf(j) = Front(PathOf(m))
         /\ n = Last(PathOf(m)) /\ Firm(PathOf(j)) /\ PathOf(j) \in Seq(Name) /\ n \in Name
         /\ j \in DOMAIN nodes /\ m \in DOMAIN nodes
<1>1. PathOf(m) = Join(PathOf(j), n)
  BY DEF Placed, StructOK, PathOf
<1>2. n \in Name /\ j \in DOMAIN nodes /\ m \in DOMAIN nodes
  BY DEF Placed, NodesOK, TreeShape, Edge
<1>3. PathOf(j) \in Seq(Name)
  BY <1>2 DEF Placed, NodesOK, TreeShape, IsNode, PathOf
<1>4. PathOf(m) # <<>> /\ PathOf(j) = Front(PathOf(m)) /\ n = Last(PathOf(m))
  BY <1>1, <1>2, <1>3, JoinFacts
<1>5. Firm(PathOf(j))
  BY <1>4, FirmFront
<1> QED
  BY <1>1, <1>2, <1>3, <1>4, <1>5

(* Every node but the root has a parent.                                     *)
LEMMA NodeParent ==
  ASSUME Placed, NEW k \in DOMAIN nodes, k # Root
  PROVE  \E j, n : Edge(nodes, j, n, k)
BY HasParent DEF Placed, NodesOK, TreeShape

(* The root's path is firm, and no other node has it.                        *)
LEMMA RootFacts ==
  ASSUME Placed
  PROVE  /\ Root \in DOMAIN nodes /\ PathOf(Root) = <<>> /\ Firm(<<>>) /\ <<>> \in Seq(Name)
         /\ \A k \in DOMAIN nodes : PathOf(k) = <<>> => k = Root
<1>1. Root \in DOMAIN nodes /\ PathOf(Root) = <<>>
  BY DEF Placed, NodesOK, TreeShape, PathOf
<1>2. <<>> \in Mounts /\ <<>> \in Paths /\ <<>> \in Seq(Name)
  BY MountFacts
<1>3. Firm(<<>>)
  BY <1>2, PrefixOrder DEF Firm, Pinned
<1>4. ASSUME NEW k \in DOMAIN nodes, PathOf(k) = <<>>, k # Root
      PROVE  FALSE
  <2>1. PICK j, n : Edge(nodes, j, n, k)
    BY <1>4, NodeParent
  <2> QED
    BY <1>3, <1>4, <2>1, FirmParent
<1> QED
  BY <1>1, <1>2, <1>3, <1>4

(* A firm path is the path of one node at most.                              *)
LEMMA UniquePath ==
  ASSUME Placed, NEW j \in DOMAIN nodes, NEW k \in DOMAIN nodes, PathOf(j) = PathOf(k), Firm(PathOf(j))
  PROVE  j = k
<1> DEFINE Twice(p) == Firm(p) /\ \E a, b \in DOMAIN nodes : a # b /\ PathOf(a) = p /\ PathOf(b) = p
           S == {Len(p) : p \in {q \in Paths : Twice(q)}}
<1>1. SUFFICES ASSUME j # k PROVE FALSE
  OBVIOUS
<1>2. Twice(PathOf(j)) /\ PathOf(j) \in Paths
  BY <1>1 DEF Firm
<1>3. \A p \in Paths : p \in Seq(Name) /\ Len(p) \in Nat
  BY PathFacts
<1>4. S \in SUBSET Nat /\ S # {}
  BY <1>2, <1>3
<1>5. PICK l \in S : \A m \in S : l <= m
  BY <1>4, LeastNumber
<1>6. PICK p \in Paths : Twice(p) /\ l = Len(p)
  BY <1>5
<1>7. PICK a \in DOMAIN nodes, b \in DOMAIN nodes : a # b /\ PathOf(a) = p /\ PathOf(b) = p
  BY <1>6
<1>8. Firm(p) /\ p # <<>>
  BY <1>6, <1>7, RootFacts
<1>9. a # Root /\ b # Root
  BY <1>7, <1>8, RootFacts
<1>10. PICK i, n : Edge(nodes, i, n, a)
  BY <1>9, NodeParent
<1>11. PICK i2, n2 : Edge(nodes, i2, n2, b)
  BY <1>9, NodeParent
<1>12. /\ PathOf(i) = Front(p) /\ n = Last(p) /\ PathOf(i2) = Front(p) /\ n2 = Last(p)
       /\ Firm(Front(p)) /\ i \in DOMAIN nodes /\ i2 \in DOMAIN nodes
  BY <1>7, <1>8, <1>10, <1>11, FirmParent
<1>13. i # i2
  BY <1>7, <1>10, <1>11, <1>12 DEF Edge
<1>14. Twice(Front(p)) /\ Front(p) \in Paths
  BY <1>12, <1>13 DEF Firm
<1>15. Len(Front(p)) \in S
  BY <1>14
<1>16. Len(p) = Len(Front(p)) + 1 /\ Len(Front(p)) \in Nat
  BY <1>3, <1>8, <1>14, PathFacts
<1> QED
  BY <1>5, <1>6, <1>15, <1>16

\* A call's path is the directory's with its name.
At(d, n, p) == d \in DOMAIN nodes /\ p = Join(PathOf(d), n)

\* A directory that never leads a name to a firm path.
Off(d, n, p) ==
  IF d = Root THEN p = Join(<<>>, n) ELSE d[1] # "host" /\ (Firm(d[2]) => p = Join(d[2], n))

(* The entry at the end of a firm path.                                      *)
LEMMA EntryAt ==
  ASSUME Placed, NEW d, NEW n \in Name, NEW p, At(d, n, p), Firm(p)
  PROVE  /\ p # <<>> /\ PathOf(d) = Front(p) /\ PathOf(d) \in Seq(Name) /\ Firm(PathOf(d))
         /\ \A m : Edge(nodes, d, n, m) => PathOf(m) = p
         /\ \A m \in DOMAIN nodes : PathOf(m) = p => Edge(nodes, d, n, m)
<1>1. d \in DOMAIN nodes /\ p = Join(PathOf(d), n) /\ PathOf(d) \in Seq(Name)
  BY DEF At, Placed, NodesOK, TreeShape, IsNode, PathOf
<1>2. p # <<>> /\ PathOf(d) = Front(p) /\ n = Last(p)
  BY <1>1, JoinFacts
<1>3. Firm(PathOf(d))
  BY <1>2, FirmFront
<1>4. \A m : Edge(nodes, d, n, m) => PathOf(m) = p
  BY <1>1 DEF Placed, StructOK, PathOf
<1>5. ASSUME NEW m \in DOMAIN nodes, PathOf(m) = p
      PROVE  Edge(nodes, d, n, m)
  <2>1. m # Root
    BY <1>2, <1>5, RootFacts
  <2>2. PICK j, k : Edge(nodes, j, k, m)
    BY <2>1, NodeParent
  <2>3. PathOf(j) = Front(p) /\ k = Last(p) /\ j \in DOMAIN nodes
    BY <1>5, <2>2, FirmParent
  <2>4. j = d
    BY <1>1, <1>2, <1>3, <2>3, UniquePath
  <2> QED
    BY <1>2, <2>2, <2>3, <2>4
<1> QED
  BY <1>1, <1>2, <1>3, <1>4, <1>5

(* Two calls on one firm path are in one directory.                          *)
LEMMA SameSpot ==
  ASSUME Placed, NEW d, NEW n \in Name, NEW e, NEW m \in Name, NEW p, At(d, n, p), At(e, m, p), Firm(p)
  PROVE  d = e /\ n = m
<1>1. PathOf(d) = Front(p) /\ PathOf(e) = Front(p) /\ Firm(PathOf(d))
  BY EntryAt
<1>2. d = e
  <2>1. d \in DOMAIN nodes /\ e \in DOMAIN nodes
    BY DEF At
  <2>2. PathOf(d) = PathOf(e)
    BY <1>1
  <2> QED
    BY <1>1, <2>1, <2>2, UniquePath
<1>3. PathOf(d) \in Seq(Name) /\ p = Join(PathOf(d), n) /\ p = Join(PathOf(d), m)
  <2>1. PathOf(d) \in Seq(Name)
    BY EntryAt
  <2> QED
    BY <1>2, <2>1 DEF At
<1>4. n = Last(Join(PathOf(d), n))
  BY <1>3, JoinFacts
<1>5. m = Last(Join(PathOf(d), m))
  BY <1>3, JoinFacts
<1> QED
  BY <1>2, <1>3, <1>4, <1>5

(* A directory off the firm paths, whatever its path has become.             *)
LEMMA OffFacts ==
  ASSUME Placed, NEW d \in DOMAIN nodes, NEW n \in Name, NEW p \in Paths, Off(d, n, p), ~Firm(p)
  PROVE  /\ ~Firm(Join(PathOf(d), n)) /\ ~(PathOf(d) \in Paths /\ ~InMemory(PathOf(d)))
         /\ \A m : Edge(nodes, d, n, m) => ~Firm(PathOf(m))
<1>1. PathOf(d) \in Seq(Name)
  BY DEF Placed, NodesOK, TreeShape, IsNode, PathOf
<1>2. Firm(PathOf(d)) => p = Join(PathOf(d), n)
  <2>1. CASE d = Root
    BY <2>1, RootFacts DEF Off
  <2>2. CASE d # Root
    BY <2>2 DEF Off, Placed, InodesOK, PathOf
  <2> QED
    BY <2>1, <2>2
<1>3. ~Firm(Join(PathOf(d), n))
  <2>1. SUFFICES ASSUME Firm(Join(PathOf(d), n)) PROVE FALSE
    OBVIOUS
  <2>2. Join(PathOf(d), n) # <<>> /\ Front(Join(PathOf(d), n)) = PathOf(d)
    BY <1>1, JoinFacts
  <2>3. Firm(PathOf(d))
    BY <2>1, <2>2, FirmFront
  <2> QED
    BY <1>2, <2>1, <2>3
<1>4. ASSUME PathOf(d) \in Paths, ~InMemory(PathOf(d))
      PROVE  FALSE
  <2>1. Firm(PathOf(d))
    BY <1>4 DEF Firm
  <2>2. p = Join(PathOf(d), n)
    BY <1>2, <2>1
  <2> QED
    BY <1>4, <2>2, FirmChild
<1>5. \A m : Edge(nodes, d, n, m) => ~Firm(PathOf(m))
  BY <1>3 DEF Placed, StructOK, PathOf
<1> QED
  BY <1>3, <1>4, <1>5

-----------------------------------------------------------------------------
(* Edits away from the firm paths.                                          *)

(* A tree in its place, pruned.                                              *)
LEMMA PlacedAfter ==
  ASSUME NEW ns, TreeShape(ns), InodesOK(ns), StructOK(ns), nodes' = Pruned(ns)
  PROVE  /\ Placed' /\ DOMAIN nodes' = Hanging(ns, Root) /\ DOMAIN nodes' \subseteq DOMAIN ns
         /\ \A k \in DOMAIN nodes' : nodes'[k] = ns[k]
         /\ \A j, n, m : Edge(nodes', j, n, m) <=> Edge(ns, j, n, m) /\ j \in DOMAIN nodes'
<1> DEFINE ps == nodes'
<1>1. ps = Pruned(ns)
  OBVIOUS
<1> HIDE DEF ps
<1>2. /\ TreeShape(ps) /\ DOMAIN ps = Hanging(ns, Root) /\ DOMAIN ps \subseteq DOMAIN ns
      /\ \A j \in DOMAIN ps : ps[j] = ns[j] /\ j \in Hanging(ps, Root)
      /\ \A j, n, m : Edge(ps, j, n, m) <=> Edge(ns, j, n, m) /\ j \in DOMAIN ps
  BY <1>1, PrunedFacts
<1>3. InodesOK(ps)
  BY <1>2 DEF InodesOK
<1>4. StructOK(ps)
  <2>1. \A j, n, m : Edge(ps, j, n, m) => Edge(ns, j, n, m) /\ ps[j] = ns[j] /\ ps[m] = ns[m]
    BY <1>2 DEF TreeShape
  <2> QED
    BY <2>1 DEF StructOK
<1>5. Placed'
  BY <1>2, <1>3, <1>4 DEF ps, Placed, NodesOK
<1> QED
  BY <1>2, <1>5 DEF ps

(* The nodes that hang as before: all but those of a set that holds, with a  *)
(* node, its entries.                                                        *)
LEMMA StillHangs ==
  ASSUME Placed, NEW ns, TreeShape(ns), DOMAIN nodes \subseteq DOMAIN ns, NEW L,
         \A j, n, m : j \in L /\ Edge(nodes, j, n, m) => m \in L,
         \A j, n, m : Edge(nodes, j, n, m) /\ m \notin L => Edge(ns, j, n, m) \/ m \in Hanging(ns, Root),
         NEW k \in DOMAIN nodes, k \notin L
  PROVE  k \in Hanging(ns, Root)
<1>1. ASSUME NEW T \in SUBSET DOMAIN ns, Root \in T,
             \A j, n, m : j \in T /\ Edge(ns, j, n, m) => m \in T
      PROVE  k \in T
  <2>1. /\ Root \in DOMAIN ns /\ Root \in DOMAIN nodes
        /\ \A j, n, m : Edge(ns, j, n, m) => m \in DOMAIN ns
        /\ \A j, n, m : Edge(nodes, j, n, m) => m \in DOMAIN nodes
        /\ k \in Hanging(nodes, Root)
    BY DEF Placed, NodesOK, TreeShape
  <2>2. \A m : m \in Hanging(ns, Root) => m \in T
    BY <1>1, <2>1, HangingIn
  <2> DEFINE S == T \cup L
  <2>3. \A j, n, m : j \in S /\ Edge(nodes, j, n, m) => m \in S
    BY <1>1, <2>2
  <2>4. k \in S
    BY <1>1, <2>1, <2>3, HangingIn
  <2> QED
    BY <2>4
<1> QED
  BY <1>1, HangingWhen

\* The nodes whose path is not firm, or lies at or below x.
Loose(x) == {j \in DOMAIN nodes : ~Firm(PathOf(j)) \/ IsPrefix(x, PathOf(j))}

(* What hangs below such a node is such a node.                             *)
LEMMA LooseClosed ==
  ASSUME Placed, NEW x \in Seq(Name), NEW j, NEW n, NEW m, Edge(nodes, j, n, m), j \in Loose(x)
  PROVE  m \in Loose(x)
<1>1. m \in DOMAIN nodes
  BY DEF Placed, NodesOK, TreeShape
<1>2. CASE ~Firm(PathOf(m))
  BY <1>1, <1>2 DEF Loose
<1>3. CASE Firm(PathOf(m))
  <2>1. /\ PathOf(m) = Join(PathOf(j), n) /\ Firm(PathOf(j)) /\ PathOf(j) \in Seq(Name) /\ n \in Name
    BY <1>3, FirmParent
  <2>2. IsPrefix(x, PathOf(j))
    BY <2>1 DEF Loose
  <2>3. IsPrefix(x, PathOf(m))
    BY <2>1, <2>2, PrefixOfJoin
  <2> QED
    BY <1>1, <2>3 DEF Loose
<1> QED
  BY <1>2, <1>3

\* A change that leaves what is firm as it is.
LooseEdit(ns) ==
  /\ TreeShape(ns) /\ DOMAIN nodes \subseteq DOMAIN ns
  /\ \A j \in DOMAIN nodes : IF Firm(PathOf(j)) THEN ns[j].path = PathOf(j) ELSE ~Firm(ns[j].path)
  /\ \A k \in DOMAIN ns \ DOMAIN nodes : ~Firm(ns[k].path) /\ k[1] # "host" /\ ~Firm(k[2])
  /\ \A j, n, m : Edge(ns, j, n, m) =>
       \/ Edge(nodes, j, n, m)
       \/ /\ ~Firm(Join(ns[j].path, n)) /\ ~Firm(ns[m].path)
          /\ ~(ns[j].path \in Paths /\ ~InMemory(ns[j].path))
  /\ \A j, n, m : Edge(nodes, j, n, m) /\ Firm(PathOf(m)) => Edge(ns, j, n, m)

(* An edit of that kind leaves the firm part of the tree as it is.          *)
LEMMA LooseEditFacts ==
  ASSUME Placed, NEW ns, LooseEdit(ns)
  PROVE  /\ InodesOK(ns) /\ StructOK(ns)
         /\ \A k \in DOMAIN nodes : Firm(PathOf(k)) => k \in Hanging(ns, Root)
         /\ \A k \in DOMAIN ns : Firm(ns[k].path) => k \in DOMAIN nodes /\ PathOf(k) = ns[k].path
<1>1. \A k \in DOMAIN ns : Firm(ns[k].path) => k \in DOMAIN nodes /\ PathOf(k) = ns[k].path
  BY DEF LooseEdit
<1>2. InodesOK(ns)
  <2> SUFFICES ASSUME NEW k \in DOMAIN ns \ {Root}
               PROVE  /\ k[1] = "host" => ns[k].path \in Paths /\ ~InMemory(ns[k].path)
                      /\ k[1] # "host" /\ (Firm(k[2]) \/ Firm(ns[k].path)) => ns[k].path = k[2] /\ Pinned(k[2])
    BY DEF InodesOK
  <2>1. CASE k \notin DOMAIN nodes
    BY <2>1 DEF LooseEdit
  <2>2. CASE k \in DOMAIN nodes
    <3>1. /\ k[1] = "host" => PathOf(k) \in Paths /\ ~InMemory(PathOf(k))
          /\ k[1] # "host" /\ (Firm(k[2]) \/ Firm(PathOf(k))) => PathOf(k) = k[2] /\ Pinned(k[2])
      BY <2>2 DEF Placed, InodesOK, PathOf
    <3>2. IF Firm(PathOf(k)) THEN ns[k].path = PathOf(k) ELSE ~Firm(ns[k].path)
      BY <2>2 DEF LooseEdit
    <3>3. PathOf(k) \in Paths /\ ~InMemory(PathOf(k)) => Firm(PathOf(k))
      BY DEF Firm
    <3> QED
      BY <3>1, <3>2, <3>3
  <2> QED
    BY <2>1, <2>2
<1>3. StructOK(ns)
  <2> SUFFICES ASSUME NEW j, NEW n, NEW m, Edge(ns, j, n, m)
               PROVE  /\ Firm(ns[m].path) \/ Firm(Join(ns[j].path, n)) => ns[m].path = Join(ns[j].path, n)
                      /\ ns[j].path \in Paths /\ ~InMemory(ns[j].path) => Firm(ns[m].path)
    BY DEF StructOK
  <2>1. CASE ~Edge(nodes, j, n, m)
    BY <2>1 DEF LooseEdit
  <2>2. CASE Edge(nodes, j, n, m)
    <3>1. /\ n \in Name /\ j \in DOMAIN nodes /\ m \in DOMAIN nodes /\ j \in DOMAIN ns /\ m \in DOMAIN ns
          /\ ns[j].path \in Seq(Name)
      BY <2>2 DEF Placed, NodesOK, TreeShape, IsNode, Edge, LooseEdit
    <3>2. /\ Firm(PathOf(m)) \/ Firm(Join(PathOf(j), n)) => PathOf(m) = Join(PathOf(j), n)
          /\ PathOf(j) \in Paths /\ ~InMemory(PathOf(j)) => Firm(PathOf(m))
      BY <2>2 DEF Placed, StructOK, PathOf
    <3>3. Firm(Join(ns[j].path, n)) => Firm(ns[j].path)
      BY <3>1, JoinFacts, FirmFront
    <3>4. Firm(PathOf(m)) => Firm(PathOf(j))
      BY <2>2, FirmParent
    <3>5. /\ IF Firm(PathOf(j)) THEN ns[j].path = PathOf(j) ELSE ~Firm(ns[j].path)
          /\ IF Firm(PathOf(m)) THEN ns[m].path = PathOf(m) ELSE ~Firm(ns[m].path)
      BY <3>1 DEF LooseEdit
    <3>6. ns[j].path \in Paths /\ ~InMemory(ns[j].path) => Firm(ns[j].path)
      BY DEF Firm
    <3> QED
      BY <3>2, <3>3, <3>4, <3>5, <3>6
  <2> QED
    BY <2>1, <2>2
<1>4. ASSUME NEW k \in DOMAIN nodes, Firm(PathOf(k))
      PROVE  k \in Hanging(ns, Root)
  <2> DEFINE L == {j \in DOMAIN nodes : ~Firm(PathOf(j))}
  <2>1. \A j, n, m : Edge(nodes, j, n, m) => m \in DOMAIN nodes
    BY DEF Placed, NodesOK, TreeShape
  <2>2. \A j, n, m : j \in L /\ Edge(nodes, j, n, m) => m \in L
    BY <2>1, FirmParent
  <2>3. \A j, n, m : Edge(nodes, j, n, m) /\ m \notin L => Edge(ns, j, n, m)
    BY <2>1 DEF LooseEdit
  <2>4. TreeShape(ns) /\ DOMAIN nodes \subseteq DOMAIN ns /\ k \notin L
    BY <1>4 DEF LooseEdit
  <2> HIDE DEF L
  <2> QED
    BY <1>4, <2>2, <2>3, <2>4, StillHangs
<1> QED
  BY <1>1, <1>2, <1>3, <1>4

\* The nodes and entries at firm paths after a step are those before it.
FirmSame ==
  /\ \A k \in DOMAIN nodes : Firm(PathOf(k)) => k \in DOMAIN nodes' /\ PathOf(k)' = PathOf(k)
  /\ \A k \in DOMAIN nodes' : Firm(PathOf(k)') => k \in DOMAIN nodes /\ PathOf(k) = PathOf(k)'
  /\ \A j, n : \A m \in DOMAIN nodes :
       Firm(PathOf(m)) => (Edge(nodes', j, n, m) <=> Edge(nodes, j, n, m))

(* And so does the pruning after it.                                        *)
LEMMA LooseStep ==
  ASSUME Placed, NEW ns, LooseEdit(ns), nodes' = Pruned(ns)
  PROVE  Placed' /\ FirmSame
<1>1. /\ InodesOK(ns) /\ StructOK(ns)
      /\ \A k \in DOMAIN nodes : Firm(PathOf(k)) => k \in Hanging(ns, Root)
      /\ \A k \in DOMAIN ns : Firm(ns[k].path) => k \in DOMAIN nodes /\ PathOf(k) = ns[k].path
  BY LooseEditFacts
<1>2. TreeShape(ns)
  BY DEF LooseEdit
<1>3. /\ Placed' /\ DOMAIN nodes' = Hanging(ns, Root) /\ DOMAIN nodes' \subseteq DOMAIN ns
      /\ \A k \in DOMAIN nodes' : nodes'[k] = ns[k]
      /\ \A j, n, m : Edge(nodes', j, n, m) <=> Edge(ns, j, n, m) /\ j \in DOMAIN nodes'
  BY <1>1, <1>2, PlacedAfter
<1>4. \A k \in DOMAIN nodes : Firm(PathOf(k)) => k \in DOMAIN nodes' /\ PathOf(k)' = PathOf(k)
  BY <1>1, <1>3 DEF LooseEdit, PathOf
<1>5. \A k \in DOMAIN nodes' : Firm(PathOf(k)') => k \in DOMAIN nodes /\ PathOf(k) = PathOf(k)'
  BY <1>1, <1>3 DEF PathOf
<1>6. ASSUME NEW j, NEW n, NEW m, Firm(PathOf(m)), Edge(nodes, j, n, m)
      PROVE  Edge(nodes', j, n, m)
  <2>1. Edge(ns, j, n, m)
    BY <1>6 DEF LooseEdit
  <2>2. j \in DOMAIN nodes /\ Firm(PathOf(j))
    BY <1>6, FirmParent
  <2> QED
    BY <1>3, <1>4, <2>1, <2>2
<1>7. ASSUME NEW j, NEW n, NEW m \in DOMAIN nodes, Firm(PathOf(m)), Edge(nodes', j, n, m)
      PROVE  Edge(nodes, j, n, m)
  <2>1. Edge(ns, j, n, m)
    BY <1>3, <1>7
  <2>2. ns[m].path = PathOf(m)
    BY <1>7 DEF LooseEdit
  <2> QED
    BY <1>7, <2>1, <2>2 DEF LooseEdit
<1>8. \A j, n : \A m \in DOMAIN nodes :
        Firm(PathOf(m)) => (Edge(nodes', j, n, m) <=> Edge(nodes, j, n, m))
  BY <1>6, <1>7
<1> QED
  BY <1>3, <1>4, <1>5, <1>8 DEF FirmSame

-----------------------------------------------------------------------------
(* The tree of nodes follows the host.                                      *)

\* The path leads to the node's file.
Leads(p, k) ==
  IF InMemory(p) THEN k \in {<<"dir", p>>, <<"file", p>>} /\ (k[1] = "dir" => Stat(tree, p).kind = "dir")
  ELSE Stat(tree, p) # Absent /\ k = Inode(p, Stat(tree, p))

\* The host has moved or removed, and the guest has not heard.
Shifted(t) == InHand(t) /\ thread[t].op \in Shifters /\ Effective(t)
Carries(t, x) == thread[t].op = "rename" /\ IsPrefix(thread[t].path, x)
Clears(t, x) == x = IF thread[t].op = "rename" THEN thread[t].new ELSE thread[t].path

\* No path of the host leads to the node's file.
Gone(k) == k[1] = "host" => \A p \in Paths : ~InMemory(p) => Id(tree, p) # k[2]

\* Where the file of a node is.
Follows(k) ==
  /\ (\A t \in Threads : Shifted(t) => ~Carries(t, PathOf(k)) /\ ~Clears(t, PathOf(k))) => Leads(PathOf(k), k)
  /\ \A t \in Threads : Shifted(t) =>
       /\ Carries(t, PathOf(k)) => LET q == Rebase(PathOf(k), thread[t].path, thread[t].new)
                                   IN  q \in Paths /\ Leads(q, k)
       /\ Clears(t, PathOf(k)) => Gone(k)

FollowOK == \A k \in DOMAIN nodes \ {Root} : Firm(PathOf(k)) => Follows(k)

HostIds == \A k \in DOMAIN nodes : k[1] = "host" => k[2] \in 1..nextId - 1

\* One call and another.
PairsOK ==
  /\ \A t \in Threads : InHand(t) =>
       /\ thread[t].op # "rename" => thread[t].new = thread[t].path
       /\ thread[t].op \in DirOps =>
            thread[t].dir[1] # "file" /\ thread[t].dir \in thread[t].locked /\ thread[t].name \in Name
       /\ thread[t].op = "rename" =>
            /\ thread[t].todir[1] # "file" /\ thread[t].todir \in thread[t].locked
            /\ thread[t].toname \in Name /\ thread[t].path # thread[t].new
  /\ \A t, u \in Threads : t # u /\ InHand(t) /\ InHand(u) =>
       /\ thread[t].op # "lookup" \/ thread[u].op # "lookup" \/ thread[t].path = thread[u].path
            => thread[t].locked \cap thread[u].locked = {}
       /\ Races(thread[t], thread[u]) => thread[t].raced
  /\ \A t \in Threads : ~Tangles(t)

\* Where the entry of a call is.
DirOK(t) ==
  thread[t].op \in DirOps =>
    /\ IF Firm(thread[t].path)
       THEN /\ At(thread[t].dir, thread[t].name, thread[t].path)
            /\ thread[t].op \in Makers => \A m : ~Edge(nodes, thread[t].dir, thread[t].name, m)
            /\ thread[t].op \in Shifters => \E m : Edge(nodes, thread[t].dir, thread[t].name, m)
       ELSE Off(thread[t].dir, thread[t].name, thread[t].path)
    /\ thread[t].op = "rename" =>
         IF Firm(thread[t].new) THEN At(thread[t].todir, thread[t].toname, thread[t].new)
         ELSE Off(thread[t].todir, thread[t].toname, thread[t].new)

\* What an answer says.
AnsOK(t) ==
  Effective(t) =>
    /\ thread[t].op \in {"lookup"} \cup Makers =>
         /\ thread[t].op = "lookup" => Answer(t).stat.kind \in {"file", "dir"}
         /\ thread[t].op = "create" => Answer(t).stat.kind = "file"
         /\ ~InMemory(thread[t].path) => Answer(t).stat.id \in 0..nextId - 1
         /\ Firm(thread[t].path) =>
              /\ Leads(thread[t].path, InodeInAnswer(thread[t].op, thread[t].path, Answer(t).stat))
              /\ thread[t].op = "lookup" /\ InMemory(thread[t].path) =>
                   Answer(t).stat.kind = Stat(tree, thread[t].path).kind
    /\ thread[t].op = "rename" =>
         /\ resolve(thread[t].path) = resolve(thread[t].new)
         /\ Firm(thread[t].path) =>
              /\ ~InMemory(thread[t].path) /\ ~IsPrefix(thread[t].path, thread[t].new)
              /\ ~IsPrefix(thread[t].new, thread[t].path)

\* What a call that waits relies on.
WaitOK(t) ==
  Waiting(t) /\ ~thread[t].raced =>
    /\ thread[t].op = "rename" /\ ~InMemory(thread[t].path) =>
         \A x \in Inside(tree, thread[t].path) : Rebase(x, thread[t].path, thread[t].new) \in Paths
    /\ thread[t].op = "open" /\ thread[t].node[1] = "host" =>
         /\ ~InMemory(thread[t].path) /\ Id(tree, thread[t].path) = thread[t].node[2]
         /\ Has(tree, thread[t].path)

CallOK(t) == InHand(t) => DirOK(t) /\ AnsOK(t) /\ WaitOK(t)

Track == Placed /\ HostIds /\ FollowOK /\ PairsOK /\ \A t \in Threads : CallOK(t)

(* What leads to a node.                                                     *)
LEMMA LeadsFacts ==
  ASSUME NEW p \in Paths, NEW k, Leads(p, k)
  PROVE  /\ k[1] = "host" => ~InMemory(p) /\ Id(tree, p) = k[2] /\ Id(tree, p) # None /\ Has(tree, p)
         /\ k[1] # "host" => k[1] \in {"dir", "file"} /\ k[2] = p /\ (Firm(p) => Pinned(p))
         /\ k # Root
         /\ ~InMemory(p) /\ ~Pinned(p) => k[1] = "host"
<1>1. CASE InMemory(p)
  <2>1. k = <<"dir", p>> \/ k = <<"file", p>>
    BY <1>1 DEF Leads
  <2> QED
    BY <1>1, <2>1 DEF Firm, Root
<1>2. CASE ~InMemory(p)
  <2>1. /\ Stat(tree, p) # Absent
        /\ k = IF Stat(tree, p).id # None THEN <<"host", Stat(tree, p).id>> ELSE <<Stat(tree, p).kind, p>>
    BY <1>2 DEF Leads, Inode
  <2>2. /\ Stat(tree, p).id = Id(tree, p) /\ Stat(tree, p).kind \in {"file", "dir"}
        /\ Id(tree, p) = None => hasDescendantMount(p)
        /\ Id(tree, p) # None => Has(tree, p)
    BY <2>1, StatFacts, IdFacts
  <2>3. hasDescendantMount(p) => Pinned(p)
    BY DEF hasDescendantMount, Below, Pinned
  <2>4. CASE Id(tree, p) # None
    <3>1. k = <<"host", Id(tree, p)>>
      BY <2>1, <2>2, <2>4
    <3> QED
      BY <1>2, <2>2, <2>4, <3>1 DEF Root
  <2>5. CASE Id(tree, p) = None
    <3>1. k = <<Stat(tree, p).kind, p>>
      BY <2>1, <2>2, <2>5
    <3> QED
      BY <2>2, <2>3, <2>5, <3>1 DEF Root
  <2> QED
    BY <2>4, <2>5
<1> QED
  BY <1>1, <1>2

(* What a host path with something to be looked up leads to.                 *)
LEMMA LeadsHost ==
  ASSUME NEW p \in Paths, ~InMemory(p), Id(tree, p) # None, NEW k
  PROVE  Leads(p, k) <=> k = <<"host", Id(tree, p)>>
<1>1. Stat(tree, p) # Absent /\ Stat(tree, p).id = Id(tree, p) /\ Id(tree, p) # None
  BY StatFacts, IdFacts
<1> QED
  BY <1>1 DEF Leads, Inode

\* A call keeps what it was begun with.
SameFields(t) ==
  /\ thread'[t] # Nothing <=> thread[t] # Nothing
  /\ thread[t] # Nothing =>
       LET c == thread[t] d == thread'[t]
       IN /\ d.op = c.op /\ d.dir = c.dir /\ d.name = c.name /\ d.todir = c.todir /\ d.toname = c.toname
          /\ d.node = c.node /\ d.path = c.path /\ d.new = c.new /\ d.locked = c.locked
          /\ c.raced => d.raced

(* What is kept of a call.                                                   *)
LEMMA KeptFields ==
  ASSUME NEW t, Kept(t)
  PROVE  /\ SameFields(t) /\ (Shifted(t)' <=> Shifted(t))
         /\ Effective(t) /\ InHand(t) => Answer(t)' = Answer(t)
         /\ InHand(t) => (Effective(t)' <=> Effective(t)) /\ (Waiting(t)' <=> Waiting(t))
BY DEF Kept, SameFields, Shifted

(* Two calls of which one moves or removes, and the host has done so.        *)
LEMMA ShiftedApart ==
  ASSUME Base, PairsOK, NEW t \in Threads, NEW u \in Threads, t # u, Shifted(t), InHand(u), thread[u].op \in DirOps,
         NEW x \in {thread[t].path, thread[t].new}, NEW y \in {thread[u].path, thread[u].new}
  PROVE  ~IsPrefix(x, y) /\ ~IsPrefix(y, x)
<1>1. thread[t] # Nothing /\ thread[t].op \in Shifters /\ Effective(t)
  BY DEF Shifted
<1>2. ~thread[t].raced
  BY <1>1 DEF PairsOK, Tangles
<1>3. ~Races(thread[t], thread[u])
  BY <1>1, <1>2 DEF PairsOK
<1> QED
  BY <1>1, <1>3 DEF Races

(* Races are about operations and paths.                                     *)
LEMMA RacesSame ==
  ASSUME NEW t, NEW u, InHand(t), InHand(u), SameFields(t), SameFields(u)
  PROVE  Races(thread'[t], thread'[u]) <=> Races(thread[t], thread[u])
BY DEF SameFields, Races

(* Calls go on or end.                                                       *)
LEMMA PairsStay ==
  ASSUME Base, PairsOK, \A t \in Threads : SameFields(t) \/ Ends(t), Noted, ~tangled'
  PROVE  PairsOK'
<1>1. \A t \in Threads : ~Tangles(t)'
  BY DEF Noted
<1>2. ASSUME NEW t \in Threads, thread'[t] # Nothing
      PROVE  SameFields(t) /\ thread[t] # Nothing
  BY <1>2 DEF SameFields, Ends
<1>3. ASSUME NEW t \in Threads, thread'[t] # Nothing
      PROVE  /\ thread'[t].op # "rename" => thread'[t].new = thread'[t].path
             /\ thread'[t].op \in DirOps =>
                  thread'[t].dir[1] # "file" /\ thread'[t].dir \in thread'[t].locked /\ thread'[t].name \in Name
             /\ thread'[t].op = "rename" =>
                  /\ thread'[t].todir[1] # "file" /\ thread'[t].todir \in thread'[t].locked
                  /\ thread'[t].toname \in Name /\ thread'[t].path # thread'[t].new
  BY <1>2, <1>3 DEF PairsOK, SameFields
<1>4. ASSUME NEW t \in Threads, NEW u \in Threads, t # u, thread'[t] # Nothing, thread'[u] # Nothing
      PROVE  /\ thread'[t].op # "lookup" \/ thread'[u].op # "lookup" \/ thread'[t].path = thread'[u].path
                  => thread'[t].locked \cap thread'[u].locked = {}
             /\ Races(thread'[t], thread'[u]) => thread'[t].raced
  <2>1. SameFields(t) /\ SameFields(u) /\ thread[t] # Nothing /\ thread[u] # Nothing
    BY <1>2, <1>4
  <2>2. Races(thread'[t], thread'[u]) <=> Races(thread[t], thread[u])
    BY <2>1, RacesSame
  <2> QED
    BY <1>4, <2>1, <2>2 DEF PairsOK, SameFields
<1> QED
  BY <1>1, <1>3, <1>4 DEF PairsOK

(* The tree of nodes and the host stay as they are.                          *)
LEMMA FollowStays ==
  ASSUME FollowOK, UNCHANGED <<nodes, tree>>,
         \A t \in Threads : (Shifted(t)' <=> Shifted(t)) /\ (Shifted(t) => SameFields(t))
  PROVE  FollowOK'
<1> SUFFICES ASSUME NEW k \in DOMAIN nodes' \ {Root}, Firm(PathOf(k)')
             PROVE  Follows(k)'
  BY DEF FollowOK, Firm
<1>1. k \in DOMAIN nodes \ {Root} /\ PathOf(k)' = PathOf(k)
  BY DEF PathOf
<1>2. Follows(k)
  BY <1>1 DEF FollowOK
<1>3. (\A p : Leads(p, k)' <=> Leads(p, k)) /\ (Gone(k)' <=> Gone(k))
  BY DEF Leads, Gone
<1>4. ASSUME NEW t \in Threads, Shifted(t)
      PROVE  /\ \A x : (Carries(t, x)' <=> Carries(t, x)) /\ (Clears(t, x)' <=> Clears(t, x))
             /\ thread'[t].path = thread[t].path /\ thread'[t].new = thread[t].new
  BY <1>4 DEF Shifted, SameFields, Carries, Clears
<1> QED
  BY <1>1, <1>2, <1>3, <1>4 DEF Follows

(* A call that is carried on keeps what is known of it.                     *)
LEMMA CallStays ==
  ASSUME UNCHANGED <<nodes, tree, nextId>>, NEW t, Kept(t), CallOK(t)
  PROVE  CallOK(t)'
<1> SUFFICES ASSUME thread'[t] # Nothing
             PROVE  DirOK(t)' /\ AnsOK(t)' /\ WaitOK(t)'
  BY DEF CallOK
<1>1. /\ SameFields(t) /\ thread[t] # Nothing
      /\ Effective(t) => Answer(t)' = Answer(t)
      /\ (Effective(t)' <=> Effective(t)) /\ (Waiting(t)' <=> Waiting(t))
  BY KeptFields DEF Kept
<1>2. DirOK(t) /\ AnsOK(t) /\ WaitOK(t)
  BY <1>1 DEF CallOK
<1>3. DirOK(t)'
  <2>1. \A d, n, p : (At(d, n, p)' <=> At(d, n, p)) /\ (Off(d, n, p)' <=> Off(d, n, p))
    BY DEF At, Off, PathOf
  <2> QED
    BY <1>1, <1>2, <2>1 DEF DirOK, SameFields
<1>4. AnsOK(t)'
  <2>1. \A p, k : Leads(p, k)' <=> Leads(p, k)
    BY DEF Leads
  <2> QED
    BY <1>1, <1>2, <2>1 DEF AnsOK, SameFields
<1>5. WaitOK(t)'
  BY <1>1, <1>2 DEF WaitOK, SameFields
<1> QED
  BY <1>3, <1>4, <1>5

-----------------------------------------------------------------------------
(* A call begins, and is carried on.                                        *)

(* What a call that begins locks.                                            *)
LEMMA LockedFacts ==
  ASSUME NEW c
  PROVE  /\ c.op \in DirOps => c.dir \in Locked(c)
         /\ c.op = "rename" => c.todir \in Locked(c)
<1>1. CASE c.op = "rename"
  BY <1>1 DEF Locked
<1>2. CASE c.op = "rmdir"
  BY <1>2 DEF Locked
<1>3. CASE c.op \in DirOps \ {"rename", "rmdir"}
  BY <1>3 DEF Locked
<1> QED
  BY <1>1, <1>2, <1>3

(* The fields of a call that has begun.                                      *)
LEMMA BegunFields ==
  ASSUME Base, NEW t \in Threads, NEW c, Begun(c), Start(t, c), UNCHANGED serverVars
  PROVE  /\ thread'[t].op = c.op /\ thread'[t].dir = c.dir /\ thread'[t].name = c.name
         /\ thread'[t].todir = c.todir /\ thread'[t].toname = c.toname /\ thread'[t].node = c.node
         /\ thread'[t].path = c.path /\ thread'[t].new = c.new /\ thread'[t].locked = Locked(c)
         /\ IsCall(c)
<1>1. IsCall(c)
  BY DEF Begun
<1>2. SameCall([c EXCEPT !.locked = Locked(c)], thread'[t]) /\ thread'[t].locked = Locked(c)
  BY StartStep
<1> QED
  BY <1>1, <1>2 DEF SameCall, IsCall

(* A call begins beside the others: the kernel's locks and the mark of a race.*)
LEMMA PairsBegin ==
  ASSUME Base, Track, NEW t \in Threads, NEW c, Begun(c), Start(t, c), UNCHANGED serverVars, Noted, ~tangled'
  PROVE  PairsOK'
<1> DEFINE d == thread'[t]
<1>1. /\ d.op = c.op /\ d.dir = c.dir /\ d.name = c.name
      /\ d.todir = c.todir /\ d.toname = c.toname
      /\ d.path = c.path /\ d.new = c.new /\ d.locked = Locked(c)
  BY BegunFields
<1>2. /\ thread[t] = Nothing /\ d # Nothing
      /\ d.raced <=> \E v \in Threads : thread[v] # Nothing /\ Races(c, thread[v])
      /\ \A u \in Threads \ {t} : /\ Kept(u)
                                  /\ thread[u] # Nothing /\ Races(thread[u], c) => thread'[u].raced
  BY StartStep
<1> HIDE DEF d
<1>3. \A x \in Threads : ~Tangles(x)'
  BY DEF Noted
<1>4. \A u \in Threads \ {t} : SameFields(u)
  BY <1>2, KeptFields
<1>5. /\ d.op # "rename" => d.new = d.path
      /\ d.op \in DirOps => d.dir[1] # "file" /\ d.dir \in d.locked /\ d.name \in Name
      /\ d.op = "rename" =>
           /\ d.todir[1] # "file" /\ d.todir \in d.locked
           /\ d.toname \in Name /\ d.path # d.new
  <2>1. TreeShape(nodes)
    BY DEF Track, Placed, NodesOK
  <2>2. \A j \in DOMAIN nodes : nodes[j].isDir => j[1] # "file"
    BY <2>1 DEF TreeShape
  <2>3. c.op \in DirOps => c.dir[1] # "file" /\ c.name \in Name
    <3>1. c.op \in DirOps => c.dir[1] # "file"
      BY <2>2 DEF Begun, IsDir
    <3>2. c.op \in {"lookup"} \cup Makers => c.name \in Name
      BY DEF Begun
    <3>3. c.op \in Shifters => c.name \in Name
      <4>1. c.op \in Shifters => Edge(nodes, c.dir, c.name, c.node)
        BY DEF Begun, Edge, Kids, Shifters, DirOps
      <4> QED
        BY <2>1, <4>1 DEF TreeShape
    <3> QED
      BY <3>1, <3>2, <3>3 DEF DirOps, Shifters
  <2>4. c.op = "rename" => c.todir[1] # "file" /\ c.toname \in Name /\ c.path # c.new
    BY <2>2 DEF Begun, IsDir
  <2>5. c.op # "rename" => c.new = c.path
    BY DEF Begun
  <2> QED
    BY <1>1, <2>3, <2>4, <2>5, LockedFacts
<1>6. ASSUME NEW u \in Threads \ {t}, thread'[u] # Nothing
      PROVE  /\ thread'[u].op # "rename" => thread'[u].new = thread'[u].path
             /\ thread'[u].op \in DirOps =>
                  thread'[u].dir[1] # "file" /\ thread'[u].dir \in thread'[u].locked /\ thread'[u].name \in Name
             /\ thread'[u].op = "rename" =>
                  /\ thread'[u].todir[1] # "file" /\ thread'[u].todir \in thread'[u].locked
                  /\ thread'[u].toname \in Name /\ thread'[u].path # thread'[u].new
  BY <1>4, <1>6 DEF Track, PairsOK, SameFields
<1>7. ASSUME NEW u \in Threads \ {t}, NEW v \in Threads \ {t}, u # v, thread'[u] # Nothing, thread'[v] # Nothing
      PROVE  /\ thread'[u].op # "lookup" \/ thread'[v].op # "lookup" \/ thread'[u].path = thread'[v].path
                  => thread'[u].locked \cap thread'[v].locked = {}
             /\ Races(thread'[u], thread'[v]) => thread'[u].raced
  <2>1. SameFields(u) /\ SameFields(v) /\ thread[u] # Nothing /\ thread[v] # Nothing
    BY <1>4, <1>7 DEF SameFields
  <2>2. Races(thread'[u], thread'[v]) <=> Races(thread[u], thread[v])
    BY <2>1, RacesSame
  <2> QED
    BY <1>7, <2>1, <2>2 DEF Track, PairsOK, SameFields
<1>8. ASSUME NEW u \in Threads \ {t}, thread'[u] # Nothing
      PROVE  /\ d.op # "lookup" \/ thread'[u].op # "lookup" \/ d.path = thread'[u].path
                  => d.locked \cap thread'[u].locked = {}
             /\ Races(d, thread'[u]) => d.raced
             /\ Races(thread'[u], d) => thread'[u].raced
  <2>1. SameFields(u) /\ thread[u] # Nothing
    BY <1>4, <1>8 DEF SameFields
  <2>2. ~Excluded(c)
    BY DEF Start
  <2>3. d.op # "lookup" \/ thread[u].op # "lookup" \/ d.path = thread[u].path
          => d.locked \cap thread[u].locked = {}
    BY <1>1, <2>1, <2>2 DEF Excluded
  <2>4. (Races(d, thread'[u]) <=> Races(c, thread[u])) /\ (Races(thread'[u], d) <=> Races(thread[u], c))
    BY <1>1, <2>1 DEF Races, SameFields
  <2> QED
    BY <1>2, <2>1, <2>3, <2>4 DEF SameFields
<1> QED
  BY <1>2, <1>3, <1>5, <1>6, <1>7, <1>8 DEF PairsOK, d

(* Where a node that no shifted path concerns leads.                         *)
LEMMA OpenLeads ==
  ASSUME Base, Track, NEW t \in Threads, NEW c, Begun(c), Start(t, c), UNCHANGED serverVars,
         c.op = "open", c.node[1] = "host", ~thread'[t].raced
  PROVE  ~InMemory(c.path) /\ Id(tree, c.path) = c.node[2] /\ Has(tree, c.path)
<1>1. c.node \in DOMAIN nodes /\ c.path = PathOf(c.node) /\ c.path \in Paths
  BY DEF Begun, PathOf, IsCall
<1>2. c.node # Root
  BY DEF Root
<1>3. ~InMemory(c.path) /\ Firm(c.path)
  BY <1>1, <1>2 DEF Track, Placed, InodesOK, PathOf, Firm
<1>4. Follows(c.node)
  BY <1>1, <1>2, <1>3 DEF Track, FollowOK
<1>5. ASSUME NEW u \in Threads, Shifted(u)
      PROVE  ~Carries(u, c.path) /\ ~Clears(u, c.path)
  <2>1. thread[u] # Nothing /\ thread[u].op \in Shifters
    BY <1>5 DEF Shifted
  <2>2. ~Races(c, thread[u])
    <3>1. thread'[t].raced <=> \E v \in Threads : thread[v] # Nothing /\ Races(c, thread[v])
      BY StartStep
    <3> QED
      BY <2>1, <3>1
  <2>3. \A x \in {c.path, c.new}, y \in {thread[u].path, thread[u].new} : ~IsPrefix(x, y) /\ ~IsPrefix(y, x)
    BY <2>1, <2>2 DEF Races
  <2>4. IsPrefix(c.path, c.path)
    BY <1>1, PathFacts, PrefixOrder
  <2> QED
    BY <2>3, <2>4 DEF Carries, Clears
<1>6. Leads(c.path, c.node)
  BY <1>1, <1>4, <1>5 DEF Follows
<1> QED
  BY <1>1, <1>6, LeadsFacts

(* A call begins.                                                           *)
LEMMA TrackBegin ==
  ASSUME Base, Track, NEW t \in Threads, NEW c, Begun(c), Start(t, c), UNCHANGED serverVars, Noted, ~tangled'
  PROVE  Track'
<1>1. UNCHANGED <<nodes, tree, nextId>>
  BY StartStep DEF serverVars
<1>2. /\ thread[t] = Nothing /\ thread'[t] # Nothing /\ ~Effective(t)'
      /\ \A u \in Threads \ {t} : Kept(u)
  BY StartStep
<1>3. Placed' /\ HostIds'
  BY <1>1 DEF Track, Placed, NodesOK, HostIds
<1>4. FollowOK'
  <2>1. ~Shifted(t) /\ ~Shifted(t)'
    BY <1>2 DEF Shifted
  <2>2. \A u \in Threads \ {t} : (Shifted(u)' <=> Shifted(u)) /\ SameFields(u)
    BY <1>2, KeptFields
  <2> QED
    BY <1>1, <2>1, <2>2, FollowStays DEF Track
<1>5. \A u \in Threads \ {t} : CallOK(u)'
  BY <1>1, <1>2, CallStays DEF Track
<1>6. CallOK(t)'
  <2>1. AnsOK(t)'
    BY <1>2 DEF AnsOK
  <2>2. /\ thread'[t].op = c.op /\ thread'[t].dir = c.dir /\ thread'[t].name = c.name
        /\ thread'[t].todir = c.todir /\ thread'[t].toname = c.toname /\ thread'[t].node = c.node
        /\ thread'[t].path = c.path /\ thread'[t].new = c.new /\ IsCall(c)
    BY BegunFields
  <2>3. ASSUME NEW e \in DOMAIN nodes, NEW n \in Name, NEW p \in Paths, p = Child(e, n)
        PROVE  IF Firm(p) THEN At(e, n, p)' ELSE Off(e, n, p)
    <3>1. p = Join(PathOf(e), n)
      BY <2>3 DEF Child, PathOf
    <3>2. At(e, n, p)'
      BY <1>1, <2>3, <3>1 DEF At, PathOf
    <3>3. CASE ~Firm(p) /\ e = Root
      BY <3>1, <3>3, RootFacts DEF Off, Track
    <3>4. CASE ~Firm(p) /\ e # Root
      <4>1. Firm(e[2]) /\ e[1] # "host" => PathOf(e) = e[2]
        BY <2>3, <3>4 DEF Track, Placed, InodesOK, PathOf
      <4>2. e[1] # "host"
        <5>1. SUFFICES ASSUME e[1] = "host" PROVE FALSE
          OBVIOUS
        <5>2. PathOf(e) \in Paths /\ ~InMemory(PathOf(e))
          BY <2>3, <3>4, <5>1 DEF Track, Placed, InodesOK, PathOf
        <5> QED
          BY <2>3, <3>1, <3>4, <5>2, FirmChild
      <4> QED
        BY <3>1, <3>4, <4>1, <4>2 DEF Off
    <3> QED
      BY <3>2, <3>3, <3>4
  <2>4. DirOK(t)'
    <3>1. SUFFICES ASSUME c.op \in DirOps
                   PROVE  /\ IF Firm(c.path)
                             THEN /\ At(c.dir, c.name, c.path)'
                                  /\ c.op \in Makers => \A m : ~Edge(nodes', c.dir, c.name, m)
                                  /\ c.op \in Shifters => \E m : Edge(nodes', c.dir, c.name, m)
                             ELSE Off(c.dir, c.name, c.path)
                          /\ c.op = "rename" =>
                               IF Firm(c.new) THEN At(c.todir, c.toname, c.new)'
                               ELSE Off(c.todir, c.toname, c.new)
      BY <2>2 DEF DirOK, Off
    <3>2. c.dir \in DOMAIN nodes /\ c.path = Child(c.dir, c.name) /\ c.path \in Paths /\ c.new \in Paths
      BY <2>2, <3>1 DEF Begun, IsCall
    <3>3. c.name \in Name
      <4>1. PairsOK'
        BY PairsBegin
      <4> QED
        BY <1>2, <2>2, <3>1, <4>1 DEF PairsOK
    <3>4. c.op \in Makers => \A m : ~Edge(nodes', c.dir, c.name, m)
      BY <1>1 DEF Begun, Edge, Kids
    <3>5. c.op \in Shifters => \E m : Edge(nodes', c.dir, c.name, m)
      BY <1>1, <3>2 DEF Begun, Edge, Kids
    <3>6. c.op = "rename" => c.todir \in DOMAIN nodes /\ c.toname \in Name /\ c.new = Child(c.todir, c.toname)
      BY DEF Begun
    <3> QED
      BY <2>3, <3>2, <3>3, <3>4, <3>5, <3>6
  <2>5. WaitOK(t)'
    <3>1. SUFFICES ASSUME ~thread'[t].raced
                   PROVE  /\ c.op = "rename" /\ ~InMemory(c.path) =>
                               \A x \in Inside(tree, c.path) : Rebase(x, c.path, c.new) \in Paths
                          /\ c.op = "open" /\ c.node[1] = "host" =>
                               ~InMemory(c.path) /\ Id(tree, c.path) = c.node[2] /\ Has(tree, c.path)
      BY <1>1, <2>2 DEF WaitOK
    <3>2. c.op = "rename" => \A x \in Inside(tree, c.path) : Rebase(x, c.path, c.new) \in Paths
      BY DEF Start, Fits, Begun
    <3> QED
      BY <3>1, <3>2, OpenLeads
  <2> QED
    BY <2>1, <2>4, <2>5 DEF CallOK
<1>7. PairsOK'
  BY PairsBegin
<1> QED
  BY <1>3, <1>4, <1>5, <1>6, <1>7 DEF Track

(* The request goes out, the answer comes in.                                *)
LEMMA TrackCarried ==
  ASSUME Base, Track, UNCHANGED <<nodes, tree, nextId>>, Noted, ~tangled',
         \A u \in Threads : Kept(u) \/ (Ends(u) /\ ~Effective(u) /\ ~Waiting(u))
  PROVE  Track'
<1>1. Placed' /\ HostIds'
  BY DEF Track, Placed, NodesOK, HostIds
<1>2. ASSUME NEW u \in Threads
      PROVE  /\ SameFields(u) \/ Ends(u)
             /\ (Shifted(u)' <=> Shifted(u)) /\ (Shifted(u) => SameFields(u))
             /\ CallOK(u)'
  <2>1. CASE Kept(u)
    BY <2>1, KeptFields, CallStays DEF Track
  <2>2. CASE Ends(u) /\ ~Effective(u)
    BY <2>2 DEF Ends, Shifted, CallOK
  <2> QED
    BY <2>1, <2>2
<1>3. FollowOK'
  BY <1>2, FollowStays DEF Track
<1>4. PairsOK'
  BY <1>2, PairsStay DEF Track
<1> QED
  BY <1>1, <1>2, <1>3, <1>4 DEF Track

-----------------------------------------------------------------------------
(* The host serves a request.                                               *)

\* The host has served the request on the connection.
Serves(t) ==
  /\ lock = t /\ t \in Threads
  /\ Base /\ Base' /\ Track /\ Ready
  /\ thread' = thread /\ nodes' = nodes
  /\ nextId' \in {nextId, nextId + 1}
  /\ ~Waiting(t)' /\ Answer(t)' = outbox' /\ (Effective(t)' <=> outbox'.err = "ok")
  /\ \A u \in Threads \ {t} : Kept(u)
  /\ Noted /\ ~tangled'

(* A larger number of ids.                                                   *)
LEMMA Wider ==
  ASSUME NEW m \in Nat, NEW n \in Nat, n >= m
  PROVE  /\ \A i : i \in 0..m - 1 => i \in 0..n - 1
         /\ \A i : i \in 1..m - 1 => i \in 1..n - 1
OBVIOUS

(* Who is served.                                                            *)
LEMMA ServedFacts ==
  ASSUME NEW t \in Threads, Serves(t)
  PROVE  /\ thread[t] # Nothing /\ IsCall(thread[t]) /\ ~Effective(t) /\ ~Shifted(t)
         /\ Waiting(t)
         /\ inbox = Asks(thread[t]) /\ inbox.op = thread[t].op /\ inbox.path = thread[t].path
         /\ inbox.new = thread[t].new /\ inbox.path \in Paths /\ inbox.new \in Paths
         /\ nextId \in Nat /\ nextId >= 1 /\ nextId' \in Nat /\ nextId' >= nextId
         /\ PairsOK' /\ \A u \in Threads : SameFields(u)
<1>1. /\ thread[t] # Nothing /\ IsCall(thread[t]) /\ ~Effective(t)
      /\ Waiting(t) /\ inbox = Asks(thread[t])
  BY ReadyFacts DEF Serves
<1>2. ~Shifted(t)
  BY <1>1 DEF Shifted
<1>3. inbox.op = thread[t].op /\ inbox.path = thread[t].path /\ inbox.new = thread[t].new
  BY <1>1, AsksFacts
<1>4. inbox.path \in Paths /\ inbox.new \in Paths
  BY <1>1, <1>3 DEF IsCall
<1>5. nextId \in Nat /\ nextId >= 1 /\ nextId' \in Nat /\ nextId' >= nextId
  <2>1. nextId \in Nat \ {0} /\ nextId' \in {nextId, nextId + 1}
    BY DEF Serves, Base, TreeOK
  <2> QED
    BY <2>1
<1>6. \A u \in Threads : SameFields(u)
  BY DEF Serves, SameFields
<1>7. PairsOK'
  BY <1>6, PairsStay DEF Serves, Track
<1> QED
  BY <1>1, <1>2, <1>3, <1>4, <1>5, <1>6, <1>7

(* The other calls' fields.                                                  *)
LEMMA ServedOther ==
  ASSUME NEW t \in Threads, Serves(t), NEW u \in Threads, u # t, thread[u] # Nothing
  PROVE  /\ thread'[u] = thread[u] /\ IsCall(thread[u]) /\ (Shifted(u)' <=> Shifted(u))
         /\ (Effective(u)' <=> Effective(u)) /\ (Effective(u) => Answer(u)' = Answer(u))
         /\ (Waiting(u)' <=> Waiting(u)) /\ DirOK(u) /\ AnsOK(u) /\ WaitOK(u)
<1>1. Kept(u) /\ thread' = thread
  BY DEF Serves
<1> QED
  BY <1>1, KeptFields DEF Kept, Serves, Track, CallOK, Base, CallsOK

(* A path whose entry stays leads where it led.                              *)
LEMMA LeadsSame ==
  ASSUME NEW y \in Paths, SameAt(tree, tree', y)
  PROVE  \A k : Leads(y, k)' <=> Leads(y, k)
<1>1. Stat(tree', y) = Stat(tree, y)
  BY SameAtFacts
<1> QED
  BY <1>1 DEF Leads

(* What has to be shown of a request that is served.                         *)
LEMMA ServeFrame ==
  ASSUME NEW t \in Threads, Serves(t), FollowOK', AnsOK(t)',
         \A u \in Threads \ {t} : thread[u] # Nothing => AnsOK(u)' /\ WaitOK(u)'
  PROVE  Track'
<1>1. Placed'
  BY DEF Serves, Track, Placed, NodesOK
<1>2. HostIds'
  <2>1. \A k \in DOMAIN nodes : k[1] = "host" => k[2] \in 1..nextId - 1
    BY DEF Serves, Track, HostIds
  <2>2. nextId \in Nat /\ nextId' \in Nat /\ nextId' >= nextId /\ nodes' = nodes
    BY ServedFacts DEF Serves
  <2>3. \A i : i \in 1..nextId - 1 => i \in 1..nextId' - 1
    BY <2>2, Wider
  <2> QED
    BY <2>1, <2>2, <2>3 DEF HostIds
<1>3. ASSUME NEW u \in Threads, thread'[u] # Nothing
      PROVE  DirOK(u)'
  <2>1. DirOK(u) /\ thread' = thread /\ nodes' = nodes
    BY <1>3 DEF Serves, Track, CallOK
  <2>2. \A d, n, p : (At(d, n, p)' <=> At(d, n, p)) /\ (Off(d, n, p)' <=> Off(d, n, p))
    BY <2>1 DEF At, Off, PathOf
  <2> QED
    BY <2>1, <2>2 DEF DirOK
<1>4. WaitOK(t)'
  BY DEF WaitOK, Serves
<1>5. \A u \in Threads : CallOK(u)'
  BY <1>3, <1>4 DEF CallOK, Serves
<1> QED
  BY <1>1, <1>2, <1>5, ServedFacts DEF Track

(* Another call's answer still holds where its path leads where it led.      *)
LEMMA OtherAnswer ==
  ASSUME NEW t \in Threads, Serves(t), NEW u \in Threads, u # t, thread[u] # Nothing,
         thread[u].op \in {"lookup"} \cup Makers /\ Effective(u) /\ Firm(thread[u].path)
           => SameAt(tree, tree', thread[u].path)
  PROVE  AnsOK(u)'
<1> DEFINE y == thread[u].path
<1>1. /\ thread'[u] = thread[u] /\ y \in Paths
      /\ (Effective(u)' <=> Effective(u)) /\ (Effective(u) => Answer(u)' = Answer(u)) /\ AnsOK(u)
  BY ServedOther DEF IsCall
<1>2. SameAt(tree, tree', y) => /\ \A k : Leads(y, k)' <=> Leads(y, k)
                                /\ Stat(tree', y) = Stat(tree, y)
  BY <1>1, LeadsSame, SameAtFacts
<1>3. \A i : i \in 0..nextId - 1 => i \in 0..nextId' - 1
  BY ServedFacts, Wider
<1> QED
  BY <1>1, <1>2, <1>3 DEF AnsOK

(* The host changes nothing.                                                 *)
LEMMA ServeQuiet ==
  ASSUME NEW t \in Threads, Serves(t), tree' = tree, ~Shifted(t)', AnsOK(t)'
  PROVE  Track'
<1>1. FollowOK'
  <2>1. \A u \in Threads : (Shifted(u)' <=> Shifted(u)) /\ (Shifted(u) => SameFields(u))
    BY ServedFacts, ServedOther DEF Shifted, SameFields
  <2> QED
    BY <2>1, FollowStays DEF Serves, Track
<1>2. ASSUME NEW u \in Threads, u # t, thread[u] # Nothing
      PROVE  AnsOK(u)' /\ WaitOK(u)'
  <2>1. AnsOK(u)'
    BY <1>2, OtherAnswer DEF SameAt
  <2>2. WaitOK(u)'
    BY <1>2, ServedOther DEF WaitOK
  <2> QED
    BY <2>1, <2>2
<1> QED
  BY <1>1, <1>2, ServeFrame

\* What the host has made of a request for a path, and answered.
ServesTree(t) ==
  /\ Serves(t) /\ PathRequest(inbox)
  /\ tree' = Outcome(inbox).tree
  /\ nextId' = IF Outcome(inbox).made = nextId THEN nextId + 1 ELSE nextId

ServesPath(t) ==
  /\ Serves(t) /\ PathRequest(inbox)
  /\ tree' = Outcome(inbox).tree /\ outbox' = Outcome(inbox).resp
  /\ nextId' = IF Outcome(inbox).made = nextId THEN nextId + 1 ELSE nextId

(* Another call on the path of one that makes something.                     *)
LEMMA MakerAlone ==
  ASSUME NEW t \in Threads, Serves(t), thread[t].op \in Makers, Firm(thread[t].path)
  PROVE  /\ \A k \in DOMAIN nodes : PathOf(k) # thread[t].path
         /\ \A u \in Threads : u # t /\ thread[u] # Nothing /\ thread[u].op \in DirOps
              => thread[u].path # thread[t].path
<1>1. /\ At(thread[t].dir, thread[t].name, thread[t].path)
      /\ \A m : ~Edge(nodes, thread[t].dir, thread[t].name, m)
      /\ thread[t].name \in Name /\ thread[t].dir \in thread[t].locked
  BY ServedFacts DEF Serves, Track, CallOK, DirOK, PairsOK, Makers, DirOps
<1>2. Placed
  BY DEF Serves, Track
<1>3. \A k \in DOMAIN nodes : PathOf(k) # thread[t].path
  BY <1>1, <1>2, EntryAt
<1>4. ASSUME NEW u \in Threads, u # t, thread[u] # Nothing, thread[u].op \in DirOps,
             thread[u].path = thread[t].path
      PROVE  FALSE
  <2>1. At(thread[u].dir, thread[u].name, thread[t].path) /\ thread[u].name \in Name
        /\ thread[u].dir \in thread[u].locked
    BY <1>4, ServedOther DEF DirOK, Serves, Track, PairsOK
  <2>2. thread[u].dir = thread[t].dir
    BY <1>1, <1>2, <2>1, SameSpot
  <2>3. thread[t].locked \cap thread[u].locked = {}
    BY <1>4, ServedFacts DEF Serves, Track, PairsOK, Makers
  <2> QED
    BY <1>1, <2>1, <2>2, <2>3
<1> QED
  BY <1>3, <1>4

(* Something is made.                                                        *)
LEMMA MakerFollows ==
  ASSUME NEW t \in Threads, Serves(t), thread[t].op \in Makers,
         \A y \in Paths : y # thread[t].path => SameAt(tree, tree', y),
         ~InMemory(thread[t].path) => Id(tree', thread[t].path) = nextId
  PROVE  FollowOK'
<1> DEFINE p == thread[t].path
<1>1. p \in Paths
  BY ServedFacts DEF IsCall
<1>2. \A u \in Threads : (Shifted(u)' <=> Shifted(u)) /\ (Shifted(u) => u # t /\ thread[u] # Nothing)
  BY ServedFacts, ServedOther DEF Shifted, Serves, Makers, Shifters, Removers
<1> SUFFICES ASSUME NEW k \in DOMAIN nodes \ {Root}, Firm(PathOf(k))
             PROVE  Follows(k)'
  BY DEF FollowOK, Firm, PathOf, Serves
<1>3. PathOf(k)' = PathOf(k) /\ thread' = thread
  BY DEF PathOf, Serves
<1>4. Follows(k)
  BY DEF Serves, Track, FollowOK
<1>5. \A u, x : (Carries(u, x)' <=> Carries(u, x)) /\ (Clears(u, x)' <=> Clears(u, x))
  BY <1>3 DEF Carries, Clears
<1>6. PathOf(k) # p /\ PathOf(k) \in Paths
  <2>1. p = PathOf(k) => Firm(p)
    OBVIOUS
  <2> QED
    BY <2>1, MakerAlone DEF Firm
<1>7. \A y \in Paths : y # p => (Leads(y, k)' <=> Leads(y, k))
  BY LeadsSame
<1>8. Gone(k) => Gone(k)'
  <2>1. SUFFICES ASSUME Gone(k), k[1] = "host", NEW y \in Paths, ~InMemory(y)
                 PROVE  Id(tree', y) # k[2]
    BY DEF Gone
  <2>2. Id(tree, y) # k[2]
    BY <2>1 DEF Gone
  <2>3. CASE y # p
    BY <2>2, <2>3, SameAtFacts
  <2>4. CASE y = p
    <3>1. k[2] \in 1..nextId - 1 /\ nextId \in Nat
      BY <2>1, ServedFacts DEF Serves, Track, HostIds
    <3>2. k[2] # nextId
      BY <3>1
    <3> QED
      BY <2>1, <2>4, <3>2
  <2> QED
    BY <2>3, <2>4
<1>9. ASSUME NEW u \in Threads, Shifted(u), Carries(u, PathOf(k))
      PROVE  Rebase(PathOf(k), thread[u].path, thread[u].new) # p
  <2>1. thread[u] # Nothing /\ IsCall(thread[u]) /\ u # t
    BY <1>2, <1>9, ServedOther
  <2>2. ~IsPrefix(thread[u].new, p)
    BY <1>9, <2>1, ServedFacts, ShiftedApart DEF Serves, Track, Makers, DirOps
  <2>3. thread[u].path \in Seq(Name) /\ thread[u].new \in Seq(Name) /\ PathOf(k) \in Seq(Name)
    BY <1>6, <2>1, PathFacts DEF IsCall
  <2>4. IsPrefix(thread[u].new, Rebase(PathOf(k), thread[u].path, thread[u].new))
    BY <1>9, <2>3, RebaseFacts DEF Carries
  <2> QED
    BY <2>2, <2>4
<1> HIDE DEF p
<1> QED
  BY <1>2, <1>3, <1>4, <1>5, <1>6, <1>7, <1>8, <1>9 DEF Follows

(* What the answer to a call that makes something says.                      *)
LEMMA MakerAnswer ==
  ASSUME NEW t \in Threads, ServesPath(t), thread[t].op \in Makers
  PROVE  AnsOK(t)'
<1> SUFFICES ASSUME NEW p, p = thread[t].path, NEW stat, stat = outbox'.stat, NEW op, op = thread[t].op,
                    NEW k, k = InodeInAnswer(op, p, stat), outbox'.err = "ok"
             PROVE  /\ op = "create" => stat.kind = "file"
                    /\ ~InMemory(p) => stat.id \in 0..nextId' - 1
                    /\ Firm(p) => Leads(p, k)'
  <2>1. /\ thread' = thread /\ Answer(t)' = outbox'
        /\ (Effective(t)' <=> outbox'.err = "ok")
    BY DEF ServesPath, Serves
  <2> QED
    BY <2>1 DEF AnsOK, Makers
<1>1. /\ p \in Paths /\ inbox.op = op /\ inbox.path = p
      /\ TreeOK(tree, nextId) /\ op \in {"mkdir", "create"}
  BY ServedFacts DEF ServesPath, Serves, Base, Makers
<1>3. /\ Has(tree', p) /\ (~InMemory(p) => Id(tree', p) # None)
      /\ op = "mkdir" => stat = Absent \/ (stat = Stat(tree', p) /\ HasDir(tree', p))
      /\ op = "create" => /\ stat.kind = "file"
                          /\ ~InMemory(p) => stat = Stat(tree', p)
  BY <1>1, MakerOutcome DEF ServesPath, Makers
<1>4. op = "mkdir" => stat # Absent
  <2>1. ~Tangles(t)' /\ Effective(t)' /\ Answer(t)' = outbox' /\ thread' = thread /\ thread[t] # Nothing
    BY ServedFacts DEF ServesPath, Serves, Noted
  <2> QED
    BY <2>1 DEF Tangles
<1>6. ~InMemory(p) => Stat(tree', p).id = Id(tree', p) /\ Stat(tree', p) # Absent /\ Id(tree', p) # None
  BY <1>3, StatFacts
<1>7. ~InMemory(p) => Id(tree', p) \in 0..nextId' - 1
  <2>1. nextId' \in Nat \ {0} /\ tree' \in Tree(1..nextId' - 1)
    BY DEF ServesPath, Serves, Base, TreeOK
  <2>2. tree'.files \in [Paths -> 0..nextId' - 1] /\ tree'.dirs \in [Paths -> 0..nextId' - 1]
    BY <2>1, TreeTyped
  <2>3. Id(tree', p) \in {tree'.files[p], tree'.dirs[p], None}
    BY IdFacts
  <2> QED
    BY <1>1, <2>1, <2>2, <2>3 DEF None
<1>8. CASE InMemory(p)
  <2>1. k = IF op = "create" THEN <<"file", p>> ELSE <<"dir", p>>
    BY <1>1, <1>8 DEF InodeInAnswer, Inode
  <2>2. op = "mkdir" => Stat(tree', p).kind = "dir"
    BY <1>3, <1>4, StatFacts
  <2> QED
    BY <1>1, <1>3, <1>8, <2>1, <2>2 DEF Leads
<1>9. CASE ~InMemory(p)
  <2>1. stat = Stat(tree', p)
    BY <1>1, <1>3, <1>4, <1>9
  <2>2. k = Inode(p, Stat(tree', p))
    BY <1>6, <1>9, <2>1 DEF InodeInAnswer, Inode
  <2> QED
    BY <1>3, <1>6, <1>7, <1>9, <2>1, <2>2 DEF Leads
<1> QED
  BY <1>8, <1>9

(* The host makes an entry, whatever it answers.                            *)
LEMMA ServeMaker ==
  ASSUME NEW t \in Threads, ServesTree(t), thread[t].op \in Makers, AnsOK(t)'
  PROVE  Track'
<1> DEFINE p == thread[t].path
<1>1. Serves(t) /\ inbox.op = thread[t].op /\ inbox.path = p /\ p \in Paths /\ TreeOK(tree, nextId)
  BY ServedFacts DEF ServesTree, Serves, Base
<1>2. CASE tree' = tree
  <2>1. ~Shifted(t)'
    BY <1>1 DEF Shifted, Serves, Makers, Shifters, Removers
  <2> QED
    BY <1>1, <1>2, <2>1, ServeQuiet
<1>3. CASE tree' # tree
  <2>1. /\ \A y \in Paths : y # p => SameAt(tree, tree', y)
        /\ ~InMemory(p) => Id(tree', p) = nextId /\ ~Has(tree, p)
    BY <1>1, <1>3, MakerOutcome DEF ServesTree
  <2>2. FollowOK'
    BY <1>1, <2>1, MakerFollows
  <2>3. ASSUME NEW u \in Threads, u # t, thread[u] # Nothing
        PROVE  AnsOK(u)' /\ WaitOK(u)'
    <3>1. /\ thread'[u] = thread[u] /\ IsCall(thread[u]) /\ (Waiting(u)' <=> Waiting(u)) /\ WaitOK(u)
      BY <1>1, <2>3, ServedOther
    <3>2. AnsOK(u)'
      <4>1. thread[u].op \in {"lookup"} \cup Makers /\ Firm(thread[u].path) => thread[u].path # p
        <5>1. p = thread[u].path /\ Firm(thread[u].path) => Firm(p)
          OBVIOUS
        <5> QED
          BY <1>1, <2>3, <5>1, MakerAlone DEF DirOps
      <4> QED
        BY <1>1, <2>1, <2>3, <3>1, <4>1, OtherAnswer DEF IsCall
    <3>3. SUFFICES ASSUME Waiting(u), ~thread[u].raced
                   PROVE  /\ thread[u].op = "rename" /\ ~InMemory(thread[u].path) =>
                              \A x \in Inside(tree', thread[u].path) : Rebase(x, thread[u].path, thread[u].new) \in Paths
                          /\ thread[u].op = "open" /\ thread[u].node[1] = "host" =>
                               /\ ~InMemory(thread[u].path) /\ Id(tree', thread[u].path) = thread[u].node[2]
                               /\ Has(tree', thread[u].path)
      BY <3>1, <3>2 DEF WaitOK
    <3>4. ASSUME thread[u].op = "rename", ~InMemory(thread[u].path), NEW x \in Inside(tree', thread[u].path)
          PROVE  Rebase(x, thread[u].path, thread[u].new) \in Paths
      <4>1. x \in Paths /\ x \in Under[thread[u].path] /\ IsPrefix(thread[u].path, x) /\ Has(tree', x)
        BY <3>1, <3>4 DEF Inside, Under, Below, IsCall
      <4>2. x # p
        <5>1. SUFFICES ASSUME x = p PROVE FALSE
          OBVIOUS
        <5>2. Races(thread[u], thread[t])
          BY <3>4, <4>1, <5>1 DEF Races, Shifters, Makers, DirOps
        <5> QED
          BY <1>1, <2>3, <3>3, <5>2, ServedFacts DEF Serves, Track, PairsOK
      <4>3. x \in Inside(tree, thread[u].path)
        BY <2>1, <4>1, <4>2, SameAtFacts DEF Inside
      <4> QED
        BY <3>1, <3>3, <3>4, <4>3 DEF WaitOK
    <3>5. ASSUME thread[u].op = "open", thread[u].node[1] = "host"
          PROVE  /\ ~InMemory(thread[u].path) /\ Id(tree', thread[u].path) = thread[u].node[2]
                 /\ Has(tree', thread[u].path)
      <4>1. /\ ~InMemory(thread[u].path) /\ Id(tree, thread[u].path) = thread[u].node[2]
            /\ Has(tree, thread[u].path) /\ thread[u].path \in Paths
        BY <3>1, <3>3, <3>5 DEF WaitOK, IsCall
      <4>2. thread[u].path # p
        BY <2>1, <4>1
      <4> QED
        BY <2>1, <4>1, <4>2, SameAtFacts
    <3> QED
      BY <3>4, <3>5
  <2> QED
    BY <1>1, <2>2, <2>3, ServeFrame
<1> QED
  BY <1>2, <1>3

-----------------------------------------------------------------------------
(* The host moves or removes an entry.                                      *)

\* The host has moved or removed.
ServesShift(t) == ServesPath(t) /\ thread[t].op \in Shifters /\ outbox'.err = "ok"

(* No call in hand is on a related path.                                     *)
LEMMA ShiftAlone ==
  ASSUME NEW t \in Threads, ServesShift(t)
  PROVE  /\ Serves(t) /\ thread[t] # Nothing /\ ~thread[t].raced /\ Shifted(t)' /\ ~Shifted(t)
         /\ thread[t].path \in Paths /\ thread[t].new \in Paths
         /\ thread[t].path \in Seq(Name) /\ thread[t].new \in Seq(Name)
         /\ thread[t].op = "rename" => ~MovesMount(thread[t])
         /\ \A u \in Threads : u # t /\ thread[u] # Nothing
              /\ (thread[u].op \in DirOps \/ (thread[u].op = "open" /\ ~thread[u].raced))
                => \A x \in {thread[t].path, thread[t].new}, y \in {thread[u].path, thread[u].new} :
                     ~IsPrefix(x, y) /\ ~IsPrefix(y, x)
<1>1. /\ Serves(t) /\ thread[t] # Nothing /\ ~Shifted(t) /\ thread' = thread /\ Effective(t)' /\ ~Tangles(t)'
      /\ IsCall(thread[t])
  BY ServedFacts DEF ServesShift, ServesPath, Serves, Noted
<1>2. ~thread[t].raced /\ (thread[t].op = "rename" => ~MovesMount(thread[t]))
  <2>1. MovesMount(thread[t])' <=> MovesMount(thread[t])
    BY <1>1 DEF MovesMount
  <2>2. ~(thread'[t].op \in Shifters /\ thread'[t].raced) /\ ~(thread'[t].op = "rename" /\ MovesMount(thread[t])')
    BY <1>1 DEF Tangles
  <2> QED
    BY <1>1, <2>1, <2>2 DEF ServesShift
<1>3. Shifted(t)'
  BY <1>1 DEF Shifted, ServesShift
<1>4. ASSUME NEW u \in Threads, u # t, thread[u] # Nothing,
             thread[u].op \in DirOps \/ (thread[u].op = "open" /\ ~thread[u].raced)
      PROVE  \A x \in {thread[t].path, thread[t].new}, y \in {thread[u].path, thread[u].new} :
                     ~IsPrefix(x, y) /\ ~IsPrefix(y, x)
  <2>1. /\ Races(thread[t], thread[u]) => thread[t].raced
        /\ Races(thread[u], thread[t]) => thread[u].raced
    BY <1>1, <1>4 DEF Serves, Track, PairsOK
  <2>2. CASE thread[u].op \in DirOps
    BY <1>2, <2>1, <2>2 DEF Races, ServesShift
  <2>3. CASE thread[u].op = "open" /\ ~thread[u].raced
    BY <2>1, <2>3 DEF Races, ServesShift
  <2> QED
    BY <1>4, <2>2, <2>3
<1>5. thread[t].path \in Seq(Name) /\ thread[t].new \in Seq(Name)
  BY <1>1, PathFacts DEF IsCall
<1> QED
  BY <1>1, <1>2, <1>3, <1>4, <1>5 DEF IsCall

(* What the host has done.                                                   *)
LEMMA ShiftFacts ==
  ASSUME NEW t \in Threads, ServesShift(t), NEW p, p = thread[t].path, NEW q, q = thread[t].new
  PROVE  /\ thread[t].op \in Removers =>
              /\ p = q
              /\ \A y \in Paths : y # p => SameAt(tree, tree', y)
              /\ ~InMemory(p) => ~Has(tree', p)
         /\ thread[t].op = "rename" =>
              /\ p # q /\ resolve(p) = resolve(q) /\ ~Pinned(p) /\ ~Pinned(q)
              /\ InMemory(p) => \A y \in Paths : y \notin {p, q} => SameAt(tree, tree', y)
              /\ ~InMemory(p) => /\ ~IsPrefix(p, q) /\ ~IsPrefix(q, p) /\ Has(tree, p) /\ Inside(tree, q) = {}
                                 /\ RenamesTo(tree, tree', p, q)
         /\ \A y \in Paths : ~IsPrefix(p, y) /\ ~IsPrefix(q, y) => SameAt(tree, tree', y)
<1>1. /\ inbox.op = thread[t].op /\ inbox.path = p /\ inbox.new = q /\ p \in Paths /\ q \in Paths
      /\ TreeOK(tree, nextId) /\ p \in Seq(Name) /\ q \in Seq(Name)
  BY ServedFacts, PathFacts DEF ServesShift, ServesPath, Serves, Base
<1>2. /\ thread[t].op # "rename" => p = q
      /\ thread[t].op = "rename" => p # q
  BY ShiftAlone DEF Serves, Track, PairsOK
<1>3. thread[t].op = "rename" => ~Pinned(p) /\ ~Pinned(q)
  BY ShiftAlone DEF MovesMount, Pinned
<1>4. thread[t].op \in Removers => /\ p = q
                                   /\ \A y \in Paths : y # p => SameAt(tree, tree', y)
                                   /\ ~InMemory(p) => ~Has(tree', p)
  <2>1. SUFFICES ASSUME thread[t].op \in Removers
                 PROVE  /\ \A y \in Paths : y # p => SameAt(tree, tree', y)
                        /\ ~InMemory(p) => ~Has(tree', p)
    BY <1>2 DEF Removers
  <2> QED
    BY <1>1, <2>1, ShifterOutcome DEF ServesShift, ServesPath
<1>5. thread[t].op = "rename" =>
              /\ p # q /\ resolve(p) = resolve(q) /\ ~Pinned(p) /\ ~Pinned(q)
              /\ InMemory(p) => \A y \in Paths : y \notin {p, q} => SameAt(tree, tree', y)
              /\ ~InMemory(p) => /\ ~IsPrefix(p, q) /\ ~IsPrefix(q, p) /\ Has(tree, p) /\ Inside(tree, q) = {}
                                 /\ RenamesTo(tree, tree', p, q)
  <2>1. SUFFICES ASSUME thread[t].op = "rename"
                 PROVE  /\ resolve(p) = resolve(q)
                        /\ InMemory(p) => \A y \in Paths : y \notin {p, q} => SameAt(tree, tree', y)
                        /\ ~InMemory(p) => /\ ~IsPrefix(p, q) /\ ~IsPrefix(q, p)
                                           /\ Has(tree, p) /\ Inside(tree, q) = {}
                                           /\ RenamesTo(tree, tree', p, q)
    BY <1>2, <1>3
  <2> QED
    BY <1>1, <1>2, <2>1, ShifterOutcome DEF ServesShift, ServesPath
<1>6. thread[t].op \in Removers \/ thread[t].op = "rename"
  BY DEF ServesShift, Shifters
<1>7. \A y \in Paths : ~IsPrefix(p, y) /\ ~IsPrefix(q, y) => SameAt(tree, tree', y)
  <2> SUFFICES ASSUME NEW y \in Paths, ~IsPrefix(p, y), ~IsPrefix(q, y)
               PROVE  SameAt(tree, tree', y)
    OBVIOUS
  <2>1. y \notin {p, q}
    BY <1>1, PrefixOrder
  <2>2. CASE thread[t].op \in Removers
    BY <1>4, <2>1, <2>2
  <2>3. CASE thread[t].op = "rename" /\ InMemory(p)
    BY <1>5, <2>1, <2>3
  <2>4. CASE thread[t].op = "rename" /\ ~InMemory(p)
    BY <1>5, <2>4 DEF RenamesTo
  <2> QED
    BY <1>6, <2>2, <2>3, <2>4
<1> QED
  BY <1>4, <1>5, <1>7

(* The answer to a move, and the other calls.                                *)
LEMMA ShiftOthers ==
  ASSUME NEW t \in Threads, ServesShift(t)
  PROVE  /\ AnsOK(t)'
         /\ \A u \in Threads \ {t} : thread[u] # Nothing => AnsOK(u)' /\ WaitOK(u)'
<1> SUFFICES ASSUME NEW p, p = thread[t].path, NEW q, q = thread[t].new
             PROVE  /\ AnsOK(t)'
                    /\ \A u \in Threads \ {t} : thread[u] # Nothing => AnsOK(u)' /\ WaitOK(u)'
  OBVIOUS
<1>1. Serves(t) /\ thread' = thread /\ p \in Seq(Name) /\ q \in Seq(Name) /\ p \in Paths /\ q \in Paths
  BY ShiftAlone DEF Serves
<1>2. AnsOK(t)'
  <2>1. thread[t].op \notin {"lookup"} \cup Makers
    BY DEF ServesShift, Shifters, Removers, Makers
  <2>2. thread[t].op = "rename" =>
          /\ resolve(p) = resolve(q)
          /\ ~InMemory(p) => ~IsPrefix(p, q) /\ ~IsPrefix(q, p)
          /\ Firm(p) => ~InMemory(p)
    BY ShiftFacts DEF Firm
  <2> QED
    BY <1>1, <2>1, <2>2 DEF AnsOK
<1>3. ASSUME NEW u \in Threads, u # t, thread[u] # Nothing
      PROVE  AnsOK(u)' /\ WaitOK(u)'
  <2>1. /\ thread'[u] = thread[u] /\ IsCall(thread[u]) /\ (Waiting(u)' <=> Waiting(u)) /\ WaitOK(u)
        /\ thread[u].path \in Paths /\ thread[u].path \in Seq(Name)
    BY <1>1, <1>3, ServedOther, PathFacts DEF IsCall
  <2>2. thread[u].op \in DirOps \/ (thread[u].op = "open" /\ ~thread[u].raced)
          => /\ ~IsPrefix(p, thread[u].path) /\ ~IsPrefix(thread[u].path, p)
             /\ ~IsPrefix(q, thread[u].path) /\ ~IsPrefix(thread[u].path, q)
             /\ SameAt(tree, tree', thread[u].path)
    BY <1>3, <2>1, ShiftAlone, ShiftFacts
  <2>3. AnsOK(u)'
    <3>1. thread[u].op \in {"lookup"} \cup Makers => thread[u].op \in DirOps
      BY DEF DirOps
    <3> QED
      BY <1>1, <1>3, <2>2, <3>1, OtherAnswer
  <2>4. SUFFICES ASSUME Waiting(u), ~thread[u].raced
                 PROVE  /\ thread[u].op = "rename" /\ ~InMemory(thread[u].path) =>
                             \A x \in Inside(tree', thread[u].path) : Rebase(x, thread[u].path, thread[u].new) \in Paths
                        /\ thread[u].op = "open" /\ thread[u].node[1] = "host" =>
                             /\ ~InMemory(thread[u].path) /\ Id(tree', thread[u].path) = thread[u].node[2]
                             /\ Has(tree', thread[u].path)
    BY <2>1, <2>3 DEF WaitOK
  <2>5. ASSUME thread[u].op = "rename", ~InMemory(thread[u].path), NEW x \in Inside(tree', thread[u].path)
        PROVE  Rebase(x, thread[u].path, thread[u].new) \in Paths
    <3>1. x \in Paths /\ x \in Under[thread[u].path] /\ IsPrefix(thread[u].path, x) /\ Has(tree', x)
      BY <2>1, <2>5 DEF Inside, Under, Below
    <3>2. /\ ~IsPrefix(p, thread[u].path) /\ ~IsPrefix(thread[u].path, p)
          /\ ~IsPrefix(q, thread[u].path) /\ ~IsPrefix(thread[u].path, q)
      BY <2>2, <2>5 DEF DirOps
    <3>3. ~IsPrefix(p, x) /\ ~IsPrefix(q, x)
      <4>1. x \in Seq(Name)
        BY <3>1, PathFacts
      <4>2. IsPrefix(p, x) => IsPrefix(p, thread[u].path) \/ IsPrefix(thread[u].path, p)
        BY <1>1, <2>1, <3>1, <4>1, PrefixOrder
      <4>3. IsPrefix(q, x) => IsPrefix(q, thread[u].path) \/ IsPrefix(thread[u].path, q)
        BY <1>1, <2>1, <3>1, <4>1, PrefixOrder
      <4> QED
        BY <3>2, <4>2, <4>3
    <3>4. Has(tree, x)
      BY <3>1, <3>3, ShiftFacts, SameAtFacts
    <3>5. x \in Inside(tree, thread[u].path)
      BY <3>1, <3>4 DEF Inside
    <3> QED
      BY <2>1, <2>4, <2>5, <3>5 DEF WaitOK
  <2>6. ASSUME thread[u].op = "open", thread[u].node[1] = "host"
        PROVE  /\ ~InMemory(thread[u].path) /\ Id(tree', thread[u].path) = thread[u].node[2]
               /\ Has(tree', thread[u].path)
    <3>1. /\ ~InMemory(thread[u].path) /\ Id(tree, thread[u].path) = thread[u].node[2]
          /\ Has(tree, thread[u].path)
      BY <2>1, <2>4, <2>6 DEF WaitOK
    <3>2. SameAt(tree, tree', thread[u].path)
      BY <2>2, <2>4, <2>6
    <3> QED
      BY <3>1, <3>2, SameAtFacts
  <2> QED
    BY <2>5, <2>6
<1> QED
  BY <1>2, <1>3

(* A path that the host's change concerns concerned no other shift.          *)
LEMMA ShiftUnrelated ==
  ASSUME NEW t \in Threads, ServesShift(t), NEW u \in Threads, u # t, Shifted(u),
         NEW p \in {thread[t].path, thread[t].new}, NEW x \in Seq(Name), IsPrefix(p, x)
  PROVE  /\ ~Carries(u, x) /\ ~Clears(u, x)
         /\ thread[u].path \in Seq(Name) /\ thread[u].new \in Seq(Name)
         /\ ~IsPrefix(thread[u].new, x) /\ ~IsPrefix(thread[u].path, x)
<1>1. thread[u] # Nothing /\ thread[u].op \in Shifters
  BY DEF Shifted
<1>2. IsCall(thread[u]) /\ p \in Seq(Name)
  BY <1>1, ShiftAlone, ServedOther
<1>3. thread[u].path \in Seq(Name) /\ thread[u].new \in Seq(Name)
  BY <1>2, PathFacts DEF IsCall
<1>4. \A y \in {thread[u].path, thread[u].new} : ~IsPrefix(p, y) /\ ~IsPrefix(y, p)
  BY <1>1, ShiftAlone DEF Shifters, DirOps
<1>5. ASSUME NEW y \in {thread[u].path, thread[u].new}
      PROVE  ~IsPrefix(y, x)
  <2>1. IsPrefix(y, x) => IsPrefix(y, p) \/ IsPrefix(p, y)
    BY <1>2, <1>3, PrefixOrder
  <2> QED
    BY <1>4, <2>1
<1>6. IsPrefix(x, x)
  BY PrefixOrder
<1> QED
  BY <1>3, <1>5, <1>6 DEF Carries, Clears

(* Where a node at a firm path leads, once the host has moved or removed.    *)
LEMMA ShiftLeads ==
  ASSUME NEW t \in Threads, ServesShift(t), NEW k \in DOMAIN nodes \ {Root}, Firm(PathOf(k)),
         NEW p \in {thread[t].path, thread[t].new}, IsPrefix(p, PathOf(k))
  PROVE  Leads(PathOf(k), k)
<1>1. Follows(k) /\ PathOf(k) \in Seq(Name)
  BY ShiftAlone, PathFacts DEF Serves, Track, FollowOK, Firm
<1>2. \A u \in Threads : Shifted(u) => ~Carries(u, PathOf(k)) /\ ~Clears(u, PathOf(k))
  BY <1>1, ShiftAlone, ShiftUnrelated
<1> QED
  BY <1>1, <1>2 DEF Follows

(* Nothing of the host leads to what has been removed or replaced.           *)
LEMMA ShiftGone ==
  ASSUME NEW t \in Threads, ServesShift(t), NEW k \in DOMAIN nodes, NEW q, q = thread[t].new,
         k[1] = "host",
         Gone(k) \/ (~InMemory(q) /\ Has(tree, q) /\ Id(tree, q) = k[2])
  PROVE  Gone(k)'
<1> SUFFICES ASSUME NEW y \in Paths, ~InMemory(y)
             PROVE  Id(tree', y) # k[2]
  BY DEF Gone
<1> DEFINE p == thread[t].path
<1>1. Serves(t) /\ p \in Seq(Name) /\ q \in Seq(Name) /\ q \in Paths /\ p \in Paths /\ TreeOK(tree, nextId)
  BY ShiftAlone DEF Serves, Base
<1>2. k[2] # None
  <2>1. k[2] \in 1..nextId - 1
    BY <1>1 DEF Serves, Track, HostIds
  <2> QED
    BY <2>1 DEF None
<1>3. ASSUME NEW z \in Paths, ~InMemory(z), z # q \/ Gone(k)
      PROVE  Id(tree, z) # k[2]
  <2>1. CASE Gone(k)
    BY <1>3, <2>1 DEF Gone
  <2>2. CASE z # q /\ ~InMemory(q) /\ Has(tree, q) /\ Id(tree, q) = k[2]
    BY <1>1, <1>2, <1>3, <2>2 DEF TreeOK
  <2> QED
    BY <1>3, <2>1, <2>2
<1>4. ~Has(tree', y) => Id(tree', y) # k[2]
  BY <1>2, IdFacts
<1>5. thread[t].op \in Removers \/ thread[t].op = "rename"
  BY DEF ServesShift, Shifters
<1>6. CASE SameAt(tree, tree', y) /\ y # q
  BY <1>3, <1>6, SameAtFacts
<1>7. CASE thread[t].op \in Removers
  <2>1. p = q /\ (y # p => SameAt(tree, tree', y)) /\ (~InMemory(p) => ~Has(tree', p))
    BY <1>7, ShiftFacts
  <2> QED
    BY <1>4, <1>6, <2>1
<1>8. CASE thread[t].op = "rename" /\ InMemory(p)
  <2>1. resolve(p) = resolve(q) /\ (y \notin {p, q} => SameAt(tree, tree', y))
    BY <1>8, ShiftFacts
  <2>2. y \notin {p, q}
    BY <1>8, <2>1 DEF InMemory
  <2> QED
    BY <1>6, <2>1, <2>2
<1>9. CASE thread[t].op = "rename" /\ ~InMemory(p)
  <2>1. /\ ~IsPrefix(p, q) /\ resolve(p) = resolve(q) /\ RenamesTo(tree, tree', p, q)
    BY <1>9, ShiftFacts
  <2>2. y \in Seq(Name) /\ IsPrefix(q, q)
    BY <1>1, PathFacts, PrefixOrder
  <2>3. CASE resolve(y) # resolve(p)
    <3>1. SameAt(tree, tree', y) /\ y # q
      BY <2>1, <2>3 DEF RenamesTo
    <3> QED
      BY <1>6, <3>1
  <2>4. CASE resolve(y) = resolve(p) /\ IsPrefix(q, y)
    <3> DEFINE z == Rebase(y, q, p)
    <3>1. IF z \in Paths /\ resolve(z) = resolve(p) THEN Takes(tree, tree', y, z) ELSE ~Has(tree', y)
      BY <2>1, <2>4 DEF RenamesTo
    <3>2. IsPrefix(p, z)
      BY <1>1, <2>2, <2>4, RebaseFacts
    <3>3. z # q
      BY <2>1, <3>2
    <3>4. CASE z \in Paths /\ resolve(z) = resolve(p)
      <4>1. Id(tree', y) = Id(tree, z)
        BY <3>1, <3>4, TakesFacts
      <4>2. ~InMemory(z)
        BY <1>9, <3>4 DEF InMemory
      <4> QED
        BY <1>3, <3>3, <3>4, <4>1, <4>2
    <3> QED
      BY <1>4, <3>1, <3>4
  <2>5. CASE resolve(y) = resolve(p) /\ ~IsPrefix(q, y)
    <3>1. ~Has(tree', y) \/ (SameAt(tree, tree', y) /\ y # q)
      BY <2>1, <2>2, <2>5 DEF RenamesTo
    <3> QED
      BY <1>4, <1>6, <3>1
  <2> QED
    BY <2>3, <2>4, <2>5
<1> QED
  BY <1>5, <1>7, <1>8, <1>9

(* A node below a moved path.                                                *)
LEMMA ShiftCarried ==
  ASSUME NEW t \in Threads, ServesShift(t), NEW k \in DOMAIN nodes \ {Root}, Firm(PathOf(k)),
         NEW p, p = thread[t].path, NEW q, q = thread[t].new, thread[t].op = "rename", IsPrefix(p, PathOf(k)),
         NEW y, y = Rebase(PathOf(k), p, q)
  PROVE  y \in Paths /\ Leads(y, k)'
<1> DEFINE x == PathOf(k)
<1>1. /\ Serves(t) /\ p \in Seq(Name) /\ q \in Seq(Name) /\ q \in Paths /\ p \in Paths
      /\ x \in Paths /\ x \in Seq(Name) /\ ~thread[t].raced
  BY ShiftAlone, PathFacts DEF Firm
<1>2. /\ resolve(p) = resolve(q) /\ ~Pinned(p) /\ ~Pinned(q)
      /\ ~InMemory(p) => RenamesTo(tree, tree', p, q)
  BY ShiftFacts
<1>3. ~InMemory(p)
  <2>1. SUFFICES ASSUME InMemory(p) PROVE FALSE
    OBVIOUS
  <2>2. ~Firm(p)
    BY <1>2, <2>1 DEF Firm
  <2> QED
    BY <1>1, <2>2, FirmAbove
<1>4. resolve(x) = resolve(p) /\ ~Pinned(x) /\ ~InMemory(x)
  BY <1>1, <1>2, <1>3, ResolveBelow DEF InMemory
<1>5. Leads(x, k)
  BY ShiftLeads
<1>6. k[1] = "host" /\ Has(tree, x) /\ Id(tree, x) # None /\ k = <<"host", Id(tree, x)>>
  <2>1. k[1] = "host" /\ Has(tree, x) /\ Id(tree, x) # None
    BY <1>1, <1>4, <1>5, LeadsFacts
  <2> QED
    BY <1>1, <1>4, <1>5, <2>1, LeadsHost
<1>7. y \in Paths
  <2>1. CASE x = p
    BY <1>1, <2>1, RebaseFacts
  <2>2. CASE x # p
    <3>1. x \in Inside(tree, p)
      BY <1>1, <1>4, <1>6, <2>2 DEF Inside, Under, Below
    <3>2. WaitOK(t) /\ Waiting(t)
      BY <1>1, ServedFacts DEF Serves, Track, CallOK
    <3> QED
      BY <1>1, <1>3, <3>1, <3>2 DEF WaitOK
  <2> QED
    BY <2>1, <2>2
<1>8. IsPrefix(q, y) /\ Rebase(y, q, p) = x
  BY <1>1, RebaseFacts
<1>9. resolve(y) = resolve(p)
  BY <1>1, <1>2, <1>7, <1>8, ResolveBelow
<1>10. Takes(tree, tree', y, x)
  BY <1>1, <1>2, <1>3, <1>4, <1>7, <1>8, <1>9 DEF RenamesTo
<1>11. Has(tree', y) /\ Id(tree', y) = Id(tree, x)
  BY <1>6, <1>10, TakesFacts
<1>12. Stat(tree', y) # Absent /\ Stat(tree', y).id = Id(tree, x) /\ Id(tree, x) # None
  BY <1>6, <1>11, StatFacts
<1>13. ~InMemory(y)
  BY <1>3, <1>9 DEF InMemory
<1> QED
  BY <1>6, <1>7, <1>12, <1>13 DEF Leads, Inode

(* The path that a move replaces or a removal clears.                        *)
LEMMA ShiftCleared ==
  ASSUME NEW t \in Threads, ServesShift(t), NEW k \in DOMAIN nodes \ {Root}, Firm(PathOf(k)),
         Clears(t, PathOf(k))
  PROVE  Gone(k)'
<1> DEFINE q == thread[t].new
<1>1. PathOf(k) = q /\ q \in Paths /\ q \in Seq(Name)
  BY ShiftAlone, ShiftFacts DEF Clears, Shifters, ServesShift
<1>2. Leads(q, k)
  BY <1>1, PrefixOrder, ShiftLeads
<1>3. k[1] = "host" => ~InMemory(q) /\ Id(tree, q) = k[2] /\ Has(tree, q)
  BY <1>1, <1>2, LeadsFacts
<1>4. k[1] = "host" => Gone(k)'
  BY <1>3, ShiftGone
<1> QED
  BY <1>4 DEF Gone

(* A node apart from the moved or cleared paths.                             *)
LEMMA ShiftLeft ==
  ASSUME NEW t \in Threads, ServesShift(t), NEW k \in DOMAIN nodes \ {Root}, Firm(PathOf(k)),
         NEW x, x = PathOf(k), Leads(x, k), ~Carries(t, x), ~Clears(t, x)
  PROVE  Leads(x, k)'
<1> DEFINE p == thread[t].path
           q == thread[t].new
<1>1. x \in Paths /\ x \in Seq(Name) /\ p \in Paths /\ p \in Seq(Name) /\ q \in Paths /\ q \in Seq(Name)
  BY ShiftAlone, PathFacts DEF Firm
<1>2. SameAt(tree, tree', x)
  <2>1. CASE thread[t].op \in Removers
    BY <1>1, <2>1, ShiftFacts DEF Clears, Removers
  <2>2. CASE thread[t].op = "rename"
    <3>1. ~IsPrefix(p, x) /\ x # q
      BY <2>2 DEF Carries, Clears
    <3>2. /\ resolve(p) = resolve(q) /\ ~Pinned(q) /\ (~InMemory(p) => Inside(tree, q) = {})
      BY <2>2, ShiftFacts
    <3>3. ~IsPrefix(q, x)
      <4>1. SUFFICES ASSUME IsPrefix(q, x) PROVE FALSE
        OBVIOUS
      <4>2. resolve(x) = resolve(q) /\ ~Pinned(x)
        BY <1>1, <3>2, <4>1, ResolveBelow
      <4>3. ~InMemory(x) /\ ~InMemory(p)
        BY <3>2, <4>2 DEF Firm, InMemory
      <4>4. Has(tree, x)
        BY <1>1, <4>2, <4>3, LeadsFacts
      <4>5. x \in Inside(tree, q)
        BY <1>1, <3>1, <4>1, <4>2, <4>4 DEF Inside, Under, Below
      <4> QED
        BY <3>2, <4>3, <4>5
    <3> QED
      BY <1>1, <3>1, <3>3, ShiftFacts
  <2> QED
    BY <2>1, <2>2 DEF ServesShift, Shifters
<1> QED
  BY <1>1, <1>2, LeadsSame

(* The host moves or removes an entry.                                      *)
LEMMA ServeShift ==
  ASSUME NEW t \in Threads, ServesShift(t)
  PROVE  Track'
<1>1. Serves(t) /\ thread' = thread /\ nodes' = nodes /\ Shifted(t)' /\ ~Shifted(t)
  BY ShiftAlone DEF Serves
<1>2. \A u \in Threads : u # t => (Shifted(u)' <=> Shifted(u))
  BY <1>1, ServedOther DEF Shifted
<1>3. FollowOK'
  <2> SUFFICES ASSUME NEW k \in DOMAIN nodes \ {Root}, Firm(PathOf(k)), NEW x, x = PathOf(k)
               PROVE  Follows(k)'
    BY <1>1 DEF FollowOK, Firm, PathOf
  <2>1. x = PathOf(k)'
    BY <1>1 DEF PathOf
  <2>2. Follows(k) /\ x \in Seq(Name) /\ x \in Paths
    BY <1>1, PathFacts DEF Track, FollowOK, Serves, Firm
  <2>3. \A u : (Carries(u, x)' <=> Carries(u, x)) /\ (Clears(u, x)' <=> Clears(u, x))
    BY <1>1 DEF Carries, Clears
  <2>4. ASSUME \A u \in Threads : Shifted(u)' => ~Carries(u, x) /\ ~Clears(u, x)
        PROVE  Leads(x, k)'
    <3>1. Leads(x, k)
      BY <1>1, <1>2, <2>2, <2>4 DEF Follows
    <3> QED
      BY <1>1, <2>4, <3>1, ShiftLeft
  <2>5. ASSUME NEW u \in Threads, Shifted(u)', Carries(u, x), NEW y, y = Rebase(x, thread[u].path, thread[u].new)
        PROVE  y \in Paths /\ Leads(y, k)'
    <3>1. CASE u = t
      BY <2>5, <3>1, ShiftCarried DEF Carries
    <3>2. CASE u # t
      <4>1. Shifted(u) /\ y \in Paths /\ Leads(y, k)
        BY <1>2, <2>2, <2>5, <3>2 DEF Follows
      <4>2. thread[u].path \in Seq(Name) /\ thread[u].new \in Seq(Name)
        <5>1. thread[u] # Nothing
          BY <4>1 DEF Shifted
        <5> QED
          BY <1>1, <3>2, <5>1, ServedOther, PathFacts DEF IsCall
      <4>3. IsPrefix(thread[u].new, y) /\ y \in Seq(Name)
        BY <2>2, <2>5, <4>2, RebaseFacts DEF Carries
      <4>4. ~IsPrefix(thread[t].path, y) /\ ~IsPrefix(thread[t].new, y)
        BY <3>2, <4>1, <4>3, ShiftUnrelated
      <4>5. SameAt(tree, tree', y)
        BY <4>1, <4>4, ShiftFacts
      <4> QED
        BY <4>1, <4>5, LeadsSame
    <3> QED
      BY <3>1, <3>2
  <2>6. ASSUME NEW u \in Threads, Shifted(u)', Clears(u, x)
        PROVE  Gone(k)'
    <3>1. CASE u = t
      BY <2>6, <3>1, ShiftCleared
    <3>2. CASE u # t
      <4>1. Gone(k)
        BY <1>2, <2>2, <2>6, <3>2 DEF Follows
      <4>2. k[1] = "host" => Gone(k)'
        BY <4>1, ShiftGone
      <4> QED
        BY <4>2 DEF Gone
    <3> QED
      BY <3>1, <3>2
  <2> QED
    BY <1>1, <2>1, <2>3, <2>4, <2>5, <2>6 DEF Follows
<1> QED
  BY <1>1, <1>3, ShiftOthers, ServeFrame

(* What the answer to a lookup says.                                         *)
LEMMA LookupAnswer ==
  ASSUME NEW t \in Threads, ServesPath(t), thread[t].op = "lookup"
  PROVE  AnsOK(t)' /\ tree' = tree
<1> SUFFICES ASSUME NEW p, p = thread[t].path, NEW stat, stat = outbox'.stat,
                    NEW k, k = InodeInAnswer("lookup", p, stat)
             PROVE  /\ tree' = tree
                    /\ outbox'.err = "ok" =>
                         /\ stat.kind \in {"file", "dir"}
                         /\ ~InMemory(p) => stat.id \in 0..nextId' - 1
                         /\ Firm(p) => /\ Leads(p, k)'
                                       /\ InMemory(p) => stat.kind = Stat(tree', p).kind
  <2>1. /\ thread' = thread /\ Answer(t)' = outbox'
        /\ (Effective(t)' <=> outbox'.err = "ok")
    BY DEF ServesPath, Serves
  <2> QED
    BY <2>1 DEF AnsOK, Makers
<1>1. /\ p \in Paths /\ inbox.op = "lookup" /\ inbox.path = p /\ TreeOK(tree, nextId)
  BY ServedFacts DEF ServesPath, Serves, Base
<1>2. tree' = tree /\ (outbox'.err = "ok" => Stat(tree, p) # Absent /\ stat = Stat(tree, p))
  BY <1>1, QuietOutcome DEF ServesPath, Makers, Shifters, Removers
<1>3. Stat(tree, p) # Absent => Stat(tree, p).kind \in {"file", "dir"} /\ Stat(tree, p).id = Id(tree, p)
  BY StatFacts
<1>4. Id(tree, p) \in 0..nextId' - 1
  <2>1. nextId' \in Nat \ {0} /\ tree' \in Tree(1..nextId' - 1)
    BY DEF ServesPath, Serves, Base, TreeOK
  <2>2. tree'.files \in [Paths -> 0..nextId' - 1] /\ tree'.dirs \in [Paths -> 0..nextId' - 1]
    BY <2>1, TreeTyped
  <2>3. Id(tree', p) \in {tree'.files[p], tree'.dirs[p], None}
    BY IdFacts
  <2> QED
    BY <1>1, <1>2, <2>1, <2>2, <2>3 DEF None
<1>5. ASSUME outbox'.err = "ok"
      PROVE  Leads(p, k)'
  <2>1. stat = Stat(tree, p) /\ Stat(tree, p) # Absent /\ tree' = tree
    BY <1>2, <1>5
  <2>2. k = Inode(p, Stat(tree, p))
    BY <2>1 DEF InodeInAnswer, Inode
  <2>3. InMemory(p) => k = <<Stat(tree, p).kind, p>>
    BY <2>2 DEF Inode
  <2> QED
    BY <1>3, <2>1, <2>2, <2>3 DEF Leads
<1> QED
  BY <1>2, <1>3, <1>4, <1>5

(* The host serves a request.                                               *)
LEMMA TrackServe ==
  ASSUME Base, Track, ServerStep, UNCHANGED guestVars, Noted, ~tangled'
  PROVE  Track'
<1>1. PICK t \in Threads : t = lock
  <2>1. Ready
    BY DEF ServerStep, DispatchPath, DispatchUnstated, DispatchHandle, DispatchRelease
  <2> QED
    BY <2>1, ReadyFacts
<1>2. ASSUME Base', Ready, inbox' = Nothing, outbox' # Nothing, conn' = conn, nextId' \in {nextId, nextId + 1}
      PROVE  Serves(t)
  <2>1. TreeOK(tree, nextId)'
    BY <1>2 DEF Base
  <2>2. lock' = lock /\ thread' = thread /\ nodes' = nodes
    BY DEF guestVars
  <2>3. /\ ~Waiting(lock)' /\ Answer(lock)' = outbox' /\ (Effective(lock)' <=> outbox'.err = "ok")
        /\ \A u \in Threads \ {lock} : Kept(u)
    BY <1>2, <2>1, ReplyStep
  <2>4. ~Waiting(t)' /\ Answer(t)' = outbox' /\ (Effective(t)' <=> outbox'.err = "ok")
    BY <1>1, <1>2, <2>2, ReadyFacts DEF Waiting, Answer, Effective
  <2> QED
    BY <1>1, <1>2, <2>2, <2>3, <2>4 DEF Serves
<1>3. ASSUME Serves(t), tree' = tree, thread[t].op \notin {"lookup", "rename"} \cup Makers,
             thread[t].op \notin Shifters \/ outbox'.err # "ok"
      PROVE  Track'
  <2>1. ~Shifted(t)'
    BY <1>3 DEF Shifted, Serves
  <2>2. AnsOK(t)'
    BY <1>3 DEF AnsOK, Serves
  <2> QED
    BY <1>3, <2>1, <2>2, ServeQuiet
<1>4. CASE DispatchPath
  <2>1. /\ Base' /\ Ready /\ PathRequest(inbox)
        /\ tree' = Outcome(inbox).tree /\ outbox' = Outcome(inbox).resp
        /\ nextId' = IF Outcome(inbox).made = nextId THEN nextId + 1 ELSE nextId
        /\ inbox' = Nothing /\ outbox' # Nothing /\ conn' = conn
    BY <1>4, DispatchPathStep
  <2>2. Serves(t)
    BY <1>2, <2>1
  <2>3. ServesPath(t) /\ inbox.op = thread[t].op /\ TreeOK(tree, nextId)
    BY <2>1, <2>2, ServedFacts DEF ServesPath, Base
  <2>4. CASE thread[t].op \in Makers
    BY <2>3, <2>4, MakerAnswer, ServeMaker DEF ServesPath, ServesTree
  <2>5. CASE thread[t].op \in Shifters /\ outbox'.err = "ok"
    BY <2>3, <2>5, ServeShift DEF ServesShift
  <2>6. CASE thread[t].op \in Shifters /\ outbox'.err # "ok"
    <3>1. tree' = tree
      BY <2>1, <2>3, <2>6, ShifterOutcome
    <3>2. ~Shifted(t)' /\ AnsOK(t)'
      BY <2>2, <2>6 DEF Shifted, Serves, AnsOK
    <3> QED
      BY <2>2, <3>1, <3>2, ServeQuiet
  <2>7. CASE thread[t].op = "lookup"
    <3>1. ~Shifted(t)'
      BY <2>2, <2>7 DEF Shifted, Serves, Shifters, Removers
    <3> QED
      BY <2>2, <2>3, <2>7, <3>1, LookupAnswer, ServeQuiet
  <2>8. CASE thread[t].op \notin {"lookup"} \cup Makers \cup Shifters
    <3>1. tree' = tree
      BY <2>1, <2>3, <2>8, QuietOutcome
    <3> QED
      BY <1>3, <2>2, <2>8, <3>1 DEF Shifters
  <2> QED
    BY <2>4, <2>5, <2>6, <2>7, <2>8
<1>5. CASE DispatchHandle
  <2>1. /\ Base' /\ Ready /\ UNCHANGED <<tree, nextId, conn>> /\ inbox' = Nothing /\ outbox' # Nothing
        /\ inbox.op \in HandleOps \cup {"truncate"}
    BY <1>5, DispatchHandleStep
  <2>2. Serves(t)
    BY <1>2, <2>1
  <2>3. thread[t].op \in HandleOps \cup {"truncate"}
    BY <2>1, <2>2, ServedFacts
  <2> QED
    BY <1>3, <2>1, <2>2, <2>3 DEF HandleOps, Makers, Shifters, Removers
<1>6. CASE DispatchRelease
  <2>1. /\ Base' /\ Ready /\ UNCHANGED <<tree, nextId, conn>> /\ inbox' = Nothing /\ outbox' # Nothing
        /\ inbox.op = "release"
    BY <1>6, DispatchReleaseStep
  <2>2. Serves(t)
    BY <1>2, <2>1
  <2>3. thread[t].op = "release"
    BY <2>1, <2>2, ServedFacts
  <2> QED
    BY <1>3, <2>1, <2>2, <2>3 DEF Makers, Shifters, Removers
<1>7. CASE DispatchUnstated
  <2>1. /\ Base' /\ Ready /\ PathRequest(inbox) /\ inbox.op = "create"
        /\ tree' = Outcome(inbox).tree
        /\ nextId' = IF Outcome(inbox).made = nextId THEN nextId + 1 ELSE nextId
        /\ inbox' = Nothing /\ outbox' # Nothing /\ outbox'.err # "ok" /\ conn' = conn
    BY <1>7, DispatchUnstatedStep
  <2>2. Serves(t)
    BY <1>2, <2>1
  <2>3. thread[t].op = "create"
    BY <2>1, <2>2, ServedFacts
  <2>4. AnsOK(t)'
    BY <2>1, <2>2 DEF AnsOK, Serves
  <2> QED
    BY <2>1, <2>2, <2>3, <2>4, ServeMaker DEF ServesTree, Makers
<1> QED
  BY <1>4, <1>5, <1>6, <1>7 DEF ServerStep

-----------------------------------------------------------------------------
(* A call ends and enters its result.                                       *)

\* A handler has entered its answer.
Finishes(t) ==
  /\ Base /\ Track /\ thread[t] # Nothing /\ Effective(t) /\ Answer(t) = thread[t].resp /\ Ends(t)
  /\ \A u \in Threads \ {t} : Kept(u) /\ thread'[u] = thread[u]
  /\ UNCHANGED <<tree, nextId>>
  /\ nodes' = Pruned(NodesAfter(thread[t]))
  /\ Noted /\ ~tangled'

\* A directory is where it was.
DirSame(d) == d \in DOMAIN nodes => d \in DOMAIN nodes' /\ PathOf(d)' = PathOf(d)

\* A directory is where it was, and has an entry of that name if it had.
SpotSame(d, n) ==
  /\ DirSame(d)
  /\ (\E m : Edge(nodes', d, n, m)) <=> (\E m : Edge(nodes, d, n, m))

\* The other calls find their directories.
SpotsSame(t) ==
  \A u \in Threads \ {t} : \A d, n : thread[u] # Nothing /\ thread[u].op \in DirOps =>
    /\ Firm(thread[u].path) /\ d = thread[u].dir /\ n = thread[u].name => SpotSame(d, n)
    /\ thread[u].op = "rename" /\ Firm(thread[u].new) /\ d = thread[u].todir => DirSame(d)

\* A node at a firm path was there, or leads there now.
Settled(t, k) ==
  \/ /\ k \in DOMAIN nodes /\ PathOf(k) = PathOf(k)'
     /\ Shifted(t) => ~Carries(t, PathOf(k)) /\ ~Clears(t, PathOf(k))
  \/ /\ Leads(PathOf(k)', k)
     /\ \A u \in Threads \ {t} : Shifted(u) => ~Carries(u, PathOf(k)') /\ ~Clears(u, PathOf(k)')

(* What has to be shown of a handler's end.                                  *)
LEMMA FinishFrame ==
  ASSUME NEW t \in Threads, Finishes(t), Placed', HostIds', SpotsSame(t),
         \A k \in DOMAIN nodes' \ {Root} : Firm(PathOf(k)') => Settled(t, k)
  PROVE  Track'
<1>1. ASSUME NEW u \in Threads
      PROVE  /\ SameFields(u) \/ Ends(u)
             /\ u # t => /\ thread'[u] = thread[u] /\ (Shifted(u)' <=> Shifted(u))
                         /\ thread[u] # Nothing => (Effective(u)' <=> Effective(u)) /\ (Waiting(u)' <=> Waiting(u))
                         /\ thread[u] # Nothing /\ Effective(u) => Answer(u)' = Answer(u)
             /\ ~Shifted(t)'
  BY KeptFields DEF Finishes, Ends, Shifted
<1>2. PairsOK'
  BY <1>1, PairsStay DEF Finishes, Track
<1>3. FollowOK'
  <2> SUFFICES ASSUME NEW k \in DOMAIN nodes' \ {Root}, Firm(PathOf(k)'), NEW x, x = PathOf(k)'
               PROVE  Follows(k)'
    BY DEF FollowOK, Firm
  <2>1. (\A p : Leads(p, k)' <=> Leads(p, k)) /\ (Gone(k)' <=> Gone(k))
    BY DEF Leads, Gone, Finishes
  <2>2. \A u \in Threads \ {t} : /\ (Carries(u, x)' <=> Carries(u, x)) /\ (Clears(u, x)' <=> Clears(u, x))
                                 /\ thread'[u] = thread[u]
    BY <1>1 DEF Carries, Clears
  <2>3. Settled(t, k)
    OBVIOUS
  <2>4. CASE Leads(x, k) /\ \A u \in Threads \ {t} : Shifted(u) => ~Carries(u, x) /\ ~Clears(u, x)
    BY <1>1, <2>1, <2>2, <2>4 DEF Follows
  <2>5. CASE /\ k \in DOMAIN nodes /\ PathOf(k) = x
             /\ Shifted(t) => ~Carries(t, x) /\ ~Clears(t, x)
    <3>1. Follows(k)
      BY <2>5 DEF Finishes, Track, FollowOK
    <3> QED
      BY <1>1, <2>1, <2>2, <2>5, <3>1 DEF Follows
  <2> QED
    BY <2>3, <2>4, <2>5 DEF Settled
<1>4. ASSUME NEW u \in Threads, thread'[u] # Nothing
      PROVE  CallOK(u)'
  <2>1. u # t /\ thread'[u] = thread[u]
    BY <1>4 DEF Finishes, Ends
  <2>2. DirOK(u) /\ AnsOK(u) /\ WaitOK(u)
    BY <1>4, <2>1 DEF Finishes, Track, CallOK
  <2>3. DirOK(u)'
    <3>1. SUFFICES ASSUME thread[u].op \in DirOps PROVE DirOK(u)'
      BY <2>1 DEF DirOK
    <3>2. \A d, n : /\ Firm(thread[u].path) /\ d = thread[u].dir /\ n = thread[u].name => SpotSame(d, n)
                    /\ thread[u].op = "rename" /\ Firm(thread[u].new) /\ d = thread[u].todir => DirSame(d)
      BY <1>4, <2>1, <3>1 DEF SpotsSame
    <3>3. \A d, n, p : Off(d, n, p)' <=> Off(d, n, p)
      BY DEF Off
    <3>4. \A d, n, p : DirSame(d) /\ At(d, n, p) => At(d, n, p)'
      BY DEF At, DirSame
    <3>5. \A d, n : SpotSame(d, n) => /\ DirSame(d)
                                      /\ (\E m : Edge(nodes', d, n, m)) <=> (\E m : Edge(nodes, d, n, m))
      BY DEF SpotSame
    <3>6. SUFFICES ASSUME NEW d, NEW n, NEW e, NEW m, d = thread[u].dir, n = thread[u].name,
                          e = thread[u].todir, m = thread[u].toname
                   PROVE  /\ IF Firm(thread[u].path)
                             THEN /\ At(d, n, thread[u].path)'
                                  /\ thread[u].op \in Makers => \A k : ~Edge(nodes', d, n, k)
                                  /\ thread[u].op \in Shifters => \E k : Edge(nodes', d, n, k)
                             ELSE Off(d, n, thread[u].path)
                          /\ thread[u].op = "rename" =>
                               IF Firm(thread[u].new) THEN At(e, m, thread[u].new)' ELSE Off(e, m, thread[u].new)
      BY <2>1, <3>3 DEF DirOK
    <3> QED
      BY <2>1, <2>2, <3>1, <3>2, <3>4, <3>5, <3>6 DEF DirOK
  <2>4. AnsOK(u)'
    <3>1. \A p, k : Leads(p, k)' <=> Leads(p, k)
      BY DEF Leads, Finishes
    <3> QED
      BY <1>1, <1>4, <2>1, <2>2, <3>1 DEF AnsOK, Finishes
  <2>5. WaitOK(u)'
    BY <1>1, <1>4, <2>1, <2>2 DEF WaitOK, Finishes
  <2> QED
    BY <2>3, <2>4, <2>5 DEF CallOK
<1>5. \A u \in Threads : CallOK(u)'
  BY <1>4 DEF CallOK
<1> QED
  BY <1>2, <1>3, <1>5 DEF Track

(* A call that leaves the firm paths alone.                                  *)
LEMMA FinishLoose ==
  ASSUME NEW t \in Threads, Finishes(t), LooseEdit(NodesAfter(thread[t])),
         thread[t].op \in Shifters => /\ ~Firm(thread[t].path) /\ ~Firm(thread[t].new)
                                      /\ thread[t].path \in Paths
  PROVE  Track'
<1>1. Placed' /\ FirmSame
  BY LooseStep DEF Finishes, Track
<1>2. Placed /\ TreeShape(NodesAfter(thread[t]))
  BY DEF Finishes, Track, LooseEdit
<1>3. HostIds'
  <2>1. DOMAIN nodes' \subseteq DOMAIN NodesAfter(thread[t])
    BY <1>2, PrunedFacts DEF Finishes
  <2> QED
    BY <2>1 DEF HostIds, Finishes, Track, LooseEdit
<1>4. ASSUME NEW d, NEW n, NEW p, At(d, n, p), Firm(p), n \in Name
      PROVE  SpotSame(d, n)
  <2>1. d \in DOMAIN nodes /\ p = Join(PathOf(d), n) /\ Firm(PathOf(d))
    BY <1>2, <1>4, EntryAt DEF At
  <2>2. d \in DOMAIN nodes' /\ PathOf(d)' = PathOf(d)
    BY <1>1, <2>1 DEF FirmSame
  <2>3. ASSUME NEW m, Edge(nodes, d, n, m)
        PROVE  Edge(nodes', d, n, m)
    <3>1. PathOf(m) = p /\ m \in DOMAIN nodes
      BY <1>2, <1>4, <2>3, EntryAt DEF Placed, NodesOK, TreeShape
    <3> QED
      BY <1>1, <1>4, <2>3, <3>1 DEF FirmSame
  <2>4. ASSUME NEW m, Edge(nodes', d, n, m)
        PROVE  Edge(nodes, d, n, m)
    <3>1. PathOf(m)' = p /\ m \in DOMAIN nodes'
      BY <1>1, <1>4, <2>1, <2>2, <2>4 DEF Placed, StructOK, NodesOK, TreeShape, PathOf
    <3>2. m \in DOMAIN nodes /\ PathOf(m) = p
      BY <1>1, <1>4, <3>1 DEF FirmSame
    <3> QED
      BY <1>1, <1>4, <2>4, <3>2 DEF FirmSame
  <2> QED
    BY <2>2, <2>3, <2>4 DEF SpotSame, DirSame
<1>5. SpotsSame(t)
  <2> SUFFICES ASSUME NEW u \in Threads \ {t}, thread[u] # Nothing, thread[u].op \in DirOps, NEW d, NEW n
               PROVE  /\ Firm(thread[u].path) /\ d = thread[u].dir /\ n = thread[u].name => SpotSame(d, n)
                      /\ thread[u].op = "rename" /\ Firm(thread[u].new) /\ d = thread[u].todir => DirSame(d)
    BY DEF SpotsSame
  <2>1. /\ Firm(thread[u].path) => At(thread[u].dir, thread[u].name, thread[u].path)
        /\ thread[u].op = "rename" /\ Firm(thread[u].new) => At(thread[u].todir, thread[u].toname, thread[u].new)
    BY DEF Finishes, Track, CallOK, DirOK
  <2>2. thread[u].name \in Name /\ (thread[u].op = "rename" => thread[u].toname \in Name)
    BY DEF Finishes, Track, PairsOK
  <2>3. \A a, b : SpotSame(a, b) => DirSame(a)
    BY DEF SpotSame
  <2> QED
    BY <1>4, <2>1, <2>2, <2>3
<1>6. ASSUME NEW k \in DOMAIN nodes' \ {Root}, Firm(PathOf(k)')
      PROVE  Settled(t, k)
  <2>1. k \in DOMAIN nodes /\ PathOf(k) = PathOf(k)'
    BY <1>1, <1>6 DEF FirmSame
  <2>2. Firm(PathOf(k)) /\ PathOf(k) \in Seq(Name)
    BY <1>6, <2>1, PathFacts DEF Firm
  <2>3. ASSUME Shifted(t)
        PROVE  ~Carries(t, PathOf(k)) /\ ~Clears(t, PathOf(k))
    <3>1. ~Firm(thread[t].path) /\ ~Firm(thread[t].new) /\ thread[t].path \in Paths
      BY <2>3 DEF Shifted
    <3>2. ~IsPrefix(thread[t].path, PathOf(k))
      BY <2>2, <3>1, FirmAbove
    <3> QED
      BY <2>2, <3>1, <3>2 DEF Carries, Clears
  <2> QED
    BY <2>1, <2>3 DEF Settled
<1> QED
  BY <1>1, <1>3, <1>5, <1>6, FinishFrame

(* The call that ends.                                                       *)
LEMMA FinishFacts ==
  ASSUME NEW t \in Threads, Finishes(t), NEW c, c = thread[t]
  PROVE  /\ Placed /\ TreeShape(nodes) /\ IsCall(c) /\ c.path \in Paths /\ c.new \in Paths
         /\ c.path \in Seq(Name) /\ c.new \in Seq(Name)
         /\ c.op # "rename" => c.new = c.path
         /\ c.op \in DirOps => c.dir[1] # "file" /\ c.dir \in c.locked /\ c.name \in Name
         /\ c.op = "rename" =>
              /\ c.todir[1] # "file" /\ c.todir \in c.locked /\ c.toname \in Name /\ c.path # c.new
              /\ resolve(c.path) = resolve(c.new) /\ ~Pinned(c.path) /\ ~Pinned(c.new)
              /\ Firm(c.path) => /\ ~InMemory(c.path) /\ ~InMemory(c.new) /\ Firm(c.new)
                                 /\ ~IsPrefix(c.path, c.new) /\ ~IsPrefix(c.new, c.path)
              /\ ~Firm(c.path) => ~Firm(c.new)
         /\ DirOK(t) /\ (c.op \in Shifters => Shifted(t))
<1>1. Placed /\ TreeShape(nodes) /\ PairsOK /\ DirOK(t) /\ AnsOK(t) /\ Effective(t) /\ c # Nothing
  BY DEF Finishes, Track, CallOK, Placed, NodesOK
<1>2. IsCall(c) /\ c.path \in Paths /\ c.new \in Paths
  BY <1>1 DEF Finishes, Base, CallsOK, IsCall
<1>3. c.path \in Seq(Name) /\ c.new \in Seq(Name)
  BY <1>2, PathFacts
<1>4. /\ c.op # "rename" => c.new = c.path
      /\ c.op \in DirOps => c.dir[1] # "file" /\ c.dir \in c.locked /\ c.name \in Name
      /\ c.op = "rename" => c.todir[1] # "file" /\ c.todir \in c.locked /\ c.toname \in Name /\ c.path # c.new
      /\ ~Tangles(t)
  BY <1>1 DEF PairsOK
<1>5. c.op = "rename" => ~Pinned(c.path) /\ ~Pinned(c.new)
  BY <1>1, <1>4 DEF Tangles, MovesMount, Pinned
<1>6. c.op = "rename" => resolve(c.path) = resolve(c.new)
                         /\ (Firm(c.path) => ~InMemory(c.path) /\ ~IsPrefix(c.path, c.new) /\ ~IsPrefix(c.new, c.path))
  BY <1>1 DEF AnsOK
<1>7. c.op = "rename" => /\ Firm(c.path) => ~InMemory(c.new) /\ Firm(c.new)
                         /\ ~Firm(c.path) => ~Firm(c.new)
  BY <1>2, <1>5, <1>6 DEF Firm, InMemory
<1>8. c.op \in Shifters => Shifted(t)
  BY <1>1 DEF Shifted
<1> QED
  BY <1>1, <1>2, <1>3, <1>4, <1>5, <1>6, <1>7, <1>8

(* The number an answer gives.                                               *)
LEMMA EntryFacts ==
  ASSUME NEW t \in Threads, Finishes(t), NEW c, c = thread[t], c.op \in {"lookup"} \cup Makers,
         NEW i, i = EntryInode(c)
  PROVE  /\ i # Root /\ (i[1] = "file" => ~(c.op = "mkdir" \/ c.resp.stat.kind = "dir"))
         /\ InMemory(c.path) => i[1] \in {"file", "dir"} /\ i[2] = c.path
         /\ i[1] = "host" => i[2] \in 1..nextId - 1 /\ ~InMemory(c.path)
         /\ Firm(c.path) => Leads(c.path, i)
         /\ c.op = "lookup" => c.resp.stat.kind \in {"file", "dir"}
         /\ c.op = "lookup" /\ InMemory(c.path) => i[1] = c.resp.stat.kind
         /\ c.op = "lookup" /\ InMemory(c.path) /\ Firm(c.path) => c.resp.stat.kind = Stat(tree, c.path).kind
<1> DEFINE stat == c.resp.stat
           kind == IF c.op = "create" THEN "file" ELSE IF c.op = "mkdir" THEN "dir" ELSE stat.kind
<1>1. AnsOK(t) /\ Effective(t) /\ Answer(t) = c.resp
  BY DEF Finishes, Track, CallOK
<1>2. /\ c.op = "lookup" => stat.kind \in {"file", "dir"}
      /\ c.op = "create" => stat.kind = "file"
      /\ ~InMemory(c.path) => stat.id \in 0..nextId - 1
      /\ Firm(c.path) => /\ Leads(c.path, InodeInAnswer(c.op, c.path, stat))
                         /\ c.op = "lookup" /\ InMemory(c.path) => stat.kind = Stat(tree, c.path).kind
  BY <1>1 DEF AnsOK
<1>3. c.op \in {"lookup", "mkdir", "create"}
  BY DEF Makers
<1>4. kind \in {"file", "dir"} /\ (kind = "file" => ~(c.op = "mkdir" \/ stat.kind = "dir"))
  BY <1>2, <1>3
<1>5. i = InodeInAnswer(c.op, c.path, stat)
  BY DEF EntryInode
<1>6. i = IF ~InMemory(c.path) /\ stat.id # None THEN <<"host", stat.id>> ELSE <<kind, c.path>>
  BY <1>5 DEF InodeInAnswer, Inode
<1>7. c.op = "lookup" => kind = stat.kind
  OBVIOUS
<1>8. CASE ~InMemory(c.path) /\ stat.id # None
  <2>1. i = <<"host", stat.id>>
    BY <1>6, <1>8
  <2>2. i[1] = "host" /\ i[2] = stat.id /\ i # Root
    BY <2>1 DEF Root
  <2>3. stat.id \in 1..nextId - 1
    <3>1. nextId \in Nat /\ stat.id \in 0..nextId - 1
      BY <1>2, <1>8 DEF Finishes, Base, TreeOK
    <3> QED
      BY <1>8, <3>1 DEF None
  <2> QED
    BY <1>2, <1>5, <1>8, <2>2, <2>3
<1>9. CASE ~(~InMemory(c.path) /\ stat.id # None)
  <2>1. i = <<kind, c.path>>
    BY <1>6, <1>9
  <2>2. i[1] = kind /\ i[2] = c.path
    BY <2>1
  <2>3. i # Root
    BY <1>4, <2>2 DEF Root
  <2> HIDE DEF kind
  <2> QED
    BY <1>2, <1>4, <1>5, <1>7, <2>2, <2>3
<1> QED
  BY <1>8, <1>9

(* The tree of nodes itself.                                                 *)
LEMMA NodesLoose ==
  ASSUME Placed
  PROVE  LooseEdit(nodes)
BY DEF Placed, NodesOK, LooseEdit, PathOf

(* An entry off the firm paths.                                              *)
LEMMA EnteredLoose ==
  ASSUME NEW t \in Threads, Finishes(t), NEW c, c = thread[t], c.op \in {"lookup"} \cup Makers,
         ~Firm(c.path), c.dir \in DOMAIN nodes
  PROVE  LooseEdit(Entered(c))
<1>1. /\ Placed /\ TreeShape(nodes) /\ c.path \in Paths
      /\ c.dir[1] # "file" /\ c.name \in Name /\ DirOK(t)
  BY FinishFacts DEF DirOps
<1>2. PICK i : i = EntryInode(c)
  OBVIOUS
<1>3. PICK ns : ns = Entered(c)
  OBVIOUS
<1>4. InMemory(c.path)
  BY <1>1 DEF Firm
<1>5. i # Root /\ i[1] # "host" /\ i[2] = c.path
  BY <1>2, <1>4, EntryFacts
<1>10. i[1] = "file" => ~(c.op = "mkdir" \/ c.resp.stat.kind = "dir")
  BY <1>2, EntryFacts
<1>6. /\ TreeShape(ns) /\ DOMAIN ns = DOMAIN nodes \cup {i}
      /\ \A j \in DOMAIN nodes : ns[j].path = nodes[j].path
      /\ i \notin DOMAIN nodes => ns[i].path = c.path
      /\ \A j, n, m : Edge(ns, j, n, m) <=> IF j = c.dir /\ n = c.name THEN m = i ELSE Edge(nodes, j, n, m)
  BY <1>1, <1>2, <1>3, <1>5, <1>10, EnteredFacts
<1>7. Off(c.dir, c.name, c.path)
  BY <1>1 DEF DirOK, DirOps
<1>8. /\ ~Firm(Join(PathOf(c.dir), c.name)) /\ ~(PathOf(c.dir) \in Paths /\ ~InMemory(PathOf(c.dir)))
      /\ \A m : Edge(nodes, c.dir, c.name, m) => ~Firm(PathOf(m))
  BY <1>1, <1>7, OffFacts
<1>9. ~Firm(ns[i].path)
  <2>1. CASE i \notin DOMAIN nodes
    BY <1>6, <2>1
  <2>2. CASE i \in DOMAIN nodes
    BY <1>1, <1>5, <1>6, <2>2 DEF Placed, InodesOK
  <2> QED
    BY <2>1, <2>2
<1> QED
  BY <1>3, <1>5, <1>6, <1>8, <1>9 DEF LooseEdit, PathOf

(* A removal off the firm paths.                                            *)
LEMMA WithoutLoose ==
  ASSUME NEW t \in Threads, Finishes(t), NEW c, c = thread[t], c.op \in Removers,
         ~Firm(c.path), c.dir \in DOMAIN nodes
  PROVE  LooseEdit(Without(c.dir, c.name))
<1>1. /\ Placed /\ TreeShape(nodes) /\ c.path \in Paths /\ c.path \in Seq(Name)
      /\ c.name \in Name /\ DirOK(t) /\ c.op \in DirOps
  BY FinishFacts DEF DirOps
<1>2. PICK ns : ns = Without(c.dir, c.name)
  OBVIOUS
<1>3. /\ TreeShape(ns) /\ DOMAIN ns = DOMAIN nodes
      /\ \A j \in DOMAIN nodes : ns[j].path = nodes[j].path
      /\ \A j, n, m : Edge(ns, j, n, m) <=> ~(j = c.dir /\ n = c.name) /\ Edge(nodes, j, n, m)
  BY <1>1, <1>2, WithoutFacts
<1>4. Off(c.dir, c.name, c.path)
  BY <1>1 DEF DirOK
<1>5. \A m : Edge(nodes, c.dir, c.name, m) => ~Firm(PathOf(m))
  BY <1>1, <1>4, OffFacts
<1> QED
  BY <1>2, <1>3, <1>5 DEF LooseEdit, PathOf

(* A rename off the firm paths.                                             *)
LEMMA RenamedLoose ==
  ASSUME NEW t \in Threads, Finishes(t), NEW c, c = thread[t], c.op = "rename",
         ~Firm(c.path), c.todir \in DOMAIN nodes
  PROVE  LooseEdit(Renamed(c))
<1>1. /\ Placed /\ TreeShape(nodes) /\ c.path \in Paths /\ c.path \in Seq(Name) /\ c.new \in Paths
      /\ c.new \in Seq(Name) /\ ~Firm(c.new) /\ c.todir[1] # "file"
      /\ c.name \in Name /\ c.toname \in Name /\ DirOK(t)
  BY FinishFacts DEF DirOps
<1>2. CASE ~(c.dir \in DOMAIN nodes /\ c.name \in Kids(c.dir))
  <2>1. Renamed(c) = nodes
    BY <1>2 DEF Renamed
  <2> QED
    BY <1>1, <2>1, NodesLoose
<1>3. CASE c.dir \in DOMAIN nodes /\ c.name \in Kids(c.dir)
  <2>1. PICK ns : ns = Renamed(c)
    OBVIOUS
  <2>2. PICK i : i = nodes[c.dir].kids[c.name]
    OBVIOUS
  <2>3. /\ TreeShape(ns) /\ DOMAIN ns = DOMAIN nodes /\ i \in DOMAIN nodes /\ i # Root
        /\ Edge(nodes, c.dir, c.name, i)
        /\ \A j \in DOMAIN nodes :
             ns[j].path = IF j \in Subtree(i) /\ IsPrefix(c.path, nodes[j].path)
                          THEN Rebase(nodes[j].path, c.path, c.new) ELSE nodes[j].path
        /\ \A j, n, m : Edge(ns, j, n, m) <=>
             IF j = c.todir /\ n = c.toname THEN m = i
             ELSE ~(j = c.dir /\ n = c.name) /\ Edge(nodes, j, n, m)
    BY <1>1, <1>3, <2>1, <2>2, RenamedFacts
  <2>4. Off(c.dir, c.name, c.path) /\ Off(c.todir, c.toname, c.new)
    BY <1>1 DEF DirOK, DirOps
  <2>5. \A m : Edge(nodes, c.dir, c.name, m) => ~Firm(PathOf(m))
    BY <1>1, <1>3, <2>4, OffFacts
  <2>6. /\ ~Firm(Join(PathOf(c.todir), c.toname)) /\ ~(PathOf(c.todir) \in Paths /\ ~InMemory(PathOf(c.todir)))
        /\ \A m : Edge(nodes, c.todir, c.toname, m) => ~Firm(PathOf(m))
    BY <1>1, <2>4, OffFacts
  <2>7. ASSUME NEW j \in Subtree(i)
        PROVE  ~Firm(PathOf(j))
    <3> DEFINE S == {k \in DOMAIN nodes : ~Firm(PathOf(k))}
    <3>1. \A a, n, m : Edge(nodes, a, n, m) => m \in DOMAIN nodes
      BY <1>1 DEF TreeShape
    <3>2. \A a, n, m : a \in S /\ Edge(nodes, a, n, m) => m \in S
      BY <1>1, <3>1, FirmParent
    <3>3. i \in S /\ i \in DOMAIN nodes
      BY <2>3, <2>5
    <3>4. j \in Hanging(nodes, i)
      BY DEF Subtree
    <3> HIDE DEF S
    <3>5. j \in S
      BY <3>1, <3>2, <3>3, <3>4, HangingIn
    <3> QED
      BY <3>5 DEF S
  <2>8. ASSUME NEW j \in DOMAIN nodes
        PROVE  IF Firm(PathOf(j)) THEN ns[j].path = PathOf(j) ELSE ~Firm(ns[j].path)
    <3>1. CASE Firm(PathOf(j))
      BY <2>3, <2>7, <3>1 DEF PathOf
    <3>2. CASE ~Firm(PathOf(j))
      <4>1. PathOf(j) \in Seq(Name)
        BY <1>1 DEF TreeShape, IsNode, PathOf
      <4>2. IsPrefix(c.path, PathOf(j)) => /\ IsPrefix(c.new, Rebase(PathOf(j), c.path, c.new))
                                           /\ Rebase(PathOf(j), c.path, c.new) \in Seq(Name)
        BY <1>1, <4>1, RebaseFacts
      <4>3. IsPrefix(c.path, PathOf(j)) => ~Firm(Rebase(PathOf(j), c.path, c.new))
        BY <1>1, <4>2, FirmAbove
      <4> QED
        BY <2>3, <3>2, <4>3 DEF PathOf
    <3> QED
      BY <3>1, <3>2
  <2>9. ~Firm(Join(ns[c.todir].path, c.toname)) /\ ~(ns[c.todir].path \in Paths /\ ~InMemory(ns[c.todir].path))
    <3>1. CASE Firm(PathOf(c.todir))
      BY <2>6, <2>8, <3>1
    <3>2. CASE ~Firm(PathOf(c.todir))
      <4>1. ~Firm(ns[c.todir].path) /\ ns[c.todir].path \in Seq(Name)
        BY <2>3, <2>8, <3>2 DEF TreeShape, IsNode
      <4>2. /\ Join(ns[c.todir].path, c.toname) # <<>>
            /\ Front(Join(ns[c.todir].path, c.toname)) = ns[c.todir].path
        BY <1>1, <4>1, JoinFacts
      <4>3. ~Firm(Join(ns[c.todir].path, c.toname))
        BY <4>1, <4>2, FirmFront
      <4> QED
        BY <4>1, <4>3 DEF Firm
    <3> QED
      BY <3>1, <3>2
  <2>10. ~Firm(ns[i].path)
    BY <2>3, <2>5, <2>8
  <2>11. LooseEdit(ns)
    BY <2>3, <2>5, <2>6, <2>8, <2>9, <2>10 DEF LooseEdit
  <2> QED
    BY <2>1, <2>11
<1> QED
  BY <1>2, <1>3

(* A call that is not about a firm path.                                     *)
LEMMA FinishOff ==
  ASSUME NEW t \in Threads, Finishes(t), thread[t].op \notin DirOps \/ ~Firm(thread[t].path)
  PROVE  Track'
<1> DEFINE c == thread[t]
<1>1. Placed /\ c.path \in Paths
  BY FinishFacts
<1>2. c.op \in Shifters => ~Firm(c.path) /\ ~Firm(c.new) /\ c.path \in Paths
  BY FinishFacts DEF Shifters, DirOps
<1>3. LooseEdit(NodesAfter(c))
  <2>1. CASE c.op \in {"lookup"} \cup Makers /\ c.dir \in DOMAIN nodes
    <3>1. NodesAfter(c) = Entered(c)
      BY <2>1 DEF NodesAfter, Makers, Removers
    <3> QED
      BY <2>1, <3>1, EnteredLoose DEF DirOps
  <2>2. CASE c.op \in Removers /\ c.dir \in DOMAIN nodes
    <3>1. NodesAfter(c) = Without(c.dir, c.name)
      BY <2>2 DEF NodesAfter, Makers, Removers
    <3> QED
      BY <2>2, <3>1, WithoutLoose DEF DirOps
  <2>3. CASE c.op = "rename" /\ c.todir \in DOMAIN nodes
    <3>1. NodesAfter(c) = Renamed(c)
      BY <2>3 DEF NodesAfter, Makers, Removers
    <3> QED
      BY <2>3, <3>1, RenamedLoose DEF DirOps
  <2>4. CASE /\ ~(c.op \in {"lookup"} \cup Makers /\ c.dir \in DOMAIN nodes)
             /\ ~(c.op \in Removers /\ c.dir \in DOMAIN nodes)
             /\ ~(c.op = "rename" /\ c.todir \in DOMAIN nodes)
    <3>1. NodesAfter(c) = nodes
      BY <2>4 DEF NodesAfter
    <3> QED
      BY <1>1, <3>1, NodesLoose
  <2> QED
    BY <2>1, <2>2, <2>3, <2>4
<1> QED
  BY <1>2, <1>3, FinishLoose

(* The one entry of a node at a firm path.                                   *)
LEMMA ParentSpot ==
  ASSUME Placed, NEW d, NEW n \in Name, NEW p, At(d, n, p), Firm(p),
         NEW j, NEW a, NEW m, Edge(nodes, j, a, m), PathOf(m) = p
  PROVE  j = d /\ a = n
<1>1. PathOf(d) = Front(p) /\ PathOf(d) \in Seq(Name) /\ Firm(PathOf(d)) /\ p # <<>> /\ d \in DOMAIN nodes
  BY EntryAt DEF At
<1>2. PathOf(j) = Front(p) /\ a = Last(p) /\ j \in DOMAIN nodes
  BY FirmParent
<1>3. j = d
  <2>1. PathOf(d) = PathOf(j)
    BY <1>1, <1>2
  <2> QED
    BY <1>1, <1>2, <2>1, UniquePath
<1>4. p = Join(PathOf(d), n)
  BY DEF At
<1>5. Last(Join(PathOf(d), n)) = n
  BY <1>1, JoinFacts
<1> QED
  BY <1>2, <1>3, <1>4, <1>5

(* What hangs in the tree after a step has an entry there.                   *)
LEMMA EntryLeft ==
  ASSUME NEW ns, TreeShape(ns), NEW k \in Hanging(ns, Root), k # Root
  PROVE  \E j, n : Edge(ns, j, n, k)
BY HasParent DEF TreeShape

(* No shift in hand is on a path related to that of another call.            *)
LEMMA FinishApart ==
  ASSUME NEW t \in Threads, Finishes(t), NEW u \in Threads, u # t, Shifted(u), thread[t].op \in DirOps,
         NEW p \in {thread[t].path, thread[t].new}, NEW x \in Seq(Name), IsPrefix(p, x)
  PROVE  ~Carries(u, x) /\ ~Clears(u, x) /\ ~IsPrefix(thread[u].new, x)
<1>1. /\ Base /\ PairsOK /\ thread[u] # Nothing /\ thread[t] # Nothing /\ p \in Seq(Name)
      /\ IsCall(thread[u])
  BY FinishFacts DEF Finishes, Track, Shifted, Base, CallsOK
<1>2. thread[u].path \in Seq(Name) /\ thread[u].new \in Seq(Name)
  BY <1>1, PathFacts DEF IsCall
<1>3. \A y \in {thread[u].path, thread[u].new} : ~IsPrefix(p, y) /\ ~IsPrefix(y, p)
  BY <1>1, ShiftedApart
<1>4. ASSUME NEW y \in {thread[u].path, thread[u].new}
      PROVE  ~IsPrefix(y, x)
  <2>1. IsPrefix(y, x) => IsPrefix(y, p) \/ IsPrefix(p, y)
    BY <1>1, <1>2, PrefixOrder
  <2> QED
    BY <1>3, <2>1
<1>5. IsPrefix(x, x)
  BY PrefixOrder
<1> QED
  BY <1>4, <1>5 DEF Carries, Clears

(* The node with the number of an answer is at the answer's path.            *)
LEMMA EntryPath ==
  ASSUME NEW t \in Threads, Finishes(t), NEW c, c = thread[t], c.op \in {"lookup"} \cup Makers,
         Firm(c.path), NEW i, i = EntryInode(c), i \in DOMAIN nodes
  PROVE  PathOf(i) = c.path
<1>1. Placed /\ c.path \in Paths /\ i # Root /\ Leads(c.path, i) /\ c.op \in DirOps
  BY FinishFacts, EntryFacts DEF DirOps
<1>2. CASE i[1] # "host"
  <2>1. i[2] = c.path
    BY <1>1, <1>2, LeadsFacts
  <2> QED
    BY <1>1, <1>2, <2>1 DEF Placed, InodesOK, PathOf
<1>3. CASE i[1] = "host"
  <2>1. ~InMemory(c.path) /\ Id(tree, c.path) = i[2] /\ Id(tree, c.path) # None
    BY <1>1, <1>3, LeadsFacts
  <2>2. PathOf(i) \in Paths /\ ~InMemory(PathOf(i)) /\ Firm(PathOf(i))
    BY <1>1, <1>3 DEF Placed, InodesOK, PathOf, Firm
  <2>3. Follows(i)
    BY <1>1, <2>2 DEF Finishes, Track, FollowOK
  <2>4. ASSUME NEW x \in Paths, Leads(x, i)
        PROVE  x = c.path
    <3>1. ~InMemory(x) /\ Id(tree, x) = i[2] /\ Has(tree, x)
      BY <1>3, <2>4, LeadsFacts
    <3> QED
      BY <1>1, <2>1, <3>1 DEF Finishes, Base, TreeOK
  <2>5. CASE \A u \in Threads : Shifted(u) => ~Carries(u, PathOf(i)) /\ ~Clears(u, PathOf(i))
    BY <2>2, <2>3, <2>4, <2>5 DEF Follows
  <2>6. ASSUME NEW u \in Threads, Shifted(u), Carries(u, PathOf(i)) \/ Clears(u, PathOf(i))
        PROVE  FALSE
    <3>1. u # t
      BY <2>6 DEF Shifted, Shifters, Removers, Makers
    <3>2. CASE Clears(u, PathOf(i))
      <4>1. Gone(i)
        BY <2>3, <2>6, <3>2 DEF Follows
      <4> QED
        BY <1>1, <1>3, <2>1, <4>1 DEF Gone
    <3>3. CASE Carries(u, PathOf(i))
      <4> DEFINE y == Rebase(PathOf(i), thread[u].path, thread[u].new)
      <4>1. y \in Paths /\ Leads(y, i)
        BY <2>3, <2>6, <3>3 DEF Follows
      <4>2. y = c.path
        BY <2>4, <4>1
      <4>3. thread[u] # Nothing /\ IsCall(thread[u])
        BY <2>6 DEF Shifted, Finishes, Base, CallsOK
      <4>4. thread[u].path \in Seq(Name) /\ thread[u].new \in Seq(Name) /\ PathOf(i) \in Seq(Name)
        BY <2>2, <4>3, PathFacts DEF IsCall
      <4>5. IsPrefix(thread[u].new, y)
        BY <3>3, <4>4, RebaseFacts DEF Carries
      <4>6. c.path \in Seq(Name) /\ IsPrefix(c.path, c.path)
        BY <1>1, PathFacts, PrefixOrder
      <4> QED
        BY <1>1, <2>6, <3>1, <4>2, <4>5, <4>6, FinishApart
    <3> QED
      BY <2>6, <3>2, <3>3
  <2> QED
    BY <2>5, <2>6
<1> QED
  BY <1>2, <1>3

(* An answer replaces a node only by another kind in memory.                 *)
LEMMA EntryReplaces ==
  ASSUME NEW t \in Threads, Finishes(t), NEW c, c = thread[t], c.op \in {"lookup"} \cup Makers,
         Firm(c.path), NEW i, i = EntryInode(c), NEW m, Edge(nodes, c.dir, c.name, m), m # i
  PROVE  m[1] = "file"
<1>1. /\ Placed /\ c.path \in Paths /\ c.op \in DirOps /\ c.name \in Name /\ DirOK(t) /\ Leads(c.path, i)
      /\ c.path \in Seq(Name)
  BY FinishFacts, EntryFacts DEF DirOps
<1>2. At(c.dir, c.name, c.path) /\ c.op = "lookup"
  BY <1>1 DEF DirOK
<1>3. PathOf(m) = c.path /\ m \in DOMAIN nodes
  <2>1. PathOf(m) = c.path
    BY <1>1, <1>2, EntryAt
  <2> QED
    BY <1>1, <2>1 DEF Placed, NodesOK, TreeShape
<1>4. m # Root
  BY <1>1 DEF Placed, NodesOK, TreeShape
<1>5. Follows(m)
  BY <1>3, <1>4 DEF Finishes, Track, FollowOK
<1>6. \A u \in Threads : Shifted(u) => ~Carries(u, c.path) /\ ~Clears(u, c.path)
  <2> SUFFICES ASSUME NEW u \in Threads, Shifted(u)
               PROVE  ~Carries(u, c.path) /\ ~Clears(u, c.path)
    OBVIOUS
  <2>1. u # t
    BY <1>2 DEF Shifted, Shifters, Removers
  <2>2. IsPrefix(c.path, c.path)
    BY <1>1, PrefixOrder
  <2> QED
    BY <1>1, <2>1, <2>2, FinishApart
<1>7. Leads(c.path, m)
  BY <1>3, <1>5, <1>6 DEF Follows
<1>8. CASE ~InMemory(c.path)
  BY <1>1, <1>7, <1>8 DEF Leads
<1>9. CASE InMemory(c.path)
  <2>1. m = <<"file", c.path>> \/ (m = <<"dir", c.path>> /\ Stat(tree, c.path).kind = "dir")
    BY <1>7, <1>9 DEF Leads
  <2>2. i[1] = Stat(tree, c.path).kind
    BY <1>2, <1>9, EntryFacts
  <2>3. i = <<"file", c.path>> \/ i = <<"dir", c.path>>
    BY <1>1, <1>9 DEF Leads
  <2> QED
    BY <2>1, <2>2, <2>3
<1> QED
  BY <1>8, <1>9

(* A lookup, mkdir or create of a firm path ends.                           *)
LEMMA FinishEntered ==
  ASSUME NEW t \in Threads, Finishes(t), thread[t].op \in {"lookup"} \cup Makers, Firm(thread[t].path)
  PROVE  Track'
<1>0. PICK c : c = thread[t]
  OBVIOUS
<1>1. /\ Placed /\ TreeShape(nodes) /\ c.path \in Paths /\ c.op \in DirOps
      /\ c.name \in Name /\ c.dir \in c.locked /\ c.dir[1] # "file" /\ DirOK(t)
  BY <1>0, FinishFacts DEF DirOps
<1>2. At(c.dir, c.name, c.path)
  BY <1>0, <1>1 DEF DirOK
<1>3. c.dir \in DOMAIN nodes
  BY <1>2 DEF At
<1>19. c.path = Join(PathOf(c.dir), c.name)
  BY <1>2 DEF At
<1>4. PICK i : i = EntryInode(c)
  OBVIOUS
<1>5. i # Root
  BY <1>0, <1>4, EntryFacts
<1>20. i[1] = "host" => i[2] \in 1..nextId - 1
  BY <1>0, <1>4, EntryFacts
<1>6. i[1] = "file" => ~(c.op = "mkdir" \/ c.resp.stat.kind = "dir")
  BY <1>0, <1>4, EntryFacts
<1>7. PICK ns : ns = Entered(c)
  OBVIOUS
<1>8. /\ TreeShape(ns) /\ DOMAIN ns = DOMAIN nodes \cup {i}
      /\ \A j \in DOMAIN nodes : ns[j].path = nodes[j].path
      /\ i \notin DOMAIN nodes => ns[i].path = c.path
      /\ \A j, n, m : Edge(ns, j, n, m) <=> IF j = c.dir /\ n = c.name THEN m = i ELSE Edge(nodes, j, n, m)
  BY <1>1, <1>3, <1>4, <1>5, <1>6, <1>7, EnteredFacts
<1>9. ns[i].path = c.path
  BY <1>0, <1>4, <1>8, EntryPath DEF PathOf
<1>10. nodes' = Pruned(ns)
  <2>1. NodesAfter(c) = Entered(c)
    BY <1>0, <1>3 DEF NodesAfter, Makers, Removers
  <2> QED
    BY <1>0, <1>7, <2>1 DEF Finishes
<1>11. Leads(c.path, i)
  BY <1>0, <1>4, EntryFacts
<1>12. InodesOK(ns)
  <2> SUFFICES ASSUME NEW k \in DOMAIN ns \ {Root}
               PROVE  /\ k[1] = "host" => ns[k].path \in Paths /\ ~InMemory(ns[k].path)
                      /\ k[1] # "host" /\ (Firm(k[2]) \/ Firm(ns[k].path)) => ns[k].path = k[2] /\ Pinned(k[2])
    BY DEF InodesOK
  <2>1. CASE k \in DOMAIN nodes
    BY <1>1, <1>8, <2>1 DEF Placed, InodesOK
  <2>2. CASE k = i
    BY <1>0, <1>1, <1>9, <1>11, <2>2, LeadsFacts
  <2> QED
    BY <1>8, <2>1, <2>2
<1>13. StructOK(ns)
  <2> SUFFICES ASSUME NEW j, NEW n, NEW m, Edge(ns, j, n, m)
               PROVE  /\ Firm(ns[m].path) \/ Firm(Join(ns[j].path, n)) => ns[m].path = Join(ns[j].path, n)
                      /\ ns[j].path \in Paths /\ ~InMemory(ns[j].path) => Firm(ns[m].path)
    BY DEF StructOK
  <2>1. CASE j = c.dir /\ n = c.name
    BY <1>0, <1>3, <1>8, <1>9, <1>19, <2>1 DEF PathOf
  <2>2. CASE ~(j = c.dir /\ n = c.name)
    <3>1. Edge(nodes, j, n, m)
      BY <1>8, <2>2
    <3>2. j \in DOMAIN nodes /\ m \in DOMAIN nodes
      BY <1>1, <3>1 DEF TreeShape, Edge
    <3> QED
      BY <1>1, <1>8, <3>1, <3>2 DEF Placed, StructOK
  <2> QED
    BY <2>1, <2>2
<1>14. /\ Placed' /\ DOMAIN nodes' = Hanging(ns, Root) /\ DOMAIN nodes' \subseteq DOMAIN ns
       /\ \A k \in DOMAIN nodes' : nodes'[k] = ns[k]
       /\ \A j, n, m : Edge(nodes', j, n, m) <=> Edge(ns, j, n, m) /\ j \in DOMAIN nodes'
  BY <1>8, <1>10, <1>12, <1>13, PlacedAfter
<1>15. ASSUME NEW k \in DOMAIN nodes, k[1] # "file"
       PROVE  k \in DOMAIN nodes' /\ PathOf(k)' = PathOf(k)
  <2> DEFINE L == {m \in DOMAIN nodes : m[1] = "file"}
  <2>1. \A j, n, m : j \in L /\ Edge(nodes, j, n, m) => m \in L
    BY <1>1 DEF TreeShape, Edge
  <2>2. \A j, n, m : Edge(nodes, j, n, m) /\ m \notin L => Edge(ns, j, n, m)
    <3> SUFFICES ASSUME NEW j, NEW n, NEW m, Edge(nodes, j, n, m), m \notin L
                 PROVE  Edge(ns, j, n, m)
      OBVIOUS
    <3>1. m \in DOMAIN nodes
      BY <1>1 DEF TreeShape
    <3>2. j = c.dir /\ n = c.name => m = i
      BY <1>0, <1>4, <3>1, EntryReplaces
    <3> QED
      BY <1>8, <3>2
  <2>3. k \notin L /\ DOMAIN nodes \subseteq DOMAIN ns
    BY <1>8, <1>15
  <2> HIDE DEF L
  <2>4. k \in Hanging(ns, Root)
    BY <1>1, <1>8, <2>1, <2>2, <2>3, StillHangs
  <2> QED
    BY <1>8, <1>14, <2>4 DEF PathOf
<1>16. HostIds'
  <2>1. \A k \in DOMAIN ns : k[1] = "host" => k[2] \in 1..nextId - 1
    BY <1>8, <1>20 DEF Finishes, Track, HostIds
  <2> QED
    BY <1>14, <2>1 DEF HostIds, Finishes
<1>17. SpotsSame(t)
  <2> SUFFICES ASSUME NEW u \in Threads \ {t}, thread[u] # Nothing, thread[u].op \in DirOps, NEW d, NEW n
               PROVE  /\ Firm(thread[u].path) /\ d = thread[u].dir /\ n = thread[u].name => SpotSame(d, n)
                      /\ thread[u].op = "rename" /\ Firm(thread[u].new) /\ d = thread[u].todir => DirSame(d)
    BY DEF SpotsSame
  <2>1. PairsOK /\ thread[t] # Nothing /\ DirOK(u)
    BY DEF Finishes, Track, CallOK
  <2>2. /\ thread[u].dir[1] # "file" /\ thread[u].dir \in thread[u].locked
        /\ thread[u].op = "rename" => thread[u].todir[1] # "file"
    BY <2>1 DEF PairsOK
  <2>3. ASSUME Firm(thread[u].path), d = thread[u].dir, n = thread[u].name
        PROVE  SpotSame(d, n)
    <3>1. At(d, n, thread[u].path)
      BY <2>1, <2>3 DEF DirOK
    <3>2. ~(d = c.dir /\ n = c.name)
      <4>1. SUFFICES ASSUME d = c.dir, n = c.name PROVE FALSE
        OBVIOUS
      <4>2. thread[u].path = thread[t].path
        BY <1>0, <1>3, <1>19, <3>1, <4>1 DEF At
      <4>3. thread[t].locked \cap thread[u].locked = {}
        BY <2>1, <4>2 DEF PairsOK
      <4> QED
        BY <1>0, <1>1, <2>2, <2>3, <4>1, <4>3
    <3>3. d \in DOMAIN nodes
      BY <3>1 DEF At
    <3>4. d \in DOMAIN nodes' /\ PathOf(d)' = PathOf(d)
      BY <1>15, <2>2, <2>3, <3>3
    <3>5. \A m : Edge(nodes', d, n, m) <=> Edge(nodes, d, n, m)
      BY <1>8, <1>14, <3>2, <3>4
    <3> QED
      BY <3>4, <3>5 DEF SpotSame, DirSame
  <2>4. ASSUME thread[u].op = "rename", d = thread[u].todir
        PROVE  DirSame(d)
    BY <1>15, <2>2, <2>4 DEF DirSame
  <2> QED
    BY <2>3, <2>4
<1>18. ASSUME NEW k \in DOMAIN nodes' \ {Root}, Firm(PathOf(k)')
       PROVE  Settled(t, k)
  <2>1. PathOf(k)' = ns[k].path /\ k \in DOMAIN ns
    BY <1>14 DEF PathOf
  <2>2. ~Shifted(t)
    BY DEF Shifted, Shifters, Removers, Makers
  <2>3. CASE k \in DOMAIN nodes
    BY <1>8, <2>1, <2>2, <2>3 DEF Settled, PathOf
  <2>4. CASE k = i
    <3>1. PathOf(k)' = c.path
      BY <1>9, <2>1, <2>4
    <3>2. c.path \in Seq(Name) /\ IsPrefix(c.path, c.path)
      BY <1>1, PathFacts, PrefixOrder
    <3>3. \A u \in Threads \ {t} : Shifted(u) => ~Carries(u, c.path) /\ ~Clears(u, c.path)
      BY <1>0, <1>1, <3>2, FinishApart
    <3> QED
      BY <1>11, <2>4, <3>1, <3>3 DEF Settled
  <2> QED
    BY <1>8, <2>1, <2>3, <2>4
<1> QED
  BY <1>14, <1>16, <1>17, <1>18, FinishFrame

(* Another call, when a move or removal of a firm path ends.                 *)
LEMMA OtherSpot ==
  ASSUME NEW t \in Threads, Finishes(t), Shifted(t), NEW u \in Threads \ {t}, thread[u] # Nothing,
         thread[u].op \in DirOps, NEW d, NEW n \in Name, NEW y \in {thread[u].path, thread[u].new},
         At(d, n, y), Firm(y)
  PROVE  /\ d \in DOMAIN nodes /\ Firm(PathOf(d))
         /\ \A x \in {thread[t].path, thread[t].new} :
              /\ ~IsPrefix(x, PathOf(d))
              /\ \A e, m : At(e, m, x) => ~(d = e /\ n = m)
<1>1. Base /\ PairsOK /\ Placed
  BY DEF Finishes, Track
<1>2. /\ y # <<>> /\ PathOf(d) = Front(y) /\ Firm(PathOf(d)) /\ d \in DOMAIN nodes /\ y = Join(PathOf(d), n)
  BY <1>1, EntryAt DEF At
<1>3. y \in Paths /\ y \in Seq(Name) /\ PathOf(d) \in Seq(Name) /\ IsPrefix(PathOf(d), y) /\ IsPrefix(y, y)
  BY <1>2, PathFacts, PrefixOrder DEF Firm
<1>4. ASSUME NEW x \in {thread[t].path, thread[t].new}
      PROVE  /\ ~IsPrefix(x, PathOf(d))
             /\ \A e, m : At(e, m, x) => ~(d = e /\ n = m)
  <2>1. ~IsPrefix(x, y) /\ ~IsPrefix(y, x)
    BY <1>1, <1>4, ShiftedApart
  <2>2. x \in Seq(Name)
    BY <1>4, FinishFacts
  <2>3. ~IsPrefix(x, PathOf(d))
    BY <1>3, <2>1, <2>2, PrefixOrder
  <2>4. x # y
    BY <1>3, <2>1
  <2> QED
    BY <1>2, <2>3, <2>4 DEF At
<1> QED
  BY <1>2, <1>4

(* A removal of a firm path ends.                                           *)
LEMMA FinishWithout ==
  ASSUME NEW t \in Threads, Finishes(t), thread[t].op \in Removers, Firm(thread[t].path)
  PROVE  Track'
<1>0. PICK c : c = thread[t]
  OBVIOUS
<1>1. /\ Placed /\ TreeShape(nodes) /\ c.path \in Paths /\ c.op \in DirOps /\ c.path \in Seq(Name)
      /\ c.name \in Name /\ DirOK(t) /\ Shifted(t) /\ c.new = c.path
  BY <1>0, FinishFacts DEF DirOps, Shifters, Removers
<1>2. At(c.dir, c.name, c.path) /\ c.dir \in DOMAIN nodes
  BY <1>0, <1>1 DEF DirOK, At
<1>3. PICK ns : ns = Without(c.dir, c.name)
  OBVIOUS
<1>4. /\ TreeShape(ns) /\ DOMAIN ns = DOMAIN nodes
      /\ \A j \in DOMAIN nodes : ns[j].path = nodes[j].path
      /\ \A j, n, m : Edge(ns, j, n, m) <=> ~(j = c.dir /\ n = c.name) /\ Edge(nodes, j, n, m)
  BY <1>1, <1>2, <1>3, WithoutFacts
<1>5. nodes' = Pruned(ns)
  <2>1. NodesAfter(c) = Without(c.dir, c.name)
    BY <1>0, <1>2 DEF NodesAfter, Makers, Removers
  <2> QED
    BY <1>0, <1>3, <2>1 DEF Finishes
<1>6. InodesOK(ns) /\ StructOK(ns)
  <2>1. \A j, n, m : Edge(nodes, j, n, m) => j \in DOMAIN nodes /\ m \in DOMAIN nodes
    BY <1>1 DEF TreeShape, Edge
  <2> QED
    BY <1>1, <1>4, <2>1 DEF Placed, InodesOK, StructOK
<1>7. /\ Placed' /\ DOMAIN nodes' = Hanging(ns, Root) /\ DOMAIN nodes' \subseteq DOMAIN ns
      /\ \A k \in DOMAIN nodes' : nodes'[k] = ns[k]
      /\ \A j, n, m : Edge(nodes', j, n, m) <=> Edge(ns, j, n, m) /\ j \in DOMAIN nodes'
  BY <1>4, <1>5, <1>6, PlacedAfter
<1>8. ASSUME NEW k \in DOMAIN nodes, Firm(PathOf(k)), ~IsPrefix(c.path, PathOf(k))
      PROVE  k \in DOMAIN nodes' /\ PathOf(k)' = PathOf(k)
  <2>1. \A j, n, m : j \in Loose(c.path) /\ Edge(nodes, j, n, m) => m \in Loose(c.path)
    BY <1>1, LooseClosed
  <2>2. \A j, n, m : Edge(nodes, j, n, m) /\ m \notin Loose(c.path) => Edge(ns, j, n, m)
    <3> SUFFICES ASSUME NEW j, NEW n, NEW m, Edge(nodes, j, n, m), m \notin Loose(c.path),
                        j = c.dir, n = c.name
                 PROVE  FALSE
      BY <1>4
    <3>3. Edge(nodes, c.dir, c.name, m) /\ Firm(c.path)
      BY <1>0
    <3>4. PathOf(m) = c.path
      BY <1>1, <1>2, <3>3, EntryAt
    <3>1. m \in DOMAIN nodes /\ IsPrefix(c.path, c.path)
      BY <1>1, PrefixOrder DEF TreeShape
    <3>2. PathOf(m) # c.path
      BY <3>1 DEF Loose
    <3> QED
      BY <3>2, <3>4
  <2>3. k \notin Loose(c.path) /\ DOMAIN nodes \subseteq DOMAIN ns
    BY <1>4, <1>8 DEF Loose
  <2>4. k \in Hanging(ns, Root)
    BY <1>1, <1>4, <2>1, <2>2, <2>3, StillHangs
  <2> QED
    BY <1>4, <1>7, <2>4 DEF PathOf
<1>9. HostIds'
  BY <1>4, <1>7 DEF HostIds, Finishes, Track
<1>10. ASSUME NEW u \in Threads \ {t}, thread[u] # Nothing, thread[u].op \in DirOps,
              NEW d, NEW n \in Name, NEW y \in {thread[u].path, thread[u].new}, At(d, n, y), Firm(y)
       PROVE  SpotSame(d, n)
  <2>1. d \in DOMAIN nodes /\ Firm(PathOf(d)) /\ ~IsPrefix(c.path, PathOf(d)) /\ ~(d = c.dir /\ n = c.name)
    BY <1>0, <1>1, <1>2, <1>10, OtherSpot
  <2>2. d \in DOMAIN nodes' /\ PathOf(d)' = PathOf(d)
    BY <1>8, <2>1
  <2>3. \A m : Edge(nodes', d, n, m) <=> Edge(nodes, d, n, m)
    BY <1>4, <1>7, <2>1, <2>2
  <2> QED
    BY <2>2, <2>3 DEF SpotSame, DirSame
<1>11. SpotsSame(t)
  <2> SUFFICES ASSUME NEW u \in Threads \ {t}, thread[u] # Nothing, thread[u].op \in DirOps, NEW d, NEW n
               PROVE  /\ Firm(thread[u].path) /\ d = thread[u].dir /\ n = thread[u].name => SpotSame(d, n)
                      /\ thread[u].op = "rename" /\ Firm(thread[u].new) /\ d = thread[u].todir => DirSame(d)
    BY DEF SpotsSame
  <2>1. /\ Firm(thread[u].path) => At(thread[u].dir, thread[u].name, thread[u].path)
        /\ thread[u].op = "rename" /\ Firm(thread[u].new) => At(thread[u].todir, thread[u].toname, thread[u].new)
    BY DEF Finishes, Track, CallOK, DirOK
  <2>2. thread[u].name \in Name /\ (thread[u].op = "rename" => thread[u].toname \in Name)
    BY DEF Finishes, Track, PairsOK
  <2>3. \A a, b : SpotSame(a, b) => DirSame(a)
    BY DEF SpotSame
  <2> QED
    BY <1>10, <2>1, <2>2, <2>3
<1>12. ASSUME NEW k \in DOMAIN nodes' \ {Root}, Firm(PathOf(k)')
       PROVE  Settled(t, k)
  <2>1. k \in DOMAIN nodes /\ PathOf(k) = PathOf(k)'
    BY <1>4, <1>7 DEF PathOf
  <2>2. PathOf(k) # c.path
    <3>1. SUFFICES ASSUME PathOf(k) = c.path PROVE FALSE
      OBVIOUS
    <3>2. PICK j, n : Edge(ns, j, n, k)
      BY <1>4, <1>7, EntryLeft
    <3>3. Edge(nodes, j, n, k) /\ ~(j = c.dir /\ n = c.name)
      BY <1>4, <3>2
    <3> QED
      BY <1>0, <1>1, <1>2, <3>1, <3>3, ParentSpot
  <2>3. ~Carries(t, PathOf(k)) /\ ~Clears(t, PathOf(k))
    BY <1>0, <2>2 DEF Carries, Clears, Removers
  <2> QED
    BY <2>1, <2>3 DEF Settled
<1> QED
  BY <1>7, <1>9, <1>11, <1>12, FinishFrame

-----------------------------------------------------------------------------
(* A rename ends.                                                           *)

(* The nodes at or below a firm path.                                        *)
MovedNodes(p) == {j \in DOMAIN nodes : Firm(PathOf(j)) /\ IsPrefix(p, PathOf(j))}

(* They are what hangs below the node at that path.                          *)
LEMMA MovedSubtree ==
  ASSUME Placed, NEW d, NEW n \in Name, NEW p \in Paths, At(d, n, p), Firm(p), ~Pinned(p),
         NEW k, Edge(nodes, d, n, k)
  PROVE  /\ Subtree(k) = MovedNodes(p) /\ Root \notin MovedNodes(p) /\ k \in MovedNodes(p) /\ PathOf(k) = p
         /\ \A j, a, m : Edge(nodes, j, a, m) =>
              /\ j \in MovedNodes(p) => m \in MovedNodes(p)
              /\ m \in MovedNodes(p) => j \in MovedNodes(p) \/ PathOf(m) = p
<1>0. p \in Seq(Name) /\ IsPrefix(p, p)
  BY PathFacts, PrefixOrder
<1>1. PathOf(k) = p /\ p # <<>>
  BY EntryAt
<1>2. k \in DOMAIN nodes /\ TreeShape(nodes) /\ \A j \in DOMAIN nodes : j \in Hanging(nodes, Root)
  BY DEF Placed, NodesOK, TreeShape
<1>3. k \in MovedNodes(p)
  BY <1>0, <1>1, <1>2 DEF MovedNodes
<1>4. Root \notin MovedNodes(p)
  <2>1. PathOf(Root) = <<>> /\ <<>> \in Seq(Name)
    BY RootFacts
  <2>2. IsPrefix(p, <<>>) => p = <<>>
    BY <1>0, <2>1, PrefixOrder
  <2> QED
    BY <1>1, <2>1, <2>2 DEF MovedNodes
<1>5. ASSUME NEW j, NEW a, NEW m, Edge(nodes, j, a, m), m \in MovedNodes(p), PathOf(m) # p
      PROVE  j \in MovedNodes(p)
  <2>1. Firm(PathOf(m)) /\ IsPrefix(p, PathOf(m))
    BY <1>5 DEF MovedNodes
  <2>2. PathOf(j) = Front(PathOf(m)) /\ Firm(PathOf(j)) /\ j \in DOMAIN nodes
    BY <1>5, <2>1, FirmParent
  <2>3. PathOf(m) \in Seq(Name)
    BY <2>1, PathFacts DEF Firm
  <2>4. IsPrefix(p, Front(PathOf(m)))
    BY <1>0, <1>5, <2>1, <2>3, PrefixOfFront
  <2> QED
    BY <2>2, <2>4 DEF MovedNodes
<1>6. ASSUME NEW j, NEW a, NEW m, Edge(nodes, j, a, m), j \in MovedNodes(p)
      PROVE  m \in MovedNodes(p)
  <2>1. j \in DOMAIN nodes /\ PathOf(j) \in Paths /\ Firm(PathOf(j)) /\ IsPrefix(p, PathOf(j))
    BY <1>6 DEF MovedNodes, Firm
  <2>2. ~Pinned(PathOf(j))
    BY <2>1, ResolveBelow
  <2>3. ~InMemory(PathOf(j))
    BY <2>1, <2>2 DEF Firm
  <2>4. Firm(PathOf(m))
    BY <1>6, <2>1, <2>3 DEF Placed, StructOK, PathOf
  <2>5. PathOf(m) = Join(PathOf(j), a) /\ a \in Name /\ m \in DOMAIN nodes
    BY <1>6, <2>4, FirmParent
  <2>6. PathOf(j) \in Seq(Name) /\ PathOf(m) \in Seq(Name)
    BY <2>1, <2>4, PathFacts DEF Firm
  <2>7. IsPrefix(PathOf(j), PathOf(m))
    BY <2>5, <2>6, JoinFacts
  <2>8. IsPrefix(p, PathOf(m))
    BY <1>0, <2>1, <2>6, <2>7, PrefixOrder
  <2> QED
    BY <2>4, <2>5, <2>8 DEF MovedNodes
<1>7. ASSUME NEW x \in MovedNodes(p)
      PROVE  x \in Subtree(k)
  <2>1. x \in DOMAIN nodes /\ x \in Hanging(nodes, Root)
    BY <1>2, <1>7 DEF MovedNodes
  <2>2. ASSUME NEW T \in SUBSET DOMAIN nodes, k \in T,
               \A j, a, m : j \in T /\ Edge(nodes, j, a, m) => m \in T
        PROVE  x \in T
    <3> DEFINE S == T \cup (DOMAIN nodes \ MovedNodes(p))
    <3>1. Root \in S /\ Root \in DOMAIN nodes
      BY <1>2, <1>4 DEF TreeShape
    <3>2. \A j, a, m : Edge(nodes, j, a, m) => m \in DOMAIN nodes
      BY <1>2 DEF TreeShape
    <3>3. ASSUME NEW j, NEW a, NEW m, j \in S, Edge(nodes, j, a, m)
          PROVE  m \in S
      <4>1. CASE j \in T
        BY <2>2, <3>3, <4>1
      <4>2. CASE j \notin T
        <5>1. j \notin MovedNodes(p) /\ m \in DOMAIN nodes
          BY <3>2, <3>3, <4>2
        <5>2. ASSUME m \in MovedNodes(p) PROVE m \in T
          <6>1. PathOf(m) = p
            BY <1>5, <3>3, <5>1, <5>2
          <6>2. m = k
            BY <1>1, <1>2, <5>1, <6>1, UniquePath
          <6> QED
            BY <2>2, <6>2
        <5> QED
          BY <5>1, <5>2
      <4> QED
        BY <4>1, <4>2
    <3> HIDE DEF S
    <3>4. x \in S
      BY <2>1, <3>1, <3>2, <3>3, HangingIn
    <3> QED
      BY <1>7, <3>4 DEF S
  <2>3. x \in Hanging(nodes, k)
    BY <2>1, <2>2, HangingWhen
  <2> QED
    BY <2>3 DEF Subtree
<1>8. ASSUME NEW x \in Subtree(k)
      PROVE  x \in MovedNodes(p)
  <2>1. x \in Hanging(nodes, k)
    BY <1>8 DEF Subtree
  <2>2. \A j, a, m : Edge(nodes, j, a, m) => m \in DOMAIN nodes
    BY <1>2 DEF TreeShape
  <2>3. \A j, a, m : j \in MovedNodes(p) /\ Edge(nodes, j, a, m) => m \in MovedNodes(p)
    BY <1>6
  <2> QED
    BY <1>2, <1>3, <2>1, <2>2, <2>3, HangingIn
<1>9. Subtree(k) = MovedNodes(p)
  BY <1>7, <1>8
<1>10. \A j, a, m : Edge(nodes, j, a, m) =>
         /\ j \in MovedNodes(p) => m \in MovedNodes(p)
         /\ m \in MovedNodes(p) => j \in MovedNodes(p) \/ PathOf(m) = p
  BY <1>5, <1>6
<1> QED
  BY <1>1, <1>3, <1>4, <1>9, <1>10

(* Where a rename puts them.                                                 *)
LEMMA MovedFollows ==
  ASSUME NEW t \in Threads, Finishes(t), NEW c, c = thread[t], c.op = "rename", Firm(c.path),
         NEW k \in MovedNodes(c.path), k # Root, NEW r, r = Rebase(PathOf(k), c.path, c.new)
  PROVE  /\ r \in Paths /\ r \in Seq(Name) /\ Leads(r, k) /\ ~InMemory(r) /\ Firm(r) /\ k[1] = "host"
         /\ IsPrefix(c.new, r)
<1>1. /\ Shifted(t) /\ c.path \in Seq(Name) /\ c.new \in Seq(Name) /\ c.new \in Paths
      /\ ~InMemory(c.new) /\ ~Pinned(c.new)
  BY FinishFacts DEF Shifters
<1>2. k \in DOMAIN nodes /\ Firm(PathOf(k)) /\ IsPrefix(c.path, PathOf(k)) /\ PathOf(k) \in Paths
  BY DEF MovedNodes, Firm
<1>3. Follows(k)
  BY <1>2 DEF Finishes, Track, FollowOK
<1>4. r \in Paths /\ Leads(r, k)
  BY <1>1, <1>2, <1>3 DEF Follows, Carries
<1>5. PathOf(k) \in Seq(Name)
  BY <1>2, PathFacts
<1>6. IsPrefix(c.new, r) /\ r \in Seq(Name)
  BY <1>1, <1>2, <1>5, RebaseFacts
<1>7. resolve(r) = resolve(c.new) /\ ~Pinned(r)
  BY <1>1, <1>4, <1>6, ResolveBelow
<1>8. ~InMemory(r)
  BY <1>1, <1>7 DEF InMemory
<1>9. k[1] = "host"
  BY <1>4, <1>7, <1>8, LeadsFacts
<1> QED
  BY <1>4, <1>6, <1>8, <1>9 DEF Firm

(* A rename of a firm path, as it edits the tree of nodes.                   *)
RenameEdit(c, k, ns) ==
  /\ TreeShape(ns) /\ DOMAIN ns = DOMAIN nodes
  /\ \A j \in DOMAIN nodes :
       ns[j].path = IF j \in MovedNodes(c.path) THEN Rebase(PathOf(j), c.path, c.new) ELSE PathOf(j)
  /\ \A j, n, m : Edge(ns, j, n, m) <=>
       IF j = c.todir /\ n = c.toname THEN m = k
       ELSE ~(j = c.dir /\ n = c.name) /\ Edge(nodes, j, n, m)

(* How a rename of a firm path edits the tree of nodes, and where.          *)
LEMMA RenamedFirm ==
  ASSUME NEW t \in Threads, Finishes(t), NEW c, c = thread[t], c.op = "rename", Firm(c.path)
  PROVE  /\ At(c.dir, c.name, c.path) /\ At(c.todir, c.toname, c.new)
         /\ c.dir \in DOMAIN nodes /\ c.todir \in DOMAIN nodes /\ c.todir \notin MovedNodes(c.path)
         /\ PathOf(c.todir) = Front(c.new) /\ Firm(PathOf(c.todir)) /\ c.new # <<>>
         /\ ~IsPrefix(c.path, PathOf(c.todir)) /\ ~IsPrefix(c.new, PathOf(c.todir))
         /\ \E k, ns : /\ Edge(nodes, c.dir, c.name, k) /\ ns = Renamed(c) /\ RenameEdit(c, k, ns)
                       /\ nodes' = Pruned(ns)
<1>1. /\ Placed /\ TreeShape(nodes) /\ c.path \in Paths /\ c.new \in Paths /\ DirOK(t)
      /\ c.name \in Name /\ c.toname \in Name /\ c.todir[1] # "file" /\ ~Pinned(c.path)
      /\ Firm(c.new) /\ ~IsPrefix(c.path, c.new)
  BY FinishFacts DEF DirOps
<1>2. At(c.dir, c.name, c.path) /\ At(c.todir, c.toname, c.new)
  BY <1>1 DEF DirOK, DirOps
<1>3. c.dir \in DOMAIN nodes /\ c.todir \in DOMAIN nodes
  BY <1>2 DEF At
<1>4. PICK k : Edge(nodes, c.dir, c.name, k)
  BY <1>1 DEF DirOK, DirOps, Shifters
<1>5. PICK ns : ns = Renamed(c)
  OBVIOUS
<1>6. c.name \in Kids(c.dir) /\ k = nodes[c.dir].kids[c.name]
  BY <1>4 DEF Edge, Kids
<1>7. c.path \in Seq(Name) /\ c.new \in Seq(Name)
  BY FinishFacts
<1>8. /\ TreeShape(ns) /\ DOMAIN ns = DOMAIN nodes
      /\ \A j \in DOMAIN nodes :
              ns[j].path = IF j \in Subtree(k) /\ IsPrefix(c.path, nodes[j].path)
                           THEN Rebase(nodes[j].path, c.path, c.new) ELSE nodes[j].path
      /\ \A j, n, m : Edge(ns, j, n, m) <=>
              IF j = c.todir /\ n = c.toname THEN m = k
              ELSE ~(j = c.dir /\ n = c.name) /\ Edge(nodes, j, n, m)
  BY <1>1, <1>3, <1>5, <1>6, <1>7, RenamedFacts
<1>9. Subtree(k) = MovedNodes(c.path)
  BY <1>1, <1>2, <1>4, MovedSubtree
<1>10. \A j \in DOMAIN nodes :
         ns[j].path = IF j \in MovedNodes(c.path) THEN Rebase(PathOf(j), c.path, c.new) ELSE PathOf(j)
  BY <1>8, <1>9 DEF MovedNodes, PathOf
<1>11. RenameEdit(c, k, ns)
  BY <1>8, <1>10 DEF RenameEdit
<1>12. nodes' = Pruned(ns)
  <2>1. NodesAfter(c) = Renamed(c)
    BY <1>3 DEF NodesAfter, Makers, Removers
  <2> QED
    BY <1>5, <2>1 DEF Finishes
<1>13. /\ PathOf(c.todir) = Front(c.new) /\ Firm(PathOf(c.todir)) /\ c.new # <<>>
       /\ PathOf(c.todir) \in Seq(Name)
  BY <1>1, <1>2, EntryAt
<1>14. IsPrefix(Front(c.new), c.new) /\ ~IsPrefix(c.new, Front(c.new))
  BY <1>1, <1>13, PathFacts
<1>15. ~IsPrefix(c.path, PathOf(c.todir))
  BY <1>1, <1>7, <1>13, <1>14, PrefixOrder
<1>16. c.todir \notin MovedNodes(c.path)
  BY <1>15 DEF MovedNodes
<1> QED
  BY <1>2, <1>3, <1>4, <1>5, <1>11, <1>12, <1>13, <1>14, <1>15, <1>16

(* The nodes are placed after it: those that moved are below the new path.  *)
LEMMA RenamedPlaced ==
  ASSUME NEW t \in Threads, Finishes(t), NEW c, c = thread[t], c.op = "rename", Firm(c.path),
         NEW k, Edge(nodes, c.dir, c.name, k), NEW ns, RenameEdit(c, k, ns)
  PROVE  InodesOK(ns) /\ StructOK(ns) /\ ns[k].path = c.new
<1>1. /\ Placed /\ TreeShape(nodes) /\ c.path \in Paths /\ c.new \in Paths
      /\ c.name \in Name /\ c.toname \in Name /\ ~Pinned(c.path)
  BY FinishFacts DEF DirOps
<1>2. /\ At(c.dir, c.name, c.path) /\ At(c.todir, c.toname, c.new)
      /\ c.todir \in DOMAIN nodes /\ c.todir \notin MovedNodes(c.path)
  BY RenamedFirm
<1>3. /\ Root \notin MovedNodes(c.path) /\ k \in MovedNodes(c.path) /\ PathOf(k) = c.path
      /\ \A j, a, m : Edge(nodes, j, a, m) =>
              /\ j \in MovedNodes(c.path) => m \in MovedNodes(c.path)
              /\ m \in MovedNodes(c.path) => j \in MovedNodes(c.path) \/ PathOf(m) = c.path
  BY <1>1, <1>2, MovedSubtree
<1>4. ASSUME NEW j \in MovedNodes(c.path)
      PROVE  /\ j \in DOMAIN nodes /\ ns[j].path = Rebase(PathOf(j), c.path, c.new)
             /\ ns[j].path \in Paths /\ ~InMemory(ns[j].path) /\ Firm(ns[j].path) /\ j[1] = "host"
             /\ IsPrefix(c.path, PathOf(j)) /\ PathOf(j) \in Seq(Name)
  <2>1. j \in DOMAIN nodes /\ j # Root /\ IsPrefix(c.path, PathOf(j)) /\ PathOf(j) \in Paths
    BY <1>3 DEF MovedNodes, Firm
  <2>2. ns[j].path = Rebase(PathOf(j), c.path, c.new)
    BY <2>1 DEF RenameEdit
  <2>3. PathOf(j) \in Seq(Name)
    BY <2>1, PathFacts
  <2>4. ns[j].path \in Paths /\ ~InMemory(ns[j].path) /\ Firm(ns[j].path) /\ j[1] = "host"
    BY <2>1, <2>2, MovedFollows
  <2> QED
    BY <2>1, <2>2, <2>3, <2>4
<1>5. ASSUME NEW j \in DOMAIN nodes, j \notin MovedNodes(c.path)
      PROVE  ns[j].path = PathOf(j)
  BY <1>5 DEF RenameEdit
<1>10. c.path \in Seq(Name) /\ c.new \in Seq(Name)
  BY FinishFacts
<1>6. ns[k].path = c.new
  <2>1. IsPrefix(c.path, c.path)
    BY <1>10, PrefixOrder
  <2>2. Rebase(c.path, c.path, c.new) = c.new
    BY <1>10, <2>1, RebaseFacts
  <2> QED
    BY <1>3, <1>4, <2>2
<1>7. InodesOK(ns)
  <2> SUFFICES ASSUME NEW x \in DOMAIN ns \ {Root}
               PROVE  /\ x[1] = "host" => ns[x].path \in Paths /\ ~InMemory(ns[x].path)
                      /\ x[1] # "host" /\ (Firm(x[2]) \/ Firm(ns[x].path)) => ns[x].path = x[2] /\ Pinned(x[2])
    BY DEF InodesOK
  <2>1. x \in DOMAIN nodes
    BY DEF RenameEdit
  <2>2. CASE x \in MovedNodes(c.path)
    BY <1>4, <2>2
  <2>3. CASE x \notin MovedNodes(c.path)
    <3>1. ns[x].path = nodes[x].path
      BY <1>5, <2>1, <2>3 DEF PathOf
    <3> QED
      BY <1>1, <2>1, <3>1 DEF Placed, InodesOK
  <2> QED
    BY <2>2, <2>3
<1>8. StructOK(ns)
  <2> SUFFICES ASSUME NEW j, NEW n, NEW m, Edge(ns, j, n, m)
               PROVE  /\ Firm(ns[m].path) \/ Firm(Join(ns[j].path, n)) => ns[m].path = Join(ns[j].path, n)
                      /\ ns[j].path \in Paths /\ ~InMemory(ns[j].path) => Firm(ns[m].path)
    BY DEF StructOK
  <2>1. CASE j = c.todir /\ n = c.toname
    <3>1. m = k
      BY <2>1 DEF RenameEdit
    <3>2. ns[j].path = PathOf(c.todir)
      BY <1>2, <1>5, <2>1
    <3>3. c.new = Join(PathOf(c.todir), c.toname)
      BY <1>2 DEF At
    <3> QED
      BY <1>3, <1>4, <1>6, <2>1, <3>1, <3>2, <3>3
  <2>2. CASE ~(j = c.todir /\ n = c.toname)
    <3>1. Edge(nodes, j, n, m) /\ ~(j = c.dir /\ n = c.name)
      BY <2>2 DEF RenameEdit
    <3>2. j \in DOMAIN nodes /\ m \in DOMAIN nodes /\ n \in Name
      BY <1>1, <3>1 DEF TreeShape, Edge
    <3>3. CASE m \in MovedNodes(c.path)
      <4>1. PathOf(m) # c.path
        BY <1>1, <1>2, <3>1, ParentSpot
      <4>2. j \in MovedNodes(c.path)
        BY <1>3, <3>1, <3>3, <4>1
      <4>3. Firm(PathOf(m))
        BY <3>3 DEF MovedNodes
      <4>4. PathOf(m) = Join(PathOf(j), n)
        BY <1>1, <3>1, <4>3, FirmParent
      <4>5. /\ ns[m].path = Rebase(PathOf(m), c.path, c.new)
            /\ ns[j].path = Rebase(PathOf(j), c.path, c.new)
            /\ IsPrefix(c.path, PathOf(j)) /\ PathOf(j) \in Seq(Name)
        BY <1>4, <3>3, <4>2
      <4>6. Rebase(Join(PathOf(j), n), c.path, c.new) = Join(Rebase(PathOf(j), c.path, c.new), n)
        BY <1>10, <3>2, <4>5, RebaseJoin
      <4>7. ns[m].path = Join(ns[j].path, n)
        BY <4>4, <4>5, <4>6
      <4> QED
        BY <1>4, <3>3, <4>7
    <3>4. CASE m \notin MovedNodes(c.path)
      <4>1. j \notin MovedNodes(c.path)
        BY <1>3, <3>1, <3>4
      <4>2. ns[m].path = nodes[m].path /\ ns[j].path = nodes[j].path
        BY <1>5, <3>2, <3>4, <4>1 DEF PathOf
      <4> QED
        BY <1>1, <3>1, <4>2 DEF Placed, StructOK
    <3> QED
      BY <3>3, <3>4
  <2> QED
    BY <2>1, <2>2
<1> QED
  BY <1>6, <1>7, <1>8

(* Nothing is pruned but what was at or below the new path.                 *)
LEMMA RenamedHangs ==
  ASSUME NEW t \in Threads, Finishes(t), NEW c, c = thread[t], c.op = "rename", Firm(c.path),
         NEW k, Edge(nodes, c.dir, c.name, k), NEW ns, RenameEdit(c, k, ns),
         NEW x \in DOMAIN nodes, Firm(PathOf(x)), ~IsPrefix(c.new, PathOf(x))
  PROVE  x \in Hanging(ns, Root)
<1>1. /\ Placed /\ c.path \in Paths /\ c.new \in Paths /\ Firm(c.new)
      /\ c.name \in Name /\ c.toname \in Name
  BY FinishFacts DEF DirOps
<1>2. /\ At(c.dir, c.name, c.path) /\ At(c.todir, c.toname, c.new)
      /\ c.todir \in DOMAIN nodes /\ Firm(PathOf(c.todir))
      /\ ~IsPrefix(c.path, PathOf(c.todir)) /\ ~IsPrefix(c.new, PathOf(c.todir))
  BY RenamedFirm
<1>3. c.path \in Seq(Name) /\ c.new \in Seq(Name) /\ IsPrefix(c.path, c.path) /\ IsPrefix(c.new, c.new)
  BY FinishFacts, PrefixOrder
<1>4. TreeShape(ns) /\ DOMAIN nodes \subseteq DOMAIN ns
  BY DEF RenameEdit
<1>5. ASSUME NEW m, Edge(nodes, c.dir, c.name, m)
      PROVE  m \in Loose(c.path)
  <2>3. Firm(c.path) /\ At(c.dir, c.name, c.path) /\ Placed /\ c.name \in Name
    BY <1>1, <1>2
  <2>4. \A a : Edge(nodes, c.dir, c.name, a) => PathOf(a) = c.path
    BY <2>3, EntryAt
  <2>1. PathOf(m) = c.path
    BY <1>5, <2>4
  <2>2. m \in DOMAIN nodes
    BY <1>1, <1>5 DEF Placed, NodesOK, TreeShape
  <2> QED
    BY <1>3, <2>1, <2>2 DEF Loose
<1>6. ASSUME NEW m, Edge(nodes, c.todir, c.toname, m)
      PROVE  m \in Loose(c.new)
  <2>1. PathOf(m) = c.new
    BY <1>1, <1>2, <1>6, EntryAt
  <2>2. m \in DOMAIN nodes
    BY <1>1, <1>6 DEF Placed, NodesOK, TreeShape
  <2> QED
    BY <1>3, <2>1, <2>2 DEF Loose
<1>7. \A j, n, m : Edge(nodes, j, n, m) => /\ j \in Loose(c.path) => m \in Loose(c.path)
                                           /\ j \in Loose(c.new) => m \in Loose(c.new)
  BY <1>1, <1>3, LooseClosed
<1>8. \A j, n, m : Edge(nodes, j, n, m) /\ ~(j = c.dir /\ n = c.name) /\ ~(j = c.todir /\ n = c.toname)
        => Edge(ns, j, n, m)
  BY DEF RenameEdit
<1>9. c.todir \in Hanging(ns, Root)
  <2> DEFINE L == Loose(c.path) \cup Loose(c.new)
  <2>1. \A j, n, m : j \in L /\ Edge(nodes, j, n, m) => m \in L
    BY <1>7
  <2>2. \A j, n, m : Edge(nodes, j, n, m) /\ m \notin L => Edge(ns, j, n, m) \/ m \in Hanging(ns, Root)
    BY <1>5, <1>6, <1>8
  <2>3. c.todir \notin L
    BY <1>2 DEF Loose
  <2> HIDE DEF L
  <2> QED
    BY <1>1, <1>2, <1>4, <2>1, <2>2, <2>3, StillHangs
<1>10. k \in Hanging(ns, Root)
  <2>1. Edge(ns, c.todir, c.toname, k)
    BY DEF RenameEdit
  <2>2. PICK ps : ps = Pruned(ns)
    OBVIOUS
  <2>3. /\ TreeShape(ps) /\ DOMAIN ps = Hanging(ns, Root)
        /\ \A j, n, m : Edge(ps, j, n, m) <=> Edge(ns, j, n, m) /\ j \in DOMAIN ps
    BY <1>4, <2>2, PrunedFacts
  <2>4. Edge(ps, c.todir, c.toname, k)
    BY <1>9, <2>1, <2>3
  <2> QED
    BY <2>3, <2>4 DEF TreeShape
<1>11. \A j, n, m : Edge(nodes, j, n, m) /\ m \notin Loose(c.new)
         => Edge(ns, j, n, m) \/ m \in Hanging(ns, Root)
  <2> SUFFICES ASSUME NEW j, NEW n, NEW m, Edge(nodes, j, n, m), m \notin Loose(c.new)
               PROVE  Edge(ns, j, n, m) \/ m \in Hanging(ns, Root)
    OBVIOUS
  <2>1. CASE j = c.dir /\ n = c.name
    <3>1. m = k
      BY <2>1 DEF Edge
    <3> QED
      BY <1>10, <3>1
  <2>2. CASE j = c.todir /\ n = c.toname
    BY <1>6, <2>2
  <2> QED
    BY <1>8, <2>1, <2>2
<1>12. x \notin Loose(c.new)
  BY DEF Loose
<1>13. \A j, n, m : j \in Loose(c.new) /\ Edge(nodes, j, n, m) => m \in Loose(c.new)
  BY <1>7
<1> QED
  BY <1>1, <1>4, <1>11, <1>12, <1>13, StillHangs

(* A rename of a firm path ends.                                            *)
LEMMA FinishRenamed ==
  ASSUME NEW t \in Threads, Finishes(t), thread[t].op = "rename", Firm(thread[t].path)
  PROVE  Track'
<1>0. PICK c : c = thread[t]
  OBVIOUS
<1>1. /\ Placed /\ TreeShape(nodes) /\ c.path \in Paths /\ c.new \in Paths /\ Firm(c.new) /\ ~Pinned(c.path)
      /\ c.name \in Name /\ c.toname \in Name /\ Shifted(t) /\ c.op = "rename" /\ Firm(c.path)
  BY <1>0, FinishFacts DEF DirOps, Shifters
<1>2. /\ At(c.dir, c.name, c.path) /\ At(c.todir, c.toname, c.new)
  BY <1>0, <1>1, RenamedFirm
<1>3. PICK k, ns : Edge(nodes, c.dir, c.name, k) /\ RenameEdit(c, k, ns) /\ nodes' = Pruned(ns)
  BY <1>0, <1>1, RenamedFirm
<1>4. InodesOK(ns) /\ StructOK(ns) /\ ns[k].path = c.new
  BY <1>0, <1>1, <1>3, RenamedPlaced
<1>5. /\ TreeShape(ns) /\ DOMAIN ns = DOMAIN nodes
      /\ \A j, n, m : Edge(ns, j, n, m) <=>
          IF j = c.todir /\ n = c.toname THEN m = k
          ELSE ~(j = c.dir /\ n = c.name) /\ Edge(nodes, j, n, m)
  BY <1>3 DEF RenameEdit
<1>6. /\ Placed' /\ DOMAIN nodes' = Hanging(ns, Root) /\ DOMAIN nodes' \subseteq DOMAIN ns
      /\ \A x \in DOMAIN nodes' : nodes'[x] = ns[x]
      /\ \A j, n, m : Edge(nodes', j, n, m) <=> Edge(ns, j, n, m) /\ j \in DOMAIN nodes'
  BY <1>3, <1>4, <1>5, PlacedAfter
<1>7. /\ Root \notin MovedNodes(c.path) /\ k \in MovedNodes(c.path)
  BY <1>1, <1>2, <1>3, MovedSubtree
<1>8. ASSUME NEW x \in DOMAIN nodes'
      PROVE  /\ x \in DOMAIN nodes
             /\ PathOf(x)' = IF x \in MovedNodes(c.path) THEN Rebase(PathOf(x), c.path, c.new) ELSE PathOf(x)
  <2>1. nodes'[x] = ns[x] /\ x \in DOMAIN nodes
    BY <1>5, <1>6, <1>8
  <2> QED
    BY <1>3, <2>1 DEF RenameEdit, PathOf
<1>9. HostIds'
  BY <1>5, <1>6 DEF HostIds, Finishes, Track
<1>10. ASSUME NEW u \in Threads \ {t}, thread[u] # Nothing, thread[u].op \in DirOps,
              NEW d, NEW n \in Name, NEW y \in {thread[u].path, thread[u].new}, At(d, n, y), Firm(y)
       PROVE  SpotSame(d, n)
  <2>1. /\ d \in DOMAIN nodes /\ Firm(PathOf(d)) /\ ~IsPrefix(c.path, PathOf(d)) /\ ~IsPrefix(c.new, PathOf(d))
        /\ ~(d = c.dir /\ n = c.name) /\ ~(d = c.todir /\ n = c.toname)
    BY <1>0, <1>1, <1>2, <1>10, OtherSpot
  <2>2. d \in DOMAIN nodes'
    BY <1>0, <1>1, <1>3, <1>6, <2>1, RenamedHangs
  <2>3. d \notin MovedNodes(c.path)
    BY <2>1 DEF MovedNodes
  <2>4. PathOf(d)' = PathOf(d)
    BY <1>8, <2>2, <2>3
  <2>5. \A m : Edge(nodes', d, n, m) <=> Edge(nodes, d, n, m)
    BY <1>5, <1>6, <2>1, <2>2
  <2> QED
    BY <2>2, <2>4, <2>5 DEF SpotSame, DirSame
<1>11. SpotsSame(t)
  <2> SUFFICES ASSUME NEW u \in Threads \ {t}, thread[u] # Nothing, thread[u].op \in DirOps, NEW d, NEW n
               PROVE  /\ Firm(thread[u].path) /\ d = thread[u].dir /\ n = thread[u].name => SpotSame(d, n)
                      /\ thread[u].op = "rename" /\ Firm(thread[u].new) /\ d = thread[u].todir => DirSame(d)
    BY DEF SpotsSame
  <2>1. /\ Firm(thread[u].path) => At(thread[u].dir, thread[u].name, thread[u].path)
        /\ thread[u].op = "rename" /\ Firm(thread[u].new) => At(thread[u].todir, thread[u].toname, thread[u].new)
    BY DEF Finishes, Track, CallOK, DirOK
  <2>2. thread[u].name \in Name /\ (thread[u].op = "rename" => thread[u].toname \in Name)
    BY DEF Finishes, Track, PairsOK
  <2>3. \A a, b : SpotSame(a, b) => DirSame(a)
    BY DEF SpotSame
  <2> QED
    BY <1>10, <2>1, <2>2, <2>3
<1>12. ASSUME NEW x \in DOMAIN nodes' \ {Root}, Firm(PathOf(x)')
       PROVE  Settled(t, x)
  <2>1. x \in DOMAIN nodes
    BY <1>8, <1>12
  <2>2. ASSUME x \in MovedNodes(c.path) PROVE Settled(t, x)
    <3> DEFINE r == Rebase(PathOf(x), c.path, c.new)
    <3>1. PathOf(x)' = r
      BY <1>8, <1>12, <2>2
    <3> HIDE DEF r
    <3>2. r \in Seq(Name) /\ Leads(r, x) /\ IsPrefix(c.new, r)
      BY <1>0, <1>1, <1>12, <2>2, MovedFollows DEF r
    <3>3. \A u \in Threads \ {t} : Shifted(u) => ~Carries(u, r) /\ ~Clears(u, r)
      BY <1>0, <1>1, <3>2, FinishApart DEF DirOps
    <3> QED
      BY <3>1, <3>2, <3>3 DEF Settled
  <2>3. ASSUME x \notin MovedNodes(c.path) PROVE Settled(t, x)
    <3>1. PathOf(x)' = PathOf(x)
      BY <1>8, <1>12, <2>3
    <3>2. ~IsPrefix(c.path, PathOf(x))
      BY <1>12, <2>1, <2>3, <3>1 DEF MovedNodes
    <3>3. PathOf(x) # c.new
      <4>1. SUFFICES ASSUME PathOf(x) = c.new PROVE FALSE
        OBVIOUS
      <4>2. PICK j, n : Edge(ns, j, n, x)
        BY <1>5, <1>6, <1>12, EntryLeft
      <4>3. ~(j = c.todir /\ n = c.toname)
        BY <1>5, <1>7, <2>3, <4>2
      <4>4. Edge(nodes, j, n, x)
        BY <1>5, <4>2, <4>3
      <4> QED
        BY <1>1, <1>2, <4>1, <4>3, <4>4, ParentSpot
    <3>4. ~Carries(t, PathOf(x)) /\ ~Clears(t, PathOf(x))
      BY <1>0, <1>1, <3>2, <3>3 DEF Carries, Clears
    <3> QED
      BY <2>1, <3>1, <3>4 DEF Settled
  <2> QED
    BY <2>2, <2>3
<1> QED
  BY <1>6, <1>9, <1>11, <1>12, FinishFrame

(* A call ends.                                                             *)
LEMMA TrackFinish ==
  ASSUME Base, Track, NEW t \in Threads, Finish(t), UNCHANGED serverVars, Noted, ~tangled'
  PROVE  Track'
<1>1. Finishes(t)
  BY FinishStep DEF Finishes
<1>2. CASE thread[t].op \notin DirOps \/ ~Firm(thread[t].path)
  BY <1>1, <1>2, FinishOff
<1>3. CASE thread[t].op \in DirOps /\ Firm(thread[t].path)
  BY <1>1, <1>3, FinishEntered, FinishWithout, FinishRenamed DEF DirOps
<1> QED
  BY <1>2, <1>3

-----------------------------------------------------------------------------
(* Open files are on the files of their nodes.                              *)

(* The handle a call is about to enter is one on the file of its node.       *)
GivesFile(t) ==
  /\ thread[t].op = "create" =>
       LET i == InodeInAnswer("create", thread[t].path, Answer(t).stat)
       IN  i[1] = "host" => i[2] = handles[Answer(t).fh].file
  /\ thread[t].op = "open" /\ ~thread[t].raced /\ ~tangled /\ thread[t].node[1] = "host"
       => thread[t].node[2] = handles[Answer(t).fh].file

(* And so is the handle of every open file.                                  *)
FileOK ==
  conn =>
    /\ \A f \in files : ~f.raced /\ f.node[1] = "host" => f.node[2] = handles[f.fh].file
    /\ \A t \in Threads : Giving(t) => GivesFile(t)

SameFile(h) == handles'[h].file = handles[h].file

(* A step that leaves the files of the handles in use alone.                 *)
LEMMA FilesFrame ==
  ASSUME FileOK, Noted, files' \subseteq files,
         conn' => /\ conn
                  /\ \A f \in files' : SameFile(f.fh)
                  /\ \A u \in Threads : Giving(u)' =>
                       \/ Giving(u) /\ Kept(u) /\ SameFile(Answer(u).fh)
                       \/ GivesFile(u)'
  PROVE  FileOK'
<1> SUFFICES ASSUME conn'
             PROVE  /\ \A f \in files' : ~f.raced /\ f.node[1] = "host" => f.node[2] = handles'[f.fh].file
                    /\ \A t \in Threads : Giving(t)' => GivesFile(t)'
  BY DEF FileOK
<1>1. \A f \in files' : ~f.raced /\ f.node[1] = "host" => f.node[2] = handles'[f.fh].file
  BY DEF FileOK, SameFile
<1>2. ASSUME NEW u \in Threads, Giving(u), Kept(u), SameFile(Answer(u).fh)
      PROVE  GivesFile(u)'
  <2>1. GivesFile(u) /\ thread[u] # Nothing /\ Effective(u)
    BY <1>2 DEF FileOK, Giving
  <2>2. /\ thread'[u].op = thread[u].op /\ thread'[u].path = thread[u].path
        /\ thread'[u].node = thread[u].node /\ (thread[u].raced => thread'[u].raced)
        /\ Answer(u)' = Answer(u)
    BY <1>2, <2>1 DEF Kept
  <2>3. tangled => tangled'
    BY DEF Noted
  <2> QED
    BY <1>2, <2>1, <2>2, <2>3 DEF GivesFile, SameFile
<1> QED
  BY <1>1, <1>2

(* A call begins: at most an open file leaves.                              *)
LEMMA FilesBegin ==
  ASSUME Base, FileOK, NEW t \in Threads, NEW c, Begun(c), Start(t, c), UNCHANGED serverVars, Noted
  PROVE  FileOK'
<1>1. UNCHANGED <<handles, conn>>
  BY DEF serverVars
<1>2. ~Effective(t)' /\ \A u \in Threads \ {t} : Kept(u)
  BY StartStep
<1>3. files' \subseteq files
  BY DEF Begun
<1>4. \A u \in Threads : Giving(u)' => Giving(u) /\ Kept(u)
  BY <1>2 DEF Giving, Kept
<1> QED
  BY <1>1, <1>3, <1>4, FilesFrame DEF SameFile

(* A request is sent.                                                       *)
LEMMA FilesSend ==
  ASSUME Base, FileOK, NEW t \in Threads, Send(t), Noted
  PROVE  FileOK'
<1>1. UNCHANGED <<files, handles, conn>> /\ (conn => \A u \in Threads : Kept(u))
  BY SendStep
<1>2. conn => \A u \in Threads : Giving(u)' => Giving(u) /\ Kept(u)
  BY <1>1 DEF Giving, Kept
<1> QED
  BY <1>1, <1>2, FilesFrame DEF SameFile

(* An answer is read.                                                       *)
LEMMA FilesReceive ==
  ASSUME Base, FileOK, NEW t \in Threads, Receive(t), Noted
  PROVE  FileOK'
<1>1. /\ UNCHANGED <<files, handles, conn>>
      /\ conn => \A u \in Threads : Kept(u) \/ Ends(u)
  BY ReceiveStep
<1>2. conn => \A u \in Threads : Giving(u)' => Giving(u) /\ Kept(u)
  BY <1>1 DEF Giving, Kept, Ends
<1> QED
  BY <1>1, <1>2, FilesFrame DEF SameFile

(* A call ends: an open or a create enters its open file.                   *)
LEMMA FilesFinish ==
  ASSUME Base, FileOK, NEW t \in Threads, Finish(t), UNCHANGED serverVars, Noted
  PROVE  FileOK'
<1>1. /\ Ends(t) /\ thread[t] # Nothing /\ Effective(t) /\ Answer(t) = thread[t].resp
      /\ \A u \in Threads \ {t} : Kept(u)
      /\ UNCHANGED <<handles, conn>>
      /\ files' = IF thread[t].op \in {"open", "create"} THEN files \cup {Opened(thread[t])} ELSE files
  BY FinishStep
<1>2. \A u \in Threads : Giving(u)' => Giving(u) /\ Kept(u)
  BY <1>1 DEF Giving, Kept, Ends
<1>3. CASE thread[t].op \notin {"open", "create"}
  BY <1>1, <1>2, <1>3, FilesFrame DEF SameFile
<1>4. CASE thread[t].op \in {"open", "create"}
  <2> DEFINE g == Opened(thread[t])
  <2>1. /\ g.fh = Answer(t).fh /\ g.raced = (thread[t].op = "open" /\ (thread[t].raced \/ tangled))
        /\ g.node = IF thread[t].op = "create"
                    THEN InodeInAnswer("create", thread[t].path, Answer(t).stat) ELSE thread[t].node
    BY <1>1 DEF Opened, EntryInode
  <2>2. conn => GivesFile(t)
    BY <1>1, <1>4 DEF FileOK, Giving
  <2>3. conn /\ ~g.raced /\ g.node[1] = "host" => g.node[2] = handles[g.fh].file
    BY <1>4, <2>1, <2>2 DEF GivesFile
  <2>4. files' = files \cup {g}
    BY <1>1, <1>4
  <2> HIDE DEF g
  <2>5. \A u \in Threads : Giving(u)' /\ conn' => GivesFile(u)'
    <3> SUFFICES ASSUME NEW u \in Threads, Giving(u)', conn'
                 PROVE  GivesFile(u)'
      OBVIOUS
    <3>1. Giving(u) /\ Kept(u) /\ conn /\ handles' = handles
      BY <1>1, <1>2
    <3>2. GivesFile(u) /\ thread[u] # Nothing /\ Effective(u)
      BY <3>1 DEF FileOK, Giving
    <3>3. /\ thread'[u].op = thread[u].op /\ thread'[u].path = thread[u].path
          /\ thread'[u].node = thread[u].node /\ (thread[u].raced => thread'[u].raced)
          /\ Answer(u)' = Answer(u)
      BY <3>1, <3>2 DEF Kept
    <3>4. tangled => tangled'
      BY DEF Noted
    <3> QED
      BY <3>1, <3>2, <3>3, <3>4 DEF GivesFile
  <2>6. conn' => \A f \in files' : ~f.raced /\ f.node[1] = "host" => f.node[2] = handles'[f.fh].file
    BY <1>1, <2>3, <2>4 DEF FileOK
  <2> QED
    BY <2>5, <2>6 DEF FileOK
<1> QED
  BY <1>3, <1>4

(* An open or a create that the host has just answered.                      *)
LEMMA FileGiven ==
  ASSUME Base, ~tangled => Track, HandleOK, DispatchPath, UNCHANGED guestVars, Noted, NEW t \in Threads, t = lock,
         thread[t].op \in {"open", "create"}, outbox'.err = "ok",
         handles'[nextFH + 1].file = outbox'.stat.id
  PROVE  GivesFile(t)'
<1>1. /\ Base' /\ Ready /\ PathRequest(inbox) /\ outbox' = Outcome(inbox).resp
      /\ inbox' = Nothing /\ outbox' # Nothing /\ conn' = conn /\ tree' = Outcome(inbox).tree
      /\ TreeOK(tree, nextId) /\ TreeOK(tree, nextId)' /\ thread' = thread
  BY DispatchPathStep DEF Base, guestVars
<1>2. /\ InHand(t) /\ inbox = Asks(thread[t]) /\ Waiting(t) /\ IsCall(thread[t])
      /\ Answer(lock)' = outbox' /\ lock' = lock
  BY <1>1, ReadyFacts, ReplyStep DEF guestVars
<1>3. /\ inbox.op = thread[t].op /\ inbox.path = thread[t].path /\ thread[t].path \in Paths
      /\ Answer(t)' = outbox'
  BY <1>2, AsksFacts DEF IsCall, Answer
<1>4. outbox'.fh = nextFH + 1
  <2>1. CASE inbox.op = "open"
    BY <1>1, <2>1, QuietOutcome DEF NewFH, Makers, Shifters, Removers
  <2>2. CASE inbox.op = "create"
    BY <1>1, <2>2, MakerOutcome DEF NewFH, Makers
  <2> QED
    BY <1>3, <2>1, <2>2
<1>5. CASE thread[t].op = "create"
  <2> DEFINE i == InodeInAnswer("create", thread[t].path, outbox'.stat)
  <2>1. i[1] = "host" => i[2] = outbox'.stat.id
    BY DEF InodeInAnswer, Inode
  <2> QED
    BY <1>1, <1>3, <1>4, <1>5, <2>1 DEF GivesFile
<1>6. CASE thread[t].op = "open"
  <2>1. ~InMemory(inbox.path) => outbox'.stat.id = Id(tree, inbox.path)
    BY <1>1, <1>3, <1>6, QuietOutcome DEF Makers, Shifters, Removers
  <2>2. ASSUME ~thread[t].raced, ~tangled', thread[t].node[1] = "host"
        PROVE  thread[t].node[2] = outbox'.stat.id
    <3>1. WaitOK(t)
      BY <1>2, <2>2 DEF Noted, Track, CallOK
    <3>2. ~InMemory(thread[t].path) /\ Id(tree, thread[t].path) = thread[t].node[2]
      BY <1>2, <1>6, <2>2, <3>1 DEF WaitOK
    <3> QED
      BY <1>3, <2>1, <3>2
  <2> QED
    BY <1>1, <1>3, <1>4, <1>6, <2>2 DEF GivesFile
<1> QED
  BY <1>5, <1>6

(* The host serves a request.                                               *)
LEMMA FilesServe ==
  ASSUME Base, ~tangled => Track, HandleOK, FileOK, ServerStep, UNCHANGED guestVars, Noted
  PROVE  FileOK'
<1>1. files' = files /\ thread' = thread /\ lock' = lock
  BY DEF guestVars
<1>2. Ready /\ inbox' = Nothing /\ outbox' # Nothing /\ conn' = conn /\ Base'
  BY DispatchPathStep, DispatchUnstatedStep, DispatchHandleStep, DispatchReleaseStep DEF ServerStep
<1>3. /\ lock \in Threads /\ conn /\ ~Effective(lock) /\ thread[lock] # Nothing /\ inbox = Asks(thread[lock])
      /\ \A u \in Threads \ {lock} : Kept(u)
      /\ (Effective(lock)' <=> outbox'.err = "ok")
  BY <1>2, ReadyFacts, ReplyStep DEF Base
<1>4. inbox.op = thread[lock].op /\ inbox.fh = thread[lock].fh
  BY <1>3, AsksFacts
<1>5. \A u \in Threads \ {lock} : Giving(u)' => Giving(u) /\ Kept(u)
  BY <1>3 DEF Giving, Kept
<1>6. /\ \A f \in files : f.fh \in DOMAIN handles
      /\ \A u \in Threads : Giving(u) => Answer(u).fh \in DOMAIN handles
  BY <1>3 DEF HandleOK, Holds, HeldFH, Giving
<1>10. PICK t \in Threads : t = lock
  BY <1>3
<1>11. Giving(t)' => thread[t].op \in {"open", "create"} /\ outbox'.err = "ok"
  BY <1>1, <1>3, <1>10 DEF Giving, Effective
<1>7. CASE DispatchPath
  <2>1. CASE inbox.op \in {"open", "create"} /\ outbox'.err = "ok"
    <3>1. handles' = [h \in DOMAIN handles \cup {nextFH + 1} |->
                       IF h \in DOMAIN handles THEN handles[h]
                       ELSE Handle(outbox'.stat.id, inbox.path)]
      BY <1>7, <2>1, DispatchPathStep DEF NewFH
    <3>2. nextFH + 1 \notin DOMAIN handles
      BY DEF HandleOK
    <3>3. handles'[nextFH + 1].file = outbox'.stat.id
      BY <3>1, <3>2 DEF Handle
    <3>4. \A h \in DOMAIN handles : SameFile(h)
      BY <3>1 DEF SameFile
    <3>5. GivesFile(t)'
      BY <1>4, <1>7, <1>10, <2>1, <3>3, FileGiven
    <3> QED
      BY <1>1, <1>3, <1>5, <1>6, <1>10, <3>4, <3>5, FilesFrame
  <2>2. CASE ~(inbox.op \in {"open", "create"} /\ outbox'.err = "ok")
    <3>1. handles' = handles
      BY <1>7, <2>2, DispatchPathStep
    <3>2. ~Giving(t)'
      BY <1>4, <1>10, <1>11, <2>2
    <3> QED
      BY <1>1, <1>3, <1>5, <1>10, <3>1, <3>2, FilesFrame DEF SameFile
  <2> QED
    BY <2>1, <2>2
<1>8. CASE DispatchHandle
  <2>1. inbox.op \in HandleOps \cup {"truncate"} /\ handles' = handles
    BY <1>8, DispatchHandleStep
  <2>2. ~Giving(t)'
    BY <1>4, <1>10, <1>11, <2>1 DEF HandleOps
  <2> QED
    BY <1>1, <1>3, <1>5, <1>10, <2>1, <2>2, FilesFrame DEF SameFile
<1>9. CASE DispatchRelease
  <2>1. inbox.op = "release" /\ Released(inbox.fh)
    BY <1>9, DispatchReleaseStep
  <2>2. ~Giving(t)'
    BY <1>4, <1>10, <1>11, <2>1
  <2>3. Holds(t) /\ HeldFH(t) = inbox.fh
    BY <1>2, <1>3, <1>4, <1>10, <2>1, ReadyFacts DEF Holds, Taking, HeldFH
  <2>4. \A f \in files : f.fh # inbox.fh
    BY <1>3, <2>3 DEF HandleOK
  <2>5. ASSUME NEW u \in Threads \ {t}, Giving(u)
        PROVE  Answer(u).fh # inbox.fh
    <3>1. Holds(u) /\ HeldFH(u) = Answer(u).fh
      BY <2>5 DEF Holds, HeldFH, Giving
    <3> QED
      BY <1>3, <2>3, <2>5, <3>1 DEF HandleOK
  <2>6. \A h \in DOMAIN handles : h # inbox.fh => SameFile(h)
    BY <2>1 DEF Released, SameFile
  <2> QED
    BY <1>1, <1>3, <1>5, <1>6, <1>10, <2>2, <2>4, <2>5, <2>6, FilesFrame
<1>12. CASE DispatchUnstated
  <2>1. outbox'.err # "ok" /\ handles' = handles
    BY <1>12, DispatchUnstatedStep
  <2>2. ~Giving(t)'
    BY <1>11, <2>1
  <2> QED
    BY <1>1, <1>3, <1>5, <1>10, <2>1, <2>2, FilesFrame DEF SameFile
<1> QED
  BY <1>7, <1>8, <1>9, <1>12 DEF ServerStep

-----------------------------------------------------------------------------
(* The start.                                                               *)

(* The inode numbers the guest starts with, one per path.                    *)
LEMMA KnownFacts ==
  ASSUME TreeOK(InitTree, nextId), NEW p \in Known
  PROVE  /\ p \in Paths /\ p \in Seq(Name)
         /\ p # <<>> => /\ Front(p) \in Known /\ Last(p) \in Name /\ p = Join(Front(p), Last(p))
                        /\ IF ~InMemory(p) /\ Id(InitTree, p) # None
                           THEN KnownInode(p) = <<"host", Id(InitTree, p)>> /\ Has(InitTree, p)
                           ELSE KnownInode(p) = <<Stat(InitTree, p).kind, p>>
                        /\ Stat(InitTree, p) # Absent /\ Stat(InitTree, p).kind \in {"file", "dir"}
                        /\ Stat(InitTree, p).id = Id(InitTree, p)
                        /\ KnownInode(p) # Root /\ KnownInode(p) = Inode(p, Stat(InitTree, p))
                        /\ Front(p) # <<>> => Stat(InitTree, Front(p)).kind = "dir"
         /\ p = <<>> => KnownInode(p) = Root
<1>1. p \in Paths
  BY GuestFuseAssumption
<1>2. p \in Seq(Name) /\ (p # <<>> => Last(p) \in Name /\ p = Join(Front(p), Last(p)))
  BY <1>1, PathFacts
<1>3. CASE p = <<>>
  BY <1>1, <1>2, <1>3 DEF KnownInode
<1>4. CASE p # <<>>
  <2>1. /\ Front(p) \in Known /\ Stat(InitTree, p) # Absent
        /\ Front(p) # <<>> => Stat(InitTree, Front(p)).kind = "dir"
    BY <1>4, GuestFuseAssumption
  <2>2. Stat(InitTree, p).kind \in {"file", "dir"} /\ Stat(InitTree, p).id = Id(InitTree, p)
    BY <2>1, StatFacts
  <2>3. Id(InitTree, p) # None => Has(InitTree, p)
    BY IdFacts
  <2>4. KnownInode(p) = Inode(p, Stat(InitTree, p))
    BY <1>4 DEF KnownInode
  <2>5. IF ~InMemory(p) /\ Id(InitTree, p) # None
        THEN KnownInode(p) = <<"host", Id(InitTree, p)>> /\ Has(InitTree, p)
        ELSE KnownInode(p) = <<Stat(InitTree, p).kind, p>>
    BY <2>2, <2>3, <2>4 DEF Inode
  <2>6. KnownInode(p)[1] \in {"host", "file", "dir"}
    BY <2>2, <2>5
  <2>7. KnownInode(p) # Root
    BY <2>6 DEF Root
  <2> QED
    BY <1>1, <1>2, <1>4, <2>1, <2>2, <2>4, <2>5, <2>7
<1> QED
  BY <1>3, <1>4

(* No two paths known at the start share an inode number.                   *)
LEMMA KnownOnce ==
  ASSUME TreeOK(InitTree, nextId), NEW p \in Known, NEW q \in Known, KnownInode(p) = KnownInode(q)
  PROVE  p = q
<1>1. CASE p = <<>> \/ q = <<>>
  BY <1>1, KnownFacts
<1>2. CASE p # <<>> /\ q # <<>>
  <2> DEFINE hp == ~InMemory(p) /\ Id(InitTree, p) # None
             hq == ~InMemory(q) /\ Id(InitTree, q) # None
  <2>1. /\ IF hp THEN KnownInode(p) = <<"host", Id(InitTree, p)>> /\ Has(InitTree, p)
           ELSE KnownInode(p) = <<Stat(InitTree, p).kind, p>>
        /\ Stat(InitTree, p).kind \in {"file", "dir"} /\ p \in Paths
    BY <1>2, KnownFacts
  <2>2. /\ IF hq THEN KnownInode(q) = <<"host", Id(InitTree, q)>> /\ Has(InitTree, q)
           ELSE KnownInode(q) = <<Stat(InitTree, q).kind, q>>
        /\ Stat(InitTree, q).kind \in {"file", "dir"} /\ q \in Paths
    BY <1>2, KnownFacts
  <2>3. CASE hp /\ hq
    <3>1. Id(InitTree, p) = Id(InitTree, q)
      BY <2>1, <2>2, <2>3
    <3> QED
      BY <2>1, <2>2, <2>3, <3>1 DEF TreeOK
  <2>4. CASE ~hp \/ ~hq
    <3> HIDE DEF hp, hq
    <3> QED
      BY <2>1, <2>2, <2>4
  <2> QED
    BY <2>3, <2>4
<1> QED
  BY <1>1, <1>2

(* The tree of nodes at the start.                                           *)
LEMMA InitNodes ==
  ASSUME Init
  PROVE  /\ TreeOK(InitTree, nextId) /\ tree = InitTree
         /\ IsMap(nodes) /\ DOMAIN nodes = {KnownInode(p) : p \in Known}
         /\ \A p \in Known : /\ IsNode(nodes[KnownInode(p)]) /\ nodes[KnownInode(p)].path = p
                             /\ nodes[KnownInode(p)].isDir = (p = <<>> \/ Stat(InitTree, p).kind = "dir")
         /\ \A j, n, m : Edge(nodes, j, n, m) <=>
              \E q \in Known \ {<<>>} : j = KnownInode(Front(q)) /\ n = Last(q) /\ m = KnownInode(q)
<1>1. tree = InitTree /\ TreeOK(InitTree, nextId)
  BY InitBase DEF Base, Init, ServerInit
<1> DEFINE Names(p) == {Last(q) : q \in {r \in Known \ {<<>>} : Front(r) = p}}
           Entries(p) == [n \in Names(p) |-> KnownInode(Join(p, n))]
           Made(p) == [path |-> p, isDir |-> p = <<>> \/ Stat(InitTree, p).kind = "dir", kids |-> Entries(p)]
           P(i) == CHOOSE q \in Known : KnownInode(q) = i
<1>2. nodes = [i \in {KnownInode(p) : p \in Known} |-> Made(P(i))]
  BY DEF Init, GuestInit
<1>3. ASSUME NEW p \in Known
      PROVE  P(KnownInode(p)) = p
  <2>1. P(KnownInode(p)) \in Known /\ KnownInode(P(KnownInode(p))) = KnownInode(p)
    OBVIOUS
  <2> HIDE DEF P
  <2> QED
    BY <1>1, <2>1, KnownOnce
<1>4. IsMap(nodes) /\ DOMAIN nodes = {KnownInode(p) : p \in Known}
  BY <1>2 DEF IsMap
<1> HIDE DEF P
<1>5. ASSUME NEW p \in Known
      PROVE  nodes[KnownInode(p)] = Made(p)
  BY <1>2, <1>3, <1>5
<1>6. ASSUME NEW p \in Known
      PROVE  IsNode(Made(p))
  <2>1. p \in Seq(Name)
    BY <1>1, KnownFacts
  <2>2. IsMap(Entries(p))
    BY DEF IsMap
  <2> HIDE DEF Entries
  <2> QED
    BY <2>1, <2>2 DEF IsNode
<1>9. ASSUME NEW p
      PROVE  /\ Made(p).path = p /\ Made(p).kids = Entries(p)
             /\ Made(p).isDir = (p = <<>> \/ Stat(InitTree, p).kind = "dir")
  <2> HIDE DEF Entries
  <2>1. Made(p).path = p
    OBVIOUS
  <2>2. Made(p).kids = Entries(p)
    OBVIOUS
  <2>3. Made(p).isDir = (p = <<>> \/ Stat(InitTree, p).kind = "dir")
    OBVIOUS
  <2> QED
    BY <2>1, <2>2, <2>3
<1> HIDE DEF Made
<1>7. ASSUME NEW j, NEW n, NEW m
      PROVE  Edge(nodes, j, n, m) <=>
              \E q \in Known \ {<<>>} : j = KnownInode(Front(q)) /\ n = Last(q) /\ m = KnownInode(q)
  <2>1. ASSUME Edge(nodes, j, n, m)
        PROVE  \E q \in Known \ {<<>>} : j = KnownInode(Front(q)) /\ n = Last(q) /\ m = KnownInode(q)
    <3>1. PICK p \in Known : j = KnownInode(p)
      BY <1>4, <2>1 DEF Edge
    <3>2. nodes[j].kids = Entries(p)
      BY <1>5, <1>9, <3>1
    <3>3. n \in Names(p) /\ m = KnownInode(Join(p, n))
      BY <2>1, <3>2 DEF Edge
    <3>4. PICK q \in Known \ {<<>>} : Front(q) = p /\ n = Last(q)
      BY <3>3
    <3>5. q = Join(p, n)
      BY <1>1, <3>4, KnownFacts
    <3> QED
      BY <3>1, <3>3, <3>4, <3>5
  <2>2. ASSUME NEW q \in Known \ {<<>>}, j = KnownInode(Front(q)), n = Last(q), m = KnownInode(q)
        PROVE  Edge(nodes, j, n, m)
    <3>1. Front(q) \in Known /\ q = Join(Front(q), Last(q))
      BY <1>1, KnownFacts
    <3>2. nodes[j].kids = Entries(Front(q)) /\ j \in DOMAIN nodes
      BY <1>4, <1>5, <1>9, <2>2, <3>1
    <3>3. n \in Names(Front(q))
      BY <2>2
    <3>4. n \in DOMAIN nodes[j].kids /\ nodes[j].kids[n] = KnownInode(Join(Front(q), n))
      BY <3>2, <3>3
    <3> QED
      BY <2>2, <3>1, <3>2, <3>4 DEF Edge
  <2> QED
    BY <2>1, <2>2
<1>8. \A p \in Known : /\ IsNode(nodes[KnownInode(p)]) /\ nodes[KnownInode(p)].path = p
                       /\ nodes[KnownInode(p)].isDir = (p = <<>> \/ Stat(InitTree, p).kind = "dir")
  <2> SUFFICES ASSUME NEW p \in Known
               PROVE  /\ IsNode(nodes[KnownInode(p)]) /\ nodes[KnownInode(p)].path = p
                      /\ nodes[KnownInode(p)].isDir = (p = <<>> \/ Stat(InitTree, p).kind = "dir")
    OBVIOUS
  <2>1. nodes[KnownInode(p)] = Made(p)
    BY <1>5
  <2>2. IsNode(nodes[KnownInode(p)])
    BY <1>6, <2>1
  <2>3. nodes[KnownInode(p)].path = p
    BY <1>9, <2>1
  <2>4. nodes[KnownInode(p)].isDir = (p = <<>> \/ Stat(InitTree, p).kind = "dir")
    BY <1>9, <2>1, Zenon
  <2> QED
    BY <2>2, <2>3, <2>4
<1> QED
  BY <1>1, <1>4, <1>7, <1>8

(* The tree of nodes is placed at the start.                                *)
LEMMA InitPlaced ==
  ASSUME Init
  PROVE  Placed
<1>1. /\ TreeOK(InitTree, nextId) /\ tree = InitTree
      /\ IsMap(nodes) /\ DOMAIN nodes = {KnownInode(p) : p \in Known}
      /\ \A p \in Known : /\ IsNode(nodes[KnownInode(p)]) /\ nodes[KnownInode(p)].path = p
                          /\ nodes[KnownInode(p)].isDir = (p = <<>> \/ Stat(InitTree, p).kind = "dir")
  BY InitNodes
<1>2. \A j, n, m : Edge(nodes, j, n, m) <=>
        \E q \in Known \ {<<>>} : j = KnownInode(Front(q)) /\ n = Last(q) /\ m = KnownInode(q)
  BY InitNodes
<1>3. <<>> \in Known /\ KnownInode(<<>>) = Root
  BY GuestFuseAssumption DEF KnownInode
<1>4. \A j, n, m : Edge(nodes, j, n, m) => n \in Name /\ m \in DOMAIN nodes /\ m # Root
  BY <1>1, <1>2, KnownFacts
<1>5. ASSUME NEW j \in DOMAIN nodes, j[1] = "file"
      PROVE  ~nodes[j].isDir /\ DOMAIN nodes[j].kids = {}
  <2>1. PICK p \in Known : j = KnownInode(p)
    BY <1>1
  <2>2. p # <<>>
    BY <1>3, <1>5, <2>1 DEF Root
  <2>3. Stat(InitTree, p).kind = "file"
    BY <1>1, <1>5, <2>1, <2>2, KnownFacts
  <2>4. ~nodes[j].isDir
    BY <1>1, <2>1, <2>2, <2>3
  <2>5. ASSUME NEW n \in DOMAIN nodes[j].kids PROVE FALSE
    <3>1. Edge(nodes, j, n, nodes[j].kids[n])
      BY <2>5 DEF Edge
    <3>2. PICK q \in Known \ {<<>>} : j = KnownInode(Front(q))
      BY <1>2, <3>1
    <3>3. Front(q) \in Known /\ (Front(q) # <<>> => Stat(InitTree, Front(q)).kind = "dir")
      BY <1>1, KnownFacts
    <3>4. Front(q) = p
      BY <1>1, <2>1, <3>2, <3>3, KnownOnce
    <3> QED
      BY <2>2, <2>3, <3>3, <3>4
  <2> QED
    BY <2>4, <2>5
<1>6. TreeShape(nodes)
  BY <1>1, <1>3, <1>4, <1>5 DEF TreeShape
<1>7. ASSUME NEW k \in DOMAIN nodes
      PROVE  k \in Hanging(nodes, Root)
  <2> SUFFICES ASSUME NEW T \in SUBSET DOMAIN nodes, Root \in T,
                      \A j, n, m : j \in T /\ Edge(nodes, j, n, m) => m \in T
               PROVE  k \in T
    BY <1>7, HangingWhen
  <2>1. PICK p \in Known : k = KnownInode(p)
    BY <1>1
  <2> DEFINE L == {x \in Nat : \E q \in Known : Len(q) = x /\ KnownInode(q) \notin T}
  <2>2. \A q \in Known : Len(q) \in Nat
    BY <1>1, KnownFacts
  <2>3. SUFFICES ASSUME L # {} PROVE FALSE
    BY <2>1, <2>2
  <2>4. PICK x \in L : \A y \in L : x <= y
    BY <2>3, LeastNumber
  <2>5. PICK q \in Known : Len(q) = x /\ KnownInode(q) \notin T
    BY <2>4
  <2>6. q # <<>>
    BY <1>3, <2>5
  <2>7. Front(q) \in Known /\ q \in Seq(Name)
    BY <1>1, <2>6, KnownFacts
  <2>8. Len(q) = Len(Front(q)) + 1
    BY <2>6, <2>7, FrontLast
  <2>9. Edge(nodes, KnownInode(Front(q)), Last(q), KnownInode(q))
    BY <1>2, <2>6
  <2>10. KnownInode(Front(q)) \notin T
    BY <2>5, <2>9
  <2>11. Len(Front(q)) \in L
    BY <2>2, <2>7, <2>10
  <2> QED
    BY <2>2, <2>4, <2>5, <2>7, <2>8, <2>11
<1>8. ASSUME NEW p \in Known, p # <<>>
      PROVE  Leads(p, KnownInode(p))
  BY <1>1, <1>8, KnownFacts DEF Leads
<1>9. InodesOK(nodes)
  <2> SUFFICES ASSUME NEW k \in DOMAIN nodes \ {Root}
               PROVE  /\ k[1] = "host" => nodes[k].path \in Paths /\ ~InMemory(nodes[k].path)
                      /\ k[1] # "host" /\ (Firm(k[2]) \/ Firm(nodes[k].path))
                           => nodes[k].path = k[2] /\ Pinned(k[2])
    BY DEF InodesOK
  <2>1. PICK p \in Known : k = KnownInode(p)
    BY <1>1
  <2>2. p # <<>> /\ nodes[k].path = p
    BY <1>1, <1>3, <2>1
  <2>3. p \in Paths /\ Leads(p, k)
    BY <1>1, <1>8, <2>1, <2>2, KnownFacts
  <2> QED
    BY <2>2, <2>3, LeadsFacts
<1>10. StructOK(nodes)
  <2> SUFFICES ASSUME NEW j, NEW n, NEW m, Edge(nodes, j, n, m)
               PROVE  /\ nodes[m].path = Join(nodes[j].path, n)
                      /\ nodes[j].path \in Paths /\ ~InMemory(nodes[j].path) => Firm(nodes[m].path)
    BY DEF StructOK
  <2>1. PICK q \in Known \ {<<>>} : j = KnownInode(Front(q)) /\ n = Last(q) /\ m = KnownInode(q)
    BY <1>2
  <2>2. Front(q) \in Known /\ Last(q) \in Name /\ q = Join(Front(q), Last(q)) /\ q \in Paths
    BY <1>1, KnownFacts
  <2>3. nodes[m].path = q /\ nodes[j].path = Front(q)
    BY <1>1, <2>1, <2>2
  <2>4. Front(q) \in Paths /\ ~InMemory(Front(q)) => Firm(q)
    BY <2>2, FirmChild
  <2> QED
    BY <2>1, <2>2, <2>3, <2>4
<1> QED
  BY <1>6, <1>7, <1>9, <1>10 DEF Placed, NodesOK

(* And it follows the host.                                                 *)
LEMMA InitTrack ==
  ASSUME Init
  PROVE  Track
<1>1. /\ TreeOK(InitTree, nextId) /\ tree = InitTree
      /\ DOMAIN nodes = {KnownInode(p) : p \in Known}
      /\ \A p \in Known : nodes[KnownInode(p)].path = p
  BY InitNodes
<1>2. \A t \in Threads : thread[t] = Nothing
  BY DEF Init, GuestInit
<1>3. \A t \in Threads : ~InHand(t) /\ ~Shifted(t) /\ ~Tangles(t)
  BY <1>2 DEF Shifted, Tangles
<1>4. PairsOK /\ \A t \in Threads : CallOK(t)
  BY <1>3 DEF PairsOK, CallOK
<1>5. KnownInode(<<>>) = Root
  BY DEF KnownInode
<1>6. FollowOK
  <2> SUFFICES ASSUME NEW k \in DOMAIN nodes \ {Root}
               PROVE  Leads(PathOf(k), k)
    BY <1>3 DEF FollowOK, Follows
  <2>1. PICK p \in Known : k = KnownInode(p)
    BY <1>1
  <2>2. p # <<>> /\ PathOf(k) = p
    BY <1>1, <1>5, <2>1 DEF PathOf
  <2>3. Leads(p, KnownInode(p))
    BY <1>1, <2>2, KnownFacts DEF Leads
  <2> QED
    BY <2>1, <2>2, <2>3
<1>7. HostIds
  <2> SUFFICES ASSUME NEW k \in DOMAIN nodes, k[1] = "host"
               PROVE  k[2] \in 1..nextId - 1
    BY DEF HostIds
  <2>1. PICK p \in Known : k = KnownInode(p)
    BY <1>1
  <2>2. p # <<>>
    BY <1>5, <2>1 DEF Root
  <2>3. p \in Paths /\ Id(InitTree, p) # None /\ k[2] = Id(InitTree, p)
    BY <1>1, <2>1, <2>2, KnownFacts
  <2>4. InitTree.files \in [Paths -> 0..nextId - 1] /\ InitTree.dirs \in [Paths -> 0..nextId - 1] /\ nextId \in Nat
    BY <1>1, TreeTyped DEF TreeOK
  <2>5. Id(InitTree, p) \in {InitTree.files[p], InitTree.dirs[p], None}
    BY IdFacts
  <2>6. Id(InitTree, p) \in 0..nextId - 1
    BY <2>3, <2>4, <2>5
  <2> QED
    BY <2>3, <2>4, <2>6 DEF None
<1> QED
  BY <1>4, <1>6, <1>7, InitPlaced DEF Track

-----------------------------------------------------------------------------
(* The theorems.                                                            *)

(* The inductive invariant.                                                  *)
VFSInv == Base /\ HandleOK /\ (V => Track) /\ FileOK

(* Every step that does not tangle the tree of nodes keeps it following the host.*)
LEMMA TrackStep ==
  ASSUME Base, V => Track, [Next]_vars, V'
  PROVE  Track'
<1>1. conn' /\ ~tangled'
  BY DEF V
<1>2. CASE GuestBegins
  <2>1. PICK t \in Threads : Begin(t)
    BY <1>2 DEF GuestBegins
  <2>2. PICK c : Begun(c) /\ Start(t, c)
    BY <2>1, BeginFacts
  <2>3. UNCHANGED serverVars /\ Noted /\ V
    BY <1>1, <1>2 DEF GuestBegins, V, Noted, serverVars
  <2> QED
    BY <1>1, <2>2, <2>3, TrackBegin
<1>3. CASE GuestSends
  <2>1. PICK t \in Threads : Send(t) /\ Noted
    BY <1>3 DEF GuestSends
  <2>2. UNCHANGED <<nodes, tree, nextId, conn>> /\ (conn => \A u \in Threads : Kept(u))
    BY <2>1, SendStep
  <2>3. V
    BY <1>1, <2>1, <2>2 DEF V, Noted
  <2> QED
    BY <1>1, <2>1, <2>2, <2>3, TrackCarried DEF V
<1>4. CASE GuestReceives
  <2>1. PICK t \in Threads : Receive(t) /\ Noted
    BY <1>4 DEF GuestReceives
  <2>2. /\ UNCHANGED <<nodes, tree, nextId, conn>>
        /\ conn => \A u \in Threads : Kept(u) \/ (Ends(u) /\ ~Effective(u) /\ ~Waiting(u))
    BY <2>1, ReceiveStep
  <2>3. V
    BY <1>1, <2>1, <2>2 DEF V, Noted
  <2> QED
    BY <1>1, <2>1, <2>2, <2>3, TrackCarried DEF V
<1>5. CASE GuestFinishes
  <2>1. PICK t \in Threads : Finish(t) /\ UNCHANGED serverVars /\ Noted
    BY <1>5 DEF GuestFinishes
  <2>2. V
    BY <1>1, <2>1 DEF V, Noted, serverVars
  <2> QED
    BY <1>1, <2>1, <2>2, TrackFinish
<1>6. CASE HostServes
  <2>1. ServerStep /\ UNCHANGED guestVars /\ Noted
    BY <1>6 DEF HostServes
  <2>2. conn
    BY <2>1 DEF ServerStep, DispatchPath, DispatchUnstated, DispatchHandle, DispatchRelease, Ready
  <2>3. V
    BY <1>1, <2>1, <2>2 DEF V, Noted
  <2> QED
    BY <1>1, <2>1, <2>3, TrackServe
<1>7. CASE ConnectionBreaks
  BY <1>1, <1>7 DEF ConnectionBreaks, Disconnect
<1>8. CASE UNCHANGED vars
  <2>1. UNCHANGED <<nodes, tree, nextId, conn, tangled, thread, lock, inbox, outbox>>
    BY <1>8 DEF vars, serverVars, guestVars
  <2>2. V /\ Track
    BY <1>1, <2>1 DEF V
  <2>3. \A t \in Threads : ~Tangles(t)
    BY <2>2 DEF Track, PairsOK
  <2>4. \A t \in Threads : ~Tangles(t)'
    <3> SUFFICES ASSUME NEW t \in Threads
                 PROVE  Tangles(t)' <=> Tangles(t)
      BY <2>3
    <3>1. (Effective(t)' <=> Effective(t)) /\ Answer(t)' = Answer(t)
      BY <2>1 DEF Effective, Answer
    <3> QED
      BY <2>1, <3>1 DEF Tangles, MovesMount
  <2>5. \A t \in Threads : Kept(t)
    BY <2>1 DEF Kept, Effective, Waiting, Answer
  <2>6. PairsOK'
    BY <2>1, <2>2, <2>4 DEF Track, PairsOK
  <2>7. FollowOK'
    BY <2>1, <2>2, <2>5, KeptFields, FollowStays DEF Track
  <2>8. \A t \in Threads : CallOK(t)'
    BY <2>1, <2>2, <2>5, CallStays DEF Track
  <2>9. Placed' /\ HostIds'
    BY <2>1, <2>2 DEF Track, Placed, NodesOK, HostIds
  <2> QED
    BY <2>6, <2>7, <2>8, <2>9 DEF Track
<1> QED
  BY <1>2, <1>3, <1>4, <1>5, <1>6, <1>7, <1>8 DEF Next

(* Every step keeps the open files on the files of their nodes.             *)
LEMMA FilesStep ==
  ASSUME Base, HandleOK, V => Track, FileOK, [Next]_vars
  PROVE  FileOK'
<1>1. ASSUME NEW t \in Threads, Begin(t), UNCHANGED serverVars, Noted
      PROVE  FileOK'
  <2>1. PICK c : Begun(c) /\ Start(t, c)
    BY <1>1, BeginFacts
  <2> QED
    BY <1>1, <2>1, FilesBegin
<1>2. ASSUME ServerStep, UNCHANGED guestVars, Noted
      PROVE  FileOK'
  <2>1. conn
    BY <1>2 DEF ServerStep, DispatchPath, DispatchUnstated, DispatchHandle, DispatchRelease, Ready
  <2>2. ~tangled => Track
    BY <2>1 DEF V
  <2> QED
    BY <1>2, <2>2, FilesServe
<1>3. ASSUME Disconnect
      PROVE  FileOK'
  BY <1>3 DEF Disconnect, FileOK
<1>4. ASSUME UNCHANGED vars
      PROVE  FileOK'
  <2>1. UNCHANGED <<files, handles, conn, tangled, thread, lock, inbox, outbox>>
    BY <1>4 DEF vars, serverVars, guestVars
  <2> QED
    BY <2>1 DEF FileOK, Giving, GivesFile, Effective, Answer
<1> QED
  BY <1>1, <1>2, <1>3, <1>4, FilesSend, FilesReceive, FilesFinish
  DEF Next, GuestBegins, GuestSends, GuestReceives, GuestFinishes, HostServes, ConnectionBreaks

(* The inductive invariant holds in every behaviour, for any set of paths, mounts,*)
(* rules and threads: requests one at a time (fused/main.go:119-152), handles matched*)
(* with open files (server.go:171-252), and the tree of nodes following the host*)
(* (fused/main.go:344-392) until a call tangles it.                         *)
THEOREM VFSInvHolds == Spec => []VFSInv
<1>1. Init => VFSInv
  <2> SUFFICES ASSUME Init
               PROVE  VFSInv
    OBVIOUS
  <2>1. files = {} /\ \A t \in Threads : thread[t] = Nothing
    BY DEF Init, GuestInit
  <2>2. FileOK
    BY <2>1 DEF FileOK, Giving
  <2> QED
    BY <2>2, InitBase, InitHandles, InitTrack DEF VFSInv
<1>2. VFSInv /\ [Next]_vars => VFSInv'
  BY BaseStep, HandlesStep, TrackStep, FilesStep DEF VFSInv
<1> QED
  BY <1>1, <1>2, PTL DEF Spec

(* What the invariant says of the nodes.                                    *)
LEMMA TrackFollows ==
  ASSUME V => Track
  PROVE  NodePathsFollow
<1> SUFFICES ASSUME conn, ~tangled, NEW i \in DOMAIN nodes, i[1] = "host",
                    \A t \in Threads :
                      thread[t] # Nothing /\ thread[t].op \in Shifters /\ Effective(t)
                        => \A p \in {thread[t].path, thread[t].new} : ~IsPrefix(p, PathOf(i))
             PROVE  PathOf(i) \in Paths /\ Stat(tree, PathOf(i)).id = i[2]
  BY DEF NodePathsFollow, PathOf
<1>1. Track /\ Placed /\ i # Root
  BY DEF V, Track, Root
<1>2. PathOf(i) \in Paths /\ ~InMemory(PathOf(i))
  BY <1>1 DEF Placed, InodesOK, PathOf
<1>3. Follows(i)
  BY <1>1, <1>2 DEF Track, FollowOK, Firm
<1>4. PathOf(i) \in Seq(Name) /\ IsPrefix(PathOf(i), PathOf(i))
  BY <1>2, PathFacts, PrefixOrder
<1>5. \A t \in Threads : Shifted(t) => ~Carries(t, PathOf(i)) /\ ~Clears(t, PathOf(i))
  BY <1>4 DEF Shifted, Carries, Clears
<1>6. Leads(PathOf(i), i)
  BY <1>3, <1>5 DEF Follows
<1>7. Id(tree, PathOf(i)) = i[2]
  BY <1>2, <1>6, LeadsFacts
<1> QED
  BY <1>2, <1>7, StatFacts

(* What the invariant says of the open files.                               *)
LEMMA HandlesFollow ==
  ASSUME HandleOK, FileOK
  PROVE  HandlesFollowFile
<1> SUFFICES ASSUME conn
             PROVE  HandlesFollowFile
  BY DEF HandlesFollowFile
<1>1. ASSUME \A t \in Threads : thread[t] # Nothing => thread[t].op \notin {"open", "create", "release"}
      PROVE  /\ DOMAIN handles = {f.fh : f \in files}
             /\ (\A p \in Paths : ~Blocked("close", p)) => hostOpen = DOMAIN handles
  <2>1. \A t \in Threads : ~Holds(t)
    BY <1>1 DEF Holds, Giving, Taking
  <2>2. /\ \A f \in files : f.fh \in DOMAIN handles
        /\ \A h \in DOMAIN handles : \E f \in files : f.fh = h
        /\ (\A p \in Paths : ~Blocked("close", p)) => hostOpen = DOMAIN handles
    BY <2>1 DEF HandleOK
  <2>3. DOMAIN handles = {f.fh : f \in files}
    BY <2>2
  <2> QED
    BY <2>2, <2>3
<1>2. \A f \in files : /\ f.fh \in DOMAIN handles
                       /\ \A g \in files : g.fh = f.fh => g = f
                       /\ ~f.raced /\ f.node[1] = "host" => f.node[2] = handles[f.fh].file
  BY DEF HandleOK, FileOK
<1> QED
  BY <1>1, <1>2 DEF HandlesFollowFile

(* In every behaviour a node's cached path leads to the file the node stands for,*)
(* but for the paths that a call in hand has just moved, replaced or removed, until a*)
(* call tangles the tree (fused/main.go:344-392).                           *)
THEOREM NodePathsFollowHolds == Spec => []NodePathsFollow
<1>1. VFSInv => NodePathsFollow
  BY TrackFollows DEF VFSInv
<1> QED
  BY <1>1, VFSInvHolds, PTL

(* In every behaviour, while the connection is up, every open file has a host handle*)
(* of its own, on the file of its node, and the host keeps no handle the guest does*)
(* not know of (server.go:171-252, fused/main.go:506-515, 666-669).         *)
THEOREM HandlesFollowFileHolds == Spec => []HandlesFollowFile
<1>1. VFSInv => HandlesFollowFile
  BY HandlesFollow DEF VFSInv
<1> QED
  BY <1>1, VFSInvHolds, PTL
=============================================================================

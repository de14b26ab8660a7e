-------------------------- MODULE ImageStoreProofs --------------------------
(* The properties of ImageStore for any number of processes, tags, images    *)
(* and commands: StoreInv is inductive.                                      *)
EXTENDS ImageStore, FiniteSetTheorems, TLAPS

-----------------------------------------------------------------------------
(* Sequences and counts.                                                     *)

(* The elements of a sequence.                                               *)
LEMMA RangeFacts ==
  ASSUME NEW S, NEW s \in Seq(S)
  PROVE  /\ Range(s) \subseteq S
         /\ s # <<>> => /\ s[1] \in Range(s) /\ Head(s) \in S /\ Tail(s) \in Seq(S)
                        /\ Range(s) = {Head(s)} \cup Range(Tail(s))
                        /\ Len(s) = 1 => Range(Tail(s)) = {}
                        /\ Len(s) # 1 => Tail(s) # <<>>
<1>1. Range(s) \subseteq S
  BY DEF Range
<1>2. ASSUME s # <<>>
      PROVE  /\ s[1] \in Range(s) /\ Head(s) \in S /\ Tail(s) \in Seq(S)
             /\ Range(s) = {Head(s)} \cup Range(Tail(s))
             /\ Len(s) = 1 => Range(Tail(s)) = {}
             /\ Len(s) # 1 => Tail(s) # <<>>
  <2>1. /\ Tail(s) \in Seq(S) /\ Len(Tail(s)) = Len(s) - 1 /\ Len(s) \in Nat \ {0}
        /\ Head(s) = s[1] /\ DOMAIN s = 1..Len(s) /\ DOMAIN Tail(s) = 1..(Len(s) - 1)
        /\ \A i \in 1..(Len(s) - 1) : Tail(s)[i] = s[i + 1]
    BY <1>2
  <2>2. Range(s) = {Head(s)} \cup Range(Tail(s))
    <3>1. \A d \in Range(s) : d = Head(s) \/ d \in Range(Tail(s))
      <4> TAKE d \in Range(s)
      <4>1. PICK i \in 1..Len(s) : s[i] = d
        BY <2>1 DEF Range
      <4>2. CASE i # 1
        <5>1. i - 1 \in 1..(Len(s) - 1) /\ Tail(s)[i - 1] = d
          BY <2>1, <4>1, <4>2
        <5> QED
          BY <2>1, <5>1 DEF Range
      <4> QED
        BY <2>1, <4>1, <4>2
    <3>2. \A d \in Range(Tail(s)) : d \in Range(s)
      <4> TAKE d \in Range(Tail(s))
      <4>1. PICK i \in 1..(Len(s) - 1) : Tail(s)[i] = d
        BY <2>1 DEF Range
      <4>2. i + 1 \in 1..Len(s) /\ s[i + 1] = d
        BY <2>1, <4>1
      <4> QED
        BY <2>1, <4>2 DEF Range
    <3>3. Head(s) \in Range(s)
      BY <2>1 DEF Range
    <3> QED
      BY <3>1, <3>2, <3>3
  <2>3. Len(s) = 1 => Range(Tail(s)) = {}
    BY <2>1 DEF Range
  <2>4. s[1] \in Range(s) /\ Head(s) \in S
    BY <2>1 DEF Range
  <2>5. Len(s) # 1 => Tail(s) # <<>>
    BY <2>1
  <2> QED
    BY <2>1, <2>2, <2>3, <2>4, <2>5
<1> QED
  BY <1>1, <1>2

(* One element, and one more at the end.                                     *)
LEMMA RangeOfOne ==
  ASSUME NEW S, NEW b \in S
  PROVE  Range(<<b>>) = {b} /\ <<b>> \in Seq(S) /\ <<b>>[1] = b
BY DEF Range

LEMMA RangeOfMore ==
  ASSUME NEW S, NEW s \in Seq(S), NEW b \in S
  PROVE  /\ s \o <<b>> \in Seq(S) /\ s \o <<b>> # <<>>
         /\ Range(s \o <<b>>) = Range(s) \cup {b}
<1> DEFINE t == s \o <<b>>
<1>1. /\ t \in Seq(S) /\ Len(t) = Len(s) + 1 /\ Len(s) \in Nat
      /\ \A i \in 1..Len(s) : t[i] = s[i]
      /\ t[Len(s) + 1] = b
  OBVIOUS
<1>2. DOMAIN t = 1..(Len(s) + 1) /\ DOMAIN s = 1..Len(s)
  BY <1>1
<1> HIDE DEF t
<1>3. 1..(Len(s) + 1) = 1..Len(s) \cup {Len(s) + 1}
  BY <1>1
<1>4. Range(t) = Range(s) \cup {b}
  BY <1>1, <1>2, <1>3 DEF Range
<1>5. t # <<>>
  BY <1>1
<1> QED
  BY <1>1, <1>4, <1>5 DEF t

(* A digest is counted exactly when it is a layer of some row.               *)
LEMMA CountsAreExact ==
  ASSUME StoreTypeOK, TablesInv, NEW d \in Digests
  PROVE  layerRefs[d] > 0 <=> d \in LayersOf(rows)
<1> DEFINE S == {x \in UNION {{k} \X DOMAIN rows[k].layers : k \in Keys} :
                   rows[x[1]].layers[x[2]] = d}
<1>1. layerRefs[d] = Cardinality(S)
  BY DEF TablesInv, syncLayerRefCounts
<1>2. S # {} <=> d \in LayersOf(rows)
  <2>1. ASSUME S # {} PROVE d \in LayersOf(rows)
    <3>1. PICK k \in Keys : \E i \in DOMAIN rows[k].layers : rows[k].layers[i] = d
      BY <2>1
    <3> QED
      BY <3>1 DEF LayersOf, Range
  <2>2. ASSUME d \in LayersOf(rows) PROVE S # {}
    <3>0. PICK k \in Keys : d \in Range(rows[k].layers)
      BY <2>2 DEF LayersOf
    <3>1. PICK i \in DOMAIN rows[k].layers : rows[k].layers[i] = d
      BY <3>0 DEF Range
    <3>2. <<k, i>> \in S
      BY <3>1
    <3> QED
      BY <3>2
  <2> QED
    BY <2>1, <2>2
<1>3. IsFiniteSet(S)
  <2>1. IsFiniteSet(Keys)
    <3>1. IsFiniteSet(Scopes)
      <4>1. Scopes = {"local"} \cup {"registry"} /\ IsFiniteSet({"local"})
        BY FS_Singleton DEF Scopes
      <4> QED
        BY <4>1, FS_AddElement
    <3> QED
      BY <3>1, NamesAssumption, FS_Product DEF Keys
  <2> DEFINE f == [x \in S |-> x[1]]
  <2>2. f \in [S -> Keys]
    OBVIOUS
  <2>3. \A k \in Keys : \A i, j \in DOMAIN rows[k].layers :
           rows[k].layers[i] = rows[k].layers[j] => i = j
    <3> TAKE k \in Keys
    <3>1. CASE rows[k] = NoRow
      BY <3>1 DEF NoRow
    <3>2. CASE \E i \in Images : rows[k].layers = i.layers
      BY <3>2, ImagesAssumption DEF IsInjective
    <3> QED
      BY <3>1, <3>2 DEF TablesInv
  <2>4. ASSUME NEW x \in S, NEW y \in S, f[x] = f[y] PROVE x = y
    <3>1. PICK k \in Keys : \E i \in DOMAIN rows[k].layers : x = <<k, i>>
      OBVIOUS
    <3>2. PICK i \in DOMAIN rows[k].layers : x = <<k, i>>
      BY <3>1
    <3>5. PICK l \in Keys : \E j \in DOMAIN rows[l].layers : y = <<l, j>>
      OBVIOUS
    <3>3. PICK j \in DOMAIN rows[l].layers : y = <<l, j>>
      BY <3>5
    <3>4. k = l /\ rows[k].layers[i] = d /\ rows[l].layers[j] = d
      BY <2>4, <3>2, <3>3
    <3> QED
      BY <2>3, <3>2, <3>3, <3>4
  <2>5. f \in Injection(S, Keys)
    <3> HIDE DEF f, S
    <3> QED
      BY <2>2, <2>4 DEF Injection, IsInjective
  <2> QED
    BY <2>1, <2>5, FS_Injection
<1> HIDE DEF S
<1> QED
  BY <1>1, <1>2, <1>3, FS_EmptySet, FS_CardinalityType

-----------------------------------------------------------------------------
(* What a step of p does to the others, and to p's own history.              *)
Moves(p) ==
    /\ proc' \in [Procs -> Commands]
    /\ held' \in [Procs -> SUBSET References(rows')]
    /\ quiet' \in [Procs -> BOOLEAN]
    /\ \A q \in Procs \ {p} :
          /\ proc'[q] = proc[q] /\ held'[q] \subseteq held[q]
          /\ quiet'[q] => /\ quiet[q] /\ held'[q] = held[q]
                          /\ rows' = rows /\ blobs' = blobs

Own(p) ==
    /\ held'[p] = IF proc'[p].pc = "refs" THEN References(rows')
                  ELSE held[p] \cap References(rows')
    /\ quiet'[p] = quiet[p]

(* Step is such a step.                                                      *)
LEMMA StepMoves ==
  ASSUME StoreTypeOK, NEW p \in Procs, NEW STATE rec, rec \in Commands, NEW ACTION changed,
         changed \in BOOLEAN, Step(p, rec, changed),
         changed \/ (rows' = rows /\ blobs' = blobs)
  PROVE  Moves(p) /\ Own(p) /\ proc'[p] = rec
<1>0. /\ proc \in [Procs -> Commands] /\ held \in [Procs -> SUBSET References(rows)]
      /\ quiet \in [Procs -> BOOLEAN]
  BY DEF StoreTypeOK
<1>1. /\ proc' = [proc EXCEPT ![p] = rec]
      /\ held' = [q \in Procs |->
                    IF q = p /\ rec.pc = "refs" THEN References(rows')
                    ELSE held[q] \cap References(rows')]
      /\ quiet' = IF changed THEN [q \in Procs |-> q = p /\ quiet[p]] ELSE quiet
  BY DEF Step
<1> HIDE DEF References, Commands
<1>2. proc' \in [Procs -> Commands] /\ proc'[p] = rec
      /\ \A q \in Procs \ {p} : proc'[q] = proc[q]
  BY <1>0, <1>1
<1>3. /\ held' \in [Procs -> SUBSET References(rows')]
      /\ \A q \in Procs \ {p} : held'[q] \subseteq held[q]
      /\ rows' = rows => \A q \in Procs \ {p} : held'[q] = held[q]
  BY <1>0, <1>1
<1>4. /\ quiet' \in [Procs -> BOOLEAN] /\ quiet'[p] = quiet[p]
      /\ \A q \in Procs \ {p} : quiet'[q] => quiet[q] /\ rows' = rows /\ blobs' = blobs
  BY <1>0, <1>1
<1>5. held'[p] = IF proc'[p].pc = "refs" THEN References(rows')
                 ELSE held[p] \cap References(rows')
  BY <1>1, <1>2
<1> QED
  BY <1>2, <1>3, <1>4, <1>5 DEF Moves, Own

(* It is enough to look at p.                                                *)
LEMMA OwnStep ==
  ASSUME StoreInv, NEW p \in Procs, Moves(p), TablesInv',
         rows' \in [Keys -> [layers : Seq(Digests), rootfs : Digests \cup {None}]],
         blobs' \subseteq Digests, tmps' \subseteq (Procs \cup {None}) \X Digests,
         CommandInv(p)', PruneInv(p)', quiet'[p] => AloneInv(p)',
         quiet'[p] /\ proc'[p].pc = "done" /\ proc'[p].ok => Delivered(proc[p])'
  PROVE  StoreInv'
<1>1. StoreTypeOK'
  BY DEF StoreTypeOK, Moves
<1>2. ASSUME NEW q \in Procs \ {p}
      PROVE  /\ CommandInv(q)' /\ PruneInv(q)' /\ (quiet'[q] => AloneInv(q)')
             /\ quiet'[q] /\ proc'[q].pc = "done" /\ proc'[q].ok => Delivered(proc[q])'
  <2>1. /\ proc'[q] = proc[q] /\ held'[q] \subseteq held[q]
        /\ quiet'[q] => /\ quiet[q] /\ held'[q] = held[q]
                        /\ rows' = rows /\ blobs' = blobs
    BY <1>2 DEF Moves
  <2>2. CommandInv(q) /\ PruneInv(q) /\ (quiet[q] => AloneInv(q))
        /\ (quiet[q] /\ proc[q].pc = "done" /\ proc[q].ok => Delivered(proc[q]))
    BY DEF StoreInv, AloneMeansComplete
  <2>3. CommandInv(q)'
    BY <2>1, <2>2 DEF CommandInv, Chosen
  <2>4. PruneInv(q)'
    BY <2>1, <2>2 DEF PruneInv
  <2>5. quiet'[q] => AloneInv(q)'
    BY <2>1, <2>2 DEF AloneInv, RowsAreWhole, FromOneImage, Referenced, LayersOf, RootsOf
  <2>6. quiet'[q] /\ proc'[q].pc = "done" /\ proc'[q].ok => Delivered(proc[q])'
    BY <2>1, <2>2 DEF Delivered, RowsAreWhole, FromOneImage, Referenced, LayersOf, RootsOf
  <2> QED
    BY <2>3, <2>4, <2>5, <2>6
<1>3. AloneMeansComplete'
  BY <1>2 DEF AloneMeansComplete
<1> QED
  BY <1>1, <1>2, <1>3 DEF StoreInv

(* A step that writes no row and makes or removes no blob.                   *)
LEMMA PlainStep ==
  ASSUME StoreInv, NEW p \in Procs, NEW STATE rec, rec \in Commands, Step(p, rec, FALSE),
         UNCHANGED <<rows, layerRefs, blobs>>,
         tmps' \subseteq (Procs \cup {None}) \X Digests, rec.pc # "refs",
         proc'[p] = rec /\ held'[p] = held[p] =>
            /\ CommandInv(p)' /\ PruneInv(p)' /\ (quiet[p] => AloneInv(p)')
            /\ quiet[p] /\ rec.pc = "done" /\ rec.ok => Delivered(proc[p])'
  PROVE  StoreInv'
<1>0. StoreTypeOK /\ TablesInv
  BY DEF StoreInv
<1>1. Moves(p) /\ Own(p) /\ proc'[p] = rec
  BY <1>0, StepMoves
<1>2. held'[p] = held[p] /\ quiet'[p] = quiet[p]
  BY <1>0, <1>1 DEF Own, StoreTypeOK, References, LayersOf, RootsOf
<1>3. TablesInv'
  BY <1>0 DEF TablesInv, syncLayerRefCounts
<1>4. /\ rows' \in [Keys -> [layers : Seq(Digests), rootfs : Digests \cup {None}]]
      /\ blobs' \subseteq Digests
  BY <1>0 DEF StoreTypeOK
<1> QED
  BY <1>1, <1>2, <1>3, <1>4, OwnStep

(* What the invariant says of p.                                             *)
LEMMA AboutP ==
  ASSUME StoreInv, NEW p \in Procs
  PROVE  /\ proc[p] \in Commands /\ CommandInv(p) /\ PruneInv(p)
         /\ quiet[p] => AloneInv(p)
         /\ StoreTypeOK /\ TablesInv
         /\ tmps \subseteq (Procs \cup {None}) \X Digests
BY DEF StoreInv, StoreTypeOK

(* The command fails.                                                        *)
LEMMA FailsStep ==
  ASSUME StoreInv, NEW p \in Procs, Step(p, Fails(p), FALSE), proc[p].pc # "idle",
         UNCHANGED <<rows, layerRefs, blobs>>, tmps' \subseteq (Procs \cup {None}) \X Digests
  PROVE  StoreInv'
<1>0. proc[p] \in Commands /\ CommandInv(p)
  BY AboutP
<1>1. /\ Fails(p) \in Commands /\ Fails(p).pc = "done" /\ Fails(p).ok = FALSE
      /\ Fails(p).cmd = proc[p].cmd /\ Fails(p).tag = proc[p].tag
  BY <1>0 DEF Fails, Commands, PCs
<1> HIDE DEF Fails
<1>2. ASSUME proc'[p] = Fails(p), held'[p] = held[p]
      PROVE  CommandInv(p)' /\ PruneInv(p)' /\ AloneInv(p)'
  BY <1>0, <1>1, <1>2 DEF CommandInv, PruneInv, AloneInv, Ingesting, Saving, Pruning
<1> QED
  BY <1>1, <1>2, PlainStep

(* The command is over, or was killed.                                       *)
LEMMA IdleStep ==
  ASSUME StoreInv, NEW p \in Procs, Step(p, Idle, FALSE),
         UNCHANGED <<rows, layerRefs, blobs>>, tmps' \subseteq (Procs \cup {None}) \X Digests
  PROVE  StoreInv'
<1>1. Idle \in Commands /\ Idle.pc = "idle"
  BY DEF Idle, Commands, PCs, Scopes
<1> HIDE DEF Idle
<1>2. ASSUME proc'[p] = Idle, held'[p] = held[p]
      PROVE  CommandInv(p)' /\ PruneInv(p)' /\ AloneInv(p)'
  BY <1>1, <1>2 DEF CommandInv, PruneInv, AloneInv, Ingesting, Saving, Pruning
<1> QED
  BY <1>1, <1>2, PlainStep

(* Get found nothing it can use.                                             *)
LEMMA GetFailsStep ==
  ASSUME StoreInv, NEW p \in Procs, Step(p, GetFails(p), FALSE),
         proc[p].pc \in {"meta", "layers"}, UNCHANGED <<rows, layerRefs, blobs, tmps>>
  PROVE  StoreInv'
<1>0. /\ proc[p] \in Commands /\ CommandInv(p)
      /\ tmps \subseteq (Procs \cup {None}) \X Digests
  BY AboutP
<1>1. CASE proc[p].cmd = "import"
  <2>1. GetFails(p) = Fails(p)
    BY <1>1 DEF GetFails
  <2> QED
    BY <1>0, <2>1, FailsStep
<1>2. CASE proc[p].cmd # "import"
  <2>1. /\ GetFails(p) \in Commands /\ GetFails(p).pc \in {"meta", "fetch"}
        /\ GetFails(p).cmd = proc[p].cmd /\ GetFails(p).tag = proc[p].tag
    <3>1. /\ "registry" \in Scopes /\ "meta" \in PCs /\ "fetch" \in PCs
      BY DEF Scopes, PCs
    <3> DEFINE l == IF proc[p].scope = "local" THEN "meta" ELSE "fetch"
    <3>2. /\ GetFails(p) = [proc[p] EXCEPT !.pc = l, !.scope = "registry"]
          /\ l \in PCs /\ l \in {"meta", "fetch"}
      BY <1>2, <3>1 DEF GetFails
    <3> HIDE DEF l
    <3> QED
      BY <1>0, <3>1, <3>2 DEF Commands
  <2> HIDE DEF GetFails
  <2>2. ASSUME proc'[p] = GetFails(p), held'[p] = held[p]
        PROVE  CommandInv(p)' /\ PruneInv(p)' /\ AloneInv(p)'
    BY <1>0, <2>1, <2>2 DEF CommandInv, PruneInv, AloneInv, Ingesting, Saving, Pruning
  <2> QED
    BY <1>0, <2>1, <2>2, PlainStep
<1> QED
  BY <1>1, <1>2

(* The next blob is there.                                                   *)
LEMMA NextBlobStep ==
  ASSUME StoreInv, NEW p \in Procs, Step(p, NextBlob(p), FALSE), proc[p].pc \in Ingesting,
         Head(proc[p].todo) \in blobs, UNCHANGED <<rows, layerRefs, blobs, tmps>>
  PROVE  StoreInv'
<1>0. /\ proc[p] \in Commands /\ CommandInv(p) /\ (quiet[p] => AloneInv(p))
      /\ tmps \subseteq (Procs \cup {None}) \X Digests
  BY AboutP
<1>1. /\ proc[p].todo \in Seq(Digests) /\ proc[p].todo # <<>> /\ proc[p].cmd \in Writer
      /\ Chosen(proc[p]) /\ proc[p].rootfs = proc[p].lower[1] /\ proc[p].tag \in Tags
      /\ proc[p].cmd # None
  BY <1>0 DEF CommandInv, Commands, Ingesting
<1>2. /\ Tail(proc[p].todo) \in Seq(Digests)
      /\ Range(proc[p].todo) = {Head(proc[p].todo)} \cup Range(Tail(proc[p].todo))
      /\ Len(proc[p].todo) = 1 => Range(Tail(proc[p].todo)) = {}
      /\ Len(proc[p].todo) # 1 => Tail(proc[p].todo) # <<>>
  BY <1>1, RangeFacts
<1>3. /\ NextBlob(p) \in Commands
      /\ NextBlob(p).pc = IF Len(proc[p].todo) = 1 THEN "save" ELSE "ingest"
      /\ NextBlob(p).todo = Tail(proc[p].todo)
      /\ NextBlob(p).cmd = proc[p].cmd /\ NextBlob(p).tag = proc[p].tag
      /\ NextBlob(p).layers = proc[p].layers /\ NextBlob(p).lower = proc[p].lower
      /\ NextBlob(p).rootfs = proc[p].rootfs
  <2> DEFINE l == IF Len(proc[p].todo) = 1 THEN "save" ELSE "ingest"
             t == Tail(proc[p].todo)
  <2>1. NextBlob(p) = [proc[p] EXCEPT !.todo = t, !.pc = l]
    BY DEF NextBlob
  <2>2. l \in PCs /\ t \in Seq(Digests)
    BY <1>2 DEF PCs, Ingesting, Saving
  <2> HIDE DEF l, t
  <2>3. /\ NextBlob(p) \in Commands /\ NextBlob(p).pc = l /\ NextBlob(p).todo = t
        /\ NextBlob(p).cmd = proc[p].cmd /\ NextBlob(p).tag = proc[p].tag
        /\ NextBlob(p).layers = proc[p].layers /\ NextBlob(p).lower = proc[p].lower
        /\ NextBlob(p).rootfs = proc[p].rootfs
    BY <1>0, <2>1, <2>2 DEF Commands
  <2> QED
    BY <2>3 DEF l, t
<1> HIDE DEF NextBlob
<1>4. ASSUME proc'[p] = NextBlob(p), held'[p] = held[p]
      PROVE  CommandInv(p)' /\ PruneInv(p)' /\ (quiet[p] => AloneInv(p)')
  <2>1. CommandInv(p)'
    BY <1>1, <1>2, <1>3, <1>4 DEF CommandInv, Chosen, Ingesting, Saving, Pruning
  <2>2. PruneInv(p)'
    BY <1>3, <1>4 DEF PruneInv
  <2>3. quiet[p] => AloneInv(p)'
    BY <1>0, <1>1, <1>2, <1>3, <1>4
    DEF AloneInv, Ingesting, Saving, Pruning, FromOneImage, RowsAreWhole
  <2> QED
    BY <2>1, <2>2, <2>3
<1>5. NextBlob(p).pc \notin {"refs", "done"}
  BY <1>3
<1> QED
  BY <1>0, <1>3, <1>4, <1>5, PlainStep

(* Build returns, or goes on to save a tag.                                  *)
LEMMA BuiltStep ==
  ASSUME StoreInv, NEW p \in Procs, NEW STATE lay, NEW STATE low,
         lay \in Seq(Digests), low \in Seq(Digests),
         Step(p, Built(p, lay, low), FALSE), proc[p].pc # "idle", proc[p].cmd \in Writer,
         UNCHANGED <<rows, layerRefs, blobs, tmps>>,
         \E i \in Images : lay = i.layers,
         low = lay \/ \E b \in Digests \ Range(lay) : low = <<b>>,
         quiet[p] => /\ Range(low) \subseteq blobs
                     /\ RowsAreWhole =>
                           \E i \in Images : lay = i.layers /\ low \in {i.layers, <<i.squash>>}
  PROVE  StoreInv'
<1>0. /\ proc[p] \in Commands /\ CommandInv(p)
      /\ tmps \subseteq (Procs \cup {None}) \X Digests
  BY AboutP
<1> DEFINE rec == Built(p, lay, low)
<1>1. CASE proc[p].save = None
  <2>1. rec = [proc[p] EXCEPT !.pc = "done", !.ok = TRUE, !.lower = low, !.layers = lay]
    BY <1>0, <1>1 DEF Built, Ends, Commands
  <2> HIDE DEF rec
  <2>2. /\ rec \in Commands /\ rec.pc = "done" /\ rec.lower = low /\ rec.layers = lay
        /\ rec.cmd = proc[p].cmd /\ rec.tag = proc[p].tag
    BY <1>0, <2>1 DEF Commands, PCs
  <2>3. ASSUME proc'[p] = rec, held'[p] = held[p]
        PROVE  /\ CommandInv(p)' /\ PruneInv(p)' /\ (quiet[p] => AloneInv(p)')
               /\ quiet[p] => Delivered(proc[p])'
    <3>1. CommandInv(p)' /\ PruneInv(p)' /\ AloneInv(p)'
      BY <1>0, <2>2, <2>3 DEF CommandInv, PruneInv, AloneInv, Ingesting, Saving, Pruning
    <3>2. quiet[p] => Delivered(proc[p])'
      BY <2>2, <2>3 DEF Delivered, FromOneImage, RowsAreWhole, Writer
    <3> QED
      BY <3>1, <3>2
  <2>4. Step(p, rec, FALSE)
    BY DEF rec
  <2> QED
    BY <1>0, <2>2, <2>3, <2>4, PlainStep
<1>2. CASE proc[p].save # None
  <2>1. low[1] \in Digests
    <3>1. low # <<>>
      <4>1. lay # <<>>
        BY ImagesAssumption
      <4>2. ASSUME NEW b PROVE <<b>> # <<>>
        OBVIOUS
      <4> QED
        BY <4>1, <4>2
    <3> QED
      BY <3>1, RangeFacts
  <2>2. rec = [proc[p] EXCEPT !.pc = "save", !.scope = "local", !.tag = proc[p].save,
                 !.save = None, !.layers = lay, !.rootfs = low[1], !.lower = low]
    BY <1>2 DEF Built, Save
  <2> DEFINE root == low[1]
  <2> HIDE DEF rec, root
  <2>3. /\ "save" \in PCs /\ "local" \in Scopes
        /\ proc[p].save \in Tags
    BY <1>0, <1>2 DEF PCs, Saving, Scopes, Commands
  <2>4. rec = [proc[p] EXCEPT !.pc = "save", !.scope = "local", !.tag = proc[p].save,
                 !.save = None, !.layers = lay, !.rootfs = root, !.lower = low]
    BY <2>2 DEF root
  <2>5. root \in Digests
    BY <2>1 DEF root
  <2>6. /\ rec \in Commands /\ rec.pc = "save" /\ rec.lower = low /\ rec.layers = lay
        /\ rec.cmd = proc[p].cmd /\ rec.tag = proc[p].save /\ rec.rootfs = root
    BY <1>0, <2>3, <2>4, <2>5 DEF Commands
  <2>7. ASSUME proc'[p] = rec, held'[p] = held[p]
        PROVE  CommandInv(p)' /\ PruneInv(p)' /\ (quiet[p] => AloneInv(p)')
    <3>1. Chosen(rec)
      BY <2>6 DEF Chosen
    <3>2. CommandInv(p)'
      <4>1. Chosen(proc[p])'
        BY <2>7, <3>1 DEF Chosen
      <4>2. rec.cmd \in Writer /\ rec.cmd # None /\ rec.tag \in Tags /\ rec.rootfs = rec.lower[1]
        BY <2>3, <2>6 DEF Writer, None, root
      <4> QED
        BY <2>6, <2>7, <4>1, <4>2 DEF CommandInv, Ingesting, Saving, Pruning
    <3>3. PruneInv(p)'
      BY <2>6, <2>7 DEF PruneInv
    <3>4. quiet[p] => AloneInv(p)'
      BY <2>6, <2>7 DEF AloneInv, Ingesting, Saving, Pruning, FromOneImage, RowsAreWhole
    <3> QED
      BY <3>2, <3>3, <3>4
  <2>8. Step(p, rec, FALSE)
    BY DEF rec
  <2>9. rec.pc \notin {"refs", "done"}
    BY <2>6
  <2> QED
    BY <1>0, <2>6, <2>7, <2>8, <2>9, PlainStep
<1> QED
  BY <1>1, <1>2

-----------------------------------------------------------------------------
(* A command begins.                                                         *)
LEMMA StartCommandStep ==
  ASSUME StoreInv, NEW p \in Procs, StartCommand(p)
  PROVE  StoreInv'
<1>0. /\ StoreTypeOK /\ TablesInv
      /\ tmps \subseteq (Procs \cup {None}) \X Digests
  BY AboutP
<1>1. PICK t \in Tags, s \in Tags \cup {None}, c \in {"pull", "import", "rm", "gc"},
            force \in BOOLEAN :
        /\ proc' = [proc EXCEPT ![p] = [Idle EXCEPT !.pc = FirstStep(c, force), !.cmd = c,
                                                   !.tag = t, !.save = s]]
        /\ held' = IF c = "gc" THEN [held EXCEPT ![p] = References(rows)] ELSE held
  BY DEF StartCommand
<1> DEFINE first == FirstStep(c, force)
<1>12. /\ first \in {"fetch", "meta", "delete", "refs"}
       /\ first \in {"fetch", "meta"} => c \in Writer
       /\ first = "delete" => c = "rm"
       /\ first = "refs" <=> c = "gc"
  BY DEF Writer, FirstStep
<1> HIDE DEF first
<1>2. /\ UNCHANGED <<rows, layerRefs, blobs, tmps>> /\ quiet' = [quiet EXCEPT ![p] = TRUE]
      /\ proc[p].pc = "idle"
  BY DEF StartCommand, Tables, Files
<1> DEFINE rec == [Idle EXCEPT !.pc = first, !.cmd = c, !.tag = t, !.save = s]
<1>3. /\ rec \in Commands /\ rec.pc = first /\ rec.cmd = c /\ rec.tag = t
  <2>1. Idle \in Commands
    BY DEF Idle, Commands, PCs, Scopes
  <2>2. first \in PCs /\ c \in Writer \cup {"rm", "gc", None}
    BY <1>12 DEF PCs, Pruning, Writer
  <2> QED
    BY <2>1, <2>2 DEF Commands
<1> HIDE DEF rec
<1>4. /\ proc' \in [Procs -> Commands] /\ proc'[p] = rec
      /\ \A q \in Procs \ {p} : proc'[q] = proc[q]
  BY <1>0, <1>1, <1>3 DEF StoreTypeOK, rec, first
<1>5. /\ held' \in [Procs -> SUBSET References(rows')]
      /\ \A q \in Procs \ {p} : held'[q] = held[q]
  <2>1. References(rows') = References(rows)
    BY <1>2
  <2> HIDE DEF References
  <2> QED
    BY <1>0, <1>1, <2>1 DEF StoreTypeOK
<1>6. quiet' \in [Procs -> BOOLEAN] /\ \A q \in Procs \ {p} : quiet'[q] = quiet[q]
  BY <1>0, <1>2 DEF StoreTypeOK
<1>7. Moves(p)
  BY <1>2, <1>4, <1>5, <1>6 DEF Moves
<1>8. TablesInv'
  BY <1>0, <1>2 DEF TablesInv, syncLayerRefCounts
<1>9. c # None
  BY DEF None
<1>10. CommandInv(p)' /\ PruneInv(p)' /\ AloneInv(p)' /\ proc'[p].pc # "done"
  <2>1. CommandInv(p)'
    BY <1>12, <1>3, <1>4, <1>9 DEF CommandInv, Ingesting, Saving, Pruning, Writer
  <2>2. PruneInv(p)' /\ proc'[p].pc # "done"
    BY <1>12, <1>3, <1>4 DEF PruneInv
  <2>3. AloneInv(p)'
    BY <1>12, <1>3, <1>4 DEF AloneInv, Ingesting, Saving, Pruning, Writer
  <2> QED
    BY <2>1, <2>2, <2>3
<1>11. rows' \in [Keys -> [layers : Seq(Digests), rootfs : Digests \cup {None}]]
       /\ blobs' \subseteq Digests
  BY <1>0, <1>2 DEF StoreTypeOK
<1> QED
  BY <1>0, <1>2, <1>7, <1>8, <1>10, <1>11, OwnStep

(* The two queries of a Get.                                                 *)
LEMMA GetMetaStep ==
  ASSUME StoreInv, NEW p \in Procs, GetMeta(p)
  PROVE  StoreInv'
<1>0. /\ proc[p] \in Commands /\ CommandInv(p) /\ StoreTypeOK
      /\ tmps \subseteq (Procs \cup {None}) \X Digests
  BY AboutP
<1> DEFINE key == <<proc[p].scope, proc[p].tag>>
           rec == [proc[p] EXCEPT !.pc = "layers", !.rootfs = rows[key].rootfs]
<1>1. /\ UNCHANGED <<rows, layerRefs, blobs, tmps>> /\ proc[p].pc = "meta"
      /\ rows[key] = NoRow => Step(p, GetFails(p), FALSE)
      /\ rows[key] # NoRow => Step(p, rec, FALSE)
  BY DEF GetMeta, Tables, Files
<1>2. key \in Keys
  BY <1>0, <1>1 DEF CommandInv, Commands, Keys
<1>3. CASE rows[key] = NoRow
  BY <1>1, <1>3, GetFailsStep
<1>4. CASE rows[key] # NoRow
  <2>1. rows[key].rootfs \in Digests \cup {None}
    BY <1>0, <1>2 DEF StoreTypeOK
  <2> DEFINE root == rows[key].rootfs
  <2>2. rec = [proc[p] EXCEPT !.pc = "layers", !.rootfs = root] /\ root \in Digests \cup {None}
    BY <2>1
  <2> HIDE DEF root, rec, key
  <2>3. /\ rec \in Commands /\ rec.pc = "layers" /\ rec.cmd = proc[p].cmd
        /\ rec.tag = proc[p].tag /\ rec.scope = proc[p].scope /\ rec.rootfs = root
    BY <1>0, <2>2 DEF Commands, PCs
  <2>4. ASSUME proc'[p] = rec, held'[p] = held[p]
        PROVE  CommandInv(p)' /\ PruneInv(p)' /\ AloneInv(p)'
    <3>1. CommandInv(p)' /\ PruneInv(p)'
      BY <1>0, <1>1, <2>3, <2>4 DEF CommandInv, PruneInv, Ingesting, Saving, Pruning
    <3>2. AloneInv(p)'
      BY <1>1, <2>3, <2>4 DEF AloneInv, Ingesting, Saving, Pruning, root, key
    <3> QED
      BY <3>1, <3>2
  <2> QED
    BY <1>0, <1>1, <1>4, <2>3, <2>4, PlainStep
<1> QED
  BY <1>3, <1>4

LEMMA GetLayersStep ==
  ASSUME StoreInv, NEW p \in Procs, GetLayers(p)
  PROVE  StoreInv'
<1>0. /\ proc[p] \in Commands /\ CommandInv(p) /\ StoreTypeOK /\ TablesInv
      /\ (quiet[p] => AloneInv(p))
  BY AboutP
<1> DEFINE key == <<proc[p].scope, proc[p].tag>>
           lay == rows[key].layers
           low == runtimeLayers(lay, proc[p].rootfs)
<1>1. /\ UNCHANGED <<rows, layerRefs, blobs, tmps>> /\ proc[p].pc = "layers"
      /\ lay = <<>> \/ ~ensureLayerFilesExist(lay) => Step(p, GetFails(p), FALSE)
      /\ ~(lay = <<>> \/ ~ensureLayerFilesExist(lay)) => Step(p, Built(p, lay, low), FALSE)
  BY DEF GetLayers, Tables, Files
<1>2. key \in Keys /\ proc[p].cmd \in Writer /\ proc[p].pc # "idle"
  BY <1>0, <1>1 DEF CommandInv, Commands, Keys
<1>3. CASE lay = <<>> \/ ~ensureLayerFilesExist(lay)
  BY <1>1, <1>3, GetFailsStep
<1>4. CASE lay # <<>> /\ ensureLayerFilesExist(lay)
  <2>1. lay \in Seq(Digests) /\ Range(lay) \subseteq blobs
    BY <1>0, <1>2, <1>4 DEF StoreTypeOK, ensureLayerFilesExist
  <2>2. \E i \in Images : lay = i.layers
    BY <1>0, <1>2, <1>4 DEF TablesInv, NoRow
  <2>3. \/ low = lay
        \/ /\ proc[p].rootfs \in Digests \ Range(lay) /\ proc[p].rootfs \in blobs
           /\ low = <<proc[p].rootfs>>
    BY <1>0 DEF runtimeLayers, StoreTypeOK
  <2>4. low \in Seq(Digests) /\ Range(low) \subseteq blobs
        /\ (low = lay \/ \E b \in Digests \ Range(lay) : low = <<b>>)
    <3> HIDE DEF low, lay
    <3>1. CASE low = lay
      BY <2>1, <3>1
    <3>2. CASE low # lay
      <4>1. /\ proc[p].rootfs \in Digests \ Range(lay) /\ proc[p].rootfs \in blobs
            /\ low = <<proc[p].rootfs>>
        BY <2>3, <3>2
      <4>2. /\ Range(<<proc[p].rootfs>>) = {proc[p].rootfs}
            /\ <<proc[p].rootfs>> \in Seq(Digests)
        BY <4>1, RangeOfOne
      <4> QED
        BY <4>1, <4>2
    <3> QED
      BY <3>1, <3>2
  <2>5. ASSUME quiet[p], RowsAreWhole
        PROVE  \E i \in Images : lay = i.layers /\ low \in {i.layers, <<i.squash>>}
    <3>1. proc[p].rootfs = rows[key].rootfs
      BY <1>0, <1>1, <2>5 DEF AloneInv
    <3>2. rows[key] # NoRow
      BY <1>4 DEF NoRow
    <3>3. PICK i \in Images : lay = i.layers /\ rows[key].rootfs \in {i.squash, i.layers[1]}
      BY <1>2, <2>5, <3>2 DEF RowsAreWhole
    <3>4. i.layers[1] \in Range(lay)
      BY <1>4, <2>1, <3>3, RangeFacts
    <3> QED
      BY <2>3, <3>1, <3>3, <3>4
  <2>6. Step(p, Built(p, lay, low), FALSE)
    BY <1>1, <1>4
  <2> HIDE DEF low, lay
  <2> QED
    BY <1>1, <1>2, <2>1, <2>2, <2>4, <2>5, <2>6, BuiltStep
<1> QED
  BY <1>3, <1>4

(* The image arrives.                                                        *)
LEMMA FetchImageStep ==
  ASSUME StoreInv, NEW p \in Procs, FetchImage(p)
  PROVE  StoreInv'
<1>0. /\ proc[p] \in Commands /\ CommandInv(p)
      /\ tmps \subseteq (Procs \cup {None}) \X Digests
  BY AboutP
<1>1. UNCHANGED <<rows, layerRefs, blobs, tmps>> /\ proc[p].pc = "fetch"
  BY DEF FetchImage, Tables, Files
<1>2. CASE Step(p, Fails(p), FALSE)
  BY <1>0, <1>1, <1>2, FailsStep
<1>3. ASSUME NEW i \in Images,
             Step(p, [proc[p] EXCEPT !.pc = "ingest", !.layers = i.layers,
                        !.rootfs = i.squash, !.lower = <<i.squash>>,
                        !.scope = IF proc[p].cmd = "import" THEN "local" ELSE "registry",
                        !.todo = i.layers \o <<i.squash>>], FALSE)
      PROVE  StoreInv'
  <2>1. /\ i.layers \in Seq(Digests) /\ i.squash \in Digests
        /\ i.squash \notin Range(i.layers)
    BY ImagesAssumption
  <2>2. /\ Range(<<i.squash>>) = {i.squash} /\ <<i.squash>> \in Seq(Digests)
        /\ <<i.squash>>[1] = i.squash
    BY <2>1, RangeOfOne
  <2>3. /\ i.layers \o <<i.squash>> \in Seq(Digests) /\ i.layers \o <<i.squash>> # <<>>
        /\ Range(i.layers \o <<i.squash>>) = Range(i.layers) \cup {i.squash}
    BY <2>1, RangeOfMore
  <2> DEFINE low == <<i.squash>>
             todo == i.layers \o <<i.squash>>
             scope == IF proc[p].cmd = "import" THEN "local" ELSE "registry"
             rec == [proc[p] EXCEPT !.pc = "ingest", !.layers = i.layers,
                       !.rootfs = i.squash, !.lower = low, !.scope = scope, !.todo = todo]
  <2>4. /\ low \in Seq(Digests) /\ todo \in Seq(Digests) /\ scope \in Scopes
        /\ "ingest" \in PCs
    BY <2>2, <2>3 DEF Scopes, PCs, Ingesting
  <2>5. Step(p, rec, FALSE)
    BY <1>3
  <2>6. /\ low[1] = i.squash /\ Range(low) = {i.squash} /\ todo # <<>>
        /\ Range(todo) = Range(i.layers) \cup {i.squash}
        /\ \E b \in Digests \ Range(i.layers) : low = <<b>>
    BY <2>1, <2>2, <2>3
  <2> HIDE DEF low, todo, scope
  <2>7. /\ rec \in Commands /\ rec.pc = "ingest" /\ rec.layers = i.layers
        /\ rec.rootfs = i.squash /\ rec.lower = low /\ rec.todo = todo
        /\ rec.cmd = proc[p].cmd /\ rec.tag = proc[p].tag
    BY <1>0, <2>1, <2>4 DEF Commands
  <2> HIDE DEF rec
  <2>8. ASSUME proc'[p] = rec, held'[p] = held[p]
        PROVE  CommandInv(p)' /\ PruneInv(p)' /\ AloneInv(p)'
    <3>1. Chosen(proc[p])'
      BY <2>6, <2>7, <2>8 DEF Chosen
    <3>2. CommandInv(p)' /\ PruneInv(p)'
      BY <1>0, <1>1, <2>6, <2>7, <2>8, <3>1
      DEF CommandInv, PruneInv, Ingesting, Saving, Pruning
    <3>3. AloneInv(p)'
      BY <2>6, <2>7, <2>8 DEF AloneInv, Ingesting, Saving, Pruning
    <3> QED
      BY <3>2, <3>3
  <2> QED
    BY <1>0, <1>1, <2>5, <2>7, <2>8, PlainStep
<1> QED
  BY <1>1, <1>2, <1>3 DEF FetchImage

(* The blobs of the image, one after the other.                              *)
LEMMA EnsureLayerBlobStep ==
  ASSUME StoreInv, NEW p \in Procs, ensureLayerBlob(p)
  PROVE  StoreInv'
<1>0. /\ proc[p] \in Commands /\ CommandInv(p) /\ (quiet[p] => AloneInv(p))
      /\ tmps \subseteq (Procs \cup {None}) \X Digests
  BY AboutP
<1> DEFINE d == Head(proc[p].todo)
           rec == [proc[p] EXCEPT !.pc = "mkfs"]
<1>1. /\ UNCHANGED <<rows, layerRefs, blobs>> /\ proc[p].pc = "ingest"
      /\ d \in blobs => Step(p, NextBlob(p), FALSE) /\ UNCHANGED tmps
      /\ d \notin blobs => tmps' = tmps \cup {<<p, d>>} /\ Step(p, rec, FALSE)
  BY DEF ensureLayerBlob, Tables
<1>2. CASE d \in blobs
  BY <1>1, <1>2, NextBlobStep DEF Ingesting
<1>3. CASE d \notin blobs
  <2>1. d \in Digests
    <3>1. proc[p].todo \in Seq(Digests) /\ proc[p].todo # <<>>
      BY <1>0, <1>1 DEF CommandInv, Commands, Ingesting
    <3> QED
      BY <3>1, RangeFacts
  <2>2. tmps' \subseteq (Procs \cup {None}) \X Digests
    <3>1. tmps' = tmps \cup {<<p, d>>}
      BY <1>1, <1>3
    <3> HIDE DEF d
    <3>2. <<p, d>> \in (Procs \cup {None}) \X Digests
      BY <2>1
    <3> QED
      BY <1>0, <3>1, <3>2
  <2>3. rec \in Commands /\ rec.pc = "mkfs" /\ rec.cmd = proc[p].cmd /\ rec.tag = proc[p].tag
        /\ rec.layers = proc[p].layers /\ rec.lower = proc[p].lower
        /\ rec.rootfs = proc[p].rootfs /\ rec.todo = proc[p].todo
    BY <1>0 DEF Commands, PCs, Ingesting
  <2> HIDE DEF rec, d
  <2>4. ASSUME proc'[p] = rec, held'[p] = held[p]
        PROVE  CommandInv(p)' /\ PruneInv(p)' /\ (quiet[p] => AloneInv(p)')
    <3>1. CommandInv(p)' /\ PruneInv(p)'
      BY <1>0, <1>1, <2>3, <2>4 DEF CommandInv, Chosen, PruneInv, Ingesting, Saving, Pruning
    <3>2. quiet[p] => AloneInv(p)'
      BY <1>0, <1>1, <2>3, <2>4 DEF AloneInv, Ingesting, Saving, Pruning
    <3> QED
      BY <3>1, <3>2
  <2> QED
    BY <1>1, <1>3, <2>2, <2>3, <2>4, PlainStep
<1> QED
  BY <1>2, <1>3

LEMMA CreateEROFSStep ==
  ASSUME StoreInv, NEW p \in Procs, createEROFSFromTar(p)
  PROVE  StoreInv'
<1>0. /\ proc[p] \in Commands /\ CommandInv(p) /\ (quiet[p] => AloneInv(p))
      /\ tmps \subseteq (Procs \cup {None}) \X Digests
      /\ StoreTypeOK /\ TablesInv
  BY AboutP
<1> DEFINE d == Head(proc[p].todo)
           rec == [proc[p] EXCEPT !.pc = "built"]
<1>1. /\ UNCHANGED <<rows, layerRefs>> /\ proc[p].pc = "mkfs"
      /\ tmps' \subseteq tmps
      /\ \/ blobs' = blobs \cup {d} /\ Step(p, rec, TRUE)
         \/ UNCHANGED blobs /\ Step(p, Fails(p), FALSE)
  BY DEF createEROFSFromTar, Tables
<1>2. CASE UNCHANGED blobs /\ Step(p, Fails(p), FALSE)
  BY <1>0, <1>1, <1>2, FailsStep
<1>3. CASE blobs' = blobs \cup {d} /\ Step(p, rec, TRUE)
  <2>1. d \in Digests
    <3>1. proc[p].todo \in Seq(Digests) /\ proc[p].todo # <<>>
      BY <1>0, <1>1 DEF CommandInv, Commands, Ingesting
    <3> QED
      BY <3>1, RangeFacts
  <2>2. /\ tmps' \subseteq (Procs \cup {None}) \X Digests
        /\ blobs' \subseteq Digests
        /\ rows' \in [Keys -> [layers : Seq(Digests), rootfs : Digests \cup {None}]]
    BY <1>0, <1>1, <1>3, <2>1 DEF StoreTypeOK
  <2>3. rec \in Commands /\ rec.pc = "built" /\ rec.cmd = proc[p].cmd /\ rec.tag = proc[p].tag
        /\ rec.layers = proc[p].layers /\ rec.lower = proc[p].lower
        /\ rec.rootfs = proc[p].rootfs /\ rec.todo = proc[p].todo
    BY <1>0 DEF Commands, PCs, Ingesting
  <2> HIDE DEF rec
  <2>4. Moves(p) /\ Own(p) /\ proc'[p] = rec
    BY <1>0, <1>3, <2>3, StepMoves
  <2>5. CommandInv(p)' /\ PruneInv(p)'
    BY <1>0, <1>1, <2>3, <2>4 DEF CommandInv, Chosen, PruneInv, Ingesting, Saving, Pruning
  <2>6. quiet'[p] => AloneInv(p)'
    BY <1>0, <1>1, <1>3, <2>3, <2>4 DEF AloneInv, Own, Ingesting, Saving, Pruning
  <2>7. TablesInv'
    BY <1>0, <1>1 DEF TablesInv, syncLayerRefCounts
  <2>8. proc'[p].pc # "done"
    BY <2>3, <2>4
  <2> QED
    BY <2>2, <2>4, <2>5, <2>6, <2>7, <2>8, OwnStep
<1> QED
  BY <1>1, <1>2, <1>3

LEMMA StatBlobStep ==
  ASSUME StoreInv, NEW p \in Procs, StatBlob(p)
  PROVE  StoreInv'
<1>0. tmps \subseteq (Procs \cup {None}) \X Digests
  BY AboutP
<1>1. /\ UNCHANGED <<rows, layerRefs, blobs, tmps>> /\ proc[p].pc = "built"
      /\ Head(proc[p].todo) \in blobs => Step(p, NextBlob(p), FALSE)
      /\ Head(proc[p].todo) \notin blobs => Step(p, Fails(p), FALSE)
  BY DEF StatBlob, Tables, Files
<1> QED
  BY <1>0, <1>1, NextBlobStep, FailsStep DEF Ingesting

-----------------------------------------------------------------------------
(* The row is written.                                                       *)
LEMMA CheckLayersStep ==
  ASSUME StoreInv, NEW p \in Procs, CheckLayers(p)
  PROVE  StoreInv'
<1>0. /\ proc[p] \in Commands /\ CommandInv(p) /\ (quiet[p] => AloneInv(p))
      /\ tmps \subseteq (Procs \cup {None}) \X Digests
  BY AboutP
<1> DEFINE rec == [proc[p] EXCEPT !.pc = "commit"]
<1>1. /\ UNCHANGED <<rows, layerRefs, blobs, tmps>> /\ proc[p].pc = "save"
      /\ Step(p, Fails(p), FALSE) \/ Step(p, rec, FALSE)
  BY DEF CheckLayers, Tables, Files
<1>2. CASE Step(p, rec, FALSE)
  <2>1. rec \in Commands /\ rec.pc = "commit" /\ rec.cmd = proc[p].cmd
        /\ rec.layers = proc[p].layers /\ rec.lower = proc[p].lower
        /\ rec.rootfs = proc[p].rootfs /\ rec.tag = proc[p].tag
    BY <1>0 DEF Commands, PCs, Saving
  <2> HIDE DEF rec
  <2>2. ASSUME proc'[p] = rec, held'[p] = held[p]
        PROVE  CommandInv(p)' /\ PruneInv(p)' /\ (quiet[p] => AloneInv(p)')
    BY <1>0, <1>1, <2>1, <2>2
    DEF CommandInv, Chosen, PruneInv, AloneInv, Ingesting, Saving, Pruning
  <2> QED
    BY <1>0, <1>1, <1>2, <2>1, <2>2, PlainStep
<1> QED
  BY <1>0, <1>1, <1>2, FailsStep

LEMMA UpsertStep ==
  ASSUME StoreInv, NEW p \in Procs, upsertImageMetaWithLayers(p)
  PROVE  StoreInv'
<1>0. /\ proc[p] \in Commands /\ CommandInv(p) /\ (quiet[p] => AloneInv(p))
      /\ tmps \subseteq (Procs \cup {None}) \X Digests
      /\ StoreTypeOK /\ TablesInv
  BY AboutP
<1> DEFINE key == <<proc[p].scope, proc[p].tag>>
           row == [layers |-> proc[p].layers, rootfs |-> proc[p].rootfs]
           rec == [proc[p] EXCEPT !.pc = "refs"]
<1>1. /\ UNCHANGED <<blobs, tmps>> /\ proc[p].pc = "commit"
      /\ \/ /\ rows' = [rows EXCEPT ![key] = row]
            /\ layerRefs' = syncLayerRefCounts(rows') /\ Step(p, rec, TRUE)
         \/ UNCHANGED <<rows, layerRefs>> /\ Step(p, Fails(p), FALSE)
  BY DEF upsertImageMetaWithLayers, Tables, Files
<1>2. CASE UNCHANGED <<rows, layerRefs>> /\ Step(p, Fails(p), FALSE)
  BY <1>0, <1>1, <1>2, FailsStep
<1>3. CASE /\ rows' = [rows EXCEPT ![key] = row]
           /\ layerRefs' = syncLayerRefCounts(rows') /\ Step(p, rec, TRUE)
  <2>1. /\ key \in Keys /\ Chosen(proc[p]) /\ proc[p].rootfs = proc[p].lower[1]
        /\ proc[p].cmd \in Writer /\ proc[p].cmd # None /\ proc[p].tag \in Tags
        /\ row \in [layers : Seq(Digests), rootfs : Digests \cup {None}]
        /\ proc[p].layers \in Seq(Digests)
    BY <1>0, <1>1 DEF CommandInv, Commands, Keys, Ingesting, Saving, Pruning
  <2>2. proc[p].layers # <<>> /\ row # NoRow
    BY <2>1, ImagesAssumption DEF Chosen, NoRow
  <2>3. rec \in Commands /\ rec.pc = "refs" /\ rec.cmd = proc[p].cmd
        /\ rec.layers = proc[p].layers /\ rec.lower = proc[p].lower
        /\ rec.rootfs = proc[p].rootfs /\ rec.tag = proc[p].tag
    BY <1>0 DEF Commands, PCs, Pruning
  <2>4. row.layers = proc[p].layers /\ row.rootfs = proc[p].rootfs
    OBVIOUS
  <2> HIDE DEF rec, row, key
  <2>5. Moves(p) /\ Own(p) /\ proc'[p] = rec
    BY <1>0, <1>3, <2>3, StepMoves
  <2>6. rows' \in [Keys -> [layers : Seq(Digests), rootfs : Digests \cup {None}]]
        /\ rows'[key] = row /\ \A k \in Keys \ {key} : rows'[k] = rows[k]
    BY <1>0, <1>3, <2>1 DEF StoreTypeOK
  <2>7. TablesInv'
    <3>1. \A k \in Keys : rows'[k] = NoRow \/ \E i \in Images : rows'[k].layers = i.layers
      BY <1>0, <2>1, <2>4, <2>6 DEF TablesInv, Chosen
    <3> QED
      BY <1>3, <3>1 DEF TablesInv, syncLayerRefCounts
  <2>8. CommandInv(p)' /\ PruneInv(p)'
    BY <2>1, <2>3, <2>5 DEF CommandInv, Chosen, PruneInv, Ingesting, Saving, Pruning
  <2>9. ASSUME quiet'[p] PROVE AloneInv(p)'
    <3>1. quiet[p] /\ held'[p] = References(rows')
      BY <2>3, <2>5, <2>9 DEF Own
    <3>2. Range(rec.lower) \subseteq blobs
      BY <1>0, <1>1, <2>1, <2>3, <3>1 DEF AloneInv, Ingesting, Saving, Pruning
    <3>3. \A d \in Range(rec.layers) : <<"layer", d>> \in held'[p]
      BY <2>1, <2>3, <2>4, <2>6, <3>1 DEF References, LayersOf
    <3>4. <<"rootfs", rec.rootfs>> \in held'[p]
      BY <2>1, <2>3, <2>4, <2>6, <3>1 DEF References, RootsOf
    <3>5. CASE rec.lower = rec.layers
      <4>1. FromOneImage(rec)
        BY <2>1, <2>3, <3>5 DEF FromOneImage, Chosen
      <4>2. FromOneImage(proc[p])'
        BY <2>5, <4>1 DEF FromOneImage
      <4> QED
        BY <1>1, <2>3, <2>5, <3>2, <3>3, <3>5, <4>2 DEF AloneInv, Ingesting, Saving, Pruning
    <3>6. CASE rec.lower # rec.layers
      <4>1. PICK b \in Digests \ Range(rec.layers) : rec.lower = <<b>>
        BY <2>1, <2>3, <3>6 DEF Chosen
      <4>2. Range(rec.lower) = {b} /\ rec.rootfs = b
        BY <2>1, <2>3, <4>1, RangeOfOne
      <4>3. ASSUME RowsAreWhole' PROVE FromOneImage(proc[p])'
        <5>1. PICK i \in Images : rec.layers = i.layers /\ b \in {i.squash, i.layers[1]}
          BY <2>1, <2>2, <2>3, <2>4, <2>6, <4>2, <4>3 DEF RowsAreWhole
        <5>2. i.layers[1] \in Range(rec.layers)
          BY <2>1, <2>2, <2>3, <5>1, RangeFacts
        <5>3. b = i.squash
          BY <4>1, <5>1, <5>2
        <5> QED
          BY <2>5, <4>1, <5>1, <5>3 DEF FromOneImage
      <4> QED
        BY <1>1, <2>3, <2>5, <3>2, <3>4, <4>2, <4>3 DEF AloneInv, Ingesting, Saving, Pruning
    <3> QED
      BY <3>5, <3>6
  <2>10. proc'[p].pc # "done"
    BY <2>3, <2>5
  <2>11. blobs' \subseteq Digests /\ tmps' \subseteq (Procs \cup {None}) \X Digests
    BY <1>0, <1>1 DEF StoreTypeOK
  <2> QED
    BY <2>5, <2>6, <2>7, <2>8, <2>9, <2>10, <2>11, OwnStep
<1> QED
  BY <1>1, <1>2, <1>3

(* A removal that fails is tried in the other store.                         *)
LEMMA RemoveFailsStep ==
  ASSUME StoreInv, NEW p \in Procs, Step(p, RemoveFails(p), FALSE),
         proc[p].pc # "idle", proc[p].cmd = "rm", UNCHANGED <<rows, layerRefs, blobs, tmps>>
  PROVE  StoreInv'
<1>0. /\ proc[p] \in Commands /\ CommandInv(p)
      /\ tmps \subseteq (Procs \cup {None}) \X Digests
  BY AboutP
<1> DEFINE rec == [proc[p] EXCEPT !.pc = "delete", !.scope = "registry"]
<1>1. CASE proc[p].scope # "local"
  <2>1. Step(p, Fails(p), FALSE)
    BY <1>1 DEF RemoveFails
  <2> QED
    BY <1>0, <2>1, FailsStep
<1>2. CASE proc[p].scope = "local"
  <2>1. Step(p, rec, FALSE)
    BY <1>2 DEF RemoveFails
  <2>2. rec \in Commands /\ rec.pc = "delete" /\ rec.cmd = "rm" /\ rec.tag = proc[p].tag
    BY <1>0 DEF Commands, PCs, Scopes
  <2> HIDE DEF rec
  <2>3. ASSUME proc'[p] = rec, held'[p] = held[p]
        PROVE  CommandInv(p)' /\ PruneInv(p)' /\ AloneInv(p)'
    BY <1>0, <2>2, <2>3
    DEF CommandInv, PruneInv, AloneInv, Ingesting, Saving, Pruning, Writer, None
  <2> QED
    BY <1>0, <2>1, <2>2, <2>3, PlainStep
<1> QED
  BY <1>1, <1>2

LEMMA DeleteStep ==
  ASSUME StoreInv, NEW p \in Procs, deleteImageWithLayers(p)
  PROVE  StoreInv'
<1>0. /\ proc[p] \in Commands /\ CommandInv(p)
      /\ tmps \subseteq (Procs \cup {None}) \X Digests
      /\ StoreTypeOK /\ TablesInv
  BY AboutP
<1> DEFINE key == <<proc[p].scope, proc[p].tag>>
           rec == [proc[p] EXCEPT !.pc = "refs"]
<1>1. /\ UNCHANGED <<blobs, tmps>> /\ proc[p].pc = "delete"
      /\ \/ /\ rows' = [rows EXCEPT ![key] = NoRow]
            /\ layerRefs' = syncLayerRefCounts(rows') /\ Step(p, rec, TRUE)
         \/ UNCHANGED <<rows, layerRefs>> /\ Step(p, RemoveFails(p), FALSE)
  BY DEF deleteImageWithLayers, Tables, Files
<1>2. proc[p].cmd = "rm" /\ proc[p].tag \in Tags
  BY <1>0, <1>1 DEF CommandInv
<1>3. CASE UNCHANGED <<rows, layerRefs>> /\ Step(p, RemoveFails(p), FALSE)
  BY <1>1, <1>2, <1>3, RemoveFailsStep
<1>4. CASE /\ rows' = [rows EXCEPT ![key] = NoRow]
           /\ layerRefs' = syncLayerRefCounts(rows') /\ Step(p, rec, TRUE)
  <2>1. rec \in Commands /\ rec.pc = "refs" /\ rec.cmd = "rm" /\ rec.tag \in Tags
    BY <1>0, <1>2 DEF Commands, PCs, Pruning
  <2>2. NoRow \in [layers : Seq(Digests), rootfs : Digests \cup {None}]
    BY DEF NoRow
  <2> HIDE DEF rec, key
  <2>3. Moves(p) /\ Own(p) /\ proc'[p] = rec
    BY <1>0, <1>4, <2>1, StepMoves
  <2>4. rows' \in [Keys -> [layers : Seq(Digests), rootfs : Digests \cup {None}]]
    BY <1>0, <1>4, <2>2 DEF StoreTypeOK
  <2>5. TablesInv'
    <3>1. \A k \in Keys : rows'[k] = NoRow \/ \E i \in Images : rows'[k].layers = i.layers
      BY <1>0, <1>4 DEF TablesInv, StoreTypeOK
    <3> QED
      BY <1>4, <3>1 DEF TablesInv, syncLayerRefCounts
  <2>6. CommandInv(p)' /\ PruneInv(p)' /\ AloneInv(p)' /\ proc'[p].pc # "done"
    BY <2>1, <2>3
    DEF CommandInv, PruneInv, AloneInv, Ingesting, Saving, Pruning, Writer, None
  <2>7. blobs' \subseteq Digests /\ tmps' \subseteq (Procs \cup {None}) \X Digests
    BY <1>0, <1>1 DEF StoreTypeOK
  <2> QED
    BY <2>3, <2>4, <2>5, <2>6, <2>7, OwnStep
<1> QED
  BY <1>1, <1>3, <1>4

-----------------------------------------------------------------------------
(* The unreferenced blobs are removed.                                       *)
LEMMA QueryRefsStep ==
  ASSUME StoreInv, NEW p \in Procs, QueryRefs(p)
  PROVE  StoreInv'
<1>0. /\ proc[p] \in Commands /\ CommandInv(p) /\ (quiet[p] => AloneInv(p))
      /\ tmps \subseteq (Procs \cup {None}) \X Digests
      /\ StoreTypeOK /\ TablesInv
  BY AboutP
<1> DEFINE found == {d \in Digests : layerRefs[d] > 0}
           rec == [proc[p] EXCEPT !.pc = "roots", !.referenced = found]
<1>1. /\ UNCHANGED <<rows, layerRefs, blobs, tmps>> /\ proc[p].pc = "refs"
      /\ Step(p, rec, FALSE)
  BY DEF QueryRefs, Tables, Files
<1>2. \A d \in Digests : d \in found <=> d \in LayersOf(rows)
  BY <1>0, CountsAreExact
<1>3. found \subseteq Digests
  OBVIOUS
<1> HIDE DEF found
<1>4. rec \in Commands /\ rec.pc = "roots" /\ rec.cmd = proc[p].cmd /\ rec.tag = proc[p].tag
      /\ rec.layers = proc[p].layers /\ rec.lower = proc[p].lower /\ rec.referenced = found
  BY <1>0, <1>3 DEF Commands, PCs, Pruning
<1> HIDE DEF rec
<1>5. ASSUME proc'[p] = rec, held'[p] = held[p]
      PROVE  CommandInv(p)' /\ PruneInv(p)' /\ (quiet[p] => AloneInv(p)')
  <2>1. CommandInv(p)'
    BY <1>0, <1>1, <1>4, <1>5 DEF CommandInv, Chosen, Ingesting, Saving, Pruning
  <2>2. PruneInv(p)'
    <3>1. held[p] \subseteq References(rows)
      BY <1>0 DEF StoreTypeOK
    <3>2. \A d \in Digests : <<"layer", d>> \in held[p] => d \in LayersOf(rows)
      BY <3>1 DEF References
    <3> QED
      BY <1>2, <1>4, <1>5, <3>2 DEF PruneInv
  <2>3. ASSUME quiet[p] PROVE AloneInv(p)'
    <3>1. found \subseteq Referenced(rows)'
      BY <1>1, <1>2, <1>3 DEF Referenced, LayersOf, RootsOf
    <3>2. RowsAreWhole' => RowsAreWhole
      BY <1>1 DEF RowsAreWhole
    <3> QED
      BY <1>0, <1>1, <1>4, <1>5, <2>3, <3>1, <3>2
      DEF AloneInv, FromOneImage, Ingesting, Saving, Pruning
  <2> QED
    BY <2>1, <2>2, <2>3
<1> QED
  BY <1>0, <1>1, <1>4, <1>5, PlainStep

LEMMA QueryRootfsStep ==
  ASSUME StoreInv, NEW p \in Procs, QueryRootfs(p)
  PROVE  StoreInv'
<1>0. /\ proc[p] \in Commands /\ CommandInv(p) /\ PruneInv(p) /\ (quiet[p] => AloneInv(p))
      /\ tmps \subseteq (Procs \cup {None}) \X Digests
      /\ StoreTypeOK
  BY AboutP
<1> DEFINE found == proc[p].referenced \cup RootsOf(rows)
           rec == [proc[p] EXCEPT !.pc = "dir", !.referenced = found]
<1>1. /\ UNCHANGED <<rows, layerRefs, blobs, tmps>> /\ proc[p].pc = "roots"
      /\ Step(p, rec, FALSE)
  BY DEF QueryRootfs, Tables, Files, RootsOf
<1>2. proc[p].referenced \subseteq found /\ RootsOf(rows) \subseteq found
  OBVIOUS
<1>3. found \subseteq Digests \cup {None}
  BY <1>0 DEF Commands, StoreTypeOK, RootsOf
<1>6. quiet[p] => found \subseteq Referenced(rows)
  BY <1>0, <1>1 DEF AloneInv, Referenced
<1> HIDE DEF found
<1>4. rec \in Commands /\ rec.pc = "dir" /\ rec.cmd = proc[p].cmd /\ rec.tag = proc[p].tag
      /\ rec.layers = proc[p].layers /\ rec.lower = proc[p].lower /\ rec.referenced = found
  BY <1>0, <1>3 DEF Commands, PCs, Pruning
<1> HIDE DEF rec
<1>5. ASSUME proc'[p] = rec, held'[p] = held[p]
      PROVE  CommandInv(p)' /\ PruneInv(p)' /\ (quiet[p] => AloneInv(p)')
  <2>1. CommandInv(p)'
    BY <1>0, <1>1, <1>4, <1>5 DEF CommandInv, Chosen, Ingesting, Saving, Pruning
  <2>2. PruneInv(p)'
    <3>1. held[p] \subseteq References(rows)
      BY <1>0 DEF StoreTypeOK
    <3>2. \A d \in Digests : <<"rootfs", d>> \in held[p] => d \in RootsOf(rows)
      BY <3>1 DEF References
    <3> QED
      BY <1>0, <1>1, <1>2, <1>4, <1>5, <3>2 DEF PruneInv
  <2>3. ASSUME quiet[p] PROVE AloneInv(p)'
    <3>1. found \subseteq Referenced(rows)'
      BY <1>1, <1>6, <2>3 DEF Referenced, LayersOf, RootsOf
    <3>2. RowsAreWhole' => RowsAreWhole
      BY <1>1 DEF RowsAreWhole
    <3> QED
      BY <1>0, <1>1, <1>4, <1>5, <2>3, <3>1, <3>2
      DEF AloneInv, FromOneImage, Ingesting, Saving, Pruning
  <2> QED
    BY <2>1, <2>2, <2>3
<1> QED
  BY <1>0, <1>1, <1>4, <1>5, PlainStep

LEMMA ReadBlobsDirStep ==
  ASSUME StoreInv, NEW p \in Procs, ReadBlobsDir(p)
  PROVE  StoreInv'
<1>0. /\ proc[p] \in Commands /\ CommandInv(p) /\ PruneInv(p) /\ (quiet[p] => AloneInv(p))
      /\ tmps \subseteq (Procs \cup {None}) \X Digests /\ blobs \subseteq Digests
  BY AboutP DEF StoreTypeOK
<1> DEFINE found == ({"blob"} \X (blobs \ proc[p].referenced)) \cup tmps
           rec == [proc[p] EXCEPT !.pc = "unlink", !.entries = found]
<1>1. /\ UNCHANGED <<rows, layerRefs, blobs, tmps>> /\ proc[p].pc = "dir"
      /\ Step(p, rec, FALSE)
  BY DEF ReadBlobsDir, Tables, Files
<1>2. \A d \in Digests : <<"blob", d>> \in found <=> d \in blobs \ proc[p].referenced
  BY <1>0, NamesAssumption DEF None
<1>3. found \subseteq (Procs \cup {None, "blob"}) \X Digests
  BY <1>0
<1> HIDE DEF found
<1>4. rec \in Commands /\ rec.pc = "unlink" /\ rec.cmd = proc[p].cmd /\ rec.tag = proc[p].tag
      /\ rec.layers = proc[p].layers /\ rec.lower = proc[p].lower /\ rec.entries = found
  BY <1>0, <1>3 DEF Commands, PCs, Pruning
<1> HIDE DEF rec
<1>5. ASSUME proc'[p] = rec, held'[p] = held[p]
      PROVE  CommandInv(p)' /\ PruneInv(p)' /\ (quiet[p] => AloneInv(p)')
  <2>1. CommandInv(p)'
    BY <1>0, <1>1, <1>4, <1>5 DEF CommandInv, Chosen, Ingesting, Saving, Pruning
  <2>2. PruneInv(p)'
    BY <1>0, <1>1, <1>2, <1>4, <1>5 DEF PruneInv
  <2>3. ASSUME quiet[p] PROVE AloneInv(p)'
    <3>1. \A d \in blobs : d \in Referenced(rows)' \/ <<"blob", d>> \in found
      BY <1>0, <1>1, <1>2, <2>3 DEF AloneInv, Referenced, LayersOf, RootsOf
    <3>2. RowsAreWhole' => RowsAreWhole
      BY <1>1 DEF RowsAreWhole
    <3> QED
      BY <1>0, <1>1, <1>4, <1>5, <2>3, <3>1, <3>2
      DEF AloneInv, FromOneImage, Ingesting, Saving, Pruning
  <2> QED
    BY <2>1, <2>2, <2>3
<1> QED
  BY <1>0, <1>1, <1>4, <1>5, PlainStep

(* The prune is over.                                                        *)
LEMMA PrunedStep ==
  ASSUME StoreInv, NEW p \in Procs, Step(p, Pruned(p), FALSE), proc[p].pc = "unlink",
         proc[p].entries = {}, UNCHANGED <<rows, layerRefs, blobs, tmps>>
  PROVE  StoreInv'
<1>0. /\ proc[p] \in Commands /\ CommandInv(p) /\ (quiet[p] => AloneInv(p))
      /\ tmps \subseteq (Procs \cup {None}) \X Digests
  BY AboutP
<1>1. proc[p].cmd # None /\ proc[p].tag \in Tags /\ (proc[p].cmd \in Writer => Chosen(proc[p]))
  BY <1>0 DEF CommandInv, Pruning
<1>2. CASE proc[p].cmd = "pull"
  <2>1. Step(p, Built(p, proc[p].layers, proc[p].lower), FALSE)
    BY <1>2 DEF Pruned
  <2>2. /\ proc[p].layers \in Seq(Digests) /\ proc[p].lower \in Seq(Digests)
        /\ proc[p].cmd \in Writer
    BY <1>0, <1>2 DEF Commands, Writer
  <2>3. quiet[p] => /\ Range(proc[p].lower) \subseteq blobs
                    /\ RowsAreWhole =>
                          \E i \in Images : /\ proc[p].layers = i.layers
                                            /\ proc[p].lower \in {i.layers, <<i.squash>>}
    BY <1>0, <2>2 DEF AloneInv, FromOneImage, Pruning
  <2>4. /\ \E i \in Images : proc[p].layers = i.layers
        /\ \/ proc[p].lower = proc[p].layers
           \/ \E b \in Digests \ Range(proc[p].layers) : proc[p].lower = <<b>>
    BY <1>1, <2>2 DEF Chosen
  <2> QED
    BY <1>0, <2>1, <2>2, <2>3, <2>4, BuiltStep
<1>3. CASE proc[p].cmd = "import"
  <2> DEFINE rec == [proc[p] EXCEPT !.pc = "meta"]
  <2>1. Step(p, rec, FALSE)
    BY <1>3 DEF Pruned
  <2>2. rec \in Commands /\ rec.pc = "meta" /\ rec.cmd = "import" /\ rec.tag = proc[p].tag
    BY <1>0, <1>3 DEF Commands, PCs
  <2> HIDE DEF rec
  <2>3. ASSUME proc'[p] = rec, held'[p] = held[p]
        PROVE  CommandInv(p)' /\ PruneInv(p)' /\ AloneInv(p)'
    BY <1>1, <2>2, <2>3
    DEF CommandInv, PruneInv, AloneInv, Ingesting, Saving, Pruning, Writer, None
  <2> QED
    BY <1>0, <2>1, <2>2, <2>3, PlainStep
<1>4. CASE proc[p].cmd \notin Writer
  <2> DEFINE rec == Ends(p, <<>>)
  <2>1. Step(p, rec, FALSE)
    BY <1>4 DEF Pruned, Writer
  <2>2. rec \in Commands /\ rec.pc = "done" /\ rec.cmd = proc[p].cmd /\ rec.tag = proc[p].tag
    <3> DEFINE low == <<>>
    <3>1. low \in Seq(Digests) /\ "done" \in PCs
      BY DEF PCs
    <3>2. rec = [proc[p] EXCEPT !.pc = "done", !.ok = TRUE, !.lower = low]
      BY DEF Ends
    <3> HIDE DEF rec, low
    <3> QED
      BY <1>0, <3>1, <3>2 DEF Commands
  <2> HIDE DEF rec
  <2>3. ASSUME proc'[p] = rec, held'[p] = held[p]
        PROVE  /\ CommandInv(p)' /\ PruneInv(p)' /\ AloneInv(p)'
               /\ quiet[p] => Delivered(proc[p])'
    <3>1. CommandInv(p)' /\ PruneInv(p)' /\ AloneInv(p)'
      BY <1>1, <2>2, <2>3 DEF CommandInv, PruneInv, AloneInv, Ingesting, Saving, Pruning
    <3>2. quiet[p] => blobs \subseteq Referenced(rows)
      BY <1>0 DEF AloneInv
    <3>3. quiet[p] => Delivered(proc[p])'
      BY <1>4, <2>2, <2>3, <3>2 DEF Delivered, Writer, Referenced, LayersOf, RootsOf
    <3> QED
      BY <3>1, <3>3
  <2> QED
    BY <1>0, <2>1, <2>2, <2>3, PlainStep
<1> QED
  BY <1>2, <1>3, <1>4 DEF Writer

LEMMA RemoveBlobStep ==
  ASSUME StoreInv, NEW p \in Procs, RemoveBlob(p)
  PROVE  StoreInv'
<1>0. /\ proc[p] \in Commands /\ CommandInv(p) /\ PruneInv(p) /\ (quiet[p] => AloneInv(p))
      /\ tmps \subseteq (Procs \cup {None}) \X Digests
      /\ StoreTypeOK /\ TablesInv
  BY AboutP
<1>1. UNCHANGED <<rows, layerRefs>> /\ proc[p].pc = "unlink"
  BY DEF RemoveBlob, Tables
<1>2. CASE proc[p].entries = {} /\ Step(p, Pruned(p), FALSE) /\ UNCHANGED Files
  BY <1>1, <1>2, PrunedStep DEF Files
<1>3. CASE Step(p, PruneFails(p), FALSE) /\ UNCHANGED Files
  <2>1. CASE proc[p].cmd = "rm"
    BY <1>1, <1>3, <2>1, RemoveFailsStep DEF Files, PruneFails
  <2>2. CASE proc[p].cmd # "rm"
    BY <1>0, <1>1, <1>3, <2>2, FailsStep DEF Files, PruneFails
  <2> QED
    BY <2>1, <2>2
<1>4. ASSUME NEW e \in proc[p].entries, blobs' = {d \in blobs : <<"blob", d>> # e},
             tmps' = tmps \ {e},
             Step(p, [proc[p] EXCEPT !.entries = @ \ {e}], blobs' # blobs)
      PROVE  StoreInv'
  <2> DEFINE left == proc[p].entries \ {e}
             rec == [proc[p] EXCEPT !.entries = left]
  <2>1. left \subseteq (Procs \cup {None, "blob"}) \X Digests /\ left \subseteq proc[p].entries
    BY <1>0 DEF Commands
  <2>2. \A x : x \in left <=> x \in proc[p].entries /\ x # e
    OBVIOUS
  <2> HIDE DEF left
  <2>3. rec \in Commands /\ rec.pc = "unlink" /\ rec.cmd = proc[p].cmd /\ rec.tag = proc[p].tag
        /\ rec.layers = proc[p].layers /\ rec.lower = proc[p].lower /\ rec.entries = left
    BY <1>0, <1>1, <2>1 DEF Commands
  <2>4. Step(p, rec, blobs' # blobs)
    BY <1>4 DEF rec, left
  <2> HIDE DEF rec
  <2>5. Moves(p) /\ Own(p) /\ proc'[p] = rec
    BY <1>0, <1>1, <2>3, <2>4, StepMoves
  <2>6. held'[p] = held[p] /\ quiet'[p] = quiet[p]
    BY <1>0, <1>1, <2>3, <2>5 DEF Own, StoreTypeOK, References, LayersOf, RootsOf
  <2>7. CommandInv(p)'
    BY <1>0, <1>1, <2>3, <2>5 DEF CommandInv, Chosen, Ingesting, Saving, Pruning
  <2>8. PruneInv(p)'
    BY <1>0, <1>1, <2>2, <2>3, <2>5, <2>6 DEF PruneInv
  <2>9. ASSUME quiet[p] PROVE AloneInv(p)'
    <3>1. AloneInv(p) /\ blobs \subseteq Digests /\ blobs' \subseteq blobs
      BY <1>0, <1>4, <2>9 DEF StoreTypeOK
    <3>2. \A d \in blobs' : d \in Referenced(rows)' \/ <<"blob", d>> \in left
      BY <1>1, <1>4, <2>2, <3>1 DEF AloneInv, Referenced, LayersOf, RootsOf
    <3>3. ASSUME rec.cmd \in Writer
          PROVE  /\ Range(rec.lower) \subseteq blobs'
                 /\ RowsAreWhole' => FromOneImage(proc[p])'
                 /\ \A d \in Range(rec.lower) :
                       <<"layer", d>> \in held'[p] \/ <<"rootfs", d>> \in held'[p]
      <4>1. /\ Range(rec.lower) \subseteq blobs
            /\ RowsAreWhole => FromOneImage(proc[p])
            /\ \A d \in Range(rec.lower) :
                  <<"layer", d>> \in held[p] \/ <<"rootfs", d>> \in held[p]
        BY <1>1, <2>3, <3>1, <3>3 DEF AloneInv, Pruning
      <4>2. ASSUME NEW d \in Range(rec.lower) PROVE d \in blobs'
        <5>1. d \in blobs /\ d \in Digests
          BY <3>1, <4>1
        <5>2. <<"blob", d>> \notin proc[p].entries
          BY <1>0, <1>1, <4>1, <5>1 DEF PruneInv
        <5> QED
          BY <1>4, <5>1, <5>2
      <4>3. RowsAreWhole' => FromOneImage(proc[p])'
        BY <1>1, <2>3, <2>5, <4>1 DEF RowsAreWhole, FromOneImage
      <4> QED
        BY <2>6, <4>1, <4>2, <4>3
    <3> QED
      BY <2>3, <2>5, <3>2, <3>3 DEF AloneInv, Ingesting, Saving, Pruning
  <2>10. TablesInv'
    BY <1>0, <1>1 DEF TablesInv, syncLayerRefCounts
  <2>11. /\ blobs' \subseteq Digests /\ tmps' \subseteq (Procs \cup {None}) \X Digests
         /\ rows' \in [Keys -> [layers : Seq(Digests), rootfs : Digests \cup {None}]]
    BY <1>0, <1>1, <1>4 DEF StoreTypeOK
  <2>12. proc'[p].pc # "done"
    BY <2>3, <2>5
  <2> QED
    BY <2>5, <2>6, <2>7, <2>8, <2>9, <2>10, <2>11, <2>12, OwnStep
<1> QED
  BY <1>2, <1>3, <1>4 DEF RemoveBlob

-----------------------------------------------------------------------------
(* The invariant.                                                            *)
LEMMA StoreInitially ==
  ASSUME StoreInit
  PROVE  StoreInv
<1>1. Idle \in Commands /\ Idle.pc = "idle"
  BY DEF Idle, Commands, PCs, Scopes
<1>2. NoRow \in [layers : Seq(Digests), rootfs : Digests \cup {None}]
      /\ DOMAIN NoRow.layers = {}
  BY DEF NoRow
<1>3. /\ rows = [k \in Keys |-> NoRow] /\ layerRefs = [d \in Digests |-> 0]
      /\ blobs = {} /\ tmps = {} /\ proc = [p \in Procs |-> Idle]
      /\ held = [p \in Procs |-> {}] /\ quiet = [p \in Procs |-> FALSE]
  BY DEF StoreInit
<1> HIDE DEF Idle, NoRow
<1>4. StoreTypeOK
  BY <1>1, <1>2, <1>3 DEF StoreTypeOK
<1>5. TablesInv
  <2>1. ASSUME NEW d \in Digests
        PROVE  {x \in UNION {{k} \X DOMAIN rows[k].layers : k \in Keys} :
                   rows[x[1]].layers[x[2]] = d} = {}
    BY <1>2, <1>3
  <2>2. layerRefs = syncLayerRefCounts(rows)
    BY <1>3, <2>1, FS_EmptySet DEF syncLayerRefCounts
  <2> QED
    BY <1>3, <2>2 DEF TablesInv
<1>6. AloneMeansComplete
  BY <1>1, <1>3 DEF AloneMeansComplete
<1>7. \A p \in Procs : CommandInv(p) /\ PruneInv(p) /\ ~quiet[p]
  BY <1>1, <1>3 DEF CommandInv, PruneInv, Ingesting, Saving, Pruning
<1> QED
  BY <1>4, <1>5, <1>6, <1>7 DEF StoreInv

LEMMA StoreStep ==
  ASSUME StoreInv, [StoreNext]_storeVars
  PROVE  StoreInv'
<1>1. CASE UNCHANGED storeVars
  <2>1. /\ StoreTypeOK' = StoreTypeOK /\ TablesInv' = TablesInv
    BY <1>1 DEF storeVars, StoreTypeOK, TablesInv, syncLayerRefCounts,
                References, LayersOf, RootsOf
  <2>2. AloneMeansComplete' = AloneMeansComplete
    BY <1>1 DEF storeVars, AloneMeansComplete, Delivered, RowsAreWhole, FromOneImage,
                Referenced, LayersOf, RootsOf
  <2>3. ASSUME NEW p \in Procs
        PROVE  /\ CommandInv(p)' = CommandInv(p) /\ PruneInv(p)' = PruneInv(p)
               /\ AloneInv(p)' = AloneInv(p) /\ quiet'[p] = quiet[p]
    BY <1>1 DEF storeVars, CommandInv, Chosen, PruneInv, AloneInv, RowsAreWhole,
                FromOneImage, Referenced, LayersOf, RootsOf
  <2> QED
    BY <2>1, <2>2, <2>3 DEF StoreInv
<1>2. ASSUME NEW p \in Procs, Return(p)
      PROVE  StoreInv'
  BY <1>2, IdleStep, AboutP DEF Return, Tables, Files
<1>3. ASSUME NEW p \in Procs, Killed(p)
      PROVE  StoreInv'
  <2>1. tmps' \subseteq (Procs \cup {None}) \X Digests
    <3>1. tmps \subseteq (Procs \cup {None}) \X Digests
      BY AboutP
    <3>2. tmps' = {IF t[1] = p THEN <<None, t[2]>> ELSE t : t \in tmps}
      BY <1>3 DEF Killed
    <3> QED
      BY <3>1, <3>2
  <2> QED
    BY <1>3, <2>1, IdleStep DEF Killed, Tables
<1> QED
  BY <1>1, <1>2, <1>3, StartCommandStep, GetMetaStep, GetLayersStep, FetchImageStep,
     EnsureLayerBlobStep, CreateEROFSStep, StatBlobStep, CheckLayersStep, UpsertStep,
     DeleteStep, QueryRefsStep, QueryRootfsStep, ReadBlobsDirStep, RemoveBlobStep
  DEF StoreNext

LEMMA StoreInvariant == StoreSpec => []StoreInv
<1>1. StoreInit => StoreInv
  BY StoreInitially
<1>2. StoreInv /\ [StoreNext]_storeVars => StoreInv'
  BY StoreStep
<1> QED
  BY <1>1, <1>2, PTL DEF StoreSpec

(* A command that succeeded while no other process changed the cache has     *)
(* delivered (store.go:362-400, builder.go:90-137, store.go:800-884): what a *)
(* pull or an import returned is on disk and of one image unless the rows    *)
(* already mixed two, and a gc or rm has left referenced blobs only, however *)
(* many processes raced, failed or were killed before.                       *)
THEOREM AloneIsComplete == StoreSpec => []AloneMeansComplete
<1>1. StoreInv => AloneMeansComplete
  BY DEF StoreInv
<1> QED
  BY <1>1, StoreInvariant, PTL

(* A prune (store.go:800-884) never removes a blob that has been a layer, or *)
(* has been a rootfs, of some image ever since it began.                     *)
THEOREM PrunesKeepReferenced == StoreSpec => PruneKeepsReferenced
<1> DEFINE Kept == \A p \in Procs, d \in Digests :
                     (proc[p].pc = "unlink" /\ proc'[p] # proc[p] /\ d \in blobs \ blobs')
                        => {<<"layer", d>>, <<"rootfs", d>>} \cap held[p] = {}
<1>1. StoreInv /\ [StoreNext]_storeVars => [Kept]_storeVars
  <2> SUFFICES ASSUME StoreInv, StoreNext, NEW p \in Procs, NEW d \in Digests,
                      proc[p].pc = "unlink", proc'[p] # proc[p], d \in blobs, d \notin blobs'
               PROVE  {<<"layer", d>>, <<"rootfs", d>>} \cap held[p] = {}
    OBVIOUS
  <2>0. proc \in [Procs -> Commands] /\ PruneInv(p)
    BY DEF StoreInv, StoreTypeOK
  <2>1. ASSUME NEW q \in Procs, RemoveBlob(q)
        PROVE  q = p /\ <<"blob", d>> \in proc[p].entries
    <3>1. ASSUME NEW rec, NEW changed, Step(q, rec, changed) PROVE q = p
      BY <2>0, <3>1 DEF Step
    <3> QED
      BY <2>1, <3>1 DEF RemoveBlob, Files
  <2>2. ASSUME NEW q \in Procs, ~RemoveBlob(q),
               \/ StartCommand(q) \/ GetMeta(q) \/ GetLayers(q)
               \/ FetchImage(q) \/ ensureLayerBlob(q) \/ createEROFSFromTar(q) \/ StatBlob(q)
               \/ CheckLayers(q) \/ upsertImageMetaWithLayers(q) \/ deleteImageWithLayers(q)
               \/ QueryRefs(q) \/ QueryRootfs(q) \/ ReadBlobsDir(q)
               \/ Return(q) \/ Killed(q)
        PROVE  d \in blobs'
    BY <2>2 DEF StartCommand, GetMeta, GetLayers, FetchImage, ensureLayerBlob,
                createEROFSFromTar, StatBlob, CheckLayers, upsertImageMetaWithLayers,
                deleteImageWithLayers, QueryRefs, QueryRootfs, ReadBlobsDir, Return, Killed,
                Tables, Files
  <2> QED
    BY <2>0, <2>1, <2>2 DEF StoreNext, PruneInv
<1> QED
  BY <1>1, StoreInvariant, PTL DEF StoreSpec, PruneKeepsReferenced

=============================================================================

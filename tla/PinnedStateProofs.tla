------------------------- MODULE PinnedStateProofs --------------------------
(* The reference counts of PinnedState are right, for any number of readers,  *)
(* memtables, versions and files: what is held lives, what nobody holds is    *)
(* deleted, and no reference is dropped twice.                                *)
EXTENDS PinnedState, SequenceTheorems, FiniteSetTheorems, TLAPS

(* What follows needs of the constants.                                        *)
ConstantsOK == /\ IsFiniteSet(Readers)
               /\ MaxMems \in Nat \ {0} /\ MaxVersions \in Nat \ {0} /\ MaxMetas \in Nat

Heap == [mrefs : [Mems -> Int], vrefs : [Versions -> Int], frefs : [Metas -> Int],
         files : [Versions -> SUBSET Metas],
         created : [mems : 0..MaxMems, versions : 0..MaxVersions, metas : 0..MaxMetas],
         dead : [mems : SUBSET Mems, versions : SUBSET Versions, metas : SUBSET Metas]]

One(a, x) == IF a = x THEN 1 ELSE 0

(* The versions that count a reference to file f.                              *)
Users(h, f) == {v \in (1..h.created.versions) \ h.dead.versions : f \in h.files[v]}

(* The memtables have mc references and the versions vc; what has none is dead *)
(* except for the version fresh, which is not yet installed; and a file counts *)
(* the versions it is part of.                                                 *)
MemsCounted(h, mc) ==
    \A m \in Mems : /\ mc[m] \in Nat /\ h.mrefs[m] = mc[m]
                    /\ m \in h.dead.mems <=> m <= h.created.mems /\ mc[m] = 0
                    /\ m > h.created.mems => mc[m] = 0

VersionsCounted(h, vc, fresh) ==
    /\ fresh \in 0..h.created.versions
    /\ fresh # None => vc[fresh] = 0
    /\ \A v \in Versions :
         /\ vc[v] \in Nat /\ h.vrefs[v] = vc[v]
         /\ v \in h.dead.versions <=> v <= h.created.versions /\ vc[v] = 0 /\ v # fresh
         /\ v > h.created.versions => vc[v] = 0

FilesCounted(h) ==
    /\ \A f \in Metas :
         /\ h.frefs[f] = Cardinality(Users(h, f))
         /\ f \in h.dead.metas <=> f <= h.created.metas /\ h.frefs[f] = 0
    /\ \A v \in Versions : h.files[v] \subseteq 1..h.created.metas

Balanced(h, mc, vc, fresh) ==
    h \in Heap /\ MemsCounted(h, mc) /\ VersionsCounted(h, vc, fresh) /\ FilesCounted(h)

(* MemTable::Ref of a memtable that somebody holds.                            *)
LEMMA RefMemKeeps ==
    ASSUME ConstantsOK, NEW h, NEW mc, NEW vc, NEW fresh, Balanced(h, mc, vc, fresh),
           NEW m \in Mems \union {None}, m # None => mc[m] > 0,
           NEW nc, \A x \in Mems : nc[x] = mc[x] + One(m, x)
    PROVE  Balanced(RefMem(h, m), nc, vc, fresh)
<1> DEFINE g == RefMem(h, m)
<1>1. CASE m = None
  <2>1. g = h /\ \A x \in Mems : mc[x] \in Nat /\ nc[x] = mc[x]
    BY <1>1 DEF RefMem, Balanced, MemsCounted, One, None, Mems
  <2> QED
    BY <2>1 DEF Balanced, MemsCounted
<1>2. CASE m # None
  <2>1. m \in Mems /\ mc[m] \in Nat /\ mc[m] > 0
    BY <1>2 DEF Balanced, MemsCounted
  <2>2. /\ g \in Heap /\ g.vrefs = h.vrefs /\ g.frefs = h.frefs /\ g.files = h.files
        /\ g.created = h.created /\ g.dead = h.dead
        /\ \A x \in Mems : g.mrefs[x] = h.mrefs[x] + One(m, x)
    BY <1>2, <2>1 DEF RefMem, Balanced, Heap, One
  <2>3. MemsCounted(g, nc)
    BY <2>1, <2>2 DEF Balanced, MemsCounted, One
  <2>4. VersionsCounted(g, vc, fresh)
    BY <2>2 DEF Balanced, VersionsCounted
  <2>5. FilesCounted(g)
    BY <2>2 DEF Balanced, FilesCounted, Users
  <2> QED
    BY <2>2, <2>3, <2>4, <2>5 DEF Balanced
<1> QED
  BY <1>1, <1>2

(* MemTable::Unref: the last reference deletes it.                             *)
LEMMA UnrefMemKeeps ==
    ASSUME ConstantsOK, NEW h, NEW mc, NEW vc, NEW fresh, Balanced(h, mc, vc, fresh),
           NEW m \in Mems \union {None}, m # None => mc[m] > 0,
           NEW nc, \A x \in Mems : nc[x] = mc[x] - One(m, x)
    PROVE  Balanced(UnrefMem(h, m), nc, vc, fresh)
<1> DEFINE g == UnrefMem(h, m)
<1>1. CASE m = None
  <2>1. g = h /\ \A x \in Mems : mc[x] \in Nat /\ nc[x] = mc[x]
    BY <1>1 DEF UnrefMem, Balanced, MemsCounted, One, None, Mems
  <2> QED
    BY <2>1 DEF Balanced, MemsCounted
<1>2. CASE m # None
  <2>1. m \in Mems /\ mc[m] \in Nat /\ mc[m] > 0 /\ h.mrefs[m] = mc[m]
    BY <1>2 DEF Balanced, MemsCounted
  <2>2. /\ g \in Heap /\ g.vrefs = h.vrefs /\ g.frefs = h.frefs /\ g.files = h.files
        /\ g.created = h.created
        /\ g.dead.versions = h.dead.versions /\ g.dead.metas = h.dead.metas
        /\ g.dead.mems = IF mc[m] <= 1 THEN h.dead.mems \union {m} ELSE h.dead.mems
        /\ \A x \in Mems : g.mrefs[x] = h.mrefs[x] - One(m, x)
    <3> DEFINE refs == [h.mrefs EXCEPT ![m] = h.mrefs[m] - 1]
               gone == [h.dead EXCEPT !.mems = IF mc[m] <= 1 THEN h.dead.mems \union {m}
                                               ELSE h.dead.mems]
    <3>1. g = [h EXCEPT !.mrefs = refs, !.dead = gone]
      BY <1>2, <2>1 DEF UnrefMem, Balanced, Heap
    <3>2. /\ h.mrefs \in [Mems -> Int] /\ h.dead.mems \subseteq Mems
          /\ h.dead \in [mems : SUBSET Mems, versions : SUBSET Versions, metas : SUBSET Metas]
      BY DEF Balanced, Heap
    <3>3. refs \in [Mems -> Int] /\ \A x \in Mems : refs[x] = h.mrefs[x] - One(m, x)
      BY <2>1, <3>2 DEF One
    <3>4. /\ gone \in [mems : SUBSET Mems, versions : SUBSET Versions, metas : SUBSET Metas]
          /\ gone.mems = IF mc[m] <= 1 THEN h.dead.mems \union {m} ELSE h.dead.mems
          /\ gone.versions = h.dead.versions /\ gone.metas = h.dead.metas
      BY <2>1, <3>2
    <3> HIDE DEF refs, gone, g
    <3> QED
      BY <3>1, <3>3, <3>4 DEF Balanced, Heap
  <2>3. MemsCounted(g, nc)
    BY <2>1, <2>2 DEF Balanced, MemsCounted, One, Heap, Mems
  <2>4. VersionsCounted(g, vc, fresh)
    BY <2>2 DEF Balanced, VersionsCounted
  <2>5. FilesCounted(g)
    BY <2>2 DEF Balanced, FilesCounted, Users
  <2> QED
    BY <2>2, <2>3, <2>4, <2>5 DEF Balanced
<1> QED
  BY <1>1, <1>2

(* Version::Ref of a version that somebody holds, or of the new one when it is *)
(* installed.                                                                  *)
LEMMA RefVersionKeeps ==
    ASSUME ConstantsOK, NEW h, NEW mc, NEW vc, NEW fresh, Balanced(h, mc, vc, fresh),
           NEW v \in Versions, NEW left \in {fresh, None},
           \/ vc[v] > 0 /\ left = fresh
           \/ v = fresh /\ left = None,
           NEW nc, \A x \in Versions : nc[x] = vc[x] + One(v, x)
    PROVE  Balanced(RefVersion(h, v), mc, nc, left)
<1> DEFINE g == RefVersion(h, v)
<1>2. /\ g \in Heap /\ g.mrefs = h.mrefs /\ g.frefs = h.frefs /\ g.files = h.files
      /\ g.created = h.created /\ g.dead = h.dead
      /\ \A x \in Versions : g.vrefs[x] = h.vrefs[x] + One(v, x)
  BY DEF RefVersion, Balanced, Heap, One
<1>3. MemsCounted(g, mc)
  BY <1>2 DEF Balanced, MemsCounted
<1>4. VersionsCounted(g, nc, left)
  <2>1. /\ fresh \in 0..h.created.versions /\ h.created.versions \in Nat
        /\ left \in 0..h.created.versions
    BY DEF Balanced, VersionsCounted, Heap, None
  <2>2. left # None => nc[left] = 0
    <3>1. CASE left # None
      <4>1. left = fresh /\ vc[v] > 0 /\ vc[fresh] = 0
        BY <3>1 DEF Balanced, VersionsCounted
      <4>2. fresh \in Versions
        BY <2>1, <3>1, <4>1 DEF Versions, Balanced, Heap, ConstantsOK, None
      <4> QED
        BY <4>1, <4>2 DEF One
    <3> QED
      BY <3>1
  <2>3. ASSUME NEW x \in Versions
        PROVE  /\ nc[x] \in Nat /\ g.vrefs[x] = nc[x]
               /\ x \in g.dead.versions <=> x <= g.created.versions /\ nc[x] = 0 /\ x # left
               /\ x > g.created.versions => nc[x] = 0
    <3>1. /\ vc[x] \in Nat /\ h.vrefs[x] = vc[x]
          /\ x \in h.dead.versions <=> x <= h.created.versions /\ vc[x] = 0 /\ x # fresh
          /\ x > h.created.versions => vc[x] = 0
          /\ fresh # None => vc[fresh] = 0
      BY DEF Balanced, VersionsCounted
    <3>2. nc[x] = vc[x] + One(v, x) /\ x # None /\ x \in Nat
      BY DEF Versions, None
    <3> QED
      BY <1>2, <2>1, <3>1, <3>2 DEF One
  <2> QED
    BY <1>2, <2>1, <2>2, <2>3 DEF VersionsCounted
<1>5. FilesCounted(g)
  BY <1>2 DEF Balanced, FilesCounted, Users
<1> QED
  BY <1>2, <1>3, <1>4, <1>5 DEF Balanced

(* MakeRoomForWrite makes a memtable and takes the first reference to it.      *)
LEMMA SwitchKeeps ==
    ASSUME ConstantsOK, NEW h, NEW mc, NEW vc, NEW fresh, Balanced(h, mc, vc, fresh),
           h.created.mems < MaxMems, NEW m, m = Fresh(h.created.mems),
           NEW nc, \A x \in Mems : nc[x] = mc[x] + One(m, x)
    PROVE  Balanced(RefMem([h EXCEPT !.created.mems = m], m), nc, vc, fresh)
<1> DEFINE made == [h.created EXCEPT !.mems = m]
           refs == [h.mrefs EXCEPT ![m] = h.mrefs[m] + 1]
           g == RefMem([h EXCEPT !.created.mems = m], m)
<1>1. /\ h.created \in [mems : 0..MaxMems, versions : 0..MaxVersions, metas : 0..MaxMetas]
      /\ h.mrefs \in [Mems -> Int]
      /\ m \in Mems /\ m # None /\ m = h.created.mems + 1
  BY DEF Balanced, Heap, ConstantsOK, Fresh, Mems, None
<1>2. /\ made \in [mems : 0..MaxMems, versions : 0..MaxVersions, metas : 0..MaxMetas]
      /\ made.mems = m /\ made.versions = h.created.versions /\ made.metas = h.created.metas
  BY <1>1 DEF Mems
<1>3. refs \in [Mems -> Int] /\ \A x \in Mems : refs[x] = h.mrefs[x] + One(m, x)
  BY <1>1 DEF One
<1>4. g = [h EXCEPT !.created = made, !.mrefs = refs]
  BY <1>1 DEF RefMem, Balanced, Heap
<1> HIDE DEF made, refs, g
<1>5. /\ g \in Heap /\ g.vrefs = h.vrefs /\ g.frefs = h.frefs /\ g.files = h.files
      /\ g.dead = h.dead /\ g.created = made /\ g.mrefs = refs
  BY <1>2, <1>3, <1>4 DEF Balanced, Heap
<1>6. MemsCounted(g, nc)
  <2>1. ASSUME NEW x \in Mems
        PROVE  /\ nc[x] \in Nat /\ g.mrefs[x] = nc[x]
               /\ x \in g.dead.mems <=> x <= g.created.mems /\ nc[x] = 0
               /\ x > g.created.mems => nc[x] = 0
    <3>1. /\ mc[x] \in Nat /\ h.mrefs[x] = mc[x]
          /\ x \in h.dead.mems <=> x <= h.created.mems /\ mc[x] = 0
          /\ x > h.created.mems => mc[x] = 0
      BY DEF Balanced, MemsCounted
    <3>2. /\ nc[x] = mc[x] + One(m, x) /\ g.mrefs[x] = h.mrefs[x] + One(m, x)
          /\ g.dead = h.dead /\ g.created.mems = m /\ x \in Nat /\ h.created.mems \in Nat
      BY <1>1, <1>2, <1>3, <1>5 DEF Mems
    <3> QED
      BY <1>1, <3>1, <3>2 DEF One
  <2> QED
    BY <2>1 DEF MemsCounted
<1>7. VersionsCounted(g, vc, fresh)
  BY <1>2, <1>5 DEF Balanced, VersionsCounted
<1>8. FilesCounted(g)
  BY <1>2, <1>5 DEF Balanced, FilesCounted, Users
<1> QED
  BY <1>5, <1>6, <1>7, <1>8 DEF Balanced, g

(* The versions that count a file are finitely many.                           *)
LEMMA UsersFinite ==
    ASSUME ConstantsOK, NEW h \in Heap, NEW f
    PROVE  IsFiniteSet(Users(h, f)) /\ Cardinality(Users(h, f)) \in Nat
<1>1. h.created.versions \in Int
  BY DEF Heap, ConstantsOK
<1>2. IsFiniteSet(1..h.created.versions)
  BY <1>1, FS_Interval
<1> QED
  BY <1>2, FS_Subset, FS_CardinalityType DEF Users

(* ~Version takes one reference from each file of the version.                 *)
LEMMA DeleteKeepsFiles ==
    ASSUME ConstantsOK, NEW h \in Heap, NEW mc, MemsCounted(h, mc), FilesCounted(h),
           NEW v \in Versions, v <= h.created.versions, v \notin h.dead.versions
    PROVE  LET g == DeleteVersion(h, v)
           IN  /\ g \in Heap /\ MemsCounted(g, mc) /\ FilesCounted(g)
               /\ g.vrefs = h.vrefs /\ g.created = h.created /\ g.files = h.files
               /\ g.dead.versions = h.dead.versions \union {v}
<1> DEFINE fs   == h.files[v]
           refs == [f \in Metas |-> IF f \in fs THEN h.frefs[f] - 1 ELSE h.frefs[f]]
           gone == [h.dead EXCEPT !.versions = h.dead.versions \union {v},
                                  !.metas = h.dead.metas \union {f \in fs : h.frefs[f] <= 1}]
           g    == DeleteVersion(h, v)
<1>1. /\ h.frefs \in [Metas -> Int] /\ fs \subseteq Metas
      /\ h.dead \in [mems : SUBSET Mems, versions : SUBSET Versions, metas : SUBSET Metas]
  BY DEF Heap
<1>2. refs \in [Metas -> Int]
  BY <1>1
<1>3. /\ gone \in [mems : SUBSET Mems, versions : SUBSET Versions, metas : SUBSET Metas]
      /\ gone.mems = h.dead.mems /\ gone.versions = h.dead.versions \union {v}
      /\ gone.metas = h.dead.metas \union {f \in fs : h.frefs[f] <= 1}
  BY <1>1
<1>4. g = [h EXCEPT !.frefs = refs, !.dead = gone]
  BY DEF DeleteVersion, DropFiles, Heap
<1>5. /\ g \in Heap /\ g.vrefs = h.vrefs /\ g.mrefs = h.mrefs /\ g.files = h.files
      /\ g.created = h.created /\ g.dead = gone /\ g.frefs = refs
  <2> HIDE DEF refs, gone, g
  <2> QED
    BY <1>2, <1>3, <1>4 DEF Heap
<1>6. MemsCounted(g, mc)
  BY <1>3, <1>5 DEF MemsCounted
<1>7. ASSUME NEW f \in Metas
      PROVE  /\ g.frefs[f] = Cardinality(Users(g, f))
             /\ f \in g.dead.metas <=> f <= g.created.metas /\ g.frefs[f] = 0
  <2>1. /\ h.frefs[f] = Cardinality(Users(h, f))
        /\ f \in h.dead.metas <=> f <= h.created.metas /\ h.frefs[f] = 0
        /\ f \in fs => f <= h.created.metas
    BY DEF FilesCounted
  <2>2. Users(g, f) = Users(h, f) \ {v}
    BY <1>3, <1>5 DEF Users
  <2>3. v \in Users(h, f) <=> f \in fs
    BY DEF Users, Versions, Heap, ConstantsOK
  <2>4. /\ Cardinality(Users(h, f)) \in Nat
        /\ Cardinality(Users(g, f)) = IF f \in fs THEN Cardinality(Users(h, f)) - 1
                                      ELSE Cardinality(Users(h, f))
    BY <2>2, <2>3, UsersFinite, FS_RemoveElement
  <2>5. f \in fs => Cardinality(Users(h, f)) # 0
    BY <2>3, UsersFinite, FS_EmptySet
  <2>6. g.frefs[f] = IF f \in fs THEN h.frefs[f] - 1 ELSE h.frefs[f]
    BY <1>5
  <2>7. f \in g.dead.metas <=> f \in h.dead.metas \/ (f \in fs /\ h.frefs[f] <= 1)
    BY <1>3, <1>5
  <2> HIDE DEF g, fs
  <2> QED
    BY <2>1, <2>4, <2>5, <2>6, <2>7, <1>5
<1>8. FilesCounted(g)
  BY <1>5, <1>7 DEF FilesCounted
<1> QED
  BY <1>3, <1>5, <1>6, <1>8

(* A version that was never installed is deleted.                              *)
LEMMA DeleteKeeps ==
    ASSUME ConstantsOK, NEW h, NEW mc, NEW vc, NEW fresh, Balanced(h, mc, vc, fresh),
           fresh # None
    PROVE  Balanced(DeleteVersion(h, fresh), mc, vc, None)
<1> DEFINE g == DeleteVersion(h, fresh)
<1>1. /\ fresh \in Versions /\ fresh <= h.created.versions /\ fresh \notin h.dead.versions
      /\ vc[fresh] = 0
  <2>1. fresh \in 0..h.created.versions /\ h.created.versions \in 0..MaxVersions
    BY DEF Balanced, VersionsCounted, Heap
  <2>2. fresh \in Versions /\ fresh <= h.created.versions
    BY <2>1 DEF Versions, None, ConstantsOK
  <2> QED
    BY <2>2 DEF Balanced, VersionsCounted
<1>2. /\ g \in Heap /\ MemsCounted(g, mc) /\ FilesCounted(g)
      /\ g.vrefs = h.vrefs /\ g.created = h.created
      /\ g.dead.versions = h.dead.versions \union {fresh}
  BY <1>1, DeleteKeepsFiles DEF Balanced
<1>3. VersionsCounted(g, vc, None)
  <2>1. None \in 0..g.created.versions
    BY <1>2 DEF Heap, ConstantsOK, None
  <2>2. ASSUME NEW x \in Versions
        PROVE  /\ vc[x] \in Nat /\ g.vrefs[x] = vc[x]
               /\ x \in g.dead.versions <=> x <= g.created.versions /\ vc[x] = 0 /\ x # None
               /\ x > g.created.versions => vc[x] = 0
    <3>1. /\ vc[x] \in Nat /\ h.vrefs[x] = vc[x]
          /\ x \in h.dead.versions <=> x <= h.created.versions /\ vc[x] = 0 /\ x # fresh
          /\ x > h.created.versions => vc[x] = 0
      BY DEF Balanced, VersionsCounted
    <3>2. x # None
      BY DEF Versions, None
    <3> QED
      BY <1>1, <1>2, <3>1, <3>2
  <2> QED
    BY <2>1, <2>2 DEF VersionsCounted
<1> QED
  BY <1>2, <1>3 DEF Balanced

(* Version::Unref: the last reference deletes it.                              *)
LEMMA UnrefVersionKeeps ==
    ASSUME ConstantsOK, NEW h, NEW mc, NEW vc, NEW fresh, Balanced(h, mc, vc, fresh),
           NEW v \in Versions, vc[v] > 0,
           NEW nc, \A x \in Versions : nc[x] = vc[x] - One(v, x)
    PROVE  /\ Balanced(UnrefVersion(h, v), mc, nc, fresh)
           /\ UnrefVersion(h, v).files = h.files
           /\ UnrefVersion(h, v).created = h.created
<1> DEFINE refs == [h.vrefs EXCEPT ![v] = h.vrefs[v] - 1]
           k == [h EXCEPT !.vrefs[v] = @ - 1]
           g == UnrefVersion(h, v)
<1>1. /\ vc[v] \in Nat /\ h.vrefs[v] = vc[v] /\ v <= h.created.versions
      /\ v \notin h.dead.versions /\ v # fresh
  <2>1. /\ vc[v] \in Nat /\ h.vrefs[v] = vc[v]
        /\ v > h.created.versions => vc[v] = 0
        /\ v \in h.dead.versions => vc[v] = 0
        /\ fresh # None => vc[fresh] = 0
    BY DEF Balanced, VersionsCounted
  <2>2. v # None /\ v \in Nat /\ h.created.versions \in Nat
    BY DEF Versions, None, Balanced, Heap
  <2> QED
    BY <2>1, <2>2
<1>2. /\ h.vrefs \in [Versions -> Int] /\ refs \in [Versions -> Int]
      /\ \A x \in Versions : refs[x] = h.vrefs[x] - One(v, x)
  BY DEF Balanced, Heap, One
<1>3. /\ k \in Heap /\ k.mrefs = h.mrefs /\ k.frefs = h.frefs /\ k.files = h.files
      /\ k.created = h.created /\ k.dead = h.dead /\ k.vrefs = refs
  <2>1. k = [h EXCEPT !.vrefs = refs]
    BY DEF Balanced, Heap
  <2> HIDE DEF k, refs
  <2> QED
    BY <1>2, <2>1 DEF Balanced, Heap
<1>4. MemsCounted(k, mc) /\ FilesCounted(k)
  BY <1>3 DEF Balanced, MemsCounted, FilesCounted, Users
<1>5. g = IF vc[v] = 1 THEN DeleteVersion(k, v) ELSE k
  BY <1>1, <1>2, <1>3 DEF UnrefVersion, One
<1>6. /\ g \in Heap /\ MemsCounted(g, mc) /\ FilesCounted(g)
      /\ g.vrefs = refs /\ g.created = h.created /\ g.files = h.files
      /\ g.dead.versions = IF vc[v] = 1 THEN h.dead.versions \union {v} ELSE h.dead.versions
  <2> HIDE DEF k, g
  <2>1. CASE vc[v] = 1
    BY <1>1, <1>3, <1>4, <1>5, <2>1, DeleteKeepsFiles
  <2>2. CASE vc[v] # 1
    BY <1>3, <1>4, <1>5, <2>2
  <2> QED
    BY <2>1, <2>2
<1>7. VersionsCounted(g, nc, fresh)
  <2> HIDE DEF g
  <2>1. fresh \in 0..g.created.versions
    BY <1>6 DEF Balanced, VersionsCounted
  <2>2. fresh # None => nc[fresh] = 0
    <3>1. SUFFICES ASSUME fresh # None PROVE nc[fresh] = 0
      OBVIOUS
    <3>2. fresh \in Versions
      BY <2>1, <1>6, <3>1 DEF Versions, Balanced, Heap, ConstantsOK, None
    <3>3. vc[fresh] = 0
      BY <3>1 DEF Balanced, VersionsCounted
    <3> QED
      BY <1>1, <3>2, <3>3 DEF One
  <2>3. ASSUME NEW x \in Versions
        PROVE  /\ nc[x] \in Nat /\ g.vrefs[x] = nc[x]
               /\ x \in g.dead.versions <=> x <= g.created.versions /\ nc[x] = 0 /\ x # fresh
               /\ x > g.created.versions => nc[x] = 0
    <3>1. /\ vc[x] \in Nat /\ h.vrefs[x] = vc[x]
          /\ x \in h.dead.versions <=> x <= h.created.versions /\ vc[x] = 0 /\ x # fresh
          /\ x > h.created.versions => vc[x] = 0
      BY DEF Balanced, VersionsCounted
    <3>2. nc[x] = vc[x] - One(v, x) /\ g.vrefs[x] = h.vrefs[x] - One(v, x)
      BY <1>2, <1>6
    <3>3. CASE x = v
      BY <1>1, <1>6, <3>1, <3>2, <3>3 DEF One
    <3>4. CASE x # v
      BY <1>1, <1>6, <3>1, <3>2, <3>4 DEF One
    <3> QED
      BY <3>3, <3>4
  <2> QED
    BY <2>1, <2>2, <2>3 DEF VersionsCounted
<1> QED
  BY <1>6, <1>7 DEF Balanced

(* LogAndApply builds a version beside the current one: it has a reference to  *)
(* each of its files and nobody has one to it yet.                             *)
LEMMA BuildKeeps ==
    ASSUME ConstantsOK, NEW h, NEW mc, NEW vc, Balanced(h, mc, vc, None),
           current \in Versions, vc[current] > 0,
           h.created.versions < MaxVersions, NEW v, v = Fresh(h.created.versions),
           NEW deleted, deleted \subseteq 1..h.created.metas,
           NEW added \in {{}, {Fresh(h.created.metas)}}, added \subseteq Metas
    PROVE  LET g == BuildVersion(h, v, deleted, added)
           IN  /\ Balanced(g, mc, vc, v)
               /\ \A x \in Versions : x # v => g.files[x] = h.files[x]
               /\ g.created.versions = v /\ g.created.mems = h.created.mems
<1> DEFINE fs == (h.files[current] \union added) \ deleted
           one == [f \in Metas |-> IF f \in added THEN 1 ELSE h.frefs[f]]
           two == [f \in Metas |-> IF f \in fs THEN one[f] + 1 ELSE one[f]]
           three == [f \in Metas |-> IF f \in added THEN two[f] - 1 ELSE two[f]]
           ref == [h.vrefs EXCEPT ![current] = h.vrefs[current] + 1]
           made == [h.created EXCEPT !.metas = h.created.metas + Cardinality(added),
                                     !.versions = v]
           lists == [h.files EXCEPT ![v] = fs]
           h1 == RefVersion(h, current)
           h2 == Apply(h1, added)
           h3 == SaveTo(h2, v, current, deleted, added)
           h4 == DropFiles(h3, added)
           g == UnrefVersion(h4, current)
<1>1. /\ h.created.metas \in 0..MaxMetas /\ h.created.versions \in 0..MaxVersions
      /\ h.created.mems \in 0..MaxMems
      /\ h.created \in [mems : 0..MaxMems, versions : 0..MaxVersions, metas : 0..MaxMetas]
      /\ h.frefs \in [Metas -> Int] /\ h.vrefs \in [Versions -> Int]
      /\ h.files \in [Versions -> SUBSET Metas]
      /\ h.dead \in [mems : SUBSET Mems, versions : SUBSET Versions, metas : SUBSET Metas]
      /\ h \in Heap
  BY DEF Balanced, Heap
<1>2. /\ v \in Versions /\ v = h.created.versions + 1 /\ v # None /\ MaxMetas \in Nat
      /\ MaxVersions \in Nat
  BY <1>1 DEF ConstantsOK, Fresh, Versions, None
<1>3. /\ h.created.metas + Cardinality(added) \in 0..MaxMetas
      /\ Cardinality(added) \in Nat
      /\ \A f \in Metas : f <= h.created.metas + Cardinality(added)
                            <=> f <= h.created.metas \/ f \in added
      /\ \A f \in added : f > h.created.metas
  <2>1. CASE added = {}
    BY <1>1, <1>2, <2>1, FS_EmptySet
  <2>2. CASE added = {Fresh(h.created.metas)}
    <3>1. Cardinality(added) = 1 /\ h.created.metas + 1 \in Metas
          /\ \A f : f \in added <=> f = h.created.metas + 1
      BY <2>2, FS_Singleton DEF Fresh
    <3>2. h.created.metas + 1 \in 0..MaxMetas /\ h.created.metas \in Nat
      BY <1>1, <1>2, <3>1 DEF Metas
    <3>3. \A f \in Metas : f \in Nat
      BY <1>2 DEF Metas
    <3> QED
      BY <3>1, <3>2, <3>3
  <2> QED
    BY <2>1, <2>2
<1>4. fs \subseteq Metas
  BY <1>1
<1>5. /\ one \in [Metas -> Int] /\ two \in [Metas -> Int] /\ three \in [Metas -> Int]
      /\ ref \in [Versions -> Int] /\ lists \in [Versions -> SUBSET Metas]
      /\ made \in [mems : 0..MaxMems, versions : 0..MaxVersions, metas : 0..MaxMetas]
      /\ made.metas = h.created.metas + Cardinality(added) /\ made.versions = v
      /\ made.mems = h.created.mems
  <2>1. one \in [Metas -> Int]
    BY <1>1
  <2>2. two \in [Metas -> Int]
    BY <2>1
  <2>3. three \in [Metas -> Int]
    BY <2>2
  <2>4. ref \in [Versions -> Int] /\ lists \in [Versions -> SUBSET Metas]
    <3>1. h.files \in [Versions -> SUBSET Metas] /\ h.vrefs \in [Versions -> Int]
      BY <1>1
    <3>2. ref \in [Versions -> Int]
      BY <3>1
    <3> HIDE DEF fs
    <3>3. fs \in SUBSET Metas
      BY <1>4
    <3>4. lists \in [Versions -> SUBSET Metas]
      BY <3>1, <3>3, Zenon
    <3> QED
      BY <3>2, <3>4
  <2>5. v \in 0..MaxVersions
    BY <1>2 DEF Versions
  <2>6. /\ made \in [mems : 0..MaxMems, versions : 0..MaxVersions, metas : 0..MaxMetas]
        /\ made.metas = h.created.metas + Cardinality(added) /\ made.versions = v
        /\ made.mems = h.created.mems
    <3> DEFINE n == h.created.metas + Cardinality(added)
    <3>1. n \in 0..MaxMetas /\ v \in 0..MaxVersions
      BY <1>3, <2>5
    <3>2. made = [h.created EXCEPT !.metas = n, !.versions = v]
      OBVIOUS
    <3> HIDE DEF n, made
    <3>3. /\ made \in [mems : 0..MaxMems, versions : 0..MaxVersions, metas : 0..MaxMetas]
          /\ made.metas = n /\ made.versions = v /\ made.mems = h.created.mems
      BY <1>1, <3>1, <3>2
    <3> QED
      BY <3>3 DEF n
  <2> QED
    BY <1>2, <2>1, <2>2, <2>3, <2>4, <2>6
<1>6. /\ h1 = [h EXCEPT !.vrefs = ref]
      /\ h2 = [h1 EXCEPT !.frefs = one, !.created.metas = @ + Cardinality(added)]
  BY <1>1 DEF RefVersion, Apply, Heap
<1>7. /\ h3 = [h EXCEPT !.vrefs = ref, !.frefs = two, !.created = made, !.files = lists]
  <2>1. h1.frefs = h.frefs /\ h1.files = h.files /\ h1.created = h.created
    BY <1>1, <1>6 DEF Heap
  <2>2. h2 = [h EXCEPT !.vrefs = ref, !.frefs = one,
                       !.created = [h.created EXCEPT !.metas = h.created.metas + Cardinality(added)]]
    BY <1>1, <1>6, <2>1 DEF Heap
  <2>3. h2.frefs = one /\ h2.files = h.files
    <3> HIDE DEF h1, h2, one, ref
    <3> QED
      BY <1>1, <2>2 DEF Heap
  <2>4. h3 = [h2 EXCEPT !.files[v] = fs, !.frefs = two, !.created.versions = v]
    BY <2>3 DEF SaveTo
  <2> HIDE DEF h1, h2, h3, one, two, ref, fs
  <2> QED
    BY <1>1, <2>2, <2>3, <2>4 DEF Heap
<1>8. /\ h3 \in Heap /\ h3.vrefs = ref /\ h3.mrefs = h.mrefs /\ h3.frefs = two
      /\ h3.files = lists /\ h3.created = made /\ h3.dead = h.dead
  <2> HIDE DEF h3, two, ref, made, lists
  <2> QED
    BY <1>1, <1>5, <1>7 DEF Heap
<1>9. \A f \in added : two[f] = 2 /\ f \in fs
  <2>1. SUFFICES ASSUME NEW f \in added PROVE two[f] = 2 /\ f \in fs
    OBVIOUS
  <2>2. f \in Metas /\ f > h.created.metas /\ one[f] = 1
    BY <1>3
  <2>3. f \notin deleted
    <3>1. deleted \subseteq 1..h.created.metas /\ h.created.metas \in Int
      BY <1>1
    <3>2. SUFFICES ASSUME f \in deleted PROVE FALSE
      OBVIOUS
    <3>3. f \in 1..h.created.metas
      BY <3>1, <3>2
    <3>4. f \in Int /\ f <= h.created.metas
      BY <3>1, <3>3
    <3> QED
      BY <2>2, <3>1, <3>4
  <2>4. f \in fs
    BY <2>3
  <2> HIDE DEF fs, one
  <2> QED
    BY <2>2, <2>4
<1>10. h4 = [h3 EXCEPT !.frefs = three, !.dead.metas = h.dead.metas]
  <2>1. {f \in added : h3.frefs[f] <= 1} = {}
    BY <1>8, <1>9
  <2>2. h4 = [h3 EXCEPT !.frefs = three, !.dead.metas = @ \union {f \in added : h3.frefs[f] <= 1}]
    BY <1>8 DEF DropFiles
  <2> HIDE DEF h3, h4, three
  <2> QED
    BY <1>8, <2>1, <2>2
<1>11. /\ h4 \in Heap /\ h4.vrefs = ref /\ h4.mrefs = h.mrefs /\ h4.frefs = three
       /\ h4.files = lists /\ h4.created = made /\ h4.dead = h.dead
  <2> HIDE DEF h3, h4, three, ref, made, lists
  <2> QED
    BY <1>1, <1>5, <1>8, <1>10 DEF Heap
<1> HIDE DEF h1, h2, h3, h4, ref, made
<1>12. ASSUME NEW f \in Metas
       PROVE  /\ three[f] = Cardinality(Users(h4, f))
              /\ f \in h4.dead.metas <=> f <= h4.created.metas /\ h4.frefs[f] = 0
  <2>1. /\ h.frefs[f] = Cardinality(Users(h, f))
        /\ f \in h.dead.metas <=> f <= h.created.metas /\ h.frefs[f] = 0
        /\ \A x \in Versions : h.files[x] \subseteq 1..h.created.metas
    BY DEF Balanced, FilesCounted
  <2>2. Users(h4, f) = IF f \in fs THEN Users(h, f) \union {v} ELSE Users(h, f)
    <3>1. v \notin h.dead.versions
      BY <1>1, <1>2 DEF Balanced, VersionsCounted
    <3>2. 1..v = (1..h.created.versions) \union {v}
      BY <1>1, <1>2
    <3>3. \A x \in 1..h.created.versions : x \in Versions /\ x # v
      BY <1>1, <1>2 DEF Versions
    <3>4. \A x \in Versions : lists[x] = IF x = v THEN fs ELSE h.files[x]
      BY <1>1, <1>2
    <3>5. Users(h4, f) = {x \in (1..v) \ h.dead.versions : f \in lists[x]}
      BY <1>5, <1>11 DEF Users
    <3> HIDE DEF fs, lists
    <3> QED
      BY <1>2, <3>1, <3>2, <3>3, <3>4, <3>5 DEF Users
  <2>3. v \notin Users(h, f)
    BY <1>1, <1>2 DEF Users
  <2>4. /\ Cardinality(Users(h, f)) \in Nat
        /\ Cardinality(Users(h4, f)) = IF f \in fs THEN Cardinality(Users(h, f)) + 1
                                       ELSE Cardinality(Users(h, f))
    <3>1. IsFiniteSet(Users(h, f)) /\ Cardinality(Users(h, f)) \in Nat
      BY <1>1, UsersFinite
    <3>2. Cardinality(Users(h, f) \union {v}) = Cardinality(Users(h, f)) + 1
      BY <2>3, <3>1, FS_AddElement
    <3> HIDE DEF fs
    <3> QED
      BY <2>2, <3>1, <3>2
  <2>5. f \in added => h.frefs[f] = 0
    <3>1. SUFFICES ASSUME f \in added PROVE h.frefs[f] = 0
      OBVIOUS
    <3>2. Users(h, f) = {}
      <4>1. f > h.created.metas
        BY <1>3, <3>1
      <4>2. \A x \in 1..h.created.versions : x \in Versions
        BY <1>1, <1>2 DEF Versions
      <4> QED
        BY <1>1, <2>1, <4>1, <4>2 DEF Users
    <3> QED
      BY <2>1, <3>2, FS_EmptySet
  <2>6. three[f] = IF f \in fs THEN h.frefs[f] + 1 ELSE h.frefs[f]
    <3>1. h.frefs[f] \in Int
      BY <1>1
    <3>2. CASE f \in added
      BY <1>9, <2>5, <3>2
    <3>3. CASE f \notin added
      BY <3>1, <3>3
    <3> QED
      BY <3>2, <3>3
  <2>7. f \in fs => f <= h.created.metas + Cardinality(added)
    <3>1. h.files[current] \subseteq 1..h.created.metas
      BY <2>1
    <3> QED
      BY <1>1, <1>3, <3>1
  <2>8. f \in h.files[current] => h.frefs[f] # 0
    <3>1. current \in 1..h.created.versions /\ current \notin h.dead.versions
      BY <1>1, <1>2 DEF Balanced, VersionsCounted, Versions
    <3>2. f \in h.files[current] => current \in Users(h, f)
      BY <3>1 DEF Users
    <3> QED
      BY <1>1, <2>1, <3>2, UsersFinite, FS_EmptySet
  <2>9. f \in fs => f \in added \/ f \in h.files[current]
    OBVIOUS
  <2>10. /\ h4.dead.metas = h.dead.metas /\ h4.frefs[f] = three[f]
         /\ h4.created.metas = h.created.metas + Cardinality(added)
    BY <1>5, <1>11
  <2>11. (f <= h.created.metas + Cardinality(added) <=> f <= h.created.metas \/ f \in added)
    BY <1>3
  <2>12. three[f] = Cardinality(Users(h4, f))
    <3> HIDE DEF three, fs
    <3> QED
      BY <2>1, <2>4, <2>6
  <2>13. f \in added => f \in fs /\ f > h.created.metas
    BY <1>3, <1>9
  <2>14. f \in h4.dead.metas <=> f <= h4.created.metas /\ h4.frefs[f] = 0
    <3> HIDE DEF three, fs
    <3> QED
      <4>1. h.created.metas \in Nat /\ f \in Nat /\ h.frefs[f] \in Nat
        BY <1>1, <1>2, <2>1, <2>4 DEF Metas
      <4>2. CASE f \in added
        BY <2>1, <2>5, <2>6, <2>10, <2>13, <4>1, <4>2
      <4>3. CASE f \notin added /\ f \in fs
        BY <2>1, <2>6, <2>8, <2>9, <2>10, <4>1, <4>3
      <4>4. CASE f \notin added /\ f \notin fs
        BY <2>1, <2>6, <2>10, <2>11, <4>1, <4>4
      <4> QED
        BY <4>2, <4>3, <4>4
  <2> QED
    BY <2>12, <2>14
<1>13. ASSUME NEW x \in Versions PROVE h4.files[x] \subseteq 1..h4.created.metas
  <2>1. \A y \in Versions : h.files[y] \subseteq 1..h.created.metas
    BY DEF Balanced, FilesCounted
  <2>2. h4.files[x] = IF x = v THEN fs ELSE h.files[x]
    BY <1>1, <1>11
  <2>3. added \subseteq 1..h4.created.metas /\ 1..h.created.metas \subseteq 1..h4.created.metas
    <3>1. h4.created.metas = h.created.metas + Cardinality(added)
      BY <1>5, <1>11
    <3>2. \A f \in added : f \in Metas /\ f \in Nat /\ f > 0
      BY <1>2 DEF Metas
    <3>3. h.created.metas \in Nat /\ h.created.metas + Cardinality(added) \in Nat
      BY <1>1, <1>2, <1>3
    <3>4. added \subseteq 1..h4.created.metas
      BY <1>3, <3>1, <3>2, <3>3
    <3> QED
      BY <1>3, <3>1, <3>3, <3>4
  <2> HIDE DEF lists
  <2> QED
    BY <2>1, <2>2, <2>3
<1>14. FilesCounted(h4)
  <2>1. h4.frefs = three
    BY <1>11
  <2> HIDE DEF three
  <2> QED
    BY <1>12, <1>13, <2>1 DEF FilesCounted
<1>15. MemsCounted(h4, mc)
  BY <1>5, <1>11 DEF Balanced, MemsCounted
<1> DEFINE nc == [x \in Versions |-> vc[x] + One(current, x)]
<1>16. VersionsCounted(h4, nc, v)
  <2>1. v \in 0..h4.created.versions /\ h4.created.versions = v
    BY <1>1, <1>2, <1>5, <1>11
  <2>2. ASSUME NEW x \in Versions
        PROVE  /\ nc[x] \in Nat /\ h4.vrefs[x] = nc[x]
               /\ x \in h4.dead.versions <=> x <= h4.created.versions /\ nc[x] = 0 /\ x # v
               /\ x > h4.created.versions => nc[x] = 0
               /\ x = v => nc[x] = 0
    <3>1. /\ vc[x] \in Nat /\ h.vrefs[x] = vc[x]
          /\ x \in h.dead.versions <=> x <= h.created.versions /\ vc[x] = 0 /\ x # None
          /\ x > h.created.versions => vc[x] = 0
      BY DEF Balanced, VersionsCounted
    <3>2. h4.dead = h.dead /\ h4.vrefs[x] = h.vrefs[x] + One(current, x)
      BY <1>1, <1>11 DEF ref, One
    <3>3. x \in Nat /\ x # None /\ current <= h.created.versions
      BY <1>1 DEF Versions, None, Balanced, VersionsCounted
    <3> QED
      BY <1>1, <1>2, <2>1, <3>1, <3>2, <3>3 DEF One
  <2> HIDE DEF nc
  <2> QED
    BY <1>2, <2>1, <2>2 DEF VersionsCounted
<1>17. Balanced(h4, mc, nc, v)
  BY <1>11, <1>14, <1>15, <1>16 DEF Balanced
<1>18. /\ Balanced(g, mc, vc, v) /\ g.files = h4.files /\ g.created = h4.created
  <2>1. nc[current] > 0 /\ \A x \in Versions : vc[x] = nc[x] - One(current, x)
    BY DEF Balanced, VersionsCounted, One
  <2> HIDE DEF nc
  <2> QED
    BY <1>17, <2>1, UnrefVersionKeeps
<1>19. BuildVersion(h, v, deleted, added) = g
  BY DEF BuildVersion, DeleteBuilder, h1, h2, h3, h4
<1>20. \A x \in Versions : x # v => h4.files[x] = h.files[x]
  BY <1>1, <1>11
<1> QED
  BY <1>5, <1>11, <1>18, <1>19, <1>20

(* None of this changes the files of a version that is there.                  *)
LEMMA FilesStay ==
    ASSUME NEW h \in Heap
    PROVE  /\ \A m : RefMem(h, m).files = h.files /\ UnrefMem(h, m).files = h.files
           /\ \A v : RefVersion(h, v).files = h.files
           /\ \A v : DeleteVersion(h, v).files = h.files
           /\ \A v : UnrefVersion(h, v).files = h.files
  BY DEF Heap, RefMem, UnrefMem, RefVersion, UnrefVersion, DeleteVersion, DropFiles

-----------------------------------------------------------------------------
Kinds == {"none", "get", "sizes", "iterator", "deleting"}

Pins == [mem : Mems \union {None}, imm : Mems \union {None}, version : Versions \union {None}]

ReaderState == [kind : Kinds, pins : Pins, children : BOOLEAN, cleanups : Seq(Nat), ran : Seq(Nat),
                registered : SUBSET Nat]

BgState == [pc : {"idle", "table", "memlog", "work", "log", "release"},
            input : Versions \union {None}, inputs : SUBSET Metas, base : Versions \union {None},
            version : Versions \union {None}, moved : BOOLEAN]

TypeOK == /\ ConstantsOK
          /\ mem \in Mems \union {None} /\ imm \in Mems \union {None}
          /\ current \in Versions \union {None}
          /\ reader \in [Readers -> ReaderState]
          /\ bg \in BgState
          /\ error \in BOOLEAN /\ closed \in BOOLEAN

(* A closed database has nothing, an open one a memtable and a version.        *)
OpenInv == /\ ~closed => mem # None /\ current # None
           /\ closed => /\ mem = None /\ imm = None /\ current = None /\ bg.pc = "idle"
                        /\ \A r \in Readers : reader[r].kind = "none"

(* What the background thread has in hand, by where it is.                     *)
BgInv == /\ bg.pc = "idle" => bg.input = None
         /\ bg.pc \in {"work", "log", "release"} => bg.input # None
         /\ bg.pc = "table" <=> bg.base # None
         /\ bg.pc \in {"memlog", "log"} <=> bg.version # None
         /\ bg.pc \in {"table", "memlog"} => imm # None
         /\ bg.input = None => bg.inputs = {} /\ ~bg.moved

(* The inputs of a compaction are files of its version.                        *)
InputsInv == bg.input # None => bg.inputs \subseteq heap.files[bg.input]

Items(s) == {s[i] : i \in 1..Len(s)}

(* Who has no pins, and who has them; in an iterator the function that drops   *)
(* them is the first to run, and the only one of its number.                   *)
ReaderInv(t) ==
    /\ t.kind = "none" => t.pins = NoPins
    /\ t.kind \in {"get", "sizes"} => t.pins.version # None
    /\ t.kind = "sizes" => t.pins.mem = None /\ t.pins.imm = None
    /\ t.kind = "iterator" => t.ran = <<>>
    /\ t.kind \in {"iterator", "deleting"} =>
         /\ t.registered = 0..(Len(t.ran) + Len(t.cleanups) - 1)
         /\ Items(t.ran) \union Items(t.cleanups) = t.registered
         /\ t.ran = <<>> => /\ t.cleanups # <<>> /\ t.cleanups[1] = 0
                            /\ t.pins.version # None
         /\ t.ran # <<>> => t.ran[1] = 0 /\ t.pins = NoPins
         /\ \A i \in 1..Len(t.cleanups) : t.cleanups[i] = 0 => i = 1 /\ t.ran = <<>>

ReadersInv == \A r \in Readers : ReaderInv(reader[r])

(* The references to a memtable and to a version are those of the readers, of  *)
(* the database and of the background thread.                                  *)
Holders(pin, x) == {r \in Readers : pin[r] = x}

MemPin     == [r \in Readers |-> reader[r].pins.mem]
ImmPin     == [r \in Readers |-> reader[r].pins.imm]
VersionPin == [r \in Readers |-> reader[r].pins.version]

MemCount == [m \in Mems |-> Cardinality(Holders(MemPin, m)) + Cardinality(Holders(ImmPin, m))
                               + One(mem, m) + One(imm, m)]

VersionCount == [v \in Versions |-> Cardinality(Holders(VersionPin, v)) + One(current, v)
                                      + One(bg.input, v) + One(bg.base, v)]

CountInv == Balanced(heap, MemCount, VersionCount, bg.version)

ControlInv == TypeOK /\ OpenInv /\ BgInv /\ ReadersInv

PinInv == ControlInv /\ InputsInv /\ CountInv

-----------------------------------------------------------------------------
(* Nothing else is in the list that a function was added to.                   *)
LEMMA Registering ==
    ASSUME NEW s \in Seq(Nat), NEW c \in Nat
    PROVE  LET g == RegisterCleanup(s, c)
           IN  /\ g \in Seq(Nat) /\ Len(g) = Len(s) + 1
               /\ s = <<>> => g[1] = c
               /\ s # <<>> => /\ g[1] = s[1] /\ g[2] = c
                              /\ \A i \in 2..Len(s) : g[i + 1] = s[i]
               /\ Items(g) = Items(s) \union {c}
<1> DEFINE g == RegisterCleanup(s, c)
<1>1. CASE s = <<>>
  <2>1. g = <<c>> /\ Len(s) = 0
    BY <1>1 DEF RegisterCleanup
  <2>2. g \in Seq(Nat) /\ Len(g) = 1 /\ g[1] = c
    BY <2>1
  <2>3. Items(g) = {c} /\ Items(s) = {}
    <3> HIDE DEF g
    <3> QED
      BY <2>1, <2>2 DEF Items
  <2> QED
    BY <1>1, <2>1, <2>2, <2>3
<1>2. CASE s # <<>>
  <2>1. g = <<Head(s), c>> \o Tail(s) /\ Head(s) = s[1] /\ Head(s) \in Nat
    BY <1>2 DEF RegisterCleanup
  <2>2. /\ Tail(s) \in Seq(Nat) /\ Len(Tail(s)) = Len(s) - 1 /\ Len(s) \in Nat /\ Len(s) > 0
        /\ \A i \in 1..Len(s) - 1 : Tail(s)[i] = s[i + 1]
    BY <1>2
  <2> DEFINE front == <<s[1], c>>
  <2>3. front \in Seq(Nat) /\ Len(front) = 2 /\ front[1] = s[1] /\ front[2] = c
    BY <2>1
  <2>4. /\ g \in Seq(Nat) /\ Len(g) = Len(s) + 1
        /\ \A i \in 1..Len(g) : g[i] = IF i <= 2 THEN front[i] ELSE Tail(s)[i - 2]
    <3> DEFINE rest == Tail(s)
    <3>1. g = front \o rest
      BY <2>1
    <3>2. rest \in Seq(Nat) /\ Len(rest) = Len(s) - 1
      BY <2>2
    <3> HIDE DEF front, g, rest
    <3>3. /\ front \o rest \in Seq(Nat) /\ Len(front \o rest) = Len(front) + Len(rest)
          /\ \A i \in 1..Len(front) + Len(rest) :
                (front \o rest)[i] = IF i <= Len(front) THEN front[i] ELSE rest[i - Len(front)]
      BY <2>3, <3>2, ConcatProperties, Zenon
    <3>4. /\ g \in Seq(Nat) /\ Len(g) = Len(s) + 1
          /\ \A i \in 1..Len(g) : g[i] = IF i <= 2 THEN front[i] ELSE rest[i - 2]
      <4>1. Len(front) + Len(rest) = Len(s) + 1 /\ g = front \o rest
        BY <2>2, <2>3, <3>1, <3>2
      <4>2. /\ g \in Seq(Nat) /\ Len(g) = Len(s) + 1
            /\ \A i \in 1..Len(s) + 1 : g[i] = IF i <= 2 THEN front[i] ELSE rest[i - 2]
        BY <2>3, <3>3, <4>1, Zenon
      <4> QED
        BY <4>2, Zenon
    <3> QED
      BY <3>4 DEF rest
  <2> HIDE DEF front, g
  <2>5. g[1] = s[1] /\ g[2] = c /\ \A i \in 2..Len(s) : g[i + 1] = s[i]
    <3> DEFINE rest == Tail(s)
    <3>1. /\ \A i \in 1..Len(s) + 1 : g[i] = IF i <= 2 THEN front[i] ELSE rest[i - 2]
          /\ \A i \in 1..Len(s) - 1 : rest[i] = s[i + 1]
          /\ Len(s) \in Nat /\ Len(s) > 0
      BY <2>2, <2>4
    <3> HIDE DEF rest
    <3>2. 1 \in 1..Len(s) + 1 /\ 2 \in 1..Len(s) + 1
      BY <3>1
    <3>3. g[1] = s[1] /\ g[2] = c
      BY <2>3, <3>1, <3>2
    <3>4. ASSUME NEW i \in 2..Len(s) PROVE g[i + 1] = s[i]
      <4>1. /\ i + 1 \in 1..Len(s) + 1 /\ ~(i + 1 <= 2) /\ (i + 1) - 2 = i - 1
            /\ i - 1 \in 1..Len(s) - 1 /\ (i - 1) + 1 = i
        BY <3>1
      <4>2. g[i + 1] = rest[(i + 1) - 2]
        BY <3>1, <4>1, Zenon
      <4>3. rest[i - 1] = s[(i - 1) + 1]
        BY <3>1, <4>1, Zenon
      <4> QED
        BY <4>1, <4>2, <4>3
    <3> QED
      BY <3>3, <3>4
  <2>6. Items(g) = Items(s) \union {c}
    <3>1. ASSUME NEW i \in 1..Len(g) PROVE g[i] \in Items(s) \union {c}
      <4>1. CASE i = 1
        BY <2>2, <2>5, <4>1 DEF Items
      <4>2. CASE i = 2
        BY <2>5, <4>2
      <4>3. CASE i > 2
        <5>1. i - 1 \in 2..Len(s) /\ (i - 1) + 1 = i /\ i - 1 \in 1..Len(s)
          BY <2>2, <2>4, <4>3
        <5> QED
          BY <2>5, <5>1 DEF Items
      <4> QED
        BY <4>1, <4>2, <4>3
    <3>2. ASSUME NEW i \in 1..Len(s) PROVE s[i] \in Items(g)
      <4>1. CASE i = 1
        BY <2>2, <2>4, <2>5, <4>1 DEF Items
      <4>2. CASE i # 1
        <5>1. i \in 2..Len(s) /\ i + 1 \in 1..Len(g)
          BY <2>2, <2>4, <4>2
        <5> QED
          BY <2>5, <5>1 DEF Items
      <4> QED
        BY <4>1, <4>2
    <3>3. c \in Items(g)
      <4>1. 2 \in 1..Len(g)
        BY <2>2, <2>4
      <4> QED
        BY <2>5, <4>1 DEF Items
    <3> QED
      BY <3>1, <3>2, <3>3 DEF Items
  <2> QED
    BY <1>2, <2>4, <2>5, <2>6 DEF g
<1> QED
  BY <1>1, <1>2

(* A function that was run is no longer in the one list but in the other.      *)
LEMMA Running ==
    ASSUME NEW s \in Seq(Nat), s # <<>>, NEW t \in Seq(Nat)
    PROVE  LET a == Tail(s)
               b == Append(t, Head(s))
           IN  /\ a \in Seq(Nat) /\ b \in Seq(Nat) /\ Head(s) = s[1]
               /\ Len(a) = Len(s) - 1 /\ Len(b) = Len(t) + 1 /\ b # <<>>
               /\ t = <<>> => b[1] = s[1]
               /\ t # <<>> => b[1] = t[1]
               /\ \A i \in 1..Len(a) : a[i] = s[i + 1] /\ i + 1 \in 1..Len(s)
               /\ Items(b) \union Items(a) = Items(t) \union Items(s)
<1> DEFINE a == Tail(s)
           b == Append(t, Head(s))
<1>1. /\ a \in Seq(Nat) /\ Head(s) = s[1] /\ Len(a) = Len(s) - 1 /\ Len(s) \in Nat /\ Len(s) > 0
      /\ \A i \in 1..Len(a) : a[i] = s[i + 1] /\ i + 1 \in 1..Len(s)
  OBVIOUS
<1>2. /\ b \in Seq(Nat) /\ Len(b) = Len(t) + 1 /\ b # <<>> /\ Len(t) \in Nat
      /\ \A i \in 1..Len(t) : b[i] = t[i]
      /\ b[Len(t) + 1] = s[1]
  <2>1. 1 \in 1..Len(s) /\ s[1] \in Nat /\ Head(s) = s[1]
    BY <1>1
  <2>2. b = Append(t, s[1])
    BY <2>1
  <2> HIDE DEF b
  <2>3. /\ Append(t, s[1]) \in Seq(Nat) /\ Append(t, s[1]) # <<>>
        /\ Len(Append(t, s[1])) = Len(t) + 1
        /\ \A i \in 1..Len(t) : Append(t, s[1])[i] = t[i]
        /\ Append(t, s[1])[Len(t) + 1] = s[1]
    BY <2>1, AppendProperties, SMT
  <2>4. Len(t) \in Nat
    OBVIOUS
  <2> QED
    BY <2>2, <2>3, <2>4, Zenon
<1> HIDE DEF a, b
<1>3. ASSUME NEW i \in 1..Len(s) PROVE s[i] \in Items(b) \union Items(a)
  <2>1. CASE i = 1
    <3>1. Len(t) + 1 \in 1..Len(b)
      BY <1>2
    <3> QED
      BY <1>2, <2>1, <3>1 DEF Items
  <2>2. CASE i # 1
    <3>1. i - 1 \in 1..Len(a) /\ (i - 1) + 1 = i
      BY <1>1, <2>2
    <3> QED
      BY <1>1, <3>1 DEF Items
  <2> QED
    BY <2>1, <2>2
<1>4. ASSUME NEW i \in 1..Len(t) PROVE t[i] \in Items(b)
  <2>1. i \in 1..Len(b)
    BY <1>2
  <2> QED
    BY <1>2, <2>1 DEF Items
<1>5. ASSUME NEW i \in 1..Len(b) PROVE b[i] \in Items(t) \union Items(s)
  <2>1. 1 \in 1..Len(s)
    BY <1>1
  <2>2. i \in 1..Len(t) \/ i = Len(t) + 1
    BY <1>2
  <2> QED
    BY <1>2, <2>1, <2>2 DEF Items
<1>6. Items(b) \union Items(a) = Items(t) \union Items(s)
  <2>1. Items(a) \subseteq Items(s)
    BY <1>1 DEF Items
  <2>2. Items(s) \subseteq Items(b) \union Items(a)
    BY <1>3 DEF Items
  <2>3. Items(t) \subseteq Items(b)
    BY <1>4 DEF Items
  <2>4. Items(b) \subseteq Items(t) \union Items(s)
    BY <1>5 DEF Items
  <2> QED
    BY <2>1, <2>2, <2>3, <2>4
<1>7. /\ t = <<>> => b[1] = s[1]
      /\ t # <<>> => b[1] = t[1]
  <2>1. t = <<>> => Len(t) = 0
    OBVIOUS
  <2>2. t # <<>> => 1 \in 1..Len(t)
    OBVIOUS
  <2> QED
    BY <1>2, <2>1, <2>2
<1> QED
  BY <1>1, <1>2, <1>6, <1>7 DEF a, b

(* The holders are counted.                                                    *)
LEMMA HoldersCounted ==
    ASSUME ConstantsOK, NEW a, NEW r \in Readers, NEW x
    PROVE  Cardinality(Holders(a, x)) \in Nat /\ Cardinality(Holders(a, x)) >= One(a[r], x)
<1>1. IsFiniteSet(Holders(a, x))
  <2>1. Holders(a, x) \in SUBSET Readers
    BY DEF Holders
  <2> QED
    BY <2>1, FS_Subset DEF ConstantsOK
<1>2. Cardinality(Holders(a, x)) \in Nat
  BY <1>1, FS_CardinalityType
<1>3. a[r] = x => Cardinality(Holders(a, x)) # 0
  <2>1. a[r] = x => Holders(a, x) # {}
    BY DEF Holders
  <2> QED
    BY <1>1, <2>1, FS_EmptySet
<1> QED
  BY <1>2, <1>3 DEF One

(* One reader holds something else.                                            *)
LEMMA Repinned ==
    ASSUME ConstantsOK, NEW a, NEW b, NEW r \in Readers, NEW x,
           \A q \in Readers \ {r} : a[q] = b[q]
    PROVE  Cardinality(Holders(b, x)) + One(a[r], x) = Cardinality(Holders(a, x)) + One(b[r], x)
<1> DEFINE rest == Holders(a, x) \ {r}
<1>1. IsFiniteSet(Holders(a, x)) /\ IsFiniteSet(Holders(b, x))
  <2>1. Holders(a, x) \in SUBSET Readers /\ Holders(b, x) \in SUBSET Readers
    BY DEF Holders
  <2> QED
    BY <2>1, FS_Subset DEF ConstantsOK
<1>2. Cardinality(Holders(a, x)) \in Nat /\ Cardinality(Holders(b, x)) \in Nat
  BY <1>1, FS_CardinalityType
<1>3. /\ r \in Holders(a, x) <=> a[r] = x
      /\ r \in Holders(b, x) <=> b[r] = x
      /\ Holders(b, x) \ {r} = rest
  BY DEF Holders
<1>4. /\ Cardinality(rest) = IF a[r] = x THEN Cardinality(Holders(a, x)) - 1
                             ELSE Cardinality(Holders(a, x))
      /\ Cardinality(rest) = IF b[r] = x THEN Cardinality(Holders(b, x)) - 1
                             ELSE Cardinality(Holders(b, x))
  <2>1. Cardinality(rest) = IF r \in Holders(a, x) THEN Cardinality(Holders(a, x)) - 1
                            ELSE Cardinality(Holders(a, x))
    BY <1>1, FS_RemoveElement
  <2>2. Cardinality(Holders(b, x) \ {r})
          = IF r \in Holders(b, x) THEN Cardinality(Holders(b, x)) - 1
            ELSE Cardinality(Holders(b, x))
    BY <1>1, FS_RemoveElement
  <2> HIDE DEF rest
  <2> QED
    BY <1>3, <2>1, <2>2
<1>5. Cardinality(rest) \in Nat
  BY <1>1, FS_RemoveElement, FS_CardinalityType
<1> HIDE DEF rest
<1> QED
  BY <1>2, <1>4, <1>5 DEF One

(* What somebody holds has a reference.                                        *)
LEMMA Held ==
    ASSUME TypeOK
    PROVE  /\ \A x \in Mems : /\ MemCount[x] \in Nat
                              /\ MemCount[x] >= One(mem, x) + One(imm, x)
           /\ \A x \in Versions :
                 /\ VersionCount[x] \in Nat
                 /\ VersionCount[x] >= One(current, x) + One(bg.input, x) + One(bg.base, x)
<1>1. ASSUME NEW pin, NEW x PROVE Cardinality(Holders(pin, x)) \in Nat
  <2>1. Holders(pin, x) \in SUBSET Readers /\ IsFiniteSet(Readers)
    BY DEF Holders, TypeOK, ConstantsOK
  <2> QED
    BY <2>1, FS_Subset, FS_CardinalityType
<1>2. ASSUME NEW x \in Mems
      PROVE  MemCount[x] \in Nat /\ MemCount[x] >= One(mem, x) + One(imm, x)
  <2>1. Cardinality(Holders(MemPin, x)) \in Nat /\ Cardinality(Holders(ImmPin, x)) \in Nat
    BY <1>1
  <2> QED
    BY <2>1 DEF MemCount, One
<1>3. ASSUME NEW x \in Versions
      PROVE  /\ VersionCount[x] \in Nat
             /\ VersionCount[x] >= One(current, x) + One(bg.input, x) + One(bg.base, x)
  <2>1. Cardinality(Holders(VersionPin, x)) \in Nat
    BY <1>1
  <2> QED
    BY <2>1 DEF VersionCount, One
<1> QED
  BY <1>2, <1>3

(* A reader takes and drops references.                                        *)
LEMMA ReaderCounts ==
    ASSUME TypeOK, NEW r \in Readers, NEW t, reader' = [reader EXCEPT ![r] = t],
           UNCHANGED <<mem, imm, current, bg>>
    PROVE  LET p == reader[r].pins
           IN  /\ \A x \in Mems :
                     /\ MemCount[x] >= One(p.mem, x) + One(p.imm, x)
                     /\ MemCount'[x] = MemCount[x] - One(p.mem, x) - One(p.imm, x)
                                         + One(t.pins.mem, x) + One(t.pins.imm, x)
               /\ \A x \in Versions :
                     /\ VersionCount[x] >= One(p.version, x)
                     /\ VersionCount'[x] = VersionCount[x] - One(p.version, x)
                                             + One(t.pins.version, x)
<1> DEFINE p == reader[r].pins
<1>1. ConstantsOK
  BY DEF TypeOK
<1>2. /\ \A q \in Readers \ {r} : reader'[q] = reader[q]
      /\ reader'[r] = t
  BY DEF TypeOK
<1>3. /\ \A q \in Readers \ {r} : /\ MemPin[q] = MemPin'[q] /\ ImmPin[q] = ImmPin'[q]
                                  /\ VersionPin[q] = VersionPin'[q]
      /\ MemPin[r] = p.mem /\ ImmPin[r] = p.imm /\ VersionPin[r] = p.version
      /\ MemPin'[r] = t.pins.mem /\ ImmPin'[r] = t.pins.imm /\ VersionPin'[r] = t.pins.version
  BY <1>2 DEF MemPin, ImmPin, VersionPin
<1>4. ASSUME NEW x \in Mems
      PROVE  /\ MemCount[x] >= One(p.mem, x) + One(p.imm, x)
             /\ MemCount'[x] = MemCount[x] - One(p.mem, x) - One(p.imm, x)
                                 + One(t.pins.mem, x) + One(t.pins.imm, x)
  <2> DEFINE a == Cardinality(Holders(MemPin, x))
             b == Cardinality(Holders(MemPin', x))
             c == Cardinality(Holders(ImmPin, x))
             d == Cardinality(Holders(ImmPin', x))
  <2>1. /\ a \in Nat /\ b \in Nat /\ a >= One(p.mem, x)
        /\ b + One(p.mem, x) = a + One(t.pins.mem, x)
    <3> DEFINE old == MemPin
               new == MemPin'
    <3>1. /\ \A q \in Readers \ {r} : old[q] = new[q]
          /\ a = Cardinality(Holders(old, x)) /\ b = Cardinality(Holders(new, x))
      BY <1>3
    <3>2. old[r] = MemPin[r] /\ new[r] = MemPin'[r]
      OBVIOUS
    <3> HIDE DEF old, new, a, b
    <3>3. a \in Nat /\ b \in Nat
      BY <1>1, <3>1, HoldersCounted
    <3>4. a >= One(old[r], x)
      BY <1>1, <3>1, HoldersCounted
    <3>5. b + One(old[r], x) = a + One(new[r], x)
      BY <1>1, <3>1, Repinned
    <3> QED
      BY <1>3, <3>2, <3>3, <3>4, <3>5
  <2>2. /\ c \in Nat /\ d \in Nat /\ c >= One(p.imm, x)
        /\ d + One(p.imm, x) = c + One(t.pins.imm, x)
    <3> DEFINE old == ImmPin
               new == ImmPin'
    <3>1. /\ \A q \in Readers \ {r} : old[q] = new[q]
          /\ c = Cardinality(Holders(old, x)) /\ d = Cardinality(Holders(new, x))
      BY <1>3
    <3>2. old[r] = ImmPin[r] /\ new[r] = ImmPin'[r]
      OBVIOUS
    <3> HIDE DEF old, new, c, d
    <3>3. c \in Nat /\ d \in Nat
      BY <1>1, <3>1, HoldersCounted
    <3>4. c >= One(old[r], x)
      BY <1>1, <3>1, HoldersCounted
    <3>5. d + One(old[r], x) = c + One(new[r], x)
      BY <1>1, <3>1, Repinned
    <3> QED
      BY <1>3, <3>2, <3>3, <3>4, <3>5
  <2>3. MemCount[x] = a + c + One(mem, x) + One(imm, x)
    BY DEF MemCount
  <2>4. MemCount'[x] = b + d + One(mem, x) + One(imm, x)
    BY DEF MemCount
  <2> HIDE DEF a, b, c, d, p
  <2> QED
    BY <2>1, <2>2, <2>3, <2>4 DEF One
<1>5. ASSUME NEW x \in Versions
      PROVE  /\ VersionCount[x] >= One(p.version, x)
             /\ VersionCount'[x] = VersionCount[x] - One(p.version, x)
                                     + One(t.pins.version, x)
  <2> DEFINE a == Cardinality(Holders(VersionPin, x))
             b == Cardinality(Holders(VersionPin', x))
  <2>1. /\ a \in Nat /\ b \in Nat /\ a >= One(p.version, x)
        /\ b + One(p.version, x) = a + One(t.pins.version, x)
    <3> DEFINE old == VersionPin
               new == VersionPin'
    <3>1. /\ \A q \in Readers \ {r} : old[q] = new[q]
          /\ a = Cardinality(Holders(old, x)) /\ b = Cardinality(Holders(new, x))
      BY <1>3
    <3>2. old[r] = VersionPin[r] /\ new[r] = VersionPin'[r]
      OBVIOUS
    <3> HIDE DEF old, new, a, b
    <3>3. a \in Nat /\ b \in Nat
      BY <1>1, <3>1, HoldersCounted
    <3>4. a >= One(old[r], x)
      BY <1>1, <3>1, HoldersCounted
    <3>5. b + One(old[r], x) = a + One(new[r], x)
      BY <1>1, <3>1, Repinned
    <3> QED
      BY <1>3, <3>2, <3>3, <3>4, <3>5
  <2>2. VersionCount[x] = a + One(current, x) + One(bg.input, x) + One(bg.base, x)
    BY DEF VersionCount
  <2>3. VersionCount'[x] = b + One(current, x) + One(bg.input, x) + One(bg.base, x)
    BY DEF VersionCount
  <2> HIDE DEF a, b, p
  <2> QED
    BY <2>1, <2>2, <2>3 DEF One
<1> QED
  BY <1>4, <1>5 DEF p

(* The database or the background thread does.                                 *)
LEMMA OwnCounts ==
    ASSUME TypeOK, UNCHANGED reader
    PROVE  /\ \A x \in Mems : MemCount'[x] = MemCount[x] - One(mem, x) - One(imm, x)
                                               + One(mem', x) + One(imm', x)
           /\ \A x \in Versions :
                 VersionCount'[x] = VersionCount[x] - One(current, x) - One(bg.input, x)
                                      - One(bg.base, x) + One(current', x)
                                      + One(bg'.input, x) + One(bg'.base, x)
<1>1. ASSUME NEW pin, NEW x PROVE Cardinality(Holders(pin, x)) \in Nat
  <2>1. Holders(pin, x) \in SUBSET Readers /\ IsFiniteSet(Readers)
    BY DEF Holders, TypeOK, ConstantsOK
  <2> QED
    BY <2>1, FS_Subset, FS_CardinalityType
<1>2. MemPin' = MemPin /\ ImmPin' = ImmPin /\ VersionPin' = VersionPin
  BY DEF MemPin, ImmPin, VersionPin
<1>3. ASSUME NEW x \in Mems
      PROVE  MemCount'[x] = MemCount[x] - One(mem, x) - One(imm, x) + One(mem', x) + One(imm', x)
  <2> DEFINE a == Cardinality(Holders(MemPin, x))
             b == Cardinality(Holders(ImmPin, x))
  <2>1. a \in Nat /\ b \in Nat
    BY <1>1
  <2>2. MemCount[x] = a + b + One(mem, x) + One(imm, x)
    BY DEF MemCount
  <2>3. MemCount'[x] = a + b + One(mem', x) + One(imm', x)
    BY <1>2 DEF MemCount
  <2> HIDE DEF a, b
  <2> QED
    BY <2>1, <2>2, <2>3 DEF One
<1>4. ASSUME NEW x \in Versions
      PROVE  VersionCount'[x] = VersionCount[x] - One(current, x) - One(bg.input, x)
                                      - One(bg.base, x) + One(current', x)
                                      + One(bg'.input, x) + One(bg'.base, x)
  <2> DEFINE a == Cardinality(Holders(VersionPin, x))
  <2>1. a \in Nat
    BY <1>1
  <2>2. VersionCount[x] = a + One(current, x) + One(bg.input, x) + One(bg.base, x)
    BY DEF VersionCount
  <2>3. VersionCount'[x] = a + One(current', x) + One(bg'.input, x) + One(bg'.base, x)
    BY <1>2 DEF VersionCount
  <2> HIDE DEF a
  <2> QED
    BY <2>1, <2>2, <2>3 DEF One
<1> QED
  BY <1>3, <1>4

(* A reader takes what it reads.                                               *)
LEMMA PinKeeps ==
    ASSUME ConstantsOK, NEW h, NEW mc, NEW vc, NEW fresh, Balanced(h, mc, vc, fresh),
           NEW p \in Pins, p.mem # None => mc[p.mem] > 0, p.imm # None => mc[p.imm] > 0,
           p.version \in Versions, vc[p.version] > 0,
           NEW nm, \A x \in Mems : nm[x] = mc[x] + One(p.mem, x) + One(p.imm, x),
           NEW nv, \A x \in Versions : nv[x] = vc[x] + One(p.version, x)
    PROVE  Balanced(Pin(h, p), nm, nv, fresh) /\ Pin(h, p).files = h.files
<1> DEFINE m1 == [x \in Mems |-> mc[x] + One(p.mem, x)]
           h1 == RefMem(h, p.mem)
           h2 == RefMem(h1, p.imm)
           h3 == RefVersion(h2, p.version)
<1>1. /\ p.mem \in Mems \union {None} /\ p.imm \in Mems \union {None}
      /\ \A x \in Mems : mc[x] \in Nat
  BY DEF Pins, Balanced, MemsCounted
<1>2. Balanced(h1, m1, vc, fresh)
  <2>1. \A x \in Mems : m1[x] = mc[x] + One(p.mem, x)
    OBVIOUS
  <2> HIDE DEF m1
  <2> QED
    BY <1>1, <2>1, RefMemKeeps
<1>3. Balanced(h2, nm, vc, fresh)
  <2>1. \A x \in Mems : nm[x] = m1[x] + One(p.imm, x)
    BY <1>1 DEF One
  <2>2. p.imm # None => m1[p.imm] > 0
    BY <1>1 DEF One
  <2> HIDE DEF m1, h1
  <2> QED
    BY <1>1, <1>2, <2>1, <2>2, RefMemKeeps
<1>4. h1.files = h.files /\ h2.files = h1.files /\ h3.files = h2.files
  <2>1. h \in Heap /\ h1 \in Heap /\ h2 \in Heap
    BY <1>2, <1>3 DEF Balanced
  <2> QED
    BY <2>1, FilesStay, Zenon
<1>5. Balanced(h3, nm, nv, fresh)
  <2> HIDE DEF h2
  <2> QED
    BY <1>3, RefVersionKeeps
<1> QED
  BY <1>4, <1>5 DEF Pin

(* It drops what it holds.                                                     *)
LEMMA UnpinKeeps ==
    ASSUME ConstantsOK, NEW h, NEW mc, NEW vc, NEW fresh, Balanced(h, mc, vc, fresh),
           NEW p \in Pins, \A x \in Mems : mc[x] >= One(p.mem, x) + One(p.imm, x),
           p.version \in Versions, vc[p.version] > 0,
           NEW nm, \A x \in Mems : nm[x] = mc[x] - One(p.mem, x) - One(p.imm, x),
           NEW nv, \A x \in Versions : nv[x] = vc[x] - One(p.version, x)
    PROVE  Balanced(Unpin(h, p), nm, nv, fresh) /\ Unpin(h, p).files = h.files
<1> DEFINE m1 == [x \in Mems |-> mc[x] - One(p.mem, x)]
           h1 == UnrefMem(h, p.mem)
           h2 == UnrefMem(h1, p.imm)
           h3 == UnrefVersion(h2, p.version)
<1>1. /\ p.mem \in Mems \union {None} /\ p.imm \in Mems \union {None}
      /\ \A x \in Mems : mc[x] \in Nat
  BY DEF Pins, Balanced, MemsCounted
<1>2. Balanced(h1, m1, vc, fresh)
  <2>1. \A x \in Mems : m1[x] = mc[x] - One(p.mem, x)
    OBVIOUS
  <2>2. p.mem # None => mc[p.mem] > 0
    BY <1>1 DEF One
  <2> HIDE DEF m1
  <2> QED
    BY <1>1, <2>1, <2>2, UnrefMemKeeps
<1>3. Balanced(h2, nm, vc, fresh)
  <2>1. \A x \in Mems : nm[x] = m1[x] - One(p.imm, x)
    BY <1>1 DEF One
  <2>2. p.imm # None => m1[p.imm] > 0
    BY <1>1 DEF One
  <2> HIDE DEF m1, h1
  <2> QED
    BY <1>1, <1>2, <2>1, <2>2, UnrefMemKeeps
<1>4. Balanced(h3, nm, nv, fresh) /\ h3.files = h2.files
  <2> HIDE DEF h2
  <2> QED
    BY <1>3, UnrefVersionKeeps
<1>5. h1.files = h.files /\ h2.files = h1.files
  <2>1. h \in Heap /\ h1 \in Heap
    BY <1>2 DEF Balanced
  <2> QED
    BY <2>1, FilesStay, Zenon
<1> QED
  BY <1>4, <1>5 DEF Unpin

-----------------------------------------------------------------------------
(* DB::Open has one memtable and one version, each with the one reference of   *)
(* the database.                                                               *)
LEMMA InitInv == ASSUME ConstantsOK, Init PROVE PinInv
<1>1. Idle \in ReaderState /\ ReaderInv(Idle)
  BY DEF Idle, ReaderState, Kinds, Pins, NoPins, None, ReaderInv
<1>2. BgIdle \in BgState
  BY DEF BgIdle, BgState, None
<1>3. 1 \in Mems /\ 1 \in Versions /\ 0 \notin Mems /\ 0 \notin Versions
  BY DEF ConstantsOK, Mems, Versions
<1>4. ControlInv
  BY <1>1, <1>2, <1>3 DEF ControlInv, TypeOK, OpenInv, BgInv, ReadersInv, Init, BgIdle, None, Idle
<1>5. InputsInv
  BY DEF InputsInv, Init, BgIdle, None
<1>6. /\ \A m \in Mems : MemCount[m] = One(1, m)
      /\ \A v \in Versions : VersionCount[v] = One(1, v)
  <2>1. \A x : x # None => Holders(MemPin, x) = {} /\ Holders(ImmPin, x) = {} /\ Holders(VersionPin, x) = {}
    BY DEF Init, Holders, MemPin, ImmPin, VersionPin, Idle, NoPins
  <2>2. Cardinality({}) = 0
    BY FS_EmptySet
  <2>3. \A x : x \in Mems \/ x \in Versions => x # None
    BY <1>3 DEF None
  <2>4. ASSUME NEW m \in Mems PROVE MemCount[m] = One(1, m)
    <3>1. /\ Cardinality(Holders(MemPin, m)) = 0 /\ Cardinality(Holders(ImmPin, m)) = 0
          /\ mem = 1 /\ imm = None /\ m # None
      BY <2>1, <2>2, <2>3 DEF Init
    <3> QED
      BY <3>1 DEF MemCount, One
  <2>5. ASSUME NEW v \in Versions PROVE VersionCount[v] = One(1, v)
    <3>1. /\ Cardinality(Holders(VersionPin, v)) = 0 /\ current = 1 /\ v # None
          /\ bg.input = None /\ bg.base = None
      BY <2>1, <2>2, <2>3 DEF Init, BgIdle
    <3> QED
      BY <3>1 DEF VersionCount, One
  <2> QED
    BY <2>4, <2>5
<1>7. heap \in Heap
  BY <1>3 DEF Init, Heap, ConstantsOK, Mems, Versions, Metas
<1>8. MemsCounted(heap, MemCount)
  BY <1>6 DEF Init, MemsCounted, One, Mems
<1>9. VersionsCounted(heap, VersionCount, bg.version)
  BY <1>6 DEF Init, VersionsCounted, One, BgIdle, None, Versions
<1>10. FilesCounted(heap)
  <2>1. ASSUME NEW f \in Metas PROVE Users(heap, f) = {}
    <3>1. \A v \in Versions : heap.files[v] = {}
      BY DEF Init
    <3>2. 1..heap.created.versions \subseteq Versions
      BY DEF Init, ConstantsOK, Versions
    <3> QED
      BY <3>1, <3>2 DEF Users
  <2>2. ASSUME NEW f \in Metas
        PROVE  /\ heap.frefs[f] = Cardinality(Users(heap, f))
               /\ f \in heap.dead.metas <=> f <= heap.created.metas /\ heap.frefs[f] = 0
    <3>1. /\ heap.frefs[f] = 0 /\ heap.created.metas = 0 /\ heap.dead.metas = {}
          /\ f \in Int /\ f >= 1
      BY DEF Init, Metas, ConstantsOK
    <3>2. Cardinality(Users(heap, f)) = 0
      BY <2>1, FS_EmptySet
    <3> QED
      BY <3>1, <3>2
  <2>3. \A v \in Versions : heap.files[v] \subseteq 1..heap.created.metas
    BY DEF Init
  <2> QED
    BY <2>2, <2>3 DEF FilesCounted
<1> QED
  BY <1>4, <1>5, <1>7, <1>8, <1>9, <1>10 DEF PinInv, CountInv, Balanced

(* A step of a reader, given what it makes of its state and of the counts.     *)
LEMMA ReaderStep ==
    ASSUME PinInv, NEW r \in Readers, NEW t \in ReaderState, reader' = [reader EXCEPT ![r] = t], Quiet,
           ReaderInv(t), closed => t.kind = "none",
           Balanced(heap', MemCount', VersionCount', bg.version), heap'.files = heap.files
    PROVE  PinInv'
<1> USE DEF PinInv, ControlInv, Quiet
<1>1. TypeOK'
  BY DEF TypeOK
<1>2. /\ \A q \in Readers \ {r} : reader'[q] = reader[q]
      /\ reader'[r] = t
  BY DEF TypeOK
<1>3. OpenInv'
  BY <1>2 DEF OpenInv
<1>4. BgInv'
  BY DEF BgInv
<1>5. ReadersInv'
  BY <1>2 DEF ReadersInv
<1>6. InputsInv' /\ CountInv'
  BY DEF InputsInv, CountInv
<1> QED
  BY <1>1, <1>3, <1>4, <1>5, <1>6

(* The counts while a reader begins: what it takes is held by the database.    *)
LEMMA OpenHeld ==
    ASSUME PinInv, ~closed
    PROVE  /\ mem \in Mems /\ MemCount[mem] > 0
           /\ imm # None => imm \in Mems /\ MemCount[imm] > 0
           /\ current \in Versions /\ VersionCount[current] > 0
<1>1. mem \in Mems /\ current \in Versions /\ imm \in Mems \union {None}
  BY DEF PinInv, ControlInv, TypeOK, OpenInv
<1>2. bg.base \in Versions \union {None} /\ bg.input \in Versions \union {None}
  BY DEF PinInv, ControlInv, TypeOK, BgState
<1>3. TypeOK
  BY DEF PinInv, ControlInv
<1>4. MemCount[mem] >= One(mem, mem) + One(imm, mem) /\ MemCount[mem] \in Nat
  BY <1>1, <1>3, Held
<1>5. ASSUME imm # None PROVE imm \in Mems /\ MemCount[imm] > 0
  <2>1. MemCount[imm] >= One(mem, imm) + One(imm, imm) /\ MemCount[imm] \in Nat
    BY <1>1, <1>3, <1>5, Held
  <2> QED
    BY <1>1, <1>5, <2>1 DEF One
<1>6. /\ VersionCount[current] >= One(current, current) + One(bg.input, current) + One(bg.base, current)
      /\ VersionCount[current] \in Nat
  BY <1>1, <1>3, Held
<1> QED
  BY <1>1, <1>4, <1>5, <1>6 DEF One

(* A reader takes the memtables and the version, drops them, or neither.       *)
LEMMA Takes ==
    ASSUME PinInv, ~closed, NEW r \in Readers, reader[r].kind = "none",
           NEW t \in ReaderState, t.pins = AllPins, ReaderInv(t),
           reader' = [reader EXCEPT ![r] = t], Quiet, heap' = Pin(heap, AllPins)
    PROVE  PinInv'
<1>1. TypeOK /\ ConstantsOK /\ Balanced(heap, MemCount, VersionCount, bg.version)
  BY DEF PinInv, ControlInv, CountInv, TypeOK
<1>2. reader[r].pins = NoPins
  BY DEF PinInv, ControlInv, ReadersInv, ReaderInv
<1>3. /\ AllPins \in Pins
      /\ AllPins.mem = mem /\ AllPins.imm = imm /\ AllPins.version = current
  BY <1>1 DEF AllPins, Pins, TypeOK
<1>4. UNCHANGED <<mem, imm, current, bg>>
  BY DEF Quiet
<1>5. /\ \A x \in Mems : MemCount'[x] = MemCount[x] + One(mem, x) + One(imm, x)
      /\ \A x \in Versions : VersionCount'[x] = VersionCount[x] + One(current, x)
  <2>1. /\ \A x \in Mems : MemCount'[x] = MemCount[x] - One(NoPins.mem, x) - One(NoPins.imm, x)
                                            + One(AllPins.mem, x) + One(AllPins.imm, x)
        /\ \A x \in Versions : VersionCount'[x] = VersionCount[x] - One(NoPins.version, x)
                                                    + One(AllPins.version, x)
    BY <1>1, <1>2, <1>4, ReaderCounts
  <2>2. /\ \A x \in Mems : MemCount[x] \in Nat
        /\ \A x \in Versions : VersionCount[x] \in Nat
    BY <1>1, Held
  <2>3. /\ \A x \in Mems : One(NoPins.mem, x) = 0 /\ One(NoPins.imm, x) = 0
        /\ \A x \in Versions : One(NoPins.version, x) = 0
    BY DEF NoPins, One, None, Mems, Versions
  <2> QED
    BY <1>3, <2>1, <2>2, <2>3
<1>6. /\ AllPins.mem # None => MemCount[AllPins.mem] > 0
      /\ AllPins.imm # None => MemCount[AllPins.imm] > 0
      /\ AllPins.version \in Versions /\ VersionCount[AllPins.version] > 0
  BY <1>3, OpenHeld
<1>7. /\ \A x \in Mems : MemCount'[x] = MemCount[x] + One(AllPins.mem, x) + One(AllPins.imm, x)
      /\ \A x \in Versions : VersionCount'[x] = VersionCount[x] + One(AllPins.version, x)
  BY <1>3, <1>5
<1>8. Balanced(heap', MemCount', VersionCount', bg.version) /\ heap'.files = heap.files
  <2> DEFINE p == AllPins
             nm == MemCount'
             nv == VersionCount'
             mc == MemCount
             vc == VersionCount
  <2>1. /\ Balanced(heap, mc, vc, bg.version)
        /\ p \in Pins
        /\ p.mem # None => mc[p.mem] > 0
        /\ p.imm # None => mc[p.imm] > 0
        /\ p.version \in Versions /\ vc[p.version] > 0
        /\ \A x \in Mems : nm[x] = mc[x] + One(p.mem, x) + One(p.imm, x)
        /\ \A x \in Versions : nv[x] = vc[x] + One(p.version, x)
    BY <1>1, <1>3, <1>6, <1>7
  <2> HIDE DEF p, nm, nv, mc, vc
  <2>2. Balanced(Pin(heap, p), nm, nv, bg.version) /\ Pin(heap, p).files = heap.files
    BY <1>1, <2>1, PinKeeps
  <2> QED
    BY <2>2 DEF p, nm, nv
<1> QED
  BY <1>8, ReaderStep

(* A reader lets go of all it had pinned and keeps nothing.                    *)
LEMMA Drops ==
    ASSUME PinInv, NEW r \in Readers, reader[r].pins.version # None,
           NEW t \in ReaderState, t.pins = NoPins, ReaderInv(t), closed => t.kind = "none",
           reader' = [reader EXCEPT ![r] = t], Quiet, heap' = Unpin(heap, reader[r].pins)
    PROVE  PinInv'
<1> DEFINE p == reader[r].pins
           nm == MemCount'
           nv == VersionCount'
           mc == MemCount
           vc == VersionCount
<1>1. TypeOK /\ ConstantsOK /\ Balanced(heap, mc, vc, bg.version)
  BY DEF PinInv, ControlInv, CountInv, TypeOK
<1>2. p \in Pins /\ p.version \in Versions
  BY <1>1 DEF TypeOK, ReaderState, Pins
<1>3. UNCHANGED <<mem, imm, current, bg>>
  BY DEF Quiet
<1>4. /\ \A x \in Mems : mc[x] \in Nat
      /\ \A x \in Versions : vc[x] \in Nat
  BY <1>1, Held
<1>5. /\ \A x \in Mems : One(NoPins.mem, x) = 0 /\ One(NoPins.imm, x) = 0
      /\ \A x \in Versions : One(NoPins.version, x) = 0
  BY DEF NoPins, One, None, Mems, Versions
<1>6. /\ \A x \in Mems : /\ mc[x] >= One(p.mem, x) + One(p.imm, x)
                         /\ nm[x] = mc[x] - One(p.mem, x) - One(p.imm, x)
                                      + One(NoPins.mem, x) + One(NoPins.imm, x)
      /\ \A x \in Versions : /\ vc[x] >= One(p.version, x)
                             /\ nv[x] = vc[x] - One(p.version, x) + One(NoPins.version, x)
  BY <1>1, <1>3, ReaderCounts
<1> HIDE DEF p, nm, nv, mc, vc
<1>7. /\ \A x \in Mems : nm[x] = mc[x] - One(p.mem, x) - One(p.imm, x)
      /\ \A x \in Versions : nv[x] = vc[x] - One(p.version, x)
      /\ vc[p.version] > 0
  <2>1. ASSUME NEW x \in Mems PROVE nm[x] = mc[x] - One(p.mem, x) - One(p.imm, x)
    BY <1>4, <1>5, <1>6 DEF One
  <2>2. ASSUME NEW x \in Versions PROVE nv[x] = vc[x] - One(p.version, x)
    BY <1>4, <1>5, <1>6 DEF One
  <2>3. vc[p.version] > 0
    BY <1>2, <1>4, <1>6 DEF One
  <2> QED
    BY <2>1, <2>2, <2>3
<1>8. Balanced(Unpin(heap, p), nm, nv, bg.version) /\ Unpin(heap, p).files = heap.files
  BY <1>1, <1>2, <1>6, <1>7, UnpinKeeps
<1>9. Balanced(heap', MemCount', VersionCount', bg.version) /\ heap'.files = heap.files
  BY <1>8 DEF p, nm, nv
<1> QED
  BY <1>9, ReaderStep

(* A reader goes on with what it has pinned.                                   *)
LEMMA Holds ==
    ASSUME PinInv, NEW r \in Readers, NEW t \in ReaderState, t.pins = reader[r].pins, ReaderInv(t),
           closed => t.kind = "none", reader' = [reader EXCEPT ![r] = t], Quiet, UNCHANGED heap
    PROVE  PinInv'
<1>1. TypeOK /\ Balanced(heap, MemCount, VersionCount, bg.version)
  BY DEF PinInv, ControlInv, CountInv
<1>2. MemPin' = MemPin /\ ImmPin' = ImmPin /\ VersionPin' = VersionPin
  <2>1. \A q \in Readers : reader'[q].pins = reader[q].pins
    BY <1>1 DEF TypeOK
  <2> QED
    BY <2>1 DEF MemPin, ImmPin, VersionPin
<1>3. MemCount' = MemCount /\ VersionCount' = VersionCount
  BY <1>2 DEF MemCount, VersionCount, Quiet
<1>4. Balanced(heap', MemCount', VersionCount', bg.version) /\ heap'.files = heap.files
  BY <1>1, <1>3
<1> QED
  BY <1>4, ReaderStep

(* A reader with nothing to do.                                                *)
LEMMA IdleReader ==
    /\ Idle \in ReaderState /\ ReaderInv(Idle) /\ Idle.pins = NoPins /\ Idle.kind = "none"
    /\ Idle.ran = <<>> /\ NoPins \in Pins
    /\ NoPins.mem = None /\ NoPins.imm = None /\ NoPins.version = None
  BY DEF Idle, ReaderState, Kinds, Pins, NoPins, None, ReaderInv

(* Get takes its references under the mutex.                                   *)
LEMMA GetBeginsKeeps == ASSUME PinInv, NEW r \in Readers, GetBegins(r) PROVE PinInv'
<1> DEFINE t == [Idle EXCEPT !.kind = "get", !.pins = AllPins]
<1>1. AllPins \in Pins /\ AllPins.version # None
  BY DEF GetBegins, PinInv, ControlInv, TypeOK, OpenInv, AllPins, Pins
<1>2. t \in ReaderState /\ t.pins = AllPins /\ t.kind = "get"
  BY <1>1, IdleReader DEF ReaderState, Kinds
<1>3. ReaderInv(t)
  <2> HIDE DEF t
  <2> QED
    BY <1>1, <1>2 DEF ReaderInv
<1>4. ~closed /\ reader[r].kind = "none" /\ reader' = [reader EXCEPT ![r] = t] /\ Quiet
      /\ heap' = Pin(heap, AllPins)
  BY DEF GetBegins
<1> HIDE DEF t
<1> QED
  BY <1>2, <1>3, <1>4, Takes

(* Get drops them under the mutex.                                             *)
LEMMA GetEndsKeeps == ASSUME PinInv, NEW r \in Readers, GetEnds(r) PROVE PinInv'
<1>2. reader[r].pins.version # None
  BY DEF PinInv, ControlInv, ReadersInv, ReaderInv, GetEnds
<1> QED
  BY <1>2, IdleReader, Drops DEF GetEnds

(* GetApproximateSizes takes the current version only: the memtables' counts   *)
(* stay.                                                                       *)
LEMMA SizesBeginsKeeps == ASSUME PinInv, NEW r \in Readers, SizesBegins(r) PROVE PinInv'
<1> DEFINE t == [Idle EXCEPT !.kind = "sizes", !.pins.version = current]
<1>1. /\ TypeOK /\ ConstantsOK /\ Balanced(heap, MemCount, VersionCount, bg.version)
      /\ reader[r].kind = "none" /\ reader[r].pins = NoPins
  BY DEF PinInv, ControlInv, CountInv, TypeOK, SizesBegins, ReadersInv, ReaderInv
<1>2. current \in Versions /\ VersionCount[current] > 0
  BY OpenHeld DEF SizesBegins
<1>3. t = [Idle EXCEPT !.kind = "sizes", !.pins = [NoPins EXCEPT !.version = current]]
  BY IdleReader
<1>4. /\ t.pins \in Pins /\ t \in ReaderState /\ t.kind = "sizes" /\ t.pins.version = current
      /\ t.pins.mem = None /\ t.pins.imm = None
  <2> DEFINE p == [NoPins EXCEPT !.version = current]
  <2>1. p \in Pins /\ p.version = current /\ p.mem = None /\ p.imm = None
    BY <1>2, IdleReader DEF Pins
  <2> HIDE DEF p
  <2>2. t = [Idle EXCEPT !.kind = "sizes", !.pins = p]
    BY <1>3 DEF p
  <2> HIDE DEF t
  <2>3. t \in ReaderState /\ t.kind = "sizes" /\ t.pins = p
    BY <2>1, <2>2, IdleReader DEF ReaderState, Kinds
  <2> QED
    BY <2>1, <2>3
<1>5. /\ reader' = [reader EXCEPT ![r] = t] /\ Quiet /\ ~closed
      /\ heap' = RefVersion(heap, current)
  BY DEF SizesBegins
<1> HIDE DEF t
<1>6. ReaderInv(t)
  BY <1>2, <1>4 DEF ReaderInv, None, Versions
<1>7. /\ \A x \in Mems : MemCount'[x] = MemCount[x]
      /\ \A x \in Versions : VersionCount'[x] = VersionCount[x] + One(current, x)
  <2>1. /\ \A x \in Mems : MemCount'[x] = MemCount[x] - One(NoPins.mem, x) - One(NoPins.imm, x)
                                            + One(t.pins.mem, x) + One(t.pins.imm, x)
        /\ \A x \in Versions : VersionCount'[x] = VersionCount[x] - One(NoPins.version, x)
                                                    + One(t.pins.version, x)
    <3>1. UNCHANGED <<mem, imm, current, bg>>
      BY <1>5 DEF Quiet
    <3> QED
      BY <1>1, <1>5, <3>1, ReaderCounts
  <2>2. /\ \A x \in Mems : MemCount[x] \in Nat
        /\ \A x \in Versions : VersionCount[x] \in Nat
    BY <1>1, Held
  <2>3. /\ NoPins.mem = None /\ NoPins.imm = None /\ NoPins.version = None
        /\ \A x \in Mems : One(None, x) = 0
        /\ \A x \in Versions : One(None, x) = 0
    BY DEF NoPins, One, None, Mems, Versions
  <2>4. \A x \in Versions : One(current, x) \in Nat
    BY DEF One
  <2> QED
    BY <1>4, <2>1, <2>2, <2>3, <2>4
<1>8. Balanced(heap', MemCount', VersionCount', bg.version) /\ heap'.files = heap.files
  <2>1. Balanced(heap', MemCount, VersionCount', bg.version)
    <3> DEFINE nv == VersionCount'
    <3>1. \A x \in Versions : nv[x] = VersionCount[x] + One(current, x)
      BY <1>7
    <3> HIDE DEF nv
    <3>2. Balanced(RefVersion(heap, current), MemCount, nv, bg.version)
      BY <1>1, <1>2, <3>1, RefVersionKeeps
    <3> QED
      BY <1>5, <3>2 DEF nv
  <2>2. Balanced(heap', MemCount', VersionCount', bg.version)
    BY <1>7, <2>1 DEF Balanced, MemsCounted
  <2>3. heap \in Heap
    BY <1>1 DEF Balanced
  <2> QED
    BY <1>5, <2>2, <2>3, FilesStay
<1> QED
  BY <1>4, <1>5, <1>6, <1>8, ReaderStep

(* GetApproximateSizes drops the version.                                      *)
LEMMA SizesEndsKeeps == ASSUME PinInv, NEW r \in Readers, SizesEnds(r) PROVE PinInv'
<1>2. /\ reader[r].pins.version # None /\ reader[r].pins.mem = None /\ reader[r].pins.imm = None
  BY DEF PinInv, ControlInv, ReadersInv, ReaderInv, SizesEnds
<1>3. heap' = Unpin(heap, reader[r].pins)
  BY <1>2 DEF SizesEnds, Unpin, UnrefMem
<1> QED
  BY <1>2, <1>3, IdleReader, Drops DEF SizesEnds

(* NewInternalIterator takes the references and registers their release        *)
(* first.                                                                      *)
LEMMA NewInternalIteratorKeeps ==
    ASSUME PinInv, NEW r \in Readers, NewInternalIterator(r) PROVE PinInv'
<1> DEFINE t == [Idle EXCEPT !.kind = "iterator", !.pins = AllPins, !.children = TRUE,
                             !.cleanups = RegisterCleanup(<<>>, 0), !.registered = {0}]
<1>1. AllPins \in Pins /\ AllPins.version # None
  BY DEF NewInternalIterator, PinInv, ControlInv, TypeOK, OpenInv, AllPins, Pins
<1>2. RegisterCleanup(<<>>, 0) = <<0>>
  BY DEF RegisterCleanup
<1>3. /\ t \in ReaderState /\ t.pins = AllPins /\ t.kind = "iterator" /\ t.ran = <<>>
      /\ t.cleanups = <<0>> /\ t.registered = {0}
  <2> DEFINE g == RegisterCleanup(<<>>, 0)
             c == {0}
  <2>1. g \in Seq(Nat) /\ g = <<0>> /\ c \in SUBSET Nat /\ c = {0}
    <3>1. <<0>> \in Seq(Nat) /\ {0} \in SUBSET Nat
      OBVIOUS
    <3> QED
      BY <1>2, <3>1, Zenon
  <2>2. t = [Idle EXCEPT !.kind = "iterator", !.pins = AllPins, !.children = TRUE,
                         !.cleanups = g, !.registered = c]
    OBVIOUS
  <2> HIDE DEF g, c, t
  <2>3. /\ t \in ReaderState /\ t.pins = AllPins /\ t.kind = "iterator" /\ t.ran = <<>>
        /\ t.cleanups = g /\ t.registered = c
    BY <1>1, <2>1, <2>2, IdleReader DEF ReaderState, Kinds
  <2> QED
    BY <2>1, <2>3
<1>4. ReaderInv(t)
  <2> HIDE DEF t
  <2>1. Len(t.ran) = 0 /\ Len(t.cleanups) = 1 /\ t.cleanups[1] = 0 /\ t.cleanups # <<>>
    BY <1>3
  <2>2. Items(t.ran) = {} /\ Items(t.cleanups) = {0} /\ t.registered = {0} /\ {0} = 0..(0 + 1 - 1)
    BY <1>3, <2>1 DEF Items
  <2> QED
    BY <1>1, <1>3, <2>1, <2>2 DEF ReaderInv
<1>5. ~closed /\ reader[r].kind = "none" /\ reader' = [reader EXCEPT ![r] = t] /\ Quiet
      /\ heap' = Pin(heap, AllPins)
  BY DEF NewInternalIterator
<1> HIDE DEF t
<1> QED
  BY <1>3, <1>4, <1>5, Takes

(* RegisterCleanup puts a function behind the first: the release stays the     *)
(* first to run, and what is registered is what is to run and what ran.        *)
LEMMA RegisterClientKeeps == ASSUME PinInv, NEW r \in Readers, RegisterClient(r) PROVE PinInv'
<1> DEFINE old == reader[r]
           s   == old.cleanups
           c   == Len(s)
           g   == RegisterCleanup(s, c)
           t   == [old EXCEPT !.cleanups = g, !.registered = old.registered \union {c}]
<1>1. /\ old \in ReaderState /\ s \in Seq(Nat) /\ c \in Nat /\ ReaderInv(old)
      /\ old.kind = "iterator" /\ ~closed
  BY DEF PinInv, ControlInv, TypeOK, ReadersInv, RegisterClient, ReaderState, OpenInv
<1>2. old.ran = <<>> /\ Len(old.ran) = 0
  BY <1>1 DEF ReaderInv
<1>3. /\ s # <<>> /\ s[1] = 0 /\ old.pins.version # None
      /\ old.registered = 0..(0 + c - 1)
      /\ Items(old.ran) \union Items(s) = old.registered
      /\ \A i \in 1..c : s[i] = 0 => i = 1
  BY <1>1, <1>2 DEF ReaderInv
<1>4. /\ reader' = [reader EXCEPT ![r] = t] /\ Quiet /\ UNCHANGED heap
  BY <1>1 DEF RegisterClient, PinInv, ControlInv, TypeOK
<1> HIDE DEF g
<1>5. /\ g \in Seq(Nat) /\ Len(g) = c + 1 /\ g[1] = s[1] /\ g[2] = c
      /\ \A i \in 2..c : g[i + 1] = s[i]
      /\ Items(g) = Items(s) \union {c}
  BY <1>1, <1>3, Registering DEF g
<1>6. /\ t \in ReaderState /\ t.cleanups = g /\ t.registered = old.registered \union {c}
      /\ t.pins = old.pins /\ t.kind = "iterator" /\ t.ran = <<>>
  BY <1>1, <1>2, <1>5 DEF ReaderState
<1>7. c > 0
  BY <1>1, <1>3
<1> HIDE DEF t, c, s, old
<1>8. ReaderInv(t)
  <2>1. t.registered = 0..(Len(t.ran) + Len(t.cleanups) - 1)
    <3>1. 0..(0 + c - 1) \union {c} = 0..(0 + (c + 1) - 1)
      BY <1>1
    <3> QED
      BY <1>2, <1>3, <1>5, <1>6, <3>1
  <2>2. Items(t.ran) \union Items(t.cleanups) = t.registered
    BY <1>2, <1>3, <1>5, <1>6
  <2>3. t.cleanups # <<>> /\ t.cleanups[1] = 0 /\ t.pins.version # None
    BY <1>1, <1>3, <1>5, <1>6
  <2>4. ASSUME NEW i \in 1..Len(t.cleanups), t.cleanups[i] = 0 PROVE i = 1
    <3>1. CASE i = 2
      BY <1>5, <1>6, <1>7, <2>4, <3>1
    <3>2. CASE i > 2
      <4>1. i - 1 \in 2..c /\ (i - 1) + 1 = i /\ i - 1 \in 1..c
        BY <1>1, <1>5, <1>6, <2>4, <3>2
      <4>2. s[i - 1] = 0
        BY <1>5, <1>6, <2>4, <4>1
      <4> QED
        BY <1>3, <4>1, <4>2, <3>2
    <3> QED
      BY <1>1, <1>5, <1>6, <2>4, <3>1, <3>2
  <2> QED
    BY <1>6, <2>1, <2>2, <2>3, <2>4 DEF ReaderInv
<1> QED
  BY <1>1, <1>4, <1>6, <1>8, Holds DEF old

(* ~MergingIterator deletes its children, and drops nothing yet.               *)
LEMMA DeleteChildrenKeeps == ASSUME PinInv, NEW r \in Readers, DeleteChildren(r) PROVE PinInv'
<1> DEFINE old == reader[r]
           t   == [old EXCEPT !.kind = "deleting", !.children = FALSE]
<1>1. old \in ReaderState /\ ReaderInv(old) /\ old.kind = "iterator" /\ ~closed
  BY DEF PinInv, ControlInv, TypeOK, ReadersInv, DeleteChildren, OpenInv
<1>2. reader' = [reader EXCEPT ![r] = t] /\ Quiet /\ UNCHANGED heap
  BY <1>1 DEF DeleteChildren, PinInv, ControlInv, TypeOK
<1>3. /\ t \in ReaderState /\ t.kind = "deleting" /\ t.pins = old.pins /\ t.ran = old.ran
      /\ t.cleanups = old.cleanups /\ t.registered = old.registered
  BY <1>1 DEF ReaderState, Kinds
<1> HIDE DEF t
<1>4. ReaderInv(t)
  BY <1>1, <1>3 DEF ReaderInv
<1> QED
  BY <1>1, <1>2, <1>3, <1>4, Holds

(* ~Iterator runs the next function; the first of them, and no other, drops    *)
(* what is pinned.                                                             *)
LEMMA RunCleanupKeeps == ASSUME PinInv, NEW r \in Readers, RunCleanup(r) PROVE PinInv'
<1> DEFINE old == reader[r]
           s   == old.cleanups
           c   == Head(s)
           a   == Tail(s)
           b   == Append(old.ran, c)
           t   == [old EXCEPT !.cleanups = a, !.ran = b, !.pins = IF c = 0 THEN NoPins ELSE old.pins]
<1>1. /\ old \in ReaderState /\ s \in Seq(Nat) /\ old.ran \in Seq(Nat) /\ s # <<>> /\ ReaderInv(old)
      /\ old.kind = "deleting" /\ ~closed
  BY DEF PinInv, ControlInv, TypeOK, ReadersInv, RunCleanup, ReaderState, OpenInv
<1>2. /\ reader' = [reader EXCEPT ![r] = t] /\ Quiet
      /\ heap' = IF c = 0 THEN Unpin(heap, old.pins) ELSE heap
  BY <1>1 DEF RunCleanup, PinInv, ControlInv, TypeOK
<1>3. /\ old.registered = 0..(Len(old.ran) + Len(s) - 1)
      /\ Items(old.ran) \union Items(s) = old.registered
      /\ old.ran = <<>> => s[1] = 0 /\ old.pins.version # None
      /\ old.ran # <<>> => old.ran[1] = 0 /\ old.pins = NoPins
      /\ \A i \in 1..Len(s) : s[i] = 0 => i = 1 /\ old.ran = <<>>
  BY <1>1 DEF ReaderInv
<1>4. /\ a \in Seq(Nat) /\ b \in Seq(Nat) /\ c = s[1] /\ Len(a) = Len(s) - 1
      /\ Len(b) = Len(old.ran) + 1 /\ b # <<>>
      /\ old.ran = <<>> => b[1] = s[1]
      /\ old.ran # <<>> => b[1] = old.ran[1]
      /\ \A i \in 1..Len(a) : a[i] = s[i + 1] /\ i + 1 \in 1..Len(s)
      /\ Items(b) \union Items(a) = Items(old.ran) \union Items(s)
  <2> HIDE DEF old
  <2> QED
    BY <1>1, Running
<1>5. /\ Len(old.ran) \in Nat /\ Len(s) \in Nat /\ Len(s) > 0
  BY <1>1
<1>6. c = 0 <=> old.ran = <<>>
  <2>1. 1 \in 1..Len(s)
    BY <1>5
  <2> QED
    BY <1>3, <1>4, <2>1
<1> HIDE DEF a, b, c
<1>7. /\ t \in ReaderState /\ t.kind = "deleting" /\ t.ran = b /\ t.cleanups = a
      /\ t.registered = old.registered /\ t.pins = IF c = 0 THEN NoPins ELSE old.pins
  BY <1>1, <1>4 DEF ReaderState, Pins, NoPins
<1> HIDE DEF t, s, old
<1>8. ReaderInv(t)
  <2>1. t.registered = 0..(Len(t.ran) + Len(t.cleanups) - 1)
    <3>1. Len(b) + Len(a) - 1 = Len(old.ran) + Len(s) - 1
      BY <1>4, <1>5
    <3> QED
      BY <1>3, <1>7, <3>1
  <2>2. Items(t.ran) \union Items(t.cleanups) = t.registered
    BY <1>3, <1>4, <1>7
  <2>3. t.ran # <<>> /\ t.ran[1] = 0 /\ t.pins = NoPins
    BY <1>3, <1>4, <1>6, <1>7
  <2>4. ASSUME NEW i \in 1..Len(t.cleanups) PROVE t.cleanups[i] # 0
    <3>1. i \in 1..Len(a) /\ i + 1 # 1
      BY <1>4, <1>5, <1>7
    <3> QED
      BY <1>3, <1>4, <1>7, <3>1
  <2> QED
    BY <1>7, <2>1, <2>2, <2>3, <2>4 DEF ReaderInv
<1>9. CASE c = 0
  <2>1. old.pins.version # None /\ t.pins = NoPins /\ heap' = Unpin(heap, old.pins)
    BY <1>2, <1>3, <1>6, <1>7, <1>9
  <2> QED
    BY <1>1, <1>2, <1>7, <1>8, <2>1, Drops DEF old
<1>10. CASE c # 0
  BY <1>1, <1>2, <1>7, <1>8, <1>10, Holds DEF old
<1> QED
  BY <1>9, <1>10

(* When the last function has run the iterator is gone and nothing is pinned.  *)
LEMMA DeletedIteratorKeeps == ASSUME PinInv, NEW r \in Readers, DeletedIterator(r) PROVE PinInv'
<1>2. reader[r].pins = NoPins
  BY DEF PinInv, ControlInv, ReadersInv, ReaderInv, DeletedIterator
<1> QED
  BY <1>2, IdleReader, Holds DEF DeletedIterator

-----------------------------------------------------------------------------
(* What the steps of the database and of the background thread start from.     *)
LEMMA Facts ==
    ASSUME PinInv
    PROVE  /\ TypeOK /\ ConstantsOK /\ heap \in Heap
           /\ Balanced(heap, MemCount, VersionCount, bg.version)
           /\ bg.pc # "idle" => ~closed
           /\ mem \in Mems \union {None} /\ imm \in Mems \union {None}
           /\ current \in Versions \union {None} /\ bg.input \in Versions \union {None}
           /\ bg.base \in Versions \union {None} /\ bg.version \in Versions \union {None}
           /\ \A x \in Mems : MemCount[x] \in Nat /\ MemCount[x] >= One(mem, x) + One(imm, x)
           /\ \A x \in Versions :
                 /\ VersionCount[x] \in Nat
                 /\ VersionCount[x] >= One(current, x) + One(bg.input, x) + One(bg.base, x)
           /\ \A x \in Mems : One(None, x) = 0
           /\ \A x \in Versions : One(None, x) = 0
<1>1. TypeOK /\ ConstantsOK /\ Balanced(heap, MemCount, VersionCount, bg.version) /\ heap \in Heap
  BY DEF PinInv, ControlInv, CountInv, TypeOK, Balanced
<1>2. /\ \A x \in Mems : MemCount[x] \in Nat /\ MemCount[x] >= One(mem, x) + One(imm, x)
      /\ \A x \in Versions :
            /\ VersionCount[x] \in Nat
            /\ VersionCount[x] >= One(current, x) + One(bg.input, x) + One(bg.base, x)
  BY <1>1, Held
<1>3. /\ bg.pc # "idle" => ~closed
      /\ mem \in Mems \union {None} /\ imm \in Mems \union {None}
      /\ current \in Versions \union {None} /\ bg.input \in Versions \union {None}
      /\ bg.base \in Versions \union {None} /\ bg.version \in Versions \union {None}
  BY DEF PinInv, ControlInv, TypeOK, BgState, OpenInv
<1>4. /\ \A x \in Mems : One(None, x) = 0
      /\ \A x \in Versions : One(None, x) = 0
  BY DEF One, None, Mems, Versions
<1> QED
  BY <1>1, <1>2, <1>3, <1>4

(* A step of the writers or of the background thread: readers stay as they     *)
(* are, and it is left to show that the counts are right.                      *)
LEMMA OwnStep ==
    ASSUME PinInv, UNCHANGED reader,
           mem' \in Mems \union {None}, imm' \in Mems \union {None},
           current' \in Versions \union {None}, bg' \in BgState,
           error' \in BOOLEAN, closed' \in BOOLEAN, OpenInv', BgInv', InputsInv',
           Balanced(heap', MemCount', VersionCount', bg'.version)
    PROVE  PinInv'
<1>1. TypeOK'
  BY DEF PinInv, ControlInv, TypeOK
<1>2. ReadersInv'
  BY DEF PinInv, ControlInv, ReadersInv
<1> QED
  BY <1>1, <1>2 DEF PinInv, ControlInv, CountInv

(* Only the values of the counts matter.                                       *)
LEMMA Same ==
    ASSUME ConstantsOK, NEW h, NEW mc, NEW vc, NEW fresh, Balanced(h, mc, vc, fresh),
           NEW nc, \A x \in Mems : nc[x] = mc[x], NEW nv, \A x \in Versions : nv[x] = vc[x]
    PROVE  Balanced(h, nc, nv, fresh)
<1>1. MemsCounted(h, nc)
  BY DEF Balanced, MemsCounted
<1>2. fresh # None => fresh \in Versions
  BY DEF Balanced, VersionsCounted, Heap, ConstantsOK, Versions, None
<1>3. VersionsCounted(h, nv, fresh)
  BY <1>2 DEF Balanced, VersionsCounted
<1> QED
  BY <1>1, <1>3 DEF Balanced

(* MakeRoomForWrite: mem_ becomes imm_ and keeps its reference, the new one    *)
(* gets its own.                                                               *)
LEMMA SwitchMemTableKeeps == ASSUME PinInv, SwitchMemTable PROVE PinInv'
<1> DEFINE m  == Fresh(heap.created.mems)
           nc == MemCount'
<1>1. /\ heap' = RefMem([heap EXCEPT !.created.mems = m], m) /\ mem' = m /\ imm' = mem
      /\ imm = None /\ ~closed /\ heap.created.mems < MaxMems
      /\ UNCHANGED <<current, reader, bg, error, closed>>
  BY DEF SwitchMemTable
<1>2. m \in Mems /\ m # None /\ mem \in Mems
  BY <1>1, Facts DEF Heap, Fresh, Mems, None, PinInv, ControlInv, OpenInv, ConstantsOK
<1>3. /\ \A x \in Mems : nc[x] = MemCount[x] + One(m, x)
      /\ \A x \in Versions : VersionCount'[x] = VersionCount[x]
  <2>1. TypeOK
    BY Facts
  <2>2. /\ \A x \in Mems : nc[x] = MemCount[x] - One(mem, x) - One(imm, x) + One(m, x) + One(mem, x)
        /\ \A x \in Versions :
             VersionCount'[x] = VersionCount[x] - One(current, x) - One(bg.input, x)
                                  - One(bg.base, x) + One(current, x) + One(bg.input, x)
                                  + One(bg.base, x)
    BY <1>1, <2>1, OwnCounts
  <2> HIDE DEF m, nc
  <2>3. ASSUME NEW x \in Mems PROVE nc[x] = MemCount[x] + One(m, x)
    BY <1>1, <2>2, Facts DEF One
  <2>4. ASSUME NEW x \in Versions PROVE VersionCount'[x] = VersionCount[x]
    BY <2>2, Facts DEF One
  <2> QED
    BY <2>3, <2>4
<1>4. Balanced(heap', nc, VersionCount, bg.version)
  <2>1. /\ ConstantsOK /\ Balanced(heap, MemCount, VersionCount, bg.version)
    BY Facts
  <2> HIDE DEF nc, m
  <2>2. m = Fresh(heap.created.mems)
    BY DEF m
  <2>3. Balanced(RefMem([heap EXCEPT !.created.mems = m], m), nc, VersionCount, bg.version)
    BY <1>1, <1>3, <2>1, <2>2, SwitchKeeps
  <2> QED
    BY <1>1, <2>3
<1>5. Balanced(heap', MemCount', VersionCount', bg'.version)
  <2> DEFINE nv == VersionCount'
  <2>1. ConstantsOK /\ \A x \in Versions : nv[x] = VersionCount[x]
    BY <1>3, Facts
  <2> HIDE DEF nc, nv
  <2>2. Balanced(heap', nc, nv, bg.version)
    BY <1>4, <2>1, Same
  <2> QED
    BY <1>1, <2>2 DEF nc, nv
<1>6. heap'.files = heap.files
  BY <1>1, <1>2 DEF RefMem
<1>7. OpenInv' /\ BgInv' /\ InputsInv'
  BY <1>1, <1>2, <1>6, Facts DEF PinInv, ControlInv, OpenInv, BgInv, InputsInv, None, Mems
<1> QED
  BY <1>1, <1>2, <1>5, <1>7, Facts, OwnStep DEF TypeOK

(* A step that leaves the memtables alone: the version takes one reference     *)
(* more, or one reference less.                                                *)
LEMMA MemsStay ==
    ASSUME PinInv, UNCHANGED <<reader, mem, imm>>
    PROVE  \A x \in Mems : MemCount'[x] = MemCount[x]
<1>1. TypeOK
  BY Facts
<1>2. \A x \in Mems : MemCount'[x] = MemCount[x] - One(mem, x) - One(imm, x) + One(mem, x) + One(imm, x)
  BY <1>1, OwnCounts
<1> QED
  BY <1>2, Facts DEF One

(* The background thread takes one more reference of the current version.      *)
LEMMA VersionTaken ==
    ASSUME PinInv, UNCHANGED <<reader, mem, imm>>, ~closed, heap' = RefVersion(heap, current),
           bg'.version = bg.version,
           \A x \in Versions : VersionCount'[x] = VersionCount[x] + One(current, x)
    PROVE  Balanced(heap', MemCount', VersionCount', bg'.version) /\ heap'.files = heap.files
<1> DEFINE nc == MemCount'
           nv == VersionCount'
<1>1. /\ ConstantsOK /\ Balanced(heap, MemCount, VersionCount, bg.version) /\ heap \in Heap
      /\ current \in Versions /\ VersionCount[current] > 0
  BY Facts, OpenHeld
<1>2. /\ \A x \in Mems : nc[x] = MemCount[x]
      /\ \A x \in Versions : nv[x] = VersionCount[x] + One(current, x)
  BY MemsStay
<1> HIDE DEF nc, nv
<1>3. Balanced(heap', MemCount, nv, bg.version)
  BY <1>1, <1>2, RefVersionKeeps
<1>4. Balanced(heap', nc, nv, bg.version)
  <2>1. \A x \in Versions : nv[x] = nv[x]
    OBVIOUS
  <2> QED
    BY <1>1, <1>2, <1>3, <2>1, Same
<1>5. heap'.files = heap.files
  BY <1>1, FilesStay
<1> QED
  BY <1>4, <1>5 DEF nc, nv

(* A reference to a version is dropped by one who has it.                      *)
LEMMA VersionDropped ==
    ASSUME PinInv, UNCHANGED <<reader, mem, imm>>, NEW v \in Versions, VersionCount[v] > 0,
           heap' = UnrefVersion(heap, v), bg'.version = bg.version,
           \A x \in Versions : VersionCount'[x] = VersionCount[x] - One(v, x)
    PROVE  Balanced(heap', MemCount', VersionCount', bg'.version) /\ heap'.files = heap.files
<1> DEFINE nc == MemCount'
           nv == VersionCount'
<1>1. /\ ConstantsOK /\ Balanced(heap, MemCount, VersionCount, bg.version) /\ heap \in Heap
  BY Facts
<1>2. /\ \A x \in Mems : nc[x] = MemCount[x]
      /\ \A x \in Versions : nv[x] = VersionCount[x] - One(v, x)
  BY MemsStay
<1> HIDE DEF nc, nv
<1>3. Balanced(heap', MemCount, nv, bg.version) /\ heap'.files = heap.files
  BY <1>1, <1>2, UnrefVersionKeeps
<1>4. Balanced(heap', nc, nv, bg.version)
  <2>1. \A x \in Versions : nv[x] = nv[x]
    OBVIOUS
  <2> QED
    BY <1>1, <1>2, <1>3, <2>1, Same
<1> QED
  BY <1>3, <1>4 DEF nc, nv

(* CompactMemTable takes the current version as its base.                      *)
LEMMA MemTableBeginsKeeps == ASSUME PinInv, MemTableBegins PROVE PinInv'
<1>1. /\ imm # None /\ ~closed /\ bg.base = None /\ bg.version = None
      /\ heap' = RefVersion(heap, current)
      /\ bg' = [bg EXCEPT !.pc = "table", !.base = current]
      /\ UNCHANGED <<mem, imm, current, reader, error, closed>>
  BY Facts DEF MemTableBegins, PinInv, ControlInv, BgInv
<1>2. current \in Versions /\ current # None /\ bg \in BgState
  BY <1>1, OpenHeld, Facts DEF TypeOK, Versions, None
<1>3. /\ bg' \in BgState /\ bg'.pc = "table" /\ bg'.base = current
      /\ bg'.input = bg.input /\ bg'.inputs = bg.inputs /\ bg'.version = bg.version /\ bg'.moved = bg.moved
  BY <1>1, <1>2 DEF BgState
<1>4. \A x \in Versions : VersionCount'[x] = VersionCount[x] + One(current, x)
  <2>1. TypeOK
    BY Facts
  <2>2. \A x \in Versions :
             VersionCount'[x] = VersionCount[x] - One(current, x) - One(bg.input, x)
                                  - One(bg.base, x) + One(current, x) + One(bg.input, x)
                                  + One(current, x)
    BY <1>1, <1>3, <2>1, OwnCounts
  <2> QED
    BY <1>1, <2>2, Facts DEF One
<1>5. Balanced(heap', MemCount', VersionCount', bg'.version) /\ heap'.files = heap.files
  BY <1>1, <1>3, <1>4, VersionTaken
<1>6. OpenInv' /\ BgInv' /\ InputsInv'
  BY <1>1, <1>2, <1>3, <1>5 DEF PinInv, ControlInv, OpenInv, BgInv, InputsInv
<1> QED
  BY <1>1, <1>3, <1>5, <1>6, Facts, OwnStep DEF TypeOK

(* The table could not be written: the base is let go of, imm_ stays.          *)
LEMMA MemTableFailsKeeps == ASSUME PinInv, MemTableFails PROVE PinInv'
<1>1. /\ bg.pc = "table" /\ ~closed /\ bg.base # None /\ bg.version = None /\ imm # None
      /\ heap' = UnrefVersion(heap, bg.base)
      /\ bg' = [bg EXCEPT !.pc = Back(bg), !.base = None] /\ error' = TRUE
      /\ UNCHANGED <<mem, imm, current, reader, closed>>
  BY Facts DEF MemTableFails, PinInv, ControlInv, BgInv
<1>2. bg.base \in Versions /\ bg \in BgState
  BY <1>1, Facts DEF TypeOK
<1>3. /\ bg' \in BgState /\ bg'.pc = Back(bg) /\ bg'.base = None
      /\ bg'.input = bg.input /\ bg'.inputs = bg.inputs /\ bg'.version = bg.version /\ bg'.moved = bg.moved
  BY <1>1, <1>2 DEF BgState, Back
<1>4. /\ VersionCount[bg.base] > 0
      /\ \A x \in Versions : VersionCount'[x] = VersionCount[x] - One(bg.base, x)
  <2>1. TypeOK
    BY Facts
  <2>2. \A x \in Versions :
             VersionCount'[x] = VersionCount[x] - One(current, x) - One(bg.input, x)
                                  - One(bg.base, x) + One(current, x) + One(bg.input, x)
                                  + One(None, x)
    BY <1>1, <1>3, <2>1, OwnCounts
  <2> QED
    BY <1>2, <2>2, Facts DEF One
<1>5. Balanced(heap', MemCount', VersionCount', bg'.version) /\ heap'.files = heap.files
  BY <1>1, <1>2, <1>3, <1>4, VersionDropped
<1>6. OpenInv' /\ BgInv' /\ InputsInv'
  BY <1>1, <1>2, <1>3, <1>5 DEF PinInv, ControlInv, OpenInv, BgInv, InputsInv, Back
<1> QED
  BY <1>1, <1>3, <1>5, <1>6, Facts, OwnStep DEF TypeOK

(* PickCompaction takes the version of the inputs.                             *)
LEMMA PickCompactionKeeps == ASSUME PinInv, PickCompaction PROVE PinInv'
<1>1. PICK inputs \in SUBSET heap.files[current] \ {{}} :
          bg' = [BgIdle EXCEPT !.pc = "work", !.input = current, !.inputs = inputs]
  BY DEF PickCompaction
<1>2. /\ bg.pc = "idle" /\ ~closed /\ bg.base = None /\ bg.version = None /\ bg.input = None
      /\ heap' = RefVersion(heap, current)
      /\ UNCHANGED <<mem, imm, current, reader, error, closed>>
  BY Facts DEF PickCompaction, PinInv, ControlInv, BgInv
<1>3. current \in Versions /\ current # None /\ inputs \in SUBSET Metas /\ inputs \subseteq heap.files[current]
  <2>1. current \in Versions /\ current # None
    BY <1>2, OpenHeld DEF Versions, None
  <2>2. heap.files \in [Versions -> SUBSET Metas]
    BY Facts DEF Heap
  <2>3. heap.files[current] \in SUBSET Metas
    BY <2>1, <2>2
  <2> QED
    BY <2>1, <2>3
<1>4. BgIdle \in BgState /\ BgIdle.base = None /\ BgIdle.version = None /\ ~BgIdle.moved
  BY DEF BgIdle, BgState, None
<1>5. /\ bg' \in BgState /\ bg'.pc = "work" /\ bg'.base = None
      /\ bg'.input = current /\ bg'.inputs = inputs /\ bg'.version = None /\ ~bg'.moved
  BY <1>1, <1>3, <1>4 DEF BgState
<1>6. \A x \in Versions : VersionCount'[x] = VersionCount[x] + One(current, x)
  <2>1. TypeOK
    BY Facts
  <2>2. \A x \in Versions :
             VersionCount'[x] = VersionCount[x] - One(current, x) - One(None, x)
                                  - One(None, x) + One(current, x) + One(current, x)
                                  + One(None, x)
    BY <1>2, <1>5, <2>1, OwnCounts
  <2> QED
    BY <2>2, Facts DEF One
<1>7. Balanced(heap', MemCount', VersionCount', bg'.version) /\ heap'.files = heap.files
  BY <1>2, <1>5, <1>6, VersionTaken
<1>8. OpenInv' /\ BgInv' /\ InputsInv'
  BY <1>2, <1>3, <1>5, <1>7 DEF PinInv, ControlInv, OpenInv, BgInv, InputsInv
<1> QED
  BY <1>2, <1>5, <1>7, <1>8, Facts, OwnStep DEF TypeOK

(* DoCompactionWork fails: nothing is dropped before the Compaction is         *)
(* deleted.                                                                    *)
LEMMA CompactionFailsKeeps == ASSUME PinInv, CompactionFails PROVE PinInv'
<1>1. /\ bg.pc = "work" /\ ~closed /\ bg.base = None /\ bg.version = None /\ bg.input # None
      /\ bg' = [bg EXCEPT !.pc = "release"] /\ error' = TRUE
      /\ UNCHANGED <<heap, mem, imm, current, reader, closed>>
  BY Facts DEF CompactionFails, PinInv, ControlInv, BgInv
<1>2. /\ bg' \in BgState /\ bg'.pc = "release" /\ bg'.base = bg.base
      /\ bg'.input = bg.input /\ bg'.inputs = bg.inputs /\ bg'.version = bg.version /\ bg'.moved = bg.moved
  BY <1>1, Facts DEF TypeOK, BgState
<1>3. MemCount' = MemCount /\ VersionCount' = VersionCount
  <2>1. MemPin' = MemPin /\ ImmPin' = ImmPin /\ VersionPin' = VersionPin
    BY <1>1 DEF MemPin, ImmPin, VersionPin
  <2> QED
    BY <1>1, <1>2, <2>1 DEF MemCount, VersionCount
<1>4. Balanced(heap', MemCount', VersionCount', bg'.version)
  BY <1>1, <1>2, <1>3, Facts
<1>5. OpenInv' /\ BgInv' /\ InputsInv'
  BY <1>1, <1>2 DEF PinInv, ControlInv, OpenInv, BgInv, InputsInv
<1> QED
  BY <1>1, <1>2, <1>4, <1>5, Facts, OwnStep DEF TypeOK

(* ~Compaction drops the version of the inputs, unless ReleaseInputs did.      *)
LEMMA DeleteCompactionKeeps == ASSUME PinInv, DeleteCompaction PROVE PinInv'
<1>1. /\ bg.pc = "release" /\ ~closed /\ bg.base = None /\ bg.version = None /\ bg.input # None
      /\ bg' = BgIdle
      /\ UNCHANGED <<mem, imm, current, reader, error, closed>>
  BY Facts DEF DeleteCompaction, PinInv, ControlInv, BgInv
<1>2. heap' = UnrefVersion(heap, bg.input)
  <2>1. CASE bg.moved
    <3>1. /\ ReleaseInputs(heap, bg).heap = heap /\ ReleaseInputs(heap, bg).input = bg.input
      BY <2>1 DEF ReleaseInputs
    <3> QED
      BY <1>1, <3>1 DEF DeleteCompaction
  <2>2. CASE ~bg.moved
    <3>1. /\ ReleaseInputs(heap, bg).heap = UnrefVersion(heap, bg.input)
          /\ ReleaseInputs(heap, bg).input = None
      BY <2>2 DEF ReleaseInputs
    <3> QED
      BY <3>1 DEF DeleteCompaction
  <2> QED
    BY <2>1, <2>2
<1>3. bg.input \in Versions /\ bg \in BgState
  BY <1>1, Facts DEF TypeOK
<1>4. /\ BgIdle \in BgState /\ BgIdle.pc = "idle" /\ BgIdle.base = None /\ BgIdle.version = None
      /\ BgIdle.input = None /\ BgIdle.inputs = {} /\ ~BgIdle.moved
  BY DEF BgIdle, BgState, None
<1>5. /\ VersionCount[bg.input] > 0
      /\ \A x \in Versions : VersionCount'[x] = VersionCount[x] - One(bg.input, x)
  <2>1. TypeOK
    BY Facts
  <2>2. \A x \in Versions :
             VersionCount'[x] = VersionCount[x] - One(current, x) - One(bg.input, x)
                                  - One(None, x) + One(current, x) + One(None, x)
                                  + One(None, x)
    BY <1>1, <1>4, <2>1, OwnCounts
  <2> QED
    BY <1>3, <2>2, Facts DEF One
<1>6. Balanced(heap', MemCount', VersionCount', bg'.version) /\ heap'.files = heap.files
  BY <1>1, <1>2, <1>3, <1>4, <1>5, VersionDropped
<1>7. OpenInv' /\ BgInv' /\ InputsInv'
  BY <1>1, <1>4 DEF PinInv, ControlInv, OpenInv, BgInv, InputsInv
<1> QED
  BY <1>1, <1>4, <1>6, <1>7, Facts, OwnStep DEF TypeOK

(* The other versions keep their files.                                        *)
LEMMA BuildFiles ==
    ASSUME NEW h \in Heap, NEW v, NEW deleted, NEW added
    PROVE  \A x \in Versions : x # v => BuildVersion(h, v, deleted, added).files[x] = h.files[x]
<1> DEFINE g == DropFiles(SaveTo(Apply(RefVersion(h, current), added), v, current, deleted, added), added)
<1>1. \A x \in Versions : x # v => g.files[x] = h.files[x]
  BY DEF Heap, RefVersion, Apply, SaveTo, DropFiles
<1>2. UnrefVersion(g, current).files = g.files
  <2> HIDE DEF g
  <2> QED
    BY DEF UnrefVersion, DeleteVersion, DropFiles
<1> QED
  BY <1>1, <1>2 DEF BuildVersion, DeleteBuilder

(* LogAndApply builds the new version from what is left of the counts.         *)
LEMMA BuildStep ==
    ASSUME PinInv, UNCHANGED <<reader, mem, imm>>, bg.version = None,
           NEW h, h.files = heap.files, h.created = heap.created,
           NEW vc, Balanced(h, MemCount, vc, None),
           current \in Versions, vc[current] > 0,
           heap.created.versions < MaxVersions,
           NEW deleted, deleted \subseteq 1..heap.created.metas,
           NEW added \in {{}, {Fresh(heap.created.metas)}}, added \subseteq Metas,
           heap' = BuildVersion(h, Fresh(heap.created.versions), deleted, added),
           bg'.version = Fresh(heap.created.versions),
           \A x \in Versions : VersionCount'[x] = vc[x]
    PROVE  /\ Balanced(heap', MemCount', VersionCount', bg'.version)
           /\ bg'.version \in Versions
           /\ \A x \in Versions : vc[x] > 0 => heap'.files[x] = heap.files[x]
<1> DEFINE nc == MemCount'
           nv == VersionCount'
           v  == Fresh(heap.created.versions)
<1>1. ConstantsOK /\ \A x \in Mems : nc[x] = MemCount[x]
  BY Facts, MemsStay
<1>2. v \in Versions
  <2>1. heap.created.versions \in 0..MaxVersions /\ MaxVersions \in Nat
    BY Facts DEF Heap, ConstantsOK
  <2> QED
    BY <2>1 DEF Fresh, Versions
<1>3. /\ h.created.versions < MaxVersions /\ v = Fresh(h.created.versions)
      /\ deleted \subseteq 1..h.created.metas /\ added \in {{}, {Fresh(h.created.metas)}}
  OBVIOUS
<1>4. heap' = BuildVersion(h, v, deleted, added) /\ bg'.version = v
  OBVIOUS
<1> HIDE DEF nc, nv, v
<1>5. /\ Balanced(heap', MemCount, vc, v)
      /\ \A x \in Versions : x # v => heap'.files[x] = h.files[x]
  <2>1. /\ ConstantsOK /\ Balanced(h, MemCount, vc, None)
        /\ current \in Versions /\ vc[current] > 0
        /\ h.created.versions < MaxVersions /\ v = Fresh(h.created.versions)
        /\ deleted \subseteq 1..h.created.metas
        /\ added \in {{}, {Fresh(h.created.metas)}} /\ added \subseteq Metas
    BY <1>1, <1>3
  <2>2. Balanced(BuildVersion(h, v, deleted, added), MemCount, vc, v)
    BY ONLY <2>1, BuildKeeps
  <2>3. \A x \in Versions : x # v => BuildVersion(h, v, deleted, added).files[x] = h.files[x]
    BY BuildFiles DEF Balanced
  <2> QED
    BY <1>4, <2>2, <2>3
<1>6. Balanced(heap', nc, nv, v)
  <2>1. \A x \in Versions : nv[x] = vc[x]
    BY DEF nv
  <2> QED
    BY <1>1, <1>5, <2>1, Same
<1>7. vc[v] = 0
  <2>1. v > h.created.versions
    <3>1. heap.created.versions \in Nat
      BY Facts DEF Heap
    <3> QED
      BY <3>1 DEF v, Fresh
  <2> QED
    BY <1>2, <2>1 DEF Balanced, VersionsCounted
<1> QED
  BY <1>2, <1>4, <1>5, <1>6, <1>7 DEF nc, nv

(* The version of CompactMemTable is built from current_ when the base is let  *)
(* go.                                                                         *)
LEMMA MemTableBuiltKeeps == ASSUME PinInv, MemTableBuilt PROVE PinInv'
<1>1. PICK added \in {{}, {Fresh(heap.created.metas)}} :
        /\ added \subseteq Metas /\ heap.created.versions < MaxVersions
        /\ heap' = BuildVersion(UnrefVersion(heap, bg.base), Fresh(heap.created.versions), {}, added)
        /\ bg' = [bg EXCEPT !.pc = "memlog", !.base = None, !.version = Fresh(heap.created.versions)]
  BY DEF MemTableBuilt
<1>2. /\ bg.pc = "table" /\ ~closed /\ bg.base # None /\ bg.version = None /\ imm # None
      /\ UNCHANGED <<mem, imm, current, reader, error, closed>>
  BY Facts DEF MemTableBuilt, PinInv, ControlInv, BgInv
<1>3. bg.base \in Versions /\ bg \in BgState /\ current \in Versions
  BY <1>2, Facts, OpenHeld DEF TypeOK
<1> DEFINE vc == [x \in Versions |-> VersionCount[x] - One(bg.base, x)]
           h  == UnrefVersion(heap, bg.base)
<1>4. Balanced(h, MemCount, vc, None) /\ h.files = heap.files /\ h.created = heap.created
  <2>1. VersionCount[bg.base] > 0
    BY <1>3, Facts DEF One
  <2>2. \A x \in Versions : vc[x] = VersionCount[x] - One(bg.base, x)
    OBVIOUS
  <2>3. ConstantsOK /\ Balanced(heap, MemCount, VersionCount, None)
    BY <1>2, Facts
  <2> HIDE DEF vc
  <2> QED
    BY <1>3, <2>1, <2>2, <2>3, UnrefVersionKeeps
<1>5. \A x \in Versions : x = current \/ x = bg.input => vc[x] > 0
  <2>1. ASSUME NEW x \in Versions, x = current \/ x = bg.input PROVE vc[x] > 0
    BY <2>1, Facts DEF One
  <2> QED
    BY <2>1
<1>6. Fresh(heap.created.versions) \in Versions
  <2>1. heap.created.versions \in 0..MaxVersions /\ MaxVersions \in Nat
    BY Facts DEF Heap, ConstantsOK
  <2> QED
    BY <1>1, <2>1 DEF Fresh, Versions
<1>7. /\ bg' \in BgState /\ bg'.pc = "memlog" /\ bg'.base = None
      /\ bg'.input = bg.input /\ bg'.inputs = bg.inputs /\ bg'.moved = bg.moved
      /\ bg'.version = Fresh(heap.created.versions)
  BY <1>1, <1>3, <1>6 DEF BgState
<1>8. \A x \in Versions : VersionCount'[x] = vc[x]
  <2>1. TypeOK
    BY Facts
  <2>2. \A x \in Versions :
             VersionCount'[x] = VersionCount[x] - One(current, x) - One(bg.input, x)
                                  - One(bg.base, x) + One(current, x) + One(bg.input, x)
                                  + One(None, x)
    BY <1>2, <1>7, <2>1, OwnCounts
  <2> QED
    BY <2>2, Facts DEF One
<1>9. /\ Balanced(heap', MemCount', VersionCount', bg'.version)
      /\ bg.input # None => heap'.files[bg.input] = heap.files[bg.input]
  <2> DEFINE deleted == {}
  <2>1. /\ heap' = BuildVersion(h, Fresh(heap.created.versions), deleted, added)
        /\ deleted \subseteq 1..heap.created.metas /\ added \subseteq Metas
        /\ heap.created.versions < MaxVersions /\ UNCHANGED <<reader, mem, imm>>
        /\ bg.version = None /\ bg'.version = Fresh(heap.created.versions)
        /\ vc[current] > 0 /\ current \in Versions
    BY <1>1, <1>2, <1>3, <1>5, <1>7
  <2>2. bg.input # None => bg.input \in Versions
    BY Facts
  <2> HIDE DEF vc, h, deleted
  <2> QED
    <3>1. /\ Balanced(heap', MemCount', VersionCount', bg'.version)
          /\ \A x \in Versions : vc[x] > 0 => heap'.files[x] = heap.files[x]
      BY <1>4, <1>8, <2>1, BuildStep
    <3> QED
      BY <1>5, <2>2, <3>1
<1>10. OpenInv' /\ BgInv' /\ InputsInv'
  BY <1>2, <1>6, <1>7, <1>9 DEF PinInv, ControlInv, OpenInv, BgInv, InputsInv, None, Versions
<1> QED
  BY <1>2, <1>7, <1>9, <1>10, Facts, OwnStep DEF TypeOK

(* The version of a compaction is built: it has no reference, but counts in    *)
(* its files.                                                                  *)
LEMMA CompactionBuiltKeeps == ASSUME PinInv, CompactionBuilt PROVE PinInv'
<1>1. PICK added \in {{}, {Fresh(heap.created.metas)}} :
        /\ added \subseteq Metas /\ heap.created.versions < MaxVersions
        /\ heap' = BuildVersion(heap, Fresh(heap.created.versions), bg.inputs, added)
        /\ bg' = [bg EXCEPT !.pc = "log", !.version = Fresh(heap.created.versions)]
  BY DEF CompactionBuilt
<1>2. /\ bg.pc = "work" /\ ~closed /\ bg.base = None /\ bg.version = None /\ bg.input # None
      /\ UNCHANGED <<mem, imm, current, reader, error, closed>>
  BY Facts DEF CompactionBuilt, PinInv, ControlInv, BgInv
<1>3. bg.input \in Versions /\ bg \in BgState /\ current \in Versions
  BY <1>2, Facts, OpenHeld DEF TypeOK
<1>4. VersionCount[current] > 0 /\ VersionCount[bg.input] > 0
  BY <1>3, Facts DEF One
<1>5. bg.inputs \subseteq 1..heap.created.metas
  <2>1. bg.inputs \subseteq heap.files[bg.input]
    BY <1>2 DEF PinInv, InputsInv
  <2>2. heap.files[bg.input] \subseteq 1..heap.created.metas
    BY <1>3, Facts DEF Balanced, FilesCounted
  <2> QED
    BY <2>1, <2>2
<1>6. Fresh(heap.created.versions) \in Versions
  <2>1. heap.created.versions \in 0..MaxVersions /\ MaxVersions \in Nat
    BY Facts DEF Heap, ConstantsOK
  <2> QED
    BY <1>1, <2>1 DEF Fresh, Versions
<1>7. /\ bg' \in BgState /\ bg'.pc = "log" /\ bg'.base = None
      /\ bg'.input = bg.input /\ bg'.inputs = bg.inputs /\ bg'.moved = bg.moved
      /\ bg'.version = Fresh(heap.created.versions)
  BY <1>1, <1>2, <1>3, <1>6 DEF BgState
<1>8. \A x \in Versions : VersionCount'[x] = VersionCount[x]
  <2>1. TypeOK
    BY Facts
  <2>2. \A x \in Versions :
             VersionCount'[x] = VersionCount[x] - One(current, x) - One(bg.input, x)
                                  - One(None, x) + One(current, x) + One(bg.input, x)
                                  + One(None, x)
    BY <1>2, <1>7, <2>1, OwnCounts
  <2> QED
    BY <2>2, Facts DEF One
<1>9. /\ Balanced(heap', MemCount', VersionCount', bg'.version)
      /\ heap'.files[bg.input] = heap.files[bg.input]
  <2> DEFINE vc == VersionCount
  <2>1. Balanced(heap, MemCount, vc, None) /\ vc[current] > 0 /\ vc[bg.input] > 0
    BY <1>2, <1>4, Facts
  <2>2. \A x \in Versions : VersionCount'[x] = vc[x]
    BY <1>8
  <2> HIDE DEF vc
  <2>3. /\ Balanced(heap', MemCount', VersionCount', bg'.version)
        /\ \A x \in Versions : vc[x] > 0 => heap'.files[x] = heap.files[x]
    BY <1>1, <1>2, <1>3, <1>5, <1>7, <2>1, <2>2, BuildStep
  <2> QED
    BY <1>3, <2>1, <2>3
<1>10. OpenInv' /\ BgInv' /\ InputsInv'
  BY <1>2, <1>6, <1>7, <1>9 DEF PinInv, ControlInv, OpenInv, BgInv, InputsInv, None, Versions
<1> QED
  BY <1>2, <1>7, <1>9, <1>10, Facts, OwnStep DEF TypeOK

(* A trivial move builds a version with new metadata for the file it moves.    *)
LEMMA TrivialMoveKeeps == ASSUME PinInv, TrivialMove PROVE PinInv'
<1> DEFINE added == {Fresh(heap.created.metas)}
           h  == RefVersion(heap, current)
           vc == [x \in Versions |-> VersionCount[x] + One(current, x)]
<1>1. PICK f \in heap.files[current] :
        /\ heap' = BuildVersion(h, Fresh(heap.created.versions), {f}, added)
        /\ bg' = [pc |-> "log", input |-> current, inputs |-> {f}, base |-> None,
                  version |-> Fresh(heap.created.versions), moved |-> TRUE]
  BY DEF TrivialMove
<1>2. /\ bg.pc = "idle" /\ ~closed /\ bg.base = None /\ bg.version = None /\ bg.input = None
      /\ heap.created.versions < MaxVersions /\ heap.created.metas < MaxMetas
      /\ UNCHANGED <<mem, imm, current, reader, error, closed>>
  BY Facts DEF TrivialMove, PinInv, ControlInv, BgInv
<1>3. current \in Versions /\ current # None /\ VersionCount[current] > 0
  BY <1>2, OpenHeld DEF Versions, None
<1>4. Balanced(h, MemCount, vc, None) /\ h.files = heap.files /\ h.created = heap.created
  <2>1. \A x \in Versions : vc[x] = VersionCount[x] + One(current, x)
    OBVIOUS
  <2>2. ConstantsOK /\ Balanced(heap, MemCount, VersionCount, None)
    BY <1>2, Facts
  <2>3. h.files = heap.files /\ h.created = heap.created
    BY Facts DEF RefVersion, Heap
  <2> HIDE DEF vc
  <2> QED
    BY <1>3, <2>1, <2>2, <2>3, RefVersionKeeps
<1>5. vc[current] > 0
  BY <1>3, Facts DEF One
<1>6. Fresh(heap.created.versions) \in Versions /\ added \subseteq Metas
  BY <1>2, Facts DEF Heap, Fresh, Versions, Metas, ConstantsOK
<1>7. f \in Metas /\ {f} \subseteq 1..heap.created.metas
  <2>1. heap.files[current] \subseteq Metas /\ heap.files[current] \subseteq 1..heap.created.metas
    BY <1>3, Facts DEF Heap, Balanced, FilesCounted
  <2> QED
    BY <2>1
<1>8. /\ bg' \in BgState /\ bg'.pc = "log" /\ bg'.base = None
      /\ bg'.input = current /\ bg'.inputs = {f} /\ bg'.moved = TRUE
      /\ bg'.version = Fresh(heap.created.versions)
  BY <1>1, <1>3, <1>6, <1>7 DEF BgState
<1>9. \A x \in Versions : VersionCount'[x] = vc[x]
  <2>1. TypeOK
    BY Facts
  <2>2. \A x \in Versions :
             VersionCount'[x] = VersionCount[x] - One(current, x) - One(None, x)
                                  - One(None, x) + One(current, x) + One(current, x)
                                  + One(None, x)
    BY <1>2, <1>8, <2>1, OwnCounts
  <2> QED
    BY <2>2, Facts DEF One
<1>10. /\ Balanced(heap', MemCount', VersionCount', bg'.version)
       /\ heap'.files[current] = heap.files[current]
  <2>1. added \in {{}, {Fresh(heap.created.metas)}}
    OBVIOUS
  <2> HIDE DEF vc, h, added
  <2> DEFINE deleted == {f}
  <2>2. /\ heap' = BuildVersion(h, Fresh(heap.created.versions), deleted, added)
        /\ deleted \subseteq 1..heap.created.metas
    BY <1>1, <1>7
  <2> HIDE DEF deleted
  <2>3. /\ Balanced(heap', MemCount', VersionCount', bg'.version)
        /\ \A x \in Versions : vc[x] > 0 => heap'.files[x] = heap.files[x]
    BY <1>2, <1>3, <1>4, <1>5, <1>6, <1>8, <1>9, <2>1, <2>2, BuildStep
  <2> QED
    BY <1>3, <1>5, <2>3
<1>11. OpenInv' /\ BgInv' /\ InputsInv'
  BY <1>2, <1>3, <1>6, <1>8, <1>10 DEF PinInv, ControlInv, OpenInv, BgInv, InputsInv, None, Versions
<1> QED
  BY <1>2, <1>8, <1>10, <1>11, Facts, OwnStep DEF TypeOK

(* AppendVersion: the new version is installed in the place of the current one. *)
LEMMA AppendKeeps ==
    ASSUME PinInv, ~closed, bg.version # None,
           NEW nv, \A x \in Versions : nv[x] = VersionCount[x] - One(current, x) + One(bg.version, x)
    PROVE  /\ Balanced(AppendVersion(heap, bg.version), MemCount, nv, None)
           /\ AppendVersion(heap, bg.version).files = heap.files
<1> DEFINE vc == [x \in Versions |-> VersionCount[x] - One(current, x)]
           v  == bg.version
           h  == UnrefVersion(heap, current)
<1>1. /\ ConstantsOK /\ Balanced(heap, MemCount, VersionCount, v)
      /\ current \in Versions /\ VersionCount[current] > 0 /\ v \in Versions /\ v # None
  BY Facts, OpenHeld
<1>2. /\ \A x \in Versions : vc[x] = VersionCount[x] - One(current, x)
      /\ \A x \in Versions : nv[x] = vc[x] + One(v, x)
  OBVIOUS
<1>3. AppendVersion(heap, v) = RefVersion(h, v)
  BY DEF AppendVersion
<1> HIDE DEF vc, v
<1>4. Balanced(h, MemCount, vc, v) /\ h.files = heap.files
  BY <1>1, <1>2, UnrefVersionKeeps
<1>5. h \in Heap
  BY <1>4 DEF Balanced
<1> HIDE DEF h
<1>6. Balanced(RefVersion(h, v), MemCount, nv, None)
  BY <1>1, <1>2, <1>4, RefVersionKeeps
<1>7. RefVersion(h, v).files = h.files
  BY <1>5, FilesStay
<1> QED
  BY <1>3, <1>4, <1>6, <1>7 DEF v

(* LogAndApply succeeds for a compaction: the version becomes current.         *)
LEMMA CompactionLoggedKeeps == ASSUME PinInv, CompactionLogged PROVE PinInv'
<1>1. /\ bg.pc = "log" /\ ~closed /\ bg.base = None /\ bg.version # None /\ bg.input # None
      /\ heap' = AppendVersion(heap, bg.version) /\ current' = bg.version
      /\ bg' = [bg EXCEPT !.pc = "release", !.version = None]
      /\ UNCHANGED <<mem, imm, reader, error, closed>>
  BY Facts DEF CompactionLogged, PinInv, ControlInv, BgInv
<1>2. /\ bg' \in BgState /\ bg'.pc = "release" /\ bg'.base = bg.base /\ bg'.version = None
      /\ bg'.input = bg.input /\ bg'.inputs = bg.inputs /\ bg'.moved = bg.moved
  BY <1>1, Facts DEF TypeOK, BgState
<1>3. \A x \in Versions : VersionCount'[x] = VersionCount[x] - One(current, x) + One(bg.version, x)
  <2>1. TypeOK
    BY Facts
  <2>2. \A x \in Versions :
             VersionCount'[x] = VersionCount[x] - One(current, x) - One(bg.input, x)
                                  - One(bg.base, x) + One(bg.version, x) + One(bg.input, x)
                                  + One(bg.base, x)
    BY <1>1, <1>2, <2>1, OwnCounts
  <2> QED
    BY <2>2, Facts DEF One
<1>4. Balanced(heap', MemCount', VersionCount', bg'.version) /\ heap'.files = heap.files
  <2> DEFINE nc == MemCount'
             nv == VersionCount'
  <2>1. /\ ConstantsOK /\ \A x \in Mems : nc[x] = MemCount[x]
        /\ \A x \in Versions : nv[x] = VersionCount[x] - One(current, x) + One(bg.version, x)
        /\ \A x \in Versions : nv[x] = nv[x]
    BY <1>1, <1>3, Facts, MemsStay
  <2> HIDE DEF nc, nv
  <2>2. Balanced(heap', MemCount, nv, None) /\ heap'.files = heap.files
    BY <1>1, <2>1, AppendKeeps
  <2>3. Balanced(heap', nc, nv, None)
    BY <2>1, <2>2, Same
  <2> QED
    BY <1>2, <2>2, <2>3 DEF nc, nv
<1>5. OpenInv' /\ BgInv' /\ InputsInv'
  BY <1>1, <1>2, <1>4 DEF PinInv, ControlInv, OpenInv, BgInv, InputsInv
<1> QED
  BY <1>1, <1>2, <1>4, <1>5, Facts, OwnStep DEF TypeOK

(* LogAndApply succeeds for a memtable: imm_ loses its reference with it.      *)
LEMMA MemTableLoggedKeeps == ASSUME PinInv, MemTableLogged PROVE PinInv'
<1>1. /\ bg.pc = "memlog" /\ ~closed /\ bg.base = None /\ bg.version # None /\ imm # None
      /\ heap' = UnrefMem(AppendVersion(heap, bg.version), imm)
      /\ current' = bg.version /\ imm' = None
      /\ bg' = [bg EXCEPT !.pc = Back(bg), !.version = None]
      /\ UNCHANGED <<mem, reader, error, closed>>
  BY Facts DEF MemTableLogged, PinInv, ControlInv, BgInv
<1>2. /\ bg' \in BgState /\ bg'.pc = Back(bg) /\ bg'.base = bg.base /\ bg'.version = None
      /\ bg'.input = bg.input /\ bg'.inputs = bg.inputs /\ bg'.moved = bg.moved
  BY <1>1, Facts DEF TypeOK, BgState, Back
<1>3. /\ \A x \in Versions : VersionCount'[x] = VersionCount[x] - One(current, x) + One(bg.version, x)
      /\ \A x \in Mems : MemCount'[x] = MemCount[x] - One(imm, x)
  <2>1. TypeOK
    BY Facts
  <2>2. \A x \in Versions :
             VersionCount'[x] = VersionCount[x] - One(current, x) - One(bg.input, x)
                                  - One(bg.base, x) + One(bg.version, x) + One(bg.input, x)
                                  + One(bg.base, x)
    BY <1>1, <1>2, <2>1, OwnCounts
  <2>3. \A x \in Mems : MemCount'[x] = MemCount[x] - One(mem, x) - One(imm, x) + One(mem, x)
                                         + One(None, x)
    BY <1>1, <2>1, OwnCounts
  <2>4. \A x \in Mems : MemCount'[x] = MemCount[x] - One(imm, x)
    BY <2>3, Facts DEF One
  <2>5. \A x \in Versions : VersionCount'[x] = VersionCount[x] - One(current, x) + One(bg.version, x)
    BY <2>2, Facts DEF One
  <2> QED
    BY <2>4, <2>5
<1>4. Balanced(heap', MemCount', VersionCount', bg'.version) /\ heap'.files = heap.files
  <2> DEFINE nc == MemCount'
             nv == VersionCount'
             h  == AppendVersion(heap, bg.version)
  <2>1. /\ \A x \in Mems : nc[x] = MemCount[x] - One(imm, x)
        /\ \A x \in Versions : nv[x] = VersionCount[x] - One(current, x) + One(bg.version, x)
    BY <1>3
  <2> HIDE DEF nc, nv
  <2>2. Balanced(h, MemCount, nv, None) /\ h.files = heap.files
    BY <1>1, <2>1, AppendKeeps
  <2>3. /\ ConstantsOK /\ imm \in Mems \union {None}
        /\ imm # None => MemCount[imm] > 0
    BY <1>1, Facts, OpenHeld
  <2>4. heap' = UnrefMem(h, imm)
    BY <1>1
  <2>5. h \in Heap
    BY <2>2 DEF Balanced
  <2> HIDE DEF h
  <2>6. Balanced(heap', nc, nv, None)
    BY <2>1, <2>2, <2>3, <2>4, UnrefMemKeeps
  <2>7. heap'.files = h.files
    BY <2>4, <2>5, FilesStay
  <2> QED
    BY <1>2, <2>2, <2>6, <2>7 DEF nc, nv
<1>5. OpenInv' /\ BgInv' /\ InputsInv'
  BY <1>1, <1>2, <1>4 DEF PinInv, ControlInv, OpenInv, BgInv, InputsInv, Back
<1> QED
  BY <1>1, <1>2, <1>4, <1>5, Facts, OwnStep DEF TypeOK

(* The manifest was not written: the version that was built is deleted.        *)
LEMMA VersionGivenUp ==
    ASSUME PinInv, UNCHANGED <<reader, mem, imm, current>>, bg.version # None,
           heap' = DeleteVersion(heap, bg.version),
           bg'.version = None, bg'.input = bg.input, bg'.base = bg.base
    PROVE  Balanced(heap', MemCount', VersionCount', bg'.version) /\ heap'.files = heap.files
<1>1. ConstantsOK /\ Balanced(heap, MemCount, VersionCount, bg.version) /\ heap \in Heap
  BY Facts
<1>2. Balanced(heap', MemCount, VersionCount, None)
  BY <1>1, DeleteKeeps
<1>3. MemCount' = MemCount /\ VersionCount' = VersionCount
  <2>1. MemPin' = MemPin /\ ImmPin' = ImmPin /\ VersionPin' = VersionPin
    BY DEF MemPin, ImmPin, VersionPin
  <2> QED
    BY <2>1 DEF MemCount, VersionCount
<1>4. heap'.files = heap.files
  BY <1>1, FilesStay
<1> QED
  BY <1>2, <1>3, <1>4

(* LogAndApply fails for a memtable: the version is deleted, imm_ stays.       *)
LEMMA MemTableNotLoggedKeeps == ASSUME PinInv, MemTableNotLogged PROVE PinInv'
<1>1. /\ bg.pc = "memlog" /\ ~closed /\ bg.base = None /\ bg.version # None /\ imm # None
      /\ heap' = DeleteVersion(heap, bg.version)
      /\ bg' = [bg EXCEPT !.pc = Back(bg), !.version = None] /\ error' = TRUE
      /\ UNCHANGED <<mem, imm, current, reader, closed>>
  BY Facts DEF MemTableNotLogged, PinInv, ControlInv, BgInv
<1>2. /\ bg' \in BgState /\ bg'.pc = Back(bg) /\ bg'.base = bg.base /\ bg'.version = None
      /\ bg'.input = bg.input /\ bg'.inputs = bg.inputs /\ bg'.moved = bg.moved
  BY <1>1, Facts DEF TypeOK, BgState, Back
<1>3. Balanced(heap', MemCount', VersionCount', bg'.version) /\ heap'.files = heap.files
  BY <1>1, <1>2, VersionGivenUp
<1>4. OpenInv' /\ BgInv' /\ InputsInv'
  BY <1>1, <1>2, <1>3 DEF PinInv, ControlInv, OpenInv, BgInv, InputsInv, Back
<1> QED
  BY <1>1, <1>2, <1>3, <1>4, Facts, OwnStep DEF TypeOK

(* LogAndApply fails for a compaction: the version is deleted.                 *)
LEMMA CompactionNotLoggedKeeps == ASSUME PinInv, CompactionNotLogged PROVE PinInv'
<1>1. /\ bg.pc = "log" /\ ~closed /\ bg.base = None /\ bg.version # None /\ bg.input # None
      /\ heap' = DeleteVersion(heap, bg.version)
      /\ bg' = [bg EXCEPT !.pc = "release", !.version = None] /\ error' = TRUE
      /\ UNCHANGED <<mem, imm, current, reader, closed>>
  BY Facts DEF CompactionNotLogged, PinInv, ControlInv, BgInv
<1>2. /\ bg' \in BgState /\ bg'.pc = "release" /\ bg'.base = bg.base /\ bg'.version = None
      /\ bg'.input = bg.input /\ bg'.inputs = bg.inputs /\ bg'.moved = bg.moved
  BY <1>1, Facts DEF TypeOK, BgState
<1>3. Balanced(heap', MemCount', VersionCount', bg'.version) /\ heap'.files = heap.files
  BY <1>1, <1>2, VersionGivenUp
<1>4. OpenInv' /\ BgInv' /\ InputsInv'
  BY <1>1, <1>2, <1>3 DEF PinInv, ControlInv, OpenInv, BgInv, InputsInv
<1> QED
  BY <1>1, <1>2, <1>3, <1>4, Facts, OwnStep DEF TypeOK

(* ~DBImpl drops the references of the database; nobody reads any more.        *)
LEMMA CloseKeeps == ASSUME PinInv, Close PROVE PinInv'
<1>1. /\ ~closed /\ bg.pc = "idle" /\ bg.base = None /\ bg.version = None /\ bg.input = None
      /\ \A r \in Readers : reader[r].kind = "none"
      /\ heap' = UnrefMem(UnrefMem(UnrefVersion(heap, current), mem), imm)
      /\ mem' = None /\ imm' = None /\ current' = None /\ closed' = TRUE
      /\ UNCHANGED <<reader, bg, error>>
  BY Facts DEF Close, PinInv, ControlInv, BgInv
<1>2. /\ ConstantsOK /\ Balanced(heap, MemCount, VersionCount, bg.version)
      /\ current \in Versions /\ VersionCount[current] > 0
      /\ mem \in Mems \union {None} /\ imm \in Mems \union {None}
  BY <1>1, Facts, OpenHeld
<1> DEFINE nc == MemCount'
           nv == VersionCount'
           mc == [x \in Mems |-> MemCount[x] - One(mem, x)]
           h1 == UnrefVersion(heap, current)
           h2 == UnrefMem(h1, mem)
<1>3. /\ \A x \in Mems : nc[x] = MemCount[x] - One(mem, x) - One(imm, x)
      /\ \A x \in Versions : nv[x] = VersionCount[x] - One(current, x)
  <2>1. TypeOK
    BY Facts
  <2>2. \A x \in Versions :
             nv[x] = VersionCount[x] - One(current, x) - One(None, x)
                       - One(None, x) + One(None, x) + One(None, x)
                       + One(None, x)
    BY <1>1, <2>1, OwnCounts
  <2>3. \A x \in Mems : nc[x] = MemCount[x] - One(mem, x) - One(imm, x) + One(None, x) + One(None, x)
    BY <1>1, <2>1, OwnCounts
  <2> HIDE DEF nc, nv
  <2>4. \A x \in Mems : nc[x] = MemCount[x] - One(mem, x) - One(imm, x)
    BY <2>3, Facts DEF One
  <2>5. \A x \in Versions : nv[x] = VersionCount[x] - One(current, x)
    BY <2>2, Facts DEF One
  <2> QED
    BY <2>4, <2>5
<1>4. /\ \A x \in Mems : mc[x] = MemCount[x] - One(mem, x)
      /\ \A x \in Mems : nc[x] = mc[x] - One(imm, x)
      /\ mem # None => MemCount[mem] > 0
      /\ imm # None => mc[imm] > 0
  <2> HIDE DEF nc
  <2>1. mem # None => MemCount[mem] > 0
    BY <1>2, Facts DEF One
  <2>2. imm # None => mc[imm] > 0
    BY <1>2, Facts DEF One
  <2> QED
    BY <1>3, <2>1, <2>2
<1>5. heap' = UnrefMem(h2, imm)
  BY <1>1
<1> HIDE DEF nc, nv, mc
<1>6. Balanced(h1, MemCount, nv, bg.version)
  BY <1>2, <1>3, UnrefVersionKeeps
<1> HIDE DEF h1
<1>7. Balanced(h2, mc, nv, bg.version)
  BY <1>2, <1>4, <1>6, UnrefMemKeeps
<1> HIDE DEF h2
<1>8. Balanced(heap', nc, nv, bg.version)
  BY <1>2, <1>4, <1>5, <1>7, UnrefMemKeeps
<1>9. Balanced(heap', MemCount', VersionCount', bg'.version)
  BY <1>1, <1>8 DEF nc, nv
<1>10. OpenInv' /\ BgInv' /\ InputsInv'
  BY <1>1 DEF PinInv, ControlInv, OpenInv, BgInv, InputsInv
<1> QED
  BY <1>1, <1>9, <1>10, Facts, OwnStep DEF TypeOK

(* No step of anybody breaks the invariant.                                    *)
LEMMA StepInv == ASSUME PinInv, [Next]_vars PROVE PinInv'
<1>1. ASSUME NEW r \in Readers,
             \/ GetBegins(r) \/ GetEnds(r) \/ SizesBegins(r) \/ SizesEnds(r)
             \/ NewInternalIterator(r) \/ RegisterClient(r) \/ DeleteChildren(r)
             \/ RunCleanup(r) \/ DeletedIterator(r)
      PROVE  PinInv'
  BY <1>1, GetBeginsKeeps, GetEndsKeeps, SizesBeginsKeeps, SizesEndsKeeps, NewInternalIteratorKeeps,
     RegisterClientKeeps, DeleteChildrenKeeps, RunCleanupKeeps, DeletedIteratorKeeps
<1>2. CASE SwitchMemTable
  BY <1>2, SwitchMemTableKeeps
<1>3. CASE \/ MemTableBegins \/ MemTableBuilt \/ MemTableFails \/ MemTableLogged \/ MemTableNotLogged
  BY <1>3, MemTableBeginsKeeps, MemTableBuiltKeeps, MemTableFailsKeeps, MemTableLoggedKeeps,
     MemTableNotLoggedKeeps
<1>4. CASE \/ PickCompaction \/ TrivialMove \/ CompactionBuilt \/ CompactionFails
           \/ CompactionLogged \/ CompactionNotLogged \/ DeleteCompaction
  BY <1>4, PickCompactionKeeps, TrivialMoveKeeps, CompactionBuiltKeeps, CompactionFailsKeeps,
     CompactionLoggedKeeps, CompactionNotLoggedKeeps, DeleteCompactionKeeps
<1>5. CASE Close
  BY <1>5, CloseKeeps
<1>6. CASE UNCHANGED vars
  <2>1. MemPin' = MemPin /\ ImmPin' = ImmPin /\ VersionPin' = VersionPin
    BY <1>6 DEF vars, MemPin, ImmPin, VersionPin
  <2>2. MemCount' = MemCount /\ VersionCount' = VersionCount
    BY <1>6, <2>1 DEF vars, MemCount, VersionCount
  <2> QED
    BY <1>6, <2>2 DEF vars, PinInv, ControlInv, TypeOK, OpenInv, BgInv, ReadersInv, InputsInv, CountInv
<1> QED
  BY <1>1, <1>2, <1>3, <1>4, <1>5, <1>6 DEF Next

-----------------------------------------------------------------------------
(* What the counts say of the objects.                                         *)
LEMMA MemsHeld == ASSUME PinInv, NEW m \in Mems PROVE MemCount[m] = 0 <=> m \notin HeldMems
<1>1. ASSUME NEW pin
      PROVE  /\ Cardinality(Holders(pin, m)) \in Nat
             /\ Cardinality(Holders(pin, m)) = 0 <=> \A r \in Readers : pin[r] # m
  <2>1. Holders(pin, m) \in SUBSET Readers /\ IsFiniteSet(Readers)
    BY Facts DEF Holders, ConstantsOK
  <2>2. IsFiniteSet(Holders(pin, m)) /\ Cardinality(Holders(pin, m)) \in Nat
    BY <2>1, FS_Subset, FS_CardinalityType
  <2>3. Cardinality(Holders(pin, m)) = 0 <=> Holders(pin, m) = {}
    BY <2>2, FS_EmptySet
  <2> QED
    BY <2>2, <2>3 DEF Holders
<1>2. MemCount[m] = 0 <=> /\ \A r \in Readers : MemPin[r] # m /\ ImmPin[r] # m
                          /\ mem # m /\ imm # m
  BY <1>1 DEF MemCount, One
<1>3. m # None
  BY DEF Mems, None
<1>4. m \in HeldMems <=> \/ \E r \in Readers : reader[r].pins["mem"] = m \/ reader[r].pins["imm"] = m
                         \/ mem = m \/ imm = m
  BY <1>3 DEF HeldMems, Pinned
<1> QED
  BY <1>2, <1>4 DEF MemPin, ImmPin

(* A version has references while, and only while, somebody holds it.          *)
LEMMA VersionsHeld ==
    ASSUME PinInv, NEW v \in Versions
    PROVE  VersionCount[v] = 0 /\ v # bg.version <=> v \notin HeldVersions
<1>1. /\ Cardinality(Holders(VersionPin, v)) \in Nat
      /\ Cardinality(Holders(VersionPin, v)) = 0 <=> \A r \in Readers : VersionPin[r] # v
  <2>1. Holders(VersionPin, v) \in SUBSET Readers /\ IsFiniteSet(Readers)
    BY Facts DEF Holders, ConstantsOK
  <2>2. /\ IsFiniteSet(Holders(VersionPin, v)) /\ Cardinality(Holders(VersionPin, v)) \in Nat
    BY <2>1, FS_Subset, FS_CardinalityType
  <2>3. Cardinality(Holders(VersionPin, v)) = 0 <=> Holders(VersionPin, v) = {}
    BY <2>2, FS_EmptySet
  <2> QED
    BY <2>2, <2>3 DEF Holders
<1>2. VersionCount[v] = 0 <=> /\ \A r \in Readers : VersionPin[r] # v
                              /\ current # v /\ bg.input # v /\ bg.base # v
  BY <1>1 DEF VersionCount, One
<1>3. v # None
  BY DEF Versions, None
<1>4. v \in HeldVersions <=> \/ \E r \in Readers : reader[r].pins["version"] = v
                             \/ current = v \/ bg.input = v \/ bg.base = v \/ bg.version = v
  BY <1>3 DEF HeldVersions, Pinned
<1> QED
  BY <1>2, <1>4 DEF VersionPin

(* The invariant says that nothing that is held is deleted and that the rest   *)
(* is, that no count is negative and that the functions of an iterator ran.    *)
LEMMA PinMeans == ASSUME PinInv PROVE PinnedAlive /\ Collected /\ NeverBelowZero /\ CleanupsRun
<1>1. /\ heap \in Heap /\ ConstantsOK
      /\ MemsCounted(heap, MemCount) /\ VersionsCounted(heap, VersionCount, bg.version)
      /\ FilesCounted(heap)
  BY Facts DEF Balanced
<1>2. /\ heap.created.mems \in 0..MaxMems /\ heap.created.versions \in 0..MaxVersions
      /\ heap.created.metas \in 0..MaxMetas
      /\ heap.dead.mems \subseteq Mems /\ heap.dead.versions \subseteq Versions
      /\ heap.dead.metas \subseteq Metas /\ heap.files \in [Versions -> SUBSET Metas]
  BY <1>1 DEF Heap
<1>3. HeldMems \subseteq Mems /\ HeldVersions \subseteq Versions
  <2>1. \A r \in Readers : /\ reader[r].pins["mem"] \in Mems \union {None}
                           /\ reader[r].pins["imm"] \in Mems \union {None}
                           /\ reader[r].pins["version"] \in Versions \union {None}
    <3>1. \A r \in Readers : reader[r].pins \in Pins
      BY Facts DEF TypeOK, ReaderState
    <3> QED
      BY <3>1 DEF Pins
  <2> QED
    BY <2>1, Facts DEF HeldMems, HeldVersions, Pinned
<1>4. /\ \A m \in HeldMems : m \notin heap.dead.mems
      /\ \A v \in HeldVersions : v \notin heap.dead.versions /\ v <= heap.created.versions
  <2>1. \A m \in HeldMems : m \notin heap.dead.mems
    BY <1>1, <1>3, MemsHeld DEF MemsCounted
  <2>2. ASSUME NEW v \in HeldVersions
        PROVE  v \notin heap.dead.versions /\ v <= heap.created.versions
    <3>1. v \in Versions /\ (VersionCount[v] # 0 \/ v = bg.version)
      BY <1>3, VersionsHeld
    <3>2. /\ v \in heap.dead.versions <=> v <= heap.created.versions /\ VersionCount[v] = 0 /\ v # bg.version
          /\ v > heap.created.versions => VersionCount[v] = 0
          /\ bg.version \in 0..heap.created.versions
      BY <1>1, <3>1 DEF VersionsCounted
    <3>3. v \in Int /\ heap.created.versions \in Int
      BY <1>2, <3>1 DEF Versions
    <3> QED
      BY <3>1, <3>2, <3>3
  <2> QED
    BY <2>1, <2>2
<1>5. \A f \in Metas : Cardinality(Users(heap, f)) = 0 <=> Users(heap, f) = {}
  BY <1>1, UsersFinite, FS_EmptySet
<1>6. \A f \in Metas, v \in HeldVersions : f \in heap.files[v] => f \notin heap.dead.metas
  <2>1. ASSUME NEW f \in Metas, NEW v \in HeldVersions, f \in heap.files[v] PROVE f \notin heap.dead.metas
    <3>1. v \in Users(heap, f)
      BY <1>2, <1>3, <1>4, <2>1 DEF Users, Versions
    <3>2. Cardinality(Users(heap, f)) # 0
      BY <1>5, <3>1
    <3> QED
      BY <1>1, <3>2 DEF FilesCounted
  <2> QED
    BY <2>1
<1>7. PinnedAlive
  <2>1. \A f \in HeldMetas : f \notin heap.dead.metas
    BY <1>2, <1>3, <1>6 DEF HeldMetas
  <2>2. bg.inputs \subseteq HeldMetas
    <3>1. CASE bg.input = None
      BY <3>1 DEF PinInv, ControlInv, BgInv
    <3>2. CASE bg.input # None
      BY <3>2 DEF PinInv, InputsInv, HeldMetas, HeldVersions
    <3> QED
      BY <3>1, <3>2
  <2> QED
    BY <1>4, <2>1, <2>2 DEF PinnedAlive
<1>8. Collected
  <2>1. ASSUME NEW m \in 1..heap.created.mems, m \notin heap.dead.mems PROVE m \in HeldMems
    <3>1. m \in Mems /\ m <= heap.created.mems
      BY <1>1, <1>2 DEF Mems, ConstantsOK
    <3> QED
      BY <1>1, <2>1, <3>1, MemsHeld DEF MemsCounted
  <2>2. ASSUME NEW v \in 1..heap.created.versions, v \notin heap.dead.versions PROVE v \in HeldVersions
    <3>1. v \in Versions /\ v <= heap.created.versions
      BY <1>1, <1>2 DEF Versions, ConstantsOK
    <3> QED
      BY <1>1, <2>2, <3>1, VersionsHeld DEF VersionsCounted
  <2>3. ASSUME NEW f \in 1..heap.created.metas, f \notin heap.dead.metas PROVE f \in HeldMetas
    <3>1. f \in Metas /\ f <= heap.created.metas
      BY <1>1, <1>2 DEF Metas, ConstantsOK
    <3>2. Users(heap, f) # {}
      BY <1>1, <1>5, <2>3, <3>1 DEF FilesCounted
    <3> QED
      BY <2>2, <3>2 DEF Users, HeldMetas
  <2> QED
    BY <2>1, <2>2, <2>3 DEF Collected
<1>9. NeverBelowZero
  <2>1. \A f \in Metas : heap.frefs[f] \in Nat
    BY <1>1, UsersFinite DEF FilesCounted
  <2>2. /\ \A m \in Mems : heap.mrefs[m] \in Nat
        /\ \A v \in Versions : heap.vrefs[v] \in Nat
    BY <1>1 DEF MemsCounted, VersionsCounted
  <2> QED
    BY <2>1, <2>2 DEF NeverBelowZero
<1>10. CleanupsRun
  <2>1. ASSUME NEW r \in Readers, reader[r].kind = "deleting", reader[r].cleanups = <<>>
        PROVE  LET t == reader[r]
               IN  /\ {t.ran[i] : i \in 1..Len(t.ran)} = t.registered
                   /\ Len(t.ran) = Cardinality(t.registered)
                   /\ t.ran[1] = 0
    <3> DEFINE t == reader[r]
               n == Len(t.ran)
    <3>1. t.ran \in Seq(Nat) /\ n \in Nat /\ Len(t.cleanups) = 0 /\ ReaderInv(t)
      BY <2>1, Facts DEF TypeOK, ReaderState, PinInv, ControlInv, ReadersInv
    <3>2. /\ t.registered = 0..(n + 0 - 1) /\ Items(t.ran) \union Items(t.cleanups) = t.registered
          /\ t.ran # <<>> /\ t.ran[1] = 0
      BY <2>1, <3>1 DEF ReaderInv
    <3>3. Items(t.cleanups) = {}
      BY <3>1 DEF Items
    <3>4. Cardinality(0..(n + 0 - 1)) = n
      <4> HIDE DEF n
      <4>1. n + 0 - 1 \in Int /\ n + 0 - 1 = n - 1 /\ 0 \in Int
        BY <3>1
      <4>2. Cardinality(0..(n - 1)) = IF 0 > n - 1 THEN 0 ELSE (n - 1) - 0 + 1
        BY <4>1, FS_Interval
      <4> QED
        BY <3>1, <4>1, <4>2
    <3> QED
      BY <3>1, <3>2, <3>3, <3>4 DEF Items
  <2> QED
    BY <2>1 DEF CleanupsRun
<1> QED
  BY <1>7, <1>8, <1>9, <1>10

(* The invariant holds from the open database on.                              *)
LEMMA PinsInvariant == ASSUME ConstantsOK PROVE Spec => []PinInv
<1>1. Init => PinInv
  BY InitInv
<1>2. PinInv /\ [Next]_vars => PinInv'
  BY StepInv
<1> QED
  BY <1>1, <1>2, PTL DEF Spec

(* NewInternalIterator, Get, GetApproximateSizes, CompactMemTable and          *)
(* DoCompactionWork read without the mutex: for any number of readers, writes  *)
(* and compactions nothing they hold is deleted meanwhile.                     *)
THEOREM HeldStaysAlive == ASSUME ConstantsOK PROVE Spec => []PinnedAlive
<1>1. PinInv => PinnedAlive
  BY PinMeans
<1> QED
  BY <1>1, PinsInvariant, PTL

(* What nobody holds any more was deleted, whatever LogAndApply answered.      *)
THEOREM UnheldIsDeleted == ASSUME ConstantsOK PROVE Spec => []Collected
<1>1. PinInv => Collected
  BY PinMeans
<1> QED
  BY <1>1, PinsInvariant, PTL

(* The assertions of Unref: no reference is dropped twice.                     *)
THEOREM NoReferenceTwice == ASSUME ConstantsOK PROVE Spec => []NeverBelowZero
<1>1. PinInv => NeverBelowZero
  BY PinMeans
<1> QED
  BY <1>1, PinsInvariant, PTL

(* ~Iterator runs every function that was registered, once, the first first.   *)
THEOREM CleanupsAllRun == ASSUME ConstantsOK PROVE Spec => []CleanupsRun
<1>1. PinInv => CleanupsRun
  BY PinMeans
<1> QED
  BY <1>1, PinsInvariant, PTL
=============================================================================

------------------------ MODULE CellTileCacheProofs ------------------------
(***************************************************************************)
(* Proofs about CellTileCache, for any number of VMs, tiles and slots and  *)
(* every cache limit.  The invariant follows each cache object (Entry) and *)
(* says who uses it: two VMs that point to one object have marked it as    *)
(* shared, so what another VM does cannot disturb a private cache.         *)
(***************************************************************************)
EXTENDS CellTileCache, FiniteSetTheorems, TLAPS

(* What one cache object may hold: values for some tiles, not more than    *)
(* the limit, each with the number of tiles that were used before it.      *)
Entry(T, S) ==
  /\ DOMAIN T \subseteq Tiles
  /\ T \in [DOMAIN T -> [Slots -> Values]]
  /\ S \in [DOMAIN T -> Nat]
  /\ Cardinality(DOMAIN T) <= MaxTiles
  /\ \A t \in DOMAIN T : S[t] < Cardinality(DOMAIN T)

CachesOK ==
  /\ DOMAIN tiles = Vms /\ DOMAIN stamp = Vms
  /\ \A c \in Vms : /\ Entry(tiles[c], stamp[c])
                    /\ c \notin present => DOMAIN tiles[c] = {}

VmsOK ==
  /\ live \subseteq Vms /\ Host \in live
  /\ cells \in [Vms -> [Cells -> Values]]
  /\ cacheOf \in [Vms -> Vms]
  /\ present \subseteq Vms /\ poisoned \subseteq Vms /\ shared \subseteq Vms
  /\ pc \in [Vms -> {"idle", "fill", "serve"}]
  /\ want \in [Vms -> SUBSET Tiles] /\ missing \in [Vms -> SUBSET Tiles]

(* Two VMs that use one cache object have marked it; a mutex is poisoned   *)
(* only in a marked one.                                                   *)
SharingIsKnown ==
  /\ \A v, w \in live : v # w /\ cacheOf[v] = cacheOf[w] => cacheOf[v] \in shared
  /\ poisoned \subseteq shared

(* A read spans some tiles that fit the cache together. *)
ReadsFit ==
  \A v \in Vms : pc[v] # "idle" =>
    /\ v \in live /\ missing[v] \subseteq want[v]
    /\ want[v] # {} /\ Cardinality(want[v]) <= MaxTiles

(* In a private cache nothing happens between the critical sections of a   *)
(* read.  A read that found all of its tiles or none of them has them all  *)
(* when it serves.                                                         *)
PrivateReadsKeepTiles ==
  \A v \in live : cacheOf[v] \notin shared =>
    /\ pc[v] = "fill" => /\ missing[v] # {}
                         /\ missing[v] = want[v] \ Resident(cacheOf[v])
    /\ pc[v] = "serve" => /\ cacheOf[v] \in present
                          /\ missing[v] \in {{}, want[v]}
                               => want[v] \subseteq Resident(cacheOf[v])

Inv ==
  /\ VmsOK /\ CachesOK /\ SharingIsKnown /\ ReadsFit
  /\ PrivateReadsKeepTiles /\ PrivateCacheCoherent

-----------------------------------------------------------------------------
(* Recency: ranks order tiles as the stamps do, and stay below their number. *)
LEMMA RankFacts ==
  ASSUME NEW D, IsFiniteSet(D), NEW f \in [D -> Int]
  PROVE  /\ Rank(f) \in [D -> Nat]
         /\ \A t \in D : Rank(f)[t] < Cardinality(D)
         /\ \A a, b \in D : f[a] < f[b] => Rank(f)[a] < Rank(f)[b]
<1> DEFINE Older(t) == {u \in D : f[u] < f[t]}
<1>1. ASSUME NEW t \in D
      PROVE  /\ IsFiniteSet(Older(t)) /\ Cardinality(Older(t)) \in Nat
             /\ Cardinality(Older(t)) < Cardinality(D)
  <2>1. Older(t) \in SUBSET D /\ Older(t) # D
    OBVIOUS
  <2>2. /\ IsFiniteSet(Older(t)) /\ Cardinality(Older(t)) <= Cardinality(D)
        /\ Cardinality(D) # Cardinality(Older(t))
    BY <2>1, FS_Subset
  <2>3. Cardinality(D) \in Nat /\ Cardinality(Older(t)) \in Nat
    BY <2>2, FS_CardinalityType
  <2> HIDE DEF Older
  <2>4. QED
    BY <2>2, <2>3
<1>2. ASSUME NEW a \in D, NEW b \in D, f[a] < f[b]
      PROVE  Cardinality(Older(a)) < Cardinality(Older(b))
  <2>1. Older(a) \in SUBSET Older(b) /\ a \in Older(b) /\ a \notin Older(a)
    BY <1>2
  <2>2. /\ Cardinality(Older(a)) <= Cardinality(Older(b))
        /\ Cardinality(Older(b)) # Cardinality(Older(a))
    BY <1>1, <2>1, FS_Subset
  <2>3. Cardinality(Older(a)) \in Nat /\ Cardinality(Older(b)) \in Nat
    BY <1>1
  <2> HIDE DEF Older
  <2>4. QED
    BY <2>2, <2>3
<1>3. Rank(f) = [t \in D |-> Cardinality(Older(t))]
  BY DEF Rank
<1> HIDE DEF Older
<1>4. QED
  BY <1>1, <1>2, <1>3

LEMMA TileSetsAreFinite ==
  ASSUME NEW D \in SUBSET Tiles
  PROVE  IsFiniteSet(D) /\ Cardinality(D) \in Nat
<1>1. IsFiniteSet(Tiles)
  BY CacheAssumption, FS_Interval DEF Tiles
<1>2. QED
  BY <1>1, FS_Subset, FS_CardinalityType

(* Tiles touched one after the other become the most recently used ones. *)
LEMMA TouchInOrderFacts ==
  ASSUME NEW D \in SUBSET Tiles, NEW S \in SUBSET Tiles, NEW f \in [D -> Nat],
         \A t \in D : f[t] < Cardinality(D)
  PROVE  /\ TouchInOrder(f, S) \in [D \cup S -> Nat]
         /\ \A t \in D \cup S : TouchInOrder(f, S)[t] < Cardinality(D \cup S)
         /\ \A d \in D \ S, s \in S : TouchInOrder(f, S)[d] < TouchInOrder(f, S)[s]
<1> DEFINE Pos(t) == Cardinality({u \in S : u <= t})
           g == [t \in D \cup S |-> IF t \in S THEN Cardinality(D) + Pos(t) ELSE f[t]]
<1>1. IsFiniteSet(D \cup S) /\ Cardinality(D) \in Nat
  BY TileSetsAreFinite
<1>2. \A t : Pos(t) \in Nat
  <2> SUFFICES ASSUME NEW t
               PROVE  Pos(t) \in Nat
    OBVIOUS
  <2>1. {u \in S : u <= t} \in SUBSET Tiles
    OBVIOUS
  <2>2. QED
    BY <2>1, TileSetsAreFinite
<1>3. TouchInOrder(f, S) = Rank(g)
  BY DEF TouchInOrder
<1> HIDE DEF Pos
<1>4. g \in [D \cup S -> Int]
  BY <1>1, <1>2
<1>5. \A d \in D \ S, s \in S : g[d] < g[s]
  BY <1>1, <1>2
<1> HIDE DEF g
<1>6. QED
  BY <1>1, <1>3, <1>4, <1>5, RankFacts

LEMMA TouchTogetherFacts ==
  ASSUME NEW D \in SUBSET Tiles, NEW S, NEW f \in [D -> Nat]
  PROVE  /\ TouchTogether(f, S) \in [D -> Nat]
         /\ \A t \in D : TouchTogether(f, S)[t] < Cardinality(D)
<1> DEFINE g == [t \in D |-> IF t \in S THEN Cardinality(D) ELSE f[t]]
<1>1. IsFiniteSet(D) /\ Cardinality(D) \in Nat
  BY TileSetsAreFinite
<1>2. TouchTogether(f, S) = Rank(g) /\ g \in [D -> Int]
  BY <1>1 DEF TouchTogether
<1> HIDE DEF g
<1>3. QED
  BY <1>1, <1>2, RankFacts

(* Eviction keeps the limit, and keeps the most recently used tiles if     *)
(* they fit it.                                                            *)
LEMMA SurvivorFacts ==
  ASSUME NEW D \in SUBSET Tiles, NEW f \in [D -> Nat], NEW K \in Survivors(f)
  PROVE  /\ K \in SUBSET D /\ Cardinality(K) <= MaxTiles
         /\ \A S \in SUBSET D :
              /\ Cardinality(S) <= MaxTiles
              /\ \A d \in D \ S, s \in S : f[d] < f[s]
              => S \subseteq K
<1>1. /\ K \in SUBSET D
      /\ Cardinality(K) = IF Cardinality(D) <= MaxTiles THEN Cardinality(D) ELSE MaxTiles
      /\ \A k \in K, d \in D \ K : f[d] <= f[k]
  BY DEF Survivors
<1>2. MaxTiles \in Nat /\ Cardinality(D) \in Nat
  BY CacheAssumption, TileSetsAreFinite
<1>3. ASSUME NEW S \in SUBSET D, Cardinality(S) <= MaxTiles,
             \A d \in D \ S, s \in S : f[d] < f[s],
             NEW t \in S, t \notin K
      PROVE  FALSE
  <2>1. K \in SUBSET (S \ {t})
    <3> SUFFICES ASSUME NEW k \in K, k \notin S
                 PROVE  FALSE
      BY <1>3
    <3>1. f[k] < f[t] /\ f[t] <= f[k]
      BY <1>1, <1>3
    <3>2. f[k] \in Nat /\ f[t] \in Nat
      BY <1>1
    <3>3. QED
      BY <3>1, <3>2
  <2>2. IsFiniteSet(S) /\ Cardinality(S) \in Nat
    BY TileSetsAreFinite
  <2>3. IsFiniteSet(S \ {t}) /\ Cardinality(S \ {t}) = Cardinality(S) - 1
    BY <2>2, FS_RemoveElement
  <2>4. Cardinality(K) <= Cardinality(S \ {t})
    BY <2>1, <2>3, FS_Subset
  <2>5. Cardinality(S) <= Cardinality(D)
    BY TileSetsAreFinite, FS_Subset
  <2>6. QED
    BY <1>1, <1>2, <1>3, <2>2, <2>3, <2>4, <2>5
<1>4. Cardinality(K) <= MaxTiles
  BY <1>1, <1>2
<1>5. QED
  BY <1>1, <1>3, <1>4

-----------------------------------------------------------------------------
(* What the operations on one cache object keep. *)
LEMMA EntryFacts ==
  ASSUME NEW T, NEW S, Entry(T, S)
  PROVE  /\ DOMAIN T \in SUBSET Tiles /\ DOMAIN S = DOMAIN T
         /\ IsFiniteSet(DOMAIN T) /\ Cardinality(DOMAIN T) \in Nat
BY TileSetsAreFinite DEF Entry

LEMMA EmptyEntry == Entry(NoTiles, NoStamps) /\ DOMAIN NoTiles = {}
BY CacheAssumption, FS_EmptySet DEF Entry, NoTiles, NoStamps

LEMMA RestrictedEntry ==
  ASSUME NEW T, NEW S, Entry(T, S), NEW D \in SUBSET DOMAIN T
  PROVE  Entry(Restriction(T, D), Rank(Restriction(S, D)))
<1>1. IsFiniteSet(D) /\ Cardinality(D) <= Cardinality(DOMAIN T)
  BY EntryFacts, FS_Subset
<1>2. /\ Cardinality(D) \in Nat /\ Cardinality(DOMAIN T) \in Nat /\ MaxTiles \in Nat
      /\ Cardinality(DOMAIN T) <= MaxTiles
  BY <1>1, EntryFacts, FS_CardinalityType, CacheAssumption DEF Entry
<1>3. /\ Restriction(T, D) \in [D -> [Slots -> Values]]
      /\ Restriction(S, D) \in [D -> Int]
      /\ DOMAIN Restriction(T, D) = D /\ D \subseteq Tiles
  BY DEF Entry, Restriction
<1>4. /\ Rank(Restriction(S, D)) \in [D -> Nat]
      /\ \A t \in D : Rank(Restriction(S, D))[t] < Cardinality(D)
  BY <1>1, <1>3, RankFacts
<1>5. Cardinality(D) <= MaxTiles
  BY <1>1, <1>2
<1>6. QED
  BY <1>3, <1>4, <1>5 DEF Entry

LEMMA PatchedEntry ==
  ASSUME NEW T, NEW S, Entry(T, S), NEW P \in [DOMAIN T -> [Slots -> Values]],
         NEW H \in SUBSET DOMAIN T
  PROVE  Entry(P, TouchInOrder(S, H))
<1>1. DOMAIN T \in SUBSET Tiles /\ S \in [DOMAIN T -> Nat] /\ H \in SUBSET Tiles
      /\ \A t \in DOMAIN T : S[t] < Cardinality(DOMAIN T)
  BY DEF Entry
<1>2. DOMAIN T \cup H = DOMAIN T /\ DOMAIN P = DOMAIN T
  OBVIOUS
<1>3. /\ TouchInOrder(S, H) \in [DOMAIN T -> Nat]
      /\ \A t \in DOMAIN T : TouchInOrder(S, H)[t] < Cardinality(DOMAIN T)
  BY <1>1, <1>2, TouchInOrderFacts
<1>4. QED
  BY <1>2, <1>3 DEF Entry

LEMMA ServedEntry ==
  ASSUME NEW T, NEW S, Entry(T, S), NEW W
  PROVE  Entry(T, TouchTogether(S, W))
BY TouchTogetherFacts DEF Entry

LEMMA FilledEntry ==
  ASSUME NEW T, NEW S, Entry(T, S), NEW M \in SUBSET Tiles,
         NEW F \in [DOMAIN T \cup M -> [Slots -> Values]],
         NEW K \in Survivors(TouchInOrder(S, M))
  PROVE  /\ Entry(Restriction(F, K), Rank(Restriction(TouchInOrder(S, M), K)))
         /\ K \subseteq DOMAIN T \cup M
         /\ Cardinality(M) <= MaxTiles => M \subseteq K
<1> DEFINE D == DOMAIN T \cup M
           used == TouchInOrder(S, M)
<1>1. DOMAIN T \in SUBSET Tiles /\ S \in [DOMAIN T -> Nat]
      /\ \A t \in DOMAIN T : S[t] < Cardinality(DOMAIN T)
  BY DEF Entry
<1>2. /\ used \in [D -> Nat] /\ D \in SUBSET Tiles
      /\ \A d \in DOMAIN T \ M, s \in M : used[d] < used[s]
  BY <1>1, TouchInOrderFacts
<1>3. D \ M \subseteq DOMAIN T \ M /\ M \in SUBSET D
  OBVIOUS
<1> HIDE DEF D, used
<1>4. /\ K \in SUBSET D /\ Cardinality(K) <= MaxTiles
      /\ \A X \in SUBSET D :
           /\ Cardinality(X) <= MaxTiles
           /\ \A d \in D \ X, s \in X : used[d] < used[s]
           => X \subseteq K
  BY <1>2, SurvivorFacts DEF used
<1>5. Cardinality(M) <= MaxTiles => M \subseteq K
  BY <1>2, <1>3, <1>4
<1>6. /\ Restriction(F, K) \in [K -> [Slots -> Values]]
      /\ DOMAIN Restriction(F, K) = K
      /\ Restriction(used, K) \in [K -> Int] /\ K \in SUBSET Tiles
  BY <1>2, <1>4 DEF Restriction, D
<1>7. /\ Rank(Restriction(used, K)) \in [K -> Nat]
      /\ \A t \in K : Rank(Restriction(used, K))[t] < Cardinality(K)
  BY <1>6, TileSetsAreFinite, RankFacts
<1>8. Entry(Restriction(F, K), Rank(Restriction(used, K)))
  BY <1>4, <1>6, <1>7 DEF Entry
<1>9. QED
  BY <1>4, <1>5, <1>8 DEF D, used

-----------------------------------------------------------------------------
(* The state of a VM and of the cache object it uses. *)
LEMMA VmFacts ==
  ASSUME Inv, NEW v \in Vms
  PROVE  /\ cacheOf[v] \in Vms
         /\ Entry(tiles[cacheOf[v]], stamp[cacheOf[v]])
         /\ cacheOf[v] \notin present => DOMAIN tiles[cacheOf[v]] = {}
         /\ want[v] \in SUBSET Tiles /\ missing[v] \in SUBSET Tiles
         /\ cells[v] \in [Cells -> Values]
         /\ DOMAIN tiles = Vms /\ DOMAIN stamp = Vms
BY DEF Inv, VmsOK, CachesOK

LEMMA InitInv == Init => Inv
<1> SUFFICES ASSUME Init
             PROVE  Inv
  OBVIOUS
<1>1. Host \in Vms /\ Empty \in Values
  BY CacheAssumption
<1>2. VmsOK
  BY <1>1 DEF Init, VmsOK
<1>3. CachesOK
  BY EmptyEntry DEF Init, CachesOK
<1>4. SharingIsKnown /\ ReadsFit
  BY DEF Init, SharingIsKnown, ReadsFit
<1>5. PrivateReadsKeepTiles
  BY <1>1 DEF Init, PrivateReadsKeepTiles
<1>6. PrivateCacheCoherent
  BY <1>1, EmptyEntry DEF Init, PrivateCacheCoherent, Resident
<1>7. QED
  BY <1>2, <1>3, <1>4, <1>5, <1>6 DEF Inv

-----------------------------------------------------------------------------
(* The critical sections of a read. *)
LEMMA ReadScanInv ==
  ASSUME Inv, NEW v \in Vms, NEW r \in Requests, ReadScan(v, r)
  PROVE  Inv'
<1> DEFINE c == cacheOf[v]
           absent == r \ Resident(c)
<1>1. /\ v \in live /\ pc[v] = "idle"
      /\ pc' = [pc EXCEPT ![v] = IF absent = {} THEN "serve" ELSE "fill"]
      /\ want' = [want EXCEPT ![v] = r]
      /\ missing' = [missing EXCEPT ![v] = absent]
      /\ UNCHANGED <<live, cells, cacheOf, present, tiles, stamp, poisoned, shared>>
  BY DEF ReadScan, cacheVars
<1>2. r \in SUBSET Tiles /\ r # {} /\ Cardinality(r) <= MaxTiles
  BY CacheAssumption
<1>3. pc \in [Vms -> {"idle", "fill", "serve"}]
      /\ want \in [Vms -> SUBSET Tiles] /\ missing \in [Vms -> SUBSET Tiles]
  BY DEF Inv, VmsOK
<1>4. /\ pc'[v] = (IF absent = {} THEN "serve" ELSE "fill")
      /\ want'[v] = r /\ missing'[v] = absent
      /\ \A u \in Vms \ {v} : pc'[u] = pc[u] /\ want'[u] = want[u] /\ missing'[u] = missing[u]
  BY <1>1, <1>3
<1>5. absent \subseteq r /\ (absent = {} => r \subseteq Resident(c))
  OBVIOUS
<1>6. absent = {} => c \in present
  BY <1>2, <1>5, VmFacts DEF Resident
<1> HIDE DEF absent, c
<1>7. VmsOK'
  BY <1>1, <1>2, <1>3, <1>5 DEF Inv, VmsOK
<1>8. CachesOK' /\ SharingIsKnown' /\ PrivateCacheCoherent'
  BY <1>1 DEF Inv, CachesOK, SharingIsKnown, PrivateCacheCoherent, Resident
<1>9. ReadsFit'
  BY <1>1, <1>2, <1>4, <1>5 DEF Inv, ReadsFit
<1>10. PrivateReadsKeepTiles'
  <2> SUFFICES ASSUME NEW u \in live, cacheOf[u] \notin shared
               PROVE  /\ pc'[u] = "fill" => /\ missing'[u] # {}
                                            /\ missing'[u] = want'[u] \ Resident(cacheOf[u])
                      /\ pc'[u] = "serve" => /\ cacheOf[u] \in present
                                             /\ missing'[u] \in {{}, want'[u]}
                                                  => want'[u] \subseteq Resident(cacheOf[u])
    BY <1>1 DEF PrivateReadsKeepTiles, Resident
  <2>1. CASE u = v
    BY <1>4, <1>5, <1>6, <2>1 DEF c, absent
  <2>2. CASE u # v
    BY <1>4, <2>2 DEF Inv, VmsOK, PrivateReadsKeepTiles
  <2>3. QED
    BY <2>1, <2>2
<1>11. QED
  BY <1>7, <1>8, <1>9, <1>10 DEF Inv

LEMMA ReadFillInv ==
  ASSUME Inv, NEW v \in Vms, ReadFill(v)
  PROVE  Inv'
<1> DEFINE c == cacheOf[v]
           M == missing[v]
           filled == [t \in Resident(c) \cup M |->
                        IF t \in M THEN TileOf(v, t) ELSE tiles[c][t]]
           used == TouchInOrder(stamp[c], M)
<1>1. PICK K \in Survivors(used) :
        /\ tiles' = [tiles EXCEPT ![c] = Restriction(filled, K)]
        /\ stamp' = [stamp EXCEPT ![c] = Rank(Restriction(used, K))]
  BY DEF ReadFill
<1>2. /\ pc[v] = "fill" /\ present' = present \cup {c}
      /\ pc' = [pc EXCEPT ![v] = "serve"]
      /\ UNCHANGED <<live, cells, cacheOf, poisoned, want, missing, shared>>
  BY DEF ReadFill
<1>3. /\ v \in live /\ M \subseteq want[v] /\ Cardinality(want[v]) <= MaxTiles
      /\ want[v] # {}
  BY <1>2 DEF Inv, ReadsFit
<1>4. /\ c \in Vms /\ Entry(tiles[c], stamp[c]) /\ M \in SUBSET Tiles
      /\ cells[v] \in [Cells -> Values] /\ DOMAIN tiles = Vms /\ DOMAIN stamp = Vms
      /\ want[v] \in SUBSET Tiles
  BY VmFacts
<1>5. filled \in [DOMAIN tiles[c] \cup M -> [Slots -> Values]]
  <2>1. \A t \in M : TileOf(v, t) \in [Slots -> Values]
    BY <1>4 DEF TileOf, Cells
  <2>2. \A t \in DOMAIN tiles[c] : tiles[c][t] \in [Slots -> Values]
    BY <1>4 DEF Entry
  <2>3. QED
    BY <2>1, <2>2 DEF Resident
<1>6. /\ \A t \in DOMAIN tiles[c] \cup M, s \in Slots :
           filled[t][s] = IF t \in M THEN cells[v][<<t, s>>] ELSE tiles[c][t][s]
  BY DEF TileOf, Resident
<1> HIDE DEF filled, used
<1>7. /\ Entry(Restriction(filled, K), Rank(Restriction(used, K)))
      /\ K \subseteq DOMAIN tiles[c] \cup M
      /\ Cardinality(M) <= MaxTiles => M \subseteq K
  <2> DEFINE T == tiles[c]
             S == stamp[c]
  <2>1. K \in Survivors(TouchInOrder(S, M)) /\ used = TouchInOrder(S, M)
    BY <1>1 DEF used
  <2>2. Entry(T, S) /\ M \in SUBSET Tiles /\ filled \in [DOMAIN T \cup M -> [Slots -> Values]]
    BY <1>4, <1>5
  <2> HIDE DEF T, S
  <2>3. /\ Entry(Restriction(filled, K), Rank(Restriction(TouchInOrder(S, M), K)))
        /\ K \subseteq DOMAIN T \cup M
        /\ Cardinality(M) <= MaxTiles => M \subseteq K
    BY <2>1, <2>2, FilledEntry
  <2>4. QED
    BY <2>1, <2>3 DEF T
<1>8. /\ DOMAIN tiles' = Vms /\ DOMAIN stamp' = Vms
      /\ tiles'[c] = Restriction(filled, K) /\ stamp'[c] = Rank(Restriction(used, K))
      /\ \A d \in Vms \ {c} : tiles'[d] = tiles[d] /\ stamp'[d] = stamp[d]
      /\ DOMAIN tiles'[c] = K
  BY <1>1, <1>4 DEF Restriction
<1>9. \A u \in live : u # v /\ cacheOf[u] \notin shared => cacheOf[u] \in Vms \ {c}
  BY <1>3 DEF Inv, SharingIsKnown, VmsOK
<1>10. /\ pc'[v] = "serve" /\ pc' \in [Vms -> {"idle", "fill", "serve"}]
       /\ \A u \in Vms \ {v} : pc'[u] = pc[u]
  BY <1>2 DEF Inv, VmsOK
<1>11. VmsOK' /\ SharingIsKnown'
  BY <1>2, <1>4, <1>10 DEF Inv, VmsOK, SharingIsKnown
<1>12. CachesOK'
  <2> SUFFICES ASSUME NEW d \in Vms
               PROVE  /\ Entry(tiles'[d], stamp'[d])
                      /\ d \notin present' => DOMAIN tiles'[d] = {}
    BY <1>8 DEF CachesOK
  <2>1. CASE d = c
    BY <1>2, <1>7, <1>8, <2>1
  <2>2. CASE d # c
    BY <1>2, <1>8, <2>2 DEF Inv, CachesOK
  <2>3. QED
    BY <2>1, <2>2
<1>13. ReadsFit'
  BY <1>2, <1>3, <1>10 DEF Inv, ReadsFit
<1>14. PrivateReadsKeepTiles'
  <2> SUFFICES ASSUME NEW u \in live, cacheOf[u] \notin shared
               PROVE  /\ pc'[u] = "fill" => /\ missing[u] # {}
                                            /\ missing[u] = want[u] \ DOMAIN tiles'[cacheOf[u]]
                      /\ pc'[u] = "serve" => /\ cacheOf[u] \in present'
                                             /\ missing[u] \in {{}, want[u]}
                                                  => want[u] \subseteq DOMAIN tiles'[cacheOf[u]]
    BY <1>2 DEF PrivateReadsKeepTiles, Resident
  <2>1. CASE u = v
    <3>1. M # {}
      BY <1>2, <2>1 DEF Inv, PrivateReadsKeepTiles
    <3>2. M \in {{}, want[v]} => want[v] \subseteq DOMAIN tiles'[c]
      BY <1>3, <1>7, <1>8, <3>1
    <3>3. QED
      BY <1>2, <1>10, <2>1, <3>2
  <2>2. CASE u # v
    <3>1. u \in Vms /\ pc'[u] = pc[u] /\ tiles'[cacheOf[u]] = tiles[cacheOf[u]]
      BY <1>8, <1>9, <1>10, <2>2 DEF Inv, VmsOK
    <3>2. QED
      BY <1>2, <3>1 DEF Inv, PrivateReadsKeepTiles, Resident
  <2>3. QED
    BY <2>1, <2>2
<1>15. PrivateCacheCoherent'
  <2> SUFFICES ASSUME NEW u \in live, cacheOf[u] \notin shared,
                      NEW t \in DOMAIN tiles'[cacheOf[u]], NEW s \in Slots,
                      <<t, s>> \in Stored
               PROVE  tiles'[cacheOf[u]][t][s] = cells[u][<<t, s>>]
    BY <1>2 DEF PrivateCacheCoherent, Resident
  <2>1. CASE u = v
    <3>1. t \in K /\ t \in DOMAIN tiles[c] \cup M
      BY <1>7, <1>8, <2>1
    <3>2. tiles'[c][t] = filled[t]
      BY <1>8, <3>1 DEF Restriction
    <3>3. t \in DOMAIN tiles[c] => tiles[c][t][s] = cells[v][<<t, s>>]
      BY <2>1 DEF Inv, PrivateCacheCoherent, Resident
    <3>4. QED
      BY <1>6, <2>1, <3>1, <3>2, <3>3
  <2>2. CASE u # v
    <3>1. tiles'[cacheOf[u]] = tiles[cacheOf[u]]
      BY <1>8, <1>9, <2>2
    <3>2. QED
      BY <3>1 DEF Inv, PrivateCacheCoherent, Resident
  <2>3. QED
    BY <2>1, <2>2
<1>16. QED
  BY <1>11, <1>12, <1>13, <1>14, <1>15 DEF Inv

(* The end of a read, however it ends. *)
LEMMA EndReadInv ==
  ASSUME Inv, NEW v \in Vms, EndRead(v), CachesOK', poisoned' \subseteq shared,
         UNCHANGED <<live, cells, cacheOf, present, tiles, shared>>
  PROVE  Inv'
<1>1. /\ pc' \in [Vms -> {"idle", "fill", "serve"}] /\ pc'[v] = "idle"
      /\ want' \in [Vms -> SUBSET Tiles] /\ missing' \in [Vms -> SUBSET Tiles]
      /\ \A u \in Vms \ {v} : pc'[u] = pc[u] /\ want'[u] = want[u] /\ missing'[u] = missing[u]
  BY DEF EndRead, Inv, VmsOK
<1>2. VmsOK' /\ SharingIsKnown'
  BY <1>1 DEF Inv, VmsOK, SharingIsKnown
<1>3. ReadsFit'
  BY <1>1 DEF Inv, ReadsFit
<1>4. PrivateReadsKeepTiles'
  <2> SUFFICES ASSUME NEW u \in live, cacheOf[u] \notin shared
               PROVE  /\ pc'[u] = "fill" => /\ missing'[u] # {}
                                            /\ missing'[u] = want'[u] \ Resident(cacheOf[u])
                      /\ pc'[u] = "serve" => /\ cacheOf[u] \in present
                                             /\ missing'[u] \in {{}, want'[u]}
                                                  => want'[u] \subseteq Resident(cacheOf[u])
    BY DEF PrivateReadsKeepTiles, Resident
  <2>1. u \in Vms
    BY DEF Inv, VmsOK
  <2>2. CASE u = v
    BY <1>1, <2>2
  <2>3. CASE u # v
    BY <1>1, <2>1, <2>3 DEF Inv, PrivateReadsKeepTiles
  <2>4. QED
    BY <2>2, <2>3
<1>5. PrivateCacheCoherent'
  BY DEF Inv, PrivateCacheCoherent, Resident
<1>6. QED
  BY <1>2, <1>3, <1>4, <1>5 DEF Inv

LEMMA ReadServeInv ==
  ASSUME Inv, NEW v \in Vms, ReadServe(v)
  PROVE  Inv'
<1> DEFINE c == cacheOf[v]
<1>1. /\ pc[v] = "serve" /\ EndRead(v)
      /\ UNCHANGED <<live, cells, cacheOf, present, tiles, shared>>
  BY DEF ReadServe
<1>2. /\ c \in Vms /\ Entry(tiles[c], stamp[c]) /\ DOMAIN stamp = Vms
  BY VmFacts
<1>3. CASE c \in present /\ stamp' = [stamp EXCEPT ![c] = TouchTogether(@, want[v])]
             /\ UNCHANGED poisoned
  <2>1. Entry(tiles[c], TouchTogether(stamp[c], want[v]))
    BY <1>2, ServedEntry
  <2>2. /\ DOMAIN stamp' = Vms /\ stamp'[c] = TouchTogether(stamp[c], want[v])
        /\ \A d \in Vms \ {c} : stamp'[d] = stamp[d]
    BY <1>2, <1>3
  <2>3. CachesOK'
    BY <1>1, <2>1, <2>2 DEF Inv, CachesOK
  <2>4. QED
    BY <1>1, <1>3, <2>3, EndReadInv DEF Inv, SharingIsKnown
<1>4. CASE c \notin present /\ poisoned' = poisoned \cup {c} /\ UNCHANGED stamp
  <2>1. v \in live
    BY <1>1 DEF Inv, ReadsFit
  <2>2. c \in shared
    BY <1>1, <1>4, <2>1 DEF Inv, PrivateReadsKeepTiles
  <2>3. poisoned' \subseteq shared /\ CachesOK'
    BY <1>1, <1>4, <2>2 DEF Inv, SharingIsKnown, CachesOK
  <2>4. QED
    BY <1>1, <2>3, EndReadInv
<1>5. QED
  BY <1>3, <1>4 DEF ReadServe

LEMMA ReadPanicsInv ==
  ASSUME Inv, NEW v \in Vms, ReadPanics(v)
  PROVE  Inv'
<1>1. EndRead(v) /\ UNCHANGED <<live, cells, cacheOf, present, tiles, stamp, poisoned, shared>>
  BY DEF ReadPanics, cacheVars
<1>2. CachesOK' /\ poisoned' \subseteq shared
  BY <1>1 DEF Inv, CachesOK, SharingIsKnown
<1>3. QED
  BY <1>1, <1>2, EndReadInv

-----------------------------------------------------------------------------
(* Edits.  Whatever an edit of v does to its cells and to the cache object *)
(* c it uses, the invariant holds after it if c is as it should be.        *)
LEMMA EditInv ==
  ASSUME Inv, NEW v \in live, pc[v] = "idle",
         UNCHANGED <<live, cacheOf, poisoned, pc, want, missing, shared>>,
         NEW new \in [Cells -> Values], cells' = [cells EXCEPT ![v] = new],
         present' \subseteq present, \A d \in present : d # cacheOf[v] => d \in present',
         DOMAIN tiles' = Vms, DOMAIN stamp' = Vms,
         \A d \in Vms : d # cacheOf[v] => tiles'[d] = tiles[d] /\ stamp'[d] = stamp[d],
         Entry(tiles'[cacheOf[v]], stamp'[cacheOf[v]]),
         cacheOf[v] \notin present' => DOMAIN tiles'[cacheOf[v]] = {},
         cacheOf[v] \notin shared =>
           \A t \in DOMAIN tiles'[cacheOf[v]] : \A s \in Slots :
             <<t, s>> \in Stored => tiles'[cacheOf[v]][t][s] = new[<<t, s>>]
  PROVE  Inv'
<1> DEFINE c == cacheOf[v]
<1>1. v \in Vms /\ live \subseteq Vms /\ c \in Vms
  BY DEF Inv, VmsOK
<1>2. /\ cells' \in [Vms -> [Cells -> Values]] /\ cells'[v] = new
      /\ \A u \in Vms : u # v => cells'[u] = cells[u]
  BY <1>1 DEF Inv, VmsOK
<1>3. VmsOK' /\ SharingIsKnown' /\ ReadsFit'
  BY <1>2 DEF Inv, VmsOK, SharingIsKnown, ReadsFit
<1>4. CachesOK'
  <2> SUFFICES ASSUME NEW d \in Vms
               PROVE  /\ Entry(tiles'[d], stamp'[d])
                      /\ d \notin present' => DOMAIN tiles'[d] = {}
    BY DEF CachesOK
  <2>1. CASE d = c
    BY <2>1
  <2>2. CASE d # c
    BY <2>2 DEF Inv, CachesOK
  <2>3. QED
    BY <2>1, <2>2
<1>5. \A u \in live : u # v /\ cacheOf[u] \notin shared =>
        cacheOf[u] \in Vms /\ cacheOf[u] # c
  BY DEF Inv, SharingIsKnown, VmsOK
<1>6. PrivateReadsKeepTiles'
  <2> SUFFICES ASSUME NEW u \in live, cacheOf[u] \notin shared
               PROVE  /\ pc[u] = "fill" => /\ missing[u] # {}
                                           /\ missing[u] = want[u] \ DOMAIN tiles'[cacheOf[u]]
                      /\ pc[u] = "serve" => /\ cacheOf[u] \in present'
                                            /\ missing[u] \in {{}, want[u]}
                                                 => want[u] \subseteq DOMAIN tiles'[cacheOf[u]]
    BY DEF PrivateReadsKeepTiles, Resident
  <2>1. CASE u = v
    BY <2>1
  <2>2. CASE u # v
    <3>1. tiles'[cacheOf[u]] = tiles[cacheOf[u]] /\ cacheOf[u] # c
      BY <1>5, <2>2
    <3>2. QED
      BY <3>1 DEF Inv, PrivateReadsKeepTiles, Resident
  <2>3. QED
    BY <2>1, <2>2
<1>7. PrivateCacheCoherent'
  <2> SUFFICES ASSUME NEW u \in live, cacheOf[u] \notin shared,
                      NEW t \in DOMAIN tiles'[cacheOf[u]], NEW s \in Slots,
                      <<t, s>> \in Stored
               PROVE  tiles'[cacheOf[u]][t][s] = cells'[u][<<t, s>>]
    BY DEF PrivateCacheCoherent, Resident
  <2>1. CASE u = v
    <3>1. c \notin shared /\ t \in DOMAIN tiles'[c]
      BY <2>1
    <3>2. tiles'[c][t][s] = new[<<t, s>>]
      BY <3>1
    <3>3. QED
      BY <1>2, <2>1, <3>2
  <2>2. CASE u # v
    <3>1. tiles'[cacheOf[u]] = tiles[cacheOf[u]] /\ cells'[u] = cells[u]
      BY <1>1, <1>2, <1>5, <2>2
    <3>2. QED
      BY <3>1 DEF Inv, PrivateCacheCoherent, Resident
  <2>3. QED
    BY <2>1, <2>2
<1>8. QED
  BY <1>3, <1>4, <1>6, <1>7 DEF Inv

(* The cells after an edit of the cells W, for a VM that keeps the others. *)
Overwritten(v, W, new) == [p \in Cells |-> IF p \in W THEN new[p] ELSE cells[v][p]]

LEMMA WrittenFacts ==
  ASSUME Inv, NEW v \in Vms, NEW W \in SUBSET Cells, NEW new \in [W -> Values]
  PROVE  /\ Written(v, W, new) = [cells EXCEPT ![v] = Overwritten(v, W, new)]
         /\ Overwritten(v, W, new) \in [Cells -> Values]
<1>1. cells[v] \in [Cells -> Values]
  BY VmFacts
<1>2. Overwritten(v, W, new) \in [Cells -> Values]
  BY <1>1 DEF Overwritten
<1>3. QED
  BY <1>2 DEF Written, Overwritten

LEMMA WriteRectInv ==
  ASSUME Inv, NEW v \in Vms, NEW W \in Writes, NEW new \in [W -> Values],
         WriteRect(v, W, new)
  PROVE  Inv'
<1> DEFINE c == cacheOf[v]
           after == Overwritten(v, W, new)
<1>1. /\ v \in live /\ pc[v] = "idle"
      /\ UNCHANGED <<live, cacheOf, poisoned, pc, want, missing, shared>>
      /\ cells' = Written(v, W, new)
  BY DEF WriteRect, readVars
<1>2. W \in SUBSET Cells
  BY CacheAssumption
<1>3. cells' = [cells EXCEPT ![v] = after] /\ after \in [Cells -> Values]
  BY <1>1, <1>2, WrittenFacts
<1>4. /\ c \in Vms /\ Entry(tiles[c], stamp[c])
      /\ c \notin present => DOMAIN tiles[c] = {}
      /\ DOMAIN tiles = Vms /\ DOMAIN stamp = Vms
  BY VmFacts
<1>5. c \notin shared => \A t \in DOMAIN tiles[c] : \A s \in Slots :
        <<t, s>> \in Stored => tiles[c][t][s] = cells[v][<<t, s>>]
  BY <1>1 DEF Inv, PrivateCacheCoherent, Resident
<1>6. \A t \in DOMAIN tiles[c], s \in Slots :
        /\ <<t, s>> \in Cells
        /\ after[<<t, s>>] = IF <<t, s>> \in W THEN new[<<t, s>>] ELSE cells[v][<<t, s>>]
  BY <1>4 DEF Overwritten, Entry, Cells
<1> HIDE DEF after
<1>7. CASE c \in poisoned /\ UNCHANGED <<present, tiles, stamp>>
  <2>1. c \in shared
    BY <1>7 DEF Inv, SharingIsKnown
  <2>2. QED
    BY <1>1, <1>3, <1>4, <1>7, <2>1, EditInv
<1>8. CASE c \notin poisoned /\ Cardinality(W) <= MaxIncremental
             /\ UpdateCachedTiles(c, W, new)
  <2> DEFINE patch == [t \in Resident(c) |-> [s \in Slots |->
                         IF <<t, s>> \in W THEN new[<<t, s>>] ELSE tiles[c][t][s]]]
             hit == TilesOf(W) \cap Resident(c)
  <2>1. /\ UNCHANGED present
        /\ tiles' = [tiles EXCEPT ![c] = patch]
        /\ stamp' = [stamp EXCEPT ![c] = TouchInOrder(stamp[c], hit)]
    BY <1>8 DEF UpdateCachedTiles
  <2>2. patch \in [DOMAIN tiles[c] -> [Slots -> Values]]
    <3>1. \A t \in DOMAIN tiles[c], s \in Slots :
            (IF <<t, s>> \in W THEN new[<<t, s>>] ELSE tiles[c][t][s]) \in Values
      BY <1>4 DEF Entry
    <3>2. QED
      BY <3>1 DEF Resident
  <2>3. \A t \in DOMAIN tiles[c], s \in Slots :
          patch[t][s] = IF <<t, s>> \in W THEN new[<<t, s>>] ELSE tiles[c][t][s]
    BY DEF Resident
  <2> HIDE DEF patch
  <2>4. Entry(patch, TouchInOrder(stamp[c], hit))
    BY <1>4, <2>2, PatchedEntry DEF Resident
  <2> HIDE DEF hit
  <2>5. /\ DOMAIN tiles' = Vms /\ DOMAIN stamp' = Vms
        /\ tiles'[c] = patch /\ stamp'[c] = TouchInOrder(stamp[c], hit)
        /\ \A d \in Vms : d # c => tiles'[d] = tiles[d] /\ stamp'[d] = stamp[d]
        /\ DOMAIN tiles'[c] = DOMAIN tiles[c]
    BY <1>4, <2>1, <2>2
  <2>6. c \notin shared => \A t \in DOMAIN tiles'[c] : \A s \in Slots :
          <<t, s>> \in Stored => tiles'[c][t][s] = after[<<t, s>>]
    BY <1>5, <1>6, <2>3, <2>5
  <2>7. /\ Entry(tiles'[c], stamp'[c])
        /\ c \notin present' => DOMAIN tiles'[c] = {}
        /\ present' \subseteq present /\ \A d \in present : d # c => d \in present'
    BY <1>4, <2>1, <2>4, <2>5
  <2>8. QED
    BY <1>1, <1>3, <2>5, <2>6, <2>7, EditInv
<1>9. CASE c \notin poisoned /\ ~(Cardinality(W) <= MaxIncremental)
             /\ UpdateCachedTiles(c, W, new)
  <2> DEFINE kept == Resident(c) \ TilesOf(W)
  <2>1. /\ UNCHANGED present
        /\ tiles' = [tiles EXCEPT ![c] = Restriction(tiles[c], kept)]
        /\ stamp' = [stamp EXCEPT ![c] = Rank(Restriction(stamp[c], kept))]
    BY <1>9 DEF UpdateCachedTiles
  <2>2. kept \in SUBSET DOMAIN tiles[c]
    BY DEF Resident
  <2>3. \A t \in kept, s \in Slots : <<t, s>> \notin W
    BY DEF TilesOf
  <2> HIDE DEF kept
  <2>4. Entry(Restriction(tiles[c], kept), Rank(Restriction(stamp[c], kept)))
    BY <1>4, <2>2, RestrictedEntry
  <2>5. /\ DOMAIN tiles' = Vms /\ DOMAIN stamp' = Vms
        /\ tiles'[c] = Restriction(tiles[c], kept)
        /\ stamp'[c] = Rank(Restriction(stamp[c], kept))
        /\ \A d \in Vms : d # c => tiles'[d] = tiles[d] /\ stamp'[d] = stamp[d]
    BY <1>4, <2>1
  <2>6. DOMAIN tiles'[c] = kept /\ \A t \in kept : tiles'[c][t] = tiles[c][t]
    BY <2>5 DEF Restriction
  <2>7. c \notin shared => \A t \in DOMAIN tiles'[c] : \A s \in Slots :
          <<t, s>> \in Stored => tiles'[c][t][s] = after[<<t, s>>]
    BY <1>5, <1>6, <2>2, <2>3, <2>6
  <2>8. /\ Entry(tiles'[c], stamp'[c])
        /\ c \notin present' => DOMAIN tiles'[c] = {}
        /\ present' \subseteq present /\ \A d \in present : d # c => d \in present'
    BY <1>4, <2>1, <2>2, <2>4, <2>5, <2>6
  <2>9. QED
    BY <1>1, <1>3, <2>5, <2>7, <2>8, EditInv
<1>10. QED
  BY <1>7, <1>8, <1>9 DEF WriteRect

LEMMA EditThroughMapInv ==
  ASSUME Inv, NEW v \in Vms, NEW W \in Writes, NEW new \in [W -> Values],
         EditThroughMap(v, W, new)
  PROVE  Inv'
<1> DEFINE c == cacheOf[v]
           after == Overwritten(v, W, new)
<1>1. /\ v \in live /\ pc[v] = "idle"
      /\ UNCHANGED <<live, cacheOf, poisoned, pc, want, missing, shared>>
      /\ cells' = Written(v, W, new) /\ DropEntries({c})
  BY DEF EditThroughMap, readVars
<1>2. cells' = [cells EXCEPT ![v] = after] /\ after \in [Cells -> Values]
  BY <1>1, CacheAssumption, WrittenFacts
<1>3. c \in Vms
  BY VmFacts
<1>4. /\ present' = present \ {c}
      /\ DOMAIN tiles' = Vms /\ DOMAIN stamp' = Vms
      /\ tiles'[c] = NoTiles /\ stamp'[c] = NoStamps
      /\ \A d \in Vms : d # c => tiles'[d] = tiles[d] /\ stamp'[d] = stamp[d]
  BY <1>1, <1>3 DEF DropEntries
<1> HIDE DEF after
<1>5. QED
  BY <1>1, <1>2, <1>4, EmptyEntry, EditInv

LEMMA RecalculateInv ==
  ASSUME Inv, NEW v \in Vms, NEW new \in [FormulaCells -> Values], Recalculate(v, new)
  PROVE  Inv'
<1> DEFINE c == cacheOf[v]
           after == Overwritten(v, FormulaCells, new)
<1>1. /\ v \in live /\ pc[v] = "idle"
      /\ UNCHANGED <<live, cacheOf, poisoned, pc, want, missing, shared,
                     present, tiles, stamp>>
      /\ cells' = Written(v, FormulaCells, new)
  BY DEF Recalculate, readVars, cacheVars
<1>2. cells' = [cells EXCEPT ![v] = after] /\ after \in [Cells -> Values]
  BY <1>1, CacheAssumption, WrittenFacts
<1>3. /\ c \in Vms /\ Entry(tiles[c], stamp[c])
      /\ c \notin present => DOMAIN tiles[c] = {}
      /\ DOMAIN tiles = Vms /\ DOMAIN stamp = Vms
  BY VmFacts
<1>4. \A p \in Stored : after[p] = cells[v][p]
  BY DEF Stored, Overwritten
<1> HIDE DEF after
<1>5. c \notin shared => \A t \in DOMAIN tiles[c] : \A s \in Slots :
        <<t, s>> \in Stored => tiles[c][t][s] = after[<<t, s>>]
  BY <1>1, <1>4 DEF Inv, PrivateCacheCoherent, Resident
<1>6. QED
  BY <1>1, <1>2, <1>3, <1>5, EditInv

-----------------------------------------------------------------------------
(* Who uses which cache object.  The objects C are freed or made new.      *)
LEMMA BlankedCaches ==
  ASSUME Inv, NEW C \in SUBSET Vms, BlankCaches(C)
  PROVE  /\ CachesOK'
         /\ present' \subseteq Vms /\ poisoned' \subseteq Vms /\ shared' \subseteq Vms
         /\ poisoned' \subseteq shared' /\ shared' = shared \ C /\ present' = present \ C
         /\ \A c \in C : tiles'[c] = NoTiles
         /\ \A c \in Vms \ C : tiles'[c] = tiles[c]
<1>1. /\ present' = present \ C /\ poisoned' = poisoned \ C /\ shared' = shared \ C
      /\ tiles' = [c \in Vms |-> IF c \in C THEN NoTiles ELSE tiles[c]]
      /\ stamp' = [c \in Vms |-> IF c \in C THEN NoStamps ELSE stamp[c]]
  BY DEF BlankCaches, DropEntries
<1>2. CachesOK'
  BY <1>1, EmptyEntry DEF Inv, CachesOK
<1>3. QED
  BY <1>1, <1>2 DEF Inv, VmsOK, SharingIsKnown

LEMMA RestoreInv ==
  ASSUME Inv, NEW v \in Vms, NEW old \in [Cells -> Values], NEW c \in Vms,
         Restore(v, old, c)
  PROVE  Inv'
<1> DEFINE C == Unused(live, cacheOf') \cup {c}
<1>1. /\ v \in live /\ pc[v] = "idle"
      /\ \A w \in live \ {v} : cacheOf[w] # c
      /\ cells' = [cells EXCEPT ![v] = old]
      /\ cacheOf' = [cacheOf EXCEPT ![v] = c]
      /\ BlankCaches(C)
      /\ UNCHANGED <<live, pc, want, missing>>
  BY DEF Restore, readVars
<1>2. /\ live \subseteq Vms /\ cacheOf \in [Vms -> Vms]
      /\ cells \in [Vms -> [Cells -> Values]]
  BY DEF Inv, VmsOK
<1>3. /\ cacheOf'[v] = c /\ cells'[v] = old /\ c \in C
      /\ \A u \in live : u # v => /\ cacheOf'[u] = cacheOf[u] /\ cells'[u] = cells[u]
                                  /\ cacheOf[u] \in Vms \ C
  BY <1>1, <1>2 DEF Unused
<1>4. C \in SUBSET Vms
  BY DEF Unused
<1> HIDE DEF C
<1>5. /\ CachesOK'
      /\ present' \subseteq Vms /\ poisoned' \subseteq Vms /\ shared' \subseteq Vms
      /\ poisoned' \subseteq shared' /\ shared' = shared \ C /\ present' = present \ C
      /\ \A d \in C : tiles'[d] = NoTiles
      /\ \A d \in Vms \ C : tiles'[d] = tiles[d]
  BY <1>1, <1>4, BlankedCaches
<1>6. VmsOK'
  BY <1>1, <1>2, <1>5 DEF Inv, VmsOK
<1>7. SharingIsKnown'
  BY <1>1, <1>3, <1>5 DEF Inv, SharingIsKnown
<1>8. ReadsFit'
  BY <1>1 DEF Inv, ReadsFit
<1>9. PrivateReadsKeepTiles'
  <2> SUFFICES ASSUME NEW u \in live, u # v, cacheOf[u] \notin shared
               PROVE  /\ pc[u] = "fill" => /\ missing[u] # {}
                                           /\ missing[u] = want[u] \ DOMAIN tiles'[cacheOf[u]]
                      /\ pc[u] = "serve" => /\ cacheOf[u] \in present'
                                            /\ missing[u] \in {{}, want[u]}
                                                 => want[u] \subseteq DOMAIN tiles'[cacheOf[u]]
    BY <1>1, <1>3, <1>5 DEF PrivateReadsKeepTiles, Resident
  <2>1. tiles'[cacheOf[u]] = tiles[cacheOf[u]]
    BY <1>3, <1>5
  <2>2. QED
    BY <1>3, <1>5, <2>1 DEF Inv, PrivateReadsKeepTiles, Resident
<1>10. PrivateCacheCoherent'
  <2> SUFFICES ASSUME NEW u \in live, cacheOf'[u] \notin shared',
                      NEW t \in DOMAIN tiles'[cacheOf'[u]], NEW s \in Slots,
                      <<t, s>> \in Stored
               PROVE  tiles'[cacheOf'[u]][t][s] = cells'[u][<<t, s>>]
    BY <1>1 DEF PrivateCacheCoherent, Resident
  <2>1. u # v
    BY <1>3, <1>5, EmptyEntry
  <2>2. /\ tiles'[cacheOf'[u]] = tiles[cacheOf[u]] /\ cells'[u] = cells[u]
        /\ cacheOf[u] \notin shared
    BY <1>3, <1>5, <2>1
  <2>3. QED
    BY <2>2 DEF Inv, PrivateCacheCoherent, Resident
<1>11. QED
  BY <1>5, <1>6, <1>7, <1>8, <1>9, <1>10 DEF Inv

LEMMA ForkInv ==
  ASSUME Inv, NEW v \in Vms, NEW w \in Vms, Fork(v, w)
  PROVE  Inv'
<1>1. /\ v \in live /\ w \notin live /\ live' = live \cup {w}
      /\ cells' = [cells EXCEPT ![w] = cells[v]]
      /\ cacheOf' = [cacheOf EXCEPT ![w] = cacheOf[v]]
      /\ shared' = shared \cup {cacheOf[v]}
      /\ UNCHANGED <<present, tiles, stamp, poisoned, pc, want, missing>>
  BY DEF Fork, cacheVars, readVars
<1>2. /\ cacheOf'[w] = cacheOf[v] /\ cacheOf[v] \in shared' /\ cacheOf[v] \in Vms
      /\ \A u \in live : cacheOf'[u] = cacheOf[u] /\ cells'[u] = cells[u]
  BY <1>1 DEF Inv, VmsOK
<1>3. VmsOK' /\ CachesOK' /\ ReadsFit'
  BY <1>1, <1>2 DEF Inv, VmsOK, CachesOK, ReadsFit
<1>4. SharingIsKnown'
  BY <1>1, <1>2 DEF Inv, SharingIsKnown
<1>5. \A u \in live' : cacheOf'[u] \notin shared' =>
        /\ u \in live /\ cacheOf'[u] = cacheOf[u] /\ cells'[u] = cells[u]
        /\ cacheOf[u] \notin shared
  BY <1>1, <1>2
<1>6. PrivateReadsKeepTiles'
  BY <1>1, <1>5 DEF Inv, PrivateReadsKeepTiles, Resident
<1>7. PrivateCacheCoherent'
  BY <1>1, <1>5 DEF Inv, PrivateCacheCoherent, Resident
<1>8. QED
  BY <1>3, <1>4, <1>6, <1>7 DEF Inv

(* The end of a fork w.  Each VM that remains, u, has the cells and the    *)
(* cache object one VM had before, itself or, when w is published, w.      *)
LEMMA ForkEndsInv ==
  ASSUME Inv, NEW w \in live, NEW heir \in Vms, w # Host, pc[w] = "idle",
         heir # w => heir = Host /\ pc[Host] = "idle",
         live' = live \ {w},
         cells' \in [Vms -> [Cells -> Values]], cacheOf' \in [Vms -> Vms],
         \A u \in live' : u # heir => cells'[u] = cells[u] /\ cacheOf'[u] = cacheOf[u],
         heir # w => cells'[heir] = cells[w] /\ cacheOf'[heir] = cacheOf[w],
         BlankCaches(Unused(live', cacheOf')),
         UNCHANGED <<pc, want, missing>>
  PROVE  Inv'
<1> DEFINE C == Unused(live', cacheOf')
<1>1. live' \subseteq live /\ live \subseteq Vms /\ Host \in live' /\ w \notin live'
  BY DEF Inv, VmsOK
<1>2. C \in SUBSET Vms /\ \A u \in live' : cacheOf'[u] \in Vms \ C
  BY <1>1 DEF Unused
<1> HIDE DEF C
<1>3. /\ CachesOK'
      /\ present' \subseteq Vms /\ poisoned' \subseteq Vms /\ shared' \subseteq Vms
      /\ poisoned' \subseteq shared' /\ shared' = shared \ C /\ present' = present \ C
      /\ \A d \in Vms \ C : tiles'[d] = tiles[d]
  BY <1>2, BlankedCaches DEF C
<1>4. PICK origin \in [live' -> live] :
        /\ \A u \in live' : cells'[u] = cells[origin[u]] /\ cacheOf'[u] = cacheOf[origin[u]]
        /\ \A u, x \in live' : u # x => origin[u] # origin[x]
        /\ \A u \in live' : pc[u] # "idle" => origin[u] = u
  <2> DEFINE o == [u \in live' |-> IF u = heir THEN w ELSE u]
  <2>1. o \in [live' -> live]
    BY <1>1
  <2>2. \A u \in live' : cells'[u] = cells[o[u]] /\ cacheOf'[u] = cacheOf[o[u]]
    BY <1>1
  <2>3. \A u, x \in live' : u # x => o[u] # o[x]
    BY <1>1
  <2>4. \A u \in live' : pc[u] # "idle" => o[u] = u
    BY <1>1
  <2> HIDE DEF o
  <2>5. QED
    BY <2>1, <2>2, <2>3, <2>4
<1>5. \A u \in live' : /\ tiles'[cacheOf'[u]] = tiles[cacheOf[origin[u]]]
                       /\ cacheOf'[u] \notin shared' => cacheOf[origin[u]] \notin shared
                       /\ cacheOf[origin[u]] \in present => cacheOf'[u] \in present'
  BY <1>2, <1>3, <1>4
<1>6. VmsOK' /\ ReadsFit'
  BY <1>1, <1>3 DEF Inv, VmsOK, ReadsFit
<1>7. SharingIsKnown'
  <2> SUFFICES ASSUME NEW u \in live', NEW x \in live', u # x, cacheOf'[u] = cacheOf'[x]
               PROVE  cacheOf'[u] \in shared'
    BY <1>3 DEF SharingIsKnown
  <2>1. cacheOf[origin[u]] \in shared
    BY <1>4 DEF Inv, SharingIsKnown
  <2>2. QED
    BY <1>2, <1>3, <1>4, <2>1
<1>8. PrivateReadsKeepTiles'
  BY <1>4, <1>5 DEF Inv, PrivateReadsKeepTiles, Resident
<1>9. PrivateCacheCoherent'
  <2> SUFFICES ASSUME NEW u \in live', cacheOf'[u] \notin shared',
                      NEW t \in DOMAIN tiles'[cacheOf'[u]], NEW s \in Slots,
                      <<t, s>> \in Stored
               PROVE  tiles'[cacheOf'[u]][t][s] = cells'[u][<<t, s>>]
    BY DEF PrivateCacheCoherent, Resident
  <2>1. /\ origin[u] \in live /\ cells'[u] = cells[origin[u]]
        /\ tiles'[cacheOf'[u]] = tiles[cacheOf[origin[u]]]
        /\ cacheOf[origin[u]] \notin shared
    BY <1>4, <1>5
  <2>2. t \in DOMAIN tiles[cacheOf[origin[u]]]
    BY <2>1
  <2>3. tiles[cacheOf[origin[u]]][t][s] = cells[origin[u]][<<t, s>>]
    BY <2>1, <2>2 DEF Inv, PrivateCacheCoherent, Resident
  <2>4. QED
    BY <2>1, <2>3
<1>10. QED
  BY <1>3, <1>6, <1>7, <1>8, <1>9 DEF Inv

LEMMA DropForkInv ==
  ASSUME Inv, NEW w \in Vms, DropFork(w)
  PROVE  Inv'
<1>1. /\ w \in live /\ w # Host /\ pc[w] = "idle" /\ live' = live \ {w}
      /\ cells' = [cells EXCEPT ![w] = Blank] /\ cacheOf' = cacheOf
      /\ BlankCaches(Unused(live', cacheOf'))
      /\ UNCHANGED <<pc, want, missing>>
  BY DEF DropFork, readVars
<1>2. /\ live \subseteq Vms /\ cacheOf' \in [Vms -> Vms]
      /\ cells' \in [Vms -> [Cells -> Values]]
  BY <1>1, CacheAssumption DEF Inv, VmsOK, Blank
<1>3. \A u \in live' : u # w => cells'[u] = cells[u] /\ cacheOf'[u] = cacheOf[u]
  BY <1>1, <1>2 DEF Inv, VmsOK
<1>4. QED
  BY <1>1, <1>2, <1>3, ForkEndsInv

LEMMA PublishForkInv ==
  ASSUME Inv, NEW w \in Vms, PublishFork(w)
  PROVE  Inv'
<1>1. /\ w \in live /\ w # Host /\ pc[w] = "idle" /\ pc[Host] = "idle"
      /\ live' = live \ {w}
      /\ cells' = [cells EXCEPT ![Host] = cells[w], ![w] = Blank]
      /\ cacheOf' = [cacheOf EXCEPT ![Host] = cacheOf[w]]
      /\ BlankCaches(Unused(live', cacheOf'))
      /\ UNCHANGED <<pc, want, missing>>
  BY DEF PublishFork, readVars
<1>2. /\ live \subseteq Vms /\ Host \in Vms /\ cacheOf' \in [Vms -> Vms]
      /\ cells' \in [Vms -> [Cells -> Values]]
  BY <1>1, CacheAssumption DEF Inv, VmsOK, Blank
<1>3. /\ \A u \in live' : u # Host => cells'[u] = cells[u] /\ cacheOf'[u] = cacheOf[u]
      /\ cells'[Host] = cells[w] /\ cacheOf'[Host] = cacheOf[w]
  BY <1>1, <1>2 DEF Inv, VmsOK
<1>4. QED
  BY <1>1, <1>2, <1>3, ForkEndsInv

-----------------------------------------------------------------------------
LEMMA NextInv == Inv /\ [Next]_vars => Inv'
<1> SUFFICES ASSUME Inv, [Next]_vars
             PROVE  Inv'
  OBVIOUS
<1>1. ASSUME NEW v \in Vms, ReadStep(v)
      PROVE  Inv'
  BY <1>1, ReadScanInv, ReadFillInv, ReadServeInv, ReadPanicsInv DEF ReadStep
<1>2. ASSUME NEW v \in Vms, EditStep(v)
      PROVE  Inv'
  BY <1>2, WriteRectInv, EditThroughMapInv, RecalculateInv, RestoreInv DEF EditStep
<1>3. ASSUME NEW v \in Vms, NEW w \in Vms, Fork(v, w)
      PROVE  Inv'
  BY <1>3, ForkInv
<1>4. ASSUME NEW v \in Vms, DropFork(v) \/ PublishFork(v)
      PROVE  Inv'
  BY <1>4, DropForkInv, PublishForkInv
<1>5. CASE UNCHANGED vars
  BY <1>5 DEF vars, cacheVars, readVars, Inv, VmsOK, CachesOK, SharingIsKnown, ReadsFit,
              PrivateReadsKeepTiles, PrivateCacheCoherent, Resident
<1>6. QED
  BY <1>1, <1>2, <1>3, <1>4, <1>5 DEF Next

(* The state keeps its types: every cache object holds tiles of the        *)
(* worksheet with a recency stamp each, and none without an entry.         *)
THEOREM TypeCorrect == Spec => []TypeOK
<1>1. Inv => TypeOK
  BY DEF Inv, VmsOK, CachesOK, Entry, TypeOK, Resident
<1>2. QED
  BY <1>1, InitInv, NextInv, PTL DEF Spec

(* No worksheet ever keeps more than MAX_CELL_TILES_PER_SHEET tiles,       *)
(* whatever mix of reads, writes, forks and restores of any number of VMs. *)
THEOREM CacheStaysBounded == Spec => []CacheBounded
<1>1. Inv => CacheBounded
  BY DEF Inv, CachesOK, Entry, CacheBounded, Resident
<1>2. QED
  BY <1>1, InitInv, NextInv, PTL DEF Spec

(* The resident tiles of a cache that only one VM ever used show what that *)
(* VM's worksheet stores.                                                  *)
THEOREM PrivateCachesAreCoherent == Spec => []PrivateCacheCoherent
<1>1. Inv => PrivateCacheCoherent
  BY DEF Inv
<1>2. QED
  BY <1>1, InitInv, NextInv, PTL DEF Spec

(* What a read serves, if its tiles were all missing or all there.         *)
UniformReadsAreCurrent ==
  \A v \in live :
    pc[v] = "serve" /\ cacheOf[v] \notin shared /\ missing[v] \in {{}, want[v]} =>
      /\ cacheOf[v] \in present \ poisoned
      /\ \A t \in want[v] : \A s \in Slots :
           <<t, s>> \in Stored => Served(v)[t][s] = cells[v][<<t, s>>]

LEMMA InvServes == Inv => UniformReadsAreCurrent
<1> SUFFICES ASSUME Inv, NEW v \in live, pc[v] = "serve", cacheOf[v] \notin shared,
                    missing[v] \in {{}, want[v]}
             PROVE  /\ cacheOf[v] \in present \ poisoned
                    /\ \A t \in want[v] : \A s \in Slots :
                         <<t, s>> \in Stored => Served(v)[t][s] = cells[v][<<t, s>>]
  BY DEF UniformReadsAreCurrent
<1>1. cacheOf[v] \in present /\ want[v] \subseteq Resident(cacheOf[v])
  BY DEF Inv, PrivateReadsKeepTiles
<1>2. cacheOf[v] \notin poisoned
  BY DEF Inv, SharingIsKnown
<1>3. \A t \in want[v] : Served(v)[t] = tiles[cacheOf[v]][t]
  BY <1>1 DEF Served
<1>4. \A t \in want[v] : \A s \in Slots :
        <<t, s>> \in Stored => tiles[cacheOf[v]][t][s] = cells[v][<<t, s>>]
  BY <1>1 DEF Inv, PrivateCacheCoherent
<1>5. QED
  BY <1>1, <1>2, <1>3, <1>4

(* A read of a private cache that found all of its tiles or none of them   *)
(* returns what the worksheet stores and never panics.  A read of a span   *)
(* that found some of its tiles has no such guarantee: the fill may evict  *)
(* the tiles that were there.                                              *)
THEOREM UniformReads == Spec => []UniformReadsAreCurrent
<1>1. QED
  BY InvServes, InitInv, NextInv, PTL DEF Spec

(* Reads within one tile are always of that kind.                          *)
THEOREM SingleTileReads ==
  ASSUME \A r \in Requests : \E t \in Tiles : r = {t}
  PROVE  Spec => []PrivateReadsAreCurrent
<1> DEFINE OneTile == \A v \in Vms : pc[v] # "idle" => \E t \in Tiles : want[v] = {t}
<1>1. Init => OneTile
  BY DEF Init
<1>2. Inv /\ OneTile /\ [Next]_vars => OneTile'
  <2> SUFFICES ASSUME Inv, OneTile, [Next]_vars, NEW v \in Vms, pc'[v] # "idle"
               PROVE  \E t \in Tiles : want'[v] = {t}
    OBVIOUS
  <2>0. /\ pc \in [Vms -> {"idle", "fill", "serve"}] /\ want \in [Vms -> SUBSET Tiles]
    BY DEF Inv, VmsOK
  <2>1. ASSUME NEW u \in Vms, NEW r \in Requests, ReadScan(u, r)
        PROVE  \E t \in Tiles : want'[v] = {t}
    BY <2>0, <2>1 DEF ReadScan
  <2>2. ASSUME NEW u \in Vms, ReadFill(u)
        PROVE  \E t \in Tiles : want'[v] = {t}
    BY <2>0, <2>2 DEF ReadFill
  <2>3. ASSUME NEW u \in Vms, EndRead(u)
        PROVE  \E t \in Tiles : want'[v] = {t}
    BY <2>0, <2>3 DEF EndRead
  <2>4. CASE UNCHANGED <<pc, want>>
    BY <2>4
  <2>5. QED
    BY <2>1, <2>2, <2>3, <2>4
       DEF Next, ReadStep, EditStep, ReadServe, ReadPanics, WriteRect, EditThroughMap,
           Recalculate, Restore, Fork, DropFork, PublishFork, vars, readVars
<1>3. Inv /\ OneTile => PrivateReadsAreCurrent
  <2> SUFFICES ASSUME Inv, OneTile, NEW v \in live, pc[v] = "serve"
               PROVE  missing[v] \in {{}, want[v]}
    BY InvServes DEF UniformReadsAreCurrent, PrivateReadsAreCurrent
  <2>1. missing[v] \subseteq want[v] /\ \E t \in Tiles : want[v] = {t}
    BY DEF Inv, VmsOK, ReadsFit
  <2>2. QED
    BY <2>1
<1>4. QED
  BY <1>1, <1>2, <1>3, InitInv, NextInv, PTL DEF Spec
=============================================================================

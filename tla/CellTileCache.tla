--------------------------- MODULE CellTileCache ---------------------------
(***************************************************************************)
(* The tile cache behind large range reads (read_rect) of one worksheet,   *)
(* and the VMs that use it.  A VM owns its cells; the cache hangs off an   *)
(* Arc, so a fork shares its parent's cache object.                        *)
(*                                                                         *)
(* A read takes the cache's mutex up to three times: to find the tiles     *)
(* that are missing, to fill them from the VM's own cells (evicting the    *)
(* least recently used tile when the cache is over its limit), and to      *)
(* serve the answer from the tiles.  Two VMs on two threads interleave     *)
(* between those critical sections.                                        *)
(***************************************************************************)
EXTENDS Naturals, FiniteSets

CONSTANTS
  Vms,            \* VM handles; also names for the cache objects they use
  Host,           \* the VM the program starts with
  NumTiles,       \* tiles of the worksheet, numbered in row-major order
  Slots,          \* cells of a tile
  Values,         \* cell values
  Empty,          \* Variant::Empty, the value of an absent cell
  Requests,       \* the sets of tiles a cached read can span
  Writes,         \* the sets of cells an edit can write
  FormulaCells,   \* cells whose value a recalculation computes
  MaxTiles,       \* MAX_CELL_TILES_PER_SHEET
  MaxIncremental  \* INCREMENTAL_TILE_UPDATE_MAX_CELLS

Tiles == 1..NumTiles
Cells == Tiles \X Slots

ASSUME CacheAssumption ==
  /\ Host \in Vms /\ IsFiniteSet(Vms)
  /\ NumTiles \in Nat /\ MaxTiles \in Nat \ {0}
  /\ Empty \in Values
  /\ Requests \subseteq {r \in SUBSET Tiles : r # {} /\ Cardinality(r) <= MaxTiles}
  /\ Writes \subseteq SUBSET Cells
  /\ FormulaCells \subseteq Cells

VARIABLES
  live,      \* the VMs that exist
  cells,     \* cells[v]: the worksheet of VM v, CellContent::value per cell
  cacheOf,   \* cacheOf[v]: the cache object v's Arc points to
  present,   \* the cache objects that hold an entry for the worksheet
  tiles,     \* tiles[c]: resident tile -> its values, for cache object c
  stamp,     \* stamp[c]: resident tile -> recency rank, 0 is the oldest
  poisoned,  \* cache objects whose mutex was poisoned by a panic
  pc,        \* where the running read_rect of v is, or "idle"
  want,      \* the tiles it spans
  missing,   \* the tiles its first critical section found missing
  shared     \* history: cache objects two VMs have pointed to

cacheVars == <<present, tiles, stamp, poisoned>>
readVars == <<pc, want, missing>>
vars == <<live, cells, cacheOf, cacheVars, readVars, shared>>

Resident(c) == DOMAIN tiles[c]
NoTiles == [t \in {} |-> [s \in Slots |-> Empty]]
NoStamps == [t \in {} |-> 0]
TileOf(v, t) == [s \in Slots |-> cells[v][<<t, s>>]]

Init ==
  /\ live = {Host}
  /\ cells = [v \in Vms |-> [p \in Cells |-> Empty]]
  /\ cacheOf = [v \in Vms |-> v]
  /\ present = {}
  /\ tiles = [c \in Vms |-> NoTiles]
  /\ stamp = [c \in Vms |-> NoStamps]
  /\ poisoned = {}
  /\ pc = [v \in Vms |-> "idle"]
  /\ want = [v \in Vms |-> {}]
  /\ missing = [v \in Vms |-> {}]
  /\ shared = {}

-----------------------------------------------------------------------------
(* Recency.  The clock only orders uses, so a stamp is kept as the number  *)
(* of resident tiles that were last used before.                           *)
Rank(f) == [t \in DOMAIN f |-> Cardinality({u \in DOMAIN f : f[u] < f[t]})]

(* Stamps after S was touched one tile after the other, in tile order. *)
TouchInOrder(f, S) ==
  Rank([t \in DOMAIN f \cup S |->
          IF t \in S THEN Cardinality(DOMAIN f) + Cardinality({u \in S : u <= t})
                     ELSE f[t]])

(* Stamps after all tiles of S got one new stamp. *)
TouchTogether(f, S) ==
  Rank([t \in DOMAIN f |-> IF t \in S THEN Cardinality(DOMAIN f) ELSE f[t]])

Restriction(f, D) == [t \in D |-> f[t]]

(* Mutant: no eviction. *)
AllSurvive(f) == {DOMAIN f}

(* The sets of tiles that may survive eviction: the most recently used     *)
(* ones, as many as the limit allows.  Equal stamps leave a choice.        *)
Survivors(f) ==
  {K \in SUBSET DOMAIN f :
     /\ Cardinality(K) = IF Cardinality(DOMAIN f) <= MaxTiles
                         THEN Cardinality(DOMAIN f) ELSE MaxTiles
     /\ \A k \in K, d \in DOMAIN f \ K : f[d] <= f[k]}

(* Mutant: the entry goes, its tiles stay. *)
DropEntriesOnly(C) ==
  /\ present' = present \ C
  /\ UNCHANGED <<tiles, stamp>>

DropEntries(C) ==
  /\ present' = present \ C
  /\ tiles' = [c \in Vms |-> IF c \in C THEN NoTiles ELSE tiles[c]]
  /\ stamp' = [c \in Vms |-> IF c \in C THEN NoStamps ELSE stamp[c]]

(* The caches C are new or freed with the last Arc to them. *)
BlankCaches(C) ==
  /\ DropEntries(C)
  /\ poisoned' = poisoned \ C
  /\ shared' = shared \ C

(* The caches no VM of L points to. *)
Unused(L, pointer) == Vms \ {pointer[v] : v \in L}
Blank == [p \in Cells |-> Empty]

-----------------------------------------------------------------------------
(* read_rect: the first critical section. *)
ReadScan(v, r) ==
  LET absent == r \ Resident(cacheOf[v]) IN
  /\ v \in live /\ pc[v] = "idle" /\ cacheOf[v] \notin poisoned
  /\ pc' = [pc EXCEPT ![v] = IF absent = {} THEN "serve" ELSE "fill"]
  /\ want' = [want EXCEPT ![v] = r]
  /\ missing' = [missing EXCEPT ![v] = absent]
  /\ UNCHANGED <<live, cells, cacheOf, cacheVars, shared>>

(* read_rect: the second critical section fills the tiles the first one    *)
(* found missing, in order, and evicts after each insertion; the tiles it  *)
(* inserts are the newest, so what remains is the most recently used part. *)
ReadFill(v) ==
  LET c == cacheOf[v]
      filled == [t \in Resident(c) \cup missing[v] |->
                   IF t \in missing[v] THEN TileOf(v, t) ELSE tiles[c][t]]
      used == TouchInOrder(stamp[c], missing[v])
  IN
  /\ pc[v] = "fill" /\ c \notin poisoned
  /\ \E K \in Survivors(used) :
       /\ tiles' = [tiles EXCEPT ![c] = Restriction(filled, K)]
       /\ stamp' = [stamp EXCEPT ![c] = Rank(Restriction(used, K))]
  /\ present' = present \cup {c}
  /\ pc' = [pc EXCEPT ![v] = "serve"]
  /\ UNCHANGED <<live, cells, cacheOf, poisoned, want, missing, shared>>

(* What the third critical section hands to the caller: a tile that is not *)
(* resident reads as empty cells.                                          *)
Served(v) ==
  LET c == cacheOf[v] IN
  [t \in want[v] |-> IF t \in Resident(c) THEN tiles[c][t]
                     ELSE [s \in Slots |-> Empty]]

EndRead(v) ==
  /\ pc' = [pc EXCEPT ![v] = "idle"]
  /\ want' = [want EXCEPT ![v] = {}]
  /\ missing' = [missing EXCEPT ![v] = {}]

(* read_rect: the third critical section.  It expects the entry to be      *)
(* there; without it the read panics while it holds the mutex.             *)
ReadServe(v) ==
  LET c == cacheOf[v] IN
  /\ pc[v] = "serve" /\ c \notin poisoned
  /\ \/ /\ c \in present
        /\ stamp' = [stamp EXCEPT ![c] = TouchTogether(@, want[v])]
        /\ UNCHANGED poisoned
     \/ /\ c \notin present
        /\ poisoned' = poisoned \cup {c}
        /\ UNCHANGED stamp
  /\ EndRead(v)
  /\ UNCHANGED <<live, cells, cacheOf, present, tiles, shared>>

(* A read that finds the mutex poisoned panics and returns nothing. *)
ReadPanics(v) ==
  /\ pc[v] \in {"fill", "serve"} /\ cacheOf[v] \in poisoned
  /\ EndRead(v)
  /\ UNCHANGED <<live, cells, cacheOf, cacheVars, shared>>

-----------------------------------------------------------------------------
Written(v, W, new) ==
  [cells EXCEPT ![v] = [p \in Cells |-> IF p \in W THEN new[p] ELSE @[p]]]

TilesOf(W) == {p[1] : p \in W}

(* Mutant: a write leaves the resident tiles alone. *)
CacheIgnoresWrite(c, W, new) == UNCHANGED <<present, tiles, stamp>>

(* update_cached_tiles_for_rect: a small write is patched into the         *)
(* resident tiles, a large one drops the tiles it touches.                 *)
UpdateCachedTiles(c, W, new) ==
  LET hit == TilesOf(W) \cap Resident(c)
      kept == Resident(c) \ TilesOf(W)
  IN
  /\ UNCHANGED present
  /\ IF Cardinality(W) <= MaxIncremental
     THEN /\ tiles' = [tiles EXCEPT ![c] =
                [t \in Resident(c) |-> [s \in Slots |->
                   IF <<t, s>> \in W THEN new[<<t, s>>] ELSE @[t][s]]]]
          /\ stamp' = [stamp EXCEPT ![c] = TouchInOrder(@, hit)]
     ELSE /\ tiles' = [tiles EXCEPT ![c] = Restriction(@, kept)]
          /\ stamp' = [stamp EXCEPT ![c] = Rank(Restriction(@, kept))]

(* write_rect (set_range, append_row).  It changes the cells first, so on  *)
(* a poisoned mutex it panics with the cells already written.              *)
WriteRect(v, W, new) ==
  /\ v \in live /\ pc[v] = "idle"
  /\ cells' = Written(v, W, new)
  /\ IF cacheOf[v] \in poisoned THEN UNCHANGED <<present, tiles, stamp>>
     ELSE UpdateCachedTiles(cacheOf[v], W, new)
  /\ UNCHANGED <<live, cacheOf, poisoned, readVars, shared>>

(* Every other edit reaches the cells through a path that first drops the  *)
(* sheet's entry: cells_mut and sheet_cells_mut (set_cell, set_formula,    *)
(* clear, insert/delete rows), spill writes and releases, moving ranges.   *)
EditThroughMap(v, W, new) ==
  /\ v \in live /\ pc[v] = "idle" /\ cacheOf[v] \notin poisoned
  /\ cells' = Written(v, W, new)
  /\ DropEntries({cacheOf[v]})
  /\ UNCHANGED <<live, cacheOf, poisoned, readVars, shared>>

(* recalculate_all writes the computed values straight into the cell map   *)
(* and does not touch the tile cache.                                      *)
Recalculate(v, new) ==
  /\ v \in live /\ pc[v] = "idle"
  /\ cells' = Written(v, FormulaCells, new)
  /\ UNCHANGED <<live, cacheOf, cacheVars, readVars, shared>>

(* Mutant: restoring a snapshot keeps the cache the VM was using. *)
RestoreKeepsCache(v, old, c) ==
  /\ v \in live /\ pc[v] = "idle"
  /\ cells' = [cells EXCEPT ![v] = old]
  /\ UNCHANGED <<live, cacheOf, cacheVars, readVars, shared>>

(* restore_edit_history (undo, redo, abort): the cells become those of a   *)
(* snapshot and the VM gets a new, empty cache object.                     *)
Restore(v, old, c) ==
  /\ v \in live /\ pc[v] = "idle"
  /\ \A w \in live \ {v} : cacheOf[w] # c
  /\ cells' = [cells EXCEPT ![v] = old]
  /\ cacheOf' = [cacheOf EXCEPT ![v] = c]
  /\ BlankCaches(Unused(live, cacheOf') \cup {c})
  /\ UNCHANGED <<live, readVars>>

(* fork: a derived Clone.  The cells are copied, the Arc is shared.        *)
Fork(v, w) ==
  /\ v \in live /\ w \notin live
  /\ live' = live \cup {w}
  /\ cells' = [cells EXCEPT ![w] = cells[v]]
  /\ cacheOf' = [cacheOf EXCEPT ![w] = cacheOf[v]]
  /\ shared' = shared \cup {cacheOf[v]}
  /\ UNCHANGED <<cacheVars, readVars>>

(* run_and_save that fails drops its fork. *)
DropFork(w) ==
  /\ w \in live \ {Host} /\ pc[w] = "idle"
  /\ live' = live \ {w}
  /\ cells' = [cells EXCEPT ![w] = Blank]
  /\ BlankCaches(Unused(live', cacheOf))
  /\ UNCHANGED <<cacheOf, readVars>>

(* run_and_save that succeeds makes its fork the host. *)
PublishFork(w) ==
  /\ w \in live \ {Host} /\ pc[w] = "idle" /\ pc[Host] = "idle"
  /\ live' = live \ {w}
  /\ cells' = [cells EXCEPT ![Host] = cells[w], ![w] = Blank]
  /\ cacheOf' = [cacheOf EXCEPT ![Host] = cacheOf[w]]
  /\ BlankCaches(Unused(live', cacheOf'))
  /\ UNCHANGED readVars

ReadStep(v) ==
  \/ \E r \in Requests : ReadScan(v, r)
  \/ ReadFill(v)
  \/ ReadServe(v)
  \/ ReadPanics(v)

EditStep(v) ==
  \/ \E W \in Writes : \E new \in [W -> Values] :
       WriteRect(v, W, new) \/ EditThroughMap(v, W, new)
  \/ \E new \in [FormulaCells -> Values] : Recalculate(v, new)
  \/ \E old \in [Cells -> Values], c \in Vms : Restore(v, old, c)

Next ==
  \E v \in Vms :
    \/ ReadStep(v)
    \/ EditStep(v)
    \/ \E w \in Vms : Fork(v, w)
    \/ DropFork(v)
    \/ PublishFork(v)

Spec == Init /\ [][Next]_vars

-----------------------------------------------------------------------------
TypeOK ==
  /\ live \subseteq Vms /\ Host \in live
  /\ cells \in [Vms -> [Cells -> Values]]
  /\ cacheOf \in [Vms -> Vms]
  /\ present \subseteq Vms /\ poisoned \subseteq Vms /\ shared \subseteq Vms
  /\ DOMAIN tiles = Vms /\ DOMAIN stamp = Vms
  /\ \A c \in Vms :
       /\ Resident(c) \subseteq Tiles
       /\ tiles[c] \in [Resident(c) -> [Slots -> Values]]
       /\ stamp[c] \in [Resident(c) -> Nat]
       /\ c \notin present => Resident(c) = {}
  /\ pc \in [Vms -> {"idle", "fill", "serve"}]
  /\ want \in [Vms -> SUBSET Tiles] /\ missing \in [Vms -> SUBSET Tiles]

(* A worksheet never keeps more than MAX_CELL_TILES_PER_SHEET tiles,       *)
(* whatever reads, writes, forks and restores come before: the eviction    *)
(* inside read_rect is the only thing that holds the limit.                *)
CacheBounded == \A c \in Vms : Cardinality(Resident(c)) <= MaxTiles

(* The cells a tile can be trusted for: no recalculation writes them.      *)
Stored == Cells \ FormulaCells

(* Every resident tile of a cache only one VM ever used shows what that    *)
(* VM's worksheet stores: writing patches or drops every tile it touches,  *)
(* map edits drop them all, restoring a snapshot changes the cache.        *)
PrivateCacheCoherent ==
  \A v \in live : cacheOf[v] \notin shared =>
    \A t \in Resident(cacheOf[v]) : \A s \in Slots :
      <<t, s>> \in Stored => tiles[cacheOf[v]][t][s] = cells[v][<<t, s>>]

(* A read_rect of a VM whose cache is its own returns what its worksheet   *)
(* stores, from tiles that are still resident when it gets to serve them:  *)
(* filling a missing tile must not evict another tile of the same read.    *)
PrivateReadsAreCurrent ==
  \A v \in live : pc[v] = "serve" /\ cacheOf[v] \notin shared =>
    /\ cacheOf[v] \in present \ poisoned
    /\ \A t \in want[v] : \A s \in Slots :
         <<t, s>> \in Stored => Served(v)[t][s] = cells[v][<<t, s>>]
=============================================================================

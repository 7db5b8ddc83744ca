-------------------------- MODULE MCCellTileCache --------------------------
(* Values of the constants of CellTileCache for TLC.  Three tiles of one   *)
(* cell each and a limit of two are the least that make a tile give way to *)
(* another one while a third is being read.                                *)
EXTENDS CellTileCache

CONSTANTS x  \* a cell value that is not Empty

OneCell == {1}
EmptyOrX == {Empty, x}

(* Reads of one tile, and reads of one or two neighbouring tiles. *)
SingleTiles == {{t} : t \in Tiles}
Spans == SingleTiles \cup {{t, t + 1} : t \in 1..(NumTiles - 1)}

(* A write small enough to patch tiles and one that drops the tiles. *)
SmallAndLarge == {{<<1, 1>>}, {<<1, 1>>, <<2, 1>>}}

NoFormulas == {}
LastIsFormula == {<<NumTiles, 1>>}
=============================================================================

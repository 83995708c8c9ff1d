--------------------------- MODULE MCBlockDiskStore ---------------------------
(***************************************************************************)
(* Instance of BlockDiskStore for TLC: two blocks, room for one.           *)
(***************************************************************************)
EXTENDS BlockDiskStore

CONSTANTS h1, h2

MCFaults == {{"overlap"}, {"crash", "save"}, {"db"}}
===============================================================================

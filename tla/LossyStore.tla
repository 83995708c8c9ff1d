------------------------------ MODULE LossyStore ------------------------------
(***************************************************************************)
(* What a disk level of the cache promises to the level above it           *)
(* (vmlx_engine/block_disk_store.py): a read finds nothing, or finds a     *)
(* whole value that was stored under its key since the last clear          *)
(* returned.  It may lose what it holds at any time.                       *)
(***************************************************************************)
EXTENDS Naturals

CONSTANTS
  Keys,     \* the keys of the store
  None

VARIABLES
  held,     \* the pairs of a key and the epoch its value was stored in
  epoch,    \* the number of times the store has been cleared
  reply     \* what the last read returned

vars == <<held, epoch, reply>>

Init == held = {} /\ epoch = 0 /\ reply = None

Store(k) ==
  /\ held' = held \cup {<<k, epoch>>}
  /\ UNCHANGED <<epoch, reply>>

Lose ==
  /\ held' \in SUBSET held
  /\ UNCHANGED <<epoch, reply>>

Clear ==
  /\ epoch' = epoch + 1
  /\ held' = {}
  /\ UNCHANGED reply

Read(k) ==
  /\ reply' \in {None} \cup {v \in held : v[1] = k}
  /\ UNCHANGED <<held, epoch>>

Next == Lose \/ Clear \/ \E k \in Keys : Store(k) \/ Read(k)

Spec == Init /\ [][Next]_vars
===============================================================================

------------------------------ MODULE MCMachine ------------------------------
(* Three parts that do not touch one another: a capsule or a sample while a *)
(* table is seeded, or seeding by itself; fault injection; and the          *)
(* inventory file.  One of them moves in a behaviour and the others are at  *)
(* rest.                                                                    *)
EXTENDS MCCapsule, MCChaos, MCInventory

VARIABLE part  \* which one moves

NoCapsule ==
  /\ schema = Circle /\ db = CHOOSE d \in Databases(Circle) : TRUE
  /\ sample = Sampling("roots", Circle, FALSE) /\ seed = Seeding("off", {}) /\ inserts = 0
  /\ capsule = [at |-> "failed", volumes |-> FALSE, db_sample |-> FALSE, image |-> FALSE, sql |-> FALSE]
  /\ file = NoFile /\ load = Loading("idle", 0)
  /\ there = [images |-> {}, container |-> NoContainer, volumes |-> {}]

NoChaos == ChaosInit /\ day.at = "alone"

NoInventory ==
  /\ fleet = [hosts |-> {}, in |-> << >>, computed |-> << >>]
  /\ doing = [p \in Process |-> "idle"] /\ given = 0
  /\ cmd = [p \in Process |-> Nothing] /\ copy = [p \in Process |-> Nothing]

MachineInit ==
  \/ part = "capsule" /\ ((AloneInit /\ Cardinality(seed.wanted) = 1) \/ CapsuleInit) /\ schema \in {Org, Circle} /\ NoChaos /\ NoInventory
  \/ part = "seed" /\ AloneInit /\ ~sample.children /\ NoChaos /\ NoInventory
  \/ part = "chaos" /\ NoCapsule /\ ChaosInit /\ NoInventory
  \/ part = "inventory" /\ NoCapsule /\ NoChaos /\ InventoryInit

MachineNext ==
  \/ part = "capsule" /\ CapsuleNext /\ UNCHANGED <<part, chaosVars, inventoryVars>>
  \/ part = "seed" /\ Others /\ UNCHANGED <<part, chaosVars, inventoryVars>>
  \/ part = "chaos" /\ ChaosNext /\ UNCHANGED <<part, allvars, inventoryVars>>
  \/ part = "inventory" /\ InventoryNext /\ UNCHANGED <<part, allvars, chaosVars>>

MachineSpec == MachineInit /\ [][MachineNext]_<<part, allvars, chaosVars, inventoryVars>>
=============================================================================

------------------------------ MODULE HashMap ------------------------------
(***************************************************************************)
(* The hash tables: Map and Set of compiled programs (bbb_hashtable.h),    *)
(* their twins in the bytecode interpreter (bcmap.c) and the compiler's    *)
(* own table of names (base.c).  All probe linearly from the slot of the   *)
(* hash, mark a removed entry with a tombstone and grow to twice the size  *)
(* when half of the slots are in use.  An insertion that finds its key     *)
(* overwrites in a Map, fails in a Set, and does what its caller asks for  *)
(* in the table of names, which alone counts a tombstone off when it is    *)
(* used again.                                                             *)
(*                                                                         *)
(* The hash is any function of the keys to Hashes, so that collisions of   *)
(* all kinds are tried.  InitCapacity is 8 in the code; Capacity bounds    *)
(* the growth.  What is left in the slot of a removed entry is never read  *)
(* and left out.                                                           *)
(***************************************************************************)
EXTENDS Integers, FiniteSets, FiniteSetsExt

CONSTANTS Keys, Values, NoValue, Hashes, InitCapacity, Capacity

VARIABLES flavour, \* "map", "set" or "names"
          hash,    \* the hash of each key
          table,   \* the table
          ret      \* what the last call returned

entries == << flavour, hash, table, ret >>

\* A hash is a number, and the first table has a slot.
TableConstants == Hashes \subseteq Nat /\ InitCapacity \in Nat \ {0}

EmptySlot   == [state |-> "Empty", key |-> NoValue, value |-> NoValue]
Tombstone   == [state |-> "Tombstone", key |-> NoValue, value |-> NoValue]
Entry(k, v) == [state |-> "Occupied", key |-> k, value |-> v]

Table(cap, slots, n, dead) == [capacity |-> cap, slots |-> slots, count |-> n, tombstones |-> dead]
EmptyTable(cap) == Table(cap, [i \in 0 .. cap - 1 |-> EmptySlot], 0, 0)

\* A table of names is made before it is used, a Map or a Set by its first insertion.
TablesInit ==
  /\ flavour \in {"map", "set", "names"}
  /\ hash \in [Keys -> Hashes]
  /\ table = EmptyTable(IF flavour = "names" THEN InitCapacity ELSE 0)
  /\ ret = NoValue

ensure_init(t) == IF t.capacity = 0 THEN EmptyTable(InitCapacity) ELSE t

(***************************************************************************)
(* Probing.  The loop over i stops at the first slot that is empty or      *)
(* holds the key; a tombstone is passed.                                   *)
(***************************************************************************)
At(t, k, i)    == (hash[k] + i) % t.capacity
Slot(t, k, i)  == t.slots[At(t, k, i)]
Holds(s, k)    == s.state = "Occupied" /\ s.key = k
Stops(t, k)    == { i \in 0 .. t.capacity - 1 : Slot(t, k, i).state = "Empty" \/ Holds(Slot(t, k, i), k) }

Found(t, k)    == Stops(t, k) # {} /\ Holds(Slot(t, k, Min(Stops(t, k))), k)
Place(t, k)    == At(t, k, Min(Stops(t, k)))
Tombs(t, k)    == { i \in 0 .. Min(Stops(t, k)) - 1 : Slot(t, k, i).state = "Tombstone" }

\* An insertion that does not find its key takes the first tombstone it
\* passed, and the empty slot it stopped at if there was none.
Target(t, k)   == IF Tombs(t, k) = {} THEN Place(t, k) ELSE At(t, k, Min(Tombs(t, k)))
Enter(t, k, v) ==
  Table(t.capacity, [t.slots EXCEPT ![Target(t, k)] = Entry(k, v)], t.count + 1,
        IF flavour = "names" /\ Tombs(t, k) # {} THEN t.tombstones - 1 ELSE t.tombstones)

\* Every entry is entered anew, in the order of the old slots.  Fewer than
\* all of them are, so that the table does not grow again meanwhile.
Moved(t, s) == IF s.state = "Occupied" THEN Enter(t, s.key, s.value) ELSE t
resize(t, cap) ==
  LET to[n \in 0 .. t.capacity] == IF n = 0 THEN EmptyTable(cap) ELSE Moved(to[n - 1], t.slots[n - 1])
  IN  to[t.capacity]
Grows(t)    == (t.count + t.tombstones) * 2 >= t.capacity
Room(t)     == IF Grows(t) THEN resize(t, t.capacity * 2) ELSE t

(***************************************************************************)
(* The calls.                                                              *)
(***************************************************************************)
Overwrite(t, k, v) == Table(t.capacity, [t.slots EXCEPT ![Place(t, k)] = Entry(k, v)], t.count, t.tombstones)
\* Mutant: every table overwrites.
InsertOverwrites(t, k, v, overwrite) ==
  IF Stops(t, k) = {} THEN << t, FALSE >> ELSE << IF Found(t, k) THEN Overwrite(t, k, v) ELSE Enter(t, k, v), TRUE >>
Insert(t, k, v, overwrite) ==
  IF Stops(t, k) = {} THEN << t, FALSE >>
  ELSE IF ~Found(t, k) THEN << Enter(t, k, v), TRUE >>
  ELSE IF overwrite THEN << Overwrite(t, k, v), TRUE >>
  ELSE << t, FALSE >>

\* Whether a call may overwrite: only the table of names leaves it to its caller.
MayOverwrite == [map |-> {TRUE}, set |-> {FALSE}, names |-> BOOLEAN]
map_set(k, v, overwrite) ==
  LET r == Insert(Room(ensure_init(table)), k, v, overwrite)
  IN  /\ Room(ensure_init(table)).capacity <= Capacity
      /\ table' = r[1] /\ ret' = r[2]
      /\ UNCHANGED << flavour, hash >>

map_get(k) ==
  /\ ret' = IF table.capacity > 0 /\ Found(table, k) THEN table.slots[Place(table, k)].value ELSE NoValue
  /\ UNCHANGED << flavour, hash, table >>

Bury(t, k) == Table(t.capacity, [t.slots EXCEPT ![Place(t, k)] = Tombstone], t.count - 1, t.tombstones + 1)
map_remove(k) ==
  LET found == table.capacity > 0 /\ Found(table, k)
  IN  /\ table' = IF found THEN Bury(table, k) ELSE table
      /\ ret' = found
      /\ UNCHANGED << flavour, hash >>

TablesNext == \E k \in Keys : \/ map_get(k)
                       \/ map_remove(k)
                       \/ \E v \in Values, overwrite \in MayOverwrite[flavour] : map_set(k, v, overwrite)
TablesSpec == TablesInit /\ [][TablesNext]_entries

-----------------------------------------------------------------------------
\* The slots of a table that are in use and those that were, and the map it is.
Taken(t)   == { i \in 0 .. t.capacity - 1 : t.slots[i].state = "Occupied" }
Dead(t)    == { i \in 0 .. t.capacity - 1 : t.slots[i].state = "Tombstone" }
Entries(t) == [k \in { t.slots[i].key : i \in Taken(t) } |->
                 t.slots[CHOOSE i \in Taken(t) : t.slots[i].key = k].value]
Abstract == INSTANCE AbstractMap WITH map <- Entries(table)

\* The tables are maps: whatever hashes collide, whatever tombstones lie on
\* the way and whenever the table grows, each call returns what it would on a
\* plain map (set, get, remove and contains of bcmap.c and bbb_hashtable.h).
ImplementsMap == Abstract!Spec

(***************************************************************************)
(* Why they are: no key is in two slots, each is reached from its hash     *)
(* without passing an empty slot, and the counts that decide when to grow  *)
(* are not too low.                                                        *)
(***************************************************************************)
SlotRecords == [state : {"Empty", "Occupied", "Tombstone"}, key : Keys \cup {NoValue}, value : Values \cup {NoValue}]
TableTypes(t) ==
  /\ t = Table(t.capacity, t.slots, t.count, t.tombstones)
  /\ t.capacity \in Nat /\ t.count \in Nat /\ t.tombstones \in Nat
  /\ t.slots \in [0 .. t.capacity - 1 -> SlotRecords]
  /\ \A i \in Taken(t) : t.slots[i].key \in Keys /\ t.slots[i].value \in Values
KeysAreUnique(t)  == \A i, j \in Taken(t) : t.slots[i].key = t.slots[j].key => i = j
Reached(t, k, j)  == \E i \in 0 .. t.capacity - 1 :
                       At(t, k, i) = j /\ \A m \in 0 .. i - 1 : Slot(t, k, m).state # "Empty"
KeysAreReached(t) == \A j \in Taken(t) : Reached(t, t.slots[j].key, j)
CountsAreHigh(t)  == t.count = Cardinality(Taken(t)) /\ Cardinality(Dead(t)) <= t.tombstones
TableOK(t) == TableTypes(t) /\ KeysAreUnique(t) /\ KeysAreReached(t) /\ CountsAreHigh(t)

\* The invariant behind ImplementsMap.
HashInv == flavour \in {"map", "set", "names"} /\ hash \in [Keys -> Hashes] /\ TableOK(table)
=============================================================================

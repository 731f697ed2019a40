-------------------------- MODULE HashTableProofs --------------------------
(* Proofs about HashTable, for every set of keys, hash function and        *)
(* initial size.                                                           *)
EXTENDS HashTable, TLAPS, FiniteSetTheorems, NaturalsInduction,
        WellFoundedInduction

----------------------------------------------------------------------------
(* Facts about the operators the actions are built from.                   *)

(* A non-empty set of naturals has a least element.                        *)
LEMMA LeastFact ==
  ASSUME NEW S, S \subseteq Nat, S # {}
  PROVE  Least(S) \in S /\ \A m \in S : Least(S) <= m
<1>1. PICK x \in S : \A y \in S : ~(<<y, x>> \in OpToRel(<, Nat))
  BY NatLessThanWellFounded, WFMin
<1>2. ASSUME NEW y \in S PROVE x <= y
  <2>1. ~(y < x)
    BY <1>1 DEF OpToRel
  <2>2. QED
    BY <2>1
<1>3. QED
  BY <1>2 DEF Least

(* A probe of n steps visits n different slots, and c steps visit all c.   *)
LEMMA SlotFacts ==
  ASSUME NEW c \in Nat, c > 0, NEW k \in Keys
  PROVE  /\ \A n \in 0 .. c - 1 : Slot(c, k, n) \in 0 .. c - 1
         /\ \A m, n \in 0 .. c - 1 : Slot(c, k, m) = Slot(c, k, n) => m = n
         /\ \A j \in 0 .. c - 1 : \E n \in 0 .. c - 1 : Slot(c, k, n) = j
<1> DEFINE h == Hash[k] % c
<1>1. h \in 0 .. c - 1
  BY ConstantsAssumption
<1> HIDE DEF h
<1>2. \A n : Slot(c, k, n) = IF h + n < c THEN h + n ELSE h + n - c
  BY DEF Slot, h
<1>3. ASSUME NEW j \in 0 .. c - 1
      PROVE  \E n \in 0 .. c - 1 : Slot(c, k, n) = j
  <2>1. CASE j >= h
    <3>1. j - h \in 0 .. c - 1 /\ Slot(c, k, j - h) = j
      BY <1>1, <1>2, <2>1
    <3>2. QED
      BY <3>1
  <2>2. CASE j < h
    <3>1. j + c - h \in 0 .. c - 1 /\ Slot(c, k, j + c - h) = j
      BY <1>1, <1>2, <2>2
    <3>2. QED
      BY <3>1
  <2>3. QED
    BY <1>1, <2>1, <2>2
<1>4. QED
  BY <1>1, <1>2, <1>3

(* The load factor always leaves a slot unused, and doubling the table     *)
(* always makes room for another insertion.                                *)
LEMMA LoadFacts ==
  ASSUME NEW c \in Nat
  PROVE  /\ MaxLoad(c) \in Nat
         /\ c > 0 => MaxLoad(c) < c
         /\ c >= 2 => MaxLoad(c) < MaxLoad(2 * c)
         /\ c >= 2 => MaxLoad(c) > 0
         /\ MaxLoad(0) = 0
  BY DEF MaxLoad

(* As long as one slot is free every probe stops.                          *)
LEMMA FreeSlotStops ==
  ASSUME NEW c \in Nat, c > 0, NEW e \in Array(c), NEW k \in Keys,
         NEW j \in 0 .. c - 1, IsFree(e[j])
  PROVE  Stops(e, c, k) # {}
<1>1. PICK n \in 0 .. c - 1 : Slot(c, k, n) = j
  BY SlotFacts
<1>2. n \in Stops(e, c, k)
  BY <1>1 DEF Stops
<1>3. QED
  BY <1>2

(* The slot Entry_find returns, given that the probe stops in a table whose*)
(* paths are intact: the slot of the key if it is stored, and otherwise a  *)
(* slot without an entry that the key's probe reaches before a free one.   *)
OnPath(e, c, k, j) ==
  \E n \in 0 .. c - 1 : /\ Slot(c, k, n) = j
                        /\ \A m \in 0 .. n - 1 : ~IsFree(e[Slot(c, k, m)])

Fits(e, c, k, j) ==
  /\ j \in 0 .. c - 1
  /\ OnPath(e, c, k, j)
  /\ e[j].key = k \/ e[j].key = Empty
  /\ \A i \in Live(e) : e[i].key = k => i = j

(* Entry_find ends, in a slot that fits its key.                           *)
LEMMA EntryFindFact ==
  ASSUME NEW c \in Nat, c > 0, NEW e \in Array(c), NEW k \in Keys,
         Stops(e, c, k) # {}, PathsIntact(e, c), NoDuplicates(e)
  PROVE  Fits(e, c, k, EntryFind(e, c, k))
<1> DEFINE j == EntryFind(e, c, k)
           s == Least(Stops(e, c, k))
           T == Tombs(e, c, k, s)
<1>1. s \in 0 .. c - 1 /\ s \in Stops(e, c, k)
  BY LeastFact DEF Stops
<1>2. \A n \in Stops(e, c, k) : s <= n
  BY LeastFact DEF Stops
<1>3. \A m \in 0 .. s - 1 : ~IsFree(e[Slot(c, k, m)]) /\ e[Slot(c, k, m)].key # k
  BY <1>1, <1>2 DEF Stops
<1>4. ASSUME NEW i \in Live(e), e[i].key = k
      PROVE  i = Slot(c, k, s) /\ e[Slot(c, k, s)].key = k
  <2>1. PICK n \in 0 .. c - 1 :
               /\ Slot(c, k, n) = i
               /\ \A m \in 0 .. n - 1 : ~IsFree(e[Slot(c, k, m)])
    BY <1>4 DEF PathsIntact
  <2>2. n \in Stops(e, c, k)
    BY <1>4, <2>1 DEF Stops
  <2>3. s <= n
    BY <1>2, <2>2
  <2>4. CASE s = n
    BY <1>4, <2>1, <2>4
  <2>5. CASE s < n
    <3>1. ~IsFree(e[Slot(c, k, s)])
      BY <1>1, <2>1, <2>5
    <3>2. e[Slot(c, k, s)].key = k
      BY <1>1, <3>1 DEF Stops
    <3>3. Slot(c, k, s) \in Live(e)
      BY ZenonT(60), <1>1, <3>2, SlotFacts, ConstantsAssumption DEF Live, Array
    <3>4. QED
      BY <1>4, <3>2, <3>3 DEF NoDuplicates
  <2>6. QED
    BY <1>1, <2>3, <2>4, <2>5
<1>5. CASE e[Slot(c, k, s)].key = k \/ T = {}
  <2>1. j = Slot(c, k, s)
    BY <1>5 DEF EntryFind
  <2>2. e[Slot(c, k, s)].key = k \/ e[Slot(c, k, s)].key = Empty
    BY <1>1 DEF Stops, IsFree
  <2>3. QED
    BY <1>1, <1>3, <1>4, <2>1, <2>2, SlotFacts DEF OnPath, Fits
<1>6. CASE ~(e[Slot(c, k, s)].key = k \/ T = {})
  <2>1. j = Slot(c, k, Least(T))
    BY <1>6 DEF EntryFind
  <2>2. T \subseteq 0 .. s - 1 /\ T \subseteq Nat
    BY <1>1 DEF Tombs
  <2>3. Least(T) \in T
    BY <1>6, <2>2, LeastFact
  <2>4. IsTombstone(e[j])
    BY <2>1, <2>3 DEF Tombs
  <2>5. Least(T) \in 0 .. c - 1 /\ Least(T) < s
    BY <1>1, <2>2, <2>3
  <2>6. \A i \in Live(e) : e[i].key # k
    BY <1>4, <1>6
  <2>7. OnPath(e, c, k, j)
    BY <1>1, <1>3, <2>1, <2>5 DEF OnPath
  <2>8. QED
    BY <2>1, <2>4, <2>5, <2>6, <2>7, SlotFacts DEF IsTombstone, Fits
<1>7. QED
  BY <1>5, <1>6

(* Storing an entry for k in the slot Entry_find returned.                 *)
Stored(e, j, k, v) == [e EXCEPT ![j] = [key |-> k, val |-> v]]

(* Storing an entry there keeps every probe path whole and no key twice.   *)
LEMMA StoreFact ==
  ASSUME NEW c \in Nat, c > 0, NEW e \in Array(c), NEW k \in Keys, NEW v \in Vals,
         PathsIntact(e, c), NoDuplicates(e),
         NEW j, Fits(e, c, k, j)
  PROVE  LET f == Stored(e, j, k, v)
         IN  /\ f \in Array(c)
             /\ PathsIntact(f, c) /\ NoDuplicates(f)
             /\ Live(f) = Live(e) \cup {j}
             /\ Used(f) = Used(e) \cup {j}
             /\ DOMAIN f = 0 .. c - 1
             /\ f[j] = [key |-> k, val |-> v]
             /\ \A i \in 0 .. c - 1 : i # j => f[i] = e[i]
<1> DEFINE f == Stored(e, j, k, v)
<1> USE DEF Fits, Stored
<1>1. k # Empty
  BY ConstantsAssumption
<1>2. f \in Array(c) /\ DOMAIN f = 0 .. c - 1 /\ DOMAIN e = 0 .. c - 1
  BY DEF Array, Entry
<1>3. f[j] = [key |-> k, val |-> v] /\ \A i \in 0 .. c - 1 : i # j => f[i] = e[i]
  BY <1>2 DEF Array
<1> HIDE DEF f
<1>4. f[j].key = k /\ ~IsFree(f[j])
  BY <1>1, <1>3 DEF IsFree
<1>5. \A i \in 0 .. c - 1 : IsFree(f[i]) => IsFree(e[i])
  BY <1>3, <1>4
<1>6. Live(f) = Live(e) \cup {j} /\ Used(f) = Used(e) \cup {j}
  BY <1>1, <1>2, <1>3, <1>4 DEF Live, Used
<1>7. NoDuplicates(f)
  BY <1>1, <1>2, <1>3, <1>4, <1>6 DEF NoDuplicates, Live
<1>8. ASSUME NEW i \in Live(f)
      PROVE  \E n \in 0 .. c - 1 :
               /\ Slot(c, f[i].key, n) = i
               /\ \A m \in 0 .. n - 1 : ~IsFree(f[Slot(c, f[i].key, m)])
  <2>1. f[i].key \in Keys /\ i \in 0 .. c - 1
    BY <1>2, <1>8 DEF Live, Array, Entry
  <2>2. PICK n \in 0 .. c - 1 :
               /\ Slot(c, f[i].key, n) = i
               /\ \A m \in 0 .. n - 1 : ~IsFree(e[Slot(c, f[i].key, m)])
    <3>1. CASE i = j
      BY <1>4, <3>1 DEF OnPath
    <3>2. CASE i # j
      BY <1>3, <1>6, <2>1, <3>2 DEF PathsIntact
    <3>3. QED
      BY <3>1, <3>2
  <2>3. ASSUME NEW m \in 0 .. n - 1 PROVE Slot(c, f[i].key, m) \in 0 .. c - 1
    <3>1. m \in 0 .. c - 1
      OBVIOUS
    <3>2. QED
      BY <2>1, <3>1, SlotFacts
  <2>4. QED
    BY <1>5, <2>2, <2>3
<1>9. PathsIntact(f, c)
  BY <1>8 DEF PathsIntact
<1>10. QED
  BY <1>2, <1>3, <1>6, <1>7, <1>9 DEF f

(* Turning an entry into a tombstone keeps every other entry reachable.    *)
LEMMA BuryFact ==
  ASSUME NEW c \in Nat, NEW e \in Array(c),
         PathsIntact(e, c), NoDuplicates(e),
         NEW j \in Live(e),
         NEW f, f = [e EXCEPT ![j] = Tombstone]
  PROVE  /\ f \in Array(c)
         /\ PathsIntact(f, c) /\ NoDuplicates(f)
         /\ Live(f) = Live(e) \ {j}
         /\ Used(f) = Used(e)
         /\ \A i \in 0 .. c - 1 : i # j => f[i] = e[i]
<1>1. DOMAIN e = 0 .. c - 1 /\ DOMAIN f = 0 .. c - 1 /\ j \in 0 .. c - 1
  BY DEF Array, Live
<1>2. f \in Array(c)
  BY <1>1, ConstantsAssumption DEF Array, Entry, Tombstone
<1>3. f[j] = Tombstone /\ \A i \in 0 .. c - 1 : i # j => f[i] = e[i]
  BY <1>1 DEF Array
<1>4. f[j].key = Empty /\ ~IsFree(f[j]) /\ ~IsFree(e[j])
  BY <1>3 DEF Tombstone, IsFree, Live
<1>5. \A i \in 0 .. c - 1 : IsFree(f[i]) => IsFree(e[i])
  BY <1>3, <1>4
<1>6. Live(f) = Live(e) \ {j} /\ Used(f) = Used(e)
  BY <1>1, <1>3, <1>4 DEF Live, Used
<1>7. NoDuplicates(f)
  BY <1>1, <1>3, <1>6 DEF NoDuplicates, Live
<1>8. ASSUME NEW i \in Live(f)
      PROVE  \E n \in 0 .. c - 1 :
               /\ Slot(c, f[i].key, n) = i
               /\ \A m \in 0 .. n - 1 : ~IsFree(f[Slot(c, f[i].key, m)])
  <2>1. f[i].key \in Keys /\ i \in 0 .. c - 1 /\ f[i] = e[i] /\ i \in Live(e) /\ c > 0
    BY <1>1, <1>2, <1>3, <1>6, <1>8 DEF Live, Array, Entry
  <2>2. PICK n \in 0 .. c - 1 :
               /\ Slot(c, f[i].key, n) = i
               /\ \A m \in 0 .. n - 1 : ~IsFree(e[Slot(c, f[i].key, m)])
    BY <2>1 DEF PathsIntact
  <2>3. ASSUME NEW m \in 0 .. n - 1 PROVE Slot(c, f[i].key, m) \in 0 .. c - 1
    <3>1. m \in 0 .. c - 1
      OBVIOUS
    <3>2. QED
      BY <2>1, <3>1, SlotFacts
  <2>4. QED
    BY <1>5, <2>2, <2>3
<1>9. QED
  BY <1>2, <1>3, <1>6, <1>7, <1>8 DEF PathsIntact
----------------------------------------------------------------------------
(* The inductive invariant.  Control says what each program point may      *)
(* rely on; Moved counts the entries an expansion has moved, which is what *)
(* bounds the load of the array being filled.                              *)
Passed == {j \in Live(entries) : j < idx}

Control ==
  /\ cap = 0 \/ cap >= InitialSize
  /\ pc = "place" => cap > 0 /\ left > 0
  /\ pc \in {"alloc", "rehash"} => left = 0
  /\ pc # "idle" => key \in Keys
  /\ pc = "rehash" => idx <= cap

Moved ==
  /\ RehashKeepsEntries
  /\ pc = "rehash" => /\ Cardinality(Live(new)) = Cardinality(Passed)
                      /\ Used(new) = Live(new)

IInv == TypeOK /\ Accounting /\ WellFormed /\ Control /\ Moved

(* Sets of array positions are finite, and smaller than the array if they  *)
(* miss a slot.                                                            *)
LEMMA PositionsFinite ==
  ASSUME NEW c \in Nat, NEW e \in Array(c)
  PROVE  /\ IsFiniteSet(Live(e)) /\ IsFiniteSet(Used(e))
         /\ Cardinality(Live(e)) \in Nat /\ Cardinality(Used(e)) \in Nat
         /\ Cardinality(Live(e)) <= Cardinality(Used(e))
         /\ Cardinality(Used(e)) < c => \E j \in 0 .. c - 1 : IsFree(e[j])
<1>1. DOMAIN e = 0 .. c - 1
  BY DEF Array
<1>2. IsFiniteSet(0 .. c - 1) /\ Cardinality(0 .. c - 1) = c
  BY FS_Interval
<1>3. Live(e) \subseteq Used(e) /\ Used(e) \subseteq 0 .. c - 1
  BY <1>1 DEF Live, Used, IsFree
<1>4. IsFiniteSet(Used(e)) /\ IsFiniteSet(Live(e))
  BY <1>2, <1>3, FS_Subset
<1>5. Cardinality(Live(e)) <= Cardinality(Used(e))
  BY <1>3, <1>4, FS_Subset
<1>6. ASSUME \A j \in 0 .. c - 1 : ~IsFree(e[j])
      PROVE  Cardinality(Used(e)) = c
  <2>1. Used(e) = 0 .. c - 1
    BY <1>1, <1>6 DEF Used
  <2>2. QED
    BY <1>2, <2>1
<1>7. Cardinality(Live(e)) \in Nat /\ Cardinality(Used(e)) \in Nat
  BY <1>4, FS_CardinalityType
<1>8. QED
  BY <1>4, <1>5, <1>6, <1>7

(* The capacity a full table grows to leaves room for its entries.         *)
LEMMA NewCapFacts ==
  ASSUME TypeOK, Control
  PROVE  /\ NewCap(cap) \in Nat /\ NewCap(cap) >= InitialSize /\ NewCap(cap) > 0
         /\ MaxLoad(cap) < MaxLoad(NewCap(cap)) /\ MaxLoad(NewCap(cap)) < NewCap(cap)
         /\ MaxLoad(NewCap(cap)) \in Nat /\ MaxLoad(cap) \in Nat
<1>1. CASE cap = 0
  <2>1. NewCap(cap) = InitialSize
    BY <1>1, ConstantsAssumption DEF NewCap
  <2>2. QED
    BY <1>1, <2>1, ConstantsAssumption, LoadFacts
<1>2. CASE cap >= InitialSize
  <2>1. NewCap(cap) = 2 * cap /\ cap \in Nat /\ cap >= 2
    BY <1>2, ConstantsAssumption DEF NewCap, TypeOK
  <2>2. QED
    BY <1>2, <2>1, ConstantsAssumption, LoadFacts
<1>3. QED
  BY <1>1, <1>2 DEF Control

(* "There can't be an infinite cycle": the load factor keeps a slot free.  *)
LEMMA ProbesEndFact ==
  ASSUME IInv
  PROVE  ProbesEnd
<1>1. ASSUME cap > 0, NEW k \in Keys
      PROVE  Stops(entries, cap, k) # {}
  <2>1. Cardinality(Used(entries)) < cap
    BY <1>1, LoadFacts, PositionsFinite DEF IInv, TypeOK, Accounting
  <2>2. PICK j \in 0 .. cap - 1 : IsFree(entries[j])
    BY <2>1, PositionsFinite DEF IInv, TypeOK
  <2>3. QED
    BY <1>1, <2>2, FreeSlotStops DEF IInv, TypeOK
<1>2. ASSUME pc = "rehash", NEW k \in Keys
      PROVE  Stops(new, NewCap(cap), k) # {}
  <2>1. new \in Array(NewCap(cap))
    BY <1>2 DEF IInv, TypeOK
  <2>2. Cardinality(Passed) <= Cardinality(Live(entries))
    BY PositionsFinite, FS_Subset DEF Passed, IInv, TypeOK
  <2>3. Cardinality(Used(new)) < NewCap(cap)
    <3>1. Cardinality(Used(new)) = Cardinality(Passed)
      BY <1>2 DEF IInv, Moved
    <3>2. /\ Cardinality(Live(entries)) <= Cardinality(Used(entries))
          /\ Cardinality(Used(entries)) <= MaxLoad(cap)
          /\ Cardinality(Live(entries)) \in Nat /\ Cardinality(Used(entries)) \in Nat
      BY PositionsFinite, LoadFacts DEF IInv, TypeOK, Accounting
    <3>3. Cardinality(Used(new)) \in Nat
      BY <2>1, NewCapFacts, PositionsFinite DEF IInv
    <3>4. QED
      BY <2>2, <3>1, <3>2, <3>3, NewCapFacts DEF IInv
  <2>4. PICK j \in 0 .. NewCap(cap) - 1 : IsFree(new[j])
    BY <2>1, <2>3, NewCapFacts, PositionsFinite DEF IInv
  <2>5. QED
    BY <2>1, <2>4, NewCapFacts, FreeSlotStops DEF IInv
<1>3. QED
  BY <1>1, <1>2 DEF ProbesEnd
----------------------------------------------------------------------------
(* Each step preserves the invariant.                                      *)

(* The array facts depend only on the arrays, the counters and whether an  *)
(* expansion is running.                                                   *)
LEMMA FrameFact ==
  ASSUME IInv, UNCHANGED <<table, loop>>, pc # "rehash", pc' # "rehash"
  PROVE  Accounting' /\ WellFormed' /\ Moved'
<1>1. Accounting' /\ Moved'
  BY DEF IInv, Accounting, Moved, RehashKeepsEntries, table, Live, Used, IsFree
<1>2. WellFormed'
  BY DEF IInv, WellFormed, table, PathsIntact, NoDuplicates, Live, IsFree, Slot
<1>3. QED
  BY <1>1, <1>2

(* The invariant holds initially.                                          *)
LEMMA InitFact == Init => IInv
<1> SUFFICES ASSUME Init PROVE IInv
  OBVIOUS
<1>1. TypeOK
  BY ConstantsAssumption DEF Init, TypeOK, NoArray, Array, Entry, FreeEntry
<1>2. DOMAIN NoArray = {}
  BY DEF NoArray
<1>3. Accounting
  <2>1. Live(entries) = {} /\ Used(entries) = {}
    BY <1>2 DEF Init, Live, Used
  <2>2. QED
    BY <2>1, FS_EmptySet, LoadFacts DEF Init, Accounting
<1>4. WellFormed
  BY <1>2 DEF Init, WellFormed, PathsIntact, NoDuplicates, Live
<1>5. Control /\ Moved
  BY DEF Init, Control, Moved, RehashKeepsEntries
<1>6. QED
  BY <1>1, <1>3, <1>4, <1>5 DEF IInv

(* The start of an insertion keeps the invariant.                          *)
LEMMA BeginInsertFact ==
  ASSUME IInv, UNCHANGED weak, pc \in {"idle", "create"}, NEW k \in Keys, NEW v \in Vals,
         BeginInsert(k, v), src' \in Sources \cup {NoArray}, sidx' \in Nat
  PROVE  IInv'
<1>1. UNCHANGED <<table, loop>> /\ pc' \in {"alloc", "place"}
  BY DEF BeginInsert
<1>2. TypeOK'
  BY <1>1 DEF IInv, TypeOK, BeginInsert, table, loop, Array, Entry
<1>3. Control'
  <2>1. left # 0 => left > 0 /\ cap > 0
    BY LoadFacts, PositionsFinite DEF IInv, TypeOK, Accounting
  <2>2. QED
    BY <1>1, <2>1 DEF IInv, Control, BeginInsert, table, loop
<1>4. QED
  BY <1>1, <1>2, <1>3, FrameFact DEF IInv

(* The steps that only move the program counter, the arguments or the      *)
(* position in a copy.                                                     *)
LEMMA QuietFact ==
  ASSUME IInv, UNCHANGED weak, UNCHANGED <<table, loop>>,
         pc = "idle", \/ pc' = "idle" /\ UNCHANGED args
                      \/ pc' = "create" /\ key' \in Keys /\ val' \in Vals,
         src' \in Sources \cup {NoArray}, sidx' \in Nat
  PROVE  IInv'
<1>1. TypeOK'
  BY DEF IInv, TypeOK, table, loop, args, Array, Entry
<1>2. Control'
  BY DEF IInv, Control, table, loop, args
<1>3. QED
  BY <1>1, <1>2, FrameFact DEF IInv

(* A removal leaves a tombstone and keeps the invariant.                   *)
LEMMA RemoveFact ==
  ASSUME IInv, UNCHANGED weak, NEW k \in Keys, Remove(k)
  PROVE  IInv'
<1>1. PICK i \in DOMAIN entries : entries[i].key = k
  BY DEF Remove
<1>2. i \in Live(entries) /\ i \in 0 .. cap - 1 /\ cap \in Nat /\ cap > 0
  BY <1>1, ConstantsAssumption DEF Live, IInv, TypeOK, Array
<1> DEFINE j == EntryFind(entries, cap, k)
<1>3. j = i
  BY <1>1, <1>2, ProbesEndFact, EntryFindFact
    DEF IInv, TypeOK, WellFormed, ProbesEnd, Fits
<1>4. entries' = [entries EXCEPT ![j] = Tombstone]
  BY DEF Remove
<1> HIDE DEF j
<1>5. /\ entries' \in Array(cap)
      /\ PathsIntact(entries', cap) /\ NoDuplicates(entries')
      /\ Live(entries') = Live(entries) \ {j} /\ Used(entries') = Used(entries)
  BY <1>2, <1>3, <1>4, BuryFact DEF IInv, TypeOK, WellFormed
<1>6. Cardinality(Live(entries')) = len - 1 /\ len - 1 \in Nat
  BY SMTT(60), <1>2, <1>3, <1>5, PositionsFinite, FS_RemoveElement, FS_EmptySet
    DEF IInv, TypeOK, Accounting
<1>7. /\ pc # "rehash" /\ UNCHANGED <<cap, left, pc, args, loop, into>>
      /\ len' = len - 1
  BY DEF Remove
<1>8. TypeOK'
  BY <1>5, <1>6, <1>7 DEF IInv, TypeOK, args, loop, into
<1>9. Accounting' /\ WellFormed' /\ Control' /\ Moved'
  BY <1>5, <1>6, <1>7
    DEF IInv, Accounting, WellFormed, Control, Moved, RehashKeepsEntries, args, loop
<1>10. QED
  BY <1>8, <1>9 DEF IInv

(* Allocating the larger array keeps the invariant.                        *)
LEMMA AllocFact ==
  ASSUME IInv, UNCHANGED weak, Alloc
  PROVE  IInv'
<1> DEFINE c == NewCap(cap)
<1>1. c \in Nat /\ c > 0
  BY NewCapFacts DEF IInv
<1>2. /\ new' = [j \in 0 .. c - 1 |-> FreeEntry] /\ idx' = 0 /\ pc' = "rehash"
      /\ pc = "alloc" /\ UNCHANGED <<cap, len, left, entries, key, val, src, sidx>>
  BY DEF Alloc, table, args, into
<1> HIDE DEF c
<1>3. new' \in Array(c) /\ Live(new') = {} /\ Used(new') = {}
  BY <1>2, ConstantsAssumption DEF Array, Entry, FreeEntry, Live, Used, IsFree
<1>4. TypeOK'
  BY <1>2, <1>3 DEF IInv, TypeOK, c, NewCap, Array, Entry
<1>5. WellFormed'
  BY <1>2, <1>3 DEF IInv, WellFormed, PathsIntact, NoDuplicates
<1>6. Moved'
  <2>1. Passed' = {}
    BY <1>2 DEF Passed, Live, IInv, TypeOK, Array
  <2>2. RehashKeepsEntries'
    <3>1. {i \in Live(entries) : i < idx}' = {}
      BY <2>1 DEF Passed
    <3>2. QED
      BY <1>3, <3>1 DEF RehashKeepsEntries
  <2>3. QED
    BY <1>3, <2>1, <2>2 DEF Moved
<1>7. Accounting' /\ Control'
  BY <1>2 DEF IInv, Accounting, Control, TypeOK
<1>8. QED
  BY <1>4, <1>5, <1>6, <1>7 DEF IInv

(* Moving an entry to the larger array keeps the invariant.                *)
LEMMA RehashFact ==
  ASSUME IInv, UNCHANGED weak, Rehash
  PROVE  IInv'
<1> DEFINE c == NewCap(cap)
           x == entries[idx]
           j == EntryFind(new, c, x.key)
<1>1. c \in Nat /\ c > 0
  BY NewCapFacts DEF IInv
<1>2. /\ pc = "rehash" /\ pc' = "rehash" /\ idx' = idx + 1 /\ idx \in 0 .. cap - 1
      /\ UNCHANGED <<cap, len, left, entries, key, val, src, sidx>>
      /\ new' = IF x.key = Empty THEN new ELSE [new EXCEPT ![j] = x]
  BY DEF Rehash, RehashDest, NextIdx, table, args, into, IInv, TypeOK
<1>3. /\ cap \in Nat /\ entries \in Array(cap) /\ new \in Array(c) /\ x \in Entry
      /\ DOMAIN entries = 0 .. cap - 1
  BY <1>2 DEF IInv, TypeOK, Array
<1>4. Passed' = IF x.key = Empty THEN Passed ELSE Passed \cup {idx}
  BY <1>2, <1>3 DEF Passed, Live
<1>5. idx \notin Passed /\ IsFiniteSet(Passed)
  <2>1. idx \notin Passed
    BY <1>2 DEF Passed
  <2>2. Passed \subseteq Live(entries) /\ IsFiniteSet(Live(entries))
    BY <1>3, PositionsFinite DEF Passed
  <2>3. QED
    BY <2>1, <2>2, FS_Subset
<1>6. CASE x.key = Empty
  <2>1. new' = new /\ Passed' = Passed
    BY <1>2, <1>4, <1>6
  <2>2. TypeOK' /\ Control'
    BY <1>2, <2>1 DEF IInv, TypeOK, Control, NewCap
  <2>3. Accounting' /\ WellFormed'
    BY <1>2, <2>1 DEF IInv, Accounting, WellFormed
  <2>4. RehashKeepsEntries'
    <3>1. {entries'[i] : i \in Passed'} = {entries[i] : i \in Passed}
      BY <1>2, <2>1
    <3>2. {new'[i] : i \in Live(new')} = {new[i] : i \in Live(new)}
      BY <2>1
    <3>3. QED
      BY <1>2, <3>1, <3>2 DEF IInv, Moved, RehashKeepsEntries, Passed
  <2>5. Moved'
    BY <1>2, <2>1, <2>4 DEF IInv, Moved
  <2>6. QED
    BY <2>2, <2>3, <2>5 DEF IInv
<1>7. CASE x.key # Empty
  <2>1. x.key \in Keys /\ x.val \in Vals /\ x = [key |-> x.key, val |-> x.val]
    BY <1>3, <1>7 DEF Entry
  <2>2. ASSUME NEW i \in Live(new) PROVE new[i].key # x.key
    <3>1. new[i] \in {entries[m] : m \in Passed}
      BY <1>2 DEF IInv, Moved, RehashKeepsEntries, Passed
    <3>2. PICK m \in Passed : new[i] = entries[m]
      BY <3>1
    <3>3. m \in Live(entries) /\ idx \in Live(entries) /\ m # idx
      BY <1>2, <1>3, <1>5, <1>7 DEF Passed, Live
    <3>4. QED
      BY <3>2, <3>3 DEF IInv, WellFormed, NoDuplicates
  <2>3. Stops(new, c, x.key) # {} /\ PathsIntact(new, c) /\ NoDuplicates(new)
    BY <1>2, <2>1, ProbesEndFact DEF IInv, ProbesEnd, WellFormed
  <2> HIDE DEF j, c, x
  <2>4. Fits(new, c, x.key, j)
    BY <1>1, <1>3, <2>1, <2>3, EntryFindFact DEF j
  <2>5. new' = Stored(new, j, x.key, x.val)
    BY <1>2, <1>7, <2>1 DEF Stored
  <2>6. /\ new' \in Array(c) /\ PathsIntact(new', c) /\ NoDuplicates(new')
        /\ Live(new') = Live(new) \cup {j} /\ Used(new') = Used(new) \cup {j}
        /\ DOMAIN new' = 0 .. c - 1 /\ new'[j] = [key |-> x.key, val |-> x.val]
        /\ \A i \in 0 .. c - 1 : i # j => new'[i] = new[i]
    BY <1>1, <1>3, <2>1, <2>3, <2>4, <2>5, StoreFact
  <2>7. j \notin Live(new) /\ Live(new) \subseteq 0 .. c - 1
    BY <1>3, <2>1, <2>2, <2>4, ConstantsAssumption DEF Fits, Live, Array
  <2>8. TypeOK'
    BY <1>2, <2>6 DEF IInv, TypeOK, c, NewCap
  <2>9. Accounting' /\ Control'
    BY <1>2 DEF IInv, Accounting, Control, TypeOK, Live, Used, IsFree
  <2>10. WellFormed'
    <3>1. NewCap(cap)' = c /\ entries' = entries /\ cap' = cap
      BY <1>2 DEF c
    <3>2. QED
      BY <2>6, <3>1 DEF IInv, WellFormed
  <2>11. Moved'
    <3>1. /\ Cardinality(Live(new')) = Cardinality(Live(new)) + 1
          /\ Cardinality(Passed') = Cardinality(Passed) + 1
      BY <1>1, <1>3, <1>4, <1>5, <1>7, <2>6, <2>7, PositionsFinite, FS_AddElement DEF x
    <3>2. Used(new') = Live(new')
      BY <1>2, <2>6 DEF IInv, Moved
    <3>3. {new'[i] : i \in Live(new')} = {new[i] : i \in Live(new)} \cup {x}
      BY <2>1, <2>6, <2>7
    <3>4. {entries'[i] : i \in Passed'} = {entries[i] : i \in Passed} \cup {x}
      BY <1>2, <1>4, <1>7 DEF x
    <3>5. RehashKeepsEntries'
      BY <1>2, <3>3, <3>4 DEF IInv, Moved, RehashKeepsEntries, Passed
    <3>6. QED
      BY <1>2, <3>1, <3>2, <3>5 DEF IInv, Moved
  <2>12. QED
    BY <2>8, <2>9, <2>10, <2>11 DEF IInv
<1>8. QED
  BY <1>6, <1>7

(* Replacing the array by the larger one keeps the invariant.              *)
LEMMA InstallFact ==
  ASSUME IInv, UNCHANGED weak, Install
  PROVE  IInv'
<1> DEFINE c == NewCap(cap)
<1>1. /\ pc = "rehash" /\ idx = cap /\ pc' = "place"
      /\ entries' = new /\ cap' = c /\ left' = MaxLoad(c) - len /\ len' = len
      /\ new' = NoArray /\ idx' = 0 /\ UNCHANGED <<key, val, src, sidx>>
  BY DEF Install, args, into
<1>2. c \in Nat /\ c > 0 /\ c >= InitialSize /\ MaxLoad(cap) < MaxLoad(c)
      /\ MaxLoad(c) \in Nat /\ MaxLoad(cap) \in Nat
  BY NewCapFacts DEF IInv
<1> HIDE DEF c
<1>3. Passed = Live(entries)
  BY <1>1 DEF Passed, IInv, TypeOK, Live, Array
<1>4. Cardinality(Live(new)) = len /\ Cardinality(Used(new)) = len
  BY <1>1, <1>3 DEF IInv, Moved, Accounting
<1>5. len \in Nat /\ len <= MaxLoad(cap)
  BY PositionsFinite, <1>2 DEF IInv, TypeOK, Accounting
<1>6. TypeOK'
  <2>1. NoArray \in Array(0)
    BY DEF NoArray, Array
  <2>2. new \in Array(c)
    BY <1>1 DEF IInv, TypeOK, c
  <2>3. MaxLoad(c) - len \in Nat
    BY <1>2, <1>5
  <2>4. QED
    BY <1>1, <1>2, <2>1, <2>2, <2>3 DEF IInv, TypeOK
<1>7. Accounting'
  BY <1>1, <1>2, <1>4, <1>5 DEF Accounting
<1>8. WellFormed' /\ Moved'
  BY <1>1 DEF IInv, WellFormed, Moved, RehashKeepsEntries, c
<1>9. Control'
  BY <1>1, <1>2, <1>5 DEF IInv, Control
<1>10. QED
  BY <1>6, <1>7, <1>8, <1>9 DEF IInv

(* Storing the entry of an insertion keeps the invariant.                  *)
LEMMA PlaceFact ==
  ASSUME IInv, UNCHANGED weak, Place
  PROVE  IInv'
<1> DEFINE j == EntryFind(entries, cap, key)
<1>1. /\ pc = "place" /\ pc' = "idle" /\ key' = Empty /\ val' = Empty
      /\ UNCHANGED <<cap, new, idx, src, sidx>>
      /\ entries' = Stored(entries, j, key, val)
      /\ left' = IF entries[j].key = Empty /\ ~IsTombstone(entries[j])
                   THEN left - 1 ELSE left
      /\ len' = IF entries[j].key = Empty THEN len + 1 ELSE len
  BY DEF Place, loop, into, Stored
<1>2. /\ cap \in Nat /\ cap > 0 /\ left \in Nat /\ left > 0 /\ len \in Nat
      /\ key \in Keys /\ val \in Vals /\ entries \in Array(cap)
      /\ DOMAIN entries = 0 .. cap - 1
      /\ PathsIntact(entries, cap) /\ NoDuplicates(entries)
  BY <1>1 DEF IInv, TypeOK, Control, WellFormed, Array
<1>3. Fits(entries, cap, key, j)
  BY <1>2, ProbesEndFact, EntryFindFact DEF ProbesEnd
<1> HIDE DEF j
<1>4. /\ entries' \in Array(cap)
      /\ PathsIntact(entries', cap) /\ NoDuplicates(entries')
      /\ Live(entries') = Live(entries) \cup {j}
      /\ Used(entries') = Used(entries) \cup {j}
  <2>1. entries' = Stored(entries, j, key, val)
    BY <1>1
  <2>2. /\ cap \in Nat /\ cap > 0 /\ key \in Keys /\ val \in Vals
        /\ entries \in Array(cap)
        /\ PathsIntact(entries, cap) /\ NoDuplicates(entries)
    BY <1>2
  <2> DEFINE f == Stored(entries, j, key, val)
  <2>3. /\ f \in Array(cap) /\ PathsIntact(f, cap) /\ NoDuplicates(f)
        /\ Live(f) = Live(entries) \cup {j} /\ Used(f) = Used(entries) \cup {j}
        /\ DOMAIN f = 0 .. cap - 1 /\ f[j] = [key |-> key, val |-> val]
        /\ \A i \in 0 .. cap - 1 : i # j => f[i] = entries[i]
    BY <1>3, <2>2, StoreFact
  <2>4. QED
    BY <2>1, <2>3
<1>5. /\ j \in Live(entries) <=> entries[j].key # Empty
      /\ j \in Used(entries) <=> ~(entries[j].key = Empty /\ ~IsTombstone(entries[j]))
  BY <1>2, <1>3 DEF Fits, Live, Used, IsFree, IsTombstone
<1>6. /\ Cardinality(Live(entries')) =
           IF entries[j].key = Empty THEN Cardinality(Live(entries)) + 1
           ELSE Cardinality(Live(entries))
      /\ Cardinality(Used(entries')) =
           IF entries[j].key = Empty /\ ~IsTombstone(entries[j])
           THEN Cardinality(Used(entries)) + 1 ELSE Cardinality(Used(entries))
  BY ZenonT(60), <1>2, <1>4, <1>5, PositionsFinite, FS_AddElement
<1>7. Cardinality(Live(entries)) \in Nat /\ Cardinality(Used(entries)) \in Nat
      /\ len = Cardinality(Live(entries))
      /\ Cardinality(Used(entries)) + left = MaxLoad(cap)
  BY <1>2, PositionsFinite DEF IInv, Accounting
<1>8. TypeOK'
  BY <1>1, <1>2, <1>4, ConstantsAssumption DEF IInv, TypeOK
<1>9. Accounting'
  BY <1>1, <1>2, <1>6, <1>7 DEF Accounting
<1>10. WellFormed' /\ Control' /\ Moved'
  BY <1>1, <1>2, <1>4 DEF IInv, WellFormed, Control, Moved, RehashKeepsEntries
<1>11. QED
  BY <1>8, <1>9, <1>10 DEF IInv

(* Freeing the table keeps the invariant.                                  *)
LEMMA FreeFact ==
  ASSUME IInv, UNCHANGED weak, FreeTable
  PROVE  IInv'
<1>1. /\ cap' = 0 /\ len' = 0 /\ left' = 0 /\ entries' = NoArray
      /\ pc = "idle" /\ UNCHANGED <<pc, key, val, new, idx, src, sidx>>
  BY DEF FreeTable, Idle, args, loop, into
<1>2. NoArray \in Array(0) /\ DOMAIN NoArray = {}
  BY DEF NoArray, Array
<1>3. Live(entries') = {} /\ Used(entries') = {}
  BY <1>1, <1>2 DEF Live, Used
<1>4. TypeOK'
  BY <1>1, <1>2 DEF IInv, TypeOK
<1>5. Accounting'
  BY <1>1, <1>3, FS_EmptySet, LoadFacts DEF Accounting
<1>6. WellFormed' /\ Control' /\ Moved'
  BY <1>1, <1>3
    DEF WellFormed, PathsIntact, NoDuplicates, Control, Moved, RehashKeepsEntries
<1>7. QED
  BY <1>4, <1>5, <1>6 DEF IInv

(* The invariant is inductive.                                             *)
LEMMA NextFact == IInv /\ [Next]_vars => IInv'
<1>. SUFFICES ASSUME IInv, [Next]_vars, UNCHANGED weak PROVE IInv'
  BY DEF Next, Call, Step, vars
<1>1. src \in Sources \cup {NoArray} /\ sidx \in Nat /\ NoArray \in Array(0)
  BY DEF IInv, TypeOK, NoArray, Array
<1>2. ASSUME sidx \in DOMAIN src
      PROVE  src[sidx] \in Entry
  BY <1>1, <1>2, SourcesAssumption DEF Array
<1>a. Active[weak] \subseteq Keys
  BY ConstantsAssumption DEF IInv, TypeOK
<1>3. ASSUME NEW k \in Keys, InternHit(k) \/ InternMiss(k) \/ Get(k)
      PROVE  IInv'
  BY <1>1, <1>3, QuietFact, ConstantsAssumption
    DEF InternHit, InternMiss, Get, Idle, table, args, loop, into
<1>4. ASSUME NEW k \in Keys, Remove(k) PROVE IInv'
  BY <1>4, RemoveFact
<1>5. ASSUME NEW k \in Keys, NEW v \in Vals, Insert(k, v) PROVE IInv'
  BY <1>1, <1>5, BeginInsertFact DEF Insert, Idle, into
<1>6. ASSUME NEW s \in Sources, IntoBegin(s) PROVE IInv'
  BY <1>6, QuietFact DEF IntoBegin, Idle
<1>7. CASE FreeTable
  BY <1>7, FreeFact
<1>8. CASE InternInsert
  BY <1>1, <1>8, BeginInsertFact DEF InternInsert, into, IInv, TypeOK, Control
<1>9. CASE Alloc \/ Rehash \/ Install \/ Place
  BY <1>9, AllocFact, RehashFact, InstallFact, PlaceFact
<1>10. CASE IntoSkip
  BY <1>1, <1>10, QuietFact DEF IntoSkip
<1>11. CASE IntoInsert
  <2>1. src[sidx].key \in Keys /\ src[sidx].val \in Vals
    BY <1>2, <1>11 DEF IntoInsert, Skippable, Entry
  <2>2. QED
    BY <1>1, <1>11, <2>1, BeginInsertFact DEF IntoInsert
<1>12. CASE IntoEnd
  BY <1>1, <1>12, QuietFact DEF IntoEnd
<1>13. CASE UNCHANGED vars
  <2>1. TypeOK' /\ Accounting' /\ Control'
    BY <1>13 DEF vars, table, args, loop, into, IInv, TypeOK, Accounting, Control
  <2>2. WellFormed' /\ Moved'
    BY <1>13
      DEF vars, table, loop, IInv, WellFormed, Moved, RehashKeepsEntries, Passed
  <2>3. QED
    BY <2>1, <2>2 DEF IInv
<1>14. QED
  BY <1>a, <1>3, <1>4, <1>5, <1>6, <1>7, <1>8, <1>9, <1>10, <1>11, <1>12, <1>13
    DEF Next, Call, Step

(* Every step keeps the invariant.                                         *)
LEMMA Invariance == Spec => []IInv
  BY InitFact, NextFact, PTL DEF Spec

(* The fields of a table always hold what their C types and the code's     *)
(* arithmetic assume: in particular "left" never wraps below zero.         *)
THEOREM TypeCorrect == Spec => []TypeOK
  BY Invariance, PTL DEF IInv

(* len and left agree with the array, whatever collections removed while it*)
(* was being expanded.                                                     *)
THEOREM AccountingCorrect == Spec => []Accounting
<1>1. IInv => Accounting
  BY DEF IInv
<1>2. QED
  BY <1>1, Invariance, PTL

(* No probe of Entry_find or HashTable_get_intern loops forever.           *)
THEOREM ProbingTerminates == Spec => []ProbesEnd
<1>1. IInv => ProbesEnd
  BY ProbesEndFact
<1>2. QED
  BY <1>1, Invariance, PTL

(* Every entry is found by a probe for its key, and no key is stored twice,*)
(* in the table and in the array an expansion is filling.                  *)
THEOREM WellFormedAlways == Spec => []WellFormed
<1>1. IInv => WellFormed
  BY DEF IInv
<1>2. QED
  BY <1>1, Invariance, PTL

(* An expansion moves exactly the entries of the old array.                *)
THEOREM ExpansionKeepsEntries == Spec => []RehashKeepsEntries
<1>1. IInv => RehashKeepsEntries
  BY DEF IInv, Moved
<1>2. QED
  BY <1>1, Invariance, PTL
----------------------------------------------------------------------------
(* The table as a dictionary.                                              *)
MapOf(e) ==
  [k \in Keys |-> IF \E j \in Live(e) : e[j].key = k
                    THEN e[CHOOSE j \in Live(e) : e[j].key = k].val
                    ELSE Absent]

(* The map is defined at every key, and nowhere else.                      *)
LEMMA MapIsFunction ==
  ASSUME NEW e PROVE MapOf(e) = [k \in Keys |-> MapOf(e)[k]]
  BY DEF MapOf

(* The map gives a key the value of its one entry.                         *)
LEMMA MapFact ==
  ASSUME NEW e, NoDuplicates(e), NEW k \in Keys
  PROVE  /\ \A j \in Live(e) : e[j].key = k => MapOf(e)[k] = e[j].val
         /\ (\A j \in Live(e) : e[j].key # k) => MapOf(e)[k] = Absent
<1>1. ASSUME NEW j \in Live(e), e[j].key = k PROVE MapOf(e)[k] = e[j].val
  <2> DEFINE i == CHOOSE i \in Live(e) : e[i].key = k
  <2>1. i \in Live(e) /\ e[i].key = k
    BY <1>1
  <2>2. i = j
    BY <1>1, <2>1 DEF NoDuplicates
  <2>3. MapOf(e)[k] = e[i].val
    BY <1>1 DEF MapOf
  <2>4. QED
    BY <2>2, <2>3
<1>2. QED
  BY <1>1 DEF MapOf

(* A key has a value exactly if it has an entry.                           *)
LEMMA HeldFact ==
  ASSUME NEW c \in Nat, NEW e \in Array(c), NoDuplicates(e), NEW k \in Keys
  PROVE  MapOf(e)[k] # Absent <=> \E j \in Live(e) : e[j].key = k
<1>1. ASSUME NEW j \in Live(e), e[j].key = k PROVE MapOf(e)[k] # Absent
  <2>1. e[j].val \in Vals
    BY DEF Live, Array, Entry
  <2>2. QED
    BY <1>1, <2>1, MapFact, ConstantsAssumption
<1>2. QED
  BY <1>1, MapFact

(* Functions that differ at one key.                                       *)
LEMMA Updated ==
  ASSUME NEW F, NEW G, F = [k \in Keys |-> F[k]], G = [k \in Keys |-> G[k]],
         NEW k \in Keys, NEW v, G[k] = v, \A q \in Keys : q # k => G[q] = F[q]
  PROVE  G = [F EXCEPT ![k] = v]
<1>1. DOMAIN F = Keys
  OBVIOUS
<1>2. [F EXCEPT ![k] = v] = [q \in Keys |-> IF q = k THEN v ELSE F[q]]
  BY <1>1
<1>3. QED
  BY <1>2

(* Storing an entry changes the map at its key.                            *)
LEMMA StoredMap ==
  ASSUME NEW c \in Nat, c > 0, NEW e \in Array(c), NEW k \in Keys, NEW v \in Vals,
         PathsIntact(e, c), NoDuplicates(e),
         NEW j, Fits(e, c, k, j)
  PROVE  /\ MapOf(Stored(e, j, k, v)) = [MapOf(e) EXCEPT ![k] = v]
         /\ MapOf(e)[k] = Absent <=> e[j].key = Empty
<1> DEFINE f == Stored(e, j, k, v)
<1>1. /\ f \in Array(c) /\ NoDuplicates(f)
      /\ Live(f) = Live(e) \cup {j}
      /\ f[j] = [key |-> k, val |-> v]
      /\ \A i \in 0 .. c - 1 : i # j => f[i] = e[i]
  BY StoreFact
<1>2. Live(e) \subseteq 0 .. c - 1 /\ j \in 0 .. c - 1 /\ k # Empty
  BY ConstantsAssumption DEF Live, Array, Fits
<1> HIDE DEF f
<1>3. MapOf(f)[k] = v
  <2>1. j \in Live(f) /\ f[j].key = k /\ f[j].val = v
    BY <1>1
  <2>2. QED
    BY <1>1, <2>1, MapFact
<1>4. ASSUME NEW q \in Keys, q # k PROVE MapOf(f)[q] = MapOf(e)[q]
  <2>1. \A i \in Live(e) : e[i].key = q => i \in Live(f) /\ i # j /\ f[i] = e[i]
    BY <1>1, <1>2, <1>4, ConstantsAssumption DEF Fits
  <2>2. \A i \in Live(f) : f[i].key = q => i \in Live(e) /\ f[i] = e[i]
    BY <1>1, <1>2, <1>4
  <2>3. CASE \E i \in Live(e) : e[i].key = q
    <3>1. PICK i \in Live(e) : e[i].key = q
      BY <2>3
    <3>2. MapOf(e)[q] = e[i].val
      BY <3>1, MapFact
    <3>3. i \in Live(f) /\ f[i].key = q /\ f[i] = e[i]
      BY <2>1, <3>1
    <3>4. MapOf(f)[q] = f[i].val
      BY <1>1, <3>3, MapFact
    <3>5. QED
      BY <3>2, <3>3, <3>4
  <2>4. CASE ~\E i \in Live(e) : e[i].key = q
    <3>1. \A i \in Live(f) : f[i].key # q
      BY <2>2, <2>4
    <3>2. QED
      BY <1>1, <2>4, <3>1, MapFact
  <2>5. QED
    BY <2>3, <2>4
<1>5. MapOf(f) = [MapOf(e) EXCEPT ![k] = v]
  BY <1>3, <1>4, MapIsFunction, Updated
<1>6. e[j].key = Empty <=> \A i \in Live(e) : e[i].key # k
  BY <1>2 DEF Fits, Live, Array
<1>7. QED
  BY <1>5, <1>6, HeldFact DEF f

(* Burying an entry takes its key out of the map.                          *)
LEMMA BuriedMap ==
  ASSUME NEW e, NEW f, NoDuplicates(e), NoDuplicates(f),
         NEW j \in Live(e), e[j].key \in Keys,
         Live(f) = Live(e) \ {j}, \A i \in Live(f) : f[i] = e[i]
  PROVE  MapOf(f) = [MapOf(e) EXCEPT ![e[j].key] = Absent]
<1>1. ASSUME NEW q \in Keys
      PROVE  MapOf(f)[q] = IF q = e[j].key THEN Absent ELSE MapOf(e)[q]
  <2>1. \A i \in Live(f) : i \in Live(e) /\ i # j /\ f[i] = e[i]
    OBVIOUS
  <2>2. CASE q = e[j].key
    <3>1. \A i \in Live(f) : f[i].key # q
      BY <2>1, <2>2 DEF NoDuplicates
    <3>2. QED
      BY <2>2, <3>1, MapFact
  <2>3. CASE q # e[j].key /\ \E i \in Live(e) : e[i].key = q
    <3>1. PICK i \in Live(e) : e[i].key = q
      BY <2>3
    <3>2. MapOf(e)[q] = e[i].val
      BY <3>1, MapFact
    <3>3. i \in Live(f) /\ f[i].key = q /\ f[i] = e[i]
      BY <2>3, <3>1
    <3>4. MapOf(f)[q] = f[i].val
      BY <3>3, MapFact
    <3>5. QED
      BY <2>3, <3>2, <3>3, <3>4
  <2>4. CASE q # e[j].key /\ ~\E i \in Live(e) : e[i].key = q
    <3>1. \A i \in Live(f) : f[i].key # q
      BY <2>1, <2>4
    <3>2. MapOf(f)[q] = Absent
      BY <3>1, MapFact
    <3>3. MapOf(e)[q] = Absent
      BY <2>4, MapFact
    <3>4. QED
      BY <2>4, <3>2, <3>3
  <2>5. QED
    BY <2>2, <2>3, <2>4
<1>2. /\ MapOf(f)[e[j].key] = Absent
      /\ \A q \in Keys : q # e[j].key => MapOf(f)[q] = MapOf(e)[q]
  BY <1>1
<1>3. QED
  BY <1>2, MapIsFunction, Updated

(* Arrays with the same entries are the same map, wherever the entries are.*)
LEMMA MovedMap ==
  ASSUME NEW e, NEW f, NoDuplicates(e), NoDuplicates(f),
         {f[j] : j \in Live(f)} = {e[j] : j \in Live(e)}
  PROVE  MapOf(f) = MapOf(e)
<1>1. ASSUME NEW q \in Keys PROVE MapOf(f)[q] = MapOf(e)[q]
  <2>1. CASE \E i \in Live(e) : e[i].key = q
    <3>1. PICK i \in Live(e) : e[i].key = q
      BY <2>1
    <3>2. e[i] \in {f[j] : j \in Live(f)}
      OBVIOUS
    <3>3. PICK j \in Live(f) : f[j] = e[i]
      BY <3>2
    <3>4. f[j].key = q
      BY <3>1, <3>3
    <3>5. MapOf(e)[q] = e[i].val /\ MapOf(f)[q] = f[j].val
      BY <3>1, <3>4, MapFact
    <3>6. QED
      BY <3>3, <3>5
  <2>2. CASE ~\E i \in Live(e) : e[i].key = q
    <3>1. ASSUME NEW j \in Live(f), f[j].key = q PROVE FALSE
      <4>1. f[j] \in {e[i] : i \in Live(e)}
        OBVIOUS
      <4>2. QED
        BY <2>2, <3>1, <4>1
    <3>2. QED
      BY <2>2, <3>1, MapFact
  <2>3. QED
    BY <2>1, <2>2
<1>2. QED
  BY <1>1 DEF MapOf

(* What the steps that touch the array do to the map.                      *)
LEMMA PlaceMap ==
  ASSUME IInv, Place
  PROVE  /\ MapOf(entries') = [MapOf(entries) EXCEPT ![key] = val]
         /\ ret' = IF MapOf(entries)[key] = Absent THEN "new" ELSE "old"
<1> DEFINE j == EntryFind(entries, cap, key)
<1>1. /\ pc = "place" /\ entries' = Stored(entries, j, key, val)
      /\ ret' = IF entries[j].key = Empty THEN "new" ELSE "old"
  BY DEF Place, Stored
<1>2. /\ cap \in Nat /\ cap > 0 /\ key \in Keys /\ val \in Vals
      /\ entries \in Array(cap)
      /\ PathsIntact(entries, cap) /\ NoDuplicates(entries)
  BY <1>1 DEF IInv, TypeOK, Control, WellFormed
<1>3. Fits(entries, cap, key, j)
  BY <1>2, ProbesEndFact, EntryFindFact DEF ProbesEnd
<1> HIDE DEF j
<1>4. /\ MapOf(Stored(entries, j, key, val)) = [MapOf(entries) EXCEPT ![key] = val]
      /\ MapOf(entries)[key] = Absent <=> entries[j].key = Empty
  BY <1>2, <1>3, StoredMap
<1>5. QED
  BY <1>1, <1>4

(* A removal takes the key from the map the table stands for.              *)
LEMMA RemoveMap ==
  ASSUME IInv, UNCHANGED weak, NEW k \in Keys, Remove(k)
  PROVE  /\ MapOf(entries') = [MapOf(entries) EXCEPT ![k] = Absent]
         /\ MapOf(entries)[k] # Absent
<1>1. PICK i \in DOMAIN entries : entries[i].key = k
  BY DEF Remove
<1>2. /\ i \in Live(entries) /\ cap \in Nat /\ cap > 0 /\ entries \in Array(cap)
      /\ PathsIntact(entries, cap) /\ NoDuplicates(entries)
  BY <1>1, ConstantsAssumption DEF Live, IInv, TypeOK, Array, WellFormed
<1> DEFINE j == EntryFind(entries, cap, k)
<1>3. j = i
  BY <1>1, <1>2, ProbesEndFact, EntryFindFact DEF ProbesEnd, Fits
<1>4. entries' = [entries EXCEPT ![j] = Tombstone]
  BY DEF Remove
<1> HIDE DEF j
<1>5. /\ entries' \in Array(cap)
      /\ PathsIntact(entries', cap) /\ NoDuplicates(entries')
      /\ Live(entries') = Live(entries) \ {j} /\ Used(entries') = Used(entries)
  BY ZenonT(60), <1>2, <1>3, <1>4, BuryFact
<1>6. \A m \in Live(entries') : entries'[m] = entries[m]
  BY <1>2, <1>3, <1>4, <1>5 DEF Live, Array
<1>7. MapOf(entries') = [MapOf(entries) EXCEPT ![entries[i].key] = Absent]
  BY <1>1, <1>2, <1>3, <1>5, <1>6, BuriedMap
<1>8. QED
  BY <1>1, <1>2, <1>7, HeldFact

(* Replacing the array by the larger one leaves the map as it was.         *)
LEMMA InstallMap ==
  ASSUME IInv, Install
  PROVE  MapOf(entries') = MapOf(entries)
<1>1. /\ pc = "rehash" /\ entries' = new
      /\ NoDuplicates(entries) /\ NoDuplicates(new)
  BY DEF Install, IInv, WellFormed
<1>2. {i \in Live(entries) : i < idx} = Live(entries)
  BY DEF Install, IInv, TypeOK, Live, Array
<1>3. {new[i] : i \in Live(new)} = {entries[i] : i \in Live(entries)}
  BY <1>1, <1>2 DEF IInv, Moved, RehashKeepsEntries
<1>4. QED
  BY <1>1, <1>3, MovedMap

(* A freed table is the empty map.                                         *)
LEMMA FreeMap ==
  ASSUME FreeTable \/ entries' = NoArray
  PROVE  MapOf(entries') = [k \in Keys |-> Absent]
<1>1. Live(entries') = {}
  BY DEF FreeTable, NoArray, Live
<1>2. QED
  BY <1>1 DEF MapOf

(* A lookup probes to the entry, or finds none.                            *)
LEMMA LookupMap ==
  ASSUME IInv, NEW k \in Keys
  PROVE  Lookup(k) = MapOf(entries)[k]
<1>1. /\ cap \in Nat /\ entries \in Array(cap) /\ DOMAIN entries = 0 .. cap - 1
      /\ PathsIntact(entries, cap) /\ NoDuplicates(entries)
      /\ IsFiniteSet(Live(entries)) /\ len = Cardinality(Live(entries))
  BY PositionsFinite DEF IInv, TypeOK, WellFormed, Accounting, Array
<1>2. CASE len = 0
  <2>1. Live(entries) = {}
    BY <1>1, <1>2, FS_EmptySet
  <2>2. QED
    BY <1>1, <1>2, <2>1, MapFact DEF Lookup
<1>3. CASE len # 0
  <2> DEFINE j == EntryFind(entries, cap, k)
  <2>1. Live(entries) # {} /\ cap > 0
    BY <1>1, <1>3, FS_EmptySet DEF Live
  <2>2. Fits(entries, cap, k, j)
    BY <1>1, <2>1, ProbesEndFact, EntryFindFact DEF ProbesEnd
  <2>3. Lookup(k) = IF entries[j].key = Empty THEN Absent ELSE entries[j].val
    BY <1>3 DEF Lookup
  <2> HIDE DEF j
  <2>4. CASE entries[j].key = Empty
    <3>1. \A i \in Live(entries) : entries[i].key # k
      BY <2>2, <2>4 DEF Fits, Live
    <3>2. QED
      BY <1>1, <2>3, <2>4, <3>1, MapFact
  <2>5. CASE entries[j].key # Empty
    <3>1. j \in Live(entries) /\ entries[j].key = k
      BY <1>1, <2>2, <2>5 DEF Fits, Live
    <3>2. QED
      BY <1>1, <2>3, <2>5, <3>1, MapFact
  <2>6. QED
    BY <2>4, <2>5
<1>4. QED
  BY <1>2, <1>3

(* A string that interning finds is in the map.                            *)
LEMMA InternedMap ==
  ASSUME IInv, NEW k \in Keys, Interned(k)
  PROVE  MapOf(entries)[k] # Absent
<1>1. /\ cap \in Nat /\ entries \in Array(cap) /\ DOMAIN entries = 0 .. cap - 1
      /\ NoDuplicates(entries)
      /\ IsFiniteSet(Live(entries)) /\ len = Cardinality(Live(entries))
  BY PositionsFinite DEF IInv, TypeOK, WellFormed, Accounting, Array
<1>2. Live(entries) # {} /\ cap > 0
  BY <1>1, FS_EmptySet DEF Live, Interned
<1> DEFINE S == Stops(entries, cap, k)
<1>3. S # {} /\ S \subseteq 0 .. cap - 1
  BY <1>2, ProbesEndFact DEF ProbesEnd, Stops
<1>4. Least(S) \in 0 .. cap - 1
  BY <1>3, LeastFact
<1> DEFINE j == Slot(cap, k, Least(S))
<1>5. j \in 0 .. cap - 1 /\ entries[j].key = k
  BY <1>1, <1>2, <1>4, SlotFacts DEF Interned
<1>6. j \in Live(entries)
  BY <1>1, <1>5, ConstantsAssumption DEF Live
<1>7. QED
  BY <1>1, <1>5, <1>6, HeldFact

(* Every step of the table is a step of the dictionary or changes neither  *)
(* the map nor the result.                                                 *)
LEMMA DictStep ==
  ASSUME IInv, [Next]_vars
  PROVE  [Dict!Next]_(Dict!dvars)
<1>1. Contents = MapOf(entries) /\ Contents' = MapOf(entries')
  BY DEF Contents, MapOf
<1>2. UNCHANGED weak /\ Active[weak] \subseteq Keys
  BY ConstantsAssumption DEF Next, Call, Step, vars, IInv, TypeOK
<1>3. ASSUME entries' = entries, ret' = ret
      PROVE  [Dict!Next]_(Dict!dvars)
  BY <1>1, <1>2, <1>3 DEF Dict!dvars
<1>4. ASSUME NEW k \in Keys, NEW v \in Vals, MapOf(entries') = [MapOf(entries) EXCEPT ![k] = v],
             ret' = IF MapOf(entries)[k] = Absent THEN "new" ELSE "old"
      PROVE  [Dict!Next]_(Dict!dvars)
  <2>1. Dict!Put(k, v)
    BY <1>1, <1>4 DEF Dict!Put
  <2>2. QED
    BY <1>2, <2>1 DEF Dict!Next
<1>5. ASSUME NEW k \in Keys, InternHit(k) PROVE [Dict!Next]_(Dict!dvars)
  <2>1. Interned(k) /\ ret' = "hit" /\ entries' = entries
    BY <1>5 DEF InternHit, table
  <2>2. Dict!Hit(k)
    BY <1>1, <2>1, InternedMap DEF Dict!Hit
  <2>3. QED
    BY <1>2, <2>2 DEF Dict!Next
<1>6. ASSUME NEW k \in Keys, Get(k) PROVE [Dict!Next]_(Dict!dvars)
  <2>1. ret' = Lookup(k) /\ entries' = entries
    BY <1>6 DEF Get, table
  <2>2. Dict!Get(k)
    BY <1>1, <2>1, LookupMap DEF Dict!Get
  <2>3. QED
    BY <1>2, <2>2 DEF Dict!Next
<1>7. ASSUME NEW k \in Keys, Remove(k) PROVE [Dict!Next]_(Dict!dvars)
  <2>1. weak /\ ret' = ret
    BY <1>7 DEF Remove
  <2>2. /\ MapOf(entries') = [MapOf(entries) EXCEPT ![k] = Absent]
        /\ MapOf(entries)[k] # Absent
    BY <1>2, <1>7, RemoveMap
  <2>3. Dict!Drop(k)
    BY <1>1, <2>1, <2>2 DEF Dict!Drop
  <2>4. QED
    BY <1>2, <2>3 DEF Dict!Next
<1>8. CASE FreeTable
  <2>1. ret' = ret /\ MapOf(entries') = [k \in Keys |-> Absent]
    BY <1>8, FreeMap DEF FreeTable
  <2>2. Dict!Clear
    BY <1>1, <2>1 DEF Dict!Clear
  <2>3. QED
    BY <1>2, <2>2 DEF Dict!Next
<1>9. CASE Place
  <2>1. key \in Keys /\ val \in Vals
    BY <1>9 DEF Place, IInv, TypeOK, Control
  <2>2. QED
    BY <1>4, <1>9, <2>1, PlaceMap
<1>10. CASE Install
  <2>1. ret' = ret /\ MapOf(entries') = MapOf(entries)
    BY <1>10, InstallMap DEF Install
  <2>2. QED
    BY <1>1, <1>2, <2>1 DEF Dict!dvars
<1>11. ASSUME NEW k, NEW v, BeginInsert(k, v) PROVE entries' = entries /\ ret' = ret
  BY <1>11 DEF BeginInsert, table
<1>12. CASE InternInsert \/ Alloc \/ Rehash \/ IntoSkip \/ IntoInsert \/ IntoEnd
  BY <1>3, <1>11, <1>12 DEF InternInsert, Alloc, Rehash, IntoSkip, IntoInsert, IntoEnd, table
<1>13. ASSUME NEW k, NEW v, \/ InternMiss(k) \/ Insert(k, v)
       PROVE  [Dict!Next]_(Dict!dvars)
  BY <1>3, <1>11, <1>13 DEF InternMiss, Insert, table
<1>14. ASSUME NEW s, IntoBegin(s) PROVE [Dict!Next]_(Dict!dvars)
  BY <1>3, <1>14 DEF IntoBegin, table
<1>15. CASE UNCHANGED vars
  BY <1>3, <1>15 DEF vars, table
<1>16. CASE Call
  BY <1>2, <1>5, <1>6, <1>7, <1>8, <1>13, <1>14, <1>16 DEF Call
<1>17. QED
  BY <1>9, <1>10, <1>12, <1>15, <1>16 DEF Next, Step

(* The table implements the dictionary of Dictionary: insertions, removals,*)
(* lookups, and expansions with collections inside them.                   *)
THEOREM ImplementsDictionary == Spec => DictSpec
<1>1. ASSUME Init PROVE Dict!Init
  <2>1. Live(entries) = {} /\ ret = Absent /\ weak \in BOOLEAN
    BY <1>1 DEF Init, NoArray, Live
  <2>2. Contents = [k \in Keys |-> Absent]
    BY <2>1 DEF Contents
  <2>3. QED
    BY <2>1, <2>2 DEF Dict!Init
<1>2. QED
  BY <1>1, Invariance, DictStep, PTL DEF Spec, DictSpec, Dict!Spec
----------------------------------------------------------------------------
(* Copying a table into another: the methods of a superclass into those of *)
(* the subclass.  While one of its insertions runs, the target holds the   *)
(* entries before that one.                                                *)
Done(j) == j < (IF pc = "idle" THEN sidx ELSE sidx - 1)

Copying ==
  /\ pc = "create" => src = NoArray
  /\ src # NoArray =>
       /\ ~weak
       /\ pc # "idle" => /\ sidx - 1 \in Live(src)
                         /\ key = src[sidx - 1].key /\ val = src[sidx - 1].val
       /\ \A j \in Live(src) : Done(j) => MapOf(entries)[src[j].key] = src[j].val

(* What a copy can run through.                                            *)
LEMMA SourceIsArray ==
  ASSUME NEW s \in Sources
  PROVE  \E n \in Nat : s \in Array(n)
<1>1. PICK n \in 0 .. MaxCap[FALSE] : s \in Array(n)
  BY SourcesAssumption
<1>2. MaxCap[FALSE] \in Nat
  BY ConstantsAssumption
<1>3. n \in Nat
  BY <1>1, <1>2
<1>4. QED
  BY <1>1, <1>3

(* The array a copy runs through holds no key twice.                       *)
LEMMA SourceFact ==
  ASSUME IInv
  PROVE  /\ NoDuplicates(src)
         /\ \A j \in DOMAIN src : j \in Nat /\ src[j] \in Entry
<1>1. CASE src = NoArray
  BY <1>1 DEF NoArray, NoDuplicates, Live
<1>2. CASE src \in Sources
  <2>1. PICK n \in Nat : src \in Array(n)
    BY <1>2, SourceIsArray
  <2>2. \A j \in DOMAIN src : j \in Nat /\ src[j] \in Entry
    BY <2>1 DEF Array
  <2>3. \A i, j \in DOMAIN src :
           src[i].key # Empty /\ src[i].key = src[j].key => i = j
    BY <1>2, SourcesAssumption
  <2>4. QED
    BY <2>2, <2>3 DEF NoDuplicates, Live
<1>3. QED
  BY <1>1, <1>2 DEF IInv, TypeOK

(* An insertion of a copy begins with the entry at sidx.                   *)
LEMMA CopyStep ==
  ASSUME IInv, Copying, [Next]_vars
  PROVE  Copying'
<1>1. UNCHANGED weak
  BY DEF Next, Call, Step, vars
<1>2. /\ NoDuplicates(src) /\ sidx \in Nat
      /\ \A j \in DOMAIN src : j \in Nat /\ src[j] \in Entry
  BY SourceFact DEF IInv, TypeOK
<1>3. ASSUME UNCHANGED <<into, args>>, MapOf(entries') = MapOf(entries),
             pc # "create" /\ pc' # "create", pc = "idle" <=> pc' = "idle"
      PROVE  Copying'
  BY <1>1, <1>3 DEF Copying, Done, into, args
<1>4. ASSUME src' = NoArray PROVE Copying'
  BY <1>4 DEF Copying
<1>5. ASSUME Idle, src' = NoArray \/ UNCHANGED src PROVE Copying'
  BY <1>4, <1>5 DEF Idle
<1>6. CASE Call
  <2>1. ASSUME NEW k, Remove(k) PROVE Copying'
    BY <1>4, <2>1 DEF Remove, Copying, into
  <2>2. ASSUME NEW s \in Sources, IntoBegin(s) PROVE Copying'
    <3>1. src' = s /\ sidx' = 0 /\ ~weak' /\ pc' = "idle"
      BY <1>1, <2>2 DEF IntoBegin, Idle
    <3>2. PICK n \in Nat : s \in Array(n)
      BY SourceIsArray
    <3>3. ASSUME NEW j \in Live(s) PROVE ~(j < 0)
      BY <3>2 DEF Live, Array
    <3>4. QED
      BY <3>1, <3>3 DEF Copying, Done
  <2>3. QED
    BY <1>5, <1>6, <2>1, <2>2
      DEF Call, InternHit, InternMiss, Insert, Get, FreeTable, into
<1>7. CASE InternInsert
  BY <1>4, <1>7 DEF InternInsert, Copying, into
<1>8. CASE Alloc \/ Rehash
  BY <1>3, <1>8 DEF Alloc, Rehash, table
<1>9. CASE Install
  BY <1>3, <1>9, InstallMap DEF Install
<1>10. CASE Place /\ src # NoArray
  <2>1. /\ pc = "place" /\ pc' = "idle" /\ src' = src /\ sidx' = sidx
        /\ key \in Keys /\ val \in Vals
    BY <1>10 DEF Place, into, IInv, TypeOK, Control
  <2>2. MapOf(entries') = [MapOf(entries) EXCEPT ![key] = val]
    BY <1>10, PlaceMap
  <2>3. DOMAIN MapOf(entries) = Keys
    BY DEF MapOf
  <2>4. MapOf(entries')[key] = val
        /\ \A q \in Keys : q # key => MapOf(entries')[q] = MapOf(entries)[q]
    BY <2>1, <2>2, <2>3
  <2>5. /\ ~weak /\ sidx - 1 \in Live(src)
        /\ key = src[sidx - 1].key /\ val = src[sidx - 1].val
        /\ \A j \in Live(src) : j < sidx - 1 => MapOf(entries)[src[j].key] = src[j].val
    BY <1>10, <2>1 DEF Copying, Done
  <2>6. ASSUME NEW j \in Live(src), j < sidx
        PROVE  MapOf(entries')[src[j].key] = src[j].val
    <3>1. CASE j = sidx - 1
      BY <2>4, <2>5, <3>1
    <3>2. CASE j # sidx - 1
      <4>1. j \in Nat /\ src[j].key \in Keys /\ src[j].key # key
        BY <1>2, <2>5, <3>2 DEF Live, Entry, NoDuplicates
      <4>2. j < sidx - 1
        BY <1>2, <2>6, <3>2, <4>1
      <4>3. QED
        BY <2>4, <2>5, <4>1, <4>2
    <3>3. QED
      BY <3>1, <3>2
  <2>7. QED
    BY <1>1, <2>1, <2>5, <2>6 DEF Copying, Done
<1>11. CASE Place /\ src = NoArray
  BY <1>4, <1>11 DEF Place, into
<1>12. CASE IntoSkip
  <2>1. /\ pc = "idle" /\ pc' = "idle" /\ src' = src /\ sidx' = sidx + 1
        /\ sidx \notin Live(src) /\ entries' = entries
    BY <1>12 DEF IntoSkip, Skippable, Live, table
  <2>2. \A j \in Live(src) : j < sidx + 1 => j < sidx
    BY <1>2, <2>1 DEF Live
  <2>3. QED
    BY <1>1, <2>1, <2>2 DEF Copying, Done
<1>13. CASE IntoInsert
  <2>1. /\ pc = "idle" /\ pc' \in {"alloc", "place"} /\ src' = src /\ sidx' = sidx + 1
        /\ sidx \in Live(src) /\ entries' = entries
        /\ key' = src[sidx].key /\ val' = src[sidx].val
    BY <1>13 DEF IntoInsert, Skippable, BeginInsert, Live, table
  <2>2. sidx' - 1 = sidx
    BY <1>2, <2>1
  <2>3. QED
    BY <1>1, <2>1, <2>2 DEF Copying, Done
<1>14. CASE IntoEnd
  BY <1>4, <1>14 DEF IntoEnd
<1>15. CASE UNCHANGED vars
  BY <1>15 DEF vars, table, args, into, Copying, Done
<1>16. QED
  BY <1>6, <1>7, <1>8, <1>9, <1>10, <1>11, <1>12, <1>13, <1>14, <1>15 DEF Next, Step

(* OP_INHERIT: what the copy has passed of the superclass is in the        *)
(* subclass, with the value it has there, at every return of an insertion. *)
THEOREM CopiesOverride == Spec => []IntoCopies
<1>1. Init => Copying
  BY DEF Init, Copying
<1>2. IInv /\ Copying => IntoCopies
  BY DEF Copying, Done, IntoCopies, Contents, MapOf
<1>3. QED
  BY <1>1, <1>2, CopyStep, Invariance, PTL DEF Spec
=============================================================================

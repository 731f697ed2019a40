----------------------------- MODULE HashTable -----------------------------
(***************************************************************************)
(* One table of hashtable.c: open addressing with linear probing,          *)
(* tombstones, and an expansion that allocates through the collector.  The *)
(* expansion is split where control can leave it (the allocation, each     *)
(* rehashed entry), because a collection inside the allocation removes     *)
(* entries of the very table that is being expanded (vm->strings).         *)
(***************************************************************************)
EXTENDS Integers, FiniteSets

CONSTANTS
  Keys, Vals,
  Empty,        (* EMPTY_VAL: the key of a slot that holds no entry          *)
  True,         (* TRUE_VAL: the value that turns an empty slot to tombstone *)
  Nil,          (* NIL_VAL: the value interned strings are stored with       *)
  Absent,       (* a lookup that found nothing                               *)
  Hash,         (* the hash of each key                                      *)
  InitialSize,  (* TABLE_INITIAL_SIZE                                        *)
  Sources,      (* entry arrays HashTable_into may copy from                 *)
  Active,       (* bound: the keys used, by the kind of the table (see weak) *)
  MaxCap        (* bound, by kind: no expansion beyond this capacity         *)

ASSUME ConstantsAssumption ==
  /\ Empty \notin Keys /\ Empty \in Vals
  /\ True \in Vals /\ Nil \in Vals /\ True # Empty
  /\ Absent \notin Vals
  /\ \A k \in Keys : Hash[k] \in Nat
  /\ InitialSize \in Nat /\ InitialSize >= 2
  /\ Active \in [BOOLEAN -> SUBSET Keys]
  /\ MaxCap \in [BOOLEAN -> Nat]

VARIABLES
  cap, len, left, entries,   (* the fields of HashTable                      *)
  pc,                        (* where in an insertion the thread is          *)
  key, val,                  (* arguments of the pending insertion           *)
  new, idx,                  (* locals of HashTable_expand: entries, i       *)
  src, sidx,                 (* HashTable_into: source array and position    *)
  ret,                       (* result of the last call                      *)
  weak                       (* is this vm->strings, the one with weak keys? *)

table == <<cap, len, left, entries>>
args  == <<key, val>>
loop  == <<new, idx>>
into  == <<src, sidx>>
vars  == <<table, pc, args, loop, into, ret, weak>>

Entry == [key : Keys \cup {Empty}, val : Vals]
FreeEntry == [key |-> Empty, val |-> Empty]
(* Mutant of Tombstone: FreeEntry, a removal that just clears the slot.    *)
Tombstone == [key |-> Empty, val |-> True]

IsFree(e)      == e.key = Empty /\ e.val # True
EmptyKey(e)    == e.key = Empty              (* mutant of IsTombstone       *)
IsTombstone(e) == e.key = Empty /\ e.val = True

Array(n) == [0 .. n - 1 -> Entry]
NoArray  == [j \in 0 .. -1 |-> FreeEntry]

(* The sources are the arrays of other tables, which hold no key twice.    *)
ASSUME SourcesAssumption ==
  \A s \in Sources :
    /\ \E n \in 0 .. MaxCap[FALSE] : s \in Array(n)
    /\ \A i, j \in DOMAIN s : s[i].key # Empty /\ s[i].key = s[j].key => i = j

(***************************************************************************)
(* Entry_find.  Slot(c, k, n) is the n-th index a probe for k visits in an *)
(* array of c slots: hash & mask, then index + 1 & mask.  The loop stops at*)
(* the first slot that is free or holds k; if that slot is free and a      *)
(* tombstone was passed, the first tombstone is the answer.                *)
(***************************************************************************)
Least(S) == CHOOSE n \in S : \A m \in S : n <= m

Slot(c, k, n) == LET home == Hash[k] % c
                 IN  IF home + n < c THEN home + n ELSE home + n - c

(* Mutant of Stops: the probe also stops at a tombstone.                   *)
StopsAtTombs(e, c, k) == {n \in 0 .. c - 1 :
                            e[Slot(c, k, n)].key \in {k, Empty}}
Stops(e, c, k) == {n \in 0 .. c - 1 : LET x == e[Slot(c, k, n)]
                                      IN  IsFree(x) \/ x.key = k}
Tombs(e, c, k, s) == {m \in 0 .. s - 1 : IsTombstone(e[Slot(c, k, m)])}

EntryFind(e, c, k) ==
  LET s == Least(Stops(e, c, k))
      T == Tombs(e, c, k, s)
  IN  IF e[Slot(c, k, s)].key = k \/ T = {}
        THEN Slot(c, k, s)
        ELSE Slot(c, k, Least(T))

(* HashTable_get: an empty table answers without probing.                  *)
Lookup(k) ==
  IF len = 0 THEN Absent
  ELSE LET e == entries[EntryFind(entries, cap, k)]
       IN  IF e.key = Empty THEN Absent ELSE e.val

(* HashTable_get_intern: its own probe loop, by contents and not identity. *)
Interned(k) ==
  /\ len # 0
  /\ entries[Slot(cap, k, Least(Stops(entries, cap, k)))].key = k

(* TABLE_MAX_LOAD and GROW_ARRAY_CAPACITY, with their mutants: a table that*)
(* may fill up, and one that grows by a slot at a time.                    *)
FullLoad(c)  == c
MaxLoad(c)   == (7 * c) \div 10
GrowByOne(c) == IF c < InitialSize THEN InitialSize ELSE c + 1
NewCap(c)    == IF c < InitialSize THEN InitialSize ELSE 2 * c

----------------------------------------------------------------------------
(* HashTable_init *)
Init ==
  /\ cap = 0 /\ len = 0 /\ left = 0 /\ entries = NoArray
  /\ pc = "idle" /\ key = Empty /\ val = Empty
  /\ new = NoArray /\ idx = 0
  /\ src = NoArray /\ sidx = 0
  /\ ret = Absent
  /\ weak \in BOOLEAN

Idle == pc = "idle" /\ src = NoArray

(* The first line of HashTable_insert: expand when no insertion is left.   *)
BeginInsert(k, v) ==
  /\ left = 0 => NewCap(cap) <= MaxCap[weak]
  /\ key' = k /\ val' = v
  /\ pc' = IF left = 0 THEN "alloc" ELSE "place"
  /\ UNCHANGED <<table, loop, ret>>

Insert(k, v) == ~weak /\ Idle /\ BeginInsert(k, v) /\ UNCHANGED into

(* OString_from: look the contents up, and create the string on a miss.    *)
InternHit(k) == /\ weak /\ Idle /\ Interned(k)
                /\ ret' = "hit"
                /\ UNCHANGED <<table, pc, args, loop, into>>

InternMiss(k) == /\ weak /\ Idle /\ ~Interned(k)
                 /\ left = 0 => NewCap(cap) <= MaxCap[weak]
                 /\ pc' = "create" /\ key' = k /\ val' = Nil
                 /\ UNCHANGED <<table, loop, into, ret>>

InternInsert == pc = "create" /\ BeginInsert(key, val) /\ UNCHANGED into

(* HashTable_remove.  Its one caller is rmweakrefs, inside a collection;   *)
(* a collection runs between calls or inside an allocation.                *)
Remove(k) ==
  /\ weak /\ pc \in {"idle", "create", "alloc"}
  /\ \E j \in DOMAIN entries : entries[j].key = k
  /\ entries' = [entries EXCEPT ![EntryFind(entries, cap, k)] = Tombstone]
  /\ len' = len - 1
  /\ UNCHANGED <<cap, left, pc, args, loop, into, ret>>

(* HashTable_expand, from the return of GC_MALLOC: clear the new array ... *)
Alloc == /\ pc = "alloc"
         /\ new' = [j \in 0 .. NewCap(cap) - 1 |-> FreeEntry]
         /\ idx' = 0
         /\ pc' = "rehash"
         /\ UNCHANGED <<table, args, into, ret>>

(* ... move the entries over one by one, leaving tombstones behind ...     *)
(* (mutants: no probing in the new array; "continue" without the i++)      *)
RehashHome(k) == Slot(NewCap(cap), k, 0)
RehashDest(k) == EntryFind(new, NewCap(cap), k)
StuckOnEmpty  == IF entries[idx].key = Empty THEN idx ELSE idx + 1
NextIdx       == idx + 1

Rehash ==
  /\ pc = "rehash" /\ idx < cap
  /\ new' = IF entries[idx].key = Empty THEN new
            ELSE [new EXCEPT ![RehashDest(entries[idx].key)] = entries[idx]]
  /\ idx' = NextIdx
  /\ UNCHANGED <<table, pc, args, into, ret>>

(* ... and install it, recomputing the insertions left.                    *)
Install ==
  /\ pc = "rehash" /\ idx = cap
  /\ entries' = new
  /\ cap' = NewCap(cap)
  /\ left' = MaxLoad(NewCap(cap)) - len
  /\ new' = NoArray /\ idx' = 0
  /\ pc' = "place"
  /\ UNCHANGED <<len, args, into, ret>>

(* The rest of HashTable_insert.  Only a slot never used before costs one  *)
(* of the insertions left: a tombstone was already counted.                *)
Place ==
  LET j == EntryFind(entries, cap, key)
      isnew == entries[j].key = Empty
  IN  /\ pc = "place"
      /\ entries' = [entries EXCEPT ![j] = [key |-> key, val |-> val]]
      /\ left' = IF isnew /\ ~IsTombstone(entries[j]) THEN left - 1 ELSE left
      /\ len'  = IF isnew THEN len + 1 ELSE len
      /\ ret'  = IF isnew THEN "new" ELSE "old"
      /\ pc' = "idle" /\ key' = Empty /\ val' = Empty
      /\ UNCHANGED <<cap, loop, into>>

Get(k) == /\ ~weak /\ Idle
          /\ ret' = Lookup(k)
          /\ UNCHANGED <<table, pc, args, loop, into>>

(* HashTable_into: OP_INHERIT copies the superclass' methods.              *)
IntoBegin(s) == /\ ~weak /\ Idle
                /\ src' = s /\ sidx' = 0
                /\ UNCHANGED <<table, pc, args, loop, ret>>

(* Mutant of Skippable: entries whose key the target holds are passed over.*)
AlreadyThere(e) == e.key = Empty \/ \E j \in DOMAIN entries : entries[j].key = e.key
Skippable(e)    == e.key = Empty

IntoSkip == /\ pc = "idle" /\ sidx \in DOMAIN src
            /\ Skippable(src[sidx])
            /\ sidx' = sidx + 1
            /\ UNCHANGED <<table, pc, args, loop, src, ret>>

IntoInsert == /\ pc = "idle" /\ sidx \in DOMAIN src
              /\ ~Skippable(src[sidx])
              /\ BeginInsert(src[sidx].key, src[sidx].val)
              /\ sidx' = sidx + 1
              /\ UNCHANGED src

IntoEnd == /\ pc = "idle" /\ src # NoArray /\ sidx \notin DOMAIN src
           /\ src' = NoArray /\ sidx' = 0
           /\ UNCHANGED <<table, pc, args, loop, ret>>

(* HashTable_free: give the array back and reinitialise.                   *)
FreeTable == /\ Idle
             /\ cap' = 0 /\ len' = 0 /\ left' = 0 /\ entries' = NoArray
             /\ UNCHANGED <<pc, args, loop, into, ret>>

Call == /\ \/ \E k \in Active[weak] : InternHit(k) \/ InternMiss(k) \/ Remove(k) \/ Get(k)
           \/ \E k \in Active[weak], v \in Vals : Insert(k, v)
           \/ \E s \in Sources : IntoBegin(s)
           \/ FreeTable
        /\ UNCHANGED weak

Step == /\ \/ InternInsert \/ Alloc \/ Rehash \/ Install \/ Place
           \/ IntoSkip \/ IntoInsert \/ IntoEnd
        /\ UNCHANGED weak

Next == Call \/ Step

Spec == Init /\ [][Next]_vars

(* A started insertion is straight-line code of the one interpreter thread.*)
FairSpec == Spec /\ WF_vars(Step)

----------------------------------------------------------------------------
Live(e) == {j \in DOMAIN e : e[j].key # Empty}
Used(e) == {j \in DOMAIN e : ~IsFree(e[j])}

(* The map the array stands for. *)
Contents ==
  [k \in Keys |->
     IF \E j \in Live(entries) : entries[j].key = k
       THEN entries[CHOOSE j \in Live(entries) : entries[j].key = k].val
       ELSE Absent]

TypeOK ==
  /\ cap \in Nat /\ len \in Nat /\ left \in Nat
  /\ entries \in Array(cap)
  /\ pc \in {"idle", "create", "alloc", "rehash", "place"}
  /\ key \in Keys \cup {Empty} /\ val \in Vals
  /\ idx \in Nat
  /\ new \in Array(IF pc = "rehash" THEN NewCap(cap) ELSE 0)
  /\ src \in Sources \cup {NoArray} /\ sidx \in Nat
  /\ weak \in BOOLEAN

(* The counters agree with the array: len counts the entries, and left is  *)
(* what the load factor allows minus every slot used since the expansion,  *)
(* tombstones included.                                                    *)
Accounting ==
  /\ len = Cardinality(Live(entries))
  /\ Cardinality(Used(entries)) + left = MaxLoad(cap)

(* "There can't be an infinite cycle, because load factor is being         *)
(* tracked" (Entry_find): every probe meets a slot where it stops, in the  *)
(* table and in the array an expansion is filling.                         *)
ProbesEnd ==
  /\ cap > 0 => \A k \in Keys : Stops(entries, cap, k) # {}
  /\ pc = "rehash" => \A k \in Keys : Stops(new, NewCap(cap), k) # {}

(* Entry_find reaches every entry: no free slot lies on the probe path from*)
(* its key's home to it.  A removal that cleared the slot would break this.*)
PathsIntact(e, c) ==
  \A j \in Live(e) :
    \E n \in 0 .. c - 1 :
      /\ Slot(c, e[j].key, n) = j
      /\ \A m \in 0 .. n - 1 : ~IsFree(e[Slot(c, e[j].key, m)])

(* No key is stored twice: for vm->strings, equal contents are one object. *)
NoDuplicates(e) ==
  \A i, j \in Live(e) : e[i].key = e[j].key => i = j

WellFormed == /\ PathsIntact(entries, cap) /\ NoDuplicates(entries)
              /\ pc = "rehash" => /\ PathsIntact(new, NewCap(cap))
                                  /\ NoDuplicates(new)

(* An expansion loses, invents and changes no entry: what it has moved is  *)
(* what the part of the old array it has passed holds.                     *)
RehashKeepsEntries ==
  pc = "rehash" =>
    {new[j] : j \in Live(new)} =
      {entries[j] : j \in {i \in Live(entries) : i < idx}}

(* HashTable_into overrides: at every point between two of its insertions  *)
(* the target maps each source key already passed to the source's value.   *)
IntoCopies ==
  (pc = "idle" /\ src # NoArray) =>
    \A j \in Live(src) : j < sidx => Contents[src[j].key] = src[j].val

(* The table implements a dictionary: every insertion, removal and lookup  *)
(* has the effect and the result the partial map prescribes, whatever the  *)
(* collisions, tombstones, expansions and removals in between.             *)
Dict == INSTANCE Dictionary WITH dict <- Contents
DictSpec == Dict!Spec

(* Every call returns: an expansion or a copy that has begun is finished,  *)
(* however many entries collections remove meanwhile.                      *)
CallsReturn == ~Idle ~> Idle
===========================================================================

---------------------------- MODULE Dictionary ----------------------------
(***************************************************************************)
(* What a Skooma hash table promises its callers: a partial map from keys  *)
(* to values.  The open-addressing table of hashtable.c implements this    *)
(* specification (module HashTable, property DictSpec).                    *)
(***************************************************************************)
CONSTANTS
  Keys, Vals,
  Absent    (* not one of Vals: there is no entry                          *)

VARIABLES
  dict,   (* key |-> value, or Absent                                      *)
  ret,    (* what the last completed call returned                         *)
  weak    (* may the collector drop entries?                               *)

dvars == <<dict, ret, weak>>

Init == /\ dict = [k \in Keys |-> Absent]
        /\ ret  = Absent
        /\ weak \in BOOLEAN

(* An insertion reports whether the key is new and overwrites otherwise.   *)
Put(k, v) == /\ dict' = [dict EXCEPT ![k] = v]
             /\ ret'  = IF dict[k] = Absent THEN "new" ELSE "old"

Get(k) == ret' = dict[k] /\ UNCHANGED dict

(* An intern lookup that finds the string already there.                   *)
Hit(k) == dict[k] # Absent /\ ret' = "hit" /\ UNCHANGED dict

(* The collector drops the entry of a dead weak key.                       *)
Drop(k) == /\ weak /\ dict[k] # Absent
           /\ dict' = [dict EXCEPT ![k] = Absent]
           /\ UNCHANGED ret

Clear == dict' = [k \in Keys |-> Absent] /\ UNCHANGED ret

Next == /\ \/ \E k \in Keys : Get(k) \/ Hit(k) \/ Drop(k)
           \/ \E k \in Keys, v \in Vals : Put(k, v)
           \/ Clear
        /\ UNCHANGED weak

Spec == Init /\ [][Next]_dvars
===========================================================================

----------------------------- MODULE SymbolMap -----------------------------
(***************************************************************************)
(* What map.h promises: a map from names to values, with a call to look a  *)
(* name up and a call to set it.  IRGen uses the symbol table as this map. *)
(***************************************************************************)
CONSTANTS
    Keys,           \* the names
    Values,         \* what is stored for them
    Absent          \* what map_get returns for a name that is not there

VARIABLES
    contents,       \* the value of every name, or Absent
    answer          \* the last call, and what it returned or stored

mapVars == <<contents, answer>>

Init ==
    /\ contents = [k \in Keys |-> Absent]
    /\ answer = {}

Look(k) ==
    /\ answer' = {<<"get", k, contents[k]>>}
    /\ UNCHANGED contents

Store(k, v) ==
    /\ contents' = [contents EXCEPT ![k] = v]
    /\ answer' = {<<"set", k, v>>}

Next == \E k \in Keys : Look(k) \/ \E v \in Values : Store(k, v)

Spec == Init /\ [][Next]_mapVars
=============================================================================

---------------------------- MODULE SymbolTable ----------------------------
(***************************************************************************)
(* map.c: the symbol table, a hash table with open addressing.  One step   *)
(* is one turn of a probing loop or of the loop that moves the entries     *)
(* into a table of twice the size.                                         *)
(*                                                                         *)
(* An entry is [hash, key, value]; an entry that is not used has hash 0,   *)
(* as memset leaves it.                                                    *)
(***************************************************************************)
EXTENDS Integers, FiniteSets

CONSTANTS
    Keys, Values, Absent,
    Fnv,               \* the FNV-1a hash of every key
    InitialCapacity,   \* what map_create is given
    NoKey

ASSUME KeysAssumption == IsFiniteSet(Keys) /\ NoKey \notin Keys
ASSUME ValuesAssumption == Absent \notin Values
ASSUME FnvAssumption == Fnv \in [Keys -> Nat]

\* map_get takes the hash & (capacity - 1), which is the remainder that
\* map_set takes if the capacity is a power of two.
ASSUME CapacityAssumption ==
    /\ InitialCapacity \in Nat \ {0}
    /\ \E n \in 0..InitialCapacity : 2^n = InitialCapacity

VARIABLES
    capacity, entries, size,  \* the map_t
    call,                     \* the map_get or map_set that is probing
    moving,                   \* the map_resize that is under way
    answer,                   \* the last call, and what it returned or stored (history)
    status                    \* "run", or "panic", or "nested"

vars == <<capacity, entries, size, call, moving, answer, status>>

Empty == [hash |-> 0, key |-> NoKey, value |-> Absent]
Blank(n) == [s \in 0..(n - 1) |-> Empty]
NoCall == [op |-> "none", key |-> NoKey, value |-> Absent, at |-> 0]
NoMove == [from |-> Blank(0), capacity |-> 0, at |-> 0, key |-> NoKey, value |-> Absent]

Init ==
    /\ capacity = InitialCapacity
    /\ entries = Blank(InitialCapacity)
    /\ size = 0
    /\ call = NoCall
    /\ moving = NoMove
    /\ answer = {}
    /\ status = "run"

\* (mutant: a hash of 0 is kept)
HashOfRaw(k) == Fnv[k]

\* hash(): 0 is what an empty entry has.
HashOf(k) == IF Fnv[k] = 0 THEN 1 ELSE Fnv[k]

\* The i-th slot to look at for a key.
Slot(k, i) == ((HashOf(k) % capacity) + i) % capacity

\* (mutant: keys with the same hash are taken for the same key)
IsOfHash(e, k) == e.hash = HashOf(k)

\* The entry is that of the key.
IsOf(e, k) == e.hash = HashOf(k) /\ e.key = k

\* (mutant: the table grows when it is full)
FullTooLate == size > capacity

\* It is time to grow.
Full == size >= (capacity * 3) \div 4

Running == status = "run"
Idle == Running /\ call.op = "none" /\ moving.capacity = 0
Probing(op) == Running /\ call.op = op

Probe(op, k, v) == [op |-> op, key |-> k, value |-> v, at |-> 0]

\* The entry the probe looks at, and whether there is one.
Here == Slot(call.key, call.at)
Ended == call.at = capacity

\* The loop turns.  When map_set has seen every slot it panics.
ProbeOn(op) ==
    /\ Probing(op)
    /\ ~Ended
    /\ entries[Here].hash # 0
    /\ ~IsOf(entries[Here], call.key)
    /\ call' = [call EXCEPT !.at = @ + 1]
    /\ status' = IF op = "set" /\ call'.at = capacity THEN "panic" ELSE status
    /\ UNCHANGED <<capacity, entries, size, moving, answer>>

-----------------------------------------------------------------------------
(* map_get. *)

\* The map is empty.
GetNothing(k) ==
    /\ Idle
    /\ size = 0
    /\ answer' = {<<"get", k, Absent>>}
    /\ UNCHANGED <<capacity, entries, size, call, moving, status>>

Get(k) ==
    /\ Idle
    /\ size # 0
    /\ call' = Probe("get", k, Absent)
    /\ UNCHANGED <<capacity, entries, size, moving, answer, status>>

GetHit ==
    /\ Probing("get")
    /\ ~Ended
    /\ entries[Here].hash # 0
    /\ IsOf(entries[Here], call.key)
    /\ answer' = {<<"get", call.key, entries[Here].value>>}
    /\ call' = NoCall
    /\ UNCHANGED <<capacity, entries, size, moving, status>>

GetMiss ==
    /\ Probing("get")
    /\ Ended \/ entries[Here].hash = 0
    /\ answer' = {<<"get", call.key, Absent>>}
    /\ call' = NoCall
    /\ UNCHANGED <<capacity, entries, size, moving, status>>

-----------------------------------------------------------------------------
(* map_set and map_resize. *)

Set(k, v) ==
    /\ Idle
    /\ ~Full
    /\ call' = Probe("set", k, v)
    /\ UNCHANGED <<capacity, entries, size, moving, answer, status>>

\* (mutant: the entries stay where they are)
SetGrowInPlace(k, v) ==
    /\ Idle
    /\ Full
    /\ capacity' = capacity * 2
    /\ entries' = [s \in 0..(capacity * 2 - 1) |->
                        IF s < capacity THEN entries[s] ELSE Empty]
    /\ call' = Probe("set", k, v)
    /\ UNCHANGED <<size, moving, answer, status>>

\* (mutant: the entries that are moved are counted again)
SetGrowCounted(k, v) ==
    /\ Idle
    /\ Full
    /\ moving' = [from |-> entries, capacity |-> capacity, at |-> 0, key |-> k,
                  value |-> v]
    /\ capacity' = capacity * 2
    /\ entries' = Blank(capacity * 2)
    /\ UNCHANGED <<size, call, answer, status>>

\* map_set calls map_resize, which begins with a blank table, and then goes on
\* as if it had room.
SetGrow(k, v) ==
    /\ Idle
    /\ Full
    /\ moving' = [from |-> entries, capacity |-> capacity, at |-> 0, key |-> k,
                  value |-> v]
    /\ capacity' = capacity * 2
    /\ entries' = Blank(capacity * 2)
    /\ size' = 0
    /\ UNCHANGED <<call, answer, status>>

Moving == Running /\ call.op = "none" /\ moving.at < moving.capacity

MoveSkip ==
    /\ Moving
    /\ moving.from[moving.at].hash = 0
    /\ moving' = [moving EXCEPT !.at = @ + 1]
    /\ UNCHANGED <<capacity, entries, size, call, answer, status>>

\* The map_set of an entry that is moved.  Where it would begin a map_resize
\* inside the one that is running, the model stops.
Move ==
    /\ Moving
    /\ moving.from[moving.at].hash # 0
    /\ IF Full
       THEN status' = "nested" /\ UNCHANGED call
       ELSE /\ call' = Probe("set", moving.from[moving.at].key,
                             moving.from[moving.at].value)
            /\ UNCHANGED status
    /\ moving' = [moving EXCEPT !.at = @ + 1]
    /\ UNCHANGED <<capacity, entries, size, answer>>

\* map_resize returns to the map_set that called it.
MoveEnds ==
    /\ Running
    /\ call.op = "none"
    /\ moving.capacity # 0
    /\ moving.at = moving.capacity
    /\ call' = Probe("set", moving.key, moving.value)
    /\ moving' = NoMove
    /\ UNCHANGED <<capacity, entries, size, answer, status>>

\* A map_set that returns to the caller; those of map_resize do not.
Stored == IF moving.capacity = 0 THEN {<<"set", call.key, call.value>>} ELSE answer

SetNew ==
    /\ Probing("set")
    /\ ~Ended
    /\ entries[Here].hash = 0
    /\ entries' = [entries EXCEPT ![Here] =
            [hash |-> HashOf(call.key), key |-> call.key, value |-> call.value]]
    /\ size' = size + 1
    /\ call' = NoCall
    /\ answer' = Stored
    /\ UNCHANGED <<capacity, moving, status>>

SetOld ==
    /\ Probing("set")
    /\ ~Ended
    /\ entries[Here].hash # 0
    /\ IsOf(entries[Here], call.key)
    /\ entries' = [entries EXCEPT ![Here].value = call.value]
    /\ call' = NoCall
    /\ answer' = Stored
    /\ UNCHANGED <<capacity, size, moving, status>>

-----------------------------------------------------------------------------
\* (mutant: the loop looks at one slot again and again)
GoOnStays ==
    \/ /\ \E op \in {"get", "set"} : Probing(op)
       /\ ~Ended
       /\ entries[Here].hash # 0
       /\ ~IsOf(entries[Here], call.key)
       /\ UNCHANGED vars
    \/ GetHit \/ GetMiss \/ MoveSkip \/ Move \/ MoveEnds
    \/ SetNew \/ SetOld

\* What a call does once it has begun.
GoOn ==
    \/ \E op \in {"get", "set"} : ProbeOn(op)
    \/ GetHit \/ GetMiss \/ MoveSkip \/ Move \/ MoveEnds
    \/ SetNew \/ SetOld

Next ==
    \/ \E k \in Keys : GetNothing(k) \/ Get(k)
    \/ \E k \in Keys, v \in Values : Set(k, v) \/ SetGrow(k, v)
    \/ GoOn

Spec == Init /\ [][Next]_vars

\* The callers may stop calling; a call that has begun goes on.
FairSpec == Spec /\ WF_vars(GoOn)

-----------------------------------------------------------------------------
Used(t) == {s \in DOMAIN t : t[s].hash # 0}

EntryType == [hash : Nat, key : Keys \cup {NoKey}, value : Values \cup {Absent}]

\* The table has its capacity, size is the number of its entries, and the
\* calls are where their loops can be.
TypeOK ==
    /\ capacity \in Nat \ {0}
    /\ entries \in [0..(capacity - 1) -> EntryType]
    /\ size = Cardinality(Used(entries))
    /\ call \in [op : {"none", "get", "set"}, key : Keys \cup {NoKey},
                 value : Values \cup {Absent}, at : 0..capacity]
    /\ moving.capacity \in Nat
    /\ moving.from \in [0..(moving.capacity - 1) -> EntryType]
    /\ moving.at \in 0..moving.capacity
    /\ moving.key \in Keys \cup {NoKey}
    /\ moving.value \in Values \cup {Absent}
    /\ status \in {"run", "panic", "nested"}

\* Every entry is where a probe for its key comes to before it comes to an
\* empty slot, and before it comes to another entry of the key.  Neither
\* map_set nor map_resize says this anywhere (map.c:81-92, 107-125).
Findable ==
    \A s \in Used(entries) :
        /\ entries[s].key \in Keys
        /\ entries[s].hash = HashOf(entries[s].key)
        /\ \E i \in 0..(capacity - 1) :
              /\ Slot(entries[s].key, i) = s
              /\ \A j \in 0..(i - 1) :
                    LET e == entries[Slot(entries[s].key, j)]
                    IN  e.hash # 0 /\ e.key # entries[s].key

\* map_set finds a slot, and what it resizes has room: the panic at its end
\* (map.c:127) is not reached, and map_resize does not call itself by way of
\* the map_set of an entry that it moves (map.c:36).
AlwaysRoom == status = "run"

\* What is in the map: the entries of the table and, while they are moved,
\* those of the old one that are not in the new one yet.
Pending ==
    {u \in Used(moving.from) :
        IF call.op = "set" THEN u >= moving.at - 1 ELSE u >= moving.at}

Kept == {entries[s] : s \in Used(entries)} \cup {moving.from[u] : u \in Pending}

\* What a set of entries says of a name.
ValueIn(K, k) ==
    IF \E e \in K : e.key = k THEN (CHOOSE e \in K : e.key = k).value ELSE Absent

Contents == [k \in Keys |-> ValueIn(Kept, k)]

\* The table is the map that SymbolMap describes: a look-up returns what was
\* stored last, whatever the keys hash to and however often the table grows.
Map == INSTANCE SymbolMap WITH contents <- Contents

IsMap == Map!Spec

\* Every call returns.
Returns == ~Idle ~> Idle
=============================================================================

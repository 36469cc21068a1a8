------------------------- MODULE SymbolTableProofs -------------------------
(***************************************************************************)
(* Theorems about the symbol table, for every set of names and values,     *)
(* every hash function and every initial capacity: entries can be found,   *)
(* there is always room, and the hash table of map.c is the map of         *)
(* SymbolMap.                                                              *)
(*                                                                         *)
(* For the last of these, Contents is a function of the set of entries     *)
(* that are kept.  Growing the table keeps that set; a map_set that        *)
(* returns replaces the entry of its name; a map_get returns what the set  *)
(* says of its name.                                                       *)
(***************************************************************************)
EXTENDS SymbolTable, FiniteSetTheorems, TLAPS

-----------------------------------------------------------------------------
(* Slots.                                                                    *)

\* A hash is never the mark of an empty entry.
LEMMA HashNotEmpty ==
    ASSUME NEW k \in Keys
    PROVE  HashOf(k) \in Nat \ {0}
BY FnvAssumption DEF HashOf

LEMMA RemainderIn ==
    ASSUME NEW c \in Nat \ {0}, NEW x \in Nat
    PROVE  x % c \in 0..(c - 1)
OBVIOUS

LEMMA RemainderSame ==
    ASSUME NEW c \in Nat \ {0}, NEW x \in 0..(c - 1)
    PROVE  x % c = x /\ (x + c) % c = x
OBVIOUS

\* A probe stays inside the table.
LEMMA SlotIn ==
    ASSUME NEW k \in Keys, NEW i \in Nat, capacity \in Nat \ {0}
    PROVE  Slot(k, i) \in 0..(capacity - 1)
<1>1. HashOf(k) \in Nat
  BY HashNotEmpty
<1>2. HashOf(k) % capacity \in 0..(capacity - 1)
  BY <1>1, RemainderIn
<1>3. (HashOf(k) % capacity) + i \in Nat
  BY <1>2
<1> QED
  BY <1>3, RemainderIn DEF Slot

\* A probe of full length sees every slot.
LEMMA SlotOnto ==
    ASSUME NEW k \in Keys, capacity \in Nat \ {0}, NEW s \in 0..(capacity - 1)
    PROVE  \E i \in 0..(capacity - 1) : Slot(k, i) = s
<1> DEFINE h == HashOf(k) % capacity
<1>1. h \in 0..(capacity - 1)
  BY HashNotEmpty, RemainderIn
<1> HIDE DEF h
<1>2. CASE s >= h
  <2>1. s - h \in 0..(capacity - 1) /\ h + (s - h) = s
    BY <1>1, <1>2
  <2>2. (h + (s - h)) % capacity = s
    BY <2>1, RemainderSame
  <2> QED
    BY <2>1, <2>2 DEF Slot, h
<1>3. CASE s < h
  <2>1. s + capacity - h \in 0..(capacity - 1) /\ h + (s + capacity - h) = s + capacity
    BY <1>1, <1>3
  <2>2. (h + (s + capacity - h)) % capacity = s
    BY <2>1, RemainderSame
  <2> QED
    BY <2>1, <2>2 DEF Slot, h
<1> QED
  BY <1>1, <1>2, <1>3

-----------------------------------------------------------------------------
(* The invariant.                                                            *)

Tables == UNION {[0..(n - 1) -> EntryType] : n \in Nat}

Typed ==
    /\ capacity \in Nat \ {0}
    /\ entries \in [0..(capacity - 1) -> EntryType]
    /\ size \in Nat
    /\ call \in [op : {"none", "get", "set"}, key : Keys \cup {NoKey},
                 value : Values \cup {Absent}, at : Nat]
    /\ moving \in [from : Tables, capacity : Nat, at : Nat,
                   key : Keys \cup {NoKey}, value : Values \cup {Absent}]
    /\ moving.from \in [0..(moving.capacity - 1) -> EntryType]

\* An entry that is used is that of a name, with a value and its hash.
Whole(t) ==
    \A s \in Used(t) :
        /\ t[s].key \in Keys
        /\ t[s].value \in Values
        /\ t[s].hash = HashOf(t[s].key)

\* No name has two entries.
Once(t) == \A s, u \in Used(t) : t[s].key = t[u].key => s = u

\* The probe of a call has seen only entries of other names, and a map_set
\* probes a table with room.
ProbeInv ==
    /\ call.op # "none" =>
          /\ call.key \in Keys
          /\ \A j \in 0..(call.at - 1) :
                LET e == entries[Slot(call.key, j)]
                IN  e.hash # 0 /\ e.key # call.key
    /\ call.at <= capacity
    /\ call.op = "set" =>
          call.value \in Values /\ size < capacity /\ call.at < capacity

\* While entries are moved, the new table has twice the room of the old one
\* and no more entries than have been moved; what is moved is not in it yet.
MoveInv ==
    /\ Whole(moving.from)
    /\ Once(moving.from)
    /\ moving.at <= moving.capacity
    /\ \A s \in Used(entries), u \in Pending : entries[s].key # moving.from[u].key
    /\ moving.capacity # 0 =>
          /\ capacity = 2 * moving.capacity
          /\ moving.key \in Keys
          /\ moving.value \in Values
          /\ call.op # "get"
          /\ call.op = "none" => size <= moving.at
          /\ call.op = "set" =>
                /\ size < moving.at
                /\ moving.at - 1 \in Used(moving.from)
                /\ call.key = moving.from[moving.at - 1].key
                /\ call.value = moving.from[moving.at - 1].value

IInv ==
    /\ Typed
    /\ status = "run"
    /\ size = Cardinality(Used(entries))
    /\ Whole(entries)
    /\ Findable
    /\ ProbeInv
    /\ MoveInv

-----------------------------------------------------------------------------
(* What follows from it.                                                     *)

\* Two entries of a name would be on one probe, and the second would not have
\* been put there.
LEMMA FindableOnce ==
    ASSUME Typed, Findable
    PROVE  Once(entries)
<1> SUFFICES ASSUME NEW s \in Used(entries), NEW u \in Used(entries),
                    entries[s].key = entries[u].key
             PROVE  s = u
  BY DEF Once
<1> DEFINE k == entries[s].key
<1>0. k \in Keys
  BY DEF Findable
<1>1. PICK i \in 0..(capacity - 1) :
          /\ Slot(k, i) = s
          /\ \A j \in 0..(i - 1) : entries[Slot(k, j)].key # k
  BY DEF Findable
<1>2. PICK n \in 0..(capacity - 1) :
          /\ Slot(k, n) = u
          /\ \A j \in 0..(n - 1) : entries[Slot(k, j)].key # k
  BY DEF Findable
<1>3. CASE i < n
  BY <1>1, <1>2, <1>3
<1>4. CASE n < i
  BY <1>1, <1>2, <1>4
<1>5. CASE i = n
  BY <1>1, <1>2, <1>5
<1> QED
  BY <1>3, <1>4, <1>5 DEF Typed

\* A probe that has come to an empty entry, or to its end, without its name:
\* the name is not in the table.
LEMMA NotThere ==
    ASSUME Typed, Findable, NEW k \in Keys, NEW n \in Nat,
           \A j \in 0..(n - 1) : entries[Slot(k, j)].key # k,
           n = capacity \/ entries[Slot(k, n)].hash = 0
    PROVE  \A s \in Used(entries) : entries[s].key # k
<1> SUFFICES ASSUME NEW s \in Used(entries), entries[s].key = k
             PROVE  FALSE
  OBVIOUS
<1>1. PICK i \in 0..(capacity - 1) :
          /\ Slot(k, i) = s
          /\ \A j \in 0..(i - 1) : entries[Slot(k, j)].hash # 0
  BY DEF Findable
<1>2. CASE i < n
  BY <1>1, <1>2
<1>3. CASE i = n
  BY <1>1, <1>3 DEF Used, Typed
<1>4. CASE n < i
  BY <1>1, <1>4 DEF Typed
<1> QED
  BY <1>2, <1>3, <1>4 DEF Typed

LEMMA UsedFinite ==
    ASSUME Typed
    PROVE  /\ IsFiniteSet(Used(entries))
           /\ Used(entries) \subseteq 0..(capacity - 1)
<1>1. Used(entries) \subseteq 0..(capacity - 1)
  BY DEF Used, Typed
<1>2. IsFiniteSet(0..(capacity - 1))
  BY FS_Interval DEF Typed
<1> QED
  BY <1>1, <1>2, FS_Subset

\* A table that is not full has an empty slot, on every probe.
LEMMA SomeEmpty ==
    ASSUME Typed, size = Cardinality(Used(entries)), size < capacity, NEW k \in Keys
    PROVE  \E i \in 0..(capacity - 1) : entries[Slot(k, i)].hash = 0
<1>1. Used(entries) # 0..(capacity - 1)
  <2>1. Cardinality(0..(capacity - 1)) = capacity
    BY FS_Interval DEF Typed
  <2> QED
    BY <2>1 DEF Typed
<1>2. PICK s \in 0..(capacity - 1) : s \notin Used(entries)
  BY <1>1, UsedFinite
<1>3. entries[s].hash = 0
  BY <1>2 DEF Used, Typed
<1> QED
  BY <1>3, SlotOnto DEF Typed

-----------------------------------------------------------------------------
(* The invariant is kept.                                                    *)

LEMMA InitInv == Init => IInv
<1> SUFFICES ASSUME Init
             PROVE  IInv
  OBVIOUS
<1>1. capacity \in Nat \ {0}
  BY CapacityAssumption DEF Init
<1>2. Empty \in EntryType
  BY DEF Empty, EntryType
<1>3. entries \in [0..(capacity - 1) -> EntryType] /\ Blank(0) \in [0..(0 - 1) -> EntryType]
  BY <1>1, <1>2 DEF Init, Blank
<1>4. Used(entries) = {} /\ Used(Blank(0)) = {}
  BY DEF Init, Blank, Used, Empty
<1>5. Blank(0) \in Tables
  BY <1>3 DEF Tables
<1>6. Typed
  BY <1>1, <1>3, <1>5 DEF Typed, Init, NoCall, NoMove
<1>7. Whole(entries) /\ Findable /\ size = Cardinality(Used(entries))
  BY <1>4, FS_EmptySet DEF Whole, Findable, Init
<1>8. ProbeInv
  BY CapacityAssumption DEF Init, NoCall, ProbeInv
<1>9. MoveInv
  BY <1>4 DEF MoveInv, Init, NoMove, NoCall, Whole, Once, Pending
<1> QED
  BY <1>6, <1>7, <1>8, <1>9 DEF IInv, Init

\* What has been found out about the slots of a probe stays true while neither
\* the table nor the call changes.
LEMMA TableSame ==
    ASSUME IInv, UNCHANGED <<capacity, entries, size, status>>
    PROVE  /\ status' = "run"
           /\ size' = Cardinality(Used(entries))'
           /\ Whole(entries)'
           /\ Findable'
BY DEF IInv, Whole, Findable, Used, Slot

\* A call that only looks, or that begins, or ends, leaves the moving of
\* entries as it is, if none are moved.
LEMMA NotMovingSame ==
    ASSUME IInv, moving.capacity = 0, UNCHANGED moving
    PROVE  MoveInv'
<1>1. DOMAIN moving.from = {}
  BY DEF IInv, Typed
<1>2. Used(moving.from) = {}
  BY <1>1 DEF Used
<1>3. moving' = moving /\ Pending' = {} /\ moving.at <= moving.capacity
  BY <1>2 DEF Pending, IInv, MoveInv, Used
<1> QED
  BY <1>2, <1>3 DEF MoveInv, Whole, Once, Used

\* map_get is not called while entries are moved.
LEMMA NotMoving ==
    ASSUME IInv, Idle \/ Probing("get")
    PROVE  moving.capacity = 0
BY DEF IInv, Idle, Probing, MoveInv

LEMMA GetNothingInv ==
    ASSUME IInv, NEW k \in Keys, GetNothing(k)
    PROVE  IInv'
<1>1. MoveInv'
  BY NotMoving, NotMovingSame DEF GetNothing
<1>2. Typed' /\ ProbeInv'
  BY DEF GetNothing, IInv, Typed, ProbeInv, Slot
<1> QED
  BY <1>1, <1>2, TableSame DEF GetNothing, IInv

LEMMA GetInv ==
    ASSUME IInv, NEW k \in Keys, Get(k)
    PROVE  IInv'
<1>1. MoveInv'
  BY NotMoving, NotMovingSame DEF Get
<1>2. call' = [op |-> "get", key |-> k, value |-> Absent, at |-> 0]
  BY DEF Get, Probe
<1>3. Typed'
  BY <1>2 DEF Get, IInv, Typed
<1>4. ProbeInv'
  BY <1>2 DEF Get, IInv, Typed, ProbeInv
<1> QED
  BY <1>1, <1>3, <1>4, TableSame DEF Get, IInv

LEMMA GetEndsInv ==
    ASSUME IInv, GetHit \/ GetMiss
    PROVE  IInv'
<1>1. MoveInv'
  BY NotMoving, NotMovingSame DEF GetHit, GetMiss
<1>2. Typed' /\ ProbeInv'
  BY DEF GetHit, GetMiss, NoCall, IInv, Typed, ProbeInv
<1> QED
  BY <1>1, <1>2, TableSame DEF GetHit, GetMiss, IInv

LEMMA SetInv ==
    ASSUME IInv, NEW k \in Keys, NEW v \in Values, Set(k, v)
    PROVE  IInv'
<1>1. MoveInv'
  BY NotMoving, NotMovingSame DEF Set
<1>2. call' = [op |-> "set", key |-> k, value |-> v, at |-> 0]
  BY DEF Set, Probe
<1>3. Typed'
  BY <1>2 DEF Set, IInv, Typed
<1>4. size < capacity
  BY DEF Set, Full, IInv, Typed
<1>5. ProbeInv'
  BY <1>2, <1>4 DEF Set, IInv, Typed, ProbeInv
<1> QED
  BY <1>1, <1>3, <1>5, TableSame DEF Set, IInv

\* An entry of another name, and a probe that goes on behind it.
LEMMA NotItsName ==
    ASSUME IInv, call.op # "none", ~Ended, entries[Here].hash # 0,
           ~IsOf(entries[Here], call.key)
    PROVE  entries[Here].key # call.key
<1>1. call.key \in Keys /\ call.at \in Nat
  BY DEF IInv, ProbeInv, Typed
<1>2. Here \in 0..(capacity - 1)
  BY <1>1, SlotIn DEF Here, IInv, Typed
<1>3. Here \in Used(entries)
  BY <1>2 DEF Used, IInv, Typed
<1> QED
  BY <1>3 DEF IInv, Whole, IsOf

\* The loop never comes to its end in map_set: a table that has room has an
\* empty slot that the probe has not seen.
LEMMA ProbeOnInv ==
    ASSUME IInv, NEW op \in {"get", "set"}, ProbeOn(op)
    PROVE  IInv'
<1>1. call' = [call EXCEPT !.at = call.at + 1] /\ call.op = op
  BY DEF ProbeOn, Probing
<1>2. call.key \in Keys /\ call.at \in Nat /\ call.at <= capacity
  BY <1>1 DEF IInv, ProbeInv, Typed
<1>3. /\ entries[Slot(call.key, call.at)].hash # 0
      /\ entries[Slot(call.key, call.at)].key # call.key
  BY <1>1, NotItsName DEF ProbeOn, Here
<1>4. \A j \in 0..call.at : entries[Slot(call.key, j)].hash # 0
                            /\ entries[Slot(call.key, j)].key # call.key
  BY <1>1, <1>2, <1>3 DEF IInv, ProbeInv
<1>5. call.at < capacity
  BY <1>2 DEF ProbeOn, Ended, IInv, Typed
<1>6. ASSUME op = "set"
      PROVE  call.at + 1 < capacity
  <2>1. size < capacity
    BY <1>1, <1>6 DEF IInv, ProbeInv
  <2>2. PICK i \in 0..(capacity - 1) : entries[Slot(call.key, i)].hash = 0
    BY <2>1, <1>2, SomeEmpty DEF IInv
  <2>3. ~(i <= call.at)
    BY <1>4, <2>2, <1>2
  <2> QED
    BY <2>2, <2>3, <1>2 DEF IInv, Typed
<1>7. call'.op = call.op /\ call'.key = call.key /\ call'.value = call.value
      /\ call'.at = call.at + 1
  BY <1>1 DEF IInv, Typed
<1>8. UNCHANGED status
  BY <1>6, <1>7, <1>2 DEF ProbeOn, IInv, Typed
<1>9. Typed'
  <2>1. call' \in [op : {"none", "get", "set"}, key : Keys \cup {NoKey},
                   value : Values \cup {Absent}, at : Nat]
    <3>1. call.at + 1 \in Nat
      BY <1>2
    <3> QED
      BY <3>1, <1>1 DEF IInv, Typed
  <2>2. UNCHANGED <<capacity, entries, size, moving>>
    BY DEF ProbeOn
  <2> QED
    BY <2>1, <2>2 DEF IInv, Typed
<1>10. ProbeInv'
  <2>1. \A j \in 0..(call'.at - 1) : entries[Slot(call.key, j)].hash # 0
                            /\ entries[Slot(call.key, j)].key # call.key
    BY <1>4, <1>7, <1>2
  <2>2. UNCHANGED <<capacity, entries, size>>
    BY DEF ProbeOn
  <2>3. \A j \in 0..(call'.at - 1) :
            /\ entries'[Slot(call.key, j)'].hash # 0
            /\ entries'[Slot(call.key, j)'].key # call.key
    BY <2>1, <2>2, <1>7 DEF Slot
  <2>4. call'.at <= capacity
    BY <1>2, <1>5, <1>7 DEF IInv, Typed
  <2>5. op = "set" => call'.value \in Values /\ size < capacity /\ call'.at < capacity
    BY <1>1, <1>6, <1>7 DEF IInv, ProbeInv
  <2> QED
    BY <2>2, <2>3, <2>4, <2>5, <1>1, <1>2, <1>7 DEF ProbeInv, Slot
<1>11. MoveInv'
  BY <1>7 DEF ProbeOn, IInv, MoveInv, Pending, Whole, Once, Used
<1> QED
  BY <1>8, <1>9, <1>10, <1>11, TableSame DEF ProbeOn, IInv

\* A blank table has nothing in it.
LEMMA BlankTable ==
    ASSUME NEW n \in Nat
    PROVE  Blank(n) \in [0..(n - 1) -> EntryType] /\ Used(Blank(n)) = {}
<1>1. Empty \in EntryType
  BY DEF Empty, EntryType
<1> QED
  BY <1>1 DEF Blank, Used, Empty

LEMMA SetGrowInv ==
    ASSUME IInv, NEW k \in Keys, NEW v \in Values, SetGrow(k, v)
    PROVE  IInv'
<1> DEFINE m == [from |-> entries, capacity |-> capacity, at |-> 0, key |-> k,
                 value |-> v]
<1>1. /\ moving' = m
      /\ capacity' = capacity * 2
      /\ entries' = Blank(capacity * 2)
      /\ size' = 0
      /\ UNCHANGED <<call, status>>
      /\ call.op = "none"
  BY DEF SetGrow, Idle
<1>2. capacity \in Nat \ {0} /\ capacity * 2 \in Nat \ {0}
  BY DEF IInv, Typed
<1>3. entries' \in [0..(capacity' - 1) -> EntryType] /\ Used(entries') = {}
  BY <1>1, <1>2, BlankTable
<1>4. Typed'
  <2>1. entries \in Tables
    BY DEF IInv, Typed, Tables
  <2>2. m \in [from : Tables, capacity : Nat, at : Nat, key : Keys \cup {NoKey},
               value : Values \cup {Absent}]
    BY <2>1, <1>2
  <2>3. m.from \in [0..(m.capacity - 1) -> EntryType]
    BY DEF IInv, Typed
  <2> QED
    BY <1>1, <1>2, <1>3, <2>2, <2>3 DEF IInv, Typed
<1>5. Whole(entries)' /\ Findable' /\ size' = Cardinality(Used(entries))'
  BY <1>1, <1>3, FS_EmptySet DEF Whole, Findable
<1>6. ProbeInv'
  BY <1>1 DEF ProbeInv, IInv, Typed
<1>7. MoveInv'
  <2>1. Whole(entries) /\ Once(entries)
    BY FindableOnce DEF IInv
  <2>2. Whole(moving.from)' /\ Once(moving.from)'
    BY <2>1, <1>1 DEF Whole, Once, Used
  <2> QED
    BY <2>2, <1>1, <1>2, <1>3 DEF MoveInv
<1> QED
  BY <1>1, <1>4, <1>5, <1>6, <1>7 DEF IInv

\* What is known while the loop of map_resize runs.
LEMMA MovingFacts ==
    ASSUME IInv, call.op = "none", moving.capacity # 0
    PROVE  /\ moving.capacity \in Nat \ {0}
           /\ moving.at \in 0..moving.capacity
           /\ capacity = 2 * moving.capacity
           /\ size \in 0..moving.at
           /\ moving.key \in Keys /\ moving.value \in Values
BY DEF IInv, Typed, MoveInv

LEMMA MoveSkipInv ==
    ASSUME IInv, MoveSkip
    PROVE  IInv'
<1>1. /\ moving' = [moving EXCEPT !.at = moving.at + 1]
      /\ UNCHANGED <<capacity, entries, size, call, answer, status>>
      /\ call.op = "none" /\ moving.at < moving.capacity
  BY DEF MoveSkip, Moving
<1>2. moving.capacity # 0 /\ moving.at \in Nat
  BY <1>1 DEF IInv, Typed
<1>3. /\ moving'.at = moving.at + 1
      /\ moving'.from = moving.from /\ moving'.capacity = moving.capacity
      /\ moving'.key = moving.key /\ moving'.value = moving.value
  BY <1>1 DEF IInv, Typed
<1>4. moving' \in [from : Tables, capacity : Nat, at : Nat, key : Keys \cup {NoKey},
                   value : Values \cup {Absent}]
  <2>1. moving.at + 1 \in Nat
    BY <1>2
  <2>2. moving \in [from : Tables, capacity : Nat, at : Nat, key : Keys \cup {NoKey},
                    value : Values \cup {Absent}]
    BY DEF IInv, Typed
  <2> QED
    BY <1>1, <2>1, <2>2
<1>5. Typed'
  BY <1>1, <1>3, <1>4 DEF IInv, Typed
<1>6. ProbeInv'
  BY <1>1 DEF ProbeInv, IInv, Typed
<1>7. MoveInv'
  <2>1. Used(moving.from) \subseteq Nat
    BY DEF Used, IInv, Typed
  <2>2. Used(moving'.from) = Used(moving.from)
    BY <1>3
  <2>3. Pending' \subseteq Pending
    BY <1>1, <1>2, <1>3, <2>1, <2>2 DEF Pending
  <2>4. \A s \in Used(entries'), u \in Pending' : entries'[s].key # moving'.from[u].key
    BY <1>1, <1>3, <2>3 DEF IInv, MoveInv
  <2>5. Whole(moving'.from) /\ Once(moving'.from)
    BY <1>3 DEF IInv, MoveInv
  <2>6. moving'.at <= moving'.capacity
    BY <1>1, <1>2, <1>3 DEF IInv, Typed
  <2>7. /\ capacity' = 2 * moving'.capacity
        /\ moving'.key \in Keys /\ moving'.value \in Values
        /\ size' <= moving'.at
    BY <1>1, <1>2, <1>3, MovingFacts
  <2> QED
    BY <2>4, <2>5, <2>6, <2>7, <1>1 DEF MoveInv, Whole, Once, Used, HashOf
<1> QED
  BY <1>1, <1>5, <1>6, <1>7, TableSame DEF IInv

\* The table that is filled is never full: it has at most as many entries as
\* have been moved, and twice the room of the old one.
LEMMA RoomWhileMoving ==
    ASSUME IInv, Moving
    PROVE  ~Full /\ size < capacity
<1>1. moving.capacity # 0
  BY DEF Moving, IInv, Typed
<1>2. /\ moving.capacity \in Nat \ {0}
      /\ capacity = 2 * moving.capacity
      /\ size \in 0..moving.at /\ moving.at < moving.capacity
      /\ moving.at \in Nat
  BY <1>1, MovingFacts DEF Moving
<1>3. \A m \in Nat \ {0}, n \in Nat : n < m => ~(n >= ((2 * m) * 3) \div 4)
  OBVIOUS
<1> QED
  BY <1>2, <1>3 DEF Full

LEMMA MoveInvKept ==
    ASSUME IInv, Move
    PROVE  IInv'
<1> DEFINE e == moving.from[moving.at]
<1>1. ~Full /\ size < capacity
  BY RoomWhileMoving DEF Move
<1>2. /\ moving' = [moving EXCEPT !.at = moving.at + 1]
      /\ call' = [op |-> "set", key |-> e.key, value |-> e.value, at |-> 0]
      /\ UNCHANGED <<capacity, entries, size, answer, status>>
      /\ call.op = "none" /\ moving.at < moving.capacity
      /\ e.hash # 0
  BY <1>1 DEF Move, Moving, Probe
<1>3. moving.capacity # 0 /\ moving.at \in Nat
  BY <1>2 DEF IInv, Typed
<1>4. /\ moving'.at = moving.at + 1
      /\ moving'.from = moving.from /\ moving'.capacity = moving.capacity
      /\ moving'.key = moving.key /\ moving'.value = moving.value
  BY <1>2 DEF IInv, Typed
<1>5. moving' \in [from : Tables, capacity : Nat, at : Nat, key : Keys \cup {NoKey},
                   value : Values \cup {Absent}]
  <2>1. moving.at + 1 \in Nat
    BY <1>3
  <2> QED
    BY <2>1, <1>2 DEF IInv, Typed
<1>6. moving.at \in Used(moving.from)
  BY <1>2, <1>3 DEF Used, IInv, Typed
<1>7. e.key \in Keys /\ e.value \in Values
  BY <1>6 DEF IInv, MoveInv, Whole
<1>8. Typed'
  BY <1>2, <1>4, <1>5, <1>7 DEF IInv, Typed
<1>9. ProbeInv'
  BY <1>1, <1>2, <1>7 DEF ProbeInv, IInv, Typed
<1>10. MoveInv'
  <2>1. Used(moving.from) \subseteq Nat
    BY DEF Used, IInv, Typed
  <2>2. Used(moving'.from) = Used(moving.from)
    BY <1>4
  <2>3. Pending' = Pending
    BY <1>2, <1>3, <1>4, <2>1, <2>2 DEF Pending
  <2>4. \A s \in Used(entries'), u \in Pending' : entries'[s].key # moving'.from[u].key
    BY <1>2, <1>4, <2>3 DEF IInv, MoveInv
  <2>5. Whole(moving'.from) /\ Once(moving'.from)
    BY <1>4 DEF IInv, MoveInv
  <2>6. moving'.at <= moving'.capacity
    BY <1>2, <1>3, <1>4 DEF IInv, Typed
  <2>7. /\ capacity' = 2 * moving'.capacity
        /\ moving'.key \in Keys /\ moving'.value \in Values
        /\ size' < moving'.at
    BY <1>2, <1>3, <1>4, MovingFacts
  <2>8. /\ moving'.at - 1 \in Used(moving'.from)
        /\ call'.key = moving'.from[moving'.at - 1].key
        /\ call'.value = moving'.from[moving'.at - 1].value
    <3>1. moving'.at - 1 = moving.at
      BY <1>3, <1>4
    <3> QED
      BY <3>1, <1>2, <1>4, <1>6
  <2> QED
    BY <2>4, <2>5, <2>6, <2>7, <2>8, <1>2 DEF MoveInv, Whole, Once, Used, HashOf
<1> QED
  BY <1>2, <1>8, <1>9, <1>10, TableSame DEF IInv

LEMMA MoveEndsInv ==
    ASSUME IInv, MoveEnds
    PROVE  IInv'
<1>1. /\ moving' = NoMove
      /\ call' = [op |-> "set", key |-> moving.key, value |-> moving.value, at |-> 0]
      /\ UNCHANGED <<capacity, entries, size, answer, status>>
      /\ call.op = "none" /\ moving.at = moving.capacity /\ moving.capacity # 0
  BY DEF MoveEnds, Probe
<1>2. /\ moving.key \in Keys /\ moving.value \in Values
      /\ size < capacity
  BY <1>1, MovingFacts
<1>3. Blank(0) \in [0..(0 - 1) -> EntryType] /\ Used(Blank(0)) = {}
  BY BlankTable
<1>4. Typed'
  <2>1. Blank(0) \in Tables
    BY <1>3 DEF Tables
  <2> QED
    BY <1>1, <1>2, <1>3, <2>1 DEF IInv, Typed, NoMove
<1>5. ProbeInv'
  BY <1>1, <1>2 DEF ProbeInv, IInv, Typed
<1>6. MoveInv'
  BY <1>1, <1>3 DEF MoveInv, NoMove, Whole, Once, Pending
<1> QED
  BY <1>1, <1>4, <1>5, <1>6, TableSame DEF IInv

\* Where a map_set stores.
LEMMA SetFacts ==
    ASSUME IInv, SetNew \/ SetOld
    PROVE  /\ call.op = "set"
           /\ call.key \in Keys /\ call.value \in Values
           /\ call.at \in 0..(capacity - 1)
           /\ Here \in 0..(capacity - 1)
           /\ Here = Slot(call.key, call.at)
           /\ \A j \in 0..(call.at - 1) :
                 /\ entries[Slot(call.key, j)].hash # 0
                 /\ entries[Slot(call.key, j)].key # call.key
           /\ size < capacity
<1>1. call.op = "set"
  BY DEF SetNew, SetOld, Probing
<1>2. /\ call.key \in Keys /\ call.value \in Values
      /\ call.at \in 0..(capacity - 1)
      /\ size < capacity
      /\ \A j \in 0..(call.at - 1) :
            /\ entries[Slot(call.key, j)].hash # 0
            /\ entries[Slot(call.key, j)].key # call.key
  BY <1>1 DEF IInv, ProbeInv, Typed
<1>3. Here \in 0..(capacity - 1)
  BY <1>2, SlotIn DEF Here, IInv, Typed
<1> QED
  BY <1>1, <1>2, <1>3 DEF Here

\* When map_set stores a name that is new, the slot was empty, and nothing
\* that is found by way of it: what was used stays used.
LEMMA SetNewInv ==
    ASSUME IInv, SetNew
    PROVE  IInv'
<1> DEFINE e == [hash |-> HashOf(call.key), key |-> call.key, value |-> call.value]
<1>0. /\ call.op = "set"
      /\ call.key \in Keys /\ call.value \in Values
      /\ call.at \in 0..(capacity - 1)
      /\ Here \in 0..(capacity - 1)
      /\ Here = Slot(call.key, call.at)
      /\ \A j \in 0..(call.at - 1) :
            /\ entries[Slot(call.key, j)].hash # 0
            /\ entries[Slot(call.key, j)].key # call.key
  BY SetFacts
<1>1. /\ entries[Here].hash = 0
      /\ entries' = [entries EXCEPT ![Here] = e]
      /\ size' = size + 1
      /\ call' = NoCall
      /\ UNCHANGED <<capacity, moving, status>>
  BY DEF SetNew
<1>2. capacity \in Nat \ {0} /\ entries \in [0..(capacity - 1) -> EntryType] /\ size \in Nat
  BY DEF IInv, Typed
<1>3. e \in EntryType /\ e.hash # 0 /\ e.key = call.key /\ e.value = call.value
      /\ e.hash = HashOf(call.key)
  BY <1>0, HashNotEmpty DEF EntryType
<1> HIDE DEF e
<1>4. /\ entries' \in [0..(capacity - 1) -> EntryType]
      /\ entries'[Here] = e
      /\ \A s \in 0..(capacity - 1) : s # Here => entries'[s] = entries[s]
  BY <1>0, <1>1, <1>2, <1>3
<1>5. Here \notin Used(entries) /\ Used(entries') = Used(entries) \cup {Here}
  BY <1>0, <1>1, <1>2, <1>3, <1>4 DEF Used
<1>6. Typed'
  BY <1>1, <1>2, <1>4 DEF IInv, Typed, NoCall
<1>7. size' = Cardinality(Used(entries))'
  <2>1. Cardinality(Used(entries) \cup {Here}) = Cardinality(Used(entries)) + 1
    BY <1>5, UsedFinite, FS_AddElement DEF IInv
  <2> QED
    BY <2>1, <1>1, <1>5 DEF IInv
<1>8. Whole(entries)'
  <2>1. \A s \in Used(entries) : entries'[s] = entries[s]
    BY <1>4, <1>5, UsedFinite DEF IInv
  <2> QED
    BY <2>1, <1>0, <1>3, <1>4, <1>5 DEF IInv, Whole
<1>9. Findable'
  <2> SUFFICES ASSUME NEW s \in Used(entries')
               PROVE  /\ entries'[s].key \in Keys
                      /\ entries'[s].hash = HashOf(entries'[s].key)
                      /\ \E i \in 0..(capacity - 1) :
                            /\ Slot(entries'[s].key, i) = s
                            /\ \A j \in 0..(i - 1) :
                                  /\ entries'[Slot(entries'[s].key, j)].hash # 0
                                  /\ entries'[Slot(entries'[s].key, j)].key # entries'[s].key
    BY <1>1 DEF Findable, Slot
  <2>0. \A k \in Keys, j \in Nat : Slot(k, j) \in 0..(capacity - 1)
    BY SlotIn, <1>2
  <2>1. CASE s = Here
    <3>1. \A j \in 0..(call.at - 1) :
              /\ entries'[Slot(call.key, j)].hash # 0
              /\ entries'[Slot(call.key, j)].key # call.key
      <4> SUFFICES ASSUME NEW j \in 0..(call.at - 1)
                   PROVE  /\ entries'[Slot(call.key, j)].hash # 0
                          /\ entries'[Slot(call.key, j)].key # call.key
        OBVIOUS
      <4>1. Slot(call.key, j) \in 0..(capacity - 1)
        BY <1>0, <2>0
      <4>2. Slot(call.key, j) # Here
        BY <1>0, <1>1
      <4> QED
        BY <4>1, <4>2, <1>0, <1>4
    <3> QED
      BY <3>1, <2>1, <1>0, <1>3, <1>4
  <2>2. CASE s # Here
    <3>1. s \in Used(entries) /\ entries'[s] = entries[s]
      BY <2>2, <1>4, <1>5, UsedFinite DEF IInv
    <3> DEFINE k == entries[s].key
    <3>2. k \in Keys /\ entries[s].hash = HashOf(k)
      BY <3>1 DEF IInv, Findable
    <3>3. PICK i \in 0..(capacity - 1) :
              /\ Slot(k, i) = s
              /\ \A j \in 0..(i - 1) : entries[Slot(k, j)].hash # 0
                                      /\ entries[Slot(k, j)].key # k
      BY <3>1 DEF IInv, Findable
    <3> HIDE DEF k
    <3>4. \A j \in 0..(i - 1) : entries'[Slot(k, j)].hash # 0
                              /\ entries'[Slot(k, j)].key # k
      <4> SUFFICES ASSUME NEW j \in 0..(i - 1)
                   PROVE  entries'[Slot(k, j)].hash # 0
                          /\ entries'[Slot(k, j)].key # k
        OBVIOUS
      <4>1. Slot(k, j) \in 0..(capacity - 1) /\ Slot(k, j) # Here
        BY <3>2, <3>3, <2>0, <1>1
      <4> QED
        BY <4>1, <3>3, <1>4
    <3> QED
      BY <3>1, <3>2, <3>3, <3>4 DEF k
  <2> QED
    BY <2>1, <2>2
<1>10. ProbeInv'
  BY <1>1 DEF ProbeInv, IInv, Typed, NoCall
<1>11. MoveInv'
  <2>0. moving' = moving /\ call'.op = "none"
    BY <1>1 DEF NoCall
  <2>1. CASE moving.capacity = 0
    BY <2>0, <2>1, NotMovingSame
  <2>2. CASE moving.capacity # 0
    <3>1. /\ size < moving.at /\ moving.at \in Nat
          /\ moving.at - 1 \in Used(moving.from)
          /\ call.key = moving.from[moving.at - 1].key
      BY <1>0, <2>2 DEF IInv, MoveInv, Typed
    <3>2. Used(moving.from) \subseteq Nat
      BY DEF IInv, Typed, Used
    <3>3. Pending' \subseteq Pending /\ moving.at - 1 \notin Pending'
          /\ Pending' \subseteq Used(moving.from)
      BY <1>0, <2>0, <3>1, <3>2 DEF Pending
    <3>4. \A u \in Pending' : moving.from[u].key # call.key
      BY <3>1, <3>3 DEF IInv, MoveInv, Once
    <3>5. \A s \in Used(entries'), u \in Pending' : entries'[s].key # moving.from[u].key
      <4> SUFFICES ASSUME NEW s \in Used(entries'), NEW u \in Pending'
                   PROVE  entries'[s].key # moving.from[u].key
        OBVIOUS
      <4>1. CASE s = Here
        BY <4>1, <3>4, <1>3, <1>4
      <4>2. CASE s # Here
        <5>1. s \in Used(entries) /\ entries'[s] = entries[s]
          BY <4>2, <1>4, <1>5, UsedFinite DEF IInv
        <5> QED
          BY <5>1, <3>3 DEF IInv, MoveInv
      <4> QED
        BY <4>1, <4>2
    <3>6. /\ Whole(moving.from) /\ Once(moving.from) /\ moving.at <= moving.capacity
          /\ capacity = 2 * moving.capacity /\ moving.key \in Keys
          /\ moving.value \in Values
      BY <2>2 DEF IInv, MoveInv
    <3>7. size' <= moving.at
      BY <1>1, <1>2, <3>1
    <3> QED
      BY <2>0, <3>5, <3>6, <3>7, <1>1 DEF MoveInv, Whole, Once, Used
  <2> QED
    BY <2>1, <2>2
<1> QED
  BY <1>1, <1>6, <1>7, <1>8, <1>9, <1>10, <1>11 DEF IInv

\* A name that is there gets its new value where it is.
LEMMA SetOldInv ==
    ASSUME IInv, SetOld
    PROVE  IInv'
<1>0. /\ call.op = "set"
      /\ call.key \in Keys /\ call.value \in Values
      /\ Here \in 0..(capacity - 1)
      /\ size < capacity
  BY SetFacts
<1>1. /\ entries' = [entries EXCEPT ![Here].value = call.value]
      /\ call' = NoCall
      /\ UNCHANGED <<capacity, size, moving, status>>
  BY DEF SetOld
<1>2. capacity \in Nat \ {0} /\ entries \in [0..(capacity - 1) -> EntryType]
  BY DEF IInv, Typed
<1>3. entries[Here] \in EntryType
  BY <1>0, <1>2
<1>4. /\ entries' \in [0..(capacity - 1) -> EntryType]
      /\ \A s \in 0..(capacity - 1) :
            /\ entries'[s].hash = entries[s].hash
            /\ entries'[s].key = entries[s].key
            /\ entries'[s].value \in {entries[s].value, call.value}
  BY <1>0, <1>1, <1>2, <1>3 DEF EntryType
<1>5. Used(entries') = Used(entries)
  BY <1>2, <1>4 DEF Used
<1>6. Typed'
  BY <1>1, <1>2, <1>4 DEF IInv, Typed, NoCall
<1>7. Used(entries) \subseteq 0..(capacity - 1)
  BY UsedFinite DEF IInv
<1>8. Whole(entries)' /\ size' = Cardinality(Used(entries))'
  BY <1>0, <1>1, <1>4, <1>5, <1>7 DEF IInv, Whole
<1>9. Findable'
  <2>0. \A k \in Keys, j \in Nat : Slot(k, j) \in 0..(capacity - 1)
    BY SlotIn, <1>2
  <2> SUFFICES ASSUME NEW s \in Used(entries)
               PROVE  /\ entries'[s].key \in Keys
                      /\ entries'[s].hash = HashOf(entries'[s].key)
                      /\ \E i \in 0..(capacity - 1) :
                            /\ Slot(entries'[s].key, i) = s
                            /\ \A j \in 0..(i - 1) :
                                  /\ entries'[Slot(entries'[s].key, j)].hash # 0
                                  /\ entries'[Slot(entries'[s].key, j)].key # entries'[s].key
    BY <1>1, <1>5 DEF Findable, Slot
  <2> DEFINE k == entries[s].key
  <2>1. k \in Keys /\ entries[s].hash = HashOf(k)
    BY DEF IInv, Findable
  <2>2. PICK i \in 0..(capacity - 1) :
            /\ Slot(k, i) = s
            /\ \A j \in 0..(i - 1) : entries[Slot(k, j)].hash # 0
                                    /\ entries[Slot(k, j)].key # k
    BY DEF IInv, Findable
  <2>3. entries'[s].key = k /\ entries'[s].hash = entries[s].hash
    BY <1>4, <1>7
  <2> HIDE DEF k
  <2>4. \A j \in 0..(i - 1) : entries'[Slot(k, j)].hash # 0
                            /\ entries'[Slot(k, j)].key # k
    <3> SUFFICES ASSUME NEW j \in 0..(i - 1)
                 PROVE  entries'[Slot(k, j)].hash # 0 /\ entries'[Slot(k, j)].key # k
      OBVIOUS
    <3>1. Slot(k, j) \in 0..(capacity - 1)
      BY <2>0, <2>1
    <3> QED
      BY <3>1, <2>2, <1>4
  <2> QED
    BY <2>1, <2>2, <2>3, <2>4
<1>10. ProbeInv'
  BY <1>1 DEF ProbeInv, IInv, Typed, NoCall
<1>11. MoveInv'
  <2>0. moving' = moving /\ call'.op = "none"
    BY <1>1 DEF NoCall
  <2>1. CASE moving.capacity = 0
    BY <2>0, <2>1, NotMovingSame
  <2>2. CASE moving.capacity # 0
    <3>1. size < moving.at /\ moving.at \in Nat
      BY <1>0, <2>2 DEF IInv, MoveInv, Typed
    <3>2. Used(moving.from) \subseteq Nat
      BY DEF IInv, Typed, Used
    <3>3. Pending' \subseteq Pending
      BY <1>0, <2>0, <3>1, <3>2 DEF Pending
    <3>4. \A s \in Used(entries'), u \in Pending' : entries'[s].key # moving.from[u].key
      BY <3>3, <1>4, <1>5, <1>7 DEF IInv, MoveInv
    <3>5. /\ Whole(moving.from) /\ Once(moving.from) /\ moving.at <= moving.capacity
          /\ capacity = 2 * moving.capacity /\ moving.key \in Keys
          /\ moving.value \in Values
      BY <2>2 DEF IInv, MoveInv
    <3>6. size' <= moving.at
      BY <1>1, <3>1 DEF IInv, Typed
    <3> QED
      BY <2>0, <3>4, <3>5, <3>6, <1>1 DEF MoveInv, Whole, Once, Used
  <2> QED
    BY <2>1, <2>2
<1> QED
  BY <1>1, <1>6, <1>8, <1>9, <1>10, <1>11 DEF IInv

LEMMA StepInv == IInv /\ [Next]_vars => IInv'
<1> SUFFICES ASSUME IInv, [Next]_vars
             PROVE  IInv'
  OBVIOUS
<1>1. CASE UNCHANGED vars
  BY <1>1 DEF vars, IInv, Typed, Whole, Once, Findable, ProbeInv, MoveInv, Pending, Used,
              Slot
<1>2. CASE Next
  <2>1. ASSUME NEW k \in Keys, GetNothing(k) \/ Get(k)
        PROVE  IInv'
    BY <2>1, GetNothingInv, GetInv
  <2>2. ASSUME NEW k \in Keys, NEW v \in Values, Set(k, v) \/ SetGrow(k, v)
        PROVE  IInv'
    BY <2>2, SetInv, SetGrowInv
  <2>3. CASE GoOn
    BY <2>3, ProbeOnInv, GetEndsInv, MoveSkipInv, MoveInvKept, MoveEndsInv, SetNewInv,
       SetOldInv DEF GoOn
  <2> QED
    BY <1>2, <2>1, <2>2, <2>3 DEF Next
<1> QED
  BY <1>1, <1>2

\* What every run of the table keeps, for every hash function: entries are
\* found, a call has room, and what is moved is moved once (map.c).
THEOREM Invariance == Spec => []IInv
<1>1. Init => IInv
  BY InitInv
<1>2. IInv /\ [Next]_vars => IInv'
  BY StepInv
<1> QED
  BY <1>1, <1>2, PTL DEF Spec

\* For every hash function: an entry is never behind an empty slot of its
\* probe, nor behind another entry of its name (map.c:81-92, 107-125).
THEOREM AlwaysFindable == Spec => []Findable
<1>1. IInv => Findable
  BY DEF IInv
<1> QED
  BY <1>1, Invariance, PTL

\* For every hash function and initial capacity: map_set finds a slot, and
\* map_resize does not run inside map_resize (map.c:36, 127).
THEOREM RoomAlways == Spec => []AlwaysRoom
<1>1. IInv => AlwaysRoom
  BY DEF IInv, AlwaysRoom
<1> QED
  BY <1>1, Invariance, PTL

\* size is the number of entries, and the loops stay inside the tables
\* (map.c:19-41, 75-128).
THEOREM TypeCorrect == Spec => []TypeOK
<1>1. IInv => TypeOK
  BY DEF IInv, Typed, ProbeInv, MoveInv, TypeOK
<1> QED
  BY <1>1, Invariance, PTL

-----------------------------------------------------------------------------
(* Refinement: sets of entries.                                              *)

\* No name has two entries.
Single(K) == \A e, f \in K : e.key = f.key => e = f

\* What a set of entries says of a name is the value of its entry.
LEMMA ValueFound ==
    ASSUME NEW K, Single(K), NEW e \in K
    PROVE  ValueIn(K, e.key) = e.value
<1>1. \E f \in K : f.key = e.key
  OBVIOUS
<1>2. (CHOOSE f \in K : f.key = e.key) = e
  BY DEF Single
<1> QED
  BY <1>1, <1>2 DEF ValueIn

\* It says nothing of a name without an entry.
LEMMA ValueMissing ==
    ASSUME NEW K, NEW k, \A e \in K : e.key # k
    PROVE  ValueIn(K, k) = Absent
BY DEF ValueIn

\* To put an entry in the place of that of its name changes what is said of
\* that name and of no other.
LEMMA ValueReplaced ==
    ASSUME NEW K, Single(K), NEW e, NEW L, L = {f \in K : f.key # e.key} \cup {e}
    PROVE  /\ ValueIn(L, e.key) = e.value
           /\ \A k : k # e.key => ValueIn(L, k) = ValueIn(K, k)
<1>1. Single(L)
  BY DEF Single
<1>2. ValueIn(L, e.key) = e.value
  BY <1>1, ValueFound
<1>3. ASSUME NEW k, k # e.key
      PROVE  ValueIn(L, k) = ValueIn(K, k)
  <2>1. CASE \E f \in K : f.key = k
    <3>1. PICK f \in K : f.key = k
      BY <2>1
    <3>2. f \in L
      BY <3>1, <1>3
    <3>3. ValueIn(K, f.key) = f.value
      BY ValueFound
    <3>4. ValueIn(L, f.key) = f.value
      BY <3>2, <1>1, ValueFound
    <3> QED
      BY <3>1, <3>3, <3>4
  <2>2. CASE \A f \in K : f.key # k
    <3>1. \A f \in L : f.key # k
      BY <2>2, <1>3
    <3> QED
      BY <2>2, <3>1, ValueMissing
  <2> QED
    BY <2>1, <2>2
<1> QED
  BY <1>2, <1>3

-----------------------------------------------------------------------------
(* The entries that are kept.                                                *)

LEMMA KeptSingle ==
    ASSUME IInv
    PROVE  Single(Kept)
<1>1. Once(entries)
  BY FindableOnce DEF IInv
<1>2. Pending \subseteq Used(moving.from)
  BY DEF Pending
<1>3. \A s, u \in Used(entries) : entries[s].key = entries[u].key => s = u
  BY <1>1 DEF Once
<1>4. \A s, u \in Pending : moving.from[s].key = moving.from[u].key => s = u
  BY <1>2 DEF IInv, MoveInv, Once
<1>5. \A s \in Used(entries), u \in Pending : entries[s].key # moving.from[u].key
  BY DEF IInv, MoveInv
<1> QED
  BY <1>3, <1>4, <1>5 DEF Kept, Single

\* Outside of a map_resize only the table has entries.
LEMMA KeptAtRest ==
    ASSUME IInv, moving.capacity = 0
    PROVE  Pending = {} /\ Kept = {entries[s] : s \in Used(entries)}
<1>1. Used(moving.from) = {}
  BY DEF Used, IInv, Typed
<1>2. Pending = {}
  BY <1>1 DEF Pending
<1> QED
  BY <1>2 DEF Kept

\* A step that keeps the entries and does not answer changes nothing a caller
\* can see.
LEMMA Stutter ==
    ASSUME Kept' = Kept, answer' = answer
    PROVE  UNCHANGED <<Contents, answer>>
<1>1. \A k \in Keys : ValueIn(Kept', k) = ValueIn(Kept, k)
  OBVIOUS
<1>2. Contents' = [k \in Keys |-> ValueIn(Kept', k)]
  BY DEF Contents, ValueIn
<1> QED
  BY <1>1, <1>2 DEF Contents

LEMMA Looks ==
    ASSUME NEW k \in Keys, Kept' = Kept, answer' = {<<"get", k, Contents[k]>>}
    PROVE  Map!Next
<1>1. Contents' = Contents
  <2>1. Contents' = [j \in Keys |-> ValueIn(Kept', j)]
    BY DEF Contents, ValueIn
  <2> QED
    BY <2>1 DEF Contents
<1>2. Map!Look(k)
  BY <1>1 DEF Map!Look
<1> QED
  BY <1>2 DEF Map!Next

-----------------------------------------------------------------------------
(* Steps that change nothing a caller can see.                               *)

LEMMA CallBegins ==
    ASSUME IInv,
           \/ \E k \in Keys : Get(k)
           \/ \E k \in Keys, v \in Values : Set(k, v)
           \/ \E op \in {"get", "set"} : ProbeOn(op)
    PROVE  Kept' = Kept /\ answer' = answer
<1>1. UNCHANGED <<entries, moving, answer>>
  BY DEF Get, Set, ProbeOn
<1>2. Pending' = Pending
  <2>1. CASE \/ \E k \in Keys : Get(k)
             \/ \E k \in Keys, v \in Values : Set(k, v)
    <3>1. moving.capacity = 0
      BY <2>1, NotMoving DEF Get, Set
    <3>2. Used(moving.from) = {}
      BY <3>1 DEF Used, IInv, Typed
    <3> QED
      BY <3>2, <1>1 DEF Pending, Used
  <2>2. CASE \E op \in {"get", "set"} : ProbeOn(op)
    <3>1. call'.op = call.op
      BY <2>2 DEF ProbeOn, IInv, Typed
    <3> QED
      BY <3>1, <1>1 DEF Pending, Used
  <2> QED
    BY <2>1, <2>2
<1> QED
  BY <1>1, <1>2 DEF Kept, Used

\* map_resize puts every entry into the table that is moved.
LEMMA GrowKeeps ==
    ASSUME IInv, NEW k \in Keys, NEW v \in Values, SetGrow(k, v)
    PROVE  Kept' = Kept /\ answer' = answer
<1>1. /\ moving'.from = entries /\ moving'.at = 0
      /\ entries' = Blank(capacity * 2)
      /\ call.op = "none" /\ call' = call /\ answer' = answer
      /\ moving.capacity = 0
  BY DEF SetGrow, Idle
<1>2. Used(entries') = {}
  BY <1>1, BlankTable DEF IInv, Typed
<1>3. Used(entries) \subseteq 0..(capacity - 1)
  BY UsedFinite DEF IInv
<1>4. Pending' = Used(entries)
  BY <1>1, <1>3 DEF Pending, Used, IInv, Typed
<1>5. Kept' = {entries[s] : s \in Used(entries)}
  BY <1>1, <1>2, <1>4 DEF Kept, Used
<1> QED
  BY <1>1, <1>5, KeptAtRest

LEMMA MoveKeeps ==
    ASSUME IInv, MoveSkip \/ Move
    PROVE  Kept' = Kept /\ answer' = answer
<1>1. /\ UNCHANGED <<entries, answer>>
      /\ moving'.from = moving.from /\ moving'.at = moving.at + 1
      /\ call.op = "none"
  BY DEF MoveSkip, Move, Moving, IInv, Typed
<1>2. Used(moving.from) \subseteq Nat /\ moving.at \in Nat
  BY DEF Used, IInv, Typed
<1>3. Pending' = Pending
  <2>1. CASE MoveSkip
    <3>1. moving.at \notin Used(moving.from) /\ call' = call
      BY <2>1 DEF MoveSkip, Used
    <3> QED
      BY <3>1, <1>1, <1>2 DEF Pending, Used
  <2>2. CASE Move
    <3>1. call'.op = "set"
      BY <2>2, RoomWhileMoving DEF Move, Probe
    <3> QED
      BY <3>1, <1>1, <1>2 DEF Pending, Used
  <2> QED
    BY <2>1, <2>2
<1> QED
  BY <1>1, <1>3 DEF Kept, Used

LEMMA MoveEndsKeeps ==
    ASSUME IInv, MoveEnds
    PROVE  Kept' = Kept /\ answer' = answer
<1>1. /\ UNCHANGED <<entries, answer>>
      /\ moving' = NoMove
      /\ call.op = "none" /\ moving.at = moving.capacity
  BY DEF MoveEnds
<1>2. Pending = {}
  BY <1>1 DEF Pending, Used, IInv, Typed
<1>3. Pending' = {}
  BY <1>1, BlankTable DEF Pending, NoMove
<1> QED
  BY <1>1, <1>2, <1>3 DEF Kept, Used

-----------------------------------------------------------------------------
(* map_get returns.                                                          *)

LEMMA GetNothingLooks ==
    ASSUME IInv, NEW k \in Keys, GetNothing(k)
    PROVE  Map!Next
<1>1. moving.capacity = 0 /\ UNCHANGED <<entries, moving, call>>
  BY NotMoving DEF GetNothing
<1>2. Used(entries) = {}
  BY UsedFinite, FS_EmptySet DEF GetNothing, IInv
<1>3. Kept = {}
  BY <1>1, <1>2, KeptAtRest
<1>4. Contents[k] = Absent
  BY <1>3, ValueMissing DEF Contents
<1>5. Kept' = Kept
  BY <1>1 DEF Kept, Pending, Used
<1>6. answer' = {<<"get", k, Contents[k]>>}
  BY <1>4 DEF GetNothing
<1> QED
  BY <1>5, <1>6, Looks

LEMMA GetLooks ==
    ASSUME IInv, GetHit \/ GetMiss
    PROVE  Map!Next
<1> DEFINE k == call.key
<1>1. /\ moving.capacity = 0 /\ UNCHANGED <<entries, moving>>
      /\ call.op = "get"
  BY NotMoving DEF GetHit, GetMiss, Probing
<1>2. /\ k \in Keys
      /\ call.at \in Nat /\ call.at <= capacity
      /\ \A j \in 0..(call.at - 1) : entries[Slot(k, j)].key # k
  BY <1>1 DEF IInv, ProbeInv, Typed
<1>3. Kept = {entries[s] : s \in Used(entries)} /\ Used(moving.from) = {}
  BY <1>1, KeptAtRest DEF Used, IInv, Typed
<1>4. Kept' = Kept
  BY <1>1, <1>3 DEF Kept, Pending, Used
<1>5. CASE GetHit
  <2>1. Here \in 0..(capacity - 1)
    BY <1>2, SlotIn DEF Here, IInv, Typed
  <2>2. Here \in Used(entries) /\ entries[Here].key = k
    BY <1>5, <2>1 DEF GetHit, Used, IsOf, IInv, Typed
  <2>3. entries[Here] \in Kept
    BY <1>3, <2>2
  <2>4. ValueIn(Kept, k) = entries[Here].value
    BY <2>2, <2>3, ValueFound, KeptSingle
  <2>5. answer' = {<<"get", k, Contents[k]>>}
    BY <1>2, <1>5, <2>4 DEF GetHit, Contents
  <2> QED
    BY <1>2, <1>4, <2>5, Looks
<1>6. CASE GetMiss
  <2>1. call.at = capacity \/ entries[Slot(k, call.at)].hash = 0
    BY <1>6 DEF GetMiss, Ended, Here
  <2>2. \A s \in Used(entries) : entries[s].key # k
    BY <1>2, <2>1, NotThere DEF IInv
  <2>3. ValueIn(Kept, k) = Absent
    BY <1>3, <2>2, ValueMissing
  <2>4. answer' = {<<"get", k, Contents[k]>>}
    BY <1>2, <1>6, <2>3 DEF GetMiss, Contents
  <2> QED
    BY <1>2, <1>4, <2>4, Looks
<1> QED
  BY <1>5, <1>6

-----------------------------------------------------------------------------
(* map_set stores.                                                           *)

\* The map_set of map_resize puts an entry into the new table that was in the
\* old one.
LEMMA MovedIsKept ==
    ASSUME IInv, SetNew, moving.capacity # 0
    PROVE  Kept' = Kept /\ answer' = answer
<1> DEFINE e == [hash |-> HashOf(call.key), key |-> call.key, value |-> call.value]
           u == moving.at - 1
<1>1. /\ Here \in 0..(capacity - 1) /\ entries[Here].hash = 0
      /\ entries' = [entries EXCEPT ![Here] = e]
      /\ call' = NoCall /\ UNCHANGED moving /\ answer' = answer
      /\ call.op = "set" /\ call.key \in Keys
  BY SetFacts DEF SetNew, Stored
<1>2. /\ u \in Used(moving.from)
      /\ call.key = moving.from[u].key /\ call.value = moving.from[u].value
      /\ moving.from[u].hash = HashOf(call.key)
      /\ moving.from[u] \in EntryType
  BY <1>1 DEF IInv, MoveInv, Whole, Typed, Used
<1>3. moving.from[u] = e
  BY <1>2 DEF EntryType
<1>4. Used(moving.from) \subseteq Nat /\ moving.at \in Nat
  BY DEF Used, IInv, Typed
<1>5. Pending = Pending' \cup {u}
  BY <1>1, <1>2, <1>4 DEF Pending, NoCall, Used
<1>6. e.hash # 0
  BY <1>1, HashNotEmpty
<1> HIDE DEF e, u
<1>7. /\ Here \notin Used(entries) /\ Used(entries') = Used(entries) \cup {Here}
      /\ entries'[Here] = e
      /\ \A s \in Used(entries) : entries'[s] = entries[s]
  BY <1>1, <1>6 DEF Used, IInv, Typed
<1>8. Kept' = {entries[s] : s \in Used(entries)} \cup {e}
                  \cup {moving.from[w] : w \in Pending'}
  <2>1. {entries'[s] : s \in Used(entries')} = {entries[s] : s \in Used(entries)} \cup {e}
    BY <1>7
  <2>2. Kept' = {entries'[s] : s \in Used(entries')} \cup {moving.from[w] : w \in Pending'}
    BY <1>1 DEF Kept
  <2> QED
    BY <2>1, <2>2
<1>9. Kept = {entries[s] : s \in Used(entries)}
                  \cup {moving.from[w] : w \in Pending'} \cup {e}
  BY <1>3, <1>5 DEF Kept
<1> QED
  BY <1>1, <1>8, <1>9

\* No name that is moved is in the new table.
LEMMA MovedIsNew ==
    ASSUME IInv, SetOld
    PROVE  moving.capacity = 0
<1> SUFFICES ASSUME moving.capacity # 0
             PROVE  FALSE
  OBVIOUS
<1>1. /\ Here \in 0..(capacity - 1) /\ entries[Here].hash # 0
      /\ entries[Here].key = call.key /\ call.op = "set"
  BY SetFacts DEF SetOld, IsOf
<1>2. Here \in Used(entries)
  BY <1>1 DEF Used, IInv, Typed
<1>3. moving.at - 1 \in Pending /\ call.key = moving.from[moving.at - 1].key
  BY <1>1 DEF IInv, MoveInv, Pending, Typed
<1> QED
  BY <1>1, <1>2, <1>3 DEF IInv, MoveInv

\* The entry of a name takes the place of what the map had of it.
LEMMA Stores ==
    ASSUME IInv, NEW e, e.key \in Keys, e.value \in Values,
           Kept' = {f \in Kept : f.key # e.key} \cup {e},
           answer' = {<<"set", e.key, e.value>>}
    PROVE  Map!Next
<1>1. /\ ValueIn(Kept', e.key) = e.value
      /\ \A k : k # e.key => ValueIn(Kept', k) = ValueIn(Kept, k)
  BY KeptSingle, ValueReplaced
<1>2. Contents' = [k \in Keys |-> ValueIn(Kept', k)]
  BY DEF Contents, ValueIn
<1>3. Contents' = [Contents EXCEPT ![e.key] = e.value]
  BY <1>1, <1>2 DEF Contents
<1>4. Map!Store(e.key, e.value)
  BY <1>3 DEF Map!Store
<1> QED
  BY <1>4 DEF Map!Next

LEMMA SetStores ==
    ASSUME IInv, SetNew \/ SetOld, moving.capacity = 0
    PROVE  Map!Next
<1>1. /\ call.op = "set" /\ call.key \in Keys /\ call.value \in Values
      /\ Here \in 0..(capacity - 1)
      /\ Here = Slot(call.key, call.at)
      /\ call.at \in 0..(capacity - 1)
      /\ \A j \in 0..(call.at - 1) : entries[Slot(call.key, j)].key # call.key
      /\ answer' = {<<"set", call.key, call.value>>}
      /\ UNCHANGED moving
  BY SetFacts DEF SetNew, SetOld, Stored
<1>2. Kept = {entries[s] : s \in Used(entries)} /\ Used(moving.from) = {}
  BY KeptAtRest DEF Used, IInv, Typed
<1>3. Kept' = {entries'[s] : s \in Used(entries')}
  BY <1>1, <1>2 DEF Kept, Pending
<1> DEFINE e == entries'[Here]
<1>4. /\ e.key = call.key /\ e.value = call.value /\ e.hash = HashOf(call.key)
      /\ DOMAIN entries' = DOMAIN entries
      /\ \A s \in DOMAIN entries : s # Here => entries'[s] = entries[s]
  BY <1>1 DEF SetNew, SetOld, IsOf, IInv, Typed, EntryType
<1>5. e.hash # 0
  BY <1>1, <1>4, HashNotEmpty
<1> HIDE DEF e
<1>6. /\ Used(entries') = Used(entries) \cup {Here}
      /\ \A s \in Used(entries) : s # Here => entries'[s] = entries[s]
  BY <1>1, <1>4, <1>5 DEF Used, IInv, Typed, e
<1>7. \A s \in Used(entries) : entries[s].key = call.key <=> s = Here
  <2>1. CASE SetNew
    <3>1. entries[Slot(call.key, call.at)].hash = 0
      BY <2>1, <1>1 DEF SetNew
    <3>2. \A s \in Used(entries) : entries[s].key # call.key
      BY <1>1, <3>1, NotThere DEF IInv
    <3>3. Here \notin Used(entries)
      BY <3>1, <1>1 DEF Used
    <3> QED
      BY <3>2, <3>3
  <2>2. CASE SetOld
    <3>1. Here \in Used(entries) /\ entries[Here].key = call.key
      BY <2>2, <1>1 DEF SetOld, IsOf, Used, IInv, Typed
    <3>2. Once(entries)
      BY FindableOnce DEF IInv
    <3> QED
      BY <3>1, <3>2 DEF Once
  <2> QED
    BY <2>1, <2>2
<1>8. Kept' = {f \in Kept : f.key # e.key} \cup {e}
  <2>1. {f \in Kept : f.key # e.key} = {entries[s] : s \in Used(entries) \ {Here}}
    BY <1>2, <1>4, <1>7
  <2>2. Kept' = {entries'[s] : s \in Used(entries) \ {Here}} \cup {e}
    BY <1>3, <1>6 DEF e
  <2> QED
    BY <2>1, <2>2, <1>6
<1> QED
  BY <1>1, <1>4, <1>8, Stores

-----------------------------------------------------------------------------
LEMMA StepMaps ==
    ASSUME IInv, [Next]_vars
    PROVE  [Map!Next]_<<Contents, answer>>
<1>1. CASE UNCHANGED vars
  <2>1. Kept' = Kept /\ answer' = answer
    BY <1>1 DEF vars, Kept, Pending, Used
  <2> QED
    BY <2>1, Stutter
<1>2. CASE Next
  <2>1. ASSUME NEW k \in Keys, GetNothing(k) \/ Get(k)
        PROVE  [Map!Next]_<<Contents, answer>>
    <3>1. CASE GetNothing(k)
      BY <3>1, GetNothingLooks
    <3>2. CASE Get(k)
      BY <3>2, CallBegins, Stutter
    <3> QED
      BY <2>1, <3>1, <3>2
  <2>2. ASSUME NEW k \in Keys, NEW v \in Values, Set(k, v) \/ SetGrow(k, v)
        PROVE  [Map!Next]_<<Contents, answer>>
    <3>1. Kept' = Kept /\ answer' = answer
      BY <2>2, CallBegins, GrowKeeps
    <3> QED
      BY <3>1, Stutter
  <2>3. CASE \/ \E op \in {"get", "set"} : ProbeOn(op)
             \/ MoveSkip \/ Move \/ MoveEnds
    <3>1. Kept' = Kept /\ answer' = answer
      BY <2>3, CallBegins, MoveKeeps, MoveEndsKeeps
    <3> QED
      BY <3>1, Stutter
  <2>4. CASE GetHit \/ GetMiss
    BY <2>4, GetLooks
  <2>5. CASE SetNew \/ SetOld
    <3>1. CASE moving.capacity = 0
      BY <2>5, <3>1, SetStores
    <3>2. CASE moving.capacity # 0
      <4>1. SetNew
        BY <2>5, <3>2, MovedIsNew
      <4> QED
        BY <4>1, <3>2, MovedIsKept, Stutter
    <3> QED
      BY <3>1, <3>2
  <2> QED
    BY <1>2, <2>1, <2>2, <2>3, <2>4, <2>5 DEF Next, GoOn
<1> QED
  BY <1>1, <1>2

LEMMA InitMaps == Init => Map!Init
<1> SUFFICES ASSUME Init
             PROVE  Map!Init
  OBVIOUS
<1>1. IInv
  BY InitInv
<1>2. Used(entries) = {} /\ moving.capacity = 0
  BY BlankTable, CapacityAssumption DEF Init, NoMove
<1>3. Kept = {}
  BY <1>1, <1>2, KeptAtRest
<1>4. \A k \in Keys : ValueIn(Kept, k) = Absent
  BY <1>3, ValueMissing
<1> QED
  BY <1>4 DEF Init, Map!Init, Contents

\* For every hash function and initial capacity, the table of map.c is a map:
\* map_get returns what map_set stored last for the name, or nothing if it
\* never did, across collisions and growth.
THEOREM TableIsMap == Spec => IsMap
<1>1. IInv /\ [Next]_vars => [Map!Next]_(Map!mapVars)
  BY StepMaps DEF Map!mapVars
<1> QED
  BY <1>1, InitMaps, Invariance, PTL DEF Spec, IsMap, Map!Spec
=============================================================================

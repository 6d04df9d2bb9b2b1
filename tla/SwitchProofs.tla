----------------------------- MODULE SwitchProofs -----------------------------
(***************************************************************************)
(* Proofs about FdTable, for every set of descriptors and workers and      *)
(* every initial size, and about Switch, which composes it with the rest,  *)
(* for every file system and directory name, every number of ports and     *)
(* threads asked for, and any number of starts of the other switch.        *)
(***************************************************************************)
EXTENDS Switch, SetInduction, FiniteSetTheorems, SequenceTheorems, TLAPS

-------------------------------------------------------------------------------
(* The fd table by itself.  Its invariant says how the stages of an insertion  *)
(* and of a lookup bound each other: the capacity a worker may see never       *)
(* exceeds the array whose address it may see, and an array only grows.        *)

\* Where an insertion is, the array it works on and the room it has.
InsertInv ==
  /\ ipc \in {"clear", "pointer", "bound"} <=> new_size # 0
  /\ new_size # 0 => new_size > capacity /\ new_size > ifd
  /\ ipc # "idle" => ifd \in Fd
  /\ ipc \in {"realloc", "clear", "pointer", "bound"} => ifd >= capacity
  /\ ipc = "element" => ifd < capacity
  /\ ipc = "max" => ifd < capacity /\ slot[ifd] = ifd

\* What the table holds: every inserted socket its endpoint, and nothing else.
TableInv ==
  /\ \A f \in inserted : f < capacity /\ slot[f] = f
  /\ \A i \in 0 .. capacity - 1 :
       \/ slot[i] = NoEp
       \/ slot[i] = i /\ i \in inserted
       \/ slot[i] = i /\ i = ifd /\ ipc = "max"
  /\ ipc \in {"pointer", "bound"} =>
       \A i \in capacity .. new_size - 1 : slot[i] = NoEp
  /\ inserted \cap failed = {}
  /\ ipc # "idle" => ifd \notin inserted \cup failed

\* A lookup is of a socket handed over, and has compared it with a capacity.
LookupInv ==
  \A w \in Worker :
    /\ lpc[w] # "idle" => lfd[w] \in inserted \cup failed
    /\ lpc[w] \in {"pointer", "element"} => lfd[w] < capacity
    /\ lpc[w] \in {"idle", "pointer", "element"} => found[w] = NoEp

\* Whoever reads the capacity first and the address later gets an array with that
\* much room, whatever happens to it afterwards.
RoomInv ==
  /\ block # 0 /\ endpoints \in 1 .. block
  /\ room[block] = Size /\ capacity <= room[endpoints]
  /\ ipc = "bound" => endpoints = block
  /\ \A w \in Worker : lpc[w] = "element" =>
       seen[w] \in 1 .. block /\ lfd[w] < room[seen[w]]

TableWorks == FdTypeOK /\ InsertInv /\ TableInv /\ LookupInv /\ LookupFinds
FdInv == TableWorks /\ RoomInv

\* Descriptors are numbers.
LEMMA Numbers ==
  ASSUME FdTypeOK
  PROVE  /\ capacity \in Nat /\ new_size \in Nat /\ ifd \in Nat
         /\ \A w \in Worker : lfd[w] \in Nat
<1>1. Fd \cup {0} \subseteq Nat
  BY FdTableAssumption
<1>2. ifd \in Fd \cup {0} /\ \A w \in Worker : lfd[w] \in Fd \cup {0}
  BY DEF FdTypeOK
<1>3. capacity \in Nat /\ new_size \in Nat
  BY DEF FdTypeOK
<1>. QED
  BY <1>1, <1>2, <1>3

LEMMA InitEstablishes == FdInit => FdInv
<1>1. FdInit => TableWorks
  BY FdTableAssumption
  DEF FdInit, TableWorks, FdTypeOK, InsertInv, TableInv, LookupInv, LookupFinds, Size
<1>2. FdInit => RoomInv
  BY FdTableAssumption DEF FdInit, RoomInv, Size
<1>. QED
  BY <1>1, <1>2 DEF FdInv

\* An insertion is called: nothing but its own stage changes.
LEMMA CallPreserves ==
  ASSUME TableWorks, NEW f \in Fd, InsertCall(f) PROVE TableWorks'
<1>. USE FdTableAssumption
     DEF InsertCall, TableWorks, fdTable, looking
<1>1. FdTypeOK'
  BY DEF FdTypeOK, Size
<1>2. InsertInv' /\ TableInv'
  BY DEF FdTypeOK, InsertInv, TableInv, Size
<1>3. LookupInv' /\ LookupFinds'
  BY DEF LookupInv, LookupFinds
<1>. QED
  BY <1>1, <1>2, <1>3

\* Each step of an insertion.
LEMMA InsertionPreserves ==
  ASSUME TableWorks, Insertion PROVE TableWorks'
<1>. USE FdTableAssumption DEF TableWorks
<1>1. CASE Realloc
  <2>. USE <1>1 DEF Realloc, looking
  <2>1. PICK n \in 1 .. 2 * ifd :
          /\ n > ifd /\ n \in Nat /\ new_size' = n
          /\ slot' = [i \in 0 .. n - 1 |-> IF i < capacity THEN slot[i] ELSE Junk]
          /\ room' = [b \in 1 .. block' |-> IF b = block' THEN n ELSE room[b]]
    <3>1. ifd \in Nat
      BY DEF FdTypeOK
    <3>2. ASSUME NEW n \in 1 .. 2 * ifd, Doubled(n) PROVE n > ifd /\ n \in Nat
      <4>1. n \in ifd + 1 .. 2 * ifd
        BY <3>2 DEF Doubled
      <4>. QED
        BY <3>1, <4>1
    <3>. QED
      BY <3>2
  <2>2. new_size = 0 /\ ifd >= capacity /\ n > capacity
    BY <2>1 DEF FdTypeOK, InsertInv
  <2>3. slot' \in [0 .. n - 1 -> Fd \cup {NoEp, Junk}]
    BY <2>1, <2>2 DEF FdTypeOK, Size
  <2>4. FdTypeOK'
    <3>1. block' \in Nat /\ room' \in [1 .. block' -> Nat]
      BY <2>1 DEF FdTypeOK
    <3>. QED
      BY <2>1, <2>2, <2>3, <3>1 DEF FdTypeOK, Size
  <2>5. InsertInv'
    BY <2>1, <2>2 DEF FdTypeOK, InsertInv
  <2>6. TableInv'
    BY <2>1, <2>2 DEF FdTypeOK, TableInv
  <2>. QED
    BY <2>4, <2>5, <2>6 DEF LookupInv, LookupFinds
<1>2. CASE ReallocFails
  <2>. USE <1>2 DEF ReallocFails, fdTable, looking
  <2>1. FdTypeOK' /\ InsertInv'
    BY DEF FdTypeOK, InsertInv, Size
  <2>2. TableInv'
    BY DEF TableInv, InsertInv
  <2>. QED
    BY <2>1, <2>2 DEF LookupInv, LookupFinds
<1>3. CASE Clear
  <2>. USE <1>3 DEF Clear, looking
  <2>1. new_size \in Nat /\ new_size # 0 /\ new_size > capacity /\ capacity \in Nat
    BY DEF InsertInv, FdTypeOK
  <2>2. slot' \in [0 .. new_size - 1 -> Fd \cup {NoEp, Junk}]
    BY <2>1 DEF FdTypeOK, Size
  <2>3. FdTypeOK' /\ InsertInv'
    BY <2>1, <2>2 DEF FdTypeOK, InsertInv, Size
  <2>4. TableInv'
    BY <2>1 DEF FdTypeOK, TableInv
  <2>. QED
    BY <2>3, <2>4 DEF LookupInv, LookupFinds
<1>4. CASE StorePointer
  <2>. USE <1>4 DEF StorePointer, looking
  <2>1. FdTypeOK' /\ InsertInv'
    BY DEF FdTypeOK, InsertInv, Size
  <2>2. TableInv'
    BY DEF TableInv
  <2>. QED
    BY <2>1, <2>2 DEF LookupInv, LookupFinds
<1>5. CASE StoreBound
  <2>. USE <1>5 DEF StoreBound, looking
  <2>1. new_size \in Nat /\ new_size # 0 /\ new_size > capacity /\ capacity \in Nat
    BY DEF InsertInv, FdTypeOK
  <2>2. FdTypeOK' /\ InsertInv'
    <3>1. FdTypeOK'
      BY <2>1 DEF FdTypeOK, Size
    <3>2. InsertInv'
      BY <2>1 DEF InsertInv
    <3>. QED
      BY <3>1, <3>2
  <2>3. \A i \in 0 .. new_size - 1 : i \in 0 .. capacity - 1 \/ i \in capacity .. new_size - 1
    BY <2>1
  <2>4. TableInv'
    BY <2>1, <2>3 DEF TableInv, FdTypeOK
  <2>5. LookupInv'
    <3>1. \A w \in Worker : lfd[w] \in Nat
      BY Numbers
    <3>. QED
      BY <2>1, <3>1 DEF LookupInv
  <2>. QED
    BY <2>2, <2>4, <2>5 DEF LookupFinds
<1>6. CASE StoreElement
  <2>. USE <1>6 DEF StoreElement, looking
  <2>1. ifd \in Fd /\ ifd \in Nat /\ ifd < capacity /\ capacity \in Nat /\ new_size = 0
    BY DEF InsertInv, FdTypeOK
  <2>2. /\ slot \in [0 .. capacity - 1 -> Fd \cup {NoEp, Junk}]
        /\ slot' = [slot EXCEPT ![ifd] = ifd]
    BY <2>1 DEF FdTypeOK, Size
  <2>3. FdTypeOK' /\ InsertInv'
    BY <2>1, <2>2 DEF FdTypeOK, InsertInv, Size
  <2>4. TableInv'
    BY <2>1, <2>2 DEF TableInv, FdTypeOK
  <2>. QED
    BY <2>3, <2>4 DEF LookupInv, LookupFinds
<1>7. CASE RaiseMax
  <2>. USE <1>7 DEF RaiseMax, looking
  <2>1. ifd \in Fd /\ ifd < capacity /\ slot[ifd] = ifd /\ new_size = 0
        /\ ifd \notin inserted \cup failed
    BY DEF InsertInv, TableInv
  <2>2. FdTypeOK' /\ InsertInv'
    BY <2>1 DEF FdTypeOK, InsertInv, Size
  <2>3. TableInv'
    BY <2>1 DEF TableInv
  <2>4. LookupInv'
    BY DEF LookupInv
  <2>5. LookupFinds'
    BY <2>1 DEF LookupFinds, LookupInv
  <2>. QED
    BY <2>2, <2>3, <2>4, <2>5
<1>. QED
  BY <1>1, <1>2, <1>3, <1>4, <1>5, <1>6, <1>7 DEF Insertion

\* Each step of a lookup.
LEMMA LookupPreserves ==
  ASSUME TableWorks, NEW w \in Worker,
         \/ \E f \in Fd : LookupCall(w, f)
         \/ LoadPointer(w) \/ LoadElement(w) \/ Used(w)
  PROVE  TableWorks'
<1>. USE FdTableAssumption DEF TableWorks, fdTable, inserting
<1>1. CASE \E f \in Fd : LookupCall(w, f)
  <2>1. PICK f \in Fd : LookupCall(w, f)
    BY <1>1
  <2>. USE <2>1 DEF LookupCall
  <2>2. FdTypeOK'
    BY DEF FdTypeOK, Size
  <2>3. InsertInv' /\ TableInv'
    BY DEF InsertInv, TableInv
  <2>4. LookupInv'
    BY DEF LookupInv, FdTypeOK
  <2>5. f \in inserted => f < capacity
    BY DEF TableInv
  <2>6. LookupFinds'
    <3>1. capacity \in Nat /\ f \in Nat
      BY DEF FdTypeOK
    <3>2. lpc'[w] = "done" => f \notin inserted /\ found[w] = NoEp
      BY <2>5, <3>1 DEF LookupInv, FdTypeOK
    <3>. QED
      BY <3>2 DEF LookupFinds, FdTypeOK
  <2>. QED
    BY <2>2, <2>3, <2>4, <2>6
<1>2. CASE LoadPointer(w)
  <2>. USE <1>2 DEF LoadPointer
  <2>1. FdTypeOK'
    BY DEF FdTypeOK, Size
  <2>. QED
    BY <2>1 DEF InsertInv, TableInv, LookupInv, LookupFinds, FdTypeOK
<1>3. CASE LoadElement(w)
  <2>. USE <1>3 DEF LoadElement
  <2>1. FdTypeOK'
    BY DEF FdTypeOK, Size
  <2>2. InsertInv' /\ TableInv' /\ LookupInv'
    BY DEF InsertInv, TableInv, LookupInv, FdTypeOK
  <2>3. lfd[w] \in inserted \cup failed /\ lfd[w] \in 0 .. capacity - 1
    <3>1. lfd[w] \in inserted \cup failed /\ lfd[w] < capacity
      BY DEF LookupInv
    <3>2. lfd[w] \in Nat /\ capacity \in Nat
      BY <3>1 DEF FdTypeOK
    <3>. QED
      BY <3>1, <3>2
  <2>4. slot[lfd[w]] = IF lfd[w] \in inserted THEN lfd[w] ELSE NoEp
    BY <2>3 DEF TableInv
  <2>5. LookupFinds'
    BY <2>3, <2>4 DEF LookupFinds, FdTypeOK
  <2>. QED
    BY <2>1, <2>2, <2>5
<1>4. CASE Used(w)
  <2>. USE <1>4 DEF Used
  <2>1. FdTypeOK'
    BY DEF FdTypeOK, Size
  <2>. QED
    BY <2>1 DEF InsertInv, TableInv, LookupInv, LookupFinds, FdTypeOK
<1>. QED
  BY <1>1, <1>2, <1>3, <1>4

\* Each step, as far as the room of arrays goes.
LEMMA RoomPreserves ==
  ASSUME FdInv, [FdNext]_fdVars PROVE RoomInv'
<1>. USE FdTableAssumption DEF FdInv, TableWorks
<1>0. /\ capacity \in Nat /\ new_size \in Nat /\ block \in Nat /\ endpoints \in Nat
      /\ room \in [1 .. block -> Nat]
      /\ \A w \in Worker : lfd[w] \in Nat
  BY Numbers DEF FdTypeOK
<1>1. CASE Realloc
  <2>1. PICK n \in 1 .. 2 * ifd :
          /\ n \in ifd + 1 .. 2 * ifd /\ new_size' = n
          /\ room' = [b \in 1 .. block' |-> IF b = block' THEN n ELSE room[b]]
    BY <1>1 DEF Realloc, Doubled
  <2>2. /\ n \in Nat /\ n > capacity /\ n # 0 /\ new_size = 0 /\ Size = capacity
    <3>1. ifd \in Nat /\ ifd >= capacity /\ new_size = 0
      BY <1>1, Numbers DEF Realloc, InsertInv
    <3>. QED
      BY <1>0, <2>1, <3>1 DEF Size
  <2>3. Size' = n
    BY <2>1, <2>2 DEF Size
  <2>4. block' \in {block, block + 1} /\ block' # 0 /\ ipc' = "clear"
        /\ UNCHANGED <<endpoints, capacity, lpc, lfd, seen>>
    BY <1>0, <1>1 DEF Realloc, looking, RoomInv
  <2>5. room'[block'] = n /\ \A b \in 1 .. block : b \in 1 .. block' /\ room'[b] \in Nat
                                                      /\ room'[b] >= room[b]
    BY <1>0, <2>1, <2>2, <2>4 DEF RoomInv
  <2>6. endpoints' \in 1 .. block' /\ room'[block'] = Size' /\ capacity' <= room'[endpoints']
    <3>1. endpoints \in 1 .. block /\ room[endpoints] \in Nat /\ capacity <= room[endpoints]
      BY <1>0 DEF RoomInv
    <3>. QED
      BY <1>0, <2>3, <2>4, <2>5, <3>1
  <2>7. ASSUME NEW w \in Worker, lpc[w] = "element"
        PROVE  seen[w] \in 1 .. block' /\ lfd[w] < room'[seen[w]]
    <3>1. seen[w] \in 1 .. block /\ lfd[w] < room[seen[w]] /\ room[seen[w]] \in Nat
      BY <1>0, <2>7 DEF RoomInv
    <3>. QED
      BY <1>0, <2>5, <3>1
  <2>. QED
    BY <2>4, <2>6, <2>7 DEF RoomInv
<1>2. CASE Clear \/ ReallocFails \/ StoreElement \/ RaiseMax \/ \E f \in Fd : InsertCall(f)
  <2>1. UNCHANGED <<block, room, endpoints, capacity, new_size, lpc, lfd, seen>> /\ ipc' # "bound"
    BY <1>2 DEF Clear, ReallocFails, StoreElement, RaiseMax, InsertCall, fdTable, looking
  <2>. QED
    BY <2>1 DEF RoomInv, Size
<1>3. CASE StorePointer
  <2>1. /\ UNCHANGED <<block, room, capacity, new_size, lpc, lfd, seen>> /\ endpoints' = block
        /\ new_size > capacity /\ Size = new_size
    BY <1>0, <1>3 DEF StorePointer, looking, InsertInv, Size
  <2>. QED
    BY <1>0, <2>1 DEF RoomInv, Size
<1>4. CASE StoreBound
  <2>1. /\ UNCHANGED <<block, room, endpoints, lpc, lfd, seen>> /\ capacity' = new_size
        /\ new_size' = 0 /\ ipc' = "element" /\ endpoints = block /\ Size = new_size
    BY <1>4 DEF StoreBound, looking, InsertInv, RoomInv, Size
  <2>. QED
    BY <1>0, <2>1 DEF RoomInv, Size
<1>5. ASSUME NEW w \in Worker, NEW f \in Fd, LookupCall(w, f) PROVE RoomInv'
  BY <1>5 DEF LookupCall, fdTable, inserting, RoomInv, Size, FdTypeOK
<1>6. ASSUME NEW w \in Worker, LoadPointer(w) PROVE RoomInv'
  <2>1. /\ UNCHANGED <<block, room, endpoints, capacity, new_size, ipc, lfd>>
        /\ seen' = [seen EXCEPT ![w] = endpoints]
        /\ lpc' = [lpc EXCEPT ![w] = "element"]
    BY <1>6 DEF LoadPointer, fdTable, inserting
  <2>2. lfd[w] < capacity /\ capacity <= room[endpoints] /\ endpoints \in 1 .. block
    BY <1>6 DEF LoadPointer, LookupInv, RoomInv
  <2>3. lfd[w] < room[endpoints]
    BY <1>0, <2>2
  <2>. QED
    BY <2>1, <2>2, <2>3 DEF RoomInv, Size, FdTypeOK
<1>7. ASSUME NEW w \in Worker, LoadElement(w) \/ Used(w) PROVE RoomInv'
  <2>1. /\ UNCHANGED <<block, room, endpoints, capacity, new_size, ipc>> /\ lpc'[w] # "element"
        /\ \A v \in Worker : v # w => lpc'[v] = lpc[v] /\ lfd'[v] = lfd[v] /\ seen'[v] = seen[v]
    BY <1>7 DEF LoadElement, Used, fdTable, inserting, FdTypeOK
  <2>. QED
    BY <2>1 DEF RoomInv, Size
<1>8. CASE UNCHANGED fdVars
  BY <1>8 DEF fdVars, fdTable, inserting, looking, RoomInv, Size
<1>. QED
  BY <1>1, <1>2, <1>3, <1>4, <1>5, <1>6, <1>7, <1>8 DEF FdNext, Insertion

\* Any step.
LEMMA StepPreserves == FdInv /\ [FdNext]_fdVars => FdInv'
<1>1. ASSUME TableWorks, UNCHANGED fdVars PROVE TableWorks'
  BY <1>1 DEF fdVars, fdTable, inserting, looking, TableWorks, FdTypeOK, Size, InsertInv,
              TableInv, LookupInv, LookupFinds
<1>2. ASSUME TableWorks, FdNext PROVE TableWorks'
  BY <1>2, CallPreserves, InsertionPreserves, LookupPreserves DEF FdNext
<1>. QED
  BY <1>1, <1>2, RoomPreserves DEF FdInv

\* The invariant holds however the insertion and the lookups interleave.
THEOREM FdInvariance == FdSpec => []FdInv
BY InitEstablishes, StepPreserves, PTL DEF FdSpec

\* The invariant keeps every access within the array.
LEMMA InvInBounds == FdInv => AccessInBounds
<1>. SUFFICES ASSUME FdInv PROVE AccessInBounds
  OBVIOUS
<1>1. /\ capacity \in Nat /\ ifd \in Nat /\ new_size \in Nat
      /\ DOMAIN slot = 0 .. Size - 1 /\ DOMAIN room = 1 .. block
  <2>1. DOMAIN slot = 0 .. Size - 1 /\ DOMAIN room = 1 .. block
    BY DEF FdInv, TableWorks, FdTypeOK
  <2>. QED
    BY <2>1, Numbers DEF FdInv, TableWorks
<1>2. capacity <= Size
  BY <1>1 DEF FdInv, TableWorks, InsertInv, Size
<1>3. Size \in Nat
  BY <1>1 DEF Size
<1>4. ipc = "element" => ifd \in DOMAIN slot
  BY <1>1, <1>2, <1>3 DEF FdInv, TableWorks, InsertInv
<1>. QED
  BY <1>1, <1>4 DEF FdInv, RoomInv, AccessInBounds

\* The variables have the values their comments announce (fd_table_insert,
\* fd_table_lookup).
THEOREM FdTypeCorrect == FdSpec => []FdTypeOK
  BY FdInvariance, PTL DEF FdInv, TableWorks

\* No interleaving of fd_table_insert and fd_table_lookup, and no growth of the
\* table, takes an access beyond the array.
THEOREM InBounds == FdSpec => []AccessInBounds
BY InvInBounds, FdInvariance, PTL

\* A lookup finds what was inserted, however often the table has grown since
\* (fd_table_resize), unless the array was moved under it.
THEOREM Finds == FdSpec => []LookupFinds
  BY FdInvariance, PTL DEF FdInv, TableWorks

-------------------------------------------------------------------------------
\* A table that never grows is never moved.
SmallInv ==
  /\ capacity = InitialSize /\ block = 1 /\ endpoints = 1
  /\ ipc \in {"idle", "element", "max"}
  /\ \A w \in Worker : /\ lpc[w] # "astray"
                       /\ lpc[w] = "element" => seen[w] = 1

\* As long as descriptors stay below FD_TABLE_INITIAL_SIZE no lookup reads an
\* array that fd_table_resize has given up: the unlocked table is safe.
THEOREM NeverAstray ==
  ASSUME \A f \in Fd : f < InitialSize
  PROVE  FdSpec => [](\A w \in Worker : lpc[w] # "astray")
<1>1. FdInit => SmallInv
  BY DEF FdInit, SmallInv
<1>2. FdTypeOK /\ SmallInv /\ [FdNext]_fdVars => SmallInv'
  <2>. SUFFICES ASSUME FdTypeOK, SmallInv, [FdNext]_fdVars PROVE SmallInv'
    OBVIOUS
  <2>. USE DEF SmallInv, fdTable, inserting, looking
  <2>1. ASSUME NEW f \in Fd, InsertCall(f) PROVE SmallInv'
    <3>1. f < InitialSize /\ f \in Nat /\ InitialSize \in Nat
      BY FdTableAssumption
    <3>. QED
      BY <2>1, <3>1 DEF InsertCall
  <2>2. CASE Insertion
    BY <2>2 DEF Insertion, Realloc, ReallocFails, Clear, StorePointer, StoreBound,
                StoreElement, RaiseMax
  <2>3. ASSUME NEW w \in Worker, NEW f \in Fd, LookupCall(w, f) PROVE SmallInv'
    BY <2>3 DEF LookupCall, FdTypeOK
  <2>4. ASSUME NEW w \in Worker, LoadPointer(w) \/ LoadElement(w) \/ Used(w)
        PROVE SmallInv'
    BY <2>4 DEF LoadPointer, LoadElement, Used, Moved, FdTypeOK
  <2>5. CASE UNCHANGED fdVars
    BY <2>5 DEF fdVars
  <2>. QED
    BY <2>1, <2>2, <2>3, <2>4, <2>5 DEF FdNext
<1>3. SmallInv => \A w \in Worker : lpc[w] # "astray"
  BY DEF SmallInv
<1>. QED
  BY <1>1, <1>2, <1>3, FdTypeCorrect, PTL DEF FdSpec

-------------------------------------------------------------------------------
(* The fd table inside the switch *)

\* A step of the switch is a step of the fd table or leaves it alone.
LEMMA StepFdTable ==
  ASSUME [Next]_vars, \A w \in Worker : queue[w] \in Seq(Fd)
  PROVE  [FdNext]_fdVars
<1>1. CASE UNCHANGED fdVars
  BY <1>1
<1>2. ASSUME NEW f \in Fd, Request(f) PROVE FdNext
  BY <1>2 DEF Request, FdNext
<1>3. CASE InsertPort
  BY <1>3 DEF InsertPort, FdNext
<1>4. ASSUME NEW w \in Worker, Take(w) PROVE FdNext
  <2>1. Head(queue[w]) \in Fd /\ LookupCall(w, Head(queue[w]))
    BY <1>4 DEF Take
  <2>. QED
    BY <2>1 DEF FdNext
<1>5. ASSUME NEW w \in Worker, Look(w) \/ Forward(w) PROVE FdNext
  BY <1>5 DEF Look, Forward, FdNext
<1>6. CASE Boot \/ OtherSwitch \/ UNCHANGED vars
  BY <1>1, <1>6
  DEF Boot, InitPorts, NoPorts, MakeDir, MakeDirFails, ResolveDir, OwnDir, OwnDirFails,
      ClaimSocket, ClaimFails, WatchSocket, StartThread, NoThread, NoThreads, StartWorker,
      Overrun, PoolReady, OtherSwitch, OtherStarts, OtherDies, Claim, Exit, vars
<1>7. CASE NoPortLeft \/ Tell \/ Watch \/ DispatchNowhere
  BY <1>1, <1>7 DEF NoPortLeft, Tell, Watch, DispatchNowhere, Exit
<1>8. ASSUME NEW w \in Worker, Dispatch(w) \/ NotFound(w) PROVE UNCHANGED fdVars
  BY <1>8 DEF Dispatch, NotFound, Exit
<1>9. ASSUME NEW f \in Fd, Receive(f) PROVE UNCHANGED fdVars
  BY <1>9 DEF Receive
<1>. QED
  BY <1>1, <1>2, <1>3, <1>4, <1>5, <1>6, <1>7, <1>8, <1>9 DEF Next, Serve

-------------------------------------------------------------------------------
(* What names mean.  A name is read component by component, so the meaning of   *)
(* a name in front of another is where the other one starts; and where links    *)
(* lead, as far as links nest at most as deep as there are links, is where they *)
(* lead at any depth: a link that leads somewhere only at a greater depth leads *)
(* through more links than there are.                                           *)

Path == Seq(Component \cup {"/"})

\* What may be said of where each link leads.
Readings == [Links -> Path]

\* The file system is made of files that names can name.
TreeInv ==
  /\ IsFiniteSet(DOMAIN tree) /\ DOMAIN tree \subseteq Seq(Component)
  /\ \A p \in DOMAIN tree : tree[p].comps \in Seq(Component)
  /\ name.comps \in Seq(Component)

\* No file is nowhere.
LEMMA Somewhere ==
  /\ Nowhere \in Path /\ Nowhere \notin Seq(Component)
  /\ << >> \in Seq(Component) /\ Seq(Component) \subseteq Path
<1>1. Nowhere \in Path /\ Len(Nowhere) = 1 /\ Nowhere[1] = "/"
  BY DEF Nowhere, Path
<1>2. ASSUME Nowhere \in Seq(Component) PROVE FALSE
  <2>1. Nowhere[1] \in Component
    <3>1. 1 \in 1 .. Len(Nowhere)
      BY <1>1
    <3>. QED
      BY <1>2, <3>1, ElementOfSeq
  <2>. QED
    BY <1>1, <2>1 DEF Component
<1>3. Seq(Component) \subseteq Path
  <2>1. ASSUME NEW p \in Seq(Component) PROVE p \in Seq(Component \cup {"/"})
    BY SeqMonotonic
  <2>. QED
    BY <2>1 DEF Path
<1>. QED
  BY <1>1, <1>2, <1>3

\* The directory of a file has a name of the same components.
LEMMA UpType ==
  ASSUME NEW S, NEW p \in Seq(S)
  PROVE  Up(p) \in Seq(S)
<1>1. Len(p) \in Nat /\ \A i \in 1 .. Len(p) - 1 : p[i] \in S
  BY ElementOfSeq
<1>2. SubSeq(p, 1, Len(p) - 1) \in Seq(S)
  BY <1>1, SubSeqProperties
<1>. QED
  BY <1>2 DEF Up

\* A step through a name leads to a name.
LEMMA ThereType ==
  ASSUME TreeInv, NEW v \in Readings, NEW d \in Path, NEW h \in Component
  PROVE  There(v, d, h) \in Path
<1>1. Append(d, h) \in Path /\ Up(d) \in Path
  BY UpType, AppendProperties DEF Path
<1>2. Leads(v, Append(d, h)) \in Path
  BY <1>1, Somewhere DEF Leads, Readings
<1>. QED
  BY <1>1, <1>2, Somewhere DEF There

\* at is the files that name c leads through from directory d.
Traces(at, v, d, c) ==
  /\ at \in [0 .. Len(c) -> Path] /\ at[0] = d
  /\ \A i \in 1 .. Len(c) : at[i] = There(v, at[i - 1], c[i])
  /\ Reach(v, d, c) = at[Len(c)]

\* Every name leads through some, the last of which is what it reaches.
LEMMA Walks ==
  ASSUME TreeInv, NEW v \in Readings, NEW d \in Path, NEW c \in Seq(Component)
  PROVE  \E at : Traces(at, v, d, c)
<1>. DEFINE n == Len(c)
            G == [i \in 1 .. n |-> [x \in Path |-> There(v, x, c[i])]]
            Rec(f) == [i \in 0 .. n |-> IF i = 0 THEN d ELSE There(v, f[i - 1], c[i])]
            At == CHOOSE at : at = Rec(at)
<1>1. n \in Nat /\ \A i \in 1 .. n : c[i] \in Component
  BY ElementOfSeq
<1>2. G \in [1 .. n -> [Path -> Path]]
  <2>1. ASSUME NEW i \in 1 .. n, NEW x \in Path PROVE There(v, x, c[i]) \in Path
    BY <1>1, ThereType
  <2>. QED
    BY <2>1
<1>0. PICK f : Iterates(f, n, Path, d, G)
  <2>. HIDE DEF G, n
  <2>. QED
    BY <1>1, <1>2, Iteration
<1>3. f \in [0 .. n -> Path] /\ f[0] = d /\ \A i \in 1 .. n : f[i] = G[i][f[i - 1]]
  BY <1>0 DEF Iterates
<1>4. \A i \in 1 .. n : i - 1 \in 0 .. n /\ f[i - 1] \in Path /\ f[i] = There(v, f[i - 1], c[i])
  BY <1>1, <1>3
<1>5. f = Rec(f)
  <2>1. \A i \in 0 .. n : f[i] = IF i = 0 THEN d ELSE There(v, f[i - 1], c[i])
    BY <1>1, <1>3, <1>4
  <2>. HIDE DEF n, G
  <2>. QED
    BY <1>3, <2>1
<1>6. At = Rec(At)
  <2>. HIDE DEF Rec, n, G
  <2>. QED
    BY <1>5
<1>7. At[0] = d /\ \A i \in 1 .. n : At[i] = There(v, At[i - 1], c[i])
  <2>. HIDE DEF At
  <2>1. \A i \in 0 .. n : At[i] = IF i = 0 THEN d ELSE There(v, At[i - 1], c[i])
    BY <1>6
  <2>2. 0 \in 0 .. n /\ \A i \in 1 .. n : i \in 0 .. n /\ i # 0
    BY <1>1
  <2>. QED
    BY <2>1, <2>2
<1>. DEFINE S == {i \in 0 .. n : At[i] = f[i]}
<1>8. n \in S
  <2>1. 0 \in S
    BY <1>1, <1>3, <1>7
  <2>2. ASSUME NEW i \in 0 .. n, i \in S, i < n PROVE i + 1 \in S
    <3>1. i + 1 \in 1 .. n /\ i + 1 \in 0 .. n /\ (i + 1) - 1 = i /\ At[i] = f[i]
      BY <1>1, <2>2
    <3>. HIDE DEF At, G, n
    <3>2. At[i + 1] = There(v, At[i], c[i + 1]) /\ f[i + 1] = There(v, f[i], c[i + 1])
      BY <1>4, <1>7, <3>1
    <3>. QED
      BY <3>1, <3>2
  <2>. HIDE DEF S, At, n, G
  <2>3. 0 .. n \subseteq S
    BY <1>1, <2>1, <2>2, UpTo
  <2>. QED
    BY <1>1, <2>3
<1>9. Reach(v, d, c) = At[n]
  BY DEF Reach
<1>. QED
  <2>. HIDE DEF At, G, n
  <2>1. Reach(v, d, c) = f[n]
    BY <1>8, <1>9
  <2>2. Traces(f, v, d, c)
    BY <1>3, <1>4, <2>1 DEF Traces, n
  <2>. QED
    BY <2>2

\* A name without components, and one of a single component.
LEMMA ReachShort ==
  ASSUME TreeInv, NEW v \in Readings, NEW d \in Path
  PROVE  /\ Reach(v, d, << >>) = d
         /\ \A h \in Component : Reach(v, d, <<h>>) = There(v, d, h)
<1>1. Reach(v, d, << >>) = d
  <2>. DEFINE c == << >>
  <2>1. c \in Seq(Component) /\ Len(c) = 0
    OBVIOUS
  <2>. HIDE DEF c
  <2>2. PICK at : Traces(at, v, d, c)
    BY <2>1, Walks
  <2>. QED
    BY <2>1, <2>2 DEF Traces, c
<1>2. ASSUME NEW h \in Component PROVE Reach(v, d, <<h>>) = There(v, d, h)
  <2>1. <<h>> \in Seq(Component) /\ Len(<<h>>) = 1 /\ <<h>>[1] = h
    OBVIOUS
  <2>. DEFINE c == <<h>>
  <2>2. c \in Seq(Component) /\ Len(c) = 1 /\ c[1] = h
    BY <2>1
  <2>. HIDE DEF c
  <2>3. PICK at : Traces(at, v, d, c)
    BY <2>2, Walks
  <2>4. at[0] = d /\ Reach(v, d, c) = at[1] /\ at[1] = There(v, at[1 - 1], h)
    BY <2>2, <2>3 DEF Traces
  <2>. QED
    BY <2>4 DEF c
<1>. QED
  BY <1>1, <1>2

\* A name in front of another leads to where the other one starts.
LEMMA ReachJoins ==
  ASSUME TreeInv, NEW v \in Readings, NEW d \in Path,
         NEW a \in Seq(Component), NEW b \in Seq(Component)
  PROVE  /\ Reach(v, d, a) \in Path
         /\ Reach(v, d, a \o b) = Reach(v, Reach(v, d, a), b)
<1>. DEFINE c == a \o b
            m == Len(a)
            n == Len(b)
<1>1. /\ m \in Nat /\ n \in Nat /\ c \in Seq(Component) /\ Len(c) = m + n
      /\ \A i \in 1 .. m : c[i] = a[i]
      /\ \A i \in 1 .. n : c[m + i] = b[i]
  <2>1. /\ m \in Nat /\ n \in Nat /\ c \in Seq(Component) /\ Len(c) = m + n
        /\ \A i \in 1 .. m + n : c[i] = IF i <= m THEN a[i] ELSE b[i - m]
    BY ConcatProperties
  <2>. HIDE DEF c, m, n
  <2>2. ASSUME NEW i \in 1 .. n PROVE c[m + i] = b[i]
    <3>1. m + i \in 1 .. m + n /\ ~ (m + i <= m) /\ (m + i) - m = i
      BY <2>1
    <3>. QED
      BY <2>1, <3>1
  <2>3. \A i \in 1 .. m : c[i] = a[i]
    BY <2>1
  <2>. QED
    BY <2>1, <2>2, <2>3
<1>2a. PICK f : Traces(f, v, d, a)
  BY Walks
<1>2. /\ f \in [0 .. m -> Path] /\ f[0] = d
      /\ \A i \in 1 .. m : f[i] = There(v, f[i - 1], a[i])
      /\ Reach(v, d, a) = f[m]
  BY <1>2a DEF Traces
<1>3. f[m] \in Path
  BY <1>1, <1>2
<1>4a. PICK g : Traces(g, v, f[m], b)
  BY <1>3, Walks
<1>4. /\ g \in [0 .. n -> Path] /\ g[0] = f[m]
      /\ \A i \in 1 .. n : g[i] = There(v, g[i - 1], b[i])
      /\ Reach(v, f[m], b) = g[n]
  BY <1>4a DEF Traces
<1>5a. PICK k : Traces(k, v, d, c)
  BY <1>1, Walks
<1>5. /\ k \in [0 .. m + n -> Path] /\ k[0] = d
      /\ \A i \in 1 .. m + n : k[i] = There(v, k[i - 1], c[i])
      /\ Reach(v, d, c) = k[m + n]
  <2>. HIDE DEF c, m, n
  <2>. QED
    BY <1>1, <1>5a DEF Traces
<1>. HIDE DEF c, m, n
<1>. DEFINE S == {i \in 0 .. m : k[i] = f[i]}
            T == {i \in 0 .. n : k[m + i] = g[i]}
<1>6. k[m] = f[m]
  <2>1. 0 \in S
    BY <1>1, <1>2, <1>5
  <2>2. ASSUME NEW i \in 0 .. m, i \in S, i < m PROVE i + 1 \in S
    <3>1. i + 1 \in 1 .. m /\ i + 1 \in 0 .. m /\ i + 1 \in 1 .. m + n /\ (i + 1) - 1 = i
      BY <1>1, <2>2
    <3>2. f[i + 1] = There(v, f[i], a[i + 1]) /\ k[i + 1] = There(v, k[i], c[i + 1])
      BY <1>2, <1>5, <3>1
    <3>. QED
      BY <1>1, <2>2, <3>1, <3>2
  <2>. HIDE DEF S
  <2>3. 0 .. m \subseteq S
    BY <1>1, <2>1, <2>2, UpTo
  <2>4. m \in S
    BY <1>1, <2>3
  <2>. QED
    BY <2>4 DEF S
<1>7. k[m + n] = g[n]
  <2>1. 0 \in T
    BY <1>1, <1>4, <1>6
  <2>2. ASSUME NEW i \in 0 .. n, i \in T, i < n PROVE i + 1 \in T
    <3>1. /\ i + 1 \in 1 .. n /\ i + 1 \in 0 .. n /\ m + (i + 1) \in 1 .. m + n
          /\ (i + 1) - 1 = i /\ (m + (i + 1)) - 1 = m + i
      BY <1>1, <2>2
    <3>2. /\ g[i + 1] = There(v, g[i], b[i + 1])
          /\ k[m + (i + 1)] = There(v, k[m + i], c[m + (i + 1)])
      BY <1>4, <1>5, <3>1
    <3>. QED
      BY <1>1, <2>2, <3>1, <3>2
  <2>. HIDE DEF T
  <2>3. 0 .. n \subseteq T
    BY <1>1, <2>1, <2>2, UpTo
  <2>4. n \in T
    BY <1>1, <2>3
  <2>. QED
    BY <2>4 DEF T
<1>. QED
  BY <1>2, <1>3, <1>4, <1>5, <1>7 DEF c

\* The first component of a name, and the rest.
LEMMA ReachNext ==
  ASSUME TreeInv, NEW v \in Readings, NEW d \in Path,
         NEW c \in Seq(Component), c # << >>
  PROVE  Reach(v, d, c) = Reach(v, There(v, d, Head(c)), Tail(c))
<1>1. /\ Head(c) \in Component /\ Tail(c) \in Seq(Component)
      /\ <<Head(c)>> \in Seq(Component) /\ c = <<Head(c)>> \o Tail(c)
  OBVIOUS
<1>2. Reach(v, d, <<Head(c)>> \o Tail(c)) = Reach(v, Reach(v, d, <<Head(c)>>), Tail(c))
  BY <1>1, ReachJoins
<1>. QED
  BY <1>1, <1>2, ReachShort

\* What follows a name that leads nowhere leads nowhere.
LEMMA ReachNowhere ==
  ASSUME TreeInv, NEW v \in Readings, NEW d \in Path,
         NEW c \in Seq(Component), d = Nowhere \/ (c # << >> /\ ~ Searchable(d))
  PROVE  Reach(v, d, c) = Nowhere
<1>1. \A h : There(v, Nowhere, h) = Nowhere
  BY Somewhere DEF There, Searchable, TreeInv
<1>2. ASSUME NEW e \in Seq(Component) PROVE Reach(v, Nowhere, e) = Nowhere
  <2>. DEFINE n == Len(e)
  <2>0. Nowhere \in Path
    BY Somewhere
  <2>1a. PICK at : Traces(at, v, Nowhere, e)
    BY <2>0, Walks
  <2>1. /\ at \in [0 .. n -> Path] /\ at[0] = Nowhere
        /\ \A i \in 1 .. n : at[i] = There(v, at[i - 1], e[i])
        /\ Reach(v, Nowhere, e) = at[n]
    BY <2>1a DEF Traces
  <2>2. n \in Nat
    OBVIOUS
  <2>. HIDE DEF n
  <2>. DEFINE S == {i \in 0 .. n : at[i] = Nowhere}
  <2>3. 0 \in S
    BY <2>1, <2>2
  <2>4. ASSUME NEW i \in 0 .. n, i \in S, i < n PROVE i + 1 \in S
    <3>1. i + 1 \in 1 .. n /\ i + 1 \in 0 .. n /\ (i + 1) - 1 = i
      BY <2>2, <2>4
    <3>. QED
      BY <1>1, <2>1, <2>4, <3>1
  <2>. HIDE DEF S
  <2>5. 0 .. n \subseteq S
    BY <2>2, <2>3, <2>4, UpTo
  <2>6. n \in S
    BY <2>2, <2>5
  <2>. QED
    BY <2>1, <2>6 DEF S
<1>3. CASE c # << >> /\ ~ Searchable(d)
  <2>1. There(v, d, Head(c)) = Nowhere /\ Tail(c) \in Seq(Component)
    BY <1>3 DEF There
  <2>. QED
    BY <1>2, <1>3, <2>1, ReachNext
<1>. QED
  BY <1>2, <1>3

\* Whatever v says of where links lead, w says too.
Extends(w, v) == \A p \in Links : v[p] # Nowhere => w[p] = v[p]

\* Saying more of where links lead changes no name that leads somewhere.
LEMMA ReachExtends ==
  ASSUME TreeInv, NEW v \in Readings, NEW w \in Readings, Extends(w, v), NEW d \in Path,
         NEW c \in Seq(Component), Reach(v, d, c) # Nowhere
  PROVE  Reach(w, d, c) = Reach(v, d, c)
<1>. DEFINE n == Len(c)
<1>1. n \in Nat
  OBVIOUS
<1>2a. PICK f : Traces(f, v, d, c)
  BY Walks
<1>2. /\ f \in [0 .. n -> Path] /\ f[0] = d
      /\ \A i \in 1 .. n : f[i] = There(v, f[i - 1], c[i])
      /\ Reach(v, d, c) = f[n]
  BY <1>2a DEF Traces
<1>3a. PICK g : Traces(g, w, d, c)
  BY Walks
<1>3. /\ g \in [0 .. n -> Path] /\ g[0] = d
      /\ \A i \in 1 .. n : g[i] = There(w, g[i - 1], c[i])
      /\ Reach(w, d, c) = g[n]
  BY <1>3a DEF Traces
<1>4. ASSUME NEW x, NEW h, There(v, x, h) # Nowhere
      PROVE  x # Nowhere /\ There(w, x, h) = There(v, x, h)
  <2>1. Searchable(x) /\ x # Nowhere
    BY <1>4, Somewhere DEF There, Searchable, TreeInv
  <2>2. Leads(v, Append(x, h)) # Nowhere => Leads(w, Append(x, h)) = Leads(v, Append(x, h))
    BY DEF Leads, Extends
  <2>. QED
    BY <1>4, <2>1, <2>2 DEF There
<1>. HIDE DEF n
<1>. DEFINE S == {i \in 0 .. n : f[i] # Nowhere => g[i] = f[i]}
<1>5. 0 \in S
  BY <1>1, <1>2, <1>3
<1>6. ASSUME NEW i \in 0 .. n, i \in S, i < n PROVE i + 1 \in S
  <2>1. i + 1 \in 1 .. n /\ i + 1 \in 0 .. n /\ (i + 1) - 1 = i
    BY <1>1, <1>6
  <2>2. f[i + 1] = There(v, f[i], c[i + 1]) /\ g[i + 1] = There(w, g[i], c[i + 1])
    BY <1>2, <1>3, <2>1
  <2>. QED
    BY <1>4, <1>6, <2>1, <2>2
<1>. HIDE DEF S
<1>7. 0 .. n \subseteq S
  BY <1>1, <1>5, <1>6, UpTo
<1>8. n \in S
  BY <1>1, <1>7
<1>. QED
  BY <1>2, <1>3, <1>8 DEF S

\* Where each link leads when the links on the way lead as v says.
Following(v) == [p \in Links |-> Reach(v, IF tree[p].abs THEN << >> ELSE Up(p), tree[p].comps)]

\* A link is followed from a directory of the file system by a name.
LEMMA FollowingType ==
  ASSUME TreeInv, NEW v \in Readings
  PROVE  Following(v) \in Readings
<1>1. ASSUME NEW p \in Links
      PROVE  Reach(v, IF tree[p].abs THEN << >> ELSE Up(p), tree[p].comps) \in Path
  <2>1. p \in Seq(Component) /\ tree[p].comps \in Seq(Component) /\ << >> \in Seq(Component)
    BY DEF Links, TreeInv
  <2>2. (IF tree[p].abs THEN << >> ELSE Up(p)) \in Path
    BY <2>1, UpType, Somewhere
  <2>. QED
    BY <2>1, <2>2, ReachJoins
<1>. QED
  BY <1>1 DEF Following, Readings

\* To know more of where links lead is to know more of where following them leads.
LEMMA FollowingExtends ==
  ASSUME TreeInv, NEW v \in Readings, NEW w \in Readings, Extends(w, v)
  PROVE  Extends(Following(w), Following(v))
<1>1. ASSUME NEW p \in Links, Following(v)[p] # Nowhere
      PROVE  Following(w)[p] = Following(v)[p]
  <2>. DEFINE d == IF tree[p].abs THEN << >> ELSE Up(p)
              c == tree[p].comps
  <2>1. p \in Seq(Component) /\ c \in Seq(Component) /\ << >> \in Seq(Component)
    BY DEF Links, TreeInv
  <2>2. d \in Path
    BY <2>1, UpType, Somewhere
  <2>3. Following(v)[p] = Reach(v, d, c) /\ Following(w)[p] = Reach(w, d, c)
    BY DEF Following
  <2>. HIDE DEF d, c
  <2>. QED
    BY <1>1, <2>1, <2>2, <2>3, ReachExtends
<1>. QED
  BY <1>1 DEF Extends

\* As deep as there are links, where they lead is where following them leads.
LEMMA LinksSettle ==
  ASSUME TreeInv
  PROVE  LET v == LinkMeans[Cardinality(Links)]
         IN  v \in Readings /\ Following(v) = v
<1>. DEFINE K == Cardinality(Links)
            Nothing == [p \in Links |-> Nowhere]
            G == [i \in 1 .. K |-> [v \in Readings |-> Following(v)]]
            Rec(g) == [i \in 0 .. K |->
                         [p \in Links |->
                            IF i = 0 THEN Nowhere
                            ELSE Reach(g[i - 1], IF tree[p].abs THEN << >> ELSE Up(p),
                                       tree[p].comps)]]
            Leading(v) == {p \in Links : v[p] # Nowhere}
<1>1. IsFiniteSet(Links) /\ K \in Nat
  <2>1. Links \in SUBSET DOMAIN tree
    BY DEF Links
  <2>. QED
    BY <2>1, FS_Subset, FS_CardinalityType DEF TreeInv
<1>2. Nothing \in Readings
  BY Somewhere DEF Readings
<1>3. G \in [1 .. K -> [Readings -> Readings]]
  BY FollowingType
<1>4. PICK f : Iterates(f, K, Readings, Nothing, G)
  <2>. HIDE DEF K, G, Nothing
  <2>. QED
    BY <1>1, <1>2, <1>3, Iteration
<1>5. /\ f \in [0 .. K -> Readings] /\ f[0] = Nothing
      /\ \A i \in 1 .. K : f[i] = Following(f[i - 1])
  <2>1. /\ f \in [0 .. K -> Readings] /\ f[0] = Nothing
        /\ \A i \in 1 .. K : f[i] = G[i][f[i - 1]]
    BY <1>4 DEF Iterates
  <2>2. \A i \in 1 .. K : f[i - 1] \in Readings
    BY <1>1, <2>1
  <2>. QED
    BY <2>1, <2>2
<1>. HIDE DEF G, Nothing
<1>6. f = Rec(f)
  <2>1. ASSUME NEW i \in 0 .. K PROVE f[i] = Rec(f)[i]
    <3>1. CASE i = 0
      BY <1>5, <3>1 DEF Nothing
    <3>2. CASE i \in 1 .. K
      <4>1. f[i] = Following(f[i - 1]) /\ i # 0
        BY <1>1, <1>5, <3>2
      <4>. QED
        BY <4>1 DEF Following
    <3>. QED
      BY <1>1, <3>1, <3>2
  <2>. HIDE DEF K
  <2>. QED
    BY <1>5, <2>1
<1>7. LinkMeans = Rec(LinkMeans)
  <2>. DEFINE M == CHOOSE g : g = Rec(g)
  <2>1. M = Rec(M)
    <3>. HIDE DEF Rec
    <3>. QED
      BY <1>6
  <2>2. LinkMeans = M
    BY DEF LinkMeans
  <2>. HIDE DEF Rec, M
  <2>. QED
    BY <2>1, <2>2
<1>8. LinkMeans[K] = f[K]
  <2>. DEFINE S == {i \in 0 .. K : LinkMeans[i] = f[i]}
  <2>1. \A i \in 0 .. K : LinkMeans[i] = Rec(LinkMeans)[i] /\ f[i] = Rec(f)[i]
    BY <1>6, <1>7
  <2>2. 0 \in S
    <3>1. 0 \in 0 .. K
      BY <1>1
    <3>. HIDE DEF K
    <3>2. Rec(LinkMeans)[0] = Rec(f)[0]
      BY <3>1
    <3>. QED
      BY <2>1, <3>1, <3>2
  <2>3. ASSUME NEW i \in 0 .. K, i \in S, i < K PROVE i + 1 \in S
    <3>1. i + 1 \in 0 .. K /\ i + 1 # 0 /\ (i + 1) - 1 = i /\ LinkMeans[i] = f[i]
      BY <1>1, <2>3
    <3>. HIDE DEF K
    <3>2. Rec(LinkMeans)[i + 1] = Rec(f)[i + 1]
      BY <3>1
    <3>. QED
      BY <2>1, <3>1, <3>2
  <2>. HIDE DEF S, K
  <2>4. 0 .. K \subseteq S
    BY <1>1, <2>2, <2>3, UpTo
  <2>5. K \in S
    BY <1>1, <2>4
  <2>. QED
    BY <2>5 DEF S
<1>. HIDE DEF K, Rec
<1>9. \A i \in 0 .. K : Extends(Following(f[i]), f[i])
  <2>. DEFINE S == {i \in 0 .. K : Extends(Following(f[i]), f[i])}
  <2>1. 0 \in S
    BY <1>1, <1>5 DEF Extends, Nothing
  <2>2. ASSUME NEW i \in 0 .. K, i \in S, i < K PROVE i + 1 \in S
    <3>1. /\ i + 1 \in 1 .. K /\ i + 1 \in 0 .. K /\ (i + 1) - 1 = i
          /\ Extends(Following(f[i]), f[i])
      BY <1>1, <2>2
    <3>2. f[i] \in Readings /\ f[i + 1] \in Readings /\ f[i + 1] = Following(f[i])
      BY <1>5, <3>1
    <3>3. Extends(Following(f[i + 1]), Following(f[i]))
      BY <3>1, <3>2, FollowingExtends
    <3>. QED
      BY <3>1, <3>2, <3>3
  <2>. HIDE DEF S
  <2>3. 0 .. K \subseteq S
    BY <1>1, <2>1, <2>2, UpTo
  <2>. QED
    BY <2>3 DEF S
<1>10. \A i \in 0 .. K : Following(f[i]) = f[i] \/ Cardinality(Leading(f[i])) >= i
  <2>. DEFINE S == {i \in 0 .. K : Following(f[i]) = f[i] \/ Cardinality(Leading(f[i])) >= i}
  <2>1. \A i : IsFiniteSet(Leading(f[i])) /\ Cardinality(Leading(f[i])) \in Nat
    <3>1. ASSUME NEW i PROVE IsFiniteSet(Leading(f[i])) /\ Cardinality(Leading(f[i])) \in Nat
      <4>1. Leading(f[i]) \in SUBSET Links
        OBVIOUS
      <4>. HIDE DEF Leading
      <4>. QED
        BY <1>1, <4>1, FS_Subset, FS_CardinalityType
    <3>. QED
      BY <3>1
  <2>2. 0 \in S
    BY <1>1, <2>1
  <2>3. ASSUME NEW i \in 0 .. K, i \in S, i < K PROVE i + 1 \in S
    <3>1. /\ i + 1 \in 1 .. K /\ i + 1 \in 0 .. K /\ (i + 1) - 1 = i /\ i \in Nat
      BY <1>1, <2>3
    <3>2. f[i] \in Readings /\ f[i + 1] \in Readings /\ f[i + 1] = Following(f[i])
      BY <1>5, <3>1
    <3>3. CASE Following(f[i]) = f[i]
      BY <3>1, <3>2, <3>3
    <3>4. CASE f[i + 1] # f[i] /\ Cardinality(Leading(f[i])) >= i
      <4>1. Extends(f[i + 1], f[i])
        BY <1>9, <3>2
      <4>2. Leading(f[i]) \in SUBSET Leading(f[i + 1])
        BY <4>1 DEF Extends
      <4>3. ASSUME Leading(f[i]) = Leading(f[i + 1]) PROVE FALSE
        <5>1. \A p \in Links : f[i][p] = f[i + 1][p]
          BY <4>1, <4>3 DEF Extends
        <5>. QED
          BY <3>2, <3>4, <5>1 DEF Readings
      <4>4. Cardinality(Leading(f[i])) < Cardinality(Leading(f[i + 1]))
        <5>. HIDE DEF Leading
        <5>. QED
          BY <2>1, <4>2, <4>3, FS_Subset
      <4>. HIDE DEF Leading
      <4>5. Cardinality(Leading(f[i + 1])) >= i + 1
        BY <2>1, <3>1, <3>4, <4>4
      <4>. QED
        BY <3>1, <4>5
    <3>. QED
      BY <2>3, <3>2, <3>3, <3>4
  <2>. HIDE DEF S
  <2>4. 0 .. K \subseteq S
    BY <1>1, <2>2, <2>3, UpTo
  <2>. QED
    BY <2>4 DEF S
<1>11. Following(f[K]) = f[K]
  <2>1. K \in 0 .. K /\ f[K] \in Readings /\ Following(f[K]) \in Readings
    BY <1>1, <1>5, FollowingType
  <2>2. Extends(Following(f[K]), f[K])
    BY <1>9, <2>1
  <2>3. CASE Cardinality(Leading(f[K])) >= K
    <3>1. Leading(f[K]) \in SUBSET Links
      OBVIOUS
    <3>. HIDE DEF Leading
    <3>2. Leading(f[K]) = Links
      BY <1>1, <2>3, <3>1, FS_Subset, FS_CardinalityType DEF K
    <3>3. \A p \in Links : Following(f[K])[p] = f[K][p]
      BY <2>2, <3>2 DEF Extends, Leading
    <3>. QED
      BY <2>1, <3>3 DEF Readings
  <2>. QED
    BY <1>10, <2>1, <2>3
<1>. QED
  BY <1>1, <1>5, <1>8, <1>11 DEF K

-------------------------------------------------------------------------------
(* The walk of vde_realpath *)

\* Every directory on the way to p, itself included, may be searched.
Way(p) == \A n \in 0 .. Len(p) : Searchable(SubSeq(p, 1, n))

\* Where the file system says each link leads.
Truth == LinkMeans[Cardinality(Links)]

\* What is to come, read from file d, is what the argument means.
OnCourse(d, components) == Reach(Truth, d, components) = Meant

\* The file that was just copied.
Copied(p) == Leads(Truth, p)

\* What is resolved and what is to come mean, at each step, what the whole means.
WalkInv ==
  /\ TreeInv
  /\ walk \in {"call", "next", "stat"} => errno = "none" /\ Way(Cwd)
  /\ walk \in {"next", "stat"} => resolved \in Seq(Component) /\ rest \in Seq(Component)
  /\ walk = "next" => /\ Way(IF rest = << >> THEN Up(resolved) ELSE resolved)
                      /\ OnCourse(resolved, rest)
  /\ walk = "stat" => /\ resolved # << >> /\ Way(Up(resolved))
                      /\ OnCourse(Copied(resolved), rest)
  /\ ResolvesAsTheSystem

\* Names mean the same as long as the tree and the argument do not change.
LEMMA SameTree ==
  ASSUME tree' = tree, name' = name
  PROVE  /\ TreeInv' <=> TreeInv
         /\ Meant' = Meant
         /\ Way(Cwd)' <=> Way(Cwd)
         /\ \A p : Way(p)' <=> Way(p)
         /\ \A p : Copied(p)' = Copied(p)
         /\ \A p, c : OnCourse(p, c)' <=> OnCourse(p, c)
<1>1. Meant' = Meant
  BY DEF Meant, Named, LinkMeans, Reach, There, Leads, Links, Searchable
<1>2. ASSUME NEW p PROVE Way(p)' <=> Way(p)
  BY DEF Way, Searchable
<1>3. ASSUME NEW p PROVE Copied(p)' = Copied(p)
  BY DEF Copied, Truth, LinkMeans, Reach, There, Leads, Links, Searchable
<1>4. ASSUME NEW p, NEW c PROVE OnCourse(p, c)' <=> OnCourse(p, c)
  <2>1. Reach(Truth, p, c)' = Reach(Truth, p, c)
    BY DEF Truth, LinkMeans, Reach, There, Leads, Links, Searchable
  <2>. QED
    BY <1>1, <2>1 DEF OnCourse
<1>. QED
  BY <1>1, <1>2, <1>3, <1>4 DEF TreeInv

\* The way to a file is the way to its directory and then the file.
LEMMA WayUp ==
  ASSUME NEW p \in Seq(Component)
  PROVE  /\ Way(p) => Way(Up(p)) /\ Way(<< >>) /\ Searchable(p)
         /\ p # << >> /\ Way(Up(p)) /\ Searchable(p) => Way(p)
<1>1. Len(p) \in Nat /\ SubSeq(p, 1, Len(p)) = p /\ SubSeq(p, 1, 0) = << >>
  BY SubSeqFull, SubSeqEmpty
<1>2. Way(p) => Searchable(p) /\ Searchable(<< >>)
  <2>1. 0 \in 0 .. Len(p) /\ Len(p) \in 0 .. Len(p)
    BY <1>1
  <2>2. Way(p) => Searchable(SubSeq(p, 1, Len(p))) /\ Searchable(SubSeq(p, 1, 0))
    BY <2>1 DEF Way
  <2>. QED
    BY <1>1, <2>2
<1>3. Searchable(<< >>) => Way(<< >>)
  <2>1. SubSeq(<< >>, 1, 0) = << >> /\ 0 .. Len(<< >>) = {0}
    BY SubSeqEmpty
  <2>. QED
    BY <2>1 DEF Way
<1>4. CASE p = << >>
  BY <1>2, <1>3, <1>4 DEF Up
<1>5. CASE p # << >>
  <2>1. Len(p) >= 1 /\ \A i \in 1 .. Len(p) : p[i] \in Component
    BY <1>5, EmptySeq, ElementOfSeq
  <2>2. Up(p) = SubSeq(p, 1, Len(p) - 1) /\ Up(p) \in Seq(Component) /\ Len(Up(p)) = Len(p) - 1
    BY <1>1, <1>5, <2>1, SubSeqProperties DEF Up
  <2>3. ASSUME NEW n \in 0 .. Len(p) - 1 PROVE SubSeq(Up(p), 1, n) = SubSeq(p, 1, n)
    <3>. DEFINE s == SubSeq(Up(p), 1, n)
                t == SubSeq(p, 1, n)
    <3>1. n \in Int /\ 1 \in Int /\ (1 <= n => n - 1 + 1 = n) /\ \A i \in 1 .. n : 1 + i - 1 = i
      BY <1>1
    <3>2. \A i \in 1 .. n : Up(p)[i] = p[i] /\ p[i] \in Component
      BY <1>1, <2>1, <2>2, SubSeqProperties
    <3>3. t \in Seq(Component) /\ Len(t) = n /\ \A i \in 1 .. n : t[i] = p[i]
      BY <1>1, <3>1, <3>2, SubSeqProperties
    <3>4. s \in Seq(Component) /\ Len(s) = n /\ \A i \in 1 .. n : s[i] = Up(p)[i]
      BY <1>1, <3>1, <3>2, SubSeqProperties
    <3>. HIDE DEF s, t
    <3>5. s = t
      BY <3>2, <3>3, <3>4, SeqEqual
    <3>. QED
      BY <3>5 DEF s, t
  <2>. DEFINE m == Len(p)
  <2>4. m \in Nat /\ m >= 1 /\ Len(Up(p)) = m - 1
    BY <1>1, <2>1, <2>2
  <2>5. Way(p) => Way(Up(p))
    <3>. HIDE DEF m
    <3>1. \A n \in 0 .. m - 1 : n \in 0 .. m
      BY <2>4
    <3>2. Way(p) => \A n \in 0 .. m - 1 : Searchable(SubSeq(Up(p), 1, n))
      BY <2>3, <3>1 DEF Way, m
    <3>. QED
      BY <2>4, <3>2 DEF Way
  <2>6. Way(Up(p)) /\ Searchable(p) => Way(p)
    <3>. HIDE DEF m
    <3>1. \A n \in 0 .. m : n = m \/ n \in 0 .. m - 1
      BY <2>4
    <3>2. Way(Up(p)) => \A n \in 0 .. m - 1 : Searchable(SubSeq(p, 1, n))
      BY <2>3, <2>4 DEF Way, m
    <3>3. Searchable(p) => Searchable(SubSeq(p, 1, m))
      BY <1>1 DEF m
    <3>4. Way(p) <=> \A n \in 0 .. m : Searchable(SubSeq(p, 1, n))
      BY DEF Way, m
    <3>. QED
      BY <3>1, <3>2, <3>3, <3>4
  <2>. QED
    BY <1>2, <1>3, <2>5, <2>6
<1>. QED
  BY <1>4, <1>5

\* Where a link leads is what its own name means.
LEMMA TruthOfLinks ==
  ASSUME TreeInv
  PROVE  /\ Truth \in Readings
         /\ \A p \in Links :
              Truth[p] = Reach(Truth, IF tree[p].abs THEN << >> ELSE Up(p), tree[p].comps)
<1>1. Truth \in Readings /\ Following(Truth) = Truth
  BY LinksSettle DEF Truth
<1>. QED
  BY <1>1 DEF Following

\* The next component leads to where the rest is read from.
LEMMA OnCourseNext ==
  ASSUME TreeInv, NEW d \in Seq(Component), NEW c \in Seq(Component), c # << >>,
         OnCourse(d, c)
  PROVE  OnCourse(There(Truth, d, Head(c)), Tail(c))
<1>1. d \in Path /\ Truth \in Readings
  BY Somewhere, TruthOfLinks
<1>. QED
  BY <1>1, ReachNext DEF OnCourse

\* Nothing follows from nowhere.
LEMMA OnCourseNowhere ==
  ASSUME TreeInv, NEW d \in Path, NEW c \in Seq(Component), OnCourse(d, c),
         d = Nowhere \/ (c # << >> /\ ~ Searchable(d))
  PROVE  Meant = Nowhere
BY TruthOfLinks, ReachNowhere DEF OnCourse

\* Each step of vde_realpath keeps on course.
LEMMA WalkSteps == WalkInv /\ PathNext => WalkInv'
<1>. SUFFICES ASSUME WalkInv, PathNext PROVE WalkInv'
  OBVIOUS
<1>1. tree' = tree /\ name' = name
  BY DEF PathNext, CallFails, Call, Skip, Back, TooLong, Copy, Missing, LinkFails, Follow,
         Blocked, Enter, Arrive, Fail
<1>2. /\ TreeInv /\ TreeInv' /\ Meant' = Meant /\ (Way(Cwd)' <=> Way(Cwd))
      /\ \A p : (Way(p)' <=> Way(p)) /\ Copied(p)' = Copied(p)
      /\ \A p, c : OnCourse(p, c)' <=> OnCourse(p, c)
  BY <1>1, SameTree DEF WalkInv
<1>3. /\ Truth \in Readings /\ Seq(Component) \subseteq Path /\ << >> \in Seq(Component)
      /\ Cwd \in Seq(Component) /\ name.comps \in Seq(Component)
  BY <1>2, TruthOfLinks, Somewhere, PathAssumption DEF TreeInv
<1>4. /\ walk \in {"call", "next", "stat"} => errno = "none" /\ Way(Cwd)
      /\ walk \in {"next", "stat"} => resolved \in Seq(Component) /\ rest \in Seq(Component)
  BY DEF WalkInv
\* The walk goes on at a component.
<1>5. ASSUME walk \in {"call", "next", "stat"}, walk' = "next", errno' = errno,
             resolved' \in Seq(Component), rest' \in Seq(Component),
             Way(resolved') \/ (rest' = << >> /\ Way(Up(resolved'))),
             OnCourse(resolved', rest')
      PROVE  WalkInv'
  <2>1. Way(resolved') => Way(Up(resolved'))
    BY <1>5, WayUp
  <2>2. Way(IF rest = << >> THEN Up(resolved) ELSE resolved)' /\ OnCourse(resolved, rest)'
    <3>1. (IF rest = << >> THEN Up(resolved) ELSE resolved)'
            = IF rest' = << >> THEN Up(resolved') ELSE resolved'
      BY DEF Up
    <3>. QED
      BY <1>2, <1>5, <2>1, <3>1
  <2>. QED
    BY <1>2, <1>4, <1>5, <2>2 DEF WalkInv, ResolvesAsTheSystem
\* It ends for want of a file or of permission, or for another reason.
<1>6. ASSUME walk' = "failed",
             errno' \in {"ENOENT", "ENOTDIR", "EACCES"} /\ name.comps # << >> => Meant = Nowhere
      PROVE  WalkInv'
  BY <1>1, <1>2, <1>6 DEF WalkInv, ResolvesAsTheSystem
<1>7. CASE CallFails \/ TooLong \/ LinkFails
  BY <1>6, <1>7 DEF CallFails, TooLong, LinkFails, Fail
<1>8. CASE Call
  <2>. DEFINE d == IF name.abs THEN << >> ELSE Cwd
  <2>1. OnCourse(d, name.comps)
    BY DEF OnCourse, Meant, Named, Truth
  <2>2. d \in Seq(Component) /\ Way(d)
    BY <1>3, <1>4, <1>8, WayUp DEF Call
  <2>3. resolved' = d /\ rest' = name.comps /\ walk' = "next" /\ errno' = errno /\ walk = "call"
    BY <1>8 DEF Call
  <2>. HIDE DEF d
  <2>. QED
    BY <1>3, <1>5, <2>1, <2>2, <2>3
<1>9. ASSUME Ordinary \/ NextIs({"", "."}) \/ NextIs({".."})
      PROVE  /\ walk = "next" /\ rest # << >> /\ Head(rest) \in Component
             /\ resolved \in Seq(Component) /\ Tail(rest) \in Seq(Component)
             /\ Way(resolved) /\ Searchable(resolved)
             /\ OnCourse(There(Truth, resolved, Head(rest)), Tail(rest))
  <2>1. /\ walk = "next" /\ rest # << >> /\ resolved \in Seq(Component) /\ rest \in Seq(Component)
        /\ Way(resolved) /\ OnCourse(resolved, rest)
    BY <1>4, <1>9 DEF WalkInv, Ordinary, NextIs
  <2>2. Head(rest) \in Component /\ Tail(rest) \in Seq(Component)
    BY <2>1, HeadTailProperties
  <2>. QED
    BY <1>2, <2>1, <2>2, OnCourseNext, WayUp
<1>10. CASE Skip
  <2>1. There(Truth, resolved, Head(rest)) = resolved
    BY <1>9, <1>10 DEF Skip, NextIs, There
  <2>. QED
    BY <1>5, <1>9, <1>10, <2>1 DEF Skip
<1>11. CASE Back
  <2>1. There(Truth, resolved, Head(rest)) = Up(resolved)
    BY <1>9, <1>11 DEF Back, NextIs, There
  <2>2. Up(resolved) \in Seq(Component) /\ Way(Up(resolved))
    BY <1>9, <1>11, UpType, WayUp DEF Back
  <2>. QED
    BY <1>5, <1>9, <1>11, <2>1, <2>2 DEF Back
<1>12. CASE Copy
  <2>. DEFINE p == Append(resolved, Head(rest))
  <2>1. /\ resolved \in Seq(Component) /\ Way(resolved) /\ Head(rest) \in Component
        /\ Tail(rest) \in Seq(Component)
        /\ OnCourse(There(Truth, resolved, Head(rest)), Tail(rest))
        /\ There(Truth, resolved, Head(rest)) = Copied(p)
    BY <1>9, <1>12 DEF Copy, Ordinary, There, Copied
  <2>2. p \in Seq(Component) /\ p # << >> /\ Up(p) = resolved
    BY <2>1 DEF Up
  <2>3. walk' = "stat" /\ resolved' = p /\ rest' = Tail(rest) /\ errno' = errno /\ walk = "next"
    BY <1>12 DEF Copy, Ordinary
  <2>. HIDE DEF p
  <2>4. Way(Up(resolved))' /\ OnCourse(Copied(resolved), rest)'
    <3>1. Up(resolved)' = resolved
      BY <2>2, <2>3 DEF Up
    <3>2. Copied(resolved)' = Copied(p)
      BY <1>2, <2>3
    <3>. QED
      BY <1>2, <2>1, <2>3, <3>1, <3>2
  <2>. QED
    BY <1>2, <1>4, <2>1, <2>2, <2>3, <2>4 DEF WalkInv, ResolvesAsTheSystem
<1>13. ASSUME walk = "stat"
       PROVE  /\ resolved \in Seq(Component) /\ rest \in Seq(Component) /\ resolved # << >>
              /\ Up(resolved) \in Seq(Component) /\ Way(Up(resolved)) /\ errno = "none"
              /\ OnCourse(Copied(resolved), rest)
  BY <1>4, <1>13, UpType DEF WalkInv
<1>14. CASE Missing
  <2>1. Copied(resolved) = Nowhere /\ walk = "stat"
    BY <1>14 DEF Missing, Copied, Leads
  <2>2. OnCourse(Nowhere, rest) /\ rest \in Seq(Component)
    BY <1>13, <2>1
  <2>3. Meant = Nowhere
    BY <1>2, <2>2, OnCourseNowhere, Somewhere
  <2>. QED
    BY <1>6, <1>14, <2>3 DEF Missing, Fail
<1>15. CASE Follow
  <2>. DEFINE d == IF tree[resolved].abs THEN << >> ELSE Up(resolved)
              c == tree[resolved].comps
  <2>1. walk = "stat" /\ resolved \in Links /\ c \in Seq(Component)
    BY <1>2, <1>15 DEF Follow, IsLink, Links, TreeInv
  <2>2. d \in Seq(Component) /\ Way(d)
    BY <1>3, <1>13, <2>1, WayUp
  <2>3. Copied(resolved) = Reach(Truth, d, c)
    BY <1>2, <2>1, TruthOfLinks DEF Copied, Leads, Links
  <2>4. walk' = "next" /\ resolved' = d /\ rest' = c \o rest /\ errno' = errno
    BY <1>15 DEF Follow
  <2>. HIDE DEF d, c
  <2>5. c \o rest \in Seq(Component)
    BY <1>13, <2>1, ConcatProperties
  <2>6. OnCourse(d, c \o rest)
    BY <1>2, <1>3, <1>13, <2>1, <2>2, <2>3, ReachJoins DEF OnCourse
  <2>. QED
    BY <1>5, <2>1, <2>2, <2>4, <2>5, <2>6
<1>16. ASSUME IsOther PROVE walk = "stat" /\ Copied(resolved) = resolved
  BY <1>16 DEF IsOther, Copied, Leads, Links
<1>17. CASE Blocked
  <2>1. Meant = Nowhere
    BY <1>2, <1>3, <1>13, <1>16, <1>17, OnCourseNowhere DEF Blocked
  <2>. QED
    BY <1>6, <1>17, <2>1 DEF Blocked, Fail
<1>18. CASE Enter
  <2>1. Way(resolved) \/ (rest = << >> /\ Way(Up(resolved)))
    BY <1>13, <1>16, <1>18, WayUp DEF Enter
  <2>. QED
    BY <1>5, <1>13, <1>16, <1>18, <2>1 DEF Enter
<1>19. CASE Arrive
  <2>1. resolved \in Path /\ OnCourse(resolved, << >>) /\ errno = "none"
    BY <1>3, <1>4, <1>19 DEF Arrive, WalkInv
  <2>2. resolved = Meant
    BY <1>2, <1>3, <2>1, ReachShort DEF OnCourse
  <2>3. resolved' = resolved /\ walk' = "resolved" /\ errno' = errno
    BY <1>19 DEF Arrive
  <2>. QED
    BY <1>2, <2>1, <2>2, <2>3 DEF WalkInv, ResolvesAsTheSystem
<1>. QED
  BY <1>7, <1>8, <1>10, <1>11, <1>12, <1>14, <1>15, <1>17, <1>18, <1>19 DEF PathNext

\* The name of the root means the root, whatever the tree.
LEMMA RootMeans == TreeInv /\ name = [abs |-> TRUE, comps |-> << >>] => Meant = << >>
<1>. SUFFICES ASSUME TreeInv, name = [abs |-> TRUE, comps |-> << >>] PROVE Meant = << >>
  OBVIOUS
<1>1. Reach(Truth, << >>, << >>) = << >>
  BY TruthOfLinks, ReachShort, Somewhere
<1>2. name.abs = TRUE /\ name.comps = << >>
  OBVIOUS
<1>. QED
  BY <1>1, <1>2 DEF Meant, Named, Truth

\* The same of the state after a step.
LEMMA RootMeansNext == (TreeInv /\ name = [abs |-> TRUE, comps |-> << >>] => Meant = << >>)'
BY RootMeans, PTL

\* The walk begins with a file system and a name as they are assumed to be.
LEMMA WalkStarts == PathInit => WalkInv
<1>. SUFFICES ASSUME PathInit PROVE WalkInv
  OBVIOUS
<1>1. tree \in Tree /\ name \in PathName /\ walk = "call" /\ errno = "none"
  BY DEF PathInit
<1>2. TreeInv
  BY <1>1, PathAssumption DEF TreeInv
<1>3. Way(Cwd)
  BY <1>1, PathAssumption DEF Way, Searchable
<1>. QED
  BY <1>1, <1>2, <1>3 DEF WalkInv, ResolvesAsTheSystem

\* What makes the directory of the socket, and what is left when it has been used.
LEMMA WalkAround ==
  ASSUME WalkInv, (MakeDir /\ walk = "call") \/ OwnDir
  PROVE  WalkInv'
<1>0. NewDir.comps = << >> /\ << >> \in Seq(Component)
  BY DEF NewDir
<1>1. CASE MakeDir /\ walk = "call"
  <2>1. /\ walk' = "call" /\ errno' = "none" /\ name' = name
        /\ TreeInv /\ Way(Cwd) /\ Searchable(Parent)
    BY <1>1 DEF MakeDir, WalkInv
  <2>2. CASE ~ Untaken
    <3>1. tree' = tree
      BY <1>1, <2>2 DEF MakeDir
    <3>. QED
      BY <2>1, <3>1, SameTree DEF WalkInv, ResolvesAsTheSystem
  <2>3. CASE Untaken
    <3>1. tree' = [p \in DOMAIN tree \cup {Place} |-> IF p = Place THEN NewDir ELSE tree[p]]
      BY <1>1, <2>3 DEF MakeDir
    <3>2. Place \in Seq(Component)
      <4>1. Parent \in Seq(Component)
        BY <2>1 DEF Searchable, TreeInv
      <4>2. name.comps[LastNamed] \in Component
        BY <2>1, <2>3, ElementOfSeq DEF Untaken, TreeInv
      <4>. QED
        BY <4>1, <4>2, AppendProperties DEF Place
    <3>3. /\ DOMAIN tree' = DOMAIN tree \cup {Place}
          /\ \A p \in DOMAIN tree : p # Place /\ tree'[p] = tree[p]
          /\ tree'[Place] = NewDir
      BY <2>3, <3>1 DEF Untaken
    <3>4. TreeInv'
      <4>1. IsFiniteSet(DOMAIN tree') /\ DOMAIN tree' \subseteq Seq(Component)
        BY <2>1, <3>2, <3>3, FS_AddElement DEF TreeInv
      <4>2. \A p \in DOMAIN tree' : tree'[p].comps \in Seq(Component)
        BY <1>0, <2>1, <3>3 DEF TreeInv
      <4>. QED
        BY <2>1, <4>1, <4>2 DEF TreeInv
    <3>5. Way(Cwd)'
      BY <2>1, <3>3 DEF Way, Searchable
    <3>. QED
      BY <2>1, <3>4, <3>5 DEF WalkInv, ResolvesAsTheSystem
  <2>. QED
    BY <2>2, <2>3
<1>2. CASE OwnDir
  <2>1. /\ walk' = "resolved" /\ errno' = errno /\ tree' = [p \in {<< >>} |-> NewDir]
        /\ name' = [abs |-> TRUE, comps |-> << >>] /\ resolved' = << >>
    BY <1>2 DEF OwnDir
  <2>2. TreeInv'
    <3>1. DOMAIN tree' = {<< >>} /\ tree'[<< >>] = NewDir /\ name'.comps = << >>
      BY <2>1
    <3>2. IsFiniteSet(DOMAIN tree')
      BY <3>1, FS_Singleton
    <3>. QED
      BY <1>0, <3>1, <3>2 DEF TreeInv
  <2>3. Meant' = << >>
    BY <2>1, <2>2, RootMeansNext
  <2>. QED
    BY <2>1, <2>2, <2>3 DEF WalkInv, ResolvesAsTheSystem
<1>. QED
  BY <1>1, <1>2

-------------------------------------------------------------------------------
(* The inductive invariant *)

\* What a switch knows at each step of its claim, while no two claims overlap.
ClaimInv ==
  /\ mpc \in {"ports", "mkdir", "path"} => cpc[Me] = "off"
  /\ raced \/ \A s \in Switches :
       /\ cpc[s] # "lost" /\ (cpc[s] = "on" => sock = s)
       /\ s \in listening <=> cpc[s] = "on"
       /\ cpc[s] = "probe" => sock # NoFile
       /\ cpc[s] = "unlink" => sock \notin listening \cup {NoFile}
       /\ cpc[s] = "rebind" => sock = NoFile
       /\ cpc[s] \in {"perms", "listen"} => sock = s
       /\ \A x \in Switches : cpc[s] \in Underway /\ cpc[x] \in Underway => x = s

\* Until there is a pool main is not in its loop, no socket is on its way to the
\* data plane and none is watched.
PoolInv ==
  /\ pool = NoPool => /\ mpc \notin {"loop", "insert"} /\ told = << >> /\ watched = {}
                      /\ dpc # "dispatch"
  /\ mpc = "insert" => adding \in Fd
  /\ dpc = "dispatch" => frame \in Fd
  /\ nth >= 1

\* Until the directory is made its name is not looked at.
NamedInv == WalkInv /\ (mpc \in {"ports", "mkdir"} => walk = "call")

SwitchInv == TypeOK /\ FdInv /\ ClaimInv /\ PoolInv /\ NamedInv

LEMMA InitSwitchInv == Init => SwitchInv
<1>. SUFFICES ASSUME Init PROVE SwitchInv
  OBVIOUS
<1>. USE SwitchAssumption DEF Init
<1>1. FdInv
  BY InitEstablishes
<1>2. TypeOK
  <2>1. FdTypeOK
    BY <1>1 DEF FdInv, TableWorks
  <2>2. sock \in Switches \cup {NoFile, Stale} /\ listening \subseteq Switches
    OBVIOUS
  <2>3. /\ cpc \in [Switches -> Underway \cup {"off", "bind", "inUse", "lost", "on"}]
        /\ queue \in [Worker -> Seq(Fd)]
    OBVIOUS
  <2>4. /\ numports \in Int /\ worker_threads \in Int /\ starts \in 0 .. MaxStarts
        /\ frames \in 0 .. MaxFrames /\ portc \in Nat /\ nth \in Nat
    OBVIOUS
  <2>5. /\ told \in Seq(Fd) /\ watched \subseteq Fd /\ frame \in Fd \cup {NoSocket}
        /\ adding \in Fd \cup {NoSocket} /\ started \subseteq Worker /\ pool = NoPool
    OBVIOUS
  <2>. QED
    BY <2>1, <2>2, <2>3, <2>4, <2>5 DEF TypeOK
<1>3. ClaimInv
  BY DEF ClaimInv, Switches, Underway
<1>4. PoolInv
  BY DEF PoolInv
<1>5. NamedInv
  BY WalkStarts DEF NamedInv, PathInit
<1>. QED
  BY <1>1, <1>2, <1>3, <1>4, <1>5 DEF SwitchInv

\* Type correctness, the fd table's apart: main() up to its loop.
LEMMA BootTypeOK ==
  ASSUME SwitchInv, Boot \/ OtherSwitch, FdTypeOK' PROVE TypeOK'
<1>. USE SwitchAssumption DEF SwitchInv, settings, claim, ports, dataPlane, threads
<1>1. CASE Exit
  BY <1>1 DEF TypeOK, Exit, Switches
<1>2. CASE InitPorts \/ MakeDir \/ ResolveDir \/ WatchSocket \/ StartThread
  BY <1>2 DEF TypeOK, InitPorts, MakeDir, ResolveDir, WatchSocket, StartThread, Step
<1>3. CASE OwnDir
  BY <1>3 DEF TypeOK, OwnDir, Step, Switches
<1>4. ASSUME NEW s \in Switches, Claim(s) PROVE TypeOK'
  <2>1. cpc' \in [Switches -> Underway \cup {"off", "bind", "inUse", "lost", "on"}]
    BY <1>4 DEF TypeOK, Claim, Bind, Probe, Unlink, Rebind, OwnSocket, Listen, Goes, Underway
  <2>2. sock' \in Switches \cup {NoFile, Stale} /\ listening' \subseteq Switches
    BY <1>4 DEF TypeOK, Claim, Bind, Probe, Unlink, Rebind, OwnSocket, Listen
  <2>3. raced' \in BOOLEAN /\ starts' = starts
    BY <1>4 DEF TypeOK, Claim, Bind, Probe, Unlink, Rebind, OwnSocket, Listen, Goes
  <2>. QED
    BY <1>4, <2>1, <2>2, <2>3 DEF TypeOK, Claim
<1>5. CASE OtherStarts
  BY <1>5 DEF TypeOK, OtherStarts, Switches
<1>6. CASE OtherDies
  BY <1>6 DEF TypeOK, OtherDies, Switches
<1>7. CASE StartWorker
  BY <1>7 DEF TypeOK, StartWorker, PoolInv
<1>8. CASE PoolReady
  BY <1>8 DEF TypeOK, PoolReady, Step
<1>9. ASSUME Boot PROVE TypeOK'
  BY <1>1, <1>2, <1>3, <1>4, <1>7, <1>8, <1>9
  DEF Boot, NoPorts, MakeDirFails, OwnDirFails, ClaimSocket, ClaimFails, NoThread,
      NoThreads, Overrun, Switches
<1>. QED
  BY <1>4, <1>5, <1>6, <1>9 DEF OtherSwitch, Switches

\* The same while the switch serves.
LEMMA ServeTypeOK ==
  ASSUME SwitchInv, Serve, FdTypeOK' PROVE TypeOK'
<1>. USE SwitchAssumption DEF SwitchInv, settings, claim, ports, dataPlane, threads
<1>1. CASE Exit
  BY <1>1 DEF TypeOK, Exit, Switches
<1>2. ASSUME NEW f \in Fd, Request(f) PROVE TypeOK'
  BY <1>2 DEF TypeOK, Request, Step
<1>3. ASSUME NEW f \in Fd, Receive(f) PROVE TypeOK'
  BY <1>3 DEF TypeOK, Receive
<1>4. CASE InsertPort
  BY <1>4 DEF TypeOK, InsertPort
<1>5. CASE Tell
  BY <1>5 DEF TypeOK, Tell, Step, PoolInv
<1>6. CASE Watch
  <2>1. Head(told) \in Fd /\ Tail(told) \in Seq(Fd)
    BY <1>6 DEF TypeOK, Watch
  <2>. QED
    BY <1>6, <2>1 DEF TypeOK, Watch
<1>7. ASSUME NEW w \in Worker, Dispatch(w) PROVE TypeOK'
  <2>1. queue' \in [Worker -> Seq(Fd)]
    BY <1>7 DEF TypeOK, Dispatch, PoolInv
  <2>. QED
    BY <1>7, <2>1 DEF TypeOK, Dispatch
<1>8. ASSUME NEW w \in Worker, Take(w) PROVE TypeOK'
  <2>1. queue' \in [Worker -> Seq(Fd)]
    BY <1>8 DEF TypeOK, Take
  <2>. QED
    BY <1>8, <2>1 DEF TypeOK, Take
<1>9. ASSUME NEW w \in Worker, Look(w) \/ Forward(w) PROVE TypeOK'
  BY <1>9 DEF TypeOK, Look, Forward
<1>. QED
  BY <1>1, <1>2, <1>3, <1>4, <1>5, <1>6, <1>7, <1>8, <1>9
  DEF Serve, NoPortLeft, DispatchNowhere, NotFound

\* Each step of a claim keeps what the switches know of it.
LEMMA StepClaimInv == SwitchInv /\ [Next]_vars => ClaimInv'
<1>. SUFFICES ASSUME SwitchInv, [Next]_vars PROVE ClaimInv'
  OBVIOUS
<1>. USE SwitchAssumption DEF SwitchInv
<1>1. ASSUME UNCHANGED claim,
             mpc' \in {"ports", "mkdir", "path"} => mpc \in {"ports", "mkdir", "path"}
      PROVE  ClaimInv'
  BY <1>1 DEF ClaimInv, claim
<1>2. CASE Exit
  BY <1>2 DEF ClaimInv, Exit, TypeOK, Switches, Underway
<1>3. CASE OwnDir
  BY <1>3 DEF ClaimInv, OwnDir, Step, TypeOK, Switches, Underway
<1>4. CASE OtherStarts
  BY <1>4 DEF ClaimInv, OtherStarts, TypeOK, Switches, Underway
<1>5. CASE OtherDies
  BY <1>5 DEF ClaimInv, OtherDies, TypeOK, Switches, Underway
<1>6. ASSUME NEW s \in Switches, Claim(s), mpc \in {"claim", "thread", "pool"}
      PROVE  ClaimInv'
  <2>0. mpc' = mpc
    BY <1>6 DEF Claim
  <2>. USE <1>6, <2>0 DEF ClaimInv, TypeOK, Switches, Underway, Goes
  <2>1. CASE Bind(s)
    BY <2>1, ZenonT(40) DEF Bind
  <2>2. CASE Probe(s)
    BY <2>2 DEF Probe
  <2>3. CASE Unlink(s)
    BY <2>3 DEF Unlink
  <2>4. CASE Rebind(s)
    BY <2>4 DEF Rebind
  <2>5. CASE OwnSocket(s)
    BY <2>5 DEF OwnSocket
  <2>6. CASE Listen(s)
    BY <2>6 DEF Listen
  <2>. QED
    BY <1>6, <2>1, <2>2, <2>3, <2>4, <2>5, <2>6 DEF Claim
<1>7. CASE Serve
  BY <1>1, <1>2, <1>7
  DEF Serve, Request, Receive, NoPortLeft, InsertPort, Tell, Watch, DispatchNowhere, Dispatch,
      Take, Look, Forward, NotFound, Step
<1>8. CASE Boot
  BY <1>1, <1>2, <1>3, <1>6, <1>8
  DEF Boot, InitPorts, NoPorts, MakeDir, MakeDirFails, ResolveDir, OwnDirFails,
      ClaimSocket, ClaimFails, WatchSocket, StartThread, NoThread, NoThreads, StartWorker,
      Overrun, PoolReady, Switches, Step
<1>. QED
  BY <1>1, <1>4, <1>5, <1>6, <1>7, <1>8 DEF Next, OtherSwitch, Switches, vars

\* Every step keeps frames waiting for the pool.
LEMMA StepPoolInv == SwitchInv /\ [Next]_vars => PoolInv'
<1>. SUFFICES ASSUME SwitchInv, [Next]_vars PROVE PoolInv'
  OBVIOUS
<1>. USE SwitchAssumption DEF SwitchInv, settings, claim, ports, dataPlane, threads
<1>1. CASE Exit
  BY <1>1 DEF PoolInv, Exit
<1>2. ASSUME UNCHANGED <<mpc, ports, dataPlane, pool, nth>> PROVE PoolInv'
  BY <1>2 DEF PoolInv
<1>3. CASE OtherSwitch \/ UNCHANGED vars
  BY <1>2, <1>3 DEF OtherSwitch, OtherStarts, OtherDies, Claim, vars
<1>4. CASE InitPorts \/ MakeDir \/ ResolveDir \/ OwnDir \/ ClaimSocket \/ WatchSocket
  BY <1>4 DEF PoolInv, InitPorts, MakeDir, ResolveDir, OwnDir, ClaimSocket, Claim,
              WatchSocket, Step
<1>5. CASE StartThread \/ StartWorker
  BY <1>5 DEF PoolInv, StartThread, StartWorker, Step, TypeOK
<1>6. CASE PoolReady
  <2>1. started # NoPool
    BY DEF TypeOK, NoPool
  <2>. QED
    BY <1>6, <2>1 DEF PoolInv, PoolReady, Step
<1>7. CASE Boot
  BY <1>1, <1>4, <1>5, <1>6, <1>7
  DEF Boot, NoPorts, MakeDirFails, OwnDirFails, ClaimFails, NoThread, NoThreads, Overrun
<1>8. ASSUME NEW f \in Fd, Request(f) PROVE PoolInv'
  BY <1>8 DEF PoolInv, Request, Step
<1>9. ASSUME NEW f \in Fd, Receive(f) PROVE PoolInv'
  BY <1>9 DEF PoolInv, Receive
<1>10. CASE InsertPort \/ Tell \/ Watch
  BY <1>10 DEF PoolInv, InsertPort, Tell, Watch, Step
<1>11. ASSUME NEW w \in Worker, Dispatch(w) \/ Take(w) \/ Look(w) \/ Forward(w)
       PROVE  PoolInv'
  BY <1>11 DEF PoolInv, Dispatch, Take, Look, Forward
<1>. QED
  BY <1>1, <1>3, <1>7, <1>8, <1>9, <1>10, <1>11
  DEF Next, Serve, NoPortLeft, DispatchNowhere, NotFound

\* Every step leaves the directory's name meaning what it resolves to.
LEMMA StepNamedInv == SwitchInv /\ [Next]_vars => NamedInv'
<1>. SUFFICES ASSUME SwitchInv, [Next]_vars PROVE NamedInv'
  OBVIOUS
<1>1. WalkInv /\ (mpc \in {"ports", "mkdir"} => walk = "call")
  BY DEF SwitchInv, NamedInv
<1>2. ASSUME UNCHANGED pathVars, mpc' \in {"ports", "mkdir"} => mpc \in {"ports", "mkdir"}
      PROVE  NamedInv'
  <2>1. tree' = tree /\ name' = name
    BY <1>2 DEF pathVars
  <2>2. WalkInv'
    BY <1>1, <1>2, <2>1, SameTree DEF pathVars, WalkInv, ResolvesAsTheSystem, Up
  <2>. QED
    BY <1>1, <1>2, <2>2 DEF NamedInv, pathVars
<1>3. CASE Exit
  BY <1>2, <1>3 DEF Exit
<1>4. CASE MakeDir
  BY <1>1, <1>4, WalkAround DEF MakeDir, Step, NamedInv
<1>5. CASE OwnDir
  BY <1>1, <1>5, WalkAround DEF OwnDir, Step, NamedInv
<1>6. CASE ResolveDir
  BY <1>1, <1>6, WalkSteps DEF ResolveDir, NamedInv
<1>7. CASE Boot
  BY <1>2, <1>3, <1>4, <1>5, <1>6, <1>7
  DEF Boot, InitPorts, NoPorts, MakeDirFails, OwnDirFails, ClaimSocket, Claim, ClaimFails,
      WatchSocket, StartThread, NoThread, NoThreads, StartWorker, Overrun, PoolReady, Step
<1>8. CASE Serve
  BY <1>2, <1>3, <1>8
  DEF Serve, Request, Receive, NoPortLeft, InsertPort, Tell, Watch, DispatchNowhere, Dispatch,
      Take, Look, Forward, NotFound, Step
<1>9. CASE OtherSwitch \/ UNCHANGED vars
  BY <1>2, <1>9 DEF OtherSwitch, OtherStarts, OtherDies, Claim, vars
<1>. QED
  BY <1>7, <1>8, <1>9 DEF Next

-------------------------------------------------------------------------------
(* The results *)

\* The invariant holds in every state of a switch, from its start to its end.
THEOREM SwitchInvariance == Spec => []SwitchInv
<1>1. SwitchInv /\ [Next]_vars => SwitchInv'
  <2>. SUFFICES ASSUME SwitchInv, [Next]_vars PROVE SwitchInv'
    OBVIOUS
  <2>1. FdInv'
    BY StepFdTable, StepPreserves DEF SwitchInv, TypeOK
  <2>2. FdTypeOK'
    BY <2>1 DEF FdInv, TableWorks
  <2>3. TypeOK'
    <3>1. CASE UNCHANGED vars
      BY <2>2, <3>1 DEF SwitchInv, TypeOK, vars, settings, claim, ports, dataPlane, threads
    <3>. QED
      BY <2>2, <3>1, BootTypeOK, ServeTypeOK DEF Next
  <2>. QED
    BY <2>1, <2>3, StepClaimInv, StepPoolInv, StepNamedInv DEF SwitchInv
<1>. QED
  BY <1>1, InitSwitchInv, PTL DEF Spec

\* Type correctness (main, init_ctl_plane, init_data_plane).
THEOREM SwitchTypeCorrect == Spec => []TypeOK
BY SwitchInvariance, PTL DEF SwitchInv

\* However often another switch starts and dies on the same directory, and wherever
\* it is killed, a claim of the control socket fails only against a switch that
\* listens, and a switch that listens owns the file (bind_sock_path, still_used).
THEOREM SocketClaimsHold == Spec => []ClaimsHold
<1>1. SwitchInv => ClaimsHold
  BY DEF SwitchInv, ClaimInv, ClaimsHold
<1>. QED
  BY <1>1, SwitchInvariance, PTL

\* The name vde_realpath returns is the one the file system resolves the argument to,
\* in every tree and through links of any number and nesting; and when it gives up for
\* want of a file or of permission, the file system resolves it to nothing.
THEOREM DirResolvesAsTheSystem == Spec => []ResolvesAsTheSystem
<1>1. SwitchInv => ResolvesAsTheSystem
  BY DEF SwitchInv, NamedInv, WalkInv
<1>. QED
  BY <1>1, SwitchInvariance, PTL

\* No frame is dispatched before there is a pool, although the data-plane thread
\* is started first (init_data_plane, fw_engine_init).
THEOREM PoolComesFirst == Spec => []PoolBeforeFrames
<1>1. SwitchInv => PoolBeforeFrames
  BY DEF SwitchInv, PoolInv, PoolBeforeFrames
<1>. QED
  BY <1>1, SwitchInvariance, PTL

\* The fd table in the switch behaves as the fd table by itself: the switch calls
\* it only as FdTable allows, one insertion at a time and lookups only of sockets
\* whose insertion has returned (add_port, handle_ctl_message, worker_thread).
THEOREM SwitchRunsFdTable == Spec => FdSpec
<1>1. Init => FdInit
  BY DEF Init
<1>2. SwitchInv /\ [Next]_vars => [FdNext]_fdVars
  BY StepFdTable DEF SwitchInv, TypeOK
<1>. QED
  BY <1>1, <1>2, SwitchInvariance, PTL DEF Spec, FdSpec

\* Hence the table's own theorems hold in the switch.
THEOREM SwitchInBounds == Spec => []AccessInBounds
BY SwitchRunsFdTable, InBounds, PTL

\* A worker that looks a socket up gets what add_port inserted.
THEOREM SwitchFinds == Spec => []LookupFinds
BY SwitchRunsFdTable, Finds, PTL
===============================================================================

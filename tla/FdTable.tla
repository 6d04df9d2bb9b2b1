------------------------------- MODULE FdTable -------------------------------
(***************************************************************************)
(* The fd table (src/io/fd_manager.c): an array indexed by the descriptor  *)
(* of a data socket, grown by the control plane while the workers read it. *)
(* Nothing but max_fd is atomic and there is no lock, so an insertion and  *)
(* a lookup take one step per access of table->endpoints, table->capacity  *)
(* and the array, in the order the code has them.                          *)
(*                                                                         *)
(* Only one array is allocated at a time; it is known by the number of the *)
(* allocation.  An address of an earlier one leads to free memory, which   *)
(* may read as any endpoint, as does a part that was not cleared yet.      *)
(***************************************************************************)
EXTENDS Integers

CONSTANTS
  Worker,       \* the threads that look endpoints up
  InitialSize,  \* FD_TABLE_INITIAL_SIZE
  Fd,           \* the descriptors data sockets may get
  NoEp,         \* NULL
  Junk          \* what realloc leaves in the part it adds

ASSUME FdTableAssumption ==
  /\ InitialSize \in Nat \ {0} /\ Fd \subseteq Nat \ {0}
  /\ NoEp \notin Fd /\ Junk \notin Fd /\ Junk # NoEp

VARIABLES
  block, room,      \* the array: its number; the length of every array, as it was last
  slot,             \* what the array holds; the endpoint of socket f is written f
  endpoints,        \* table->endpoints: the number of an array
  capacity,         \* table->capacity
  max_fd,           \* table->max_fd, which nothing reads
  ipc, ifd,         \* fd_table_insert: where it is, its fd
  new_size,         \* its local of that name
  inserted, failed, \* descriptors for which it has returned 0, and -1
  lpc, lfd, seen,   \* per worker: where fd_table_lookup is, its fd, the array it reads
  found             \* what it returned

fdTable == <<block, room, slot, endpoints, capacity, max_fd>>
inserting == <<ipc, ifd, new_size, inserted, failed>>
looking == <<lpc, lfd, seen, found>>
fdVars == <<fdTable, inserting, looking>>

Size == IF new_size = 0 THEN capacity ELSE new_size

\* fd_table_create
FdInit == /\ block = 1 /\ room = [b \in {1} |-> InitialSize]
          /\ slot = [i \in 0 .. InitialSize - 1 |-> NoEp]
          /\ endpoints = 1 /\ capacity = InitialSize /\ max_fd = 0
          /\ ipc = "idle" /\ ifd = 0 /\ new_size = 0 /\ inserted = {} /\ failed = {}
          /\ lpc = [w \in Worker |-> "idle"] /\ lfd = [w \in Worker |-> 0]
          /\ seen = [w \in Worker |-> 0] /\ found = [w \in Worker |-> NoEp]

-------------------------------------------------------------------------------
(* fd_table_insert, fd_table_resize: the control plane *)

InsertCall(f) == /\ ipc = "idle" /\ f \notin inserted \cup failed
                 /\ ifd' = f
                 /\ ipc' = IF f >= capacity THEN "realloc" ELSE "element"
                 /\ UNCHANGED <<fdTable, new_size, inserted, failed, looking>>

\* Mutation of Doubled: doubling stops one short of room for the descriptor.
DoubledShort(n) == n \in ifd .. 2 * ifd /\ \E k \in 1 .. ifd : n = capacity * 2 ^ k

\* The size the array gets: capacity is doubled until it exceeds the descriptor.
Doubled(n) == n \in ifd + 1 .. 2 * ifd /\ \E k \in 1 .. ifd : n = capacity * 2 ^ k

\* realloc extends the block where it is, or moves it and frees the old one.
Realloc == /\ ipc = "realloc"
           /\ \E n \in 1 .. 2 * ifd :
                /\ Doubled(n) /\ new_size' = n
                /\ slot' = [i \in 0 .. n - 1 |-> IF i < capacity THEN slot[i] ELSE Junk]
                /\ block' \in {block, block + 1}
                /\ room' = [b \in 1 .. block' |-> IF b = block' THEN n ELSE room[b]]
           /\ ipc' = "clear"
           /\ UNCHANGED <<endpoints, capacity, max_fd, ifd, inserted, failed, looking>>

\* realloc fails: the insertion returns -1, which add_port does not look at.
ReallocFails == /\ ipc = "realloc"
                /\ failed' = failed \cup {ifd}
                /\ ipc' = "idle" /\ ifd' = 0
                /\ UNCHANGED <<fdTable, new_size, inserted, looking>>

\* Mutation of Clear: the added part is not cleared.
ClearNothing == /\ ipc = "clear" /\ ipc' = "pointer"
                /\ UNCHANGED <<fdTable, ifd, new_size, inserted, failed, looking>>

\* memset of the added part.
Clear == /\ ipc = "clear"
         /\ slot' = [i \in 0 .. new_size - 1 |-> IF i < capacity THEN slot[i] ELSE NoEp]
         /\ ipc' = "pointer"
         /\ UNCHANGED <<block, room, endpoints, capacity, max_fd, ifd, new_size, inserted,
                        failed, looking>>

StorePointer == /\ ipc = "pointer"
                /\ endpoints' = block
                /\ ipc' = "bound"
                /\ UNCHANGED <<block, room, slot, capacity, max_fd, ifd, new_size, inserted,
                               failed, looking>>

StoreBound == /\ ipc = "bound"
              /\ capacity' = new_size
              /\ ipc' = "element" /\ new_size' = 0
              /\ UNCHANGED <<block, room, slot, endpoints, max_fd, ifd, inserted, failed, looking>>

StoreElement == /\ ipc = "element"
                /\ slot' = [slot EXCEPT ![ifd] = ifd]
                /\ ipc' = "max"
                /\ UNCHANGED <<block, room, endpoints, capacity, max_fd, ifd, new_size, inserted,
                               failed, looking>>

\* The compare-and-exchange loop on max_fd, which nobody else writes; then the
\* insertion returns 0.
RaiseMax == /\ ipc = "max"
            /\ max_fd' = IF ifd > max_fd THEN ifd ELSE max_fd
            /\ inserted' = inserted \cup {ifd}
            /\ ipc' = "idle" /\ ifd' = 0
            /\ UNCHANGED <<block, room, slot, endpoints, capacity, new_size, failed, looking>>

Insertion == \/ Realloc \/ ReallocFails \/ Clear \/ StorePointer \/ StoreBound
             \/ StoreElement \/ RaiseMax

-------------------------------------------------------------------------------
(* fd_table_lookup: a worker *)

\* The data plane has been told of the descriptor: its insertion has returned.
\* The capacity is read first.
LookupCall(w, f) ==
  /\ lpc[w] = "idle" /\ f \in inserted \cup failed
  /\ lfd' = [lfd EXCEPT ![w] = f]
  /\ lpc' = [lpc EXCEPT ![w] = IF f >= capacity THEN "done" ELSE "pointer"]
  /\ UNCHANGED <<fdTable, inserting, seen, found>>

\* Then the address of the array ...
LoadPointer(w) == /\ lpc[w] = "pointer"
                  /\ seen' = [seen EXCEPT ![w] = endpoints]
                  /\ lpc' = [lpc EXCEPT ![w] = "element"]
                  /\ UNCHANGED <<fdTable, inserting, lfd, found>>

Moved(w) == seen[w] # block

\* ... and the element.
LoadElement(w) ==
  /\ lpc[w] = "element"
  /\ \E e \in Fd \cup {NoEp} :
       /\ Moved(w) \/ slot[lfd[w]] \in {e, Junk}
       /\ found' = [found EXCEPT ![w] = e]
  /\ lpc' = [lpc EXCEPT ![w] = IF Moved(w) THEN "astray" ELSE "done"]
  /\ seen' = [seen EXCEPT ![w] = 0]
  /\ UNCHANGED <<fdTable, inserting, lfd>>

\* The worker is through with the frame.
Used(w) == /\ lpc[w] \in {"done", "astray"}
           /\ lpc' = [lpc EXCEPT ![w] = "idle"] /\ lfd' = [lfd EXCEPT ![w] = 0]
           /\ found' = [found EXCEPT ![w] = NoEp]
           /\ UNCHANGED <<fdTable, inserting, seen>>

FdNext == \/ Insertion \/ \E f \in Fd : InsertCall(f)
          \/ \E w \in Worker : \/ LoadPointer(w) \/ LoadElement(w) \/ Used(w)
                               \/ \E f \in Fd : LookupCall(w, f)

FdSpec == FdInit /\ [][FdNext]_fdVars

-------------------------------------------------------------------------------
FdTypeOK ==
  /\ block \in Nat /\ room \in [1 .. block -> Nat] /\ endpoints \in Nat
  /\ capacity \in Nat \ {0} /\ max_fd \in Nat
  /\ new_size \in Nat /\ slot \in [0 .. Size - 1 -> Fd \cup {NoEp, Junk}]
  /\ ipc \in {"idle", "realloc", "clear", "pointer", "bound", "element", "max"}
  /\ ifd \in Fd \cup {0} /\ inserted \subseteq Fd /\ failed \subseteq Fd
  /\ lpc \in [Worker -> {"idle", "pointer", "element", "done", "astray"}]
  /\ lfd \in [Worker -> Fd \cup {0}] /\ seen \in [Worker -> Nat]
  /\ found \in [Worker -> Fd \cup {NoEp}]

\* The table is never read or written beyond its array: an insertion writes where
\* the array has grown to, and a worker that compares the descriptor with one
\* capacity and then reads the address of another array reads within that one, even
\* if realloc has since put a longer one in its place.
AccessInBounds ==
  /\ ipc = "element" => ifd \in DOMAIN slot
  /\ \A w \in Worker : lpc[w] = "element" =>
       seen[w] \in DOMAIN room /\ lfd[w] < room[seen[w]]

\* Growing the table loses nothing: a lookup of a socket that was handed over
\* returns its endpoint, or nothing if its insertion had failed, unless the array
\* was moved away while the lookup held its address.
LookupFinds ==
  \A w \in Worker :
    lpc[w] = "done" => found[w] = IF lfd[w] \in inserted THEN lfd[w] ELSE NoEp
===============================================================================

# A formal model of the e-VDE switch

TLA+ specifications of `vde_switch`, the TLC configurations that check them, and
TLAPS proofs about them. Paths below are relative to the repository; `src/` there
is the C code, `include/` its headers, `doc/report.md` the design document.

## 1. The system

One process, 2 + n threads, one address space.

| part | code | state it keeps | operations |
|---|---|---|---|
| control-plane loop | `control_plane.c` | `ctl_plane_fds` (epoll set), the listening socket | `ctl_plane_loop`: accept a client, read a request, close |
| port manager | `port_manager.c` | `portc`, the list `endpoints` | `add_port`; `remove_port` (never called) |
| ports, endpoints | `port.c` | array of ports (flag, endpoint) | `alloc_port`, `alloc_endpoint`, `get_port`, `free_port`, `set_port_state` |
| fd table | `fd_manager.c` | array fd -> endpoint, its capacity | insert (grows by realloc), lookup, remove |
| control messages | `message.c` | `ctl_pipe` | `send_ctl_message`: two writes |
| data-plane thread | `data_plane.c` | `data_plane_fds` (epoll set) | `data_plane_loop`, `handle_ctl_message` |
| forwarding engine | `forwarding_engine.c`, `toeplitz.c` | the thread pool | `dispatch_packet`, `flood_packet`, `send_packet`, hash of the header |
| thread pool | `thread_pool.c` | per worker: pipe, ring, `running` | create, dispatch, `worker_thread`, destroy (never called) |
| worker queue | `queue.c`, `ring.h` | `data[]`, `head`, `tail` | push (one producer), pop (one consumer) |
| MAC table | `hash_table.c` | buckets of chained entries | insert, lookup (expires entries) |
| flow table | `flow_table.c` | hash chains and a bit trie | insert, lookup, delete; no caller yet |
| options | `opts.c`, `json.c` | `numports`, `worker_threads` | command line, configuration file |
| JSON parser | `cJSON.c` (vendored) | the tree of the last file | parse, delete, look a member up |
| path resolution | `canonicalize.c` | none | `vde_realpath` of the ctl directory |
| start-up | `main.c`, `init_*`, `sockutils.c` | the ctl directory and socket | claim the socket, start the threads |

How they interact: a client connects to the ctl socket and asks for a port. The
control plane creates a data socket, an endpoint, an entry in the fd table, and
writes a header and the socket to `ctl_pipe`. The data-plane thread polls
`ctl_pipe` and all data sockets; a frame it receives goes to the ring of the
worker that the hash of its addresses selects, and a message (the fd) to that
worker's pipe. The worker wakes up on the message, empties its ring, looks up
and learns addresses in the MAC table that all workers share, and sends or
floods through the endpoint list. `printlog(ERROR, ...)` calls `exit(1)`
(`logging.c:33`), so most error returns in the code are never reached: an error
ends the switch.

What is hard here: three kinds of threads that share five structures, only one
of them under a mutex (`epoll_fds`); a ring whose correctness depends on memory
order; a wake-up protocol of two channels per worker; a two-part message; a hash
table without a lock; clients that may leave between any two system calls. What
can go wrong, line by line, is the list `hazards` of `PROJECT.json`, with the
properties that cover each entry or the reason why none does.

What makes each part correct:

- *worker queue*: a bounded FIFO queue; no slot is read and written at once.
- *data plane and workers*: no frame is left in a ring with its worker asleep; the
  frames of a flow stay in order; messages stay framed; a worker never meets a
  socket it does not know; a frame is attributed to the port it came from; ports
  are listened to.
- *MAC table*: chains end, an answer was inserted for that address, an address
  that was inserted resolves until it is too old.
- *control plane*: an event is still good when its turn comes; ports are distinct
  and in range; the data plane is told of a port when it can be used, and of every
  one; a request for a port is served; ports of departed clients are given back.
- *fd table*: growing it loses nothing, and nobody reads or writes beyond the array.
- *start-up*: the ctl directory is the one its name means; the socket is taken over
  from a switch that died and left alone while one answers; no frame is dispatched
  before there is a pool; start-up ends.
- *flow table*: an exact lookup finds the newest flow with the key, a wildcard
  lookup one for a prefix of it, whatever was deleted or found no memory before.
- *options*: the last option or file that gives a setting wins; a value in the file
  means what it means on the command line.
- *JSON parser*: it accepts JSON (and bad `\u` literals, which it reads as `\u0000`),
  the tree is what the text says, and a refused text leaves nothing behind.

## 2. Modules

    BoundedQueue  <--refines--  RingBuffer   <--  RingBufferProofs
    AddressTable  <--refines--  MacTable     <--  MacTableProofs   (and SetInduction)
    FlowStore     <--refines--  FlowTable    <--  FlowTableProofs  (and SetInduction)
                                DataPlane    <--  DataPlaneProofs
                                ControlPlane <--  ControlPlaneProofs
    RealPath, FdTable  <--  Switch           <--  SwitchProofs     (and SetInduction)
    JsonString  <--  JsonParser  <--  Options <-- OptionsProofs    (and SetInduction)
                     JsonParser  <--  JsonText

`<--` reads "is extended by". Each component also has an MC module (`MCRingBuffer`,
`MCDataPlane`, `MCMacTable`, `MCControlPlane`, `MCFlowTable`, `MCSwitch`, `MCOptions`);
`MCOptions` brings Options and JsonText together.

**BoundedQueue** is what a queue promises: at most `Capacity` items, first in,
first out. **RingBuffer** is `ring_buffer_push` and `ring_buffer_pop`, one action
for each access to shared memory. The two indices are C11 atomics, read with
acquire and written with release by one thread each. `seenTail` is the producer's
latest view of the consumer's index, `seenHead` the other way round; a load may
return any value from the view to the current one (`Visible`). The refinement
mapping `Contents` is the slots from `tail` to `head`.

**DataPlane** is the path of a frame and of a new port: `add_port` and
`send_ctl_message` on one side, `data_plane_loop`, `handle_ctl_message`,
`dispatch_packet` and `thread_pool_dispatch_packet` in the middle,
`worker_thread`, the MAC table and `flood_packet`/`send_packet` on the other.
Each thread has a program counter (`cpc`, `dpc`, `wpc`), and every read, write,
push, pop and table operation is an action. Rings and the MAC table
are atomic here: RingBuffer and MacTable justify the first and qualify the second.
A frame is a header, plus what the code does not record: the socket it came
from, whether it was a whole frame, and its number. `Garbage` is what
uninitialized memory may read as when `recv` has nothing, or too little, to give.
`add_port` lists the endpoint and offers it to the fd table, which may have no memory
for a socket that it must grow for (`Large`); nobody looks at the result, the socket is
handed over all the same (`refused`), and a worker that is woken for it ends the process.

**MacTable** is one hash bucket, `mac_table_lookup` and `mac_table_insert` step
by step, any number of workers; `crew` is the set of those that were started.
**AddressTable** is what a caller sees of it: a lookup reads the clock (`Ask`) and then
answers with the last port (`Resolve`), or that the address is unknown (`Miss`) or too
old just now (`Lapse`); an insertion may or may not bring a lapsed address back, since
that it must is `InsertResolves`, which the code violates. A repaired `mac_table_insert`
implements the same table. The refinement holds where one worker was started, not for
two (lost and duplicate entries), so that `ImplementsAddressTable` speaks of the
switches with one.

**ControlPlane** is `ctl_plane_loop` with all that its handlers call, one action
for each system call or change of shared state, and clients that connect, ask and
leave at any time. A request is one of the kinds the code tells apart.
A read may take two requests (they fit into `REQBUFLEN`), of which
the code looks at one: `RequestServed` is about the first, the second is dropped
unanswered. As in DataPlane the fd table may refuse an endpoint (`refused`). An error
that ends the process is `halted' = TRUE`.

**FlowTable** is `flow_table.c`, which nothing calls yet: three operations of one
thread, on hash chains and a trie of bits. An operation on the chains is one step; a
walk through the trie is a step per node (`Descend`, `MakeInner`), since each needs a
node of its own: `calloc` hands out any chunk of memory that is not in use, a freed one
included, or none, and then the insertion ends with its flow in the chain and not in the
trie (`OutOfMemory`). `flow_table_delete` frees an entry that the trie still points to
(its TODO says so). What may come of it is in the model: a later walk that reads the
freed chunk (`stale`, after which the model stops, since the code's behaviour is
undefined from there), or an insertion that is given the chunk, so that the trie leads
to a flow where it never was put (`reused`). `WildcardIsPrefix` and `ForgottenByTrie`
are about the time before that: it is the only way to break them.
**FlowStore** is what exact lookups see: for each key its flows, the newest of which
hides the others.

**FdTable** is `fd_manager.c`, one action for each access to `endpoints`, `capacity`
and the array. There is no lock, and the workers look up while the control plane
inserts. `realloc` may move the array or leave it where it is (`block`); a lookup that
still holds the old address ends in `astray` with any result, since that memory is
free; `room` is how long every array was, so that the index can be compared with the
array whose address was read. What `realloc` adds reads as `Junk` until it is cleared.

**RealPath** is `vde_realpath` on names of components: `resolved` and `rest` are its
two buffers, `num_links` and `errno` as in the code. The reference is what the file
system itself makes of a name: `Reach` reads it component by component, given where each
link leads; `LinkMeans[n]` is where links lead as far as they nest at most n deep, and
`Meant` reads the argument with as many levels as there are links. `PathAssumption`: the
working directory can be reached from the root, as the absolute name `getcwd` returns
needs it to be (else `lstat` on that name fails where the kernel, which starts from the
directory itself, does not).

**Switch** is `main`: `init_ports`, `init_ctl_plane` with RealPath and `still_used`,
`init_data_plane` with `thread_pool_create`, then serving, in short, with FdTable.
`mpc` says where `main` is, `cpc` how far each of two switches is with its claim of
the socket. `Other` is a second `vde_switch` with the same directory, which starts and
dies (`OtherStarts`, `OtherDies`) at any moment; a switch that ends leaves its file
behind (`Stale`). Here serving is abstract; ControlPlane and DataPlane have its detail.

**JsonString** and **JsonParser** are what `process_json_config` uses of `cJSON.c`.
The text is a sequence of tokens; a string is ordinary characters and *pieces*, among
them the `\u` literals by their codes. The parser is recursive: `stack` is the calls
of `parse_array` and `parse_object` under way. `items` and `strs` are the heap, so that
a use after free is a pointer outside their domains; every allocation may fail. What
`cJSON_Delete` frees (`Tree`) is the least set closed under `next` and `child`, and
`parse_string`'s loop (`Unescape`) a recursive function, so that both can be reasoned
about. The references are in **JsonText**: a grammar (`IsValue`), a tree written back as
text (`Written`), and a UTF-8 decoder (`Units`), which recur as operators.
**Options** extends them with `process_options`: what
`getopt_long` takes for an option (`Recognised`), the table of options, `--config` in
the middle of a command line, and `translate_json_to_cstr`, which passes the address
of an int to `atoi`. Names are compared by their bytes, escapes and case resolved
(`Matches`), so that `"port\u0073"` is `ports` here too. `InFile` says what a text gives a
setting without looking at a tree or at `Unescape`. The reference for strings is RFC 8259:
`IsValue` refuses a `\u` without four digits. `cJSON.c` does not (`parse_hex4` returns 0 for
it), so `ParsesTheText` says that it accepts exactly the JSON values and the texts that
become one when each such literal is replaced by `\u0000` (`Mended`), and that the
tree is that of the mended text.

The definitions and the lines they stand for are in `map` of `PROJECT.json`. Some
definitions are mutations of the one that follows them (their comment says so):
they show that the property they are listed with can fail.

## 3. Runs

| run | asks | bounds | outcome |
|---|---|---|---|
| ring | `TypeOK`, `NoSlotRace`, `RingInv`, `ImplementsQueue`, `PushedIsPopped`, `PushGetsIn` | 4 slots, 3 pointers | pass, 134 000 states |
| data_plane | `DataPlaneInv` and its parts `NoLostWakeup`, `CtlFramed`, `WokenForKnownPort`; `FlowOrder`, `RingsDrain` | 2 ports, 2 workers, rings of 2, pipes of 1, 2 datagrams; no memory for one of the sockets | pass, 706 000 states |
| data_plane_stall | `DataPlaneListens` | the same | violated |
| data_plane_origin | `FloodSparesOrigin` | the same | violated |
| mac_table | `TypeOK`, `WalksEnd`, `AnswersAreGiven`, `SizeBoundsChain`, `ImplementsAddressTable` | 2 addresses, 2 ports; 2 workers, 4 lookups, 2 ticks, or 1 worker, 5 lookups, 4 ticks | pass, 4.8 million states |
| mac_table_relearn | `InsertResolves` | 1 worker, 4 ticks | violated |
| control_plane | `TypeOK`, `EventsStayGood`, `ToldWhenReady`, `PortsInOrder`, `RequestServed`, `PortsWatched` | 2 clients, 2 requests each, 3 ports | pass, 235 000 states |
| flow_table | `TypeOK`, `WildcardIsPrefix`, `ForgottenByTrie`, `ChainsHoldTheLiving`, `ImplementsFlowStore` | 4 keys of 0 or 2 bits, 2 buckets, 3 flows, 4 chunks of memory (symmetric) | pass, 1.2 million states |
| control_plane_close | `ListedAreConnected` | as control_plane | violated |
| switch | `TypeOK`, `ResolvesAsTheSystem`, `ClaimsHold`, `PoolBeforeFrames`, `AccessInBounds`, `LookupFinds`, `BootEnds` | every arrangement of up to 3 files, links and directories beside the working directory, 4 names, 3 links followed, 2 starts of the other switch, 2 workers, 2 sockets, 2 frames | pass, 539 000 states |
| config | `TypeOK`, `ParsesTheText`, `HeapIsSound`, `NothingLeaks`, `SettingsApplied` | texts of up to 3 tokens after several beginnings, strings of 2 pieces, nesting 2, command lines of up to 3 options | pass, 398 000 states |
| config_as_written | `ConfiguredAsWritten` | `--config` with one of 7 files | violated |

Why the bounds are enough for the interesting cases. A ring of four slots wraps
around, gets full and empty, and lets a view be up to three stores old. With rings
of one or two frames and pipes of one message the dispatcher meets full rings and
full pipes with two datagrams already, since a descriptor handled twice in a round
makes frames of its own. Clients send frames for either station, an IPv6 one and a runt;
a broadcast is what the uninitialized memory reads as, so that all kinds occur. One of the
two sockets may be refused by the fd table. Two addresses in one bucket and two workers are what it
takes to lose an entry and to have an address twice; with `TTL = 1` and
two ticks entries expire in the middle of lookups. With three port numbers (0 is never given
out) and four requests the ports run out. The four keys of the flow table are a
prefix of the others, two that branch at the second bit, and two that differ in their
masks only; three flows are enough to insert below, above and over one another and in
one bucket. Two flows and their inner nodes take all four chunks; an allocation may
fail at every point of a walk, and a deleted flow's chunk comes back as an entry and as
an inner node. The chunks are interchangeable (no definition names one), which
makes the symmetry sound. In the code a field is whole bytes; nothing depends on it.
The file systems of `switch` have absolute and relative links, links that lead to one
another or to themselves, with `.`, `..` and a slash at the end, files where
directories should be and directories that may not be searched; names and links are
long enough to exceed `PATH_MAX = 5` and `MAXSYMLINKS = 3`. The table of sockets
starts with one element, so that the sockets 2 and 5 make it grow twice or by several
doublings at once. The other switch starts a second time after it died, so that both
kinds of stale files are met. For the parser, beginnings such as `{"ports":24,` put
the errors deep into a text; with a nesting limit of 2 there are lists on either side
of it, and the 15 pieces are the boundaries of UTF-8 lengths and of surrogates and a `\u`
without digits. Among the files are `port\u0053\uZZZZx`, which names `ports`, and
`ports\u017f`, which does not.

Deadlock is checked for the ring. Elsewhere the system may stop: clients run out
of datagrams or requests (the bounds `MaxArrivals`, `MaxRequests`, `MaxCalls`,
`MaxTime`, `MaxFlows`, `MaxStarts`, `MaxFrames`), or an error ends the process.

The violated runs, in words:

- `data_plane_stall`: `data_plane.c:136` takes `events[0]` for every event. A
  round with `ctl_pipe` first and a frame second reads `ctl_pipe` twice, and the
  second `read` blocks until the next port is added.
- `data_plane_origin`: `thread_pool.c:51` pops all frames under the fd of one
  message. A frame of another port in the ring is attributed to that fd: it is
  flooded back to its sender and its source is learned on the wrong port.
- `mac_table_relearn`: `hash_table.c:42` does not set `valid` again, so an address
  that expired once is never resolved again.
- `control_plane_close`: `control_plane.c:180` closes the connection and nothing
  else: the endpoint stays listed, its port taken.
- `config_as_written`: `json.c:106` passes `&val` where `parse_opt` expects digits
  (`opts.c:46`): 24 is the bytes 24 0 0 0, no digits, hence 0 ports, and `init_ports`
  ends the process. (The number 50, the code of the digit 2, gives 2 ports.)

### Fairness

- RingBuffer: weak fairness of both threads (the dispatcher retries, the worker
  pops again) and strong fairness of the step that sees the other's store: C11
  asks that stores become visible in finite time.
- DataPlane: weak fairness of the dispatcher and of each worker (the kernel
  schedules runnable threads; a thread that waits is one whose action is not
  enabled) and of the two writes of a message once `add_port` is done. None for
  clients, the clock, or new ports.
- ControlPlane: weak fairness of the thread and of the reader of `ctl_pipe`. None
  for clients. The reader is the data plane as documented; `data_plane_stall`
  shows how the code's own reader can wait, and even then it waits for exactly
  this message.
- Switch: weak fairness of `Boot`, that is of `main` until its loop: it waits for
  nobody. None for the other switch, for clients, or for the other threads.

## 4. Proofs

`tlapm` checks the eight modules with theorems (those named `...Proofs`, and
SetInduction), for every value of the constants that satisfies the assumptions
`RingAssumption`, `DataPlaneAssumption`, `ControlPlaneAssumption`,
`MacTableAssumption`, `FlowTableAssumption`, `FdTableAssumption`, `PathAssumption`,
`SwitchAssumption`, `OptionsAssumption`: distinct names, finite sets where the code has finitely many (clients, workers,
sockets), sizes that are natural numbers, files that end. TLC evaluates them in every run, and has
checked each inductive invariant below on the states of the component's run.

*RingBuffer.* `RingInvariant` proves `RingInv`. `NoSlotRace` is not
inductive: that the producer may store follows from what it saw of `tail`, which
is old news by then. The invariant therefore says where the views are (`ViewsInOrder`:
going round from `seenTail` one meets `tail`, `seenHead`, `head`, within one lap)
and what each thread may rely on at each step (`ProducerKnows`, `ConsumerKnows`).
`SlotRaceFreedom` and `TypeCorrect` follow. `RingImplementsQueue` is the
refinement: each publish is a `Put` or a `Take` of the queue, every other step
leaves `Contents` unchanged. The lemmas on `Distance` and `Slots` carry the
arithmetic of the ring; the index is reduced by comparison instead of a bit mask,
so sizes that are not powers of two are covered as well.

*DataPlane.* `DataPlaneInvariant` proves the conjunction of `TypeOK`,
`NoLostWakeup`, `CtlFramed`, `WokenForKnownPort` and `SocketsKnown`. The last one
is the strengthening: it follows a socket through each place where it waits
(`adding`, `ctl_pipe`, `watched`, `event`, the workers' pipes), so that by the time
it wakes a worker it is known to have been offered to the fd table. One lemma per
conjunct, one step per action. From it: `NoWakeupLost`, `CtlPipeFramed`,
`PortKnownBeforeUse`, `DataPlaneTypeCorrect`, and `NotFoundOnlyIfRefused`: the error
`Endpoint not found` is reached only for a socket that the table had no memory for
(and it is reached then: `Switch` has the same step). `FlowsStayInOrder` proves the action property `FlowOrder` from a
second invariant, `OrderInv`: frames are numbered as they come and stay in order from
the dispatcher through the ring of their worker into its hands, and nothing sent of a
flow is younger than what is still on its way.

*ControlPlane.* `ControlPlaneInvariance` proves `ControlPlaneInv`. `EventsStayGood` is
about events that wait for their turn while handlers run and clients act; it needs that
each descriptor is reported once, that only its own handler takes its news, and that a
connection is closed by its own handler (`RoundInv`). `AddPortInv` is what each step of
`add_port` finds done by the one before, `PipeInv` that `ctl_pipe` holds whole
messages about registered endpoints, but for the half between two writes.
`RoundStaysGood`, `PortToldWhenReady`, `PortsNumbered` and `ControlPlaneTypeCorrect`
follow. Endpoints are counted against `portc` only while the process runs (`~ halted`):
an `add_port` that fails has taken a number and ends it.

*MacTable.* `MacTableInvariance` proves `MacTableInv`, for any number of workers. The
table has no lock and does lose and duplicate entries, so what holds is weaker than
the order of insertion: entries have *some* order in which every `next` leads downwards
(`OrderInv`), which a step changes only by putting an entry that nothing leads to
(`PrivateInv`) above the others; what is stored or under way was given for that address
(`GivenInv`); every entry is counted, under construction or about to be counted
(`CountInv`). That a walk ends (`EveryWalkEnds`) is then an induction over its length.
`NoStrangeAnswer`, `SizeKeepsUp` and `MacTableTypeCorrect` follow. `TableOfOneWorker` is
the refinement of AddressTable where one worker was started: the chain then holds every
entry but the one under construction, newest first, each address once (`AloneInv`), and
`SearchInv` says what the part of the chain that a search has passed was found to be;
`TableInv` reads the abstract table off the entries. The step that links an entry is
`Insert`, the load of a port `Resolve`, the store that makes an entry invalid `Lapse`.

*FlowTable.* `FlowTableInv` has a part about the chains, which hold the entries not
freed, newest first, each in the bucket of its key (`ChainInv`), and one about the trie,
which holds as long as no memory was handed out that the trie led to (`TrieInv`): every
chunk in the trie has one place, the path that leads to it (`PlacedInv`), an entry at the
end of its field; a chunk that is in no use is led to by nothing (`LooseInv`); a walk is
at the place its loop counter says (`WalkInv`); and what an entry missing from the trie
was hidden by (`LostInv`). `WildcardMatches`, `TrieForgets`, `ChainsHoldLiving` and
`FlowTableTypeCorrect` follow, and `ChainsImplementStore`, the refinement of FlowStore,
for which it does not matter what memory holds: the first entry with a key in a chain is
the newest.

*SetInduction.* The library's induction rule takes an operator as a parameter, which the
provers cannot instantiate. `AllNaturals` states induction of a *set* of numbers, and is
derived from the existence of least elements (`LeastNatural`), itself from the theorem
that finite sets are well-founded under inclusion. What `Walk` of MacTable does, a
function that recurs over a number, is proved with it; FlowTable uses the least elements
themselves, for the first entry of a chain with a key. `Iteration` is recursion: what
each step makes of the value before exists; Switch uses it for the walk through a name
and for the levels of links.

*FdTable* (in SwitchProofs). `FdInvariance` proves `FdInv`. What `AccessInBounds` and `LookupFinds` rest
on is that the capacity a worker may have compared with never exceeds the array, which
only grows (`InsertInv`, `LookupInv`), that an array whose address is read after the
capacity is long enough, even when it is given up later (`RoomInv`), and that every element below the capacity is
NULL or its own endpoint (`TableInv`), at each step of an insertion. `InBounds`,
`Finds` and `FdTypeCorrect` follow. `NeverAstray` needs no invariant of the
growing: as long as sockets are numbered below `FD_TABLE_INITIAL_SIZE` (1024) there
is no growing, and no lookup reads an array that was given up. Above, one can.

*Switch.* `SwitchInvariance` proves `TypeOK`, the invariant of the fd table, `ClaimInv`,
`PoolInv` and `NamedInv`. `ClaimInv` is what a switch knows at each step from its first `bind` to
`listen`, while its claim is the only one under way: that the file it found is still
there, that nobody listens on the one it unlinks, that there is none when it binds again.
`PoolInv` is why a data-plane thread without a pool is harmless: sockets to read frames
from are made in a loop that `main` enters after the pool is there. Hence
`SocketClaimsHold`, `PoolComesFirst`, `SwitchTypeCorrect`. `SwitchRunsFdTable` shows that
every behaviour of the switch is one of FdTable: it inserts one socket at a time and
looks up only what has been inserted. `SwitchInBounds` and `SwitchFinds` are then
FdTable's theorems.

`NamedInv` is about `vde_realpath`, for every file system and name (`WalkInv`): at each
component, the rest read from what is resolved so far means what the whole argument
means (`OnCourse`), and every directory on the way may be searched. It rests on two
facts about the reference. A name in front of another leads to where the other one
starts (`ReachJoins`), so splicing a link's name in front of the rest is the same as
reading the rest from where the link leads. And where links lead is settled at as many
levels as there are links (`LinksSettle`): each level says what the one before said and
more (`Extends`), a level that says no more is the last, and no more links can be said to
lead anywhere than there are; so links that nest deeper than that go in a circle and lead
nowhere. `DirResolvesAsTheSystem` follows, whatever `MAXSYMLINKS` and `PATH_MAX`.

*Options and JsonParser.* What follows is proved for every command line, every content
of the files and every nesting limit, wherever an allocation fails.

`UnescapedFits`: what `parse_string` puts out is never longer than what it allocated.
By induction from the end of the literal, a piece at a time: an escape gives room for
at least as many bytes as it turns into.

`OptionsInvariant` proves `HeapInv` (and where `process_options` is). Addresses only
grow, so each call of `parse_array` or `parse_object` has allocated what lies above the
head of its list; `Nested` says that open lists lie behind each other and that nothing
below a head leads to it or above, `Linked` that siblings mirror each other and that a
complete list does not end where another goes on, `Rooted` that all else is led to by
something, `Owned` that a string has one owner and fits. What `Delete` takes down is then
exactly what lies above an address (`ReachedAbove`), which is why nothing dangles
(`OptionsHeapIsSound`) and nothing is left (`OptionsNothingLeaks`). `OptionsTypes` is
type correctness, with the limit of the nesting.

`OptionsFollowFiles` proves `FileInv` and `SettingInv`. `FileInv` relates the tree to the
text while it is being read: there is a map from the named items of the outermost list to
the positions of the names in the text (`Tells`), in their order and onto all names read
so far, an item's number being that of the token behind its colon, if there is one;
the item at work waits for its own (`Awaited`). The depth at every
position read is the length of the stack (`DeepSteps`), so that names of inner objects are
told from those of the outermost. Hence `SettingInFile`: what `cJSON_GetObjectItem` finds
is what `InFile` says: the bytes that `parse_string` put out for a name match exactly if
what the literals spell does (`NameMatches`), since a name of a setting has no byte above
127 and both turn characters below 128 into themselves. `SettingInv` says that numports is always what the last of the
options passed so far gives that gives anything. `OptionsSettingsApplied` follows.

The induction over the four bytes that `atoi` reads, over the pieces of a string and over
a list goes through SetInduction: a function that recurs is shown to exist, a step at a
time, before what it returns is.

Only model-checked: all liveness (`PushedIsPopped`, `PushGetsIn`, `RingsDrain`,
`RequestServed`, `PortsWatched`, `BootEnds`), which is out of the prover's reach;
and `ParsesTheText`, whose references (`IsValue`, `Written`, `Units`) are recursive
operators. The five violated properties are refuted by their runs.

## 5. Not modelled, and why

- `add_port` as a whole is one step in DataPlane (its steps are in ControlPlane),
  the list and the fd table change together there; a flood is one step.
- Memory: frames are not freed (the code frees only frames it sends to one port), nor
  entries of the MAC table and endpoints. Allocations fail in FlowTable, in the fd table
  and in the parser, and FlowTable reuses what was freed; elsewhere memory that `malloc`
  or `calloc` did not give would be dereferenced (`hash_table.c:53`, `port.c:136`), of
  which nothing is said. Nor is anything after memory errors proper (the events array
  of one element, more threads than `MAX_THREADS`, a worker without a ring): they are
  hazards with a note, the last two a step that ends the model.
- A frame's bytes and the hash algorithm: `Steer` is any function of the header.
- Characters: names are lists of components and their lengths counted in components;
  a JSON text is a list of tokens, which whitespace may separate, and a number its
  integral value. `printlog` is what it does to control.
- Numbers in the file whose four bytes are all digits: `atoi` reads on beyond them.
- Errors of system calls that only lack of resources explains (`socket`, `pipe`,
  `epoll_ctl`), signals (`EINTR`), and a request split over two reads.
- What must become of a second request in one read, of a frame dispatched with nothing
  received, and of a switch whose `send` fails: the models have the steps, and no
  property forbids what the code does.
- Two switches that claim one socket at the same time can unlink each other's file;
  `ClaimsHold` is silent on claims that overlap (`raced`).
- Functions that nothing the switch runs calls: `remove_port`, `get_port`, `free_port`,
  `set_port_state`, `remove_fd`, `fd_table_remove`, `thread_pool_destroy` and the
  shutdown message, `close_ctl_pipe`, `mac_table_cleanup`; and the printing, editing,
  comparing and minifying three quarters of `cJSON.c`.
- The arena (one calloc), packet inspection (its call is commented out), empty files.

## 6. Plan

1. *Done*: RingBuffer, DataPlane, MacTable, ControlPlane, FlowTable; FdTable, RealPath,
   Switch; JsonString, JsonParser, JsonText, Options; with the proofs above.
2. *Toeplitz*: the hash as a recursive function against its definition by bits, with
   symmetric pairs of addresses. ControlPlane shown to implement the `ControlPlane`
   part of DataPlane, with the endpoint listed before it is registered.
3. Proofs: the refinement of ControlPlane just named.

Order: what all frames depend on first (ring, dispatch, workers), then what
decides where they go, then what brings ports into being, then what surrounds it.

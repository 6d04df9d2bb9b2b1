------------------------------- MODULE DataPlane -------------------------------
(***************************************************************************)
(* The forwarding path of the switch, end to end: the control plane hands  *)
(* over the data socket of a new port (add_port, send_ctl_message), the    *)
(* data-plane thread waits in epoll_wait for frames and for those messages *)
(* (data_plane.c), gives each frame to one worker (dispatch_packet,        *)
(* thread_pool_dispatch_packet), and the workers (thread_pool.c) learn     *)
(* addresses and send the frame on (forwarding_engine.c).                  *)
(*                                                                         *)
(* The threads share ctl_pipe, the endpoint list with the fd table, and    *)
(* for each worker a ring of frames and a pipe of messages; the workers    *)
(* share the table of learned addresses.  The ring is the bounded queue    *)
(* that RingBuffer is proved to implement.  Clients and the clock are the  *)
(* environment.  Locals of a thread are reset when they go out of scope.   *)
(***************************************************************************)
EXTENDS Integers, Sequences, FiniteSets

CONSTANTS
  Fd,            \* data sockets, one per port
  NoFd,          \* no socket: where a frame nobody sent comes from
  Large,         \* the sockets whose number the fd table must grow for
  Ctl,           \* the read end of ctl_pipe
  Worker,        \* the worker threads
  FirstWorker,   \* pool->workers[0]
  Header,        \* frame headers: [src, dst, v6]
  Runt,          \* a datagram shorter than an Ethernet header
  Datagram,      \* bound: what the clients may send
  Garbage,       \* bound: headers that uninitialized memory may read as
  Mac,           \* unicast addresses
  Steer,         \* compute_packet_hash % num_threads, by header
  RingCapacity,  \* RING_BUFFER_SIZE - 1
  PipeCapacity,  \* messages a worker's pipe holds before write() blocks
  MaxArrivals    \* bound: datagrams the clients send in all

ASSUME DataPlaneAssumption ==
  /\ IsFiniteSet(Fd) /\ Large \subseteq Fd
  /\ NoFd \notin Fd /\ Ctl \notin Fd /\ Ctl # NoFd /\ Runt \notin Header
  /\ Datagram \subseteq Header \cup {Runt} /\ Garbage \subseteq Header
  /\ FirstWorker \in Worker /\ Steer \in [Header -> Worker]
  /\ \A h \in Header : h.src \in Mac
  /\ RingCapacity \in Nat \ {0} /\ PipeCapacity \in Nat \ {0}
  /\ MaxArrivals \in Nat

VARIABLES
  inbox, arrivals,           \* receive queue of each data socket; datagrams sent so far
  cpc, adding,               \* the control plane: where it is, the socket it adds
  ctlPipe,                   \* ctl_pipe: for every port a header, then the socket
  portOf,                    \* the endpoint list: the port of each socket in it
  fdt, refused,              \* the sockets in the fd table; those it had no memory for
  watched,                   \* data sockets in data_plane_fds
  dpc, event, left, pkt,     \* the data-plane thread: events[0], how many iterations
                             \* of its loop are left, the packet it dispatches
  dispatched,                \* frames handed over so far: numbers them
  ring, pipe,                \* per worker
  wpc, wfd, wpkt, wout,      \* per worker: where it is, fd of the message, p, out_port
  mac,                       \* mac_table
  lastSent,                  \* per client and flow: number of the frame sent last
  halted                     \* printlog(ERROR, ...) called exit(1)

outside == <<inbox, arrivals>>
ports == <<portOf, fdt, refused>>
control == <<cpc, adding, ports>>
thread == <<watched, dpc, event, left, pkt, dispatched>>
workers == <<wpc, wfd, wpkt, wout, mac, lastSent>>
vars == <<outside, control, ctlPipe, thread, ring, pipe, workers, halted>>

NoPort == -1
Port == Nat \ {0}

\* A frame in the switch: its header, the socket it was received on, whether it
\* has a whole Ethernet header, and its number.
Packet == [hdr : Header, from : Fd \cup {NoFd}, whole : BOOLEAN, n : Nat]
NoPacket == [hdr |-> Runt, from |-> NoFd, whole |-> FALSE, n |-> 0]

\* An entry of the MAC table; one that was never inserted has no port.
Entry == [port : Port \cup {NoPort}, fresh : BOOLEAN, valid : BOOLEAN]

Init == /\ inbox = [f \in Fd |-> << >>] /\ arrivals = 0
        /\ cpc = "idle" /\ adding = NoFd /\ ctlPipe = << >>
        /\ portOf = [f \in Fd |-> NoPort] /\ fdt = {} /\ refused = {}
        /\ watched = {} /\ dpc = "wait" /\ event = NoFd /\ left = 0
        /\ pkt = NoPacket /\ dispatched = 0
        /\ ring = [w \in Worker |-> << >>] /\ pipe = [w \in Worker |-> << >>]
        /\ wpc = [w \in Worker |-> "idle"] /\ wfd = [w \in Worker |-> NoFd]
        /\ wpkt = [w \in Worker |-> NoPacket] /\ wout = [w \in Worker |-> NoPort]
        /\ mac = [m \in Mac |-> [port |-> NoPort, fresh |-> FALSE, valid |-> FALSE]]
        /\ lastSent = [f \in Fd |-> [h \in Header |-> 0]]
        /\ halted = FALSE

endpoints == {f \in Fd : portOf[f] # NoPort}

-------------------------------------------------------------------------------
(* The environment *)

\* A connected client sends a datagram to the switch.
Arrive(f, d) ==
  /\ ~ halted /\ f \in endpoints /\ arrivals < MaxArrivals
  /\ arrivals' = arrivals + 1
  /\ inbox' = [inbox EXCEPT ![f] = Append(@, d)]
  /\ UNCHANGED <<control, ctlPipe, thread, ring, pipe, workers, halted>>

\* ENTRY_TTL seconds pass after an address was last inserted.
Age(m) == /\ ~ halted /\ mac[m].fresh
          /\ mac' = [mac EXCEPT ![m].fresh = FALSE]
          /\ UNCHANGED <<outside, control, ctlPipe, thread, ring, pipe, wpc, wfd,
                         wpkt, wout, lastSent, halted>>

-------------------------------------------------------------------------------
(* The control plane: handle_wd_req serves one request at a time *)

\* When the table has to grow for the socket there may be no memory to.
fd_table_insert(f) ==
  \/ fdt' = fdt \cup {f} /\ UNCHANGED refused
  \/ f \in Large /\ refused' = refused \cup {f} /\ UNCHANGED fdt

\* Mutation of AddPort: a port is added while the message about the last one is
\* still being written.
AddPortUnserialized(f) ==
  /\ ~ halted /\ f \notin endpoints
  /\ portOf' = [portOf EXCEPT ![f] = Cardinality(endpoints) + 1]
  /\ fd_table_insert(f)
  /\ cpc' = "header" /\ adding' = f
  /\ UNCHANGED <<outside, ctlPipe, thread, ring, pipe, workers, halted>>

\* add_port: the new endpoint gets the next port number.  Whether the insertion
\* succeeded makes no difference to what follows.
AddPort(f) == /\ ~ halted /\ cpc = "idle" /\ f \notin endpoints
              /\ portOf' = [portOf EXCEPT ![f] = Cardinality(endpoints) + 1]
              /\ fd_table_insert(f)
              /\ cpc' = "header" /\ adding' = f
              /\ UNCHANGED <<outside, ctlPipe, thread, ring, pipe, workers, halted>>

\* send_ctl_message: one write for the header, one for the payload.
SendHeader == /\ ~ halted /\ cpc = "header"
              /\ ctlPipe' = Append(ctlPipe, Ctl)
              /\ cpc' = "payload"
              /\ UNCHANGED <<outside, adding, ports, thread, ring, pipe, workers, halted>>

SendPayload == /\ ~ halted /\ cpc = "payload"
               /\ ctlPipe' = Append(ctlPipe, adding)
               /\ cpc' = "idle" /\ adding' = NoFd
               /\ UNCHANGED <<outside, ports, thread, ring, pipe, workers, halted>>

-------------------------------------------------------------------------------
(* The data-plane thread *)

LoopAt(l) == ~ halted /\ dpc = l

Ready == {f \in watched : inbox[f] # << >>}
           \cup (IF ctlPipe = << >> THEN {} ELSE {Ctl})

\* epoll_wait fills events[]; the loop then runs once for each of them, but on
\* events[0] every time.  Which ready descriptor comes first is the kernel's
\* choice.
EpollWait == /\ LoopAt("wait")
             /\ event' \in Ready /\ left' = Cardinality(Ready)
             /\ dpc' = "event"
             /\ UNCHANGED <<outside, control, ctlPipe, watched, pkt, dispatched,
                            ring, pipe, workers, halted>>

\* The iteration for one event ends.
NextEvent == /\ left' = left - 1
             /\ dpc' = IF left = 1 THEN "wait" ELSE "event"
             /\ event' = IF left = 1 THEN NoFd ELSE event

\* Mutation of ReadCtlHeader: the message is taken for one without a payload.
ReadCtlHeaderOnly == /\ LoopAt("event") /\ event = Ctl
                     /\ ctlPipe # << >> /\ ctlPipe' = Tail(ctlPipe)
                     /\ NextEvent
                     /\ UNCHANGED <<outside, control, watched, pkt, dispatched, ring,
                                    pipe, workers, halted>>

\* handle_ctl_message reads the header: read() blocks while the pipe is empty.
ReadCtlHeader == /\ LoopAt("event") /\ event = Ctl
                 /\ ctlPipe # << >> /\ ctlPipe' = Tail(ctlPipe)
                 /\ dpc' = "payload"
                 /\ UNCHANGED <<outside, control, watched, event, left, pkt,
                                dispatched, ring, pipe, workers, halted>>

\* MSG_PORT_ADD: read the data socket and watch it.
ReadCtlPayload == /\ LoopAt("payload")
                  /\ ctlPipe # << >> /\ ctlPipe' = Tail(ctlPipe)
                  /\ watched' = watched \cup {Head(ctlPipe)}
                  /\ NextEvent
                  /\ UNCHANGED <<outside, control, pkt, dispatched, ring, pipe,
                                 workers, halted>>

Frame(h, f, full) == [hdr |-> h, from |-> f, whole |-> full, n |-> dispatched + 1]

\* What recv leaves in the malloc'ed packet.  With nothing to receive (or too
\* little) the header is what the heap held.
Received(f) ==
  IF inbox[f] = << >> THEN {Frame(h, NoFd, TRUE) : h \in Garbage}
  ELSE IF Head(inbox[f]) = Runt THEN {Frame(h, f, FALSE) : h \in Garbage}
  ELSE {Frame(Head(inbox[f]), f, TRUE)}

\* Mutation of WorkerOf: frames are dealt out in turn.
WorkerInTurn(p) == IF p.n % 2 = 0 \/ ~ p.whole THEN FirstWorker ELSE Steer[p.hdr]

\* compute_packet_hash % num_threads.  recv's -1 passes for a huge length.
WorkerOf(p) == IF p.whole THEN Steer[p.hdr] ELSE FirstWorker

\* dispatch_packet, up to the hand-over.
Receive == /\ LoopAt("event") /\ event \in Fd
           /\ pkt' \in Received(event)
           /\ inbox' = [inbox EXCEPT ![event] = IF @ = << >> THEN @ ELSE Tail(@)]
           /\ dispatched' = dispatched + 1
           /\ dpc' = "push"
           /\ UNCHANGED <<arrivals, control, ctlPipe, watched, event, left, ring,
                          pipe, workers, halted>>

\* thread_pool_dispatch_packet spins while the ring is full.
Push == /\ LoopAt("push")
        /\ Len(ring[WorkerOf(pkt)]) < RingCapacity
        /\ ring' = [ring EXCEPT ![WorkerOf(pkt)] = Append(@, pkt)]
        /\ dpc' = "notify"
        /\ UNCHANGED <<outside, control, ctlPipe, watched, event, left, pkt,
                       dispatched, pipe, workers, halted>>

\* Mutation of Notify: the message names the socket recv read from, if any.
NotifySource == /\ LoopAt("notify")
                /\ Len(pipe[WorkerOf(pkt)]) < PipeCapacity
                /\ pipe' = [pipe EXCEPT ![WorkerOf(pkt)] = Append(@, pkt.from)]
                /\ pkt' = NoPacket
                /\ NextEvent
                /\ UNCHANGED <<outside, control, ctlPipe, watched, dispatched, ring,
                               workers, halted>>

\* Mutation of Notify: always the first worker's pipe.
NotifyFirst == /\ LoopAt("notify")
               /\ Len(pipe[FirstWorker]) < PipeCapacity
               /\ pipe' = [pipe EXCEPT ![FirstWorker] = Append(@, event)]
               /\ pkt' = NoPacket
               /\ NextEvent
               /\ UNCHANGED <<outside, control, ctlPipe, watched, dispatched, ring,
                              workers, halted>>

\* It then writes the event's fd to the worker's pipe.
Notify == /\ LoopAt("notify")
          /\ Len(pipe[WorkerOf(pkt)]) < PipeCapacity
          /\ pipe' = [pipe EXCEPT ![WorkerOf(pkt)] = Append(@, event)]
          /\ pkt' = NoPacket
          /\ NextEvent
          /\ UNCHANGED <<outside, control, ctlPipe, watched, dispatched, ring,
                         workers, halted>>

-------------------------------------------------------------------------------
(* A worker *)

At(w, l) == ~ halted /\ wpc[w] = l

\* mac_table_lookup: the port, or -1; an expired entry is made invalid.
LookupResult(m) == IF mac[m].valid /\ mac[m].fresh THEN mac[m].port ELSE NoPort
AfterLookup(m) == [mac EXCEPT ![m].valid = @ /\ mac[m].fresh]

\* mac_table_insert: a new entry is valid, an old one keeps its valid flag.
AfterInsert(m, p) ==
  [mac EXCEPT ![m] = [port |-> p, fresh |-> TRUE,
                      valid |-> @.valid \/ @.port = NoPort]]

Goto(w, l) == wpc' = [wpc EXCEPT ![w] = l]

\* ep->port: the port of the fd in the message, if the fd table knows it.
Ingress(w) == IF wfd[w] \in fdt THEN portOf[wfd[w]] ELSE NoPort

ReadMessage(w) == /\ At(w, "idle") /\ pipe[w] # << >>
                  /\ wfd' = [wfd EXCEPT ![w] = Head(pipe[w])]
                  /\ pipe' = [pipe EXCEPT ![w] = Tail(@)]
                  /\ Goto(w, "drain")
                  /\ UNCHANGED <<outside, control, ctlPipe, thread, ring, wpkt,
                                 wout, mac, lastSent, halted>>

\* Mutation of PopNothing: the worker leaves its loop with frames in the ring.
PopNoMore(w) == /\ At(w, "drain")
                /\ Goto(w, "idle")
                /\ wfd' = [wfd EXCEPT ![w] = NoFd]
                /\ UNCHANGED <<outside, control, ctlPipe, thread, ring, pipe,
                               wpkt, wout, mac, lastSent, halted>>

PopNothing(w) == /\ At(w, "drain") /\ ring[w] = << >>
                 /\ Goto(w, "idle")
                 /\ wfd' = [wfd EXCEPT ![w] = NoFd]
                 /\ UNCHANGED <<outside, control, ctlPipe, thread, ring, pipe,
                                wpkt, wout, mac, lastSent, halted>>

\* The worker takes the next frame of its ring, whichever frame the message was
\* written for.  An fd without an endpoint is an ERROR.
Pop(w) == /\ At(w, "drain") /\ ring[w] # << >>
          /\ ring' = [ring EXCEPT ![w] = Tail(@)]
          /\ wpkt' = [wpkt EXCEPT ![w] = Head(ring[w])]
          /\ halted' = (Ingress(w) = NoPort)
          /\ Goto(w, "frame")
          /\ UNCHANGED <<outside, control, ctlPipe, thread, pipe, wfd, wout, mac,
                         lastSent>>

\* The loop goes on to the next frame.
Done(w) == /\ Goto(w, "drain")
           /\ wpkt' = [wpkt EXCEPT ![w] = NoPacket]
           /\ wout' = [wout EXCEPT ![w] = NoPort]

IsBroadcast(p) == p.hdr.dst \notin Mac

DropIPv6(w) == /\ At(w, "frame") /\ wpkt[w].hdr.v6
               /\ Done(w)
               /\ UNCHANGED <<outside, control, ctlPipe, thread, ring, pipe, wfd,
                              mac, lastSent, halted>>

\* mac_table_lookup of the destination.  A frame for the port it came from is
\* dropped.
LookupDst(w) ==
  /\ At(w, "frame") /\ ~ wpkt[w].hdr.v6 /\ ~ IsBroadcast(wpkt[w])
  /\ mac' = AfterLookup(wpkt[w].hdr.dst)
  /\ LET port == LookupResult(wpkt[w].hdr.dst)
     IN IF port = Ingress(w)
        THEN Done(w)
        ELSE /\ wout' = [wout EXCEPT ![w] = port]
             /\ Goto(w, "src") /\ UNCHANGED wpkt
  /\ UNCHANGED <<outside, control, ctlPipe, thread, ring, pipe, wfd, lastSent, halted>>

\* mac_table_lookup of the source.
LookupSrc(w) ==
  /\ At(w, "src")
  /\ mac' = AfterLookup(wpkt[w].hdr.src)
  /\ Goto(w, IF LookupResult(wpkt[w].hdr.src) = NoPort THEN "learn" ELSE "forward")
  /\ UNCHANGED <<outside, control, ctlPipe, thread, ring, pipe, wfd, wpkt, wout,
                 lastSent, halted>>

\* mac_table_insert of an unknown source.
Learn(w) == /\ At(w, "learn")
            /\ mac' = AfterInsert(wpkt[w].hdr.src, Ingress(w))
            /\ Goto(w, "forward")
            /\ UNCHANGED <<outside, control, ctlPipe, thread, ring, pipe, wfd, wpkt,
                           wout, lastSent, halted>>

\* lastSent is kept for the frames that have a flow.
SendTo(S, p) ==
  lastSent' = [f \in Fd |-> IF f \in S /\ p.whole
                            THEN [lastSent[f] EXCEPT ![p.hdr] = p.n]
                            ELSE lastSent[f]]

\* flood_packet: a send that fails loses the frame for that client.
Flood(w) == /\ \/ At(w, "forward") /\ wout[w] = NoPort
               \/ At(w, "frame") /\ ~ wpkt[w].hdr.v6 /\ IsBroadcast(wpkt[w])
            /\ \E S \in SUBSET {f \in endpoints : portOf[f] # Ingress(w)} :
                 SendTo(S, wpkt[w])
            /\ Done(w)
            /\ UNCHANGED <<outside, control, ctlPipe, thread, ring, pipe, wfd, mac,
                           halted>>

\* send_packet: with no endpoint on the port nothing is sent.
Send(w) == /\ At(w, "forward") /\ wout[w] # NoPort
           /\ SendTo({f \in endpoints : portOf[f] = wout[w]}, wpkt[w])
           /\ Done(w)
           /\ UNCHANGED <<outside, control, ctlPipe, thread, ring, pipe, wfd, mac,
                          halted>>

\* A send that fails there logs an ERROR, which ends the process.
SendFails(w) == /\ At(w, "forward") /\ \E f \in endpoints : portOf[f] = wout[w]
                /\ halted' = TRUE
                /\ UNCHANGED <<outside, control, ctlPipe, thread, ring, pipe, workers>>

-------------------------------------------------------------------------------
Client == \E f \in Fd, d \in Datagram : Arrive(f, d)

Clock == \E m \in Mac : Age(m)

ControlPlane == (\E f \in Fd : AddPort(f)) \/ SendHeader \/ SendPayload

Dispatcher == EpollWait \/ ReadCtlHeader \/ ReadCtlPayload \/ Receive \/ Push \/ Notify

WorkerStep(w) == \/ ReadMessage(w) \/ PopNothing(w) \/ Pop(w)
                 \/ DropIPv6(w) \/ LookupDst(w) \/ LookupSrc(w) \/ Learn(w)
                 \/ Flood(w) \/ Send(w) \/ SendFails(w)

Next == \/ Client \/ Clock \/ ControlPlane \/ Dispatcher
        \/ \E w \in Worker : WorkerStep(w)

Spec == Init /\ [][Next]_vars

\* The kernel schedules every thread that can run.  A request that was begun is
\* finished; clients and the clock may stop at any time.
Fairness == /\ WF_vars(Dispatcher)
            /\ WF_vars(SendHeader \/ SendPayload)
            /\ \A w \in Worker : WF_vars(WorkerStep(w))

FairSpec == Spec /\ Fairness

-------------------------------------------------------------------------------
(* Properties *)

\* Type correctness.
TypeOK ==
  /\ inbox \in [Fd -> Seq(Header \cup {Runt})] /\ arrivals \in Nat
  /\ cpc \in {"idle", "header", "payload"} /\ adding \in Fd \cup {NoFd}
  /\ ctlPipe \in Seq(Fd \cup {Ctl})
  /\ portOf \in [Fd -> Port \cup {NoPort}] /\ fdt \subseteq Fd /\ refused \subseteq Fd
  /\ watched \subseteq Fd /\ dpc \in {"wait", "event", "payload", "push", "notify"}
  /\ event \in Fd \cup {Ctl, NoFd} /\ left \in Nat /\ dispatched \in Nat
  /\ pkt \in Packet \cup {NoPacket}
  /\ ring \in [Worker -> Seq(Packet)] /\ pipe \in [Worker -> Seq(Fd)]
  /\ wpc \in [Worker -> {"idle", "drain", "frame", "src", "learn", "forward"}]
  /\ wfd \in [Worker -> Fd \cup {NoFd}] /\ wpkt \in [Worker -> Packet \cup {NoPacket}]
  /\ wout \in [Worker -> Port \cup {NoPort}]
  /\ mac \in [Mac -> Entry] /\ lastSent \in [Fd -> [Header -> Nat]]
  /\ halted \in BOOLEAN

\* The frame just pushed whose message is still to be written.
Unannounced(w) == IF dpc = "notify" /\ WorkerOf(pkt) = w THEN 1 ELSE 0

\* No lost wake-up: when a worker sleeps in read(), the frames in its ring are
\* outnumbered by the messages that will wake it up, counting the one the
\* dispatcher is about to write (push before write, pop until empty).
NoLostWakeup ==
  \A w \in Worker : wpc[w] = "idle" => Len(ring[w]) <= Len(pipe[w]) + Unannounced(w)

\* The two writes of a control message and the two reads of it stay in step: the
\* data plane never takes a socket for a header or a header for a socket, however
\* the writes and reads interleave.  pending is 1 between the two reads.
CtlFramed ==
  LET pending == IF dpc = "payload" THEN 1 ELSE 0
  IN /\ \A i \in 1 .. Len(ctlPipe) : ctlPipe[i] = Ctl <=> (i + pending) % 2 = 1
     /\ (Len(ctlPipe) + pending) % 2 = (IF cpc = "payload" THEN 1 ELSE 0)

\* The sockets add_port offered to the fd table.
Offered == fdt \cup refused

\* A worker is never woken up for a socket that was not offered to the fd table
\* first (a port is registered before the data plane hears of it), so that only a
\* socket there was no memory for ends the process; it works on frames of
\* registered sockets, and learns only their ports.
WokenForKnownPort ==
  /\ \A w \in Worker : wpc[w] # "idle" => wfd[w] \in Offered
  /\ \A w \in Worker : wpc[w] \notin {"idle", "drain"} /\ ~ halted => wfd[w] \in fdt
  /\ \A m \in Mac : mac[m].port = NoPort \/ \E f \in fdt : portOf[f] = mac[m].port

\* What is on its way to a worker, at every stage, is a socket of the endpoint list
\* that was offered to the fd table.
SocketsKnown ==
  /\ Offered \subseteq endpoints /\ fdt \cap refused = {}
  /\ cpc # "idle" => adding \in Offered
  /\ \A i \in 1 .. Len(ctlPipe) : ctlPipe[i] \in Offered \cup {Ctl}
  /\ watched \subseteq Offered
  /\ dpc # "wait" => left >= 1
  /\ dpc \in {"push", "notify"} => event \in Fd /\ pkt \in Packet
  /\ event \in Fd => event \in Offered
  /\ \A w \in Worker : \A i \in 1 .. Len(pipe[w]) : pipe[w][i] \in Offered

\* The inductive invariant behind NoLostWakeup, CtlFramed and WokenForKnownPort.
DataPlaneInv ==
  TypeOK /\ NoLostWakeup /\ CtlFramed /\ WokenForKnownPort /\ SocketsKnown

\* The frames of one flow (same source and destination) are sent to a client in
\* the order in which the switch received them (report.md, 2.1).
FlowOrder ==
  [][\A f \in Fd, h \in Header : lastSent'[f][h] >= lastSent[f][h]]_lastSent

\* A frame given to a worker is taken up: the ring it is in gets empty.
RingsDrain == \A w \in Worker : (ring[w] # << >>) ~> (ring[w] = << >> \/ halted)

\* A frame is flooded to every port but its own ("origin_port").
FloodSparesOrigin ==
  \A w \in Worker : wpkt[w].from # NoFd => wfd[w] = wpkt[w].from

\* What a client sends to a port the data plane watches is received.
DataPlaneListens ==
  \A f \in Fd : (f \in watched /\ inbox[f] # << >>) ~> (inbox[f] = << >> \/ halted)
===============================================================================

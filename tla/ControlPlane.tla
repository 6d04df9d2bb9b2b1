----------------------------- MODULE ControlPlane -----------------------------
(***************************************************************************)
(* The control-plane thread (control_plane.c) and what it calls to give a  *)
(* client a port: add_port (port_manager.c, port.c, fd_manager.c) and      *)
(* send_ctl_message (message.c).  Clients connect to the ctl socket, send  *)
(* requests and go away whenever they like, between any two system calls   *)
(* of the switch.  The data plane at the other end of ctl_pipe appears as  *)
(* the reader of its messages.                                             *)
(*                                                                         *)
(* A connection stands for its descriptor: a number the kernel hands out   *)
(* again belongs to a new connection.  printlog(ERROR, ...) ends the       *)
(* process, so every error return of the code is halted' = TRUE.           *)
(***************************************************************************)
EXTENDS Integers, Sequences, FiniteSets, SequencesExt

CONSTANTS Client,       \* the connections clients make
          Listen,       \* connect_fd, the listening ctl socket
          MSG_PORT_ADD, \* the header of a message to the data plane
          NUMPORTS,     \* numports: the ports in all, port 0 included
          MaxRequests   \* bound: requests a client sends

ASSUME ControlPlaneAssumption ==
  /\ IsFiniteSet(Client) /\ Listen \notin Client
  /\ NUMPORTS \in Nat \ {0} /\ MaxRequests \in Nat

VARIABLES
  away, gone,        \* clients that did not connect yet; that closed their sockets
  requests, sent,    \* what a client sent and the switch did not read; how much it sent
  backlog,           \* connections that wait for accept, oldest first
  ctl_plane_fds,     \* accepted connections that are not closed
  batch,             \* events of the last epoll_wait still to be handled
  pc, serving,       \* where the thread is, the connection it serves
  portc,             \* the next port number
  endpoints,         \* the endpoint list, newest first: [client, port]
  fdt,               \* fd_table: the endpoints whose data socket is registered
  refused,           \* endpoints fd_table_insert found no memory for
  replied,           \* clients that were told the name of the switch's socket
  ctl_pipe,          \* messages to the data plane: a header, then the endpoint
  watched,           \* endpoints the data plane listens to
  halted

clients == <<away, gone, requests, sent>>
loop == <<backlog, ctl_plane_fds, batch>>
ports == <<portc, endpoints, fdt, refused, replied>>
vars == <<clients, loop, pc, serving, ports, ctl_pipe, watched, halted>>

Request == {"v1", "v2", "v3", "junk"}
Endpoint == [client : Client, port : Nat]

Init == /\ away = Client /\ gone = {}
        /\ requests = [c \in Client |-> << >>] /\ sent = [c \in Client |-> 0]
        /\ backlog = << >> /\ ctl_plane_fds = {} /\ batch = << >>
        /\ pc = "wait" /\ serving = Listen
        /\ portc = 1 /\ endpoints = << >> /\ fdt = {} /\ refused = {} /\ replied = {}
        /\ ctl_pipe = << >> /\ watched = {} /\ halted = FALSE

-------------------------------------------------------------------------------
(* Clients *)

Connect(c) == /\ ~ halted /\ c \in away
              /\ away' = away \ {c}
              /\ backlog' = Append(backlog, c)
              /\ UNCHANGED <<gone, requests, sent, ctl_plane_fds, batch, pc, serving,
                             ports, ctl_pipe, watched, halted>>

Ask(c, r) == /\ ~ halted /\ c \notin away \cup gone /\ sent[c] < MaxRequests
             /\ requests' = [requests EXCEPT ![c] = Append(@, r)]
             /\ sent' = [sent EXCEPT ![c] = @ + 1]
             /\ UNCHANGED <<away, gone, loop, pc, serving, ports, ctl_pipe, watched, halted>>

\* The client closes its connection and its data socket.
Leave(c) == /\ ~ halted /\ c \notin away \cup gone
            /\ gone' = gone \cup {c}
            /\ UNCHANGED <<away, requests, sent, loop, pc, serving, ports, ctl_pipe,
                           watched, halted>>

-------------------------------------------------------------------------------
(* ctl_plane_loop *)

At(l) == ~ halted /\ pc = l

Ready == {c \in ctl_plane_fds : requests[c] # << >> \/ c \in gone}
           \cup (IF backlog = << >> THEN {} ELSE {Listen})

\* Each ready descriptor is reported once, in any order.
EpollWait == /\ At("wait") /\ Ready # {}
             /\ batch' \in SetToSeqs(Ready)
             /\ pc' = "event"
             /\ UNCHANGED <<clients, backlog, ctl_plane_fds, serving, ports, ctl_pipe,
                            watched, halted>>

\* Mutation of NextEvent: the loop looks at events[0] every time.
NextEventSame == /\ batch' = IF Len(batch) = 1 THEN << >> ELSE <<batch[1]>> \o SubSeq(batch, 3, Len(batch))
                 /\ pc' = IF Len(batch) = 1 THEN "wait" ELSE "event"
                 /\ serving' = Listen

\* The handler of an event returns.
NextEvent == /\ batch' = Tail(batch)
             /\ pc' = IF Len(batch) = 1 THEN "wait" ELSE "event"
             /\ serving' = Listen

\* A descriptor is watched from now on.  The data plane's set is the other one.
add_fd(fd) == ctl_plane_fds' = ctl_plane_fds \cup {fd}

\* accept_new_ctl_conn.  Its errors end the process.
Accept == /\ At("event") /\ Head(batch) = Listen
          /\ add_fd(Head(backlog))
          /\ backlog' = Tail(backlog)
          /\ NextEvent
          /\ UNCHANGED <<clients, ports, ctl_pipe, watched, halted>>

\* Mutation of Close: a hang-up closes the connection, whatever is left to read.
CloseOnHangup == LET c == Head(batch)
                 IN /\ At("event") /\ c # Listen /\ c \in gone
                    /\ ctl_plane_fds' = ctl_plane_fds \ {c}
                    /\ NextEvent
                    /\ UNCHANGED <<clients, backlog, ports, ctl_pipe, watched, halted>>

\* handle_wd_req, read() = 0: the connection is closed, and that is all.
Close == LET c == Head(batch)
         IN /\ At("event") /\ c # Listen /\ requests[c] = << >> /\ c \in gone
            /\ ctl_plane_fds' = ctl_plane_fds \ {c}
            /\ NextEvent
            /\ UNCHANGED <<clients, backlog, ports, ctl_pipe, watched, halted>>

\* read() = -1: the client closed its end without having read the reply.
Reset == LET c == Head(batch)
         IN /\ At("event") /\ c # Listen /\ requests[c] = << >>
            /\ c \in gone /\ c \in replied
            /\ halted' = TRUE
            /\ UNCHANGED <<clients, loop, pc, serving, ports, ctl_pipe, watched>>

\* read() = -1: there is nothing to read on the connection.
ReadFails == LET c == Head(batch)
             IN At("event") /\ c # Listen /\ requests[c] = << >> /\ c \notin gone

\* A read takes what there is on the stream, up to two requests; the first one is
\* looked at.
Read(n) == /\ At("event") /\ Head(batch) # Listen
           /\ n <= Len(requests[Head(batch)])
           /\ requests' = [requests EXCEPT ![Head(batch)] = SubSeq(@, n + 1, Len(@))]

FirstRequest == Head(requests[Head(batch)])

\* A version 1 request, or a wrong magic number, is read and left unanswered.
Ignore == /\ \E n \in 1 .. 2 : Read(n)
          /\ FirstRequest \in {"v1", "junk"}
          /\ NextEvent
          /\ UNCHANGED <<away, gone, sent, backlog, ctl_plane_fds, ports, ctl_pipe,
                         watched, halted>>

\* A version the switch does not support is an ERROR.
Reject == /\ \E n \in 1 .. 2 : Read(n)
          /\ FirstRequest = "v2"
          /\ halted' = TRUE
          /\ UNCHANGED <<away, gone, sent, loop, pc, serving, ports, ctl_pipe, watched>>

\* add_port begins: the data socket is connected to the client's.
BeginAddPort == /\ \E n \in 1 .. 2 : Read(n)
                /\ FirstRequest = "v3"
                /\ serving' = Head(batch)
                /\ pc' = "endpoint"
                /\ halted' = (Head(batch) \in gone)
                /\ UNCHANGED <<away, gone, sent, loop, ports, ctl_pipe, watched>>

\* alloc_port: an ERROR from NUMPORTS on; below, the port was never taken.
alloc_port_fails(portno) == portno >= NUMPORTS

\* alloc_endpoint
NewEndpoint(portno) == [client |-> serving, port |-> portno]

\* Mutation of AddEndpoint: port numbers without a bound.
AddEndpointUnbounded ==
  /\ At("endpoint")
  /\ portc' = portc + 1
  /\ endpoints' = <<NewEndpoint(portc)>> \o endpoints
  /\ pc' = "reply"
  /\ UNCHANGED <<clients, loop, serving, fdt, refused, replied, ctl_pipe, watched, halted>>

\* Mutation of AddEndpoint: every endpoint gets the same number.
AddEndpointSamePort ==
  /\ At("endpoint")
  /\ endpoints' = <<NewEndpoint(portc)>> \o endpoints
  /\ pc' = "reply"
  /\ UNCHANGED <<clients, loop, serving, portc, fdt, refused, replied, ctl_pipe, watched,
                 halted>>

\* alloc_endpoint(portc++, ...): no port is left from NUMPORTS on.
AddEndpoint == /\ At("endpoint")
               /\ portc' = portc + 1
               /\ endpoints' = IF alloc_port_fails(portc) THEN endpoints
                               ELSE <<NewEndpoint(portc)>> \o endpoints
               /\ halted' = alloc_port_fails(portc)
               /\ pc' = "reply"
               /\ UNCHANGED <<clients, loop, serving, fdt, refused, replied, ctl_pipe,
                              watched>>

\* Mutation of Reply: the data plane is told before the socket is registered.
ReplyThenTell == /\ At("reply")
                 /\ replied' = replied \cup {serving}
                 /\ halted' = (serving \in gone)
                 /\ pc' = "header"
                 /\ UNCHANGED <<clients, loop, serving, portc, endpoints, fdt, refused,
                                ctl_pipe, watched>>

\* bind, and write the name of the socket to the client.
Reply == /\ At("reply")
         /\ replied' = replied \cup {serving}
         /\ halted' = (serving \in gone)
         /\ pc' = "register"
         /\ UNCHANGED <<clients, loop, serving, portc, endpoints, fdt, refused, ctl_pipe,
                        watched>>

\* The table grows for a socket beyond its end, and may find no memory for it.
\* add_port does not look at the result.
fd_table_insert(e) == \/ fdt' = fdt \cup {e} /\ UNCHANGED refused
                      \/ refused' = refused \cup {e} /\ UNCHANGED fdt

\* Mutation of Register: the data plane is not told.
RegisterOnly == /\ At("register")
                /\ fd_table_insert(Head(endpoints))
                /\ NextEvent
                /\ UNCHANGED <<clients, backlog, ctl_plane_fds, portc, endpoints, replied,
                               ctl_pipe, watched, halted>>

Register == /\ At("register")
            /\ fd_table_insert(Head(endpoints))
            /\ pc' = "header"
            /\ UNCHANGED <<clients, loop, serving, portc, endpoints, replied, ctl_pipe,
                           watched, halted>>

\* send_ctl_message: a write for the header and one for the socket.
SendHeader == /\ At("header")
              /\ ctl_pipe' = Append(ctl_pipe, MSG_PORT_ADD)
              /\ pc' = "payload"
              /\ UNCHANGED <<clients, loop, serving, ports, watched, halted>>

SendPayload == /\ At("payload")
               /\ ctl_pipe' = Append(ctl_pipe, Head(endpoints))
               /\ NextEvent
               /\ UNCHANGED <<clients, backlog, ctl_plane_fds, ports, watched, halted>>

-------------------------------------------------------------------------------
\* The data plane reads a header and the socket behind it, waiting for the latter.
TellDataPlane == /\ ~ halted /\ Len(ctl_pipe) >= 2
                 /\ watched' = watched \cup {ctl_pipe[2]}
                 /\ ctl_pipe' = SubSeq(ctl_pipe, 3, Len(ctl_pipe))
                 /\ UNCHANGED <<clients, loop, pc, serving, ports, halted>>

Clients == \E c \in Client : Connect(c) \/ Leave(c) \/ \E r \in Request : Ask(c, r)

Thread == \/ EpollWait \/ Accept \/ Close \/ Reset \/ Ignore \/ Reject
          \/ BeginAddPort \/ AddEndpoint \/ Reply \/ Register \/ SendHeader \/ SendPayload

Next == Clients \/ Thread \/ TellDataPlane

Spec == Init /\ [][Next]_vars

\* Both threads of the switch go on as long as they can; the clients need not.
FairSpec == Spec /\ WF_vars(Thread) /\ WF_vars(TellDataPlane)

-------------------------------------------------------------------------------
(* Properties *)

\* Type correctness.
TypeOK ==
  /\ away \subseteq Client /\ gone \subseteq Client \ away
  /\ requests \in [Client -> Seq(Request)] /\ sent \in [Client -> 0 .. MaxRequests]
  /\ backlog \in Seq(Client) /\ ctl_plane_fds \subseteq Client
  /\ batch \in Seq(Client \cup {Listen}) /\ serving \in Client \cup {Listen}
  /\ pc \in {"wait", "event", "endpoint", "reply", "register", "header", "payload"}
  /\ portc \in 1 .. NUMPORTS + 1 /\ endpoints \in Seq(Endpoint)
  /\ fdt \subseteq Endpoint /\ refused \subseteq Endpoint /\ replied \subseteq Client
  /\ ctl_pipe \in Seq(Endpoint \cup {MSG_PORT_ADD}) /\ watched \subseteq Endpoint
  /\ halted \in BOOLEAN

Listed == {endpoints[i] : i \in 1 .. Len(endpoints)}

\* The endpoints add_port is done with.
Offered == fdt \cup refused

\* The events of a round stay good until their turn comes, whatever the handlers
\* before them accept or close: none is for a closed connection, and a read never
\* finds nothing (which would end the process).
EventsStayGood ==
  /\ \A i \in 1 .. Len(batch) : batch[i] = Listen => backlog # << >>
  /\ \A i \in 1 .. Len(batch) : batch[i] # Listen => batch[i] \in ctl_plane_fds
  /\ ~ ReadFails

\* The data plane hears of a port only when everything it takes to use it has been
\* done: the endpoint is listed, the client knows where to send, and the socket was
\* offered to the fd table, so that it is missing there only if there was no memory.
ToldWhenReady ==
  \A e \in watched \cup ({ctl_pipe[i] : i \in 1 .. Len(ctl_pipe)} \ {MSG_PORT_ADD}) :
    e \in Listed /\ e \in Offered /\ e.client \in replied

\* No two endpoints ever share a port, and the ports in use are 1, 2, 3, ...
\* below NUMPORTS, the newest at the head of the list.
PortsInOrder ==
  /\ \A i \in 1 .. Len(endpoints) : endpoints[i].port = Len(endpoints) + 1 - i
  /\ Len(endpoints) < NUMPORTS

\* A request for a port at the front of a stream is served: its client gets one more
\* endpoint than it has, even if it has gone by then.  Of a second request the same
\* read() takes nothing is said: handle_wd_req drops it unanswered.
RequestServed ==
  \A c \in Client, n \in 0 .. MaxRequests - 1 :
    LET Served == Cardinality({e \in Offered : e.client = c})
    IN (c \in ctl_plane_fds /\ requests[c] # << >> /\ Head(requests[c]) = "v3" /\ Served = n)
         ~> (Served > n \/ halted)

\* An endpoint that is listed gets to the data plane.
PortsWatched ==
  \A c \in Client, p \in 1 .. NUMPORTS :
    LET e == [client |-> c, port |-> p]
    IN (e \in Listed) ~> (e \in watched \/ halted)

\* The list holds the endpoints of the clients that are connected: once the
\* switch has closed a connection, its port is gone from it.
ListedAreConnected ==
  \A e \in Listed : e.client \in ctl_plane_fds
===============================================================================

-------------------------- MODULE ControlPlaneProofs --------------------------
(***************************************************************************)
(* Proofs about ControlPlane, for every finite set of clients and every    *)
(* number of ports and requests.                                           *)
(***************************************************************************)
EXTENDS ControlPlane, FiniteSetTheorems, SequenceTheorems, TLAPS

Stage == {"endpoint", "reply", "register", "header", "payload"}

\* The events of a round: each descriptor once, the listening socket only while
\* connections wait, a connection only while it is open and has news.  The news of
\* the first event are taken when its handler starts.
RoundInv ==
  /\ pc = "wait" <=> batch = << >>
  /\ \A i, j \in 1 .. Len(batch) : batch[i] = batch[j] => i = j
  /\ \A i \in 1 .. Len(batch) :
       IF batch[i] = Listen THEN backlog # << >> ELSE batch[i] \in ctl_plane_fds
  /\ ~ halted => \A i \in 1 .. Len(batch) :
       batch[i] # Listen /\ (i = 1 => pc = "event")
         => requests[batch[i]] # << >> \/ batch[i] \in gone
  /\ pc \in Stage => serving = batch[1] /\ serving \in Client

\* What add_port has done when it is where it is.
AddPortInv ==
  /\ ~ halted => Len(endpoints) = portc - 1 /\ portc <= NUMPORTS
  /\ Len(endpoints) < NUMPORTS
  /\ \A i \in 1 .. Len(endpoints) : endpoints[i].port = Len(endpoints) + 1 - i
  /\ ~ halted /\ pc \in Stage \ {"endpoint"} =>
       endpoints # << >> /\ endpoints[1].client = serving
  /\ pc \in {"register", "header", "payload"} => serving \in replied
  /\ pc \in {"header", "payload"} /\ ~ halted => endpoints[1] \in Offered
  /\ \A e \in Offered : e \in Listed /\ e.client \in replied

\* ctl_pipe holds pairs of a header and an endpoint offered to the fd table, and half a pair
\* between the two writes of send_ctl_message.
PipeInv ==
  /\ pc = "payload" <=> Len(ctl_pipe) % 2 = 1
  /\ \A i \in 1 .. Len(ctl_pipe) :
       IF i % 2 = 1 THEN ctl_pipe[i] = MSG_PORT_ADD ELSE ctl_pipe[i] \in Offered
  /\ watched \subseteq Offered

ControlPlaneInv == TypeOK /\ RoundInv /\ AddPortInv /\ PipeInv

-------------------------------------------------------------------------------
(* Operators of the model *)

\* epoll_wait reports what is ready, each descriptor once, and something.
LEMMA EventsOfARound ==
  ASSUME TypeOK, NEW b \in SetToSeqs(Ready), Ready # {}
  PROVE  /\ b \in Seq(Client \cup {Listen}) /\ b # << >>
         /\ \A i \in 1 .. Len(b) : b[i] \in Ready
         /\ \A i, j \in 1 .. Len(b) : b[i] = b[j] => i = j
<1>1. Ready \subseteq Client \cup {Listen}
  BY DEF Ready, TypeOK
<1>2. IsFiniteSet(Ready)
  BY <1>1, ControlPlaneAssumption, FS_AddElement, FS_Subset
<1>3. Cardinality(Ready) \in Nat /\ Cardinality(Ready) # 0
  BY <1>2, FS_CardinalityType, FS_EmptySet
<1>4. /\ b \in [1 .. Cardinality(Ready) -> Ready]
      /\ \A i, j \in 1 .. Cardinality(Ready) : i # j => b[i] # b[j]
  BY DEF SetToSeqs
<1>5. b \in Seq(Ready) /\ Len(b) = Cardinality(Ready)
  BY <1>3, <1>4
<1>. QED
  BY <1>1, <1>3, <1>4, <1>5

\* What is left of a round when the handler of its first event returns.
LEMMA RestOfRound ==
  ASSUME TypeOK, batch # << >>
  PROVE  /\ Len(batch) \in Nat \ {0} /\ Head(batch) = batch[1]
         /\ Tail(batch) \in Seq(Client \cup {Listen})
         /\ Len(Tail(batch)) = Len(batch) - 1
         /\ \A i \in 1 .. Len(batch) - 1 : Tail(batch)[i] = batch[i + 1]
         /\ Tail(batch) = << >> <=> Len(batch) = 1
<1>. DEFINE Fds == Client \cup {Listen}
<1>1. batch \in Seq(Fds)
  BY DEF TypeOK
<1>2. Len(batch) \in Nat \ {0}
  BY <1>1, EmptySeq
<1>3. Head(batch) = batch[1]
  OBVIOUS
<1>. HIDE DEF Fds
<1>4. /\ Tail(batch) \in Seq(Fds) /\ Len(Tail(batch)) = Len(batch) - 1
      /\ \A i \in 1 .. Len(batch) - 1 : Tail(batch)[i] = batch[i + 1]
  BY <1>1, <1>2, HeadTailProperties
<1>5. Tail(batch) = << >> <=> Len(Tail(batch)) = 0
  BY <1>4, EmptySeq
<1>. QED
  BY <1>2, <1>3, <1>4, <1>5 DEF Fds

-------------------------------------------------------------------------------
(* The inductive invariant *)

\* Nothing is open, listed or written when the switch starts.
LEMMA InitControlPlaneInv == Init => ControlPlaneInv
<1>. SUFFICES ASSUME Init PROVE ControlPlaneInv
  OBVIOUS
<1>. USE ControlPlaneAssumption DEF Init
<1>1. TypeOK
  <2>1. requests \in [Client -> Seq(Request)] /\ sent \in [Client -> 0 .. MaxRequests]
    OBVIOUS
  <2>2. /\ backlog \in Seq(Client) /\ batch \in Seq(Client \cup {Listen})
        /\ endpoints \in Seq(Endpoint) /\ ctl_pipe \in Seq(Endpoint \cup {MSG_PORT_ADD})
    OBVIOUS
  <2>3. /\ away \subseteq Client /\ gone \subseteq Client \ away /\ ctl_plane_fds \subseteq Client
        /\ fdt \subseteq Endpoint /\ refused \subseteq Endpoint
        /\ replied \subseteq Client /\ watched \subseteq Endpoint
    BY ONLY Init DEF Init
  <2>4. portc \in 1 .. NUMPORTS + 1
    <3>1. portc = 1 /\ NUMPORTS \in Nat
      OBVIOUS
    <3>. QED
      BY ONLY <3>1
  <2>5. serving \in Client \cup {Listen} /\ pc = "wait" /\ halted \in BOOLEAN
    BY ONLY Init DEF Init
  <2>. QED
    BY ONLY <2>1, <2>2, <2>3, <2>4, <2>5 DEF TypeOK
<1>2. RoundInv /\ AddPortInv
  BY DEF RoundInv, AddPortInv, Stage, Offered, Listed
<1>3. PipeInv
  BY DEF PipeInv, Offered
<1>. QED
  BY <1>1, <1>2, <1>3 DEF ControlPlaneInv

\* Every step keeps the types.
LEMMA StepTypeOK == ControlPlaneInv /\ [Next]_vars => TypeOK'
<1>. SUFFICES ASSUME ControlPlaneInv, [Next]_vars PROVE TypeOK'
  OBVIOUS
<1>. USE ControlPlaneAssumption DEF ControlPlaneInv, At, clients, loop, ports
<1>1. ASSUME NEW c \in Client, Connect(c) \/ Leave(c) PROVE TypeOK'
  <2>1. CASE Connect(c)
    <3>1. backlog' \in Seq(Client)
      BY <2>1 DEF TypeOK, Connect
    <3>. QED
      BY <2>1, <3>1 DEF TypeOK, Connect
  <2>2. CASE Leave(c)
    BY <2>2 DEF TypeOK, Leave
  <2>. QED
    BY <1>1, <2>1, <2>2
<1>2. ASSUME NEW c \in Client, NEW r \in Request, Ask(c, r) PROVE TypeOK'
  <2>1. /\ requests' \in [Client -> Seq(Request)]
        /\ sent' \in [Client -> 0 .. MaxRequests]
    BY <1>2 DEF TypeOK, Ask
  <2>. QED
    BY <1>2, <2>1 DEF TypeOK, Ask
<1>3. CASE EpollWait
  BY <1>3, EventsOfARound DEF TypeOK, EpollWait
<1>4. CASE Accept
  <2>1. batch # << >> /\ backlog # << >> /\ batch[1] = Listen
    BY <1>4, RestOfRound DEF Accept, RoundInv
  <2>2. Head(backlog) \in Client /\ Tail(backlog) \in Seq(Client)
    BY <2>1 DEF TypeOK
  <2>. QED
    BY <1>4, <2>1, <2>2, RestOfRound DEF TypeOK, Accept, NextEvent, add_fd
<1>5. CASE Close
  <2>1. batch # << >>
    BY <1>5 DEF Close, RoundInv
  <2>. QED
    BY <1>5, <2>1, RestOfRound DEF TypeOK, Close, NextEvent
<1>6. CASE Reset
  BY <1>6 DEF TypeOK, Reset
<1>7. ASSUME NEW n \in 1 .. 2, Read(n)
      PROVE  requests' \in [Client -> Seq(Request)] /\ batch # << >> /\ Head(batch) \in Client
  <2>1. batch # << >>
    BY <1>7 DEF Read, RoundInv
  <2>2. Head(batch) \in Client
    BY <1>7, <2>1, RestOfRound DEF Read, TypeOK
  <2>3. /\ requests[Head(batch)] \in Seq(Request)
        /\ n <= Len(requests[Head(batch)]) /\ n \in Nat
    BY <1>7, <2>2 DEF Read, TypeOK
  <2>4. SubSeq(requests[Head(batch)], n + 1, Len(requests[Head(batch)])) \in Seq(Request)
    BY <2>3
  <2>. QED
    BY <1>7, <2>1, <2>2, <2>4 DEF Read, TypeOK
<1>8. CASE Ignore
  BY <1>7, <1>8, RestOfRound DEF TypeOK, Ignore, NextEvent
<1>9. CASE Reject
  BY <1>7, <1>9 DEF TypeOK, Reject
<1>10. CASE BeginAddPort
  BY <1>7, <1>10 DEF TypeOK, BeginAddPort
<1>11. CASE AddEndpoint
  <2>1. NewEndpoint(portc) \in Endpoint
    BY <1>11 DEF AddEndpoint, NewEndpoint, Endpoint, TypeOK, RoundInv, Stage
  <2>2. <<NewEndpoint(portc)>> \o endpoints \in Seq(Endpoint)
    BY <2>1 DEF TypeOK
  <2>3. portc + 1 \in 1 .. NUMPORTS + 1
    BY <1>11 DEF AddEndpoint, AddPortInv, TypeOK
  <2>. QED
    BY <1>11, <2>2, <2>3 DEF TypeOK, AddEndpoint, alloc_port_fails
<1>12. CASE Reply
  BY <1>12 DEF TypeOK, Reply, RoundInv, Stage
<1>13. CASE Register
  <2>1. Head(endpoints) \in Endpoint
    BY <1>13 DEF TypeOK, Register, AddPortInv, Stage
  <2>. QED
    BY <1>13, <2>1 DEF TypeOK, Register, fd_table_insert
<1>14. CASE SendHeader
  BY <1>14 DEF TypeOK, SendHeader
<1>15. CASE SendPayload
  <2>1. Head(endpoints) \in Endpoint
    BY <1>15 DEF TypeOK, SendPayload, AddPortInv, Stage
  <2>2. batch # << >>
    BY <1>15 DEF SendPayload, RoundInv
  <2>. QED
    BY <1>15, <2>1, <2>2, RestOfRound DEF TypeOK, SendPayload, NextEvent
<1>16. CASE TellDataPlane
  <2>1. Len(ctl_pipe) \in Nat /\ Len(ctl_pipe) >= 2
    BY <1>16 DEF TellDataPlane, TypeOK
  <2>2. ctl_pipe[2] \in Endpoint
    BY <2>1 DEF PipeInv, Offered, TypeOK
  <2>3. SubSeq(ctl_pipe, 3, Len(ctl_pipe)) \in Seq(Endpoint \cup {MSG_PORT_ADD})
    BY <2>1 DEF TypeOK
  <2>. QED
    BY <1>16, <2>2, <2>3 DEF TypeOK, TellDataPlane
<1>17. CASE UNCHANGED vars
  BY <1>17 DEF TypeOK, vars
<1>. QED
  BY <1>1, <1>2, <1>3, <1>4, <1>5, <1>6, <1>8, <1>9, <1>10, <1>11, <1>12, <1>13, <1>14,
     <1>15, <1>16, <1>17 DEF Next, Clients, Thread

\* Every step leaves the events of the round true: what has been reported stays ready
\* until its own handler takes it.
LEMMA StepRoundInv == ControlPlaneInv /\ [Next]_vars => RoundInv'
<1>. SUFFICES ASSUME ControlPlaneInv, [Next]_vars PROVE RoundInv'
  OBVIOUS
<1>. USE ControlPlaneAssumption DEF At, clients, loop, ports, Stage
<1>0. TypeOK /\ RoundInv
  BY DEF ControlPlaneInv
<1>1. ASSUME NEW c \in Client, Connect(c) PROVE RoundInv'
  <2>1. backlog' # << >>
    BY <1>0, <1>1 DEF TypeOK, Connect
  <2>. QED
    BY <1>0, <1>1, <2>1 DEF RoundInv, Connect
<1>2. ASSUME NEW c \in Client, Leave(c) PROVE RoundInv'
  BY <1>0, <1>2 DEF RoundInv, Leave
<1>3. ASSUME NEW c \in Client, NEW r \in Request, Ask(c, r) PROVE RoundInv'
  <2>1. \A d \in Client : requests[d] # << >> => requests'[d] # << >>
    <3>0. requests[c] \in Seq(Request)
      BY <1>0 DEF TypeOK
    <3>1. Append(requests[c], r) # << >>
      BY <3>0, AppendProperties
    <3>2. requests' = [requests EXCEPT ![c] = Append(requests[c], r)]
      BY <1>3 DEF Ask
    <3>3. requests \in [Client -> Seq(Request)]
      BY <1>0 DEF TypeOK
    <3>. QED
      BY ONLY <3>1, <3>2, <3>3
  <2>2. \A i \in 1 .. Len(batch) : batch[i] # Listen => batch[i] \in Client
    BY <1>0 DEF RoundInv, TypeOK
  <2>. QED
    BY <1>0, <1>3, <2>1, <2>2 DEF RoundInv, Ask
<1>4. CASE EpollWait
  <2>1. /\ batch' \in Seq(Client \cup {Listen}) /\ batch' # << >>
        /\ \A i \in 1 .. Len(batch') : batch'[i] \in Ready
        /\ \A i, j \in 1 .. Len(batch') : batch'[i] = batch'[j] => i = j
    BY <1>0, <1>4, EventsOfARound DEF EpollWait
  <2>2. \A i \in 1 .. Len(batch') :
          IF batch'[i] = Listen THEN backlog # << >>
          ELSE batch'[i] \in ctl_plane_fds /\ (requests[batch'[i]] # << >> \/ batch'[i] \in gone)
    BY <1>0, <2>1 DEF Ready, TypeOK
  <2>. QED
    BY <1>4, <2>1, <2>2 DEF RoundInv, EpollWait
<1>5. CASE Accept
  <2>1. batch # << >>
    BY <1>0, <1>5 DEF Accept, RoundInv
  <2>2. /\ batch' = Tail(batch) /\ pc' = (IF Len(batch) = 1 THEN "wait" ELSE "event")
        /\ ctl_plane_fds' = ctl_plane_fds \cup {Head(backlog)} /\ batch[1] = Listen
        /\ UNCHANGED <<requests, gone, halted>>
    BY <1>0, <1>5, <2>1, RestOfRound DEF Accept, NextEvent, add_fd
  <2>3. \A i \in 1 .. Len(batch) - 1 : batch[i + 1] # Listen
    BY <1>0, <2>1, <2>2, RestOfRound DEF RoundInv
  <2>. QED
    BY <1>0, <2>1, <2>2, <2>3, RestOfRound DEF RoundInv
<1>6. CASE Close
  <2>1. batch # << >>
    BY <1>0, <1>6 DEF Close, RoundInv
  <2>2. /\ batch' = Tail(batch) /\ pc' = (IF Len(batch) = 1 THEN "wait" ELSE "event")
        /\ ctl_plane_fds' = ctl_plane_fds \ {batch[1]}
        /\ UNCHANGED <<requests, gone, halted, backlog>>
    BY <1>0, <1>6, <2>1, RestOfRound DEF Close, NextEvent
  <2>3. \A i \in 1 .. Len(batch) - 1 : batch[i + 1] # batch[1]
    BY <1>0, <2>1, RestOfRound DEF RoundInv
  <2>. QED
    BY <1>0, <2>1, <2>2, <2>3, RestOfRound DEF RoundInv
<1>7. CASE Reset
  BY <1>0, <1>7 DEF RoundInv, Reset
<1>8. ASSUME NEW n \in 1 .. 2, Read(n)
      PROVE  /\ batch # << >> /\ batch[1] \in Client /\ Head(batch) = batch[1]
             /\ \A c \in Client : c # batch[1] => requests'[c] = requests[c]
  <2>1. batch # << >>
    BY <1>0, <1>8 DEF Read, RoundInv
  <2>2. batch[1] \in Client /\ Head(batch) = batch[1]
    BY <1>0, <1>8, <2>1, RestOfRound DEF Read, TypeOK
  <2>. QED
    BY <1>0, <1>8, <2>1, <2>2 DEF Read, TypeOK
<1>9. CASE Ignore
  <2>1. batch # << >> /\ \A c \in Client : c # batch[1] => requests'[c] = requests[c]
    BY <1>8, <1>9 DEF Ignore
  <2>2. /\ batch' = Tail(batch) /\ pc' = (IF Len(batch) = 1 THEN "wait" ELSE "event")
        /\ UNCHANGED <<ctl_plane_fds, gone, halted, backlog>>
    BY <1>9 DEF Ignore, NextEvent
  <2>3. \A i \in 1 .. Len(batch) - 1 :
          batch[i + 1] # Listen => requests'[batch[i + 1]] = requests[batch[i + 1]]
    BY <1>0, <2>1, RestOfRound DEF RoundInv, TypeOK
  <2>. QED
    BY <1>0, <1>9, <2>1, <2>2, <2>3, RestOfRound DEF RoundInv
<1>10. CASE Reject
  BY <1>0, <1>10 DEF RoundInv, Reject, Read
<1>11. CASE BeginAddPort
  <2>1. /\ batch # << >> /\ batch[1] \in Client /\ Head(batch) = batch[1]
        /\ \A c \in Client : c # batch[1] => requests'[c] = requests[c]
        /\ pc = "event" /\ ~ halted
    BY <1>8, <1>11 DEF BeginAddPort, Read
  <2>2. \A i \in 2 .. Len(batch) :
          batch[i] # Listen => requests'[batch[i]] = requests[batch[i]]
    BY <1>0, <2>1, RestOfRound, SMTT(30) DEF RoundInv, TypeOK
  <2>. QED
    BY <1>0, <1>11, <2>1, <2>2 DEF RoundInv, BeginAddPort
<1>12. CASE AddEndpoint
  BY <1>0, <1>12 DEF RoundInv, AddEndpoint
<1>13. CASE Reply
  BY <1>0, <1>13 DEF RoundInv, Reply
<1>14. CASE Register
  BY <1>0, <1>14 DEF RoundInv, Register
<1>15. CASE SendHeader
  BY <1>0, <1>15 DEF RoundInv, SendHeader
<1>16. CASE SendPayload
  <2>1. batch # << >>
    BY <1>0, <1>16 DEF SendPayload, RoundInv
  <2>. QED
    BY <1>0, <1>16, <2>1, RestOfRound DEF RoundInv, SendPayload, NextEvent
<1>17. CASE TellDataPlane
  BY <1>0, <1>17 DEF RoundInv, TellDataPlane
<1>18. CASE UNCHANGED vars
  BY <1>0, <1>18 DEF RoundInv, vars
<1>. QED
  BY <1>1, <1>2, <1>3, <1>4, <1>5, <1>6, <1>7, <1>9, <1>10, <1>11, <1>12, <1>13, <1>14,
     <1>15, <1>16, <1>17, <1>18 DEF Next, Clients, Thread

\* Every step of add_port finds the one before it done.
LEMMA StepAddPortInv == ControlPlaneInv /\ [Next]_vars => AddPortInv'
<1>. SUFFICES ASSUME ControlPlaneInv, [Next]_vars PROVE AddPortInv'
  OBVIOUS
<1>. USE ControlPlaneAssumption DEF At, clients, loop, ports, Stage, Listed, Offered
<1>0. TypeOK /\ RoundInv /\ AddPortInv
  BY DEF ControlPlaneInv
<1>1. CASE UNCHANGED <<pc, serving, ports, halted>>
  BY <1>0, <1>1 DEF AddPortInv
<1>2. CASE NextEvent /\ UNCHANGED <<ports, halted>>
  BY <1>0, <1>2 DEF AddPortInv, NextEvent
<1>3. CASE EpollWait
  BY <1>0, <1>3 DEF AddPortInv, EpollWait
<1>4. CASE Reset \/ Reject
  BY <1>0, <1>4 DEF AddPortInv, Reset, Reject, Read
<1>5. CASE BeginAddPort
  BY <1>0, <1>5 DEF AddPortInv, BeginAddPort, Read
<1>6. CASE AddEndpoint
  <2>1. CASE alloc_port_fails(portc)
    BY <1>0, <1>6, <2>1 DEF AddPortInv, AddEndpoint
  <2>2. CASE ~ alloc_port_fails(portc)
    <3>1. endpoints' = <<NewEndpoint(portc)>> \o endpoints
      BY <1>6, <2>2 DEF AddEndpoint
    <3>2. NewEndpoint(portc) \in Endpoint
      BY <1>0, <1>6 DEF AddEndpoint, NewEndpoint, Endpoint, TypeOK, RoundInv
    <3>3. /\ Len(endpoints) \in Nat /\ Len(endpoints') = Len(endpoints) + 1
          /\ endpoints' # << >> /\ endpoints'[1] = NewEndpoint(portc)
          /\ \A i \in 1 .. Len(endpoints) : endpoints'[i + 1] = endpoints[i]
          /\ \A i \in 2 .. Len(endpoints') : endpoints'[i] = endpoints[i - 1]
      BY <1>0, <3>1, <3>2 DEF TypeOK
    <3>4. portc \in Nat /\ portc < NUMPORTS /\ Len(endpoints) = portc - 1
      BY <1>0, <1>6, <2>2 DEF alloc_port_fails, TypeOK, AddPortInv, AddEndpoint
    <3>5. ASSUME NEW i \in 1 .. Len(endpoints')
          PROVE  endpoints'[i].port = Len(endpoints') + 1 - i
      <4>1. CASE i = 1
        BY <3>3, <3>4, <4>1 DEF NewEndpoint
      <4>2. CASE i # 1
        <5>1. i - 1 \in 1 .. Len(endpoints) /\ endpoints'[i] = endpoints[i - 1]
          BY <3>3, <4>2
        <5>2. endpoints[i - 1].port = Len(endpoints) + 1 - (i - 1)
          BY <1>0, <5>1 DEF AddPortInv
        <5>. QED
          BY <3>3, <5>1, <5>2
      <4>. QED
        BY <4>1, <4>2
    <3>6. \A e \in Listed : e \in Listed'
      BY <3>3
    <3>7. ~ halted => Len(endpoints') = portc' - 1 /\ portc' <= NUMPORTS
      BY <1>6, <3>3, <3>4 DEF AddEndpoint
    <3>8. /\ Len(endpoints') < NUMPORTS
          /\ endpoints' # << >> /\ endpoints'[1].client = serving'
      BY <1>6, <3>3, <3>4 DEF AddEndpoint, NewEndpoint
    <3>9. \A e \in Offered' : e \in Listed' /\ e.client \in replied'
      BY <1>0, <1>6, <3>6 DEF AddPortInv, AddEndpoint
    <3>10. pc' = "reply" /\ (~ halted' => Len(endpoints') = portc' - 1 /\ portc' <= NUMPORTS)
      BY <1>6, <3>7 DEF AddEndpoint
    <3>. QED
      BY <3>5, <3>8, <3>9, <3>10 DEF AddPortInv
  <2>. QED
    BY <2>1, <2>2
<1>7. CASE Reply
  BY <1>0, <1>7 DEF AddPortInv, Reply
<1>8. CASE Register
  <2>1. Head(endpoints) = endpoints[1] /\ endpoints[1] \in Listed
    BY <1>0, <1>8 DEF AddPortInv, Register, TypeOK
  <2>. QED
    BY <1>0, <1>8, <2>1 DEF AddPortInv, Register, fd_table_insert
<1>9. CASE SendHeader
  BY <1>0, <1>9 DEF AddPortInv, SendHeader
<1>. QED
  BY <1>1, <1>2, <1>3, <1>4, <1>5, <1>6, <1>7, <1>8, <1>9
  DEF Next, Clients, Thread, vars, Connect, Leave, Ask, Accept, Close, Ignore, SendPayload,
      TellDataPlane

\* Every step keeps ctl_pipe in pairs of a header and an endpoint.
LEMMA StepPipeInv == ControlPlaneInv /\ [Next]_vars => PipeInv'
<1>. SUFFICES ASSUME ControlPlaneInv, [Next]_vars PROVE PipeInv'
  OBVIOUS
<1>. USE ControlPlaneAssumption DEF At, clients, loop, ports, Stage, Offered
<1>0. TypeOK /\ AddPortInv /\ PipeInv
  BY DEF ControlPlaneInv
<1>1. CASE /\ UNCHANGED <<ctl_pipe, watched>> /\ Offered \subseteq Offered'
           /\ pc = "payload" <=> pc' = "payload"
  BY <1>0, <1>1 DEF PipeInv
<1>2. CASE SendHeader
  <2>1. /\ Len(ctl_pipe) \in Nat /\ Len(ctl_pipe') = Len(ctl_pipe) + 1
        /\ ctl_pipe'[Len(ctl_pipe) + 1] = MSG_PORT_ADD
        /\ \A i \in 1 .. Len(ctl_pipe) : ctl_pipe'[i] = ctl_pipe[i]
    BY <1>0, <1>2 DEF TypeOK, SendHeader
  <2>. QED
    BY <1>0, <1>2, <2>1 DEF PipeInv, SendHeader
<1>3. CASE SendPayload
  <2>1. Head(endpoints) \in Offered /\ Head(endpoints) \in Endpoint
    BY <1>0, <1>3 DEF SendPayload, AddPortInv, TypeOK
  <2>2. /\ Len(ctl_pipe) \in Nat /\ Len(ctl_pipe') = Len(ctl_pipe) + 1
        /\ ctl_pipe'[Len(ctl_pipe) + 1] \in Offered
        /\ \A i \in 1 .. Len(ctl_pipe) : ctl_pipe'[i] = ctl_pipe[i]
    BY <1>0, <1>3, <2>1 DEF TypeOK, SendPayload
  <2>. QED
    BY <1>0, <1>3, <2>2 DEF PipeInv, SendPayload, NextEvent
<1>4. CASE TellDataPlane
  <2>1. Len(ctl_pipe) \in Nat /\ Len(ctl_pipe) >= 2
    BY <1>0, <1>4 DEF TypeOK, TellDataPlane
  <2>2. /\ Len(ctl_pipe') = Len(ctl_pipe) - 2
        /\ \A i \in 1 .. Len(ctl_pipe) - 2 : ctl_pipe'[i] = ctl_pipe[i + 2]
    <3>1. /\ ctl_pipe \in Seq(Endpoint \cup {MSG_PORT_ADD})
          /\ ctl_pipe' = SubSeq(ctl_pipe, 3, Len(ctl_pipe))
      BY <1>0, <1>4 DEF TypeOK, TellDataPlane
    <3>. DEFINE Rest == SubSeq(ctl_pipe, 3, Len(ctl_pipe))
    <3>2. /\ Len(Rest) = IF 3 <= Len(ctl_pipe) THEN Len(ctl_pipe) - 3 + 1 ELSE 0
          /\ \A i \in 1 .. Len(ctl_pipe) - 3 + 1 : Rest[i] = ctl_pipe[3 + i - 1]
      <4>1. \A i \in 3 .. Len(ctl_pipe) : ctl_pipe[i] \in Endpoint \cup {MSG_PORT_ADD}
        BY <2>1, <3>1, ElementOfSeq
      <4>. QED
        BY <2>1, <4>1, SubSeqProperties
    <3>. HIDE DEF Rest
    <3>3. ctl_pipe' = Rest
      BY <3>1 DEF Rest
    <3>. QED
      BY <2>1, <3>2, <3>3
  <2>3. ctl_pipe[2] \in Offered
    BY <1>0, <2>1 DEF PipeInv
  <2>4. \A i \in Nat : (i + 2) % 2 = i % 2 /\ (i - 2) % 2 = i % 2
    OBVIOUS
  <2>5. pc' = "payload" <=> Len(ctl_pipe') % 2 = 1
    BY <1>0, <1>4, <2>1, <2>2, <2>4 DEF PipeInv, TellDataPlane
  <2>6. ASSUME NEW i \in 1 .. Len(ctl_pipe')
        PROVE  IF i % 2 = 1 THEN ctl_pipe'[i] = MSG_PORT_ADD ELSE ctl_pipe'[i] \in Offered
    <3>1. i \in Nat /\ i + 2 \in 1 .. Len(ctl_pipe) /\ ctl_pipe'[i] = ctl_pipe[i + 2]
      BY <2>1, <2>2
    <3>2. IF (i + 2) % 2 = 1 THEN ctl_pipe[i + 2] = MSG_PORT_ADD ELSE ctl_pipe[i + 2] \in Offered
      BY <1>0, <3>1 DEF PipeInv
    <3>3. (i + 2) % 2 = i % 2
      BY <2>4, <3>1
    <3>. QED
      BY ONLY <3>1, <3>2, <3>3
  <2>. QED
    BY <1>0, <1>4, <2>3, <2>5, <2>6 DEF PipeInv, TellDataPlane
<1>. QED
  BY <1>1, <1>2, <1>3, <1>4
  DEF Next, Clients, Thread, vars, Connect, Leave, Ask, EpollWait, Accept, Close, Reset,
      Ignore, Reject, BeginAddPort, AddEndpoint, Reply, Register, NextEvent, Read,
      fd_table_insert

\* The invariant holds in every state of the control loop (ctl_plane_loop).
THEOREM ControlPlaneInvariance == Spec => []ControlPlaneInv
<1>1. ControlPlaneInv /\ [Next]_vars => ControlPlaneInv'
  BY StepTypeOK, StepRoundInv, StepAddPortInv, StepPipeInv DEF ControlPlaneInv
<1>. QED
  BY <1>1, InitControlPlaneInv, PTL DEF Spec

-------------------------------------------------------------------------------
\* The variables have the values their comments announce (ctl_plane_loop, add_port).
THEOREM ControlPlaneTypeCorrect == Spec => []TypeOK
  BY ControlPlaneInvariance, PTL DEF ControlPlaneInv

\* The events of a round of ctl_plane_loop stay good until their turn comes,
\* whatever the handlers before them do, and no read finds nothing.
THEOREM RoundStaysGood == Spec => []EventsStayGood
<1>1. ControlPlaneInv => EventsStayGood
  <2>. SUFFICES ASSUME ControlPlaneInv PROVE EventsStayGood
    OBVIOUS
  <2>1. ~ ReadFails
    <3>. SUFFICES ASSUME ReadFails PROVE FALSE
      OBVIOUS
    <3>1. batch # << >>
      BY DEF ControlPlaneInv, RoundInv, ReadFails, At
    <3>2. Head(batch) = batch[1] /\ 1 \in 1 .. Len(batch)
      BY <3>1, RestOfRound DEF ControlPlaneInv
    <3>. QED
      BY <3>2 DEF ControlPlaneInv, RoundInv, ReadFails, At
  <2>. QED
    BY <2>1 DEF ControlPlaneInv, RoundInv, EventsStayGood
<1>. QED
  BY <1>1, ControlPlaneInvariance, PTL

\* When the data plane hears of a port from send_ctl_message, the endpoint is
\* listed, its client was answered, and its socket is in the fd table unless there
\* was no memory for it.
THEOREM PortToldWhenReady == Spec => []ToldWhenReady
<1>1. ControlPlaneInv => ToldWhenReady
  <2>. SUFFICES ASSUME ControlPlaneInv,
                       NEW e \in watched \cup ({ctl_pipe[i] : i \in 1 .. Len(ctl_pipe)}
                                                 \ {MSG_PORT_ADD})
                PROVE  e \in Listed /\ e \in Offered /\ e.client \in replied
    BY DEF ToldWhenReady
  <2>1. e \in Offered
    BY DEF ControlPlaneInv, PipeInv
  <2>. QED
    BY <2>1 DEF ControlPlaneInv, AddPortInv
<1>. QED
  BY <1>1, ControlPlaneInvariance, PTL

\* alloc_endpoint never gives a port number twice, nor one from NUMPORTS on, and
\* leaves none out.
THEOREM PortsNumbered == Spec => []PortsInOrder
<1>1. ControlPlaneInv => PortsInOrder
  BY DEF ControlPlaneInv, AddPortInv, PortsInOrder
<1>. QED
  BY <1>1, ControlPlaneInvariance, PTL
===============================================================================

---------------------------- MODULE DataPlaneProofs ----------------------------
(***************************************************************************)
(* Proofs about DataPlane, for any sockets, workers, headers, capacities   *)
(* and any number of frames.                                               *)
(***************************************************************************)
EXTENDS DataPlane, FiniteSetTheorems, TLAPS

-------------------------------------------------------------------------------
(* Operators of the model *)

\* The steering of dispatch_packet always names a worker of the pool.
LEMMA WorkerOfType == ASSUME NEW p \in Packet \cup {NoPacket}
                      PROVE  WorkerOf(p) \in Worker
BY DataPlaneAssumption DEF WorkerOf, Packet, NoPacket

\* The number of events is a natural number, and at least one if one is ready.
LEMMA ReadyCount ==
  ASSUME TypeOK
  PROVE  /\ Cardinality(Ready) \in Nat
         /\ Ready # {} => Cardinality(Ready) >= 1
         /\ Ready \subseteq watched \cup {Ctl}
<1>1. Ready \subseteq watched \cup {Ctl}
  BY DEF Ready
<1>2. IsFiniteSet(Fd \cup {Ctl})
  BY DataPlaneAssumption, FS_AddElement
<1>3. IsFiniteSet(Ready)
  BY <1>1, <1>2, FS_Subset DEF TypeOK
<1>4. QED
  BY <1>1, <1>3, FS_CardinalityType, FS_EmptySet

\* So is the number of endpoints.
LEMMA EndpointCount == Cardinality(endpoints) \in Nat
<1>1. endpoints \subseteq Fd
  BY DEF endpoints
<1>2. QED
  BY <1>1, DataPlaneAssumption, FS_Subset, FS_CardinalityType

\* A lookup returns a port or -1 and leaves a table, an insertion too.
LEMMA MacTableType ==
  ASSUME TypeOK, NEW m
  PROVE  /\ AfterLookup(m) \in [Mac -> Entry]
         /\ \A p \in Port \cup {NoPort} : AfterInsert(m, p) \in [Mac -> Entry]
         /\ m \in Mac => LookupResult(m) \in Port \cup {NoPort}
<1>. USE DEF TypeOK, Entry
<1>1. AfterLookup(m) \in [Mac -> Entry]
  BY DEF AfterLookup
<1>2. \A p \in Port \cup {NoPort} : AfterInsert(m, p) \in [Mac -> Entry]
  BY DEF AfterInsert
<1>3. m \in Mac => LookupResult(m) \in Port \cup {NoPort}
  BY DEF LookupResult
<1>. QED
  BY <1>1, <1>2, <1>3

-------------------------------------------------------------------------------
(* The inductive invariant *)

\* Nothing is on its way when the switch starts.
LEMMA InitDataPlaneInv == Init => DataPlaneInv
<1> SUFFICES ASSUME Init PROVE DataPlaneInv
  OBVIOUS
<1> USE DataPlaneAssumption DEF Init
<1>1. TypeOK
  <2>1. [port |-> NoPort, fresh |-> FALSE, valid |-> FALSE] \in Entry
    BY DEF Entry
  <2>2. mac \in [Mac -> Entry]
    BY <2>1
  <2>3. lastSent \in [Fd -> [Header -> Nat]]
    OBVIOUS
  <2>4. /\ portOf \in [Fd -> Port \cup {NoPort}] /\ fdt \subseteq Fd /\ refused \subseteq Fd
        /\ wout \in [Worker -> Port \cup {NoPort}]
    OBVIOUS
  <2>5. wpkt \in [Worker -> Packet \cup {NoPacket}]
    OBVIOUS
  <2>6. /\ inbox \in [Fd -> Seq(Header \cup {Runt})] /\ ctlPipe \in Seq(Fd \cup {Ctl})
        /\ ring \in [Worker -> Seq(Packet)] /\ pipe \in [Worker -> Seq(Fd)]
    OBVIOUS
  <2>7. /\ cpc = "idle" /\ dpc = "wait" /\ wpc = [w \in Worker |-> "idle"]
        /\ adding = NoFd /\ watched = {} /\ event = NoFd /\ pkt = NoPacket
        /\ wfd = [w \in Worker |-> NoFd] /\ halted = FALSE
        /\ arrivals = 0 /\ left = 0 /\ dispatched = 0
    OBVIOUS
  <2>8. QED
    BY ONLY <2>2, <2>3, <2>4, <2>5, <2>6, <2>7 DEF TypeOK
<1>2. NoLostWakeup /\ CtlFramed
  BY DEF NoLostWakeup, CtlFramed, Unannounced
<1>3. WokenForKnownPort /\ SocketsKnown
  BY DEF WokenForKnownPort, SocketsKnown, endpoints, Offered
<1>4. QED
  BY <1>1, <1>2, <1>3 DEF DataPlaneInv

\* Every step keeps the types.
LEMMA StepTypeOK == DataPlaneInv /\ [Next]_vars => TypeOK'
<1> SUFFICES ASSUME DataPlaneInv, [Next]_vars PROVE TypeOK'
  OBVIOUS
<1> USE DataPlaneAssumption DEF outside, control, ports, thread, workers
<1>0. TypeOK /\ NoLostWakeup /\ CtlFramed /\ WokenForKnownPort /\ SocketsKnown
  BY DEF DataPlaneInv
<1>1. ASSUME NEW f \in Fd, NEW d \in Datagram, Arrive(f, d) PROVE TypeOK'
  BY <1>0, <1>1 DEF TypeOK, Arrive
<1>2. ASSUME NEW m \in Mac, Age(m) PROVE TypeOK'
  BY <1>0, <1>2, ZenonT(40) DEF TypeOK, Age, Entry
<1>3. ASSUME NEW f \in Fd, AddPort(f) PROVE TypeOK'
  BY <1>0, <1>3, EndpointCount DEF TypeOK, AddPort, fd_table_insert, Port
<1>4. CASE SendHeader
  BY <1>0, <1>4 DEF TypeOK, SendHeader
<1>5. CASE SendPayload
  BY <1>0, <1>5 DEF TypeOK, SendPayload, SocketsKnown, Offered
<1>6. CASE EpollWait
  BY <1>0, <1>6, ReadyCount DEF TypeOK, EpollWait
<1>7. CASE ReadCtlHeader
  BY <1>0, <1>7 DEF TypeOK, ReadCtlHeader
<1>8. CASE ReadCtlPayload
  <2>0. Offered \subseteq Fd
    BY <1>0 DEF TypeOK, Offered
  <2>1. Head(ctlPipe) \in Fd
    <3>1. ctlPipe # << >> /\ dpc = "payload" /\ ctlPipe \in Seq(Fd \cup {Ctl})
      BY <1>0, <1>8 DEF TypeOK, ReadCtlPayload, LoopAt
    <3>2. Head(ctlPipe) = ctlPipe[1] /\ 1 \in 1 .. Len(ctlPipe)
      BY <3>1
    <3>3. ctlPipe[1] # Ctl
      BY <1>0, <3>1, <3>2 DEF CtlFramed
    <3>. QED
      BY <1>0, <2>0, <3>2, <3>3 DEF SocketsKnown
  <2>2. QED
    BY <1>0, <1>8, <2>1 DEF TypeOK, ReadCtlPayload, NextEvent, LoopAt, SocketsKnown
<1>9. CASE Receive
  <2>1. inbox[event] # << >> => /\ Head(inbox[event]) \in Header \cup {Runt}
                                /\ Tail(inbox[event]) \in Seq(Header \cup {Runt})
    BY <1>0, <1>9 DEF TypeOK, Receive
  <2>2. pkt' \in Packet
    <3>1. \A h \in Header, f \in Fd \cup {NoFd}, b \in BOOLEAN : Frame(h, f, b) \in Packet
      BY <1>0 DEF TypeOK, Frame, Packet
    <3>2. pkt' \in Received(event) /\ event \in Fd
      BY <1>9 DEF Receive
    <3>3. Garbage \subseteq Header
      OBVIOUS
    <3>. QED
      BY ONLY <2>1, <3>1, <3>2, <3>3 DEF Received
  <2>3. QED
    BY <1>0, <1>9, <2>1, <2>2 DEF TypeOK, Receive
<1>10. CASE Push
  BY <1>0, <1>10, WorkerOfType DEF TypeOK, Push, LoopAt, SocketsKnown
<1>11. CASE Notify
  BY <1>0, <1>11, WorkerOfType DEF TypeOK, Notify, NextEvent, LoopAt, SocketsKnown
<1>12. ASSUME NEW w \in Worker, ReadMessage(w) PROVE TypeOK'
  <2>1. Head(pipe[w]) \in Fd /\ Tail(pipe[w]) \in Seq(Fd)
    BY <1>0, <1>12 DEF TypeOK, ReadMessage
  <2>2. QED
    BY <1>0, <1>12, <2>1 DEF TypeOK, ReadMessage, Goto
<1>13. ASSUME NEW w \in Worker, PopNothing(w) PROVE TypeOK'
  BY <1>0, <1>13 DEF TypeOK, PopNothing, Goto
<1>14. ASSUME NEW w \in Worker, Pop(w) PROVE TypeOK'
  <2>1. Head(ring[w]) \in Packet /\ Tail(ring[w]) \in Seq(Packet)
    BY <1>0, <1>14 DEF TypeOK, Pop
  <2>2. QED
    BY <1>0, <1>14, <2>1 DEF TypeOK, Pop, Goto
<1>15. ASSUME NEW w \in Worker, DropIPv6(w) PROVE TypeOK'
  BY <1>0, <1>15 DEF TypeOK, DropIPv6, Done, Goto
<1>16. ASSUME NEW w \in Worker, LookupDst(w) PROVE TypeOK'
  <2>1. /\ LookupResult(wpkt[w].hdr.dst) \in Port \cup {NoPort}
        /\ AfterLookup(wpkt[w].hdr.dst) \in [Mac -> Entry]
    BY <1>0, <1>16, MacTableType DEF LookupDst, IsBroadcast
  <2>2. CASE LookupResult(wpkt[w].hdr.dst) = Ingress(w)
    BY <1>0, <1>16, <2>1, <2>2 DEF TypeOK, LookupDst, Done, Goto
  <2>3. CASE LookupResult(wpkt[w].hdr.dst) # Ingress(w)
    <3>1. /\ wout' = [wout EXCEPT ![w] = LookupResult(wpkt[w].hdr.dst)]
          /\ wpc' = [wpc EXCEPT ![w] = "src"]
          /\ UNCHANGED wpkt
      BY <1>16, <2>3 DEF LookupDst, Goto
    <3>2. mac' \in [Mac -> Entry]
      BY <1>16, <2>1 DEF LookupDst
    <3>3. UNCHANGED <<outside, control, ctlPipe, thread, ring, pipe, wfd, lastSent, halted>>
      BY <1>16 DEF LookupDst
    <3>4. QED
      BY <1>0, <2>1, <3>1, <3>2, <3>3 DEF TypeOK
  <2>4. QED
    BY <2>2, <2>3
<1>17. ASSUME NEW w \in Worker, LookupSrc(w) PROVE TypeOK'
  BY <1>0, <1>17, MacTableType DEF TypeOK, LookupSrc, Goto
<1>18. ASSUME NEW w \in Worker, Learn(w) PROVE TypeOK'
  <2>1. Ingress(w) \in Port \cup {NoPort}
    BY <1>0, <1>18 DEF TypeOK, Learn, At, WokenForKnownPort, SocketsKnown, endpoints, Offered, Ingress
  <2>2. QED
    BY <1>0, <1>18, <2>1, MacTableType DEF TypeOK, Learn, Goto
<1>19. ASSUME NEW w \in Worker, NEW S, SendTo(S, wpkt[w])
       PROVE  lastSent' \in [Fd -> [Header -> Nat]]
  <2>1. wpkt[w].whole => wpkt[w].n \in Nat
    BY <1>0 DEF TypeOK, Packet, NoPacket
  <2>2. QED
    BY <1>0, <1>19, <2>1 DEF TypeOK, SendTo
<1>20. ASSUME NEW w \in Worker, Flood(w) PROVE TypeOK'
  BY <1>0, <1>19, <1>20 DEF TypeOK, Flood, Done, Goto
<1>21. ASSUME NEW w \in Worker, Send(w) PROVE TypeOK'
  BY <1>0, <1>19, <1>21 DEF TypeOK, Send, Done, Goto
<1>22. ASSUME NEW w \in Worker, SendFails(w) PROVE TypeOK'
  BY <1>0, <1>22 DEF TypeOK, SendFails
<1>23. CASE UNCHANGED vars
  BY <1>0, <1>23 DEF TypeOK, vars
<1>24. QED
  BY <1>1, <1>2, <1>3, <1>4, <1>5, <1>6, <1>7, <1>8, <1>9, <1>10, <1>11, <1>12,
     <1>13, <1>14, <1>15, <1>16, <1>17, <1>18, <1>20, <1>21, <1>22, <1>23
  DEF Next, Client, Clock, ControlPlane, Dispatcher, WorkerStep

\* Every step keeps a message on its way for each frame of a sleeping worker.
LEMMA StepNoLostWakeup == TypeOK /\ NoLostWakeup /\ [Next]_vars => NoLostWakeup'
<1> SUFFICES ASSUME TypeOK, NoLostWakeup, [Next]_vars PROVE NoLostWakeup'
  OBVIOUS
<1> USE DEF outside, control, ports, thread, workers, NoLostWakeup, Unannounced
\* Most steps leave the rings, the pipes and the dispatcher's hand-over alone and
\* send no worker to sleep.
<1>1. ASSUME UNCHANGED <<ring, pipe>>,
             \A w \in Worker : wpc'[w] = "idle" => wpc[w] = "idle",
             \/ UNCHANGED <<dpc, pkt>>
             \/ dpc # "notify" /\ dpc' # "notify"
      PROVE  NoLostWakeup'
  BY <1>1 DEF WorkerOf
<1>2. ASSUME NEW w \in Worker, NEW l \in {"drain", "frame", "src", "learn", "forward"}, Goto(w, l),
             UNCHANGED <<ring, pipe, dpc, pkt>>
      PROVE  NoLostWakeup'
  BY <1>1, <1>2 DEF Goto, TypeOK
<1>3. CASE Client \/ Clock \/ ControlPlane \/ UNCHANGED vars
  BY <1>1, <1>3 DEF Client, Clock, ControlPlane, Arrive, Age, AddPort, SendHeader,
                    SendPayload, vars
<1>4. CASE EpollWait \/ ReadCtlHeader \/ ReadCtlPayload \/ Receive
  BY <1>1, <1>4 DEF EpollWait, ReadCtlHeader, ReadCtlPayload, Receive, LoopAt, NextEvent
<1>5. CASE Push
  \* The frame is one more to wake up for, and the message to come is for it.
  BY <1>5, WorkerOfType DEF Push, LoopAt, TypeOK, WorkerOf
<1>6. CASE Notify
  \* The message that was to come is now in the pipe.
  <2>1. /\ dpc = "notify" /\ dpc' # "notify"
        /\ pipe' = [pipe EXCEPT ![WorkerOf(pkt)] = Append(@, event)]
        /\ UNCHANGED <<ring, wpc>>
    BY <1>6 DEF Notify, LoopAt, NextEvent
  <2>2. \A w \in Worker : Len(pipe'[w]) = Len(pipe[w]) + Unannounced(w)
    BY <2>1 DEF TypeOK
  <2>3. QED
    BY <2>1, <2>2 DEF TypeOK
<1>7. ASSUME NEW w \in Worker, ReadMessage(w) PROVE NoLostWakeup'
  BY <1>7 DEF ReadMessage, Goto, TypeOK, WorkerOf
<1>8. ASSUME NEW w \in Worker, PopNothing(w) PROVE NoLostWakeup'
  \* The worker goes to sleep on an empty ring.
  BY <1>8 DEF PopNothing, At, Goto, TypeOK, WorkerOf
<1>9. ASSUME NEW w \in Worker, Pop(w) PROVE NoLostWakeup'
  BY <1>9 DEF Pop, Goto, TypeOK, WorkerOf
<1>10. ASSUME NEW w \in Worker,
              \/ DropIPv6(w) \/ LookupDst(w) \/ LookupSrc(w) \/ Learn(w)
              \/ Flood(w) \/ Send(w) \/ SendFails(w)
       PROVE  NoLostWakeup'
  <2>1. CASE DropIPv6(w) \/ Flood(w) \/ Send(w)
    BY <1>2, <2>1 DEF DropIPv6, Flood, Send, Done
  <2>2. CASE LookupDst(w)
    BY <1>2, <2>2 DEF LookupDst, Done
  <2>3. CASE LookupSrc(w)
    BY <1>2, <2>3 DEF LookupSrc
  <2>4. CASE Learn(w)
    BY <1>2, <2>4 DEF Learn
  <2>5. CASE SendFails(w)
    BY <1>1, <2>5 DEF SendFails
  <2>6. QED
    BY <1>10, <2>1, <2>2, <2>3, <2>4, <2>5
<1>11. QED
  BY <1>3, <1>4, <1>5, <1>6, <1>7, <1>8, <1>9, <1>10
  DEF Next, Dispatcher, WorkerStep

\* Every step keeps headers and sockets alternating.
LEMMA StepCtlFramed == DataPlaneInv /\ [Next]_vars => CtlFramed'
<1> SUFFICES ASSUME DataPlaneInv, [Next]_vars PROVE CtlFramed'
  OBVIOUS
<1> USE DataPlaneAssumption DEF outside, control, ports, thread, workers
<1>1. TypeOK /\ CtlFramed /\ SocketsKnown
  BY DEF DataPlaneInv
<1>2. ASSUME UNCHANGED ctlPipe, dpc = "payload" <=> dpc' = "payload",
             cpc = "payload" <=> cpc' = "payload"
      PROVE  CtlFramed'
  BY <1>1, <1>2 DEF CtlFramed
\* Reading an item moves the others one place ahead.
<1>12. ASSUME ctlPipe # << >>, ctlPipe' = Tail(ctlPipe)
       PROVE  /\ Len(ctlPipe) \in Nat /\ Len(ctlPipe') = Len(ctlPipe) - 1
              /\ \A i \in 1 .. Len(ctlPipe') : ctlPipe'[i] = ctlPipe[i + 1]
  BY <1>1, <1>12 DEF TypeOK
<1>3. CASE Client \/ Clock \/ UNCHANGED vars
  BY <1>2, <1>3 DEF Client, Clock, Arrive, Age, vars
<1>4. ASSUME NEW f \in Fd, AddPort(f) PROVE CtlFramed'
  BY <1>2, <1>4 DEF AddPort
\* Writing an item puts it behind the others.
<1>13. ASSUME NEW x \in Fd \cup {Ctl}, ctlPipe' = Append(ctlPipe, x)
       PROVE  /\ Len(ctlPipe) \in Nat /\ Len(ctlPipe') = Len(ctlPipe) + 1
              /\ \A i \in 1 .. Len(ctlPipe) : ctlPipe'[i] = ctlPipe[i]
              /\ ctlPipe'[Len(ctlPipe) + 1] = x
  BY <1>1, <1>13 DEF TypeOK
\* A header follows a socket, and a socket a header.
<1>14. ASSUME NEW x \in Fd \cup {Ctl}, ctlPipe' = Append(ctlPipe, x), dpc' = dpc,
              x = Ctl <=> cpc # "payload", x = Ctl <=> cpc' = "payload"
       PROVE  CtlFramed'
  <2>. DEFINE P == IF dpc = "payload" THEN 1 ELSE 0
              L == Len(ctlPipe)
  <2>1. P \in {0, 1} /\ P' = P /\ L \in Nat /\ L' = L + 1 /\ ctlPipe'[L + 1] = x
    BY <1>13, <1>14
  <2>2. (L + P) % 2 = (IF x = Ctl THEN 0 ELSE 1)
    BY <1>1, <1>14 DEF CtlFramed
  <2>3. \A i \in 1 .. L : ctlPipe'[i] = Ctl <=> (i + P) % 2 = 1
    BY <1>1, <1>13, <1>14 DEF CtlFramed
  <2>. HIDE DEF P, L
  <2>4. (L + 1 + P) % 2 = (IF x = Ctl THEN 1 ELSE 0)
    <3>1. \A n \in Nat : (n % 2 = 0 => (n + 1) % 2 = 1) /\ (n % 2 = 1 => (n + 1) % 2 = 0)
      OBVIOUS
    <3>2. L + P \in Nat /\ L + 1 + P = (L + P) + 1
      BY ONLY <2>1
    <3>3. (L + P) % 2 = 0 => (L + 1 + P) % 2 = 1
      BY ONLY <3>1, <3>2
    <3>4. (L + P) % 2 = 1 => (L + 1 + P) % 2 = 0
      BY ONLY <3>1, <3>2
    <3>5. CASE x = Ctl
      BY ONLY <2>2, <3>3, <3>5
    <3>6. CASE x # Ctl
      BY ONLY <2>2, <3>4, <3>6
    <3>. QED
      BY ONLY <3>5, <3>6
  <2>5. \A i \in 1 .. L + 1 : i \in 1 .. L \/ i = L + 1
    BY ONLY <2>1
  <2>6. \A i \in 1 .. L + 1 : ctlPipe'[i] = Ctl <=> (i + P) % 2 = 1
    BY ONLY <2>1, <2>3, <2>4, <2>5
  <2>7. (L' + P') % 2 = IF cpc' = "payload" THEN 1 ELSE 0
    BY ONLY <1>14, <2>1, <2>4
  <2>8. \A i \in 1 .. L' : ctlPipe'[i] = Ctl <=> (i + P') % 2 = 1
    BY ONLY <2>1, <2>6
  <2>. QED
    BY ONLY <2>7, <2>8 DEF CtlFramed, P, L
<1>5. CASE SendHeader
  <2>1. cpc = "header" /\ cpc' = "payload" /\ dpc' = dpc /\ ctlPipe' = Append(ctlPipe, Ctl)
    BY <1>5 DEF SendHeader
  <2>. QED
    BY <1>14, <2>1
<1>6. CASE SendPayload
  <2>1. /\ cpc = "payload" /\ cpc' = "idle" /\ dpc' = dpc
        /\ adding \in Fd /\ ctlPipe' = Append(ctlPipe, adding)
    <3>1. cpc = "payload" /\ cpc' = "idle" /\ dpc' = dpc /\ ctlPipe' = Append(ctlPipe, adding)
      BY <1>6 DEF SendPayload
    <3>2. adding \in fdt \cup refused /\ fdt \cup refused \subseteq Fd
      BY <1>1, <3>1 DEF SocketsKnown, Offered, TypeOK
    <3>. QED
      BY <3>1, <3>2
  <2>2. adding # Ctl
    BY <2>1
  <2>. QED
    BY <1>14, <2>1, <2>2
<1>7. CASE ReadCtlHeader
  <2>1. dpc = "event" /\ dpc' = "payload" /\ cpc' = cpc
    BY <1>7 DEF ReadCtlHeader, LoopAt
  <2>2. Len(ctlPipe) % 2 = (IF cpc = "payload" THEN 1 ELSE 0)
    BY <1>1, <2>1 DEF CtlFramed, TypeOK
  <2>3. \A i \in 1 .. Len(ctlPipe) : ctlPipe[i] = Ctl <=> i % 2 = 1
    BY <1>1, <2>1 DEF CtlFramed, TypeOK
  <2>4. QED
    BY <1>12, <1>7, <2>1, <2>2, <2>3 DEF ReadCtlHeader, CtlFramed
<1>8. CASE ReadCtlPayload
  <2>1. dpc = "payload" /\ dpc' # "payload" /\ cpc' = cpc
    BY <1>8 DEF ReadCtlPayload, LoopAt, NextEvent
  <2>2. (Len(ctlPipe) + 1) % 2 = (IF cpc = "payload" THEN 1 ELSE 0)
    BY <1>1, <2>1 DEF CtlFramed, TypeOK
  <2>3. \A i \in 1 .. Len(ctlPipe) : ctlPipe[i] = Ctl <=> (i + 1) % 2 = 1
    BY <1>1, <2>1 DEF CtlFramed, TypeOK
  <2>4. QED
    BY <1>12, <1>8, <2>1, <2>2, <2>3 DEF ReadCtlPayload, CtlFramed
<1>9. CASE EpollWait \/ Receive \/ Push \/ Notify
  BY <1>2, <1>9 DEF EpollWait, Receive, Push, Notify, LoopAt, NextEvent
<1>10. ASSUME NEW w \in Worker, WorkerStep(w) PROVE CtlFramed'
  BY <1>2, <1>10 DEF WorkerStep, ReadMessage, PopNothing, Pop, DropIPv6, LookupDst,
                     LookupSrc, Learn, Flood, Send, SendFails
<1>11. QED
  BY <1>3, <1>4, <1>5, <1>6, <1>7, <1>8, <1>9, <1>10 DEF Next, ControlPlane, Dispatcher

\* A socket once listed, registered or refused stays so, under the same number.
LEMMA EndpointsGrow ==
  ASSUME TypeOK, [Next]_vars
  PROVE  /\ fdt \subseteq fdt' /\ Offered \subseteq Offered'
         /\ \A f \in endpoints : f \in endpoints' /\ portOf'[f] = portOf[f]
<1> USE DEF outside, control, ports, thread, workers, endpoints, Port, NoPort, Offered
<1> DEFINE Grown == /\ fdt \subseteq fdt' /\ Offered \subseteq Offered'
                    /\ \A g \in endpoints : g \in endpoints' /\ portOf'[g] = portOf[g]
<1>1. CASE UNCHANGED ports
  BY <1>1
<1>2. ASSUME NEW f \in Fd, AddPort(f) PROVE Grown
  BY <1>2 DEF AddPort, fd_table_insert, TypeOK
<1>3. CASE Client \/ Clock \/ SendHeader \/ SendPayload \/ Dispatcher \/ UNCHANGED vars
  BY <1>1, <1>3 DEF Client, Clock, Arrive, Age, SendHeader, SendPayload, vars, Dispatcher,
                    EpollWait, ReadCtlHeader, ReadCtlPayload, Receive, Push, Notify
<1>4. ASSUME NEW w \in Worker, WorkerStep(w) PROVE UNCHANGED ports
  BY <1>4 DEF WorkerStep, ReadMessage, PopNothing, Pop, DropIPv6, LookupDst, LookupSrc,
              Learn, Flood, Send, SendFails
<1>5. QED
  BY <1>1, <1>2, <1>3, <1>4 DEF Next, ControlPlane

\* Whatever is handed on at a step is a registered socket.
LEMMA StepSocketsKnown == DataPlaneInv /\ [Next]_vars => SocketsKnown'
<1> SUFFICES ASSUME DataPlaneInv, [Next]_vars PROVE SocketsKnown'
  OBVIOUS
<1> USE DataPlaneAssumption DEF outside, control, ports, thread, workers
<1>1. TypeOK /\ CtlFramed /\ SocketsKnown
  BY DEF DataPlaneInv
<1>2. \A f \in Offered : f \in Offered'
  BY <1>1, EndpointsGrow
<1>3. Offered \subseteq Fd
  BY <1>1 DEF Offered, TypeOK
<1>0. Offered' \subseteq endpoints' /\ (fdt \cap refused)' = {}
  <2>1. CASE UNCHANGED ports
    BY <1>1, <2>1 DEF ports, SocketsKnown, Offered, endpoints
  <2>2. ASSUME NEW f \in Fd, AddPort(f) PROVE Offered' \subseteq endpoints' /\ (fdt \cap refused)' = {}
    <3>1. f \in endpoints' /\ endpoints \subseteq endpoints'
      BY <1>1, <2>2, EndpointCount DEF AddPort, endpoints, TypeOK, NoPort
    <3>2. f \notin Offered /\ Offered' = Offered \cup {f}
      BY <1>1, <2>2 DEF AddPort, fd_table_insert, SocketsKnown, Offered
    <3>. QED
      BY <1>1, <2>2, <3>1, <3>2 DEF AddPort, fd_table_insert, SocketsKnown, Offered
  <2>3. CASE Client \/ Clock \/ SendHeader \/ SendPayload \/ Dispatcher \/ UNCHANGED vars
    BY <2>1, <2>3 DEF Client, Clock, Arrive, Age, SendHeader, SendPayload, vars, Dispatcher,
                      EpollWait, ReadCtlHeader, ReadCtlPayload, Receive, Push, Notify
  <2>4. ASSUME NEW w \in Worker, WorkerStep(w) PROVE UNCHANGED ports
    BY <2>4 DEF WorkerStep, ReadMessage, PopNothing, Pop, DropIPv6, LookupDst, LookupSrc,
                Learn, Flood, Send, SendFails
  <2>. QED
    BY <2>1, <2>2, <2>3, <2>4 DEF Next, ControlPlane
<1>4. ASSUME UNCHANGED <<cpc, adding, ctlPipe, watched, dpc, left, event, pkt, pipe>>
      PROVE  SocketsKnown'
  BY <1>0, <1>1, <1>2, <1>4 DEF SocketsKnown
<1>5. CASE Client \/ Clock \/ UNCHANGED vars
  BY <1>4, <1>5 DEF Client, Clock, Arrive, Age, vars
<1>6. ASSUME NEW f \in Fd, AddPort(f) PROVE SocketsKnown'
  <2>1. f \in Offered'
    BY <1>6 DEF AddPort, fd_table_insert, Offered
  <2>2. QED
    BY <1>0, <1>1, <1>2, <1>6, <2>1 DEF AddPort, SocketsKnown
<1>7. CASE SendHeader
  <2>1. \A i \in 1 .. Len(ctlPipe') : ctlPipe'[i] \in Offered' \cup {Ctl}
    BY <1>0, <1>1, <1>2, <1>7 DEF SendHeader, SocketsKnown, TypeOK
  <2>2. QED
    BY <1>0, <1>1, <1>2, <1>7, <2>1 DEF SendHeader, SocketsKnown
<1>8. CASE SendPayload
  BY <1>0, <1>1, <1>2, <1>8 DEF SendPayload, SocketsKnown, TypeOK
<1>9. CASE EpollWait
  BY <1>0, <1>1, <1>2, <1>9, ReadyCount DEF EpollWait, SocketsKnown, LoopAt
<1>10. CASE ReadCtlHeader
  BY <1>0, <1>1, <1>2, <1>10 DEF ReadCtlHeader, SocketsKnown, TypeOK, LoopAt
<1>11. CASE ReadCtlPayload
  <2>1. Head(ctlPipe) \in Offered
    <3>1. ctlPipe # << >> /\ Head(ctlPipe) = ctlPipe[1] /\ 1 \in 1 .. Len(ctlPipe)
      BY <1>1, <1>11 DEF ReadCtlPayload, TypeOK
    <3>2. ctlPipe[1] # Ctl
      BY <1>1, <1>11, <3>1 DEF ReadCtlPayload, CtlFramed, LoopAt
    <3>3. QED
      BY <1>1, <3>1, <3>2 DEF SocketsKnown
  <2>2. /\ \A i \in 1 .. Len(ctlPipe') : ctlPipe'[i] \in Offered' \cup {Ctl}
        /\ watched' \subseteq Offered'
    BY <1>0, <1>1, <1>2, <1>11, <2>1 DEF ReadCtlPayload, SocketsKnown, TypeOK
  <2>3. QED
    BY <1>0, <1>1, <1>2, <1>11, <2>2 DEF ReadCtlPayload, SocketsKnown, TypeOK, LoopAt, NextEvent
<1>12. CASE Receive
  <2>1. pkt' \in Packet
    BY <1>1, <1>12, StepTypeOK DEF Receive, TypeOK, NoPacket, Received, Frame, Packet
  <2>2. QED
    BY <1>0, <1>1, <1>2, <1>12, <2>1 DEF Receive, SocketsKnown, LoopAt
<1>13. CASE Push
  BY <1>0, <1>1, <1>2, <1>13 DEF Push, SocketsKnown, LoopAt
<1>14. CASE Notify
  <2>1. event \in Offered /\ left >= 1 /\ WorkerOf(pkt) \in Worker
    BY <1>1, <1>14, WorkerOfType DEF Notify, LoopAt, SocketsKnown, TypeOK
  <2>2. \A w \in Worker : \A i \in 1 .. Len(pipe'[w]) : pipe'[w][i] \in Offered'
    <3>1. pipe' = [pipe EXCEPT ![WorkerOf(pkt)] = Append(@, event)]
      BY <1>14 DEF Notify
    <3>2. \A w \in Worker : pipe[w] \in Seq(Fd) /\ pipe'[w] \in {pipe[w], Append(pipe[w], event)}
      BY <1>1, <2>1, <3>1 DEF TypeOK
    <3>3. \A w \in Worker : \A i \in 1 .. Len(pipe[w]) : pipe[w][i] \in Offered'
      BY <1>1, <1>2 DEF SocketsKnown
    <3>4. event \in Offered' /\ event \in Fd
      BY <1>2, <1>3, <2>1
    <3>5. SUFFICES ASSUME NEW w \in Worker, NEW i \in 1 .. Len(pipe'[w])
                   PROVE  pipe'[w][i] \in Offered'
      OBVIOUS
    <3>6. CASE pipe'[w] = pipe[w]
      BY <3>3, <3>6
    <3>7. CASE pipe'[w] = Append(pipe[w], event)
      BY <3>2, <3>3, <3>4, <3>7
    <3>8. QED
      BY <3>2, <3>6, <3>7
  <2>3. QED
    BY <1>0, <1>1, <1>2, <1>14, <2>1, <2>2 DEF Notify, SocketsKnown, TypeOK, LoopAt, NextEvent
<1>15. ASSUME NEW w \in Worker, ReadMessage(w) PROVE SocketsKnown'
  <2>1. \A v \in Worker : \A i \in 1 .. Len(pipe'[v]) : pipe'[v][i] \in Offered'
    BY <1>0, <1>1, <1>2, <1>15 DEF ReadMessage, SocketsKnown, TypeOK
  <2>2. QED
    BY <1>0, <1>1, <1>2, <1>15, <2>1 DEF ReadMessage, SocketsKnown
<1>16. ASSUME NEW w \in Worker, WorkerStep(w), ~ ReadMessage(w) PROVE SocketsKnown'
  BY <1>4, <1>16 DEF WorkerStep, PopNothing, Pop, DropIPv6, LookupDst, LookupSrc, Learn,
                     Flood, Send, SendFails
<1>17. QED
  BY <1>5, <1>6, <1>7, <1>8, <1>9, <1>10, <1>11, <1>12, <1>13, <1>14, <1>15, <1>16
  DEF Next, ControlPlane, Dispatcher

\* A worker gets its socket from its pipe, and learns the port of that socket.
LEMMA StepWokenForKnownPort == DataPlaneInv /\ [Next]_vars => WokenForKnownPort'
<1> SUFFICES ASSUME DataPlaneInv, [Next]_vars PROVE WokenForKnownPort'
  OBVIOUS
<1> USE DataPlaneAssumption DEF outside, control, ports, thread, workers
<1>1. TypeOK /\ SocketsKnown /\ WokenForKnownPort
  BY DEF DataPlaneInv
<1>2. /\ \A f \in Offered : f \in Offered'
      /\ \A f \in fdt : f \in fdt' /\ portOf'[f] = portOf[f]
  BY <1>1, EndpointsGrow DEF SocketsKnown, Offered
<1> DEFINE Woken == /\ \A w \in Worker : wpc[w] # "idle" => wfd[w] \in Offered
                    /\ \A w \in Worker : wpc[w] \notin {"idle", "drain"} /\ ~ halted => wfd[w] \in fdt
           Learned(p) == p = NoPort \/ \E f \in fdt : portOf[f] = p
\* First the sockets of the workers.
<1>3. ASSUME NEW w \in Worker, wpc[w] # "idle", wfd' = wfd, ~ halted,
             wpc'[w] \notin {"idle", "drain"} /\ ~ halted' => wfd[w] \in fdt,
             \A v \in Worker : v # w => wpc'[v] = wpc[v]
      PROVE  Woken'
  BY <1>1, <1>2, <1>3 DEF WokenForKnownPort
<1>4. ASSUME UNCHANGED <<wpc, wfd, halted>> PROVE Woken'
  BY <1>1, <1>2, <1>4 DEF WokenForKnownPort
<1>5. ASSUME Client \/ Clock \/ ControlPlane \/ Dispatcher \/ UNCHANGED vars
      PROVE  Woken'
  BY <1>4, <1>5 DEF Client, Clock, ControlPlane, Arrive, Age, AddPort, SendHeader,
     SendPayload, vars, Dispatcher, EpollWait, ReadCtlHeader, ReadCtlPayload, Receive,
     Push, Notify
<1>6. ASSUME NEW w \in Worker, ReadMessage(w) PROVE Woken'
  <2>1. Head(pipe[w]) \in Offered
    BY <1>1, <1>6 DEF ReadMessage, SocketsKnown, TypeOK
  <2>2. QED
    BY <1>1, <1>2, <1>6, <2>1 DEF ReadMessage, Goto, WokenForKnownPort, TypeOK
<1>7. ASSUME NEW w \in Worker, PopNothing(w) PROVE Woken'
  BY <1>1, <1>2, <1>7 DEF PopNothing, Goto, WokenForKnownPort, TypeOK
<1>8. ASSUME NEW w \in Worker,
             \/ Pop(w) \/ DropIPv6(w) \/ LookupDst(w) \/ LookupSrc(w) \/ Learn(w)
             \/ Flood(w) \/ Send(w) \/ SendFails(w)
      PROVE  Woken'
  <2>1. wpc[w] # "idle" /\ wfd' = wfd
    BY <1>8 DEF Pop, DropIPv6, LookupDst, LookupSrc, Learn, Flood, Send, SendFails, At
  <2>2. \A v \in Worker : v # w => wpc'[v] = wpc[v]
    BY <1>1, <1>8 DEF Pop, DropIPv6, LookupDst, LookupSrc, Learn, Flood, Send, SendFails,
                      Done, Goto, TypeOK
  <2>3. ~ halted
    BY <1>8 DEF Pop, DropIPv6, LookupDst, LookupSrc, Learn, Flood, Send, SendFails, At
  <2>4. ~ Pop(w) => wpc[w] \notin {"idle", "drain"}
    BY <1>8 DEF DropIPv6, LookupDst, LookupSrc, Learn, Flood, Send, SendFails, At
  <2>5. Pop(w) /\ ~ halted' => wfd[w] \in fdt
    BY DEF Pop, Ingress
  <2>6. QED
    BY <1>1, <1>3, <2>1, <2>2, <2>3, <2>4, <2>5 DEF WokenForKnownPort
<1>9. Woken'
  BY <1>5, <1>6, <1>7, <1>8 DEF Next, WorkerStep
\* Then the ports in the MAC table.
<1>10. \A p : Learned(p) => Learned(p)'
  BY <1>2
<1>21. \A m \in Mac : Learned(mac[m].port)
  BY <1>1 DEF WokenForKnownPort
<1>11. ASSUME \A m \in Mac : mac'[m].port = mac[m].port
       PROVE  \A m \in Mac : Learned(mac[m].port)'
  BY ONLY <1>10, <1>11, <1>21
<1>12. ASSUME UNCHANGED mac PROVE \A m \in Mac : Learned(mac[m].port)'
  BY <1>11, <1>12
<1>13. ASSUME NEW m, mac' = AfterLookup(m) PROVE \A k \in Mac : mac'[k].port = mac[k].port
  BY <1>1, <1>13 DEF AfterLookup, TypeOK, Entry
<1>14. ASSUME Clock PROVE \A m \in Mac : Learned(mac[m].port)'
  BY <1>1, <1>11, <1>14 DEF Clock, Age, TypeOK, Entry
<1>15. ASSUME NEW w \in Worker, LookupDst(w) \/ LookupSrc(w)
       PROVE  \A m \in Mac : Learned(mac[m].port)'
  BY <1>11, <1>13, <1>15 DEF LookupDst, LookupSrc
<1>16. ASSUME NEW w \in Worker, Learn(w) PROVE \A m \in Mac : Learned(mac[m].port)'
  <2>1. Learned(Ingress(w))
    BY <1>1, <1>16 DEF Learn, At, WokenForKnownPort, Ingress
  <2>2. \A m \in Mac : mac'[m].port \in {mac[m].port, Ingress(w)}
    BY <1>1, <1>16 DEF Learn, AfterInsert, TypeOK, Entry
  <2>3. QED
    BY ONLY <1>10, <1>21, <2>1, <2>2
<1>17. ASSUME Client \/ ControlPlane \/ Dispatcher \/ UNCHANGED vars
       PROVE  \A m \in Mac : Learned(mac[m].port)'
  BY <1>12, <1>17 DEF Client, ControlPlane, Arrive, AddPort, SendHeader, SendPayload, vars,
     Dispatcher, EpollWait, ReadCtlHeader, ReadCtlPayload, Receive, Push, Notify
<1>18. ASSUME NEW w \in Worker,
              \/ ReadMessage(w) \/ PopNothing(w) \/ Pop(w) \/ DropIPv6(w)
              \/ Flood(w) \/ Send(w) \/ SendFails(w)
       PROVE  \A m \in Mac : Learned(mac[m].port)'
  BY <1>12, <1>18 DEF ReadMessage, PopNothing, Pop, DropIPv6, Flood, Send, SendFails
<1>19. \A m \in Mac : Learned(mac[m].port)'
  BY <1>14, <1>15, <1>16, <1>17, <1>18 DEF Next, WorkerStep
<1>20. QED
  BY <1>9, <1>19 DEF WokenForKnownPort

-------------------------------------------------------------------------------
(* The order of frames *)

Busy(w) == wpc[w] \in {"frame", "src", "learn", "forward"}

\* Frames are numbered as they are received and pass through the rings in that
\* order, each through the ring of its own worker: what was sent last of a flow is
\* not younger than any frame of the flow that is still on its way.
RingInOrder(w) ==
  /\ \A i \in 1 .. Len(ring[w]) :
       /\ ring[w][i].n <= dispatched /\ WorkerOf(ring[w][i]) = w
       /\ \A j \in 1 .. Len(ring[w]) : i <= j => ring[w][i].n <= ring[w][j].n
       /\ Busy(w) => wpkt[w].n <= ring[w][i].n
  /\ Busy(w) => wpkt[w].n <= dispatched /\ WorkerOf(wpkt[w]) = w

SentInOrder(f, h) ==
  /\ lastSent[f][h] <= dispatched
  /\ Busy(Steer[h]) => lastSent[f][h] <= wpkt[Steer[h]].n
  /\ \A i \in 1 .. Len(ring[Steer[h]]) : lastSent[f][h] <= ring[Steer[h]][i].n

OrderInv == /\ dpc = "push" => pkt.n = dispatched
            /\ \A w \in Worker : RingInOrder(w)
            /\ \A f \in Fd, h \in Header : SentInOrder(f, h)

\* All the numbers are natural numbers.
LEMMA FrameNumbers ==
  ASSUME TypeOK
  PROVE  /\ dispatched \in Nat /\ pkt.n \in Nat
         /\ \A w \in Worker : /\ wpkt[w].n \in Nat /\ Len(ring[w]) \in Nat
                              /\ \A i \in 1 .. Len(ring[w]) : ring[w][i] \in Packet
                              /\ \A i \in 1 .. Len(ring[w]) : ring[w][i].n \in Nat
         /\ \A f \in Fd, h \in Header : lastSent[f][h] \in Nat
<1>1. \A p \in Packet \cup {NoPacket} : p.n \in Nat
  BY DEF Packet, NoPacket
<1>2. ASSUME NEW w \in Worker
      PROVE  /\ ring[w] \in Seq(Packet) /\ Len(ring[w]) \in Nat
             /\ \A i \in 1 .. Len(ring[w]) : ring[w][i] \in Packet
  BY DEF TypeOK
<1>3. \A f \in Fd : lastSent[f] \in [Header -> Nat]
  BY DEF TypeOK
<1>4. /\ dispatched \in Nat /\ pkt \in Packet \cup {NoPacket}
      /\ \A w \in Worker : wpkt[w] \in Packet \cup {NoPacket}
  BY DEF TypeOK
<1>. QED
  BY <1>1, <1>2, <1>3, <1>4

\* A frame is sent on by the worker of its flow, and not before any that was sent.
LEMMA SendInOrder ==
  ASSUME DataPlaneInv, OrderInv, NEW w \in Worker, Busy(w), NEW S, SendTo(S, wpkt[w]),
         NEW f \in Fd, NEW h \in Header
  PROVE  /\ lastSent'[f][h] >= lastSent[f][h]
         /\ \/ lastSent'[f][h] = lastSent[f][h]
            \/ lastSent'[f][h] = wpkt[w].n /\ Steer[h] = w
<1>. USE DEF DataPlaneInv
<1>1. /\ lastSent[f] \in [Header -> Nat] /\ lastSent[f][h] \in Nat /\ wpkt[w].n \in Nat
  BY FrameNumbers DEF TypeOK
<1>2. \/ lastSent'[f] = lastSent[f]
      \/ wpkt[w].whole /\ lastSent'[f] = [lastSent[f] EXCEPT ![wpkt[w].hdr] = wpkt[w].n]
  BY DEF SendTo
<1>3. \/ lastSent'[f][h] = lastSent[f][h]
      \/ wpkt[w].whole /\ h = wpkt[w].hdr /\ lastSent'[f][h] = wpkt[w].n
  BY <1>1, <1>2
<1>4. WorkerOf(wpkt[w]) = w
  BY DEF OrderInv, RingInOrder
<1>5. wpkt[w].whole /\ h = wpkt[w].hdr => Steer[h] = w
  BY <1>4 DEF WorkerOf
<1>6. Steer[h] = w => lastSent[f][h] <= wpkt[w].n
  BY DEF OrderInv, SentInOrder
<1>. QED
  BY <1>1, <1>3, <1>5, <1>6

\* Every step keeps the frames in order.
LEMMA StepOrderInv == DataPlaneInv /\ OrderInv /\ [Next]_vars => OrderInv'
<1>. SUFFICES ASSUME DataPlaneInv, OrderInv, [Next]_vars PROVE OrderInv'
  OBVIOUS
<1>. USE DataPlaneAssumption DEF outside, control, ports, thread, workers
<1>0. TypeOK /\ TypeOK' /\ SocketsKnown
  BY StepTypeOK DEF DataPlaneInv
<1>1. ASSUME UNCHANGED <<dispatched, ring, wpkt, lastSent>>,
             dpc' = "push" => dpc = "push" /\ pkt' = pkt,
             \A w \in Worker : Busy(w)' => Busy(w)
      PROVE  OrderInv'
  BY <1>1 DEF OrderInv, RingInOrder, SentInOrder, WorkerOf
<1>2. CASE Client \/ Clock \/ ControlPlane \/ UNCHANGED vars
  BY <1>1, <1>2 DEF Client, Clock, ControlPlane, Arrive, Age, AddPort, SendHeader,
                    SendPayload, vars, Busy
<1>3. CASE EpollWait \/ ReadCtlHeader \/ ReadCtlPayload \/ Notify
  BY <1>1, <1>3 DEF EpollWait, ReadCtlHeader, ReadCtlPayload, Notify, NextEvent, Busy
<1>4. CASE Receive
  <2>1. dispatched' = dispatched + 1 /\ pkt'.n = dispatched'
    BY <1>0, <1>4 DEF Receive, Received, Frame
  <2>2. UNCHANGED <<ring, wpkt, lastSent, wpc>>
    BY <1>4 DEF Receive
  <2>. QED
    BY <1>0, <2>1, <2>2, FrameNumbers DEF OrderInv, RingInOrder, SentInOrder, WorkerOf, Busy
<1>5. CASE Push
  <2> DEFINE v == WorkerOf(pkt)
  <2>1. /\ v \in Worker /\ pkt \in Packet /\ pkt.n = dispatched /\ dpc' # "push"
        /\ ring' = [ring EXCEPT ![v] = Append(@, pkt)]
        /\ UNCHANGED <<dispatched, wpkt, lastSent, wpc>>
    BY <1>0, <1>5, WorkerOfType DEF Push, LoopAt, SocketsKnown, OrderInv
  <2>. HIDE DEF v
  <2>2. ASSUME NEW w \in Worker, NEW i \in 1 .. Len(ring'[w])
        PROVE  \/ i \in 1 .. Len(ring[w]) /\ ring'[w][i] = ring[w][i]
               \/ i = Len(ring'[w]) /\ w = v /\ ring'[w][i] = pkt
    <3>1. ring[w] \in Seq(Packet) /\ ring'[w] = IF w = v THEN Append(ring[w], pkt) ELSE ring[w]
      BY <1>0, <2>1 DEF TypeOK
    <3>. QED
      BY <2>1, <3>1
  <2>3. ASSUME NEW w \in Worker PROVE Len(ring[w]) \in Nat /\ Len(ring'[w]) >= Len(ring[w])
    <3>1. ring[w] \in Seq(Packet) /\ ring'[w] = IF w = v THEN Append(ring[w], pkt) ELSE ring[w]
      BY <1>0, <2>1 DEF TypeOK
    <3>. QED
      BY <2>1, <3>1
  <2>4. WorkerOf(pkt) = v
    BY DEF v
  <2>5. QED
    BY <1>0, <2>1, <2>2, <2>3, <2>4, FrameNumbers DEF OrderInv, RingInOrder, SentInOrder, WorkerOf, Busy
<1>6. ASSUME NEW w \in Worker, Pop(w) PROVE OrderInv'
  \* The frame the worker takes is the first of its ring; the others move up.
  <2>1. /\ ring' = [ring EXCEPT ![w] = Tail(@)] /\ ring[w] # << >>
        /\ wpkt' = [wpkt EXCEPT ![w] = Head(ring[w])]
        /\ wpc[w] = "drain" /\ wpc' = [wpc EXCEPT ![w] = "frame"]
        /\ UNCHANGED <<dispatched, lastSent, dpc, pkt>>
    BY <1>6 DEF Pop, At, Goto
  <2>2. ring[w] \in Seq(Packet) /\ Len(ring[w]) \in Nat /\ 1 \in 1 .. Len(ring[w])
    <3>1. ring[w] \in Seq(Packet) /\ ring[w] # << >>
      BY <1>0, <1>6 DEF TypeOK, Pop
    <3>. QED
      BY ONLY <3>1
  <2>3. /\ Len(ring'[w]) = Len(ring[w]) - 1 /\ wpkt'[w] = ring[w][1]
        /\ \A i \in 1 .. Len(ring'[w]) : /\ i + 1 \in 1 .. Len(ring[w])
                                        /\ ring'[w][i] = ring[w][i + 1]
    BY <1>0, <2>1, <2>2 DEF TypeOK
  <2>4. \A u \in Worker : u # w => /\ ring'[u] = ring[u] /\ wpkt'[u] = wpkt[u]
                                  /\ Busy(u)' = Busy(u)
    BY <1>0, <2>1 DEF TypeOK, Busy
  <2>5. ASSUME NEW u \in Worker, u # w PROVE RingInOrder(u)'
    BY <2>1, <2>4, <2>5 DEF OrderInv, RingInOrder, WorkerOf
  <2>6. RingInOrder(w)'
    <3>1. RingInOrder(w) /\ dispatched' = dispatched
      BY <2>1 DEF OrderInv
    <3>2. wpkt'[w].n <= dispatched /\ WorkerOf(wpkt'[w]) = w
      BY <2>2, <2>3, <3>1 DEF RingInOrder
    <3>3. ASSUME NEW i \in 1 .. Len(ring'[w])
          PROVE  /\ ring'[w][i].n <= dispatched /\ WorkerOf(ring'[w][i]) = w
                 /\ \A j \in 1 .. Len(ring'[w]) : i <= j => ring'[w][i].n <= ring'[w][j].n
                 /\ wpkt'[w].n <= ring'[w][i].n
      <4>1. /\ i + 1 \in 1 .. Len(ring[w]) /\ ring'[w][i] = ring[w][i + 1] /\ 1 <= i + 1
            /\ \A j \in 1 .. Len(ring'[w]) :
                 /\ j + 1 \in 1 .. Len(ring[w]) /\ ring'[w][j] = ring[w][j + 1]
                 /\ i <= j => i + 1 <= j + 1
        BY <2>2, <2>3
      <4>. QED
        BY <2>2, <2>3, <3>1, <4>1 DEF RingInOrder
    <3>. QED
      BY <3>1, <3>2, <3>3 DEF RingInOrder, WorkerOf
  <2>7. ASSUME NEW f \in Fd, NEW h \in Header PROVE SentInOrder(f, h)'
    <3>1. SentInOrder(f, h) /\ UNCHANGED <<lastSent, dispatched>> /\ Steer[h] \in Worker
      BY <2>1 DEF OrderInv
    <3>2. CASE Steer[h] = w
      <4>1. lastSent[f][h] <= wpkt'[w].n
        BY <2>2, <2>3, <3>1, <3>2 DEF SentInOrder
      <4>2. \A i \in 1 .. Len(ring'[w]) : lastSent[f][h] <= ring'[w][i].n
        BY <2>3, <3>1, <3>2 DEF SentInOrder
      <4>. QED
        BY <3>1, <3>2, <4>1, <4>2 DEF SentInOrder
    <3>3. CASE Steer[h] # w
      <4>1. /\ ring'[Steer[h]] = ring[Steer[h]] /\ wpkt'[Steer[h]] = wpkt[Steer[h]]
            /\ Busy(Steer[h])' = Busy(Steer[h])
        BY <2>4, <3>1, <3>3
      <4>. QED
        BY <3>1, <4>1 DEF SentInOrder
    <3>. QED
      BY <3>2, <3>3
  <2>8. QED
    BY <2>1, <2>5, <2>6, <2>7 DEF OrderInv
<1>7. ASSUME NEW w \in Worker, \/ ReadMessage(w) \/ PopNothing(w) \/ LookupSrc(w)
                              \/ Learn(w) \/ SendFails(w)
      PROVE  OrderInv'
  <2>1. UNCHANGED <<dispatched, ring, wpkt, lastSent, dpc, pkt>>
    BY <1>7 DEF ReadMessage, PopNothing, LookupSrc, Learn, SendFails
  <2>2. \A u \in Worker : Busy(u)' => Busy(u)
    BY <1>0, <1>7 DEF ReadMessage, PopNothing, LookupSrc, Learn, SendFails, At, Goto, Busy,
                      TypeOK
  <2>. QED
    BY <1>1, <2>1, <2>2
\* The worker is through with its frame.
<1>8. ASSUME NEW w \in Worker, Done(w), UNCHANGED <<dispatched, ring, dpc, pkt>>
      PROVE  /\ ~ Busy(w)'
             /\ \A u \in Worker : Busy(u)' => Busy(u) /\ wpkt'[u] = wpkt[u]
  BY <1>0, <1>8 DEF Done, Goto, Busy, TypeOK
<1>9. ASSUME NEW w \in Worker, DropIPv6(w) \/ LookupDst(w) PROVE OrderInv'
  <2>1. UNCHANGED <<dispatched, ring, lastSent, dpc, pkt>>
    BY <1>9 DEF DropIPv6, LookupDst
  <2>2. \A u \in Worker : Busy(u)' => Busy(u) /\ wpkt'[u] = wpkt[u]
    <3>1. CASE Done(w)
      BY <1>8, <2>1, <3>1
    <3>2. CASE ~ Done(w)
      BY <1>0, <1>9, <3>2 DEF DropIPv6, LookupDst, At, Goto, Busy, TypeOK
    <3>. QED
      BY <3>1, <3>2
  <2>. QED
    BY <2>1, <2>2 DEF OrderInv, RingInOrder, SentInOrder, WorkerOf
<1>10. ASSUME NEW w \in Worker, Flood(w) \/ Send(w) PROVE OrderInv'
  <2>1. PICK S : SendTo(S, wpkt[w])
    BY <1>10 DEF Flood, Send
  <2>2. Busy(w) /\ Done(w) /\ UNCHANGED <<dispatched, ring, dpc, pkt>>
    BY <1>10 DEF Flood, Send, At, Busy
  <2>3. /\ ~ Busy(w)'
        /\ \A u \in Worker : Busy(u)' => Busy(u) /\ wpkt'[u] = wpkt[u]
    BY <1>8, <2>2
  <2>4. \A f \in Fd, h \in Header :
          \/ lastSent'[f][h] = lastSent[f][h]
          \/ lastSent'[f][h] = wpkt[w].n /\ Steer[h] = w
    <3>. SUFFICES ASSUME NEW f \in Fd, NEW h \in Header
                  PROVE  \/ lastSent'[f][h] = lastSent[f][h]
                         \/ lastSent'[f][h] = wpkt[w].n /\ Steer[h] = w
      OBVIOUS
    <3>1. Busy(w)
      BY <2>2
    <3>. QED
      BY <2>1, <3>1, SendInOrder
  <2>5. /\ wpkt[w].n <= dispatched
        /\ \A i \in 1 .. Len(ring[w]) : wpkt[w].n <= ring[w][i].n
    BY <2>2 DEF OrderInv, RingInOrder
  <2>6. \A h \in Header : Steer[h] \in Worker
    OBVIOUS
  <2>. QED
    BY <2>2, <2>3, <2>4, <2>5, <2>6 DEF OrderInv, RingInOrder, SentInOrder, WorkerOf
<1>. QED
  BY <1>2, <1>3, <1>4, <1>5, <1>6, <1>7, <1>9, <1>10 DEF Next, Dispatcher, WorkerStep

-------------------------------------------------------------------------------
(* The results *)

\* The invariant holds in every reachable state of the forwarding path.
THEOREM DataPlaneInvariant == Spec => []DataPlaneInv
<1>1. Init => DataPlaneInv
  BY InitDataPlaneInv
<1>2. DataPlaneInv /\ [Next]_vars => DataPlaneInv'
  BY StepTypeOK, StepNoLostWakeup, StepCtlFramed, StepSocketsKnown, StepWokenForKnownPort
  DEF DataPlaneInv
<1>3. QED
  BY <1>1, <1>2, PTL DEF Spec

\* Type correctness, for every value of the constants.
THEOREM DataPlaneTypeCorrect == Spec => []TypeOK
BY DataPlaneInvariant, PTL DEF DataPlaneInv

\* No worker sleeps on a frame it was not and will not be told of, however push,
\* pop, write and read interleave (thread_pool_dispatch_packet, worker_thread).
THEOREM NoWakeupLost == Spec => []NoLostWakeup
BY DataPlaneInvariant, PTL DEF DataPlaneInv

\* Headers and sockets on ctl_pipe never get out of step (send_ctl_message,
\* handle_ctl_message).
THEOREM CtlPipeFramed == Spec => []CtlFramed
BY DataPlaneInvariant, PTL DEF DataPlaneInv

\* A worker is woken only for sockets that were offered to the fd table, works only
\* on frames of sockets that are in it, and learns only their ports (add_port,
\* worker_thread).
THEOREM PortKnownBeforeUse == Spec => []WokenForKnownPort
BY DataPlaneInvariant, PTL DEF DataPlaneInv

\* "Endpoint not found" (thread_pool.c:59) ends the process only for a listed socket
\* whose insertion into the fd table failed, which add_port does not look at
\* (port_manager.c:92); no order of messages and frames leads there otherwise.
THEOREM NotFoundOnlyIfRefused ==
  Spec => [][\A w \in Worker : Pop(w) /\ halted' => wfd[w] \in refused /\ wfd[w] \in endpoints]_vars
<1>1. DataPlaneInv => \A w \in Worker : Pop(w) /\ halted' => wfd[w] \in refused /\ wfd[w] \in endpoints
  <2>. SUFFICES ASSUME DataPlaneInv, NEW w \in Worker, Pop(w), halted'
                PROVE  wfd[w] \in refused /\ wfd[w] \in endpoints
    OBVIOUS
  <2>1. wfd[w] \in Offered /\ wfd[w] \in endpoints
    BY DEF DataPlaneInv, WokenForKnownPort, SocketsKnown, Pop, At
  <2>2. wfd[w] \notin fdt
    BY <2>1 DEF Pop, Ingress, endpoints
  <2>. QED
    BY <2>1, <2>2 DEF Offered
<1>2. QED
  BY <1>1, DataPlaneInvariant, PTL

\* Within a flow frames leave the switch in the order in which they were received,
\* for any number of workers and frames in the rings, although rings are drained
\* for each other's messages (compute_packet_hash, dispatch_packet, worker_thread).
THEOREM FlowsStayInOrder == Spec => FlowOrder
<1>1. Init => OrderInv
  BY DataPlaneAssumption DEF OrderInv, RingInOrder, SentInOrder, Init, Busy
<1>2. DataPlaneInv /\ OrderInv /\ [Next]_vars =>
        [\A f \in Fd, h \in Header : lastSent'[f][h] >= lastSent[f][h]]_lastSent
  <2>. SUFFICES ASSUME DataPlaneInv, OrderInv, Next, lastSent' # lastSent,
                       NEW f \in Fd, NEW h \in Header
                PROVE  lastSent'[f][h] >= lastSent[f][h]
    BY DEF vars, workers
  <2>1. \E w \in Worker : Flood(w) \/ Send(w)
    BY DEF Next, Client, Clock, ControlPlane, Dispatcher, WorkerStep, Arrive, Age, AddPort,
       SendHeader, SendPayload, EpollWait, ReadCtlHeader, ReadCtlPayload, Receive, Push,
       Notify, ReadMessage, PopNothing, Pop, DropIPv6, LookupDst, LookupSrc, Learn,
       SendFails, workers
  <2>2. PICK w \in Worker : Flood(w) \/ Send(w)
    BY <2>1
  <2>3. PICK S : SendTo(S, wpkt[w])
    BY <2>2 DEF Flood, Send
  <2>4. Busy(w)
    BY <2>2 DEF Flood, Send, At, Busy
  <2>. QED
    BY <2>3, <2>4, SendInOrder
<1>. QED
  BY <1>1, <1>2, DataPlaneInvariant, StepOrderInv, PTL DEF Spec, FlowOrder
===============================================================================

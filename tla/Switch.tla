-------------------------------- MODULE Switch --------------------------------
(***************************************************************************)
(* The life of a switch as main() lays it out (src/main.c): the table of   *)
(* ports, the directory and the socket of the control plane                *)
(* (init_ctl_plane), the data-plane thread and the pool of workers         *)
(* (init_data_plane), then the control loop.  It puts together RealPath,   *)
(* which resolves the directory, and FdTable, which the control loop fills *)
(* and the workers read.                                                   *)
(*                                                                         *)
(* A second switch may start, stop and die while this one claims its       *)
(* socket.  Serving is abstract here: ControlPlane and DataPlane have its  *)
(* detail.                                                                 *)
(***************************************************************************)
EXTENDS RealPath, FdTable

CONSTANTS
  Me, Other,       \* this switch and another one with the same directory
  NoFile, Stale,   \* no socket file; one whose switch is gone
  Numports,        \* values of numports after process_options
  Threads,         \* values of worker_threads
  MAX_THREADS,
  MaxStarts,       \* bound: starts of the other switch
  MaxFrames        \* bound: frames the clients send

ASSUME SwitchAssumption ==
  /\ Me # Other /\ {NoFile, Stale} \cap {Me, Other} = {} /\ NoFile # Stale
  /\ MAX_THREADS \in Nat \ {0} /\ Worker = 1 .. MAX_THREADS
  /\ Numports \subseteq Int /\ Threads \subseteq Int
  /\ MaxStarts \in Nat /\ MaxFrames \in Nat

VARIABLES
  mpc,              \* main(): where it is; "exit" when the process has ended
  numports, worker_threads,
  cpc,              \* per switch: how far its claim of the socket is
  sock, listening,  \* the file "ctl": whose socket it is; who listens
  starts, raced,    \* starts of the other switch; whether two claims ever overlapped
  portc, adding,    \* the next port; the data socket being added
  told, watched,    \* messages in ctl_pipe; data sockets of the data plane's epoll set
  dpc, frame,       \* the data-plane thread; the socket a frame is read from
  frames,           \* frames sent so far
  pool,             \* the pool: none yet, or the workers that were started
  started,          \* thread_pool_create: the workers started so far, the next one
  nth,
  queue             \* per worker: the frames it has yet to handle

settings == <<numports, worker_threads>>
claim == <<cpc, sock, listening, starts, raced>>
ports == <<portc, adding>>
dataPlane == <<told, watched, dpc, frame, frames>>
threads == <<pool, started, nth, queue>>
vars == <<mpc, settings, claim, ports, dataPlane, threads, pathVars, fdVars>>

Switches == {Me, Other}
NoPool == {0}
NoSocket == 0

Init == /\ mpc = "ports" /\ numports \in Numports /\ worker_threads \in Threads
        /\ cpc = [s \in Switches |-> "off"] /\ sock \in {NoFile, Stale}
        /\ listening = {} /\ starts = 0 /\ raced = FALSE
        /\ portc = 1 /\ adding = NoSocket /\ told = << >> /\ watched = {}
        /\ dpc = "none" /\ frame = NoSocket /\ frames = 0
        /\ pool = NoPool /\ started = {} /\ nth = 1
        /\ queue = [w \in Worker |-> << >>]
        /\ PathInit /\ FdInit

\* printlog(ERROR, ...) and exit() end the process; its socket file stays behind.
Exit == /\ mpc' = "exit"
        /\ cpc' = [cpc EXCEPT ![Me] = "off"]
        /\ sock' = IF sock = Me THEN Stale ELSE sock
        /\ listening' = listening \ {Me}
        /\ UNCHANGED <<settings, starts, raced, ports, dataPlane, threads, pathVars, fdVars>>

Step(from, to) == mpc = from /\ mpc' = to

-------------------------------------------------------------------------------
(* main, init_ports, and init_ctl_plane up to the name of the socket *)

InitPorts == /\ Step("ports", "mkdir") /\ numports >= 1
             /\ UNCHANGED <<settings, claim, ports, dataPlane, threads, pathVars, fdVars>>

NoPorts == mpc = "ports" /\ numports < 1 /\ Exit

\* The last component of the name, slashes at its end apart, and the directory it is in.
LastNamed == CHOOSE e \in 0 .. Len(name.comps) :
               /\ e = 0 \/ name.comps[e] # ""
               /\ \A i \in e + 1 .. Len(name.comps) : name.comps[i] = ""
Parent == Named(SubSeq(name.comps, 1, LastNamed - 1))
Place == Append(Parent, name.comps[LastNamed])
Untaken == /\ LastNamed \in DOMAIN name.comps /\ name.comps[LastNamed] \notin {".", ".."}
           /\ Place \notin DOMAIN tree
NewDir == [kind |-> "dir", search |-> TRUE, abs |-> FALSE, comps |-> << >>]

\* The directory of the control socket is made unless the name is taken.
MakeDir == /\ Step("mkdir", "path") /\ Searchable(Parent)
           /\ name.abs \/ name.comps # << >>
           /\ tree' = IF Untaken THEN [p \in DOMAIN tree \cup {Place} |->
                                       IF p = Place THEN NewDir ELSE tree[p]]
                      ELSE tree
           /\ UNCHANGED <<settings, claim, ports, dataPlane, threads, name, walk, rest,
                          resolved, num_links, errno, fdVars>>

\* socket(), setsockopt(), fcntl() or mkdir() fails.
MakeDirFails == mpc = "mkdir" /\ Exit

ResolveDir == /\ mpc = "path" /\ PathNext
              /\ UNCHANGED <<mpc, settings, claim, ports, dataPlane, threads, fdVars>>

\* chown() and chmod() of the directory; the tree is not looked at again.
OwnDir == /\ Step("path", "claim") /\ walk = "resolved"
          /\ tree[resolved].kind = "dir"
          /\ cpc' = [cpc EXCEPT ![Me] = "bind"]
          /\ tree' = [p \in {<< >>} |-> NewDir]
          /\ rest' = << >> /\ resolved' = << >> /\ num_links' = 0
          /\ name' = [abs |-> TRUE, comps |-> << >>]
          /\ UNCHANGED <<settings, sock, listening, starts, raced, ports, dataPlane,
                         threads, walk, errno, fdVars>>

\* The name does not resolve, or chown(), chmod() or the first bind() fails.
OwnDirFails == mpc = "path" /\ walk \in {"resolved", "failed"} /\ Exit

-------------------------------------------------------------------------------
(* Claiming the socket: either switch *)

Underway == {"probe", "unlink", "rebind", "perms", "listen"}

\* Switch s goes on to l.
Goes(s, l) == /\ cpc' = [cpc EXCEPT ![s] = l]
              /\ raced' = (raced \/ \A x \in Switches : cpc'[x] \in Underway)
              /\ starts' = starts

Bind(s) == /\ cpc[s] = "bind"
           /\ IF sock = NoFile THEN sock' = s /\ Goes(s, "perms")
                               ELSE Goes(s, "probe") /\ UNCHANGED sock
           /\ UNCHANGED listening

\* still_used: connect() succeeds, is refused, or finds no file; in the last case
\* printlog gets LOG_ERR, which is the number of ERROR.
Probe(s) == /\ cpc[s] = "probe"
            /\ Goes(s, IF sock \in listening THEN "inUse"
                       ELSE IF sock = NoFile THEN "lost" ELSE "unlink")
            /\ UNCHANGED <<sock, listening>>

\* Mutation of Unlink: the file of a switch that is gone is left alone.
UnlinkNothing(s) == /\ cpc[s] = "unlink"
                    /\ Goes(s, "rebind")
                    /\ UNCHANGED <<sock, listening>>

Unlink(s) == /\ cpc[s] = "unlink"
             /\ sock' = NoFile
             /\ Goes(s, IF sock = NoFile THEN "lost" ELSE "rebind")
             /\ UNCHANGED listening

Rebind(s) == /\ cpc[s] = "rebind"
             /\ IF sock = NoFile THEN sock' = s /\ Goes(s, "perms")
                                 ELSE Goes(s, "lost") /\ UNCHANGED sock
             /\ UNCHANGED listening

\* chown() of whatever file is there.
OwnSocket(s) == /\ cpc[s] = "perms"
                /\ Goes(s, IF sock = NoFile THEN "lost" ELSE "listen")
                /\ UNCHANGED <<sock, listening>>

Listen(s) == /\ cpc[s] = "listen"
             /\ listening' = listening \cup {s}
             /\ Goes(s, "on")
             /\ UNCHANGED sock

Claim(s) == /\ \/ Bind(s) \/ Probe(s) \/ Unlink(s) \/ Rebind(s) \/ OwnSocket(s) \/ Listen(s)
            /\ UNCHANGED <<mpc, settings, ports, dataPlane, threads, pathVars, fdVars>>

ClaimSocket == mpc = "claim" /\ Claim(Me)

ClaimFails == mpc = "claim" /\ cpc[Me] \in {"inUse", "lost"} /\ Exit

\* The other switch starts, once this one has come to the claim.
OtherStarts == /\ cpc[Other] \in {"off", "inUse", "lost"} /\ starts < MaxStarts
               /\ cpc' = [cpc EXCEPT ![Other] = "bind"] /\ starts' = starts + 1
               /\ UNCHANGED <<mpc, settings, sock, listening, raced, ports, dataPlane,
                              threads, pathVars, fdVars>>

\* It is killed, wherever it is.
OtherDies == /\ cpc[Other] # "off"
             /\ cpc' = [cpc EXCEPT ![Other] = "off"]
             /\ sock' = IF sock = Other THEN Stale ELSE sock
             /\ listening' = listening \ {Other}
             /\ UNCHANGED <<mpc, settings, starts, raced, ports, dataPlane, threads,
                            pathVars, fdVars>>

\* Bound: the other switch is looked at until this one serves.
OtherSwitch == /\ mpc \in {"claim", "thread", "pool"}
               /\ Claim(Other) \/ OtherStarts \/ OtherDies

-------------------------------------------------------------------------------
(* The rest of init_ctl_plane, and init_data_plane *)

\* The epoll set with the listening socket, ctl_pipe, the MAC table.
WatchSocket == /\ Step("claim", "thread") /\ cpc[Me] = "on"
               /\ UNCHANGED <<settings, claim, ports, dataPlane, threads, pathVars, fdVars>>

\* Mutation of StartThread: main goes on to the control loop.
StartThreadOnly == /\ Step("thread", "loop") /\ dpc' = "wait"
                   /\ UNCHANGED <<settings, claim, ports, told, watched, frame, frames,
                                  threads, pathVars, fdVars>>

\* The data-plane thread starts, watching ctl_pipe.
StartThread == /\ Step("thread", "pool") /\ dpc' = "wait"
               /\ UNCHANGED <<settings, claim, ports, told, watched, frame, frames,
                              threads, pathVars, fdVars>>

NoThread == mpc = "thread" /\ Exit

\* num_threads is a size_t: what is negative becomes more than any array holds.
Wanted == IF worker_threads < 0 THEN MAX_THREADS + 1 ELSE worker_threads

NoThreads == mpc = "pool" /\ Wanted < 1 /\ Exit

\* A worker whose pipe cannot be made is left out, without a ring.
StartWorker == /\ mpc = "pool" /\ nth <= Wanted /\ nth <= MAX_THREADS
               /\ started' \in {started, started \cup {nth}}
               /\ nth' = nth + 1
               /\ UNCHANGED <<mpc, settings, claim, ports, dataPlane, pool, queue,
                              pathVars, fdVars>>

\* There is no room for this worker in pool->workers: what follows is undefined.
Overrun == mpc = "pool" /\ nth <= Wanted /\ nth > MAX_THREADS /\ Exit

\* The pool is there; main enters the control loop.
PoolReady == /\ Step("pool", "loop") /\ Wanted >= 1 /\ nth > Wanted
             /\ pool' = started /\ started' = {} /\ nth' = 1
             /\ UNCHANGED <<settings, claim, ports, dataPlane, queue, pathVars, fdVars>>

-------------------------------------------------------------------------------
(* Serving *)

\* A client asks for a port: alloc_endpoint with the next number.
Request(f) == /\ Step("loop", "insert") /\ sock = Me
              /\ portc < numports /\ portc' = portc + 1 /\ adding' = f
              /\ InsertCall(f)
              /\ UNCHANGED <<settings, claim, dataPlane, threads, pathVars>>

NoPortLeft == mpc = "loop" /\ sock = Me /\ portc >= numports /\ Exit

InsertPort == /\ mpc = "insert" /\ Insertion
              /\ UNCHANGED <<mpc, settings, claim, ports, dataPlane, threads, pathVars>>

\* Mutation of Tell: the socket is read after it was reset.
TellReset == /\ Step("insert", "loop") /\ ipc = "idle"
             /\ adding' = NoSocket /\ told' = Append(told, adding')
             /\ UNCHANGED <<settings, claim, portc, watched, dpc, frame, frames, threads,
                            pathVars, fdVars>>

\* send_ctl_message, whatever the insertion returned.
Tell == /\ Step("insert", "loop") /\ ipc = "idle"
        /\ told' = Append(told, adding) /\ adding' = NoSocket
        /\ UNCHANGED <<settings, claim, portc, watched, dpc, frame, frames, threads,
                       pathVars, fdVars>>

Alive == mpc # "exit"

\* The data-plane thread reads a message, then watches the socket.
Watch == /\ Alive /\ dpc = "wait" /\ told # << >>
         /\ watched' = watched \cup {Head(told)} /\ told' = Tail(told)
         /\ UNCHANGED <<mpc, settings, claim, ports, dpc, frame, frames, threads,
                        pathVars, fdVars>>

\* A client sends a frame and the thread receives it.
Receive(f) == /\ Alive /\ dpc = "wait" /\ f \in watched /\ frames < MaxFrames
              /\ dpc' = "dispatch" /\ frame' = f /\ frames' = frames + 1
              /\ UNCHANGED <<mpc, settings, claim, ports, told, watched, threads, pathVars,
                             fdVars>>

\* The frame goes to the worker its hash selects.
Dispatch(w) == /\ Alive /\ dpc = "dispatch" /\ w <= Wanted /\ w \in pool
               /\ queue' = [queue EXCEPT ![w] = Append(@, frame)]
               /\ dpc' = "wait" /\ frame' = NoSocket
               /\ UNCHANGED <<mpc, settings, claim, ports, told, watched, frames, pool,
                              started, nth, pathVars, fdVars>>

\* The pool is NULL, or the worker selected has no ring.
DispatchNowhere == /\ Alive /\ dpc = "dispatch"
                   /\ \E w \in Worker : w <= Wanted /\ w \notin pool
                   /\ Exit

\* A worker takes a frame and looks its endpoint up.
Take(w) == /\ Alive /\ queue[w] # << >>
           /\ LookupCall(w, Head(queue[w]))
           /\ queue' = [queue EXCEPT ![w] = Tail(@)]
           /\ UNCHANGED <<mpc, settings, claim, ports, dataPlane, pool, started, nth,
                          pathVars>>

Look(w) == /\ Alive
           /\ LoadPointer(w) \/ LoadElement(w)
           /\ UNCHANGED <<mpc, settings, claim, ports, dataPlane, threads, pathVars>>

\* The frame is forwarded.
Forward(w) == /\ Alive /\ found[w] # NoEp /\ Used(w)
              /\ UNCHANGED <<mpc, settings, claim, ports, dataPlane, threads, pathVars>>

\* printlog(ERROR, "Endpoint not found ...")
NotFound(w) == lpc[w] \in {"done", "astray"} /\ found[w] = NoEp /\ Alive /\ Exit

-------------------------------------------------------------------------------
Boot == \/ InitPorts \/ NoPorts \/ MakeDir \/ MakeDirFails \/ ResolveDir \/ OwnDir
        \/ OwnDirFails \/ ClaimSocket \/ ClaimFails \/ WatchSocket
        \/ StartThread \/ NoThread \/ NoThreads \/ StartWorker \/ Overrun \/ PoolReady

Serve == \/ \E f \in Fd : Request(f) \/ Receive(f)
         \/ NoPortLeft \/ InsertPort \/ Tell \/ Watch \/ DispatchNowhere
         \/ \E w \in Worker : Dispatch(w) \/ Take(w) \/ Look(w) \/ Forward(w) \/ NotFound(w)

Next == Boot \/ Serve \/ OtherSwitch

Spec == Init /\ [][Next]_vars

\* main() runs on; it waits for nobody until it is in its loop.
FairSpec == Spec /\ WF_vars(Boot)

-------------------------------------------------------------------------------
TypeOK ==
  /\ FdTypeOK
  /\ mpc \in {"ports", "mkdir", "path", "claim", "thread", "pool", "loop", "insert", "exit"}
  /\ numports \in Int /\ worker_threads \in Int /\ starts \in 0 .. MaxStarts
  /\ cpc \in [Switches -> Underway \cup {"off", "bind", "inUse", "lost", "on"}]
  /\ sock \in Switches \cup {NoFile, Stale} /\ listening \subseteq Switches
  /\ raced \in BOOLEAN /\ portc \in Nat /\ adding \in Fd \cup {NoSocket}
  /\ told \in Seq(Fd) /\ watched \subseteq Fd /\ dpc \in {"none", "wait", "dispatch"}
  /\ frame \in Fd \cup {NoSocket} /\ frames \in 0 .. MaxFrames
  /\ (pool = NoPool \/ pool \subseteq Worker) /\ started \subseteq Worker /\ nth \in Nat
  /\ queue \in [Worker -> Seq(Fd)]

\* As long as no two claims of the socket overlap, a switch gives up only when
\* another one answers on it, whatever died and left its file behind before, and
\* the file a switch listens on is its own, for clients to find.
ClaimsHold == raced \/ \A s \in Switches : /\ cpc[s] # "lost"
                                           /\ cpc[s] = "on" => sock = s

\* init_data_plane starts the data-plane thread before there is a pool; yet no
\* frame is dispatched before there is one, because only the control loop, which
\* main enters later, makes sockets for frames to come from.
PoolBeforeFrames == dpc = "dispatch" => pool # NoPool

\* A switch starts or ends: in particular the walk through links ends, be they
\* circular, and a claim is never left waiting for the other switch.
BootEnds == <>(mpc \in {"loop", "insert", "exit"})
===============================================================================

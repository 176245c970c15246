-------------------------------- MODULE Connection --------------------------------
(***************************************************************************)
(* How a CLI reaches the daemon of a workspace instance and what it makes  *)
(* of the answer: the lock and the socket of an instance                   *)
(* (libs/bridge_platform/src/runtime_posix.cpp, apps/bridge_daemon),       *)
(* connections with a hello and one request                                *)
(* (libs/bridge_transport/src/transport_posix.cpp), and the exit code of   *)
(* apps/bridge_cli.  What a handler does in between is RequestStream's     *)
(* matter: here it sends chunks and one last frame.  Several daemons may   *)
(* be started for one instance, and any of them may die at any time.       *)
(***************************************************************************)
EXTENDS Integers, Sequences, FiniteSets

CONSTANTS
  Daemon,        \* daemon processes started for the instance
  Client,        \* runs of the CLI
  MaxChunks,     \* bound: chunks of an answer
  Buffer,        \* frames a socket holds that nobody has read yet
  Timeouts       \* TRUE: the CLI was given a timeout_ms

Nobody == "nobody"

ASSUME ConnectionAssumption ==
  /\ Nobody \notin Daemon
  /\ MaxChunks \in Nat /\ Buffer \in Nat \ {0} /\ Timeouts \in BOOLEAN

VARIABLES
  daemon,     \* Daemon -> "off", "starting", "locked", "unlinked", "bound", "serving", "dead"
  lock,       \* the daemon that holds the lock of the instance, or Nobody
  endpoint,   \* the daemon whose socket the path of the endpoint leads to, or Nobody
  client,     \* Client -> where it stands, its daemon, whether it asked for a stream, the
              \* last frame it saw, whether it gave up waiting, its exit code
  server,     \* Client -> where the thread that serves its connection stands
  up, down    \* Client -> frames on their way to the daemon, and to the client

vars == <<daemon, lock, endpoint, client, server, up, down>>

Frames == {"hello", "ack", "request", "chunk", "ok", "error"}

NewClient == [pc |-> "idle", to |-> Nobody, streams |-> FALSE, last |-> "none",
              late |-> FALSE, exit |-> "none"]

\* A thread: where it stands, whether its end of the connection is open, whether the
\* request was carried out, and the chunks it has left to send
NewServer == [pc |-> "none", open |-> FALSE, did |-> "nothing", left |-> 0]

Init ==
  /\ daemon = [d \in Daemon |-> "off"]
  /\ lock = Nobody /\ endpoint = Nobody
  /\ client = [c \in Client |-> NewClient]
  /\ server = [c \in Client |-> NewServer]
  /\ up = [c \in Client |-> <<>>] /\ down = [c \in Client |-> <<>>]

(***************************************************************************)
(* The daemon                                                              *)
(***************************************************************************)
Connections == UNCHANGED <<client, server, up, down>>

Enter(d, from, to) == daemon[d] = from /\ daemon' = [daemon EXCEPT ![d] = to]

Start(d) == Enter(d, "off", "starting") /\ UNCHANGED <<lock, endpoint>> /\ Connections

\* Mutant: the lock is not asked for.
AcquireNothing(d) ==
  Enter(d, "starting", "locked") /\ lock' = d /\ UNCHANGED endpoint /\ Connections

\* InstanceLock::acquire: flock without waiting; who does not get the lock ends
Acquire(d) ==
  /\ \/ lock = Nobody /\ Enter(d, "starting", "locked") /\ lock' = d
     \/ lock # Nobody /\ Enter(d, "starting", "dead") /\ UNCHANGED lock
  /\ UNCHANGED endpoint /\ Connections

\* run_server_stream: the path is removed, bound to a socket, and only then listened to.
Unlink(d) ==
  Enter(d, "locked", "unlinked") /\ endpoint' = Nobody /\ UNCHANGED lock /\ Connections

Released(d) == IF lock = d THEN Nobody ELSE lock

Bind(d) ==
  /\ IF endpoint = Nobody
     THEN Enter(d, "unlinked", "bound") /\ endpoint' = d /\ UNCHANGED lock
     ELSE Enter(d, "unlinked", "dead") /\ lock' = Released(d) /\ UNCHANGED endpoint
  /\ Connections

Listen(d) == Enter(d, "bound", "serving") /\ UNCHANGED <<lock, endpoint>> /\ Connections

Accept(c) ==
  /\ server[c].pc = "backlog" /\ daemon[client[c].to] = "serving"
  /\ server' = [server EXCEPT ![c].pc = "hello"]
  /\ UNCHANGED <<daemon, lock, endpoint, client, up, down>>

\* The system gives back its lock and closes its connections; what was sent before can
\* still be read, and the path of its socket stays.
Die(d) ==
  /\ daemon[d] \notin {"off", "dead"}
  /\ daemon' = [daemon EXCEPT ![d] = "dead"]
  /\ lock' = Released(d)
  /\ server' = [c \in Client |->
       IF client[c].to = d /\ server[c].pc # "none"
       THEN [server[c] EXCEPT !.pc = "closed", !.open = FALSE] ELSE server[c]]
  /\ UNCHANGED <<endpoint, client, up, down>>

(***************************************************************************)
(* handle_client, a thread of the daemon per connection                    *)
(***************************************************************************)
Kept == UNCHANGED <<daemon, lock, endpoint, client>>

\* Whether the client still holds its end
Held(c) == client[c].pc \in {"ack", "read"}

Hangs(c) == server' = [server EXCEPT ![c].pc = "closed", ![c].open = FALSE]

\* A client that is gone and has left nothing to read
Ended(c) == ~Held(c) /\ up[c] = <<>>

\* recv_frame, send_frame of the answer to the hello
ServeHello(c) ==
  /\ server[c].pc = "hello"
  /\ \/ up[c] # <<>> /\ Held(c) /\ server' = [server EXCEPT ![c].pc = "request"]
        /\ up' = [up EXCEPT ![c] = Tail(@)] /\ down' = [down EXCEPT ![c] = Append(@, "ack")]
     \/ ~Held(c) /\ Hangs(c) /\ UNCHANGED <<up, down>>
  /\ Kept

\* handle, which may change files before it sends a frame
ServeRequest(c) ==
  /\ server[c].pc = "request"
  /\ \/ /\ up[c] # <<>>
        /\ \E n \in 0..MaxChunks, did \in {"done", "refused"} :
             /\ n > 0 => client[c].streams
             /\ server' = [server EXCEPT ![c].pc = "handling", ![c].did = did, ![c].left = n]
        /\ up' = [up EXCEPT ![c] = Tail(@)]
     \/ Ended(c) /\ Hangs(c) /\ UNCHANGED up
  /\ Kept /\ UNCHANGED down

LastFrame(did) == IF did = "done" THEN "ok" ELSE "error"

\* Mutant: a frame that cannot be sent is waited with.
SendToHolders(c) ==
  LET s == server[c]
  IN  /\ s.pc = "handling" /\ Held(c) /\ Len(down[c]) < Buffer
      /\ down' = [down EXCEPT ![c] = Append(@, IF s.left > 0 THEN "chunk" ELSE LastFrame(s.did))]
      /\ IF s.left > 0 THEN server' = [server EXCEPT ![c].left = @ - 1] ELSE Hangs(c)
      /\ Kept /\ UNCHANGED up

\* emit_frame_cb: a chunk that cannot be sent ends the request (RequestStream).
SendFrame(c) ==
  LET s == server[c]
  IN  /\ s.pc = "handling"
      /\ \/ /\ Held(c) /\ Len(down[c]) < Buffer
            /\ down' = [down EXCEPT ![c] = Append(@, IF s.left > 0 THEN "chunk" ELSE LastFrame(s.did))]
            /\ IF s.left > 0 THEN server' = [server EXCEPT ![c].left = @ - 1] ELSE Hangs(c)
         \/ ~Held(c) /\ Hangs(c) /\ UNCHANGED down
      /\ Kept /\ UNCHANGED up

(***************************************************************************)
(* The CLI                                                                 *)
(***************************************************************************)
Others == UNCHANGED <<daemon, lock, endpoint>>

Exit(c, code) == client' = [client EXCEPT ![c].pc = "exited", ![c].exit = code]

\* send_request_stream.  A socket nobody listens to refuses.
Connect(c) ==
  /\ client[c].pc = "idle"
  /\ IF endpoint # Nobody /\ daemon[endpoint] = "serving"
     THEN \E streams \in BOOLEAN :
            /\ client' = [client EXCEPT ![c].pc = "ack", ![c].to = endpoint, ![c].streams = streams]
            /\ server' = [server EXCEPT ![c].pc = "backlog", ![c].open = TRUE]
            /\ up' = [up EXCEPT ![c] = <<"hello">>]
     ELSE Exit(c, "failed") /\ UNCHANGED <<server, up>>
  /\ UNCHANGED down /\ Others

\* The answer to the hello, and the request; a closed connection fails it.
AwaitAck(c) ==
  /\ client[c].pc = "ack"
  /\ \/ /\ down[c] # <<>>
        /\ down' = [down EXCEPT ![c] = Tail(@)]
        /\ IF server[c].open
           THEN /\ client' = [client EXCEPT ![c].pc = "read"]
                /\ up' = [up EXCEPT ![c] = Append(@, "request")]
           ELSE Exit(c, "failed") /\ UNCHANGED up
     \/ down[c] = <<>> /\ ~server[c].open /\ Exit(c, "failed") /\ UNCHANGED <<up, down>>
  /\ UNCHANGED server /\ Others

\* recv_frame and on_frame
ReadFrame(c) ==
  /\ client[c].pc = "read" /\ down[c] # <<>>
  /\ client' = [client EXCEPT ![c].last = Head(down[c])]
  /\ down' = [down EXCEPT ![c] = Tail(@)]
  /\ UNCHANGED <<server, up>> /\ Others

\* Mutant: a connection that closed after a frame was a success.
VerdictOfAny(last) == IF last \in {"chunk", "ok"} THEN "ok" ELSE "failed"

\* saw_final and final_ok of a stream, response_ok of the last frame otherwise
Verdict(last) == IF last = "ok" THEN "ok" ELSE "failed"

StopReading(c) ==
  /\ client[c].pc = "read" /\ down[c] = <<>> /\ ~server[c].open
  /\ Exit(c, Verdict(client[c].last))
  /\ UNCHANGED <<server, up, down>> /\ Others

\* apply_timeouts: nothing came in time.  The loop over the frames does not tell that
\* from the end of the connection.
GiveUp(c) ==
  /\ Timeouts /\ client[c].pc \in {"ack", "read"} /\ down[c] = <<>>
  /\ client' = [client EXCEPT ![c].pc = "exited", ![c].late = TRUE,
                              ![c].exit = Verdict(client[c].last)]
  /\ UNCHANGED <<server, up, down>> /\ Others

DaemonStep(d) == Acquire(d) \/ Unlink(d) \/ Bind(d) \/ Listen(d)
ServerStep(c) == Accept(c) \/ ServeHello(c) \/ ServeRequest(c) \/ SendFrame(c)
ClientStep(c) == AwaitAck(c) \/ ReadFrame(c) \/ StopReading(c)

Next == \/ \E d \in Daemon : Start(d) \/ DaemonStep(d) \/ Die(d)
        \/ \E c \in Client : Connect(c) \/ ClientStep(c) \/ GiveUp(c) \/ ServerStep(c)

Spec == Init /\ [][Next]_vars

\* Processes and threads that live go on; nobody has to start one or to die, and no
\* clock has to run out.
FairSpec ==
  /\ Spec
  /\ \A d \in Daemon : WF_vars(DaemonStep(d))
  /\ \A c \in Client : WF_vars(ServerStep(c)) /\ WF_vars(ClientStep(c))

(***************************************************************************)
(* Properties                                                              *)
(***************************************************************************)

\* A daemon that listens can be reached for as long as it lives, however many others are
\* started: the path of the endpoint leads to it, and to no other that lives
\* (InstanceLock::acquire before run_server_stream removes the path).
ServingIsReachable ==
  \A d \in Daemon : daemon[d] \in {"bound", "serving"} => endpoint = d /\ lock = d

\* The exit code of the CLI is true: it succeeds only when its request was carried out
\* and answered as a whole, and fails, unless it gave up waiting, only when the request
\* was refused, there was no daemon, or the daemon died with the answer
\* (send_request_stream, which reports any frame as a success).
ExitIsTrue ==
  \A c \in Client :
    /\ client[c].exit = "ok" => server[c].did = "done" /\ server[c].left = 0
    /\ client[c].exit = "failed" /\ server[c].did = "done"
         => client[c].late \/ daemon[client[c].to] = "dead"

\* Every run of the CLI that reached a daemon ends, and so does the thread that serves it:
\* a daemon that dies closes its connections, and a client that is gone cannot be sent
\* to.  No timeout is needed for that.
ConnectionsEnd ==
  \A c \in Client : client[c].pc = "ack" ~> client[c].pc = "exited" /\ server[c].pc = "closed"
=============================================================================

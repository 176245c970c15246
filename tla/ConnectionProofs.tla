----------------------------- MODULE ConnectionProofs -----------------------------
(***************************************************************************)
(* Proofs about Connection, for any number of daemons, clients and chunks, *)
(* and sockets of any size: the lock keeps the endpoint of a daemon that   *)
(* serves, and the exit code of the CLI is true.                           *)
(***************************************************************************)
EXTENDS Connection, TLAPS

(***************************************************************************)
(* The lock and the endpoint                                               *)
(***************************************************************************)

DaemonStates == {"off", "starting", "locked", "unlinked", "bound", "serving", "dead"}

\* Between Acquire and its end a daemon holds the lock.
Holding == {"locked", "unlinked", "bound", "serving"}

EndpointInv ==
  /\ daemon \in [Daemon -> DaemonStates]
  /\ lock \in Daemon \cup {Nobody}
  /\ endpoint \in Daemon \cup {Nobody}
  /\ \A d \in Daemon : daemon[d] \in Holding => lock = d
  /\ \A d \in Daemon : daemon[d] \in {"bound", "serving"} => endpoint = d

\* The daemon's steps, and the end of one, keep the lock and the endpoint together.
LEMMA DaemonKeepsEndpoint ==
  ASSUME EndpointInv, NEW d \in Daemon, Start(d) \/ DaemonStep(d) \/ Die(d)
  PROVE  EndpointInv'
<1> USE ConnectionAssumption DEF EndpointInv, DaemonStates, Holding, Enter, Released
<1>1. CASE Start(d)
  BY <1>1 DEF Start
<1>2. CASE Acquire(d)
  BY <1>2 DEF Acquire
<1>3. CASE Unlink(d)
  BY <1>3 DEF Unlink
<1>4. CASE Bind(d)
  BY <1>4 DEF Bind
<1>5. CASE Listen(d)
  BY <1>5 DEF Listen
<1>6. CASE Die(d)
  BY <1>6 DEF Die
<1> QED
  BY <1>1, <1>2, <1>3, <1>4, <1>5, <1>6 DEF DaemonStep

\* Clients and the threads that serve them touch neither.
LEMMA ConnectionsLeaveDaemons ==
  ASSUME NEW c \in Client, Connect(c) \/ ClientStep(c) \/ GiveUp(c) \/ ServerStep(c)
  PROVE  UNCHANGED <<daemon, lock, endpoint>>
<1>1. CASE Connect(c) \/ ClientStep(c) \/ GiveUp(c)
  BY <1>1 DEF Connect, ClientStep, AwaitAck, ReadFrame, StopReading, GiveUp, Others
<1>2. CASE ServerStep(c)
  BY <1>2 DEF ServerStep, Accept, ServeHello, ServeRequest, SendFrame, Kept
<1> QED
  BY <1>1, <1>2

LEMMA EndpointInvHolds == Spec => []EndpointInv
<1>1. Init => EndpointInv
  BY DEF Init, EndpointInv, DaemonStates, Holding
<1>2. EndpointInv /\ [Next]_vars => EndpointInv'
  <2> SUFFICES ASSUME EndpointInv, [Next]_vars PROVE EndpointInv'
    OBVIOUS
  <2>1. CASE UNCHANGED vars
    BY <2>1 DEF vars, EndpointInv
  <2>2. CASE \E d \in Daemon : Start(d) \/ DaemonStep(d) \/ Die(d)
    BY <2>2, DaemonKeepsEndpoint
  <2>3. CASE \E c \in Client : Connect(c) \/ ClientStep(c) \/ GiveUp(c) \/ ServerStep(c)
    <3>1. UNCHANGED <<daemon, lock, endpoint>>
      BY <2>3, ConnectionsLeaveDaemons
    <3> QED
      BY <3>1 DEF EndpointInv
  <2> QED
    BY <2>1, <2>2, <2>3 DEF Next
<1> QED
  BY <1>1, <1>2, PTL DEF Spec

\* A daemon that listens can be reached as long as it lives, however many are started
\* for its instance (InstanceLock::acquire before run_server_stream).
THEOREM EndpointIsKept == Spec => []ServingIsReachable
<1>1. EndpointInv => ServingIsReachable
  BY DEF EndpointInv, ServingIsReachable, Holding
<1> QED
  BY <1>1, EndpointInvHolds, PTL

(***************************************************************************)
(* The exit code.  What has to hold of a connection is said of values: p   *)
(* the client, s its thread, u and w the frames on their way up and down,  *)
(* and whether its daemon is dead.                                         *)
(***************************************************************************)

Clients == [pc: {"idle", "ack", "read", "exited"}, to: Daemon \cup {Nobody},
            streams: BOOLEAN, last: Frames \cup {"none"}, late: BOOLEAN,
            exit: {"none", "ok", "failed"}]

Servers == [pc: {"none", "backlog", "hello", "request", "handling", "closed"},
            open: BOOLEAN, did: {"nothing", "done", "refused"}, left: Nat]

Shape == /\ client \in [Client -> Clients] /\ server \in [Client -> Servers]
         /\ up \in [Client -> Seq(Frames)] /\ down \in [Client -> Seq(Frames)]

Dead(d) == d \in Daemon /\ daemon[d] = "dead"

\* The request was carried out and all of its answer was sent.
Settled(s) == s.did = "done" /\ s.left = 0 /\ s.pc = "closed"

\* The frame that says so is the last on its way, or the last the client saw.
Answered(p, w) == IF w = <<>> THEN p.last = "ok" ELSE w[Len(w)] = "ok"

\* Before its first frame a connection is as new.
IdleIsNew(p, s, w) ==
  p.pc = "idle" => p.last = "none" /\ p.exit = "none" /\ s = NewServer /\ w = <<>>

\* An "ok" is sent last, once the request was carried out.
OkIsLast(p, s, w) ==
  /\ p.last = "ok" => Settled(s)
  /\ \A i \in 1..Len(w) : w[i] = "ok" => Settled(s)

\* No request is served before the client has sent it, after the answer to its hello.
NotYetServed(p, s, u) ==
  p.pc = "ack" =>
    /\ s.did = "nothing" /\ s.pc # "handling"
    /\ s.pc = "request" => u = <<>>
    /\ s.pc \in {"backlog", "hello"} => Len(u) = 1

OpenWhileServed(s) ==
  /\ s.open <=> s.pc \notin {"none", "closed"}
  /\ s.pc = "none" => s.did = "nothing"

\* A thread that has closed the connection of a client that waits has answered it, or
\* its daemon died.
ClosedIsAnswered(p, s, w, dead) ==
  p.pc = "read" /\ s.pc = "closed" /\ s.did = "done" => Answered(p, w) \/ dead

ExitIsSettled(p, s, dead) ==
  /\ p.exit # "none" => p.pc = "exited"
  /\ p.exit = "ok" => Settled(s)
  /\ p.exit = "failed" /\ ~p.late => /\ s.pc \in {"none", "closed"}
                                     /\ s.did = "done" => dead

Sound(p, s, u, w, dead) ==
  /\ IdleIsNew(p, s, w) /\ OkIsLast(p, s, w) /\ NotYetServed(p, s, u)
  /\ OpenWhileServed(s) /\ ClosedIsAnswered(p, s, w, dead) /\ ExitIsSettled(p, s, dead)

ConnectionSound(c) == Sound(client[c], server[c], up[c], down[c], Dead(client[c].to))

ExitInv == Shape /\ \A c \in Client : ConnectionSound(c)

\* Values a connection can take
Values(p, s, u, w) == p \in Clients /\ s \in Servers /\ u \in Seq(Frames) /\ w \in Seq(Frames)

\* The step changes the connection c, to these values, and no other.
Becomes(c, p, s, u, w) ==
  /\ client' = [client EXCEPT ![c] = p] /\ server' = [server EXCEPT ![c] = s]
  /\ up' = [up EXCEPT ![c] = u] /\ down' = [down EXCEPT ![c] = w]
  /\ daemon' = daemon

\* It has to be looked at for that connection alone.
LEMMA StepOfOne ==
  ASSUME ExitInv, NEW c \in Client, NEW p, NEW s, NEW u, NEW w,
         Values(p, s, u, w), Becomes(c, p, s, u, w), Sound(p, s, u, w, Dead(p.to))
  PROVE  ExitInv'
<1> USE DEF Values, Becomes
<1>1. Shape'
  BY DEF ExitInv, Shape
<1>2. ASSUME NEW e \in Client PROVE ConnectionSound(e)'
  <2>1. CASE e = c
    <3>1. client'[e] = p /\ server'[e] = s /\ up'[e] = u /\ down'[e] = w
      BY <2>1 DEF ExitInv, Shape
    <3> QED
      BY <3>1 DEF ConnectionSound, Dead
  <2>2. CASE e # c
    <3>1. /\ client'[e] = client[e] /\ server'[e] = server[e]
          /\ up'[e] = up[e] /\ down'[e] = down[e]
      BY <2>2 DEF ExitInv, Shape
    <3>2. ConnectionSound(e)
      BY DEF ExitInv
    <3> QED
      BY <3>1, <3>2 DEF ConnectionSound, Dead
  <2> QED
    BY <2>1, <2>2
<1> QED
  BY <1>1, <1>2 DEF ExitInv

\* Where a step of the connection c starts
LEMMA BeforeStep ==
  ASSUME ExitInv, NEW c \in Client
  PROVE  /\ Shape /\ ConnectionSound(c)
         /\ Values(client[c], server[c], up[c], down[c])
BY DEF ExitInv, Shape, Values

LEMMA ConnectKeeps ==
  ASSUME EndpointInv, ExitInv, NEW c \in Client, Connect(c)
  PROVE  ExitInv'
<1>1. /\ Values(client[c], server[c], up[c], down[c]) /\ ConnectionSound(c)
      /\ client[c].pc = "idle" /\ Shape
  BY BeforeStep DEF Connect
<1>2. /\ client[c].last = "none" /\ client[c].exit = "none"
      /\ server[c] = NewServer /\ down[c] = <<>>
  BY <1>1 DEF ConnectionSound, Sound, IdleIsNew
<1>3. server[c].did = "nothing" /\ server[c].left = 0 /\ server[c].pc = "none" /\ ~server[c].open
  BY <1>2 DEF NewServer
<1>4. CASE endpoint # Nobody /\ daemon[endpoint] = "serving"
  <2>1. PICK streams \in BOOLEAN :
          /\ client' = [client EXCEPT ![c].pc = "ack", ![c].to = endpoint, ![c].streams = streams]
          /\ server' = [server EXCEPT ![c].pc = "backlog", ![c].open = TRUE]
          /\ up' = [up EXCEPT ![c] = <<"hello">>]
          /\ UNCHANGED <<down, daemon>>
    BY <1>4 DEF Connect, Others
  <2> DEFINE p == [client[c] EXCEPT !.pc = "ack", !.to = endpoint, !.streams = streams]
  <2> DEFINE s == [server[c] EXCEPT !.pc = "backlog", !.open = TRUE]
  <2>2. p \in Clients /\ p.pc = "ack" /\ p.last = "none" /\ p.exit = "none"
    BY <1>1, <1>2 DEF Values, Clients, EndpointInv
  <2>3. s \in Servers /\ s.pc = "backlog" /\ s.open = TRUE /\ s.did = "nothing"
    BY <1>1, <1>3 DEF Values, Servers
  <2>4. <<"hello">> \in Seq(Frames) /\ Len(<<"hello">>) = 1
    BY DEF Frames
  <2>5. Becomes(c, p, s, <<"hello">>, down[c])
    BY <1>1, <2>1 DEF Shape, Becomes
  <2> HIDE DEF p, s
  <2>6. Values(p, s, <<"hello">>, down[c])
    BY <1>1, <2>2, <2>3, <2>4 DEF Values
  <2>7. Sound(p, s, <<"hello">>, down[c], Dead(p.to))
    BY <1>2, <2>2, <2>3, <2>4
       DEF Sound, IdleIsNew, OkIsLast, NotYetServed, OpenWhileServed, ClosedIsAnswered, ExitIsSettled
  <2> QED
    BY <2>5, <2>6, <2>7, StepOfOne
<1>5. CASE ~(endpoint # Nobody /\ daemon[endpoint] = "serving")
  <2>1. /\ client' = [client EXCEPT ![c].pc = "exited", ![c].exit = "failed"]
        /\ UNCHANGED <<server, up, down, daemon>>
    BY <1>5 DEF Connect, Exit, Others
  <2> DEFINE p == [client[c] EXCEPT !.pc = "exited", !.exit = "failed"]
  <2>2. p \in Clients /\ p.pc = "exited" /\ p.last = "none" /\ p.exit = "failed"
    BY <1>1, <1>2 DEF Values, Clients
  <2>3. Becomes(c, p, server[c], up[c], down[c])
    BY <1>1, <2>1 DEF Shape, Becomes
  <2> HIDE DEF p
  <2>4. Values(p, server[c], up[c], down[c])
    BY <1>1, <2>2 DEF Values
  <2>5. Sound(p, server[c], up[c], down[c], Dead(p.to))
    BY <1>2, <1>3, <2>2
       DEF Sound, IdleIsNew, OkIsLast, NotYetServed, OpenWhileServed, ClosedIsAnswered, ExitIsSettled
  <2> QED
    BY <2>3, <2>4, <2>5, StepOfOne
<1> QED
  BY <1>4, <1>5

\* What is left of a queue, and what joins it
LEMMA TailFacts ==
  ASSUME NEW q \in Seq(Frames), q # <<>>
  PROVE  /\ Head(q) = q[1] /\ Head(q) \in Frames /\ Len(q) \in Nat \ {0}
         /\ Tail(q) \in Seq(Frames) /\ Len(Tail(q)) = Len(q) - 1
         /\ Tail(q) = <<>> <=> Len(Tail(q)) = 0
         /\ \A i \in 1..Len(Tail(q)) : Tail(q)[i] = q[i + 1]
<1>1. Len(q) \in Nat \ {0} /\ \A i \in 1..Len(q) : q[i] \in Frames
  OBVIOUS
<1>2. Tail(q) \in Seq(Frames) /\ Len(Tail(q)) = Len(q) - 1
  OBVIOUS
<1>3. \A i \in 1..Len(Tail(q)) : Tail(q)[i] = q[i + 1]
  OBVIOUS
<1>4. Head(q) = q[1]
  OBVIOUS
<1>5. Tail(q) = <<>> <=> Len(Tail(q)) = 0
  BY <1>2
<1> QED
  BY <1>1, <1>2, <1>3, <1>4, <1>5

LEMMA AppendFacts ==
  ASSUME NEW q \in Seq(Frames), NEW f \in Frames
  PROVE  /\ Append(q, f) \in Seq(Frames) /\ Len(q) \in Nat
         /\ Len(Append(q, f)) = Len(q) + 1 /\ Append(q, f)[Len(q) + 1] = f
         /\ Append(q, f) # <<>>
         /\ \A i \in 1..Len(q) : Append(q, f)[i] = q[i]
OBVIOUS

LEMMA AwaitAckKeeps ==
  ASSUME ExitInv, NEW c \in Client, AwaitAck(c)
  PROVE  ExitInv'
<1> DEFINE s == server[c]  w == down[c]
<1>1. /\ Values(client[c], s, up[c], w) /\ Sound(client[c], s, up[c], w, Dead(client[c].to))
      /\ client[c].pc = "ack" /\ Shape
  BY BeforeStep DEF AwaitAck, ConnectionSound
<1>2. "request" \in Frames
  BY DEF Frames
<1>3. w # <<>> => /\ Tail(w) \in Seq(Frames)
                  /\ \A i \in 1..Len(Tail(w)) : Tail(w)[i] = "ok" => Settled(s)
  <2> SUFFICES ASSUME w # <<>>
               PROVE  /\ Tail(w) \in Seq(Frames)
                      /\ \A i \in 1..Len(Tail(w)) : Tail(w)[i] = "ok" => Settled(s)
    OBVIOUS
  <2>1. \A i \in 1..Len(w) : w[i] = "ok" => Settled(s)
    BY <1>1 DEF Sound, OkIsLast
  <2>2. /\ Tail(w) \in Seq(Frames) /\ Len(w) \in Nat \ {0} /\ Len(Tail(w)) = Len(w) - 1
        /\ \A i \in 1..Len(Tail(w)) : Tail(w)[i] = w[i + 1]
    BY <1>1, TailFacts DEF Values
  <2> HIDE DEF s, w
  <2> QED
    BY <2>1, <2>2
<1>4. Append(up[c], "request") \in Seq(Frames)
  BY <1>1, <1>2, AppendFacts DEF Values
<1>5. CASE /\ w # <<>> /\ s.open
           /\ down' = [down EXCEPT ![c] = Tail(@)]
           /\ client' = [client EXCEPT ![c].pc = "read"]
           /\ up' = [up EXCEPT ![c] = Append(@, "request")]
           /\ UNCHANGED <<server, daemon>>
  <2> DEFINE p == [client[c] EXCEPT !.pc = "read"]
  <2>1. /\ p \in Clients /\ p.pc = "read" /\ p.last = client[c].last /\ p.exit = client[c].exit
        /\ p.to = client[c].to
    BY <1>1 DEF Values, Clients
  <2>2. Becomes(c, p, s, Append(up[c], "request"), Tail(w))
    BY <1>1, <1>5 DEF Shape, Becomes
  <2> HIDE DEF p, s, w
  <2>3. Values(p, s, Append(up[c], "request"), Tail(w))
    BY <1>1, <1>3, <1>4, <1>5, <2>1 DEF Values
  <2>4. Sound(p, s, Append(up[c], "request"), Tail(w), Dead(p.to))
    BY <1>1, <1>3, <1>5, <2>1
       DEF Sound, IdleIsNew, OkIsLast, NotYetServed, OpenWhileServed, ClosedIsAnswered, ExitIsSettled
  <2> QED
    BY <2>2, <2>3, <2>4, StepOfOne
<1>6. CASE /\ ~s.open /\ client' = [client EXCEPT ![c].pc = "exited", ![c].exit = "failed"]
           /\ \/ w # <<>> /\ down' = [down EXCEPT ![c] = Tail(@)]
              \/ UNCHANGED down
           /\ UNCHANGED <<server, up, daemon>>
  <2> DEFINE p == [client[c] EXCEPT !.pc = "exited", !.exit = "failed"]
  <2>1. /\ p \in Clients /\ p.pc = "exited" /\ p.last = client[c].last /\ p.exit = "failed"
        /\ p.to = client[c].to
    BY <1>1 DEF Values, Clients
  <2>2. PICK v : /\ v = w \/ (w # <<>> /\ v = Tail(w))
                 /\ Becomes(c, p, s, up[c], v)
    <3>1. PICK v : /\ v = w \/ (w # <<>> /\ v = Tail(w))
                   /\ down' = [down EXCEPT ![c] = v]
      BY <1>1, <1>6 DEF Shape
    <3>2. client' = [client EXCEPT ![c] = p] /\ server' = [server EXCEPT ![c] = s]
          /\ up' = [up EXCEPT ![c] = up[c]] /\ daemon' = daemon
      BY <1>1, <1>6 DEF Shape
    <3> QED
      BY <3>1, <3>2 DEF Becomes
  <2> HIDE DEF p, s, w
  <2>3. Values(p, s, up[c], v)
    BY <1>1, <1>3, <2>1, <2>2 DEF Values
  <2>4. Sound(p, s, up[c], v, Dead(p.to))
    BY <1>1, <1>3, <1>6, <2>1, <2>2
       DEF Sound, IdleIsNew, OkIsLast, NotYetServed, OpenWhileServed, ClosedIsAnswered, ExitIsSettled
  <2> QED
    BY <2>2, <2>3, <2>4, StepOfOne
<1> QED
  BY <1>5, <1>6 DEF AwaitAck, Exit, Others

LEMMA ReadFrameKeeps ==
  ASSUME ExitInv, NEW c \in Client, ReadFrame(c)
  PROVE  ExitInv'
<1> DEFINE s == server[c]  w == down[c]  p == [client[c] EXCEPT !.last = Head(w)]
<1>1. /\ Values(client[c], s, up[c], w) /\ Sound(client[c], s, up[c], w, Dead(client[c].to))
      /\ client[c].pc = "read" /\ w # <<>> /\ Shape
  BY BeforeStep DEF ReadFrame, ConnectionSound
<1>2. /\ Head(w) = w[1] /\ Head(w) \in Frames /\ Tail(w) \in Seq(Frames)
      /\ Len(Tail(w)) = Len(w) - 1 /\ Len(w) \in Nat \ {0} /\ (Tail(w) = <<>> <=> Len(Tail(w)) = 0)
      /\ \A i \in 1..Len(Tail(w)) : Tail(w)[i] = w[i + 1]
  BY <1>1, TailFacts DEF Values
<1>3. /\ p \in Clients /\ p.pc = "read" /\ p.last = Head(w) /\ p.exit = client[c].exit
      /\ p.to = client[c].to /\ p.late = client[c].late
  BY <1>1, <1>2 DEF Values, Clients
<1>4. Becomes(c, p, s, up[c], Tail(w))
  BY <1>1 DEF ReadFrame, Others, Shape, Becomes
<1> HIDE DEF p, s, w
<1>5. Values(p, s, up[c], Tail(w))
  BY <1>1, <1>2, <1>3 DEF Values
<1>6. OkIsLast(p, s, Tail(w))
  <2>1. \A i \in 1..Len(w) : w[i] = "ok" => Settled(s)
    BY <1>1 DEF Sound, OkIsLast
  <2> QED
    BY <1>2, <1>3, <2>1 DEF OkIsLast
<1>7. Answered(client[c], w) => Answered(p, Tail(w))
  BY <1>1, <1>2, <1>3 DEF Answered
<1>8. Sound(p, s, up[c], Tail(w), Dead(p.to))
  BY <1>1, <1>3, <1>6, <1>7
     DEF Sound, IdleIsNew, NotYetServed, OpenWhileServed, ClosedIsAnswered, ExitIsSettled
<1> QED
  BY <1>4, <1>5, <1>8, StepOfOne

\* A client that stops reads its exit code off the last frame it saw.
LEMMA StopKeeps ==
  ASSUME ExitInv, NEW c \in Client, StopReading(c) \/ GiveUp(c)
  PROVE  ExitInv'
<1> DEFINE s == server[c]  w == down[c]  code == Verdict(client[c].last)
<1>1. /\ Values(client[c], s, up[c], w) /\ Sound(client[c], s, up[c], w, Dead(client[c].to)) /\ Shape
  BY BeforeStep DEF ConnectionSound
<1>2. code \in {"ok", "failed"} /\ (code = "ok" <=> client[c].last = "ok")
  BY DEF Verdict
<1>3. CASE StopReading(c)
  <2> DEFINE p == [client[c] EXCEPT !.pc = "exited", !.exit = code]
  <2>1. /\ p \in Clients /\ p.pc = "exited" /\ p.last = client[c].last /\ p.exit = code
        /\ p.to = client[c].to
    BY <1>1, <1>2 DEF Values, Clients
  <2>2. Becomes(c, p, s, up[c], w)
    BY <1>1, <1>3 DEF StopReading, Exit, Others, Shape, Becomes
  <2>3. client[c].pc = "read" /\ w = <<>> /\ ~s.open
    BY <1>3 DEF StopReading
  <2> HIDE DEF p, s, w, code
  <2>4. Values(p, s, up[c], w)
    BY <1>1, <2>1 DEF Values
  <2>5. Sound(p, s, up[c], w, Dead(p.to))
    BY <1>1, <1>2, <2>1, <2>3
       DEF Sound, IdleIsNew, OkIsLast, NotYetServed, OpenWhileServed, ClosedIsAnswered,
           ExitIsSettled, Answered, Values, Servers
  <2> QED
    BY <2>2, <2>4, <2>5, StepOfOne
<1>4. CASE GiveUp(c)
  <2> DEFINE p == [client[c] EXCEPT !.pc = "exited", !.late = TRUE, !.exit = code]
  <2>1. /\ p \in Clients /\ p.pc = "exited" /\ p.last = client[c].last /\ p.exit = code
        /\ p.to = client[c].to /\ p.late
    BY <1>1, <1>2 DEF Values, Clients
  <2>2. Becomes(c, p, s, up[c], w)
    BY <1>1, <1>4 DEF GiveUp, Others, Shape, Becomes
  <2> HIDE DEF p, s, w, code
  <2>3. Values(p, s, up[c], w)
    BY <1>1, <2>1 DEF Values
  <2>4. Sound(p, s, up[c], w, Dead(p.to))
    BY <1>1, <1>2, <2>1
       DEF Sound, IdleIsNew, OkIsLast, NotYetServed, OpenWhileServed, ClosedIsAnswered, ExitIsSettled
  <2> QED
    BY <2>2, <2>3, <2>4, StepOfOne
<1> QED
  BY <1>3, <1>4

\* The thread of a connection, up to the request
LEMMA AcceptKeeps ==
  ASSUME ExitInv, NEW c \in Client, Accept(c)
  PROVE  ExitInv'
<1> DEFINE p == client[c]  s == [server[c] EXCEPT !.pc = "hello"]
<1>1. /\ Values(p, server[c], up[c], down[c]) /\ Sound(p, server[c], up[c], down[c], Dead(p.to))
      /\ server[c].pc = "backlog" /\ Shape
  BY BeforeStep DEF Accept, ConnectionSound
<1>2. /\ s \in Servers /\ s.pc = "hello" /\ s.open = server[c].open /\ s.did = server[c].did
      /\ s.left = server[c].left
  BY <1>1 DEF Values, Servers
<1>3. Becomes(c, p, s, up[c], down[c])
  BY <1>1 DEF Accept, Shape, Becomes
<1>4. p.pc # "idle"
  BY <1>1 DEF Sound, IdleIsNew, NewServer
<1> HIDE DEF p, s
<1>5. Values(p, s, up[c], down[c])
  BY <1>1, <1>2 DEF Values
<1>6. Sound(p, s, up[c], down[c], Dead(p.to))
  BY <1>1, <1>2, <1>4
     DEF Sound, IdleIsNew, OkIsLast, NotYetServed, OpenWhileServed, ClosedIsAnswered,
         ExitIsSettled, Settled
<1> QED
  BY <1>3, <1>5, <1>6, StepOfOne

\* A thread that finds its client gone closes the connection.
LEMMA HangKeeps ==
  ASSUME ExitInv, NEW c \in Client, ~Held(c), Hangs(c),
         server[c].pc \in {"hello", "request", "handling"},
         UNCHANGED <<daemon, client, up, down>>
  PROVE  ExitInv'
<1> DEFINE p == client[c]  s == [server[c] EXCEPT !.pc = "closed", !.open = FALSE]
<1>1. /\ Values(p, server[c], up[c], down[c]) /\ Sound(p, server[c], up[c], down[c], Dead(p.to))
      /\ Shape
  BY BeforeStep DEF ConnectionSound
<1>2. /\ s \in Servers /\ s.pc = "closed" /\ s.open = FALSE /\ s.did = server[c].did
      /\ s.left = server[c].left
  BY <1>1 DEF Values, Servers
<1>3. Becomes(c, p, s, up[c], down[c])
  BY <1>1 DEF Hangs, Shape, Becomes
<1>4. p.pc = "exited"
  BY <1>1 DEF Sound, IdleIsNew, NewServer, Held, Values, Clients
<1> HIDE DEF p, s
<1>5. Values(p, s, up[c], down[c])
  BY <1>1, <1>2 DEF Values
<1>6. Sound(p, s, up[c], down[c], Dead(p.to))
  BY <1>1, <1>2, <1>4
     DEF Sound, IdleIsNew, OkIsLast, NotYetServed, OpenWhileServed, ClosedIsAnswered,
         ExitIsSettled, Settled
<1> QED
  BY <1>3, <1>5, <1>6, StepOfOne

LEMMA ServeHelloKeeps ==
  ASSUME ExitInv, NEW c \in Client, ServeHello(c)
  PROVE  ExitInv'
<1>1. CASE /\ up[c] # <<>> /\ Held(c) /\ server' = [server EXCEPT ![c].pc = "request"]
           /\ up' = [up EXCEPT ![c] = Tail(@)] /\ down' = [down EXCEPT ![c] = Append(@, "ack")]
  <2> DEFINE p == client[c]  s == [server[c] EXCEPT !.pc = "request"]
             u == Tail(up[c])  w == Append(down[c], "ack")
  <2>1. /\ Values(p, server[c], up[c], down[c]) /\ Shape /\ p.pc # "idle"
        /\ Sound(p, server[c], up[c], down[c], Dead(p.to)) /\ server[c].pc = "hello"
    BY <1>1, BeforeStep DEF ServeHello, ConnectionSound, Held
  <2>2. /\ s \in Servers /\ s.pc = "request" /\ s.open = server[c].open /\ s.did = server[c].did
        /\ s.left = server[c].left
    BY <2>1 DEF Values, Servers
  <2>3. u \in Seq(Frames) /\ (Len(up[c]) = 1 => u = <<>>)
    BY <1>1, <2>1, TailFacts DEF Values
  <2>4. "ack" \in Frames
    BY DEF Frames
  <2>5. /\ w \in Seq(Frames) /\ Len(w) = Len(down[c]) + 1 /\ w[Len(w)] = "ack"
        /\ Len(down[c]) \in Nat /\ \A i \in 1..Len(down[c]) : w[i] = down[c][i]
    BY <2>1, <2>4, AppendFacts DEF Values
  <2>6. Becomes(c, p, s, u, w)
    BY <1>1, <2>1 DEF ServeHello, Kept, Shape, Becomes
  <2> HIDE DEF p, s, u, w
  <2>7. Values(p, s, u, w)
    BY <2>1, <2>2, <2>3, <2>5 DEF Values
  <2>8. OkIsLast(p, s, w)
    <3>1. \A i \in 1..Len(down[c]) : down[c][i] # "ok"
      BY <2>1 DEF Sound, OkIsLast, Settled
    <3> QED
      BY SMTT(30), <2>1, <2>5, <3>1 DEF Sound, OkIsLast, Settled
  <2>9. Sound(p, s, u, w, Dead(p.to))
    BY <2>1, <2>2, <2>3, <2>8
       DEF Sound, IdleIsNew, NotYetServed, OpenWhileServed, ClosedIsAnswered, ExitIsSettled, Settled
  <2> QED
    BY <2>6, <2>7, <2>9, StepOfOne
<1>2. CASE ~Held(c) /\ Hangs(c) /\ UNCHANGED <<up, down>>
  BY <1>2, HangKeeps DEF ServeHello, Kept
<1> QED
  BY <1>1, <1>2 DEF ServeHello

\* Whoever is served a request has read the answer to its hello.
LEMMA ServeRequestKeeps ==
  ASSUME ExitInv, NEW c \in Client, ServeRequest(c)
  PROVE  ExitInv'
<1>1. CASE /\ up[c] # <<>>
           /\ \E n \in 0..MaxChunks, did \in {"done", "refused"} :
                server' = [server EXCEPT ![c].pc = "handling", ![c].did = did, ![c].left = n]
           /\ up' = [up EXCEPT ![c] = Tail(@)]
  <2>1. PICK n \in 0..MaxChunks, did \in {"done", "refused"} :
               server' = [server EXCEPT ![c].pc = "handling", ![c].did = did, ![c].left = n]
    BY <1>1
  <2> DEFINE p == client[c]  u == Tail(up[c])
             s == [server[c] EXCEPT !.pc = "handling", !.did = did, !.left = n]
  <2>2. /\ Values(p, server[c], up[c], down[c]) /\ Shape
        /\ Sound(p, server[c], up[c], down[c], Dead(p.to)) /\ server[c].pc = "request"
    BY BeforeStep DEF ServeRequest, ConnectionSound
  <2>3. s \in Servers /\ s.pc = "handling" /\ s.open = server[c].open
    <3>1. n \in Nat
      BY ConnectionAssumption
    <3> QED
      BY <2>2, <3>1 DEF Values, Servers
  <2>4. u \in Seq(Frames)
    BY <1>1, <2>2, TailFacts DEF Values
  <2>5. Becomes(c, p, s, u, down[c])
    BY <1>1, <2>1, <2>2 DEF ServeRequest, Kept, Shape, Becomes
  <2>6. p.pc \notin {"idle", "ack"}
    BY <1>1, <2>2 DEF Sound, IdleIsNew, NewServer, NotYetServed
  <2> HIDE DEF p, s, u
  <2>7. Values(p, s, u, down[c])
    BY <2>2, <2>3, <2>4 DEF Values
  <2>8. Sound(p, s, u, down[c], Dead(p.to))
    BY <2>2, <2>3, <2>6
       DEF Sound, IdleIsNew, OkIsLast, NotYetServed, OpenWhileServed, ClosedIsAnswered,
           ExitIsSettled, Settled
  <2> QED
    BY <2>5, <2>7, <2>8, StepOfOne
<1>2. CASE Ended(c) /\ Hangs(c) /\ UNCHANGED up
  BY <1>2, HangKeeps DEF ServeRequest, Kept, Ended
<1> QED
  BY <1>1, <1>2 DEF ServeRequest

\* An "ok" follows everything else, and closes the connection.
LEMMA SendFrameKeeps ==
  ASSUME ExitInv, NEW c \in Client, SendFrame(c)
  PROVE  ExitInv'
<1> DEFINE p == client[c]  q == server[c]  v == down[c]
<1>1. /\ Values(p, q, up[c], v) /\ Shape /\ q.pc = "handling"
      /\ Sound(p, q, up[c], v, Dead(p.to))
  BY BeforeStep DEF SendFrame, ConnectionSound
<1>2. \A i \in 1..Len(v) : v[i] # "ok"
  BY <1>1 DEF Sound, OkIsLast, Settled
<1>3. CASE /\ Held(c) /\ q.left > 0
           /\ down' = [down EXCEPT ![c] = Append(@, "chunk")]
           /\ server' = [server EXCEPT ![c].left = @ - 1]
           /\ UNCHANGED <<daemon, client, up>>
  <2> DEFINE s == [q EXCEPT !.left = @ - 1]  w == Append(v, "chunk")
  <2>1. /\ s \in Servers /\ s.pc = "handling" /\ s.open = q.open /\ s.did = q.did
    BY <1>1, <1>3 DEF Values, Servers
  <2>2. "chunk" \in Frames
    BY DEF Frames
  <2>3. /\ w \in Seq(Frames) /\ Len(w) = Len(v) + 1 /\ w[Len(w)] = "chunk"
        /\ Len(v) \in Nat /\ \A i \in 1..Len(v) : w[i] = v[i]
    BY <1>1, <2>2, AppendFacts DEF Values
  <2>4. Becomes(c, p, s, up[c], w)
    BY <1>1, <1>3 DEF Shape, Becomes
  <2>5. p.pc = "read"
    BY <1>1, <1>3 DEF Held, Sound, NotYetServed
  <2> HIDE DEF p, q, v, s, w
  <2>6. Values(p, s, up[c], w)
    BY <1>1, <2>1, <2>3 DEF Values
  <2>7. OkIsLast(p, s, w)
    BY <1>1, <1>2, <2>3 DEF Sound, OkIsLast, Settled
  <2>8. Sound(p, s, up[c], w, Dead(p.to))
    BY <1>1, <2>1, <2>5, <2>7
       DEF Sound, IdleIsNew, NotYetServed, OpenWhileServed, ClosedIsAnswered, ExitIsSettled, Settled
  <2> QED
    BY <2>4, <2>6, <2>8, StepOfOne
<1>4. CASE /\ Held(c) /\ ~(q.left > 0)
           /\ down' = [down EXCEPT ![c] = Append(@, LastFrame(q.did))]
           /\ Hangs(c)
           /\ UNCHANGED <<daemon, client, up>>
  <2> DEFINE s == [q EXCEPT !.pc = "closed", !.open = FALSE]
             f == LastFrame(q.did)  w == Append(v, f)
  <2>1. /\ s \in Servers /\ s.pc = "closed" /\ s.open = FALSE /\ s.did = q.did /\ s.left = 0
    <3>1. q \in Servers /\ q.left \in Nat /\ q.left = 0
      BY <1>1, <1>4 DEF Values, Servers
    <3> HIDE DEF q
    <3> QED
      BY <3>1 DEF Servers
  <2>2. f \in Frames /\ (f = "ok" <=> q.did = "done")
    BY DEF Frames, LastFrame
  <2>3. Becomes(c, p, s, up[c], w)
    BY <1>1, <1>4 DEF Hangs, Shape, Becomes
  <2> HIDE DEF f
  <2>4. /\ w \in Seq(Frames) /\ Len(w) = Len(v) + 1 /\ w[Len(w)] = f /\ w # <<>>
        /\ Len(v) \in Nat /\ \A i \in 1..Len(v) : w[i] = v[i]
    BY <1>1, <2>2, AppendFacts DEF Values
  <2>5. p.pc = "read"
    BY <1>1, <1>4 DEF Held, Sound, NotYetServed
  <2> HIDE DEF p, q, v, s, w
  <2>6. Values(p, s, up[c], w)
    BY <1>1, <2>1, <2>4 DEF Values
  <2>7. OkIsLast(p, s, w)
    <3>1. f = "ok" => Settled(s)
      BY <2>1, <2>2 DEF Settled
    <3>2. p.last # "ok"
      BY <1>1 DEF Sound, OkIsLast, Settled
    <3> QED
      BY <1>2, <2>4, <3>1, <3>2 DEF OkIsLast
  <2>8. s.did = "done" => Answered(p, w)
    BY <2>1, <2>2, <2>4 DEF Answered
  <2>9. Sound(p, s, up[c], w, Dead(p.to))
    BY <1>1, <2>1, <2>5, <2>7, <2>8
       DEF Sound, IdleIsNew, NotYetServed, OpenWhileServed, ClosedIsAnswered, ExitIsSettled, Settled
  <2> QED
    BY <2>3, <2>6, <2>9, StepOfOne
<1>5. CASE ~Held(c) /\ Hangs(c) /\ UNCHANGED <<daemon, client, up, down>>
  BY <1>1, <1>5, HangKeeps
<1> QED
  BY <1>3, <1>4, <1>5 DEF SendFrame, Kept

\* A daemon that dies has died with the answers it had not sent.
LEMMA DaemonKeepsConnections ==
  ASSUME EndpointInv, ExitInv, NEW d \in Daemon, Start(d) \/ DaemonStep(d) \/ Die(d)
  PROVE  ExitInv'
<1>1. \A e \in Daemon : daemon[e] = "dead" => daemon'[e] = "dead"
  BY DEF EndpointInv, Start, DaemonStep, Acquire, Unlink, Bind, Listen, Die, Enter
<1>2. UNCHANGED <<client, up, down>>
  BY DEF Start, DaemonStep, Acquire, Unlink, Bind, Listen, Die, Connections
<1>3. ASSUME NEW c \in Client
      PROVE  /\ server'[c] \in Servers /\ ConnectionSound(c)'
  <2> DEFINE p == client[c]  q == server[c]  s == [q EXCEPT !.pc = "closed", !.open = FALSE]
  <2>1. Values(p, q, up[c], down[c]) /\ Sound(p, q, up[c], down[c], Dead(p.to))
    BY BeforeStep DEF ConnectionSound
  <2>2. Dead(p.to) => Dead(p.to)'
    BY <1>1, <1>2 DEF Dead
  <2>3. CASE server'[c] = q
    <3> HIDE DEF p, q
    <3>1. Sound(p, q, up[c], down[c], Dead(p.to)')
      BY <2>1, <2>2 DEF Sound, ClosedIsAnswered, ExitIsSettled
    <3> QED
      BY <1>2, <2>1, <2>3, <3>1 DEF p, q, ConnectionSound, Values
  <2>4. CASE server'[c] = s /\ p.to = d /\ q.pc # "none" /\ daemon'[d] = "dead"
    <3>1. s \in Servers /\ s.pc = "closed" /\ s.open = FALSE /\ s.did = q.did /\ s.left = q.left
      BY <2>1 DEF Values, Servers
    <3>2. Dead(p.to)'
      BY <1>2, <2>4 DEF Dead
    <3>3. p.pc # "idle"
      BY <2>1, <2>4 DEF Sound, IdleIsNew, NewServer
    <3> HIDE DEF p, q, s
    <3>4. Sound(p, s, up[c], down[c], TRUE)
      BY <2>1, <3>1, <3>3
         DEF Sound, IdleIsNew, OkIsLast, NotYetServed, OpenWhileServed, ClosedIsAnswered,
             ExitIsSettled, Settled
    <3>5. Sound(p, s, up[c], down[c], Dead(p.to)')
      BY <3>2, <3>4 DEF Sound, ClosedIsAnswered, ExitIsSettled
    <3> QED
      BY <1>2, <2>4, <3>1, <3>5 DEF p, q, s, ConnectionSound
  <2>5. CASE Die(d)
    <3>1. daemon'[d] = "dead"
      BY <2>5 DEF Die, EndpointInv
    <3>2. server'[c] = IF p.to = d /\ q.pc # "none" THEN s ELSE q
      BY <2>5 DEF Die
    <3> HIDE DEF p, q, s
    <3> QED
      BY <2>3, <2>4, <3>1, <3>2
  <2>6. CASE ~Die(d)
    BY <2>3, <2>6 DEF Start, DaemonStep, Acquire, Unlink, Bind, Listen, Connections
  <2> QED
    BY <2>5, <2>6
<1>4. Shape'
  <2>1. server' \in [Client -> Servers]
    <3>1. server' = [c \in Client |-> server'[c]]
      BY DEF ExitInv, Shape, Start, DaemonStep, Acquire, Unlink, Bind, Listen, Die, Connections
    <3> QED
      BY <1>3, <3>1
  <2> QED
    BY <1>2, <2>1 DEF ExitInv, Shape
<1> QED
  BY <1>3, <1>4 DEF ExitInv

LEMMA ExitInvHolds == Spec => []ExitInv
<1>1. Init => ExitInv
  <2> SUFFICES ASSUME Init PROVE ExitInv
    OBVIOUS
  <2>1. NewClient \in Clients /\ NewServer \in Servers /\ <<>> \in Seq(Frames)
    BY DEF NewClient, NewServer, Clients, Servers
  <2>2. Shape
    BY <2>1 DEF Init, Shape
  <2>3. ASSUME NEW c \in Client PROVE ConnectionSound(c)
    <3>1. client[c] = NewClient /\ server[c] = NewServer /\ up[c] = <<>> /\ down[c] = <<>>
      BY DEF Init
    <3> QED
      BY <3>1 DEF ConnectionSound, Sound, IdleIsNew, OkIsLast, NotYetServed, OpenWhileServed,
                  ClosedIsAnswered, ExitIsSettled, NewClient, NewServer
  <2> QED
    BY <2>2, <2>3 DEF ExitInv
<1>2. EndpointInv /\ ExitInv /\ [Next]_vars => ExitInv'
  <2> SUFFICES ASSUME EndpointInv, ExitInv, [Next]_vars PROVE ExitInv'
    OBVIOUS
  <2>1. CASE UNCHANGED vars
    BY <2>1 DEF vars, ExitInv, Shape, ConnectionSound, Dead
  <2>2. CASE \E d \in Daemon : Start(d) \/ DaemonStep(d) \/ Die(d)
    BY <2>2, DaemonKeepsConnections
  <2>3. CASE \E c \in Client : Connect(c) \/ ClientStep(c) \/ GiveUp(c) \/ ServerStep(c)
    <3>1. PICK c \in Client : Connect(c) \/ ClientStep(c) \/ GiveUp(c) \/ ServerStep(c)
      BY <2>3
    <3>2. CASE Connect(c)
      BY <3>2, ConnectKeeps
    <3>3. CASE ClientStep(c) \/ GiveUp(c)
      BY <3>3, AwaitAckKeeps, ReadFrameKeeps, StopKeeps DEF ClientStep
    <3>4. CASE ServerStep(c)
      BY <3>4, AcceptKeeps, ServeHelloKeeps, ServeRequestKeeps, SendFrameKeeps DEF ServerStep
    <3> QED
      BY <3>1, <3>2, <3>3, <3>4
  <2> QED
    BY <2>1, <2>2, <2>3 DEF Next
<1> QED
  BY <1>1, <1>2, EndpointInvHolds, PTL DEF Spec

\* The CLI succeeds only when its request was carried out and answered as a whole, and
\* fails only when it gave up, was refused, or the daemon died with the answer
\* (send_request_stream).
THEOREM ExitCodesAreTrue == Spec => []ExitIsTrue
<1>1. ExitInv => ExitIsTrue
  <2> SUFFICES ASSUME ExitInv, NEW c \in Client
               PROVE  /\ client[c].exit = "ok" => server[c].did = "done" /\ server[c].left = 0
                      /\ client[c].exit = "failed" /\ server[c].did = "done"
                           => client[c].late \/ daemon[client[c].to] = "dead"
    BY DEF ExitIsTrue
  <2>1. ExitIsSettled(client[c], server[c], Dead(client[c].to))
    BY DEF ExitInv, ConnectionSound, Sound
  <2> QED
    BY <2>1 DEF ExitIsSettled, Settled, Dead
<1> QED
  BY <1>1, ExitInvHolds, PTL

===================================================================================

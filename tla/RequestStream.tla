----------------------------- MODULE RequestStream -----------------------------
(***************************************************************************)
(* How the daemon serves, streams, cancels and times out requests          *)
(* (apps/bridge_daemon/main.cpp, handle_request_stream of protocol.cpp and *)
(* the loops of search, file reads and patch previews behind it).          *)
(*                                                                         *)
(* Every connection carries one request and has a thread of its own.       *)
(* Cancels come in over connections of their own and leave the target's id *)
(* in a set all threads share; a running request looks its id up there     *)
(* between two chunks, and takes it out when it ends.  Ids are the         *)
(* clients': nothing keeps two requests from having the same one, and the  *)
(* CLI gives all of its requests "req-001" unless told otherwise.          *)
(***************************************************************************)
EXTENDS Integers, Sequences, FiniteSets, Functions

CONSTANTS
  Thread,         \* connections served at a time
  Id,             \* request ids
  Method,         \* what is asked for
  MaxUnits,       \* bound: chunks of a file or a diff, places where a search looks up
  MaxRequests,    \* bound: requests that are made
  Reuse,          \* TRUE: an id that a request has had may be given to another
  Overlap,        \* TRUE: even to one that is served at the same time
  MaxCancels,     \* bound: cancels
  Timeouts,       \* TRUE: requests have a timeout_ms
  Disconnects,    \* TRUE: clients close connections early
  Stalls          \* TRUE: clients stay connected and do not read

ASSUME StreamAssumption ==
  /\ Method \subseteq {"search", "read", "preview", "plain"}
  /\ {MaxUnits, MaxRequests, MaxCancels} \subseteq Nat
  /\ {Reuse, Overlap, Timeouts, Disconnects, Stalls} \subseteq BOOLEAN

VARIABLES
  cancelled,     \* AppContext::cancelled_request_ids
  pc,            \* Thread -> where its request stands
  req,           \* Thread -> the request
  open,          \* Thread -> whether the client is still connected
  stalled,       \* Thread -> whether it does not read, and its socket is full
  late,          \* Thread -> whether the request's time is up
  sent,          \* Thread -> frames its client was sent
  uses,          \* Id -> how many requests have had it
  cancels,       \* cancels so far
  aux_meant,     \* <<id, use>> of the requests that clients asked to cancel
  aux_strays,    \* ids of which no request ran when a cancel came, nor has ended since
  aux_over       \* Thread -> chunks sent although a cancel or the end of the time came first

vars == <<cancelled, pc, req, open, stalled, late, sent, uses, cancels,
          aux_meant, aux_strays, aux_over>>

Labels == {"idle", "cancel_check", "time_check", "time_recheck", "emit", "final", "clear"}

NoRequest == [id |-> "", use |-> 0, method |-> "plain", left |-> 0, units |-> 0, result |-> "ok"]

At(t, l)   == pc[t] = l
Goto(t, l) == pc' = [pc EXCEPT ![t] = l]

\* Requests so far
Requests == FoldFunction(+, 0, uses)

Running(id) == {t \in Thread : ~At(t, "idle") /\ req[t].id = id}

Init ==
  /\ cancelled = {}
  /\ pc = [t \in Thread |-> "idle"]
  /\ req = [t \in Thread |-> NoRequest]
  /\ open = [t \in Thread |-> FALSE]
  /\ stalled = [t \in Thread |-> FALSE]
  /\ late = [t \in Thread |-> FALSE]
  /\ sent = [t \in Thread |-> <<>>]
  /\ uses = [id \in Id |-> 0]
  /\ cancels = 0
  /\ aux_meant = {}
  /\ aux_strays = {}
  /\ aux_over = [t \in Thread |-> 0]

(***************************************************************************)
(* Serving a request                                                       *)
(***************************************************************************)

\* A client connects and sends a request; a patch preview is made and a file read
\* before the first chunk, and other methods answer right away.  A search that is
\* not streamed is one that finds nothing to send.
Arrive(t) ==
  \E id \in Id, m \in Method, n \in 0..MaxUnits :
    /\ At(t, "idle")
    /\ Requests < MaxRequests
    /\ Reuse \/ uses[id] = 0
    /\ Overlap \/ Running(id) = {}
    /\ req' = [req EXCEPT ![t] = [id |-> id, use |-> uses[id] + 1, method |-> m,
                                  left |-> n, units |-> n, result |-> "ok"]]
    /\ uses' = [uses EXCEPT ![id] = @ + 1]
    /\ open' = [open EXCEPT ![t] = TRUE]
    /\ Goto(t, IF m = "plain" \/ n = 0 THEN "final" ELSE "cancel_check")
    /\ UNCHANGED <<cancelled, stalled, late, sent, cancels, aux_meant, aux_strays, aux_over>>

\* The request ends with a result, its final frame still to be sent.
EndWith(t, result) == req' = [req EXCEPT ![t].result = result] /\ Goto(t, "final")

Quiet == UNCHANGED <<open, stalled, late, sent, uses, cancels, aux_meant, aux_strays, aux_over>>

\* Mutants: any recorded cancel stops the request; a cancel is only looked for before
\* the first chunk.
CheckAnyCancel(t) ==
  /\ At(t, "cancel_check")
  /\ IF cancelled # {} THEN EndWith(t, "cancelled")
                       ELSE Goto(t, "time_check") /\ UNCHANGED req
  /\ UNCHANGED cancelled /\ Quiet

CheckCancelOnce(t) ==
  /\ At(t, "cancel_check")
  /\ IF req[t].id \in cancelled /\ req[t].left = req[t].units
     THEN EndWith(t, "cancelled") ELSE Goto(t, "time_check") /\ UNCHANGED req
  /\ UNCHANGED cancelled /\ Quiet

\* options.cancel_requested, AppContext::is_cancelled
CheckCancel(t) ==
  /\ At(t, "cancel_check")
  /\ IF req[t].id \in cancelled THEN EndWith(t, "cancelled")
                                ELSE Goto(t, "time_check") /\ UNCHANGED req
  /\ UNCHANGED cancelled /\ Quiet

\* Mutant: the last chunk is not sent.
AdvanceShort(t) ==
  /\ req' = [req EXCEPT ![t].left = @ - 1]
  /\ Goto(t, IF req[t].left <= 2 THEN "final" ELSE "cancel_check")

\* On to the next chunk or line, if there is one
Advance(t) ==
  /\ req' = [req EXCEPT ![t].left = @ - 1]
  /\ Goto(t, IF req[t].left = 1 THEN "final" ELSE "cancel_check")

\* The time is looked at twice, before and after the chunk is made ready; a search
\* looks once and then goes on to the next line, unless this one matches.
CheckTime(t) ==
  /\ At(t, "time_check")
  /\ \/ late[t] /\ EndWith(t, "timeout")
     \/ ~late[t] /\ req[t].method # "search" /\ Goto(t, "time_recheck") /\ UNCHANGED req
     \/ ~late[t] /\ req[t].method = "search" /\ Goto(t, "emit") /\ UNCHANGED req
     \/ ~late[t] /\ req[t].method = "search" /\ Advance(t)
  /\ UNCHANGED cancelled /\ Quiet

RecheckTime(t) ==
  /\ At(t, "time_recheck")
  /\ IF late[t] THEN EndWith(t, "timeout") ELSE Goto(t, "emit") /\ UNCHANGED req
  /\ UNCHANGED cancelled /\ Quiet

\* The client has asked to cancel the request, or its time is up
Overdue(t) == late[t] \/ <<req[t].id, req[t].use>> \in aux_meant

\* send_frame returns: it has no timeout, and waits for room in the socket until the
\* client reads or hangs up.
CanSend(t) == open[t] => ~stalled[t]

\* Mutant: a chunk that cannot be sent is tried again.
EmitRetrying(t) ==
  /\ At(t, "emit") /\ CanSend(t)
  /\ open[t]
  /\ sent' = [sent EXCEPT ![t] = Append(@, "chunk")]
  /\ aux_over' = [aux_over EXCEPT ![t] = IF Overdue(t) THEN @ + 1 ELSE @]
  /\ Advance(t)
  /\ UNCHANGED <<cancelled, open, stalled, late, uses, cancels, aux_meant, aux_strays>>

\* on_chunk, on_match: a frame that cannot be sent ends the request, and so do enough
\* matches.
Emit(t) ==
  /\ At(t, "emit") /\ CanSend(t)
  /\ IF open[t]
     THEN /\ sent' = [sent EXCEPT ![t] = Append(@, "chunk")]
          /\ aux_over' = [aux_over EXCEPT ![t] = IF Overdue(t) THEN @ + 1 ELSE @]
          /\ Advance(t) \/ (req[t].method = "search" /\ EndWith(t, "ok"))
     ELSE EndWith(t, "consumer") /\ UNCHANGED <<sent, aux_over>>
  /\ UNCHANGED <<cancelled, open, stalled, late, uses, cancels, aux_meant, aux_strays>>

\* Mutant: every stream has the errors of a patch.
CodeOfPatch(method, result) ==
  CASE result = "ok"      -> "ok"
    [] result = "timeout" -> "REQUEST_TIMEOUT"
    [] OTHER              -> "PATCH_APPLY_FAILED"

\* classify_search_error, classify_common_error, classify_patch_error; the last
\* knows no cancel and falls back on the code of failed applies.
Code(method, result) ==
  CASE result = "ok" -> "ok"
    [] result = "timeout" -> IF method = "search" THEN "SEARCH_TIMEOUT" ELSE "REQUEST_TIMEOUT"
    [] OTHER -> IF method = "preview" THEN "PATCH_APPLY_FAILED" ELSE "REQUEST_CANCELLED"

\* The final frame, or the only one of a request that does not stream
Final(t) ==
  /\ At(t, "final") /\ CanSend(t)
  /\ sent' = IF open[t] THEN [sent EXCEPT ![t] = Append(@, Code(req[t].method, req[t].result))]
             ELSE sent
  /\ Goto(t, "clear")
  /\ UNCHANGED <<cancelled, req, open, stalled, late, uses, cancels,
                 aux_meant, aux_strays, aux_over>>

\* The connection is closed and its thread ends.
Close(t) ==
  /\ Goto(t, "idle")
  /\ req' = [req EXCEPT ![t] = NoRequest]
  /\ open' = [open EXCEPT ![t] = FALSE]
  /\ stalled' = [stalled EXCEPT ![t] = FALSE]
  /\ late' = [late EXCEPT ![t] = FALSE]
  /\ sent' = [sent EXCEPT ![t] = <<>>]
  /\ aux_strays' = aux_strays \ {req[t].id}
  /\ aux_over' = [aux_over EXCEPT ![t] = 0]
  /\ UNCHANGED <<uses, cancels, aux_meant>>

\* Mutant: the id stays in the set.
ClearNothing(t) == At(t, "clear") /\ UNCHANGED cancelled /\ Close(t)

\* AppContext::clear
Clear(t) == At(t, "clear") /\ cancelled' = cancelled \ {req[t].id} /\ Close(t)

(***************************************************************************)
(* The clients and the clock                                               *)
(***************************************************************************)

\* request.cancel, at any time: meant for the request that has the id by now or had it
\* last, or, when none has had it, for the first that will.
Cancel ==
  \E id \in Id :
    /\ cancels < MaxCancels
    /\ cancelled' = cancelled \cup {id}
    /\ cancels' = cancels + 1
    /\ aux_meant' = aux_meant \cup {<<id, IF uses[id] = 0 THEN 1 ELSE uses[id]>>}
    /\ aux_strays' = IF Running(id) = {} THEN aux_strays \cup {id} ELSE aux_strays
    /\ UNCHANGED <<pc, req, open, stalled, late, sent, uses, aux_over>>

\* The time may be up at any moment; it only matters from a look at the clock on, until
\* the chunk is sent.
TimeIsUp(t) ==
  /\ Timeouts /\ pc[t] \in {"time_check", "time_recheck", "emit"} /\ ~late[t]
  /\ late' = [late EXCEPT ![t] = TRUE]
  /\ UNCHANGED <<cancelled, pc, req, open, stalled, sent, uses, cancels,
                 aux_meant, aux_strays, aux_over>>

\* A client may hang up at any moment; it only matters when there is a frame to send.
Disconnect(t) ==
  /\ Disconnects /\ pc[t] \in {"emit", "final"} /\ open[t]
  /\ open' = [open EXCEPT ![t] = FALSE]
  /\ stalled' = [stalled EXCEPT ![t] = FALSE]
  /\ UNCHANGED <<cancelled, pc, req, late, sent, uses, cancels,
                 aux_meant, aux_strays, aux_over>>

\* A client does not read, so that its socket fills up, or reads again: the same.
Stall(t) ==
  /\ Stalls /\ pc[t] \in {"emit", "final"} /\ open[t]
  /\ stalled' = [stalled EXCEPT ![t] = ~@]
  /\ UNCHANGED <<cancelled, pc, req, open, late, sent, uses, cancels,
                 aux_meant, aux_strays, aux_over>>

Step(t) == \/ CheckCancel(t) \/ CheckTime(t) \/ RecheckTime(t)
           \/ Emit(t) \/ Final(t) \/ Clear(t)

Next == Cancel \/ \E t \in Thread : Arrive(t) \/ Step(t) \/ TimeIsUp(t) \/ Disconnect(t) \/ Stall(t)

Spec == Init /\ [][Next]_vars

\* Every request has a thread that runs until it has ended, but for a send that waits.
FairSpec == Spec /\ \A t \in Thread : WF_vars(Step(t))

(***************************************************************************)
(* Properties                                                              *)
(***************************************************************************)

\* A request whose cancel was recorded, or whose time is up, sends at most the chunk
\* it is at (README.md: request.cancel is enforced for search, streaming file reads,
\* and streaming patch preview).
CancelIsPrompt == \A t \in Thread : aux_over[t] <= 1

\* The set the daemon keeps holds ids of running requests, and besides these only ids for
\* which a cancel came when no request with them ran, and none has since: whatever cancels
\* come, and however the requests end, AppContext::clear forgets what a request leaves.
RegistryHoldsRunning == \A id \in cancelled : Running(id) # {} \/ id \in aux_strays

\* What the client of a connection sees of it: the last frame it was sent tells whether
\* it has its answer.
Answered(t) == sent[t] # <<>> /\ sent[t][Len(sent[t])] # "chunk"

Stage  == [t \in Thread |-> IF At(t, "idle") THEN "none"
                            ELSE IF ~open[t] THEN "gone"
                            ELSE IF At(t, "clear") THEN "answered" ELSE "waiting"]
Want   == [t \in Thread |-> [method |-> req[t].method, units |-> req[t].units]]
Got    == [t \in Thread |-> IF Answered(t) THEN Len(sent[t]) - 1 ELSE Len(sent[t])]
Answer == [t \in Thread |-> IF Answered(t) THEN sent[t][Len(sent[t])] ELSE ""]
Asked  == [t \in Thread |-> ~At(t, "idle") /\ <<req[t].id, req[t].use>> \in aux_meant]

Promise == INSTANCE StreamPromise WITH
  stage <- Stage, want <- Want, got <- Got, answer <- Answer, asked <- Asked, late <- late

\* The daemon keeps its promise to the client of every request: chunks and then one
\* final frame, which says "ok" of a file or a diff only when all of its chunks were
\* sent, says that a request was cancelled only when that very request was to be, and
\* that its time is up only when it is; only a client that left, or does not read, is not
\* answered (docs/04: type=chunk frames, then type=final; REQUEST_CANCELLED;
\* request.cancel names its target).
KeepsPromise == Promise!Spec

\* Every request ends, whether or not it is cancelled, late, or given up by its client;
\* only a client that stays connected and does not read can hold it up.
RequestsEnd == \A t \in Thread : ~At(t, "idle") ~> (At(t, "idle") \/ stalled[t])
=============================================================================

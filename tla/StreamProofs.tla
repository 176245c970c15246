----------------------------- MODULE StreamProofs -----------------------------
(***************************************************************************)
(* Proofs about RequestStream, for any number of connections, ids, chunks  *)
(* and cancels: what the set of cancelled ids holds, that every request    *)
(* implements the promise of StreamPromise, and that a cancel is prompt.   *)
(***************************************************************************)
EXTENDS RequestStream, TLAPS

\* What clients have to keep to: no id is used twice.
Discipline == ~Reuse

RequestOK(r) == r \in [id : {r.id}, use : {r.use}, method : {r.method}, left : {r.left},
                       units : {r.units}, result : {r.result}]

Shape ==
  /\ pc \in [Thread -> Labels]
  /\ req = [t \in Thread |-> req[t]] /\ \A t \in Thread : RequestOK(req[t])

RegistryInv == Shape /\ RegistryHoldsRunning

\* No request begins or ends in the step, and the set is left alone.
SameRequests ==
  /\ UNCHANGED <<cancelled, aux_strays>>
  /\ \A t \in Thread : req'[t].id = req[t].id /\ (pc'[t] = "idle" <=> pc[t] = "idle")

\* The invariant only depends on which requests run, under which ids.
LEMMA SameRequestsKeep ==
  ASSUME RegistryInv, Shape', SameRequests
  PROVE  RegistryInv'
BY DEF RegistryInv, RegistryHoldsRunning, Running, SameRequests, At

\* Updating one field of a request keeps the request's id and its other fields.
LEMMA FieldUpdate ==
  ASSUME NEW r, RequestOK(r), NEW v
  PROVE  /\ RequestOK([r EXCEPT !.result = v]) /\ [r EXCEPT !.result = v].id = r.id
         /\ [r EXCEPT !.result = v].use = r.use /\ [r EXCEPT !.result = v].result = v
         /\ RequestOK([r EXCEPT !.left = v]) /\ [r EXCEPT !.left = v].id = r.id
         /\ [r EXCEPT !.left = v].use = r.use /\ [r EXCEPT !.left = v].result = r.result
BY DEF RequestOK

\* A handler's step on its request, up to the one that ends it
MovesOn(t) ==
  /\ ~At(t, "idle")
  /\ \E l \in Labels \ {"idle"} : Goto(t, l)
  /\ \/ UNCHANGED req
     \/ \E v : req' = [req EXCEPT ![t].result = v]
     \/ \E v : req' = [req EXCEPT ![t].left = v]
  /\ UNCHANGED <<cancelled, aux_strays>>

\* Every step of a handler but the last is such a step.
LEMMA StepsMoveOn ==
  ASSUME NEW t \in Thread,
         CheckCancel(t) \/ CheckTime(t) \/ RecheckTime(t) \/ Emit(t) \/ Final(t)
  PROVE  MovesOn(t)
<1> USE DEF MovesOn, At, Goto, Labels, EndWith, Advance
<1>1. CASE CheckCancel(t)
  BY <1>1 DEF CheckCancel, Quiet
<1>2. CASE CheckTime(t)
  BY <1>2 DEF CheckTime, Quiet
<1>3. CASE RecheckTime(t)
  BY <1>3 DEF RecheckTime, Quiet
<1>4. CASE Emit(t)
  BY <1>4 DEF Emit
<1>5. CASE Final(t)
  BY <1>5 DEF Final
<1> QED
  BY <1>1, <1>2, <1>3, <1>4, <1>5

LEMMA MovingOnKeeps ==
  ASSUME NEW t \in Thread, RegistryInv, MovesOn(t)
  PROVE  RegistryInv'
<1>1. /\ pc' \in [Thread -> Labels]
      /\ \A u \in Thread : pc'[u] = "idle" <=> pc[u] = "idle"
  BY DEF RegistryInv, Shape, MovesOn, Goto, At
<1>2. /\ req' = [u \in Thread |-> req'[u]]
      /\ \A u \in Thread : RequestOK(req'[u]) /\ req'[u].id = req[u].id
  <2>1. CASE UNCHANGED req
    BY <2>1 DEF RegistryInv, Shape
  <2>2. ASSUME NEW v, req' = [req EXCEPT ![t].result = v]
        PROVE  <1>2!1 /\ <1>2!2
    <3>1. req' = [req EXCEPT ![t] = [req[t] EXCEPT !.result = v]]
      BY <2>2
    <3> HIDE <2>2
    <3> DEFINE new == [req[t] EXCEPT !.result = v]
    <3>2. RequestOK(new) /\ new.id = req[t].id
      BY FieldUpdate DEF RegistryInv, Shape
    <3> HIDE DEF new
    <3>3. req' = [req EXCEPT ![t] = new]
      BY <3>1 DEF new
    <3> QED
      BY <3>2, <3>3 DEF RegistryInv, Shape
  <2>3. ASSUME NEW v, req' = [req EXCEPT ![t].left = v]
        PROVE  <1>2!1 /\ <1>2!2
    <3>1. req' = [req EXCEPT ![t] = [req[t] EXCEPT !.left = v]]
      BY <2>3
    <3> HIDE <2>3
    <3> DEFINE new == [req[t] EXCEPT !.left = v]
    <3>2. RequestOK(new) /\ new.id = req[t].id
      BY FieldUpdate DEF RegistryInv, Shape
    <3> HIDE DEF new
    <3>3. req' = [req EXCEPT ![t] = new]
      BY <3>1 DEF new
    <3> QED
      BY <3>2, <3>3 DEF RegistryInv, Shape
  <2> QED
    BY <2>1, <2>2, <2>3 DEF MovesOn
<1>3. Shape' /\ SameRequests
  BY <1>1, <1>2 DEF Shape, SameRequests, MovesOn
<1> QED
  BY <1>3, SameRequestsKeep

LEMMA RegistryStep ==
  ASSUME RegistryInv, [Next]_vars
  PROVE  RegistryInv'
<1>1. ASSUME NEW t \in Thread, Arrive(t)
      PROVE  RegistryInv'
  <2>1. PICK id \in Id, m \in Method, n \in 0..MaxUnits :
          /\ At(t, "idle")
          /\ req' = [req EXCEPT ![t] = [id |-> id, use |-> uses[id] + 1, method |-> m,
                                        left |-> n, units |-> n, result |-> "ok"]]
          /\ Goto(t, IF m = "plain" \/ n = 0 THEN "final" ELSE "cancel_check")
          /\ UNCHANGED <<cancelled, aux_strays>>
    BY <1>1 DEF Arrive
  <2>2. /\ pc'[t] # "idle"
        /\ \A u \in Thread \ {t} : req'[u] = req[u] /\ pc'[u] = pc[u]
    BY <2>1 DEF RegistryInv, Shape, Goto
  <2>3. Shape'
    <3> DEFINE new == [id |-> id, use |-> uses[id] + 1, method |-> m,
                       left |-> n, units |-> n, result |-> "ok"]
    <3>1. RequestOK(new)
      BY DEF RequestOK
    <3> HIDE DEF new
    <3>2. req' = [req EXCEPT ![t] = new]
      BY <2>1 DEF new
    <3> QED
      BY <2>1, <3>1, <3>2 DEF RegistryInv, Shape, Goto, Labels
  <2>4. RegistryHoldsRunning'
    <3>1. pc[t] = "idle" /\ UNCHANGED <<cancelled, aux_strays>>
      BY <2>1 DEF At
    <3>2. \A u \in Thread : pc[u] # "idle" => pc'[u] # "idle" /\ req'[u] = req[u]
      BY <2>2, <3>1
    <3> QED
      BY <3>1, <3>2 DEF RegistryInv, RegistryHoldsRunning, Running, At
  <2> QED
    BY <2>3, <2>4 DEF RegistryInv
<1>2. ASSUME NEW t \in Thread, Clear(t)
      PROVE  RegistryInv'
  <2>1. /\ cancelled' = cancelled \ {req[t].id} /\ aux_strays' = aux_strays \ {req[t].id}
        /\ req' = [req EXCEPT ![t] = NoRequest] /\ pc' = [pc EXCEPT ![t] = "idle"]
    BY <1>2 DEF Clear, Close, Goto
  <2>2. Shape'
    <3>1. RequestOK(NoRequest)
      BY DEF RequestOK, NoRequest
    <3> QED
      BY <2>1, <3>1 DEF RegistryInv, Shape, Labels
  <2>3. RegistryHoldsRunning'
    BY <2>1 DEF RegistryInv, Shape, RegistryHoldsRunning, Running, At
  <2> QED
    BY <2>2, <2>3 DEF RegistryInv
<1>3. CASE Cancel
  <2>1. PICK id \in Id :
          /\ cancelled' = cancelled \cup {id}
          /\ aux_strays' = IF Running(id) = {} THEN aux_strays \cup {id} ELSE aux_strays
    BY <1>3 DEF Cancel
  <2>2. UNCHANGED <<pc, req>>
    BY <1>3 DEF Cancel
  <2> QED
    BY <2>1, <2>2 DEF RegistryInv, Shape, RegistryHoldsRunning, Running, At
<1>4. ASSUME UNCHANGED <<cancelled, pc, req, aux_strays>>
      PROVE  RegistryInv'
  BY <1>4 DEF RegistryInv, Shape, RegistryHoldsRunning, Running, At
<1>5. ASSUME NEW t \in Thread, TimeIsUp(t) \/ Disconnect(t) \/ Stall(t)
      PROVE  RegistryInv'
  BY <1>4, <1>5 DEF TimeIsUp, Disconnect, Stall
<1>6. ASSUME NEW t \in Thread, Step(t)
      PROVE  RegistryInv'
  BY <1>2, <1>6, StepsMoveOn, MovingOnKeeps DEF Step
<1>7. CASE Next
  BY <1>1, <1>3, <1>5, <1>6, <1>7 DEF Next
<1>8. CASE UNCHANGED vars
  BY <1>4, <1>8 DEF vars
<1> QED
  BY <1>7, <1>8

\* Whatever cancels come, before, while or after their requests, and however many requests
\* share an id: the set of cancelled ids holds those of running requests, and what a cancel
\* left there that came when none ran.  AppContext::clear at the end of
\* handle_request_adapter takes out whatever else there is.
THEOREM RegistryIsClean == Spec => []RegistryHoldsRunning
<1>1. ASSUME Init
      PROVE  RegistryInv
  <2>1. /\ cancelled = {} /\ \A t \in Thread : req[t] = NoRequest
        /\ pc \in [Thread -> Labels] /\ req = [t \in Thread |-> req[t]]
    BY <1>1 DEF Init, Labels
  <2>2. RequestOK(NoRequest)
    BY DEF RequestOK, NoRequest
  <2> QED
    BY <2>1, <2>2 DEF Shape, RegistryInv, RegistryHoldsRunning
<1>2. RegistryInv /\ [Next]_vars => RegistryInv'
  BY RegistryStep
<1>3. RegistryInv => RegistryHoldsRunning
  BY DEF RegistryInv
<1> QED
  BY <1>1, <1>2, <1>3, PTL DEF Spec

(***************************************************************************)
(* The proof that RequestStream implements StreamPromise, for any number   *)
(* of connections, ids, chunks, cancels and timeouts, as long as no id is  *)
(* used twice.  What has to hold of a connection is said of values: l      *)
(* where its request stands, r the request, o whether the client is there, *)
(* d whether the time is up, f the frames that were sent, m whether the    *)
(* request is meant to be cancelled.                                       *)
(***************************************************************************)

Codes == {"ok", "REQUEST_CANCELLED", "PATCH_APPLY_FAILED", "SEARCH_TIMEOUT", "REQUEST_TIMEOUT"}

Frames == {"chunk"} \cup Codes

RequestType == [id: Id \cup {""}, use: Nat, method: Method \cup {"plain"}, left: Nat,
                units: Nat, result: {"ok", "cancelled", "timeout", "consumer"}]

Types == /\ pc \in [Thread -> Labels] /\ req \in [Thread -> RequestType]
         /\ open \in [Thread -> BOOLEAN] /\ late \in [Thread -> BOOLEAN]
         /\ sent \in [Thread -> Seq(Frames)] /\ uses \in [Id -> Nat]

Working == {"cancel_check", "time_check", "time_recheck", "emit"}

\* Methods whose answer is all of their chunks
Whole == {"read", "preview"}

\* A thread without a request is as new.
IdleIsNew(l, r, o, d, f) == l = "idle" => r = NoRequest /\ ~o /\ ~d /\ f = <<>>

\* No final frame is sent before the last step but one.
OnlyChunks(l, f) == l # "clear" => \A i \in 1..Len(f) : f[i] = "chunk"

\* What was sent and what is left are the request's chunks; a search skips some.
ChunksAdd(l, r, f) ==
  /\ l \in Working => /\ r.left > 0 /\ r.result = "ok" /\ Len(f) + r.left <= r.units
                      /\ r.method \in Whole => Len(f) + r.left = r.units
  /\ l = "final" /\ r.result = "ok" /\ r.method \in Whole => Len(f) = r.units

\* A request ends early for a reason of its own.
EndsTruly(r, o, d, m) == /\ r.result = "cancelled" => m
                         /\ r.result = "timeout" => d
                         /\ r.result = "consumer" => ~o

Sound(l, r, o, d, f, m) ==
  IdleIsNew(l, r, o, d, f) /\ OnlyChunks(l, f) /\ ChunksAdd(l, r, f) /\ EndsTruly(r, o, d, m)

Meant(r) == <<r.id, r.use>> \in aux_meant

\* A running request is the latest with its id, and is meant if its id is in the set.
Latest(t) == pc[t] # "idle" => /\ req[t].id \in Id /\ req[t].use = uses[req[t].id]
                               /\ req[t].use > 0
                               /\ req[t].id \in cancelled => Meant(req[t])

ThreadInv(t) == /\ Sound(pc[t], req[t], open[t], late[t], sent[t], Meant(req[t]))
                /\ Latest(t)

PromiseInv == Types /\ \A t \in Thread : ThreadInv(t)

OneAtATime ==
  \A t, u \in Thread : ~At(t, "idle") /\ ~At(u, "idle") /\ req[t].id = req[u].id => t = u

\* Of ids that are used once, and of the cancels for them
FreshInv == /\ \A i \in Id : uses[i] \in {0, 1}
            /\ \A i \in cancelled : <<i, 1>> \in aux_meant
            /\ OneAtATime

(***************************************************************************)
(* Steps of one thread                                                     *)
(***************************************************************************)

Values(l, r, o, d, f) == /\ l \in Labels /\ r \in RequestType /\ o \in BOOLEAN /\ d \in BOOLEAN
                         /\ f \in Seq(Frames)

\* The step changes the thread t, to these values, and no other.
Becomes(t, l, r, o, d, f) ==
  /\ pc' = [pc EXCEPT ![t] = l] /\ req' = [req EXCEPT ![t] = r]
  /\ open' = [open EXCEPT ![t] = o] /\ late' = [late EXCEPT ![t] = d]
  /\ sent' = [sent EXCEPT ![t] = f]

\* Cancels come by steps of their own.
LeavesOthers(t) ==
  /\ aux_meant' = aux_meant /\ cancelled' \subseteq cancelled /\ uses' \in [Id -> Nat]
  /\ \A u \in Thread \ {t} : pc[u] # "idle" => uses'[req[u].id] = uses[req[u].id]

LEMMA StepOfOne ==
  ASSUME PromiseInv, NEW t \in Thread, NEW l, NEW r, NEW o, NEW d, NEW f,
         Values(l, r, o, d, f), Becomes(t, l, r, o, d, f), LeavesOthers(t),
         Sound(l, r, o, d, f, Meant(r)),
         l # "idle" => /\ r.id \in Id /\ r.use = uses'[r.id] /\ r.use > 0
                       /\ r.id \in cancelled' => Meant(r)
  PROVE  PromiseInv'
<1>1. Types'
  BY DEF PromiseInv, Types, Values, Becomes, LeavesOthers
<1>2. ASSUME NEW u \in Thread PROVE ThreadInv(u)'
  <2>1. CASE u = t
    <3>1. /\ pc'[u] = l /\ req'[u] = r /\ open'[u] = o /\ late'[u] = d /\ sent'[u] = f
          /\ aux_meant' = aux_meant
      BY <2>1 DEF PromiseInv, Types, Becomes, LeavesOthers
    <3> QED
      BY <3>1 DEF ThreadInv, Latest, Meant
  <2>2. CASE u # t
    <3>1. /\ pc'[u] = pc[u] /\ req'[u] = req[u] /\ open'[u] = open[u] /\ late'[u] = late[u]
          /\ sent'[u] = sent[u] /\ aux_meant' = aux_meant /\ cancelled' \subseteq cancelled
          /\ pc[u] # "idle" => uses'[req[u].id] = uses[req[u].id]
      BY <2>2 DEF PromiseInv, Types, Becomes, LeavesOthers
    <3>2. ThreadInv(u)
      BY DEF PromiseInv
    <3> QED
      BY <3>1, <3>2 DEF ThreadInv, Latest, Meant
  <2> QED
    BY <2>1, <2>2
<1> QED
  BY <1>1, <1>2 DEF PromiseInv

(***************************************************************************)
(* What the client sees of them                                            *)
(***************************************************************************)

StageOf(l, o) == IF l = "idle" THEN "none" ELSE IF ~o THEN "gone"
                 ELSE IF l = "clear" THEN "answered" ELSE "waiting"
WantOf(r)     == [method |-> r.method, units |-> r.units]
HasFinal(f)     == f # <<>> /\ f[Len(f)] # "chunk"
GotOf(f)      == IF HasFinal(f) THEN Len(f) - 1 ELSE Len(f)
AnswerOf(f)   == IF HasFinal(f) THEN f[Len(f)] ELSE ""

LEMMA SeenOf ==
  ASSUME NEW t \in Thread
  PROVE  /\ Stage[t] = StageOf(pc[t], open[t]) /\ Want[t] = WantOf(req[t])
         /\ Got[t] = GotOf(sent[t]) /\ Answer[t] = AnswerOf(sent[t])
         /\ Asked[t] = (pc[t] # "idle" /\ Meant(req[t]))
BY DEF Stage, Want, Got, Answer, Asked, StageOf, WantOf, GotOf, AnswerOf, HasFinal, Answered, At, Meant

LEMMA SeenStep ==
  ASSUME PromiseInv, NEW t \in Thread, NEW l, NEW r, NEW o, NEW d, NEW f,
         Becomes(t, l, r, o, d, f), aux_meant' = aux_meant
  PROVE  /\ Stage' = [Stage EXCEPT ![t] = StageOf(l, o)]
         /\ Want' = [Want EXCEPT ![t] = WantOf(r)]
         /\ Got' = [Got EXCEPT ![t] = GotOf(f)]
         /\ Answer' = [Answer EXCEPT ![t] = AnswerOf(f)]
         /\ Asked' = [Asked EXCEPT ![t] = (l # "idle" /\ Meant(r))]
         /\ late' = [late EXCEPT ![t] = d]
<1>1. /\ pc'[t] = l /\ req'[t] = r /\ open'[t] = o /\ sent'[t] = f
      /\ \A u \in Thread \ {t} : /\ pc'[u] = pc[u] /\ req'[u] = req[u] /\ open'[u] = open[u]
                                 /\ sent'[u] = sent[u]
  BY DEF PromiseInv, Types, Becomes
<1>2. Stage' = [Stage EXCEPT ![t] = StageOf(l, o)]
  BY ZenonT(40), <1>1 DEF Stage, StageOf, At
<1>3. Want' = [Want EXCEPT ![t] = WantOf(r)]
  BY <1>1 DEF Want, WantOf
<1>4. Got' = [Got EXCEPT ![t] = GotOf(f)]
  <2>1. /\ (Answered(t)' <=> HasFinal(f)) /\ Len(sent'[t]) = Len(f)
        /\ \A u \in Thread \ {t} : (Answered(u)' <=> Answered(u)) /\ Len(sent'[u]) = Len(sent[u])
    BY <1>1 DEF HasFinal, Answered
  <2>2. \A u \in Thread : Got'[u] = IF u = t THEN GotOf(f) ELSE Got[u]
    BY <2>1 DEF Got, GotOf
  <2> QED
    BY <2>2 DEF Got
<1>5. Answer' = [Answer EXCEPT ![t] = AnswerOf(f)]
  BY <1>1 DEF Answer, AnswerOf, HasFinal, Answered
<1>6. Asked' = [Asked EXCEPT ![t] = (l # "idle" /\ Meant(r))]
  BY <1>1 DEF Asked, Meant, At
<1> QED
  BY <1>2, <1>3, <1>4, <1>5, <1>6 DEF Becomes

(***************************************************************************)
(* The steps of a connection                                               *)
(***************************************************************************)

Seen == Stage' = Stage /\ Want' = Want /\ Got' = Got /\ Answer' = Answer /\ Asked' = Asked
          /\ late' = late

\* A request that goes on, or comes to its end, without a frame: the client sees nothing.
Silent(t, l, r) ==
  /\ pc[t] \in Working /\ l \in Working \cup {"final"} /\ r \in RequestType
  /\ pc' = [pc EXCEPT ![t] = l] /\ req' = [req EXCEPT ![t] = r]
  /\ UNCHANGED <<open, late, sent, aux_meant, cancelled, uses>>
  /\ r.id = req[t].id /\ r.use = req[t].use /\ r.method = req[t].method /\ r.units = req[t].units
  /\ ChunksAdd(l, r, sent[t]) /\ EndsTruly(r, open[t], late[t], Meant(r))

LEMMA SilentStep ==
  ASSUME PromiseInv, NEW t \in Thread, NEW l, NEW r, Silent(t, l, r)
  PROVE  PromiseInv' /\ Seen
<1> DEFINE o == open[t]  d == late[t]  f == sent[t]
<1>1. ThreadInv(t) /\ Values(pc[t], req[t], o, d, f) /\ Types
  BY DEF PromiseInv, Types, Values
<1>2. Becomes(t, l, r, o, d, f) /\ LeavesOthers(t)
  BY <1>1 DEF Silent, Becomes, Types, LeavesOthers
<1>3. Values(l, r, o, d, f)
  BY <1>1 DEF Silent, Values, Working, Labels
<1>4. Sound(l, r, o, d, f, Meant(r))
  BY <1>1 DEF ThreadInv, Sound, Silent, IdleIsNew, OnlyChunks, Working
<1>5. /\ r.id \in Id /\ r.use = uses'[r.id] /\ r.use > 0
      /\ r.id \in cancelled' => Meant(r)
  BY <1>1 DEF ThreadInv, Latest, Silent, Working, Meant
<1>6. PromiseInv'
  BY <1>2, <1>3, <1>4, <1>5, StepOfOne
<1>7. /\ StageOf(l, o) = Stage[t] /\ WantOf(r) = Want[t] /\ GotOf(f) = Got[t]
      /\ AnswerOf(f) = Answer[t] /\ (l # "idle" /\ Meant(r)) = Asked[t]
  BY SeenOf DEF Silent, Working, StageOf, WantOf, Meant
<1>8. Seen
  <2> HIDE DEF o, d, f
  <2>1. /\ Stage' = [Stage EXCEPT ![t] = Stage[t]] /\ Want' = [Want EXCEPT ![t] = Want[t]]
        /\ Got' = [Got EXCEPT ![t] = Got[t]] /\ Answer' = [Answer EXCEPT ![t] = Answer[t]]
        /\ Asked' = [Asked EXCEPT ![t] = Asked[t]]
    BY <1>2, <1>7, SeenStep DEF LeavesOthers
  <2>2. /\ Stage = [u \in Thread |-> Stage[u]] /\ Want = [u \in Thread |-> Want[u]]
        /\ Got = [u \in Thread |-> Got[u]] /\ Answer = [u \in Thread |-> Answer[u]]
        /\ Asked = [u \in Thread |-> Asked[u]]
    BY DEF Stage, Want, Got, Answer, Asked
  <2>3. late' = late
    BY DEF Silent
  <2> QED
    BY <2>1, <2>2, <2>3 DEF Seen
<1> QED
  BY <1>6, <1>8

LEMMA CheckCancelSilent ==
  ASSUME PromiseInv, NEW t \in Thread, CheckCancel(t)
  PROVE  PromiseInv' /\ Seen
<1>1. /\ ThreadInv(t) /\ req[t] \in RequestType /\ Types /\ pc[t] = "cancel_check"
      /\ UNCHANGED <<open, late, sent, aux_meant, cancelled, uses>>
  BY DEF PromiseInv, Types, CheckCancel, Quiet, At
<1>2. CASE req[t].id \in cancelled
  <2> DEFINE r == [req[t] EXCEPT !.result = "cancelled"]
  <2>1. /\ r \in RequestType /\ r.result = "cancelled" /\ r.id = req[t].id /\ r.use = req[t].use
        /\ r.method = req[t].method /\ r.units = req[t].units
    BY <1>1 DEF RequestType
  <2>2. req' = [req EXCEPT ![t] = r] /\ pc' = [pc EXCEPT ![t] = "final"]
    BY <1>1, <1>2 DEF CheckCancel, EndWith, Goto, Types
  <2> HIDE DEF r
  <2>3. Meant(r)
    BY <1>1, <1>2, <2>1 DEF ThreadInv, Latest, Meant
  <2>4. Silent(t, "final", r)
    BY <1>1, <2>1, <2>2, <2>3 DEF Silent, Working, ChunksAdd, EndsTruly
  <2> QED
    BY <2>4, SilentStep
<1>3. CASE req[t].id \notin cancelled
  <2>1. req' = [req EXCEPT ![t] = req[t]] /\ pc' = [pc EXCEPT ![t] = "time_check"]
    BY <1>1, <1>3 DEF CheckCancel, Goto, Types
  <2>2. Silent(t, "time_check", req[t])
    BY <1>1, <2>1 DEF Silent, ThreadInv, Sound, Working, ChunksAdd, EndsTruly
  <2> QED
    BY <2>2, SilentStep
<1> QED
  BY <1>2, <1>3

LEMMA CheckTimeSilent ==
  ASSUME PromiseInv, NEW t \in Thread, CheckTime(t) \/ RecheckTime(t)
  PROVE  PromiseInv' /\ Seen
<1>1. /\ ThreadInv(t) /\ req[t] \in RequestType /\ Types /\ pc[t] \in {"time_check", "time_recheck"}
      /\ UNCHANGED <<open, late, sent, aux_meant, cancelled, uses>>
  BY DEF PromiseInv, Types, CheckTime, RecheckTime, Quiet, At
<1>2. CASE late[t] /\ EndWith(t, "timeout")
  <2> DEFINE r == [req[t] EXCEPT !.result = "timeout"]
  <2>1. /\ r \in RequestType /\ r.result = "timeout" /\ r.id = req[t].id /\ r.use = req[t].use
        /\ r.method = req[t].method /\ r.units = req[t].units
    BY <1>1 DEF RequestType
  <2>2. req' = [req EXCEPT ![t] = r] /\ pc' = [pc EXCEPT ![t] = "final"]
    BY <1>1, <1>2 DEF EndWith, Goto, Types
  <2> HIDE DEF r
  <2>3. Silent(t, "final", r)
    BY <1>1, <1>2, <2>1, <2>2 DEF Silent, Working, ChunksAdd, EndsTruly
  <2> QED
    BY <2>3, SilentStep
<1>3. CASE UNCHANGED req /\ \E l \in Working : Goto(t, l)
  <2>1. PICK l \in Working : pc' = [pc EXCEPT ![t] = l]
    BY <1>3 DEF Goto
  <2>2. req' = [req EXCEPT ![t] = req[t]]
    BY <1>1, <1>3 DEF Types
  <2>3. Silent(t, l, req[t])
    BY <1>1, <2>1, <2>2 DEF Silent, ThreadInv, Sound, Working, ChunksAdd, EndsTruly
  <2> QED
    BY <2>3, SilentStep
<1>4. CASE req[t].method = "search" /\ Advance(t)
  <2> DEFINE r == [req[t] EXCEPT !.left = @ - 1]
             l == IF req[t].left = 1 THEN "final" ELSE "cancel_check"
  <2>1. /\ req[t].left > 0 /\ Len(sent[t]) + req[t].left <= req[t].units /\ req[t].result = "ok"
    BY <1>1 DEF ThreadInv, Sound, ChunksAdd, Working
  <2>4. req[t].left \in Nat /\ req[t].units \in Nat /\ Len(sent[t]) \in Nat
    <3>1. sent[t] \in Seq(Frames)
      BY <1>1 DEF Types
    <3>2. Len(sent[t]) \in Nat
      BY <3>1
    <3> QED
      BY <1>1, <3>2 DEF RequestType
  <2>7. req[t].left - 1 \in Nat
    BY <2>1, <2>4
  <2>2. /\ r \in RequestType /\ r.left = req[t].left - 1 /\ r.result = "ok" /\ r.id = req[t].id
        /\ r.use = req[t].use /\ r.method = "search" /\ r.units = req[t].units
        /\ r.method = req[t].method
    BY <1>1, <1>4, <2>1, <2>7 DEF RequestType
  <2>3. req' = [req EXCEPT ![t] = r] /\ pc' = [pc EXCEPT ![t] = l]
    BY <1>1, <1>4 DEF Advance, Goto, Types
  <2> HIDE DEF r
  <2>5. ChunksAdd(l, r, sent[t])
    BY <2>1, <2>2, <2>4 DEF ChunksAdd, Working, Whole
  <2>6. Silent(t, l, r)
    BY <1>1, <2>2, <2>3, <2>5 DEF Silent, Working, EndsTruly
  <2> QED
    BY <2>6, SilentStep
<1>5. CASE CheckTime(t)
  BY <1>2, <1>3, <1>4, <1>5 DEF CheckTime, Working
<1>6. CASE RecheckTime(t)
  BY <1>2, <1>3, <1>6 DEF RecheckTime, Working
<1> QED
  BY <1>5, <1>6

\* What the client sees when nothing changes for it
LEMMA SameSeen ==
  /\ Stage = [u \in Thread |-> Stage[u]] /\ Want = [u \in Thread |-> Want[u]]
  /\ Got = [u \in Thread |-> Got[u]] /\ Answer = [u \in Thread |-> Answer[u]]
  /\ Asked = [u \in Thread |-> Asked[u]]
BY DEF Stage, Want, Got, Answer, Asked

\* Chunks alone are no answer.
LEMMA ChunkFacts ==
  ASSUME NEW f \in Seq(Frames), \A i \in 1..Len(f) : f[i] = "chunk"
  PROVE  /\ ~HasFinal(f) /\ Len(f) \in Nat
         /\ \A c \in Frames :
              /\ Append(f, c) \in Seq(Frames) /\ Append(f, c) # <<>>
              /\ Len(Append(f, c)) = Len(f) + 1 /\ Append(f, c)[Len(f) + 1] = c
              /\ \A i \in 1..Len(f) : Append(f, c)[i] = "chunk"
<1>1. Len(f) \in Nat /\ (f # <<>> => Len(f) > 0)
  OBVIOUS
<1>2. ~HasFinal(f)
  BY <1>1 DEF HasFinal
<1>3. ASSUME NEW c \in Frames
      PROVE  /\ Append(f, c) \in Seq(Frames) /\ Append(f, c) # <<>>
             /\ Len(Append(f, c)) = Len(f) + 1 /\ Append(f, c)[Len(f) + 1] = c
             /\ \A i \in 1..Len(f) : Append(f, c)[i] = "chunk"
  <2>1. /\ Append(f, c) \in Seq(Frames) /\ Len(Append(f, c)) = Len(f) + 1
        /\ Append(f, c)[Len(f) + 1] = c
    OBVIOUS
  <2>2. \A i \in 1..Len(f) : Append(f, c)[i] = f[i]
    OBVIOUS
  <2>3. Append(f, c) # <<>>
    <3> DEFINE g == Append(f, c)
    <3>1. g \in Seq(Frames) /\ Len(g) > 0
      BY <1>1, <2>1
    <3> HIDE DEF g
    <3>2. g # <<>>
      BY <3>1
    <3> QED
      BY <3>2 DEF g
  <2> QED
    BY <2>1, <2>2, <2>3
<1> QED
  BY <1>1, <1>2, <1>3

\* A chunk that is sent is a chunk of the promise.
SendsChunk(t, l, r) ==
  /\ pc[t] \in Working /\ open[t] /\ l \in Working \cup {"final"} /\ r \in RequestType
  /\ pc' = [pc EXCEPT ![t] = l] /\ req' = [req EXCEPT ![t] = r]
  /\ sent' = [sent EXCEPT ![t] = Append(@, "chunk")]
  /\ UNCHANGED <<cancelled, open, late, uses, aux_meant>>
  /\ r.id = req[t].id /\ r.use = req[t].use /\ r.method = req[t].method /\ r.units = req[t].units
  /\ r.result = "ok" /\ ChunksAdd(l, r, Append(sent[t], "chunk"))

LEMMA ChunkShown ==
  ASSUME PromiseInv, NEW t \in Thread, NEW l, NEW r, SendsChunk(t, l, r)
  PROVE  PromiseInv' /\ Promise!Chunk(t)
<1> DEFINE o == open[t]  d == late[t]  q == sent[t]  f == Append(q, "chunk")
<1>1. ThreadInv(t) /\ Types /\ q \in Seq(Frames) /\ req[t] \in RequestType
  BY DEF PromiseInv, Types
<1>2. \A i \in 1..Len(q) : q[i] = "chunk"
  BY <1>1 DEF ThreadInv, Sound, OnlyChunks, Working, SendsChunk
<1>3. /\ ~HasFinal(q) /\ Len(q) \in Nat /\ f \in Seq(Frames) /\ f # <<>>
      /\ Len(f) = Len(q) + 1 /\ f[Len(f)] = "chunk" /\ \A i \in 1..Len(q) : f[i] = "chunk"
  <2>1. "chunk" \in Frames
    BY DEF Frames
  <2> HIDE DEF q
  <2> QED
    BY <1>1, <1>2, <2>1, ChunkFacts
<1>4. Becomes(t, l, r, o, d, f) /\ LeavesOthers(t)
  BY <1>1 DEF Becomes, Types, LeavesOthers, SendsChunk
<1>5. Values(l, r, o, d, f)
  BY <1>1, <1>3 DEF Values, Working, Labels, Types, SendsChunk
<1> HIDE DEF f
<1>6. Sound(l, r, o, d, f, Meant(r))
  <2>1. \A i \in 1..Len(f) : f[i] = "chunk"
    BY <1>3
  <2>2. ChunksAdd(l, r, f)
    BY DEF f, SendsChunk
  <2> QED
    BY <2>1, <2>2 DEF Sound, IdleIsNew, OnlyChunks, EndsTruly, Working, SendsChunk
<1>7. /\ r.id \in Id /\ r.use = uses'[r.id] /\ r.use > 0
      /\ r.id \in cancelled' => Meant(r)
  BY <1>1 DEF ThreadInv, Latest, Working, Meant, SendsChunk
<1>8. PromiseInv'
  BY <1>4, <1>5, <1>6, <1>7, StepOfOne
<1>9. /\ Stage[t] = "waiting" /\ StageOf(l, o) = Stage[t] /\ WantOf(r) = Want[t]
      /\ Got[t] = Len(q) /\ GotOf(f) = Got[t] + 1 /\ AnswerOf(f) = Answer[t]
      /\ (l # "idle" /\ Meant(r)) = Asked[t]
  <2>1. ~HasFinal(f)
    BY <1>3 DEF HasFinal
  <2>2. Len(q) + 1 - 1 = Len(q)
    BY <1>3
  <2> QED
    BY ZenonT(40), <1>3, <2>1, SeenOf DEF Working, StageOf, WantOf, GotOf, AnswerOf, Meant, SendsChunk
<1>10. Got[t] < Want[t].units
  <2>1. req[t].left > 0 /\ Len(q) + req[t].left <= req[t].units
    BY <1>1 DEF ThreadInv, Sound, ChunksAdd, SendsChunk
  <2>2. req[t].left \in Nat /\ req[t].units \in Nat
    BY <1>1 DEF RequestType
  <2>3. Want[t].units = req[t].units
    <3>1. Want[t] = WantOf(req[t])
      BY SeenOf
    <3> QED
      BY <3>1 DEF WantOf
  <2>4. Got[t] = Len(q)
    BY <1>9
  <2> HIDE DEF q
  <2>5. Len(q) < req[t].units
    BY <1>3, <2>1, <2>2
  <2> QED
    BY <2>3, <2>4, <2>5
<1>11. /\ Stage' = [Stage EXCEPT ![t] = Stage[t]] /\ Want' = [Want EXCEPT ![t] = Want[t]]
       /\ Got' = [Got EXCEPT ![t] = Got[t] + 1] /\ Answer' = [Answer EXCEPT ![t] = Answer[t]]
       /\ Asked' = [Asked EXCEPT ![t] = Asked[t]]
  <2> HIDE DEF o, d, q
  <2> QED
    BY <1>4, <1>9, SeenStep DEF LeavesOthers
<1>12. UNCHANGED <<Stage, Want, Answer, Asked, late>>
  BY <1>11, SameSeen DEF SendsChunk
<1> QED
  BY <1>8, <1>9, <1>10, <1>11, <1>12 DEF Promise!Chunk

LEMMA EmitShown ==
  ASSUME PromiseInv, NEW t \in Thread, Emit(t)
  PROVE  PromiseInv' /\ (Promise!Chunk(t) \/ Seen)
<1>1. /\ ThreadInv(t) /\ req[t] \in RequestType /\ Types /\ pc[t] = "emit"
      /\ UNCHANGED <<open, late, aux_meant, cancelled, uses>>
  BY DEF PromiseInv, Types, Emit, At
<1>2. /\ req[t].left > 0 /\ Len(sent[t]) + req[t].left <= req[t].units /\ req[t].result = "ok"
      /\ req[t].method \in Whole => Len(sent[t]) + req[t].left = req[t].units
  BY <1>1 DEF ThreadInv, Sound, ChunksAdd, Working
<1>3. /\ req[t].left \in Nat /\ req[t].units \in Nat /\ Len(sent[t]) \in Nat
      /\ Len(Append(sent[t], "chunk")) = Len(sent[t]) + 1
  <2>1. sent[t] \in Seq(Frames)
    BY <1>1 DEF Types
  <2>2. Len(sent[t]) \in Nat /\ Len(Append(sent[t], "chunk")) = Len(sent[t]) + 1
    BY <2>1
  <2> QED
    BY <1>1, <2>2 DEF RequestType
<1>4. CASE open[t] /\ sent' = [sent EXCEPT ![t] = Append(@, "chunk")] /\ Advance(t)
  <2> DEFINE r == [req[t] EXCEPT !.left = @ - 1]
             l == IF req[t].left = 1 THEN "final" ELSE "cancel_check"
  <2>1. req[t].left - 1 \in Nat
    BY <1>2, <1>3
  <2>2. /\ r \in RequestType /\ r.left = req[t].left - 1 /\ r.result = "ok" /\ r.id = req[t].id
        /\ r.use = req[t].use /\ r.units = req[t].units /\ r.method = req[t].method
    BY <1>1, <1>2, <2>1 DEF RequestType
  <2>3. req' = [req EXCEPT ![t] = r] /\ pc' = [pc EXCEPT ![t] = l]
    BY <1>1, <1>4 DEF Advance, Goto, Types
  <2> HIDE DEF r
  <2>4. ChunksAdd(l, r, Append(sent[t], "chunk"))
    BY SMTT(30), <1>2, <1>3, <2>2 DEF ChunksAdd, Working
  <2>5. l \in Working \cup {"final"} /\ pc[t] \in Working
    BY <1>1 DEF Working
  <2>6. SendsChunk(t, l, r)
    BY <1>1, <1>4, <2>2, <2>3, <2>4, <2>5 DEF SendsChunk
  <2> QED
    BY <2>6, ChunkShown
<1>5. CASE /\ open[t] /\ sent' = [sent EXCEPT ![t] = Append(@, "chunk")]
           /\ req[t].method = "search" /\ EndWith(t, "ok")
  <2> DEFINE r == [req[t] EXCEPT !.result = "ok"]
  <2>1. /\ r \in RequestType /\ r.result = "ok" /\ r.id = req[t].id /\ r.method = "search"
        /\ r.use = req[t].use /\ r.units = req[t].units /\ r.method = req[t].method
    BY <1>1, <1>5 DEF RequestType
  <2>2. req' = [req EXCEPT ![t] = r] /\ pc' = [pc EXCEPT ![t] = "final"]
    BY <1>1, <1>5 DEF EndWith, Goto, Types
  <2> HIDE DEF r
  <2>3. ChunksAdd("final", r, Append(sent[t], "chunk"))
    BY <2>1 DEF ChunksAdd, Working, Whole
  <2>4. SendsChunk(t, "final", r)
    BY <1>1, <1>5, <2>1, <2>2, <2>3 DEF SendsChunk, Working
  <2> QED
    BY <2>4, ChunkShown
<1>6. CASE ~open[t] /\ EndWith(t, "consumer") /\ UNCHANGED sent
  <2> DEFINE r == [req[t] EXCEPT !.result = "consumer"]
  <2>1. /\ r \in RequestType /\ r.result = "consumer" /\ r.id = req[t].id
        /\ r.use = req[t].use /\ r.units = req[t].units /\ r.method = req[t].method
    BY <1>1 DEF RequestType
  <2>2. req' = [req EXCEPT ![t] = r] /\ pc' = [pc EXCEPT ![t] = "final"]
    BY <1>1, <1>6 DEF EndWith, Goto, Types
  <2> HIDE DEF r
  <2>3. Silent(t, "final", r)
    BY <1>1, <1>6, <2>1, <2>2 DEF Silent, Working, ChunksAdd, EndsTruly
  <2> QED
    BY <2>3, SilentStep
<1> QED
  BY <1>4, <1>5, <1>6 DEF Emit

\* The final frame is the answer of the promise.
LEMMA FinalShown ==
  ASSUME PromiseInv, NEW t \in Thread, Final(t)
  PROVE  PromiseInv' /\ ("preview" \notin Method => Promise!Answer(t) \/ Seen)
<1> DEFINE r == req[t]  o == open[t]  d == late[t]  q == sent[t]
           code == Code(r.method, r.result)
           f == IF o THEN Append(q, code) ELSE q
<1>1. /\ ThreadInv(t) /\ Types /\ pc[t] = "final" /\ Goto(t, "clear")
      /\ UNCHANGED <<cancelled, req, open, late, uses, aux_meant>>
      /\ sent' = IF o THEN [sent EXCEPT ![t] = Append(@, code)] ELSE sent
  BY DEF PromiseInv, Final, At
<1>2. q \in Seq(Frames) /\ r \in RequestType /\ o \in BOOLEAN /\ d \in BOOLEAN
  BY <1>1 DEF Types
<1>3. \A i \in 1..Len(q) : q[i] = "chunk"
  BY <1>1 DEF ThreadInv, Sound, OnlyChunks
<1>4. code \in Codes
  BY DEF Code, Codes
<1>5. f \in Seq(Frames)
  BY <1>2, <1>4 DEF Frames
<1>6. Becomes(t, "clear", r, o, d, f) /\ LeavesOthers(t)
  BY <1>1 DEF Becomes, Types, LeavesOthers, Goto
<1>7. Values("clear", r, o, d, f)
  BY <1>2, <1>5 DEF Values, Labels
<1> HIDE DEF f, code
<1>8. Sound("clear", r, o, d, f, Meant(r))
  BY <1>1 DEF ThreadInv, Sound, IdleIsNew, OnlyChunks, ChunksAdd, Working
<1>9. /\ r.id \in Id /\ r.use = uses'[r.id] /\ r.use > 0
      /\ r.id \in cancelled' => Meant(r)
  BY <1>1 DEF ThreadInv, Latest
<1>10. PromiseInv'
  BY <1>6, <1>7, <1>8, <1>9, StepOfOne
<1>11. /\ Stage' = [Stage EXCEPT ![t] = StageOf("clear", o)]
       /\ Want' = [Want EXCEPT ![t] = WantOf(r)]
       /\ Got' = [Got EXCEPT ![t] = GotOf(f)] /\ Answer' = [Answer EXCEPT ![t] = AnswerOf(f)]
       /\ Asked' = [Asked EXCEPT ![t] = ("clear" # "idle" /\ Meant(r))]
  BY <1>6, SeenStep DEF LeavesOthers
<1>12. /\ WantOf(r) = Want[t] /\ ("clear" # "idle" /\ Meant(r)) = Asked[t]
  BY <1>1, SeenOf
<1>13. UNCHANGED <<Want, Asked, late>>
  BY <1>1, <1>11, <1>12, SameSeen
<1>14. CASE ~o
  <2>1. f = q
    BY <1>14 DEF f
  <2>2. /\ StageOf("clear", o) = Stage[t] /\ GotOf(f) = Got[t] /\ AnswerOf(f) = Answer[t]
    BY <1>1, <1>14, <2>1, SeenOf DEF StageOf
  <2>3. UNCHANGED <<Stage, Got, Answer>>
    BY <1>11, <2>2, SameSeen
  <2> QED
    BY <1>10, <1>13, <2>3 DEF Seen
<1>15. CASE o
  <2>1. /\ ~HasFinal(q) /\ Len(q) \in Nat /\ f # <<>> /\ Len(f) = Len(q) + 1 /\ f[Len(f)] = code
    <3>1. f = Append(q, code) /\ code \in Frames
      BY <1>4, <1>15 DEF f, Frames
    <3> HIDE DEF q
    <3> QED
      BY <1>2, <1>3, <3>1, ChunkFacts
  <2>2. HasFinal(f) /\ Len(f) - 1 = Len(q)
    BY <1>4, <2>1 DEF HasFinal, Codes
  <2>3. /\ Stage[t] = "waiting" /\ StageOf("clear", o) = "answered"
        /\ Got[t] = Len(q) /\ GotOf(f) = Got[t] /\ AnswerOf(f) = code
    BY <1>1, <1>15, <2>1, <2>2, SeenOf DEF StageOf, GotOf, AnswerOf
  <2>4. Want[t].method = r.method /\ Want[t].units = r.units
    <3>1. Want[t] = WantOf(r)
      BY <1>12
    <3> QED
      BY <3>1 DEF WantOf
  <2>5. r.result \in {"ok", "cancelled", "timeout"}
    BY <1>1, <1>2, <1>15 DEF RequestType, ThreadInv, Sound, EndsTruly
  <2> SUFFICES ASSUME "preview" \notin Method
               PROVE  Promise!Answer(t)
    BY <1>10
  <2>11. r.method # "preview"
    BY <1>2 DEF RequestType
  <2>6. Promise!MayEnd(t, code) /\ code \in Promise!Codes
    <3>1. r.result = "ok" => (r.method \in Whole => Got[t] = Want[t].units)
      BY <1>1, <2>3, <2>4 DEF ThreadInv, Sound, ChunksAdd
    <3>2. (r.result = "cancelled" => Asked[t]) /\ (r.result = "timeout" => late[t])
      BY <1>1, <1>12 DEF ThreadInv, Sound, EndsTruly
    <3> QED
      BY <2>4, <2>5, <2>11, <3>1, <3>2 DEF code, Code, Whole, Promise!MayEnd, Promise!Codes
  <2>7. Answer' = [Answer EXCEPT ![t] = code] /\ Stage' = [Stage EXCEPT ![t] = "answered"]
    BY <1>11, <2>3
  <2>8. Got' = Got
    BY <1>11, <2>3, SameSeen
  <2> QED
    BY <1>13, <2>3, <2>6, <2>7, <2>8 DEF Promise!Answer
<1> QED
  BY <1>14, <1>15

\* The end of a connection is the end of the promise.
LEMMA ClearShown ==
  ASSUME PromiseInv, NEW t \in Thread, Clear(t)
  PROVE  PromiseInv' /\ Promise!End(t)
<1>1. /\ Types /\ pc[t] = "clear" /\ cancelled' \subseteq cancelled
      /\ UNCHANGED <<uses, aux_meant>>
  BY DEF PromiseInv, Clear, Close, At
<1>2. Becomes(t, "idle", NoRequest, FALSE, FALSE, <<>>) /\ LeavesOthers(t)
  BY <1>1 DEF Becomes, Types, LeavesOthers, Clear, Close, Goto
<1>3. Values("idle", NoRequest, FALSE, FALSE, <<>>)
  BY DEF Values, Labels, NoRequest, RequestType
<1>4. Sound("idle", NoRequest, FALSE, FALSE, <<>>, Meant(NoRequest))
  BY DEF Sound, IdleIsNew, OnlyChunks, ChunksAdd, EndsTruly, Working, NoRequest
<1>5. PromiseInv'
  BY <1>2, <1>3, <1>4, StepOfOne
<1> DEFINE l == "idle"  r == NoRequest  o == FALSE  f == <<>>
<1> HIDE DEF l, r, o, f
<1>6. /\ Stage' = [Stage EXCEPT ![t] = StageOf(l, o)] /\ Want' = [Want EXCEPT ![t] = WantOf(r)]
      /\ Got' = [Got EXCEPT ![t] = GotOf(f)] /\ Answer' = [Answer EXCEPT ![t] = AnswerOf(f)]
      /\ Asked' = [Asked EXCEPT ![t] = (l # "idle" /\ Meant(r))]
      /\ late' = [late EXCEPT ![t] = o]
  <2>1. Becomes(t, l, r, o, o, f) /\ aux_meant' = aux_meant
    BY <1>1, <1>2 DEF l, r, o, f
  <2> QED
    BY <2>1, SeenStep
<1>7. /\ StageOf(l, o) = "none" /\ WantOf(r) = Promise!Nothing
      /\ GotOf(f) = 0 /\ AnswerOf(f) = "" /\ (l # "idle" /\ Meant(r)) = FALSE
  <2>1. Len(<<>>) = 0 /\ ~HasFinal(<<>>)
    BY DEF HasFinal
  <2>2. WantOf(NoRequest) = Promise!Nothing
    BY DEF WantOf, NoRequest, Promise!Nothing
  <2> QED
    BY <2>1, <2>2 DEF l, r, o, f, StageOf, GotOf, AnswerOf
<1>8. Stage[t] \in {"answered", "gone"}
  BY <1>1, SeenOf DEF StageOf
<1> QED
  BY <1>5, <1>6, <1>7, <1>8 DEF Promise!End, o

\* A cancel of the id that was recorded earlier was for this request.
LEMMA ArriveShown ==
  ASSUME Discipline, FreshInv, PromiseInv, NEW t \in Thread, Arrive(t)
  PROVE  PromiseInv' /\ Promise!Begin(t)
<1>1. PICK id \in Id, m \in Method, n \in 0..MaxUnits :
        /\ pc[t] = "idle" /\ uses[id] = 0
        /\ req' = [req EXCEPT ![t] = [id |-> id, use |-> uses[id] + 1, method |-> m,
                                      left |-> n, units |-> n, result |-> "ok"]]
        /\ uses' = [uses EXCEPT ![id] = @ + 1]
        /\ open' = [open EXCEPT ![t] = TRUE]
        /\ pc' = [pc EXCEPT ![t] = IF m = "plain" \/ n = 0 THEN "final" ELSE "cancel_check"]
        /\ UNCHANGED <<cancelled, late, sent, aux_meant>>
  BY DEF Arrive, Discipline, Goto, At
<1> DEFINE r == [id |-> id, use |-> uses[id] + 1, method |-> m,
                 left |-> n, units |-> n, result |-> "ok"]
           l == IF m = "plain" \/ n = 0 THEN "final" ELSE "cancel_check"
           o == TRUE  d == late[t]  f == sent[t]
<1>2. Types /\ ThreadInv(t) /\ f \in Seq(Frames) /\ d \in BOOLEAN /\ uses[id] \in Nat
  BY DEF PromiseInv, Types
<1>3. ~open[t] /\ ~d /\ f = <<>>
  BY <1>1, <1>2 DEF ThreadInv, Sound, IdleIsNew
<1>4. n \in Nat
  BY StreamAssumption DEF StreamAssumption
<1>5. /\ r \in RequestType /\ r.id = id /\ r.use = uses[id] + 1 /\ r.method = m /\ r.left = n
      /\ r.units = n /\ r.result = "ok"
  <2> DEFINE v == uses[id] + 1
  <2>1. v \in Nat
    BY <1>2
  <2> HIDE DEF v
  <2>2. [id |-> id, use |-> v, method |-> m, left |-> n, units |-> n, result |-> "ok"] \in RequestType
    BY <1>4, <2>1 DEF RequestType
  <2>3. r \in RequestType
    BY <2>2 DEF v
  <2> QED
    BY <2>3
<1> HIDE DEF r
<1>6. Becomes(t, l, r, o, d, f)
  BY <1>1, <1>2 DEF Becomes, Types, r
<1>7. LeavesOthers(t)
  <2>1. \A u \in Thread \ {t} : pc[u] # "idle" => req[u].id # id /\ req[u].id \in Id
    BY <1>1 DEF PromiseInv, ThreadInv, Latest
  <2>2. uses' \in [Id -> Nat] /\ \A i \in Id \ {id} : uses'[i] = uses[i]
    BY <1>1, <1>2 DEF Types
  <2> QED
    BY <1>1, <2>1, <2>2 DEF LeavesOthers
<1>8. Values(l, r, o, d, f)
  BY <1>2, <1>5 DEF Values, Labels
<1>9. Sound(l, r, o, d, f, Meant(r))
  <2>1. Len(f) = 0
    BY <1>3
  <2>2. OnlyChunks(l, f)
    BY <2>1 DEF OnlyChunks
  <2>3. ChunksAdd(l, r, f)
    <3>1. (l \in Working => n # 0) /\ (l = "final" /\ m \in Whole => n = 0)
      BY DEF Working, Whole
    <3> QED
      BY <1>4, <1>5, <2>1, <3>1 DEF ChunksAdd
  <2> QED
    BY <1>5, <2>2, <2>3 DEF Sound, IdleIsNew, EndsTruly
<1>10. /\ r.id \in Id /\ r.use = uses'[r.id] /\ r.use > 0
       /\ r.id \in cancelled' => Meant(r)
  <2>1. id \in cancelled' => <<id, 1>> \in aux_meant
    BY <1>1 DEF FreshInv
  <2>2. uses'[id] = uses[id] + 1 /\ r.use = 1
    BY <1>1, <1>2, <1>5 DEF Types
  <2> QED
    BY <1>2, <1>5, <2>1, <2>2 DEF Meant
<1> HIDE DEF l, o, d, f
<1>11. PromiseInv'
  BY <1>6, <1>7, <1>8, <1>9, <1>10, StepOfOne
<1>12. /\ Stage' = [Stage EXCEPT ![t] = StageOf(l, o)] /\ Want' = [Want EXCEPT ![t] = WantOf(r)]
       /\ Got' = [Got EXCEPT ![t] = GotOf(f)] /\ Answer' = [Answer EXCEPT ![t] = AnswerOf(f)]
       /\ Asked' = [Asked EXCEPT ![t] = (l # "idle" /\ Meant(r))]
  BY <1>6, <1>7, SeenStep DEF LeavesOthers
<1>13. /\ StageOf(l, o) = "waiting" /\ Stage[t] = "none"
       /\ GotOf(f) = Got[t] /\ AnswerOf(f) = Answer[t]
  BY <1>1, SeenOf DEF StageOf, l, o, f
<1>14. WantOf(r) = [method |-> m, units |-> n]
  BY <1>5 DEF WantOf
<1>15. UNCHANGED <<Got, Answer, late>>
  BY <1>1, <1>12, <1>13, SameSeen
<1>16. \E b \in BOOLEAN : Asked' = [Asked EXCEPT ![t] = b]
  <2> WITNESS (l # "idle" /\ Meant(r)) \in BOOLEAN
  <2> QED
    BY <1>12
<1> QED
  BY <1>11, <1>12, <1>13, <1>14, <1>15, <1>16 DEF Promise!Begin

(***************************************************************************)
(* The clients and the clock                                               *)
(***************************************************************************)

LEMMA DisconnectShown ==
  ASSUME PromiseInv, NEW t \in Thread, Disconnect(t)
  PROVE  PromiseInv' /\ Promise!Leave(t)
<1> DEFINE l == pc[t]  r == req[t]  o == FALSE  d == late[t]  f == sent[t]
<1>1. /\ Types /\ ThreadInv(t) /\ l \notin {"idle", "clear"} /\ open[t]
      /\ open' = [open EXCEPT ![t] = o]
      /\ UNCHANGED <<cancelled, pc, req, late, sent, uses, aux_meant>>
  BY DEF PromiseInv, Disconnect
<1>2. Becomes(t, l, r, o, d, f) /\ LeavesOthers(t)
  BY <1>1 DEF Becomes, Types, LeavesOthers
<1>3. Values(l, r, o, d, f)
  BY <1>1 DEF Values, Types
<1>4. Sound(l, r, o, d, f, Meant(r))
  BY <1>1 DEF ThreadInv, Sound, IdleIsNew, EndsTruly
<1>5. /\ r.id \in Id /\ r.use = uses'[r.id] /\ r.use > 0
      /\ r.id \in cancelled' => Meant(r)
  BY <1>1 DEF ThreadInv, Latest
<1>6. /\ Stage[t] = "waiting" /\ StageOf(l, o) = "gone" /\ WantOf(r) = Want[t]
      /\ GotOf(f) = Got[t] /\ AnswerOf(f) = Answer[t] /\ (l # "idle" /\ Meant(r)) = Asked[t]
  BY <1>1, SeenOf DEF StageOf
<1> HIDE DEF l, r, o, d, f
<1>7. PromiseInv'
  BY <1>2, <1>3, <1>4, <1>5, StepOfOne
<1>8. /\ Stage' = [Stage EXCEPT ![t] = StageOf(l, o)] /\ Want' = [Want EXCEPT ![t] = WantOf(r)]
      /\ Got' = [Got EXCEPT ![t] = GotOf(f)] /\ Answer' = [Answer EXCEPT ![t] = AnswerOf(f)]
      /\ Asked' = [Asked EXCEPT ![t] = (l # "idle" /\ Meant(r))]
  BY <1>2, SeenStep DEF LeavesOthers
<1>9. UNCHANGED <<Want, Got, Answer, Asked, late>>
  BY <1>1, <1>6, <1>8, SameSeen
<1> QED
  BY <1>6, <1>7, <1>8, <1>9 DEF Promise!Leave

LEMMA TimeIsUpShown ==
  ASSUME PromiseInv, NEW t \in Thread, TimeIsUp(t)
  PROVE  PromiseInv' /\ Promise!TimeIsUp(t)
<1> DEFINE l == pc[t]  r == req[t]  o == open[t]  d == TRUE  f == sent[t]
<1>1. /\ Types /\ ThreadInv(t) /\ l # "idle"
      /\ late' = [late EXCEPT ![t] = d]
      /\ UNCHANGED <<cancelled, pc, req, open, sent, uses, aux_meant>>
  BY DEF PromiseInv, TimeIsUp
<1>2. Becomes(t, l, r, o, d, f) /\ LeavesOthers(t)
  BY <1>1 DEF Becomes, Types, LeavesOthers
<1>3. Values(l, r, o, d, f)
  BY <1>1 DEF Values, Types
<1>4. Sound(l, r, o, d, f, Meant(r))
  BY <1>1 DEF ThreadInv, Sound, IdleIsNew, EndsTruly
<1>5. /\ r.id \in Id /\ r.use = uses'[r.id] /\ r.use > 0
      /\ r.id \in cancelled' => Meant(r)
  BY <1>1 DEF ThreadInv, Latest
<1>6. Stage[t] # "none"
  BY <1>1, SeenOf DEF StageOf
<1>7. UNCHANGED <<Stage, Want, Got, Answer, Asked>>
  BY <1>1 DEF Stage, Want, Got, Answer, Asked, Answered, At
<1>8. late' = [late EXCEPT ![t] = TRUE]
  BY <1>1
<1> HIDE DEF l, r, o, d, f
<1>9. PromiseInv'
  BY <1>2, <1>3, <1>4, <1>5, StepOfOne
<1> QED
  BY <1>6, <1>7, <1>8, <1>9 DEF Promise!TimeIsUp

\* A step that only concerns the client, and changes nothing that it sees
LEMMA StallShown ==
  ASSUME PromiseInv, NEW t \in Thread, Stall(t)
  PROVE  PromiseInv' /\ Seen
<1>1. UNCHANGED <<cancelled, pc, req, open, late, sent, uses, aux_meant>>
  BY DEF Stall
<1>2. Seen
  BY <1>1 DEF Seen, Stage, Want, Got, Answer, Asked, Answered, At
<1>3. PromiseInv'
  BY <1>1 DEF PromiseInv, Types, ThreadInv, Latest, Meant
<1> QED
  BY <1>2, <1>3

\* The one request that is running with the id, if there is one, is asked to stop.
LEMMA CancelShown ==
  ASSUME FreshInv, PromiseInv, Cancel
  PROVE  PromiseInv' /\ ((\E t \in Thread : Promise!Ask(t)) \/ Seen)
<1>1. PICK id \in Id :
        /\ cancelled' = cancelled \cup {id}
        /\ aux_meant' = aux_meant \cup {<<id, IF uses[id] = 0 THEN 1 ELSE uses[id]>>}
        /\ UNCHANGED <<pc, req, open, late, sent, uses>>
  BY DEF Cancel
<1>2. aux_meant' = aux_meant \cup {<<id, 1>>}
  <2>1. uses[id] \in {0, 1}
    BY DEF FreshInv
  <2> QED
    BY <1>1, <2>1
<1>3. \A u \in Thread : pc[u] # "idle" => req[u].use = 1
  BY DEF FreshInv, PromiseInv, ThreadInv, Latest
<1>4. /\ \A u \in Thread : Meant(req[u]) => Meant(req[u])'
      /\ \A u \in Thread : pc[u] # "idle" =>
           (Meant(req[u])' <=> Meant(req[u]) \/ req[u].id = id)
  BY <1>1, <1>2, <1>3 DEF Meant
<1>5. PromiseInv'
  <2>1. Types'
    BY <1>1 DEF PromiseInv, Types
  <2>2. ASSUME NEW u \in Thread PROVE ThreadInv(u)'
    <3>1. ThreadInv(u)
      BY DEF PromiseInv
    <3>2. Sound(pc[u], req[u], open[u], late[u], sent[u], Meant(req[u]))'
      BY <1>1, <1>4, <3>1 DEF ThreadInv, Sound, IdleIsNew, OnlyChunks, ChunksAdd, EndsTruly
    <3>3. Latest(u)'
      BY <1>1, <1>4, <3>1 DEF ThreadInv, Latest
    <3> QED
      BY <3>2, <3>3 DEF ThreadInv
  <2> QED
    BY <2>1, <2>2 DEF PromiseInv
<1>6. UNCHANGED <<Stage, Want, Got, Answer, late>>
  BY <1>1 DEF Stage, Want, Got, Answer, Answered, At
<1>7. CASE \E t \in Thread : pc[t] # "idle" /\ req[t].id = id
  <2>1. PICK t \in Thread : pc[t] # "idle" /\ req[t].id = id
    BY <1>7
  <2>2. \A u \in Thread : pc[u] # "idle" /\ req[u].id = id => u = t
    BY <2>1 DEF FreshInv, OneAtATime, At
  <2>3. Asked' = [Asked EXCEPT ![t] = TRUE]
    <3>1. \A u \in Thread : Asked'[u] = IF u = t THEN TRUE ELSE Asked[u]
      BY <1>1, <1>4, <2>1, <2>2 DEF Asked, At, Meant
    <3> QED
      BY <3>1 DEF Asked
  <2>4. Stage[t] # "none"
    BY <2>1, SeenOf DEF StageOf
  <2>5. Promise!Ask(t)
    BY <1>6, <2>3, <2>4 DEF Promise!Ask
  <2> QED
    BY <1>5, <2>5
<1>8. CASE ~ \E t \in Thread : pc[t] # "idle" /\ req[t].id = id
  <2>1. \A u \in Thread : Asked'[u] = Asked[u]
    BY <1>1, <1>4, <1>8 DEF Asked, At, Meant
  <2>2. Asked' = Asked
    BY <2>1 DEF Asked
  <2> QED
    BY <1>5, <1>6, <2>2 DEF Seen
<1> QED
  BY <1>7, <1>8

\* Updating a field other than the id and the use
LEMMA SameIds ==
  ASSUME PromiseInv, NEW t \in Thread,
         \/ UNCHANGED req
         \/ \E v : req' = [req EXCEPT ![t].result = v]
         \/ \E v : req' = [req EXCEPT ![t].left = v]
  PROVE  \A u \in Thread : req'[u].id = req[u].id /\ req'[u].use = req[u].use
<1>1. req \in [Thread -> RequestType] /\ RequestOK(req[t])
  BY DEF PromiseInv, Types, RequestType, RequestOK
<1>2. ASSUME NEW v, req' = [req EXCEPT ![t].result = v]
      PROVE  \A u \in Thread : req'[u].id = req[u].id /\ req'[u].use = req[u].use
  <2> DEFINE new == [req[t] EXCEPT !.result = v]
  <2>1. req'[t] = new /\ \A u \in Thread \ {t} : req'[u] = req[u]
    BY <1>1, <1>2
  <2>2. new.id = req[t].id /\ new.use = req[t].use
    BY <1>1, FieldUpdate
  <2> HIDE DEF new
  <2> QED
    BY <2>1, <2>2
<1>3. ASSUME NEW v, req' = [req EXCEPT ![t].left = v]
      PROVE  \A u \in Thread : req'[u].id = req[u].id /\ req'[u].use = req[u].use
  <2> DEFINE new == [req[t] EXCEPT !.left = v]
  <2>1. req'[t] = new /\ \A u \in Thread \ {t} : req'[u] = req[u]
    BY <1>1, <1>3
  <2>2. new.id = req[t].id /\ new.use = req[t].use
    BY <1>1, FieldUpdate
  <2> HIDE DEF new
  <2> QED
    BY <2>1, <2>2
<1> QED
  BY <1>2, <1>3

\* No id is used twice, and a recorded cancel is meant for the one request that has its id.
LEMMA FreshStep ==
  ASSUME Discipline, FreshInv, PromiseInv, [Next]_vars
  PROVE  FreshInv'
<1>1. ASSUME NEW t \in Thread, Arrive(t)
      PROVE  FreshInv'
  <2>1. PICK id \in Id :
          /\ uses[id] = 0 /\ uses' = [uses EXCEPT ![id] = @ + 1]
          /\ \E m \in Method, n \in 0..MaxUnits :
               req' = [req EXCEPT ![t] = [id |-> id, use |-> uses[id] + 1, method |-> m,
                                          left |-> n, units |-> n, result |-> "ok"]]
          /\ UNCHANGED <<cancelled, aux_meant>>
          /\ \E l : pc' = [pc EXCEPT ![t] = l]
    BY <1>1 DEF Arrive, Goto, Discipline
  <2>2. /\ req'[t].id = id /\ \A i \in Id : uses'[i] = IF i = id THEN 1 ELSE uses[i]
        /\ \A u \in Thread \ {t} : req'[u] = req[u] /\ pc'[u] = pc[u]
    BY <2>1 DEF PromiseInv, Types
  <2>3. \A u \in Thread \ {t} : pc[u] # "idle" => req[u].id # id
    BY <2>1 DEF PromiseInv, ThreadInv, Latest
  <2>4. OneAtATime'
    BY <2>2, <2>3 DEF FreshInv, OneAtATime, At
  <2> QED
    BY <2>1, <2>2, <2>4 DEF FreshInv
<1>2. ASSUME NEW t \in Thread, Clear(t)
      PROVE  FreshInv'
  <2>1. /\ cancelled' \subseteq cancelled /\ UNCHANGED <<uses, aux_meant>>
        /\ req' = [req EXCEPT ![t] = NoRequest] /\ pc' = [pc EXCEPT ![t] = "idle"]
    BY <1>2 DEF Clear, Close, Goto
  <2>2. OneAtATime'
    BY <2>1 DEF FreshInv, OneAtATime, At, PromiseInv, Types
  <2> QED
    BY <2>1, <2>2 DEF FreshInv
<1>3. CASE Cancel
  <2>1. PICK id \in Id :
          /\ cancelled' = cancelled \cup {id}
          /\ aux_meant' = aux_meant \cup {<<id, IF uses[id] = 0 THEN 1 ELSE uses[id]>>}
          /\ UNCHANGED <<pc, req, uses>>
    BY <1>3 DEF Cancel
  <2>2. aux_meant' = aux_meant \cup {<<id, 1>>}
    <3>1. uses[id] \in {0, 1}
      BY DEF FreshInv
    <3> QED
      BY <2>1, <3>1
  <2> QED
    BY <2>1, <2>2 DEF FreshInv, OneAtATime, At
<1>4. ASSUME NEW t \in Thread,
             \/ CheckCancel(t) \/ CheckTime(t) \/ RecheckTime(t) \/ Emit(t) \/ Final(t)
      PROVE  FreshInv'
  <2>1. MovesOn(t) /\ UNCHANGED <<cancelled, uses, aux_meant>>
    BY <1>4, StepsMoveOn DEF CheckCancel, CheckTime, RecheckTime, Emit, Final, Quiet
  <2>2. \A u \in Thread : req'[u].id = req[u].id
    BY <2>1, SameIds DEF MovesOn
  <2>3. \A u \in Thread : pc'[u] = "idle" <=> pc[u] = "idle"
    BY <2>1 DEF MovesOn, Goto, At, PromiseInv, Types
  <2> QED
    BY <2>1, <2>2, <2>3 DEF FreshInv, OneAtATime, At
<1>5. ASSUME UNCHANGED <<cancelled, uses, aux_meant, pc, req>>
      PROVE  FreshInv'
  BY <1>5 DEF FreshInv, OneAtATime, At
<1>6. ASSUME NEW t \in Thread, TimeIsUp(t) \/ Disconnect(t) \/ Stall(t)
      PROVE  FreshInv'
  BY <1>5, <1>6 DEF TimeIsUp, Disconnect, Stall
<1>7. CASE Next
  BY <1>1, <1>2, <1>3, <1>4, <1>6, <1>7 DEF Next, Step
<1>8. CASE UNCHANGED vars
  BY <1>5, <1>8 DEF vars
<1> QED
  BY <1>7, <1>8

(***************************************************************************)
(* The promise                                                             *)
(***************************************************************************)

LEMMA PromiseStep ==
  ASSUME Discipline, FreshInv, PromiseInv, [Next]_vars
  PROVE  PromiseInv' /\ ("preview" \notin Method => [Promise!Next]_(Promise!vars))
<1>1. ASSUME Seen
      PROVE  UNCHANGED Promise!vars
  BY <1>1 DEF Seen, Promise!vars
<1>2. ASSUME NEW t \in Thread, Arrive(t)
      PROVE  PromiseInv' /\ Promise!Next
  BY <1>2, ArriveShown DEF Promise!Next
<1>3. ASSUME NEW t \in Thread, Disconnect(t) \/ TimeIsUp(t)
      PROVE  PromiseInv' /\ Promise!Next
  BY <1>3, DisconnectShown, TimeIsUpShown DEF Promise!Next
<1>4. ASSUME NEW t \in Thread, CheckCancel(t) \/ CheckTime(t) \/ RecheckTime(t)
      PROVE  PromiseInv' /\ Seen
  BY <1>4, CheckCancelSilent, CheckTimeSilent
<1>5. ASSUME NEW t \in Thread, Emit(t) \/ Final(t) \/ Clear(t)
      PROVE  PromiseInv' /\ ("preview" \notin Method => Promise!Next \/ Seen)
  BY <1>5, EmitShown, FinalShown, ClearShown DEF Promise!Next
<1>6. CASE Cancel
  BY <1>1, <1>6, CancelShown DEF Promise!Next
<1>9. ASSUME NEW t \in Thread, Stall(t)
      PROVE  PromiseInv' /\ Seen
  BY <1>9, StallShown
<1>7. CASE UNCHANGED vars
  <2>1. Seen
    BY <1>7 DEF vars, Seen, Stage, Want, Got, Answer, Asked, Answered, At
  <2>2. PromiseInv'
    BY <1>7 DEF vars, PromiseInv, Types, ThreadInv, Latest, Meant
  <2> QED
    BY <1>1, <2>1, <2>2
<1>8. CASE Next
  BY <1>1, <1>2, <1>3, <1>4, <1>5, <1>6, <1>8, <1>9 DEF Next, Step
<1> QED
  BY <1>7, <1>8

LEMMA FreshInit ==
  ASSUME Init
  PROVE  FreshInv
BY DEF Init, FreshInv, OneAtATime, At

LEMMA PromiseInit ==
  ASSUME Init
  PROVE  PromiseInv /\ Promise!Init
<1>1. Types
  <2>1. NoRequest \in RequestType
    BY DEF NoRequest, RequestType
  <2>2. <<>> \in Seq(Frames)
    OBVIOUS
  <2> QED
    BY <2>1, <2>2 DEF Init, Types, Labels
<1>2. ASSUME NEW t \in Thread
      PROVE  ThreadInv(t)
  <2>1. /\ pc[t] = "idle" /\ req[t] = NoRequest /\ ~open[t] /\ ~late[t] /\ sent[t] = <<>>
        /\ NoRequest.result = "ok"
    BY DEF Init, NoRequest
  <2>2. \A i \in 1..Len(sent[t]) : sent[t][i] = "chunk"
    BY <2>1
  <2> QED
    BY <2>1, <2>2 DEF ThreadInv, Sound, IdleIsNew, OnlyChunks, ChunksAdd, EndsTruly, Latest, Working
<1>3. Promise!Init
  <2>1. \A t \in Thread : pc[t] = "idle" /\ req[t] = NoRequest /\ sent[t] = <<>>
    BY DEF Init
  <2>2. \A t \in Thread : ~Answered(t) /\ Len(sent[t]) = 0
    BY <2>1 DEF Answered
  <2>3. \A t \in Thread : Want[t] = Promise!Nothing
    <3>1. NoRequest.method = "plain" /\ NoRequest.units = 0
      BY DEF NoRequest
    <3> QED
      BY <2>1, <3>1 DEF Want, Promise!Nothing
  <2> QED
    BY <2>1, <2>2, <2>3 DEF Init, Promise!Init, Stage, Want, Got, Answer, Asked, At
<1> QED
  BY <1>1, <1>2, <1>3 DEF PromiseInv

\* When no id is used twice, the daemon keeps its promise to every client, however many
\* there are and whenever cancels come, before, while or after their requests: chunks, then
\* one final frame that says truly how the request ended (handle_request_stream, the loops
\* behind it, and AppContext).  A cancelled patch preview breaks it: classify_patch_error
\* has another code for it.
THEOREM PromiseIsKept ==
  ASSUME Discipline, "preview" \notin Method
  PROVE  Spec => KeepsPromise
<1>1. Init => FreshInv /\ PromiseInv /\ Promise!Init
  BY PromiseInit, FreshInit
<1>2. FreshInv /\ PromiseInv /\ [Next]_vars =>
        FreshInv' /\ PromiseInv' /\ [Promise!Next]_(Promise!vars)
  BY PromiseStep, FreshStep
<1> QED
  BY <1>1, <1>2, PTL DEF Spec, KeepsPromise, Promise!Spec

(***************************************************************************)
(* The proof that a request of RequestStream stops soon after its cancel,  *)
(* or the end of its time, under the same discipline.  Of a connection,    *)
(* l says where its request stands, d whether its time is up,              *)
(* n how many chunks it sent too late, m whether it is meant to be         *)
(* cancelled, c whether its id is in the set.                              *)
(***************************************************************************)

\* A chunk that was sent too late was the last one before a check that stops the request.
Prompt(l, d, n, m, c) ==
  /\ n \in {0, 1}
  /\ n = 1 => /\ l \in {"cancel_check", "time_check", "final", "clear"}
              /\ m \/ d
              /\ l = "time_check" => d
  /\ l # "idle" /\ m => c

PromptOf(t) == Prompt(pc[t], late[t], aux_over[t], Meant(req[t]), req[t].id \in cancelled)

\* The cancel of a request that has not come yet is remembered.
Remembered == \A i \in Id : uses[i] = 0 /\ <<i, 1>> \in aux_meant => i \in cancelled

PromptInv == aux_over \in [Thread -> Nat] /\ Remembered /\ \A t \in Thread : PromptOf(t)

\* A step of one thread that leaves the set, and what is meant, alone
LEMMA PromptOne ==
  ASSUME PromiseInv, PromptInv, NEW t \in Thread, NEW l, NEW d, NEW n,
         pc' = [pc EXCEPT ![t] = l], late' = [late EXCEPT ![t] = d],
         aux_over' = [aux_over EXCEPT ![t] = n], UNCHANGED <<cancelled, uses, aux_meant>>,
         \A u \in Thread : req'[u].id = req[u].id /\ req'[u].use = req[u].use,
         Prompt(l, d, n, Meant(req[t]), req[t].id \in cancelled)
  PROVE  PromptInv'
<1>1. /\ pc'[t] = l /\ late'[t] = d /\ aux_over'[t] = n
      /\ \A u \in Thread \ {t} : pc'[u] = pc[u] /\ late'[u] = late[u] /\ aux_over'[u] = aux_over[u]
  BY DEF PromiseInv, Types, PromptInv
<1>2. ASSUME NEW u \in Thread PROVE PromptOf(u)'
  <2>1. Meant(req[u])' = Meant(req[u]) /\ (req[u].id \in cancelled)' = (req[u].id \in cancelled)
    BY DEF Meant
  <2>2. PromptOf(u)
    BY DEF PromptInv
  <2> QED
    BY <1>1, <2>1, <2>2 DEF PromptOf, Prompt
<1>3. n \in Nat /\ aux_over' \in [Thread -> Nat]
  BY DEF Prompt, PromptInv
<1> QED
  BY <1>2, <1>3 DEF PromptInv, Remembered

LEMMA PromptStep ==
  ASSUME PromiseInv, PromptInv, NEW t \in Thread,
         \/ CheckCancel(t) \/ CheckTime(t) \/ RecheckTime(t) \/ Emit(t) \/ Final(t)
         \/ TimeIsUp(t) \/ Disconnect(t) \/ Stall(t)
  PROVE  PromptInv'
<1> DEFINE n == aux_over[t]
           new == IF Overdue(t) THEN n + 1 ELSE n
<1>1. PromptOf(t) /\ Types /\ aux_over \in [Thread -> Nat] /\ n \in Nat
  BY DEF PromiseInv, PromptInv
<1>2. Overdue(t) = (late[t] \/ Meant(req[t]))
  BY DEF Overdue, Meant
<1>3. \A u \in Thread : req'[u].id = req[u].id /\ req'[u].use = req[u].use
  <2>1. \/ UNCHANGED req
        \/ \E v : req' = [req EXCEPT ![t].result = v]
        \/ \E v : req' = [req EXCEPT ![t].left = v]
    BY StepsMoveOn DEF MovesOn, TimeIsUp, Disconnect, Stall
  <2> QED
    BY <2>1, SameIds
<1>4. UNCHANGED <<cancelled, uses, aux_meant>>
  BY DEF CheckCancel, CheckTime, RecheckTime, Emit, Final, TimeIsUp, Disconnect, Stall, Quiet
<1>5. ASSUME NEW l, NEW d, NEW k, pc' = [pc EXCEPT ![t] = l], late' = [late EXCEPT ![t] = d],
             aux_over' = [aux_over EXCEPT ![t] = k],
             Prompt(l, d, k, Meant(req[t]), req[t].id \in cancelled)
      PROVE  PromptInv'
  BY <1>3, <1>4, <1>5, PromptOne
<1>6. /\ UNCHANGED late => late' = [late EXCEPT ![t] = late[t]]
      /\ UNCHANGED aux_over => aux_over' = [aux_over EXCEPT ![t] = n]
      /\ UNCHANGED pc => pc' = [pc EXCEPT ![t] = pc[t]]
  BY <1>1 DEF Types
<1>7. ASSUME UNCHANGED <<late, aux_over>>, NEW l, Goto(t, l),
             Prompt(l, late[t], n, Meant(req[t]), req[t].id \in cancelled)
      PROVE  PromptInv'
  <2>1. pc' = [pc EXCEPT ![t] = l]
    BY <1>7 DEF Goto
  <2> QED
    BY <1>5, <1>6, <1>7, <2>1
<1>8. CASE CheckCancel(t)
  <2>1. CASE req[t].id \in cancelled
    <3>1. Goto(t, "final") /\ UNCHANGED <<late, aux_over>>
      BY <1>8, <2>1 DEF CheckCancel, EndWith, Quiet
    <3>2. Prompt("final", late[t], n, Meant(req[t]), req[t].id \in cancelled)
      BY <1>1, <1>8, <2>1 DEF PromptOf, Prompt, CheckCancel, At
    <3> QED
      BY <1>7, <3>1, <3>2
  <2>2. CASE req[t].id \notin cancelled
    <3>1. Goto(t, "time_check") /\ UNCHANGED <<late, aux_over>>
      BY <1>8, <2>2 DEF CheckCancel, Quiet
    <3>2. Prompt("time_check", late[t], n, Meant(req[t]), req[t].id \in cancelled)
      BY <1>1, <1>8, <2>2 DEF PromptOf, Prompt, CheckCancel, At
    <3> QED
      BY <1>7, <3>1, <3>2
  <2> QED
    BY <2>1, <2>2
<1>9. CASE CheckTime(t) \/ RecheckTime(t)
  <2>1. /\ pc[t] \in {"time_check", "time_recheck"} /\ UNCHANGED <<late, aux_over>>
        /\ \/ late[t] /\ Goto(t, "final")
           \/ ~late[t] /\ \E l \in Working \cup {"final"} : Goto(t, l)
    BY <1>9 DEF CheckTime, RecheckTime, EndWith, Advance, Quiet, Working, At
  <2>2. CASE late[t] /\ Goto(t, "final")
    <3>1. Prompt("final", late[t], n, Meant(req[t]), req[t].id \in cancelled)
      BY <1>1, <2>1 DEF PromptOf, Prompt
    <3> QED
      BY <1>7, <2>1, <2>2, <3>1
  <2>3. ASSUME ~late[t], NEW l \in Working \cup {"final"}, Goto(t, l)
        PROVE  PromptInv'
    <3>1. Prompt(l, late[t], n, Meant(req[t]), req[t].id \in cancelled)
      BY <1>1, <2>1, <2>3 DEF PromptOf, Prompt, Working
    <3> QED
      BY <1>7, <2>1, <2>3, <3>1
  <2> QED
    BY <2>1, <2>2, <2>3
<1>10. CASE Emit(t)
  <2>1. pc[t] = "emit" /\ n = 0 /\ UNCHANGED late
    BY <1>1, <1>10 DEF PromptOf, Prompt, Emit, At
  <2>2. PICK l \in {"final", "cancel_check"} : pc' = [pc EXCEPT ![t] = l]
    BY <1>10 DEF Emit, EndWith, Advance, Goto
  <2>3. PICK k \in {0, 1} : aux_over' = [aux_over EXCEPT ![t] = k] /\ (k = 1 => Overdue(t))
    <3>1. CASE open[t]
      <4>1. aux_over' = [aux_over EXCEPT ![t] = new]
        BY <1>10, <3>1 DEF Emit
      <4>2. new \in {0, 1} /\ (new = 1 => Overdue(t))
        BY <2>1
      <4> QED
        BY <4>1, <4>2
    <3>2. CASE ~open[t]
      BY <1>6, <1>10, <2>1, <3>2 DEF Emit
    <3> QED
      BY <3>1, <3>2
  <2>4. Prompt(l, late[t], k, Meant(req[t]), req[t].id \in cancelled)
    BY <1>1, <1>2, <2>1, <2>3 DEF PromptOf, Prompt
  <2> QED
    BY <1>5, <1>6, <2>1, <2>2, <2>3, <2>4
<1>11. CASE Final(t)
  <2>1. pc[t] = "final" /\ Goto(t, "clear") /\ UNCHANGED <<late, aux_over>>
    BY <1>11 DEF Final, At
  <2>2. Prompt("clear", late[t], n, Meant(req[t]), req[t].id \in cancelled)
    BY <1>1, <2>1 DEF PromptOf, Prompt
  <2> QED
    BY <1>7, <2>1, <2>2
<1>12. CASE TimeIsUp(t)
  <2>1. UNCHANGED <<pc, aux_over>> /\ late' = [late EXCEPT ![t] = TRUE]
    BY <1>12 DEF TimeIsUp
  <2>2. Prompt(pc[t], TRUE, n, Meant(req[t]), req[t].id \in cancelled)
    BY <1>1 DEF PromptOf, Prompt
  <2> QED
    BY <1>5, <1>6, <2>1, <2>2
<1>13. CASE Disconnect(t) \/ Stall(t)
  <2>1. UNCHANGED <<pc, aux_over, late>>
    BY <1>13 DEF Disconnect, Stall
  <2> QED
    BY <1>1, <1>5, <1>6, <2>1 DEF PromptOf
<1> QED
  BY <1>8, <1>9, <1>10, <1>11, <1>12, <1>13

LEMMA PromptNext ==
  ASSUME Discipline, FreshInv, PromiseInv, PromptInv, [Next]_vars
  PROVE  PromptInv'
<1>1. Types /\ aux_over \in [Thread -> Nat] /\ \A u \in Thread : PromptOf(u)
  BY DEF PromiseInv, PromptInv
<1>2. ASSUME NEW t \in Thread, Arrive(t)
      PROVE  PromptInv'
  <2>1. PICK id \in Id :
          /\ pc[t] = "idle" /\ uses[id] = 0 /\ uses' = [uses EXCEPT ![id] = @ + 1]
          /\ \E m \in Method, n \in 0..MaxUnits :
               req' = [req EXCEPT ![t] = [id |-> id, use |-> uses[id] + 1, method |-> m,
                                          left |-> n, units |-> n, result |-> "ok"]]
          /\ UNCHANGED <<cancelled, late, aux_meant, aux_over>>
          /\ \E l : pc' = [pc EXCEPT ![t] = l]
    BY <1>2 DEF Arrive, Goto, At, Discipline
  <2>2. /\ req'[t].id = id /\ req'[t].use = 1
        /\ \A u \in Thread \ {t} : req'[u] = req[u] /\ pc'[u] = pc[u]
        /\ \A i \in Id : uses'[i] = 0 => uses[i] = 0
    BY <1>1, <2>1 DEF Types
  <2>3. Remembered'
    BY <2>1, <2>2 DEF PromptInv, Remembered
  <2>4. Meant(req[t])' => id \in cancelled
    BY <2>1, <2>2 DEF Meant, PromptInv, Remembered
  <2>5. ASSUME NEW u \in Thread PROVE PromptOf(u)'
    <3>1. CASE u = t
      <4>1. aux_over'[t] = 0
        BY <1>1, <2>1 DEF PromptOf, Prompt
      <4> QED
        BY <2>1, <2>2, <2>4, <3>1, <4>1 DEF PromptOf, Prompt
    <3>2. CASE u # t
      <4>1. Meant(req[u])' = Meant(req[u])
        BY <2>1, <2>2, <3>2 DEF Meant
      <4> QED
        BY <1>1, <2>1, <2>2, <3>2, <4>1 DEF PromptOf, Prompt
    <3> QED
      BY <3>1, <3>2
  <2> QED
    BY <1>1, <2>1, <2>3, <2>5 DEF PromptInv
<1>3. ASSUME NEW t \in Thread, Clear(t)
      PROVE  PromptInv'
  <2>1. /\ pc[t] = "clear" /\ pc' = [pc EXCEPT ![t] = "idle"] /\ req' = [req EXCEPT ![t] = NoRequest]
        /\ late' = [late EXCEPT ![t] = FALSE] /\ aux_over' = [aux_over EXCEPT ![t] = 0]
        /\ cancelled' = cancelled \ {req[t].id} /\ UNCHANGED <<uses, aux_meant>>
    BY <1>3 DEF Clear, Close, Goto, At
  <2>2. ASSUME NEW u \in Thread PROVE PromptOf(u)'
    <3>1. CASE u = t
      <4>1. pc'[u] = "idle" /\ aux_over'[u] = 0
        BY <1>1, <2>1, <3>1 DEF Types
      <4> QED
        BY <4>1 DEF PromptOf, Prompt
    <3>2. CASE u # t
      <4>1. pc'[u] = pc[u] /\ req'[u] = req[u] /\ late'[u] = late[u] /\ aux_over'[u] = aux_over[u]
        BY <1>1, <2>1, <3>2 DEF Types
      <4>2. pc[u] # "idle" => req[u].id # req[t].id
        BY <2>1, <3>2 DEF FreshInv, OneAtATime, At
      <4>3. Meant(req[u])' = Meant(req[u])
        BY <2>1, <4>1 DEF Meant
      <4> QED
        BY <1>1, <2>1, <4>1, <4>2, <4>3 DEF PromptOf, Prompt
    <3> QED
      BY <3>1, <3>2
  <2>3. Remembered'
    <3>1. req[t].id \in Id => uses[req[t].id] # 0
      BY <2>1 DEF PromiseInv, ThreadInv, Latest
    <3> QED
      BY <2>1, <3>1 DEF PromptInv, Remembered
  <2> QED
    BY <1>1, <2>1, <2>2, <2>3 DEF PromptInv
<1>4. CASE Cancel
  <2>1. PICK id \in Id :
          /\ cancelled' = cancelled \cup {id}
          /\ aux_meant' = aux_meant \cup {<<id, IF uses[id] = 0 THEN 1 ELSE uses[id]>>}
          /\ UNCHANGED <<pc, req, late, uses, aux_over>>
    BY <1>4 DEF Cancel
  <2>3. Remembered'
    BY <2>1 DEF PromptInv, Remembered
  <2>4. ASSUME NEW u \in Thread PROVE PromptOf(u)'
    <3>1. Meant(req[u]) => Meant(req[u])'
      BY <2>1 DEF Meant
    <3>2. Meant(req[u])' => Meant(req[u]) \/ req[u].id = id
      BY <2>1 DEF Meant
    <3> QED
      BY <1>1, <2>1, <3>1, <3>2 DEF PromptOf, Prompt
  <2> QED
    BY <1>1, <2>1, <2>3, <2>4 DEF PromptInv
<1>5. CASE UNCHANGED vars
  BY <1>5 DEF vars, PromptInv, Remembered, PromptOf, Meant
<1>6. CASE Next
  BY <1>2, <1>3, <1>4, <1>6, PromptStep DEF Next, Step
<1> QED
  BY <1>5, <1>6

\* When no id is used twice, a request whose cancel was recorded, or whose time is up,
\* sends at most the chunk it is at, however long it is and whatever the others do
\* (options.cancel_requested and the deadline are looked at before every chunk).
THEOREM CancelIsHeard ==
  ASSUME Discipline
  PROVE  Spec => []CancelIsPrompt
<1>1. Init => FreshInv /\ PromiseInv /\ PromptInv
  <2>1. Init => PromptInv
    BY DEF Init, PromptInv, Remembered, PromptOf, Prompt
  <2> QED
    BY <2>1, PromiseInit, FreshInit
<1>2. FreshInv /\ PromiseInv /\ PromptInv /\ [Next]_vars => FreshInv' /\ PromiseInv' /\ PromptInv'
  BY PromiseStep, FreshStep, PromptNext
<1>3. PromptInv => CancelIsPrompt
  BY DEF PromptInv, PromptOf, Prompt, CancelIsPrompt
<1> QED
  BY <1>1, <1>2, <1>3, PTL DEF Spec
=============================================================================

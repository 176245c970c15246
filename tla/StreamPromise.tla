------------------------------- MODULE StreamPromise -------------------------------
(***************************************************************************)
(* What the daemon promises the client of a request, whatever its method,  *)
(* its chunks, the cancels and the clock (docs/04-v1-protocol.md): chunks, *)
(* then one final frame that says truly how the request ended.             *)
(* RequestStream implements it.                                            *)
(***************************************************************************)
EXTENDS Integers

CONSTANTS Thread, Method, MaxUnits

VARIABLES
  stage,      \* Thread -> "none", "waiting", "answered", or "gone" when the client left
  want,       \* Thread -> the request: its method and the chunks it has
  got,        \* Thread -> how many chunks the client was sent
  answer,     \* Thread -> the code of the final frame, "" before it
  asked,      \* Thread -> whether someone asked to cancel this very request
  late        \* Thread -> whether its time is up

vars == <<stage, want, got, answer, asked, late>>

Nothing == [method |-> "plain", units |-> 0]

Init ==
  /\ stage = [t \in Thread |-> "none"]
  /\ want = [t \in Thread |-> Nothing]
  /\ got = [t \in Thread |-> 0]
  /\ answer = [t \in Thread |-> ""]
  /\ asked = [t \in Thread |-> FALSE]
  /\ late = [t \in Thread |-> FALSE]

\* A cancel may have come before its request.
Begin(t) ==
  /\ stage[t] = "none"
  /\ stage' = [stage EXCEPT ![t] = "waiting"]
  /\ \E m \in Method, n \in 0..MaxUnits : want' = [want EXCEPT ![t] = [method |-> m, units |-> n]]
  /\ \E b \in BOOLEAN : asked' = [asked EXCEPT ![t] = b]
  /\ UNCHANGED <<got, answer, late>>

Chunk(t) ==
  /\ stage[t] = "waiting" /\ got[t] < want[t].units
  /\ got' = [got EXCEPT ![t] = @ + 1]
  /\ UNCHANGED <<stage, want, answer, asked, late>>

\* A file or a diff is whole or its final frame says why not; a search may have less.
MayEnd(t, code) ==
  LET m == want[t].method
  IN  \/ code = "ok" /\ (m \in {"read", "preview"} => got[t] = want[t].units)
      \/ asked[t] /\ code = "REQUEST_CANCELLED"
      \/ /\ late[t]
         /\ code = IF m = "search" THEN "SEARCH_TIMEOUT" ELSE "REQUEST_TIMEOUT"

Codes == {"ok", "REQUEST_CANCELLED", "SEARCH_TIMEOUT", "REQUEST_TIMEOUT"}

Answer(t) ==
  /\ stage[t] = "waiting"
  /\ stage' = [stage EXCEPT ![t] = "answered"]
  /\ \E code \in Codes : MayEnd(t, code) /\ answer' = [answer EXCEPT ![t] = code]
  /\ UNCHANGED <<want, got, asked, late>>

Ask(t) ==
  /\ stage[t] # "none"
  /\ asked' = [asked EXCEPT ![t] = TRUE]
  /\ UNCHANGED <<stage, want, got, answer, late>>

TimeIsUp(t) ==
  /\ stage[t] # "none"
  /\ late' = [late EXCEPT ![t] = TRUE]
  /\ UNCHANGED <<stage, want, got, answer, asked>>

Leave(t) ==
  /\ stage[t] \in {"waiting", "answered"}
  /\ stage' = [stage EXCEPT ![t] = "gone"]
  /\ UNCHANGED <<want, got, answer, asked, late>>

\* Only a request whose client is gone may end without an answer.
End(t) ==
  /\ stage[t] \in {"answered", "gone"}
  /\ stage' = [stage EXCEPT ![t] = "none"]
  /\ want' = [want EXCEPT ![t] = Nothing]
  /\ got' = [got EXCEPT ![t] = 0]
  /\ answer' = [answer EXCEPT ![t] = ""]
  /\ asked' = [asked EXCEPT ![t] = FALSE]
  /\ late' = [late EXCEPT ![t] = FALSE]

Next == \E t \in Thread : \/ Begin(t) \/ Chunk(t) \/ Answer(t)
                          \/ Ask(t) \/ TimeIsUp(t) \/ Leave(t) \/ End(t)

Spec == Init /\ [][Next]_vars
=============================================================================

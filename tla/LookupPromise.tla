--------------------------- MODULE LookupPromise ---------------------------
(***************************************************************************)
(* What async_resolve promises its callers, the relay sessions: a lookup   *)
(* that was accepted is answered, and then its handler is called, exactly  *)
(* once, from the io_context and never from inside async_resolve.  The     *)
(* call may throw instead, and stop() drops the lookups that have no       *)
(* answer yet; nothing else ends a lookup without its handler.             *)
(***************************************************************************)
EXTENDS Naturals

CONSTANT Lookups

VARIABLES
  outcome,  \* what became of each lookup
  stops     \* calls of stop() so far

vars == <<outcome, stops>>

Init == outcome = [l \in Lookups |-> "new"] /\ stops = 0

Becomes(l, from, to) ==
  /\ outcome[l] = from
  /\ outcome' = [outcome EXCEPT ![l] = to]
  /\ UNCHANGED stops

\* async_resolve returns and the lookup waits for its answer, or has it already.
Accept(l) == Becomes(l, "new", "pending") \/ Becomes(l, "new", "answered")

\* async_resolve throws.
Refuse(l) == Becomes(l, "new", "refused")

\* An answer, a time-out or an error: the handler is posted.
Answer(l) == Becomes(l, "pending", "answered")

Call(l) == Becomes(l, "answered", "called")

\* The runtime stops: exactly the lookups without an answer are dropped.
Stop ==
  /\ outcome' = [l \in Lookups |->
                   IF outcome[l] = "pending" THEN "dropped" ELSE outcome[l]]
  /\ stops' = stops + 1

Next ==
  \/ \E l \in Lookups : Accept(l) \/ Refuse(l) \/ Answer(l) \/ Call(l)
  \/ Stop

Spec == Init /\ [][Next]_vars

\* No accepted lookup waits for ever, and no answer is kept from its handler.
FairSpec ==
  Spec /\ \A l \in Lookups : WF_vars(Answer(l)) /\ WF_vars(Call(l))
=============================================================================

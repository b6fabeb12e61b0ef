-------------------------- MODULE ExecutionTicket --------------------------
(***************************************************************************)
(* What the gateway promises of an execution, with no tables, locks,       *)
(* requests or clocks: a ticket is refused, granted at once, or held for a *)
(* decision; only a granted ticket is opened; an opened ticket is handed   *)
(* to one holder at most; a closed one never is.                           *)
(***************************************************************************)
CONSTANTS Tickets, Holders

VARIABLES
  phase,   \* Tickets -> "none", "waiting", "ready", "open", "settled" or "closed"
  handed   \* the pairs <<holder, ticket>> that have happened

Init ==
  /\ phase = [t \in Tickets |-> "none"]
  /\ handed = {}

Move(t, from, to) ==
  /\ phase[t] \in from
  /\ phase' = [phase EXCEPT ![t] = to]
  /\ UNCHANGED handed

Refuse(t)  == Move(t, {"none"}, "closed")
Hold(t)    == Move(t, {"none"}, "waiting")
Approve(t) == Move(t, {"waiting"}, "ready")
Open(t)    == Move(t, {"none", "ready"}, "open")
Settle(t)  == Move(t, {"open"}, "settled")

\* Denial, cancellation or expiry, of several tickets at once.
Close(T) ==
  /\ \A t \in T : phase[t] \in {"waiting", "ready"}
  /\ phase' = [t \in Tickets |-> IF t \in T THEN "closed" ELSE phase[t]]
  /\ UNCHANGED handed

\* An opened ticket may be settled before its holder gets it.
Hand(h, t) ==
  /\ phase[t] \in {"open", "settled"}
  /\ \A p \in handed : p[2] # t
  /\ handed' = handed \cup {<<h, t>>}
  /\ UNCHANGED phase

Next ==
  \/ \E t \in Tickets : Refuse(t) \/ Hold(t) \/ Approve(t) \/ Open(t) \/ Settle(t)
  \/ \E T \in SUBSET Tickets : Close(T)
  \/ \E h \in Holders, t \in Tickets : Hand(h, t)

Spec == Init /\ [][Next]_<<phase, handed>>
=============================================================================

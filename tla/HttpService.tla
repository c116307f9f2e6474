---------------------------- MODULE HttpService ----------------------------
(***************************************************************************)
(* What the accept loop and the sessions promise together, with no pool    *)
(* threads, callbacks or sockets: a fixed set of connection slots, exactly *)
(* one of which listens while the service is up.  A connection is taken,   *)
(* answered once and released, and taking or refusing one makes another    *)
(* slot listen in the same step.                                           *)
(***************************************************************************)
CONSTANT Slots

VARIABLES up,     \* the service accepts connections
          phase   \* what each slot is doing

vars == <<up, phase>>

Phases == {"free", "listening", "connected", "answered"}

TypeOK == up \in BOOLEAN /\ phase \in [Slots -> Phases]

Init ==
  /\ up = FALSE
  /\ phase = [s \in Slots |-> "free"]

Start(n) ==
  /\ ~up
  /\ \A s \in Slots : phase[s] = "free"
  /\ up' = TRUE
  /\ phase' = [phase EXCEPT ![n] = "listening"]

(* Slot s takes a connection and slot n listens instead of it.             *)
Accept(s, n) ==
  /\ up
  /\ phase[s] = "listening"
  /\ phase[n] = "free"
  /\ up' = up
  /\ phase' = [phase EXCEPT ![s] = "connected", ![n] = "listening"]

(* A connection attempt fails and slot n listens instead of s.             *)
Refuse(s, n) ==
  /\ up
  /\ phase[s] = "listening"
  /\ phase[n] = "free"
  /\ up' = up
  /\ phase' = [phase EXCEPT ![s] = "free", ![n] = "listening"]

Answer(s) ==
  /\ up
  /\ phase[s] = "connected"
  /\ up' = up
  /\ phase' = [phase EXCEPT ![s] = "answered"]

Release(s) ==
  /\ up
  /\ phase[s] = "answered"
  /\ up' = up
  /\ phase' = [phase EXCEPT ![s] = "free"]

Stop ==
  /\ up
  /\ up' = FALSE
  /\ phase' = phase

Next ==
  \/ Stop
  \/ \E s \in Slots : Start(s) \/ Answer(s) \/ Release(s)
  \/ \E s, n \in Slots : Accept(s, n) \/ Refuse(s, n)

Spec == Init /\ [][Next]_vars

=============================================================================

----------------------------- MODULE BreakerFSM -----------------------------
(***************************************************************************)
(* The three-state machine breaker.py describes (lines 3-5, 121-123): calls *)
(* are admitted, succeed and fail, each at one instant.  closed counts      *)
(* failures, the Threshold-th one opens; open turns half_open when Recovery *)
(* has passed; half_open gives out one slot at a time; a success closes,    *)
(* from whatever state it finds.                                            *)
(***************************************************************************)
EXTENDS BreakerMachine

CONSTANTS Threads

VARIABLES
  breaker,
  opening,   \* a failure has opened it and is still waiting for its answer
  busy       \* the threads with an admitted call

vars == <<breaker, opening, busy>>

Init == breaker = Fresh /\ opening = FALSE /\ busy = {}

Admit(t) ==
  /\ t \notin busy /\ busy' = busy \cup {t}
  /\ CanAdmit(breaker) /\ breaker' = Admitted(breaker)
  /\ UNCHANGED opening

Succeed(t) ==
  /\ t \in busy /\ busy' = busy \ {t}
  /\ breaker' = Succeeded(breaker)
  /\ UNCHANGED opening

Fail(t) ==
  /\ t \in busy /\ busy' = busy \ {t}
  /\ breaker' = Failed(breaker)
  /\ opening' = (opening \/ Trips(breaker))

\* Recovery is counted from the answer of the failure that opened.
Opened == opening /\ opening' = FALSE /\ UNCHANGED <<breaker, busy>>

Tick ==
  /\ breaker' = IF opening THEN [Later(breaker) EXCEPT !.age = breaker.age] ELSE Later(breaker)
  /\ UNCHANGED <<opening, busy>>

Next == (\E t \in Threads : Admit(t) \/ Succeed(t) \/ Fail(t)) \/ Opened \/ Tick

Spec == Init /\ [][Next]_vars
=============================================================================

--------------------------- MODULE BreakerMachine ---------------------------
(***************************************************************************)
(* One breaker as a value and what allow, record_success and record_failure *)
(* make of it when each takes effect at one instant (breaker.py:167-211).   *)
(* Breaker shows that the threads of one worker see no more than this; the  *)
(* routers are modelled on top of it.                                       *)
(***************************************************************************)
EXTENDS Integers

CONSTANTS Threshold, Recovery, SlotTtl

\* age: time since it opened, -1 if it never did; slot: what is left of the
\* lifetime of the half-open lock, 0 when free.
Fresh == [state |-> "closed", failures |-> 0, age |-> -1, slot |-> 0]

Breakers == [state : {"closed", "open", "half_open"}, failures : 0..Threshold,
             age : -1..Recovery, slot : 0..SlotTtl]

\* Nothing keeps a call out: the breaker is closed, or open without a date, which
\* it is if the failure that opened it got no further.
Unguarded(b) == b.state = "closed" \/ (b.state = "open" /\ b.age = -1)

CanAdmit(b) ==
  \/ Unguarded(b)
  \/ b.state = "open" /\ b.age >= Recovery /\ b.slot = 0
  \/ b.state = "half_open" /\ b.slot = 0

\* Everybody else takes the half-open slot.
Admitted(b) == IF Unguarded(b) THEN b ELSE [b EXCEPT !.state = "half_open", !.slot = SlotTtl]

Succeeded(b) == [Fresh EXCEPT !.age = b.age]

Trips(b) == b.failures + 1 >= Threshold

\* The count beyond Threshold makes no difference.
Failed(b) == IF Trips(b) THEN [b EXCEPT !.state = "open", !.failures = Threshold, !.age = 0]
             ELSE [b EXCEPT !.failures = @ + 1]

\* What allow, record_success and record_failure may have written when Redis
\* cannot be reached any more, one more round trip at a time.
PartlyAdmitted(b) == IF Unguarded(b) \/ ~CanAdmit(b) THEN {b}
                     ELSE {b, [b EXCEPT !.slot = SlotTtl], Admitted(b)}
PartlySucceeded(b) == {b, [b EXCEPT !.failures = 0],
                       [Succeeded(b) EXCEPT !.slot = b.slot], Succeeded(b)}
PartlyFailed(b) == {b, [b EXCEPT !.failures = Failed(b).failures],
                    [Failed(b) EXCEPT !.age = b.age], Failed(b)}

Older(age) == IF age = -1 \/ age >= Recovery THEN age ELSE age + 1

Later(b) == [state |-> b.state, failures |-> b.failures,
             age |-> Older(b.age), slot |-> IF b.slot = 0 THEN 0 ELSE b.slot - 1]
=============================================================================

---------------------------- MODULE BudgetLedger ----------------------------
(***************************************************************************)
(* What the budget promises its callers: each reservation and each          *)
(* settlement takes effect at one instant between its call and its answer,  *)
(* and once more for every reply that is lost.  No transactions, no watched *)
(* keys and no retries.                                                     *)
(*                                                                         *)
(* It keeps what the code really promises and no more: the limit, the       *)
(* window and the time a reservation goes by are read before that instant,  *)
(* a window that is opened admits its first reservation unseen, and a       *)
(* refusal is owed no justification.                                        *)
(***************************************************************************)
EXTENDS Integers

CONSTANTS Clients, Users, Uid, Ests, Overrun, DefaultLimit, DefaultWindow,
          LimitArgs, WindowArgs, Second

VARIABLES acct, limits, windows, clock,
          phase,  \* per client: idle, asking, reserving, calling or settling
          call,   \* user, estimate and actual cost
          terms,  \* limit, window and now a reservation goes by
          lost    \* how many effects nobody was told of

vars == <<acct, limits, windows, clock, phase, call, terms, lost>>

NoTerms == [limit |-> 0, window |-> 0, now |-> 0]
NoCall  == [user |-> CHOOSE u \in Users : TRUE, est |-> 0, actual |-> 0]
Empty   == [reserved |-> 0, spent |-> 0, start |-> 0, expires |-> 0]
Ttl(w)  == (w \div Second) * Second

Init ==
  /\ acct = [u \in Users |-> Empty]
  /\ limits = [u \in Users |-> DefaultLimit] /\ windows = [u \in Users |-> DefaultWindow]
  /\ clock = 0
  /\ phase = [c \in Clients |-> "idle"]
  /\ call = [c \in Clients |-> NoCall] /\ terms = [c \in Clients |-> NoTerms]
  /\ lost = 0

Moves(c, from, to) == phase[c] = from /\ phase' = [phase EXCEPT ![c] = to]
Ends(c) == call' = [call EXCEPT ![c] = NoCall] /\ terms' = [terms EXCEPT ![c] = NoTerms]

Ask(c) ==
  /\ \E u \in Users, e \in Ests :
       /\ call' = [call EXCEPT ![c] = [user |-> u, est |-> e, actual |-> 0]]
       /\ Moves(c, "idle", IF e = 0 THEN "calling" ELSE "asking")
  /\ UNCHANGED <<acct, limits, windows, clock, terms>>

ReadLimit(c) ==
  /\ phase[c] = "asking"
  /\ terms' = [terms EXCEPT ![c].limit = limits[call[c].user]]
  /\ UNCHANGED <<acct, limits, windows, clock, phase, call>>

ReadWindow(c) ==
  /\ Moves(c, "asking", "reserving")
  /\ terms' = [terms EXCEPT ![c].window = windows[call[c].user], ![c].now = clock]
  /\ UNCHANGED <<acct, limits, windows, clock, call>>

\* The account after a reservation of c took effect, by the window it finds.
Opened(c, a) == [a EXCEPT !.reserved = call[c].est, !.start = terms[c].now,
                          !.expires = clock + Ttl(terms[c].window)]
Rolled(c)    == [reserved |-> call[c].est, spent |-> 0, start |-> terms[c].now,
                 expires |-> clock + Ttl(terms[c].window)]
Added(c, a)  == [a EXCEPT !.reserved = @ + call[c].est]

Reserves(c) ==
  LET u == Uid[call[c].user]
      a == acct[u]
      old == terms[c].now - a.start >= terms[c].window
  IN  \/ clock >= a.expires       /\ acct' = [acct EXCEPT ![u] = Opened(c, a)]
      \/ clock < a.expires /\ old /\ acct' = [acct EXCEPT ![u] = Rolled(c)]
      \/ /\ clock < a.expires /\ ~old
         /\ a.spent + a.reserved + call[c].est <= terms[c].limit
         /\ acct' = [acct EXCEPT ![u] = Added(c, a)]

Reserve(c) ==
  /\ Moves(c, "reserving", "calling") /\ Reserves(c)
  /\ terms' = [terms EXCEPT ![c] = NoTerms]
  /\ UNCHANGED <<limits, windows, clock, call>>

Refuse(c) ==
  /\ Moves(c, "reserving", "idle") /\ Ends(c)
  /\ UNCHANGED <<acct, limits, windows, clock>>

Finish(c) ==
  /\ \E cost \in 0..(call[c].est + Overrun) :
       \/ call[c].est = 0 /\ cost = 0 /\ Moves(c, "calling", "idle") /\ Ends(c)
       \/ /\ call[c].est > 0 \/ cost > 0
          /\ Moves(c, "calling", "settling")
          /\ call' = [call EXCEPT ![c].actual = cost] /\ UNCHANGED terms
  /\ UNCHANGED <<acct, limits, windows, clock>>

Settles(c) ==
  LET u == Uid[call[c].user]
  IN  acct' = [acct EXCEPT
                 ![u].spent = @ + call[c].actual,
                 ![u].reserved = IF @ > call[c].est THEN @ - call[c].est ELSE 0]

Settle(c) ==
  /\ Moves(c, "settling", "idle") /\ Ends(c) /\ Settles(c)
  /\ UNCHANGED <<limits, windows, clock>>

\* The effect without the answer: it will be had once more.
LoseReply(c) ==
  /\ \/ phase[c] = "reserving" /\ Reserves(c)
     \/ phase[c] = "settling" /\ Settles(c)
  /\ lost' = lost + 1
  /\ UNCHANGED <<limits, windows, clock, phase, call, terms>>

SetBudget(u, l, w) ==
  /\ limits' = [limits EXCEPT ![Uid[u]] = l]
  /\ windows' = IF w = 0 THEN windows ELSE [windows EXCEPT ![Uid[u]] = w]
  /\ acct' = [acct EXCEPT ![Uid[u]].start = clock,
                          ![Uid[u]].expires = clock + Ttl(IF w = 0 THEN DefaultWindow ELSE w)]
  /\ UNCHANGED <<clock, phase, call, terms>>

Reset(u) ==
  acct' = [acct EXCEPT ![Uid[u]] = Empty] /\ UNCHANGED <<limits, windows, clock, phase, call, terms>>

Tick == clock' = clock + 1 /\ UNCHANGED <<acct, limits, windows, phase, call, terms>>

Crash(c) ==
  /\ phase[c] # "idle" /\ phase' = [phase EXCEPT ![c] = "idle"] /\ Ends(c)
  /\ UNCHANGED <<acct, limits, windows, clock>>

Client(c) ==
  \/ Ask(c) \/ ReadLimit(c) \/ ReadWindow(c) \/ Reserve(c) \/ Refuse(c) \/ Finish(c)
  \/ Settle(c) \/ Crash(c)

Other ==
  \/ Tick
  \/ \E u \in Users : Reset(u) \/ \E l \in LimitArgs, w \in WindowArgs \cup {0} : SetBudget(u, l, w)

Next ==
  \/ ((\E c \in Clients : Client(c)) \/ Other) /\ UNCHANGED lost
  \/ \E c \in Clients : LoseReply(c)

Spec == Init /\ [][Next]_vars
=============================================================================

------------------------- MODULE CachedRouterProofs --------------------------
(***************************************************************************)
(* Theorems about CachedRouter, for every number of threads and every set   *)
(* of queries: what a request pays for, what the cache hands out, and what  *)
(* the spy sees.                                                            *)
(***************************************************************************)
EXTENDS CachedRouter, FiniteSetTheorems, SequenceTheorems, TLAPS

Stored == [query : Queries, tier : Tiers, verdict : Verdicts, looked : Nat]
Results == [tier : Tiers, verdict : Verdicts, tried : Seq(Tiers), total : Nat]

LEMMA InitType == Init => TypeOK
<1> SUFFICES ASSUME Init PROVE TypeOK OBVIOUS
<1>1. NoRequest \in [query : Queries, tier : Tiers \cup {"auto"}, looked : Nat]
  BY QueryAssumption DEF NoRequest
<1>2. NoResult \in Results /\ cache \in Seq(Stored)
  BY DEF Init, NoResult, Results, Tiers, Verdicts
<1>3. NoHistory \in [made : Nat, fired : Nat, paid : Nat]
  BY DEF NoHistory
<1> QED BY <1>1, <1>2, <1>3 DEF Init, TypeOK, PCs, Results, Stored

\* A model call adds a tier and its price to the result and to the history.
LEMMA CallType ==
  ASSUME TypeOK, NEW t \in Threads, NEW tier \in Tiers, NEW verdict \in Verdicts,
         CallModel(t, tier, verdict)
  PROVE  /\ result' \in [Threads -> Results]
         /\ history' \in [Threads -> [made : Nat, fired : Nat, paid : Nat]]
         /\ result'[t] = [tier |-> tier, verdict |-> verdict,
                          tried |-> Append(result[t].tried, tier),
                          total |-> result[t].total + Price[tier]]
         /\ history'[t] = [made |-> history[t].made + 1, fired |-> history[t].fired + callFn,
                           paid |-> history[t].paid + Price[tier]]
<1>1. /\ result[t] \in Results /\ history[t] \in [made : Nat, fired : Nat, paid : Nat]
      /\ callFn \in Nat /\ Price[tier] \in Nat
  BY NumberAssumption DEF TypeOK, Results
<1>2. Append(result[t].tried, tier) \in Seq(Tiers)
  BY <1>1, AppendProperties DEF Results
<1>3. [tier |-> tier, verdict |-> verdict, tried |-> Append(result[t].tried, tier),
       total |-> result[t].total + Price[tier]] \in Results
  BY <1>1, <1>2 DEF Results
<1>4. [made |-> history[t].made + 1, fired |-> history[t].fired + callFn,
       paid |-> history[t].paid + Price[tier]] \in [made : Nat, fired : Nat, paid : Nat]
  BY <1>1
<1> QED BY <1>3, <1>4 DEF CallModel, TypeOK, Results

LEMMA StepType == ASSUME TypeOK, NEW t \in Threads, Route(t) PROVE TypeOK'
<1> USE DEF TypeOK
<1>1. NoRequest \in [query : Queries, tier : Tiers \cup {"auto"}, looked : Nat]
  BY QueryAssumption DEF NoRequest
<1>2. NoHistory \in [made : Nat, fired : Nat, paid : Nat]
  BY DEF NoHistory
<1>3. NoResult \in [tier : Tiers, verdict : Verdicts, tried : Seq(Tiers), total : Nat]
  BY DEF NoResult, Tiers, Verdicts
<1>4. Len(cache) \in Nat /\ DOMAIN cache = 1..Len(cache)
  BY LenProperties
<1>5. CASE Hit(t)
  <2>0. PICK q \in Queries : \E i \in Best(q) :
          result' = [result EXCEPT ![t] = [NoResult EXCEPT !.tier = cache[i].tier,
                                                           !.verdict = cache[i].verdict]]
    BY <1>5 DEF Hit
  <2>1. PICK i \in Best(q) :
          result' = [result EXCEPT ![t] = [NoResult EXCEPT !.tier = cache[i].tier,
                                                           !.verdict = cache[i].verdict]]
    BY <2>0
  <2>2. cache[i] \in [query : Queries, tier : Tiers, verdict : Verdicts, looked : Nat]
    BY <1>4, ElementOfSeq DEF Best
  <2>3. [NoResult EXCEPT !.tier = cache[i].tier, !.verdict = cache[i].verdict]
          \in [tier : Tiers, verdict : Verdicts, tried : Seq(Tiers), total : Nat]
    BY <1>3, <2>2
  <2> DEFINE new == [NoResult EXCEPT !.tier = cache[i].tier, !.verdict = cache[i].verdict]
  <2>4. result' = [result EXCEPT ![t] = new] BY <2>1
  <2> HIDE DEF new
  <2>5. result' \in [Threads -> [tier : Tiers, verdict : Verdicts, tried : Seq(Tiers), total : Nat]]
    BY <2>3, <2>4 DEF new
  <2>6. history' \in [Threads -> [made : Nat, fired : Nat, paid : Nat]] /\ calls' \in Nat
    BY <1>2, <1>5 DEF Hit, Begin
  <2>7. UNCHANGED <<callFn, cache, pc, req, orig, together>> BY <1>5 DEF Hit
  <2> QED BY <2>5, <2>6, <2>7
<1>6. CASE Miss(t)
  <2>1. PICK q \in Queries, tier \in Tiers \cup {"auto"} :
          req' = [req EXCEPT ![t] = [query |-> q, tier |-> tier, looked |-> Len(cache)]]
    BY <1>6 DEF Miss
  <2>2. [query |-> q, tier |-> tier, looked |-> Len(cache)]
          \in [query : Queries, tier : Tiers \cup {"auto"}, looked : Nat]
    BY <1>4
  <2>3. req' \in [Threads -> [query : Queries, tier : Tiers \cup {"auto"}, looked : Nat]]
    BY <2>1, <2>2
  <2>4. history' \in [Threads -> [made : Nat, fired : Nat, paid : Nat]] /\ calls' \in Nat
    BY <1>2, <1>6 DEF Miss, Begin
  <2>5. result' \in [Threads -> [tier : Tiers, verdict : Verdicts, tried : Seq(Tiers), total : Nat]]
    BY <1>3, <1>6 DEF Miss
  <2>6. pc' \in [Threads -> PCs] /\ together' \in BOOLEAN
    BY <1>6 DEF Miss, Goto, PCs
  <2> QED BY <1>6, <2>3, <2>4, <2>5, <2>6 DEF Miss
<1>7. CASE SaveCallFn(t)
  BY <1>7 DEF SaveCallFn, Goto, PCs
<1>8. CASE InstallSpy(t)
  BY <1>8 DEF InstallSpy, Goto, PCs, First
<1>9. CASE CallCheap(t)
  <2>1. "low" \in Tiers /\ "good" \in Verdicts /\ "bad" \in Verdicts BY DEF Tiers, Verdicts
  <2> QED BY <1>9, <2>1, CallType DEF CallCheap, CallModel, Goto, PCs, Results
<1>10. CASE CallExpensive(t)
  <2>1. "high" \in Tiers /\ "unchecked" \in Verdicts BY DEF Tiers, Verdicts
  <2> QED BY <1>10, <2>1, CallType DEF CallExpensive, CallModel, Goto, PCs, Results
<1>11. CASE CallOnly(t)
  <2>1. PICK x \in Tiers : CallModel(t, x, "unchecked")
    BY <1>11 DEF CallOnly, Tiers
  <2>2. Goto(t, "only", "restore") /\ "unchecked" \in Verdicts BY <1>11 DEF CallOnly, Verdicts
  <2>3. /\ result' \in [Threads -> Results]
        /\ history' \in [Threads -> [made : Nat, fired : Nat, paid : Nat]]
    BY <2>1, <2>2, CallType
  <2>4. pc' \in [Threads -> PCs] BY <2>2 DEF Goto, PCs
  <2>5. UNCHANGED <<callFn, cache, req, orig, together, calls>> BY <2>1 DEF CallModel
  <2> QED BY <2>3, <2>4, <2>5 DEF Results
<1>12. CASE ModelRaises(t)
  <2> DEFINE new == [history[t] EXCEPT !.made = @ + 1, !.fired = @ + callFn]
  <2>1. new \in [made : Nat, fired : Nat, paid : Nat]
    <3>1. \A h \in [made : Nat, fired : Nat, paid : Nat], x, y \in Nat :
            [h EXCEPT !.made = x, !.fired = y] \in [made : Nat, fired : Nat, paid : Nat]
      OBVIOUS
    <3>2. /\ history[t] \in [made : Nat, fired : Nat, paid : Nat]
          /\ history[t].made + 1 \in Nat /\ history[t].fired + callFn \in Nat
      OBVIOUS
    <3> QED BY <3>1, <3>2
  <2>2. history' = [history EXCEPT ![t] = new] BY <1>12 DEF ModelRaises
  <2> HIDE DEF new
  <2>3. history' \in [Threads -> [made : Nat, fired : Nat, paid : Nat]] BY <2>1, <2>2
  <2>4. pc' \in [Threads -> PCs] BY <1>12 DEF ModelRaises, Goto, PCs
  <2> QED BY <1>12, <2>3, <2>4 DEF ModelRaises
<1>13. CASE Unwind(t)
  BY <1>1, <1>13 DEF Unwind, Return, Goto, PCs
<1>14. CASE Restore(t)
  BY <1>14 DEF Restore, Goto, PCs
<1>15. CASE Put(t)
  <2>1. [query |-> req[t].query, tier |-> result[t].tier, verdict |-> result[t].verdict,
         looked |-> req[t].looked]
          \in [query : Queries, tier : Tiers, verdict : Verdicts, looked : Nat]
    OBVIOUS
  <2>2. cache' \in Seq([query : Queries, tier : Tiers, verdict : Verdicts, looked : Nat])
    BY <1>15, <2>1, AppendProperties DEF Put
  <2> QED BY <1>1, <1>15, <2>2 DEF Put, Return, Goto, PCs
<1> QED BY <1>5, <1>6, <1>7, <1>8, <1>9, <1>10, <1>11, <1>12, <1>13, <1>14, <1>15 DEF Route

LEMMA NextType == TypeOK /\ [Next]_vars => TypeOK'
<1>1. ASSUME TypeOK, UNCHANGED vars PROVE TypeOK'
  BY <1>1 DEF vars, TypeOK
<1> QED BY <1>1, StepType DEF Next

\* Every reachable state is well typed; in particular what the cache holds is a
\* query with the reply of a tier.
THEOREM TypeCorrect == Spec => []TypeOK
BY InitType, NextType, PTL DEF Spec

-----------------------------------------------------------------------------
(* What a step does to other threads and to the cache. *)

\* A step of t moves t alone.
LEMMA OthersStay ==
  ASSUME TypeOK, NEW t \in Threads, Route(t), NEW s \in Threads, s # t
  PROVE  /\ pc'[s] = pc[s] /\ req'[s] = req[s] /\ orig'[s] = orig[s]
         /\ result'[s] = result[s] /\ history'[s] = history[s]
BY DEF TypeOK, Route, Hit, Miss, Begin, SaveCallFn, InstallSpy, CallCheap, CallModel,
   CallExpensive, CallOnly, ModelRaises, Unwind, Restore, Put, Return, Goto

\* What put appends.
LEMMA PutAppends ==
  ASSUME TypeOK, NEW t \in Threads, Put(t)
  PROVE  /\ Len(cache) \in Nat /\ Len(cache') = Len(cache) + 1
         /\ DOMAIN cache = 1..Len(cache) /\ DOMAIN cache' = 1..(Len(cache) + 1)
         /\ \A i \in 1..Len(cache) : cache'[i] = cache[i]
         /\ cache'[Len(cache) + 1].query = req[t].query
         /\ cache'[Len(cache) + 1].verdict = result[t].verdict
         /\ cache'[Len(cache) + 1].looked = req[t].looked
<1> DEFINE new == [query |-> req[t].query, tier |-> result[t].tier,
                   verdict |-> result[t].verdict, looked |-> req[t].looked]
<1>1. cache \in Seq(Stored) /\ new \in Stored /\ cache' = Append(cache, new)
  BY DEF Put, TypeOK, Stored
<1> HIDE DEF new
<1>2. Len(cache) \in Nat /\ DOMAIN cache = 1..Len(cache) BY <1>1, LenProperties
<1>3. cache' \in Seq(Stored) /\ Len(cache') = Len(cache) + 1 BY <1>1, AppendProperties
<1>4. DOMAIN cache' = 1..Len(cache') BY <1>3, LenProperties
<1>5. /\ \A i \in 1..Len(cache) : cache'[i] = cache[i]
      /\ cache'[Len(cache) + 1] = new
  BY <1>1, AppendProperties
<1> QED BY <1>2, <1>3, <1>4, <1>5 DEF new

\* No other step touches the cache.
LEMMA OnlyPutStores ==
  ASSUME NEW t \in Threads, Route(t), ~Put(t) PROVE cache' = cache
BY DEF Route, Hit, Miss, Begin, SaveCallFn, InstallSpy, CallCheap, CallModel, CallExpensive,
   CallOnly, ModelRaises, Unwind, Restore

-----------------------------------------------------------------------------
(* The inductive invariants. *)

\* Of the stored queries there is a closest one, the earliest if several are.
ClosestInv ==
  cache # <<>> => \A q \in Queries : \E i \in DOMAIN cache :
    \A j \in DOMAIN cache : AtLeast(Score(q, cache[i].query), Score(q, cache[j].query))
      /\ (j < i => ~AtLeast(Score(q, cache[j].query), Score(q, cache[i].query)))

\* A request that is being routed found nothing like its query in what was
\* stored when it looked, and nothing of that is ever removed.
LookedInv ==
  \A t \in Threads : pc[t] # "idle" =>
    /\ req[t].looked <= Len(cache)
    /\ \A i \in 1..req[t].looked : ~Similar(req[t].query, cache[i].query)

\* From the moment the quality checker rejects a reply the request is on its way
\* to the expensive tier.
AnsweredInv == \A t \in Threads : pc[t] \in {"restore", "put"} => result[t].verdict # "bad"

\* The tiers an answered request has tried, for what it asked.
TriedAsAsked(t) ==
  IF req[t].tier # "auto" THEN result[t].tried = <<req[t].tier>>
  ELSE "low" \in Range(result[t].tried) => ~IsHard(Compressed(req[t].query))

\* How far a request has come with its calls, and what they cost.
Billed(t) ==
  /\ result[t].total = history[t].paid
  /\ pc[t] \in {"save", "install", "cheap", "only"} => result[t].tried = <<>>
  /\ pc[t] \in {"cheap", "only"} => pc[t] = First(t)
  /\ pc[t] = "escalate" => req[t].tier = "auto" /\ ~IsHard(Compressed(req[t].query))
  /\ pc[t] \in {"restore", "put"} => TriedAsAsked(t)

BilledInv == \A t \in Threads : Billed(t)

\* Between installing the spy and restoring, one spy is wrapped around the model.
Spying == {"cheap", "only", "escalate", "restore", "unwind"}

\* One request at a time: nothing but the model was saved, and the spy is there
\* while that request makes its calls, and only then.
SpyInv ==
  ~together =>
    /\ \A s, t \in Threads : pc[s] # "idle" /\ pc[t] # "idle" => s = t
    /\ \A t \in Threads : orig[t] = 0 /\ history[t].fired = history[t].made
    /\ \A t \in Threads : pc[t] \in Spying => callFn = 1
    /\ (\A t \in Threads : pc[t] \notin Spying) => callFn = 0

-----------------------------------------------------------------------------
(* No rejected reply, and the bill of a request. *)

LEMMA AnsweredStep ==
  TypeOK /\ TypeOK' /\ AnsweredInv /\ NoRejectedReply /\ [Next]_vars
    => (AnsweredInv /\ NoRejectedReply)'
<1> SUFFICES ASSUME TypeOK, TypeOK', AnsweredInv, NoRejectedReply, [Next]_vars
             PROVE  AnsweredInv' /\ NoRejectedReply'
  OBVIOUS
<1>1. CASE UNCHANGED vars
  BY <1>1 DEF vars, AnsweredInv, NoRejectedReply
<1>2. ASSUME NEW t \in Threads, Route(t) PROVE AnsweredInv'
  <2>1. ASSUME NEW s \in Threads, s # t, pc'[s] \in {"restore", "put"}
        PROVE  result'[s].verdict # "bad"
    BY <1>2, <2>1, OthersStay DEF AnsweredInv
  <2>2. ASSUME pc'[t] \in {"restore", "put"} PROVE result'[t].verdict # "bad"
    <3>1. CASE CallCheap(t) \/ CallExpensive(t) \/ CallOnly(t)
      <4>1. PICK tier, verdict : /\ CallModel(t, tier, verdict)
                                 /\ verdict = "bad" => pc'[t] = "escalate"
        BY <3>1 DEF CallCheap, CallExpensive, CallOnly, Goto, TypeOK
      <4>2. result'[t].verdict = verdict BY <4>1 DEF CallModel, TypeOK
      <4> QED BY <2>2, <4>1, <4>2
    <3>2. CASE Restore(t)
      BY <3>2 DEF Restore, Goto, AnsweredInv
    <3>3. CASE ~(CallCheap(t) \/ CallExpensive(t) \/ CallOnly(t) \/ Restore(t))
      BY <1>2, <2>2, <3>3 DEF Route, Hit, Begin, Miss, SaveCallFn, InstallSpy, First, ModelRaises,
         Unwind, Put, Goto, TypeOK
    <3> QED BY <3>1, <3>2, <3>3
  <2> QED BY <2>1, <2>2 DEF AnsweredInv
<1>3. ASSUME NEW t \in Threads, Route(t) PROVE NoRejectedReply'
  <2>1. CASE Put(t)
    <3>1. result[t].verdict # "bad" BY <2>1 DEF Put, Goto, AnsweredInv
    <3>2. /\ cache'[Len(cache) + 1].verdict = result[t].verdict
          /\ DOMAIN cache = 1..Len(cache) /\ DOMAIN cache' = 1..(Len(cache) + 1)
          /\ Len(cache) \in Nat /\ \A i \in 1..Len(cache) : cache'[i] = cache[i]
      BY <2>1, PutAppends
    <3>3. ASSUME NEW i \in 1..Len(cache) PROVE cache'[i].verdict # "bad"
      BY <3>2 DEF NoRejectedReply
    <3> QED BY <3>1, <3>2, <3>3 DEF NoRejectedReply
  <2>2. CASE ~Put(t)
    BY <1>3, <2>2, OnlyPutStores DEF NoRejectedReply
  <2> QED BY <2>1, <2>2
<1> QED BY <1>1, <1>2, <1>3 DEF Next

\* A reply the quality checker rejected is neither returned nor stored
\* (routing.py:208-217, optimization.py:243).
THEOREM RepliesCorrect == Spec => []NoRejectedReply
<1>1. Init => AnsweredInv /\ NoRejectedReply
  BY DEF Init, AnsweredInv, NoRejectedReply
<1> QED BY <1>1, AnsweredStep, TypeCorrect, PTL DEF Spec

\* A model call adds the same to the bill and to what was paid.
LEMMA CallBills ==
  ASSUME TypeOK, NEW t \in Threads, NEW tier, NEW verdict, CallModel(t, tier, verdict),
         result[t].total = history[t].paid
  PROVE  result'[t].total = history'[t].paid
BY DEF CallModel, TypeOK

\* The first tier a request tries and what it has tried by the time it is over.
LEMMA BilledStep ==
  TypeOK /\ TypeOK' /\ BilledInv /\ [Next]_vars => BilledInv'
<1> SUFFICES ASSUME TypeOK, TypeOK', BilledInv, [Next]_vars PROVE BilledInv'
  OBVIOUS
<1>1. CASE UNCHANGED vars
  BY <1>1 DEF vars, BilledInv, Billed, TriedAsAsked, First
<1>2. ASSUME NEW t \in Threads, Route(t) PROVE BilledInv'
  <2>1. ASSUME NEW s \in Threads, s # t PROVE Billed(s)'
    <3>1. Billed(s) BY DEF BilledInv
    <3> QED BY <1>2, <2>1, <3>1, OthersStay DEF Billed, TriedAsAsked, First
  <2>2. Billed(t)'
    <3>0. Billed(t) BY DEF BilledInv
    <3> USE DEF Goto, TypeOK
    <3>1. CASE Hit(t)
      BY <3>1 DEF Hit, Begin, NoResult, NoHistory, Billed
    <3>2. CASE Miss(t)
      BY <3>2 DEF Miss, Begin, NoResult, NoHistory, Billed
    <3>3. CASE SaveCallFn(t)
      BY <3>0, <3>3 DEF SaveCallFn, Billed
    <3>4. CASE InstallSpy(t)
      BY <3>0, <3>4 DEF InstallSpy, First, Billed
    <3>5. CASE CallCheap(t)
      <4>1. pc[t] = "cheap" /\ pc'[t] \in {"restore", "escalate"} /\ UNCHANGED req
        BY <3>5 DEF CallCheap, CallModel
      <4>2. req[t].tier = "auto" /\ ~IsHard(Compressed(req[t].query))
        BY <3>0, <4>1 DEF Billed, First
      <4>3. result'[t].total = history'[t].paid
        BY <3>0, <3>5, CallBills DEF Billed, CallCheap
      <4> QED BY <4>1, <4>2, <4>3 DEF Billed, TriedAsAsked
    <3>6. CASE CallExpensive(t)
      <4>1. pc[t] = "escalate" /\ pc'[t] = "restore" /\ UNCHANGED req
        BY <3>6 DEF CallExpensive, CallModel
      <4>2. req[t].tier = "auto" /\ ~IsHard(Compressed(req[t].query))
        BY <3>0, <4>1 DEF Billed
      <4>3. result'[t].total = history'[t].paid
        BY <3>0, <3>6, CallBills DEF Billed, CallExpensive
      <4> QED BY <4>1, <4>2, <4>3 DEF Billed, TriedAsAsked
    <3>7. CASE CallOnly(t)
      <4> DEFINE tier == IF req[t].tier = "auto" THEN "high" ELSE req[t].tier
      <4>1. pc[t] = "only" /\ pc'[t] = "restore" /\ UNCHANGED req
        BY <3>7 DEF CallOnly, CallModel
      <4>2. result[t].tried = <<>> BY <3>0, <4>1 DEF Billed
      <4>3. tier \in Tiers /\ CallModel(t, tier, "unchecked")
        BY <3>7 DEF CallOnly, Tiers
      <4>4. result'[t].tried = <<tier>>
        <5> HIDE DEF tier
        <5> QED BY <4>2, <4>3 DEF CallModel
      <4>5. result'[t].total = history'[t].paid
        <5> HIDE DEF tier
        <5> QED BY <3>0, <4>3, CallBills DEF Billed
      <4>6. req[t].tier = "auto" => "low" \notin Range(result'[t].tried)
        BY <4>4 DEF Range
      <4> QED BY <4>1, <4>4, <4>5, <4>6 DEF Billed, TriedAsAsked
    <3>8. CASE ModelRaises(t)
      BY <3>0, <3>8 DEF ModelRaises, Billed
    <3>9. CASE Unwind(t)
      BY <3>0, <3>9 DEF Unwind, Billed
    <3>10. CASE Restore(t)
      BY <3>0, <3>10 DEF Restore, Billed, TriedAsAsked
    <3>11. CASE Put(t)
      BY <3>0, <3>11 DEF Put, Billed
    <3> QED BY <1>2, <3>1, <3>2, <3>3, <3>4, <3>5, <3>6, <3>7, <3>8, <3>9, <3>10, <3>11 DEF Route
  <2> QED BY <2>1, <2>2 DEF BilledInv
<1> QED BY <1>1, <1>2 DEF Next

\* A request is billed what its calls cost, answers with the tier it was asked
\* for, and pays the cheap tier only if nothing that was sent is hard
\* (routing.py:116, 147-151, 212).
THEOREM BillsCorrect == Spec => []BilledAsAsked
<1>1. Init => BilledInv
  BY DEF Init, NoResult, NoHistory, BilledInv, Billed
<1>2. BilledInv => BilledAsAsked
  BY DEF BilledInv, Billed, TriedAsAsked, IsHard, BilledAsAsked
<1> QED BY <1>1, <1>2, BilledStep, TypeCorrect, PTL DEF Spec

-----------------------------------------------------------------------------
(* The spy. *)

\* A model call is counted, and seen by every spy that is installed.
LEMMA CallCounts ==
  ASSUME TypeOK, NEW t \in Threads, NEW tier, NEW verdict, CallModel(t, tier, verdict)
  PROVE  /\ history'[t].fired = history[t].fired + callFn
         /\ history'[t].made = history[t].made + 1
         /\ orig' = orig /\ callFn' = callFn
<1>1. history \in [Threads -> [made : Nat, fired : Nat, paid : Nat]]
  BY DEF TypeOK
<1>2. history'[t] = [made |-> history[t].made + 1, fired |-> history[t].fired + callFn,
                     paid |-> history[t].paid + Price[tier]]
  BY <1>1 DEF CallModel
<1>3. orig' = orig /\ callFn' = callFn
  BY DEF CallModel
<1> QED BY <1>2, <1>3

LEMMA SpyStep == TypeOK /\ TypeOK' /\ SpyInv /\ [Next]_vars => SpyInv'
<1> SUFFICES ASSUME TypeOK, TypeOK', SpyInv, [Next]_vars, ~together' PROVE SpyInv'
  BY DEF SpyInv
<1>1. CASE UNCHANGED vars
  BY <1>1 DEF vars, SpyInv
<1>2. ASSUME NEW t \in Threads, Route(t) PROVE SpyInv'
  <2> USE DEF Goto, Spying
  <2>1. ~together
    BY <1>2 DEF TypeOK, Route, Hit, Miss, Begin, SaveCallFn, InstallSpy, CallCheap, CallModel,
       CallExpensive, CallOnly, ModelRaises, Unwind, Restore, Put
  <2>2. /\ \A s \in Threads : pc[s] # "idle" /\ pc[t] # "idle" => s = t
        /\ orig[t] = 0 /\ history[t].fired = history[t].made
        /\ pc[t] \in Spying => callFn = 1
        /\ (\A s \in Threads : pc[s] \notin Spying) => callFn = 0
    BY <2>1 DEF SpyInv
  <2>3. ASSUME NEW s \in Threads, s # t, pc[s] # "idle" PROVE Hit(t)
    BY <1>2, <2>2, <2>3 DEF Route, Miss, Begin, SaveCallFn, InstallSpy, CallCheap, CallExpensive,
       CallOnly, ModelRaises, Unwind, Restore, Put
  <2>4. CASE Hit(t)
    <3>1. UNCHANGED <<callFn, pc, orig>> /\ \A s \in Threads : s # t => history'[s] = history[s]
      BY <2>4 DEF Hit, Begin, TypeOK
    <3>2. history'[t] = NoHistory BY <2>4 DEF Hit, Begin, TypeOK
    <3> QED BY <2>1, <3>1, <3>2 DEF SpyInv, NoHistory
  <2>5. CASE ~Hit(t)
    <3>1. \A s \in Threads : s # t => pc[s] = "idle" /\ pc'[s] = "idle"
      BY <1>2, <2>3, <2>5, OthersStay
    <3>2. \A s \in Threads : s # t => orig'[s] = 0 /\ history'[s].fired = history'[s].made
      BY <1>2, <2>1, OthersStay DEF SpyInv
    <3>3. pc[t] \notin Spying => callFn = 0
      BY <2>2, <3>1
    <3>4. /\ orig'[t] = 0 /\ history'[t].fired = history'[t].made
          /\ pc'[t] \in Spying => callFn' = 1
          /\ pc'[t] \notin Spying => callFn' = 0
      <4> USE DEF TypeOK
      <4>1. CASE Miss(t)
        BY <2>2, <3>3, <4>1 DEF Miss, Begin, NoHistory
      <4>2. CASE SaveCallFn(t)
        BY <2>2, <3>3, <4>2 DEF SaveCallFn
      <4>3. CASE InstallSpy(t)
        BY <2>2, <3>3, <4>3 DEF InstallSpy, First
      <4>4. CASE CallCheap(t)
        <5>1. /\ pc[t] = "cheap" /\ pc'[t] \in {"restore", "escalate"}
              /\ CallModel(t, "low", "good") \/ CallModel(t, "low", "bad")
          BY <4>4 DEF CallCheap
        <5>2. /\ history'[t].fired = history[t].fired + callFn
              /\ history'[t].made = history[t].made + 1
              /\ orig' = orig /\ callFn' = callFn
          <6>1. CASE CallModel(t, "low", "good") BY <6>1, CallCounts
          <6>2. CASE CallModel(t, "low", "bad") BY <6>2, CallCounts
          <6> QED BY <5>1, <6>1, <6>2
        <5> QED BY <2>2, <5>1, <5>2
      <4>5. CASE CallExpensive(t) \/ CallOnly(t)
        BY <2>2, <4>5 DEF CallExpensive, CallOnly, CallModel
      <4>6. CASE ModelRaises(t)
        BY <2>2, <4>6 DEF ModelRaises
      <4>7. CASE Unwind(t) \/ Restore(t)
        BY <2>2, <4>7 DEF Unwind, Restore, Return
      <4>8. CASE Put(t)
        BY <2>2, <3>3, <4>8 DEF Put, Return
      <4> QED BY <1>2, <2>5, <4>1, <4>2, <4>3, <4>4, <4>5, <4>6, <4>7, <4>8 DEF Route
    <3> QED BY <3>1, <3>2, <3>4 DEF SpyInv
  <2> QED BY <2>4, <2>5
<1> QED BY <1>1, <1>2 DEF Next

\* One request at a time, the spy fires once for every model call, also after a
\* call that raised (optimization.py:173-175, 238-240).
THEOREM SpyCorrect == Spec => []SpyCountsCalls
<1>1. Init => SpyInv
  BY DEF Init, NoHistory, SpyInv, Spying
<1>2. SpyInv => SpyCountsCalls
  BY DEF SpyInv, SpyCountsCalls
<1> QED BY <1>1, <1>2, SpyStep, TypeCorrect, PTL DEF Spec

-----------------------------------------------------------------------------
(* Similarity, and what is paid for twice. *)

Fraction(x) == x[1] \in Nat /\ x[2] \in Nat \ {0}

\* A text has finitely many words.
LEMMA WordsFinite == ASSUME NEW q \in Queries PROVE IsFiniteSet(Words(q))
<1>1. ASSUME NEW text \in Seq(Vocabulary) PROVE IsFiniteSet(Range(text))
  <2>1. Len(text) \in Nat /\ text \in [1..Len(text) -> Vocabulary] BY LenProperties
  <2>2. text \in Surjection(1..Len(text), Range(text))
    BY <2>1 DEF Surjection, Range
  <2>3. IsFiniteSet(1..Len(text)) BY <2>1, FS_Interval
  <2> QED BY <2>2, <2>3, FS_Surjection
<1>2. q.system \in Seq(Vocabulary) /\ q.user \in Seq(Vocabulary)
  BY QueryAssumption
<1> QED BY <1>1, <1>2, FS_Union DEF Words

\* _jaccard_similarity returns a fraction, whatever it compares.
LEMMA ScoreFraction ==
  ASSUME NEW p \in Queries, NEW q \in Queries PROVE Fraction(Score(p, q))
<1> DEFINE Both == Words(p) \cup Words(q)
           Shared == Words(p) \cap Words(q)
<1>1. IsFiniteSet(Both) BY WordsFinite, FS_Union
<1>2. IsFiniteSet(Shared) /\ Cardinality(Shared) \in Nat
  <2>1. Shared \subseteq Both OBVIOUS
  <2> QED BY <1>1, <2>1, FS_Subset, FS_CardinalityType
<1>3. Cardinality(Both) \in Nat /\ (Both # {} => Cardinality(Both) # 0)
  BY <1>1, FS_CardinalityType, FS_EmptySet
<1>4. Score(p, q) = IF Both = {} THEN <<1, 1>> ELSE <<Cardinality(Shared), Cardinality(Both)>>
  BY DEF Score
<1> HIDE DEF Both, Shared
<1> QED BY <1>2, <1>3, <1>4 DEF Fraction

\* Comparing products compares fractions: any two, and transitively.
LEMMA AtLeastTotal ==
  ASSUME NEW x, NEW y, Fraction(x), Fraction(y)
  PROVE  AtLeast(x, x) /\ (AtLeast(x, y) \/ AtLeast(y, x))
<1>1. \A a, b, c, d \in Nat : a * b >= a * b /\ (a * d >= c * b \/ c * b >= a * d) OBVIOUS
<1> QED BY <1>1 DEF AtLeast, Fraction

LEMMA AtLeastTransitive ==
  ASSUME NEW x, NEW y, NEW z, Fraction(x), Fraction(y), Fraction(z),
         AtLeast(x, y), AtLeast(y, z)
  PROVE  AtLeast(x, z)
<1>1. ASSUME NEW a \in Nat, NEW b \in Nat, NEW c \in Nat, NEW d \in Nat \ {0},
             NEW e \in Nat, NEW f \in Nat, a * d >= c * b, c * f >= e * d
      PROVE  a * f >= e * b
  <2>1. (a * d) * f >= (c * b) * f BY <1>1
  <2>2. (c * f) * b >= (e * d) * b BY <1>1
  <2>3. /\ (a * d) * f = (a * f) * d /\ (c * b) * f = (c * f) * b /\ (e * d) * b = (e * b) * d
    OBVIOUS
  <2>4. (a * f) * d >= (e * b) * d BY <2>1, <2>2, <2>3
  <2>5. \A m, n \in Nat : m * d >= n * d => m >= n OBVIOUS
  <2>6. a * f \in Nat /\ e * b \in Nat OBVIOUS
  <2> QED BY <2>4, <2>5, <2>6
<1> QED BY <1>1 DEF AtLeast, Fraction

\* What is closer than a query that is close enough is close enough.
LEMMA SimilarUp ==
  ASSUME NEW q \in Queries, NEW p \in Queries, NEW r \in Queries,
         Similar(q, p), AtLeast(Score(q, r), Score(q, p))
  PROVE  Similar(q, r)
<1>1. Fraction(Score(q, p)) /\ Fraction(Score(q, r)) /\ Fraction(Threshold)
  BY ScoreFraction, NumberAssumption DEF Fraction
<1>2. AtLeast(Score(q, r), Threshold)
  BY <1>1, AtLeastTransitive DEF Similar
<1>3. Score(q, r)[1] > 0
  <2>1. Score(q, r)[1] * Score(q, p)[2] >= Score(q, p)[1] * Score(q, r)[2]
    BY DEF AtLeast
  <2>2. ASSUME NEW a \in Nat, NEW b \in Nat \ {0}, NEW c \in Nat, NEW d \in Nat \ {0},
               a * d >= c * b, c > 0
        PROVE  a > 0
    <3>1. c * b > 0 BY <2>2
    <3>2. a = 0 => a * d = 0 OBVIOUS
    <3> QED BY <2>2, <3>1, <3>2
  <2> QED BY <1>1, <2>1, <2>2 DEF Similar, Fraction
<1> QED BY <1>2, <1>3 DEF Similar

\* The closest of the stored queries is still there, or the new one is closer.
LEMMA ClosestStep == TypeOK /\ TypeOK' /\ ClosestInv /\ [Next]_vars => ClosestInv'
<1> SUFFICES ASSUME TypeOK, TypeOK', ClosestInv, [Next]_vars PROVE ClosestInv'
  OBVIOUS
<1>1. CASE cache' = cache
  BY <1>1 DEF ClosestInv
<1>2. ASSUME NEW t \in Threads, Put(t), NEW q \in Queries
      PROVE  \E i \in DOMAIN cache' : \A j \in DOMAIN cache' :
               /\ AtLeast(Score(q, cache'[i].query), Score(q, cache'[j].query))
               /\ j < i => ~AtLeast(Score(q, cache'[j].query), Score(q, cache'[i].query))
  <2> DEFINE n == Len(cache) + 1
             S(i) == Score(q, cache'[i].query)
  <2>1. /\ Len(cache) \in Nat /\ DOMAIN cache = 1..Len(cache) /\ DOMAIN cache' = 1..n
        /\ \A i \in 1..Len(cache) : cache'[i] = cache[i]
    BY <1>2, PutAppends
  <2>2. \A i \in DOMAIN cache' : Fraction(S(i))
    <3>1. \A i \in DOMAIN cache' : cache'[i] \in Stored
      BY LenProperties, ElementOfSeq DEF TypeOK, Stored
    <3> QED BY <3>1, ScoreFraction DEF Stored
  <2>3. CASE Len(cache) = 0
    <3>1. DOMAIN cache' = {1} BY <2>1, <2>3
    <3>2. AtLeast(S(1), S(1)) BY <2>2, <3>1, AtLeastTotal
    <3> QED BY <3>1, <3>2
  <2>4. CASE Len(cache) # 0
    <3>1. cache # <<>> BY <2>4
    <3>2. PICK i \in 1..Len(cache) : \A j \in 1..Len(cache) :
            AtLeast(S(i), S(j)) /\ (j < i => ~AtLeast(S(j), S(i)))
      BY <2>1, <3>1 DEF ClosestInv
    <3> HIDE DEF S
    <3>3. i \in DOMAIN cache' /\ n \in DOMAIN cache' BY <2>1
    <3>4. \A j \in DOMAIN cache' : j = n \/ j \in 1..Len(cache) BY <2>1
    <3>5. CASE AtLeast(S(i), S(n))
      <4>1. \A j \in DOMAIN cache' : AtLeast(S(i), S(j)) /\ (j < i => ~AtLeast(S(j), S(i)))
        BY <2>1, <3>2, <3>4, <3>5
      <4> QED BY <3>3, <4>1 DEF S
    <3>6. CASE ~AtLeast(S(i), S(n))
      <4>1. AtLeast(S(n), S(i)) BY <2>2, <3>3, <3>6, AtLeastTotal
      <4>2. \A j \in 1..Len(cache) : AtLeast(S(n), S(j)) /\ ~AtLeast(S(j), S(n))
        <5> SUFFICES ASSUME NEW j \in 1..Len(cache)
                     PROVE  AtLeast(S(n), S(j)) /\ ~AtLeast(S(j), S(n))
          OBVIOUS
        <5>1. j \in DOMAIN cache' /\ AtLeast(S(i), S(j)) BY <2>1, <3>2
        <5>2. Fraction(S(i)) /\ Fraction(S(j)) /\ Fraction(S(n)) BY <2>2, <3>3, <5>1
        <5> QED BY <3>6, <4>1, <5>1, <5>2, AtLeastTransitive
      <4>3. AtLeast(S(n), S(n)) BY <2>2, <3>3, AtLeastTotal
      <4>4. \A j \in DOMAIN cache' : AtLeast(S(n), S(j)) /\ (j < n => ~AtLeast(S(j), S(n)))
        BY <2>1, <3>4, <4>2, <4>3
      <4> QED BY <3>3, <4>4 DEF S
    <3> QED BY <3>5, <3>6
  <2> QED BY <2>3, <2>4
<1>3. ASSUME NEW t \in Threads, Put(t) PROVE ClosestInv'
  BY <1>2, <1>3 DEF ClosestInv
<1>4. (\E t \in Threads : Put(t)) \/ cache' = cache
  BY OnlyPutStores DEF Next, vars
<1> QED BY <1>1, <1>3, <1>4

\* So a lookup that finds nothing has nothing to find.
LEMMA MissMeansNew ==
  ASSUME TypeOK, ClosestInv, NEW q \in Queries, Best(q) = {}, NEW i \in DOMAIN cache
  PROVE  ~Similar(q, cache[i].query)
<1>1. DOMAIN cache = 1..Len(cache) /\ Len(cache) \in Nat BY LenProperties DEF TypeOK
<1>2. cache # <<>> BY <1>1
<1>3. \A j \in DOMAIN cache : cache[j].query \in Queries
  <2>1. cache \in Seq(Stored) BY DEF TypeOK, Stored
  <2>2. \A j \in DOMAIN cache : cache[j] \in Stored BY <1>1, <2>1, ElementOfSeq
  <2> QED BY <2>2 DEF Stored
<1>4. PICK m \in DOMAIN cache : \A j \in DOMAIN cache :
        /\ AtLeast(Score(q, cache[m].query), Score(q, cache[j].query))
        /\ j < m => ~AtLeast(Score(q, cache[j].query), Score(q, cache[m].query))
  BY <1>2 DEF ClosestInv
<1>5. \A j \in 1..(m - 1) : ~AtLeast(Score(q, cache[j].query), Score(q, cache[m].query))
  BY <1>1, <1>4
<1>6. ~Similar(q, cache[m].query) BY <1>4, <1>5 DEF Best
<1> QED BY <1>3, <1>4, <1>6, SimilarUp

LEMMA LookedStep ==
  TypeOK /\ TypeOK' /\ ClosestInv /\ LookedInv /\ [Next]_vars => LookedInv'
<1> SUFFICES ASSUME TypeOK, TypeOK', ClosestInv, LookedInv, [Next]_vars PROVE LookedInv'
  OBVIOUS
<1>1. CASE UNCHANGED vars
  BY <1>1 DEF vars, LookedInv
<1>2. ASSUME NEW t \in Threads, Route(t), NEW s \in Threads, pc'[s] # "idle"
      PROVE  /\ req'[s].looked <= Len(cache')
             /\ \A i \in 1..req'[s].looked : ~Similar(req'[s].query, cache'[i].query)
  <2>1. /\ Len(cache) \in Nat /\ DOMAIN cache = 1..Len(cache)
    BY LenProperties DEF TypeOK
  <2>2. Len(cache') >= Len(cache) /\ \A i \in 1..Len(cache) : cache'[i] = cache[i]
    <3>1. CASE Put(t) BY <2>1, <3>1, PutAppends
    <3>2. CASE ~Put(t) BY <1>2, <2>1, <3>2, OnlyPutStores
    <3> QED BY <3>1, <3>2
  <2>3. CASE s = t /\ Miss(t)
    <3>1. PICK q \in Queries, tier \in Tiers \cup {"auto"} :
            /\ Best(q) = {}
            /\ req' = [req EXCEPT ![t] = [query |-> q, tier |-> tier, looked |-> Len(cache)]]
      BY <2>3 DEF Miss
    <3>2. req'[t].query = q /\ req'[t].looked = Len(cache) BY <3>1 DEF TypeOK
    <3>3. \A i \in 1..Len(cache) : ~Similar(q, cache[i].query) BY <2>1, <3>1, MissMeansNew
    <3> QED BY <2>2, <2>3, <3>2, <3>3
  <2>4. CASE ~(s = t /\ Miss(t))
    <3>1. req'[s] = req[s] /\ pc[s] # "idle"
      <4>1. CASE s # t BY <1>2, <4>1, OthersStay
      <4>2. CASE s = t
        BY <1>2, <2>4, <4>2 DEF Route, Hit, Begin, SaveCallFn, InstallSpy, First, CallCheap,
           CallModel, CallExpensive, CallOnly, ModelRaises, Unwind, Restore, Put, Goto, TypeOK
      <4> QED BY <4>1, <4>2
    <3>2. /\ req[s].looked <= Len(cache) /\ req[s].looked \in Nat
          /\ \A i \in 1..req[s].looked : ~Similar(req[s].query, cache[i].query)
      BY <3>1 DEF LookedInv, TypeOK
    <3>3. Len(cache') \in Nat BY LenProperties DEF TypeOK
    <3>4. \A i \in 1..req[s].looked : i \in 1..Len(cache) BY <2>1, <3>2
    <3> QED BY <2>1, <2>2, <3>1, <3>2, <3>3, <3>4
  <2> QED BY <2>3, <2>4
<1> QED BY <1>1, <1>2 DEF Next, LookedInv

LEMMA TwiceStep ==
  TypeOK /\ TypeOK' /\ LookedInv /\ PaidTwiceOnlyAtOnce /\ [Next]_vars => PaidTwiceOnlyAtOnce'
<1> SUFFICES ASSUME TypeOK, TypeOK', LookedInv, PaidTwiceOnlyAtOnce, [Next]_vars
             PROVE  PaidTwiceOnlyAtOnce'
  OBVIOUS
<1>1. CASE cache' = cache
  BY <1>1 DEF PaidTwiceOnlyAtOnce
<1>2. ASSUME NEW t \in Threads, Put(t), NEW i \in DOMAIN cache', NEW j \in DOMAIN cache', i < j,
             Similar(cache'[j].query, cache'[i].query)
      PROVE  cache'[j].looked < i
  <2>1. /\ Len(cache) \in Nat /\ DOMAIN cache = 1..Len(cache) /\ DOMAIN cache' = 1..(Len(cache) + 1)
        /\ \A k \in 1..Len(cache) : cache'[k] = cache[k]
        /\ cache'[Len(cache) + 1].query = req[t].query
        /\ cache'[Len(cache) + 1].looked = req[t].looked
    BY <1>2, PutAppends
  <2>2. i \in 1..Len(cache) /\ i \in Nat /\ cache'[i] = cache[i] BY <1>2, <2>1
  <2>3. CASE j = Len(cache) + 1
    <3>1. pc[t] # "idle" BY <1>2 DEF Put, Goto
    <3>2. /\ req[t].looked \in Nat
          /\ \A k \in 1..req[t].looked : ~Similar(req[t].query, cache[k].query)
      BY <3>1 DEF LookedInv, TypeOK
    <3>3. Similar(req[t].query, cache[i].query) BY <1>2, <2>1, <2>2, <2>3
    <3>4. i \notin 1..req[t].looked BY <3>2, <3>3
    <3> QED BY <2>1, <2>2, <2>3, <3>2, <3>4
  <2>4. CASE j # Len(cache) + 1
    <3>1. j \in DOMAIN cache /\ i \in DOMAIN cache /\ cache'[j] = cache[j]
      BY <2>1, <2>2, <2>4
    <3> QED BY <1>2, <2>2, <3>1 DEF PaidTwiceOnlyAtOnce
  <2> QED BY <2>3, <2>4
<1>3. (\E t \in Threads : Put(t)) \/ cache' = cache
  BY OnlyPutStores DEF Next, vars
<1> QED BY <1>1, <1>2, <1>3 DEF PaidTwiceOnlyAtOnce

\* A query like a stored one is paid for again only by a request that looked
\* before that one was stored, whatever the queries, the threshold and the number
\* of threads (optimization.py:201, 243).
THEOREM PaidOnceCorrect == Spec => []PaidTwiceOnlyAtOnce
<1>1. Init => ClosestInv /\ LookedInv /\ PaidTwiceOnlyAtOnce
  BY DEF Init, ClosestInv, LookedInv, PaidTwiceOnlyAtOnce
<1> QED BY <1>1, ClosestStep, LookedStep, TwiceStep, TypeCorrect, PTL DEF Spec
=============================================================================

---------------------------- MODULE CachedRouter -----------------------------
(***************************************************************************)
(* M2 and M3, CachedRouter.route (optimization.py) around CostAwareRouter   *)
(* .route (routing.py): look the query up in the cache; on a miss compress  *)
(* it, swap the inner router's call function for one that tells a spy,      *)
(* route by difficulty with escalation, swap back and store the reply.  The *)
(* threads of a worker share the routers and the cache; nothing locks them. *)
(* A text is the sequence of its words.                                     *)
(***************************************************************************)
EXTENDS Integers, Functions, Sequences, FiniteSets

CONSTANTS
  Threads,
  Vocabulary,          \* the words texts are made of
  Queries,             \* pairs of a system prompt and a user message
  HardWords,           \* the words with one of the hard_keywords in them
  Threshold,           \* the similarity that makes a hit, a fraction <<num, den>>
  MaxSystem, MaxUser,  \* words the compressor keeps
  Price,               \* per tier: what a call costs
  MaxCalls             \* bound on requests

Tiers == {"low", "high"}

ASSUME QueryAssumption ==
  Queries # {} /\ Queries \subseteq [system : Seq(Vocabulary), user : Seq(Vocabulary)]
ASSUME NumberAssumption ==
  /\ Threshold[1] \in Nat /\ Threshold[2] \in Nat \ {0}
  /\ MaxSystem \in Nat /\ MaxUser \in Nat /\ MaxCalls \in Nat
  /\ Price \in [Tiers -> Nat]

VARIABLES
  callFn,  \* inner_router._call_fn: how many spies are wrapped around the model
  cache,   \* _store: the queries in the order they were stored, each with its reply
  pc,      \* where each thread is
  req,     \* query and tier argument of its request; how long the cache was at its lookup
  orig,    \* orig_call_fn, its local variable
  result,  \* the RoutingResult it has so far
  history, \* of its request: model calls made, calls the spy saw, what they cost
  together, \* history: two requests have been routed at the same time
  calls     \* history: what the bound counts

vars == <<callFn, cache, pc, req, orig, result, history, together, calls>>

PCs == {"idle", "save", "install", "cheap", "only", "escalate", "restore", "unwind", "put"}
Verdicts == {"good", "bad", "unchecked"}
NoResult == [tier |-> "low", verdict |-> "unchecked", tried |-> <<>>, total |-> 0]
NoRequest == [query |-> CHOOSE q \in Queries : TRUE, tier |-> "auto", looked |-> 0]
NoHistory == [made |-> 0, fired |-> 0, paid |-> 0]

Init ==
  /\ callFn = 0 /\ cache = <<>>
  /\ pc = [t \in Threads |-> "idle"]
  /\ req = [t \in Threads |-> NoRequest]
  /\ orig = [t \in Threads |-> 0]
  /\ result = [t \in Threads |-> NoResult]
  /\ history = [t \in Threads |-> NoHistory]
  /\ together = FALSE /\ calls = 0

Goto(t, from, to) == pc[t] = from /\ pc' = [pc EXCEPT ![t] = to]

-----------------------------------------------------------------------------
(* InMemorySemanticCache, TailTruncationCompressor, KeywordDifficultyClassifier *)

Words(q) == Range(q.system) \cup Range(q.user)

\* The Jaccard coefficient of two queries, a fraction.
Score(p, q) ==
  IF Words(p) \cup Words(q) = {} THEN <<1, 1>>
  ELSE <<Cardinality(Words(p) \cap Words(q)), Cardinality(Words(p) \cup Words(q))>>

AtLeast(x, y) == x[1] * y[2] >= y[1] * x[2]

Similar(p, q) == AtLeast(Score(p, q), Threshold) /\ Score(p, q)[1] > 0

\* Mutant: a query exactly close enough is missed.
BestAbove(q) ==
  {i \in DOMAIN cache :
     /\ ~AtLeast(Threshold, Score(q, cache[i].query))
     /\ \A j \in DOMAIN cache : AtLeast(Score(q, cache[i].query), Score(q, cache[j].query))
     /\ \A j \in 1..(i - 1) : ~AtLeast(Score(q, cache[j].query), Score(q, cache[i].query))}

\* get: of the stored queries that are close enough the closest, of several the earliest.
Best(q) ==
  {i \in DOMAIN cache :
     /\ Similar(q, cache[i].query)
     /\ \A j \in DOMAIN cache : AtLeast(Score(q, cache[i].query), Score(q, cache[j].query))
     /\ \A j \in 1..(i - 1) : ~AtLeast(Score(q, cache[j].query), Score(q, cache[i].query))}

FirstWords(text, n) == SubSeq(text, 1, IF Len(text) < n THEN Len(text) ELSE n)

Compressed(q) == [system |-> FirstWords(q.system, MaxSystem), user |-> FirstWords(q.user, MaxUser)]

IsHard(q) == Words(q) \cap HardWords # {}

-----------------------------------------------------------------------------
(* route *)

Begin(t) ==
  /\ pc[t] = "idle" /\ calls < MaxCalls /\ calls' = calls + 1
  /\ history' = [history EXCEPT ![t] = NoHistory]

\* Whatever tier is asked for, the stored reply is returned.
Hit(t) ==
  /\ Begin(t)
  /\ \E q \in Queries : \E i \in Best(q) :
       result' = [result EXCEPT ![t] = [NoResult EXCEPT !.tier = cache[i].tier,
                                                        !.verdict = cache[i].verdict]]
  /\ UNCHANGED <<callFn, cache, pc, req, orig, together>>

Miss(t) ==
  /\ Begin(t)
  /\ Goto(t, "idle", "save")
  /\ \E q \in Queries, tier \in Tiers \cup {"auto"} :
       /\ Best(q) = {}
       /\ req' = [req EXCEPT ![t] = [query |-> q, tier |-> tier, looked |-> Len(cache)]]
  /\ result' = [result EXCEPT ![t] = NoResult]
  /\ together' = (together \/ \E s \in Threads : pc[s] # "idle")
  /\ UNCHANGED <<callFn, cache, orig>>

\* orig_call_fn = self._inner._call_fn
SaveCallFn(t) ==
  /\ Goto(t, "save", "install")
  /\ orig' = [orig EXCEPT ![t] = callFn]
  /\ UNCHANGED <<callFn, cache, req, result, history, together, calls>>

\* An explicit tier is used as it is; what is left of a query decides how hard it is.
First(t) ==
  IF req[t].tier = "auto" /\ ~IsHard(Compressed(req[t].query)) THEN "cheap" ELSE "only"

\* self._inner._call_fn = spied_call_fn
InstallSpy(t) ==
  /\ Goto(t, "install", First(t))
  /\ callFn' = orig[t] + 1
  /\ UNCHANGED <<cache, req, orig, result, history, together, calls>>

\* One model call through whatever call function is installed now.
CallModel(t, tier, verdict) ==
  /\ result' = [result EXCEPT ![t] =
       [tier |-> tier, verdict |-> verdict,
        tried |-> Append(@.tried, tier), total |-> @.total + Price[tier]]]
  /\ history' = [history EXCEPT ![t] =
       [made |-> @.made + 1, fired |-> @.fired + callFn, paid |-> @.paid + Price[tier]]]
  /\ UNCHANGED <<callFn, cache, req, orig, together, calls>>

\* Easy: the cheap tier, whose reply may be good enough or not.
CallCheap(t) ==
  \/ CallModel(t, "low", "good") /\ Goto(t, "cheap", "restore")
  \/ CallModel(t, "low", "bad") /\ Goto(t, "cheap", "escalate")

\* Mutant: only the last call is counted.
CallForgetting(t) ==
  /\ Goto(t, "escalate", "restore")
  /\ result' = [result EXCEPT ![t] =
       [tier |-> "high", verdict |-> "unchecked",
        tried |-> Append(@.tried, "high"), total |-> Price["high"]]]
  /\ history' = [history EXCEPT ![t].made = @ + 1, ![t].fired = @ + callFn,
                                ![t].paid = @ + Price["high"]]
  /\ UNCHANGED <<callFn, cache, req, orig, together, calls>>

\* Mutant: the cheap reply is returned after all.
CallInVain(t) ==
  /\ Goto(t, "escalate", "restore")
  /\ CallModel(t, "high", "bad")

CallExpensive(t) ==
  /\ Goto(t, "escalate", "restore")
  /\ CallModel(t, "high", "unchecked")

CallOnly(t) ==
  /\ CallModel(t, IF req[t].tier = "auto" THEN "high" ELSE req[t].tier, "unchecked")
  /\ Goto(t, "only", "restore")

\* A model call raises.
ModelRaises(t) ==
  /\ \E from \in {"cheap", "escalate", "only"} : Goto(t, from, "unwind")
  /\ history' = [history EXCEPT ![t].made = @ + 1, ![t].fired = @ + callFn]
  /\ UNCHANGED <<callFn, cache, req, orig, result, together, calls>>

\* The local variables of a call that is over are gone.
Return(t) == req' = [req EXCEPT ![t] = NoRequest] /\ orig' = [orig EXCEPT ![t] = 0]

\* Mutant: the finally is left out.
UnwindOnly(t) ==
  /\ Goto(t, "unwind", "idle")
  /\ Return(t)
  /\ UNCHANGED <<callFn, cache, result, history, together, calls>>

\* finally, and the exception goes on.
Unwind(t) ==
  /\ Goto(t, "unwind", "idle")
  /\ callFn' = orig[t]
  /\ Return(t)
  /\ UNCHANGED <<cache, result, history, together, calls>>

\* self._inner._call_fn = orig_call_fn
Restore(t) ==
  /\ Goto(t, "restore", "put")
  /\ callFn' = orig[t]
  /\ UNCHANGED <<cache, req, orig, result, history, together, calls>>

\* Mutant: the tier argument is stored in place of the tier that answered.
PutAsAsked(t) ==
  /\ Goto(t, "put", "idle")
  /\ cache' = Append(cache, [query |-> req[t].query, tier |-> req[t].tier,
                             verdict |-> result[t].verdict, looked |-> req[t].looked])
  /\ Return(t)
  /\ UNCHANGED <<callFn, result, history, together, calls>>

\* Stored under the whole query, whatever was left of it for the model.
Put(t) ==
  /\ Goto(t, "put", "idle")
  /\ cache' = Append(cache, [query |-> req[t].query, tier |-> result[t].tier,
                             verdict |-> result[t].verdict, looked |-> req[t].looked])
  /\ Return(t)
  /\ UNCHANGED <<callFn, result, history, together, calls>>

Route(t) ==
  \/ Hit(t) \/ Miss(t) \/ SaveCallFn(t) \/ InstallSpy(t) \/ CallCheap(t) \/ CallExpensive(t)
  \/ CallOnly(t) \/ ModelRaises(t) \/ Unwind(t) \/ Restore(t) \/ Put(t)

Next == \E t \in Threads : Route(t)

Spec == Init /\ [][Next]_vars

-----------------------------------------------------------------------------
(* Properties *)

TypeOK ==
  /\ callFn \in Nat
  /\ cache \in Seq([query : Queries, tier : Tiers, verdict : Verdicts, looked : Nat])
  /\ pc \in [Threads -> PCs]
  /\ req \in [Threads -> [query : Queries, tier : Tiers \cup {"auto"}, looked : Nat]]
  /\ orig \in [Threads -> Nat]
  /\ result \in [Threads -> [tier : Tiers, verdict : Verdicts, tried : Seq(Tiers), total : Nat]]
  /\ history \in [Threads -> [made : Nat, fired : Nat, paid : Nat]]
  /\ together \in BOOLEAN /\ calls \in Nat

\* A query like a stored one is paid for a second time only if it was looked up
\* before that one was stored (optimization.py:201, 243): similar queries are
\* paid for once each by threads that route them at the same time, never later.
PaidTwiceOnlyAtOnce ==
  \A i, j \in DOMAIN cache :
    i < j /\ Similar(cache[j].query, cache[i].query) => cache[j].looked < i

\* A reply the quality checker rejected is replaced by the expensive tier's
\* before anybody gets it, from this request or later from the cache
\* (routing.py:208-217, optimization.py:243).
NoRejectedReply == \A i \in DOMAIN cache : cache[i].verdict # "bad"

\* A request pays for what it asked for and is told so: total_cost_usd is what
\* its calls cost together, a cheap reply thrown away included (routing.py:116,
\* 212); an explicit tier answers itself, and "auto" pays the cheap tier only if
\* no word that was sent is hard (routing.py:147-151).
BilledAsAsked ==
  \A t \in Threads : pc[t] = "put" =>
    /\ result[t].total = history[t].paid
    /\ IF req[t].tier # "auto" THEN result[t].tried = <<req[t].tier>>
       ELSE "low" \in Range(result[t].tried) =>
              Words(Compressed(req[t].query)) \cap HardWords = {}

\* The spy fires on every model call, once (optimization.py:173-175), also after
\* a request that raised (optimization.py:238-240), as long as one request at a
\* time is routed.
SpyCountsCalls == ~together => \A t \in Threads : history[t].fired = history[t].made
=============================================================================

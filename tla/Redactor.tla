------------------------------ MODULE Redactor -------------------------------
(***************************************************************************)
(* C5 (redact.py): what is known to be secret is cut out of a tool output,  *)
(* the configured keys in whatever order the set yields them, then the      *)
(* credential shapes in the order of the list; a model may be asked whether *)
(* anything is left.  A text is a sequence of symbols, one for the          *)
(* characters the keys and the shapes do not tell apart; no key is a part   *)
(* of the mark itself.                                                      *)
(***************************************************************************)
EXTENDS Integers, SequencesExt

CONSTANTS
  Texts,    \* tool outputs
  Mark,     \* [REDACTED]
  Patterns  \* _KNOWN_KEY_PATTERNS: a head, then at least min symbols of the body

ASSUME PatternAssumption ==
  /\ Len(Patterns) \in Nat /\ DOMAIN Patterns = 1..Len(Patterns)
  /\ \A i \in DOMAIN Patterns : Patterns[i].min \in Nat
  /\ \A i \in DOMAIN Patterns : Mark \notin {Patterns[i].head} \cup Patterns[i].body

VARIABLES
  text,       \* the argument
  sensitive,  \* the other argument, a set of exact strings
  asks,       \* redact_with_llm_judge is running, not redact_tool_output alone
  todo,       \* the secrets the first loop has not come to yet
  next,       \* the pattern the second loop comes to next
  cleaned,
  redactions,
  flagged,    \* llm_flagged
  step        \* where the call is

redactor == <<text, sensitive, asks, todo, next, cleaned, redactions, flagged, step>>

RedactorInit ==
  /\ text = <<>> /\ sensitive = {} /\ asks = FALSE /\ todo = {} /\ next = 1
  /\ cleaned = <<>> /\ redactions = <<>> /\ flagged = FALSE /\ step = "ready"

-----------------------------------------------------------------------------
(* Substitution *)

\* How much of t matches at each of its places.
KeyAt(t, key) ==
  [i \in DOMAIN t |-> IF i + Len(key) - 1 <= Len(t) /\ SubSeq(t, i, i + Len(key) - 1) = key
                      THEN Len(key) ELSE 0]

ShapeAt(t, p) ==
  LET Run(i) == CHOOSE n \in 0..(Len(t) - i) :
                  /\ \A j \in (i + 1)..(i + n) : t[j] \in p.body
                  /\ i + n = Len(t) \/ t[i + n + 1] \notin p.body
  IN [i \in DOMAIN t |-> IF t[i] = p.head /\ Run(i) >= p.min THEN Run(i) + 1 ELSE 0]

\* Mutant: goes on one symbol too late.
SubPast(t, at) ==
  LET rest[i \in 1..(Len(t) + 2)] ==
        IF i > Len(t) THEN <<>>
        ELSE IF at[i] > 0 THEN <<Mark>> \o rest[i + at[i] + 1]
        ELSE <<t[i]>> \o rest[i + 1]
  IN rest[1]

\* From the left, each match replaced by the mark and the search resumed behind it.
Sub(t, at) ==
  LET rest[i \in 1..(Len(t) + 1)] ==
        IF i > Len(t) THEN <<>>
        ELSE IF at[i] > 0 THEN <<Mark>> \o rest[i + at[i]]
        ELSE <<t[i]>> \o rest[i + 1]
  IN rest[1]

\* What redactions says of a configured key; of a shape it gives the number.
Configured == 0

-----------------------------------------------------------------------------
(* redact_tool_output *)

Redact(keys) ==
  /\ step = "ready" /\ step' = "keys"
  /\ text' \in Texts /\ sensitive' = keys /\ asks' \in BOOLEAN
  /\ todo' = keys /\ next' = 1
  /\ cleaned' = text' /\ redactions' = <<>> /\ flagged' = FALSE

\* A substitution is logged if it found anything.
Substitute(at, by) ==
  IF \E i \in DOMAIN at : at[i] > 0
  THEN /\ cleaned' = Sub(cleaned, at)
       /\ redactions' = Append(redactions, by)
  ELSE UNCHANGED <<cleaned, redactions>>

\* Mutant: every secret is cut out of the text as it came.
RedactKeyAfresh ==
  /\ step = "keys"
  /\ \E key \in todo :
       /\ todo' = todo \ {key}
       /\ IF key \in SubSeqs(text) \ {<<>>}
          THEN /\ cleaned' = Sub(text, KeyAt(text, key))
               /\ redactions' = Append(redactions, Configured)
          ELSE UNCHANGED <<cleaned, redactions>>
  /\ UNCHANGED <<text, sensitive, asks, next, flagged, step>>

\* Mutant: one secret found is enough.
RedactKeyOnce ==
  /\ step = "keys"
  /\ \E key \in todo :
       /\ todo' = IF key \in SubSeqs(cleaned) \ {<<>>} THEN {} ELSE todo \ {key}
       /\ Substitute(KeyAt(cleaned, key), Configured)
  /\ UNCHANGED <<text, sensitive, asks, next, flagged, step>>

RedactKey ==
  /\ step = "keys"
  /\ \E key \in todo : todo' = todo \ {key} /\ Substitute(KeyAt(cleaned, key), Configured)
  /\ UNCHANGED <<text, sensitive, asks, next, flagged, step>>

\* Mutant: logs the number of the shape it comes to next.
RedactShapeMislogged ==
  /\ step = "keys" /\ todo = {} /\ next <= Len(Patterns)
  /\ next' = next + 1
  /\ Substitute(ShapeAt(cleaned, Patterns[next]), next')
  /\ UNCHANGED <<text, sensitive, asks, todo, flagged, step>>

RedactShape ==
  /\ step = "keys" /\ todo = {} /\ next <= Len(Patterns)
  /\ Substitute(ShapeAt(cleaned, Patterns[next]), next)
  /\ next' = next + 1
  /\ UNCHANGED <<text, sensitive, asks, todo, flagged, step>>

\* The structural result, returned or shown to the judge.
Structural ==
  /\ step = "keys" /\ todo = {} /\ next > Len(Patterns)
  /\ step' = IF asks THEN "judge" ELSE "returned"
  /\ UNCHANGED <<text, sensitive, asks, todo, next, cleaned, redactions, flagged>>

\* Mutant: only configured keys make a text unsafe.
LogSafeOfKeys == ~flagged /\ \A i \in DOMAIN redactions : redactions[i] # Configured

LogSafe == ~flagged /\ redactions = <<>>

-----------------------------------------------------------------------------
(* redact_with_llm_judge *)

\* It says whether it found a leak, or raises and the structural result stands;
\* an answer without a .get raises behind the except, and nothing is returned.
Judge ==
  /\ step = "judge"
  /\ \/ step' = "returned" /\ flagged' \in BOOLEAN
     \/ step' = "raised" /\ UNCHANGED flagged
  /\ UNCHANGED <<text, sensitive, asks, todo, next, cleaned, redactions>>

\* The caller has the RedactionResult or the exception; the local variables are gone.
Return ==
  /\ step \in {"returned", "raised"} /\ step' = "ready"
  /\ text' = <<>> /\ sensitive' = {} /\ asks' = FALSE /\ next' = 1
  /\ cleaned' = <<>> /\ redactions' = <<>> /\ flagged' = FALSE
  /\ UNCHANGED todo

Redacting == RedactKey \/ RedactShape \/ Structural \/ Judge \/ Return

\* The redactor by itself, for callers that know some of these secrets.
RedactorNext(secrets) == (\E keys \in SUBSET secrets : Redact(keys)) \/ Redacting
RedactorSpec(secrets) == RedactorInit /\ [][RedactorNext(secrets)]_redactor

-----------------------------------------------------------------------------
(* Properties *)

RedactorTypeOK ==
  /\ text \in Texts \cup {<<>>} /\ todo \subseteq sensitive
  /\ asks \in BOOLEAN /\ flagged \in BOOLEAN /\ next \in 1..(Len(Patterns) + 1)
  /\ Range(cleaned) \subseteq Range(text) \cup {Mark}
  /\ Range(redactions) \subseteq {Configured} \cup DOMAIN Patterns
  /\ step \in {"ready", "keys", "judge", "returned", "raised"}

\* "Configured API key must never appear in redacted output"
\* (tests/test_failures.py:84), nor in what the judge is shown (redact.py:99):
\* every occurrence of every secret is gone, in whatever order they came, also
\* where they overlap.
NoKeyLeft ==
  step \in {"judge", "returned"} => \A key \in sensitive \ {<<>>} : key \notin SubSeqs(cleaned)

\* What is left of s if only these symbols are kept.
Kept(s, symbols) ==
  LET kept[i \in 1..(Len(s) + 1)] ==
        IF i > Len(s) THEN <<>>
        ELSE IF s[i] \in symbols THEN <<s[i]>> \o kept[i + 1]
        ELSE kept[i + 1]
  IN kept[1]

\* The symbols of the text no secret and no shape has in it.
Plain ==
  {symbol \in Range(text) \ {Mark} :
     /\ \A key \in sensitive : symbol \notin Range(key)
     /\ \A i \in DOMAIN Patterns : symbol # Patterns[i].head /\ symbol \notin Patterns[i].body}

\* They get through, in their order and as often as they were there, with an empty
\* string among the secrets as well (redact.py:60-61, tests/test_redact.py:20).
RestUntouched == Kept(cleaned, Plain) = Kept(text, Plain)

\* log_safe says that the text is as it came and nobody found anything in it
\* (redact.py:72, 115), so that every change of the text can be seen in the log.
LogSafeIfUntouched == step = "returned" => (LogSafe <=> cleaned = text /\ ~flagged)

Apart == \A k, l \in sensitive : k # l => Range(k) \cap Range(l) = {}

\* How much of the text matches at each place, if all these are cut out at once.
AtOnce(keys) == [i \in DOMAIN text |-> Max({KeyAt(text, key)[i] : key \in keys} \cup {0})]

\* "deterministic" (redact.py:98), for secrets that have no symbol in common:
\* wherever the first loop is, the text is the one in which all it has come to are
\* cut out at once, whatever the order of the set.  Of two that overlap the first
\* one wins.
OrderIrrelevant ==
  step = "keys" /\ next = 1 /\ Apart => cleaned = Sub(text, AtOnce(sensitive \ todo))
=============================================================================

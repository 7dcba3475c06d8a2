------------------------------ MODULE MCStartup ------------------------------
(***************************************************************************)
(* Small instances of Startup for TLC: a config.yaml that is missing,       *)
(* empty, short, complete, no dictionary, or has a section or a number that *)
(* is none, the CI file, and the example file of the repository or none.    *)
(***************************************************************************)
EXTENDS Startup

CONSTANTS
  a, b, c, x, head, tail,
  numeral,         \* the text "15"
  decimal, quoted, \* the number 30.9, and the text "30.9"
  words            \* the text "30s"

Numbers == {0, 1, 2, 3, 5, 7, 10, 30, 50000, 3600, 60, 120}
MCFalsy == {Null, 0}
MCAsInt == [v \in Numbers \cup {numeral, decimal} |->
              CASE v = numeral -> 15 [] v = decimal -> 30 [] OTHER -> v]
MCAsFloat == [v \in Numbers \cup {numeral, decimal, quoted} |->
                CASE v = numeral -> 15 [] v = quoted -> decimal [] OTHER -> v]
MCAsText(v) == IF v = Null THEN "None" ELSE v

WithKey(key) ==
  Dict([api_key |-> Scalar(key),
        tiers |-> Dict([low |-> Dict([model |-> Scalar("m"), input_price_per_token |-> Scalar(2)]),
                        high |-> Dict([model |-> Scalar("m")])])])

Placeholder == <<x, x>>

ExampleFile ==
  Dict([default_provider |-> Scalar("mimo"),
        providers |-> Dict([mimo |-> WithKey(Placeholder), minimax |-> WithKey(Placeholder)]),
        judge |-> Dict([provider |-> Scalar("minimax"), tier |-> Scalar("medium")]),
        litellm |-> Scalar(Null),
        budget |-> Dict([default_limit_tokens |-> Scalar(50000), window_seconds |-> Scalar(3600)]),
        breaker |-> Dict([failure_threshold |-> Scalar(3), recovery_seconds |-> Scalar(30)])])

CiFile ==
  Dict([mode |-> Scalar("mock"),
        providers |-> Dict([mimo |-> WithKey(<<a>>), minimax |-> WithKey(<<b, c>>)]),
        litellm |-> Dict([timeout |-> Scalar(10), num_retries |-> Scalar(1)]),
        budget |-> Dict([default_limit_usd |-> Scalar(1)]),
        breaker |-> Dict([failure_threshold |-> Scalar(2), recovery_seconds |-> Scalar(5)])])

\* One provider without a key, one the example does not have.
OwnFile ==
  Dict([providers |-> Dict([mimo |-> Dict([tiers |-> Dict([low |-> Dict([model |-> Scalar("n")])])]),
                            other |-> WithKey(<<a, b>>), third |-> WithKey(<<b, c>>)]),
        litellm |-> Dict([timeout |-> Scalar(decimal)]),
        budget |-> Dict([default_limit_tokens |-> Scalar(7)]),
        breaker |-> Dict([failure_threshold |-> Scalar(numeral), recovery_seconds |-> Scalar(quoted)]),
        mode |-> Scalar(Null)])

KeylessFile ==
  Dict([providers |-> Dict([other |-> Dict([tiers |-> Dict(<<>>)])]), litellm |-> Dict(<<>>)])

\* The example copied, as README.md:140 has it, and a key filled in.
CopiedFile ==
  Dict([ExampleFile.dict EXCEPT !["providers"] = Dict([mimo |-> WithKey(<<a>>)])])

WithProvider(provider) == Dict([litellm |-> Dict(<<>>), providers |-> Dict([mimo |-> provider])])
WithTiers(tiers) == WithProvider(Dict([tiers |-> tiers]))

\* Nothing, or words, where a provider, its tiers, a tier or a number is read.
UnreadableFiles ==
  UNION {{WithProvider(node), WithTiers(node), WithTiers(Dict([low |-> node])),
          WithTiers(Dict([low |-> Dict([input_price_per_token |-> node])])),
          Dict([litellm |-> Dict([timeout |-> node])])} : node \in {Scalar(Null), Scalar(words)}}
  \cup {Dict([litellm |-> Dict(<<>>), breaker |-> Dict([failure_threshold |-> Scalar(quoted)])])}

MCCanonical ==
  {Absent, Scalar(Null), Scalar(words), OwnFile, KeylessFile, CopiedFile} \cup UnreadableFiles
MCCi == {Absent, CiFile}
MCExample == {Absent, Scalar(0), Scalar(words), ExampleFile}
MCPaths == {Null, "config.ci.yaml"}

MCAlphabet == {a, b, c, x, head, tail}
MCTexts == UNION {[1..n -> MCAlphabet \ {x, tail}] : n \in 0..3} \cup {<<x, a, b, c, x>>, <<head, tail, tail, a, x>>, <<a, b, a, b>>,
             <<head, tail, head, tail, tail>>, <<x, head, tail>>, <<a, head, tail, tail, b>>}
MCPatterns == <<[head |-> head, body |-> {tail}, min |-> 2],
                [head |-> c, body |-> {tail, x}, min |-> 1]>>
=============================================================================

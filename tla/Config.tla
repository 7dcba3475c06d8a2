------------------------------- MODULE Config --------------------------------
(***************************************************************************)
(* load_config (config.py): one YAML file is chosen, laid over              *)
(* config.example.yaml if that is there, and read section by section.       *)
(* A YAML value is a dictionary or something else, a scalar here; a key     *)
(* with nothing behind its colon has the scalar Null.  Nothing load_config  *)
(* reads lies deeper than the settings of a tier, in file, section,         *)
(* provider, tiers and tier.                                                *)
(***************************************************************************)
EXTENDS Naturals, Sequences

CONSTANTS
  Null,   \* None
  Absent, \* instead of a file: there is none
  Falsy,  \* scalars that "or {}" drops: None, an empty text, zero
  AsInt, AsFloat,  \* int() and float(), functions on the scalars they do not raise for
  AsText(_)        \* str()

Dict(f) == [dict |-> f]
Scalar(v) == [scalar |-> v]
IsDict(node) == "dict" \in DOMAIN node

\* node.get(key, {}) and node.get(key, default)
Section(node, key) == IF key \in DOMAIN node.dict THEN node.dict[key] ELSE Dict(<<>>)
Item(node, key, default) == IF key \in DOMAIN node.dict THEN node.dict[key].scalar ELSE default

\* Mutant: a section that is overridden is replaced as a whole.
ShallowMerge(base, override) ==
  Dict([key \in DOMAIN base.dict \cup DOMAIN override.dict |->
          IF key \in DOMAIN override.dict THEN override.dict[key] ELSE base.dict[key]])

\* One call of _deep_merge; Deeper is the next one, on two dictionaries.
Overlay(base, override, Deeper(_, _)) ==
  LET Both(key) == /\ key \in DOMAIN base.dict /\ IsDict(base.dict[key])
                   /\ key \in DOMAIN override.dict /\ IsDict(override.dict[key])
  IN Dict([key \in DOMAIN base.dict \cup DOMAIN override.dict |->
             IF Both(key) THEN Deeper(base.dict[key], override.dict[key])
             ELSE IF key \in DOMAIN override.dict THEN override.dict[key] ELSE base.dict[key]])

Override(base, override) == override
MergeTier(base, override) == Overlay(base, override, Override)
MergeTiers(base, override) == Overlay(base, override, MergeTier)
MergeProvider(base, override) == Overlay(base, override, MergeTiers)
MergeSection(base, override) == Overlay(base, override, MergeProvider)
DeepMerge(base, override) == Overlay(base, override, MergeSection)

-----------------------------------------------------------------------------
(* What is read, and what it is if no file says so *)

TopLevel == [mode |-> "real", default_provider |-> "minimax", routed_model |-> "step-3.7-flash"]

Sections ==
  [judge   |-> [provider |-> "minimax", tier |-> "medium"],
   redis   |-> [url |-> "localhost"],
   litellm |-> [timeout |-> 120, num_retries |-> 2],
   budget  |-> [default_limit_usd |-> 10, window_seconds |-> 3600],
   breaker |-> [failure_threshold |-> 3, recovery_seconds |-> 30]]

\* The sections whose values go through int() or float().
Numeric == {"litellm", "budget", "breaker"}
Conversion(section, key) ==
  IF section = "litellm" \/ key = "failure_threshold" THEN AsInt ELSE AsFloat
Converted(section, key, value) ==
  IF section \in Numeric THEN Conversion(section, key)[value] ELSE value

Prices ==
  [input_price_per_token |-> 0, output_price_per_token |-> 0, cache_read_price_per_token |-> 0]

\* The defaults are numbers and texts already, and nothing is no number.
ASSUME ConversionAssumption ==
  /\ Null \in Falsy /\ Null \notin DOMAIN AsInt \cup DOMAIN AsFloat
  /\ \A s \in Numeric : \A key \in DOMAIN Sections[s] :
       /\ Sections[s][key] \in DOMAIN Conversion(s, key)
       /\ Converted(s, key, Sections[s][key]) = Sections[s][key]
  /\ 0 \in DOMAIN AsFloat /\ AsFloat[0] = 0
  /\ \A key \in DOMAIN TopLevel : AsText(TopLevel[key]) = TopLevel[key]

\* A budget in default_limit_tokens counts where default_limit_usd is missing.
Setting(raw, section, key) ==
  LET node == Section(raw, section)
  IN Item(node, key, IF key = "default_limit_usd"
                     THEN Item(node, "default_limit_tokens", Sections[section][key])
                     ELSE Sections[section][key])

-----------------------------------------------------------------------------
(* load_config *)

\* Instead of a configuration: load_config raises.
Failure == [outcome |-> "raised"]

\* The path asked for, or the first of the two usual names that is there.
Chosen(files, path) ==
  IF path # Null THEN files[path]
  ELSE IF files["config.yaml"] # Absent THEN files["config.yaml"] ELSE files["config.ci.yaml"]

\* yaml.safe_load(...) or {}
Content(file) == IF ~IsDict(file) /\ file.scalar \in Falsy THEN Dict(<<>>) ELSE file

\* A file or an example that is no dictionary by then raises in _deep_merge, or
\* at the first .get.
Mapping(file, example) ==
  IsDict(Content(file)) /\ (example = Absent \/ IsDict(Content(example)))

\* Mutant: the example file is laid over the one chosen.
MergedWrong(file, example) ==
  IF example = Absent THEN Content(file) ELSE DeepMerge(Content(file), Content(example))

Merged(file, example) ==
  IF example = Absent THEN Content(file) ELSE DeepMerge(Content(example), Content(file))

Providers(raw) == Section(raw, "providers").dict
Tiers(raw, name) == Section(Providers(raw)[name], "tiers").dict

\* Every section, provider and tier is a dictionary, and every number one that
\* int() or float() takes.
Readable(raw) ==
  /\ \A s \in {"providers"} \cup DOMAIN Sections : IsDict(Section(raw, s))
  /\ \A s \in Numeric : \A key \in DOMAIN Sections[s] :
       Setting(raw, s, key) \in DOMAIN Conversion(s, key)
  /\ \A name \in DOMAIN Providers(raw) :
       /\ IsDict(Providers(raw)[name]) /\ IsDict(Section(Providers(raw)[name], "tiers"))
       /\ \A tier \in DOMAIN Tiers(raw, name) :
            /\ IsDict(Tiers(raw, name)[tier])
            /\ \A key \in DOMAIN Prices : Item(Tiers(raw, name)[tier], key, 0) \in DOMAIN AsFloat

Parsed(raw) ==
  [top |-> [key \in DOMAIN TopLevel |-> AsText(Item(raw, key, TopLevel[key]))],
   sections |-> [s \in DOMAIN Sections |->
                   [key \in DOMAIN Sections[s] |-> Converted(s, key, Setting(raw, s, key))]],
   keys |-> [name \in DOMAIN Providers(raw) |-> Item(Providers(raw)[name], "api_key", <<>>)],
   prices |-> [name \in DOMAIN Providers(raw) |->
                 [tier \in DOMAIN Tiers(raw, name) |->
                    [key \in DOMAIN Prices |-> AsFloat[Item(Tiers(raw, name)[tier], key, Prices[key])]]]]]

LoadConfig(files, path) ==
  LET file    == Chosen(files, path)
      example == files["config.example.yaml"]
      raw     == Merged(file, example)
  IN IF file = Absent \/ ~Mapping(file, example) \/ ~Readable(raw) THEN Failure
     ELSE Parsed(raw)
=============================================================================

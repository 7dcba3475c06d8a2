------------------------------- MODULE Startup -------------------------------
(***************************************************************************)
(* A process of the gateway reads its configuration and redacts tool        *)
(* outputs with the API keys it was given (run.py:191-203, README.md:124).  *)
(***************************************************************************)
EXTENDS Config, Redactor

CONSTANTS
  Canonical, Ci, Example,  \* what config.yaml, config.ci.yaml and the example file may hold
  Paths,                   \* --config, Null for none
  Alphabet                 \* the symbols of texts and keys

Names == {"config.yaml", "config.ci.yaml", "config.example.yaml"}

\* The dictionary behind a key, empty if there is none.
Part(node, key) ==
  IF key \in DOMAIN node.dict /\ IsDict(node.dict[key]) THEN node.dict[key] ELSE Dict(<<>>)

Provider(file, name) == Part(Part(file, "providers"), name)
Tier(file, name, tier) == Part(Part(Provider(file, name), "tiers"), tier)

\* No dictionary where a plain value is read.
Plainly(node, keys) == \A key \in keys \cap DOMAIN node.dict : ~IsDict(node.dict[key])

Shaped(file) ==
  /\ Plainly(file, DOMAIN TopLevel)
  /\ \A s \in DOMAIN Sections :
       Plainly(Part(file, s), DOMAIN Sections[s] \cup {"default_limit_tokens"})
  /\ \A name \in DOMAIN Part(file, "providers").dict :
       /\ Plainly(Provider(file, name), {"api_key"})
       /\ \A tier \in DOMAIN Part(Provider(file, name), "tiers").dict :
            Plainly(Tier(file, name, tier), DOMAIN Prices)

\* The files that are dictionaries.
Present == {file \in {Content(f) : f \in (Canonical \cup Ci \cup Example) \ {Absent}} : IsDict(file)}

ASSUME FileAssumption == \A file \in Present : Shaped(file)

\* The example has the limit under its old name (config.example.yaml:46).
ASSUME ExampleAssumption ==
  \A file \in {Content(f) : f \in Example \ {Absent}} \cap Present :
    "default_limit_usd" \notin DOMAIN Part(file, "budget").dict

ASSUME PathAssumption == Paths \subseteq Names \cup {Null}

\* The keys the files give, and the one of a provider that has none.
KeysOf(file) ==
  {Item(Provider(file, name), "api_key", <<>>) : name \in DOMAIN Part(file, "providers").dict}
Given == {<<>>} \cup UNION {KeysOf(file) : file \in Present}

ASSUME TextAssumption == Texts \subseteq Seq(Alphabet) /\ Given \subseteq Seq(Alphabet \ {Mark})

VARIABLES
  files,  \* on disk
  path,   \* --config
  config  \* what load_config made of them

\* Before load_config has run.
Unread == [outcome |-> "none yet"]

vars == <<files, path, config, redactor>>

Init ==
  /\ \E c \in Canonical, i \in Ci, e \in Example :
       files = [name \in Names |-> CASE name = "config.yaml" -> c
                                     [] name = "config.ci.yaml" -> i
                                     [] OTHER -> e]
  /\ path \in Paths
  /\ config = Unread
  /\ RedactorInit

Load ==
  /\ config = Unread
  /\ config' = LoadConfig(files, path)
  /\ UNCHANGED <<files, path, redactor>>

Loaded == config \notin {Unread, Failure}
Keys == {config.keys[name] : name \in DOMAIN config.keys}

\* The caller hands over any of the configured keys.
RedactOutput ==
  /\ Loaded
  /\ \E keys \in SUBSET Keys : Redact(keys)
  /\ UNCHANGED <<files, path, config>>

Next == Load \/ RedactOutput \/ (Redacting /\ UNCHANGED <<files, path, config>>)

\* A process stays without work, or ends with the exception of load_config.
Spec == Init /\ [][Next]_vars

-----------------------------------------------------------------------------
(* Properties *)

File == Content(Chosen(files, path))
Fallback == IF files["config.example.yaml"] = Absent THEN Dict(<<>>)
            ELSE Content(files["config.example.yaml"])

\* What a file says of a setting; a limit may have either of its two names.
Said(file, s, k, default) ==
  LET node == Part(file, s)
  IN Item(node, k, IF k = "default_limit_usd" THEN Item(node, "default_limit_tokens", default)
                   ELSE default)

\* What the chosen file says, else what the example says, else the default.
Wanted(s, k) == Said(File, s, k, Said(Fallback, s, k, Sections[s][k]))

Either(node, fallback, key, default) == Item(node, key, Item(fallback, key, default))
InEither(node, fallback) == DOMAIN node.dict \cup DOMAIN fallback.dict

\* "Merge defaults from config.example.yaml" (config.py:107): a setting is what
\* the chosen file says it is, under either name of the limit; what the example
\* says if that file is silent; and the default if both are.  So is each key and
\* each price of the providers and tiers of both files, and a key the chosen file
\* gives is never the example's placeholder (config.example.yaml:2, 11).  Numbers
\* and texts are what int(), float() and str() make of that.
OwnSettingsWin ==
  Loaded =>
    /\ \A k \in DOMAIN TopLevel : config.top[k] = AsText(Either(File, Fallback, k, TopLevel[k]))
    /\ \A s \in DOMAIN Sections : \A k \in DOMAIN Sections[s] :
         config.sections[s][k] = Converted(s, k, Wanted(s, k))
    /\ DOMAIN config.keys = InEither(Part(File, "providers"), Part(Fallback, "providers"))
    /\ DOMAIN config.prices = DOMAIN config.keys
    /\ \A name \in DOMAIN config.keys :
         LET own == Provider(File, name)
             fallback == Provider(Fallback, name)
         IN /\ config.keys[name] = Either(own, fallback, "api_key", <<>>)
            /\ DOMAIN config.prices[name] = InEither(Part(own, "tiers"), Part(fallback, "tiers"))
            /\ \A tier \in DOMAIN config.prices[name] : \A k \in DOMAIN Prices :
                 config.prices[name][tier][k] =
                   AsFloat[Either(Tier(File, name, tier), Tier(Fallback, name, tier), k, Prices[k])]

\* What counts at a key is not the dictionary load_config takes it for.
Flat(node, fallback, key) ==
  IF key \in DOMAIN node.dict THEN ~IsDict(node.dict[key])
  ELSE key \in DOMAIN fallback.dict /\ ~IsDict(fallback.dict[key])

UnreadableProvider(name) ==
  LET own == Provider(File, name)
      fallback == Provider(Fallback, name)
  IN \/ Flat(Part(File, "providers"), Part(Fallback, "providers"), name)
     \/ Flat(own, fallback, "tiers")
     \/ \E tier \in InEither(Part(own, "tiers"), Part(fallback, "tiers")) :
          \/ Flat(Part(own, "tiers"), Part(fallback, "tiers"), tier)
          \/ \E k \in DOMAIN Prices :
               Either(Tier(File, name, tier), Tier(Fallback, name, tier), k, Prices[k])
               \notin DOMAIN AsFloat

\* Of files that are YAML with no dictionary where a plain value is read,
\* load_config raises exactly for these: none; one, or an example, that holds
\* something and no dictionary (config.py:106, 111); a section, a provider, its
\* tiers or a tier that is no dictionary, as with nothing behind its colon
\* (config.example.yaml:40); and a number that int() or float() does not take
\* (config.py:123-125, 147-148).  What the example holds counts where the file is
\* silent.
RaisesForUnreadableFiles ==
  config = Failure <=>
    /\ config # Unread
    /\ \/ Chosen(files, path) = Absent
       \/ ~IsDict(File) \/ ~IsDict(Fallback)
       \/ \E s \in DOMAIN Sections \cup {"providers"} : Flat(File, Fallback, s)
       \/ \E s \in Numeric : \E k \in DOMAIN Sections[s] : Wanted(s, k) \notin DOMAIN Conversion(s, k)
       \/ \E name \in InEither(Part(File, "providers"), Part(Fallback, "providers")) :
            UnreadableProvider(name)
=============================================================================

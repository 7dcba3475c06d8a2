--------------------------- MODULE MCCachedRouter ----------------------------
(* A small instance of CachedRouter for TLC. *)
EXTENDS CachedRouter, TLC

CONSTANTS chat, lookup, again, derive

Ask(system, user) == [system |-> system, user |-> user]

\* The second is just similar enough to the first.  The third has its hard word
\* in the system prompt, the fourth beyond what the compressor keeps.
MCQueries ==
  {Ask(<<chat>>, <<lookup>>), Ask(<<chat>>, <<lookup, again>>),
   Ask(<<derive>>, <<lookup>>), Ask(<<chat>>, <<lookup, again, derive>>)}
TwoThirds == <<2, 3>>
MCPrice == [low |-> 1, high |-> 3]
Alike == Permutations(Threads)
=============================================================================

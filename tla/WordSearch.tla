----------------------------- MODULE WordSearch -----------------------------
(***************************************************************************)
(* What the program promises, with no launches, devices or buffers: it     *)
(* rules words out, and ends by reporting a word that hashes to the        *)
(* target, or by giving up once every word is ruled out, or by failing.    *)
(***************************************************************************)
CONSTANT Words  \* the search space

VARIABLES
  matches,   \* the words that hash to the target; fixed
  excluded,  \* the words known not to match
  outcome,   \* "searching", or how the search ended
  answer     \* {} until a word is reported, then the singleton of it

searchVars == << matches, excluded, outcome, answer >>

SearchInit ==
  /\ matches \subseteq Words
  /\ excluded = {}
  /\ outcome = "searching"
  /\ answer = {}

\* A batch of words was tried, and none of them matches.
RuleOut ==
  /\ outcome = "searching"
  /\ excluded' \in SUBSET Words
  /\ excluded \subseteq excluded'
  /\ (excluded' \ excluded) \cap matches = {}
  /\ UNCHANGED << matches, outcome, answer >>

Report(w) ==
  /\ outcome = "searching"
  /\ w \in matches
  /\ outcome' = "found"
  /\ answer' = {w}
  /\ UNCHANGED << matches, excluded >>

GiveUp ==
  /\ outcome = "searching"
  /\ excluded = Words
  /\ outcome' = "notfound"
  /\ UNCHANGED << matches, excluded, answer >>

Fail ==
  /\ outcome = "searching"
  /\ outcome' = "aborted"
  /\ UNCHANGED << matches, excluded, answer >>

SearchNext ==
  \/ RuleOut
  \/ \E w \in Words : Report(w)
  \/ GiveUp
  \/ Fail

SearchSpec == SearchInit /\ [][SearchNext]_searchVars

=============================================================================

------------------------------ MODULE EffortSpec ------------------------------
(***************************************************************************)
(* The effort DSL of spec.go: a spec string is parsed into a Resolver that *)
(* maps the bucket of an inbound `thinking` block to the regime the proxy  *)
(* imposes on the outbound body.                                           *)
(*                                                                         *)
(* A spec string is abstracted to the record the parser sees:              *)
(*   kind    "unset"  the empty string                                     *)
(*           "off"    the literal off                                      *)
(*           "const"  a level keyword                                      *)
(*           "auto"   the bare keyword                                     *)
(*           "autoTo" auto:<level>                                         *)
(*           "matrix" bucket=value clauses separated by |                  *)
(*   level   the level keyword of "const" and "autoTo"                     *)
(*   clauses the clauses of "matrix", in the order they are written        *)
(* Any token that is no keyword is the one value "bad".                    *)
(***************************************************************************)
EXTENDS Integers, SequencesExt

CONSTANT HugeBudget
  \* What Go's int(x) yields for a float64 that no int holds: the language
  \* leaves it to the architecture.

ASSUME HugeBudgetAssumption == HugeBudget \in Int

Buckets    == {"none", "high", "max"}
Levels     == {"none", "high", "max"}
RegimeOff  == ""
Regimes    == Levels \cup {RegimeOff}
UltraThink == 31000

Clauses == [bucket : Buckets \cup {"bad"}, value : Levels \cup {"off", "bad"}]
Kinds   == {"unset", "off", "const", "auto", "autoTo", "matrix"}
Specs   == [kind : Kinds, level : Levels \cup {"bad"}, clauses : Seq(Clauses)]

NoResolver == [b \in Buckets |-> RegimeOff]

-------------------------------------------------------------------------------
(* ParseSpec *)

GoodClause(c) == c.bucket \in Buckets /\ c.value # "bad"

\* The matrix is filled from left to right, `off` clauses being skipped, so the
\* last clause of a bucket that names a level decides.
MatrixResolver(clauses) ==
  [b \in Buckets |->
     LET levels == {i \in 1 .. Len(clauses) :
                      clauses[i].bucket = b /\ clauses[i].value \in Levels}
     IN  IF levels = {} THEN RegimeOff ELSE clauses[Max(levels)].value]

ParseFails(s) ==
  \/ s.kind = "autoTo" /\ s.level \notin Levels
  \/ s.kind = "matrix" /\ \E i \in 1 .. Len(s.clauses) : ~ GoodClause(s.clauses[i])

\* A nil Resolver and one that answers RegimeOff to every bucket act alike: the
\* request is left alone.
Resolver(s) ==
  CASE s.kind = "const"  -> [b \in Buckets |-> s.level]
    [] s.kind = "auto"   -> [b \in Buckets |-> b]
    [] s.kind = "autoTo" -> [b \in Buckets |-> IF b = "none" THEN s.level ELSE b]
    [] s.kind = "matrix" -> MatrixResolver(s.clauses)
    [] OTHER             -> NoResolver

\* isEffortActive: the test the lifecycle gate makes of each spec.
IsEffortActive(s) == s.kind \notin {"unset", "off"}

-------------------------------------------------------------------------------
(* The `thinking` block.  "scalar" is a JSON value that is not an object.  *)

ThinkingTypes == {"absent", "scalar", "enabled", "other"}
Budgets  == [kind : {"absent", "number", "huge", "text"}, n : Int]
NoBudget == [kind |-> "absent", n |-> 0]
Thinking == [type : ThinkingTypes, budget : Budgets]
NoThinking == [type |-> "absent", budget |-> NoBudget]

Efforts == {"absent", "low", "medium", "high", "max"}

BudgetTokens(budget) ==
  CASE budget.kind = "number" -> budget.n
    [] budget.kind = "huge"   -> HugeBudget
    [] OTHER                  -> 0

\* An unparseable budget classifies as "high", as do an absent and a small one.
BucketFromThinking(thinking) ==
  CASE thinking.type # "enabled"                      -> "none"
    [] /\ thinking.type = "enabled"
       /\ thinking.budget.kind # "text"
       /\ BudgetTokens(thinking.budget) >= UltraThink -> "max"
    [] OTHER                                          -> "high"

\* Mutant of KeptBudget: the new thinking object starts empty.
KeptBudgetDropped(thinking) == NoBudget

\* The budget an existing `thinking` object hands on to the one that replaces it.
KeptBudget(thinking) ==
  IF thinking.type \in {"enabled", "other"} THEN thinking.budget ELSE NoBudget

ApplyRegime(body, regime) ==
  CASE regime = RegimeOff -> body
    [] regime = "none"    -> [body EXCEPT !.thinking = NoThinking,
                                          !.reasoning_effort = "absent"]
    [] OTHER -> [body EXCEPT
                   !.thinking = [type |-> "enabled", budget |-> KeptBudget(@)],
                   !.reasoning_effort = IF regime = "max" THEN "max" ELSE "absent"]
===============================================================================

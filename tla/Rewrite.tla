-------------------------------- MODULE Rewrite --------------------------------
(***************************************************************************)
(* rewrite.go: what happens to a /v1/messages body before vision routing,  *)
(* and the choice of the effort spec.                                      *)
(*                                                                         *)
(* The types below say what a body is; string content is the sequence of   *)
(* one text block, which every transform treats alike.                     *)
(***************************************************************************)
EXTENDS EffortSpec

CONSTANTS
  ClaudeIds,   \* the model ids that start with "claude-"
  FileIds,     \* the ids newFileID can mint
  NoData       \* what a store holds for an id it has no entry for

NoModel == ""
NoFile  == ""  \* a file source without a file_id

SpoofOpus   == "claude-opus-4-7"
SpoofSonnet == "claude-sonnet-4-6"
SpoofHaiku  == "claude-haiku-4-5"
Spoofs      == {SpoofOpus, SpoofSonnet, SpoofHaiku}

ASSUME SpoofsAreClaudeIds == Spoofs \subseteq ClaudeIds /\ NoModel \notin ClaudeIds

-------------------------------------------------------------------------------
(* Bodies of claude's requests, with references to files of the set ids    *)
(* and base64 sources of the set data.  claude calls tools in its own turns *)
(* and hands in the results in the user's; nothing is nested any deeper.   *)

\* The placeholder is a string too; it is named for the provers, which take no
\* literal for a member of STRING.
PlaceholderText == "[image - in current turn]"
Texts           == STRING \cup {PlaceholderText}

Sources(ids, data) == [type : {"file"}, id : ids \cup {NoFile}]
                        \cup [type : {"base64"}, data : data]

PlainBlocks(ids, data) == [type : {"text"}, text : Texts]
                            \cup [type : {"image", "document"}, source : Sources(ids, data)]
ToolUses               == [type : {"tool_use"}, name : STRING]
ToolResults(ids, data) == [type : {"tool_result"}, content : Seq(PlainBlocks(ids, data))]

UserBlocks(ids, data)      == PlainBlocks(ids, data) \cup ToolResults(ids, data)
AssistantBlocks(ids, data) == PlainBlocks(ids, data) \cup ToolUses

Turns(ids, data) == [role : {"user"}, content : Seq(UserBlocks(ids, data))]
                      \cup [role : {"assistant"}, content : Seq(AssistantBlocks(ids, data))]

\* Of a body that is not JSON only the field json means anything.
MessageBodies(ids, data) ==
  [json : BOOLEAN, model : STRING, thinking : Thinking, reasoning_effort : Efforts,
   tools : BOOLEAN, tool_choice : BOOLEAN, messages : Seq(Turns(ids, data))]

-------------------------------------------------------------------------------
(* The part of Config these functions read: model and vision are model     *)
(* ids, tierModel and tierEffort the per-tier overrides, effort the global *)
(* proxy_effort, otlp whether otlp_endpoints is non-empty.                 *)

TierOrder == <<"small_fast", "haiku", "sonnet", "opus">>
Tiers     == {"small_fast", "haiku", "sonnet", "opus"}

Configs == [model : STRING, tierModel : [Tiers -> STRING], vision : STRING,
            effort : Specs, tierEffort : [Tiers -> Specs], otlp : BOOLEAN]

-------------------------------------------------------------------------------
(* Wire model *)

WireOf(cfg, tier) ==
  IF cfg.tierModel[tier] # NoModel THEN cfg.tierModel[tier] ELSE cfg.model

SpoofOf == [small_fast |-> SpoofHaiku, haiku |-> SpoofHaiku,
            sonnet |-> SpoofSonnet, opus |-> SpoofOpus]

\* The target of a spoof, or the id itself when the map has no entry for it.
\* Pairs are added in tier order, one with an empty target or with equal ends is
\* skipped, and the last one added for a spoof wins.
WireTarget(cfg, m) ==
  LET added == {i \in DOMAIN TierOrder : /\ SpoofOf[TierOrder[i]] = m
                                         /\ WireOf(cfg, TierOrder[i]) \notin {NoModel, m}}
  IN  IF added = {} THEN m ELSE WireOf(cfg, TierOrder[Max(added)])

\* Steps 2 and 3 of rewriteBody: the map, then the catch-all for claude-* ids.
WireModelKind(cfg, m) ==
  CASE WireTarget(cfg, m) # m -> "map"
    [] WireTarget(cfg, m) = m /\ m \in ClaudeIds /\ cfg.model \notin {NoModel, m} -> "catchall"
    [] OTHER -> "noop"

\* Mutant of UpstreamModel: no catch-all for the claude-* ids outside the map.
UpstreamModelNoCatchall(cfg, m) == WireTarget(cfg, m)

UpstreamModel(cfg, m) ==
  CASE WireModelKind(cfg, m) = "map"      -> WireTarget(cfg, m)
    [] WireModelKind(cfg, m) = "catchall" -> cfg.model
    [] OTHER -> m

-------------------------------------------------------------------------------
(* Effort spec of a model *)

\* The tiers that put an entry for wire id m in the effort map.  "off" puts the
\* empty string there, an unset spec or an unset tier model puts nothing.
EffortTiers(cfg, m) ==
  {i \in DOMAIN TierOrder :
     /\ m # NoModel
     /\ cfg.tierModel[TierOrder[i]] = m
     /\ cfg.tierEffort[TierOrder[i]].kind # "unset"}

\* Mutant of EffortSpecForModel: the first tier with the wire id wins.
EffortSpecFirstTier(cfg, m) ==
  IF EffortTiers(cfg, m) = {} THEN cfg.effort
  ELSE cfg.tierEffort[TierOrder[Min(EffortTiers(cfg, m))]]

EffortSpecForModel(cfg, m) ==
  IF EffortTiers(cfg, m) = {} THEN cfg.effort
  ELSE cfg.tierEffort[TierOrder[Max(EffortTiers(cfg, m))]]

-------------------------------------------------------------------------------
(* File sources *)

HasFileSource(b) == b.type \in {"image", "document"} /\ b.source.type = "file"

\* The positions rewriteFileSources visits: the blocks of the content arrays
\* themselves, not those nested in a tool_result.
FileRefs(body) ==
  UNION {{<<i, j>> : j \in {k \in DOMAIN body.messages[i].content :
                               HasFileSource(body.messages[i].content[k])}} :
         i \in DOMAIN body.messages}

\* rewriteFileSources goes through the messages and their blocks in order.
FirstRef(refs) ==
  CHOOSE p \in refs : \A q \in refs : p[1] < q[1] \/ (p[1] = q[1] /\ p[2] <= q[2])

BlockAt(body, p) == body.messages[p[1]].content[p[2]]

Inline(data) == [type |-> "base64", data |-> data]

\* Mutant of Resolved: a file_id shared by all references of the cache's last hit.
ResolvedAnyEntry(store, b) ==
  IF HasFileSource(b) /\ \E i \in FileIds : store[i] # NoData
  THEN [b EXCEPT !.source = Inline(store[CHOOSE i \in FileIds : store[i] # NoData])]
  ELSE b

\* LookupFile and the substitution of one block; a miss leaves the block intact.
Resolved(store, b) ==
  IF HasFileSource(b) /\ b.source.id # NoFile /\ store[b.source.id] # NoData
  THEN [b EXCEPT !.source = Inline(store[b.source.id])]
  ELSE b

ResolveRef(store, body, p) ==
  [body EXCEPT !.messages[p[1]].content[p[2]] = Resolved(store, @)]

ResolveTurn(store, msg) ==
  [msg EXCEPT !.content = [j \in DOMAIN @ |-> Resolved(store, @[j])]]

ResolveFiles(store, body) ==
  [body EXCEPT !.messages = [i \in DOMAIN @ |-> ResolveTurn(store, @[i])]]

\* The wire-model half of rewriteBody.  A body that is not JSON is left alone.
RewriteModel(cfg, body) ==
  IF body.json THEN [body EXCEPT !.model = UpstreamModel(cfg, @)] ELSE body

\* runEffort, for the model the wire rewrite settled on.  A spec that does not
\* parse and a body that is not JSON leave the body alone.
RunEffort(cfg, body, model) ==
  LET spec == EffortSpecForModel(cfg, model)
  IN  IF ~ body.json \/ ParseFails(spec) THEN body
      ELSE ApplyRegime(body, Resolver(spec)[BucketFromThinking(body.thinking)])
===============================================================================

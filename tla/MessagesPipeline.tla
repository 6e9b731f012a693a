---------------------------- MODULE MessagesPipeline ----------------------------
(***************************************************************************)
(* The transforms messagesHandler runs on one /v1/messages body, in its    *)
(* order: rewriteBody, routeVision, runEffort.  The configuration, the     *)
(* file cache and the body are arbitrary; the steps are deterministic.     *)
(* Proxy.tla runs the same operators inside concurrent handlers.           *)
(***************************************************************************)
EXTENDS Vision

CONSTANT Inputs   \* [cfg, store, orig]: configurations, file caches and bodies that meet

ASSUME InputsAreParsed ==
  \A i \in Inputs :
    /\ i.cfg \in Configs
    /\ i.store \in [FileIds -> STRING \cup {NoData}]
    /\ i.orig \in MessageBodies(FileIds, STRING)

VARIABLES
  config,    \* the loaded Config
  store,  \* the file cache the lookups see
  orig,   \* the body as claude sent it
  body,   \* the body so far
  stage,  \* what the handler has done: "received" "rewritten" "visioned" "sent"
  info    \* RewriteInfo and VisionInfo

pipelineVars == <<config, store, orig, body, stage, info>>

NoInfo == [requested |-> NoModel, upstream |-> NoModel,
           routed |-> FALSE, disabled |-> FALSE, images |-> 0]

PipelineInit ==
  /\ \E i \in Inputs : config = i.cfg /\ store = i.store /\ orig = i.orig
  /\ body = orig
  /\ stage = "received"
  /\ info = NoInfo

RunRewrite ==
  /\ stage = "received"
  /\ stage' = "rewritten"
  /\ body' = IF orig.json THEN RewriteModel(config, ResolveFiles(store, orig)) ELSE orig
  /\ info' = IF orig.json
             THEN [info EXCEPT !.requested = orig.model,
                               !.upstream = UpstreamModel(config, orig.model)]
             ELSE info
  /\ UNCHANGED <<config, store, orig>>

RunVision ==
  /\ stage = "rewritten"
  /\ stage' = "visioned"
  /\ body' = RouteVision(config, body)
  /\ info' = [info EXCEPT
                !.routed   = ShouldRoute(config, body),
                !.disabled = body.json /\ CountImages(body) > 0 /\ config.vision = NoModel,
                !.images   = IF ShouldRoute(config, body) THEN Len(ImagesCollected(body))
                             ELSE IF body.json THEN CountImages(body) ELSE 0]
  /\ UNCHANGED <<config, store, orig>>

\* Mutant of RunEffortStep: the effort step runs for routed requests too.
RunEffortAlways ==
  /\ stage = "visioned"
  /\ stage' = "sent"
  /\ body' = RunEffort(config, body, info.upstream)
  /\ UNCHANGED <<config, store, orig, info>>

\* messagesHandler skips runEffort for a routed request.
RunEffortStep ==
  /\ stage = "visioned"
  /\ stage' = "sent"
  /\ body' = IF info.routed THEN body ELSE RunEffort(config, body, info.upstream)
  /\ UNCHANGED <<config, store, orig, info>>

PipelineNext == RunRewrite \/ RunVision \/ RunEffortStep

PipelineSpec == PipelineInit /\ [][PipelineNext]_pipelineVars

-------------------------------------------------------------------------------
(* What the pipeline promises.  The properties look at a body through the  *)
(* positions of its blocks, never through the operators they are about.    *)

\* The blocks of a turn: those of its content (n = 0) and those nested in them.
Positions(b, i) ==
  LET content == b.messages[i].content
      nests   == {j \in DOMAIN content : content[j].type = "tool_result"}
  IN  {<<i, j, 0>> : j \in DOMAIN content}
        \cup UNION {{<<i, j, n>> : n \in DOMAIN content[j].content} : j \in nests}

At(b, p) ==
  IF p[3] = 0 THEN b.messages[p[1]].content[p[2]]
  ELSE b.messages[p[1]].content[p[2]].content[p[3]]

UserTurns(b)     == {i \in DOMAIN b.messages : b.messages[i].role = "user"}
UserPositions(b) == UNION {Positions(b, i) : i \in UserTurns(b)}
ImagePositions(b) == {p \in UserPositions(b) : At(b, p).type = "image"}
TextPositions(b, i) == {p \in Positions(b, i) : At(b, p).type = "text"}

Before(p, q) ==
  \/ p[1] < q[1]
  \/ p[1] = q[1] /\ p[2] < q[2]
  \/ p[1] = q[1] /\ p[2] = q[2] /\ p[3] < q[3]

Earlier(P, p) == {q \in P : Before(q, p)}

\* The n-th image of b in reading order, for the images of all user turns.
NthImage(b, n) ==
  At(b, CHOOSE p \in ImagePositions(b) : Cardinality(Earlier(ImagePositions(b), p)) = n - 1)

\* What rewriteBody hands to routeVision.
Rewritten == RewriteModel(config, ResolveFiles(store, orig))

AfterVision == stage \in {"visioned", "sent"}
Routed      == AfterVision /\ info.routed

\* Routing loses no image, duplicates none and keeps their reading order: the
\* last user turn starts with exactly the images of all user turns, whether they
\* were nested in a tool_result or not, and no image is left anywhere else.
ImagesConserved ==
  Routed =>
    LET last == CHOOSE i \in UserTurns(body) : \A k \in UserTurns(body) : k <= i
        n    == Cardinality(ImagePositions(Rewritten))
    IN  /\ ImagePositions(body) = {<<last, j, 0>> : j \in 1 .. n}
        /\ \A k \in 1 .. n : At(body, <<last, k, 0>>) = NthImage(Rewritten, k)

\* Routing loses no text: each text block of a user turn, in a tool_result or not, is
\* a block of the content of the same turn afterwards, equal texts one block each, and
\* all in the same order.
TextConserved ==
  Routed =>
    \A i \in UserTurns(Rewritten) :
      LET texts == TextPositions(Rewritten, i)
          sent  == body.messages[i].content
      IN  \E at \in [texts -> DOMAIN sent] :
            /\ \A p \in texts : sent[at[p]] = At(Rewritten, p)
            /\ \A p, q \in texts : Before(p, q) => at[p] < at[q]

\* The vision backend sees no tool machinery at all: no tools, no tool_choice, no
\* tool_use and no tool_result block.
NoToolMachinery ==
  Routed =>
    /\ ~ body.tools /\ ~ body.tool_choice
    /\ \A i \in DOMAIN body.messages : \A j \in DOMAIN body.messages[i].content :
         body.messages[i].content[j].type \notin {"tool_use", "tool_result"}

\* The pass that counts images before routing and the pass that collects them
\* agree, so the counter means the same whether routing is on or off.
CountMatchesCollected ==
  AfterVision /\ body.json => info.images = Cardinality(ImagePositions(Rewritten))

\* The content of a conversation survives the way to the vision model, and is counted
\* as it is collected.
ContentConserved == ImagesConserved /\ TextConserved /\ CountMatchesCollected

\* A routed request keeps the thinking parameters claude sent: no effort regime,
\* global or of any tier, is imposed on a request for the vision model.
VisionSkipsEffort ==
  Routed => body.thinking = orig.thinking /\ body.reasoning_effort = orig.reasoning_effort

\* Whatever the spec, an effort rewrite of a text request is coherent: it keeps the
\* budget claude asked for, "max" never goes without enabled thinking, and no
\* reasoning_effort survives thinking that was stripped.
RewrittenEffortCoherent ==
  stage = "sent" /\ body.json /\ ~ info.routed =>
    /\ body.thinking.type = "enabled" /\ orig.thinking.type \in {"enabled", "other"}
         => body.thinking.budget = orig.thinking.budget
    /\ <<body.thinking, body.reasoning_effort>> # <<orig.thinking, orig.reasoning_effort>>
         => \/ body.thinking.type = "enabled" /\ body.reasoning_effort \in {"absent", "max"}
            \/ body.thinking.type = "absent" /\ body.reasoning_effort = "absent"

\* The pass that runs last and looks up the model the first one chose imposes a
\* coherent effort on text requests, and none on those for the vision model.
EffortCoherent == VisionSkipsEffort /\ RewrittenEffortCoherent

\* When tiers share a wire id the order opus, sonnet, haiku, small_fast decides:
\* the spec of a tier a higher one shadows is dead, no value of it changes what
\* is sent.
ShadowedTiersAreDead ==
  stage = "sent" =>
    \A t, u \in DOMAIN TierOrder :
      /\ t < u
      /\ config.tierModel[TierOrder[t]] = config.tierModel[TierOrder[u]]
      /\ config.tierEffort[TierOrder[u]].kind # "unset"
      => \A level \in Levels :
           LET other == [config EXCEPT !.tierEffort[TierOrder[t]] =
                           [kind |-> "const", level |-> level, clauses |-> <<>>]]
           IN  RunEffort(other, Rewritten, info.upstream) =
                 RunEffort(config, Rewritten, info.upstream)

-------------------------------------------------------------------------------
(* What the repository's text says of the pipeline and its code does not do. *)

\* vision.go, 5b: in the user turns before the last one every image, "direct or
\* nested in tool_result.content", is replaced by the placeholder.
PlaceholderForEveryImage ==
  Routed =>
    \A i \in UserTurns(body) :
      (\E k \in UserTurns(body) : i < k) =>
        Cardinality({p \in ImagePositions(Rewritten) : p[1] = i})
          <= Cardinality({p \in Positions(body, i) : At(body, p) = ImagePlaceholder})

\* README: proxy_effort_opus=max always reasons at max on the opus tier, also
\* when model_opus is unset and the tier uses `model`.
TierEffortHonoured ==
  stage = "sent" /\ body.json /\ ~ info.routed /\ orig.model = SpoofOpus
    /\ config.tierEffort["opus"].kind = "const" /\ config.tierEffort["opus"].level = "max"
  => body.reasoning_effort = "max"

\* rewrite.go: a per-tier "off" is dropped from the map and the global default
\* still applies.
TierOffFallsToDefault ==
  stage = "sent" /\ body.json /\ ~ info.routed /\ body.model # NoModel
    /\ (\A t \in Tiers : config.tierEffort[t].kind \in {"unset", "off"})
  => body = RunEffort([config EXCEPT !.tierEffort = [t \in Tiers |->
                                    [kind |-> "unset", level |-> "bad", clauses |-> <<>>]]],
                      Rewritten, body.model)

\* spec.go: a matrix value `off` removes the bucket from the matrix entirely.
MatrixOffRemovesBucket ==
  config.effort.kind = "matrix" =>
    \A i \in DOMAIN config.effort.clauses :
      config.effort.clauses[i].value = "off"
        /\ (\A k \in DOMAIN config.effort.clauses : k > i =>
               config.effort.clauses[k].bucket # config.effort.clauses[i].bucket)
        /\ config.effort.clauses[i].bucket \in Buckets
      => Resolver(config.effort)[config.effort.clauses[i].bucket] = RegimeOff

\* spec.go: thinking that is enabled with budget_tokens >= 31000 is of the bucket max.
UltraThinkIsMax ==
  orig.json /\ orig.thinking.type = "enabled"
    /\ \/ orig.thinking.budget.kind = "huge"
       \/ orig.thinking.budget.kind = "number" /\ orig.thinking.budget.n >= UltraThink
  => BucketFromThinking(orig.thinking) = "max"

\* rewrite.go: rewriteFileSources walks every content block and substitutes any
\* file source the cache holds.
EveryFileBlockInlined ==
  stage # "received" /\ body.json =>
    \A i \in DOMAIN body.messages : \A p \in Positions(body, i) :
      HasFileSource(At(body, p)) =>
        At(body, p).source.id = NoFile \/ store[At(body, p).source.id] = NoData

\* proxy.go: RewriteInfo.ModelUpstream is the model id after the wire map, the
\* catch-all and vision routing.
ModelUpstreamIsSent ==
  stage = "sent" /\ body.json => info.upstream = body.model
===============================================================================

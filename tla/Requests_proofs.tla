---------------------------- MODULE Requests_proofs ----------------------------
(***************************************************************************)
(* Proofs about what becomes of a request.  First MessagesPipeline, for    *)
(* every configuration, file cache and body: what a request for the vision *)
(* model and one for a text model are when they are sent.  Then Session,   *)
(* for every command line, configuration and environment: what claude is   *)
(* told, and what of its requests gets to the service.  Last, with the     *)
(* lemmas on sums and sequences gathered on the way, what becomes of the   *)
(* images and texts of a conversation on its way to the vision model.      *)
(***************************************************************************)
EXTENDS MessagesPipeline, Session, Vision_proofs, FunctionTheorems

\* What rewriteBody makes of the body: one that is not JSON passes.
Settled == IF orig.json THEN Rewritten ELSE orig

\* The images RunVision reports: those collected, or those counted where it does not route.
ImagesSeen ==
  IF ShouldRoute(config, Settled) THEN Len(ImagesCollected(Settled))
  ELSE IF Settled.json THEN CountImages(Settled) ELSE 0

\* The body of each stage is a function of the inputs: the decision to route is made
\* once, on the rewritten body, and decides whether the effort step runs.
PipeInv ==
  /\ \E i \in Inputs : config = i.cfg /\ store = i.store /\ orig = i.orig
  /\ stage \in {"received", "rewritten", "visioned", "sent"}
  /\ DOMAIN info = DOMAIN NoInfo
  /\ stage = "received"  => body = orig
  /\ stage = "rewritten" => body = Settled
  /\ AfterVision => /\ info.routed = ShouldRoute(config, Settled)
                    /\ info.images = ImagesSeen
                    /\ info.routed => body = RouteVision(config, Settled)
  /\ stage = "visioned" /\ ~ info.routed => body = Settled
  /\ stage = "sent" /\ ~ info.routed => body = RunEffort(config, Settled, info.upstream)

LEMMA InitPipeInv == PipelineInit => PipeInv
BY DEF PipelineInit, PipeInv, AfterVision

LEMMA NextPipeInv == PipeInv /\ [PipelineNext]_pipelineVars => PipeInv'
<1> SUFFICES ASSUME PipeInv, [PipelineNext]_pipelineVars PROVE PipeInv'
  OBVIOUS
<1>1. CASE RunRewrite
  <2>1. Settled' = Settled /\ body' = Settled
    BY <1>1 DEF RunRewrite, Settled, Rewritten, PipeInv
  <2> QED BY <1>1, <2>1 DEF RunRewrite, PipeInv, AfterVision
<1>2. CASE RunVision
  <2>1. Settled' = Settled /\ body = Settled /\ config' = config
    BY <1>2 DEF RunVision, Settled, Rewritten, PipeInv
  <2>2. info'.routed = ShouldRoute(config, Settled) /\ DOMAIN info' = DOMAIN NoInfo
    BY <1>2, <2>1 DEF RunVision, PipeInv, NoInfo
  <2>5. info'.images = ImagesSeen /\ ImagesSeen' = ImagesSeen
    BY <1>2, <2>1 DEF RunVision, PipeInv, NoInfo, ImagesSeen
  <2>3. body' = RouteVision(config, Settled)
    BY <1>2, <2>1 DEF RunVision
  <2>4. ~ info'.routed => body' = Settled
    BY <2>2, <2>3 DEF RouteVision
  <2> HIDE DEF Settled
  <2> QED BY <1>2, <2>1, <2>2, <2>3, <2>4, <2>5 DEF RunVision, PipeInv, AfterVision
<1>3. CASE RunEffortStep
  <2>1. Settled' = Settled /\ ImagesSeen' = ImagesSeen
    BY <1>3 DEF RunEffortStep, Settled, Rewritten, ImagesSeen
  <2> QED BY <1>3, <2>1 DEF RunEffortStep, PipeInv, AfterVision
<1>4. CASE UNCHANGED pipelineVars
  BY <1>4 DEF pipelineVars, PipeInv, AfterVision, Settled, Rewritten, ImagesSeen
<1> QED BY <1>1, <1>2, <1>3, <1>4 DEF PipelineNext

LEMMA PipeInvAlways == PipelineSpec => []PipeInv
<1> QED BY InitPipeInv, NextPipeInv, PTL DEF PipelineSpec

\* A routed request is JSON, and its body the rewritten one on its way to vision.
LEMMA RoutedBody ==
  ASSUME PipeInv, Routed
  PROVE  body = RouteVision(config, Rewritten) /\ ShouldRoute(config, Rewritten)
<1>1. ShouldRoute(config, Settled) /\ body = RouteVision(config, Settled)
  BY DEF PipeInv, Routed
<1>2. orig.json
  BY <1>1 DEF ShouldRoute, Settled
<1> QED BY <1>1, <1>2 DEF Settled

\* Rewriting changes the model and the messages of a body, and keeps its turns turns.
LEMMA RewrittenBody ==
  ASSUME PipeInv
  PROVE  /\ orig \in MessageBodies(FileIds, STRING)
         /\ DOMAIN Rewritten = DOMAIN orig
         /\ Rewritten.thinking = orig.thinking
         /\ Rewritten.reasoning_effort = orig.reasoning_effort
         /\ Rewritten.json = orig.json
         /\ Rewritten.messages \in Seq(Turns(FileIds, STRING))
<1>1. PICK i \in Inputs : config = i.cfg /\ store = i.store /\ orig = i.orig
  BY DEF PipeInv
<1>2. orig \in MessageBodies(FileIds, STRING) /\ store \in [FileIds -> STRING \cup {NoData}]
  BY <1>1, InputsAreParsed
<1> DEFINE r == ResolveFiles(store, orig)
<1>3. /\ DOMAIN r = DOMAIN orig
      /\ r.thinking = orig.thinking /\ r.reasoning_effort = orig.reasoning_effort
      /\ r.json = orig.json
  BY <1>2 DEF ResolveFiles, MessageBodies
<1>4. r.messages \in Seq(Turns(FileIds, STRING))
  BY <1>2, ResolvedTurns DEF MessageBodies
<1>5. DOMAIN orig = {"json", "model", "thinking", "reasoning_effort", "tools",
                     "tool_choice", "messages"}
  BY <1>2 DEF MessageBodies
<1> HIDE DEF r
<1> QED BY <1>2, <1>3, <1>4, <1>5 DEF Rewritten, RewriteModel, r

-------------------------------------------------------------------------------
(* Requests for the vision model *)

\* Routing leaves tools, tool_choice, tool calls and tool results behind.
LEMMA NoTools == PipeInv => NoToolMachinery
<1> SUFFICES ASSUME PipeInv, Routed
             PROVE  /\ ~ body.tools /\ ~ body.tool_choice
                    /\ \A i \in DOMAIN body.messages : \A j \in DOMAIN body.messages[i].content :
                         body.messages[i].content[j].type \notin {"tool_use", "tool_result"}
  BY DEF NoToolMachinery
<1>1. body = RouteVision(config, Rewritten) /\ ShouldRoute(config, Rewritten)
  BY RoutedBody
<1>2. DOMAIN Rewritten = {"json", "model", "thinking", "reasoning_effort", "tools",
                          "tool_choice", "messages"}
  BY RewrittenBody DEF MessageBodies
<1>3. ~ body.tools /\ ~ body.tool_choice
  BY <1>1, <1>2 DEF RouteVision
<1>4. body.messages \in Seq(PlainTurns(FileIds, STRING))
  BY <1>1, <1>2, RewrittenBody, RoutedIsPlain
<1>5. ASSUME NEW i \in DOMAIN body.messages, NEW j \in DOMAIN body.messages[i].content
      PROVE  body.messages[i].content[j].type \notin {"tool_use", "tool_result"}
  <2>0. body.messages[i] \in PlainTurns(FileIds, STRING)
    BY <1>4
  <2>1. body.messages[i].content \in Seq(PlainBlocks(FileIds, STRING))
    BY <2>0 DEF PlainTurns
  <2>2. body.messages[i].content[j] \in PlainBlocks(FileIds, STRING)
    BY <2>1
  <2> QED BY <2>2 DEF PlainBlocks
<1> QED BY <1>3, <1>5

\* Whatever a conversation holds, no trace of the tool machinery reaches the vision
\* model.
THEOREM VisionSeesNoTools == PipelineSpec => []NoToolMachinery
<1> QED BY NoTools, PipeInvAlways, PTL

-------------------------------------------------------------------------------
(* The effort of a request *)

LEMMA VisionKeepsThinking == PipeInv => VisionSkipsEffort
<1> SUFFICES ASSUME PipeInv, Routed
             PROVE  /\ body.thinking = orig.thinking
                    /\ body.reasoning_effort = orig.reasoning_effort
  BY DEF VisionSkipsEffort
<1>1. body = RouteVision(config, Rewritten) /\ ShouldRoute(config, Rewritten)
  BY RoutedBody
<1>2. DOMAIN Rewritten = {"json", "model", "thinking", "reasoning_effort", "tools",
                          "tool_choice", "messages"}
  BY RewrittenBody DEF MessageBodies
<1>3. /\ RouteVision(config, Rewritten).thinking = Rewritten.thinking
      /\ RouteVision(config, Rewritten).reasoning_effort = Rewritten.reasoning_effort
  BY <1>1, <1>2 DEF RouteVision
<1> QED BY <1>1, <1>3, RewrittenBody

\* Imposing a regime on a body, whichever it is, leaves a coherent one.
LEMMA RegimeCoherent ==
  ASSUME NEW b, {"thinking", "reasoning_effort"} \subseteq DOMAIN b,
         b.thinking \in Thinking, NEW regime, NEW c, c = ApplyRegime(b, regime)
  PROVE  /\ c.thinking.type = "enabled" /\ b.thinking.type \in {"enabled", "other"}
              => c.thinking.budget = b.thinking.budget
         /\ <<c.thinking, c.reasoning_effort>> # <<b.thinking, b.reasoning_effort>>
              => \/ c.thinking.type = "enabled" /\ c.reasoning_effort \in {"absent", "max"}
                 \/ c.thinking.type = "absent" /\ c.reasoning_effort = "absent"
<1>1. CASE regime = RegimeOff
  <2>1. c = b
    BY <1>1 DEF ApplyRegime, RegimeOff
  <2> QED BY <2>1
<1>2. CASE regime = "none"
  <2>1. c.thinking = NoThinking /\ c.reasoning_effort = "absent"
    BY <1>2 DEF ApplyRegime, RegimeOff
  <2> QED BY <2>1 DEF NoThinking
<1>3. CASE regime \notin {RegimeOff, "none"}
  <2>1. /\ c.thinking = [type |-> "enabled", budget |-> KeptBudget(b.thinking)]
        /\ c.reasoning_effort \in {"absent", "max"}
    BY <1>3 DEF ApplyRegime
  <2> QED BY <2>1 DEF KeptBudget
<1> QED BY <1>1, <1>2, <1>3

LEMMA TextEffortCoherent == PipeInv => RewrittenEffortCoherent
<1> SUFFICES ASSUME PipeInv, stage = "sent", body.json, ~ info.routed
             PROVE  /\ body.thinking.type = "enabled" /\ orig.thinking.type \in {"enabled", "other"}
                         => body.thinking.budget = orig.thinking.budget
                    /\ <<body.thinking, body.reasoning_effort>> # <<orig.thinking, orig.reasoning_effort>>
                         => \/ body.thinking.type = "enabled" /\ body.reasoning_effort \in {"absent", "max"}
                            \/ body.thinking.type = "absent" /\ body.reasoning_effort = "absent"
  BY DEF RewrittenEffortCoherent
<1> DEFINE spec == EffortSpecForModel(config, info.upstream)
           s == Settled
<1>1. /\ {"thinking", "reasoning_effort"} \subseteq DOMAIN s
      /\ s.thinking = orig.thinking /\ s.reasoning_effort = orig.reasoning_effort
      /\ s.thinking \in Thinking
  BY RewrittenBody DEF Settled, MessageBodies
<1>2. body = RunEffort(config, s, info.upstream)
  BY DEF PipeInv
<1>3. \/ body = s
      \/ body = ApplyRegime(s, Resolver(spec)[BucketFromThinking(s.thinking)])
  BY <1>2 DEF RunEffort
<1> HIDE DEF s, spec
<1>4. CASE body = s
  BY <1>1, <1>4
<1>5. CASE body = ApplyRegime(s, Resolver(spec)[BucketFromThinking(s.thinking)])
  BY <1>1, <1>5, RegimeCoherent
<1> QED BY <1>3, <1>4, <1>5

\* Every request is sent with coherent thinking parameters, whatever specs are
\* configured, and one for the vision model with those claude gave it.
THEOREM EffortStaysCoherent == PipelineSpec => []EffortCoherent
<1>1. PipeInv => EffortCoherent
  BY VisionKeepsThinking, TextEffortCoherent DEF EffortCoherent
<1> QED BY <1>1, PipeInvAlways, PTL

-------------------------------------------------------------------------------
(* Tiers that share a wire id *)

LEMMA HighestTier ==
  ASSUME NEW S \in SUBSET (1 .. 4), S # {}
  PROVE  Max(S) \in S /\ \A i \in S : Max(S) >= i
<1>1. \E x \in S : \A y \in S : x >= y
  <2>1. CASE 4 \in S
    BY <2>1
  <2>2. CASE 4 \notin S /\ 3 \in S
    BY <2>2
  <2>3. CASE 4 \notin S /\ 3 \notin S /\ 2 \in S
    BY <2>3
  <2>4. CASE 4 \notin S /\ 3 \notin S /\ 2 \notin S
    <3>1. \A y \in S : y = 1
      BY <2>4
    <3>2. PICK y \in S : TRUE
      OBVIOUS
    <3> QED BY <3>1, <3>2
  <2> QED BY <2>1, <2>2, <2>3, <2>4
<1> QED BY <1>1 DEF Max

LEMMA TierOrderIs ==
  /\ DOMAIN TierOrder = 1 .. 4
  /\ \A i \in 1 .. 4 : TierOrder[i] \in Tiers
  /\ \A i, j \in 1 .. 4 : TierOrder[i] = TierOrder[j] => i = j
<1>1. DOMAIN TierOrder = 1 .. 4
  BY DEF TierOrder
<1>2. /\ TierOrder[1] = "small_fast" /\ TierOrder[2] = "haiku"
      /\ TierOrder[3] = "sonnet" /\ TierOrder[4] = "opus"
  BY DEF TierOrder
<1>3. \A i \in 1 .. 4 : i = 1 \/ i = 2 \/ i = 3 \/ i = 4
  OBVIOUS
<1> HIDE DEF TierOrder
<1> QED BY <1>1, <1>2, <1>3 DEF Tiers

\* The spec of tier t has no say where a higher tier u with a spec of its own has the
\* same wire id: for that id the highest such tier decides, for the others t is none.
LEMMA ShadowedSpec ==
  ASSUME NEW c, NEW t \in 1 .. 4, NEW u \in 1 .. 4, t < u,
         c.tierModel[TierOrder[t]] = c.tierModel[TierOrder[u]],
         c.tierEffort[TierOrder[u]].kind # "unset",
         NEW d, d.tierModel = c.tierModel, d.effort = c.effort,
         d.tierEffort[TierOrder[t]].kind # "unset",
         \A i \in 1 .. 4 : i # t => d.tierEffort[TierOrder[i]] = c.tierEffort[TierOrder[i]],
         NEW m
  PROVE  EffortSpecForModel(d, m) = EffortSpecForModel(c, m)
<1> DEFINE T(x) == EffortTiers(x, m)
<1>2. \A i \in 1 .. 4 : i # t => (i \in T(d) <=> i \in T(c))
  BY TierOrderIs DEF EffortTiers
<1>3. t \in T(d) \/ t \in T(c) => u \in T(d) /\ u \in T(c)
  BY <1>2, TierOrderIs DEF EffortTiers
<1>4. T(c) \in SUBSET (1 .. 4) /\ T(d) \in SUBSET (1 .. 4)
  BY TierOrderIs DEF EffortTiers
<1> HIDE DEF T
<1>5. CASE T(c) = {}
  <2>1. T(d) = {}
    BY <1>2, <1>3, <1>4, <1>5
  <2> QED BY <1>5, <2>1 DEF EffortSpecForModel, T
<1>6. CASE T(c) # {}
  <2>1. T(d) # {}
    BY <1>2, <1>3, <1>4, <1>6
  <2>2. /\ Max(T(c)) \in T(c) /\ \A i \in T(c) : Max(T(c)) >= i
        /\ Max(T(d)) \in T(d) /\ \A i \in T(d) : Max(T(d)) >= i
    BY <1>4, <1>6, <2>1, HighestTier
  <2>3. Max(T(c)) # t /\ Max(T(d)) # t
    BY <1>3, <1>4, <2>2
  <2>4. Max(T(c)) \in T(d) /\ Max(T(d)) \in T(c)
    BY <1>2, <1>4, <2>2, <2>3
  <2>5. Max(T(c)) = Max(T(d)) /\ Max(T(c)) \in 1 .. 4
    BY <1>4, <2>2, <2>4
  <2> QED BY <1>6, <2>1, <2>3, <2>5 DEF EffortSpecForModel, T
<1> QED BY <1>5, <1>6

\* Whatever the tiers have for effort specs, the value of a shadowed one changes no
\* request.
THEOREM ShadowedSpecsAreDead == PipelineSpec => []ShadowedTiersAreDead
<1>1. PipeInv => ShadowedTiersAreDead
  <2> SUFFICES ASSUME PipeInv, NEW t \in DOMAIN TierOrder, NEW u \in DOMAIN TierOrder, t < u,
                      config.tierModel[TierOrder[t]] = config.tierModel[TierOrder[u]],
                      config.tierEffort[TierOrder[u]].kind # "unset", NEW level \in Levels
               PROVE  RunEffort([config EXCEPT !.tierEffort[TierOrder[t]] =
                                   [kind |-> "const", level |-> level, clauses |-> <<>>]],
                                Rewritten, info.upstream)
                        = RunEffort(config, Rewritten, info.upstream)
    BY DEF ShadowedTiersAreDead
  <2> DEFINE spec == [kind |-> "const", level |-> level, clauses |-> <<>>]
  <2>1. config \in Configs
    BY InputsAreParsed DEF PipeInv
  <2>2. spec.kind # "unset"
    OBVIOUS
  <2> DEFINE other == [config EXCEPT !.tierEffort[TierOrder[t]] = spec]
  <2>0. t \in 1 .. 4 /\ u \in 1 .. 4
    BY TierOrderIs
  <2>3. /\ other.tierModel = config.tierModel /\ other.effort = config.effort
        /\ other.tierEffort[TierOrder[t]] = spec
        /\ \A i \in 1 .. 4 : i # t => other.tierEffort[TierOrder[i]] = config.tierEffort[TierOrder[i]]
    BY <2>0, <2>1, TierOrderIs DEF Configs
  <2> HIDE DEF spec, other
  <2>5. EffortSpecForModel(other, info.upstream) = EffortSpecForModel(config, info.upstream)
    BY <2>0, <2>2, <2>3, ShadowedSpec
  <2>4. RunEffort(other, Rewritten, info.upstream) = RunEffort(config, Rewritten, info.upstream)
    BY <2>5 DEF RunEffort
  <2> QED BY <2>4 DEF spec, other
<1> QED BY <1>1, PipeInvAlways, PTL


-------------------------------------------------------------------------------
(* Sequences read from left to right *)

LEMMA ConcatNothing ==
  ASSUME NEW S, NEW s \in Seq(S)
  PROVE  s \o <<>> = s
OBVIOUS

LEMMA ConcatAppend ==
  ASSUME NEW S, NEW s \in Seq(S), NEW t \in Seq(S), NEW x \in S
  PROVE  s \o Append(t, x) = Append(s \o t, x)
OBVIOUS

\* FlattenSeq is the last of its partial results, which start from nothing.
LEMMA FlatRun ==
  ASSUME NEW S, NEW ss \in Seq(Seq(S))
  PROVE  \E f \in [0 .. Len(ss) -> Seq(S)] :
           /\ f[0] = <<>>
           /\ \A i \in 1 .. Len(ss) : f[i] = f[i - 1] \o ss[i]
           /\ FlattenSeq(ss) = f[Len(ss)]
<1>1. CASE Len(ss) = 0
  <2> DEFINE f == [i \in 0 .. Len(ss) |-> <<>>]
  <2>1. FlattenSeq(ss) = <<>>
    <3>1. ss = <<>>
      BY <1>1
    <3> QED BY <1>1, <3>1 DEF FlattenSeq
  <2>2. <<>> \in Seq(S)
    OBVIOUS
  <2>3. f \in [0 .. Len(ss) -> Seq(S)] /\ f[0] = <<>> /\ f[Len(ss)] = <<>>
    BY <1>1, <2>2
  <2> HIDE DEF f
  <2>4. \A i \in 1 .. Len(ss) : f[i] = f[i - 1] \o ss[i]
    BY <1>1
  <2> QED BY <2>1, <2>3, <2>4
<1>2. CASE Len(ss) # 0
  <2> DEFINE g == CHOOSE x : FlatTo(ss, Len(ss), x)
             f == [i \in 0 .. Len(ss) |-> IF i = 0 THEN <<>> ELSE g[i]]
  <2>0. Len(ss) \in Nat \ {0}
    BY <1>2
  <2>1. FlatTo(ss, Len(ss), g)
    BY <2>0, FlatExists
  <2>2. FlattenSeq(ss) = g[Len(ss)]
    BY <1>2 DEF FlattenSeq, FlatTo
  <2>3. \A i \in 1 .. Len(ss) : g[i] \in Seq(S)
    BY <2>1, FlatElements
  <2>4. \A i \in 1 .. Len(ss) : g[i] = IF i = 1 THEN ss[i] ELSE g[i - 1] \o ss[i]
    BY <2>1 DEF FlatTo
  <2> HIDE DEF g
  <2>5. f \in [0 .. Len(ss) -> Seq(S)] /\ f[0] = <<>> /\ f[Len(ss)] = g[Len(ss)]
    BY <2>0, <2>3
  <2>6. ASSUME NEW i \in 1 .. Len(ss) PROVE f[i] = f[i - 1] \o ss[i]
    <3>0. ss[i] \in Seq(S)
      OBVIOUS
    <3>1. CASE i = 1
      <4>1. f[i] = g[1] /\ f[i - 1] = <<>>
        BY <3>1
      <4>2. g[1] = ss[i]
        BY <2>0, <2>4, <3>1
      <4>3. <<>> \o ss[i] = ss[i]
        BY <3>0
      <4> HIDE DEF f
      <4> QED BY <4>1, <4>2, <4>3
    <3>2. CASE i # 1
      <4>1. f[i] = g[i] /\ f[i - 1] = g[i - 1]
        BY <3>2
      <4> QED BY <2>4, <3>2, <4>1
    <3> QED BY <3>1, <3>2
  <2> HIDE DEF f
  <2> QED BY <2>2, <2>5, <2>6
<1> QED BY <1>1, <1>2

\* Without goes through a sequence once, keeping what is not in X.
Keeps(f, S, seq, X) ==
  /\ f \in [0 .. Len(seq) -> Seq(S \ X)]
  /\ f[0] = <<>>
  /\ \A i \in 1 .. Len(seq) :
       f[i] = IF seq[i] \in X THEN f[i - 1] ELSE Append(f[i - 1], seq[i])
  /\ Without(seq, X) = f[Len(seq)]

LEMMA WithoutRun ==
  ASSUME NEW S, NEW seq \in Seq(S), NEW X
  PROVE  \E f : Keeps(f, S, seq, X)
<1> DEFINE one(i) == IF seq[i] \in X THEN <<>> ELSE <<seq[i]>>
           ss == [i \in DOMAIN seq |-> one(i)]
<1>0. Len(seq) \in Nat /\ DOMAIN seq = 1 .. Len(seq)
  OBVIOUS
<1>1. ss \in Seq(Seq(S \ X)) /\ Len(ss) = Len(seq)
  <2>1. ASSUME NEW i \in DOMAIN seq PROVE one(i) \in Seq(S \ X)
    <3>1. CASE seq[i] \in X
      BY <3>1
    <3>2. CASE seq[i] \notin X
      <4>1. seq[i] \in S \ X
        BY <3>2
      <4>2. <<seq[i]>> \in Seq(S \ X)
        BY <4>1
      <4> QED BY <3>2, <4>2
    <3> QED BY <3>1, <3>2
  <2> HIDE DEF one
  <2>2. ss \in [1 .. Len(seq) -> Seq(S \ X)]
    BY <1>0, <2>1
  <2> QED BY <1>0, <2>2, MapIsSeq
<1>2. PICK f \in [0 .. Len(ss) -> Seq(S \ X)] :
        /\ f[0] = <<>>
        /\ \A i \in 1 .. Len(ss) : f[i] = f[i - 1] \o ss[i]
        /\ FlattenSeq(ss) = f[Len(ss)]
  <2> HIDE DEF ss
  <2> QED BY <1>1, FlatRun
<1>3. Without(seq, X) = f[Len(seq)]
  BY <1>1, <1>2 DEF Without
<1>4. ASSUME NEW i \in 1 .. Len(seq)
      PROVE  f[i] = IF seq[i] \in X THEN f[i - 1] ELSE Append(f[i - 1], seq[i])
  <2>1. f[i] = f[i - 1] \o ss[i] /\ ss[i] = one(i)
    BY <1>0, <1>1, <1>2
  <2>2. f[i - 1] \in Seq(S \ X)
    <3>1. i - 1 \in 0 .. Len(ss)
      BY <1>0, <1>1
    <3> HIDE DEF ss
    <3> QED BY <1>2, <3>1
  <2>3. CASE seq[i] \in X
    <3>1. f[i] = f[i - 1] \o <<>>
      BY <2>1, <2>3
    <3> HIDE DEF ss
    <3> QED BY <2>2, <2>3, <3>1
  <2>4. CASE seq[i] \notin X
    <3>1. f[i] = f[i - 1] \o <<seq[i]>>
      BY <2>1, <2>4
    <3> HIDE DEF ss
    <3>2. f[i - 1] \o <<seq[i]>> = Append(f[i - 1], seq[i])
      BY <2>2
    <3> QED BY <2>4, <3>1, <3>2
  <2> QED BY <2>3, <2>4
<1> HIDE DEF ss
<1> QED BY <1>1, <1>2, <1>3, <1>4 DEF Keeps

\* What is left are the elements that are not in X, one by one.
Remaining(seq, X) == {i \in DOMAIN seq : seq[i] \notin X}

LEMMA WithoutLen ==
  ASSUME NEW S, NEW seq \in Seq(S), NEW X
  PROVE  /\ Without(seq, X) \in Seq(S \ X)
         /\ Len(Without(seq, X)) = Cardinality(Remaining(seq, X))
<1>p. PICK f : Keeps(f, S, seq, X)
  BY WithoutRun
<1>1. /\ f \in [0 .. Len(seq) -> Seq(S \ X)]
      /\ f[0] = <<>>
      /\ \A i \in 1 .. Len(seq) :
           f[i] = IF seq[i] \in X THEN f[i - 1] ELSE Append(f[i - 1], seq[i])
      /\ Without(seq, X) = f[Len(seq)]
  BY <1>p DEF Keeps
<1> DEFINE n == Len(seq)
           left(k) == {i \in 1 .. k : seq[i] \notin X}
           Bad == {k \in 0 .. n : Len(f[k]) # Cardinality(left(k))}
<1>0. n \in Nat /\ DOMAIN seq = 1 .. n
  OBVIOUS
<1>2. SUFFICES ASSUME Bad # {} PROVE FALSE
  <2>1. Len(f[n]) = Cardinality(left(n)) /\ f[n] \in Seq(S \ X)
    <3> HIDE DEF left
    <3> QED BY <1>0, <1>1, <1>2
  <2>2. left(n) = Remaining(seq, X)
    BY <1>0 DEF Remaining
  <2> QED BY <1>1, <2>1, <2>2
<1>3. PICK k \in Bad : \A j \in Bad : k <= j
  <2>1. Bad \in SUBSET Nat
    BY <1>0
  <2> HIDE DEF Bad
  <2> QED BY <1>2, <2>1, NatMin
<1>4. CASE k = 0
  <2>1. left(0) = {}
    OBVIOUS
  <2> HIDE DEF left
  <2> QED BY <1>1, <1>3, <1>4, <2>1, FS_EmptySet
<1>5. CASE k # 0
  <2>1. k - 1 \in 0 .. n /\ ~ (k <= k - 1) /\ k \in 1 .. n /\ k - 1 \in Nat
    BY <1>0, <1>5
  <2>2. Len(f[k - 1]) = Cardinality(left(k - 1))
    BY <1>3, <2>1
  <2>3. IsFiniteSet(left(k - 1)) /\ Cardinality(left(k - 1)) \in Nat /\ k \notin left(k - 1)
    <3>1. IsFiniteSet(1 .. k - 1)
      BY <2>1, FS_Interval
    <3>2. left(k - 1) \in SUBSET (1 .. k - 1)
      OBVIOUS
    <3>3. IsFiniteSet(left(k - 1))
      BY <3>1, <3>2, FS_Subset
    <3> QED BY <2>1, <3>2, <3>3, FS_CardinalityType
  <2>4. left(k) = IF seq[k] \in X THEN left(k - 1) ELSE left(k - 1) \cup {k}
    BY <2>1
  <2>5. f[k] = IF seq[k] \in X THEN f[k - 1] ELSE Append(f[k - 1], seq[k])
    BY <1>1, <2>1
  <2>6. f[k - 1] \in Seq(S \ X)
    BY <1>1, <2>1
  <2> HIDE DEF left
  <2>7. Cardinality(left(k)) = IF seq[k] \in X THEN Cardinality(left(k - 1))
                               ELSE Cardinality(left(k - 1)) + 1
    BY <2>3, <2>4, FS_AddElement
  <2>8. Len(f[k]) = IF seq[k] \in X THEN Len(f[k - 1]) ELSE Len(f[k - 1]) + 1
    BY <2>5, <2>6
  <2> QED BY <1>3, <2>2, <2>7, <2>8
<1> QED BY <1>4, <1>5

-------------------------------------------------------------------------------
(* Sums *)

\* The places whose number Total is: f[n] of them for each n.
Places(f) == UNION {{<<n, i>> : i \in 1 .. f[n]} : n \in DOMAIN f}

LEMMA InPlaces ==
  ASSUME NEW N, NEW f, f \in [N -> Nat]
  PROVE  /\ \A n \in N : \A i \in 1 .. f[n] : <<n, i>> \in Places(f)
         /\ \A p \in Places(f) : /\ p = <<p[1], p[2]>> /\ p[1] \in N
                                 /\ p[2] \in 1 .. f[p[1]] /\ p[2] \in Nat
<1>1. DOMAIN f = N
  OBVIOUS
<1>2. ASSUME NEW n \in N, NEW i \in 1 .. f[n] PROVE <<n, i>> \in Places(f)
  BY <1>1 DEF Places
<1>3. ASSUME NEW p \in Places(f)
      PROVE  p = <<p[1], p[2]>> /\ p[1] \in N /\ p[2] \in 1 .. f[p[1]] /\ p[2] \in Nat
  <2>1. PICK n \in N : p \in {<<n, i>> : i \in 1 .. f[n]}
    BY <1>1 DEF Places
  <2>2. PICK i \in 1 .. f[n] : p = <<n, i>>
    BY <2>1
  <2> QED BY <2>1, <2>2
<1> QED BY <1>2, <1>3

LEMMA TotalType ==
  ASSUME NEW N, IsFiniteSet(N), NEW f, f \in [N -> Nat]
  PROVE  IsFiniteSet(Places(f)) /\ Total(f) = Cardinality(Places(f)) /\ Total(f) \in Nat
<1> DEFINE at(n) == {<<n, i>> : i \in 1 .. f[n]}
<1>1. ASSUME NEW n \in N PROVE IsFiniteSet(at(n))
  <2> DEFINE g == [i \in 1 .. f[n] |-> <<n, i>>]
  <2>1. g \in Surjection(1 .. f[n], at(n))
    BY DEF Surjection
  <2>2. IsFiniteSet(1 .. f[n])
    BY FS_Interval
  <2> HIDE DEF g, at
  <2> QED BY <2>1, <2>2, FS_Surjection
<1>2. IsFiniteSet({at(n) : n \in N})
  <2> DEFINE g == [n \in N |-> at(n)]
  <2>1. g \in Surjection(N, {at(n) : n \in N})
    <3> HIDE DEF at
    <3> QED BY DEF Surjection
  <2> HIDE DEF g, at
  <2> QED BY <2>1, FS_Surjection
<1>3. Places(f) = UNION {at(n) : n \in N}
  BY DEF Places
<1>4. \A T \in {at(n) : n \in N} : IsFiniteSet(T)
  <2> HIDE DEF at
  <2> QED BY <1>1
<1>5. IsFiniteSet(Places(f))
  <2> HIDE DEF at
  <2> QED BY <1>2, <1>3, <1>4, FS_UNION
<1>6. Total(f) = Cardinality(Places(f))
  BY DEF Total, Places
<1> QED BY <1>5, <1>6, FS_CardinalityType

SumOf(N, f, g) == [n \in N |-> f[n] + g[n]]

LEMMA TotalAdd ==
  ASSUME NEW N, IsFiniteSet(N), NEW f, NEW g, NEW h,
         f \in [N -> Nat], g \in [N -> Nat], h = SumOf(N, f, g)
  PROVE  Total(h) = Total(f) + Total(g)
<1>0. h \in [N -> Nat] /\ \A n \in N : h[n] = f[n] + g[n]
  BY DEF SumOf
<1> DEFINE F == Places(f)
           G == Places(g)
           H == Places(h)
           rest == H \ F
           shift == [p \in G |-> <<p[1], f[p[1]] + p[2]>>]
<1>1. /\ IsFiniteSet(F) /\ Total(f) = Cardinality(F)
      /\ IsFiniteSet(G) /\ Total(g) = Cardinality(G)
      /\ IsFiniteSet(H) /\ Total(h) = Cardinality(H)
  BY <1>0, TotalType
<1>2. F \subseteq H
  <2>1. ASSUME NEW p \in F PROVE p \in H
    <3>1. p = <<p[1], p[2]>> /\ p[1] \in N /\ p[2] \in 1 .. f[p[1]]
      BY <1>0, InPlaces
    <3>2. f[p[1]] \in Nat /\ g[p[1]] \in Nat /\ h[p[1]] = f[p[1]] + g[p[1]]
      BY <1>0, <3>1
    <3>3. p[2] \in 1 .. h[p[1]]
      BY <3>1, <3>2
    <3> QED BY <3>1, <1>0, <3>3, InPlaces
  <2> QED BY <2>1
<1>3. shift \in [G -> rest]
  <2>1. ASSUME NEW p \in G PROVE <<p[1], f[p[1]] + p[2]>> \in rest
    <3>1. p[1] \in N /\ p[2] \in 1 .. g[p[1]]
      BY <1>0, InPlaces
    <3>2. f[p[1]] \in Nat /\ g[p[1]] \in Nat /\ h[p[1]] = f[p[1]] + g[p[1]]
      BY <1>0, <3>1
    <3>3. f[p[1]] + p[2] \in 1 .. h[p[1]] /\ f[p[1]] + p[2] \notin 1 .. f[p[1]]
      BY <3>1, <3>2
    <3>4. <<p[1], f[p[1]] + p[2]>> \in H
      BY <3>1, <1>0, <3>3, InPlaces
    <3>5. <<p[1], f[p[1]] + p[2]>> \notin F
      <4>1. \A q \in F : q[2] \in 1 .. f[q[1]]
        BY <1>0, InPlaces
      <4> QED BY <3>3, <4>1
    <3> QED BY <3>4, <3>5
  <2> HIDE DEF rest, G
  <2> QED BY <2>1
<1>4. shift \in Injection(G, rest)
  <2>1. ASSUME NEW p \in G, NEW q \in G, shift[p] = shift[q] PROVE p = q
    <3>1. p = <<p[1], p[2]>> /\ p[1] \in N /\ p[2] \in Nat /\ q = <<q[1], q[2]>> /\ q[2] \in Nat
      BY <1>0, InPlaces
    <3>2. p[1] = q[1] /\ f[p[1]] + p[2] = f[q[1]] + q[2]
      BY <2>1
    <3>3. f[p[1]] \in Nat
      BY <3>1
    <3>4. p[2] = q[2]
      BY <3>1, <3>2, <3>3
    <3> QED BY <3>1, <3>2, <3>4
  <2> HIDE DEF shift, rest, G
  <2> QED BY <1>3, <2>1 DEF Injection, IsInjective
<1>5. ASSUME NEW p \in rest PROVE \E q \in G : shift[q] = p
  <2>1. p = <<p[1], p[2]>> /\ p[1] \in N /\ p[2] \in 1 .. h[p[1]] /\ p \notin F
    BY <1>0, InPlaces
  <2>2. f[p[1]] \in Nat /\ g[p[1]] \in Nat /\ h[p[1]] = f[p[1]] + g[p[1]]
    BY <1>0, <2>1
  <2>3. p[2] \notin 1 .. f[p[1]]
    <3>1. \A i \in 1 .. f[p[1]] : <<p[1], i>> \in F
      BY <2>1, InPlaces
    <3> HIDE DEF F
    <3> QED BY <2>1, <3>1
  <2>4. p[2] - f[p[1]] \in 1 .. g[p[1]] /\ f[p[1]] + (p[2] - f[p[1]]) = p[2]
    BY <2>1, <2>2, <2>3
  <2>5. <<p[1], p[2] - f[p[1]]>> \in G
    BY <2>1, <2>4, InPlaces
  <2>6. shift[<<p[1], p[2] - f[p[1]]>>] = p
    BY <2>1, <2>4, <2>5
  <2> QED BY <2>5, <2>6
<1>6. shift \in Bijection(G, rest)
  <2> HIDE DEF shift, rest, G
  <2> QED BY <1>3, <1>4, <1>5 DEF Bijection, Surjection
<1>7. Cardinality(rest) = Cardinality(G)
  <2> HIDE DEF shift, rest, G
  <2> QED BY <1>1, <1>6, FS_Bijection DEF ExistsBijection
<1>8. Cardinality(rest) = Cardinality(H) - Cardinality(H \cap F) /\ H \cap F = F
  <2> HIDE DEF F, H
  <2> QED BY <1>1, <1>2, FS_Difference
<1>9. Cardinality(F) \in Nat /\ Cardinality(G) \in Nat /\ Cardinality(H) \in Nat
  <2> HIDE DEF F, G, H
  <2> QED BY <1>1, FS_CardinalityType
<1>10. Cardinality(G) = Cardinality(H) - Cardinality(F)
  <2> HIDE DEF F, G, H, rest
  <2> QED BY <1>7, <1>8
<1> HIDE DEF F, G, H, rest
<1> QED BY <1>1, <1>9, <1>10

\* Things counted by a key they have are counted once.
Keyed(K, key, n) == {k \in K : key[k] = n}

LEMMA TotalByKey ==
  ASSUME NEW N, IsFiniteSet(N), NEW K, IsFiniteSet(K), NEW key, key \in [K -> N],
         NEW f, f \in [N -> Nat], \A n \in N : f[n] = Cardinality(Keyed(K, key, n))
  PROVE  Total(f) = Cardinality(K)
<1> DEFINE with(n) == Keyed(K, key, n)
           nth == [n \in N |-> CHOOSE b : b \in Bijection(1 .. f[n], with(n))]
           P == Places(f)
           map == [p \in P |-> nth[p[1]][p[2]]]
<1>1. ASSUME NEW n \in N PROVE nth[n] \in Bijection(1 .. f[n], with(n))
  <2>1. IsFiniteSet(with(n))
    BY FS_Subset DEF Keyed
  <2>2. f[n] = Cardinality(with(n))
    OBVIOUS
  <2>3. \E b : b \in Bijection(1 .. f[n], with(n))
    <3> HIDE DEF with
    <3> QED BY <2>1, <2>2, FS_CardinalityType DEF ExistsBijection
  <2> HIDE DEF with
  <2> QED BY <2>3
<1>2. ASSUME NEW p \in P
      PROVE  /\ p = <<p[1], p[2]>> /\ p[1] \in N /\ p[2] \in 1 .. f[p[1]]
             /\ map[p] \in K /\ key[map[p]] = p[1] /\ map[p] = nth[p[1]][p[2]]
  <2>1. p = <<p[1], p[2]>> /\ p[1] \in N /\ p[2] \in 1 .. f[p[1]]
    BY InPlaces
  <2>2. nth[p[1]][p[2]] \in with(p[1])
    <3> HIDE DEF with, nth
    <3> QED BY <1>1, <2>1 DEF Bijection, Injection
  <2>4. nth[p[1]][p[2]] \in K /\ key[nth[p[1]][p[2]]] = p[1]
    <3> HIDE DEF nth
    <3> QED BY <2>2 DEF Keyed
  <2>3. map[p] = nth[p[1]][p[2]]
    <3> HIDE DEF nth
    <3> QED OBVIOUS
  <2> HIDE DEF map, nth
  <2> QED BY <2>1, <2>3, <2>4
<1>3. map \in [P -> K]
  <2>1. \A p \in P : nth[p[1]][p[2]] \in K
    <3> HIDE DEF nth, P
    <3> QED BY <1>2
  <2> HIDE DEF nth, P
  <2> QED BY <2>1
<1>4. ASSUME NEW p \in P, NEW q \in P, map[p] = map[q] PROVE p = q
  <2>1. p[1] = q[1]
    <3> HIDE DEF map, P, nth
    <3> QED BY <1>2, <1>4
  <2>2. p[2] = q[2]
    <3>1. nth[p[1]] \in Bijection(1 .. f[p[1]], with(p[1]))
      <4> HIDE DEF nth, P, map, with
      <4> QED BY <1>1, <1>2
    <3>2. nth[p[1]][p[2]] = nth[p[1]][q[2]] /\ p[2] \in 1 .. f[p[1]] /\ q[2] \in 1 .. f[p[1]]
      <4> HIDE DEF nth, P, map, with
      <4> QED BY <1>2, <1>4, <2>1
    <3> HIDE DEF nth, P, map, with
    <3> QED BY <3>1, <3>2 DEF Bijection, Injection, IsInjective
  <2> HIDE DEF P, map, nth, with
  <2> QED BY <1>2, <2>1, <2>2
<1>5. ASSUME NEW k \in K PROVE \E p \in P : map[p] = k
  <2> DEFINE n == key[k]
  <2>1. n \in N /\ k \in with(n)
    BY DEF Keyed
  <2>2. nth[n] \in Bijection(1 .. f[n], with(n))
    BY <1>1, <2>1
  <2>3. PICK i \in 1 .. f[n] : nth[n][i] = k
    <3> HIDE DEF nth, n, with
    <3> QED BY <2>1, <2>2 DEF Bijection, Surjection
  <2>4. <<n, i>> \in P
    BY <2>1, InPlaces
  <2>5. map[<<n, i>>] = k
    <3> HIDE DEF nth, n, P
    <3> QED BY <2>3, <2>4
  <2> HIDE DEF P, map
  <2> QED BY <2>4, <2>5
<1>6. map \in Bijection(P, K)
  <2> HIDE DEF map, P
  <2> QED BY <1>3, <1>4, <1>5 DEF Bijection, Injection, Surjection, IsInjective
<1>7. IsFiniteSet(P) /\ Total(f) = Cardinality(P)
  BY TotalType
<1> HIDE DEF map, P
<1> QED BY <1>6, <1>7, FS_Bijection DEF ExistsBijection

-------------------------------------------------------------------------------
(* The command line *)

ParsedArgs ==
  [cmd : {"launch", "doctor", "print", "upgrade"}, passthrough : Seq(STRING), on : Specs,
   off : BOOLEAN, noUpdateCheck : BOOLEAN, dashes : BOOLEAN]

LEMMA ParsedNothing == NoArgs \in ParsedArgs
BY SessionAssumption DEF NoArgs, ParsedArgs

\* What one word changes.
LEMMA ParsedWord ==
  ASSUME NEW p, p \in ParsedArgs, NEW w, w \in STRING, NEW q, q = ParseWord(p, w)
  PROVE  /\ q \in ParsedArgs
         /\ p.dashes \/ w \notin OwnWords =>
              q = [p EXCEPT !.passthrough = Append(p.passthrough, w)]
         /\ ~ p.dashes /\ w \in OwnWords =>
              /\ q.passthrough = p.passthrough
              /\ q.dashes <=> w = "--"
              /\ q.off <=> p.off \/ w = "--proxy-off"
              /\ q.cmd # "launch" <=> p.cmd # "launch" \/ w \in DOMAIN Commands
<1>1. CASE p.dashes \/ w \notin OwnWords
  <2>1. q = [p EXCEPT !.passthrough = Append(p.passthrough, w)]
    BY <1>1 DEF ParseWord
  <2>2. Append(p.passthrough, w) \in Seq(STRING)
    BY DEF ParsedArgs
  <2> QED BY <1>1, <2>1, <2>2 DEF ParsedArgs
<1>2. CASE ~ p.dashes /\ w \in OwnWords
  <2>0. q = ReadWord(p, w)
    BY <1>2 DEF ParseWord
  <2>d. DOMAIN Commands = {"--doctor", "--version", "upgrade"}
    BY DEF Commands
  <2>s. OnSpec \in Specs /\ AutoSpec \in Specs
    BY SessionAssumption
  <2>1. CASE w = "--"
    <3>1. q = [p EXCEPT !.dashes = TRUE]
      BY <2>0, <2>1, <2>d DEF ReadWord
    <3>2. /\ q \in ParsedArgs /\ q.dashes = TRUE /\ q.passthrough = p.passthrough
          /\ q.off = p.off /\ q.cmd = p.cmd
      BY <3>1 DEF ParsedArgs
    <3>3. w # "--proxy-off" /\ w \notin DOMAIN Commands
      BY <2>1, <2>d
    <3> QED BY <1>2, <2>1, <3>2, <3>3 DEF ParsedArgs
  <2>2. CASE w \in DOMAIN Commands
    <3>1. q = [p EXCEPT !.cmd = Commands[w]]
      BY <2>0, <2>2, <2>d DEF ReadWord
    <3>2. Commands[w] \in {"doctor", "print", "upgrade"}
      BY <2>2, <2>d DEF Commands
    <3> QED BY <1>2, <2>2, <2>d, <3>1, <3>2 DEF ParsedArgs
  <2>3. CASE w = "--proxy-off"
    <3>1. q = [p EXCEPT !.off = TRUE]
      BY <2>0, <2>3, <2>d DEF ReadWord
    <3> QED BY <1>2, <2>3, <2>d, <3>1 DEF ParsedArgs
  <2>4. CASE w = "--proxy-on"
    <3>1. q = [p EXCEPT !.on = AutoSpec]
      BY <2>0, <2>4, <2>d DEF ReadWord
    <3> QED BY <1>2, <2>4, <2>d, <2>s, <3>1 DEF ParsedArgs
  <2>5. CASE w = "--proxy-on=spec"
    <3>1. q = [p EXCEPT !.on = OnSpec]
      BY <2>0, <2>5, <2>d DEF ReadWord
    <3> QED BY <1>2, <2>5, <2>d, <2>s, <3>1 DEF ParsedArgs
  <2>6. CASE w = "--no-update-check"
    <3>1. q = [p EXCEPT !.noUpdateCheck = TRUE]
      BY <2>0, <2>6, <2>d DEF ReadWord
    <3> QED BY <1>2, <2>6, <2>d, <3>1 DEF ParsedArgs
  <2> QED BY <1>2, <2>1, <2>2, <2>3, <2>4, <2>5, <2>6 DEF OwnWords, FlagWords
<1> QED BY <1>1, <1>2

\* The recursion of ParseArgs over the first k words.
ReadTo(args, k, f) ==
  f = [i \in 0 .. k |-> IF i = 0 THEN NoArgs ELSE ParseWord(f[i - 1], args[i])]

LEMMA ReadExists ==
  ASSUME NEW args, NEW n \in Nat
  PROVE  \E f : ReadTo(args, n, f)
<1> DEFINE Bad == {k \in Nat : ~ \E f : ReadTo(args, k, f)}
<1>1. SUFFICES ASSUME Bad # {} PROVE FALSE
  OBVIOUS
<1>2. PICK m \in Bad : \A k \in Bad : m <= k
  BY <1>1, NatMin
<1>3. m # 0
  <2> DEFINE f == [i \in 0 .. 0 |-> NoArgs]
  <2>1. ReadTo(args, 0, f)
    BY DEF ReadTo
  <2> QED BY <2>1
<1>4. PICK g : ReadTo(args, m - 1, g)
  <2>1. m - 1 \in Nat /\ ~ (m <= m - 1)
    BY <1>3
  <2>2. m - 1 \notin Bad
    BY <1>2, <2>1
  <2> QED BY <2>1, <2>2
<1> DEFINE f == [i \in 0 .. m |-> IF i = m THEN ParseWord(g[i - 1], args[i]) ELSE g[i]]
<1>5. ASSUME NEW i \in 0 .. m
      PROVE  f[i] = IF i = 0 THEN NoArgs ELSE ParseWord(f[i - 1], args[i])
  <2>1. \A k \in 0 .. m - 1 : g[k] = IF k = 0 THEN NoArgs ELSE ParseWord(g[k - 1], args[k])
    BY <1>4 DEF ReadTo
  <2>2. \A k \in 0 .. m - 1 : f[k] = g[k]
    OBVIOUS
  <2>3. CASE i = m
    <3>1. i # 0 /\ i - 1 \in 0 .. m - 1
      BY <1>3, <2>3
    <3>2. f[i - 1] = g[i - 1]
      BY <2>2, <3>1
    <3>3. f[i] = ParseWord(g[i - 1], args[i])
      BY <2>3
    <3> QED BY <3>1, <3>2, <3>3
  <2>4. CASE i # m
    <3>1. i \in 0 .. m - 1 /\ (i # 0 => i - 1 \in 0 .. m - 1)
      BY <2>4
    <3> HIDE DEF f
    <3> QED BY <3>1, <2>1, <2>2
  <2> QED BY <2>3, <2>4
<1>6. ReadTo(args, m, f)
  BY <1>5 DEF ReadTo
<1> QED BY <1>6

\* ParseArgs is the last of what is known after each word.
Reads(f, args) ==
  /\ f[0] = NoArgs
  /\ \A i \in 1 .. Len(args) : f[i] = ParseWord(f[i - 1], args[i])
  /\ ParseArgs(args) = f[Len(args)]

LEMMA ParseRun ==
  ASSUME NEW S, NEW args \in Seq(S)
  PROVE  \E f : Reads(f, args)
<1> DEFINE f == CHOOSE g : ReadTo(args, Len(args), g)
<1>0. Len(args) \in Nat
  OBVIOUS
<1>1. ReadTo(args, Len(args), f)
  BY <1>0, ReadExists
<1>2. ParseArgs(args) = f[Len(args)]
  BY DEF ParseArgs, ReadTo
<1>3. \A i \in 0 .. Len(args) : f[i] = IF i = 0 THEN NoArgs ELSE ParseWord(f[i - 1], args[i])
  BY <1>1 DEF ReadTo
<1> HIDE DEF f
<1>4. f[0] = NoArgs
  BY <1>0, <1>3
<1>5. \A i \in 1 .. Len(args) : f[i] = ParseWord(f[i - 1], args[i])
  BY <1>0, <1>3
<1> QED BY <1>2, <1>4, <1>5 DEF Reads

\* What is known after i words, none of them --.
Reading(p, kept, args, i) ==
  /\ p \in ParsedArgs /\ ~ p.dashes
  /\ p.passthrough = kept
  /\ p.off <=> \E k \in 1 .. i : args[k] = "--proxy-off"
  /\ p.cmd # "launch" <=> \E k \in 1 .. i : args[k] \in DOMAIN Commands

LEMMA ReadingBefore ==
  ASSUME NEW args \in Seq(STRING), NEW e \in 0 .. Len(args),
         \A k \in 1 .. e : args[k] # "--",
         NEW f, Reads(f, args), NEW w, Keeps(w, STRING, SubSeq(args, 1, e), OwnWords)
  PROVE  \A i \in 0 .. e : Reading(f[i], w[i], args, i)
<1> DEFINE Bad == {i \in 0 .. e : ~ Reading(f[i], w[i], args, i)}
<1>0. /\ Len(args) \in Nat /\ e \in Nat /\ Len(SubSeq(args, 1, e)) = e
      /\ \A k \in 1 .. e : SubSeq(args, 1, e)[k] = args[k] /\ args[k] \in STRING /\ k \in 1 .. Len(args)
  OBVIOUS
<1>f. /\ f[0] = NoArgs
      /\ \A i \in 1 .. Len(args) : f[i] = ParseWord(f[i - 1], args[i])
  BY DEF Reads
<1>w. /\ w[0] = <<>>
      /\ \A i \in 1 .. e : w[i] = IF args[i] \in OwnWords THEN w[i - 1] ELSE Append(w[i - 1], args[i])
  BY <1>0 DEF Keeps
<1>1. SUFFICES ASSUME Bad # {} PROVE FALSE
  OBVIOUS
<1>2. PICK m \in Bad : \A j \in Bad : m <= j
  <2>1. Bad \in SUBSET Nat
    BY <1>0
  <2> HIDE DEF Bad
  <2> QED BY <1>1, <2>1, NatMin
<1>3. CASE m = 0
  <2>1. Reading(NoArgs, <<>>, args, 0)
    BY ParsedNothing DEF Reading, NoArgs
  <2> QED BY <1>2, <1>3, <1>f, <1>w, <2>1
<1>4. CASE m # 0
  <2>1. m - 1 \in 0 .. e /\ ~ (m <= m - 1) /\ m \in 1 .. e /\ m \in 1 .. Len(args)
    BY <1>0, <1>4
  <2>2. Reading(f[m - 1], w[m - 1], args, m - 1)
    BY <1>2, <2>1
  <2> DEFINE p == f[m - 1]
             q == f[m]
             x == args[m]
  <2>3. p \in ParsedArgs /\ x \in STRING /\ q = ParseWord(p, x) /\ ~ p.dashes /\ x # "--"
    BY <1>0, <1>f, <2>1, <2>2 DEF Reading
  <2>4. /\ q \in ParsedArgs
        /\ x \notin OwnWords => q = [p EXCEPT !.passthrough = Append(p.passthrough, x)]
        /\ x \in OwnWords =>
              /\ q.passthrough = p.passthrough
              /\ q.dashes <=> x = "--"
              /\ q.off <=> p.off \/ x = "--proxy-off"
              /\ q.cmd # "launch" <=> p.cmd # "launch" \/ x \in DOMAIN Commands
    <3> HIDE DEF p, q, x
    <3> QED BY <2>3, ParsedWord
  <2>5. "--proxy-off" \in OwnWords /\ DOMAIN Commands \subseteq OwnWords
    BY DEF OwnWords, FlagWords
  <2>6. /\ q \in ParsedArgs /\ ~ q.dashes
        /\ q.passthrough = IF x \in OwnWords THEN p.passthrough ELSE Append(p.passthrough, x)
        /\ q.off <=> p.off \/ x = "--proxy-off"
        /\ q.cmd # "launch" <=> p.cmd # "launch" \/ x \in DOMAIN Commands
    <3> HIDE DEF p, q, x
    <3> QED BY <2>3, <2>4, <2>5 DEF ParsedArgs
  <2>7. q.passthrough = w[m]
    BY <1>w, <2>1, <2>2, <2>6 DEF Reading
  <2>8. \A k : k \in 1 .. m <=> k \in 1 .. m - 1 \/ k = m
    BY <2>1
  <2>9. /\ q.off <=> \E k \in 1 .. m : args[k] = "--proxy-off"
        /\ q.cmd # "launch" <=> \E k \in 1 .. m : args[k] \in DOMAIN Commands
    BY <2>2, <2>6, <2>8 DEF Reading
  <2>10. Reading(q, w[m], args, m)
    <3> HIDE DEF p, q, x
    <3> QED BY <2>6, <2>7, <2>9 DEF Reading
  <2> QED BY <1>2, <2>10
<1> QED BY <1>3, <1>4

\* What is known after words of which the e + 1st is the first --.
ReadingAfter(p, last, kept) ==
  /\ p \in ParsedArgs /\ p.dashes
  /\ p.passthrough = kept
  /\ p.off <=> last.off
  /\ p.cmd = last.cmd

LEMMA ReadingRest ==
  ASSUME NEW args \in Seq(STRING), NEW e \in 0 .. Len(args) - 1, args[e + 1] = "--",
         NEW f, Reads(f, args), f[e] \in ParsedArgs, ~ f[e].dashes
  PROVE  \A i \in e + 1 .. Len(args) :
           ReadingAfter(f[i], f[e], f[e].passthrough \o SubSeq(args, e + 2, i))
<1> DEFINE last == f[e]
           kept(i) == last.passthrough \o SubSeq(args, e + 2, i)
           Bad == {i \in e + 1 .. Len(args) : ~ ReadingAfter(f[i], last, kept(i))}
<1>0. Len(args) \in Nat /\ e \in Nat /\ last.passthrough \in Seq(STRING)
  BY DEF ParsedArgs
<1>f. \A i \in 1 .. Len(args) : f[i] = ParseWord(f[i - 1], args[i]) /\ args[i] \in STRING
  BY DEF Reads
<1>1. SUFFICES ASSUME Bad # {} PROVE FALSE
  OBVIOUS
<1>2. PICK m \in Bad : \A j \in Bad : m <= j
  <2>1. Bad \in SUBSET Nat
    BY <1>0
  <2> HIDE DEF Bad
  <2> QED BY <1>1, <2>1, NatMin
<1>3. CASE m = e + 1
  <2>1. f[m] = ParseWord(last, "--")
    BY <1>0, <1>3, <1>f
  <2>2. f[m] = [last EXCEPT !.dashes = TRUE]
    BY <2>1 DEF ParseWord, ReadWord, OwnWords, FlagWords, Commands
  <2>3. kept(m) = last.passthrough
    <3>1. SubSeq(args, e + 2, m) = <<>>
      BY <1>0, <1>3
    <3>2. last.passthrough \o <<>> = last.passthrough
      <4> HIDE DEF last
      <4> QED BY <1>0, ConcatNothing
    <3> HIDE DEF last
    <3> QED BY <3>1, <3>2
  <2>4. ReadingAfter(f[m], last, kept(m))
    <3> HIDE DEF last, kept
    <3> QED BY <2>2, <2>3 DEF ReadingAfter, ParsedArgs, last
  <2> QED BY <1>2, <2>4
<1>4. CASE m # e + 1
  <2>1. m - 1 \in e + 1 .. Len(args) /\ ~ (m <= m - 1) /\ m \in 1 .. Len(args) /\ m >= e + 2
    BY <1>0, <1>4
  <2>2. ReadingAfter(f[m - 1], last, kept(m - 1))
    BY <1>2, <2>1
  <2> DEFINE p == f[m - 1]
             q == f[m]
             x == args[m]
  <2>3. p \in ParsedArgs /\ x \in STRING /\ q = ParseWord(p, x) /\ p.dashes
    BY <1>f, <2>1, <2>2 DEF ReadingAfter
  <2>4. q \in ParsedArgs /\ q = [p EXCEPT !.passthrough = Append(p.passthrough, x)]
    <3> HIDE DEF p, q, x
    <3> QED BY <2>3, ParsedWord
  <2>5. SubSeq(args, e + 2, m) = Append(SubSeq(args, e + 2, m - 1), x)
    BY <1>0, <2>1
  <2>6. kept(m) = Append(kept(m - 1), x)
    <3>1. PICK s : s = last.passthrough
      OBVIOUS
    <3>2. PICK t : t = SubSeq(args, e + 2, m - 1)
      OBVIOUS
    <3>3. s \in Seq(STRING) /\ x \in STRING
      BY <1>0, <2>3, <3>1
    <3>4. t \in Seq(STRING)
      BY <1>0, <2>1, <3>2
    <3>5. s \o Append(t, x) = Append(s \o t, x)
      <4> HIDE DEF x
      <4> QED BY <3>3, <3>4, ConcatAppend
    <3>6. kept(m) = s \o Append(t, x) /\ kept(m - 1) = s \o t
      <4> HIDE DEF last, x
      <4> QED BY <2>5, <3>1, <3>2
    <3> QED BY <3>5, <3>6
  <2>7. ReadingAfter(q, last, kept(m))
    <3> HIDE DEF last, kept, q, x
    <3> QED BY <2>2, <2>3, <2>4, <2>6 DEF ReadingAfter, ParsedArgs
  <2> QED BY <1>2, <2>7
<1> QED BY <1>3, <1>4

\* parseArgs: the words up to the first -- are read, the others handed on.
LEMMA ParseArgsUpTo ==
  ASSUME NEW args \in Seq(STRING), NEW e \in 0 .. Len(args),
         \A k \in 1 .. e : args[k] # "--",
         e # Len(args) => args[e + 1] = "--",
         NEW p, p = ParseArgs(args)
  PROVE  /\ p \in ParsedArgs
         /\ p.passthrough =
              Without(SubSeq(args, 1, e), OwnWords) \o SubSeq(args, e + 2, Len(args))
         /\ p.off <=> "--proxy-off" \in ToSet(SubSeq(args, 1, e))
         /\ p.cmd # "launch" <=>
              \E w \in DOMAIN Commands : w \in ToSet(SubSeq(args, 1, e))
<1> DEFINE before == SubSeq(args, 1, e)
<1>0. Len(args) \in Nat /\ e \in Nat
  OBVIOUS
<1>2. PICK f : Reads(f, args)
  BY ParseRun
<1>3. before \in Seq(STRING) /\ Len(before) = e /\ \A k \in 1 .. e : before[k] = args[k]
  OBVIOUS
<1>e. Keeps(CHOOSE w : Keeps(w, STRING, before, OwnWords), STRING, before, OwnWords)
  <2> HIDE DEF before
  <2> QED BY <1>3, WithoutRun
<1>4. PICK w : Keeps(w, STRING, before, OwnWords)
  BY <1>e
<1>5. Reading(f[e], w[e], args, e)
  <2>1. e \in 0 .. e
    BY <1>0
  <2>2. \A i \in 0 .. e : Reading(f[i], w[i], args, i)
    BY <1>2, <1>4, ReadingBefore
  <2> QED BY <2>1, <2>2
<1> HIDE DEF before
<1>6. w[e] = Without(before, OwnWords) /\ w[e] \in Seq(STRING)
  <2>1. w \in [0 .. e -> Seq(STRING \ OwnWords)] /\ e \in 0 .. e /\ w[e] = Without(before, OwnWords)
    BY <1>0, <1>3, <1>4 DEF Keeps
  <2>2. w[e] \in Seq(STRING \ OwnWords)
    BY <2>1
  <2>3. Seq(STRING \ OwnWords) \subseteq Seq(STRING)
    OBVIOUS
  <2> QED BY <2>1, <2>2, <2>3
<1>7. ToSet(before) = {args[k] : k \in 1 .. e}
  BY <1>0, <1>3 DEF ToSet
<1>8. /\ "--proxy-off" \in ToSet(before) <=> f[e].off
      /\ (\E x \in DOMAIN Commands : x \in ToSet(before)) <=> f[e].cmd # "launch"
  BY <1>5, <1>7 DEF Reading
<1>9. p = f[Len(args)]
  BY <1>2 DEF Reads
<1>10. /\ p \in ParsedArgs
       /\ p.passthrough = Without(before, OwnWords) \o SubSeq(args, e + 2, Len(args))
       /\ p.off <=> f[e].off
       /\ p.cmd = f[e].cmd
  <2>1. CASE e = Len(args)
    <3>1. SubSeq(args, e + 2, Len(args)) = <<>>
      BY <1>0, <2>1
    <3>2. Without(before, OwnWords) \o <<>> = Without(before, OwnWords)
      BY <1>6, ConcatNothing
    <3> QED BY <1>5, <1>6, <1>9, <2>1, <3>1, <3>2 DEF Reading
  <2>2. CASE e # Len(args)
    <3>1. f[e] \in ParsedArgs /\ ~ f[e].dashes /\ f[e].passthrough = w[e]
      BY <1>5 DEF Reading
    <3>2. Len(args) \in e + 1 .. Len(args) /\ e \in 0 .. Len(args) - 1
      BY <1>0, <2>2
    <3>3. ReadingAfter(f[Len(args)], f[e], f[e].passthrough \o SubSeq(args, e + 2, Len(args)))
      BY <1>2, <2>2, <3>1, <3>2, ReadingRest
    <3> QED BY <1>6, <1>9, <3>1, <3>3 DEF ReadingAfter
  <2> QED BY <2>1, <2>2
<1> QED BY <1>8, <1>10 DEF before

LEMMA BelowFirst ==
  ASSUME NEW n \in Nat, NEW f \in 1 .. n, NEW i \in 1 .. f - 1
  PROVE  i \in 1 .. n /\ ~ (f <= i)
OBVIOUS

\* The first -- of a command line, if there is one.
LEMMA FirstDashes ==
  ASSUME NEW args \in Seq(STRING), NEW ends, ends = {i \in DOMAIN args : args[i] = "--"},
         NEW e, e = IF ends = {} THEN Len(args) ELSE Min(ends) - 1
  PROVE  /\ e \in 0 .. Len(args)
         /\ \A k \in 1 .. e : args[k] # "--"
         /\ e # Len(args) => args[e + 1] = "--"
<1>0. Len(args) \in Nat /\ DOMAIN args = 1 .. Len(args)
  OBVIOUS
<1>1. CASE ends = {}
  BY <1>0, <1>1
<1>2. CASE ends # {}
  <2>1. PICK m \in ends : \A n \in ends : m <= n
    <3>1. ends \in SUBSET Nat
      BY <1>0
    <3> QED BY <1>2, <3>1, NatMin
  <2>2. Min(ends) \in ends /\ \A n \in ends : Min(ends) <= n
    BY <2>1 DEF Min
  <2>3. PICK first : first = Min(ends)
    OBVIOUS
  <2>4. /\ first \in 1 .. Len(args) /\ args[first] = "--"
        /\ \A k \in 1 .. Len(args) : args[k] = "--" => first <= k
    BY <1>0, <2>2, <2>3
  <2>5. e = first - 1 /\ e + 1 = first /\ e \in 0 .. Len(args)
    BY <1>0, <1>2, <2>3, <2>4
  <2>6. ASSUME NEW k \in 1 .. e PROVE k \in 1 .. Len(args) /\ ~ (first <= k)
    <3>1. Len(args) \in Nat /\ first \in 1 .. Len(args) /\ k \in 1 .. first - 1
      BY <1>0, <2>4, <2>5
    <3> QED BY <3>1, BelowFirst
  <2> QED BY <2>4, <2>5, <2>6
<1> QED BY <1>1, <1>2
-------------------------------------------------------------------------------
(* The invariant: the configuration in force, the slate, the last request  *)
(* and the last report are functions of the world and the command line.    *)

TypedInv ==
  /\ typed \in Seq(Seq(STRING)) /\ argv \in Seq(STRING) /\ parsed = ParseArgs(argv)
  /\ pc \in {"shell", "ensure", "doctor", "load", "resolve", "proxy", "exec", "claude", "failed"}

\* The configuration file is as the session found it, or onboarding has written it.
WorldInv ==
  \E w \in Worlds : world = w \/ (w.file = "missing" /\ world = [w EXCEPT !.file = "ok"])

InForce == ApplyEnvOverride(ApplyFlagOverrides(world.saved, parsed), world)

ConfigInv ==
  pc \in {"resolve", "proxy", "exec", "claude"} => world.file = "ok" /\ cfg = InForce

SlateInv ==
  pc \in {"exec", "claude"} =>
    \/ slate = BuildClaudeEnv(cfg)
    \/ slate = [BuildClaudeEnv(cfg) EXCEPT !.base = "proxy", !.noBetas = FALSE]

\* The request by name n with body b and headers h, and what becomes of it.
IsPost(n, b, h) ==
  /\ asked = [name |-> n, body |-> b, headers |-> h]
  /\ upstream = [name |-> n, body |-> Forwarded(b), headers |-> ForwardedHeaders(h, TRUE)]

IsGet(h) ==
  /\ asked = [name |-> "get", headers |-> h]
  /\ upstream = [name |-> "get", headers |-> ForwardedHeaders(h, FALSE)]

BodyOf(m, th) == [json |-> TRUE, model |-> m, thinking |-> th, reasoning_effort |-> "absent"]

ModelsOf(n) == IF n = "internal" THEN InternalIds ELSE {slate.models[n]}

AskInv ==
  upstream # NoAsk =>
    /\ pc = "claude"
    /\ \E h \in ClientHeaders :
         /\ Allowed(h)
         /\ \/ IsGet(h)
            \/ \E n \in Names \cup {"internal"}, th \in Thinkings :
                 \E m \in ModelsOf(n) : IsPost(n, BodyOf(m, th), h)

\* A report was made of this world, or of one without a usable configuration file.
ReportInv ==
  /\ DOMAIN report = {"claude", "config", "secret", "live", "proxy", "lint", "otlp"}
  /\ report.lint => \/ Collisions(world.saved) = {}
                    \/ world.saved.tierModel = [t \in Tiers |-> NoModel]
                    \/ world.file # "ok"
  /\ AllTicks(report) => /\ world.claude /\ world.file = "ok" /\ world.secret = "ok"
                         /\ pc # "failed"

SessionInv == TypedInv /\ WorldInv /\ ConfigInv /\ SlateInv /\ AskInv /\ ReportInv

LEMMA WorldType ==
  ASSUME WorldInv
  PROVE  /\ world \in SessionWorlds
         /\ world.file = "missing" => world \in Worlds /\ world.saved.tierModel = [t \in Tiers |-> NoModel]
<1>1. PICK w : w \in Worlds /\ (world = w \/ (w.file = "missing" /\ world = [w EXCEPT !.file = "ok"]))
  BY DEF WorldInv
<1>2. w \in SessionWorlds
  BY <1>1, SessionAssumption
<1>3. CASE world = w
  BY <1>1, <1>2, <1>3, SessionAssumption
<1>4. CASE world = [w EXCEPT !.file = "ok"]
  <2>1. world \in SessionWorlds /\ world.file = "ok"
    BY <1>2, <1>4 DEF SessionWorlds, Files
  <2> QED BY <2>1
<1> QED BY <1>1, <1>3, <1>4

LEMMA ParseNothing == ParseArgs(<<>>) = NoArgs
<1>1. <<>> \in Seq(STRING) /\ Len(<<>>) = 0
  OBVIOUS
<1>2. PICK f : Reads(f, <<>>)
  BY <1>1, ParseRun
<1> QED BY <1>1, <1>2 DEF Reads

LEMMA ReportFields ==
  ASSUME NEW w, NEW c
  PROVE  DOMAIN Report(w, c) = {"claude", "config", "secret", "live", "proxy", "lint", "otlp"}
BY DEF Report

LEMMA InitSessionInv == Init => SessionInv
<1> SUFFICES ASSUME Init PROVE SessionInv
  OBVIOUS
<1>1. world \in Worlds /\ world \in SessionWorlds
  BY SessionAssumption DEF Init
<1>2. TypedInv
  <2>1. world.script \in Seq(Seq(STRING))
    BY <1>1 DEF SessionWorlds
  <2>2. <<>> \in Seq(STRING)
    OBVIOUS
  <2> QED BY <2>1, <2>2, ParseNothing DEF Init, TypedInv
<1>3. WorldInv
  BY <1>1 DEF WorldInv
<1>4. ConfigInv /\ SlateInv /\ AskInv
  BY DEF Init, ConfigInv, SlateInv, AskInv
<1>5. ReportInv
  <2>1. report = [check \in {"claude", "config", "secret", "live", "proxy", "lint", "otlp"} |-> FALSE]
    BY ReportFields DEF Init
  <2>2. report.lint = FALSE /\ report.claude = FALSE
    BY <2>1
  <2> QED BY <2>1, <2>2 DEF ReportInv, AllTicks
<1> QED BY <1>2, <1>3, <1>4, <1>5 DEF SessionInv

\* What a doctor's report says of the world it looks at.
LEMMA ReportSays ==
  ASSUME world \in SessionWorlds, NEW r, r = Report(world, LoadedConfig)
  PROVE  /\ r.lint => Collisions(world.saved) = {} \/ world.file # "ok"
         /\ AllTicks(r) => world.claude /\ world.file = "ok" /\ world.secret = "ok"
<1>1. /\ r.lint <=> Collisions(LoadedConfig) = {}
      /\ r.claude = world.claude
      /\ r.secret <=> LoadedConfig.ref /\ world.secret = "ok"
  BY DEF Report, CheckSecretResolves
<1>2. DOMAIN r = {"claude", "config", "secret", "live", "proxy", "lint", "otlp"}
  BY ReportFields
<1>3. world.file = "ok" => LoadedConfig = world.saved
  BY DEF LoadedConfig
<1>4. world.file # "ok" => ~ LoadedConfig.ref
  <2>1. world.saved \in SavedConfigs
    BY DEF SessionWorlds
  <2> QED BY <2>1 DEF LoadedConfig, Defaulted, SavedConfigs
<1>5. AllTicks(r) => r.claude /\ r.secret
  BY <1>2 DEF AllTicks
<1> QED BY <1>1, <1>3, <1>4, <1>5

LEMMA NextSessionInv == SessionInv /\ [Next]_vars => SessionInv'
<1> SUFFICES ASSUME SessionInv, [Next]_vars PROVE SessionInv'
  OBVIOUS
<1>0. TypedInv /\ WorldInv /\ ConfigInv /\ SlateInv /\ AskInv /\ ReportInv
  BY DEF SessionInv
<1>w. /\ world \in SessionWorlds
      /\ world.file = "missing" =>
           world \in Worlds /\ world.saved.tierModel = [t \in Tiers |-> NoModel]
  BY <1>0, WorldType
<1>a. pc # "claude" => upstream = NoAsk
  BY <1>0 DEF AskInv
<1>1. CASE Invoke
  <2>1. TypedInv'
    <3>1. Head(typed) \in Seq(STRING) /\ Tail(typed) \in Seq(Seq(STRING))
      BY <1>0, <1>1 DEF Invoke, TypedInv
    <3> QED BY <1>1, <3>1 DEF Invoke, TypedInv
  <2>2. pc' \in {"ensure", "doctor", "shell"} /\ pc = "shell"
    BY <1>1 DEF Invoke
  <2>3. WorldInv'
    BY <1>0, <1>1 DEF Invoke, WorldInv
  <2>4. ConfigInv' /\ SlateInv' /\ AskInv'
    BY <1>1, <1>a, <2>2 DEF Invoke, launch, ConfigInv, SlateInv, AskInv
  <2>5. ReportInv'
    BY <1>0, <1>1, <2>2 DEF Invoke, ReportInv
  <2> QED BY <2>1, <2>3, <2>4, <2>5 DEF SessionInv
<1>2. CASE RunDoctor
  <2>1. TypedInv' /\ WorldInv' /\ ConfigInv' /\ SlateInv' /\ AskInv'
    BY <1>0, <1>2, <1>a DEF RunDoctor, launch, TypedInv, WorldInv, ConfigInv, SlateInv, AskInv
  <2>2. ReportInv'
    BY <1>2, <1>w, ReportSays, ReportFields DEF RunDoctor, ReportInv
  <2> QED BY <2>1, <2>2 DEF SessionInv
<1>3. CASE EnsureConfig
  <2>1. TypedInv' /\ ConfigInv' /\ SlateInv' /\ AskInv'
    BY <1>0, <1>3, <1>a DEF EnsureConfig, launch, TypedInv, ConfigInv, SlateInv, AskInv
  <2>2. CASE UNCHANGED world
    <3>1. WorldInv'
      BY <1>0, <2>2 DEF WorldInv
    <3>2. ReportInv'
      BY <1>0, <1>3, <2>2 DEF EnsureConfig, ReportInv
    <3> QED BY <2>1, <3>1, <3>2 DEF SessionInv
  <2>3. CASE world.file = "missing" /\ pc' = "load" /\ world' = [world EXCEPT !.file = "ok"]
    <3>1. WorldInv'
      BY <1>w, <2>3 DEF WorldInv
    <3>2. world'.saved = world.saved
      BY <1>w, <2>3 DEF SessionWorlds
    <3>3. ReportInv'
      BY <1>0, <1>3, <1>w, <2>3, <3>2 DEF EnsureConfig, ReportInv
    <3> QED BY <2>1, <3>1, <3>3 DEF SessionInv
  <2> QED BY <1>3, <2>2, <2>3 DEF EnsureConfig
<1>4. CASE LoadConfig
  <2>1. TypedInv' /\ WorldInv' /\ SlateInv' /\ AskInv'
    BY <1>0, <1>4, <1>a DEF LoadConfig, TypedInv, WorldInv, SlateInv, AskInv
  <2>2. ConfigInv'
    BY <1>4 DEF LoadConfig, ConfigInv, InForce
  <2>3. ReportInv'
    BY <1>0, <1>4 DEF LoadConfig, ReportInv
  <2> QED BY <2>1, <2>2, <2>3 DEF SessionInv
<1>5. CASE ResolveKey
  <2>1. TypedInv' /\ WorldInv' /\ SlateInv' /\ AskInv'
    BY <1>0, <1>5, <1>a DEF ResolveKey, launch, TypedInv, WorldInv, SlateInv, AskInv
  <2>2. ConfigInv'
    BY <1>0, <1>5 DEF ResolveKey, launch, ConfigInv, InForce
  <2>3. ReportInv'
    BY <1>0, <1>5 DEF ResolveKey, ReportInv
  <2> QED BY <2>1, <2>2, <2>3 DEF SessionInv
<1>6. CASE StartProxy
  <2>1. TypedInv' /\ WorldInv' /\ AskInv'
    BY <1>0, <1>6, <1>a DEF StartProxy, TypedInv, WorldInv, AskInv
  <2>2. ConfigInv' /\ ReportInv'
    BY <1>0, <1>6 DEF StartProxy, ConfigInv, InForce, ReportInv
  <2>3. SlateInv'
    BY <1>6 DEF StartProxy, SlateInv
  <2> QED BY <2>1, <2>2, <2>3 DEF SessionInv
<1>7. CASE Exec
  <2>1. TypedInv' /\ WorldInv' /\ AskInv'
    BY <1>0, <1>7, <1>a DEF Exec, launch, TypedInv, WorldInv, AskInv
  <2>2. ConfigInv' /\ SlateInv'
    BY <1>0, <1>7 DEF Exec, launch, ConfigInv, InForce, SlateInv
  <2>3. ReportInv'
    BY <1>0, <1>7 DEF Exec, ReportInv
  <2> QED BY <2>1, <2>2, <2>3 DEF SessionInv
<1>8. CASE Message \/ Get
  <2>1. UNCHANGED <<world, typed, argv, parsed, pc, cfg, slate, warned, report>> /\ pc = "claude"
    BY <1>8 DEF Message, Get, MayAsk
  <2>2. TypedInv' /\ WorldInv' /\ ConfigInv' /\ SlateInv' /\ ReportInv'
    BY <1>0, <2>1 DEF TypedInv, WorldInv, ConfigInv, InForce, SlateInv, ReportInv
  <2>3. AskInv'
    <3>1. CASE Get
      BY <2>1, <3>1 DEF Get, AskInv, IsGet, Allowed, SeesNoBetas, ForwardedHeaders, Opts
    <3>2. CASE Message
      <4>1. PICK n, th, h, m :
              /\ n \in Names \cup {"internal"} /\ th \in Thinkings /\ h \in ClientHeaders
              /\ m \in ModelsOf(n) /\ Allowed(h)
              /\ asked' = [name |-> n, body |-> BodyOf(m, th), headers |-> h]
              /\ upstream' = [name |-> n, body |-> Forwarded(BodyOf(m, th)),
                              headers |-> ForwardedHeaders(h, TRUE)]
        BY <3>2 DEF Message, ModelsOf, BodyOf
      <4>2. Allowed(h)' /\ ModelsOf(n)' = ModelsOf(n)
        BY <2>1, <4>1 DEF Allowed, SeesNoBetas, ModelsOf
      <4>3. IsPost(n, BodyOf(m, th), h)'
        BY <2>1, <4>1 DEF IsPost, Forwarded, ForwardedHeaders, Opts
      <4> QED BY <2>1, <4>1, <4>2, <4>3 DEF AskInv
    <3> QED BY <1>8, <3>1, <3>2
  <2> QED BY <2>2, <2>3 DEF SessionInv
<1>9. CASE UNCHANGED vars
  <2>1. TypedInv' /\ WorldInv' /\ ConfigInv' /\ SlateInv' /\ ReportInv'
    BY <1>0, <1>9 DEF vars, TypedInv, WorldInv, ConfigInv, InForce, SlateInv, ReportInv
  <2>2. AskInv'
    <3>0. UNCHANGED vars /\ AskInv
      BY <1>0, <1>9
    <3>1. CASE upstream = NoAsk
      BY <3>0, <3>1 DEF vars, AskInv
    <3>2. CASE upstream # NoAsk
      <4>1. PICK h : /\ h \in ClientHeaders /\ Allowed(h) /\ pc = "claude"
                     /\ \/ IsGet(h)
                        \/ \E n \in Names \cup {"internal"}, th \in Thinkings :
                             \E m \in ModelsOf(n) : IsPost(n, BodyOf(m, th), h)
        BY <3>0, <3>2 DEF AskInv
      <4>2. Allowed(h)' /\ pc' = "claude"
        BY <3>0, <4>1 DEF vars, Allowed, SeesNoBetas
      <4>3. CASE IsGet(h)
        <5>1. IsGet(h)'
          BY <3>0, <4>3 DEF vars, IsGet, ForwardedHeaders, Opts
        <5> QED BY <4>1, <4>2, <5>1 DEF AskInv
      <4>4. CASE ~ IsGet(h)
        <5>1. PICK n, th, m : /\ n \in Names \cup {"internal"} /\ th \in Thinkings
                              /\ m \in ModelsOf(n) /\ IsPost(n, BodyOf(m, th), h)
          BY <4>1, <4>4
        <5>2. IsPost(n, BodyOf(m, th), h)' /\ m \in ModelsOf(n)'
          BY <3>0, <5>1 DEF vars, IsPost, Forwarded, ForwardedHeaders, Opts, ModelsOf
        <5> QED BY <4>1, <4>2, <5>1, <5>2 DEF AskInv
      <4> QED BY <4>3, <4>4
    <3> QED BY <3>1, <3>2
  <2> QED BY <2>1, <2>2 DEF SessionInv
<1> QED BY <1>1, <1>2, <1>3, <1>4, <1>5, <1>6, <1>7, <1>8, <1>9 DEF Next

LEMMA SessionInvAlways == Spec => []SessionInv
<1> QED BY InitSessionInv, NextSessionInv, PTL DEF Spec

-------------------------------------------------------------------------------
(* The command line reaches claude *)

LEMMA WordsExact == TypedInv => PassthroughExact
<1> SUFFICES ASSUME TypedInv PROVE PassthroughExact
  OBVIOUS
<1> DEFINE ends == {i \in DOMAIN argv : argv[i] = "--"}
           e == IF ends = {} THEN Len(argv) ELSE Min(ends) - 1
<1>1. argv \in Seq(STRING) /\ parsed = ParseArgs(argv)
  BY DEF TypedInv
<1>2. /\ e \in 0 .. Len(argv)
      /\ \A k \in 1 .. e : argv[k] # "--"
      /\ e # Len(argv) => argv[e + 1] = "--"
  BY <1>1, FirstDashes
<1> HIDE DEF e
<1>3. /\ parsed.passthrough =
           Without(SubSeq(argv, 1, e), OwnWords) \o SubSeq(argv, e + 2, Len(argv))
      /\ parsed.off <=> "--proxy-off" \in ToSet(SubSeq(argv, 1, e))
      /\ parsed.cmd # "launch" <=>
           \E w \in DOMAIN Commands : w \in ToSet(SubSeq(argv, 1, e))
  BY <1>1, <1>2, ParseArgsUpTo
<1> QED BY <1>3 DEF PassthroughExact, e

LEMMA ParsedType == TypedInv => parsed \in ParsedArgs
<1> SUFFICES ASSUME TypedInv PROVE parsed \in ParsedArgs
  OBVIOUS
<1>1. argv \in Seq(STRING) /\ parsed = ParseArgs(argv)
  BY DEF TypedInv
<1>2. \E e : /\ e \in 0 .. Len(argv)
             /\ \A k \in 1 .. e : argv[k] # "--"
             /\ e # Len(argv) => argv[e + 1] = "--"
  BY <1>1, FirstDashes
<1>3. PICK e : /\ e \in 0 .. Len(argv)
               /\ \A k \in 1 .. e : argv[k] # "--"
               /\ e # Len(argv) => argv[e + 1] = "--"
  BY <1>2
<1> QED BY <1>1, <1>3, ParseArgsUpTo

\* Whatever is typed, claude gets its words and no others, in order.
THEOREM ArgumentsReachClaude == Spec => []PassthroughExact
<1>1. SessionInv => PassthroughExact
  BY WordsExact DEF SessionInv
<1> QED BY <1>1, SessionInvAlways, PTL

-------------------------------------------------------------------------------
(* The configuration in force *)

LEMMA SavedType == WorldInv => world.saved \in SavedConfigs /\ world.effort \in Specs
BY WorldType DEF SessionWorlds

\* The overrides are about effort only.
LEMMA InForceIs ==
  ASSUME SessionInv
  PROVE  /\ InForce \in SavedConfigs
         /\ InForce.model = world.saved.model /\ InForce.tierModel = world.saved.tierModel
         /\ InForce.unlock = world.saved.unlock
         /\ parsed.off /\ world.effort = UnsetSpec =>
              InForce.effort = OffSpec /\ InForce.tierEffort = [t \in Tiers |-> OffSpec]
         /\ ~ Overridden => InForce = world.saved
<1>1. world.saved \in SavedConfigs /\ world.effort \in Specs
  BY SavedType DEF SessionInv
<1>2. parsed \in ParsedArgs
  BY ParsedType DEF SessionInv
<1>3. OffSpec \in Specs
  BY SessionAssumption
<1> DEFINE c == ApplyFlagOverrides(world.saved, parsed)
<1>4. /\ c \in SavedConfigs /\ c.model = world.saved.model /\ c.tierModel = world.saved.tierModel
      /\ c.unlock = world.saved.unlock
      /\ parsed.off => c.effort = OffSpec /\ c.tierEffort = [t \in Tiers |-> OffSpec]
      /\ ~ parsed.off /\ parsed.on = UnsetSpec => c = world.saved
  <2>1. CASE parsed.off
    <3>1. c = [world.saved EXCEPT !.effort = OffSpec, !.tierEffort = [t \in Tiers |-> OffSpec]]
      BY <2>1 DEF ApplyFlagOverrides
    <3>2. [t \in Tiers |-> OffSpec] \in [Tiers -> Specs]
      BY <1>3
    <3> QED BY <1>1, <1>3, <2>1, <3>1, <3>2 DEF SavedConfigs
  <2>2. CASE ~ parsed.off /\ parsed.on # UnsetSpec
    <3>1. c = [world.saved EXCEPT !.effort = parsed.on]
      BY <2>2 DEF ApplyFlagOverrides
    <3> QED BY <1>1, <1>2, <2>2, <3>1 DEF SavedConfigs, ParsedArgs
  <2>3. CASE ~ parsed.off /\ parsed.on = UnsetSpec
    <3>1. c = world.saved
      BY <2>3 DEF ApplyFlagOverrides
    <3> QED BY <1>1, <2>3, <3>1
  <2> QED BY <2>1, <2>2, <2>3
<1>5. InForce = IF world.effort = UnsetSpec THEN c ELSE [c EXCEPT !.effort = world.effort]
  BY DEF InForce, ApplyEnvOverride
<1> HIDE DEF c
<1> QED BY <1>1, <1>4, <1>5 DEF SavedConfigs, Overridden

\* A request is on its way in a session whose configuration is in force.
LEMMA AskedOf ==
  ASSUME SessionInv, upstream # NoAsk
  PROVE  /\ pc = "claude" /\ world.file = "ok" /\ cfg = InForce /\ cfg \in SavedConfigs
         /\ \/ slate = BuildClaudeEnv(cfg)
            \/ slate = [BuildClaudeEnv(cfg) EXCEPT !.base = "proxy", !.noBetas = FALSE]
         /\ slate.models = BuildClaudeEnv(cfg).models
         /\ slate.base # "proxy" => slate.noBetas
<1>1. pc = "claude" /\ world.file = "ok" /\ cfg = InForce
  BY DEF SessionInv, AskInv, ConfigInv
<1>2. \/ slate = BuildClaudeEnv(cfg)
      \/ slate = [BuildClaudeEnv(cfg) EXCEPT !.base = "proxy", !.noBetas = FALSE]
  BY <1>1 DEF SessionInv, SlateInv
<1>3. slate.models = BuildClaudeEnv(cfg).models /\ (slate.base # "proxy" => slate.noBetas)
  <2>1. PICK s : s = BuildClaudeEnv(cfg)
    OBVIOUS
  <2>2. DOMAIN s = {"models", "base", "noBetas"} /\ s.noBetas
    BY <2>1 DEF BuildClaudeEnv
  <2>3. slate = s \/ slate = [s EXCEPT !.base = "proxy", !.noBetas = FALSE]
    BY <1>2, <2>1
  <2>4. slate.models = s.models /\ (slate.base # "proxy" => slate.noBetas)
    BY <2>2, <2>3
  <2> QED BY <2>1, <2>4
<1> QED BY <1>1, <1>2, <1>3, InForceIs

\* A message is the answer to one of claude's requests.
LEMMA MessageIs ==
  ASSUME SessionInv, IsMessage
  PROVE  \E n, th, m, h :
           /\ n \in Names \cup {"internal"} /\ th \in Thinkings /\ h \in ClientHeaders
           /\ m \in ModelsOf(n) /\ IsPost(n, BodyOf(m, th), h)
<1>1. PICK h : /\ h \in ClientHeaders
               /\ \/ IsGet(h)
                  \/ \E n \in Names \cup {"internal"}, th \in Thinkings :
                       \E m \in ModelsOf(n) : IsPost(n, BodyOf(m, th), h)
  BY DEF SessionInv, AskInv, IsMessage
<1>2. ~ IsGet(h)
  <2>1. IsGet(h) => upstream.name = "get"
    BY DEF IsGet
  <2> QED BY <2>1 DEF IsMessage, Names, Tiers
<1> QED BY <1>1, <1>2

\* The proxy's transforms leave a JSON body one with the same fields.
LEMMA ForwardedIs ==
  ASSUME NEW m, NEW th, NEW b, b = BodyOf(m, th), NEW c, NEW wire, wire = UpstreamModel(c, m),
         NEW spec, spec = EffortSpecForModel(c, wire),
         NEW out, out = RunEffort(c, RewriteModel(c, b), wire)
  PROVE  /\ out.model = wire
         /\ out = IF ParseFails(spec) THEN BodyOf(wire, th)
                  ELSE ApplyRegime(BodyOf(wire, th), Resolver(spec)[BucketFromThinking(th)])
<1>1. RewriteModel(c, b) = BodyOf(wire, th)
  BY DEF RewriteModel, BodyOf
<1>2. out = IF ParseFails(spec) THEN BodyOf(wire, th)
            ELSE ApplyRegime(BodyOf(wire, th), Resolver(spec)[BucketFromThinking(th)])
  BY <1>1 DEF RunEffort, BodyOf
<1>3. ASSUME NEW regime PROVE ApplyRegime(BodyOf(wire, th), regime).model = wire
  <2>1. PICK d : d = BodyOf(wire, th)
    OBVIOUS
  <2>2. d.model = wire /\ DOMAIN d = {"json", "model", "thinking", "reasoning_effort"}
    BY <2>1 DEF BodyOf
  <2>3. ApplyRegime(d, regime).model = wire
    BY <2>2 DEF ApplyRegime
  <2> QED BY <2>1, <2>3
<1>4. out.model = wire
  <2>1. BodyOf(wire, th).model = wire
    BY DEF BodyOf
  <2>2. PICK regime : regime = Resolver(spec)[BucketFromThinking(th)]
    OBVIOUS
  <2>3. out = BodyOf(wire, th) \/ out = ApplyRegime(BodyOf(wire, th), regime)
    BY <1>2, <2>2
  <2> QED BY <1>3, <2>1, <2>3
<1> QED BY <1>2, <1>4

-------------------------------------------------------------------------------
(* --proxy-off *)

LEMMA OffIsOff ==
  ASSUME NEW c, NEW th, NEW m, NEW out, NEW spec, spec.kind = "off", c = BodyOf(m, th),
         out = IF ParseFails(spec) THEN c
               ELSE ApplyRegime(c, Resolver(spec)[BucketFromThinking(th)])
  PROVE  out = c
<1>1. Resolver(spec)[BucketFromThinking(th)] = RegimeOff
  <2>1. BucketFromThinking(th) \in Buckets
    BY DEF BucketFromThinking, Buckets
  <2>2. Resolver(spec) = NoResolver
    BY DEF Resolver
  <2> QED BY <2>1, <2>2 DEF NoResolver
<1> QED BY <1>1 DEF ApplyRegime, RegimeOff

LEMMA OffHolds == SessionInv => ProxyOffHolds
<1> SUFFICES ASSUME SessionInv, IsMessage, parsed.off, world.effort = UnsetSpec
             PROVE  /\ upstream.body.thinking = asked.body.thinking
                    /\ upstream.body.reasoning_effort = asked.body.reasoning_effort
  BY DEF ProxyOffHolds
<1>1. PICK n, th, m, h :
        /\ n \in Names \cup {"internal"} /\ th \in Thinkings /\ h \in ClientHeaders
        /\ m \in ModelsOf(n) /\ IsPost(n, BodyOf(m, th), h)
  BY MessageIs
<1>2. asked.body = BodyOf(m, th) /\ upstream.body = Forwarded(BodyOf(m, th))
  BY <1>1 DEF IsPost
<1>3. CASE slate.base # "proxy"
  BY <1>2, <1>3 DEF Forwarded
<1>4. CASE slate.base = "proxy"
  <2>1. PICK wire : wire = UpstreamModel(cfg, m)
    OBVIOUS
  <2>2. PICK spec : spec = EffortSpecForModel(cfg, wire)
    OBVIOUS
  <2>3. upstream.body = RunEffort(cfg, RewriteModel(cfg, BodyOf(m, th)), wire)
    BY <1>2, <1>4, <2>1 DEF Forwarded, BodyOf
  <2>4. upstream.body = IF ParseFails(spec) THEN BodyOf(wire, th)
                        ELSE ApplyRegime(BodyOf(wire, th), Resolver(spec)[BucketFromThinking(th)])
    BY <2>1, <2>2, <2>3, ForwardedIs
  <2>5. spec = OffSpec
    <3>1. cfg.effort = OffSpec /\ cfg.tierEffort = [t \in Tiers |-> OffSpec]
      BY AskedOf, InForceIs DEF IsMessage
    <3>2. EffortTiers(cfg, wire) # {} => TierOrder[Max(EffortTiers(cfg, wire))] \in Tiers
      <4>1. EffortTiers(cfg, wire) \in SUBSET (1 .. 4)
        BY TierOrderIs DEF EffortTiers
      <4> QED BY <4>1, HighestTier, TierOrderIs
    <3> QED BY <2>2, <3>1, <3>2 DEF EffortSpecForModel
  <2>6. upstream.body = BodyOf(wire, th)
    BY <2>4, <2>5, SessionAssumption, OffIsOff
  <2> QED BY <1>2, <2>6 DEF BodyOf
<1> QED BY <1>3, <1>4

\* With --proxy-off no request has its effort changed, whatever is configured.
THEOREM ProxyOffIsOff == Spec => []ProxyOffHolds
<1> QED BY OffHolds, SessionInvAlways, PTL

-------------------------------------------------------------------------------
(* The model of a request *)

\* No configuration gives a claude-* id as a model of DeepSeek.
NoClaudeModels ==
  \A w \in Worlds : /\ w.saved.model \notin ClaudeIds
                    /\ \A t \in Tiers : w.saved.tierModel[t] \notin ClaudeIds

\* What the wire map makes of the ids that can come, when no model is a claude-* id.
LEMMA WireTargets ==
  ASSUME NEW c, c \in SavedConfigs, c.model \notin ClaudeIds,
         \A t \in Tiers : c.tierModel[t] \notin ClaudeIds
  PROVE  /\ \A t \in Tiers : WireOf(c, t) \notin ClaudeIds /\ WireOf(c, t) # NoModel
         /\ \A m : m \notin Spoofs => WireTarget(c, m) = m
         /\ WireTarget(c, SpoofOpus) = WireOf(c, "opus")
         /\ WireTarget(c, SpoofSonnet) = WireOf(c, "sonnet")
         /\ WireTarget(c, SpoofHaiku) = WireOf(c, "haiku")
<1> DEFINE added(m) == {i \in DOMAIN TierOrder :
                          /\ SpoofOf[TierOrder[i]] = m
                          /\ WireOf(c, TierOrder[i]) \notin {NoModel, m}}
<1>1. \A t \in Tiers : WireOf(c, t) \notin ClaudeIds /\ WireOf(c, t) # NoModel
  BY DEF WireOf, SavedConfigs
<1>2. /\ TierOrder[1] = "small_fast" /\ TierOrder[2] = "haiku"
      /\ TierOrder[3] = "sonnet" /\ TierOrder[4] = "opus"
  BY DEF TierOrder
<1>3. /\ SpoofOf[TierOrder[1]] = SpoofHaiku /\ SpoofOf[TierOrder[2]] = SpoofHaiku
      /\ SpoofOf[TierOrder[3]] = SpoofSonnet /\ SpoofOf[TierOrder[4]] = SpoofOpus
  BY <1>2 DEF SpoofOf
<1>4. /\ DOMAIN TierOrder = 1 .. 4 /\ \A i \in 1 .. 4 : TierOrder[i] \in Tiers
      /\ \A i \in 1 .. 4 : i = 1 \/ i = 2 \/ i = 3 \/ i = 4
  BY TierOrderIs
<1>5. SpoofOpus # SpoofSonnet /\ SpoofOpus # SpoofHaiku /\ SpoofSonnet # SpoofHaiku
  BY DEF SpoofOpus, SpoofSonnet, SpoofHaiku
<1>6. \A i \in 1 .. 4, m \in Spoofs : WireOf(c, TierOrder[i]) \notin {NoModel, m}
  BY <1>1, <1>4, SpoofsAreClaudeIds
<1>7. SpoofOpus \in Spoofs /\ SpoofSonnet \in Spoofs /\ SpoofHaiku \in Spoofs
  BY DEF Spoofs
<1>8. \A m : m \notin Spoofs => WireTarget(c, m) = m
  <2>1. ASSUME NEW m, m \notin Spoofs PROVE WireTarget(c, m) = m
    <3>1. \A i \in 1 .. 4 : SpoofOf[TierOrder[i]] \in Spoofs
      BY <1>3, <1>4, <1>7
    <3>2. added(m) = {}
      BY <1>4, <2>1, <3>1
    <3> QED BY <3>2 DEF WireTarget
  <2> QED BY <2>1
<1>9. ASSUME NEW m, m \in Spoofs, NEW k \in 1 .. 4, SpoofOf[TierOrder[k]] = m,
             \A i \in 1 .. 4 : SpoofOf[TierOrder[i]] = m => i <= k
      PROVE  WireTarget(c, m) = WireOf(c, TierOrder[k])
  <2>1. added(m) \in SUBSET (1 .. 4) /\ k \in added(m) /\ \A i \in added(m) : i <= k
    BY <1>4, <1>6, <1>9
  <2>2. WireTarget(c, m) = IF added(m) = {} THEN m ELSE WireOf(c, TierOrder[Max(added(m))])
    BY DEF WireTarget
  <2> HIDE DEF added
  <2>3. Max(added(m)) \in added(m) /\ \A i \in added(m) : Max(added(m)) >= i
    BY <2>1, HighestTier
  <2>4. Max(added(m)) = k
    BY <2>1, <2>3
  <2> QED BY <2>1, <2>2, <2>4
<1> HIDE DEF added
<1>10. WireTarget(c, SpoofOpus) = WireOf(c, "opus")
  <2>1. \A i \in 1 .. 4 : SpoofOf[TierOrder[i]] = SpoofOpus => i <= 4
    OBVIOUS
  <2> QED BY <1>2, <1>3, <1>7, <1>9, <2>1
<1>11. WireTarget(c, SpoofSonnet) = WireOf(c, "sonnet")
  <2>1. \A i \in 1 .. 4 : SpoofOf[TierOrder[i]] = SpoofSonnet => i <= 3
    BY <1>3, <1>4, <1>5
  <2> QED BY <1>2, <1>3, <1>7, <1>9, <2>1
<1>12. WireTarget(c, SpoofHaiku) = WireOf(c, "haiku")
  <2>1. \A i \in 1 .. 4 : SpoofOf[TierOrder[i]] = SpoofHaiku => i <= 2
    BY <1>3, <1>4, <1>5
  <2> QED BY <1>2, <1>3, <1>7, <1>9, <2>1
<1> QED BY <1>1, <1>8, <1>10, <1>11, <1>12

LEMMA UpstreamModels ==
  ASSUME NEW c, c \in SavedConfigs, c.model \notin ClaudeIds,
         \A t \in Tiers : c.tierModel[t] \notin ClaudeIds
  PROVE  /\ \A m : m \notin ClaudeIds => UpstreamModel(c, m) = m
         /\ \A m : m \in ClaudeIds \ Spoofs => UpstreamModel(c, m) = c.model
         /\ UpstreamModel(c, SpoofOpus) = WireOf(c, "opus")
         /\ UpstreamModel(c, SpoofSonnet) = WireOf(c, "sonnet")
         /\ UpstreamModel(c, SpoofHaiku) = WireOf(c, "haiku")
<1>1. /\ \A t \in Tiers : WireOf(c, t) \notin ClaudeIds /\ WireOf(c, t) # NoModel
      /\ \A m : m \notin Spoofs => WireTarget(c, m) = m
      /\ WireTarget(c, SpoofOpus) = WireOf(c, "opus")
      /\ WireTarget(c, SpoofSonnet) = WireOf(c, "sonnet")
      /\ WireTarget(c, SpoofHaiku) = WireOf(c, "haiku")
  BY WireTargets
<1>2. SpoofOpus \in ClaudeIds /\ SpoofSonnet \in ClaudeIds /\ SpoofHaiku \in ClaudeIds
  BY SpoofsAreClaudeIds DEF Spoofs
<1>3. "opus" \in Tiers /\ "sonnet" \in Tiers /\ "haiku" \in Tiers
  BY DEF Tiers
<1>4. ASSUME NEW m, m \notin ClaudeIds PROVE UpstreamModel(c, m) = m
  <2>1. WireTarget(c, m) = m
    BY <1>1, <1>4, SpoofsAreClaudeIds
  <2>2. WireModelKind(c, m) = "noop"
    BY <1>4, <2>1 DEF WireModelKind
  <2> QED BY <2>2 DEF UpstreamModel
<1>5. ASSUME NEW m, m \in ClaudeIds \ Spoofs PROVE UpstreamModel(c, m) = c.model
  <2>1. WireTarget(c, m) = m /\ c.model # NoModel /\ c.model # m
    BY <1>1, <1>5 DEF SavedConfigs
  <2>2. WireModelKind(c, m) = "catchall"
    BY <1>5, <2>1 DEF WireModelKind
  <2> QED BY <2>2 DEF UpstreamModel
<1>6. ASSUME NEW m, m \in ClaudeIds, WireTarget(c, m) \notin ClaudeIds
      PROVE  UpstreamModel(c, m) = WireTarget(c, m)
  <2>1. WireModelKind(c, m) = "map"
    BY <1>6 DEF WireModelKind
  <2> QED BY <2>1 DEF UpstreamModel
<1> QED BY <1>1, <1>2, <1>3, <1>4, <1>5, <1>6

\* The configuration in force has no claude-* models either.
LEMMA InForceModels ==
  ASSUME NoClaudeModels, SessionInv
  PROVE  /\ InForce \in SavedConfigs /\ InForce.model \notin ClaudeIds
         /\ \A t \in Tiers : InForce.tierModel[t] \notin ClaudeIds
<1>1. PICK w : w \in Worlds /\ (world = w \/ world = [w EXCEPT !.file = "ok"])
  BY DEF SessionInv, WorldInv
<1>2. world.saved = w.saved
  <2>1. w \in SessionWorlds
    BY <1>1, SessionAssumption
  <2> QED BY <1>1, <2>1 DEF SessionWorlds
<1> QED BY <1>1, <1>2, InForceIs DEF NoClaudeModels

LEMMA ModelsHonoured ==
  ASSUME NoClaudeModels, SessionInv
  PROVE  TierModelHonoured
<1> SUFFICES ASSUME IsMessage,
                    slate.base = "proxy" \/ (~ cfg.unlock /\ upstream.name # "internal")
             PROVE  upstream.body.model = ModelFor(upstream.name)
  BY DEF TierModelHonoured
<1>1. PICK n, th, m, h :
        /\ n \in Names \cup {"internal"} /\ th \in Thinkings /\ h \in ClientHeaders
        /\ m \in ModelsOf(n) /\ IsPost(n, BodyOf(m, th), h)
  BY MessageIs
<1>2. upstream.name = n /\ upstream.body = Forwarded(BodyOf(m, th))
  BY <1>1 DEF IsPost
<1>3. /\ cfg \in SavedConfigs /\ cfg.model \notin ClaudeIds
      /\ \A t \in Tiers : cfg.tierModel[t] \notin ClaudeIds
  BY AskedOf, InForceModels DEF IsMessage
<1>4. n \in Names => m = BuildClaudeEnv(cfg).models[n] /\ n # "internal"
  BY <1>1, AskedOf DEF ModelsOf, IsMessage, Names, Tiers
<1>5. \A k \in Names : BuildClaudeEnv(cfg).models[k] =
        IF k = "main" THEN IF cfg.unlock THEN SpoofOpus ELSE cfg.model ELSE TierId(cfg, k)
  BY DEF BuildClaudeEnv
<1>6. CASE slate.base # "proxy"
  <2>1. upstream.body.model = m /\ ~ cfg.unlock /\ n \in Names
    BY <1>1, <1>2, <1>6 DEF Forwarded, BodyOf
  <2>2. CASE n = "main"
    BY <1>2, <1>4, <1>5, <2>1, <2>2 DEF ModelFor
  <2>3. CASE n # "main"
    <3>1. m = WireOf(cfg, n)
      BY <1>4, <1>5, <2>1, <2>3 DEF TierId, WireOf
    <3>2. ModelFor(n) = WireOf(cfg, n)
      BY <1>4, <2>1, <2>3 DEF ModelFor
    <3> QED BY <1>2, <2>1, <3>1, <3>2
  <2> QED BY <2>2, <2>3
<1>7. CASE slate.base = "proxy"
  <2>1. PICK wire : wire = UpstreamModel(cfg, m)
    OBVIOUS
  <2>2. upstream.body = RunEffort(cfg, RewriteModel(cfg, BodyOf(m, th)), wire)
    BY <1>2, <1>7, <2>1 DEF Forwarded, BodyOf
  <2>3. upstream.body.model = wire
    BY <2>1, <2>2, ForwardedIs
  <2>4. /\ \A k : k \notin ClaudeIds => UpstreamModel(cfg, k) = k
        /\ \A k : k \in ClaudeIds \ Spoofs => UpstreamModel(cfg, k) = cfg.model
        /\ UpstreamModel(cfg, SpoofOpus) = WireOf(cfg, "opus")
        /\ UpstreamModel(cfg, SpoofSonnet) = WireOf(cfg, "sonnet")
        /\ UpstreamModel(cfg, SpoofHaiku) = WireOf(cfg, "haiku")
    BY <1>3, UpstreamModels
  <2>5. wire = ModelFor(n)
    <3>1. CASE n = "internal"
      <4>1. m \in ClaudeIds \ Spoofs
        BY <1>1, <3>1, SessionAssumption DEF ModelsOf
      <4> QED BY <2>1, <2>4, <3>1, <4>1 DEF ModelFor
    <3>2. CASE n = "main"
      BY <1>3, <1>4, <1>5, <2>1, <2>4, <3>2 DEF ModelFor, Names
    <3>3. CASE n \in Tiers
      <4>1. m = TierId(cfg, n) /\ n # "main" /\ n # "internal"
        BY <1>4, <1>5, <3>3 DEF Names, Tiers
      <4>2. CASE cfg.tierModel[n] # NoModel
        <5>1. m = cfg.tierModel[n] /\ ModelFor(n) = WireOf(cfg, n)
          BY <4>1, <4>2 DEF TierId, ModelFor
        <5> QED BY <1>3, <2>1, <2>4, <3>3, <4>2, <5>1 DEF WireOf
      <4>3. CASE cfg.tierModel[n] = NoModel /\ ~ cfg.unlock
        <5>1. m = cfg.model /\ ModelFor(n) = WireOf(cfg, n)
          BY <4>1, <4>3 DEF TierId, ModelFor
        <5> QED BY <1>3, <2>1, <2>4, <4>3, <5>1 DEF WireOf
      <4>4. CASE cfg.tierModel[n] = NoModel /\ cfg.unlock
        <5>1. m = SpoofOf[n]
          BY <4>1, <4>4 DEF TierId
        <5>2. CASE n = "small_fast"
          <6>1. m = SpoofHaiku /\ ModelFor(n) = WireOf(cfg, "haiku")
            BY <4>4, <5>1, <5>2 DEF SpoofOf, ModelFor
          <6> QED BY <2>1, <2>4, <6>1
        <5>3. CASE n # "small_fast"
          <6>1. ModelFor(n) = WireOf(cfg, n)
            BY <4>1, <4>4, <5>3 DEF ModelFor
          <6>2. /\ n = "haiku" => m = SpoofHaiku
                /\ n = "sonnet" => m = SpoofSonnet
                /\ n = "opus" => m = SpoofOpus
            BY <5>1 DEF SpoofOf
          <6> QED BY <2>1, <2>4, <3>3, <5>3, <6>1, <6>2 DEF Tiers
        <5> QED BY <5>2, <5>3
      <4> QED BY <4>2, <4>3, <4>4
    <3> QED BY <1>1, <3>1, <3>2, <3>3 DEF Names
  <2> QED BY <1>2, <2>3, <2>5
<1> QED BY <1>6, <1>7

\* Each tier is served by its model, whichever configuration without claude-* models
\* it is in.
THEOREM TiersGetTheirModel ==
  ASSUME NoClaudeModels
  PROVE  Spec => []TierModelHonoured
<1>1. SessionInv => TierModelHonoured
  BY ModelsHonoured
<1> QED BY <1>1, SessionInvAlways, PTL


-------------------------------------------------------------------------------
(* The header options *)

LEMMA SeqShape ==
  ASSUME NEW S, NEW s \in Seq(S)
  PROVE  Len(s) \in Nat /\ DOMAIN s = 1 .. Len(s)
OBVIOUS

LEMMA SeqMember ==
  ASSUME NEW S, NEW s \in Seq(S)
  PROVE  \A i \in 1 .. Len(s) : s[i] \in S
OBVIOUS

LEMMA RangeSeq ==
  ASSUME NEW S, NEW s \in Seq(S)
  PROVE  /\ s \in Seq(ToSet(s))
         /\ \A x \in ToSet(s) : \E i \in DOMAIN s : x = s[i]
<1>1. \A i \in DOMAIN s : s[i] \in ToSet(s)
  BY DEF ToSet
<1>2. \A x \in ToSet(s) : \E i \in DOMAIN s : x = s[i]
  BY DEF ToSet
<1>3. s \in [1 .. Len(s) -> ToSet(s)] /\ Len(s) \in Nat
  <2>1. s \in [1 .. Len(s) -> S] /\ Len(s) \in Nat
    OBVIOUS
  <2>2. \A i \in 1 .. Len(s) : s[i] \in ToSet(s)
    BY <1>1
  <2> QED BY <2>1, <2>2
<1> QED BY <1>2, <1>3, MapIsSeq

\* What is added to a request are the entries of PROXY_ADD_HEADERS that are entries.
LEMMA OptionsAdd ==
  ASSUME NEW strips, NEW S, NEW adds \in Seq(S), NEW A,
         \A i \in DOMAIN adds : adds[i].colon /\ adds[i].name # "" =>
           [name |-> adds[i].name, value |-> adds[i].value] \in A
  PROVE  LoadHeaderOpts(strips, adds).add \in Seq(A)
<1> DEFINE bad == {e \in ToSet(adds) : ~ e.colon \/ e.name = ""}
           good == Without(adds, bad)
<1>1. good \in Seq(ToSet(adds) \ bad)
  <2>1. adds \in Seq(ToSet(adds))
    BY RangeSeq
  <2> HIDE DEF bad
  <2> QED BY <2>1, WithoutLen
<1>2. ASSUME NEW e \in ToSet(adds) \ bad PROVE [name |-> e.name, value |-> e.value] \in A
  <2>1. PICK i \in DOMAIN adds : e = adds[i]
    BY RangeSeq
  <2> QED BY <2>1
<1>3. LoadHeaderOpts(strips, adds).add =
        [i \in DOMAIN good |-> [name |-> good[i].name, value |-> good[i].value]]
  BY DEF LoadHeaderOpts
<1> HIDE DEF bad, good
<1>7. \A i \in 1 .. Len(good) : good[i] \in ToSet(adds) \ bad
  BY <1>1, SeqMember
<1>4. ASSUME NEW i \in 1 .. Len(good)
      PROVE  [name |-> good[i].name, value |-> good[i].value] \in A
  <2>1. good[i] \in ToSet(adds) \ bad
    BY <1>7
  <2>2. PICK e : e = good[i]
    OBVIOUS
  <2>3. [name |-> e.name, value |-> e.value] \in A
    BY <1>2, <2>1, <2>2
  <2> QED BY <2>2, <2>3
<1>5. Len(good) \in Nat /\ DOMAIN good = 1 .. Len(good)
  BY <1>1, SeqShape
<1>6. [i \in 1 .. Len(good) |-> [name |-> good[i].name, value |-> good[i].value]] \in Seq(A)
  BY <1>4, <1>5, MapIsSeq
<1> QED BY <1>3, <1>5, <1>6

\* The values added under one name.
EntriesOf(add, n) == {i \in DOMAIN add : add[i].name = n}

LEMMA AddedIs ==
  ASSUME NEW A, NEW opts, opts.add \in Seq(A), NEW n, NEW V,
         \A p \in A : p.name = n => p.value \in V
  PROVE  /\ Added(n, opts) \in Seq(V)
         /\ Len(Added(n, opts)) = Cardinality(EntriesOf(opts.add, n))
<1> DEFINE add == opts.add
           others == {p \in ToSet(add) : p.name # n}
           entries == Without(add, others)
<1>1. /\ entries \in Seq(A \ others)
      /\ Len(entries) = Cardinality(Remaining(add, others))
  <2>1. add \in Seq(A)
    OBVIOUS
  <2> HIDE DEF others, add
  <2>2. /\ Without(add, others) \in Seq(A \ others)
        /\ Len(Without(add, others)) = Cardinality(Remaining(add, others))
    BY <2>1, WithoutLen
  <2> QED BY <2>2
<1>2. add \in Seq(ToSet(add))
  BY RangeSeq
<1>3. entries \in Seq(ToSet(add) \ others)
  <2> HIDE DEF others, add
  <2> QED BY <1>2, WithoutLen
<1>4. Remaining(add, others) = EntriesOf(add, n)
  <2>1. \A i \in DOMAIN add : add[i] \in ToSet(add)
    BY DEF ToSet
  <2> QED BY <2>1 DEF Remaining, EntriesOf
<1>5. Added(n, opts) = [i \in DOMAIN entries |-> entries[i].value]
  BY DEF Added
<1>6. \A x \in A \ others : x \in ToSet(add) => x.value \in V
  OBVIOUS
<1> HIDE DEF entries, others, add
<1>7. Len(entries) \in Nat /\ DOMAIN entries = 1 .. Len(entries)
  BY <1>1, SeqShape
<1>8. \A i \in 1 .. Len(entries) : entries[i] \in A \ others /\ entries[i] \in ToSet(add)
  BY <1>1, <1>3
<1>9. \A i \in 1 .. Len(entries) : entries[i].value \in V
  BY <1>6, <1>8
<1>10. [i \in 1 .. Len(entries) |-> entries[i].value] \in Seq(V)
  BY <1>7, <1>9, MapIsSeq
<1>11. Len([i \in 1 .. Len(entries) |-> entries[i].value]) = Len(entries)
  BY <1>7
<1> QED BY <1>1, <1>4, <1>5, <1>7, <1>10, <1>11 DEF add

-------------------------------------------------------------------------------
(* The Files API stays on this side of the proxy *)

\* PROXY_ADD_HEADERS asks for no Files API.
NoAddedFilesApi ==
  \A w \in Worlds : \A i \in DOMAIN w.adds :
    w.adds[i].name = Beta => FilesApi \notin ToSet(w.adds[i].value)

LEMMA BetaPassedOn ==
  ASSUME NEW h \in [HeaderNames -> Seq(Seq(STRING))], NEW opts
  PROVE  PassedOn(h, Beta, opts) \in Seq(Seq(STRING \ {FilesApi}))
<1> DEFINE kept == FilterAnthropicBeta(Joined(h[Beta]))
<1>1. kept \in Seq(STRING \ {EmptyField, FilesApi})
  <2>1. h[Beta] \in Seq(Seq(STRING))
    BY DEF HeaderNames
  <2>2. Joined(h[Beta]) \in Seq(STRING)
    BY <2>1, FlattenElements DEF Joined
  <2> QED BY <2>2, WithoutLen DEF FilterAnthropicBeta
<1>2. kept \in Seq(STRING \ {FilesApi})
  <2>1. STRING \ {EmptyField, FilesApi} \subseteq STRING \ {FilesApi}
    OBVIOUS
  <2> HIDE DEF kept
  <2> QED BY <1>1, <2>1
<1>3. \/ PassedOn(h, Beta, opts) = <<>>
      \/ PassedOn(h, Beta, opts) = <<kept>>
  BY DEF PassedOn
<1> HIDE DEF kept
<1>4. <<>> \in Seq(Seq(STRING \ {FilesApi})) /\ <<kept>> \in Seq(Seq(STRING \ {FilesApi}))
  BY <1>2
<1> QED BY <1>3, <1>4

LEMMA BetaUpstream ==
  ASSUME NEW h \in [HeaderNames -> Seq(Seq(STRING))], NEW hasBody, NEW opts, NEW A,
         opts.add \in Seq(A),
         \A p \in A : p.name = Beta => p.value \in Seq(STRING \ {FilesApi})
  PROVE  FilesApi \notin ToSet(Joined(BuildUpstreamHeaders(h, hasBody, opts)[Beta]))
<1> DEFINE V == Seq(STRING \ {FilesApi})
           out == BuildUpstreamHeaders(h, hasBody, opts)[Beta]
<1>1. out = PassedOn(h, Beta, opts) \o Managed(Beta, hasBody) \o Added(Beta, opts)
  BY DEF BuildUpstreamHeaders, HeaderNames
<1>2. PassedOn(h, Beta, opts) \in Seq(V)
  BY BetaPassedOn
<1>3. Managed(Beta, hasBody) = <<>>
  BY DEF Managed, Beta
<1>4. Added(Beta, opts) \in Seq(V)
  BY AddedIs
<1>5. out \in Seq(V)
  <2> HIDE DEF V, out
  <2> QED BY <1>1, <1>2, <1>3, <1>4
<1>6. Joined(out) \in Seq(STRING \ {FilesApi})
  <2> HIDE DEF out
  <2> QED BY <1>5, FlattenElements DEF Joined
<1> HIDE DEF out
<1>7. \A i \in DOMAIN Joined(out) : Joined(out)[i] # FilesApi
  BY <1>6
<1>8. FilesApi \notin ToSet(Joined(out))
  BY <1>7 DEF ToSet
<1> QED BY <1>8 DEF out

\* The headers a request came with, and what is made of them.
LEMMA HeadersOf ==
  ASSUME SessionInv, upstream # NoAsk
  PROVE  \E h \in ClientHeaders :
           /\ h \in [HeaderNames -> Seq(Seq(STRING))] /\ Allowed(h) /\ asked.headers = h
           /\ upstream.headers = ForwardedHeaders(h, upstream.name # "get")
<1>1. PICK h \in ClientHeaders :
        /\ Allowed(h)
        /\ \/ IsGet(h)
           \/ \E n \in Names \cup {"internal"}, th \in Thinkings :
                \E m \in ModelsOf(n) : IsPost(n, BodyOf(m, th), h)
  BY DEF SessionInv, AskInv
<1>2. h \in [HeaderNames -> Seq(Seq(STRING))]
  BY SessionAssumption
<1>3. CASE IsGet(h)
  <2>1. asked.headers = h /\ upstream.name = "get" /\ upstream.headers = ForwardedHeaders(h, FALSE)
    BY <1>3 DEF IsGet
  <2> QED BY <1>1, <1>2, <2>1
<1>4. CASE ~ IsGet(h)
  <2>1. PICK n, th, m : n \in Names \cup {"internal"} /\ IsPost(n, BodyOf(m, th), h)
    BY <1>1, <1>4
  <2>2. asked.headers = h /\ upstream.name = n /\ upstream.headers = ForwardedHeaders(h, TRUE)
    BY <2>1 DEF IsPost
  <2>3. n # "get"
    BY <2>1 DEF Names, Tiers
  <2> QED BY <1>1, <1>2, <2>2, <2>3
<1> QED BY <1>3, <1>4

\* The world a session is in has the header lists of one of Worlds.
LEMMA HeaderLists ==
  ASSUME SessionInv
  PROVE  \E w \in Worlds : /\ w \in SessionWorlds
                           /\ world.adds = w.adds /\ world.strips = w.strips
<1>1. PICK w \in Worlds : world = w \/ world = [w EXCEPT !.file = "ok"]
  BY DEF SessionInv, WorldInv
<1>2. w \in SessionWorlds
  BY SessionAssumption
<1> QED BY <1>1, <1>2 DEF SessionWorlds

LEMMA FilesApiIsLocal ==
  ASSUME NoAddedFilesApi, SessionInv
  PROVE  FilesApiStaysLocal
<1> SUFFICES ASSUME upstream # NoAsk
             PROVE  FilesApi \notin ToSet(Joined(upstream.headers[Beta]))
  BY DEF FilesApiStaysLocal
<1>1. PICK h : /\ h \in [HeaderNames -> Seq(Seq(STRING))] /\ Allowed(h)
               /\ upstream.headers = ForwardedHeaders(h, upstream.name # "get")
  BY HeadersOf
<1>2. CASE slate.base # "proxy"
  <2>1. slate.noBetas /\ upstream.headers = h
    BY <1>1, <1>2, AskedOf DEF ForwardedHeaders
  <2> QED BY <1>1, <2>1 DEF Allowed, SeesNoBetas
<1>3. CASE slate.base = "proxy"
  <2>1. PICK w \in Worlds : w \in SessionWorlds /\ world.adds = w.adds
    BY HeaderLists
  <2> DEFINE E == [colon : BOOLEAN, name : HeaderNames \cup {""}, value : Seq(STRING)]
             A == {p \in [name : HeaderNames, value : Seq(STRING)] :
                     p.name = Beta => FilesApi \notin ToSet(p.value)}
  <2>2. w.adds \in Seq(E)
    BY <2>1 DEF SessionWorlds
  <2>3. \A i \in DOMAIN w.adds : w.adds[i] \in E
    <3> HIDE DEF E
    <3> QED BY <2>2
  <2>4. \A i \in DOMAIN w.adds : w.adds[i].colon /\ w.adds[i].name # "" =>
          [name |-> w.adds[i].name, value |-> w.adds[i].value] \in A
    BY <2>1, <2>3 DEF NoAddedFilesApi
  <2>5. LoadHeaderOpts(world.strips, w.adds).add \in Seq(A)
    <3> HIDE DEF A, E
    <3> QED BY <2>2, <2>4, OptionsAdd
  <2>6. Opts.add \in Seq(A)
    BY <2>1, <2>5 DEF Opts
  <2>7. \A p \in A : p.name = Beta => p.value \in Seq(STRING \ {FilesApi})
    <3>1. ASSUME NEW v \in Seq(STRING), FilesApi \notin ToSet(v)
          PROVE  v \in Seq(STRING \ {FilesApi})
      <4>1. Len(v) \in Nat /\ v \in [1 .. Len(v) -> STRING]
        OBVIOUS
      <4>2. \A i \in 1 .. Len(v) : v[i] # FilesApi
        BY <3>1 DEF ToSet
      <4>3. v \in [1 .. Len(v) -> STRING \ {FilesApi}]
        BY <4>1, <4>2
      <4> QED BY <4>1, <4>3, MapIsSeq
    <3> QED BY <3>1
  <2>8. upstream.headers = BuildUpstreamHeaders(h, upstream.name # "get", Opts)
    BY <1>1, <1>3 DEF ForwardedHeaders
  <2> HIDE DEF A
  <2> QED BY <1>1, <2>6, <2>7, <2>8, BetaUpstream
<1> QED BY <1>2, <1>3

\* No request gets a Files API beta past the proxy, whatever claude sends and whatever
\* headers are stripped, as long as none that is added holds one.
THEOREM FilesApiIsKept ==
  ASSUME NoAddedFilesApi
  PROVE  Spec => []FilesApiStaysLocal
<1>1. SessionInv => FilesApiStaysLocal
  BY FilesApiIsLocal
<1> QED BY <1>1, SessionInvAlways, PTL


-------------------------------------------------------------------------------
(* Fields and values of headers *)

\* The fields of a value that are not empty.
Fields(value) == Len(Without(value, {EmptyField}))

LEMMA IntervalSize ==
  ASSUME NEW n \in Nat
  PROVE  IsFiniteSet(1 .. n) /\ Cardinality(1 .. n) = n
<1>1. 1 \in Int /\ n \in Int
  OBVIOUS
<1> QED BY <1>1, FS_Interval

LEMMA DisjointSize ==
  ASSUME NEW S, IsFiniteSet(S), NEW T, IsFiniteSet(T), NEW U, U = S \cup T, S \cap T = {}
  PROVE  Cardinality(U) = Cardinality(S) + Cardinality(T)
<1>1. Cardinality(U) = Cardinality(S) + Cardinality(T) - Cardinality(S \cap T)
  BY FS_Union
<1>2. Cardinality(S) \in Nat /\ Cardinality(T) \in Nat /\ Cardinality(S \cap T) = 0
  BY FS_CardinalityType, FS_EmptySet
<1> QED BY <1>1, <1>2

LEMMA FieldsLeft ==
  ASSUME NEW s \in Seq(STRING), NEW X
  PROVE  /\ IsFiniteSet(Remaining(s, X)) /\ Remaining(s, X) \subseteq 1 .. Len(s)
         /\ Len(Without(s, X)) = Cardinality(Remaining(s, X))
         /\ Len(Without(s, X)) \in Nat
<1>1. Len(s) \in Nat /\ DOMAIN s = 1 .. Len(s)
  BY SeqShape
<1>2. Remaining(s, X) \subseteq 1 .. Len(s)
  BY <1>1 DEF Remaining
<1>3. IsFiniteSet(Remaining(s, X))
  <2>1. IsFiniteSet(1 .. Len(s))
    BY <1>1, IntervalSize
  <2> QED BY <1>2, <2>1, FS_Subset
<1>4. Len(Without(s, X)) = Cardinality(Remaining(s, X))
  BY WithoutLen
<1> QED BY <1>2, <1>3, <1>4, FS_CardinalityType

LEMMA FieldsConcat ==
  ASSUME NEW s \in Seq(STRING), NEW t \in Seq(STRING)
  PROVE  Fields(s \o t) = Fields(s) + Fields(t)
<1> DEFINE X == {EmptyField}
           m == Len(s)
           R(u) == Remaining(u, X)
           moved == [i \in R(t) |-> m + i]
           rest == R(s \o t) \ R(s)
<1>1. m \in Nat /\ Len(t) \in Nat /\ s \o t \in Seq(STRING) /\ Len(s \o t) = m + Len(t)
  OBVIOUS
<1>2. /\ IsFiniteSet(R(s)) /\ R(s) \subseteq 1 .. m /\ Fields(s) = Cardinality(R(s))
      /\ IsFiniteSet(R(t)) /\ R(t) \subseteq 1 .. Len(t) /\ Fields(t) = Cardinality(R(t))
      /\ IsFiniteSet(R(s \o t)) /\ Fields(s \o t) = Cardinality(R(s \o t))
      /\ Fields(s) \in Nat /\ Fields(t) \in Nat /\ Fields(s \o t) \in Nat
  BY <1>1, FieldsLeft DEF Fields
<1>3. /\ \A i \in 1 .. m : i \in R(s \o t) <=> i \in R(s)
      /\ \A i \in 1 .. Len(t) : m + i \in R(s \o t) <=> i \in R(t)
      /\ R(s \o t) \subseteq 1 .. m + Len(t)
  <2>1. ASSUME NEW i \in 1 .. m PROVE i \in R(s \o t) <=> i \in R(s)
    <3>1. (s \o t)[i] = s[i]
      BY <1>1
    <3> QED BY <1>1, <3>1 DEF Remaining
  <2>2. ASSUME NEW i \in 1 .. Len(t) PROVE m + i \in R(s \o t) <=> i \in R(t)
    <3>1. (s \o t)[m + i] = t[i] /\ m + i \in 1 .. m + Len(t)
      BY <1>1
    <3> QED BY <1>1, <3>1 DEF Remaining
  <2>3. R(s \o t) \subseteq 1 .. m + Len(t)
    BY <1>1, FieldsLeft
  <2> QED BY <2>1, <2>2, <2>3
<1> HIDE DEF R, X, m
<1>4. R(s) \subseteq R(s \o t)
  BY <1>2, <1>3
<1>5. moved \in Bijection(R(t), rest)
  <2>1. ASSUME NEW i \in R(t) PROVE m + i \in rest
    BY <1>1, <1>2, <1>3
  <2>2. moved \in [R(t) -> rest]
    <3> HIDE DEF rest
    <3> QED BY <2>1
  <2>3. ASSUME NEW i \in R(t), NEW j \in R(t), moved[i] = moved[j] PROVE i = j
    BY <1>1, <1>2, <2>3
  <2>4. ASSUME NEW q \in rest PROVE \E i \in R(t) : moved[i] = q
    <3>1. q \in 1 .. m + Len(t) /\ q \notin 1 .. m
      BY <1>3
    <3>2. q - m \in 1 .. Len(t) /\ m + (q - m) = q
      BY <1>1, <3>1
    <3>3. q - m \in R(t)
      BY <1>3, <3>2
    <3> QED BY <3>2, <3>3
  <2> HIDE DEF moved, rest
  <2> QED BY <2>2, <2>3, <2>4 DEF Bijection, Injection, Surjection, IsInjective
<1> HIDE DEF moved
<1>6. Cardinality(rest) = Cardinality(R(t))
  <2> HIDE DEF rest
  <2> QED BY <1>2, <1>5, FS_Bijection DEF ExistsBijection
<1>7. IsFiniteSet(rest) /\ R(s \o t) = R(s) \cup rest /\ R(s) \cap rest = {}
  <2>1. IsFiniteSet(rest)
    BY <1>2, FS_Subset
  <2> QED BY <1>4, <2>1
<1> HIDE DEF rest
<1>8. Cardinality(R(s \o t)) = Cardinality(R(s)) + Cardinality(rest)
  BY <1>2, <1>7, DisjointSize
<1> QED BY <1>2, <1>6, <1>8

LEMMA NoFields == Fields(<<>>) = 0
<1>1. <<>> \in Seq(STRING) /\ Len(<<>>) = 0
  OBVIOUS
<1>2. /\ Remaining(<<>>, {EmptyField}) \subseteq 1 .. 0
      /\ Fields(<<>>) = Cardinality(Remaining(<<>>, {EmptyField}))
  BY <1>1, FieldsLeft DEF Fields
<1>3. Remaining(<<>>, {EmptyField}) = {}
  <2>1. 1 .. 0 = {}
    OBVIOUS
  <2> QED BY <1>2, <2>1
<1> QED BY <1>2, <1>3, FS_EmptySet

\* Values of one field each, after at most one other.
LEMMA JoinedFields ==
  ASSUME NEW ss \in Seq(Seq(STRING)), NEW p \in 0 .. 1, p <= Len(ss),
         \A i \in p + 1 .. Len(ss) : Fields(ss[i]) = 1,
         NEW a \in Nat, a = IF p = 0 THEN 0 ELSE Fields(ss[1])
  PROVE  Fields(Joined(ss)) = a + (Len(ss) - p)
<1>1. PICK f \in [0 .. Len(ss) -> Seq(STRING)] :
        /\ f[0] = <<>>
        /\ \A i \in 1 .. Len(ss) : f[i] = f[i - 1] \o ss[i]
        /\ FlattenSeq(ss) = f[Len(ss)]
  BY FlatRun
<1> DEFINE n == Len(ss)
           Bad == {k \in p .. n : Fields(f[k]) # a + (k - p)}
<1>0. n \in Nat /\ p \in Nat /\ n \in p .. n
  OBVIOUS
<1>2. ASSUME NEW i \in 1 .. n PROVE Fields(f[i]) = Fields(f[i - 1]) + Fields(ss[i])
  <2>1. i - 1 \in 0 .. Len(ss)
    OBVIOUS
  <2>2. f[i - 1] \in Seq(STRING) /\ ss[i] \in Seq(STRING) /\ f[i] = f[i - 1] \o ss[i]
    BY <1>1, <2>1, SeqMember
  <2> QED BY <2>2, FieldsConcat
<1>3. \A i \in 0 .. n : Fields(f[i]) \in Nat
  BY <1>1, FieldsLeft DEF Fields
<1>4. SUFFICES ASSUME Bad # {} PROVE FALSE
  BY <1>0, <1>1 DEF Joined
<1>5. PICK k \in Bad : \A j \in Bad : k <= j
  <2>1. Bad \in SUBSET Nat
    BY <1>0
  <2> HIDE DEF Bad
  <2> QED BY <1>4, <2>1, NatMin
<1>6. CASE k = p
  <2>1. CASE p = 0
    <3>1. Fields(f[0]) = 0
      BY <1>1, NoFields
    <3> QED BY <1>5, <1>6, <2>1, <3>1
  <2>2. CASE p = 1
    <3>1. Fields(f[1]) = Fields(f[0]) + Fields(ss[1]) /\ Fields(f[0]) = 0 /\ Fields(ss[1]) = a
      BY <1>0, <1>1, <1>2, <2>2, NoFields
    <3> QED BY <1>5, <1>6, <2>2, <3>1
  <2> QED BY <2>1, <2>2
<1>7. CASE k # p
  <2>1. k - 1 \in p .. n /\ k \in p + 1 .. n /\ k \in 1 .. n /\ ~ (k <= k - 1)
    BY <1>0, <1>5, <1>7
  <2>2. Fields(f[k - 1]) = a + (k - 1 - p)
    BY <1>5, <2>1
  <2>3. Fields(f[k]) = Fields(f[k - 1]) + 1
    BY <1>2, <2>1
  <2> QED BY <1>5, <2>1, <2>2, <2>3
<1> QED BY <1>6, <1>7

-------------------------------------------------------------------------------
(* What the proxy does to the headers, one name at a time *)

\* Every value added to Anthropic-Beta is one field.
OneFieldEntries == {p \in [name : HeaderNames, value : Seq(STRING)] :
                      p.name = Beta => Fields(p.value) = 1}

\* The size of one header.
SizeAt(h, n) == IF n = Beta THEN Fields(Joined(h[n])) ELSE Len(h[n])

StripAt(h, n, opts) ==
  CASE Stripped(n, opts)                -> Len(h[n])
    [] ~ Stripped(n, opts) /\ n = Beta  -> BetaTokensStripped(h)
    [] OTHER                            -> 0

LEMMA TokensStripped ==
  ASSUME NEW h \in [HeaderNames -> Seq(Seq(STRING))],
         NEW all, all = Joined(h[Beta]), NEW kept, kept = FilterAnthropicBeta(all)
  PROVE  /\ kept \in Seq(STRING) /\ Fields(kept) = Len(kept)
         /\ BetaTokensStripped(h) \in Nat
         /\ Fields(all) = Len(kept) + BetaTokensStripped(h)
<1> DEFINE E == {EmptyField}
           B == {EmptyField, FilesApi}
           tokens == {i \in DOMAIN all : all[i] = FilesApi}
<1>1. all \in Seq(STRING)
  <2>1. h[Beta] \in Seq(Seq(STRING))
    BY DEF HeaderNames
  <2> QED BY <2>1, FlattenElements DEF Joined
<1>2. Len(all) \in Nat /\ DOMAIN all = 1 .. Len(all)
  BY <1>1, SeqShape
<1>3. /\ IsFiniteSet(Remaining(all, E)) /\ Fields(all) = Cardinality(Remaining(all, E))
      /\ IsFiniteSet(Remaining(all, B)) /\ Len(kept) = Cardinality(Remaining(all, B))
      /\ Len(kept) \in Nat
  <2> HIDE DEF B
  <2>1. Fields(all) = Len(Without(all, E)) /\ kept = Without(all, B)
    BY DEF Fields, FilterAnthropicBeta, B
  <2> HIDE DEF E
  <2> QED BY <1>1, <2>1, FieldsLeft
<1>4. kept \in Seq(STRING \ B)
  <2> HIDE DEF B
  <2>1. kept = Without(all, B)
    BY DEF FilterAnthropicBeta, B
  <2> QED BY <1>1, <2>1, WithoutLen
<1>5. kept \in Seq(STRING)
  BY <1>4
<1>6. Fields(kept) = Len(kept)
  <2>1. Fields(kept) = Cardinality(Remaining(kept, E))
    BY <1>5, FieldsLeft DEF Fields
  <2>2. Len(kept) \in Nat /\ DOMAIN kept = 1 .. Len(kept)
    BY <1>5, SeqShape
  <2>3. \A i \in 1 .. Len(kept) : kept[i] \in STRING \ B
    BY <1>4, SeqMember
  <2>4. Remaining(kept, E) = 1 .. Len(kept)
    BY <2>2, <2>3 DEF Remaining
  <2>5. Cardinality(1 .. Len(kept)) = Len(kept)
    BY <2>2, IntervalSize
  <2> QED BY <2>1, <2>4, <2>5
<1>7. IsFiniteSet(tokens) /\ BetaTokensStripped(h) = Cardinality(tokens)
  <2>1. IsFiniteSet(tokens)
    <3>1. IsFiniteSet(1 .. Len(all)) /\ tokens \subseteq 1 .. Len(all)
      BY <1>2, IntervalSize
    <3> HIDE DEF tokens
    <3> QED BY <3>1, FS_Subset
  <2> QED BY <2>1 DEF BetaTokensStripped
<1>8. /\ Remaining(all, E) = Remaining(all, B) \cup tokens
      /\ Remaining(all, B) \cap tokens = {}
  BY DEF Remaining, EmptyField, FilesApi
<1>9. Cardinality(tokens) \in Nat /\ Cardinality(Remaining(all, B)) \in Nat
  BY <1>3, <1>7, FS_CardinalityType
<1> HIDE DEF E, B, tokens
<1>10. Cardinality(Remaining(all, E)) = Cardinality(Remaining(all, B)) + Cardinality(tokens)
  BY <1>3, <1>7, <1>8, DisjointSize
<1> QED BY <1>3, <1>5, <1>6, <1>7, <1>9, <1>10


LEMMA ConcatLen ==
  ASSUME NEW S, NEW s \in Seq(S), NEW T, NEW t \in Seq(T)
  PROVE  /\ Len(s \o t) = Len(s) + Len(t) /\ Len(s) \in Nat /\ Len(t) \in Nat
         /\ s \o t \in Seq(S \cup T)
<1>1. s \in Seq(S \cup T) /\ t \in Seq(S \cup T)
  OBVIOUS
<1> QED BY <1>1

LEMMA ManagedIs ==
  ASSUME NEW n, NEW hasBody
  PROVE  /\ Managed(n, hasBody) \in Seq({<<"upstream">>, <<"length">>})
         /\ Len(Managed(n, hasBody)) =
              IF n = "Host" \/ (n = "Content-Length" /\ hasBody) THEN 1 ELSE 0
<1>1. <<>> \in Seq({<<"upstream">>, <<"length">>}) /\ Len(<<>>) = 0
  OBVIOUS
<1>2. ASSUME NEW x \in {<<"upstream">>, <<"length">>}
      PROVE  <<x>> \in Seq({<<"upstream">>, <<"length">>}) /\ Len(<<x>>) = 1
  OBVIOUS
<1>3. CASE n = "Host"
  BY <1>2, <1>3 DEF Managed
<1>4. CASE n # "Host" /\ n = "Content-Length" /\ hasBody
  BY <1>2, <1>4 DEF Managed
<1>5. CASE n # "Host" /\ ~ (n = "Content-Length" /\ hasBody)
  BY <1>1, <1>5 DEF Managed
<1> QED BY <1>3, <1>4, <1>5

\* What is counted as stripped and as injected is the difference of the sizes.
LEMMA SizeConserved ==
  ASSUME NEW h \in [HeaderNames -> Seq(Seq(STRING))], NEW hasBody, NEW opts,
         opts.add \in Seq(OneFieldEntries), Beta \notin opts.strip, NEW n \in HeaderNames,
         NEW out, out = BuildUpstreamHeaders(h, hasBody, opts)
  PROVE  /\ SizeAt(h, n) \in Nat /\ SizeAt(out, n) \in Nat /\ StripAt(h, n, opts) \in Nat
         /\ Len(Managed(n, hasBody)) \in Nat /\ Len(Added(n, opts)) \in Nat
         /\ SizeAt(out, n) + StripAt(h, n, opts)
              = SizeAt(h, n) + Len(Managed(n, hasBody)) + Len(Added(n, opts))
<1>1. out[n] = PassedOn(h, n, opts) \o Managed(n, hasBody) \o Added(n, opts)
  BY DEF BuildUpstreamHeaders
<1>2. Managed(n, hasBody) \in Seq({<<"upstream">>, <<"length">>}) /\ Len(Managed(n, hasBody)) \in Nat
  BY ManagedIs
<1>3. h[n] \in Seq(Seq(STRING)) /\ Len(h[n]) \in Nat
  OBVIOUS
<1>4. Added(n, opts) \in Seq(Seq(STRING)) /\ Len(Added(n, opts)) \in Nat
  <2>1. \A p \in OneFieldEntries : p.name = n => p.value \in Seq(STRING)
    BY DEF OneFieldEntries
  <2>2. Added(n, opts) \in Seq(Seq(STRING))
    BY <2>1, AddedIs
  <2> QED BY <2>2
<1>5. ASSUME NEW in \in Seq(Seq(STRING)), PassedOn(h, n, opts) = in
      PROVE  Len(out[n]) = Len(in) + Len(Managed(n, hasBody)) + Len(Added(n, opts))
  <2>1. /\ Len(in \o Managed(n, hasBody)) = Len(in) + Len(Managed(n, hasBody))
        /\ in \o Managed(n, hasBody) \in Seq(Seq(STRING) \cup {<<"upstream">>, <<"length">>})
    BY <1>2, ConcatLen
  <2>2. PICK first : first = in \o Managed(n, hasBody)
    OBVIOUS
  <2>3. Len(first \o Added(n, opts)) = Len(first) + Len(Added(n, opts))
    BY <1>4, <2>1, <2>2, ConcatLen
  <2> QED BY <1>1, <1>5, <2>1, <2>2, <2>3
<1>6. CASE n # Beta /\ Stripped(n, opts)
  <2>1. PassedOn(h, n, opts) = <<>> /\ <<>> \in Seq(Seq(STRING)) /\ Len(<<>>) = 0
    BY <1>6 DEF PassedOn
  <2>2. Len(out[n]) = Len(Managed(n, hasBody)) + Len(Added(n, opts))
    <3>1. PICK none : none = <<>>
      OBVIOUS
    <3>2. none \in Seq(Seq(STRING)) /\ PassedOn(h, n, opts) = none /\ Len(none) = 0
      BY <2>1, <3>1
    <3>3. Len(out[n]) = Len(none) + Len(Managed(n, hasBody)) + Len(Added(n, opts))
      BY <1>5, <3>2
    <3> QED BY <1>2, <3>2, <3>3
  <2>3. /\ SizeAt(h, n) = Len(h[n]) /\ SizeAt(out, n) = Len(out[n])
        /\ StripAt(h, n, opts) = Len(h[n])
    BY <1>6 DEF SizeAt, StripAt
  <2> QED BY <1>2, <1>3, <1>4, <2>2, <2>3
<1>7. CASE n # Beta /\ ~ Stripped(n, opts)
  <2>1. PassedOn(h, n, opts) = h[n]
    BY <1>7 DEF PassedOn
  <2>2. Len(out[n]) = Len(h[n]) + Len(Managed(n, hasBody)) + Len(Added(n, opts))
    BY <1>3, <1>5, <2>1
  <2>3. /\ SizeAt(h, n) = Len(h[n]) /\ SizeAt(out, n) = Len(out[n])
        /\ StripAt(h, n, opts) = 0
    BY <1>7 DEF SizeAt, StripAt
  <2> QED BY <1>2, <1>3, <1>4, <2>2, <2>3
<1>8. CASE n = Beta
  <2>1. ~ Stripped(n, opts)
    BY <1>8 DEF Stripped, HopByHop, ProxyManaged, Beta
  <2>2. Managed(n, hasBody) = <<>> /\ Len(<<>>) = 0
    BY <1>8 DEF Managed, Beta
  <2>3. PICK all : all = Joined(h[Beta])
    OBVIOUS
  <2>4. PICK kept : kept = FilterAnthropicBeta(all)
    OBVIOUS
  <2>5. /\ kept \in Seq(STRING) /\ Fields(kept) = Len(kept) /\ Len(kept) \in Nat
        /\ BetaTokensStripped(h) \in Nat /\ Fields(all) = Len(kept) + BetaTokensStripped(h)
    <3>1. /\ kept \in Seq(STRING) /\ Fields(kept) = Len(kept)
          /\ BetaTokensStripped(h) \in Nat /\ Fields(all) = Len(kept) + BetaTokensStripped(h)
      BY <2>3, <2>4, TokensStripped
    <3> QED BY <3>1, SeqShape
  <2>6. PassedOn(h, n, opts) = IF kept = <<>> THEN <<>> ELSE <<kept>>
    BY <1>8, <2>1, <2>3, <2>4 DEF PassedOn
  <2>7. PICK first : first = PassedOn(h, n, opts)
    OBVIOUS
  <2>8. /\ first \in Seq(Seq(STRING)) /\ Len(first) \in 0 .. 1
        /\ Len(kept) = IF Len(first) = 0 THEN 0 ELSE Fields(first[1])
    <3>1. CASE kept = <<>>
      <4>1. first = <<>>
        BY <2>6, <2>7, <3>1
      <4> QED BY <3>1, <4>1
    <3>2. CASE kept # <<>>
      <4>1. first = <<kept>>
        BY <2>6, <2>7, <3>2
      <4>2. <<kept>> \in Seq(Seq(STRING)) /\ Len(<<kept>>) = 1 /\ <<kept>>[1] = kept
        BY <2>5
      <4> QED BY <2>5, <4>1, <4>2
    <3> QED BY <3>1, <3>2
  <2>9. PICK add : add = Added(n, opts)
    OBVIOUS
  <2>10. out[n] = first \o add
    <3>1. first \o <<>> = first
      BY <2>8, ConcatNothing
    <3> QED BY <1>1, <2>2, <2>7, <2>9, <3>1
  <2>11. add \in Seq(Seq(STRING)) /\ \A i \in 1 .. Len(add) : Fields(add[i]) = 1
    <3> DEFINE V == {v \in Seq(STRING) : Fields(v) = 1}
    <3>1. \A p \in OneFieldEntries : p.name = n => p.value \in V
      BY <1>8 DEF OneFieldEntries
    <3>2. add \in Seq(V)
      <4> HIDE DEF V
      <4> QED BY <2>9, <3>1, AddedIs
    <3>3. \A i \in 1 .. Len(add) : add[i] \in V
      <4> HIDE DEF V
      <4> QED BY <3>2, SeqMember
    <3> QED BY <1>4, <2>9, <3>3
  <2>12. PICK ss : ss = first \o add
    OBVIOUS
  <2>13. /\ ss \in Seq(Seq(STRING)) /\ Len(ss) = Len(first) + Len(add)
         /\ \A i \in Len(first) + 1 .. Len(ss) : Fields(ss[i]) = 1
         /\ Len(first) = 1 => ss[1] = first[1]
    <3>1. ss \in Seq(Seq(STRING)) /\ Len(ss) = Len(first) + Len(add) /\ Len(add) \in Nat
      BY <2>8, <2>11, <2>12
    <3>2. ASSUME NEW i \in Len(first) + 1 .. Len(ss) PROVE Fields(ss[i]) = 1
      <4>1. i - Len(first) \in 1 .. Len(add)
        BY <2>8, <3>1
      <4>2. ss[i] = add[i - Len(first)]
        BY <2>8, <2>11, <2>12, <3>1
      <4> QED BY <2>11, <4>1, <4>2
    <3>3. Len(first) = 1 => ss[1] = first[1]
      BY <2>8, <2>11, <2>12, <3>1
    <3> QED BY <3>1, <3>2, <3>3
  <2>14. Fields(Joined(ss)) = Len(kept) + (Len(ss) - Len(first))
    <3>1. Len(first) <= Len(ss) /\ Len(kept) = IF Len(first) = 0 THEN 0 ELSE Fields(ss[1])
      BY <2>8, <2>11, <2>13
    <3>2. PICK p \in 0 .. 1 : p = Len(first)
      BY <2>8
    <3>3. PICK a \in Nat : a = Len(kept)
      BY <2>5
    <3> QED BY <2>13, <3>1, <3>2, <3>3, JoinedFields
  <2>15. SizeAt(out, n) = Len(kept) + Len(add)
    <3>1. SizeAt(out, n) = Fields(Joined(ss))
      BY <1>8, <2>10, <2>12 DEF SizeAt
    <3> QED BY <1>4, <2>5, <2>8, <2>9, <2>13, <2>14, <3>1
  <2>16. SizeAt(h, n) = Fields(all) /\ StripAt(h, n, opts) = BetaTokensStripped(h)
    BY <1>8, <2>1, <2>3 DEF SizeAt, StripAt
  <2> QED BY <1>4, <2>2, <2>5, <2>9, <2>15, <2>16
<1> QED BY <1>6, <1>7, <1>8

LEMMA NamesFinite == IsFiniteSet(HeaderNames)
<1>1. IsFiniteSet(HopByHop)
  <2>1. ASSUME NEW S, IsFiniteSet(S), NEW x PROVE IsFiniteSet(S \cup {x})
    BY <2>1, FS_AddElement
  <2>2. IsFiniteSet({"Connection"})
    BY FS_Singleton
  <2>3. IsFiniteSet({"Connection", "Keep-Alive", "Proxy-Authenticate"})
    <3>1. {"Connection", "Keep-Alive", "Proxy-Authenticate"} = {"Connection"} \cup {"Keep-Alive"} \cup {"Proxy-Authenticate"}
      OBVIOUS
    <3> QED BY <2>1, <2>2, <3>1
  <2>4. IsFiniteSet({"Connection", "Keep-Alive", "Proxy-Authenticate"} \cup {"Proxy-Authorization"} \cup {"Te"} \cup {"Trailer"})
    BY <2>1, <2>3
  <2>5. IsFiniteSet({"Connection", "Keep-Alive", "Proxy-Authenticate"} \cup {"Proxy-Authorization"} \cup {"Te"} \cup {"Trailer"} \cup {"Trailers"} \cup {"Transfer-Encoding"} \cup {"Upgrade"})
    BY <2>1, <2>4
  <2>6. HopByHop = {"Connection", "Keep-Alive", "Proxy-Authenticate"} \cup {"Proxy-Authorization"} \cup {"Te"} \cup {"Trailer"} \cup {"Trailers"} \cup {"Transfer-Encoding"} \cup {"Upgrade"}
    BY DEF HopByHop
  <2> QED BY <2>5, <2>6
<1>2. IsFiniteSet(ProxyManaged)
  <2>1. ProxyManaged = {"Host"} \cup {"Content-Length"}
    BY DEF ProxyManaged
  <2>2. IsFiniteSet({"Host"})
    BY FS_Singleton
  <2> QED BY <2>1, <2>2, FS_AddElement
<1>3. IsFiniteSet(HopByHop \cup ProxyManaged)
  BY <1>1, <1>2, FS_Union
<1>4. IsFiniteSet(HopByHop \cup ProxyManaged \cup {Beta})
  BY <1>3, FS_AddElement
<1>5. IsFiniteSet(Plain)
  BY SessionAssumption
<1> QED BY <1>4, <1>5, FS_Union DEF HeaderNames

\* The headers the proxy manages, counted: Host, and Content-Length of a body.
LEMMA ManagedTotal ==
  ASSUME NEW hasBody \in BOOLEAN
  PROVE  Total([n \in HeaderNames |-> Len(Managed(n, hasBody))]) = 1 + (IF hasBody THEN 1 ELSE 0)
<1> DEFINE f == [n \in HeaderNames |-> Len(Managed(n, hasBody))]
           K == {"Host"} \cup (IF hasBody THEN {"Content-Length"} ELSE {})
           key == [k \in K |-> k]
<1>1. IsFiniteSet(K) /\ Cardinality(K) = 1 + (IF hasBody THEN 1 ELSE 0)
  <2>1. IsFiniteSet({"Host"}) /\ Cardinality({"Host"}) = 1
    BY FS_Singleton
  <2>2. CASE hasBody
    <3>1. K = {"Host"} \cup {"Content-Length"} /\ "Content-Length" \notin {"Host"}
      BY <2>2
    <3> HIDE DEF K
    <3> QED BY <2>1, <2>2, <3>1, FS_AddElement
  <2>3. CASE ~ hasBody
    <3>1. K = {"Host"}
      BY <2>3
    <3> HIDE DEF K
    <3> QED BY <2>1, <2>3, <3>1
  <2> QED BY <2>2, <2>3
<1>2. \A n \in HeaderNames : f[n] = IF n \in K THEN 1 ELSE 0
  <2>1. ASSUME NEW n \in HeaderNames PROVE f[n] = IF n \in K THEN 1 ELSE 0
    <3>1. f[n] = IF n = "Host" \/ (n = "Content-Length" /\ hasBody) THEN 1 ELSE 0
      BY ManagedIs
    <3> HIDE DEF f
    <3> QED BY <3>1
  <2> QED BY <2>1
<1>3. f \in [HeaderNames -> Nat]
  <2>1. DOMAIN f = HeaderNames /\ f = [n \in HeaderNames |-> f[n]]
    OBVIOUS
  <2> HIDE DEF f, K
  <2> QED BY <1>2, <2>1
<1>4. K \subseteq HeaderNames
  BY DEF HeaderNames, ProxyManaged
<1>5. ASSUME NEW n \in HeaderNames PROVE f[n] = Cardinality(Keyed(K, key, n))
  <2>1. CASE n \in K
    <3>1. Keyed(K, key, n) = {n}
      <4> HIDE DEF K
      <4> QED BY <2>1 DEF Keyed
    <3> HIDE DEF f, K, key
    <3> QED BY <1>2, <2>1, <3>1, FS_Singleton
  <2>2. CASE n \notin K
    <3>1. Keyed(K, key, n) = {}
      <4> HIDE DEF K
      <4> QED BY <2>2 DEF Keyed
    <3> HIDE DEF f, K, key
    <3> QED BY <1>2, <2>2, <3>1, FS_EmptySet
  <2> QED BY <2>1, <2>2
<1>6. key \in [K -> HeaderNames]
  <2> HIDE DEF K
  <2> QED BY <1>4
<1> HIDE DEF f, K, key
<1>7. Total(f) = Cardinality(K)
  BY <1>1, <1>3, <1>5, <1>6, NamesFinite, TotalByKey
<1> QED BY <1>1, <1>7 DEF f

\* The headers that are added, counted.
Adding(opts, A) == opts.add \in Seq(A) /\ \A p \in A : p.name \in HeaderNames

LEMMA AddedTotal ==
  ASSUME NEW opts, NEW A, Adding(opts, A)
  PROVE  Total([n \in HeaderNames |-> Len(Added(n, opts))]) = Len(opts.add)
<1>0. PICK add : add = opts.add
  OBVIOUS
<1> DEFINE f == [n \in HeaderNames |-> Len(Added(n, opts))]
           K == 1 .. Len(add)
           key == [k \in K |-> add[k].name]
<1>1. add \in Seq(A) /\ Len(add) \in Nat /\ DOMAIN add = K /\ \A k \in K : add[k] \in A
  BY <1>0, SeqShape, SeqMember DEF Adding
<1>2. IsFiniteSet(K) /\ Cardinality(K) = Len(add)
  BY <1>1, IntervalSize
<1>3. key \in [K -> HeaderNames]
  <2> HIDE DEF K
  <2> QED BY <1>1 DEF Adding
<1>4. ASSUME NEW n \in HeaderNames
      PROVE  f[n] = Cardinality(Keyed(K, key, n)) /\ f[n] \in Nat
  <2>1. Len(Added(n, opts)) = Cardinality(EntriesOf(add, n))
    <3> DEFINE V == {p.value : p \in A}
    <3>1. \A p \in A : p.name = n => p.value \in V
      OBVIOUS
    <3>0. opts.add \in Seq(A)
      BY DEF Adding
    <3> HIDE DEF V, f, K, key
    <3>2. Len(Added(n, opts)) = Cardinality(EntriesOf(opts.add, n))
      BY <3>0, <3>1, AddedIs
    <3> QED BY <1>0, <3>2
  <2>2. Keyed(K, key, n) = EntriesOf(add, n)
    BY <1>1 DEF Keyed, EntriesOf
  <2>3. IsFiniteSet(Keyed(K, key, n))
    <3>1. Keyed(K, key, n) \subseteq K
      BY DEF Keyed
    <3> HIDE DEF K, key
    <3> QED BY <1>2, <3>1, FS_Subset
  <2>4. f[n] = Len(Added(n, opts))
    OBVIOUS
  <2> HIDE DEF f, K, key
  <2> QED BY <2>1, <2>2, <2>3, <2>4, FS_CardinalityType
<1>5. f \in [HeaderNames -> Nat]
  <2>1. DOMAIN f = HeaderNames /\ f = [n \in HeaderNames |-> f[n]]
    OBVIOUS
  <2> HIDE DEF f, K, key
  <2> QED BY <1>4, <2>1
<1> HIDE DEF f, K, key
<1>6. Total(f) = Cardinality(K)
  BY <1>2, <1>3, <1>4, <1>5, NamesFinite, TotalByKey
<1> QED BY <1>0, <1>2, <1>6 DEF f

LEMMA TotalsAgree ==
  ASSUME NEW N, IsFiniteSet(N), NEW a, NEW b, NEW c, NEW d, NEW e,
         a \in [N -> Nat], b \in [N -> Nat], c \in [N -> Nat], d \in [N -> Nat], e \in [N -> Nat],
         \A n \in N : a[n] + b[n] = c[n] + d[n] + e[n]
  PROVE  Total(a) + Total(b) = Total(c) + Total(d) + Total(e)
<1>1. PICK ab : ab = SumOf(N, a, b)
  OBVIOUS
<1>2. PICK cd : cd = SumOf(N, c, d)
  OBVIOUS
<1>3. cd \in [N -> Nat] /\ ab = SumOf(N, cd, e)
  BY <1>1, <1>2 DEF SumOf
<1>4. Total(ab) = Total(a) + Total(b)
  BY <1>1, TotalAdd
<1>5. Total(cd) = Total(c) + Total(d)
  BY <1>2, TotalAdd
<1>6. Total(ab) = Total(cd) + Total(e)
  BY <1>3, TotalAdd
<1> QED BY <1>4, <1>5, <1>6

\* Headers and options as the proxy gets them.
Proxied(h, hasBody, opts) ==
  /\ h \in [HeaderNames -> Seq(Seq(STRING))] /\ hasBody \in BOOLEAN
  /\ opts.add \in Seq(OneFieldEntries) /\ Beta \notin opts.strip

LEMMA CountsConserved ==
  ASSUME NEW h, NEW hasBody, NEW opts, Proxied(h, hasBody, opts),
         NEW out, out = BuildUpstreamHeaders(h, hasBody, opts)
  PROVE  HeaderSize(out) + StripCount(h, opts) = HeaderSize(h) + InjectCount(hasBody, opts)
<1> DEFINE N == HeaderNames
           before == [n \in N |-> SizeAt(h, n)]
           after == [n \in N |-> SizeAt(out, n)]
           strip == [n \in N |-> StripAt(h, n, opts)]
           managed == [n \in N |-> Len(Managed(n, hasBody))]
           added == [n \in N |-> Len(Added(n, opts))]
<1>1. ASSUME NEW n \in N
      PROVE  /\ SizeAt(h, n) \in Nat /\ SizeAt(out, n) \in Nat /\ StripAt(h, n, opts) \in Nat
             /\ Len(Managed(n, hasBody)) \in Nat /\ Len(Added(n, opts)) \in Nat
             /\ SizeAt(out, n) + StripAt(h, n, opts)
                  = SizeAt(h, n) + Len(Managed(n, hasBody)) + Len(Added(n, opts))
  BY <1>1, SizeConserved DEF Proxied
<1>2. /\ before \in [N -> Nat] /\ after \in [N -> Nat] /\ strip \in [N -> Nat]
      /\ managed \in [N -> Nat] /\ added \in [N -> Nat]
  <2> HIDE DEF N
  <2> QED BY <1>1
<1>3. \A n \in N : after[n] + strip[n] = before[n] + managed[n] + added[n]
  <2> HIDE DEF N
  <2> QED BY <1>1
<1>4. Total(before) \in Nat /\ Total(managed) \in Nat /\ Total(added) \in Nat
  <2> HIDE DEF before, managed, added
  <2> QED BY <1>2, NamesFinite, TotalType
<1>5. HeaderSize(h) = Total(before) /\ HeaderSize(out) = Total(after)
  BY DEF HeaderSize, SizeAt, Fields
<1>6. StripCount(h, opts) = Total(strip)
  BY DEF StripCount, StripAt
<1>7. Total(managed) = 1 + (IF hasBody THEN 1 ELSE 0)
  BY ManagedTotal DEF Proxied
<1>8. Total(added) = Len(opts.add)
  <2>1. \A p \in OneFieldEntries : p.name \in HeaderNames
    BY DEF OneFieldEntries
  <2> QED BY <2>1, AddedTotal DEF Proxied, Adding
<1>9. IsFiniteSet(N)
  BY NamesFinite
<1> HIDE DEF N, before, after, strip, managed, added
<1>10. Total(after) + Total(strip) = Total(before) + Total(managed) + Total(added)
  BY <1>2, <1>3, <1>9, TotalsAgree
<1>12. InjectCount(hasBody, opts) = 1 + (IF hasBody THEN 1 ELSE 0) + Len(opts.add)
  BY DEF InjectCount
<1>13. PICK k \in Nat : k = IF hasBody THEN 1 ELSE 0
  OBVIOUS
<1>14. PICK l \in Nat : l = Len(opts.add)
  BY <1>4, <1>8
<1>15. Total(managed) = 1 + k /\ Total(added) = l /\ InjectCount(hasBody, opts) = 1 + k + l
  BY <1>7, <1>8, <1>12, <1>13, <1>14
<1>16. Total(before) + (1 + k) + l = Total(before) + (1 + k + l)
  BY <1>4
<1> QED BY <1>5, <1>6, <1>10, <1>15, <1>16

\* What PROXY_ADD_HEADERS adds to Anthropic-Beta is one field an entry.
AddsOneField ==
  \A w \in Worlds : \A i \in DOMAIN w.adds :
    w.adds[i].name = Beta => Fields(w.adds[i].value) = 1

LEMMA HeadersConserved ==
  ASSUME AddsOneField, SessionInv
  PROVE  HeaderCountsConserved
<1> SUFFICES ASSUME slate.base = "proxy", upstream # NoAsk, Beta \notin Opts.strip
             PROVE  HeaderSize(upstream.headers) + StripCount(asked.headers, Opts)
                      = HeaderSize(asked.headers) + InjectCount(upstream.name # "get", Opts)
  BY DEF HeaderCountsConserved
<1>1. PICK h : /\ h \in [HeaderNames -> Seq(Seq(STRING))] /\ asked.headers = h
               /\ upstream.headers = ForwardedHeaders(h, upstream.name # "get")
  BY HeadersOf
<1>2. upstream.headers = BuildUpstreamHeaders(h, upstream.name # "get", Opts)
  BY <1>1 DEF ForwardedHeaders
<1>3. PICK w \in Worlds : w \in SessionWorlds /\ world.adds = w.adds
  BY HeaderLists
<1> DEFINE E == [colon : BOOLEAN, name : HeaderNames \cup {""}, value : Seq(STRING)]
<1>4. w.adds \in Seq(E)
  BY <1>3 DEF SessionWorlds
<1>5. \A i \in DOMAIN w.adds : w.adds[i] \in E
  <2> HIDE DEF E
  <2> QED BY <1>4
<1>6. \A i \in DOMAIN w.adds : w.adds[i].colon /\ w.adds[i].name # "" =>
        [name |-> w.adds[i].name, value |-> w.adds[i].value] \in OneFieldEntries
  BY <1>3, <1>5 DEF AddsOneField, OneFieldEntries
<1>7. LoadHeaderOpts(world.strips, w.adds).add \in Seq(OneFieldEntries)
  <2> HIDE DEF E
  <2> QED BY <1>4, <1>6, OptionsAdd
<1>8. Opts.add \in Seq(OneFieldEntries)
  BY <1>3, <1>7 DEF Opts
<1>9. PICK o : o = Opts
  OBVIOUS
<1>10. PICK hasBody \in BOOLEAN : hasBody = (upstream.name # "get")
  OBVIOUS
<1>11. Proxied(h, hasBody, o)
  BY <1>1, <1>8, <1>9 DEF Proxied
<1> QED BY <1>1, <1>2, <1>9, <1>10, <1>11, CountsConserved

\* The counts of stripped and injected headers account for every header, whatever
\* claude sends and the proxy is told to strip and to add.
THEOREM HeadersAreCounted ==
  ASSUME AddsOneField
  PROVE  Spec => []HeaderCountsConserved
<1>1. SessionInv => HeaderCountsConserved
  BY HeadersConserved
<1> QED BY <1>1, SessionInvAlways, PTL


-------------------------------------------------------------------------------
(* What the doctor vouches for *)

\* Two tiers with a spec of their own and one wire id are a collision.
LEMMA CollisionOf ==
  ASSUME NEW c, c.unlock, NEW t \in Tiers, NEW u \in Tiers, t # u, c.tierModel[t] # NoModel,
         c.tierModel[u] = c.tierModel[t],
         ~ IsProxySpecEmpty(c.tierEffort[t]), ~ IsProxySpecEmpty(c.tierEffort[u])
  PROVE  Collisions(c) # {}
<1> DEFINE m == WireOf(c, t)
           g == SpecTiers(c, m)
<1>1. m = c.tierModel[t] /\ WireOf(c, u) = m
  BY DEF WireOf
<1>2. t \in g /\ u \in g
  BY <1>1 DEF SpecTiers
<1>3. IsFiniteSet(g)
  <2>1. IsFiniteSet({"small_fast"} \cup {"haiku"} \cup {"sonnet"} \cup {"opus"})
    <3>1. IsFiniteSet({"small_fast"})
      BY FS_Singleton
    <3>2. IsFiniteSet({"small_fast"} \cup {"haiku"})
      BY <3>1, FS_AddElement
    <3>3. IsFiniteSet({"small_fast"} \cup {"haiku"} \cup {"sonnet"})
      BY <3>2, FS_AddElement
    <3> QED BY <3>3, FS_AddElement
  <2>2. g \subseteq Tiers
    BY DEF SpecTiers
  <2>3. Tiers = {"small_fast"} \cup {"haiku"} \cup {"sonnet"} \cup {"opus"}
    BY DEF Tiers
  <2> HIDE DEF g
  <2> QED BY <2>1, <2>2, <2>3, FS_Subset
<1>4. Cardinality(g) > 1
  <2> HIDE DEF g
  <2>1. Cardinality(g) \in Nat
    BY <1>3, FS_CardinalityType
  <2>2. Cardinality(g) # 0
    BY <1>2, <1>3, FS_EmptySet
  <2>3. Cardinality(g) # 1
    <3>1. Cardinality(g) = 1 => \E x : g = {x}
      BY <1>3, FS_Singleton
    <3> QED BY <1>2, <3>1
  <2> QED BY <2>1, <2>2, <2>3
<1>5. g \in {SpecTiers(c, WireOf(c, x)) : x \in Tiers}
  OBVIOUS
<1> HIDE DEF g
<1> QED BY <1>4, <1>5 DEF Collisions

\* The spec of a tier whose model no other spec is for is the spec of that model.
LEMMA OnlySpec ==
  ASSUME NEW c, NEW t \in Tiers, c.tierModel[t] # NoModel, c.tierEffort[t].kind # "unset",
         \A u \in Tiers : c.tierModel[u] = c.tierModel[t] /\ c.tierEffort[u].kind # "unset" => u = t
  PROVE  EffortSpecForModel(c, c.tierModel[t]) = c.tierEffort[t]
<1> DEFINE T == EffortTiers(c, c.tierModel[t])
<1>1. PICK i \in 1 .. 4 : TierOrder[i] = t
  <2>1. /\ TierOrder[1] = "small_fast" /\ TierOrder[2] = "haiku"
        /\ TierOrder[3] = "sonnet" /\ TierOrder[4] = "opus"
    BY DEF TierOrder
  <2>2. 1 \in 1 .. 4 /\ 2 \in 1 .. 4 /\ 3 \in 1 .. 4 /\ 4 \in 1 .. 4
    OBVIOUS
  <2> HIDE DEF TierOrder
  <2> QED BY <2>1, <2>2 DEF Tiers
<1>2. T \in SUBSET (1 .. 4) /\ i \in T /\ \A j \in T : TierOrder[j] = t
  BY <1>1, TierOrderIs DEF EffortTiers
<1> HIDE DEF T
<1>3. Max(T) \in T
  BY <1>2, HighestTier
<1> QED BY <1>2, <1>3 DEF EffortSpecForModel, T

LEMMA SameModel ==
  ASSUME NEW m, NEW th
  PROVE  [BodyOf(m, th) EXCEPT !.model = m] = BodyOf(m, th)
<1>1. PICK D : D = {"json", "model", "thinking", "reasoning_effort"}
  OBVIOUS
<1>2. PICK b : b = BodyOf(m, th)
  OBVIOUS
<1>3. b = [x \in D |-> b[x]] /\ b.model = m /\ "model" \in D
  BY <1>1, <1>2 DEF BodyOf
<1>4. [b EXCEPT !.model = m] = b
  BY <1>3
<1> QED BY <1>2, <1>4

LEMMA LintIsTrue ==
  ASSUME NoClaudeModels, SessionInv
  PROVE  LintVouches
<1> SUFFICES ASSUME IsMessage, slate.base = "proxy", upstream.name \in Vouched,
                    ~ SharedWithOff(upstream.name)
             PROVE  EffortFrom(cfg.tierEffort[upstream.name])
  BY DEF LintVouches
<1>1. PICK t, th, m, h :
        /\ t \in Names \cup {"internal"} /\ th \in Thinkings /\ h \in ClientHeaders
        /\ m \in ModelsOf(t) /\ IsPost(t, BodyOf(m, th), h)
  BY MessageIs
<1>2. /\ upstream.name = t /\ upstream.body = Forwarded(BodyOf(m, th))
      /\ asked.body = BodyOf(m, th)
  BY <1>1 DEF IsPost
<1>3. /\ t \in Tiers /\ report.lint /\ cfg.unlock /\ ~ Overridden
      /\ cfg.tierModel[t] # NoModel /\ ~ IsProxySpecEmpty(cfg.tierEffort[t])
  BY <1>2 DEF Vouched
<1>4. /\ cfg \in SavedConfigs /\ cfg.model \notin ClaudeIds
      /\ \A u \in Tiers : cfg.tierModel[u] \notin ClaudeIds
  BY AskedOf, InForceModels DEF IsMessage
<1>5. m = cfg.tierModel[t]
  <2>1. m = BuildClaudeEnv(cfg).models[t] /\ t \in Names /\ t # "main"
    BY <1>1, <1>3, AskedOf DEF ModelsOf, IsMessage, Names, Tiers
  <2>2. BuildClaudeEnv(cfg).models[t] = TierId(cfg, t)
    BY <2>1 DEF BuildClaudeEnv
  <2> QED BY <1>3, <2>1, <2>2 DEF TierId
<1>6. UpstreamModel(cfg, m) = m
  BY <1>3, <1>4, <1>5, UpstreamModels
<1>7. Collisions(cfg) = {}
  <2>1. cfg = world.saved /\ world.file = "ok"
    BY <1>3, AskedOf, InForceIs DEF IsMessage
  <2>2. ReportInv
    BY DEF SessionInv
  <2>3. world.saved.tierModel # [u \in Tiers |-> NoModel]
    BY <1>3, <2>1
  <2> QED BY <1>3, <2>1, <2>2, <2>3 DEF ReportInv
<1>8. PICK spec : spec = cfg.tierEffort[t]
  OBVIOUS
<1>9. EffortSpecForModel(cfg, m) = spec
  <2>1. ASSUME NEW u \in Tiers, cfg.tierModel[u] = cfg.tierModel[t],
               cfg.tierEffort[u].kind # "unset", u # t
        PROVE  FALSE
    <3>1. cfg.tierEffort[u].kind # "off"
      BY <1>2, <2>1 DEF SharedWithOff
    <3>2. ~ IsProxySpecEmpty(cfg.tierEffort[u])
      BY <2>1, <3>1 DEF IsProxySpecEmpty
    <3> QED BY <1>3, <1>7, <2>1, <3>2, CollisionOf
  <2>2. cfg.tierEffort[t].kind # "unset"
    BY <1>3 DEF IsProxySpecEmpty
  <2>3. EffortSpecForModel(cfg, cfg.tierModel[t]) = cfg.tierEffort[t]
    BY <1>3, <2>1, <2>2, OnlySpec
  <2> QED BY <1>5, <1>8, <2>3
<1>10. upstream.body = RunEffort(cfg, RewriteModel(cfg, BodyOf(m, th)), m)
  BY <1>2, <1>6 DEF Forwarded, BodyOf
<1>11. /\ upstream.body.model = m
       /\ upstream.body = IF ParseFails(spec) THEN BodyOf(m, th)
                          ELSE ApplyRegime(BodyOf(m, th), Resolver(spec)[BucketFromThinking(th)])
  BY <1>6, <1>9, <1>10, ForwardedIs
<1>12. [asked.body EXCEPT !.model = upstream.body.model] = BodyOf(m, th)
  <2>1. upstream.body.model = m /\ asked.body = BodyOf(m, th)
    BY <1>2, <1>11
  <2>2. [BodyOf(m, th) EXCEPT !.model = m] = BodyOf(m, th)
    BY SameModel
  <2> QED BY <2>1, <2>2
<1>13. BodyOf(m, th).thinking = th
  BY DEF BodyOf
<1>14. EffortFrom(spec)
  BY <1>11, <1>12, <1>13 DEF EffortFrom
<1> QED BY <1>2, <1>8, <1>14

\* A report without a collision is true of the requests that follow, and one of seven
\* ticks of the launch.
THEOREM DoctorKeepsItsWord ==
  ASSUME NoClaudeModels
  PROVE  Spec => []DoctorVouches
<1>1. SessionInv => DoctorVouches
  <2>1. SessionInv => LintVouches
    BY LintIsTrue
  <2> QED BY <2>1 DEF SessionInv, ReportInv, DoctorVouches
<1> QED BY <1>1, SessionInvAlways, PTL

-------------------------------------------------------------------------------
(* A sequence of blocks beside the positions they have in a body *)

Spots == Nat \X Nat \X Nat

LEMMA SpotShape ==
  ASSUME NEW p \in Spots
  PROVE  p = <<p[1], p[2], p[3]>> /\ p[1] \in Nat /\ p[2] \in Nat /\ p[3] \in Nat
BY DEF Spots

LEMMA BeforeOrders ==
  ASSUME NEW p \in Spots, NEW q \in Spots
  PROVE  /\ ~ Before(p, p)
         /\ ~ (Before(p, q) /\ Before(q, p))
         /\ p # q => Before(p, q) \/ Before(q, p)
<1>1. /\ p = <<p[1], p[2], p[3]>> /\ p[1] \in Nat /\ p[2] \in Nat /\ p[3] \in Nat
      /\ q = <<q[1], q[2], q[3]>> /\ q[1] \in Nat /\ q[2] \in Nat /\ q[3] \in Nat
  BY SpotShape
<1>2. ~ Before(p, p) /\ ~ (Before(p, q) /\ Before(q, p))
  BY <1>1 DEF Before
<1>3. ASSUME ~ Before(p, q), ~ Before(q, p) PROVE p = q
  <2>1. p[1] = q[1]
    BY <1>1, <1>3 DEF Before
  <2>2. p[2] = q[2]
    BY <1>1, <1>3, <2>1 DEF Before
  <2>3. p[3] = q[3]
    BY <1>1, <1>3, <2>1, <2>2 DEF Before
  <2> QED BY <1>1, <2>1, <2>2, <2>3
<1> QED BY <1>2, <1>3

\* at finds the blocks of b at the positions P in the sequence seq, in their order.
Finds(at, seq, P, b) ==
  /\ at \in [P -> 1 .. Len(seq)]
  /\ \A p \in P : seq[at[p]] = At(b, p)
  /\ \A p, q \in P : Before(p, q) => at[p] < at[q]

\* seq has the blocks of b at the positions P in their order, and only these if all.
Holds(seq, P, b, all) ==
  \E at : /\ Finds(at, seq, P, b)
          /\ all => \A k \in 1 .. Len(seq) : \E p \in P : at[p] = k

LEMMA HoldsNothing ==
  ASSUME NEW b, NEW all
  PROVE  Holds(<<>>, {}, b, all)
<1> DEFINE at == [p \in {} |-> 0]
<1>1. at \in [{} -> 1 .. Len(<<>>)]
  OBVIOUS
<1>2. Finds(at, <<>>, {}, b)
  <2> HIDE DEF at
  <2> QED BY <1>1 DEF Finds
<1>3. \A k \in 1 .. Len(<<>>) : FALSE
  OBVIOUS
<1> HIDE DEF at
<1> QED BY <1>2, <1>3 DEF Holds

LEMMA HoldsAnything ==
  ASSUME NEW S, NEW seq \in Seq(S), NEW b
  PROVE  Holds(seq, {}, b, FALSE)
<1> DEFINE at == [p \in {} |-> 0]
<1>1. at \in [{} -> 1 .. Len(seq)]
  OBVIOUS
<1>2. Finds(at, seq, {}, b)
  <2> HIDE DEF at
  <2> QED BY <1>1 DEF Finds
<1> HIDE DEF at
<1> QED BY <1>2 DEF Holds

LEMMA HoldsOne ==
  ASSUME NEW b, NEW all, NEW p \in Spots, NEW x, x = At(b, p)
  PROVE  Holds(<<x>>, {p}, b, all)
<1> DEFINE at == [q \in {p} |-> 1]
<1>1. at \in [{p} -> 1 .. Len(<<x>>)] /\ <<x>>[at[p]] = x /\ at[p] = 1 /\ Len(<<x>>) = 1
  OBVIOUS
<1>2. ~ Before(p, p)
  BY BeforeOrders
<1>3. Finds(at, <<x>>, {p}, b)
  <2> HIDE DEF at
  <2> QED BY <1>1, <1>2 DEF Finds
<1>4. \A k \in 1 .. Len(<<x>>) : \E q \in {p} : at[q] = k
  <2> HIDE DEF at
  <2> QED BY <1>1
<1> HIDE DEF at
<1> QED BY <1>3, <1>4 DEF Holds

\* What holds all, and nothing else, holds all.
LEMMA HoldsLess ==
  ASSUME NEW seq, NEW P, NEW b, NEW all, Holds(seq, P, b, TRUE)
  PROVE  Holds(seq, P, b, all)
BY DEF Holds

LEMMA HoldsConcat ==
  ASSUME NEW S, NEW s \in Seq(S), NEW t \in Seq(S), NEW P \in SUBSET Spots, NEW Q \in SUBSET Spots,
         NEW b, NEW all, Holds(s, P, b, all), Holds(t, Q, b, all),
         \A p \in P : \A q \in Q : Before(p, q)
  PROVE  Holds(s \o t, P \cup Q, b, all)
<1>1. PICK f : /\ Finds(f, s, P, b)
               /\ all => \A k \in 1 .. Len(s) : \E p \in P : f[p] = k
  BY DEF Holds
<1>2. PICK g : /\ Finds(g, t, Q, b)
               /\ all => \A k \in 1 .. Len(t) : \E p \in Q : g[p] = k
  BY DEF Holds
<1> DEFINE at == [p \in P \cup Q |-> IF p \in P THEN f[p] ELSE Len(s) + g[p]]
<1>3. /\ Len(s) \in Nat /\ Len(t) \in Nat /\ Len(s \o t) = Len(s) + Len(t)
      /\ \A k \in 1 .. Len(s) : (s \o t)[k] = s[k]
      /\ \A k \in 1 .. Len(t) : (s \o t)[Len(s) + k] = t[k]
  OBVIOUS
<1>4. \A p \in P : p \notin Q
  BY BeforeOrders
<1>5. ASSUME NEW p \in P
      PROVE  at[p] = f[p] /\ f[p] \in 1 .. Len(s) /\ s[f[p]] = At(b, p)
  BY <1>1 DEF Finds
<1>6. ASSUME NEW p \in Q
      PROVE  at[p] = Len(s) + g[p] /\ g[p] \in 1 .. Len(t) /\ t[g[p]] = At(b, p)
  BY <1>2, <1>4 DEF Finds
<1>7. DOMAIN at = P \cup Q /\ at = [p \in P \cup Q |-> at[p]]
  OBVIOUS
<1> DEFINE u == s \o t
<1> HIDE DEF at, u
<1>8. ASSUME NEW p \in P \cup Q
      PROVE  at[p] \in 1 .. Len(u) /\ u[at[p]] = At(b, p)
  <2>1. CASE p \in P
    <3>1. f[p] \in 1 .. Len(s) + Len(t)
      BY <1>3, <1>5, <2>1
    <3> QED BY <1>3, <1>5, <2>1, <3>1 DEF u
  <2>2. CASE p \in Q
    <3>1. Len(s) + g[p] \in 1 .. Len(s) + Len(t)
      BY <1>3, <1>6, <2>2
    <3> QED BY <1>3, <1>6, <2>2, <3>1 DEF u
  <2> QED BY <2>1, <2>2
<1>9. ASSUME NEW p \in P \cup Q, NEW q \in P \cup Q, Before(p, q)
      PROVE  at[p] < at[q]
  <2>1. CASE p \in P /\ q \in P
    <3>1. f[p] < f[q]
      BY <1>1, <1>9, <2>1 DEF Finds
    <3> QED BY <1>5, <2>1, <3>1
  <2>2. CASE p \in P /\ q \in Q
    BY <1>3, <1>5, <1>6, <2>2
  <2>3. CASE p \in Q /\ q \in P
    <3>1. Before(q, p)
      BY <2>3
    <3> QED BY <1>9, <3>1, BeforeOrders
  <2>4. CASE p \in Q /\ q \in Q
    <3>1. g[p] < g[q]
      BY <1>2, <1>9, <2>4 DEF Finds
    <3> QED BY <1>3, <1>6, <2>4, <3>1
  <2> QED BY <2>1, <2>2, <2>3, <2>4
<1>10. Finds(at, u, P \cup Q, b)
  BY <1>7, <1>8, <1>9 DEF Finds
<1>11. ASSUME all, NEW k \in 1 .. Len(u) PROVE \E p \in P \cup Q : at[p] = k
  <2>1. Len(u) = Len(s) + Len(t)
    BY <1>3 DEF u
  <2>2. CASE k <= Len(s)
    <3>1. k \in 1 .. Len(s)
      BY <1>3, <2>1, <2>2
    <3>2. PICK p \in P : f[p] = k
      BY <1>1, <1>11, <3>1
    <3> QED BY <1>5, <3>2
  <2>3. CASE k > Len(s)
    <3>1. k - Len(s) \in 1 .. Len(t) /\ Len(s) + (k - Len(s)) = k
      BY <1>3, <2>1, <2>3
    <3>2. PICK q \in Q : g[q] = k - Len(s)
      BY <1>2, <1>11, <3>1
    <3> QED BY <1>6, <3>1, <3>2
  <2> QED BY <1>3, <2>1, <2>2, <2>3
<1> QED BY <1>10, <1>11 DEF Holds, u

\* What the sequences hold one after the other, the flattened one holds.
UpTo(P, k) == UNION {P[i] : i \in 1 .. k}

LEMMA HoldsFlat ==
  ASSUME NEW S, NEW ss \in Seq(Seq(S)), NEW P, P \in [1 .. Len(ss) -> SUBSET Spots],
         NEW b, NEW all, \A i \in 1 .. Len(ss) : Holds(ss[i], P[i], b, all),
         \A i, j \in 1 .. Len(ss) : i < j => \A p \in P[i] : \A q \in P[j] : Before(p, q)
  PROVE  Holds(FlattenSeq(ss), UpTo(P, Len(ss)), b, all)
<1>1. PICK f \in [0 .. Len(ss) -> Seq(S)] :
        /\ f[0] = <<>>
        /\ \A i \in 1 .. Len(ss) : f[i] = f[i - 1] \o ss[i]
        /\ FlattenSeq(ss) = f[Len(ss)]
  BY FlatRun
<1> DEFINE n == Len(ss)
           Bad == {k \in 0 .. n : ~ Holds(f[k], UpTo(P, k), b, all)}
<1>2. n \in Nat /\ \A i \in 1 .. n : ss[i] \in Seq(S)
  OBVIOUS
<1>3. SUFFICES Bad = {}
  BY <1>1, <1>2
<1> HIDE DEF n
<1>4. SUFFICES ASSUME Bad # {} PROVE FALSE
  OBVIOUS
<1>5. PICK m \in Bad : \A k \in Bad : m <= k
  <2>1. Bad \in SUBSET Nat
    BY <1>2
  <2> HIDE DEF Bad
  <2> QED BY <1>4, <2>1, NatMin
<1>6. m \in 0 .. n /\ ~ Holds(f[m], UpTo(P, m), b, all)
  OBVIOUS
<1>7. CASE m = 0
  <2>1. UpTo(P, 0) = {}
    BY DEF UpTo
  <2> HIDE DEF Bad
  <2> QED BY <1>1, <1>6, <1>7, <2>1, HoldsNothing
<1>8. CASE m # 0
  <2>1. m \in 1 .. n /\ m - 1 \in 0 .. n /\ ~ (m <= m - 1) /\ m - 1 \in Nat
    BY <1>2, <1>6, <1>8
  <2>2. Holds(f[m - 1], UpTo(P, m - 1), b, all)
    BY <1>5, <2>1
  <2> HIDE DEF Bad
  <2>3. UpTo(P, m) = UpTo(P, m - 1) \cup P[m]
    <3>1. 1 .. m = (1 .. m - 1) \cup {m}
      BY <2>1
    <3> QED BY <3>1 DEF UpTo
  <2>4. \A i \in 1 .. m - 1 : i \in 1 .. n /\ i < m
    BY <1>2, <2>1
  <2>5. P[m] \in SUBSET Spots /\ Holds(ss[m], P[m], b, all)
    BY <2>1 DEF n
  <2>6. UpTo(P, m - 1) \in SUBSET Spots
    <3>1. \A i \in 1 .. m - 1 : P[i] \in SUBSET Spots
      BY <2>4 DEF n
    <3> QED BY <3>1 DEF UpTo
  <2>7. \A p \in UpTo(P, m - 1) : \A q \in P[m] : Before(p, q)
    <3>1. ASSUME NEW i \in 1 .. m - 1, NEW p \in P[i], NEW q \in P[m] PROVE Before(p, q)
      BY <2>1, <2>4 DEF n
    <3> QED BY <3>1 DEF UpTo
  <2>8. f[m - 1] \in Seq(S) /\ ss[m] \in Seq(S) /\ f[m] = f[m - 1] \o ss[m]
    BY <1>1, <1>2, <2>1 DEF n
  <2>9. Holds(f[m - 1] \o ss[m], UpTo(P, m - 1) \cup P[m], b, all)
    BY <2>2, <2>5, <2>6, <2>7, <2>8, HoldsConcat
  <2> QED BY <1>6, <2>3, <2>8, <2>9
<1> QED BY <1>7, <1>8

-------------------------------------------------------------------------------
(* The positions of a turn, block by block *)

\* What the positions of turn i of b are, when content is its content.
Located(b, i, content) ==
  /\ \A p \in Positions(b, i) :
       /\ p = <<i, p[2], p[3]>> /\ p[1] = i /\ p[2] \in 1 .. Len(content)
       /\ p[3] # 0 => /\ content[p[2]].type = "tool_result"
                      /\ p[3] \in DOMAIN content[p[2]].content
  /\ \A j \in 1 .. Len(content) :
       <<i, j, 0>> \in Positions(b, i) /\ At(b, <<i, j, 0>>) = content[j]
  /\ \A j \in 1 .. Len(content) : content[j].type = "tool_result" =>
       \A n \in DOMAIN content[j].content :
          /\ <<i, j, n>> \in Positions(b, i)
          /\ n # 0 => At(b, <<i, j, n>>) = content[j].content[n]

LEMMA InPositions ==
  ASSUME NEW b, NEW i \in Nat, NEW content, content = b.messages[i].content,
         NEW S, content \in Seq(S)
  PROVE  Located(b, i, content)
<1>1. DOMAIN content = 1 .. Len(content)
  OBVIOUS
<1> DEFINE nests == {j \in DOMAIN content : content[j].type = "tool_result"}
<1>2. Positions(b, i) = {<<i, j, 0>> : j \in DOMAIN content}
                          \cup UNION {{<<i, j, n>> : n \in DOMAIN content[j].content} : j \in nests}
  BY DEF Positions
<1>3. ASSUME NEW p \in Positions(b, i)
      PROVE  /\ p = <<i, p[2], p[3]>> /\ p[1] = i /\ p[2] \in 1 .. Len(content)
             /\ p[3] # 0 => /\ content[p[2]].type = "tool_result"
                            /\ p[3] \in DOMAIN content[p[2]].content
  <2>1. CASE p \in {<<i, j, 0>> : j \in DOMAIN content}
    <3>1. PICK j \in DOMAIN content : p = <<i, j, 0>>
      BY <2>1
    <3> QED BY <1>1, <3>1
  <2>2. CASE p \in UNION {{<<i, j, n>> : n \in DOMAIN content[j].content} : j \in nests}
    <3>1. PICK j \in nests : p \in {<<i, j, n>> : n \in DOMAIN content[j].content}
      BY <2>2
    <3>2. PICK n \in DOMAIN content[j].content : p = <<i, j, n>>
      BY <3>1
    <3> QED BY <1>1, <3>1, <3>2
  <2> QED BY <1>2, <2>1, <2>2
<1>4. ASSUME NEW j \in 1 .. Len(content)
      PROVE  <<i, j, 0>> \in Positions(b, i) /\ At(b, <<i, j, 0>>) = content[j]
  <2>1. <<i, j, 0>> \in Positions(b, i)
    BY <1>1, <1>2
  <2> QED BY <2>1 DEF At
<1>5. ASSUME NEW j \in 1 .. Len(content), content[j].type = "tool_result",
             NEW n \in DOMAIN content[j].content
      PROVE  /\ <<i, j, n>> \in Positions(b, i)
             /\ n # 0 => At(b, <<i, j, n>>) = content[j].content[n]
  <2>1. j \in nests
    BY <1>1, <1>5
  <2>2. <<i, j, n>> \in Positions(b, i)
    <3> HIDE DEF nests
    <3> QED BY <1>2, <2>1
  <2> QED BY <2>2 DEF At
<1> QED BY <1>3, <1>4, <1>5 DEF Located

\* The positions of the j-th block of turn i whose blocks are of type t.
Of(b, i, j, t) == {p \in Positions(b, i) : p[2] = j /\ At(b, p).type = t}

LEMMA OfPlain ==
  ASSUME NEW b, NEW i \in Nat, NEW content, content = b.messages[i].content,
         NEW S, content \in Seq(S), NEW j \in 1 .. Len(content), content[j].type # "tool_result",
         NEW t
  PROVE  /\ content[j].type = t => Of(b, i, j, t) = {<<i, j, 0>>}
         /\ content[j].type # t => Of(b, i, j, t) = {}
         /\ <<i, j, 0>> \in Spots /\ At(b, <<i, j, 0>>) = content[j]
<1>0. Located(b, i, content)
  BY InPositions
<1>1. <<i, j, 0>> \in Positions(b, i) /\ At(b, <<i, j, 0>>) = content[j]
  BY <1>0 DEF Located
<1>2. \A p \in Positions(b, i) : p[2] = j => p = <<i, j, 0>>
  BY <1>0 DEF Located
<1>3. <<i, j, 0>> \in Spots
  <2>1. j \in Nat
    OBVIOUS
  <2> QED BY <2>1 DEF Spots
<1> QED BY <1>1, <1>2, <1>3 DEF Of

LEMMA OfResult ==
  ASSUME NEW b, NEW i \in Nat, NEW content, content = b.messages[i].content,
         NEW S, content \in Seq(S), NEW j \in 1 .. Len(content), content[j].type = "tool_result",
         NEW R, content[j].content \in Seq(R), NEW t, t # "tool_result", NEW all
  PROVE  Holds(OfType(content[j].content, t), Of(b, i, j, t), b, all)
<1> DEFINE s == content[j].content
           one(k) == IF s[k].type = t THEN <<s[k]>> ELSE <<>>
           spot(k) == IF s[k].type = t THEN {<<i, j, k>>} ELSE {}
           ss == [k \in 1 .. Len(s) |-> one(k)]
           P == [k \in 1 .. Len(s) |-> spot(k)]
<1>0. Len(s) \in Nat /\ DOMAIN s = 1 .. Len(s) /\ j \in Nat /\ \A k \in 1 .. Len(s) : s[k] \in R
  <2>1. s \in Seq(R) /\ j \in Nat
    OBVIOUS
  <2> HIDE DEF s
  <2> QED BY <2>1, SeqShape, SeqMember
<1>a. Located(b, i, content)
  BY InPositions
<1>1. OfType(s, t) = FlattenSeq(ss)
  BY DEF OfType
<1>2. ss \in Seq(Seq(R)) /\ Len(ss) = Len(s)
  <2>1. ASSUME NEW k \in 1 .. Len(s) PROVE one(k) \in Seq(R)
    BY <1>0
  <2> HIDE DEF one, s
  <2> QED BY <1>0, <2>1, MapIsSeq
<1>3. ASSUME NEW k \in 1 .. Len(s)
      PROVE  /\ <<i, j, k>> \in Positions(b, i) /\ <<i, j, k>> \in Spots
             /\ At(b, <<i, j, k>>) = s[k]
  <2>1. k # 0 /\ k \in Nat
    BY <1>0
  <2>2. k \in DOMAIN content[j].content
    BY <1>0
  <2>3. <<i, j, k>> \in Positions(b, i) /\ At(b, <<i, j, k>>) = s[k]
    BY <1>a, <2>1, <2>2 DEF Located
  <2>4. <<i, j, k>> \in Spots
    <3> HIDE DEF s
    <3> QED BY <1>0, <2>1 DEF Spots
  <2> QED BY <2>3, <2>4
<1>4. ASSUME NEW k \in 1 .. Len(s)
      PROVE  spot(k) \in SUBSET Spots /\ Holds(one(k), spot(k), b, all)
  <2>1. CASE s[k].type = t
    <3>1. Holds(<<s[k]>>, {<<i, j, k>>}, b, all)
      <4> HIDE DEF s
      <4> QED BY <1>3, HoldsOne
    <3> QED BY <1>3, <2>1, <3>1
  <2>2. CASE s[k].type # t
    BY <2>2, HoldsNothing
  <2> QED BY <2>1, <2>2
<1>5. ASSUME NEW k \in 1 .. Len(s), NEW l \in 1 .. Len(s), k < l,
             NEW p \in spot(k), NEW q \in spot(l)
      PROVE  Before(p, q)
  <2>1. p = <<i, j, k>> /\ q = <<i, j, l>>
    OBVIOUS
  <2> QED BY <1>5, <2>1 DEF Before
<1>6. Of(b, i, j, t) = UpTo(P, Len(s))
  <2>1. ASSUME NEW p \in Of(b, i, j, t) PROVE p \in UpTo(P, Len(s))
    <3>1. p \in Positions(b, i) /\ p[2] = j /\ At(b, p).type = t
      BY DEF Of
    <3>2. p[3] # 0
      <4>1. ASSUME p[3] = 0 PROVE FALSE
        <5>1. p = <<i, j, 0>>
          BY <1>a, <3>1, <4>1 DEF Located
        <5>2. At(b, p) = content[j]
          BY <1>a, <5>1 DEF Located
        <5> QED BY <3>1, <5>2
      <4> QED BY <4>1
    <3>3. p = <<i, j, p[3]>> /\ p[3] \in 1 .. Len(s)
      BY <1>0, <1>a, <3>1, <3>2 DEF Located
    <3>4. s[p[3]].type = t
      BY <1>3, <3>1, <3>3
    <3>5. p \in P[p[3]]
      <4> HIDE DEF s
      <4> QED BY <3>3, <3>4
    <3> HIDE DEF P
    <3> QED BY <3>3, <3>5 DEF UpTo
  <2>2. ASSUME NEW k \in 1 .. Len(s), NEW p \in spot(k) PROVE p \in Of(b, i, j, t)
    <3>1. p = <<i, j, k>> /\ s[k].type = t
      OBVIOUS
    <3> HIDE DEF s, spot
    <3> QED BY <1>3, <3>1 DEF Of
  <2> HIDE DEF s, spot
  <2> QED BY <2>1, <2>2 DEF UpTo
<1> HIDE DEF s, one, spot
<1>7. /\ P \in [1 .. Len(ss) -> SUBSET Spots]
      /\ \A k \in 1 .. Len(ss) : Holds(ss[k], P[k], b, all)
      /\ \A k, l \in 1 .. Len(ss) : k < l => \A p \in P[k] : \A q \in P[l] : Before(p, q)
  BY <1>2, <1>4, <1>5
<1> HIDE DEF ss, P
<1>8. Holds(FlattenSeq(ss), UpTo(P, Len(ss)), b, all)
  BY <1>2, <1>7, HoldsFlat
<1>9. Holds(OfType(s, t), Of(b, i, j, t), b, all)
  BY <1>1, <1>2, <1>6, <1>8
<1> QED BY <1>9 DEF s

LEMMA ResultContent ==
  ASSUME NEW ids, NEW data, NEW x \in UserBlocks(ids, data), x.type = "tool_result"
  PROVE  x.content \in Seq(PlainBlocks(ids, data))
<1>1. x \in ToolResults(ids, data)
  BY DEF UserBlocks, PlainBlocks
<1> QED BY <1>1 DEF ToolResults

LEMMA PositionsAreSpots ==
  ASSUME NEW ids, NEW data, NEW b, NEW i \in Nat, NEW content, content = b.messages[i].content,
         content \in Seq(UserBlocks(ids, data))
  PROVE  Positions(b, i) \subseteq Spots
<1>1. Located(b, i, content)
  BY InPositions
<1>2. Len(content) \in Nat /\ \A j \in 1 .. Len(content) : content[j] \in UserBlocks(ids, data)
  BY SeqShape, SeqMember
<1>3. ASSUME NEW p \in Positions(b, i) PROVE p \in Spots
  <2>1. p = <<i, p[2], p[3]>> /\ p[2] \in 1 .. Len(content)
    BY <1>1 DEF Located
  <2>2. p[3] \in Nat
    <3>1. CASE p[3] = 0
      BY <3>1
    <3>2. CASE p[3] # 0
      <4>1. content[p[2]].type = "tool_result" /\ p[3] \in DOMAIN content[p[2]].content
        BY <1>1, <3>2 DEF Located
      <4>2. content[p[2]].content \in Seq(PlainBlocks(ids, data))
        BY <1>2, <2>1, <4>1, ResultContent
      <4>3. PICK s : s = content[p[2]].content
        OBVIOUS
      <4>4. Len(s) \in Nat /\ DOMAIN s = 1 .. Len(s)
        BY <4>2, <4>3, SeqShape
      <4> QED BY <4>1, <4>3, <4>4
    <3> QED BY <3>1, <3>2
  <2>3. p[2] \in Nat
    BY <1>2, <2>1
  <2> QED BY <2>1, <2>2, <2>3 DEF Spots
<1> QED BY <1>3

\* The images of a block are collected in their order, and of its texts none is lost.
LEMMA BlockHolds ==
  ASSUME NEW ids, NEW data, NEW b, NEW i \in Nat, NEW content, content = b.messages[i].content,
         content \in Seq(UserBlocks(ids, data)), NEW j \in 1 .. Len(content), NEW last \in BOOLEAN
  PROVE  /\ Holds(ImagesIn(content[j]), Of(b, i, j, "image"), b, TRUE)
         /\ Holds(UserBlock(content[j], last), Of(b, i, j, "text"), b, FALSE)
<1>0. PICK x : x = content[j]
  OBVIOUS
<1>1. x \in UserBlocks(ids, data)
  BY <1>0, SeqMember
<1>2. CASE x.type = "tool_result"
  <2>1. x.content \in Seq(PlainBlocks(ids, data))
    BY <1>1, <1>2, ResultContent
  <2>2. "image" # "tool_result" /\ "text" # "tool_result"
    OBVIOUS
  <2>3. ASSUME NEW t, t # "tool_result", NEW all
        PROVE  Holds(OfType(x.content, t), Of(b, i, j, t), b, all)
    BY <1>0, <1>2, <2>1, <2>3, OfResult
  <2>4. ImagesIn(x) = OfType(x.content, "image") /\ UserBlock(x, last) = OfType(x.content, "text")
    BY <1>2 DEF ImagesIn, UserBlock
  <2> QED BY <1>0, <2>2, <2>3, <2>4
<1>3. CASE x.type # "tool_result"
  <2>1. ASSUME NEW t
        PROVE  /\ x.type = t => Of(b, i, j, t) = {<<i, j, 0>>}
               /\ x.type # t => Of(b, i, j, t) = {}
               /\ <<i, j, 0>> \in Spots /\ At(b, <<i, j, 0>>) = x
    BY <1>0, <1>3, OfPlain
  <2>2. ASSUME NEW all PROVE Holds(<<x>>, {<<i, j, 0>>}, b, all)
    BY <2>1, HoldsOne
  <2>3. ASSUME NEW s \in Seq({x, ImagePlaceholder}) PROVE Holds(s, {}, b, FALSE)
    BY HoldsAnything
  <2>4. <<>> \in Seq({x, ImagePlaceholder}) /\ <<x>> \in Seq({x, ImagePlaceholder})
        /\ <<ImagePlaceholder>> \in Seq({x, ImagePlaceholder})
    OBVIOUS
  <2>5. CASE x.type = "image"
    <3>1. ImagesIn(x) = <<x>> /\ UserBlock(x, last) \in {<<>>, <<ImagePlaceholder>>}
      BY <2>5 DEF ImagesIn, UserBlock
    <3>2. Of(b, i, j, "image") = {<<i, j, 0>>} /\ Of(b, i, j, "text") = {}
      BY <2>1, <2>5
    <3> QED BY <1>0, <2>2, <2>3, <2>4, <3>1, <3>2
  <2>6. CASE x.type # "image"
    <3>1. ImagesIn(x) = <<>> /\ UserBlock(x, last) = <<x>>
      BY <1>3, <2>6 DEF ImagesIn, UserBlock
    <3>2. Of(b, i, j, "image") = {}
      BY <2>1, <2>6
    <3>3. Of(b, i, j, "text") = {} \/ Of(b, i, j, "text") = {<<i, j, 0>>}
      BY <2>1
    <3> QED BY <1>0, <2>2, <2>3, <2>4, <3>1, <3>2, <3>3, HoldsNothing
  <2> QED BY <2>5, <2>6
<1> QED BY <1>2, <1>3

OfTurn(b, i, t) == {p \in Positions(b, i) : At(b, p).type = t}

LEMMA TurnFlat ==
  ASSUME NEW ids, NEW data, NEW b, NEW i \in Nat, NEW content, content = b.messages[i].content,
         content \in Seq(UserBlocks(ids, data)), NEW t, NEW all,
         NEW R, NEW ss \in Seq(Seq(R)), Len(ss) = Len(content),
         \A j \in 1 .. Len(content) : Holds(ss[j], Of(b, i, j, t), b, all)
  PROVE  Holds(FlattenSeq(ss), OfTurn(b, i, t), b, all)
<1> DEFINE P == [j \in 1 .. Len(ss) |-> Of(b, i, j, t)]
<1>1. Located(b, i, content)
  BY InPositions
<1>2. Positions(b, i) \subseteq Spots
  BY PositionsAreSpots
<1>3. P \in [1 .. Len(ss) -> SUBSET Spots]
  BY <1>2 DEF Of
<1>4. \A j \in 1 .. Len(ss) : Holds(ss[j], P[j], b, all)
  OBVIOUS
<1>5. ASSUME NEW j \in 1 .. Len(ss), NEW l \in 1 .. Len(ss), j < l, NEW p \in P[j], NEW q \in P[l]
      PROVE  Before(p, q)
  <2>1. p \in Positions(b, i) /\ p[2] = j /\ q \in Positions(b, i) /\ q[2] = l
    BY DEF Of
  <2>2. p[1] = i /\ q[1] = i
    BY <1>1, <2>1 DEF Located
  <2> QED BY <1>5, <2>1, <2>2 DEF Before
<1>6. UpTo(P, Len(ss)) = OfTurn(b, i, t)
  <2>1. ASSUME NEW p \in OfTurn(b, i, t) PROVE p \in UpTo(P, Len(ss))
    <3>1. p \in Positions(b, i) /\ At(b, p).type = t
      BY DEF OfTurn
    <3>2. p[2] \in 1 .. Len(ss)
      BY <1>1, <3>1 DEF Located
    <3>3. p \in P[p[2]]
      BY <3>1, <3>2 DEF Of
    <3> HIDE DEF P
    <3> QED BY <3>2, <3>3 DEF UpTo
  <2>2. ASSUME NEW j \in 1 .. Len(ss), NEW p \in P[j] PROVE p \in OfTurn(b, i, t)
    BY DEF OfTurn, Of
  <2> HIDE DEF P
  <2> QED BY <2>1, <2>2 DEF UpTo
<1> HIDE DEF P
<1> QED BY <1>3, <1>4, <1>5, <1>6, HoldsFlat

LEMMA UserTurnHolds ==
  ASSUME NEW ids, NEW data, NEW b, NEW i \in Nat, b.messages[i] \in Turns(ids, data),
         IsUser(b.messages[i])
  PROVE  /\ Holds(TurnImages(b.messages[i]), OfTurn(b, i, "image"), b, TRUE)
         /\ Holds(NormalizedContent(b, i), OfTurn(b, i, "text"), b, FALSE)
<1>1. PICK msg : msg = b.messages[i]
  OBVIOUS
<1>2. PICK content : content = msg.content
  OBVIOUS
<1> DEFINE last == i = LastUserTurn(b)
<1>3. last \in BOOLEAN
  OBVIOUS
<1>4. content = b.messages[i].content /\ content \in Seq(UserBlocks(ids, data))
  BY <1>1, <1>2, ImagesOfBlocks
<1>5. /\ TurnLists(msg) \in Seq(Seq(Images(ids, data))) /\ Len(TurnLists(msg)) = Len(content)
      /\ TurnImages(msg) = FlattenSeq(TurnLists(msg))
  BY <1>1, <1>2, ImagesOfBlocks
<1>6. /\ LeftOf(msg, last) \in Seq(Seq(Imageless(ids, data)))
      /\ Len(LeftOf(msg, last)) = Len(content)
      /\ NormalizedContent(b, i) = FlattenSeq(LeftOf(msg, last))
  BY <1>1, <1>2, NormalizedUser
<1> HIDE DEF last
<1>7. ASSUME NEW j \in 1 .. Len(content)
      PROVE  /\ TurnLists(msg)[j] = ImagesIn(content[j])
             /\ LeftOf(msg, last)[j] = UserBlock(content[j], last)
  BY <1>2 DEF TurnLists, LeftOf
<1>8. ASSUME NEW j \in 1 .. Len(content)
      PROVE  /\ Holds(TurnLists(msg)[j], Of(b, i, j, "image"), b, TRUE)
             /\ Holds(LeftOf(msg, last)[j], Of(b, i, j, "text"), b, FALSE)
  <2>1. /\ Holds(ImagesIn(content[j]), Of(b, i, j, "image"), b, TRUE)
        /\ Holds(UserBlock(content[j], last), Of(b, i, j, "text"), b, FALSE)
    BY <1>3, <1>4, BlockHolds
  <2> QED BY <1>7, <2>1
<1>9. Holds(FlattenSeq(TurnLists(msg)), OfTurn(b, i, "image"), b, TRUE)
  BY <1>4, <1>5, <1>8, TurnFlat
<1>10. Holds(FlattenSeq(LeftOf(msg, last)), OfTurn(b, i, "text"), b, FALSE)
  BY <1>4, <1>6, <1>8, TurnFlat
<1> QED BY <1>1, <1>5, <1>6, <1>9, <1>10

\* All images of a body are collected, in their order.
LEMMA CollectedHolds ==
  ASSUME NEW ids, NEW data, NEW b, b.messages \in Seq(Turns(ids, data))
  PROVE  /\ ImagePositions(b) \in SUBSET Spots
         /\ Holds(ImagesCollected(b), ImagePositions(b), b, TRUE)
<1>0. PICK msgs : msgs = b.messages
  OBVIOUS
<1>1. Len(msgs) \in Nat /\ DOMAIN msgs = 1 .. Len(msgs)
      /\ \A i \in 1 .. Len(msgs) : i \in Nat /\ msgs[i] \in Turns(ids, data)
  BY <1>0, SeqShape, SeqMember
<1> DEFINE ss == [i \in 1 .. Len(msgs) |-> TurnImages(msgs[i])]
           spots(i) == IF IsUser(msgs[i]) THEN OfTurn(b, i, "image") ELSE {}
           P == [i \in 1 .. Len(msgs) |-> spots(i)]
<1>2. ss \in Seq(Seq(Images(ids, data))) /\ Len(ss) = Len(msgs) /\ ImagesCollected(b) = FlattenSeq(ss)
  <2>1. \A i \in 1 .. Len(msgs) : TurnImages(msgs[i]) \in Seq(Images(ids, data))
    BY <1>1, ImagesOfTurn
  <2>2. ss \in Seq(Seq(Images(ids, data)))
    BY <1>1, <2>1, MapIsSeq
  <2>3. ImagesCollected(b) = FlattenSeq(ss)
    BY <1>0 DEF ImagesCollected
  <2> QED BY <1>1, <2>2, <2>3
<1>3. ASSUME NEW i \in 1 .. Len(msgs)
      PROVE  /\ spots(i) \in SUBSET Spots
             /\ \A p \in spots(i) : p[1] = i
             /\ Holds(TurnImages(msgs[i]), spots(i), b, TRUE)
  <2>0. i \in Nat /\ msgs[i] \in Turns(ids, data)
    BY <1>1
  <2>1. CASE IsUser(msgs[i])
    <3>1. PICK content : content = b.messages[i].content
      OBVIOUS
    <3>2. content \in Seq(UserBlocks(ids, data))
      BY <1>0, <2>0, <2>1, <3>1, ImagesOfBlocks
    <3>3. Positions(b, i) \subseteq Spots /\ Located(b, i, content)
      BY <2>0, <3>1, <3>2, PositionsAreSpots, InPositions
    <3>4. \A p \in Positions(b, i) : p[1] = i
      BY <3>3 DEF Located
    <3>5. Holds(TurnImages(msgs[i]), OfTurn(b, i, "image"), b, TRUE)
      BY <1>0, <2>0, <2>1, UserTurnHolds
    <3> QED BY <2>1, <3>3, <3>4, <3>5 DEF OfTurn
  <2>2. CASE ~ IsUser(msgs[i])
    <3>1. TurnImages(msgs[i]) = <<>> /\ spots(i) = {}
      BY <2>2 DEF TurnImages
    <3> QED BY <3>1, HoldsNothing
  <2> QED BY <2>1, <2>2
<1>4. UpTo(P, Len(msgs)) = ImagePositions(b)
  <2>1. ASSUME NEW p \in ImagePositions(b) PROVE p \in UpTo(P, Len(msgs))
    <3>1. p \in UserPositions(b) /\ At(b, p).type = "image"
      BY DEF ImagePositions
    <3>2. PICK i \in UserTurns(b) : p \in Positions(b, i)
      BY <3>1 DEF UserPositions
    <3>3. i \in 1 .. Len(msgs) /\ IsUser(msgs[i])
      BY <1>0, <1>1 DEF UserTurns, IsUser
    <3>4. p \in P[i]
      BY <3>1, <3>2, <3>3 DEF OfTurn
    <3> HIDE DEF P
    <3> QED BY <3>3, <3>4 DEF UpTo
  <2>2. ASSUME NEW i \in 1 .. Len(msgs), NEW p \in P[i] PROVE p \in ImagePositions(b)
    <3>1. IsUser(msgs[i]) /\ p \in OfTurn(b, i, "image")
      OBVIOUS
    <3>2. i \in UserTurns(b)
      BY <1>0, <1>1, <3>1 DEF UserTurns, IsUser
    <3>3. p \in Positions(b, i) /\ At(b, p).type = "image"
      BY <3>1 DEF OfTurn
    <3> QED BY <3>2, <3>3 DEF ImagePositions, UserPositions
  <2> HIDE DEF P
  <2> QED BY <2>1, <2>2 DEF UpTo
<1>5. ASSUME NEW i \in 1 .. Len(msgs), NEW j \in 1 .. Len(msgs), i < j,
             NEW p \in spots(i), NEW q \in spots(j)
      PROVE  Before(p, q)
  <2> HIDE DEF spots
  <2>1. p[1] = i /\ q[1] = j
    BY <1>3
  <2> QED BY <1>5, <2>1 DEF Before
<1> HIDE DEF spots
<1>6. /\ P \in [1 .. Len(ss) -> SUBSET Spots]
      /\ \A i \in 1 .. Len(ss) : Holds(ss[i], P[i], b, TRUE)
      /\ \A i, j \in 1 .. Len(ss) : i < j => \A p \in P[i] : \A q \in P[j] : Before(p, q)
  BY <1>2, <1>3, <1>5
<1>7. UpTo(P, Len(ss)) \in SUBSET Spots
  <2> HIDE DEF P
  <2> QED BY <1>6 DEF UpTo
<1> HIDE DEF ss, P
<1>8. Holds(FlattenSeq(ss), UpTo(P, Len(ss)), b, TRUE)
  BY <1>2, <1>6, HoldsFlat
<1> QED BY <1>2, <1>4, <1>7, <1>8

-------------------------------------------------------------------------------
(* What is held in its order is numbered in its order. *)

LEMMA Numbered ==
  ASSUME NEW n \in Nat, NEW P, NEW at, at \in Bijection(P, 1 .. n)
  PROVE  IsFiniteSet(P) /\ Cardinality(P) = n
<1>1. ExistsBijection(1 .. n, P)
  BY Fun_ExistsBijSymmetric DEF ExistsBijection
<1> QED BY <1>1, IntervalSize, FS_Bijection

\* at gives every position its number.
Ranks(at, P) == \A p \in P : Cardinality(Earlier(P, p)) = at[p] - 1

LEMMA EarlierThan ==
  ASSUME NEW P \in SUBSET Spots, NEW n, n \in Nat, NEW at, at \in [P -> 1 .. n],
         \A p, q \in P : Before(p, q) => at[p] < at[q],
         \A k \in 1 .. n : \E p \in P : at[p] = k
  PROVE  at \in Bijection(P, 1 .. n) /\ Ranks(at, P)
<1>1. ASSUME NEW p \in P, NEW q \in P, at[p] = at[q] PROVE p = q
  <2>1. ~ Before(p, q) /\ ~ Before(q, p)
    BY <1>1
  <2> QED BY <2>1, BeforeOrders
<1>2. at \in Bijection(P, 1 .. n)
  BY <1>1 DEF Bijection, Injection, Surjection, IsInjective
<1>3. ASSUME NEW p \in P PROVE Cardinality(Earlier(P, p)) = at[p] - 1
  <2> DEFINE E == Earlier(P, p)
             m == at[p] - 1
             f == [q \in E |-> at[q]]
  <2>1. m \in Nat /\ 1 .. m \subseteq 1 .. n /\ m < at[p]
    <3>1. at[p] \in 1 .. n
      OBVIOUS
    <3> QED BY <3>1
  <2>2. ASSUME NEW q \in E PROVE q \in P /\ at[q] \in 1 .. m
    <3>1. q \in P /\ Before(q, p)
      BY DEF Earlier
    <3>2. at[q] < at[p] /\ at[q] \in 1 .. n /\ at[p] \in 1 .. n
      BY <3>1
    <3> QED BY <3>1, <3>2
  <2>3. ASSUME NEW k \in 1 .. m PROVE \E q \in E : at[q] = k
    <3>1. PICK q \in P : at[q] = k
      BY <2>1
    <3>2. k < at[p] /\ k \in 1 .. n /\ at[p] \in 1 .. n
      BY <2>1
    <3>3. q # p /\ ~ Before(p, q)
      BY <3>1, <3>2
    <3>4. Before(q, p)
      BY <3>3, BeforeOrders
    <3> QED BY <3>1, <3>4 DEF Earlier
  <2> HIDE DEF E, m
  <2>4. f \in Bijection(E, 1 .. m)
    <3>1. f \in [E -> 1 .. m] /\ \A q \in E : f[q] = at[q]
      BY <2>2
    <3> HIDE DEF f
    <3> QED BY <3>1, <1>1, <2>2, <2>3 DEF Bijection, Injection, Surjection, IsInjective
  <2>5. Cardinality(E) = m
    <3> HIDE DEF f
    <3> QED BY <2>1, <2>4, Numbered
  <2> QED BY <2>5 DEF E, m
<1> QED BY <1>2, <1>3 DEF Ranks

\* The collected images are the images, one by one.
LEMMA CollectedIs ==
  ASSUME NEW ids, NEW data, NEW b, b.messages \in Seq(Turns(ids, data))
  PROVE  /\ IsFiniteSet(ImagePositions(b))
         /\ Len(ImagesCollected(b)) = Cardinality(ImagePositions(b))
         /\ \A k \in 1 .. Len(ImagesCollected(b)) : ImagesCollected(b)[k] = NthImage(b, k)
<1> DEFINE c == ImagesCollected(b)
           P == ImagePositions(b)
<1>1. Len(c) \in Nat
  <2>1. c \in Seq(Images(ids, data))
    BY ImagesOfBody
  <2> HIDE DEF c
  <2> QED BY <2>1, SeqShape
<1>2. P \in SUBSET Spots /\ Holds(c, P, b, TRUE)
  BY CollectedHolds
<1>0. \A k : NthImage(b, k) = At(b, CHOOSE p \in P : Cardinality(Earlier(P, p)) = k - 1)
  BY DEF NthImage
<1> HIDE DEF c, P
<1>3. PICK at : Finds(at, c, P, b) /\ \A k \in 1 .. Len(c) : \E p \in P : at[p] = k
  BY <1>2 DEF Holds
<1>4. /\ at \in [P -> 1 .. Len(c)]
      /\ \A p \in P : c[at[p]] = At(b, p)
      /\ \A p, q \in P : Before(p, q) => at[p] < at[q]
  BY <1>3 DEF Finds
<1>5. /\ at \in Bijection(P, 1 .. Len(c))
      /\ \A p \in P : Cardinality(Earlier(P, p)) = at[p] - 1
  <2>1. PICK n : n = Len(c)
    OBVIOUS
  <2>2. /\ n \in Nat /\ at \in [P -> 1 .. n]
        /\ \A k \in 1 .. n : \E p \in P : at[p] = k
    BY <1>1, <1>3, <1>4, <2>1
  <2>3. \A p, q \in P : Before(p, q) => at[p] < at[q]
    BY <1>4
  <2>4. at \in Bijection(P, 1 .. n) /\ Ranks(at, P)
    BY <1>2, <2>2, <2>3, EarlierThan
  <2> QED BY <2>1, <2>4 DEF Ranks
<1>6. IsFiniteSet(P) /\ Cardinality(P) = Len(c)
  BY <1>1, <1>5, Numbered
<1>7. ASSUME NEW k \in 1 .. Len(c) PROVE c[k] = NthImage(b, k)
  <2> DEFINE chosen == CHOOSE p \in P : Cardinality(Earlier(P, p)) = k - 1
  <2>1. PICK p \in P : at[p] = k
    BY <1>3
  <2>2. Cardinality(Earlier(P, p)) = k - 1
    BY <1>5, <2>1
  <2>3. chosen \in P /\ Cardinality(Earlier(P, chosen)) = k - 1
    BY <2>2
  <2>4. NthImage(b, k) = At(b, chosen)
    BY <1>0
  <2> HIDE DEF chosen
  <2>5. at[chosen] = k
    <3>1. at[chosen] - 1 = k - 1 /\ at[chosen] \in 1 .. Len(c)
      BY <1>4, <1>5, <2>3
    <3> QED BY <1>1, <3>1
  <2> QED BY <1>4, <2>3, <2>4, <2>5
<1> QED BY <1>6, <1>7 DEF c, P

-------------------------------------------------------------------------------
(* The pass that counts *)

\* The positions O of one block are as many as the pass counts in it.
Counted(x, O) == IsFiniteSet(O) /\ CountInBlock(x) = Cardinality(O)

LEMMA CountedInBlock ==
  ASSUME NEW ids, NEW data, NEW b, NEW i \in Nat, NEW content, content = b.messages[i].content,
         content \in Seq(UserBlocks(ids, data)), NEW j \in 1 .. Len(content)
  PROVE  Counted(content[j], Of(b, i, j, "image"))
<1>0. PICK x : x = content[j]
  OBVIOUS
<1>1. x \in UserBlocks(ids, data)
  BY <1>0, SeqMember
<1>2. CASE x.type = "tool_result"
  <2> DEFINE K == {k \in DOMAIN x.content : IsImage(x.content[k])}
             f == [k \in K |-> <<i, j, k>>]
             O == Of(b, i, j, "image")
  <2>1. x.content \in Seq(PlainBlocks(ids, data))
    BY <1>1, <1>2, ResultContent
  <2>2. PICK s : s = x.content
    OBVIOUS
  <2>3. Len(s) \in Nat /\ DOMAIN s = 1 .. Len(s)
    BY <2>1, <2>2, SeqShape
  <2>4. Located(b, i, content)
    BY InPositions
  <2>5. IsFiniteSet(K)
    <3>1. K \subseteq 1 .. Len(s)
      BY <2>2, <2>3
    <3> HIDE DEF K
    <3> QED BY <3>1, <2>3, IntervalSize, FS_Subset
  <2>6. ASSUME NEW k \in K PROVE <<i, j, k>> \in O
    <3>1. k \in DOMAIN x.content /\ k # 0 /\ x.content[k].type = "image"
      BY <2>2, <2>3 DEF IsImage
    <3>2. <<i, j, k>> \in Positions(b, i) /\ At(b, <<i, j, k>>) = x.content[k]
      BY <1>0, <1>2, <2>4, <3>1 DEF Located
    <3> QED BY <3>1, <3>2 DEF Of
  <2>7. ASSUME NEW p \in O PROVE \E k \in K : p = <<i, j, k>>
    <3>1. p \in Positions(b, i) /\ p[2] = j /\ At(b, p).type = "image"
      BY DEF Of
    <3>2. p = <<i, j, p[3]>>
      BY <2>4, <3>1 DEF Located
    <3>3. p[3] # 0
      <4>1. ASSUME p[3] = 0 PROVE FALSE
        <5>1. p = <<i, j, 0>>
          BY <3>2, <4>1
        <5>2. At(b, p) = x
          BY <1>0, <2>4, <5>1 DEF Located
        <5> QED BY <1>2, <3>1, <5>2
      <4> QED BY <4>1
    <3>4. p[3] \in DOMAIN x.content
      BY <1>0, <2>4, <3>1, <3>3 DEF Located
    <3>5. At(b, p) = x.content[p[3]]
      BY <1>0, <1>2, <2>4, <3>2, <3>3, <3>4 DEF Located
    <3>6. p[3] \in K
      BY <3>1, <3>4, <3>5 DEF IsImage
    <3> HIDE DEF K
    <3> QED BY <3>2, <3>6
  <2> HIDE DEF O
  <2>8. f \in Bijection(K, O)
    <3> HIDE DEF K
    <3>1. f \in [K -> O] /\ \A k \in K : f[k] = <<i, j, k>>
      BY <2>6
    <3>2. \A k, l \in K : f[k] = f[l] => k = l
      BY <3>1
    <3> HIDE DEF f
    <3> QED BY <3>1, <3>2, <2>7 DEF Bijection, Injection, Surjection, IsInjective
  <2>9. IsFiniteSet(O) /\ Cardinality(O) = Cardinality(K)
    <3> HIDE DEF f, K
    <3> QED BY <2>5, <2>8, FS_Bijection DEF ExistsBijection
  <2>10. CountInBlock(x) = Cardinality(K)
    BY <1>2 DEF CountInBlock
  <2> HIDE DEF K
  <2> QED BY <1>0, <2>9, <2>10 DEF O, Counted
<1>3. CASE x.type # "tool_result"
  <2>0. Located(b, i, content)
    BY InPositions
  <2>1. /\ x.type = "image" => Of(b, i, j, "image") = {<<i, j, 0>>}
        /\ x.type # "image" => Of(b, i, j, "image") = {}
    <3>1. <<i, j, 0>> \in Positions(b, i) /\ At(b, <<i, j, 0>>) = x
      BY <1>0, <2>0 DEF Located
    <3>2. \A p \in Positions(b, i) : p[2] = j => p = <<i, j, 0>>
      BY <1>0, <1>3, <2>0 DEF Located
    <3> QED BY <3>1, <3>2 DEF Of
  <2>2. CASE x.type = "image"
    <3>1. CountInBlock(x) = 1
      BY <2>2 DEF CountInBlock
    <3> QED BY <1>0, <2>1, <2>2, <3>1, FS_Singleton DEF Counted
  <2>3. CASE x.type # "image"
    <3>1. CountInBlock(x) = 0
      BY <1>3, <2>3 DEF CountInBlock
    <3> QED BY <1>0, <2>1, <2>3, <3>1, FS_EmptySet DEF Counted
  <2> QED BY <2>2, <2>3
<1> QED BY <1>2, <1>3

\* The pass that counts the images counts them all, once.
LEMMA CountIs ==
  ASSUME NEW ids, NEW data, NEW b, b.messages \in Seq(Turns(ids, data))
  PROVE  CountImages(b) = Cardinality(ImagePositions(b))
<1>0. PICK msgs : msgs = b.messages
  OBVIOUS
<1>1. Len(msgs) \in Nat /\ DOMAIN msgs = 1 .. Len(msgs)
      /\ \A i \in 1 .. Len(msgs) : i \in Nat /\ msgs[i] \in Turns(ids, data)
  BY <1>0, SeqShape, SeqMember
<1> DEFINE N == UserPlaces(b)
           K == ImagePositions(b)
           f == [p \in N |-> CountInBlock(BlockAt(b, p))]
           key == [q \in K |-> <<q[1], q[2]>>]
           I == {i \in 1 .. Len(msgs) : IsUser(msgs[i])}
           places(i) == {<<i, j>> : j \in DOMAIN msgs[i].content}
<1>2. N = UNION {places(i) : i \in I}
  BY <1>0, <1>1 DEF UserPlaces
<1>3. ASSUME NEW i \in I
      PROVE  /\ i \in Nat /\ i \in UserTurns(b)
             /\ msgs[i].content \in Seq(UserBlocks(ids, data)) /\ Len(msgs[i].content) \in Nat
             /\ DOMAIN msgs[i].content = 1 .. Len(msgs[i].content)
             /\ msgs[i].content = b.messages[i].content
  <2>1. i \in Nat /\ msgs[i] \in Turns(ids, data) /\ IsUser(msgs[i])
    BY <1>1
  <2>2. msgs[i].content \in Seq(UserBlocks(ids, data))
    BY <2>1, ImagesOfBlocks
  <2>3. PICK c : c = msgs[i].content
    OBVIOUS
  <2>4. Len(c) \in Nat /\ DOMAIN c = 1 .. Len(c)
    BY <2>2, <2>3, SeqShape
  <2>5. i \in UserTurns(b)
    BY <1>0, <1>1, <2>1 DEF UserTurns, IsUser
  <2> QED BY <1>0, <2>1, <2>2, <2>3, <2>4, <2>5
<1>4. IsFiniteSet(N)
  <2>1. ASSUME NEW i \in I PROVE IsFiniteSet(places(i))
    <3> DEFINE g == [j \in 1 .. Len(msgs[i].content) |-> <<i, j>>]
    <3>1. g \in Surjection(1 .. Len(msgs[i].content), places(i))
      BY <1>3 DEF Surjection
    <3>2. IsFiniteSet(1 .. Len(msgs[i].content))
      BY <1>3, IntervalSize
    <3> HIDE DEF g, places
    <3> QED BY <3>1, <3>2, FS_Surjection
  <2>2. IsFiniteSet(I)
    <3>1. I \subseteq 1 .. Len(msgs)
      OBVIOUS
    <3> HIDE DEF I
    <3> QED BY <1>1, <3>1, IntervalSize, FS_Subset
  <2>3. IsFiniteSet({places(i) : i \in I})
    <3> DEFINE g == [i \in I |-> places(i)]
    <3>1. g \in Surjection(I, {places(i) : i \in I})
      <4> HIDE DEF places, I
      <4> QED BY DEF Surjection
    <3> HIDE DEF g, places, I
    <3> QED BY <2>2, <3>1, FS_Surjection
  <2>4. \A T \in {places(i) : i \in I} : IsFiniteSet(T)
    <3> HIDE DEF places, I
    <3> QED BY <2>1
  <2> HIDE DEF places, I, N
  <2> QED BY <1>2, <2>3, <2>4, FS_UNION
<1>5. ASSUME NEW n \in N
      PROVE  \E i \in I : \E j \in 1 .. Len(msgs[i].content) : n = <<i, j>>
  <2>1. PICK i \in I : n \in places(i)
    <3> HIDE DEF N, I, places
    <3> QED BY <1>2
  <2>2. PICK j \in 1 .. Len(msgs[i].content) : n = <<i, j>>
    BY <1>3, <2>1
  <2> HIDE DEF I
  <2> QED BY <2>2
<1>6. ASSUME NEW i \in I, NEW j \in 1 .. Len(msgs[i].content)
      PROVE  <<i, j>> \in N /\ f[<<i, j>>] = CountInBlock(msgs[i].content[j])
  <2>1. <<i, j>> \in places(i)
    BY <1>3
  <2>2. <<i, j>> \in N
    <3> HIDE DEF N, I, places
    <3> QED BY <1>2, <2>1
  <2>3. BlockAt(b, <<i, j>>) = msgs[i].content[j]
    BY <1>0 DEF BlockAt
  <2> HIDE DEF N
  <2> QED BY <2>2, <2>3
<1>7. ASSUME NEW q \in K
      PROVE  \E i \in I : \E j \in 1 .. Len(msgs[i].content) :
                key[q] = <<i, j>> /\ q[1] = i /\ q[2] = j /\ q \in Of(b, i, j, "image")
  <2>1. q \in UserPositions(b) /\ At(b, q).type = "image"
    BY DEF ImagePositions
  <2>2. PICK i \in UserTurns(b) : q \in Positions(b, i)
    BY <2>1 DEF UserPositions
  <2>3. i \in I
    BY <1>0, <1>1 DEF UserTurns, IsUser
  <2>4. PICK c : c = b.messages[i].content
    OBVIOUS
  <2>5. Located(b, i, c)
    BY <1>3, <2>3, <2>4, InPositions
  <2>6. q[1] = i /\ q[2] \in 1 .. Len(msgs[i].content)
    BY <1>0, <2>2, <2>4, <2>5 DEF Located
  <2>7. q \in Of(b, i, q[2], "image")
    BY <2>1, <2>2 DEF Of
  <2>8. key[q] = <<i, q[2]>>
    BY <2>6
  <2> HIDE DEF I, key
  <2> QED BY <2>3, <2>6, <2>7, <2>8
<1>8. ASSUME NEW i \in I, NEW j \in 1 .. Len(msgs[i].content)
      PROVE  Keyed(K, key, <<i, j>>) = Of(b, i, j, "image")
  <2>1. ASSUME NEW q \in Keyed(K, key, <<i, j>>) PROVE q \in Of(b, i, j, "image")
    <3>1. q \in K /\ key[q] = <<i, j>>
      <4> HIDE DEF K, key
      <4> QED BY DEF Keyed
    <3> HIDE DEF K, key, I
    <3>2. PICK i2 \in I : \E j2 \in 1 .. Len(msgs[i2].content) :
                key[q] = <<i2, j2>> /\ q[1] = i2 /\ q[2] = j2 /\ q \in Of(b, i2, j2, "image")
      BY <1>7, <3>1
    <3>3. PICK j2 \in 1 .. Len(msgs[i2].content) :
                key[q] = <<i2, j2>> /\ q[1] = i2 /\ q[2] = j2 /\ q \in Of(b, i2, j2, "image")
      BY <3>2
    <3>4. i2 = i /\ j2 = j
      BY <3>1, <3>3
    <3> QED BY <3>3, <3>4
  <2>2. ASSUME NEW q \in Of(b, i, j, "image") PROVE q \in Keyed(K, key, <<i, j>>)
    <3>1. q \in Positions(b, i) /\ q[2] = j /\ At(b, q).type = "image"
      BY DEF Of
    <3>2. q \in K
      BY <1>3, <3>1 DEF ImagePositions, UserPositions
    <3>3. PICK c : c = b.messages[i].content
      OBVIOUS
    <3>4. Located(b, i, c)
      BY <1>3, <3>3, InPositions
    <3>5. q[1] = i
      BY <3>1, <3>4 DEF Located
    <3>6. key[q] = <<i, j>>
      <4> HIDE DEF K
      <4> QED BY <3>1, <3>2, <3>5
    <3> HIDE DEF K, key
    <3> QED BY <3>2, <3>6 DEF Keyed
  <2> QED BY <2>1, <2>2
<1>9. ASSUME NEW i \in I, NEW j \in 1 .. Len(msgs[i].content)
      PROVE  /\ f[<<i, j>>] = Cardinality(Keyed(K, key, <<i, j>>))
             /\ f[<<i, j>>] \in Nat
  <2>1. PICK c : c = msgs[i].content
    OBVIOUS
  <2>2. /\ IsFiniteSet(Of(b, i, j, "image"))
        /\ CountInBlock(c[j]) = Cardinality(Of(b, i, j, "image"))
    <3>1. i \in Nat /\ c = b.messages[i].content /\ c \in Seq(UserBlocks(ids, data)) /\ j \in 1 .. Len(c)
      BY <1>3, <2>1
    <3> HIDE DEF f, K, key, I, N, places
    <3>2. Counted(c[j], Of(b, i, j, "image"))
      BY <3>1, CountedInBlock
    <3> QED BY <3>2 DEF Counted
  <2>3. f[<<i, j>>] = CountInBlock(c[j])
    BY <1>6, <2>1
  <2>4. Keyed(K, key, <<i, j>>) = Of(b, i, j, "image")
    BY <1>8
  <2> HIDE DEF f, K, key, I
  <2> QED BY <2>2, <2>3, <2>4, FS_CardinalityType
<1>10. IsFiniteSet(K)
  BY CollectedIs
<1>11. CountImages(b) = Total(f)
  BY DEF CountImages
<1>12. DOMAIN f = N /\ f = [n \in N |-> f[n]] /\ DOMAIN key = K /\ key = [q \in K |-> key[q]]
  <2> HIDE DEF N, K
  <2> QED OBVIOUS
<1> HIDE DEF f, K, key, I, N, places
<1>13. key \in [K -> N]
  <2>1. \A q \in K : key[q] \in N
    BY <1>6, <1>7
  <2> QED BY <1>12, <2>1
<1>14. f \in [N -> Nat] /\ \A n \in N : f[n] = Cardinality(Keyed(K, key, n))
  <2>1. ASSUME NEW n \in N PROVE f[n] = Cardinality(Keyed(K, key, n)) /\ f[n] \in Nat
    BY <1>5, <1>9
  <2> QED BY <1>12, <2>1
<1>15. Total(f) = Cardinality(K)
  BY <1>4, <1>10, <1>13, <1>14, TotalByKey
<1> QED BY <1>11, <1>15 DEF K

-------------------------------------------------------------------------------
(* What routing leaves of a conversation *)

\* The last of the user turns.
LastOf(b, l) == l \in UserTurns(b) /\ \A k \in UserTurns(b) : k <= l

LEMMA LastExists ==
  ASSUME NEW n \in Nat, NEW I \in SUBSET (1 .. n), I # {}
  PROVE  \E l \in I : \A k \in I : k <= l
<1> DEFINE down == {n - k : k \in I}
<1>1. down \in SUBSET Nat /\ down # {}
  <2>1. \A k \in I : n - k \in Nat
    OBVIOUS
  <2>2. PICK k \in I : TRUE
    OBVIOUS
  <2>3. n - k \in down
    OBVIOUS
  <2> QED BY <2>1, <2>3
<1>2. PICK m \in down : \A x \in down : m <= x
  <2> HIDE DEF down
  <2> QED BY <1>1, NatMin
<1>3. PICK l \in I : m = n - l
  OBVIOUS
<1>4. ASSUME NEW k \in I PROVE k <= l
  <2>1. n - k \in down
    OBVIOUS
  <2>2. n - l <= n - k
    BY <1>2, <1>3, <2>1
  <2>3. k \in Int /\ l \in Int
    OBVIOUS
  <2> HIDE DEF down
  <2> QED BY <2>2, <2>3
<1> QED BY <1>4

LEMMA LastIs ==
  ASSUME NEW S, NEW b, b.messages \in Seq(S), UserTurns(b) # {}
  PROVE  LastOf(b, LastUserTurn(b)) /\ LastUserTurn(b) \in 1 .. Len(b.messages)
<1> DEFINE I == {i \in 1 .. Len(b.messages) : IsUser(b.messages[i])}
<1>1. Len(b.messages) \in Nat /\ DOMAIN b.messages = 1 .. Len(b.messages)
  OBVIOUS
<1>2. UserTurns(b) = I
  BY <1>1 DEF UserTurns, IsUser
<1>3. LastUserTurn(b) = IF I # {} THEN Max(I) ELSE 0
  BY DEF LastUserTurn, SelectLastInSeq
<1>4. I \in SUBSET (1 .. Len(b.messages)) /\ I # {}
  BY <1>2
<1> HIDE DEF I
<1>5. LastUserTurn(b) = CHOOSE x \in I : \A y \in I : x >= y
  BY <1>3, <1>4 DEF Max
<1>6. PICK l \in I : \A k \in I : k <= l
  BY <1>1, <1>4, LastExists
<1>7. \A y \in I : l >= y
  BY <1>1, <1>4, <1>6
<1>8. LastUserTurn(b) \in I /\ \A y \in I : LastUserTurn(b) >= y
  BY <1>5, <1>7
<1>9. \A y \in I : y <= LastUserTurn(b)
  BY <1>1, <1>4, <1>8
<1> QED BY <1>2, <1>4, <1>8, <1>9 DEF LastOf

\* What a routed turn starts with.
PutInFront(b, i) == IF i = LastUserTurn(b) THEN ImagesCollected(b) ELSE <<>>

\* A routed body r is that of b, turn by turn: what is in front and what is left.
TurnsRouted(b, r) ==
  /\ Len(r.messages) = Len(b.messages)
  /\ \A i \in 1 .. Len(b.messages) :
       /\ r.messages[i].role = b.messages[i].role
       /\ r.messages[i].content = PutInFront(b, i) \o NormalizedContent(b, i)

LEMMA RoutedTurns ==
  ASSUME NEW ids, NEW data, NEW c, NEW b, NEW r,
         "messages" \in DOMAIN b, b.messages \in Seq(Turns(ids, data)),
         ShouldRoute(c, b), r = RouteVision(c, b)
  PROVE  r.messages \in Seq(PlainTurns(ids, data)) /\ TurnsRouted(b, r)
<1> DEFINE content(i) == PutInFront(b, i) \o NormalizedContent(b, i)
<1>1. r.messages = [i \in 1 .. Len(b.messages) |-> [b.messages[i] EXCEPT !.content = content(i)]]
  BY DEF RouteVision, PutInFront
<1>2. r.messages \in Seq(PlainTurns(ids, data))
  BY RoutedIsPlain
<1>3. Len(b.messages) \in Nat /\ \A i \in 1 .. Len(b.messages) : b.messages[i] \in Turns(ids, data)
  BY SeqShape, SeqMember
<1> HIDE DEF content
<1>4. Len(r.messages) = Len(b.messages)
  BY <1>1, <1>3
<1>5. ASSUME NEW i \in 1 .. Len(b.messages)
      PROVE  r.messages[i].role = b.messages[i].role /\ r.messages[i].content = content(i)
  <2>1. PICK t : t = b.messages[i]
    OBVIOUS
  <2>2. DOMAIN t = {"role", "content"}
    BY <1>3, <2>1 DEF Turns
  <2>3. r.messages[i] = [t EXCEPT !.content = content(i)]
    BY <1>1, <2>1
  <2> QED BY <2>1, <2>2, <2>3
<1> QED BY <1>2, <1>4, <1>5 DEF content, TurnsRouted

\* The images of a body are conserved by routing it: b is the body before, r after.
LEMMA ImagesKept ==
  ASSUME NEW ids, NEW data, NEW c, NEW b, NEW r,
         "messages" \in DOMAIN b, b.messages \in Seq(Turns(ids, data)),
         ShouldRoute(c, b), r = RouteVision(c, b), NEW last, LastOf(r, last)
  PROVE  /\ ImagePositions(r) = {<<last, j, 0>> : j \in 1 .. Cardinality(ImagePositions(b))}
         /\ \A k \in 1 .. Cardinality(ImagePositions(b)) :
              At(r, <<last, k, 0>>) = NthImage(b, k)
<1> DEFINE n == Cardinality(ImagePositions(b))
           images == ImagesCollected(b)
<1>0. /\ Len(b.messages) \in Nat /\ DOMAIN b.messages = 1 .. Len(b.messages)
      /\ \A i \in 1 .. Len(b.messages) : i \in Nat /\ b.messages[i] \in Turns(ids, data)
  BY SeqShape, SeqMember
<1>1. /\ r.messages \in Seq(PlainTurns(ids, data))
      /\ Len(r.messages) = Len(b.messages)
      /\ \A i \in 1 .. Len(b.messages) :
           /\ r.messages[i].role = b.messages[i].role
           /\ r.messages[i].content = PutInFront(b, i) \o NormalizedContent(b, i)
  <2>1. r.messages \in Seq(PlainTurns(ids, data)) /\ TurnsRouted(b, r)
    BY RoutedTurns
  <2> QED BY <2>1 DEF TurnsRouted
<1>2. DOMAIN r.messages = 1 .. Len(b.messages)
  BY <1>1, SeqShape
<1>3. UserTurns(r) = UserTurns(b)
  BY <1>0, <1>1, <1>2 DEF UserTurns
<1>4. last \in 1 .. Len(b.messages) /\ last = LastUserTurn(b) /\ last \in UserTurns(r)
  <2>1. UserTurns(b) # {}
    BY <1>3 DEF LastOf
  <2>2. LastOf(b, LastUserTurn(b)) /\ LastUserTurn(b) \in 1 .. Len(b.messages)
    BY <2>1, LastIs
  <2>3. last \in 1 .. Len(b.messages) /\ last \in UserTurns(r)
    BY <1>2 DEF LastOf, UserTurns
  <2>4. last <= LastUserTurn(b) /\ LastUserTurn(b) <= last
    BY <1>3, <2>2 DEF LastOf
  <2> QED BY <1>0, <2>2, <2>3, <2>4
<1>5. /\ images \in Seq(Images(ids, data)) /\ Len(images) = n /\ n \in Nat
      /\ \A k \in 1 .. n : images[k] \in Images(ids, data) /\ images[k] = NthImage(b, k)
  <2>1. images \in Seq(Images(ids, data))
    BY ImagesOfBody
  <2>2. Len(images) = n /\ \A k \in 1 .. Len(images) : images[k] = NthImage(b, k)
    BY CollectedIs
  <2> HIDE DEF images
  <2>3. Len(images) \in Nat /\ \A k \in 1 .. Len(images) : images[k] \in Images(ids, data)
    BY <2>1, SeqShape, SeqMember
  <2> QED BY <2>1, <2>2, <2>3
<1> HIDE DEF n, images
<1>6. ASSUME NEW i \in UserTurns(r)
      PROVE  /\ Located(r, i, PutInFront(b, i) \o NormalizedContent(b, i))
             /\ NormalizedContent(b, i) \in Seq(Imageless(ids, data))
             /\ i # last => PutInFront(b, i) = <<>>
             /\ i = last => PutInFront(b, i) = images
  <2>1. i \in 1 .. Len(b.messages) /\ i \in Nat /\ b.messages[i] \in Turns(ids, data)
        /\ IsUser(b.messages[i])
    BY <1>0, <1>1, <1>2 DEF UserTurns, IsUser
  <2>2. NormalizedContent(b, i) \in Seq(Imageless(ids, data))
    BY <2>1, NormalizedUser
  <2>3. PICK content : content = PutInFront(b, i) \o NormalizedContent(b, i)
    OBVIOUS
  <2>4. content = r.messages[i].content /\ r.messages[i] \in PlainTurns(ids, data)
    BY <1>1, <2>1, <2>3, SeqMember
  <2>5. content \in Seq(PlainBlocks(ids, data))
    BY <2>4 DEF PlainTurns
  <2>6. Located(r, i, content)
    BY <2>1, <2>4, <2>5, InPositions
  <2> QED BY <1>4, <2>2, <2>3, <2>6 DEF PutInFront, images
<1>7. ASSUME NEW p \in ImagePositions(r) PROVE \E j \in 1 .. n : p = <<last, j, 0>>
  <2>1. p \in UserPositions(r) /\ At(r, p).type = "image"
    BY DEF ImagePositions
  <2>2. PICK i \in UserTurns(r) : p \in Positions(r, i)
    BY <2>1 DEF UserPositions
  <2>3. PICK norm : norm = NormalizedContent(b, i)
    OBVIOUS
  <2>4. PICK front : front = PutInFront(b, i)
    OBVIOUS
  <2>5. Located(r, i, front \o norm) /\ norm \in Seq(Imageless(ids, data))
    BY <1>6, <2>3, <2>4
  <2>6. (i # last => front = <<>>) /\ (i = last => front = images)
    BY <1>6, <2>4
  <2>7. front \in Seq(Images(ids, data))
    <3>1. CASE i = last
      BY <1>5, <2>6, <3>1
    <3>2. CASE i # last
      <4>1. front = <<>>
        BY <2>6, <3>2
      <4> QED BY <4>1
    <3> QED BY <3>1, <3>2
  <2>8. /\ Len(front) \in Nat /\ Len(norm) \in Nat /\ Len(front \o norm) = Len(front) + Len(norm)
        /\ \A k \in 1 .. Len(front) : (front \o norm)[k] = front[k] /\ front[k] \in Images(ids, data)
        /\ \A k \in 1 .. Len(front) + Len(norm) : k > Len(front) =>
             (front \o norm)[k] = norm[k - Len(front)] /\ norm[k - Len(front)] \in Imageless(ids, data)
    BY <2>5, <2>7
  <2>9. p = <<i, p[2], p[3]>> /\ p[2] \in 1 .. Len(front) + Len(norm)
    BY <2>2, <2>5, <2>8 DEF Located
  <2>10. (front \o norm)[p[2]].type # "tool_result"
    BY <2>8, <2>9 DEF Images, Imageless, PlainBlocks
  <2>11. p[3] = 0
    BY <2>2, <2>5, <2>10 DEF Located
  <2>12. At(r, p) = (front \o norm)[p[2]]
    <3>1. p = <<i, p[2], 0>>
      BY <2>9, <2>11
    <3>2. At(r, <<i, p[2], 0>>) = (front \o norm)[p[2]]
      BY <2>5, <2>8, <2>9 DEF Located
    <3> QED BY <3>1, <3>2
  <2>13. p[2] \in 1 .. Len(front)
    <3>1. ASSUME p[2] > Len(front) PROVE FALSE
      BY <2>1, <2>8, <2>9, <2>12, <3>1 DEF Imageless
    <3> QED BY <2>8, <2>9, <3>1
  <2>14. i = last
    BY <2>6, <2>13
  <2> QED BY <1>5, <2>6, <2>9, <2>11, <2>13, <2>14
<1>8. ASSUME NEW k \in 1 .. n
      PROVE  <<last, k, 0>> \in ImagePositions(r) /\ At(r, <<last, k, 0>>) = NthImage(b, k)
  <2>1. PICK norm : norm = NormalizedContent(b, last)
    OBVIOUS
  <2>2. Located(r, last, images \o norm) /\ norm \in Seq(Imageless(ids, data))
    BY <1>4, <1>6, <2>1
  <2>3. k \in 1 .. Len(images \o norm) /\ (images \o norm)[k] = images[k]
    BY <1>5, <2>2
  <2>4. <<last, k, 0>> \in Positions(r, last) /\ At(r, <<last, k, 0>>) = images[k]
    BY <2>2, <2>3 DEF Located
  <2>5. images[k].type = "image"
    BY <1>5 DEF Images
  <2>6. <<last, k, 0>> \in UserPositions(r)
    BY <1>4, <2>4 DEF UserPositions
  <2> QED BY <1>5, <2>4, <2>5, <2>6 DEF ImagePositions
<1>9. ImagePositions(r) = {<<last, j, 0>> : j \in 1 .. n}
  BY <1>7, <1>8
<1> QED BY <1>8, <1>9 DEF n

\* The texts of a turn are conserved by routing it.
LEMMA TextsKept ==
  ASSUME NEW ids, NEW data, NEW c, NEW b, NEW r,
         "messages" \in DOMAIN b, b.messages \in Seq(Turns(ids, data)),
         ShouldRoute(c, b), r = RouteVision(c, b), NEW i \in UserTurns(b)
  PROVE  \E at : Finds(at, r.messages[i].content, TextPositions(b, i), b)
<1>1. r.messages \in Seq(PlainTurns(ids, data)) /\ TurnsRouted(b, r)
  BY RoutedTurns
<1>2. i \in 1 .. Len(b.messages) /\ i \in Nat
  <2>1. DOMAIN b.messages = 1 .. Len(b.messages) /\ Len(b.messages) \in Nat
    BY SeqShape
  <2> QED BY <2>1 DEF UserTurns
<1>3. /\ b.messages[i] \in Turns(ids, data) /\ IsUser(b.messages[i])
      /\ r.messages[i].content = PutInFront(b, i) \o NormalizedContent(b, i)
  <2>1. b.messages[i] \in Turns(ids, data)
    BY <1>2, SeqMember
  <2>2. b.messages[i].role = "user"
    BY DEF UserTurns
  <2>3. r.messages[i].content = PutInFront(b, i) \o NormalizedContent(b, i)
    BY <1>1, <1>2 DEF TurnsRouted
  <2> QED BY <2>1, <2>2, <2>3 DEF IsUser
<1>4. PICK norm : norm = NormalizedContent(b, i)
  OBVIOUS
<1>5. PICK front : front = PutInFront(b, i)
  OBVIOUS
<1>6. /\ norm \in Seq(PlainBlocks(ids, data)) /\ front \in Seq(PlainBlocks(ids, data))
      /\ Holds(norm, OfTurn(b, i, "text"), b, FALSE)
  <2>1. norm \in Seq(PlainBlocks(ids, data))
    BY <1>2, <1>4, NormalizedIsPlain
  <2>2. Holds(norm, OfTurn(b, i, "text"), b, FALSE)
    BY <1>2, <1>3, <1>4, UserTurnHolds
  <2>3. ImagesCollected(b) \in Seq(Images(ids, data))
    BY ImagesOfBody
  <2>4. Images(ids, data) \subseteq PlainBlocks(ids, data)
    BY DEF Images
  <2>5. ImagesCollected(b) \in Seq(PlainBlocks(ids, data)) /\ <<>> \in Seq(PlainBlocks(ids, data))
    BY <2>3, <2>4
  <2>6. front = ImagesCollected(b) \/ front = <<>>
    BY <1>5 DEF PutInFront
  <2> QED BY <2>1, <2>2, <2>5, <2>6
<1>7. PICK in : Finds(in, norm, OfTurn(b, i, "text"), b)
  BY <1>6 DEF Holds
<1>8. TextPositions(b, i) = OfTurn(b, i, "text")
  BY DEF TextPositions, OfTurn
<1>9. /\ \A p \in TextPositions(b, i) : in[p] \in 1 .. Len(norm) /\ norm[in[p]] = At(b, p)
      /\ \A p, q \in TextPositions(b, i) : Before(p, q) => in[p] < in[q]
  BY <1>7, <1>8 DEF Finds
<1> DEFINE content == front \o norm
           n == Len(front)
<1>10. /\ n \in Nat /\ content \in Seq(PlainBlocks(ids, data)) /\ Len(norm) \in Nat
       /\ \A k \in 1 .. Len(norm) : n + k \in 1 .. Len(content) /\ content[n + k] = norm[k]
  BY <1>6
<1>11. content = r.messages[i].content
  BY <1>3, <1>4, <1>5
<1> HIDE DEF content, n
<1> DEFINE at == [p \in TextPositions(b, i) |-> n + in[p]]
<1>12. at \in [TextPositions(b, i) -> 1 .. Len(content)]
  BY <1>9, <1>10
<1>13. \A p \in TextPositions(b, i) : content[at[p]] = At(b, p)
  BY <1>9, <1>10
<1>14. ASSUME NEW p \in TextPositions(b, i), NEW q \in TextPositions(b, i), Before(p, q)
       PROVE  at[p] < at[q]
  <2>1. in[p] \in Nat /\ in[q] \in Nat /\ in[p] < in[q]
    BY <1>9, <1>14
  <2> QED BY <1>10, <2>1
<1> HIDE DEF at
<1>15. Finds(at, content, TextPositions(b, i), b)
  BY <1>12, <1>13, <1>14 DEF Finds
<1> QED BY <1>11, <1>15

LEMMA ContentKept == PipeInv => ContentConserved
<1> SUFFICES ASSUME PipeInv PROVE ContentConserved
  OBVIOUS
<1>1. /\ orig \in MessageBodies(FileIds, STRING)
      /\ DOMAIN Rewritten = DOMAIN orig /\ Rewritten.json = orig.json
      /\ Rewritten.messages \in Seq(Turns(FileIds, STRING))
  BY RewrittenBody
<1>2. "messages" \in DOMAIN Rewritten /\ orig.json \in BOOLEAN
  BY <1>1 DEF MessageBodies
<1>3. ImagesConserved
  <2> SUFFICES ASSUME Routed
               PROVE  LET last == CHOOSE i \in UserTurns(body) : \A k \in UserTurns(body) : k <= i
                          n    == Cardinality(ImagePositions(Rewritten))
                      IN  /\ ImagePositions(body) = {<<last, j, 0>> : j \in 1 .. n}
                          /\ \A k \in 1 .. n : At(body, <<last, k, 0>>) = NthImage(Rewritten, k)
    BY DEF ImagesConserved
  <2>1. body = RouteVision(config, Rewritten) /\ ShouldRoute(config, Rewritten)
    BY RoutedBody
  <2> DEFINE last == CHOOSE i \in UserTurns(body) : \A k \in UserTurns(body) : k <= i
  <2>2. body.messages \in Seq(PlainTurns(FileIds, STRING)) /\ TurnsRouted(Rewritten, body)
    BY <1>1, <1>2, <2>1, RoutedTurns
  <2>3. UserTurns(Rewritten) # {}
    <3>1. CountImages(Rewritten) > 0
      BY <2>1 DEF ShouldRoute
    <3>2. CountImages(Rewritten) = Cardinality(ImagePositions(Rewritten))
      BY <1>1, CountIs
    <3>3. ImagePositions(Rewritten) # {}
      BY <3>1, <3>2, FS_EmptySet
    <3>4. PICK p \in ImagePositions(Rewritten) : TRUE
      BY <3>3
    <3> QED BY <3>4 DEF ImagePositions, UserPositions
  <2>4. UserTurns(body) = UserTurns(Rewritten)
    <3>1. DOMAIN body.messages = 1 .. Len(Rewritten.messages)
      BY <2>2, SeqShape DEF TurnsRouted
    <3>2. DOMAIN Rewritten.messages = 1 .. Len(Rewritten.messages)
      BY <1>1, SeqShape
    <3> QED BY <2>2, <3>1, <3>2 DEF UserTurns, TurnsRouted
  <2>5. LastOf(body, last)
    <3>1. UserTurns(body) # {}
      BY <2>3, <2>4
    <3>2. LastOf(body, LastUserTurn(body))
      BY <2>2, <3>1, LastIs
    <3>3. \E i \in UserTurns(body) : \A k \in UserTurns(body) : k <= i
      BY <3>2 DEF LastOf
    <3> QED BY <3>3 DEF LastOf
  <2> HIDE DEF last
  <2>6. /\ ImagePositions(body) = {<<last, j, 0>> : j \in 1 .. Cardinality(ImagePositions(Rewritten))}
        /\ \A k \in 1 .. Cardinality(ImagePositions(Rewritten)) :
             At(body, <<last, k, 0>>) = NthImage(Rewritten, k)
    BY <1>1, <1>2, <2>1, <2>5, ImagesKept
  <2> QED BY <2>6 DEF last
<1>4. TextConserved
  <2> SUFFICES ASSUME Routed, NEW i \in UserTurns(Rewritten)
               PROVE  LET texts == TextPositions(Rewritten, i)
                          sent  == body.messages[i].content
                      IN  \E at \in [texts -> DOMAIN sent] :
                            /\ \A p \in texts : sent[at[p]] = At(Rewritten, p)
                            /\ \A p, q \in texts : Before(p, q) => at[p] < at[q]
    BY DEF TextConserved
  <2>1. body = RouteVision(config, Rewritten) /\ ShouldRoute(config, Rewritten)
    BY RoutedBody
  <2> DEFINE sent == body.messages[i].content
  <2>2. PICK at : Finds(at, sent, TextPositions(Rewritten, i), Rewritten)
    BY <1>1, <1>2, <2>1, TextsKept
  <2>3. DOMAIN sent = 1 .. Len(sent)
    <3>1. body.messages \in Seq(PlainTurns(FileIds, STRING)) /\ TurnsRouted(Rewritten, body)
      BY <1>1, <1>2, <2>1, RoutedTurns
    <3>2. i \in 1 .. Len(body.messages)
      BY <1>1, <3>1, SeqShape DEF UserTurns, TurnsRouted
    <3>3. body.messages[i] \in PlainTurns(FileIds, STRING)
      BY <3>1, <3>2, SeqMember
    <3>4. sent \in Seq(PlainBlocks(FileIds, STRING))
      BY <3>3 DEF PlainTurns
    <3> QED BY <3>4
  <2> HIDE DEF sent
  <2>4. /\ at \in [TextPositions(Rewritten, i) -> DOMAIN sent]
        /\ \A p \in TextPositions(Rewritten, i) : sent[at[p]] = At(Rewritten, p)
        /\ \A p, q \in TextPositions(Rewritten, i) : Before(p, q) => at[p] < at[q]
    BY <2>2, <2>3 DEF Finds
  <2> QED BY <2>4 DEF sent
<1>5. CountMatchesCollected
  <2> SUFFICES ASSUME AfterVision, body.json
               PROVE  info.images = Cardinality(ImagePositions(Rewritten))
    BY DEF CountMatchesCollected
  <2>1. /\ info.routed = ShouldRoute(config, Settled) /\ info.images = ImagesSeen
        /\ stage = "visioned" \/ stage = "sent"
    BY DEF PipeInv, AfterVision
  <2>2. orig.json
    <3>1. ASSUME ~ orig.json PROVE FALSE
      <4>1. Settled = orig /\ ~ info.routed
        BY <2>1, <3>1 DEF Settled, ShouldRoute
      <4>2. RunEffort(config, orig, info.upstream) = orig
        BY <3>1 DEF RunEffort
      <4>3. body = orig
        BY <2>1, <4>1, <4>2 DEF PipeInv
      <4> QED BY <3>1, <4>3
    <3> QED BY <3>1
  <2>3. Settled = Rewritten /\ Rewritten.json
    BY <1>1, <2>2 DEF Settled
  <2>4. CountImages(Rewritten) = Cardinality(ImagePositions(Rewritten))
    BY <1>1, CountIs
  <2>5. Len(ImagesCollected(Rewritten)) = Cardinality(ImagePositions(Rewritten))
    BY <1>1, CollectedIs
  <2> QED BY <2>1, <2>3, <2>4, <2>5 DEF ImagesSeen
<1> QED BY <1>3, <1>4, <1>5 DEF ContentConserved

\* Whatever a conversation holds, routing it loses no image and no text of the user, keeps
\* them in their order, and the images reported are those there were.
THEOREM ContentSurvives == PipelineSpec => []ContentConserved
<1> QED BY ContentKept, PipeInvAlways, PTL
================================================================================

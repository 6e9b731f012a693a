----------------------------- MODULE Vision_proofs -----------------------------
(***************************************************************************)
(* What the transforms of Rewrite and Vision make of a body, for every     *)
(* body: which blocks it can have afterwards.                              *)
(***************************************************************************)
EXTENDS Vision, FiniteSetTheorems, TLAPS

\* Every nonempty set of naturals has a smallest element.
LEMMA NatMin ==
  ASSUME NEW S \in SUBSET Nat, S # {}
  PROVE  \E m \in S : \A n \in S : m <= n
<1> DEFINE T == {S \cap (0 .. k) : k \in S}
<1>1. T \subseteq FiniteSubsetsOf(Nat) /\ T # {}
  <2>1. ASSUME NEW k \in S PROVE S \cap (0 .. k) \in FiniteSubsetsOf(Nat)
    <3>1. IsFiniteSet(0 .. k)
      BY FS_Interval
    <3>2. IsFiniteSet(S \cap (0 .. k))
      BY <3>1, FS_Subset
    <3> QED BY <3>2 DEF FiniteSubsetsOf
  <2> QED BY <2>1
<1>2. IsWellFoundedOn(StrictSubsetOrdering(Nat), FiniteSubsetsOf(Nat))
  BY FS_StrictSubsetOrderingWellFounded
<1>3. PICK x \in T : \A y \in T : ~ (<<y, x>> \in StrictSubsetOrdering(Nat))
  <2> HIDE DEF T
  <2> QED BY <1>1, <1>2, WFMin, Zenon
<1>4. PICK m \in S : x = S \cap (0 .. m)
  OBVIOUS
<1>5. ASSUME NEW n \in S, n < m PROVE FALSE
  <2> DEFINE y == S \cap (0 .. n)
  <2>1. y \in T
    OBVIOUS
  <2>2. y \subseteq x /\ y # x
    BY <1>4, <1>5
  <2>3. <<y, x>> \in StrictSubsetOrdering(Nat)
    BY <2>2, <1>4 DEF StrictSubsetOrdering
  <2> QED BY <2>1, <2>3, <1>3
<1> QED BY <1>5

-------------------------------------------------------------------------------
(* FlattenSeq and OfType put together elements of the sequences they are   *)
(* given, and no other.                                                    *)

\* The recursion of FlattenSeq over the first k sequences of ss.
FlatTo(ss, k, f) == f = [i \in 1 .. k |-> IF i = 1 THEN ss[i] ELSE f[i - 1] \o ss[i]]

LEMMA FlatExists ==
  ASSUME NEW S, NEW ss \in Seq(Seq(S)), NEW n \in Nat \ {0}
  PROVE  \E f : FlatTo(ss, n, f)
<1> DEFINE Bad == {k \in Nat \ {0} : ~ \E f : FlatTo(ss, k, f)}
<1>1. SUFFICES ASSUME Bad # {} PROVE FALSE
  OBVIOUS
<1>2. PICK m \in Bad : \A k \in Bad : m <= k
  BY <1>1, NatMin
<1>3. m # 1
  <2> DEFINE f == [i \in 1 .. 1 |-> ss[i]]
  <2>1. FlatTo(ss, 1, f)
    BY DEF FlatTo
  <2> QED BY <2>1
<1>4. PICK g : FlatTo(ss, m - 1, g)
  <2>1. m - 1 \in Nat \ {0} /\ ~ (m <= m - 1)
    BY <1>3
  <2>2. m - 1 \notin Bad
    BY <1>2, <2>1
  <2> QED BY <2>1, <2>2
<1> DEFINE f == [i \in 1 .. m |-> IF i = m THEN g[i - 1] \o ss[i] ELSE g[i]]
<1>5. FlatTo(ss, m, f)
  <2>1. ASSUME NEW i \in 1 .. m
        PROVE  f[i] = IF i = 1 THEN ss[i] ELSE f[i - 1] \o ss[i]
    <3>1. \A k \in 1 .. m - 1 : g[k] = IF k = 1 THEN ss[k] ELSE g[k - 1] \o ss[k]
      BY <1>4 DEF FlatTo
    <3>2. \A k \in 1 .. m - 1 : f[k] = g[k]
      OBVIOUS
    <3>3. CASE i = m
      <4>1. i # 1 /\ i \in 1 .. m /\ i - 1 \in 1 .. m - 1
        BY <1>3, <3>3
      <4>2. f[i - 1] = g[i - 1]
        BY <3>2, <4>1
      <4>3. f[i] = g[i - 1] \o ss[i]
        BY <3>3
      <4> QED BY <4>1, <4>2, <4>3
    <3>4. CASE i # m
      <4>1. i \in 1 .. m - 1 /\ f[i] = g[i] /\ (i # 1 => i - 1 \in 1 .. m - 1)
        BY <3>4
      <4> HIDE DEF f
      <4> QED BY <4>1, <3>1, <3>2
    <3> QED BY <3>3, <3>4
  <2> QED BY <2>1 DEF FlatTo
<1> QED BY <1>5

\* What the first sequences hold, the flattened sequence holds.
LEMMA FlatElements ==
  ASSUME NEW S, NEW ss \in Seq(Seq(S)), NEW f, FlatTo(ss, Len(ss), f)
  PROVE  \A i \in 1 .. Len(ss) : f[i] \in Seq(S)
<1> DEFINE Bad == {i \in 1 .. Len(ss) : f[i] \notin Seq(S)}
<1>1. SUFFICES ASSUME Bad # {} PROVE FALSE
  OBVIOUS
<1>2. PICK m \in Bad : \A k \in Bad : m <= k
  <2>1. Bad \in SUBSET Nat
    OBVIOUS
  <2> HIDE DEF Bad
  <2> QED BY <1>1, <2>1, NatMin
<1>0. \A i \in 1 .. Len(ss) : f[i] = IF i = 1 THEN ss[i] ELSE f[i - 1] \o ss[i]
  BY DEF FlatTo
<1>3. CASE m = 1
  BY <1>0, <1>3
<1>4. CASE m # 1
  <2>1. m - 1 \in 1 .. Len(ss) /\ ~ (m <= m - 1)
    BY <1>4
  <2>2. f[m - 1] \in Seq(S)
    BY <1>2, <2>1
  <2>3. f[m] = f[m - 1] \o ss[m]
    BY <1>0, <1>4
  <2>4. ss[m] \in Seq(S)
    OBVIOUS
  <2>5. f[m - 1] \o ss[m] \in Seq(S)
    BY <2>2, <2>4
  <2> QED BY <1>2, <2>3, <2>5
<1> QED BY <1>3, <1>4

LEMMA FlattenElements ==
  ASSUME NEW S, NEW ss \in Seq(Seq(S))
  PROVE  FlattenSeq(ss) \in Seq(S)
<1>1. CASE Len(ss) = 0
  <2>1. ss = <<>>
    BY <1>1
  <2> QED BY <1>1, <2>1 DEF FlattenSeq
<1>2. CASE Len(ss) # 0
  <2> DEFINE f == CHOOSE g : FlatTo(ss, Len(ss), g)
  <2>1. FlatTo(ss, Len(ss), f)
    BY <1>2, FlatExists
  <2>2. FlattenSeq(ss) = f[Len(ss)]
    BY <1>2 DEF FlattenSeq, FlatTo
  <2> QED BY <1>2, <2>1, <2>2, FlatElements
<1> QED BY <1>1, <1>2

\* A function of 1 .. n is a sequence of what it yields.
LEMMA MapIsSeq ==
  ASSUME NEW S, NEW n \in Nat, NEW f, f \in [1 .. n -> S]
  PROVE  f \in Seq(S)
OBVIOUS

LEMMA OfTypeElements ==
  ASSUME NEW S, NEW s \in Seq(S), NEW t
  PROVE  OfType(s, t) \in Seq({x \in S : x.type = t})
<1> DEFINE T == {x \in S : x.type = t}
<1>1. ASSUME NEW k \in 1 .. Len(s)
      PROVE  (IF s[k].type = t THEN <<s[k]>> ELSE <<>>) \in Seq(T)
  <2>1. CASE s[k].type = t
    <3>1. s[k] \in T
      BY <2>1
    <3>2. <<s[k]>> \in Seq(T)
      BY <3>1
    <3> QED BY <2>1, <3>2
  <2>2. CASE s[k].type # t
    BY <2>2
  <2> QED BY <2>1, <2>2
<1> HIDE DEF T
<1>2. [k \in 1 .. Len(s) |-> IF s[k].type = t THEN <<s[k]>> ELSE <<>>] \in Seq(Seq(T))
  BY <1>1, MapIsSeq
<1>3. OfType(s, t) \in Seq(T)
  BY <1>2, FlattenElements DEF OfType
<1> QED BY <1>3 DEF T

-------------------------------------------------------------------------------
(* The blocks of a body that was routed are those it had, out of their     *)
(* tool_results, the placeholder and the labels of tool calls.             *)

Images(ids, data) == {x \in PlainBlocks(ids, data) : x.type = "image"}

PlainTurns(ids, data) == [role : {"user", "assistant"}, content : Seq(PlainBlocks(ids, data))]

LEMMA ImagesOfBlock ==
  ASSUME NEW ids, NEW data, NEW x \in UserBlocks(ids, data)
  PROVE  ImagesIn(x) \in Seq(Images(ids, data))
<1>1. CASE x \in PlainBlocks(ids, data)
  <2>1. x.type # "tool_result"
    BY <1>1 DEF PlainBlocks
  <2>2. CASE x.type = "image"
    <3>1. x \in Images(ids, data)
      BY <1>1, <2>2 DEF Images
    <3> QED BY <2>2, <3>1 DEF ImagesIn
  <2>3. CASE x.type # "image"
    BY <2>1, <2>3 DEF ImagesIn
  <2> QED BY <2>2, <2>3
<1>2. CASE x \in ToolResults(ids, data)
  BY <1>2, OfTypeElements DEF ImagesIn, ToolResults, Images
<1> QED BY <1>1, <1>2 DEF UserBlocks

\* The images of a turn, block by block.
TurnLists(msg) == [j \in 1 .. Len(msg.content) |-> ImagesIn(msg.content[j])]

LEMMA ImagesOfBlocks ==
  ASSUME NEW ids, NEW data, NEW msg \in Turns(ids, data), IsUser(msg)
  PROVE  /\ msg.content \in Seq(UserBlocks(ids, data))
         /\ TurnLists(msg) \in Seq(Seq(Images(ids, data)))
         /\ Len(TurnLists(msg)) = Len(msg.content)
         /\ TurnImages(msg) = FlattenSeq(TurnLists(msg))
<1>1. msg.content \in Seq(UserBlocks(ids, data))
  BY DEF Turns, IsUser
<1>2. TurnLists(msg) \in Seq(Seq(Images(ids, data))) /\ Len(TurnLists(msg)) = Len(msg.content)
  BY <1>1, ImagesOfBlock DEF TurnLists
<1>3. TurnImages(msg) = FlattenSeq(TurnLists(msg))
  BY DEF TurnImages, TurnLists
<1> QED BY <1>1, <1>2, <1>3

LEMMA ImagesOfTurn ==
  ASSUME NEW ids, NEW data, NEW msg \in Turns(ids, data)
  PROVE  TurnImages(msg) \in Seq(Images(ids, data))
<1>1. CASE IsUser(msg)
  BY <1>1, ImagesOfBlocks, FlattenElements
<1>2. CASE ~ IsUser(msg)
  BY <1>2 DEF TurnImages
<1> QED BY <1>1, <1>2

LEMMA ImagesOfBody ==
  ASSUME NEW ids, NEW data, NEW b, b.messages \in Seq(Turns(ids, data))
  PROVE  ImagesCollected(b) \in Seq(Images(ids, data))
<1>1. [i \in 1 .. Len(b.messages) |-> TurnImages(b.messages[i])] \in Seq(Seq(Images(ids, data)))
  BY ImagesOfTurn
<1> QED BY <1>1, FlattenElements DEF ImagesCollected

\* What is left of a user turn, block by block: no image and no tool result.
Imageless(ids, data) == {x \in PlainBlocks(ids, data) : x.type # "image"}

LeftOf(msg, isLast) == [j \in 1 .. Len(msg.content) |-> UserBlock(msg.content[j], isLast)]

LEMMA LeftOfBlock ==
  ASSUME NEW ids, NEW data, NEW x \in UserBlocks(ids, data), NEW isLast \in BOOLEAN
  PROVE  UserBlock(x, isLast) \in Seq(Imageless(ids, data))
<1>1. CASE x \in PlainBlocks(ids, data)
  <2>1. ImagePlaceholder \in Imageless(ids, data)
    BY DEF ImagePlaceholder, PlainBlocks, Texts, Imageless
  <2>2. x.type # "tool_result"
    BY <1>1 DEF PlainBlocks
  <2>3. x.type # "image" => x \in Imageless(ids, data)
    BY <1>1 DEF Imageless
  <2> QED BY <2>1, <2>2, <2>3 DEF UserBlock
<1>2. CASE x \in ToolResults(ids, data)
  <2>1. OfType(x.content, "text") \in Seq({y \in PlainBlocks(ids, data) : y.type = "text"})
    BY <1>2, OfTypeElements DEF ToolResults
  <2>2. {y \in PlainBlocks(ids, data) : y.type = "text"} \subseteq Imageless(ids, data)
    BY DEF Imageless
  <2>3. OfType(x.content, "text") \in Seq(Imageless(ids, data))
    <3> DEFINE texts == {y \in PlainBlocks(ids, data) : y.type = "text"}
    <3> HIDE DEF texts
    <3>1. OfType(x.content, "text") \in Seq(texts) /\ texts \subseteq Imageless(ids, data)
      BY <2>1, <2>2 DEF texts
    <3> QED BY <3>1
  <2> QED BY <1>2, <2>3 DEF UserBlock, ToolResults
<1> QED BY <1>1, <1>2 DEF UserBlocks

LEMMA NormalizedUser ==
  ASSUME NEW ids, NEW data, NEW b, NEW i, b.messages[i] \in Turns(ids, data),
         IsUser(b.messages[i])
  PROVE  /\ LeftOf(b.messages[i], i = LastUserTurn(b)) \in Seq(Seq(Imageless(ids, data)))
         /\ Len(LeftOf(b.messages[i], i = LastUserTurn(b))) = Len(b.messages[i].content)
         /\ NormalizedContent(b, i) = FlattenSeq(LeftOf(b.messages[i], i = LastUserTurn(b)))
         /\ NormalizedContent(b, i) \in Seq(Imageless(ids, data))
<1> DEFINE msg == b.messages[i]
           isLast == i = LastUserTurn(b)
<1>1. msg.content \in Seq(UserBlocks(ids, data)) /\ msg.role = "user"
  BY DEF Turns, IsUser
<1>2. isLast \in BOOLEAN
  OBVIOUS
<1>3. LeftOf(msg, isLast) \in Seq(Seq(Imageless(ids, data)))
      /\ Len(LeftOf(msg, isLast)) = Len(msg.content)
  <2>1. PICK c : c = msg.content
    OBVIOUS
  <2>2. c \in Seq(UserBlocks(ids, data)) /\ LeftOf(msg, isLast) = [j \in 1 .. Len(c) |-> UserBlock(c[j], isLast)]
    BY <1>1, <2>1 DEF LeftOf
  <2>3. \A j \in 1 .. Len(c) : c[j] \in UserBlocks(ids, data)
    BY <2>2
  <2>4. \A j \in 1 .. Len(c) : UserBlock(c[j], isLast) \in Seq(Imageless(ids, data))
    <3> HIDE DEF isLast
    <3> QED BY <1>2, <2>3, LeftOfBlock
  <2>5. Len(c) \in Nat
    BY <2>2
  <2> HIDE DEF msg, isLast
  <2> QED BY <2>1, <2>2, <2>4, <2>5, MapIsSeq
<1>4. NormalizedContent(b, i) = FlattenSeq(LeftOf(msg, isLast))
  BY <1>1 DEF NormalizedContent, LeftOf, IsUser
<1> HIDE DEF msg, isLast
<1>5. NormalizedContent(b, i) \in Seq(Imageless(ids, data))
  BY <1>3, <1>4, FlattenElements
<1> QED BY <1>3, <1>4, <1>5 DEF msg, isLast

LEMMA NormalizedIsPlain ==
  ASSUME NEW ids, NEW data, NEW b, b.messages \in Seq(Turns(ids, data)),
         NEW i \in 1 .. Len(b.messages)
  PROVE  NormalizedContent(b, i) \in Seq(PlainBlocks(ids, data))
<1> DEFINE msg == b.messages[i]
<1>0. msg \in Turns(ids, data)
  OBVIOUS
<1>1. CASE msg \in [role : {"assistant"}, content : Seq(AssistantBlocks(ids, data))]
  <2>1. ASSUME NEW x \in AssistantBlocks(ids, data)
        PROVE  AssistantBlock(x) \in PlainBlocks(ids, data)
    BY DEF AssistantBlocks, AssistantBlock, PlainBlocks, Texts, ToolUses, ToolUseLabel
  <2>2. [j \in 1 .. Len(msg.content) |-> AssistantBlock(msg.content[j])] \in Seq(PlainBlocks(ids, data))
    <3>1. msg.content \in Seq(AssistantBlocks(ids, data)) /\ msg.role = "assistant"
      BY <1>1
    <3> HIDE DEF msg
    <3> QED BY <3>1, <2>1, MapIsSeq
  <2>3. msg.role = "assistant"
    BY <1>1
  <2>4. NormalizedContent(b, i) = [j \in 1 .. Len(msg.content) |-> AssistantBlock(msg.content[j])]
    <3>1. NormalizedContent(b, i) =
            CASE msg.role = "assistant" ->
                   [j \in 1 .. Len(msg.content) |-> AssistantBlock(msg.content[j])]
              [] IsUser(msg) ->
                   FlattenSeq([j \in 1 .. Len(msg.content) |->
                                 UserBlock(msg.content[j], i = LastUserTurn(b))])
              [] OTHER -> msg.content
      BY DEF NormalizedContent
    <3>2. ~ IsUser(msg)
      BY <2>3 DEF IsUser
    <3> HIDE DEF msg
    <3> QED BY <2>3, <3>1, <3>2
  <2> HIDE DEF msg
  <2> QED BY <2>2, <2>4
<1>2. CASE msg \in [role : {"user"}, content : Seq(UserBlocks(ids, data))]
  <2>1. IsUser(msg)
    BY <1>2 DEF IsUser
  <2>2. NormalizedContent(b, i) \in Seq(Imageless(ids, data))
    BY <1>0, <2>1, NormalizedUser
  <2>3. Imageless(ids, data) \subseteq PlainBlocks(ids, data)
    BY DEF Imageless
  <2> HIDE DEF msg
  <2> QED BY <2>2, <2>3
<1> QED BY <1>0, <1>1, <1>2 DEF Turns

LEMMA RoutedIsPlain ==
  ASSUME NEW ids, NEW data, NEW c, NEW b,
         "messages" \in DOMAIN b, b.messages \in Seq(Turns(ids, data)), ShouldRoute(c, b)
  PROVE  RouteVision(c, b).messages \in Seq(PlainTurns(ids, data))
<1> DEFINE content(i) == (IF i = LastUserTurn(b) THEN ImagesCollected(b) ELSE <<>>)
                           \o NormalizedContent(b, i)
<1>1. RouteVision(c, b).messages = [i \in 1 .. Len(b.messages) |->
                                       [b.messages[i] EXCEPT !.content = content(i)]]
  BY DEF RouteVision
<1>2. ASSUME NEW i \in 1 .. Len(b.messages)
      PROVE  content(i) \in Seq(PlainBlocks(ids, data))
  <2>1. ImagesCollected(b) \in Seq(PlainBlocks(ids, data))
    <3>1. ImagesCollected(b) \in Seq(Images(ids, data))
      BY ImagesOfBody
    <3> QED BY <3>1 DEF Images
  <2>2. NormalizedContent(b, i) \in Seq(PlainBlocks(ids, data))
    BY NormalizedIsPlain
  <2> QED BY <2>1, <2>2
<1> HIDE DEF content
<1>3. ASSUME NEW i \in 1 .. Len(b.messages)
      PROVE  [b.messages[i] EXCEPT !.content = content(i)] \in PlainTurns(ids, data)
  <2>1. b.messages[i] \in Turns(ids, data)
    OBVIOUS
  <2> QED BY <1>2, <2>1 DEF Turns, PlainTurns
<1> QED BY <1>1, <1>3

-------------------------------------------------------------------------------
(* Substituting files leaves a body a body: what comes in is what the      *)
(* store holds under the ids the body names.                               *)

LEMMA ResolvedPlain ==
  ASSUME NEW ids, NEW data, NEW store, \A i \in ids : store[i] # NoData => store[i] \in data,
         NEW x \in PlainBlocks(ids, data)
  PROVE  Resolved(store, x) \in PlainBlocks(ids, data)
<1>1. CASE HasFileSource(x) /\ x.source.id # NoFile /\ store[x.source.id] # NoData
  <2>1. /\ x \in [type : {"image", "document"}, source : Sources(ids, data)]
        /\ x.source.id \in ids
    BY <1>1 DEF PlainBlocks, Sources, HasFileSource
  <2>2. Inline(store[x.source.id]) \in Sources(ids, data)
    BY <1>1, <2>1 DEF Inline, Sources
  <2> QED BY <1>1, <2>1, <2>2 DEF Resolved, PlainBlocks
<1>2. CASE ~ (HasFileSource(x) /\ x.source.id # NoFile /\ store[x.source.id] # NoData)
  BY <1>2 DEF Resolved
<1> QED BY <1>1, <1>2

LEMMA ResolvedBlocks ==
  ASSUME NEW ids, NEW data, NEW store, \A i \in ids : store[i] # NoData => store[i] \in data
  PROVE  /\ \A x \in UserBlocks(ids, data) : Resolved(store, x) \in UserBlocks(ids, data)
         /\ \A x \in AssistantBlocks(ids, data) : Resolved(store, x) \in AssistantBlocks(ids, data)
<1>1. \A x \in ToolResults(ids, data) \cup ToolUses : Resolved(store, x) = x
  BY DEF ToolResults, ToolUses, Resolved, HasFileSource
<1> QED BY <1>1, ResolvedPlain DEF UserBlocks, AssistantBlocks

LEMMA ResolvedTurns ==
  ASSUME NEW ids, NEW data, NEW store, \A i \in ids : store[i] # NoData => store[i] \in data,
         NEW b, "messages" \in DOMAIN b, b.messages \in Seq(Turns(ids, data))
  PROVE  ResolveFiles(store, b).messages \in Seq(Turns(ids, data))
<1>0. /\ \A x \in UserBlocks(ids, data) : Resolved(store, x) \in UserBlocks(ids, data)
      /\ \A x \in AssistantBlocks(ids, data) : Resolved(store, x) \in AssistantBlocks(ids, data)
  BY ResolvedBlocks
<1>1. ResolveFiles(store, b).messages = [i \in DOMAIN b.messages |-> ResolveTurn(store, b.messages[i])]
  BY DEF ResolveFiles
<1>2. ASSUME NEW msg \in Turns(ids, data)
      PROVE  ResolveTurn(store, msg) \in Turns(ids, data)
  <2>1. CASE msg \in [role : {"user"}, content : Seq(UserBlocks(ids, data))]
    <3>1. [j \in DOMAIN msg.content |-> Resolved(store, msg.content[j])] \in Seq(UserBlocks(ids, data))
      <4>1. msg.content \in Seq(UserBlocks(ids, data))
        BY <2>1
      <4>2. \A j \in DOMAIN msg.content : Resolved(store, msg.content[j]) \in UserBlocks(ids, data)
        BY <4>1, <1>0
      <4> QED BY <4>1, <4>2, MapIsSeq
    <3> QED BY <2>1, <3>1 DEF Turns, ResolveTurn
  <2>2. CASE msg \in [role : {"assistant"}, content : Seq(AssistantBlocks(ids, data))]
    <3>1. [j \in DOMAIN msg.content |-> Resolved(store, msg.content[j])] \in Seq(AssistantBlocks(ids, data))
      <4>1. msg.content \in Seq(AssistantBlocks(ids, data))
        BY <2>2
      <4>2. \A j \in DOMAIN msg.content : Resolved(store, msg.content[j]) \in AssistantBlocks(ids, data)
        BY <4>1, <1>0
      <4> QED BY <4>1, <4>2, MapIsSeq
    <3> QED BY <2>2, <3>1 DEF Turns, ResolveTurn
  <2> QED BY <2>1, <2>2 DEF Turns
<1> QED BY <1>1, <1>2
===============================================================================

-------------------------------- MODULE Vision --------------------------------
(***************************************************************************)
(* vision.go: a request with images is redirected to the vision model, its *)
(* images are moved to the front of the last user turn and every trace of  *)
(* the tool machinery is removed.                                          *)
(***************************************************************************)
EXTENDS Rewrite, Sums

ImagePlaceholder == [type |-> "text", text |-> PlaceholderText]
ToolUseLabel(b)  == [type |-> "text", text |-> b.name]   \* formatToolUseLabel

IsImage(b)  == b.type = "image"
IsUser(msg) == msg.role = "user"

\* The blocks of s that are of type t, in their order.
OfType(s, t) ==
  FlattenSeq([k \in 1 .. Len(s) |-> IF s[k].type = t THEN <<s[k]>> ELSE <<>>])

\* Mutant of ImagesIn: images nested in a tool_result are not collected.
ImagesInTopLevel(b) == IF IsImage(b) THEN <<b>> ELSE <<>>

\* The images of one block of a user turn: itself, or those it nests.
ImagesIn(b) ==
  CASE b.type = "image"       -> <<b>>
    [] b.type = "tool_result" -> OfType(b.content, "image")
    [] OTHER                  -> <<>>

TurnImages(msg) ==
  IF IsUser(msg)
  THEN FlattenSeq([j \in 1 .. Len(msg.content) |-> ImagesIn(msg.content[j])])
  ELSE <<>>

ImagesCollected(body) ==
  FlattenSeq([i \in 1 .. Len(body.messages) |-> TurnImages(body.messages[i])])

\* Mutant of CountInBlock: a tool_result counts as one image, however many it nests.
CountInBlockOnce(b) ==
  CASE b.type = "image"       -> 1
    [] b.type = "tool_result" -> IF \E k \in DOMAIN b.content : IsImage(b.content[k]) THEN 1 ELSE 0
    [] OTHER                  -> 0

\* countImagesInMessages: a pass of its own, taken before the decision to route.
CountInBlock(b) ==
  CASE b.type = "image"       -> 1
    [] b.type = "tool_result" -> Cardinality({k \in DOMAIN b.content : IsImage(b.content[k])})
    [] OTHER                  -> 0

\* Where the blocks of the user turns are.
UserPlaces(body) ==
  UNION {{<<i, j>> : j \in DOMAIN body.messages[i].content} :
         i \in {k \in DOMAIN body.messages : IsUser(body.messages[k])}}

CountImages(body) == Total([p \in UserPlaces(body) |-> CountInBlock(BlockAt(body, p))])

LastUserTurn(body) == SelectLastInSeq(body.messages, IsUser)

\* Mutant of UserBlock: a tool_result is dropped with the text it nests.
UserBlockNoText(b, isLast) ==
  CASE b.type = "image"       -> IF isLast THEN <<>> ELSE <<ImagePlaceholder>>
    [] b.type = "tool_result" -> <<>>
    [] OTHER                  -> <<b>>

\* What takes the place of a block of a user turn: a direct image of an earlier
\* turn leaves the placeholder, a tool_result leaves the text blocks it nests.
UserBlock(b, isLast) ==
  CASE b.type = "image"       -> IF isLast THEN <<>> ELSE <<ImagePlaceholder>>
    [] b.type = "tool_result" -> OfType(b.content, "text")
    [] OTHER                  -> <<b>>

\* Mutant of AssistantBlock: tool_use blocks stay.
AssistantBlockKept(b) == b

AssistantBlock(b) == IF b.type = "tool_use" THEN ToolUseLabel(b) ELSE b

NormalizedContent(body, i) ==
  LET msg    == body.messages[i]
      isLast == i = LastUserTurn(body)
  IN  CASE msg.role = "assistant" ->
             [j \in 1 .. Len(msg.content) |-> AssistantBlock(msg.content[j])]
        [] IsUser(msg) ->
             FlattenSeq([j \in 1 .. Len(msg.content) |-> UserBlock(msg.content[j], isLast)])
        [] OTHER -> msg.content

ShouldRoute(cfg, body) ==
  body.json /\ CountImages(body) > 0 /\ cfg.vision # NoModel

RouteVision(cfg, body) ==
  IF ~ ShouldRoute(cfg, body) THEN body
  ELSE [body EXCEPT
          !.model       = cfg.vision,
          !.tools       = FALSE,
          !.tool_choice = FALSE,
          !.messages    = [i \in 1 .. Len(@) |->
             [@[i] EXCEPT !.content =
                (IF i = LastUserTurn(body) THEN ImagesCollected(body) ELSE <<>>)
                  \o NormalizedContent(body, i)]]]
===============================================================================

------------------------------- MODULE MCPipeline -------------------------------
(***************************************************************************)
(* Instance of MessagesPipeline: two file ids, one of them uploaded, and  *)
(* small sets of configurations and bodies, one family for vision routing  *)
(* and one for effort and model ids.                                       *)
(***************************************************************************)
EXTENDS MessagesPipeline

MCClaudeIds == Spoofs \cup {"claude-opus-3"}
MCFileIds   == {"f1", "f2"}
MCHugeBudget == -1   \* amd64: the smallest int

Unset        == [kind |-> "unset", level |-> "bad", clauses |-> <<>>]
Off          == [Unset EXCEPT !.kind = "off"]
Auto         == [Unset EXCEPT !.kind = "auto"]
Const(level)  == [Unset EXCEPT !.kind = "const", !.level = level]
AutoTo(level) == [Unset EXCEPT !.kind = "autoTo", !.level = level]
Matrix(cs)    == [Unset EXCEPT !.kind = "matrix", !.clauses = cs]
Clause(b, v)  == [bucket |-> b, value |-> v]

Config(model, tiers, vision, effort, efforts) ==
  [model |-> model, tierModel |-> tiers, vision |-> vision,
   effort |-> effort, tierEffort |-> efforts, otlp |-> FALSE]

NoTierModels  == [t \in Tiers |-> NoModel]
NoTierEfforts == [t \in Tiers |-> Unset]

-------------------------------------------------------------------------------
(* Bodies *)

Text(t)     == [type |-> "text", text |-> t]
Image(src)  == [type |-> "image", source |-> src]
File(id)    == [type |-> "file", id |-> id]
ToolUse     == [type |-> "tool_use", name |-> "Read"]
ToolResult(blocks) == [type |-> "tool_result", content |-> blocks]
User(blocks)       == [role |-> "user", content |-> blocks]
Assistant(blocks)  == [role |-> "assistant", content |-> blocks]

Enabled(budget) == [type |-> "enabled", budget |-> budget]
Number(n)       == [kind |-> "number", n |-> n]

Body(model, thinking, effort, tools, messages) ==
  [json |-> TRUE, model |-> model, thinking |-> thinking, reasoning_effort |-> effort,
   tools |-> tools, tool_choice |-> tools, messages |-> messages]

\* What one block of a user turn can be in a conversation of claude code: text, a
\* pasted image that was uploaded, one whose id was lost, a Read tool result.
SomeUserBlocks ==
  {Text("a"), Image(Inline("pix")), Image(File("f1")), Image(File("f2")), Image(File(NoFile)),
   [type |-> "document", source |-> File("f1")],
   ToolResult(<<Text("b")>>), ToolResult(<<Image(Inline("pix")), Text("b")>>),
   ToolResult(<<Image(File("f1")), Image(Inline("pix"))>>), ToolResult(<<Text("a"), Image(Inline("pix2")), Text("c")>>)}

\* Turns alternate: a user turn, an assistant turn that calls a tool, and a last
\* user turn of two blocks; conversations end with a user turn.
Conversations ==
  {<<User(<<a, Text("d")>>), Assistant(<<Text("e"), ToolUse>>), User(<<b, c>>)>> :
     a, b \in SomeUserBlocks, c \in {Text("d"), ToolResult(<<Image(Inline("pix3")), Text("d")>>)}}
  \cup {<<User(<<a>>)>> : a \in SomeUserBlocks}
  \cup {<<User(<<a>>), Assistant(<<ToolUse>>), User(<<b>>), Assistant(<<Text("e")>>)>> :
          a, b \in SomeUserBlocks}
  \cup {<<>>}

VisionBodies ==
  {Body(SpoofOpus, Enabled(Number(4000)), "high", TRUE, m) : m \in Conversations}
  \cup {[Body(SpoofOpus, NoThinking, "absent", TRUE, <<User(<<Image(Inline("pix"))>>)>>)
          EXCEPT !.json = FALSE]}

VisionConfigs ==
  {Config("pro", NoTierModels, vision, Const("max"), NoTierEfforts) :
     vision \in {"chat", NoModel}}

MCStores == {[i \in MCFileIds |-> IF i = "f1" THEN "data1" ELSE NoData]}

-------------------------------------------------------------------------------
(* Effort family *)

EffortBodies ==
  {Body(m, th, e, FALSE, <<User(<<Text("a")>>)>>) :
     m  \in MCClaudeIds \cup {"pro", "flash", NoModel},
     th \in {NoThinking, [type |-> "scalar", budget |-> NoBudget],
             [type |-> "other", budget |-> Number(31000)], Enabled(NoBudget),
             Enabled(Number(30999)), Enabled(Number(31000)),
             Enabled([kind |-> "text", n |-> 0]), Enabled([kind |-> "huge", n |-> 0])},
     e  \in {"absent", "low"}}

SomeSpecs ==
  {Unset, Off, Auto, Const("max"), Const("none"), AutoTo("high"), AutoTo("bad"),
   Matrix(<<Clause("none", "high"), Clause("max", "off")>>),
   Matrix(<<Clause("high", "max"), Clause("high", "off")>>),
   Matrix(<<Clause("max", "none"), Clause("bad", "off")>>)}

EffortConfigs ==
  {Config("pro", [small_fast |-> f, haiku |-> h, sonnet |-> NoModel, opus |-> o], NoModel, e,
          [small_fast |-> sf, haiku |-> hf, sonnet |-> Unset, opus |-> oe]) :
     f \in {"flash", SpoofHaiku}, h \in {NoModel, "flash"}, o \in {NoModel, "flash"},
     e \in SomeSpecs, sf \in {Unset, Const("high")}, hf \in {Unset, Off},
     oe \in {Unset, Const("max")}}
-------------------------------------------------------------------------------
MCInputs ==
  [cfg : VisionConfigs, store : MCStores, orig : VisionBodies]
    \cup [cfg : EffortConfigs, store : MCStores, orig : EffortBodies]
===============================================================================

-------------------------------- MODULE MCProxy --------------------------------
(***************************************************************************)
(* Instances of Proxy: a configuration with an active effort spec and a    *)
(* vision model, bodies that refer to uploaded files.                      *)
(***************************************************************************)
EXTENDS Proxy

MCClaudeIds == Spoofs

Unset == [kind |-> "unset", level |-> "bad", clauses |-> <<>>]

MCCfg == [model |-> "pro", tierModel |-> [t \in Tiers |-> NoModel], vision |-> "chat",
          effort |-> [Unset EXCEPT !.kind = "const", !.level = "max"],
          tierEffort |-> [t \in Tiers |-> Unset], otlp |-> FALSE]

Text(t)   == [type |-> "text", text |-> t]
Image(id) == [type |-> "image", source |-> [type |-> "file", id |-> id]]
Messages(blocks) ==
  [json |-> TRUE, model |-> SpoofOpus, thinking |-> NoThinking, reasoning_effort |-> "absent",
   tools |-> TRUE, tool_choice |-> FALSE,
   messages |-> <<[role |-> "user", content |-> blocks]>>]

\* One body with no file, one with two references for every choice of ids,
\* and, for every id, one with a nested reference.
MCBodies ==
  {Messages(<<Text("a")>>)}
  \cup {Messages(<<Image(i), Text("a"), Image(j)>>) : i, j \in FileIds}
  \cup {Messages(<<[type |-> "tool_result", content |-> <<Image(i)>>]>>) : i \in FileIds}

OneBody == {Messages(<<Text("a")>>)}

Symmetry == Permutations(Requests) \cup Permutations(FileIds) \cup Permutations(Data)

Requesters == Permutations(Requests)

\* Bound of the file runs: what a lookup and a rewrite do is decided before the
\* request is dispatched, and a passthrough request touches no file.
UntilDispatch ==
  \A r \in Requests : up[r].state = "none" /\ conn[r].endpoint # "passthrough"
===============================================================================

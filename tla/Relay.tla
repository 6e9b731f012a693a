--------------------------------- MODULE Relay ---------------------------------
(***************************************************************************)
(* What forwardUpstream (proxy.go) promises of each response it relays:    *)
(* the client has a prefix of what the upstream service sent, chunk by     *)
(* chunk, and a relay is complete only when the response ended well and    *)
(* the client has all of it or has left.                                   *)
(***************************************************************************)
EXTENDS Naturals

CONSTANT Streams

VARIABLES
  sent,      \* per stream: chunks the upstream service sent
  complete,  \* whether it has ended the response well
  has,       \* chunks the client has
  present,   \* whether the client is still there
  ended      \* how the relay ended: "no" (not yet) "complete" "cut"

vars == <<sent, complete, has, present, ended>>

Init ==
  /\ sent = [s \in Streams |-> 0] /\ complete = [s \in Streams |-> FALSE]
  /\ has = [s \in Streams |-> 0] /\ present = [s \in Streams |-> TRUE]
  /\ ended = [s \in Streams |-> "no"]

Send(s) ==
  /\ ~ complete[s]
  /\ sent' = [sent EXCEPT ![s] = @ + 1]
  /\ UNCHANGED <<complete, has, present, ended>>

Complete(s) ==
  /\ ~ complete[s]
  /\ complete' = [complete EXCEPT ![s] = TRUE]
  /\ UNCHANGED <<sent, has, present, ended>>

Leave(s) ==
  /\ present[s]
  /\ present' = [present EXCEPT ![s] = FALSE]
  /\ UNCHANGED <<sent, complete, has, ended>>

\* The client gets the next chunk and, with the last one, perhaps its end.
Deliver(s) ==
  /\ present[s] /\ ended[s] = "no" /\ has[s] < sent[s]
  /\ has' = [has EXCEPT ![s] = @ + 1]
  /\ ended' \in {ended, [ended EXCEPT ![s] = "complete"]}
  /\ ended'[s] = "complete" => complete[s] /\ has'[s] = sent[s]
  /\ UNCHANGED <<sent, complete, present>>

Finish(s) ==
  /\ ended[s] = "no"
  /\ complete[s] /\ (has[s] = sent[s] \/ ~ present[s])
  /\ ended' = [ended EXCEPT ![s] = "complete"]
  /\ UNCHANGED <<sent, complete, has, present>>

Cut(s) ==
  /\ ended[s] = "no"
  /\ ended' = [ended EXCEPT ![s] = "cut"]
  /\ UNCHANGED <<sent, complete, has, present>>

Next == \E s \in Streams :
  Send(s) \/ Complete(s) \/ Leave(s) \/ Deliver(s) \/ Finish(s) \/ Cut(s)

Spec == Init /\ [][Next]_vars
===============================================================================

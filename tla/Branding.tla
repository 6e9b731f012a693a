-------------------------------- MODULE Branding --------------------------------
(***************************************************************************)
(* branding.go: the decoration of a tmux window by the launches that run   *)
(* in its panes.  Every tmux command is a process of its own, so those of  *)
(* several launches, of the user and of tmux interleave.                   *)
(*                                                                         *)
(* The window: its name (a text after so many whales), its option          *)
(* automatic-rename and which of the border options have our value.  The   *)
(* number of panes at the start, which is only logged, is left out.        *)
(***************************************************************************)
EXTENDS Naturals, SequencesExt

CONSTANTS
  Sessions,  \* launches, each in a pane of the window
  Texts,     \* names of windows, without whales
  Borders,   \* the border options, in the order in which they are set and unset
  MaxPanes,  \* bound: panes in the window
  MaxFaults  \* bound: commands that fail, launches that are killed, other renames

BrandName == "claude-ds"   \* what a window with no name of its own is called

ASSUME BrandingAssumption ==
  /\ {BrandName, ""} \subseteq Texts
  /\ Borders \in Seq(STRING)
  /\ {"rename", "name"} \cap ToSet(Borders) = {}
  /\ MaxPanes \in Nat \ {0} /\ MaxFaults \in Nat

VARIABLES
  global,   \* automatic-rename of windows that do not set it
  win,      \* the window
  panes,    \* how many panes it has
  sess,     \* the launches and their BrandingState
  stack,    \* history: launches between ApplyBranding and Restore, oldest first
  before,   \* history: the window as the first of stack found it
  faults,   \* how often something has failed
  orderly   \* history: since then launches came and went one inside the other, no
            \* command failed, and nobody else has renamed the window

vars    == <<global, win, panes, sess, stack, before, faults, orderly>>
history == <<stack, before, faults, orderly>>

WindowNames == [whales : 0 .. 2, text : Texts]
NoName      == [whales |-> 0, text |-> ""]
Windows     == [name : WindowNames, rename : {"unset", "on", "off"},
                border : SUBSET ToSet(Borders)]

PCs == {"idle", "name", "option", "apply", "running", "count", "restore",
        "exit", "done"}

Init ==
  /\ global \in BOOLEAN
  /\ win \in {w \in Windows : w.name.whales < 2 /\ w.border = {}}
  /\ panes \in 1 .. MaxPanes
  /\ sess = [s \in Sessions |->
               [pc |-> "idle", step |-> 1, name |-> NoName, rename |-> "unset", count |-> 1]]
  /\ stack = <<>> /\ before = win /\ faults = 0 /\ orderly = TRUE

At(s, pc) == sess[s].pc = pc
Becomes(s, r) == sess' = [sess EXCEPT ![s] = r]

\* Every other launch that has decorated the window is beside its claude.
OthersRun(s) == \A t \in ToSet(stack) \ {s} : At(t, "running")

-------------------------------------------------------------------------------
(* ApplyBranding *)

\* The gate is open and the window is found, or nothing is ever done to it.  A launch
\* has a pane of its own.
ApplyBranding(s) ==
  /\ At(s, "idle")
  /\ \/ /\ Len(stack) < panes
        /\ Becomes(s, [sess[s] EXCEPT !.pc = "name"])
        /\ stack' = Append(stack, s)
        /\ before' = IF stack = <<>> THEN win ELSE before
        /\ orderly' = (stack = <<>> \/ (orderly /\ OthersRun(s)))
        /\ UNCHANGED faults
     \/ Becomes(s, [sess[s] EXCEPT !.pc = "done"]) /\ UNCHANGED history
  /\ UNCHANGED <<global, win, panes>>

Fault == faults < MaxFaults /\ faults' = faults + 1 /\ orderly' = FALSE

\* A command that fails is logged and passed over.
Failed == Fault /\ UNCHANGED <<stack, before>>

\* An empty name and one that cannot be read look the same.
CaptureName(s) ==
  /\ At(s, "name")
  /\ \/ Becomes(s, [sess[s] EXCEPT !.pc = "option", !.name = win.name]) /\ UNCHANGED history
     \/ Becomes(s, [sess[s] EXCEPT !.pc = "option"]) /\ Failed
  /\ UNCHANGED <<global, win, panes>>

\* An option that is not set and one that cannot be read look the same.
CaptureOption(s) ==
  /\ At(s, "option")
  /\ \/ Becomes(s, [sess[s] EXCEPT !.pc = "apply", !.rename = win.rename]) /\ UNCHANGED history
     \/ Becomes(s, [sess[s] EXCEPT !.pc = "apply"]) /\ Failed
  /\ UNCHANGED <<global, win, panes>>

\* tmux rename-window also turns automatic-rename off.
Renamed(w, name) == [w EXCEPT !.name = name, !.rename = "off"]

\* Mutant of Whaled: whales that are there stay.
WhaledAgain(name) ==
  [whales |-> IF name.whales = 2 THEN 2 ELSE name.whales + 1,
   text   |-> IF name.text = "" THEN BrandName ELSE name.text]

\* Mutant of Whaled: a name with a whale is cleaned, and gets none.
WhaledOnce(name) ==
  [whales |-> IF name.whales = 0 THEN 1 ELSE 0,
   text   |-> IF name.text = "" THEN BrandName ELSE name.text]

\* A whale before the name, of which up to two whales are taken off first.
Whaled(name) ==
  [whales |-> 1,
   text   |-> IF name.text = "" THEN BrandName ELSE name.text]

ApplyOrder == <<"rename", "name">> \o Borders

Branded(w, what, r) ==
  CASE what = "rename" -> [w EXCEPT !.rename = "off"]
    [] what = "name"   -> Renamed(w, Whaled(r.name))
    [] OTHER           -> [w EXCEPT !.border = @ \cup {what}]

\* The next of a sequence of commands, which succeeds or fails; pc follows the last.
Command(s, order, effect, pc) ==
  /\ \/ win' = effect /\ UNCHANGED history
     \/ UNCHANGED win /\ Failed
  /\ Becomes(s, IF sess[s].step = Len(order) THEN [sess[s] EXCEPT !.pc = pc, !.step = 1]
                ELSE [sess[s] EXCEPT !.step = @ + 1])
  /\ UNCHANGED <<global, panes>>

Apply(s) ==
  /\ At(s, "apply")
  /\ Command(s, ApplyOrder, Branded(win, ApplyOrder[sess[s].step], sess[s]), "running")

-------------------------------------------------------------------------------
(* Restore *)

\* claude has exited, or was never started: the deferred call runs.  A launch that
\* is not the last to have come is out of order.
Restore(s) ==
  /\ At(s, "running")
  /\ Becomes(s, [sess[s] EXCEPT !.pc = "count"])
  /\ orderly' = (orderly /\ s = Last(stack) /\ OthersRun(s))
  /\ UNCHANGED <<global, win, panes, stack, before, faults>>

\* One pane, if they cannot be counted.
CountPanes(s) ==
  /\ At(s, "count")
  /\ \/ Becomes(s, [sess[s] EXCEPT !.pc = "restore", !.count = panes]) /\ UNCHANGED history
     \/ Becomes(s, [sess[s] EXCEPT !.pc = "restore", !.count = 1]) /\ Failed
  /\ UNCHANGED <<global, win, panes>>

\* Mutant of RestoreOrder: automatic-rename first, which the new name turns off again.
RestoreOrderOptionFirst(count) ==
  <<"rename", "name">> \o (IF count > 1 THEN Borders ELSE <<>>)

\* The border is left alone in a window of one pane, which is about to die.
RestoreOrder(count) == <<"name", "rename">> \o (IF count > 1 THEN Borders ELSE <<>>)

Unbranded(w, what, r) ==
  CASE what = "name" /\ r.name # NoName -> Renamed(w, r.name)
    [] what = "name" /\ r.name = NoName -> w
    [] what = "rename"                  -> [w EXCEPT !.rename = r.rename]
    [] OTHER                            -> [w EXCEPT !.border = @ \ {what}]

Undo(s) ==
  /\ At(s, "restore")
  /\ LET order == RestoreOrder(sess[s].count)
     IN  Command(s, order, Unbranded(win, order[sess[s].step], sess[s]), "exit")

-------------------------------------------------------------------------------
(* The end of a launch, the user, and tmux *)

Leaves(s) ==
  /\ \E i \in DOMAIN stack : stack[i] = s /\ stack' = RemoveAt(stack, i)
  /\ UNCHANGED before

\* Under a shell the pane stays.
Exit(s) ==
  /\ At(s, "exit")
  /\ Becomes(s, [sess[s] EXCEPT !.pc = "done"])
  /\ Leaves(s)
  /\ panes' \in {panes, IF panes > 1 THEN panes - 1 ELSE panes}
  /\ UNCHANGED <<global, win, faults, orderly>>

\* A launch that is killed restores nothing.
Kill(s) ==
  /\ sess[s].pc \notin {"idle", "done"}
  /\ Becomes(s, [sess[s] EXCEPT !.pc = "done"])
  /\ Leaves(s) /\ Fault
  /\ UNCHANGED <<global, win, panes>>

\* Panes without a launch come and go.
ChangePanes ==
  /\ panes' \in {panes - 1, panes + 1} \cap (1 .. MaxPanes)
  /\ panes' >= Len(stack)
  /\ UNCHANGED <<global, win, sess, history>>

UserRenames ==
  /\ \E name \in WindowNames : name.whales < 2 /\ win' = Renamed(win, name)
  /\ Failed
  /\ UNCHANGED <<global, panes, sess>>

AutoNamed(w) == w.rename = "on" \/ (w.rename = "unset" /\ global)

TmuxRenames ==
  /\ AutoNamed(win)
  /\ \E text \in Texts : win' = [win EXCEPT !.name = [whales |-> 0, text |-> text]]
  /\ UNCHANGED <<global, panes, sess, history>>

Next ==
  \/ ChangePanes \/ UserRenames \/ TmuxRenames
  \/ \E s \in Sessions :
       \/ ApplyBranding(s) \/ CaptureName(s) \/ CaptureOption(s) \/ Apply(s)
       \/ Restore(s) \/ CountPanes(s) \/ Undo(s) \/ Exit(s) \/ Kill(s)

Spec == Init /\ [][Next]_vars

-------------------------------------------------------------------------------

\* However launches, failures and the user mix: a window that had no more than one
\* whale never gets a second one.
OneWhale == win.name.whales < 2

\* Launches that come and go one inside the other: as long as one of them is beside
\* its claude, the window has the whale before the name it had before the first, and
\* tmux does not rename it.
MarkedWhileRunning ==
  orderly =>
    \A s \in ToSet(stack) : At(s, "running") =>
      LET found == sess[stack[1]].name.text
      IN  /\ win.name = [whales |-> 1, text |-> IF found = "" THEN BrandName ELSE found]
          /\ win.rename = "off"

\* And the last of them leaves the window as the first has found it: the option, the
\* name if it had one and tmux does not choose it, and no border of ours if there is
\* another pane.
RestoredInOrder ==
  \A s \in Sessions : orderly /\ stack = <<s>> /\ At(s, "exit") =>
    /\ win.rename = before.rename
    /\ AutoNamed(before) \/ before.name = NoName \/ win.name = before.name
    /\ sess[s].count > 1 => win.border = {}

-------------------------------------------------------------------------------
(* What the repository's text says of the decoration and its code does not do. *)

\* docs/claude-ds.md: the whale is restored on clean exit.  With two launches in one
\* window, the first to have come may also be the first to go.
WhaleGoes ==
  faults = 0 /\ before.name.whales = 0 /\ stack = <<>> => win.name.whales = 0

\* branding.go: in a window of one pane the border goes with the pane.
BadgeGoes == orderly /\ stack = <<>> => win.border = {}

\* README: the pane of a launch gets the border.  A sibling that ends takes it away.
BadgeWhileRunning ==
  orderly => \A s \in ToSet(stack) : At(s, "running") => win.border = ToSet(Borders)
===============================================================================

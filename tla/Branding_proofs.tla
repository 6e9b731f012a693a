---------------------------- MODULE Branding_proofs ----------------------------
(***************************************************************************)
(* Theorems about Branding, for any number of launches, panes, names and   *)
(* failures: a window never gets a second whale; launches that come and go *)
(* one inside the other mark the window as long as one of them runs, and   *)
(* leave it as they found it.                                              *)
(***************************************************************************)
EXTENDS Branding, TLAPS

OneWhaleNames == [whales : {0, 1}, text : Texts]
Renames       == {"unset", "on", "off"}

\* A launch as far as it matters here: not where in a sequence of commands it is.
Launches == [pc : PCs, step : Nat, name : OneWhaleNames, rename : Renames,
             count : 1 .. MaxPanes]

\* The window has one whale at most and so have the names the launches captured, which
\* are what Restore writes back.  Which border options are set does not matter.
WinInv  == win \in [name : OneWhaleNames, rename : Renames, border : {win.border}]
SessInv == sess \in [Sessions -> Launches]
WhaleInv == WinInv /\ SessInv /\ panes \in 1 .. MaxPanes

\* The name a launch gives the window has one whale, and that of a window without a
\* name is empty.
LEMMA NamesOfOurs ==
  /\ \A name \in WindowNames : Whaled(name) \in OneWhaleNames
  /\ NoName \in OneWhaleNames
  /\ OneWhaleNames \subseteq WindowNames
<1>1. BrandName \in Texts /\ "" \in Texts
  BY BrandingAssumption
<1>2. ASSUME NEW name \in WindowNames PROVE Whaled(name) \in OneWhaleNames
  <2>1. (IF name.text = "" THEN BrandName ELSE name.text) \in Texts
    BY <1>1 DEF WindowNames
  <2> QED
    BY <2>1 DEF Whaled, OneWhaleNames, WindowNames
<1>3. NoName \in OneWhaleNames
  BY <1>1 DEF NoName, OneWhaleNames, WindowNames
<1>4. OneWhaleNames \subseteq WindowNames
  BY DEF OneWhaleNames, WindowNames
<1> QED
  BY <1>2, <1>3, <1>4

LEMMA OnePane == 1 \in 1 .. MaxPanes
<1>1. MaxPanes \in Nat \ {0}
  BY Zenon, BrandingAssumption
<1> QED
  BY <1>1

LEMMA InitWhaleInv == Init => WhaleInv
<1> SUFFICES ASSUME Init PROVE WhaleInv
  OBVIOUS
<1>1. WinInv
  BY DEF Init, Windows, WindowNames, WinInv, OneWhaleNames, Renames
<1>2. SessInv
  <2>1. 1 \in 1 .. MaxPanes
    BY OnePane
  <2>2. [pc |-> "idle", step |-> 1, name |-> NoName, rename |-> "unset", count |-> 1]
          \in Launches
    BY <2>1, NamesOfOurs DEF Launches, PCs, Renames
  <2> QED
    BY <2>2 DEF Init, SessInv
<1> QED
  BY <1>1, <1>2 DEF Init, WhaleInv

\* A rename keeps the shape of the window.
LEMMA RenamedKeeps ==
  ASSUME WinInv, NEW name \in OneWhaleNames
  PROVE  Renamed(win, name) \in [name : OneWhaleNames, rename : Renames, border : {win.border}]
BY DEF Renamed, WinInv, Renames

\* A launch that moves on keeps what it has captured, or captures from the window.
LEMMA MoveKeeps ==
  ASSUME SessInv, NEW s \in Sessions,
         NEW r \in Launches,
         Becomes(s, r)
  PROVE  SessInv'
BY DEF SessInv, Becomes

\* One command of a sequence: its effect, if it has one, is on the window, and the
\* launch that runs it only moves on.
LEMMA CommandKeeps ==
  ASSUME WhaleInv, NEW s \in Sessions, NEW order, NEW effect, NEW pc \in PCs,
         Command(s, order, effect, pc),
         effect \in [name : OneWhaleNames, rename : Renames, border : {effect.border}]
  PROVE  WhaleInv'
<1>1. WinInv'
  BY DEF Command, WhaleInv, WinInv
<1>2. SessInv'
  <2>1. [sess[s] EXCEPT !.pc = pc, !.step = 1] \in Launches
    BY DEF WhaleInv, SessInv, Launches
  <2>2. [sess[s] EXCEPT !.step = @ + 1] \in Launches
    BY DEF WhaleInv, SessInv, Launches
  <2>3. \/ Becomes(s, [sess[s] EXCEPT !.pc = pc, !.step = 1])
        \/ Becomes(s, [sess[s] EXCEPT !.step = @ + 1])
    BY DEF Command
  <2> QED
    BY <2>1, <2>2, <2>3, MoveKeeps DEF WhaleInv
<1> QED
  BY <1>1, <1>2 DEF Command, WhaleInv

LEMMA ApplyStep == ASSUME WhaleInv, NEW s \in Sessions, Apply(s) PROVE WhaleInv'
<1> DEFINE what   == ApplyOrder[sess[s].step]
           effect == Branded(win, what, sess[s])
<1>1. effect \in [name : OneWhaleNames, rename : Renames, border : {effect.border}]
  <2>1. Whaled(sess[s].name) \in OneWhaleNames
    BY NamesOfOurs DEF WhaleInv, SessInv, Launches
  <2>2. CASE what = "rename"
    BY <2>2 DEF Branded, WhaleInv, WinInv, Renames
  <2>3. CASE what = "name"
    <3>1. effect = Renamed(win, Whaled(sess[s].name))
      BY <2>3 DEF Branded
    <3> QED
      BY <2>1, <3>1, RenamedKeeps DEF WhaleInv, Renamed, WinInv
  <2>4. CASE what \notin {"rename", "name"}
    <3>1. effect = [win EXCEPT !.border = @ \cup {what}]
      BY <2>4 DEF Branded
    <3> QED
      BY <3>1 DEF WhaleInv, WinInv
  <2> QED
    BY <2>2, <2>3, <2>4
<1>2. Command(s, ApplyOrder, effect, "running")
  BY DEF Apply
<1> QED
  BY <1>1, <1>2, CommandKeeps DEF PCs

LEMMA UndoStep == ASSUME WhaleInv, NEW s \in Sessions, Undo(s) PROVE WhaleInv'
<1> DEFINE order  == RestoreOrder(sess[s].count)
           what   == order[sess[s].step]
           effect == Unbranded(win, what, sess[s])
<1>1. effect \in [name : OneWhaleNames, rename : Renames, border : {effect.border}]
  <2>1. sess[s].name \in OneWhaleNames /\ sess[s].rename \in Renames
    BY DEF WhaleInv, SessInv, Launches
  <2>2. CASE what = "name" /\ sess[s].name # NoName
    <3>1. effect = Renamed(win, sess[s].name)
      BY <2>2 DEF Unbranded
    <3> QED
      BY <2>1, <3>1, RenamedKeeps DEF WhaleInv, Renamed, WinInv
  <2>3. CASE what = "name" /\ sess[s].name = NoName
    <3>1. effect = win
      BY <2>3 DEF Unbranded
    <3> QED
      BY <3>1 DEF WhaleInv, WinInv
  <2>4. CASE what = "rename"
    <3>1. effect = [win EXCEPT !.rename = sess[s].rename]
      BY <2>4 DEF Unbranded
    <3> QED
      BY <2>1, <3>1 DEF WhaleInv, WinInv
  <2>5. CASE what \notin {"rename", "name"}
    <3>1. effect = [win EXCEPT !.border = @ \ {what}]
      BY <2>5 DEF Unbranded
    <3> QED
      BY <3>1 DEF WhaleInv, WinInv
  <2> QED
    BY <2>2, <2>3, <2>4, <2>5
<1>2. Command(s, order, effect, "exit")
  BY DEF Undo
<1> QED
  BY <1>1, <1>2, CommandKeeps DEF PCs

\* Steps of a launch that send no command: what is captured comes from the window.
LEMMA LaunchStep ==
  ASSUME WhaleInv, NEW s \in Sessions,
         \/ ApplyBranding(s) \/ CaptureName(s) \/ CaptureOption(s)
         \/ Restore(s) \/ CountPanes(s) \/ Exit(s) \/ Kill(s)
  PROVE  WhaleInv'
<1>1. sess[s] \in Launches /\ win.name \in OneWhaleNames /\ win.rename \in Renames
  BY DEF WhaleInv, SessInv, WinInv, Launches
<1>2. /\ \A pc \in PCs : [sess[s] EXCEPT !.pc = pc] \in Launches
      /\ [sess[s] EXCEPT !.pc = "option", !.name = win.name] \in Launches
      /\ [sess[s] EXCEPT !.pc = "apply", !.rename = win.rename] \in Launches
      /\ \A n \in 1 .. MaxPanes : [sess[s] EXCEPT !.pc = "restore", !.count = n] \in Launches
  BY <1>1 DEF PCs, Launches
<1>3. panes \in 1 .. MaxPanes /\ 1 \in 1 .. MaxPanes
  BY OnePane DEF WhaleInv
<1>4. CASE ApplyBranding(s)
  <2>1. \E r \in Launches : Becomes(s, r)
    BY <1>2, <1>4 DEF ApplyBranding, PCs
  <2> QED
    BY <1>4, <2>1, MoveKeeps DEF ApplyBranding, WhaleInv, WinInv
<1>5. CASE CaptureName(s)
  <2>1. \E r \in Launches : Becomes(s, r)
    BY <1>2, <1>5 DEF CaptureName, PCs
  <2> QED
    BY <1>5, <2>1, MoveKeeps DEF CaptureName, WhaleInv, WinInv
<1>6. CASE CaptureOption(s)
  <2>1. \E r \in Launches : Becomes(s, r)
    BY <1>2, <1>6 DEF CaptureOption, PCs
  <2> QED
    BY <1>6, <2>1, MoveKeeps DEF CaptureOption, WhaleInv, WinInv
<1>7. CASE Restore(s)
  <2>1. \E r \in Launches : Becomes(s, r)
    BY <1>2, <1>7 DEF Restore, PCs
  <2> QED
    BY <1>7, <2>1, MoveKeeps DEF Restore, WhaleInv, WinInv
<1>8. CASE CountPanes(s)
  <2>1. \E r \in Launches : Becomes(s, r)
    BY <1>2, <1>3, <1>8 DEF CountPanes
  <2> QED
    BY <1>8, <2>1, MoveKeeps DEF CountPanes, WhaleInv, WinInv
<1>9. CASE Exit(s)
  <2>1. \E r \in Launches : Becomes(s, r)
    BY <1>2, <1>9 DEF Exit, PCs
  <2>2. panes' = panes \/ (panes > 1 /\ panes' = panes - 1)
    BY <1>9 DEF Exit
  <2>3. panes' \in 1 .. MaxPanes
    <3>1. MaxPanes \in Nat
      BY Zenon, BrandingAssumption
    <3> QED
      BY <1>3, <2>2, <3>1
  <2> QED
    BY <1>9, <2>1, <2>3, MoveKeeps DEF Exit, WhaleInv, WinInv
<1>10. CASE Kill(s)
  <2>1. \E r \in Launches : Becomes(s, r)
    BY <1>2, <1>10 DEF Kill, PCs
  <2> QED
    BY <1>10, <2>1, MoveKeeps DEF Kill, WhaleInv, WinInv
<1> QED
  BY <1>4, <1>5, <1>6, <1>7, <1>8, <1>9, <1>10

LEMMA NextWhaleInv == WhaleInv /\ [Next]_vars => WhaleInv'
<1> SUFFICES ASSUME WhaleInv, [Next]_vars PROVE WhaleInv'
  OBVIOUS
<1>1. CASE ChangePanes
  BY <1>1 DEF ChangePanes, WhaleInv, WinInv, SessInv
<1>2. CASE UserRenames
  <2>1. PICK name \in OneWhaleNames : win' = Renamed(win, name)
    BY <1>2 DEF UserRenames, OneWhaleNames, WindowNames
  <2> QED
    BY <1>2, <2>1, RenamedKeeps DEF UserRenames, Renamed, WhaleInv, WinInv, SessInv
<1>3. CASE TmuxRenames
  <2>1. PICK name \in OneWhaleNames : win' = [win EXCEPT !.name = name]
    BY <1>3 DEF TmuxRenames, OneWhaleNames
  <2> QED
    BY <1>3, <2>1 DEF TmuxRenames, WhaleInv, WinInv, SessInv
<1>4. CASE UNCHANGED vars
  BY <1>4 DEF vars, WhaleInv, WinInv, SessInv
<1> QED
  BY <1>1, <1>2, <1>3, <1>4, ApplyStep, UndoStep, LaunchStep DEF Next

\* However launches, failures, kills and renames interleave: a window that had no more
\* than one whale never gets a second one, neither from ApplyBranding on a name that
\* has one nor from Restore.
THEOREM NeverTwoWhales == Spec => []OneWhale
<1>1. WhaleInv => OneWhale
  BY DEF WhaleInv, WinInv, OneWhaleNames, OneWhale
<1> QED
  BY <1>1, InitWhaleInv, NextWhaleInv, PTL DEF Spec

-------------------------------------------------------------------------------
(* Launches that come and go one inside the other *)

\* A launch is on the stack, once, from ApplyBranding to the end of Restore.
OnStack(s) == \E i \in 1 .. Len(stack) : stack[i] = s

StackInv ==
  /\ stack \in Seq(Sessions)
  /\ \A i, j \in 1 .. Len(stack) : stack[i] = stack[j] => i = j
  /\ \A s \in Sessions : OnStack(s) <=> sess[s].pc \notin {"idle", "done"}

\* Where a launch is in its sequence of commands.
StepOK(r) ==
  /\ r.pc = "apply"   => r.step \in 1 .. Len(ApplyOrder)
  /\ r.pc = "restore" => r.step \in 1 .. Len(RestoreOrder(r.count))
  /\ r.pc \notin {"apply", "restore", "done"} => r.step = 1

\* What the first launch r on the stack has captured is what the window b before it
\* was, except for a name that tmux chooses.
FirstKnows(b, r) ==
  /\ r.pc # "name" => AutoNamed(b) \/ r.name = b.name
  /\ r.pc \notin {"name", "option"} => r.rename = b.rename

\* What a later one has captured is what the first has made of the window.
LaterKnows(r, mark) ==
  /\ r.pc # "name" => r.name = mark
  /\ r.pc \notin {"name", "option"} => r.rename = "off"

\* The window w has the option of b and, unless tmux names it, the name.
AsBefore(w, b, name) ==
  /\ w.rename = b.rename
  /\ AutoNamed(b) \/ w.name = name

\* How far the first launch on the stack has decorated the window, or undone it.
WindowOf(w, b, r) ==
  /\ r.pc \in {"name", "option"} \/ (r.pc = "apply" /\ r.step = 1) => AsBefore(w, b, b.name)
  /\ r.pc = "apply" /\ r.step > 1 => w.rename = "off"
  /\ r.pc = "apply" /\ r.step > 2 => w.name = Whaled(r.name)
  /\ r.pc \in {"running", "count"} \/ (r.pc = "restore" /\ r.step = 1) =>
       w.name = Whaled(r.name) /\ w.rename = "off"
  /\ r.pc = "restore" /\ r.step = 2 =>
       w.rename = "off" /\ (r.name = NoName \/ w.name = r.name)
  /\ r.pc = "exit" \/ (r.pc = "restore" /\ r.step > 2) =>
       w.rename = b.rename /\ (r.name = NoName \/ AsBefore(w, b, r.name))
  /\ r.pc = "restore" => \A j \in 1 .. Len(Borders) : j < r.step - 2 => Borders[j] \notin w.border
  /\ r.pc = "exit" /\ r.count > 1 => w.border = {}

Nested ==
  /\ \A i \in 1 .. Len(stack) - 1 : sess[stack[i]].pc = "running"
  /\ \A i \in 2 .. Len(stack) : LaterKnows(sess[stack[i]], Whaled(sess[stack[1]].name))
  /\ FirstKnows(before, sess[stack[1]]) /\ WindowOf(win, before, sess[stack[1]])

\* Of the launches on the stack all but the last are beside their claude.
NestInv ==
  /\ WhaleInv /\ StackInv
  /\ win.border \subseteq ToSet(Borders)
  /\ \A s \in Sessions : StepOK(sess[s])
  /\ orderly /\ stack # <<>> => Nested

WindowType == [name : OneWhaleNames, rename : Renames, border : SUBSET ToSet(Borders)]

\* The sequences of commands.
LEMMA ApplyOrderIs ==
  /\ Len(ApplyOrder) = 2 + Len(Borders) /\ Len(Borders) \in Nat
  /\ ApplyOrder[1] = "rename" /\ ApplyOrder[2] = "name"
  /\ \A i \in 3 .. Len(ApplyOrder) :
       /\ i - 2 \in 1 .. Len(Borders) /\ ApplyOrder[i] = Borders[i - 2]
       /\ ApplyOrder[i] \in ToSet(Borders) /\ ApplyOrder[i] \notin {"rename", "name"}
<1>1. Borders \in Seq(STRING) /\ {"rename", "name"} \cap ToSet(Borders) = {}
  BY Zenon, BrandingAssumption
<1>2. \A i \in 1 .. Len(Borders) : Borders[i] \in ToSet(Borders)
  BY <1>1 DEF ToSet
<1>3. /\ Len(ApplyOrder) = 2 + Len(Borders) /\ Len(Borders) \in Nat
      /\ ApplyOrder[1] = "rename" /\ ApplyOrder[2] = "name"
      /\ \A i \in 3 .. Len(ApplyOrder) : ApplyOrder[i] = Borders[i - 2]
  BY <1>1 DEF ApplyOrder
<1> QED  BY <1>1, <1>2, <1>3

LEMMA RestoreOrderIs ==
  ASSUME NEW count \in Nat, NEW order, order = RestoreOrder(count)
  PROVE  /\ Len(Borders) \in Nat
         /\ count > 1 => Len(order) = 2 + Len(Borders)
         /\ ~ count > 1 => Len(order) = 2
         /\ order[1] = "name" /\ order[2] = "rename"
         /\ \A i \in 3 .. Len(order) :
              /\ i - 2 \in 1 .. Len(Borders) /\ order[i] = Borders[i - 2]
              /\ order[i] \in ToSet(Borders) /\ order[i] \notin {"rename", "name"}
<1>1. Borders \in Seq(STRING) /\ {"rename", "name"} \cap ToSet(Borders) = {}
  BY Zenon, BrandingAssumption
<1>2. \A i \in 1 .. Len(Borders) : Borders[i] \in ToSet(Borders)
  BY <1>1 DEF ToSet
<1>3. CASE count > 1
  <2>1. order = <<"name", "rename">> \o Borders
    BY <1>3 DEF RestoreOrder
  <2> QED  BY <1>1, <1>2, <1>3, <2>1
<1>4. CASE ~ count > 1
  <2>1. order = <<"name", "rename">>
    BY <1>4 DEF RestoreOrder
  <2> QED  BY <1>1, <1>4, <2>1
<1> QED  BY <1>3, <1>4

\* A window that is marked is marked again as it is.
LEMMA WhaledIs ==
  ASSUME NEW name \in WindowNames
  PROVE  /\ Whaled(name) \in WindowNames /\ Whaled(name) # NoName
         /\ Whaled(Whaled(name)) = Whaled(name)
<1>1. Whaled(name) \in WindowNames
  BY NamesOfOurs
<1>2. Whaled(name).whales = 1 /\ Whaled(name).text # ""
  BY DEF Whaled, BrandName
<1> QED  BY <1>1, <1>2 DEF Whaled, NoName, WindowNames

\* A command of ApplyBranding, run by the first launch on the stack.
LEMMA ApplyFirst ==
  ASSUME NEW w \in WindowType, NEW b, NEW r \in Launches, NEW q \in Launches,
         r.pc = "apply", r.step \in 1 .. Len(ApplyOrder), q.name = r.name,
         \/ r.step = Len(ApplyOrder) /\ q.pc = "running"
         \/ r.step # Len(ApplyOrder) /\ q.pc = "apply" /\ q.step = r.step + 1,
         WindowOf(w, b, r), NEW u, u = Branded(w, ApplyOrder[r.step], r)
  PROVE  WindowOf(u, b, q)
<1>1. CASE r.step = 1
  <2>1. u = [w EXCEPT !.rename = "off"]
    BY <1>1, ApplyOrderIs DEF Branded
  <2>2. u.rename = "off"
    BY <2>1 DEF WindowType
  <2>3. q.pc = "apply" /\ q.step = 2
    BY <1>1, ApplyOrderIs
  <2> QED  BY <2>2, <2>3 DEF WindowOf
<1>2. CASE r.step = 2
  <2>1. u = Renamed(w, Whaled(r.name))
    BY <1>2, ApplyOrderIs DEF Branded
  <2>2. u.rename = "off" /\ u.name = Whaled(r.name)
    BY <2>1 DEF Renamed, WindowType
  <2>3. q.pc = "running" \/ (q.pc = "apply" /\ q.step = 3)
    BY <1>2
  <2> QED  BY <2>2, <2>3 DEF WindowOf
<1>3. CASE r.step > 2
  <2>1. ApplyOrder[r.step] \notin {"rename", "name"}
    BY <1>3, ApplyOrderIs
  <2>2. u = [w EXCEPT !.border = @ \cup {ApplyOrder[r.step]}]
    BY <2>1 DEF Branded
  <2>3. u.rename = "off" /\ u.name = Whaled(r.name)
    BY <1>3, <2>2 DEF WindowOf, WindowType
  <2>4. q.pc = "running" \/ (q.pc = "apply" /\ q.step > 2)
    BY <1>3 DEF Launches
  <2> QED  BY <2>3, <2>4 DEF WindowOf
<1> QED  BY <1>1, <1>2, <1>3, ApplyOrderIs

\* A command of Restore, run by the first launch on the stack.
LEMMA UndoFirst ==
  ASSUME NEW w \in WindowType, NEW b, NEW r \in Launches, NEW q \in Launches,
         NEW order, order = RestoreOrder(r.count),
         r.pc = "restore", r.step \in 1 .. Len(order),
         q.name = r.name, q.count = r.count,
         \/ r.step = Len(order) /\ q.pc = "exit"
         \/ r.step # Len(order) /\ q.pc = "restore" /\ q.step = r.step + 1,
         FirstKnows(b, r), WindowOf(w, b, r), NEW u, u = Unbranded(w, order[r.step], r)
  PROVE  WindowOf(u, b, q)
<1>0. r.count \in Nat /\ r.step \in Nat /\ Len(Borders) \in Nat
  <2>1. MaxPanes \in Nat
    BY Zenon, BrandingAssumption
  <2> QED  BY <2>1, ApplyOrderIs DEF Launches
<1>1. CASE r.step = 1
  <2>1. /\ r.name # NoName => u = Renamed(w, r.name)
        /\ r.name = NoName => u = w
    BY <1>0, <1>1, RestoreOrderIs DEF Unbranded
  <2>2. w.rename = "off"
    BY <1>1 DEF WindowOf
  <2>3. u.rename = "off" /\ (r.name = NoName \/ u.name = r.name)
    BY <2>1, <2>2 DEF Renamed, WindowType
  <2>4. q.pc = "restore" /\ q.step = 2
    BY <1>0, <1>1, RestoreOrderIs
  <2> QED  BY <1>0, <2>3, <2>4 DEF WindowOf
<1>2. CASE r.step = 2
  <2>1. u = [w EXCEPT !.rename = r.rename]
    BY <1>0, <1>2, RestoreOrderIs DEF Unbranded
  <2>2. r.rename = b.rename
    BY DEF FirstKnows
  <2>3. /\ u.rename = b.rename /\ (r.name = NoName \/ u.name = r.name)
        /\ u.border = w.border /\ w.border \subseteq ToSet(Borders)
    BY <1>2, <2>1, <2>2 DEF WindowType, WindowOf
  <2>4. \/ q.pc = "restore" /\ q.step = 3
        \/ q.pc = "exit" /\ (q.count > 1 => Len(Borders) = 0)
    BY <1>0, <1>2, RestoreOrderIs
  <2>5. Len(Borders) = 0 => ToSet(Borders) = {}
    <3>1. Borders \in Seq(STRING)
      BY Zenon, BrandingAssumption
    <3> QED  BY <3>1 DEF ToSet
  <2>6. q.name = NoName \/ AsBefore(u, b, q.name)
    BY <2>3 DEF AsBefore
  <2>7. CASE q.pc = "restore" /\ q.step = 3
    <3>1. \A j \in 1 .. Len(Borders) : ~ j < q.step - 2
      BY <1>0, <2>7
    <3> QED  BY <2>3, <2>6, <2>7, <3>1 DEF WindowOf
  <2>8. CASE q.pc = "exit" /\ (q.count > 1 => Len(Borders) = 0)
    <3>1. q.count > 1 => u.border = {}
      BY <2>3, <2>5, <2>8
    <3> QED  BY <2>3, <2>6, <2>8, <3>1 DEF WindowOf
  <2> QED  BY <2>4, <2>7, <2>8
<1>3. CASE r.step > 2
  <2>1. /\ order[r.step] \notin {"rename", "name"} /\ order[r.step] = Borders[r.step - 2]
        /\ r.count > 1
    BY <1>0, <1>3, RestoreOrderIs
  <2>2. u = [w EXCEPT !.border = @ \ {Borders[r.step - 2]}]
    BY <2>1 DEF Unbranded
  <2>3. u.rename = w.rename /\ u.name = w.name /\ u.border = w.border \ {Borders[r.step - 2]}
    BY <2>2 DEF WindowType
  <2>4. u.rename = b.rename /\ (r.name = NoName \/ AsBefore(u, b, r.name))
    BY <1>3, <2>3 DEF WindowOf, AsBefore
  <2>5. \A j \in 1 .. Len(Borders) : j < r.step - 1 => Borders[j] \notin u.border
    BY <1>0, <1>3, <2>3 DEF WindowOf
  <2>6. CASE q.pc = "restore" /\ q.step = r.step + 1
    <3> QED  BY <1>0, <1>3, <2>4, <2>5, <2>6 DEF WindowOf
  <2>7. CASE q.pc = "exit" /\ r.step = Len(order)
    <3>1. r.step = 2 + Len(Borders)
      BY <1>0, <2>1, <2>7, RestoreOrderIs
    <3>2. u.border \subseteq ToSet(Borders)
      BY <2>3 DEF WindowType
    <3>3. \A j \in 1 .. Len(Borders) : Borders[j] \notin u.border
      BY <1>0, <2>5, <3>1
    <3>4. u.border = {}
      <4>1. Borders \in Seq(STRING)
        BY Zenon, BrandingAssumption
      <4> QED  BY <3>2, <3>3, <4>1 DEF ToSet
    <3> QED  BY <2>4, <2>7, <3>4 DEF WindowOf
  <2> QED  BY <2>6, <2>7
<1> QED  BY <1>0, <1>1, <1>2, <1>3

\* A later launch marks what is marked, and puts back the mark.
LEMMA LaterCommands ==
  ASSUME NEW w \in WindowType, NEW r \in Launches, NEW name \in WindowNames,
         w.name = Whaled(name), w.rename = "off", r.name = Whaled(name), r.rename = "off",
         NEW what
  PROVE  /\ Branded(w, what, r).name = w.name /\ Branded(w, what, r).rename = "off"
         /\ Unbranded(w, what, r).name = w.name /\ Unbranded(w, what, r).rename = "off"
<1>1. Whaled(r.name) = w.name /\ r.name # NoName
  BY WhaledIs
<1>2. CASE what = "rename"
  BY <1>1, <1>2 DEF Branded, Unbranded, WindowType
<1>3. CASE what = "name"
  <2>1. Branded(w, what, r) = Renamed(w, Whaled(r.name))
    BY <1>3 DEF Branded
  <2>2. Unbranded(w, what, r) = Renamed(w, r.name)
    BY <1>1, <1>3 DEF Unbranded
  <2> QED  BY <1>1, <2>1, <2>2 DEF Renamed, WindowType
<1>4. CASE what \notin {"rename", "name"}
  <2>1. /\ Branded(w, what, r) = [w EXCEPT !.border = @ \cup {what}]
        /\ Unbranded(w, what, r) = [w EXCEPT !.border = @ \ {what}]
    BY <1>4 DEF Branded, Unbranded
  <2> QED  BY <2>1 DEF WindowType
<1> QED  BY <1>2, <1>3, <1>4

LEMMA RemoveAtIs ==
  ASSUME NEW S, NEW t \in Seq(S), NEW i \in 1 .. Len(t), NEW u, u = RemoveAt(t, i)
  PROVE  /\ u \in Seq(S) /\ Len(u) = Len(t) - 1
         /\ \A j \in 1 .. Len(t) - 1 : j < i => u[j] = t[j]
         /\ \A j \in 1 .. Len(t) - 1 : ~ j < i => u[j] = t[j + 1]
<1> DEFINE a == SubSeq(t, 1, i - 1)
           b == SubSeq(t, i + 1, Len(t))
<1>1. /\ a \in Seq(S) /\ Len(a) = i - 1 /\ b \in Seq(S) /\ Len(b) = Len(t) - i
      /\ \A j \in 1 .. i - 1 : a[j] = t[j]
      /\ \A j \in 1 .. Len(t) - i : b[j] = t[i + j]
  OBVIOUS
<1>2. u = a \o b
  BY DEF RemoveAt
<1> HIDE DEF a, b
<1>3. ASSUME NEW c \in Seq(S), NEW d \in Seq(S)
      PROVE  /\ c \o d \in Seq(S) /\ Len(c \o d) = Len(c) + Len(d)
             /\ \A j \in 1 .. Len(c) + Len(d) :
                  (c \o d)[j] = IF j <= Len(c) THEN c[j] ELSE d[j - Len(c)]
  OBVIOUS
<1>4. /\ u \in Seq(S) /\ Len(u) = Len(t) - 1
      /\ \A j \in 1 .. Len(t) - 1 : u[j] = IF j <= i - 1 THEN a[j] ELSE b[j - (i - 1)]
  <2>1. /\ u \in Seq(S) /\ Len(u) = Len(a) + Len(b)
        /\ \A j \in 1 .. Len(a) + Len(b) : u[j] = IF j <= Len(a) THEN a[j] ELSE b[j - Len(a)]
    <3>1. a \in Seq(S) /\ b \in Seq(S)
      BY <1>1
    <3>2. /\ a \o b \in Seq(S) /\ Len(a \o b) = Len(a) + Len(b)
          /\ \A j \in 1 .. Len(a) + Len(b) :
               (a \o b)[j] = IF j <= Len(a) THEN a[j] ELSE b[j - Len(a)]
      BY <1>3, <3>1, Zenon
    <3> QED  BY <1>2, <3>2, Zenon
  <2>2. Len(a) = i - 1 /\ Len(b) = Len(t) - i /\ Len(t) \in Nat
    BY <1>1
  <2>3. Len(a) + Len(b) = Len(t) - 1
    BY <2>2
  <2> QED  BY <2>1, <2>2, <2>3
<1>5. ASSUME NEW j \in 1 .. Len(t) - 1, j < i PROVE u[j] = t[j]
  <2>1. j \in 1 .. i - 1 /\ j <= i - 1
    BY <1>5
  <2> QED  BY <1>1, <1>4, <2>1
<1>6. ASSUME NEW j \in 1 .. Len(t) - 1, ~ j < i PROVE u[j] = t[j + 1]
  <2>1. ~ j <= i - 1 /\ j - (i - 1) \in 1 .. Len(t) - i /\ i + (j - (i - 1)) = j + 1
    BY <1>6
  <2>2. b[j - (i - 1)] = t[i + (j - (i - 1))]
    BY <1>1, <2>1
  <2> QED  BY <1>4, <2>1, <2>2
<1> QED  BY <1>4, <1>5, <1>6

LEMMA OneOrMore == \A n \in Nat \ {0} : n = 1 \/ n > 1
  OBVIOUS

\* The launch that moves, as long as all is in order, is the last to have come.
LEMMA TopIs ==
  ASSUME NestInv, orderly, NEW s \in Sessions, sess[s].pc \notin {"idle", "done"},
         sess[s].pc # "running" \/ s = Last(stack)
  PROVE  /\ Len(stack) \in Nat \ {0} /\ s = stack[Len(stack)] /\ Nested
         /\ Len(stack) = 1 => FirstKnows(before, sess[s]) /\ WindowOf(win, before, sess[s])
         /\ Len(stack) > 1 =>
              /\ sess[stack[1]].pc = "running" /\ stack[1] \in Sessions
              /\ LaterKnows(sess[s], Whaled(sess[stack[1]].name))
              /\ win.name = Whaled(sess[stack[1]].name) /\ win.rename = "off"
<1>1. stack \in Seq(Sessions) /\ OnStack(s)
  BY DEF NestInv, StackInv
<1>2. Len(stack) \in Nat \ {0} /\ stack # <<>>
  BY <1>1 DEF OnStack
<1>3. Nested
  BY <1>2 DEF NestInv
<1>4. s = stack[Len(stack)]
  <2>1. CASE s = Last(stack)
    BY <2>1 DEF Last
  <2>2. CASE sess[s].pc # "running"
    <3>1. PICK i \in 1 .. Len(stack) : stack[i] = s
      BY <1>1 DEF OnStack
    <3>2. ~ i \in 1 .. Len(stack) - 1
      BY <1>3, <2>2, <3>1 DEF Nested
    <3> QED  BY <1>2, <3>1, <3>2
  <2> QED  BY <2>1, <2>2
<1>5. CASE Len(stack) = 1
  BY <1>3, <1>4, <1>5 DEF Nested
<1>6. CASE Len(stack) > 1
  <2>1. sess[stack[1]].pc = "running" /\ stack[1] \in Sessions
    BY <1>1, <1>3, <1>6 DEF Nested
  <2>2. win.name = Whaled(sess[stack[1]].name) /\ win.rename = "off"
    BY <1>3, <2>1 DEF Nested, WindowOf
  <2>3. LaterKnows(sess[s], Whaled(sess[stack[1]].name))
    BY <1>2, <1>3, <1>4, <1>6 DEF Nested
  <2> QED  BY <1>2, <1>3, <1>4, <1>6, <2>1, <2>2, <2>3
<1> QED  BY <1>2, <1>3, <1>4, <1>5, <1>6

\* A launch on the stack moves along and may change the window: the invariant is kept
\* if what it says of that launch is, and if a later one leaves the mark.
LEMMA TopMoves ==
  ASSUME NestInv, WhaleInv', NEW s \in Sessions, NEW r \in Launches, Becomes(s, r),
         sess[s].pc \notin {"idle", "done"}, r.pc \notin {"idle", "done"}, StepOK(r),
         UNCHANGED <<stack, before, global>>, win'.border \subseteq ToSet(Borders),
         orderly' => orderly /\ (sess[s].pc # "running" \/ s = Last(stack)),
         orderly' /\ Len(stack) = 1 => FirstKnows(before, r) /\ WindowOf(win', before, r),
         orderly' /\ Len(stack) > 1 =>
           /\ LaterKnows(r, Whaled(sess[stack[1]].name))
           /\ win'.name = win.name /\ win'.rename = win.rename
  PROVE  NestInv'
<1>1. sess' = [sess EXCEPT ![s] = r] /\ sess \in [Sessions -> Launches]
  BY DEF Becomes, NestInv, WhaleInv, SessInv
<1>2. sess'[s] = r /\ \A t \in Sessions \ {s} : sess'[t] = sess[t]
  BY <1>1
<1>3. StackInv'
  BY <1>2 DEF NestInv, StackInv, OnStack
<1>4. \A t \in Sessions : StepOK(sess[t])'
  BY <1>2 DEF NestInv, StepOK
<1>5. ASSUME orderly', stack' # <<>> PROVE Nested'
  <2>1. /\ Len(stack) \in Nat \ {0} /\ s = stack[Len(stack)] /\ Nested
        /\ Len(stack) > 1 => sess[stack[1]].pc = "running" /\ stack[1] \in Sessions
    BY <1>5, TopIs
  <2>2. \A i \in 1 .. Len(stack) - 1 : stack[i] \in Sessions \ {s}
    BY <2>1 DEF NestInv, StackInv
  <2>3. \A i \in 1 .. Len(stack) - 1 : sess'[stack[i]] = sess[stack[i]]
    BY <1>2, <2>2
  <2>4. CASE Len(stack) = 1
    <3>1. FirstKnows(before, r) /\ WindowOf(win', before, r)
      BY <1>5, <2>4
    <3>2. FirstKnows(before, sess[stack[1]])' /\ WindowOf(win, before, sess[stack[1]])'
      BY <1>2, <2>1, <2>4, <3>1 DEF FirstKnows, WindowOf, AsBefore, AutoNamed
    <3> QED  BY <2>4, <3>2 DEF Nested
  <2>5. CASE Len(stack) > 1
    <3>1. sess'[stack[1]] = sess[stack[1]] /\ sess[stack[1]].pc = "running"
      BY <2>1, <2>3, <2>5
    <3>2. FirstKnows(before, sess[stack[1]])'
      BY <2>1, <3>1 DEF Nested, FirstKnows, AutoNamed
    <3>3. WindowOf(win, before, sess[stack[1]])'
      BY <1>5, <2>1, <2>5, <3>1 DEF Nested, WindowOf
    <3>4. ASSUME NEW i \in 2 .. Len(stack)
          PROVE  LaterKnows(sess[stack[i]], Whaled(sess[stack[1]].name))'
      <4>1. CASE i = Len(stack)
        BY <1>2, <1>5, <2>1, <2>5, <3>1, <4>1 DEF LaterKnows
      <4>2. CASE i # Len(stack)
        BY <2>1, <2>3, <3>1, <4>2 DEF Nested, LaterKnows
      <4> QED  BY <4>1, <4>2
    <3>5. \A i \in 1 .. Len(stack) - 1 : sess'[stack[i]].pc = "running"
      BY <2>1, <2>3 DEF Nested
    <3> QED  BY <3>2, <3>3, <3>4, <3>5 DEF Nested
  <2>6. Len(stack) = 1 \/ Len(stack) > 1
    BY <2>1, OneOrMore, Zenon
  <2> QED  BY <2>4, <2>5, <2>6
<1> QED  BY <1>3, <1>4, <1>5 DEF NestInv

LEMMA NestInit == Init => NestInv
<1> SUFFICES ASSUME Init PROVE NestInv
  OBVIOUS
<1>1. StackInv
  BY DEF Init, StackInv, OnStack
<1>2. win.border \subseteq ToSet(Borders)
  BY DEF Init, Windows
<1>3. \A s \in Sessions : StepOK(sess[s])
  BY DEF Init, StepOK
<1> QED  BY <1>1, <1>2, <1>3, InitWhaleInv DEF Init, NestInv

\* What the invariant says of one launch and of the window.
LEMMA Parts ==
  ASSUME NestInv, NEW s \in Sessions
  PROVE  /\ win \in WindowType /\ sess[s] \in Launches /\ StepOK(sess[s])
         /\ sess[s].count \in Nat /\ panes \in 1 .. MaxPanes
<1>1. MaxPanes \in Nat
  BY Zenon, BrandingAssumption
<1>2. win \in WindowType
  <2>1. win \in [name : OneWhaleNames, rename : Renames, border : {win.border}]
    BY DEF NestInv, WhaleInv, WinInv
  <2>2. win.border \in SUBSET ToSet(Borders)
    BY DEF NestInv
  <2> QED  BY <2>1, <2>2 DEF WindowType
<1> QED  BY <1>1, <1>2 DEF NestInv, WhaleInv, SessInv, Launches

\* A launch comes: the first one finds the window as it is, a later one finds the
\* mark, if those before it run.
LEMMA NestComes ==
  ASSUME NestInv, WhaleInv', NEW s \in Sessions, ApplyBranding(s)
  PROVE  NestInv'
<1>0. /\ sess[s].pc = "idle" /\ sess \in [Sessions -> Launches] /\ sess[s] \in Launches
      /\ stack \in Seq(Sessions) /\ ~ OnStack(s) /\ sess[s].step = 1
      /\ UNCHANGED <<global, win, panes>>
  BY Parts DEF ApplyBranding, At, NestInv, WhaleInv, SessInv, StackInv, StepOK
<1>1. CASE UNCHANGED history /\ Becomes(s, [sess[s] EXCEPT !.pc = "done"])
  <2>1. /\ sess'[s].pc = "done" /\ \A t \in Sessions \ {s} : sess'[t] = sess[t]
        /\ UNCHANGED <<stack, before, orderly>>
    BY <1>0, <1>1 DEF Becomes, Launches, history
  <2>2. StackInv'
    BY <1>0, <2>1 DEF NestInv, StackInv, OnStack
  <2>3. \A t \in Sessions : StepOK(sess[t])'
    BY <2>1 DEF NestInv, StepOK
  <2>4. \A i \in 1 .. Len(stack) : stack[i] \in Sessions \ {s}
    BY <1>0 DEF OnStack
  <2>5. \A i \in 1 .. Len(stack) : sess'[stack[i]] = sess[stack[i]]
    BY <2>1, <2>4
  <2>6. ASSUME orderly', stack' # <<>> PROVE Nested'
    <3>1. Nested /\ 1 \in 1 .. Len(stack)
      BY <1>0, <2>1, <2>6 DEF NestInv
    <3>2. sess'[stack[1]] = sess[stack[1]]
      BY <2>5, <3>1
    <3>3. FirstKnows(before, sess[stack[1]])' /\ WindowOf(win, before, sess[stack[1]])'
      BY <1>0, <2>1, <3>1, <3>2 DEF Nested, FirstKnows, WindowOf, AsBefore, AutoNamed
    <3>4. \A i \in 1 .. Len(stack) - 1 : sess'[stack[i]].pc = "running"
      BY <1>0, <2>5, <3>1 DEF Nested
    <3>5. \A i \in 2 .. Len(stack) : LaterKnows(sess[stack[i]], Whaled(sess[stack[1]].name))'
      BY <1>0, <2>1, <2>5, <3>1, <3>2 DEF Nested, LaterKnows
    <3> QED  BY <2>1, <3>3, <3>4, <3>5 DEF Nested
  <2> QED  BY <1>0, <2>2, <2>3, <2>6 DEF NestInv
<1>2. CASE /\ Becomes(s, [sess[s] EXCEPT !.pc = "name"]) /\ stack' = Append(stack, s)
           /\ before' = IF stack = <<>> THEN win ELSE before
           /\ orderly' = (stack = <<>> \/ (orderly /\ OthersRun(s)))
  <2>1. /\ sess'[s].pc = "name" /\ sess'[s].step = 1
        /\ \A t \in Sessions \ {s} : sess'[t] = sess[t]
    BY <1>0, <1>2 DEF Becomes, Launches
  <2>2. /\ Len(stack) \in Nat /\ Len(stack') = Len(stack) + 1 /\ stack' \in Seq(Sessions)
        /\ stack'[Len(stack) + 1] = s
        /\ \A i \in 1 .. Len(stack) : stack'[i] = stack[i] /\ stack[i] \in Sessions \ {s}
    BY <1>0, <1>2 DEF OnStack
  <2>3. StackInv'
    <3>1. \A i, j \in 1 .. Len(stack') : stack'[i] = stack'[j] => i = j
      BY <2>2 DEF NestInv, StackInv
    <3>2. \A t \in Sessions : OnStack(t)' <=> t = s \/ OnStack(t)
      BY <2>2 DEF OnStack
    <3>3. \A t \in Sessions : OnStack(t)' <=> sess'[t].pc \notin {"idle", "done"}
      BY <2>1, <3>2 DEF NestInv, StackInv
    <3> QED  BY <2>2, <3>1, <3>3 DEF StackInv
  <2>4. \A t \in Sessions : StepOK(sess[t])'
    BY <2>1 DEF NestInv, StepOK
  <2>5. CASE stack = <<>>
    <3>1. Len(stack') = 1 /\ stack'[1] = s /\ before' = win /\ win' = win
      BY <1>0, <1>2, <2>2, <2>5
    <3>2. FirstKnows(before, sess[s])' /\ WindowOf(win, before, sess[s])'
      BY <2>1, <3>1 DEF FirstKnows, WindowOf, AsBefore
    <3>3. Nested'
      BY <3>1, <3>2 DEF Nested
    <3> QED  BY <1>0, <2>3, <2>4, <3>3 DEF NestInv
  <2>6. CASE stack # <<>>
    <3>1. ASSUME orderly' PROVE Nested'
      <4>1. orderly /\ OthersRun(s) /\ before' = before /\ Nested /\ Len(stack) > 0
        <5>1. orderly /\ OthersRun(s)
          BY <1>2, <2>6, <3>1
        <5>2. before' = before
          BY <1>2, <2>6
        <5>3. Nested
          BY <2>6, <5>1 DEF NestInv
        <5>4. Len(stack) > 0
          BY <1>0, <2>6
        <5> QED  BY <5>1, <5>2, <5>3, <5>4
      <4>2. \A i \in 1 .. Len(stack) : sess[stack[i]].pc = "running"
        BY <1>0, <2>2, <4>1 DEF OthersRun, At, ToSet
      <4>3. \A i \in 1 .. Len(stack) : sess'[stack'[i]] = sess[stack[i]]
        BY <2>1, <2>2
      <4>4. sess'[stack'[1]] = sess[stack[1]] /\ stack'[1] = stack[1] /\ 1 \in 1 .. Len(stack)
        BY <2>2, <4>1, <4>3
      <4>5. FirstKnows(before, sess[stack[1]])' /\ WindowOf(win, before, sess[stack[1]])'
        BY <1>0, <4>1, <4>4 DEF Nested, FirstKnows, WindowOf, AsBefore, AutoNamed
      <4>6. \A i \in 1 .. Len(stack') - 1 : sess'[stack'[i]].pc = "running"
        BY <2>2, <4>2, <4>3
      <4>7. ASSUME NEW i \in 2 .. Len(stack')
            PROVE  LaterKnows(sess[stack[i]], Whaled(sess[stack[1]].name))'
        <5>1. CASE i = Len(stack) + 1
          BY <2>1, <2>2, <5>1 DEF LaterKnows
        <5>2. CASE i # Len(stack) + 1
          <6>1. i \in 2 .. Len(stack) /\ i \in 1 .. Len(stack)
            BY <2>2, <5>2
          <6>2. sess'[stack'[i]] = sess[stack[i]]
            BY <4>3, <6>1
          <6>3. LaterKnows(sess[stack[i]], Whaled(sess[stack[1]].name))
            BY <4>1, <6>1 DEF Nested
          <6> QED  BY <4>4, <6>2, <6>3 DEF LaterKnows
        <5> QED  BY <5>1, <5>2
      <4> QED  BY <4>5, <4>6, <4>7 DEF Nested
    <3> QED  BY <1>0, <2>3, <2>4, <3>1 DEF NestInv
  <2> QED  BY <2>5, <2>6
<1> QED  BY <1>1, <1>2 DEF ApplyBranding

\* A launch leaves: the last one of several leaves the others as they are.
LEMMA NestLeaves ==
  ASSUME NestInv, WhaleInv', NEW s \in Sessions, sess[s].pc \notin {"idle", "done"},
         Becomes(s, [sess[s] EXCEPT !.pc = "done"]), Leaves(s),
         UNCHANGED <<global, win>>,
         orderly' => orderly /\ sess[s].pc # "running"
  PROVE  NestInv'
<1>0. /\ sess \in [Sessions -> Launches] /\ sess[s] \in Launches /\ stack \in Seq(Sessions)
      /\ Len(stack) \in Nat
  BY Parts DEF NestInv, WhaleInv, SessInv, StackInv
<1>1. sess'[s].pc = "done" /\ \A t \in Sessions \ {s} : sess'[t] = sess[t]
  BY <1>0 DEF Becomes, Launches
<1>2. PICK k \in 1 .. Len(stack) : stack[k] = s /\ stack' = RemoveAt(stack, k)
  BY <1>0 DEF Leaves
<1>3. /\ stack' \in Seq(Sessions) /\ Len(stack') = Len(stack) - 1
      /\ \A j \in 1 .. Len(stack) - 1 : j < k => stack'[j] = stack[j]
      /\ \A j \in 1 .. Len(stack) - 1 : ~ j < k => stack'[j] = stack[j + 1]
  BY <1>0, <1>2, RemoveAtIs
<1>4. \A i, j \in 1 .. Len(stack) : stack[i] = stack[j] => i = j
  BY DEF NestInv, StackInv
<1>5. StackInv'
  <2>0. ASSUME NEW i \in 1 .. Len(stack')
        PROVE  \E m \in 1 .. Len(stack) :
                 /\ m # k /\ stack'[i] = stack[m]
                 /\ i < k => m = i
                 /\ ~ i < k => m = i + 1
    <3>1. i \in 1 .. Len(stack) - 1
      BY <1>3
    <3>2. CASE i < k
      BY <1>0, <1>3, <3>1, <3>2
    <3>3. CASE ~ i < k
      <4>1. i + 1 \in 1 .. Len(stack) /\ i + 1 # k
        BY <1>0, <3>1, <3>3
      <4>2. stack'[i] = stack[i + 1]
        BY <1>3, <3>1, <3>3
      <4> QED  BY <3>3, <4>1, <4>2
    <3> QED  BY <3>2, <3>3
  <2>1. ASSUME NEW i \in 1 .. Len(stack'), NEW j \in 1 .. Len(stack'), stack'[i] = stack'[j]
        PROVE  i = j
    <3>1. PICK m \in 1 .. Len(stack) :
            stack'[i] = stack[m] /\ (i < k => m = i) /\ (~ i < k => m = i + 1)
      BY <2>0
    <3>2. PICK n \in 1 .. Len(stack) :
            stack'[j] = stack[n] /\ (j < k => n = j) /\ (~ j < k => n = j + 1)
      BY <2>0
    <3>3. m = n
      BY <1>4, <2>1, <3>1, <3>2
    <3>4. i \in Nat /\ j \in Nat /\ k \in Nat
      BY <1>3, <1>0
    <3> QED  BY <3>1, <3>2, <3>3, <3>4
  <2>2. ~ OnStack(s)'
    BY <1>2, <1>4, <2>0 DEF OnStack
  <2>3. ASSUME NEW t \in Sessions \ {s} PROVE OnStack(t)' <=> OnStack(t)
    <3>1. ASSUME OnStack(t)' PROVE OnStack(t)
      BY <1>0, <1>3, <3>1 DEF OnStack
    <3>2. ASSUME OnStack(t) PROVE OnStack(t)'
      <4>1. PICK i \in 1 .. Len(stack) : stack[i] = t
        BY <3>2 DEF OnStack
      <4>2. CASE i < k
        BY <1>0, <1>2, <1>3, <4>1, <4>2 DEF OnStack
      <4>3. CASE i > k
        <5>1. i - 1 \in 1 .. Len(stack) - 1 /\ ~ i - 1 < k /\ (i - 1) + 1 = i
          BY <1>0, <1>2, <4>1, <4>3
        <5>2. stack'[i - 1] = t
          BY <1>3, <4>1, <5>1
        <5> QED  BY <1>3, <5>1, <5>2 DEF OnStack
      <4> QED  BY <1>0, <1>2, <4>1, <4>2, <4>3
    <3> QED  BY <3>1, <3>2
  <2>4. \A t \in Sessions : OnStack(t)' <=> sess'[t].pc \notin {"idle", "done"}
    BY <1>1, <2>2, <2>3 DEF NestInv, StackInv
  <2> QED  BY <1>3, <2>1, <2>4 DEF StackInv
<1>6. \A t \in Sessions : StepOK(sess[t])'
  BY <1>1 DEF NestInv, StepOK
<1>7. ASSUME orderly', stack' # <<>> PROVE Nested'
  <2>1. orderly /\ s = stack[Len(stack)] /\ Nested /\ Len(stack) > 1
    BY <1>0, <1>3, <1>7, TopIs
  <2>2. k = Len(stack)
    BY <1>0, <1>2, <1>4, <2>1
  <2>3. \A i \in 1 .. Len(stack) - 1 : stack'[i] = stack[i] /\ stack[i] \in Sessions \ {s}
    BY <1>0, <1>2, <1>3, <1>4, <2>2
  <2>4. \A i \in 1 .. Len(stack) - 1 : sess'[stack'[i]] = sess[stack[i]]
    BY <1>1, <2>3
  <2>5. sess'[stack'[1]] = sess[stack[1]] /\ 1 \in 1 .. Len(stack) - 1
    BY <1>0, <2>1, <2>4
  <2>6. before' = before
    BY DEF Leaves
  <2>7. FirstKnows(before, sess[stack[1]])' /\ WindowOf(win, before, sess[stack[1]])'
    BY <2>1, <2>5, <2>6 DEF Nested, FirstKnows, WindowOf, AsBefore, AutoNamed
  <2>8. \A i \in 1 .. Len(stack') - 1 : sess'[stack'[i]].pc = "running"
    BY <1>0, <1>3, <2>1, <2>4 DEF Nested
  <2>9. ASSUME NEW i \in 2 .. Len(stack')
        PROVE  LaterKnows(sess[stack[i]], Whaled(sess[stack[1]].name))'
    <3>1. i \in 1 .. Len(stack) - 1 /\ i \in 2 .. Len(stack)
      BY <1>0, <1>3, <2>9
    <3>2. sess'[stack'[i]] = sess[stack[i]]
      BY <2>4, <3>1
    <3>3. LaterKnows(sess[stack[i]], Whaled(sess[stack[1]].name))
      BY <2>1, <3>1 DEF Nested
    <3> QED  BY <2>5, <3>2, <3>3 DEF LaterKnows
  <2> QED  BY <2>7, <2>8, <2>9 DEF Nested
<1> QED  BY <1>5, <1>6, <1>7 DEF NestInv

\* What ApplyBranding captures.
LEMMA NestCaptures ==
  ASSUME NestInv, WhaleInv', NEW s \in Sessions, CaptureName(s) \/ CaptureOption(s)
  PROVE  NestInv'
<1>0. /\ win \in WindowType /\ sess[s] \in Launches /\ sess[s].pc \in {"name", "option"}
      /\ sess[s].step = 1 /\ UNCHANGED <<stack, before, global, win>>
      /\ win.border \subseteq ToSet(Borders) /\ Len(ApplyOrder) \in Nat /\ Len(ApplyOrder) > 0
      /\ win.name \in OneWhaleNames /\ win.rename \in Renames
  BY Parts, ApplyOrderIs
  DEF CaptureName, CaptureOption, At, StepOK, WindowType, Failed, history
<1>1. CASE CaptureName(s)
  <2>0. sess[s].pc = "name"
    BY <1>1 DEF CaptureName, At
  <2>1. CASE Becomes(s, [sess[s] EXCEPT !.pc = "option", !.name = win.name]) /\ UNCHANGED history
    <3>1. PICK r \in Launches :
            /\ Becomes(s, r) /\ r.pc = "option" /\ r.step = 1 /\ r.name = win.name
      <4>1. [sess[s] EXCEPT !.pc = "option", !.name = win.name] \in Launches
        BY <1>0 DEF Launches, PCs
      <4> QED  BY <1>0, <2>1, <4>1 DEF Launches
    <3>2. StepOK(r)
      BY <3>1 DEF StepOK
    <3>3. orderly' = orderly
      BY <2>1 DEF history
    <3>4. ASSUME orderly', Len(stack) = 1
          PROVE  FirstKnows(before, r) /\ WindowOf(win', before, r)
      <4>1. WindowOf(win, before, sess[s])
        BY <1>0, <3>3, <3>4, TopIs
      <4>2. AsBefore(win, before, before.name)
        BY <2>0, <4>1 DEF WindowOf
      <4> QED  BY <1>0, <3>1, <4>2 DEF FirstKnows, WindowOf, AsBefore
    <3>5. ASSUME orderly', Len(stack) > 1
          PROVE  LaterKnows(r, Whaled(sess[stack[1]].name))
      <4>1. win.name = Whaled(sess[stack[1]].name)
        BY <1>0, <3>3, <3>5, TopIs
      <4> QED  BY <3>1, <4>1 DEF LaterKnows
    <3> QED  BY <1>0, <3>1, <3>2, <3>3, <3>4, <3>5, TopMoves
  <2>2. CASE Becomes(s, [sess[s] EXCEPT !.pc = "option"]) /\ Failed
    <3>1. PICK r \in Launches : Becomes(s, r) /\ r.pc = "option" /\ r.step = 1
      <4>1. [sess[s] EXCEPT !.pc = "option"] \in Launches
        BY <1>0 DEF Launches, PCs
      <4> QED  BY <1>0, <2>2, <4>1 DEF Launches
    <3>2. StepOK(r) /\ ~ orderly'
      BY <2>2, <3>1 DEF StepOK, Failed, Fault
    <3> QED  BY <1>0, <3>1, <3>2, TopMoves
  <2> QED  BY <1>1, <2>1, <2>2 DEF CaptureName
<1>2. CASE CaptureOption(s)
  <2>0. sess[s].pc = "option"
    BY <1>2 DEF CaptureOption, At
  <2>1. CASE Becomes(s, [sess[s] EXCEPT !.pc = "apply", !.rename = win.rename]) /\ UNCHANGED history
    <3>1. PICK r \in Launches :
            /\ Becomes(s, r) /\ r.pc = "apply" /\ r.step = 1 /\ r.name = sess[s].name
            /\ r.rename = win.rename
      <4>1. [sess[s] EXCEPT !.pc = "apply", !.rename = win.rename] \in Launches
        BY <1>0 DEF Launches, PCs
      <4> QED  BY <1>0, <2>1, <4>1 DEF Launches
    <3>2. StepOK(r)
      BY <1>0, <3>1 DEF StepOK
    <3>3. orderly' = orderly
      BY <2>1 DEF history
    <3>4. ASSUME orderly', Len(stack) = 1
          PROVE  FirstKnows(before, r) /\ WindowOf(win', before, r)
      <4>1. FirstKnows(before, sess[s]) /\ WindowOf(win, before, sess[s])
        BY <1>0, <3>3, <3>4, TopIs
      <4>2. AsBefore(win, before, before.name)
        BY <2>0, <4>1 DEF WindowOf
      <4>3. AutoNamed(before) \/ sess[s].name = before.name
        BY <2>0, <4>1 DEF FirstKnows
      <4> QED  BY <1>0, <3>1, <4>2, <4>3 DEF FirstKnows, WindowOf, AsBefore
    <3>5. ASSUME orderly', Len(stack) > 1
          PROVE  LaterKnows(r, Whaled(sess[stack[1]].name))
      <4>1. win.rename = "off" /\ LaterKnows(sess[s], Whaled(sess[stack[1]].name))
        BY <1>0, <3>3, <3>5, TopIs
      <4> QED  BY <2>0, <3>1, <4>1 DEF LaterKnows
    <3> QED  BY <1>0, <3>1, <3>2, <3>3, <3>4, <3>5, TopMoves
  <2>2. CASE Becomes(s, [sess[s] EXCEPT !.pc = "apply"]) /\ Failed
    <3>1. PICK r \in Launches : Becomes(s, r) /\ r.pc = "apply" /\ r.step = 1
      <4>1. [sess[s] EXCEPT !.pc = "apply"] \in Launches
        BY <1>0 DEF Launches, PCs
      <4> QED  BY <1>0, <2>2, <4>1 DEF Launches
    <3>2. StepOK(r) /\ ~ orderly'
      BY <1>0, <2>2, <3>1 DEF StepOK, Failed, Fault
    <3> QED  BY <1>0, <3>1, <3>2, TopMoves
  <2> QED  BY <1>2, <2>1, <2>2 DEF CaptureOption
<1> QED  BY <1>1, <1>2

\* Restore begins, and the panes are counted.
LEMMA NestRestores ==
  ASSUME NestInv, WhaleInv', NEW s \in Sessions, Restore(s) \/ CountPanes(s)
  PROVE  NestInv'
<1>0. /\ win \in WindowType /\ sess[s] \in Launches /\ sess[s].pc \in {"running", "count"}
      /\ sess[s].step = 1 /\ UNCHANGED <<stack, before, global, win>>
      /\ win.border \subseteq ToSet(Borders) /\ panes \in 1 .. MaxPanes /\ 1 \in 1 .. MaxPanes
  BY Parts, OnePane DEF Restore, CountPanes, At, StepOK, WindowType, Failed, history
<1>1. PICK r \in Launches :
        /\ Becomes(s, r) /\ r.step = 1 /\ r.name = sess[s].name /\ r.rename = sess[s].rename
        /\ \/ Restore(s) /\ r.pc = "count"
           \/ CountPanes(s) /\ r.pc = "restore"
  <2>1. /\ [sess[s] EXCEPT !.pc = "count"] \in Launches
        /\ [sess[s] EXCEPT !.pc = "restore", !.count = panes] \in Launches
        /\ [sess[s] EXCEPT !.pc = "restore", !.count = 1] \in Launches
    BY <1>0 DEF Launches, PCs
  <2>2. CASE Restore(s)
    BY <1>0, <2>1, <2>2 DEF Restore, Launches
  <2>3. CASE CountPanes(s)
    BY <1>0, <2>1, <2>3 DEF CountPanes, Launches
  <2> QED  BY <2>2, <2>3
<1>2. StepOK(r)
  <2>1. r.count \in Nat
    <3>1. MaxPanes \in Nat
      BY Zenon, BrandingAssumption
    <3> QED  BY <3>1 DEF Launches
  <2>2. Len(RestoreOrder(r.count)) \in Nat /\ Len(RestoreOrder(r.count)) > 1
    BY <2>1, RestoreOrderIs
  <2> QED  BY <1>1, <2>2 DEF StepOK
<1>3. orderly' => orderly /\ (sess[s].pc # "running" \/ s = Last(stack))
  BY DEF Restore, CountPanes, At, Failed, Fault, history
<1>4. ASSUME orderly', Len(stack) = 1
      PROVE  FirstKnows(before, r) /\ WindowOf(win', before, r)
  <2>1. FirstKnows(before, sess[s]) /\ WindowOf(win, before, sess[s])
    BY <1>0, <1>3, <1>4, TopIs
  <2>2. FirstKnows(before, r)
    BY <1>0, <1>1, <2>1 DEF FirstKnows
  <2>3. win.name = Whaled(r.name) /\ win.rename = "off"
    BY <1>0, <1>1, <2>1 DEF WindowOf
  <2>4. \A j \in 1 .. Len(Borders) : ~ j < r.step - 2
    BY <1>1, ApplyOrderIs
  <2> QED  BY <1>0, <1>1, <2>2, <2>3, <2>4 DEF WindowOf
<1>5. ASSUME orderly', Len(stack) > 1
      PROVE  LaterKnows(r, Whaled(sess[stack[1]].name))
  <2>1. LaterKnows(sess[s], Whaled(sess[stack[1]].name))
    BY <1>0, <1>3, <1>5, TopIs
  <2> QED  BY <1>0, <1>1, <2>1 DEF LaterKnows
<1> QED  BY <1>0, <1>1, <1>2, <1>3, <1>4, <1>5, TopMoves

\* The launch that runs a command moves to the next one, or on.
LEMMA CommandMoves ==
  ASSUME NestInv, NEW s \in Sessions, NEW order, NEW effect, NEW pc \in PCs,
         Command(s, order, effect, pc)
  PROVE  \E r \in Launches :
           /\ Becomes(s, r) /\ r.name = sess[s].name /\ r.rename = sess[s].rename
           /\ r.count = sess[s].count
           /\ \/ sess[s].step = Len(order) /\ r.pc = pc /\ r.step = 1
              \/ sess[s].step # Len(order) /\ r.pc = sess[s].pc /\ r.step = sess[s].step + 1
<1>0. sess[s] \in Launches
  BY Parts
<1>1. CASE sess[s].step = Len(order)
  <2>1. Becomes(s, [sess[s] EXCEPT !.pc = pc, !.step = 1])
    BY <1>1 DEF Command
  <2>2. [sess[s] EXCEPT !.pc = pc, !.step = 1] \in Launches
    BY <1>0 DEF Launches
  <2> QED  BY <1>0, <1>1, <2>1, <2>2 DEF Launches
<1>2. CASE sess[s].step # Len(order)
  <2>1. Becomes(s, [sess[s] EXCEPT !.step = sess[s].step + 1])
    BY <1>2 DEF Command
  <2>2. [sess[s] EXCEPT !.step = sess[s].step + 1] \in Launches
    BY <1>0 DEF Launches
  <2> QED  BY <1>0, <1>2, <2>1, <2>2 DEF Launches
<1> QED  BY <1>1, <1>2

LEMMA NestApplies ==
  ASSUME NestInv, WhaleInv', NEW s \in Sessions, Apply(s)
  PROVE  NestInv'
<1> DEFINE effect == Branded(win, ApplyOrder[sess[s].step], sess[s])
<1>0. /\ win \in WindowType /\ sess[s] \in Launches /\ sess[s].pc = "apply"
      /\ sess[s].step \in 1 .. Len(ApplyOrder)
      /\ Command(s, ApplyOrder, effect, "running")
  BY Parts DEF Apply, At, StepOK
<1>1. /\ UNCHANGED <<stack, before, global>>
      /\ orderly' => orderly /\ win' = effect
      /\ win' = win \/ win' = effect
  BY <1>0 DEF Command, Failed, Fault, history
<1>2. PICK r \in Launches :
        /\ Becomes(s, r) /\ r.name = sess[s].name /\ r.rename = sess[s].rename
        /\ \/ sess[s].step = Len(ApplyOrder) /\ r.pc = "running" /\ r.step = 1
           \/ sess[s].step # Len(ApplyOrder) /\ r.pc = "apply" /\ r.step = sess[s].step + 1
  BY <1>0, CommandMoves DEF PCs
<1>3. StepOK(r)
  BY <1>0, <1>2, ApplyOrderIs DEF StepOK
<1>4. win'.border \subseteq ToSet(Borders)
  <2>1. CASE sess[s].step \in {1, 2}
    BY <1>0, <1>1, <2>1, ApplyOrderIs DEF Branded, Renamed, WindowType
  <2>2. CASE sess[s].step \in 3 .. Len(ApplyOrder)
    <3>1. /\ ApplyOrder[sess[s].step] \in ToSet(Borders)
          /\ ApplyOrder[sess[s].step] \notin {"rename", "name"}
      BY <2>2, ApplyOrderIs
    <3>2. effect = [win EXCEPT !.border = @ \cup {ApplyOrder[sess[s].step]}]
      BY <3>1 DEF Branded
    <3> QED  BY <1>0, <1>1, <3>1, <3>2 DEF WindowType
  <2> QED  BY <1>0, <2>1, <2>2
<1>5. ASSUME orderly', Len(stack) = 1
      PROVE  FirstKnows(before, r) /\ WindowOf(win', before, r)
  <2>1. FirstKnows(before, sess[s]) /\ WindowOf(win, before, sess[s])
    BY <1>0, <1>1, <1>5, TopIs
  <2>2. FirstKnows(before, r)
    BY <1>0, <1>2, <2>1 DEF FirstKnows
  <2>3. WindowOf(effect, before, r)
    <3> HIDE DEF effect
    <3>1. effect = Branded(win, ApplyOrder[sess[s].step], sess[s])
      BY DEF effect
    <3> QED  BY <1>0, <1>2, <2>1, <3>1, ApplyFirst
  <2> QED  BY <1>1, <1>5, <2>2, <2>3
<1>6. ASSUME orderly', Len(stack) > 1
      PROVE  /\ LaterKnows(r, Whaled(sess[stack[1]].name))
             /\ win'.name = win.name /\ win'.rename = win.rename
  <2>1. /\ LaterKnows(sess[s], Whaled(sess[stack[1]].name)) /\ stack[1] \in Sessions
        /\ win.name = Whaled(sess[stack[1]].name) /\ win.rename = "off"
    BY <1>0, <1>1, <1>6, TopIs
  <2>2. sess[s].name = Whaled(sess[stack[1]].name) /\ sess[s].rename = "off"
    BY <1>0, <2>1 DEF LaterKnows
  <2>3. sess[stack[1]].name \in WindowNames
    BY <2>1, Parts, NamesOfOurs DEF Launches
  <2>4. effect.name = win.name /\ effect.rename = "off"
    BY <1>0, <2>1, <2>2, <2>3, LaterCommands
  <2>5. LaterKnows(r, Whaled(sess[stack[1]].name))
    BY <1>2, <2>2 DEF LaterKnows
  <2> QED  BY <1>1, <1>6, <2>1, <2>4, <2>5
<1> QED  BY <1>0, <1>1, <1>2, <1>3, <1>4, <1>5, <1>6, TopMoves

LEMMA NestUndoes ==
  ASSUME NestInv, WhaleInv', NEW s \in Sessions, Undo(s)
  PROVE  NestInv'
<1>1. PICK order : order = RestoreOrder(sess[s].count)
  OBVIOUS
<1> DEFINE effect == Unbranded(win, order[sess[s].step], sess[s])
<1>2. /\ win \in WindowType /\ sess[s] \in Launches /\ sess[s].pc = "restore"
      /\ sess[s].step \in 1 .. Len(order) /\ sess[s].count \in Nat
      /\ Command(s, order, effect, "exit")
  BY <1>1, Parts DEF Undo, At, StepOK
<1>3. /\ UNCHANGED <<stack, before, global>>
      /\ orderly' => orderly /\ win' = effect
      /\ win' = win \/ win' = effect
  BY <1>2 DEF Command, Failed, Fault, history
<1>4. PICK r \in Launches :
        /\ Becomes(s, r) /\ r.name = sess[s].name /\ r.rename = sess[s].rename
        /\ r.count = sess[s].count
        /\ \/ sess[s].step = Len(order) /\ r.pc = "exit" /\ r.step = 1
           \/ sess[s].step # Len(order) /\ r.pc = "restore" /\ r.step = sess[s].step + 1
  BY <1>2, CommandMoves DEF PCs
<1>5. StepOK(r)
  <2>1. Len(order) \in Nat
    BY <1>1, <1>2, RestoreOrderIs
  <2> QED  BY <1>1, <1>2, <1>4, <2>1 DEF StepOK
<1>6. win'.border \subseteq ToSet(Borders)
  <2>1. effect.border \subseteq win.border
    <3>1. PICK what : what = order[sess[s].step]
      OBVIOUS
    <3>2. \/ effect = Renamed(win, sess[s].name) \/ effect = win
          \/ effect = [win EXCEPT !.rename = sess[s].rename]
          \/ effect = [win EXCEPT !.border = @ \ {what}]
      BY <3>1 DEF Unbranded
    <3> QED  BY <1>2, <3>2 DEF Renamed, WindowType
  <2> QED  BY <1>2, <1>3, <2>1 DEF WindowType
<1>7. ASSUME orderly', Len(stack) = 1
      PROVE  FirstKnows(before, r) /\ WindowOf(win', before, r)
  <2>1. FirstKnows(before, sess[s]) /\ WindowOf(win, before, sess[s])
    BY <1>2, <1>3, <1>7, TopIs
  <2>2. FirstKnows(before, r)
    BY <1>2, <1>4, <2>1 DEF FirstKnows
  <2>3. WindowOf(effect, before, r)
    <3> HIDE DEF effect
    <3>1. effect = Unbranded(win, order[sess[s].step], sess[s])
      BY DEF effect
    <3> QED  BY <1>1, <1>2, <1>4, <2>1, <3>1, UndoFirst
  <2> QED  BY <1>3, <1>7, <2>2, <2>3
<1>8. ASSUME orderly', Len(stack) > 1
      PROVE  /\ LaterKnows(r, Whaled(sess[stack[1]].name))
             /\ win'.name = win.name /\ win'.rename = win.rename
  <2>1. /\ LaterKnows(sess[s], Whaled(sess[stack[1]].name)) /\ stack[1] \in Sessions
        /\ win.name = Whaled(sess[stack[1]].name) /\ win.rename = "off"
    BY <1>2, <1>3, <1>8, TopIs
  <2>2. sess[s].name = Whaled(sess[stack[1]].name) /\ sess[s].rename = "off"
    BY <1>2, <2>1 DEF LaterKnows
  <2>3. sess[stack[1]].name \in WindowNames
    BY <2>1, Parts, NamesOfOurs DEF Launches
  <2>4. effect.name = win.name /\ effect.rename = "off"
    BY <1>2, <2>1, <2>2, <2>3, LaterCommands
  <2>5. LaterKnows(r, Whaled(sess[stack[1]].name))
    BY <1>4, <2>2 DEF LaterKnows
  <2> QED  BY <1>3, <1>8, <2>1, <2>4, <2>5
<1> QED  BY <1>2, <1>3, <1>4, <1>5, <1>6, <1>7, <1>8, TopMoves

\* Panes come and go, and the window is renamed by the user, which is out of order, or
\* by tmux, which does not touch a window that is marked.
LEMMA NestOthers ==
  ASSUME NestInv, WhaleInv', ChangePanes \/ UserRenames \/ TmuxRenames \/ UNCHANGED vars
  PROVE  NestInv'
<1>0. UNCHANGED <<sess, stack, before, global>>
  BY DEF ChangePanes, UserRenames, TmuxRenames, Failed, history, vars
<1>1. StackInv' /\ \A s \in Sessions : StepOK(sess[s])'
  BY <1>0 DEF NestInv, StackInv, OnStack, StepOK
<1>2. win \in [name : OneWhaleNames, rename : Renames, border : {win.border}]
  BY DEF NestInv, WhaleInv, WinInv
<1>3. CASE UserRenames
  <2>1. win'.border = win.border /\ ~ orderly'
    BY <1>2, <1>3 DEF UserRenames, Renamed, Failed, Fault
  <2> QED  BY <1>1, <2>1 DEF NestInv
<1>4. CASE ChangePanes \/ UNCHANGED vars
  <2>1. UNCHANGED <<win, orderly>>
    BY <1>4 DEF ChangePanes, history, vars
  <2>2. Nested => Nested'
    BY <1>0, <2>1 DEF Nested, LaterKnows, FirstKnows, WindowOf, AsBefore, AutoNamed
  <2> QED  BY <1>0, <1>1, <2>1, <2>2 DEF NestInv
<1>5. CASE TmuxRenames
  <2>1. /\ win'.border = win.border /\ win'.rename = win.rename /\ win.rename # "off"
        /\ orderly' = orderly /\ AutoNamed(win)
    BY <1>2, <1>5 DEF TmuxRenames, AutoNamed, history
  <2>2. ASSUME orderly, stack # <<>> PROVE Nested'
    <3>1. Nested
      BY <2>2 DEF NestInv
    <3>2. FirstKnows(before, sess[stack[1]])'
      BY <1>0, <3>1 DEF Nested, FirstKnows, AutoNamed
    <3>3. \A b : b.rename = win.rename => AutoNamed(b)
      BY <2>1 DEF AutoNamed
    <3>4. \A b, name : AsBefore(win, b, name) => AsBefore(win', b, name)
      BY <2>1, <3>3 DEF AsBefore
    <3>5. ASSUME NEW r \in Launches, WindowOf(win, before, r) PROVE WindowOf(win', before, r)
      <4>1. /\ ~ (r.pc = "apply" /\ r.step > 1)
            /\ ~ (r.pc \in {"running", "count"} \/ (r.pc = "restore" /\ r.step = 1))
            /\ ~ (r.pc = "restore" /\ r.step = 2) /\ (r.step > 2 => r.step > 1)
        BY <2>1, <3>5 DEF WindowOf, Launches
      <4>2. r.pc \in {"name", "option"} \/ (r.pc = "apply" /\ r.step = 1) =>
              AsBefore(win', before, before.name)
        BY <3>4, <3>5 DEF WindowOf
      <4>3. r.pc = "exit" \/ (r.pc = "restore" /\ r.step > 2) =>
              win'.rename = before.rename /\ (r.name = NoName \/ AsBefore(win', before, r.name))
        BY <2>1, <3>4, <3>5 DEF WindowOf
      <4> QED  BY <2>1, <3>5, <4>1, <4>2, <4>3 DEF WindowOf
    <3>6. WindowOf(win, before, sess[stack[1]])'
      <4>1. sess[stack[1]] \in Launches
        BY <2>2 DEF NestInv, StackInv, WhaleInv, SessInv
      <4>2. WindowOf(win', before, sess[stack[1]])
        BY <3>1, <3>5, <4>1 DEF Nested
      <4> QED  BY <1>0, <4>2 DEF WindowOf, AsBefore, AutoNamed
    <3> QED  BY <1>0, <3>1, <3>2, <3>6 DEF Nested, LaterKnows
  <2> QED  BY <1>0, <1>1, <2>1, <2>2 DEF NestInv
<1> QED  BY <1>3, <1>4, <1>5

LEMMA NestNext == NestInv /\ [Next]_vars => NestInv'
<1> SUFFICES ASSUME NestInv, [Next]_vars PROVE NestInv'
  OBVIOUS
<1>0. WhaleInv'
  BY NextWhaleInv DEF NestInv
<1>1. CASE ChangePanes \/ UserRenames \/ TmuxRenames \/ UNCHANGED vars
  BY <1>0, <1>1, NestOthers
<1>2. ASSUME NEW s \in Sessions, ApplyBranding(s) PROVE NestInv'
  BY <1>0, <1>2, NestComes
<1>3. ASSUME NEW s \in Sessions, CaptureName(s) \/ CaptureOption(s) PROVE NestInv'
  BY <1>0, <1>3, NestCaptures
<1>4. ASSUME NEW s \in Sessions, Restore(s) \/ CountPanes(s) PROVE NestInv'
  BY <1>0, <1>4, NestRestores
<1>5. ASSUME NEW s \in Sessions, Apply(s) PROVE NestInv'
  BY <1>0, <1>5, NestApplies
<1>6. ASSUME NEW s \in Sessions, Undo(s) PROVE NestInv'
  BY <1>0, <1>6, NestUndoes
<1>7. ASSUME NEW s \in Sessions, Exit(s) PROVE NestInv'
  BY <1>0, <1>7, NestLeaves DEF Exit, At
<1>8. ASSUME NEW s \in Sessions, Kill(s) PROVE NestInv'
  BY <1>0, <1>8, NestLeaves DEF Kill, Fault
<1> QED  BY <1>1, <1>2, <1>3, <1>4, <1>5, <1>6, <1>7, <1>8 DEF Next

\* Any number of launches come and go one inside the other, while panes come and go
\* and tmux names windows: as long as one of them is beside its claude, the window has
\* the whale before the name it had, and tmux does not rename it.
THEOREM MarkedAsLongAsOneRuns == Spec => []MarkedWhileRunning
<1>1. NestInv => MarkedWhileRunning
  <2> SUFFICES ASSUME NestInv, orderly, NEW s \in ToSet(stack), At(s, "running")
               PROVE  /\ win.name = Whaled(sess[stack[1]].name)
                      /\ win.rename = "off"
    BY DEF MarkedWhileRunning, Whaled
  <2>1. stack \in Seq(Sessions) /\ stack # <<>> /\ Len(stack) \in Nat \ {0}
    BY DEF NestInv, StackInv, ToSet
  <2>2. Nested
    BY <2>1 DEF NestInv
  <2>3. sess[stack[1]].pc = "running"
    BY <2>1, <2>2 DEF Nested, ToSet, At
  <2> QED  BY <2>2, <2>3 DEF Nested, WindowOf
<1> QED  BY <1>1, NestInit, NestNext, PTL DEF Spec

\* And the last of them to go leaves the window as the first has found it.
THEOREM LeftAsFound == Spec => []RestoredInOrder
<1>1. NestInv => RestoredInOrder
  <2> SUFFICES ASSUME NestInv, NEW s \in Sessions, orderly, stack = <<s>>, At(s, "exit")
               PROVE  /\ win.rename = before.rename
                      /\ AutoNamed(before) \/ before.name = NoName \/ win.name = before.name
                      /\ sess[s].count > 1 => win.border = {}
    BY DEF RestoredInOrder
  <2>1. FirstKnows(before, sess[s]) /\ WindowOf(win, before, sess[s]) /\ sess[s].pc = "exit"
    BY DEF NestInv, Nested, At
  <2>2. AutoNamed(before) \/ sess[s].name = before.name
    BY <2>1 DEF FirstKnows
  <2>3. win.rename = before.rename /\ (sess[s].name = NoName \/ AsBefore(win, before, sess[s].name))
    BY <2>1 DEF WindowOf
  <2> QED  BY <2>1, <2>2, <2>3 DEF WindowOf, AsBefore
<1> QED  BY <1>1, NestInit, NestNext, PTL DEF Spec
===============================================================================

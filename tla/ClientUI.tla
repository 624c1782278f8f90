------------------------------ MODULE ClientUI ------------------------------
(***************************************************************************)
(* The terminal client's model: the form with its two inputs and the       *)
(* button, and the log panel. Bubble Tea calls Update with one message at  *)
(* a time and View in between.                                             *)
(*                                                                         *)
(* Texts are what Update asks of them: whether the url is empty, and the   *)
(* number the depth input reads as, 0 for what is not one. Drawing is left *)
(* out, except for the slice of lines that is drawn.                       *)
(***************************************************************************)
EXTENDS Integers

CONSTANTS MaxLines,     \* maxLines
          Texts,        \* bound: what the inputs may read as, when typed in
          Heights       \* bound: the heights a terminal may have

Inputs == {0, 1}        \* the url and the depth
Button == 2             \* len(m.inputs)

ASSUME ClientUIAssumption ==
    MaxLines \in Nat \ {0} /\ Texts \subseteq Int /\ Heights \subseteq Nat

VARIABLES
    focusIndex,
    focused,        \* the inputs that accept keys
    value,          \* value[i]: what input i reads as; 0 for an empty url
    lines,          \* len(entries)
    viewHeight,
    scrollOff,      \* 0: pinned to the bottom
    asked           \* the depths of the jobs submitted

vars == <<focusIndex, focused, value, lines, viewHeight, scrollOff, asked>>
form == <<focusIndex, focused, value, asked>>
panel == <<lines, viewHeight, scrollOff>>

TypeOK ==
    /\ focusIndex \in Inputs \cup {Button} /\ focused \subseteq Inputs
    /\ value \in [Inputs -> Int]
    /\ lines \in 0..MaxLines /\ viewHeight \in Nat /\ scrollOff \in Nat
    /\ asked \subseteq Int

Init ==
    /\ focusIndex = 0 /\ focused = {0}
    /\ value = [i \in Inputs |-> 0]
    /\ lines = 0 /\ viewHeight = 14 /\ scrollOff = 0
    /\ asked = {}

-----------------------------------------------------------------------------
(* The log panel *)

Push ==
    /\ lines' = IF lines + 1 > MaxLines THEN MaxLines ELSE lines + 1
    /\ scrollOff' = 0
    /\ UNCHANGED viewHeight

\* An event from the server.
LogEvent == Push /\ UNCHANGED form

MaxOff == IF lines - viewHeight < 0 THEN 0 ELSE lines - viewHeight

\* Mutant: the offset has no limit.
ScrollUpTooFar ==
    /\ scrollOff' = scrollOff + 3
    /\ UNCHANGED <<lines, viewHeight, form>>

ScrollUp ==
    /\ scrollOff' = IF scrollOff + 3 > MaxOff THEN MaxOff ELSE scrollOff + 3
    /\ UNCHANGED <<lines, viewHeight, form>>

ScrollDown ==
    /\ scrollOff' = IF scrollOff - 3 < 0 THEN 0 ELSE scrollOff - 3
    /\ UNCHANGED <<lines, viewHeight, form>>

\* The terminal has h rows; four tenths are the panel's, at least five.
PanelHeight(h) == IF (h * 4) \div 10 - 4 < 5 THEN 5 ELSE (h * 4) \div 10 - 4

\* SetSize does not look at scrollOff.
WindowSize(h) ==
    /\ viewHeight' = PanelHeight(h)
    /\ UNCHANGED <<lines, scrollOff, form>>

\* The slice that View draws is entries[start:end].
End == IF lines - scrollOff < 0 THEN 0 ELSE lines - scrollOff
Start == IF lines - scrollOff - viewHeight < 0 THEN 0 ELSE lines - scrollOff - viewHeight

-----------------------------------------------------------------------------
(* The form *)

\* A key goes to all inputs; only one that is focused accepts it.
Type(v) ==
    /\ \E i \in focused : value' = [value EXCEPT ![i] = v]
    /\ UNCHANGED <<focusIndex, focused, asked, panel>>

\* enter on the button: a depth that is no positive number is 1.
Submit ==
    /\ focusIndex = Button
    /\ Push
    /\ \/ value[0] = 0 /\ UNCHANGED form
       \/ /\ value[0] # 0
          /\ asked' = asked \cup {IF value[1] > 0 THEN value[1] ELSE 1}
          /\ value' = [i \in Inputs |-> 0]
          /\ focusIndex' = 0
          /\ focused' = (focused \cup {0}) \ {1}

Wrapped(i) == IF i > Button THEN 0 ELSE IF i < 0 THEN Button ELSE i

\* Mutant: the input that is left is not blurred.
MoveAndKeep(i) ==
    /\ focusIndex' = Wrapped(i)
    /\ focused' = focused \cup ({Wrapped(i)} \cap Inputs)
    /\ UNCHANGED <<value, asked, panel>>

\* All inputs but the one under the cursor are blurred.
Move(i) ==
    /\ focusIndex' = Wrapped(i)
    /\ focused' = {Wrapped(i)} \cap Inputs
    /\ UNCHANGED <<value, asked, panel>>

Up == Move(focusIndex - 1)

\* tab and down, and enter on an input.
Down == Move(focusIndex + 1)

Next ==
    \/ LogEvent \/ ScrollUp \/ ScrollDown \/ Submit \/ Up \/ Down
    \/ \E h \in Heights : WindowSize(h)
    \/ \E v \in Texts : Type(v)

Spec == Init /\ [][Next]_vars

-----------------------------------------------------------------------------
(* Properties *)

\* Whatever is resized, pushed and scrolled in whatever order, View slices within
\* the lines there are, and shows one at least if there are any.
WindowInside == 0 <= Start /\ Start <= End /\ End <= lines /\ (lines > 0 => Start < End)

\* Keys reach the input under the cursor and no other; on the button they reach none.
FocusFollows == focused = {focusIndex} \cap Inputs
=============================================================================

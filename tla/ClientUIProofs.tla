--------------------------- MODULE ClientUIProofs ---------------------------
(***************************************************************************)
(* Proofs about ClientUI, for every number of lines, every text and every  *)
(* size of the terminal.                                                   *)
(***************************************************************************)
EXTENDS ClientUI, TLAPS

\* The log panel and the form share no variables, and few messages are for each.
LEMMA PanelSteps ==
    ASSUME [Next]_vars
    PROVE  \/ Push \/ ScrollUp \/ ScrollDown \/ (\E h \in Heights : WindowSize(h))
           \/ UNCHANGED panel
  BY DEF Next, vars, LogEvent, Submit, Up, Down, Move, Type, panel

LEMMA FormSteps ==
    ASSUME TypeOK, [Next]_vars
    PROVE  \/ Submit /\ value[0] # 0
           \/ \E i \in Int : Move(i)
           \/ \E v \in Texts : Type(v)
           \/ UNCHANGED form
<1>1. focusIndex - 1 \in Int /\ focusIndex + 1 \in Int
  BY DEF TypeOK, Inputs, Button
<1>2. ASSUME Up \/ Down PROVE \E i \in Int : Move(i)
  BY <1>1, <1>2 DEF Up, Down
<1>3. ASSUME LogEvent \/ ScrollUp \/ ScrollDown \/ (\E h \in Heights : WindowSize(h))
      PROVE  UNCHANGED form
  BY <1>3 DEF LogEvent, ScrollUp, ScrollDown, WindowSize
<1>4. QED
  BY <1>2, <1>3 DEF Next, vars, form, Submit

\* The variables keep their types: the cursor stays on the form, the panel within
\* its cap.
THEOREM TypeCorrect == Spec => []TypeOK
<1>1. Init => TypeOK
  BY ClientUIAssumption DEF Init, TypeOK, Inputs, Button
<1>2. TypeOK /\ [Next]_vars => TypeOK'
  <2> SUFFICES ASSUME TypeOK, [Next]_vars PROVE TypeOK'
    OBVIOUS
  <2> USE ClientUIAssumption DEF TypeOK, Inputs, Button, form, panel
  <2>1. CASE LogEvent
    BY <2>1 DEF LogEvent, Push
  <2>2. CASE ScrollUp
    BY <2>2 DEF ScrollUp, MaxOff
  <2>3. CASE ScrollDown
    BY <2>3 DEF ScrollDown
  <2>4. CASE Submit
    <3>1. value[1] \in Int /\ (IF value[1] > 0 THEN value[1] ELSE 1) \in Int
      OBVIOUS
    <3>2. asked' \subseteq Int
      BY <2>4, <3>1 DEF Submit
    <3>3. lines' \in 0..MaxLines /\ scrollOff' \in Nat /\ viewHeight' \in Nat
      BY <2>4 DEF Submit, Push
    <3>4. focusIndex' \in Inputs \cup {Button} /\ focused' \subseteq Inputs
      BY <2>4 DEF Submit
    <3>5. [i \in Inputs |-> 0] \in [Inputs -> Int]
      OBVIOUS
    <3>6. value' \in [Inputs -> Int]
      BY <2>4, <3>5 DEF Submit
    <3>7. QED
      BY <3>2, <3>3, <3>4, <3>6
  <2>5. CASE Up \/ Down
    <3>1. PICK i \in Int : Move(i)
      BY <2>5 DEF Up, Down
    <3>2. Wrapped(i) \in Inputs \cup {Button}
      BY DEF Wrapped
    <3>3. QED
      BY <3>1, <3>2 DEF Move
  <2>6. ASSUME NEW h \in Heights, WindowSize(h) PROVE TypeOK'
    <3>1. PanelHeight(h) \in Nat
      BY DEF PanelHeight
    <3>2. QED
      BY <2>6, <3>1 DEF WindowSize
  <2>7. ASSUME NEW v \in Texts, Type(v) PROVE TypeOK'
    BY <2>7 DEF Type
  <2>8. CASE UNCHANGED vars
    BY <2>8 DEF vars
  <2>9. QED
    BY <2>1, <2>2, <2>3, <2>4, <2>5, <2>6, <2>7, <2>8 DEF Next
<1>3. QED
  BY <1>1, <1>2, PTL DEF Spec

\* Why the window is inside: the panel has a row at least, and the offset that
\* ScrollUp and SetSize leave behind is below the number of lines.
PanelInv == viewHeight >= 1 /\ (scrollOff = 0 \/ scrollOff < lines)

\* The slice that View draws lies within the entries, in every order of events,
\* sizes and keys.
THEOREM WindowCorrect == Spec => []WindowInside
<1>1. Init => PanelInv
  BY DEF Init, PanelInv
<1>2. ASSUME TypeOK, PanelInv, [Next]_vars PROVE PanelInv'
  <2> USE <1>2, ClientUIAssumption DEF TypeOK, PanelInv, panel
  <2>1. Push => PanelInv'
    BY DEF Push
  <2>2. ScrollUp \/ ScrollDown => PanelInv'
    BY DEF ScrollUp, ScrollDown, MaxOff
  <2>3. \A h \in Heights : WindowSize(h) => PanelInv'
    BY DEF WindowSize, PanelHeight
  <2>4. UNCHANGED panel => PanelInv'
    OBVIOUS
  <2>5. QED
    BY <2>1, <2>2, <2>3, <2>4, PanelSteps
<1>3. TypeOK /\ PanelInv => WindowInside
  BY ClientUIAssumption DEF TypeOK, PanelInv, WindowInside, Start, End
<1>4. QED
  BY <1>1, <1>2, <1>3, TypeCorrect, PTL DEF Spec

\* The input under the cursor is the one that is focused, and on the button none.
THEOREM FocusCorrect == Spec => []FocusFollows
<1>1. Init => FocusFollows
  BY DEF Init, FocusFollows, Inputs
<1>2. ASSUME TypeOK, FocusFollows, [Next]_vars PROVE FocusFollows'
  <2>1. ASSUME Submit, value[0] # 0 PROVE FocusFollows'
    <3>1. focused = {}
      BY <1>2, <2>1 DEF Submit, FocusFollows, Inputs, Button
    <3>2. focusIndex' = 0 /\ focused' = {0}
      BY <2>1, <3>1 DEF Submit
    <3>3. QED
      BY <3>2 DEF FocusFollows, Inputs
  <2>2. ASSUME NEW i \in Int, Move(i) PROVE FocusFollows'
    BY <2>2 DEF Move, FocusFollows, Inputs
  <2>3. ASSUME NEW v \in Texts, Type(v) PROVE FocusFollows'
    BY <1>2, <2>3 DEF Type, form, FocusFollows
  <2>4. UNCHANGED form => FocusFollows'
    BY <1>2 DEF form, FocusFollows
  <2>5. QED
    BY <1>2, <2>1, <2>2, <2>3, <2>4, FormSteps
<1>3. QED
  BY <1>1, <1>2, TypeCorrect, PTL DEF Spec
=============================================================================

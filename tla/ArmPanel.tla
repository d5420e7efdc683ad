------------------------------ MODULE ArmPanel -----------------------------
(***************************************************************************)
(* The arm as the console sees it, and the controls that show and set its  *)
(* position: slider2d2 (stretch and rotation), slider1 (height), knob1     *)
(* (hand angle) and button1 (suction cup), with draw(), the animation      *)
(* frame that sends the displayed position to the arm.                     *)
(*                                                                         *)
(* setValue only gives a control a target, clamped to its limits.  Each    *)
(* animation frame the control comes nearer to its target and fires its    *)
(* change event, which sets UPDATE_EN, and the draw() of the same frame    *)
(* sends the values shown at that moment.  Events and draw() run on one    *)
(* thread, so UPDATE_EN is raised between frames only by button1.          *)
(*                                                                         *)
(* The serial port may refuse a frame, as it does for good when the cable  *)
(* is pulled: sendPos prints the exception and returns as if the arm had   *)
(* moved.                                                                  *)
(***************************************************************************)
EXTENDS Integers

CONSTANTS
    Sessions,      \* the other threads that send frames (AndroidControl)
    Console,       \* the sender of draw() and of the panel's handlers
    Nobody,        \* the sender before the first frame
    PanelPoints,   \* positions the user may give the controls
    MaxInputs,     \* bound: uses of a slider, the knob or button1
    SerialStates   \* outcomes of scanPort explored: TRUE, the port opened

ASSUME SendersAssumption ==
    Console \notin Sessions /\ Nobody \notin Sessions /\ Console # Nobody
ASSUME InputsAssumption == MaxInputs \in Nat
ASSUME SerialAssumption == SerialStates \subseteq BOOLEAN

VARIABLES
    arm,         \* the last frame written to the arm
    writeFailed, \* history: the last frame sent was not written
    shown,       \* the position the controls show
    target,      \* the position the controls are easing to
    updateEn,    \* UPDATE_EN
    suctionCup,  \* the control byte of the console
    serialUp,    \* serialOut is not null
    awake,       \* the animation thread is alive
    inputs,      \* uses of the panel so far, for the bound only
    userSet      \* history: the axes whose control was last set by the user

armVars == <<arm, writeFailed>>
panelVars == <<armVars, shown, target, updateEn, suctionCup, serialUp, awake, inputs,
               userSet>>

Axes == {"str", "rot", "hei", "hand"}
Position == [Axes -> Int]

ASSUME PointsAssumption == PanelPoints \subseteq Position

\* Control bytes: 0x01 starts the pump, 0x02 opens the valve.
Catch == 1
Release == 2

Frame == [at : Position, ctl : {Catch, Release},
          by : Sessions \cup {Console, Nobody}]

\* The limits given to the controls in createGUI.
Low  == [str |-> 0,   rot |-> -90, hei |-> -180, hand |-> -90]
High == [str |-> 210, rot |-> 90,  hei |-> 150,  hand |-> 90]

Clamp(a, v) ==
    IF v < Low[a] THEN Low[a] ELSE IF v > High[a] THEN High[a] ELSE v

\* What the controls show when createGUI returns.
StartValues == [str |-> 210, rot |-> 0, hei |-> 0, hand |-> 0]

PanelTypeOK ==
    /\ arm \in Frame
    /\ writeFailed \in BOOLEAN
    /\ shown \in Position
    /\ target \in Position
    /\ updateEn \in BOOLEAN
    /\ suctionCup \in {Catch, Release}
    /\ serialUp \in BOOLEAN
    /\ awake \in BOOLEAN
    /\ inputs \in 0..MaxInputs
    /\ userSet \subseteq Axes

\* Nothing is sent at startup: the first frame follows the first input.
PanelInit ==
    /\ arm = [at |-> StartValues, ctl |-> Release, by |-> Nobody]
    /\ writeFailed = FALSE
    /\ shown = StartValues
    /\ target = StartValues
    /\ updateEn = FALSE
    /\ suctionCup = Release
    /\ serialUp \in SerialStates
    /\ awake = TRUE
    /\ inputs = 0
    /\ userSet = {}

-----------------------------------------------------------------------------
\* Mutant of SendPos: the control byte is always that of an open valve.
SendPosOpen(p, ctl, who) ==
    \/ arm' = [at |-> p, ctl |-> Release, by |-> who] /\ writeFailed' = FALSE
    \/ UNCHANGED arm /\ writeFailed' = TRUE

\* sendPos: one write of a whole frame, which may fail with an IOException that
\* its callers never see.  They do see it throw when serialOut is null.
SendPos(p, ctl, who) ==
    \/ arm' = [at |-> p, ctl |-> ctl, by |-> who] /\ writeFailed' = FALSE
    \/ UNCHANGED arm /\ writeFailed' = TRUE

\* setValue and its kin on the controls of the axes in A.
SetValue(A, p) ==
    target' = [a \in Axes |-> IF a \in A THEN Clamp(a, p[a]) ELSE target[a]]

(***************************************************************************)
(* Easing: a control covers part of the distance each frame.  Frames that  *)
(* show values in between are represented by one value half way, for moves *)
(* of at least a step of the remote control (10); the rest is one frame.   *)
(***************************************************************************)
EaseStep == 10

Abs(d) == IF d < 0 THEN -d ELSE d

Eased(from, to) ==
    IF Abs(to - from) >= EaseStep THEN from + ((to - from) \div 2) ELSE to

-----------------------------------------------------------------------------
\* Mutant of UpdateDone: the flag is left as the change events set it.
UpdateLeft == updateEn' = TRUE

\* The end of draw(): the position was sent, whether or not it was written.
UpdateDone == updateEn' = FALSE

(***************************************************************************)
(* One animation frame: the controls ease and fire their change events,    *)
(* then draw() sends what they show.  With serialOut null, sendPos throws  *)
(* in draw() and the animation thread ends.                                *)
(***************************************************************************)
Draw ==
    /\ awake
    /\ shown # target \/ updateEn
    /\ shown' = [a \in Axes |-> Eased(shown[a], target[a])]
    /\ IF serialUp
         THEN /\ SendPos(shown', suctionCup, Console)
              /\ UpdateDone
              /\ UNCHANGED awake
         ELSE /\ awake' = FALSE
              /\ updateEn' = TRUE
              /\ UNCHANGED armVars
    /\ UNCHANGED <<target, suctionCup, serialUp, inputs, userSet>>

Controls == {{"str", "rot"}, {"hei"}, {"hand"}}

\* The user moves a control: drag, mouse wheel, or hovering after a click.
MoveControl(A, p) ==
    /\ awake
    /\ inputs < MaxInputs
    /\ SetValue(A, p)
    /\ inputs' = inputs + 1
    /\ userSet' = userSet \cup A
    /\ UNCHANGED <<armVars, shown, updateEn, suctionCup, serialUp, awake>>

\* Mutant of Toggled: a byte that is none of the two the arm knows.
ToggledWrong(ctl) == Catch - ctl

Toggled(ctl) == IF ctl = Catch THEN Release ELSE Catch

\* button1_click1
ToggleSuction ==
    /\ awake
    /\ inputs < MaxInputs
    /\ suctionCup' = Toggled(suctionCup)
    /\ updateEn' = TRUE
    /\ inputs' = inputs + 1
    /\ UNCHANGED <<armVars, shown, target, serialUp, awake, userSet>>
=============================================================================

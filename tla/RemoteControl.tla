---------------------------- MODULE RemoteControl --------------------------
(***************************************************************************)
(* Tablets and the console sharing the arm: the tablets' requests, the     *)
(* sessions that serve them, the panel, and button6, which begins a        *)
(* session and calls exit() on it.  button6, the panel's handlers and      *)
(* draw() run on the console's animation thread; each session is a thread. *)
(***************************************************************************)
EXTENDS AndroidControl

VARIABLE clicked   \* uArm_Client.clicked: button6 shows a session

vars == <<linkVars, panelVars, sessionVars, clicked>>

\* Every variable of the link, the panel and the sessions has its type.
TypeOK ==
    /\ LinkTypeOK
    /\ PanelTypeOK
    /\ SessionTypeOK
    /\ clicked \in BOOLEAN

Init ==
    /\ LinkInit
    /\ PanelInit
    /\ SessionInit
    /\ clicked = FALSE

\* button6_click1, unclicked: the session starts from what the sliders show.
BeginSession(s) ==
    /\ awake
    /\ ~clicked
    /\ clicked' = TRUE
    /\ Construct(s, shown, suctionCup)
    /\ UNCHANGED <<linkVars, panelVars>>

\* button6_click1, clicked.
EndSession ==
    /\ awake
    /\ clicked
    /\ Exit
    /\ clicked' = FALSE
    /\ UNCHANGED <<linkVars, panelVars>>

Tablet(c) ==
    /\ \E m \in Messages : Send(c, m)
    /\ UNCHANGED <<panelVars, sessionVars, clicked>>

\* Requests and replies on their way.
Network ==
    /\ \E c \in Clients : Deliver(c) \/ Receive(c)
    /\ UNCHANGED <<panelVars, sessionVars, clicked>>

AnimationFrame == Draw /\ UNCHANGED <<linkVars, sessionVars, clicked>>

PanelInput ==
    /\ \/ \E A \in Controls, p \in PanelPoints : MoveControl(A, p)
       \/ ToggleSuction
    /\ UNCHANGED <<linkVars, sessionVars, clicked>>

Thread(s) == SessionStep(s) /\ UNCHANGED clicked

Next ==
    \/ \E c \in Clients : Tablet(c)
    \/ Network
    \/ \E s \in Sessions : BeginSession(s) \/ Thread(s)
    \/ EndSession
    \/ AnimationFrame
    \/ PanelInput

Spec == Init /\ [][Next]_vars

(***************************************************************************)
(* Threads that can run do run, frames are drawn, connected requests and   *)
(* replies arrive.  Nothing is assumed of the users: not that they press   *)
(* a button, move a slider or send a request.                              *)
(***************************************************************************)
Fairness ==
    /\ \A s \in Sessions : WF_vars(Thread(s))
    /\ WF_vars(Network)
    /\ WF_vars(AnimationFrame)

FairSpec == Spec /\ Fairness

-----------------------------------------------------------------------------
(* Safety. *)

\* At most one session is between receiving a request and the end of the move
\* it asks for, and it is the one whose socket is bound: a session whose bind
\* failed silently never gets to move the arm.
SingleDriver ==
    \A s \in Sessions : pc[s] \in Busy => port = s

\* A request in the hands of the console is in those of the bound socket, and
\* a session has taken exactly the request it is working on.
RequestHeldOnce ==
    \A c \in Clients :
        /\ req[c].st \in {"inbox", "taken"} => req[c].at = port
        /\ req[c].st = "taken" =>
             /\ port \in Sessions
             /\ pc[port] \in {"check", "reply", "close"}
             /\ \A d \in Clients : req[d].st = "taken" => d = c

\* After exit() no more than one frame of any session is sent to the arm until
\* the next begin(), whichever sessions are alive (the test of exitFlag is
\* made before the reply and the move, so one request can slip through).
LateMoveBound == exitFlag => lateMoves <= 1

\* When the controls have come to rest, no session is half way through a move
\* and the last frame sent was written, the arm is where stretch, rotation and
\* height are shown, but for an axis a session sent it to beyond the limits of
\* the control, and for one the user has set back, since a session's move, to
\* the value that was still shown: then nothing changes, and draw() sends
\* nothing.
AtRest ==
    /\ shown = target
    /\ ~updateEn
    /\ \A s \in Sessions : pc[s] \notin {"aim", "lift"}

PanelShowsArm ==
    (AtRest /\ ~writeFailed /\ arm.by # Nobody) =>
        \A a \in {"str", "rot", "hei"} :
            \/ arm.at[a] = shown[a]
            \/ arm.by \in Sessions /\ (a \in userSet \/ arm.at[a] # Clamp(a, arm.at[a]))

\* The pump is in another state than the console's button shows only because
\* a session sent the state it copied when it was constructed, because the
\* press has not been drawn yet, or because the last frame was not written.
GripTraced ==
    arm.ctl # suctionCup =>
        updateEn \/ writeFailed \/ \E s \in Sessions : arm.by = s /\ grip[s] = arm.ctl

\* Why they hold, as one inductive invariant: a session that has something
\* to do owns the endpoint, and so does the socket a request was handed to;
\* the one late frame is used up when no session is past its test of the flag.
PortHolder == \A s \in Sessions : pc[s] \in Busy \cup {"close"} => port = s

HandedToPort ==
    \A c \in Clients : req[c].st \in {"inbox", "taken"} =>
        port # NoServer /\ req[c].at = port

LateFrameSpent ==
    exitFlag => \/ lateMoves = 0
                \/ lateMoves = 1 /\ \A s \in Sessions : pc[s] \notin {"reply", "move"}

DriverInv ==
    TypeOK /\ PortHolder /\ HandedToPort /\ RequestHeldOnce /\ LateFrameSpent

\* The promise of the button, seen from the arm.
Lease == INSTANCE ArmLease WITH
            holder <- IF port = NoServer THEN Nobody ELSE port,
            open <- ~exitFlag,
            spent <- lateMoves > 0,
            Frames <- Frame

LeaseKept == Lease!Spec

-----------------------------------------------------------------------------
(* Liveness, under Fairness. *)

\* A request handed to a session is answered, or given up by the session's
\* end: none stays with a session that goes on without it.
RequestSettled ==
    \A c \in Clients : req[c].st \in {"inbox", "taken"} ~> req[c].st \in {"idle", "lost"}

\* The panel and the arm agree in the end (as far as PanelShowsArm goes),
\* unless the serial port was never opened and the console stopped drawing.
ComesToRest == <>[](AtRest \/ ~awake)

-----------------------------------------------------------------------------
(* What the comment on exit() says, and the code does not do. *)

\* A session that exit() was called on leaves its loop at its next test of
\* the flag (AndroidControl.java, comment on exit: "If the button is
\* unclicked, set the flag to true to exit the thread").
ExitEndsThread ==
    [][\A s \in Sessions :
         (pc[s] = "check" /\ s \in revoked) => pc'[s] \in {"check", "close"}]_vars
=============================================================================

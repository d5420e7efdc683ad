----------------------------- MODULE UArmClient ----------------------------
(***************************************************************************)
(* The console's window: the camera checkboxes, locating boxes, retrieving *)
(* them, and asking a tablet whether to, together with the remote control  *)
(* of RemoteControl.  All handlers run on the animation thread: while one  *)
(* of them works, sleeps or waits, no other handler runs and nothing is    *)
(* drawn, but the sessions and the camera's starting threads go on.  An    *)
(* exception in a handler ends it where it is; the window lives on.        *)
(***************************************************************************)
EXTENDS RemoteControl, FiniteSets

CONSTANTS
    Boxes,      \* boxes with a tag, in reach of the arm
    BoxPos,     \* the position of the arm at each box
    Mistaken,   \* what locate makes of boxes seen from another place than it thinks
    NoBox,
    Prompt,     \* the server of sendZMQ
    MaxClicks   \* bound: clicks on checkboxes, button3, button4 and button5

ASSUME PromptAssumption == Prompt \in Servers \ Sessions
ASSUME BoxAssumption ==
    /\ BoxPos \in [Boxes -> Position]
    /\ \A b, d \in Boxes : BoxPos[b] = BoxPos[d] => b = d
    /\ NoBox \notin Boxes
ASSUME MistakenAssumption == Mistaken \subseteq Position
ASSUME MaxClicksAssumption == MaxClicks \in Nat

VARIABLES
    gui,        \* what the animation thread is doing
    usbBox, ffBox,     \* checkbox2 and checkbox1 are selected
    cameraEn, ffEn,    \* CAMERA_EN and FFCAMERA_EN
    video,      \* the Capture object in the field video
    ready,      \* a camera was started once
    starters,   \* startCam threads: before new Capture, and before start()
    locateOn,   \* button3 is enabled
    offerOn,    \* button4 and button5 are enabled (always both or neither)
    boxCoordinates,   \* where the boxes of the last sighting are taken to be
    scan,       \* i and up of scanForBoxes
    todo, cur, step,   \* getBox: boxes left, box at hand, frames sent for it
    spoilt,     \* history: boxes of this retrieval with a frame that was not written
    clicks,     \* for the bound only
    boxAt,      \* the world: where each box is
    disturbed   \* history: a tablet moved the arm, or a frame was not written,
                \* since the box was picked up

cameraVars == <<usbBox, ffBox, cameraEn, ffEn, video, ready, starters>>
offerVars == <<locateOn, offerOn, boxCoordinates>>
getVars == <<todo, cur, step, spoilt>>
worldVars == <<boxAt, disturbed>>
windowVars == <<gui, cameraVars, offerVars, scan, getVars, clicks>>
consoleVars == <<vars, windowVars, worldVars>>

\* The boxes of the last sighting, and a sighting of none.
located == DOMAIN boxCoordinates
NoSighting == [b \in {} |-> BoxPos[b]]

\* scanForBoxes begins one step to the side.
ScanStart == [i |-> -1, up |-> FALSE]

GuiState == {"idle", "look", "scan", "scanLook", "resume", "get",
             "bind", "recv", "answer", "closeYes", "closeNo", "hung"}

\* Every variable of the window has its type; in particular scanForBoxes never
\* turns further than 90 degrees to either side.
WindowTypeOK ==
    /\ TypeOK
    /\ gui \in GuiState
    /\ {usbBox, ffBox, cameraEn, ffEn, ready, locateOn, offerOn, disturbed} \subseteq BOOLEAN
    /\ video \in {"null", "stopped", "running"}
    /\ starters \in [{"new", "start"} -> 0..MaxClicks]
    /\ located \subseteq Boxes
    /\ boxCoordinates \in [located -> Position]
    /\ scan \in [i : -3..3, up : BOOLEAN]
    /\ todo \subseteq Boxes
    /\ cur \in Boxes \cup {NoBox}
    /\ step \in 0..8
    /\ spoilt \subseteq Boxes
    /\ clicks \in 0..MaxClicks
    /\ boxAt \in [Boxes -> {"field", "held", "delivered", "dropped"}]

WindowInit ==
    /\ Init
    /\ gui = "idle"
    /\ usbBox = FALSE /\ ffBox = FALSE
    /\ cameraEn = FALSE /\ ffEn = FALSE /\ ready = FALSE
    /\ video = "null"
    /\ starters = [new |-> 0, start |-> 0]
    /\ locateOn = FALSE /\ offerOn = FALSE
    /\ boxCoordinates = NoSighting
    /\ scan = ScanStart
    /\ todo = {} /\ cur = NoBox /\ step = 0 /\ spoilt = {}
    /\ clicks = 0
    /\ boxAt = [b \in Boxes |-> "field"]
    /\ disturbed = FALSE

-----------------------------------------------------------------------------
(***************************************************************************)
(* The world, which follows the frames: a box is caught when the arm comes *)
(* to it with the pump on, and comes off when the valve opens: delivered   *)
(* if the arm was already at the drop-off place, dropped if not.           *)
(***************************************************************************)
Home == [str |-> 0, rot |-> 0, hei |-> 0, hand |-> 0]
DropOff == [str |-> 30, rot |-> 90, hei |-> 50, hand |-> 0]

Held == {b \in Boxes : boxAt[b] = "held"}

BoxFollows(b) ==
    CASE boxAt[b] = "held" /\ arm'.ctl = Release ->
           IF arm.at = DropOff /\ arm'.at = DropOff THEN "delivered" ELSE "dropped"
      [] boxAt[b] = "field" /\ Held = {} /\ arm'.ctl = Catch /\ arm'.at = BoxPos[b] -> "held"
      [] OTHER -> boxAt[b]

WorldFollows ==
    /\ boxAt' = [b \in Boxes |-> BoxFollows(b)]
    /\ disturbed' = (Held # {} /\ boxAt' = boxAt /\ (disturbed \/ arm'.by \in Sessions))

World ==
    IF arm' = arm
      THEN /\ disturbed' = (disturbed \/ (Held # {} /\ writeFailed'))
           /\ UNCHANGED boxAt
      ELSE WorldFollows

-----------------------------------------------------------------------------
(* The camera. *)

\* A click the handler of which runs at once on the idle animation thread.
Click ==
    /\ awake /\ gui = "idle"
    /\ clicks < MaxClicks
    /\ clicks' = clicks + 1

\* exitCamera throws when no startCam thread has set video yet.
ExitCamera == video # "null" /\ video' = "stopped"

\* Mutant of LeaveUSB: exitCamera is called before CAMERA_EN is cleared.
LeaveUSBExitFirst ==
    \/ ExitCamera /\ usbBox' = FALSE /\ cameraEn' = FALSE
    \/ video = "null" /\ UNCHANGED <<video, usbBox, cameraEn>>

LeaveUSB ==
    /\ cameraEn' = FALSE
    /\ \/ ExitCamera /\ usbBox' = FALSE
       \/ video = "null" /\ UNCHANGED <<video, usbBox>>

\* checkbox1_clicked1: the camera's stream comes from ffserver.
ClickFF ==
    /\ Click
    /\ ffBox' = ~ffBox
    /\ ffEn' = ~ffBox
    /\ locateOn' = ~ffBox
    /\ IF usbBox THEN LeaveUSB ELSE UNCHANGED <<cameraEn, video, usbBox>>
    /\ UNCHANGED <<gui, ready, starters, offerOn, boxCoordinates, scan, getVars>>

\* checkbox2_clicked1, selected: start the camera in a thread of its own.
SelectUSB ==
    /\ Click
    /\ ~usbBox
    /\ usbBox' = TRUE
    /\ cameraEn' = TRUE
    /\ locateOn' = TRUE
    /\ starters' = [starters EXCEPT !["new"] = @ + 1]
    /\ IF ffBox THEN ffEn' = FALSE /\ ffBox' = FALSE ELSE UNCHANGED <<ffEn, ffBox>>
    /\ UNCHANGED <<gui, video, ready, offerOn, boxCoordinates, scan, getVars>>

\* checkbox2_clicked1, deselected.
DeselectUSB ==
    /\ Click
    /\ usbBox
    /\ usbBox' = FALSE
    /\ cameraEn' = FALSE
    /\ \/ /\ ExitCamera
          /\ locateOn' = FALSE
          /\ IF ffBox THEN ffEn' = FALSE /\ ffBox' = FALSE ELSE UNCHANGED <<ffEn, ffBox>>
       \/ /\ video = "null"
          /\ UNCHANGED <<video, locateOn, ffEn, ffBox>>
    /\ UNCHANGED <<gui, ready, starters, offerOn, boxCoordinates, scan, getVars>>

\* startCam.run: new Capture, then start() on whatever video is by then.
StartCamNew ==
    /\ starters.new > 0
    /\ starters' = [new |-> starters.new - 1, start |-> starters.start + 1]
    /\ video' = "stopped"
    /\ UNCHANGED <<gui, usbBox, ffBox, cameraEn, ffEn, ready,
                   offerVars, scan, getVars, clicks>>

StartCamStart ==
    /\ starters.start > 0
    /\ starters' = [starters EXCEPT !["start"] = @ - 1]
    /\ video' = "running"
    /\ ready' = TRUE
    /\ UNCHANGED <<gui, usbBox, ffBox, cameraEn, ffEn,
                   offerVars, scan, getVars, clicks>>

-----------------------------------------------------------------------------
(* Locating boxes: button3_click1 and scanForBoxes. *)

panelButArm == <<shown, target, updateEn, serialUp, awake, inputs, userSet>>

\* The arm goes home, the video stops for the detector to use the camera.
\* With video still null, or serialOut null, the handler ends in an exception.
Locate ==
    /\ Click
    /\ locateOn
    /\ cameraEn \/ ffEn
    /\ serialUp
    /\ SendPos(Home, suctionCup, Console)
    /\ IF cameraEn
         THEN \/ ExitCamera /\ gui' = "look"
              \/ video = "null" /\ UNCHANGED <<video, gui>>
         ELSE gui' = "look" /\ UNCHANGED video
    /\ UNCHANGED <<panelButArm, suctionCup, usbBox, ffBox, cameraEn, ffEn, ready,
                   starters, offerVars, scan, getVars>>

\* The detector may report any boxes on the field.
Sightings == {S \in SUBSET Boxes : S # {} /\ \A b \in S : boxAt[b] = "field"}

\* The pose that locate reckons with: the one its caller sent the arm to.
Assumed == IF gui = "look" THEN Home ELSE [Home EXCEPT !["rot"] = scan.i * 30]

\* The coordinates computed for b are its own only if the arm, which carries the
\* camera, has got to that pose and is still there.
Computed(b) == IF arm.at = Assumed THEN {BoxPos[b]} ELSE Mistaken

\* BoxRetrieve.locate, here or in the scan, that sees boxes.
Found ==
    /\ gui \in {"look", "scanLook"}
    /\ \E S \in Sightings :
         /\ boxCoordinates' \in [S -> UNION {Computed(b) : b \in S}]
         /\ \A b \in S : boxCoordinates'[b] \in Computed(b)
    /\ gui' = "resume"
    /\ scan' = ScanStart

\* No tag in twenty images, none in reach, or no image: locate returns an
\* empty vector, button3_click1 keeps it and calls scanForBoxes.
NoneAtHome ==
    /\ gui = "look"
    /\ boxCoordinates' = NoSighting
    /\ scan' = ScanStart
    /\ gui' = "scan"

\* Mutants of Turned: a step late, a step early.
TurnedLate(i, up)  == (up \/ i < -3) /\ i <= 3
TurnedEarly(i, up) == (up \/ i <= -2) /\ i < 2

\* The direction after looking at i.
Turned(i, up) == (up \/ i <= -3) /\ i < 3

NoneInScan ==
    /\ gui = "scanLook"
    /\ LET i == IF scan.up THEN scan.i + 1 ELSE scan.i - 1
       IN  scan' = [i |-> i, up |-> Turned(i, scan.up)]
    /\ gui' = "scan"
    /\ UNCHANGED boxCoordinates

\* ImageSource.make failed, or getFrame returned null: an exception.
CameraFault ==
    /\ gui \in {"look", "scanLook"} /\ cameraEn
    /\ gui' = "idle"
    /\ scan' = ScanStart
    /\ UNCHANGED boxCoordinates

\* The MJPEG parser never becomes ready: get_image polls it for ever.
StreamStalls ==
    /\ gui \in {"look", "scanLook"} /\ ~cameraEn
    /\ gui' = "hung"
    /\ scan' = ScanStart
    /\ UNCHANGED boxCoordinates

Look ==
    /\ Found \/ NoneAtHome \/ NoneInScan \/ CameraFault \/ StreamStalls
    /\ UNCHANGED <<panelVars, cameraVars, locateOn, offerOn, getVars, clicks>>

ScanTurn ==
    /\ gui = "scan"
    /\ SendPos([Home EXCEPT !["rot"] = scan.i * 30], suctionCup, Console)
    /\ gui' = "scanLook"
    /\ UNCHANGED <<panelButArm, suctionCup, cameraVars, offerVars, scan, getVars, clicks>>

\* Boxes were found: the video starts again, retrieval is offered.
Offer ==
    /\ gui = "resume"
    /\ video' = IF cameraEn THEN "running" ELSE video
    /\ offerOn' = TRUE
    /\ gui' = "idle"
    /\ UNCHANGED <<panelVars, usbBox, ffBox, cameraEn, ffEn, ready, starters,
                   locateOn, boxCoordinates, scan, getVars, clicks>>

-----------------------------------------------------------------------------
(* Retrieving boxes: getBox, for button4 and for the prompt. *)

\* Where getBox sends the arm for the box at p, in order.
Stops(p) ==
    LET above(d) == [p EXCEPT !["hei"] = @ + d]
    IN << [above(75) EXCEPT !["str"] = 0, !["rot"] = 0], above(65), p, above(75),
          DropOff, DropOff, [DropOff EXCEPT !["rot"] = 0], Home >>

\* Mutants of Pump: it starts one stop late; the valve opens on the way.
PumpLate  == <<Release, Release, Release, Catch, Catch, Release, Release, Release>>
PumpShort == <<Release, Release, Catch, Catch, Release, Release, Release, Release>>

\* The control byte at each stop.
Pump == <<Release, Release, Catch, Catch, Catch, Release, Release, Release>>

StartGet ==
    /\ suctionCup' = Release
    /\ todo' = located
    /\ cur' = NoBox
    /\ step' = 0
    /\ spoilt' = {}
    /\ gui' = "get"

Retrieve ==
    /\ Click
    /\ offerOn
    /\ StartGet
    /\ UNCHANGED <<armVars, panelButArm, cameraVars, offerVars, scan>>

\* Mutant of Without: the loop does not get to the next box.
WithoutNone(b) == todo

Without(b) == todo \ {b}

\* One frame.  serialOut is not null: the search before would have thrown.  A
\* frame that is not written delays nothing, and getBox goes on to the next.
GetFrame ==
    /\ gui = "get"
    /\ \E b \in IF step = 0 THEN todo ELSE {cur} :
         /\ SendPos(Stops(boxCoordinates[b])[step + 1], Pump[step + 1], Console)
         /\ suctionCup' = Pump[step + 1]
         /\ IF step < 7
              THEN step' = step + 1 /\ cur' = b /\ UNCHANGED todo
              ELSE step' = 0 /\ cur' = NoBox /\ todo' = Without(b)
         /\ spoilt' = IF writeFailed' THEN spoilt \cup {b} ELSE spoilt
    /\ UNCHANGED <<gui, panelButArm, cameraVars, offerVars, scan, clicks>>

\* Mutant of GetDone: the buttons are not disabled.
GetDoneOfferStays ==
    /\ gui = "get" /\ step = 0 /\ todo = {}
    /\ gui' = "idle"
    /\ UNCHANGED <<panelVars, cameraVars, offerVars, scan, getVars, clicks>>

GetDone ==
    /\ gui = "get" /\ step = 0 /\ todo = {}
    /\ offerOn' = FALSE
    /\ gui' = "idle"
    /\ UNCHANGED <<panelVars, cameraVars, locateOn, boxCoordinates, scan, getVars, clicks>>

-----------------------------------------------------------------------------
(* Asking a tablet: button5_click1 and sendZMQ. *)

AskTablet ==
    /\ Click
    /\ offerOn
    /\ gui' = "bind"
    /\ UNCHANGED <<linkVars, panelVars, cameraVars, offerVars, scan, getVars>>

PromptBind ==
    /\ gui = "bind"
    /\ Bind(Prompt)
    /\ gui' = "recv"
    /\ UNCHANGED <<panelVars, cameraVars, offerVars, scan, getVars, clicks>>

\* Mutant of PromptRecv: the prompt uses the socket of the session.
PromptRecvShared ==
    /\ gui = "recv"
    /\ \E c \in Clients :
         /\ req[c].st = "inbox"
         /\ req' = [req EXCEPT ![c].st = "taken", ![c].at = Prompt]
    /\ gui' = "answer"
    /\ UNCHANGED <<port, sent, panelVars, cameraVars, offerVars, scan, getVars, clicks>>

PromptRecv ==
    /\ gui = "recv"
    /\ \E c \in Clients : Take(Prompt, c)
    /\ gui' = "answer"
    /\ UNCHANGED <<panelVars, cameraVars, offerVars, scan, getVars, clicks>>

\* y and n end the prompt; any other text is answered with the question.
PromptAnswer ==
    /\ gui = "answer"
    /\ Reply(Prompt)
    /\ \E c \in Clients :
         /\ req[c].st = "taken" /\ req[c].at = Prompt
         /\ gui' = CASE req[c].msg = "y" -> "closeYes"
                     [] req[c].msg = "n" -> "closeNo"
                     [] OTHER -> "recv"
    /\ UNCHANGED <<panelVars, cameraVars, offerVars, scan, getVars, clicks>>

PromptClose ==
    /\ CloseSocket(Prompt)
    /\ \/ /\ gui = "closeYes"
          /\ StartGet
          /\ UNCHANGED <<armVars, panelButArm>>
       \/ /\ gui = "closeNo"
          /\ gui' = "idle"
          /\ UNCHANGED <<panelVars, getVars>>
    /\ UNCHANGED <<cameraVars, offerVars, scan, clicks>>

-----------------------------------------------------------------------------
(* The whole console. *)

\* button6 also switches the other buttons, and only button3 on again.
Button6 ==
    /\ gui = "idle"
    /\ \/ /\ \E s \in Sessions : BeginSession(s)
          /\ locateOn' = FALSE
          /\ offerOn' = FALSE
       \/ /\ EndSession
          /\ locateOn' = TRUE
          /\ UNCHANGED offerOn
    /\ UNCHANGED <<gui, cameraVars, boxCoordinates, scan, getVars, clicks, worldVars>>

Checkbox ==
    /\ ClickFF \/ SelectUSB \/ DeselectUSB
    /\ UNCHANGED <<vars, worldVars>>

CameraThread ==
    /\ StartCamNew \/ StartCamStart
    /\ UNCHANGED <<vars, worldVars>>

StartHandler ==
    /\ \/ (Locate \/ Retrieve) /\ UNCHANGED linkVars
       \/ AskTablet
    /\ UNCHANGED <<sessionVars, clicked>>
    /\ World

\* The steps of a handler that is under way.
HandlerStep ==
    /\ \/ (Look \/ ScanTurn \/ Offer \/ GetFrame \/ GetDone) /\ UNCHANGED linkVars
       \/ PromptBind \/ PromptRecv \/ PromptAnswer \/ PromptClose
    /\ UNCHANGED <<sessionVars, clicked>>
    /\ World

WindowFrame ==
    /\ gui = "idle"
    /\ AnimationFrame
    /\ World
    /\ UNCHANGED windowVars

WindowInput == gui = "idle" /\ PanelInput /\ UNCHANGED <<windowVars, worldVars>>

WindowThread(s) == Thread(s) /\ World /\ UNCHANGED windowVars

WindowTablet(c) == Tablet(c) /\ UNCHANGED <<windowVars, worldVars>>

WindowNetwork == Network /\ UNCHANGED <<windowVars, worldVars>>

WindowNext ==
    \/ Button6 \/ Checkbox \/ CameraThread \/ StartHandler \/ HandlerStep
    \/ WindowFrame \/ WindowInput \/ WindowNetwork
    \/ \E s \in Sessions : WindowThread(s)
    \/ \E c \in Clients : WindowTablet(c)

WindowSpec == WindowInit /\ [][WindowNext]_consoleVars

\* Threads that can run do; the user and the camera owe nothing: a look may
\* find no box again and again.
WindowFairness ==
    /\ WF_consoleVars(HandlerStep)
    /\ WF_consoleVars(CameraThread)
    /\ WF_consoleVars(WindowFrame)
    /\ WF_consoleVars(WindowNetwork)
    /\ \A s \in Sessions : WF_consoleVars(WindowThread(s))

FairWindowSpec == WindowSpec /\ WindowFairness

-----------------------------------------------------------------------------
(* Safety. *)

\* The prompt and the sessions share one endpoint: of the sessions at most its
\* owner works on a request, and when the prompt has a tablet's answer in hand,
\* none does, and the socket that is bound is the prompt's.
OneServerAtWork ==
    /\ SingleDriver
    /\ gui \in {"answer", "closeYes", "closeNo"} =>
           /\ port = Prompt
           /\ \A s \in Sessions : pc[s] \notin Busy

\* The two feeds exclude each other, also when exitCamera throws in the
\* middle of a checkbox handler because no Capture exists yet.
OneFeed == ~(cameraEn /\ ffEn)

\* As long as retrieval is offered, the boxes it would go for are on the field:
\* no second trip to a place that was emptied already.
OfferedBoxesThere ==
    (offerOn /\ gui # "get") => \A b \in located : boxAt[b] = "field"

\* When a retrieval returns, every box it went for is off the field and off
\* the cup, whatever the tablets' sessions did to the arm meanwhile: unless a
\* frame for this very box was not written, or a session had moved the camera
\* before the box was seen.  A trip that failed spoils no other.
EveryBoxHandled ==
    [][(gui = "get" /\ gui' = "idle") =>
         \A b \in located \ spoilt :
             boxCoordinates[b] = BoxPos[b] =>
                 boxAt'[b] \in {"delivered", "dropped"}]_consoleVars

\* What retrieving promises for the boxes.
Delivery == INSTANCE BoxDelivery WITH by <- arm.by

DeliveryKept == Delivery!Spec

-----------------------------------------------------------------------------
(* Liveness, under WindowFairness. *)

\* A scan that goes on finding nothing looks in each of its directions.
Scanning == gui \in {"scan", "scanLook"}

ScanCovers == \A k \in -3..3 : Scanning ~> (~Scanning \/ scan.i = k)

\* A retrieval comes to its end and gives the window back to the user.
RetrievalEnds == gui = "get" ~> gui = "idle"

-----------------------------------------------------------------------------
(* What the comments and the instructions say, and the code does not do. *)

\* BuildInstructions.md, 9: "Once a box is found the "Retrieve Boxes" and
\* "Send ZMQ" buttons will become available": they offer boxes.
OfferIsOfBoxes == (gui = "idle" /\ offerOn) => located # {}

\* BuildInstructions.md, 9: ""Send ZMQ" will send a message to the Android
\* tablet and let the tablet decide": a tablet's answer ends the prompt.
TabletDecides ==
    (gui = "recv" /\ \E c \in Clients : req[c].st = "queued" /\ req[c].msg = "y")
        ~> gui \notin {"recv"}

\* button6_click1: "Gets the current location for all of the servos".
ServosLocated ==
    [][\A s \in Sessions :
         (pc[s] = "unborn" /\ pc'[s] = "bind" /\ AtRest /\ arm.by # Nobody)
            => \A a \in {"str", "rot", "hei"} : loc'[s][a] = arm.at[a]]_consoleVars
=============================================================================

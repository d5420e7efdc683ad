-------------------------- MODULE UArmClientProofs --------------------------
(***************************************************************************)
(* Proofs about the console's window, for any sessions, tablets, messages, *)
(* positions and boxes, and any number of clicks.                          *)
(***************************************************************************)
EXTENDS UArmClient, RemoteControlProofs

-----------------------------------------------------------------------------
(***************************************************************************)
(* Type correctness.  That the scan stays within its directions needs to   *)
(* know which way it goes, and that the starting threads can be counted    *)
(* needs the clicks that started them.                                     *)
(***************************************************************************)

\* scanForBoxes turns round when it has looked at -3, and ends its turn at 3.
ScanWithin == IF scan.up THEN scan.i < 3 ELSE scan.i > -3

\* Each starting thread was started by a click of its own.
StartersCounted == starters["new"] + starters["start"] <= clicks

\* getBox goes for located boxes only: it looks up where they are.
Fetchable ==
    gui = "get" => todo \subseteq located /\ (step > 0 => cur \in located)

WindowTypes ==
    /\ gui \in GuiState
    /\ usbBox \in BOOLEAN /\ ffBox \in BOOLEAN
    /\ cameraEn \in BOOLEAN /\ ffEn \in BOOLEAN /\ ready \in BOOLEAN
    /\ locateOn \in BOOLEAN /\ offerOn \in BOOLEAN
    /\ video \in {"null", "stopped", "running"}
    /\ starters \in [{"new", "start"} -> Nat]
    /\ StartersCounted
    /\ located \subseteq Boxes
    /\ boxCoordinates \in [located -> Position]
    /\ scan \in [i : -3..3, up : BOOLEAN]
    /\ ScanWithin
    /\ todo \subseteq Boxes
    /\ spoilt \subseteq Boxes
    /\ Fetchable
    /\ cur \in Boxes \cup {NoBox}
    /\ step \in 0..7
    /\ step > 0 => cur \in Boxes
    /\ clicks \in 0..MaxClicks

WorldTypes ==
    /\ boxAt \in [Boxes -> {"field", "held", "delivered", "dropped"}]
    /\ disturbed \in BOOLEAN

ConsoleTypes == TypeOK /\ WindowTypes /\ WorldTypes

\* It says more than the type invariant that is checked.
LEMMA ConsoleTypesImply == ConsoleTypes => WindowTypeOK
<1> SUFFICES ASSUME ConsoleTypes PROVE WindowTypeOK
  OBVIOUS
<1>1. {usbBox, ffBox, cameraEn, ffEn, ready, locateOn, offerOn, disturbed} \subseteq BOOLEAN
  BY DEF ConsoleTypes, WindowTypes, WorldTypes
<1>2. starters \in [{"new", "start"} -> 0..MaxClicks]
  BY MaxClicksAssumption DEF ConsoleTypes, WindowTypes, StartersCounted
<1> QED
  BY <1>1, <1>2 DEF ConsoleTypes, WindowTypes, WorldTypes, WindowTypeOK

\* Where the handlers send the arm are positions.
LEMMA PlacesType == Home \in Position /\ DropOff \in Position
  BY DEF Home, DropOff, Position, Axes

\* A turn of the scan is a position.
LEMMA TurnType ==
  ASSUME NEW i \in Int
  PROVE  [Home EXCEPT !["rot"] = i * 30] \in Position
<1>1. i * 30 \in Int
  OBVIOUS
<1> QED
  BY <1>1, PlacesType DEF Position, Axes

\* So is each of the eight stops of getBox for a box.
LEMMA StopsType ==
  ASSUME NEW p \in Position, NEW k \in 0..7
  PROVE  Stops(p)[k + 1] \in Position /\ Pump[k + 1] \in {Catch, Release}
<1>1. \A d \in Int : [p EXCEPT !["hei"] = @ + d] \in Position
  BY DEF Position, Axes
<1>2. [[p EXCEPT !["hei"] = @ + 75] EXCEPT !["str"] = 0, !["rot"] = 0] \in Position
  BY DEF Position, Axes
<1>3. [DropOff EXCEPT !["rot"] = 0] \in Position
  BY PlacesType DEF Position, Axes
<1>4. k + 1 \in 1..8
  OBVIOUS
<1>5. Stops(p)[k + 1] \in Position
  BY <1>1, <1>2, <1>3, <1>4, PlacesType DEF Stops
<1>6. Pump[k + 1] \in {Catch, Release}
  BY <1>4 DEF Pump
<1> QED
  BY <1>5, <1>6

\* The world follows the arm's frames within its types.
LEMMA WorldType ==
  ASSUME WorldTypes, World \/ UNCHANGED worldVars
  PROVE  WorldTypes'
<1>1. CASE UNCHANGED worldVars
  BY <1>1 DEF WorldTypes, worldVars
<1>2. CASE WorldFollows
  <2>1. \A b \in Boxes : BoxFollows(b) \in {"field", "held", "delivered", "dropped"}
    BY DEF WorldTypes, BoxFollows
  <2>2. disturbed' \in BOOLEAN
    BY <1>2, Zenon DEF WorldFollows
  <2> QED
    BY <1>2, <2>1, <2>2 DEF WorldTypes, WorldFollows
<1>3. CASE World /\ arm' = arm
  <2>1. disturbed' \in BOOLEAN /\ boxAt' = boxAt
    BY <1>3, Zenon DEF World
  <2> QED
    BY <2>1 DEF WorldTypes
<1> QED
  BY <1>1, <1>2, <1>3 DEF World

\* At the start nothing is selected, started, offered or located.
LEMMA ConsoleTypesInit == WindowInit => ConsoleTypes
<1> SUFFICES ASSUME WindowInit PROVE ConsoleTypes
  OBVIOUS
<1>1. TypeOK
  BY TypeInit DEF WindowInit
<1>2. WorldTypes
  BY DEF WindowInit, WorldTypes
<1>3. starters \in [{"new", "start"} -> Nat] /\ StartersCounted
  BY DEF WindowInit, StartersCounted
<1>4. scan \in [i : -3..3, up : BOOLEAN] /\ ScanWithin
  BY DEF WindowInit, ScanStart, ScanWithin
<1>5. clicks \in 0..MaxClicks /\ step \in 0..7 /\ ~(step > 0)
  BY MaxClicksAssumption DEF WindowInit
<1>6. /\ gui \in GuiState /\ video \in {"null", "stopped", "running"}
      /\ todo \subseteq Boxes /\ cur \in Boxes \cup {NoBox} /\ spoilt \subseteq Boxes
      /\ Fetchable
  BY DEF WindowInit, GuiState, Fetchable
<1>8. located \subseteq Boxes /\ boxCoordinates \in [located -> Position]
  BY DEF WindowInit, NoSighting, located
<1>7. WindowTypes
  BY <1>3, <1>4, <1>5, <1>6, <1>8, Zenon DEF WindowInit, WindowTypes
<1> QED
  BY <1>1, <1>2, <1>7 DEF ConsoleTypes

\* The checkboxes.
LEMMA CheckboxTypes ==
  ASSUME WindowTypes, ClickFF \/ SelectUSB \/ DeselectUSB
  PROVE  WindowTypes'
<1>1. clicks' \in 0..MaxClicks /\ clicks' = clicks + 1
  BY MaxClicksAssumption DEF ClickFF, SelectUSB, DeselectUSB, Click, WindowTypes
<1>2. /\ gui' = gui /\ ready' = ready /\ offerOn' = offerOn
      /\ UNCHANGED <<boxCoordinates, scan, todo, cur, step, spoilt>>
  BY DEF ClickFF, SelectUSB, DeselectUSB, getVars
<1>3. /\ usbBox' \in BOOLEAN /\ ffBox' \in BOOLEAN /\ cameraEn' \in BOOLEAN
      /\ ffEn' \in BOOLEAN /\ locateOn' \in BOOLEAN
  <2>1. CASE ClickFF
    BY <2>1, Zenon DEF ClickFF, LeaveUSB, WindowTypes
  <2>2. CASE SelectUSB
    BY <2>2, Zenon DEF SelectUSB, WindowTypes
  <2>3. CASE DeselectUSB
    BY <2>3, Zenon DEF DeselectUSB, WindowTypes
  <2> QED
    BY <2>1, <2>2, <2>3
<1>4. video' \in {"null", "stopped", "running"}
  BY DEF ClickFF, LeaveUSB, SelectUSB, DeselectUSB, ExitCamera, WindowTypes
<1>5. starters' \in [{"new", "start"} -> Nat] /\ StartersCounted'
  <2>1. starters' = starters \/ starters' = [starters EXCEPT !["new"] = @ + 1]
    BY DEF ClickFF, SelectUSB, DeselectUSB
  <2> QED
    BY <1>1, <2>1 DEF WindowTypes, StartersCounted
<1> QED
  BY <1>1, <1>2, <1>3, <1>4, <1>5 DEF WindowTypes, ScanWithin, Fetchable, located

\* The starting threads.
LEMMA StarterTypes ==
  ASSUME WindowTypes, StartCamNew \/ StartCamStart
  PROVE  WindowTypes'
<1>1. starters' \in [{"new", "start"} -> Nat]
      /\ starters'["new"] + starters'["start"] <= starters["new"] + starters["start"]
  BY DEF StartCamNew, StartCamStart, WindowTypes
<1>2. video' \in {"null", "stopped", "running"} /\ ready' \in BOOLEAN
  BY DEF StartCamNew, StartCamStart, WindowTypes
<1>3. UNCHANGED <<gui, usbBox, ffBox, cameraEn, ffEn, offerVars, scan, getVars, clicks>>
  BY DEF StartCamNew, StartCamStart
<1> QED
  BY <1>1, <1>2, <1>3
  DEF WindowTypes, StartersCounted, ScanWithin, Fetchable, located, offerVars, getVars

\* The clicks that start a handler.
LEMMA StartTypes ==
  ASSUME WindowTypes, Locate \/ Retrieve \/ AskTablet
  PROVE  WindowTypes'
<1>1. clicks' \in 0..MaxClicks /\ clicks' = clicks + 1
  BY MaxClicksAssumption DEF Locate, Retrieve, AskTablet, Click, WindowTypes
<1>2. UNCHANGED <<usbBox, ffBox, cameraEn, ffEn, ready, starters, offerVars, scan>>
  BY DEF Locate, Retrieve, AskTablet, cameraVars
<1>3. CASE Locate
  <2>1. gui' \in GuiState /\ video' \in {"null", "stopped", "running"} /\ gui' # "get"
    BY <1>3 DEF Locate, Click, ExitCamera, WindowTypes, GuiState
  <2>2. UNCHANGED getVars
    BY <1>3 DEF Locate
  <2> QED
    BY <1>1, <1>2, <1>3, <2>1, <2>2
    DEF WindowTypes, StartersCounted, ScanWithin, Fetchable, located, offerVars, getVars
<1>4. CASE Retrieve
  <2>1. /\ gui' = "get" /\ todo' = located /\ cur' = NoBox /\ step' = 0
        /\ spoilt' = {} /\ video' = video
    BY <1>4 DEF Retrieve, StartGet, cameraVars
  <2> QED
    BY <1>1, <1>2, <2>1
    DEF WindowTypes, StartersCounted, ScanWithin, Fetchable, located, offerVars, GuiState
<1>5. CASE AskTablet
  <2>1. gui' = "bind" /\ UNCHANGED <<getVars, video>>
    BY <1>5 DEF AskTablet, cameraVars
  <2> QED
    BY <1>1, <1>2, <2>1
    DEF WindowTypes, StartersCounted, ScanWithin, Fetchable, located, offerVars, getVars,
        GuiState
<1> QED
  BY <1>3, <1>4, <1>5

\* A look, at home or in the scan.
LEMMA LookTypes ==
  ASSUME WindowTypes, Look
  PROVE  WindowTypes'
<1>1. UNCHANGED <<cameraVars, locateOn, offerOn, getVars, clicks>>
  BY DEF Look
<1>2. gui' \in GuiState \ {"get"}
  BY DEF Look, Found, NoneAtHome, NoneInScan, CameraFault, StreamStalls, GuiState
<1>4. located' \subseteq Boxes /\ boxCoordinates' \in [located' -> Position]
  <2>1. CASE Found
    <3>1. PICK S \in Sightings :
            /\ boxCoordinates' \in [S -> UNION {Computed(b) : b \in S}]
            /\ \A b \in S : boxCoordinates'[b] \in Computed(b)
      BY <2>1 DEF Found
    <3>2. S \subseteq Boxes /\ located' = S
      BY <3>1 DEF Sightings, located
    <3>3. \A b \in S : Computed(b) \subseteq Position
      BY <3>2, BoxAssumption, MistakenAssumption DEF Computed
    <3> QED
      BY <3>1, <3>2, <3>3
  <2>2. CASE NoneAtHome
    BY <2>2 DEF NoneAtHome, NoSighting, located
  <2>3. CASE boxCoordinates' = boxCoordinates
    BY <2>3 DEF WindowTypes, located
  <2> QED
    BY <2>1, <2>2, <2>3 DEF Look, NoneInScan, CameraFault, StreamStalls
<1>3. scan' \in [i : -3..3, up : BOOLEAN] /\ ScanWithin'
  <2>1. CASE NoneInScan
    <3>1. PICK i \in Int : /\ i = IF scan.up THEN scan.i + 1 ELSE scan.i - 1
                           /\ scan' = [i |-> i, up |-> Turned(i, scan.up)]
      BY <2>1 DEF NoneInScan, WindowTypes
    <3>2. i \in -3..3
      BY <3>1 DEF WindowTypes, ScanWithin
    <3>3. scan'.i = i /\ scan'.up = Turned(i, scan.up)
      BY <3>1
    <3>4. Turned(i, scan.up) \in BOOLEAN
      BY Zenon DEF Turned
    <3>5. scan.up \in BOOLEAN
      BY DEF WindowTypes
    <3>6. Turned(i, scan.up) => i < 3
      BY DEF Turned
    <3>7. ~Turned(i, scan.up) => i > -3
      BY <3>1, <3>2, <3>5 DEF Turned
    <3> QED
      BY <3>1, <3>2, <3>3, <3>4, <3>6, <3>7 DEF ScanWithin
  <2>2. CASE scan' = ScanStart
    BY <2>2 DEF ScanStart, ScanWithin
  <2> QED
    BY <2>1, <2>2 DEF Look, Found, NoneAtHome, CameraFault, StreamStalls
<1> QED
  BY <1>1, <1>2, <1>3, <1>4
  DEF WindowTypes, StartersCounted, Fetchable, cameraVars, getVars

\* The other steps that locate boxes.
LEMMA ScanTypes ==
  ASSUME WindowTypes, ScanTurn \/ Offer
  PROVE  WindowTypes'
<1>1. UNCHANGED <<usbBox, ffBox, cameraEn, ffEn, ready, starters, locateOn,
                  boxCoordinates, scan, getVars, clicks>>
  BY DEF ScanTurn, Offer, cameraVars, offerVars
<1>2. offerOn' \in BOOLEAN
  <2>1. CASE ScanTurn
    BY <2>1, Zenon DEF ScanTurn, offerVars, WindowTypes
  <2>2. CASE Offer
    BY <2>2, Zenon DEF Offer
  <2> QED
    BY <2>1, <2>2
<1>3. gui' \in GuiState \ {"get"} /\ video' \in {"null", "stopped", "running"}
  BY DEF ScanTurn, Offer, cameraVars, WindowTypes, GuiState
<1> QED
  BY <1>1, <1>2, <1>3
  DEF WindowTypes, StartersCounted, ScanWithin, Fetchable, located, getVars

\* The steps of getBox.
LEMMA GetTypes ==
  ASSUME WindowTypes, GetFrame \/ GetDone
  PROVE  WindowTypes'
<1>1. UNCHANGED <<cameraVars, locateOn, boxCoordinates, scan, clicks>> /\ gui = "get"
  BY DEF GetFrame, GetDone, offerVars
<1>5. located' = located
  BY <1>1 DEF located
<1>2. offerOn' \in BOOLEAN
  <2>1. CASE GetFrame
    BY <2>1, Zenon DEF GetFrame, offerVars, WindowTypes
  <2>2. CASE GetDone
    BY <2>2, Zenon DEF GetDone
  <2> QED
    BY <2>1, <2>2
<1>3. gui' \in GuiState
  BY DEF GetFrame, GetDone, WindowTypes, GuiState
<1>4. /\ todo' \subseteq located /\ cur' \in Boxes \cup {NoBox}
      /\ step' \in 0..7 /\ (step' > 0 => cur' \in located)
      /\ spoilt' \subseteq Boxes
  <2>0. todo \subseteq located /\ (step > 0 => cur \in located) /\ located \subseteq Boxes
    BY <1>1 DEF WindowTypes, Fetchable
  <2>1. CASE GetFrame
    <3>1. PICK b \in IF step = 0 THEN todo ELSE {cur} :
            /\ \/ step < 7 /\ step' = step + 1 /\ cur' = b /\ UNCHANGED todo
               \/ step' = 0 /\ cur' = NoBox /\ todo' = Without(b)
            /\ spoilt' \in {spoilt \cup {b}, spoilt}
      BY <2>1 DEF GetFrame
    <3>2. b \in located
      BY <2>0 DEF WindowTypes
    <3> QED
      BY <2>0, <3>1, <3>2 DEF WindowTypes, Without
  <2>2. CASE GetDone
    BY <2>0, <2>2 DEF GetDone, getVars, WindowTypes
  <2> QED
    BY <2>1, <2>2
<1> QED
  BY <1>1, <1>2, <1>3, <1>4, <1>5
  DEF WindowTypes, StartersCounted, ScanWithin, Fetchable, cameraVars

\* The steps of the prompt.
LEMMA PromptTypes ==
  ASSUME WindowTypes, PromptBind \/ PromptRecv \/ PromptAnswer \/ PromptClose
  PROVE  WindowTypes'
<1>1. UNCHANGED <<cameraVars, offerVars, scan, clicks>>
  BY DEF PromptBind, PromptRecv, PromptAnswer, PromptClose
<1>2. gui' \in GuiState
  <2>1. CASE PromptAnswer
    <3>1. gui' \in {"closeYes", "closeNo", "recv"}
      BY <2>1 DEF PromptAnswer
    <3> QED
      BY <3>1 DEF GuiState
  <2> QED
    BY <2>1 DEF PromptBind, PromptRecv, PromptClose, StartGet, GuiState
<1>3. \/ UNCHANGED getVars /\ gui' # "get"
      \/ todo' = located /\ cur' = NoBox /\ step' = 0 /\ spoilt' = {}
  BY DEF PromptBind, PromptRecv, PromptAnswer, PromptClose, StartGet
<1> QED
  BY <1>1, <1>2, <1>3
  DEF WindowTypes, StartersCounted, ScanWithin, Fetchable, located, cameraVars, offerVars,
      getVars

\* The frames the handlers send are frames, and the byte is one of the two.
LEMMA ArmTypes ==
  ASSUME PanelTypeOK, WindowTypes, Locate \/ Retrieve \/ ScanTurn \/ GetFrame
  PROVE  PanelTypeOK'
<1>1. UNCHANGED panelButArm
  BY DEF Locate, Retrieve, ScanTurn, GetFrame
<1>2. suctionCup' \in {Catch, Release} /\ arm' \in Frame
  <2>1. CASE Locate
    <3>1. /\ arm' \in {arm, [at |-> Home, ctl |-> suctionCup, by |-> Console]}
          /\ suctionCup' = suctionCup
      BY <2>1 DEF Locate, SendPos
    <3> QED
      BY <3>1, PlacesType DEF PanelTypeOK, Frame
  <2>2. CASE Retrieve
    BY <2>2 DEF Retrieve, StartGet, PanelTypeOK, armVars
  <2>3. CASE ScanTurn
    <3>1. /\ arm' \in {arm, [at |-> [Home EXCEPT !["rot"] = scan.i * 30],
                             ctl |-> suctionCup, by |-> Console]}
          /\ suctionCup' = suctionCup
      BY <2>3 DEF ScanTurn, SendPos
    <3>2. scan.i \in Int
      BY DEF WindowTypes
    <3>3. [Home EXCEPT !["rot"] = scan.i * 30] \in Position
      BY <3>2, TurnType
    <3> QED
      BY <3>1, <3>3 DEF PanelTypeOK, Frame
  <2>4. CASE GetFrame
    <3>1. PICK b \in IF step = 0 THEN todo ELSE {cur} :
            /\ arm' \in {arm, [at |-> Stops(boxCoordinates[b])[step + 1],
                               ctl |-> Pump[step + 1], by |-> Console]}
            /\ suctionCup' = Pump[step + 1]
      BY <2>4 DEF GetFrame, SendPos
    <3>2. b \in located
      BY <2>4 DEF GetFrame, WindowTypes, Fetchable
    <3>3. boxCoordinates[b] \in Position /\ step \in 0..7
      BY <3>2 DEF WindowTypes
    <3>4. /\ Stops(boxCoordinates[b])[step + 1] \in Position
          /\ Pump[step + 1] \in {Catch, Release}
      BY <3>3, StopsType
    <3> QED
      BY <3>1, <3>4 DEF PanelTypeOK, Frame
  <2> QED
    BY <2>1, <2>2, <2>3, <2>4
<1>3. writeFailed' \in BOOLEAN
  BY Zenon DEF Locate, Retrieve, ScanTurn, GetFrame, SendPos, PanelTypeOK, armVars
<1> QED
  BY <1>1, <1>2, <1>3 DEF PanelTypeOK, panelButArm

\* Every step of the handlers keeps the link, the panel and the sessions typed.
LEMMA HandlerTypes ==
  ASSUME TypeOK, WindowTypes, StartHandler \/ HandlerStep
  PROVE  TypeOK' /\ WindowTypes'
<1>1. SessionTypeOK' /\ clicked' \in BOOLEAN
  BY DEF StartHandler, HandlerStep, TypeOK, SessionTypeOK, sessionVars
<1>2. CASE StartHandler
  <2>1. LinkTypeOK'
    BY <1>2 DEF StartHandler, AskTablet, TypeOK, LinkTypeOK, linkVars
  <2>2. PanelTypeOK'
    <3>1. CASE Locate \/ Retrieve
      BY <3>1, ArmTypes DEF TypeOK
    <3>2. CASE AskTablet
      BY <3>2 DEF AskTablet, TypeOK, PanelTypeOK, panelVars, armVars
    <3> QED
      BY <1>2, <3>1, <3>2 DEF StartHandler
  <2>3. WindowTypes'
    BY <1>2, StartTypes DEF StartHandler
  <2> QED
    BY <1>1, <2>1, <2>2, <2>3 DEF TypeOK
<1>3. CASE HandlerStep
  <2>1. LinkTypeOK'
    <3>1. CASE UNCHANGED linkVars
      BY <3>1 DEF TypeOK, LinkTypeOK, linkVars
    <3>2. CASE PromptBind \/ PromptRecv \/ PromptAnswer \/ PromptClose
      BY <3>2, SocketType, PromptAssumption
      DEF TypeOK, PromptBind, PromptRecv, PromptAnswer, PromptClose
    <3> QED
      BY <1>3, <3>1, <3>2 DEF HandlerStep
  <2>2. PanelTypeOK'
    <3>1. CASE ScanTurn \/ GetFrame
      BY <3>1, ArmTypes DEF TypeOK
    <3>2. CASE PromptClose
      BY <3>2 DEF PromptClose, StartGet, TypeOK, PanelTypeOK, panelButArm, panelVars, armVars
    <3>3. CASE UNCHANGED panelVars
      BY <3>3 DEF TypeOK, PanelTypeOK, panelVars, armVars
    <3> QED
      BY <1>3, <3>1, <3>2, <3>3
      DEF HandlerStep, Look, Offer, GetDone, PromptBind, PromptRecv, PromptAnswer
  <2>3. WindowTypes'
    BY <1>3, LookTypes, ScanTypes, GetTypes, PromptTypes DEF HandlerStep
  <2> QED
    BY <1>1, <2>1, <2>2, <2>3 DEF TypeOK
<1> QED
  BY <1>2, <1>3

\* The steps of the window that are steps of RemoteControl as they are.
LEMMA RemoteSteps ==
  ASSUME \/ Button6 \/ Checkbox \/ CameraThread \/ WindowFrame \/ WindowInput
         \/ WindowNetwork \/ (\E s \in Sessions : WindowThread(s))
         \/ (\E c \in Clients : WindowTablet(c)) \/ UNCHANGED consoleVars
  PROVE  [Next]_vars
  BY DEF Button6, Checkbox, CameraThread, WindowFrame, WindowInput, WindowNetwork,
         WindowThread, WindowTablet, Next, consoleVars

\* Every step of the console keeps every type.
LEMMA ConsoleTypesNext == ConsoleTypes /\ [WindowNext]_consoleVars => ConsoleTypes'
<1> SUFFICES ASSUME ConsoleTypes, [WindowNext]_consoleVars PROVE ConsoleTypes'
  OBVIOUS
<1> USE DEF ConsoleTypes
<1>1. WorldTypes'
  BY WorldType
  DEF WindowNext, Button6, Checkbox, CameraThread, StartHandler, HandlerStep,
      WindowFrame, WindowInput, WindowNetwork, WindowThread, WindowTablet, consoleVars
<1>2. CASE StartHandler \/ HandlerStep
  BY <1>1, <1>2, HandlerTypes
<1>3. CASE Checkbox \/ CameraThread
  <2>1. TypeOK'
    BY <1>3, RemoteSteps, TypeNext
  <2>2. WindowTypes'
    BY <1>3, CheckboxTypes, StarterTypes DEF Checkbox, CameraThread
  <2> QED
    BY <1>1, <2>1, <2>2
<1>4. CASE Button6
  <2>1. TypeOK'
    BY <1>4, RemoteSteps, TypeNext
  <2>2. locateOn' \in BOOLEAN /\ offerOn' \in BOOLEAN
    BY <1>4, Zenon DEF Button6, WindowTypes
  <2>3. UNCHANGED <<gui, cameraVars, boxCoordinates, scan, getVars, clicks>>
    BY <1>4 DEF Button6
  <2>4. WindowTypes'
    BY <2>2, <2>3
    DEF WindowTypes, StartersCounted, ScanWithin, Fetchable, located, cameraVars, getVars
  <2> QED
    BY <1>1, <2>1, <2>4
<1>5. CASE \/ WindowFrame \/ WindowInput \/ WindowNetwork
           \/ (\E s \in Sessions : WindowThread(s))
           \/ (\E c \in Clients : WindowTablet(c)) \/ UNCHANGED consoleVars
  <2>1. TypeOK'
    BY <1>5, RemoteSteps, TypeNext
  <2>2. UNCHANGED windowVars
    BY <1>5 DEF WindowFrame, WindowInput, WindowNetwork, WindowThread, WindowTablet,
                consoleVars
  <2>3. WindowTypes'
    BY <2>2 DEF WindowTypes, StartersCounted, ScanWithin, Fetchable, located, windowVars,
                cameraVars, offerVars, getVars
  <2> QED
    BY <1>1, <2>1, <2>3
<1> QED
  BY <1>2, <1>3, <1>4, <1>5 DEF WindowNext

\* Every variable of the console keeps its type; in particular scanForBoxes looks
\* nowhere beyond 90 degrees to either side, however often it finds nothing.
THEOREM ConsoleTyped == WindowSpec => []WindowTypeOK
<1> QED
  BY ConsoleTypesInit, ConsoleTypesNext, ConsoleTypesImply, PTL DEF WindowSpec

\* The same for the stronger types, which the proofs below rest on.
LEMMA ConsoleTypesAlways == WindowSpec => []ConsoleTypes
<1> QED
  BY ConsoleTypesInit, ConsoleTypesNext, PTL DEF WindowSpec

-----------------------------------------------------------------------------
(***************************************************************************)
(* The feeds.  A feed is enabled only while its checkbox is selected: that *)
(* is what a handler which looks at the other checkbox relies on, and what *)
(* an exception in exitCamera must not break.                              *)
(***************************************************************************)

FeedOfBox == (cameraEn => usbBox) /\ (ffEn => ffBox)

LEMMA FeedsNext ==
  ASSUME FeedOfBox, OneFeed, [WindowNext]_consoleVars
  PROVE  FeedOfBox' /\ OneFeed'
<1>1. CASE ClickFF
  BY <1>1, Zenon DEF ClickFF, LeaveUSB, FeedOfBox, OneFeed
<1>2. CASE SelectUSB
  BY <1>2, Zenon DEF SelectUSB, FeedOfBox, OneFeed
<1>3. CASE DeselectUSB
  <2>1. ~cameraEn' /\ (~ffEn' \/ UNCHANGED <<ffEn, ffBox>>)
    BY <1>3, Zenon DEF DeselectUSB
  <2>2. ASSUME ffEn' = ffEn, ffBox' = ffBox PROVE ffEn' => ffBox'
    <3>1. ffEn => ffBox
      BY DEF FeedOfBox
    <3> QED
      BY <2>2, <3>1, Zenon
  <2>3. ffEn' => ffBox'
    BY <2>1, <2>2, Zenon
  <2> QED
    BY <2>1, <2>3, Zenon DEF FeedOfBox, OneFeed
<1>4. CASE UNCHANGED <<usbBox, ffBox, cameraEn, ffEn>>
  BY <1>4, Zenon DEF FeedOfBox, OneFeed
<1>5. WindowNext => \/ ClickFF \/ SelectUSB \/ DeselectUSB
                    \/ UNCHANGED <<usbBox, ffBox, cameraEn, ffEn>>
  BY DEF WindowNext, Button6, Checkbox, CameraThread, StartHandler, HandlerStep,
         WindowFrame, WindowInput, WindowNetwork, WindowThread, WindowTablet,
         StartCamNew, StartCamStart, Locate, Retrieve, AskTablet, Look, ScanTurn,
         Offer, GetFrame, GetDone, PromptBind, PromptRecv, PromptAnswer, PromptClose,
         windowVars, cameraVars
<1>6. UNCHANGED consoleVars => UNCHANGED <<usbBox, ffBox, cameraEn, ffEn>>
  BY DEF consoleVars, windowVars, cameraVars
<1> QED
  BY <1>1, <1>2, <1>3, <1>4, <1>5, <1>6

\* Whatever order the checkboxes are clicked in, and whether or not a camera was
\* ever started: the USB camera and the stream are never both enabled.
THEOREM FeedsExclude == WindowSpec => []OneFeed
<1>1. WindowInit => FeedOfBox /\ OneFeed
  BY DEF WindowInit, FeedOfBox, OneFeed
<1> QED
  BY <1>1, FeedsNext, PTL DEF WindowSpec

-----------------------------------------------------------------------------
(***************************************************************************)
(* The endpoint.  The invariant of RemoteControl, with the prompt as one   *)
(* more server that may own the endpoint.                                  *)
(***************************************************************************)

\* From the tablet's answer to its close, the prompt owns the endpoint.
PromptHolder == gui \in {"answer", "closeYes", "closeNo"} => port = Prompt

Served == PortHolder /\ HandedToPort /\ PromptHolder

\* Steps that neither move a thread on nor touch the link.
LEMMA ServedFrame ==
  ASSUME Served, UNCHANGED <<port, req, pc>>,
         gui' \in {"answer", "closeYes", "closeNo"} => gui' = gui
  PROVE  Served'
<1>1. PortHolder' /\ HandedToPort'
  BY DEF Served, PortHolder, HandedToPort
<1>2. PromptHolder'
  BY DEF Served, PromptHolder
<1> QED
  BY <1>1, <1>2 DEF Served

\* Requests and replies under way: a request is handed to the endpoint's owner.
LEMMA ServedLink ==
  ASSUME TypeOK, Served, NEW c \in Clients,
         (\E m \in Messages : Send(c, m)) \/ Deliver(c) \/ Receive(c),
         UNCHANGED <<pc, gui>>
  PROVE  Served'
<1>1. req \in [Clients -> Request]
  BY DEF TypeOK, LinkTypeOK
<1>2. port' = port
  BY DEF Send, Deliver, Receive
<1>3. HandedToPort'
  BY <1>1, <1>2 DEF Served, HandedToPort, Send, Deliver, Receive, NoRequest, Request
<1> QED
  BY <1>2, <1>3 DEF Served, PortHolder, PromptHolder

\* A new session has nothing in hand.
LEMMA ServedBegin ==
  ASSUME TypeOK, Served, NEW s \in Sessions, BeginSession(s), gui' = gui
  PROVE  Served'
<1>1. pc \in [Sessions -> ThreadState]
  BY DEF TypeOK, SessionTypeOK
<1>2. pc' = [pc EXCEPT ![s] = "bind"] /\ port' = port /\ req' = req
  BY DEF BeginSession, Construct, GoTo, linkVars
<1> QED
  BY <1>1, <1>2 DEF Served, PortHolder, HandedToPort, PromptHolder, Busy

\* The socket operations, of a session or of the prompt: who takes a request
\* owns the endpoint, and who closes it has it no longer.
LEMMA SocketKeeps ==
  ASSUME TypeOK, HandedToPort, NEW s \in Servers,
         \/ Bind(s) \/ (\E c \in Clients : Take(s, c))
         \/ Reply(s) \/ CloseSocket(s)
  PROVE  /\ HandedToPort'
         /\ (\E c \in Clients : Take(s, c)) => port = s /\ port' = port
         /\ port' = port \/ port \in {NoServer, s}
<1>1. req \in [Clients -> Request] /\ s # NoServer
  BY ServersAssumption DEF TypeOK, LinkTypeOK
<1>2. CASE Bind(s)
  <2>1. \A c \in Clients : ~Take(s, c) \/ port' = port
    BY <1>2 DEF Take
  <2>2. HandedToPort'
    BY <1>1, <1>2 DEF HandedToPort, Bind
  <2>3. \A c \in Clients : Take(s, c) => port = s
    BY DEF Take, HasRequest, HandedToPort
  <2> QED
    BY <1>2, <2>1, <2>2, <2>3 DEF Bind
<1>3. ASSUME NEW c \in Clients, Take(s, c)
      PROVE  HandedToPort' /\ port = s /\ port' = port
  BY <1>1, <1>3 DEF HandedToPort, Take, HasRequest, Request
<1>4. CASE Reply(s)
  <2>1. HandedToPort' /\ port' = port
    BY <1>1, <1>4 DEF HandedToPort, Reply, Request
  <2> QED
    BY <1>3, <2>1
<1>5. CASE CloseSocket(s)
  <2>1. HandedToPort'
    BY <1>1, <1>5 DEF HandedToPort, CloseSocket, Request
  <2> QED
    BY <1>3, <1>5, <2>1 DEF CloseSocket
<1> QED
  BY <1>2, <1>3, <1>4, <1>5

\* A step of a session's thread.
LEMMA ServedThread ==
  ASSUME TypeOK, Served, NEW s \in Sessions, SessionStep(s), gui' = gui
  PROVE  Served'
<1>1. /\ pc \in [Sessions -> ThreadState] /\ s \in Servers
      /\ s # Prompt /\ Prompt # NoServer /\ NoServer \notin Sessions
  BY SessionsAssumption, PromptAssumption, ServersAssumption DEF TypeOK, SessionTypeOK
<1>2. CASE SessionBind(s)
  <2>1. HandedToPort'
    BY <1>1, <1>2, SocketKeeps DEF SessionBind, Served
  <2>2. /\ pc' = [pc EXCEPT ![s] = "recv"]
        /\ port' = IF port = NoServer THEN s ELSE port
    BY <1>2 DEF SessionBind, Bind, GoTo
  <2> QED
    BY <1>1, <2>1, <2>2 DEF Served, PortHolder, PromptHolder, Busy
<1>3. CASE SessionRecv(s)
  <2>1. HandedToPort' /\ port = s /\ port' = port
    BY <1>1, <1>3, SocketKeeps DEF SessionRecv, Served
  <2>2. pc' = [pc EXCEPT ![s] = "check"]
    BY <1>3 DEF SessionRecv, GoTo
  <2> QED
    BY <1>1, <2>1, <2>2 DEF Served, PortHolder, PromptHolder
<1>4. CASE SessionReply(s)
  <2>1. HandedToPort'
    BY <1>1, <1>4, SocketKeeps DEF SessionReply, Served
  <2>2. pc[s] = "reply" /\ pc' = [pc EXCEPT ![s] = "move"] /\ port' = port
    BY <1>4 DEF SessionReply, Reply, GoTo
  <2> QED
    BY <1>1, <2>1, <2>2 DEF Served, PortHolder, PromptHolder, Busy
<1>5. CASE SessionCheck(s) \/ SessionMove(s) \/ SessionAim(s) \/ SessionLift(s)
  <2>1. /\ pc[s] \in Busy /\ UNCHANGED <<port, req>>
        /\ \E l \in ThreadState : pc' = [pc EXCEPT ![s] = l]
    BY <1>5 DEF SessionCheck, AfterCheck, SessionMove, SessionAim, SessionLift, GoTo,
                linkVars, Busy, ThreadState
  <2> QED
    BY <1>1, <2>1 DEF Served, PortHolder, HandedToPort, PromptHolder
<1>6. CASE SessionClose(s)
  <2>1. HandedToPort'
    BY <1>1, <1>6, SocketKeeps DEF SessionClose, Served
  <2>2. /\ pc[s] = "close" /\ pc' = [pc EXCEPT ![s] = "ended"]
        /\ port' = IF port = s THEN NoServer ELSE port
    BY <1>6 DEF SessionClose, CloseSocket, GoTo
  <2>3. port = s
    BY <2>2 DEF Served, PortHolder
  <2> QED
    BY <1>1, <2>1, <2>2, <2>3 DEF Served, PortHolder, PromptHolder, Busy
<1> QED
  BY <1>2, <1>3, <1>4, <1>5, <1>6 DEF SessionStep

\* A step of the prompt: only the owner of the endpoint gets an answer.
LEMMA ServedPrompt ==
  ASSUME TypeOK, Served, UNCHANGED pc,
         PromptBind \/ PromptRecv \/ PromptAnswer \/ PromptClose
  PROVE  Served'
<1>1. Prompt \in Servers /\ Prompt \notin Sessions /\ Prompt # NoServer
      /\ NoServer \notin Sessions
  BY PromptAssumption, ServersAssumption, SessionsAssumption
<1>2. HandedToPort'
  BY <1>1, SocketKeeps
  DEF Served, PromptBind, PromptRecv, PromptAnswer, PromptClose
<1>3. CASE PromptBind
  BY <1>1, <1>2, <1>3 DEF PromptBind, Bind, Served, PortHolder, PromptHolder
<1>4. CASE PromptRecv
  <2>1. port = Prompt /\ port' = port
    BY <1>1, <1>4, SocketKeeps DEF PromptRecv, Served
  <2> QED
    BY <1>2, <2>1 DEF Served, PortHolder, PromptHolder
<1>5. CASE PromptAnswer
  <2>1. gui = "answer" /\ port' = port
    BY <1>5 DEF PromptAnswer, Reply
  <2> QED
    BY <1>2, <2>1 DEF Served, PortHolder, PromptHolder
<1>6. CASE PromptClose
  <2>1. /\ gui \in {"closeYes", "closeNo"} /\ gui' \in {"get", "idle"}
        /\ port' = IF port = Prompt THEN NoServer ELSE port
    BY <1>6 DEF PromptClose, StartGet, CloseSocket
  <2> QED
    BY <1>1, <1>2, <2>1 DEF Served, PortHolder, PromptHolder
<1> QED
  BY <1>3, <1>4, <1>5, <1>6

\* Every step of the console keeps Served.
LEMMA ServedNext == TypeOK /\ Served /\ [WindowNext]_consoleVars => Served'
<1> SUFFICES ASSUME TypeOK, Served, [WindowNext]_consoleVars PROVE Served'
  OBVIOUS
<1>1. CASE \E c \in Clients : WindowTablet(c)
  BY <1>1, ServedLink DEF WindowTablet, Tablet, sessionVars, windowVars
<1>2. CASE WindowNetwork
  BY <1>2, ServedLink DEF WindowNetwork, Network, sessionVars, windowVars
<1>3. CASE Button6
  <2>1. CASE \E s \in Sessions : BeginSession(s)
    BY <1>3, <2>1, ServedBegin DEF Button6
  <2>2. CASE EndSession
    BY <1>3, <2>2, ServedFrame DEF Button6, EndSession, Exit, linkVars
  <2> QED
    BY <1>3, <2>1, <2>2 DEF Button6
<1>4. CASE \E s \in Sessions : WindowThread(s)
  BY <1>4, ServedThread DEF WindowThread, Thread, windowVars
<1>5. CASE StartHandler
  <2>1. UNCHANGED <<port, req, pc>> /\ gui' \in {"look", "idle", "get", "bind"}
    BY <1>5 DEF StartHandler, Locate, Retrieve, StartGet, AskTablet, Click, linkVars,
                sessionVars
  <2> QED
    BY <2>1, ServedFrame
<1>6. CASE HandlerStep
  <2>1. UNCHANGED pc
    BY <1>6 DEF HandlerStep, sessionVars
  <2>2. CASE PromptBind \/ PromptRecv \/ PromptAnswer \/ PromptClose
    BY <2>1, <2>2, ServedPrompt
  <2>3. CASE (Look \/ ScanTurn \/ Offer \/ GetFrame \/ GetDone) /\ UNCHANGED linkVars
    <3>1. UNCHANGED <<port, req>>
      BY <2>3 DEF linkVars
    <3>2. gui' \notin {"answer", "closeYes", "closeNo"}
      BY <2>3 DEF Look, Found, NoneAtHome, NoneInScan, CameraFault, StreamStalls,
                  ScanTurn, Offer, GetFrame, GetDone
    <3> QED
      BY <2>1, <3>1, <3>2, ServedFrame
  <2> QED
    BY <1>6, <2>2, <2>3 DEF HandlerStep
<1>7. CASE Checkbox \/ CameraThread \/ WindowFrame \/ WindowInput \/ UNCHANGED consoleVars
  <2>1. UNCHANGED <<port, req, pc>>
    BY <1>7 DEF Checkbox, CameraThread, WindowFrame, AnimationFrame, WindowInput,
                PanelInput, consoleVars, vars, linkVars, sessionVars
  <2>2. gui' = gui
    BY <1>7 DEF Checkbox, ClickFF, SelectUSB, DeselectUSB, CameraThread, StartCamNew,
                StartCamStart, WindowFrame, WindowInput, consoleVars, windowVars
  <2> QED
    BY <2>1, <2>2, ServedFrame
<1> QED
  BY <1>1, <1>2, <1>3, <1>4, <1>5, <1>6, <1>7 DEF WindowNext

\* Work in hand means owning the endpoint, for sessions and prompt alike.
LEMMA ServedAlways == WindowSpec => []Served
<1>1. WindowInit => Served
  <2> SUFFICES ASSUME WindowInit PROVE Served
    OBVIOUS
  <2> QED
    BY DEF WindowInit, Init, LinkInit, SessionInit, NoRequest, Served, PortHolder,
           HandedToPort, PromptHolder, Busy
<1>2. ConsoleTypes => TypeOK
  BY DEF ConsoleTypes
<1> QED
  BY <1>1, <1>2, ServedNext, ConsoleTypesAlways, PTL DEF WindowSpec

\* Sessions, however many, the prompt and the tablets' requests to all of them:
\* that the window asks tablets through the same endpoint changes nothing for the
\* sessions, of which at most the endpoint's owner works on a request, and when
\* the prompt has an answer in hand, none does.
THEOREM OneServer == WindowSpec => []OneServerAtWork
<1>1. Served => OneServerAtWork
  <2>1. Served => SingleDriver
    BY DEF Served, PortHolder, SingleDriver
  <2>2. ASSUME Served, gui \in {"answer", "closeYes", "closeNo"}
        PROVE  port = Prompt /\ \A s \in Sessions : pc[s] \notin Busy
    <3>1. Prompt \notin Sessions
      BY PromptAssumption
    <3> QED
      BY <2>2, <3>1 DEF Served, PromptHolder, PortHolder
  <2> QED
    BY <2>1, <2>2 DEF OneServerAtWork
<1> QED
  BY <1>1, ServedAlways, PTL

-----------------------------------------------------------------------------
(***************************************************************************)
(* The serial port.  Nothing is offered before a search sent its frame, so *)
(* getBox, which would throw without a port, has one.                      *)
(***************************************************************************)
PortUsed == offerOn \/ gui \in GuiState \ {"idle", "hung"} => serialUp

LEMMA PortUsedNext ==
  ASSUME PortUsed, gui \in GuiState, [WindowNext]_consoleVars
  PROVE  PortUsed'
<1>1. serialUp' = serialUp
  BY DEF WindowNext, Button6, BeginSession, EndSession, Checkbox, CameraThread,
         StartHandler, HandlerStep, WindowFrame, AnimationFrame, Draw, WindowInput,
         PanelInput, MoveControl, ToggleSuction, WindowNetwork, Network, WindowThread,
         Thread, SessionStep, SessionBind, SessionRecv, SessionCheck, SessionReply,
         SessionMove, SessionAim, SessionLift, SessionClose, WindowTablet, Tablet,
         Locate, Retrieve, AskTablet, Look, ScanTurn, Offer, GetFrame, GetDone,
         PromptBind, PromptRecv, PromptAnswer, PromptClose, panelButArm, panelVars, vars,
         consoleVars
<1>2. offerOn' => offerOn \/ gui = "resume"
  BY Zenon
  DEF WindowNext, Button6, Checkbox, CameraThread, StartHandler, HandlerStep,
      WindowFrame, WindowInput, WindowNetwork, WindowThread, WindowTablet, ClickFF,
      SelectUSB, DeselectUSB, StartCamNew, StartCamStart, Locate, Retrieve, AskTablet,
      Look, ScanTurn, Offer, GetFrame, GetDone, PromptBind, PromptRecv, PromptAnswer,
      PromptClose, offerVars, windowVars, consoleVars
<1>3. \/ gui' = gui \/ gui' = "idle" \/ gui' = "hung"
      \/ gui = "idle" /\ (offerOn \/ serialUp)
      \/ gui \in GuiState \ {"idle", "hung"}
  BY DEF WindowNext, Button6, Checkbox, CameraThread, StartHandler, HandlerStep,
         WindowFrame, WindowInput, WindowNetwork, WindowThread, WindowTablet, ClickFF,
         SelectUSB, DeselectUSB, StartCamNew, StartCamStart, Click, Locate, Retrieve,
         AskTablet, Look, Found, NoneAtHome, NoneInScan, CameraFault, StreamStalls,
         ScanTurn, Offer, GetFrame, GetDone, PromptBind, PromptRecv, PromptAnswer,
         PromptClose, windowVars, consoleVars, GuiState
<1>4. PortUsed'
  BY <1>1, <1>2, <1>3 DEF PortUsed, GuiState
<1> QED
  BY <1>4

LEMMA PortUsedAlways == WindowSpec => []PortUsed
<1>1. WindowInit => PortUsed
  BY DEF WindowInit, PortUsed
<1>2. ConsoleTypes => gui \in GuiState
  BY DEF ConsoleTypes, WindowTypes
<1> QED
  BY <1>1, <1>2, PortUsedNext, ConsoleTypesAlways, PTL DEF WindowSpec

-----------------------------------------------------------------------------
(***************************************************************************)
(* The boxes, as long as the user leaves button1 alone: with it the user   *)
(* can start the pump and move the arm to a box by hand, and open the      *)
(* valve anywhere, so what follows is about retrieving and not about the   *)
(* panel.  The sliders, the tablets and the sessions stay free to move the *)
(* arm at any moment, any frame may be refused by the serial port, and the *)
(* boxes may have been seen from another place than locate reckons with.   *)
(***************************************************************************)
PumpLeftAlone == [][~ToggleSuction]_consoleVars

\* Outside getBox, and between two of its boxes, the console's byte is that of
\* the open valve, and no session was constructed when it was not.
PumpAtRest ==
    /\ gui # "get" \/ step = 0 => suctionCup = Release
    /\ \A s \in Sessions : grip[s] = Release

\* A box is held only by a running pump, and never a second one.
HeldByPump ==
    /\ Held # {} => arm.ctl = Catch
    /\ \A b, d \in Held : b = d

\* A box that nothing has disturbed is held in getBox only, from the box to the
\* drop-off place, and the arm is where getBox sent it last.  A pump that runs on
\* after getBox has missed the frames that should have stopped it.
HeldAsSent ==
    Held # {} /\ ~disturbed =>
        /\ gui = "get" /\ step \in 3..5
        /\ arm.at = Stops(boxCoordinates[cur])[step]

\* What is or is about to be offered is there, until getBox goes for it; the
\* prompt is about what was offered.
OfferStands ==
    /\ (offerOn \/ gui = "resume") /\ gui # "get" =>
         \A b \in located : boxAt[b] = "field"
    /\ gui \in {"bind", "recv", "answer", "closeYes", "closeNo"} => offerOn

\* A trip that cannot miss: the box is where it is taken to be, and every frame
\* so far was written.
Sound(b) == b \notin spoilt /\ boxCoordinates[b] = BoxPos[b]

\* getBox: a box with a sound trip behind it was delivered or dropped, and the one
\* at hand left the field with the third frame.  As long as the frames of the trip
\* are written the valve is open where getBox opens it, so that the cup comes
\* empty to the box and leaves empty at the end.
GetUnderWay ==
    gui = "get" =>
        /\ \A b \in located \ todo : Sound(b) => boxAt[b] \in {"delivered", "dropped"}
        /\ step > 0 => cur \in todo
        /\ step > 0 /\ cur \notin spoilt /\ step \notin 3..5 => arm.ctl = Release
        /\ step >= 3 /\ Sound(cur) => boxAt[cur] # "field"

BoxInv ==
    PumpAtRest /\ HeldByPump /\ HeldAsSent /\ OfferStands /\ GetUnderWay

\* Which of the eight frames run the pump.
LEMMA PumpIs ==
  ASSUME NEW k \in 0..7
  PROVE  Pump[k + 1] = IF k \in 2..4 THEN Catch ELSE Release
  BY DEF Pump

\* Where the frames that matter for the box go.
LEMMA StopsAre ==
  ASSUME NEW p
  PROVE  Stops(p)[3] = p /\ Stops(p)[5] = DropOff /\ Stops(p)[6] = DropOff
  BY DEF Stops

\* At the start all boxes are in the field and the valve is open.
LEMMA BoxInvInit == WindowInit => BoxInv
<1> SUFFICES ASSUME WindowInit PROVE BoxInv
  OBVIOUS
<1>1. suctionCup = Release /\ \A s \in Sessions : grip[s] = Release
  BY DEF WindowInit, Init, PanelInit, SessionInit
<1>2. Held = {}
  BY DEF WindowInit, Held
<1>3. gui = "idle" /\ ~offerOn
  BY DEF WindowInit
<1> QED
  BY <1>1, <1>2, <1>3 DEF BoxInv, PumpAtRest, HeldByPump, HeldAsSent, OfferStands,
     GetUnderWay

\* A step with no frame, with one that is not written, or with one that opens the
\* valve.
Quiet ==
    \/ UNCHANGED <<arm, worldVars>>
    \/ World /\ (arm' = arm \/ arm'.ctl = Release)

\* It lets the held box go and moves no other; while it does not, a disturbance is
\* not forgotten.
LEMMA QuietWorld ==
  ASSUME WorldTypes, HeldByPump, Quiet
  PROVE  /\ \A b \in Boxes : \/ boxAt'[b] = boxAt[b]
                             \/ boxAt[b] = "held" /\ boxAt'[b] \in {"delivered", "dropped"}
         /\ HeldByPump'
         /\ Held' # {} => arm' = arm /\ Held # {} /\ (disturbed => disturbed')
<1>1. CASE arm' = arm
  <2>1. boxAt' = boxAt
    BY <1>1, Zenon DEF Quiet, World, worldVars
  <2>2. Held' = Held
    BY <2>1 DEF Held
  <2>3. disturbed => disturbed'
    BY <1>1, Zenon DEF Quiet, World, worldVars
  <2> QED
    BY <1>1, <2>1, <2>2, <2>3 DEF HeldByPump
<1>2. CASE arm' # arm
  <2>1. arm'.ctl = Release /\ Catch # Release
    BY <1>2 DEF Quiet, Catch, Release
  <2>2. boxAt' = [b \in Boxes |-> BoxFollows(b)]
    BY <1>2 DEF Quiet, World, WorldFollows
  <2>3. \A b \in Boxes :
          boxAt'[b] = IF boxAt[b] = "held"
                        THEN IF arm.at = DropOff /\ arm'.at = DropOff
                               THEN "delivered" ELSE "dropped"
                        ELSE boxAt[b]
    BY <2>1, <2>2 DEF BoxFollows
  <2>4. Held' = {}
    BY <2>3 DEF Held
  <2> QED
    BY <2>3, <2>4 DEF HeldByPump
<1> QED
  BY <1>1, <1>2

\* So a box on the field stays there, and one that is off it stays off.
LEMMA QuietField ==
  ASSUME WorldTypes, HeldByPump, Quiet, NEW b \in Boxes
  PROVE  /\ boxAt'[b] = "field" <=> boxAt[b] = "field"
         /\ boxAt[b] \in {"delivered", "dropped"} => boxAt'[b] \in {"delivered", "dropped"}
  BY QuietWorld

\* Steps that leave getBox and what it works on alone.
LEMMA BoxInvBackground ==
  ASSUME WorldTypes, WindowTypes, BoxInv, Quiet,
         UNCHANGED <<gui, getVars, boxCoordinates, suctionCup>>,
         offerOn' = offerOn \/ (gui = "idle" /\ ~offerOn'),
         \A s \in Sessions : grip'[s] = Release
  PROVE  BoxInv'
<1> USE DEF getVars
<1>1. /\ \A b \in Boxes : /\ boxAt'[b] = "field" <=> boxAt[b] = "field"
                          /\ boxAt[b] \in {"delivered", "dropped"} =>
                               boxAt'[b] \in {"delivered", "dropped"}
      /\ HeldByPump'
      /\ Held' # {} => arm' = arm /\ Held # {} /\ (disturbed => disturbed')
  BY QuietWorld, QuietField, Zenon DEF BoxInv
<1>2. located' = located /\ located \subseteq Boxes
  BY DEF located, WindowTypes
<1>3. PumpAtRest'
  BY DEF BoxInv, PumpAtRest
<1>4. HeldAsSent'
  <2>1. Held' # {} /\ ~disturbed' => arm' = arm /\ Held # {} /\ ~disturbed
    BY <1>1, Zenon
  <2> QED
    BY <2>1 DEF BoxInv, HeldAsSent
<1>5. OfferStands'
  <2>1. offerOn' => offerOn
    OBVIOUS
  <2>2. gui # "idle" => offerOn' = offerOn
    OBVIOUS
  <2>3. (offerOn \/ gui = "resume") /\ gui # "get" => \A b \in located : boxAt'[b] = "field"
    BY <1>1, <1>2 DEF BoxInv, OfferStands
  <2> QED
    BY <1>2, <2>1, <2>2, <2>3 DEF BoxInv, OfferStands
<1>6. GetUnderWay'
  <2>1. \A b : Sound(b)' <=> Sound(b)
    BY DEF Sound
  <2>2. arm.ctl = Release => arm'.ctl = Release
    BY Zenon DEF Quiet
  <2>3. step > 0 => cur \in Boxes
    BY DEF WindowTypes
  <2>4. step \in Int
    BY DEF WindowTypes
  <2> QED
    BY <1>1, <1>2, <2>1, <2>2, <2>3, <2>4 DEF BoxInv, GetUnderWay
<1> QED
  BY <1>1, <1>3, <1>4, <1>5, <1>6 DEF BoxInv

\* Those steps are all that are not a handler's: the tablets', the network's, the
\* sessions', the camera's, the frames of the idle window, the other clicks.
LEMMA BackgroundSteps ==
  ASSUME ConsoleTypes, BoxInv, ~ToggleSuction,
         \/ Button6 \/ Checkbox \/ CameraThread \/ WindowFrame \/ WindowInput
         \/ WindowNetwork \/ (\E s \in Sessions : WindowThread(s))
         \/ (\E c \in Clients : WindowTablet(c)) \/ UNCHANGED consoleVars
  PROVE  BoxInv'
<1>1. WorldTypes /\ WindowTypes /\ TypeOK
  BY DEF ConsoleTypes
<1>2. /\ grip \in [Sessions -> {Catch, Release}]
      /\ \A s \in Sessions : grip[s] = Release
      /\ gui = "idle" => suctionCup = Release
  BY <1>1 DEF TypeOK, SessionTypeOK, BoxInv, PumpAtRest
<1>3. CASE Button6
  <2>1. /\ gui = "idle" /\ UNCHANGED <<gui, getVars, boxCoordinates, worldVars>>
        /\ offerOn' = offerOn \/ ~offerOn'
    BY <1>3, Zenon DEF Button6
  <2>2. UNCHANGED panelVars
    BY <1>3 DEF Button6, BeginSession, EndSession
  <2>3. \A s \in Sessions : grip'[s] = Release
    <3>1. grip' = grip \/ \E s \in Sessions : grip' = [grip EXCEPT ![s] = suctionCup]
      BY <1>3 DEF Button6, BeginSession, Construct, EndSession, Exit
    <3> QED
      BY <1>2, <2>1, <3>1
  <2>4. Quiet /\ suctionCup' = suctionCup
    BY <2>1, <2>2 DEF Quiet, panelVars, armVars
  <2> QED
    BY <1>1, <2>1, <2>3, <2>4, BoxInvBackground
<1>4. CASE Checkbox \/ CameraThread
  <2>1. /\ UNCHANGED <<gui, getVars, boxCoordinates, offerOn>>
        /\ UNCHANGED <<vars, worldVars>>
    BY <1>4 DEF Checkbox, CameraThread, ClickFF, SelectUSB, DeselectUSB, StartCamNew,
                StartCamStart, offerVars
  <2>2. Quiet /\ suctionCup' = suctionCup /\ grip' = grip
    BY <2>1 DEF Quiet, vars, panelVars, armVars, sessionVars
  <2> QED
    BY <1>1, <1>2, <2>1, <2>2, BoxInvBackground
<1>5. CASE WindowFrame
  <2>1. UNCHANGED <<gui, getVars, boxCoordinates, offerOn, grip, suctionCup>> /\ World
    BY <1>5 DEF WindowFrame, windowVars, offerVars, AnimationFrame, Draw, sessionVars
  <2>2. /\ gui = "idle"
        /\ \/ arm' = arm
           \/ arm' = [at |-> shown', ctl |-> suctionCup, by |-> Console]
    BY <1>5, Zenon DEF WindowFrame, AnimationFrame, Draw, SendPos, armVars
  <2>3. arm' = arm \/ arm'.ctl = Release
    BY <1>2, <2>2
  <2>4. Quiet
    BY <2>1, <2>3 DEF Quiet
  <2> QED
    BY <1>1, <1>2, <2>1, <2>4, BoxInvBackground
<1>6. CASE WindowInput
  <2>1. PICK A \in Controls, q \in PanelPoints : MoveControl(A, q)
    BY <1>6 DEF WindowInput, PanelInput
  <2>2. /\ UNCHANGED <<gui, getVars, boxCoordinates, offerOn, grip, worldVars>>
        /\ UNCHANGED <<arm, suctionCup>>
    BY <1>6, <2>1
    DEF WindowInput, PanelInput, windowVars, offerVars, sessionVars, MoveControl, armVars
  <2>3. Quiet
    BY <2>2 DEF Quiet
  <2> QED
    BY <1>1, <1>2, <2>2, <2>3, BoxInvBackground
<1>7. ASSUME NEW s \in Sessions, WindowThread(s) PROVE BoxInv'
  <2>1. UNCHANGED <<gui, getVars, boxCoordinates, offerOn>> /\ World /\ SessionStep(s)
    BY <1>7 DEF WindowThread, Thread, windowVars, offerVars
  <2>2. UNCHANGED <<grip, suctionCup>>
    BY <2>1 DEF SessionStep, SessionBind, SessionRecv, SessionCheck, SessionReply,
                SessionMove, SessionAim, SessionLift, SessionClose, panelVars
  <2>3. arm' = arm \/ arm'.ctl = Release
    BY <1>2, <2>1 DEF SessionStep, SessionBind, SessionRecv, SessionCheck, SessionReply,
                SessionMove, SessionAim, SessionLift, SessionClose, panelVars, armVars,
                SendPos
  <2>4. Quiet
    BY <2>1, <2>3 DEF Quiet
  <2> QED
    BY <1>1, <1>2, <2>1, <2>2, <2>4, BoxInvBackground
<1>8. CASE WindowNetwork \/ (\E c \in Clients : WindowTablet(c)) \/ UNCHANGED consoleVars
  <2>1. /\ UNCHANGED <<gui, getVars, boxCoordinates, offerOn, grip, worldVars>>
        /\ UNCHANGED <<arm, suctionCup>>
    BY <1>8 DEF WindowNetwork, Network, WindowTablet, Tablet, consoleVars, vars, panelVars,
                armVars, windowVars, offerVars, sessionVars
  <2>2. Quiet
    BY <2>1 DEF Quiet
  <2> QED
    BY <1>1, <1>2, <2>1, <2>2, BoxInvBackground
<1> QED
  BY <1>3, <1>4, <1>5, <1>6, <1>7, <1>8

\* Outside getBox, and in it where the valve is open, what is held is disturbed.
LEMMA HeldElsewhere ==
  ASSUME BoxInv, gui # "get" \/ step \notin 3..5, Held # {}
  PROVE  disturbed
  BY DEF BoxInv, HeldAsSent

\* A handler's step that is no part of getBox, before and after, with no frame,
\* with one that is not written, or with one that opens the valve.
LEMMA BoxInvHandler ==
  ASSUME WorldTypes, BoxInv, Quiet, gui # "get", gui' # "get",
         suctionCup' = suctionCup, UNCHANGED grip, OfferStands'
  PROVE  BoxInv'
<1>1. /\ HeldByPump'
      /\ Held' # {} => Held # {} /\ (disturbed => disturbed')
  BY QuietWorld DEF BoxInv
<1>2. HeldAsSent'
  <2>1. Held' # {} => disturbed'
    BY <1>1, HeldElsewhere
  <2> QED
    BY <2>1 DEF HeldAsSent
<1>3. PumpAtRest' /\ GetUnderWay'
  BY DEF BoxInv, PumpAtRest, GetUnderWay
<1> QED
  BY <1>1, <1>2, <1>3 DEF BoxInv

\* Locating: whatever is reported is in the field, and stays there.
LEMMA BoxInvLocate ==
  ASSUME ConsoleTypes, BoxInv, World, UNCHANGED grip,
         Locate \/ Look \/ ScanTurn \/ Offer
  PROVE  BoxInv'
<1>1. WorldTypes /\ located \subseteq Boxes
  BY DEF ConsoleTypes, WindowTypes
<1>2. /\ gui # "get" /\ gui' # "get"
      /\ gui' \notin {"bind", "recv", "answer", "closeYes", "closeNo"}
      /\ suctionCup' = suctionCup /\ suctionCup = Release
  BY DEF Locate, Click, Look, Found, NoneAtHome, NoneInScan, CameraFault, StreamStalls,
         ScanTurn, Offer, panelVars, BoxInv, PumpAtRest
<1>3. Quiet
  BY <1>2 DEF Quiet, Locate, Look, ScanTurn, Offer, SendPos, panelVars, armVars
<1>4. \A b \in Boxes : boxAt[b] = "field" => boxAt'[b] = "field"
  BY <1>1, <1>3, QuietField DEF BoxInv
<1>5. \/ located' = located /\ (offerOn' \/ gui' = "resume" => offerOn \/ gui = "resume")
      \/ located' \subseteq {b \in Boxes : boxAt[b] = "field"}
  <2>1. CASE Found /\ Look
    <3>1. PICK S \in Sightings : boxCoordinates' \in [S -> UNION {Computed(b) : b \in S}]
      BY <2>1 DEF Found
    <3> QED
      BY <3>1 DEF Sightings, located
  <2>2. CASE NoneAtHome /\ Look
    BY <2>2 DEF NoneAtHome, NoSighting, located
  <2>3. CASE (NoneInScan \/ CameraFault \/ StreamStalls) /\ Look
    <3>1. boxCoordinates' = boxCoordinates /\ offerOn' = offerOn /\ gui' # "resume"
      BY <2>3 DEF Look, NoneInScan, CameraFault, StreamStalls
    <3> QED
      BY <3>1 DEF located
  <2>4. CASE Locate \/ ScanTurn \/ Offer
    <3>1. boxCoordinates' = boxCoordinates
      BY <2>4 DEF Locate, ScanTurn, Offer, offerVars
    <3>2. gui' # "resume" /\ (offerOn' = offerOn \/ gui = "resume")
      BY <2>4 DEF Locate, Click, ScanTurn, Offer, offerVars
    <3> QED
      BY <3>1, <3>2 DEF located
  <2> QED
    BY <2>1, <2>2, <2>3, <2>4 DEF Look
<1>6. OfferStands'
  BY <1>1, <1>2, <1>4, <1>5 DEF BoxInv, OfferStands
<1> QED
  BY <1>1, <1>2, <1>3, <1>6, BoxInvHandler

\* getBox begins: its boxes are those that were located, and none is done.
LEMMA BoxInvStartGet ==
  ASSUME ConsoleTypes, BoxInv, World, StartGet, gui # "get",
         UNCHANGED <<arm, grip, boxCoordinates>>
  PROVE  BoxInv'
<1>1. /\ gui' = "get" /\ step' = 0 /\ todo' = located /\ suctionCup' = Release
      /\ located' = located
  BY DEF StartGet, located
<1>2. Quiet /\ WorldTypes
  BY DEF Quiet, ConsoleTypes
<1>3. /\ HeldByPump'
      /\ Held' # {} => Held # {} /\ (disturbed => disturbed')
  BY <1>2, QuietWorld DEF BoxInv
<1>4. HeldAsSent'
  <2>1. Held' # {} => disturbed'
    BY <1>3, HeldElsewhere
  <2> QED
    BY <2>1 DEF HeldAsSent
<1>5. PumpAtRest' /\ OfferStands' /\ GetUnderWay'
  BY <1>1 DEF BoxInv, PumpAtRest, OfferStands, GetUnderWay
<1> QED
  BY <1>3, <1>4, <1>5 DEF BoxInv

\* Asking the tablet: the offer stands until the answer, and a yes is about it.
LEMMA BoxInvPrompt ==
  ASSUME ConsoleTypes, BoxInv, World, UNCHANGED grip,
         \/ Retrieve \/ AskTablet
         \/ PromptBind \/ PromptRecv \/ PromptAnswer \/ PromptClose
  PROVE  BoxInv'
<1>1. /\ WorldTypes /\ located \subseteq Boxes
      /\ boxCoordinates' = boxCoordinates /\ located' = located
  BY DEF ConsoleTypes, WindowTypes, Retrieve, AskTablet, PromptBind, PromptRecv,
         PromptAnswer, PromptClose, offerVars, located
<1>2. CASE (Retrieve \/ PromptClose) /\ gui' = "get"
  <2>1. StartGet /\ gui # "get" /\ UNCHANGED <<arm, grip>>
    BY <1>2 DEF Retrieve, Click, PromptClose, panelButArm, armVars
  <2> QED
    BY <1>1, <2>1, BoxInvStartGet
<1>3. CASE \/ AskTablet \/ PromptBind \/ PromptRecv \/ PromptAnswer
           \/ (PromptClose /\ gui' # "get")
  <2>1. /\ gui \in {"idle", "bind", "recv", "answer", "closeNo"}
        /\ gui' \in {"idle", "bind", "recv", "answer", "closeYes", "closeNo"}
        /\ UNCHANGED <<panelVars, offerVars>>
        /\ gui' # "idle" => offerOn
    BY <1>3 DEF AskTablet, Click, PromptBind, PromptRecv, PromptAnswer, PromptClose,
                StartGet, BoxInv, OfferStands
  <2>2. Quiet /\ suctionCup' = suctionCup
    BY <2>1 DEF Quiet, panelVars, armVars
  <2>3. \A b \in Boxes : boxAt[b] = "field" => boxAt'[b] = "field"
    BY <1>1, <2>2, QuietField DEF BoxInv
  <2>4. OfferStands'
    BY <1>1, <2>1, <2>3 DEF BoxInv, OfferStands, offerVars
  <2> QED
    BY <1>1, <2>1, <2>2, <2>4, BoxInvHandler
<1>4. Retrieve => gui' = "get"
  BY DEF Retrieve, StartGet
<1> QED
  BY <1>2, <1>3, <1>4

\* getBox returns.
LEMMA BoxInvDone ==
  ASSUME ConsoleTypes, BoxInv, World, UNCHANGED grip, GetDone
  PROVE  BoxInv' /\ boxAt' = boxAt
<1>1. /\ gui = "get" /\ step = 0 /\ gui' = "idle" /\ ~offerOn'
      /\ UNCHANGED <<arm, suctionCup>>
  BY Zenon DEF GetDone, panelVars, armVars
<1>2. boxAt' = boxAt
  BY <1>1, Zenon DEF World
<1>3. Quiet /\ WorldTypes
  BY <1>1 DEF Quiet, ConsoleTypes
<1>4. /\ HeldByPump'
      /\ Held' # {} => Held # {} /\ (disturbed => disturbed')
  BY <1>3, QuietWorld DEF BoxInv
<1>5. HeldAsSent'
  <2>1. Held' # {} => disturbed'
    BY <1>1, <1>4, HeldElsewhere
  <2> QED
    BY <2>1 DEF HeldAsSent
<1>6. PumpAtRest' /\ OfferStands' /\ GetUnderWay'
  BY <1>1 DEF BoxInv, PumpAtRest, OfferStands, GetUnderWay
<1> QED
  BY <1>2, <1>4, <1>5, <1>6 DEF BoxInv

\* What a frame of getBox does, for the box b, written or not.
Fetches(b) ==
    /\ b \in IF step = 0 THEN todo ELSE {cur}
    /\ \/ /\ arm' = [at |-> Stops(boxCoordinates[b])[step + 1], ctl |-> Pump[step + 1],
                     by |-> Console]
          /\ spoilt' = spoilt /\ ~writeFailed'
       \/ arm' = arm /\ spoilt' = spoilt \cup {b} /\ writeFailed'
    /\ suctionCup' = Pump[step + 1]
    /\ IF step < 7 THEN step' = step + 1 /\ cur' = b /\ todo' = todo
                   ELSE step' = 0 /\ cur' = NoBox /\ todo' = todo \ {b}
    /\ gui = "get" /\ gui' = "get"
    /\ boxCoordinates' = boxCoordinates /\ located' = located /\ offerOn' = offerOn

LEMMA GetFrameFetches ==
  ASSUME GetFrame
  PROVE  \E b : Fetches(b)
<1>1. PICK b \in IF step = 0 THEN todo ELSE {cur} :
        /\ SendPos(Stops(boxCoordinates[b])[step + 1], Pump[step + 1], Console)
        /\ suctionCup' = Pump[step + 1]
        /\ IF step < 7
             THEN step' = step + 1 /\ cur' = b /\ UNCHANGED todo
             ELSE step' = 0 /\ cur' = NoBox /\ todo' = Without(b)
        /\ spoilt' = IF writeFailed' THEN spoilt \cup {b} ELSE spoilt
  BY DEF GetFrame
<1>2. \/ /\ arm' = [at |-> Stops(boxCoordinates[b])[step + 1], ctl |-> Pump[step + 1],
                    by |-> Console]
         /\ spoilt' = spoilt /\ ~writeFailed'
      \/ arm' = arm /\ spoilt' = spoilt \cup {b} /\ writeFailed'
  BY <1>1, Zenon DEF SendPos
<1>3. /\ gui = "get" /\ gui' = "get"
      /\ boxCoordinates' = boxCoordinates /\ located' = located /\ offerOn' = offerOn
  BY DEF GetFrame, offerVars, located
<1> QED
  BY <1>1, <1>2, <1>3 DEF Fetches, Without

\* A trip that is sound after a frame was sound before it, and the frame was written.
LEMMA SoundBefore ==
  ASSUME NEW b, Fetches(b), NEW d, d \notin spoilt'
  PROVE  /\ d \notin spoilt /\ (Sound(d)' <=> Sound(d))
         /\ d = b => ~writeFailed'
  BY DEF Fetches, Sound

\* A frame of getBox that keeps the valve open or opens it.
LEMMA BoxInvRelease ==
  ASSUME ConsoleTypes, BoxInv, World, UNCHANGED grip, GetFrame, step \notin 2..4
  PROVE  BoxInv'
<1>1. WorldTypes /\ step \in 0..7 /\ todo \subseteq located /\ located \subseteq Boxes
  BY DEF ConsoleTypes, WindowTypes, Fetchable, GetFrame
<1>2. PICK b : Fetches(b)
  BY GetFrameFetches
<1>3. Pump[step + 1] = Release
  BY <1>1, PumpIs
<1>4. b \in todo /\ b \in Boxes
  BY <1>1, <1>2 DEF Fetches, BoxInv, GetUnderWay
<1>5. arm' = arm \/ arm'.ctl = Release
  <2>1. arm' = arm \/ arm' = [at |-> Stops(boxCoordinates[b])[step + 1],
                             ctl |-> Pump[step + 1], by |-> Console]
    BY <1>2, Zenon DEF Fetches
  <2> QED
    BY <1>3, <2>1
<1>6. ~writeFailed' => arm'.ctl = Release
  <2>1. ~writeFailed' => arm' = [at |-> Stops(boxCoordinates[b])[step + 1],
                                 ctl |-> Pump[step + 1], by |-> Console]
    BY <1>2, Zenon DEF Fetches
  <2> QED
    BY <1>3, <2>1
<1>7. Quiet
  BY <1>5 DEF Quiet
<1>8. /\ \A d \in Boxes : /\ boxAt'[d] = "field" <=> boxAt[d] = "field"
                          /\ boxAt[d] \in {"delivered", "dropped"} =>
                               boxAt'[d] \in {"delivered", "dropped"}
      /\ HeldByPump'
      /\ Held' # {} => arm' = arm /\ Held # {} /\ (disturbed => disturbed')
  BY <1>1, <1>7, QuietWorld, QuietField, Zenon DEF BoxInv
<1>9. arm'.ctl = Release => Held' = {}
  BY <1>8 DEF HeldByPump, Catch, Release
<1>10. HeldAsSent'
  <2>1. ASSUME Held' # {}, ~disturbed' PROVE FALSE
    <3>1. writeFailed' /\ arm' = arm /\ Held # {}
      BY <1>6, <1>8, <1>9, <2>1, Zenon
    <3>2. disturbed' = (disturbed \/ (Held # {} /\ writeFailed'))
      BY <3>1, Zenon DEF World
    <3> QED
      BY <2>1, <3>1, <3>2, Zenon
  <2> QED
    BY <2>1 DEF HeldAsSent
<1>11. PumpAtRest' /\ OfferStands'
  BY <1>2, <1>3 DEF BoxInv, PumpAtRest, OfferStands, Fetches
<1>12. \A d \in located \ todo : Sound(d)' => boxAt'[d] \in {"delivered", "dropped"}
  <2>1. ASSUME NEW d \in located \ todo, Sound(d)'
        PROVE  boxAt'[d] \in {"delivered", "dropped"}
    <3>1. d \notin spoilt'
      BY <2>1 DEF Sound
    <3>2. Sound(d)
      BY <1>2, <2>1, <3>1, SoundBefore
    <3> QED
      BY <1>1, <1>2, <1>8, <2>1, <3>2 DEF BoxInv, GetUnderWay, Fetches
  <2> QED
    BY <2>1
<1>13. ASSUME step >= 3, Sound(b)' PROVE boxAt'[b] # "field" /\ b = cur
  <2>1. b \notin spoilt'
    BY <1>13 DEF Sound
  <2>2. Sound(b) /\ b = cur
    BY <1>1, <1>2, <1>13, <2>1, SoundBefore DEF Fetches
  <2> QED
    BY <1>2, <1>4, <1>8, <1>13, <2>2 DEF BoxInv, GetUnderWay, Fetches
<1>14. GetUnderWay'
  <2>1. CASE step < 7
    <3>1. step' = step + 1 /\ cur' = b /\ todo' = todo /\ located' = located
      BY <1>2, <2>1 DEF Fetches
    <3>2. cur' \notin spoilt' => arm'.ctl = Release
      BY <1>2, <1>6, <3>1, SoundBefore
    <3>3. step' >= 3 /\ Sound(cur)' => boxAt'[cur'] # "field"
      <4>1. step' >= 3 => step >= 3
        BY <1>1, <3>1
      <4>2. Sound(cur)' <=> Sound(b)'
        BY <3>1 DEF Sound
      <4> QED
        BY <1>13, <3>1, <4>1, <4>2
    <3> QED
      BY <1>4, <1>12, <3>1, <3>2, <3>3 DEF GetUnderWay
  <2>2. CASE step = 7
    <3>1. step' = 0 /\ todo' = todo \ {b} /\ located' = located
      BY <1>2, <2>2 DEF Fetches
    <3>2. Sound(b)' => boxAt'[b] \in {"delivered", "dropped"}
      <4>1. SUFFICES ASSUME Sound(b)' PROVE boxAt'[b] \in {"delivered", "dropped"}
        OBVIOUS
      <4>2. b \notin spoilt' /\ ~writeFailed'
        BY <1>2, <4>1, SoundBefore DEF Sound
      <4>3. Held' = {}
        BY <1>6, <1>9, <4>2
      <4>4. boxAt'[b] # "held" /\ boxAt'[b] # "field"
        BY <1>4, <1>13, <2>2, <4>1, <4>3 DEF Held
      <4>5. WorldTypes'
        BY <1>1, WorldType
      <4> QED
        BY <1>4, <4>4, <4>5 DEF WorldTypes
    <3>3. \A d \in located \ todo' : Sound(d)' => boxAt'[d] \in {"delivered", "dropped"}
      BY <1>12, <3>1, <3>2
    <3> QED
      BY <3>1, <3>3 DEF GetUnderWay
  <2> QED
    BY <1>1, <2>1, <2>2
<1> QED
  BY <1>8, <1>10, <1>11, <1>14 DEF BoxInv

\* A frame of getBox with the pump on that is written: the first one catches the
\* box if it is there, and no frame catches a second one, since no two are in one
\* place.
LEMMA BoxInvCatch ==
  ASSUME ConsoleTypes, BoxInv, World, UNCHANGED grip, NEW b, Fetches(b),
         step \in 2..4, ~writeFailed'
  PROVE  BoxInv'
<1>1. WorldTypes /\ cur \in Boxes /\ todo \subseteq located /\ located \subseteq Boxes
  BY DEF ConsoleTypes, WindowTypes, Fetchable, Fetches
<1>0. b = cur
  BY DEF Fetches
<1>2. /\ arm' = [at |-> Stops(boxCoordinates[cur])[step + 1], ctl |-> Pump[step + 1],
                 by |-> Console]
      /\ b = cur /\ spoilt' = spoilt
  BY <1>0, Zenon DEF Fetches
<1>3. /\ step' = step + 1 /\ cur' = cur /\ todo' = todo
      /\ gui = "get" /\ gui' = "get"
      /\ boxCoordinates' = boxCoordinates /\ located' = located /\ offerOn' = offerOn
  BY <1>2 DEF Fetches
<1>4. Pump[step + 1] = Catch /\ step' \in 3..5 /\ Catch # Release
  BY <1>3, PumpIs DEF Catch, Release
<1>5. arm'.ctl = Catch /\ arm'.at = Stops(boxCoordinates[cur])[step']
  BY <1>2, <1>3, <1>4
<1>6. \A d \in Boxes :
        boxAt'[d] = IF arm' # arm /\ boxAt[d] = "field" /\ Held = {} /\ arm'.at = BoxPos[d]
                      THEN "held" ELSE boxAt[d]
  <2>1. CASE arm' = arm
    BY <2>1 DEF World
  <2>2. CASE arm' # arm
    <3>1. boxAt' = [d \in Boxes |-> BoxFollows(d)]
      BY <2>2 DEF World, WorldFollows
    <3> QED
      BY <1>4, <1>5, <2>2, <3>1 DEF BoxFollows
  <2> QED
    BY <2>1, <2>2
<1>7. HeldByPump'
  <2>1. ASSUME NEW c \in Held', NEW d \in Held' PROVE c = d
    <3>1. CASE Held = {}
      <4>1. BoxPos[c] = arm'.at /\ BoxPos[d] = arm'.at /\ c \in Boxes /\ d \in Boxes
        BY <1>6, <2>1, <3>1 DEF Held
      <4> QED
        BY <4>1, BoxAssumption
    <3>2. CASE Held # {}
      <4>1. c \in Held /\ d \in Held
        BY <1>6, <2>1, <3>2 DEF Held
      <4> QED
        BY <4>1 DEF BoxInv, HeldByPump
    <3> QED
      BY <3>1, <3>2
  <2> QED
    BY <1>5, <2>1 DEF HeldByPump
<1>8. HeldAsSent' /\ PumpAtRest' /\ OfferStands'
  BY <1>3, <1>4, <1>5 DEF BoxInv, HeldAsSent, PumpAtRest, OfferStands
<1>9. \A d : Sound(d)' <=> Sound(d)
  BY <1>2, <1>3 DEF Sound
<1>10. Sound(cur) => boxAt'[cur] # "field"
  <2>1. CASE step = 2
    <3>1. SUFFICES ASSUME Sound(cur) PROVE boxAt'[cur] # "field"
      OBVIOUS
    <3>2. arm.ctl = Release
      BY <1>3, <2>1, <3>1 DEF BoxInv, GetUnderWay, Sound
    <3>3. Held = {} /\ arm' # arm
      BY <1>4, <1>5, <3>2 DEF BoxInv, HeldByPump
    <3>4. arm'.at = BoxPos[cur]
      BY <1>3, <1>5, <2>1, <3>1, StopsAre DEF Sound
    <3> QED
      BY <1>1, <1>6, <3>3, <3>4
  <2>2. CASE step # 2
    BY <1>1, <1>3, <1>6, <2>2 DEF BoxInv, GetUnderWay
  <2> QED
    BY <2>1, <2>2
<1>11. \A d \in located \ todo : Sound(d)' => boxAt'[d] \in {"delivered", "dropped"}
  BY <1>1, <1>3, <1>6, <1>9 DEF BoxInv, GetUnderWay
<1>12. GetUnderWay'
  <2>1. Sound(cur)' <=> Sound(cur)
    BY <1>2, <1>3 DEF Sound
  <2>2. cur \in todo
    BY <1>3 DEF BoxInv, GetUnderWay
  <2> QED
    BY <1>3, <1>4, <1>10, <1>11, <2>1, <2>2 DEF GetUnderWay
<1> QED
  BY <1>7, <1>8, <1>12 DEF BoxInv

\* One that is not written: what is held is disturbed now, and the trip is spoilt.
LEMMA BoxInvMiss ==
  ASSUME ConsoleTypes, BoxInv, World, UNCHANGED grip, NEW b, Fetches(b),
         step \in 2..4, writeFailed'
  PROVE  BoxInv'
<1>0. b = cur
  BY DEF Fetches
<1>1. /\ arm' = arm /\ b = cur /\ spoilt' = spoilt \cup {cur}
  BY <1>0, Zenon DEF Fetches
<1>2. /\ step' = step + 1 /\ cur' = cur /\ todo' = todo
      /\ gui = "get" /\ gui' = "get"
      /\ boxCoordinates' = boxCoordinates /\ located' = located /\ offerOn' = offerOn
  BY <1>1 DEF Fetches
<1>3. boxAt' = boxAt /\ disturbed' = (disturbed \/ (Held # {} /\ writeFailed'))
  BY <1>1, Zenon DEF World
<1>4. Held' = Held /\ (Held # {} => disturbed')
  <2>1. Held' = Held
    BY <1>3 DEF Held
  <2> QED
    BY <1>3, <2>1, Zenon
<1>5. HeldByPump' /\ HeldAsSent'
  BY <1>1, <1>4 DEF BoxInv, HeldByPump, HeldAsSent
<1>6. PumpAtRest' /\ OfferStands'
  BY <1>2 DEF BoxInv, PumpAtRest, OfferStands
<1>7. GetUnderWay'
  <2>1. cur' \in spoilt' /\ ~Sound(cur)' /\ cur \in todo
    BY <1>1, <1>2 DEF Sound, BoxInv, GetUnderWay
  <2>2. \A d : Sound(d)' => Sound(d)
    BY <1>1, <1>2 DEF Sound
  <2> QED
    BY <1>2, <1>3, <2>1, <2>2 DEF BoxInv, GetUnderWay
<1> QED
  BY <1>5, <1>6, <1>7 DEF BoxInv

\* Every step but a press of button1 keeps BoxInv.
LEMMA BoxInvNext ==
  ASSUME ConsoleTypes, BoxInv, [WindowNext]_consoleVars, [~ToggleSuction]_consoleVars
  PROVE  BoxInv'
<1>1. CASE UNCHANGED consoleVars
  <2>1. ~ToggleSuction
    <3>1. inputs \in Nat
      BY InputsAssumption DEF ConsoleTypes, TypeOK, PanelTypeOK
    <3> QED
      BY <1>1, <3>1 DEF ToggleSuction, consoleVars, vars, panelVars, armVars
  <2> QED
    BY <1>1, <2>1, BackgroundSteps
<1>2. CASE StartHandler \/ HandlerStep
  <2>1. World /\ UNCHANGED grip
    BY <1>2 DEF StartHandler, HandlerStep, sessionVars
  <2>2. CASE Locate \/ Look \/ ScanTurn \/ Offer
    BY <2>1, <2>2, BoxInvLocate
  <2>3. CASE Retrieve \/ AskTablet \/ PromptBind \/ PromptRecv \/ PromptAnswer \/ PromptClose
    BY <2>1, <2>3, BoxInvPrompt
  <2>4. CASE GetFrame
    <3>1. PICK b : Fetches(b)
      BY <2>4, GetFrameFetches
    <3> QED
      BY <2>1, <2>4, <3>1, BoxInvRelease, BoxInvCatch, BoxInvMiss
  <2>5. CASE GetDone
    BY <2>1, <2>5, BoxInvDone
  <2> QED
    BY <1>2, <2>2, <2>3, <2>4, <2>5 DEF StartHandler, HandlerStep
<1>3. CASE ~(UNCHANGED consoleVars) /\ ~(StartHandler \/ HandlerStep)
  BY <1>3, BackgroundSteps DEF WindowNext
<1> QED
  BY <1>1, <1>2, <1>3

LEMMA BoxInvAlways == WindowSpec /\ PumpLeftAlone => []BoxInv
<1> QED
  BY BoxInvInit, BoxInvNext, ConsoleTypesAlways, PTL DEF WindowSpec, PumpLeftAlone

\* As long as nobody presses button1: whatever the tablets, the sessions and the
\* sliders do with the arm, wherever the boxes are and are taken to be, and
\* whichever frames the serial port refuses, retrieval is offered for boxes that
\* are on the field.
THEOREM OfferedAreThere == WindowSpec /\ PumpLeftAlone => []OfferedBoxesThere
<1>1. BoxInv => OfferedBoxesThere
  BY DEF BoxInv, OfferStands, OfferedBoxesThere
<1> QED
  BY <1>1, BoxInvAlways, PTL

\* As long as nobody presses button1: when a retrieval returns, every box that it
\* looked for in the right place, and all of whose frames were written, has been
\* delivered or dropped, although a tablet may have moved the arm, and opened the
\* valve, between any two of the frames, and the trips to other boxes may have
\* failed and left the pump running or another box at the cup.
THEOREM RetrievalHandlesAll == WindowSpec /\ PumpLeftAlone => EveryBoxHandled
<1> DEFINE Handled == (gui = "get" /\ gui' = "idle") =>
                        \A b \in located \ spoilt :
                            boxCoordinates[b] = BoxPos[b] =>
                                boxAt'[b] \in {"delivered", "dropped"}
<1>1. ConsoleTypes /\ BoxInv /\ [WindowNext]_consoleVars => [Handled]_consoleVars
  <2> SUFFICES ASSUME ConsoleTypes, BoxInv, WindowNext, gui = "get", gui' = "idle",
                      NEW b \in located \ spoilt, boxCoordinates[b] = BoxPos[b]
               PROVE  boxAt'[b] \in {"delivered", "dropped"}
    OBVIOUS
  <2>1. GetDone /\ World
    BY DEF WindowNext, Button6, Checkbox, CameraThread, StartHandler, HandlerStep,
           WindowFrame, WindowInput, WindowNetwork, WindowThread, WindowTablet,
           ClickFF, SelectUSB, DeselectUSB, Click, StartCamNew, StartCamStart, Locate,
           Retrieve, AskTablet, Look, Found, NoneAtHome, NoneInScan, CameraFault,
           StreamStalls, ScanTurn, Offer, GetFrame, PromptBind, PromptRecv,
           PromptAnswer, PromptClose, windowVars
  <2>2. boxAt' = boxAt /\ todo = {}
    BY <2>1 DEF GetDone, panelVars, armVars, World
  <2> QED
    BY <2>2 DEF BoxInv, GetUnderWay, Sound
<1> QED
  BY <1>1, BoxInvAlways, ConsoleTypesAlways, PTL DEF WindowSpec, EveryBoxHandled

-----------------------------------------------------------------------------
(* Retrieving implements BoxDelivery, under the same condition. *)

\* At the start no box is held, and nobody has sent a frame.
LEMMA DeliveryInit == WindowInit => Delivery!Init
  BY DEF WindowInit, Init, PanelInit, Delivery!Init

\* Who a frame of a step is from, and when it closes or opens the valve: only
\* getBox closes it, and the console opens it on an undisturbed box at the drop-off
\* place only.
FrameOf ==
    /\ arm'.by \in Sessions \cup {Console}
    /\ arm'.ctl = Catch => arm'.by = Console
    /\ Held # {} /\ arm'.ctl # Catch /\ arm'.by = Console =>
         disturbed \/ (arm.at = DropOff /\ arm'.at = DropOff)

\* What such a frame does to the boxes is a step of the delivery.
LEMMA DeliveryFrame ==
  ASSUME WorldTypes, HeldByPump, WorldFollows, FrameOf,
         arm'.ctl \in {Catch, Release}
  PROVE  Delivery!Next
<1>1. /\ boxAt' = [b \in Boxes |-> BoxFollows(b)]
      /\ disturbed' = (Held # {} /\ boxAt' = boxAt /\ (disturbed \/ arm'.by \in Sessions))
  BY DEF WorldFollows
<1>2. boxAt \in [Boxes -> {"field", "held", "delivered", "dropped"}] /\ Catch # Release
  BY DEF WorldTypes, Catch, Release
<1>3. Delivery!Held = Held
  BY DEF Delivery!Held, Held
<1>4. CASE boxAt' = boxAt
  <2>1. Delivery!Carry
    BY <1>1, <1>3, <1>4, Zenon DEF FrameOf, Delivery!Carry
  <2> QED
    BY <2>1 DEF Delivery!Next
<1>5. CASE boxAt' # boxAt
  <2>1. disturbed' = FALSE
    BY <1>1, <1>5, Zenon
  <2>2. PICK b \in Boxes : BoxFollows(b) # boxAt[b]
    BY <1>1, <1>2, <1>5
  <2>3. CASE boxAt[b] = "held"
    <3>1. arm'.ctl = Release /\ Held # {} /\ b \in Held
      BY <2>2, <2>3 DEF BoxFollows, Held
    <3>2. \A d \in Boxes : d # b => BoxFollows(d) = boxAt[d]
      BY <3>1 DEF BoxFollows, HeldByPump, Held
    <3>3. boxAt' = [boxAt EXCEPT ![b] = BoxFollows(b)]
      BY <1>1, <1>2, <3>2
    <3>4. CASE arm.at = DropOff /\ arm'.at = DropOff
      <4>1. boxAt' = [boxAt EXCEPT ![b] = "delivered"]
        BY <2>3, <3>1, <3>3, <3>4 DEF BoxFollows
      <4>2. Delivery!Deliver(b)
        BY <2>1, <2>3, <4>1 DEF FrameOf, Delivery!Deliver
      <4> QED
        BY <4>2 DEF Delivery!Next
    <3>5. CASE ~(arm.at = DropOff /\ arm'.at = DropOff)
      <4>1. boxAt' = [boxAt EXCEPT ![b] = "dropped"]
        BY <2>3, <3>1, <3>3, <3>5 DEF BoxFollows
      <4>2. /\ arm'.by \in Sessions \cup {Console}
            /\ disturbed \/ arm'.by \in Sessions
        BY <1>2, <3>1, <3>5 DEF FrameOf
      <4>3. Delivery!Drop(b)
        BY <2>1, <2>3, <4>1, <4>2 DEF Delivery!Drop
      <4> QED
        BY <4>3 DEF Delivery!Next
    <3> QED
      BY <3>4, <3>5
  <2>4. CASE boxAt[b] # "held"
    <3>1. /\ boxAt[b] = "field" /\ Held = {} /\ arm'.ctl = Catch /\ arm'.at = BoxPos[b]
          /\ BoxFollows(b) = "held"
      BY <2>2, <2>4 DEF BoxFollows
    <3>2. \A d \in Boxes : d # b => BoxFollows(d) = boxAt[d]
      BY <1>2, <3>1, BoxAssumption DEF BoxFollows
    <3>3. boxAt' = [boxAt EXCEPT ![b] = "held"]
      BY <1>1, <1>2, <3>1, <3>2
    <3>4. Delivery!PickUp(b)
      BY <1>3, <2>1, <3>1, <3>3 DEF FrameOf, Delivery!PickUp
    <3> QED
      BY <3>4 DEF Delivery!Next
  <2> QED
    BY <2>3, <2>4
<1> QED
  BY <1>4, <1>5

\* The steps that send a frame send such a frame.
LEMMA FramesAre ==
  ASSUME ConsoleTypes, BoxInv, WindowNext, arm' # arm
  PROVE  FrameOf /\ World
<1>1. /\ \A s \in Sessions : grip[s] = Release
      /\ gui # "get" => suctionCup = Release /\ (Held # {} => disturbed)
      /\ Catch # Release /\ Console \notin Sessions
  BY HeldElsewhere, SendersAssumption DEF BoxInv, PumpAtRest, Catch, Release
<1>2. CASE \E s \in Sessions : WindowThread(s)
  <2>1. PICK s \in Sessions : WindowThread(s)
    BY <1>2
  <2>2. arm' = [at |-> loc[s], ctl |-> grip[s], by |-> s] /\ World
    BY <2>1 DEF WindowThread, Thread, SessionStep, SessionBind, SessionRecv, SessionCheck,
                SessionReply, SessionMove, SessionAim, SessionLift, SessionClose,
                panelVars, armVars, SendPos
  <2> QED
    BY <1>1, <2>2 DEF FrameOf
<1>3. CASE WindowFrame
  <2>1. gui = "idle" /\ World /\ arm' = [at |-> shown', ctl |-> suctionCup, by |-> Console]
    BY <1>3, Zenon DEF WindowFrame, AnimationFrame, Draw, SendPos, armVars
  <2> QED
    BY <1>1, <2>1 DEF FrameOf
<1>4. CASE World /\ (Locate \/ ScanTurn)
  <2>1. gui \in {"idle", "scan"} /\ arm'.ctl = suctionCup /\ arm'.by = Console
    BY <1>4 DEF Locate, Click, ScanTurn, SendPos
  <2> QED
    BY <1>1, <1>4, <2>1 DEF FrameOf
<1>5. CASE World /\ GetFrame
  <2>1. PICK b \in IF step = 0 THEN todo ELSE {cur} :
          arm' = [at |-> Stops(boxCoordinates[b])[step + 1], ctl |-> Pump[step + 1],
                  by |-> Console]
    BY <1>5 DEF GetFrame, SendPos
  <2>2. arm'.by = Console /\ arm'.ctl = Pump[step + 1] /\ step \in 0..7
    BY <2>1 DEF ConsoleTypes, WindowTypes
  <2>3. ASSUME Held # {}, arm'.ctl # Catch, ~disturbed
        PROVE  arm.at = DropOff /\ arm'.at = DropOff
    <3>1. step \in 3..5 /\ arm.at = Stops(boxCoordinates[cur])[step]
      BY <2>3 DEF BoxInv, HeldAsSent
    <3>2. step = 5
      BY <2>2, <2>3, <3>1, PumpIs
    <3>3. arm.at = Stops(boxCoordinates[cur])[5] /\ arm'.at = Stops(boxCoordinates[cur])[6]
      BY <2>1, <3>1, <3>2
    <3> QED
      BY <3>3, StopsAre
  <2> QED
    BY <1>5, <2>2, <2>3 DEF FrameOf
<1>6. \/ \E s \in Sessions : WindowThread(s)
      \/ WindowFrame
      \/ World /\ (Locate \/ ScanTurn \/ GetFrame)
  BY DEF WindowNext, Button6, BeginSession, EndSession, Checkbox, CameraThread,
         StartHandler, HandlerStep, WindowInput, PanelInput, MoveControl, ToggleSuction,
         WindowNetwork, Network, WindowTablet, Tablet, Retrieve, AskTablet, Look, Offer,
         GetDone, PromptBind, PromptRecv, PromptAnswer, PromptClose, vars, panelVars,
         armVars
<1> QED
  BY <1>2, <1>3, <1>4, <1>5, <1>6

\* Every step is a step of the delivery, or leaves the boxes and the arm alone.
LEMMA DeliveryNext ==
  ASSUME ConsoleTypes, BoxInv, ConsoleTypes', [WindowNext]_consoleVars
  PROVE  [Delivery!Next]_<<boxAt, arm.by, disturbed>>
<1>1. CASE arm' = arm
  <2>1. UNCHANGED worldVars \/ World
    BY <1>1 DEF WindowNext, Button6, Checkbox, CameraThread, StartHandler, HandlerStep,
                WindowFrame, WindowInput, WindowNetwork, WindowThread, WindowTablet,
                consoleVars
  <2>2. CASE UNCHANGED worldVars
    BY <1>1, <2>2 DEF worldVars
  <2>3. CASE World
    <3>1. boxAt' = boxAt /\ disturbed' = (disturbed \/ (Held # {} /\ writeFailed'))
      BY <1>1, <2>3, Zenon DEF World
    <3>2. CASE Held # {} /\ writeFailed'
      <4>1. Delivery!Held # {}
        BY <3>2 DEF Delivery!Held, Held
      <4>2. Delivery!Miss
        BY <1>1, <3>1, <3>2, <4>1, Zenon DEF Delivery!Miss
      <4> QED
        BY <4>2 DEF Delivery!Next
    <3>3. CASE ~(Held # {} /\ writeFailed')
      <4>1. disturbed' = disturbed
        BY <3>1, <3>3, Zenon DEF ConsoleTypes, WorldTypes
      <4> QED
        BY <1>1, <3>1, <4>1
    <3> QED
      BY <3>2, <3>3
  <2> QED
    BY <2>1, <2>2, <2>3
<1>2. CASE arm' # arm
  <2>1. FrameOf /\ World
    BY <1>2, FramesAre DEF consoleVars, vars, panelVars, armVars
  <2>2. WorldFollows
    BY <1>2, <2>1 DEF World
  <2>3. arm'.ctl \in {Catch, Release}
    BY DEF ConsoleTypes, TypeOK, PanelTypeOK, Frame
  <2>4. Delivery!Next
    BY <2>1, <2>2, <2>3, DeliveryFrame DEF ConsoleTypes, BoxInv
  <2> QED
    BY <2>4
<1> QED
  BY <1>1, <1>2

\* As long as nobody presses button1, the window's handlers, the sessions and the
\* panel implement BoxDelivery: the arm holds one box at a time, sets it down at
\* the drop-off place, and loses it elsewhere only to a tablet's frame or after a
\* frame that was not written.
THEOREM ImplementsDelivery == WindowSpec /\ PumpLeftAlone => DeliveryKept
<1>1. WindowSpec /\ PumpLeftAlone => Delivery!Spec
  BY DeliveryInit, DeliveryNext, BoxInvAlways, ConsoleTypesAlways, PTL
  DEF WindowSpec, Delivery!Spec
<1> QED
  BY <1>1 DEF DeliveryKept
=============================================================================

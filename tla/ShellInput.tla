------------------------------ MODULE ShellInput ------------------------------
(***************************************************************************)
(* From buttons to commands: the input part of a shell frame.  A frame     *)
(* looks at the exit combination and at held scroll buttons, drains the    *)
(* event queue, then polls the directions (run_shell_frame).  SDL samples  *)
(* the pad when the queue is pumped, so "pad" is what the last pump saw;   *)
(* the events of one pump are taken one at a time.  Commands go to the     *)
(* screens, which may show any place afterwards.                           *)
(***************************************************************************)
EXTENDS Integers, FiniteSets, FiniteSetsExt

CONSTANTS InitialRepeat, Repeat,   \* ticks before the first and the next repeats
          ScrollRepeat,            \* ticks between repeated scrolls of the log
          ExitHold,                \* ticks Start and Back are held to leave
          MaxDown                  \* bound: buttons that are down at a time

ASSUME InputAssumption ==
    /\ {InitialRepeat, Repeat, ScrollRepeat, ExitHold, MaxDown} \subseteq Nat \ {0}
    /\ Repeat <= InitialRepeat

VARIABLES
    phase,     \* "combo", "scroll", "events", "poll" of a frame, or "left"
    exit,      \* shouldExit
    skip,      \* skipPolledControllerNavigation of this frame
    pad,       \* the buttons that are down
    tilt,      \* the stick: 0 centred, 1 past release, 2 past activation, upwards
    place,     \* the hosts page, the log viewer or any other page
    input,     \* ShellInputState
    issued,    \* the command of the last step and where it came from
    held,      \* history: directions held since a command that is no direction
    quiet,     \* history: ticks since a direction moved, up to Repeat; Repeat
               \* from when it was let go or its opposite was pressed
    joint,     \* history: Start and Back were one combination and one is still down
    lost       \* history: buttons let go while a stream had the pad

pads == <<pad, tilt>>
vars == <<phase, skip, exit, pads, place, input, issued, held, quiet, joint, lost>>

Direction == {"up", "down"}
Scroller  == {"shoulder", "trigger"}       \* one of each kind stands for both
Meta      == {"start", "back"}
Button    == Direction \cup Scroller \cup Meta
Place     == {"hosts", "log", "other"}

Opposite(d) == CHOOSE e \in Direction : e # d

\* translate_controller_button, map_gamepad_button_to_ui_command
CommandOf(b) == CASE b \in Direction -> b
                  [] b \in Scroller  -> "page"
                  [] b = "start"     -> "confirm"
                  [] OTHER           -> "back"
FaceCommand == {"activate"}                \* A; B, X and Y are alike
KeyCommand  == {"up", "confirm"}           \* a direction, or one of the others

IsNavigation(c) == c \in Direction

Nothing == [command |-> "none", by |-> "none"]
Sent(c, source) == [command |-> c, by |-> source]

\* Ticks are kept as the time since then, up to where nothing depends on it, and
\* not at all where the code does not read them again.
Released == [active |-> FALSE, on |-> 0, last |-> 0]
Seeded   == [active |-> TRUE, on |-> 0, last |-> 0]
Fresh ==
    [pressed |-> {}, armed |-> FALSE, triggered |-> FALSE, neutral |-> FALSE,
     down   |-> [b \in Meta |-> 0],
     scroll |-> [b \in Scroller |-> 0],
     hold   |-> [d \in Direction |-> Released]]

Hold == [active : BOOLEAN, on : 0 .. InitialRepeat, last : 0 .. Repeat]
ShellInputState ==
    [pressed : SUBSET (Scroller \cup Meta), armed : BOOLEAN, triggered : BOOLEAN,
     neutral : BOOLEAN,
     down    : [Meta -> 0 .. ExitHold],
     scroll  : [Scroller -> 0 .. ScrollRepeat],
     hold    : [Direction -> Hold]]

NoHolds(in) == [in EXCEPT !.hold = [d \in Direction |-> Released]]

\* The next move may come at once.
Rested == [d \in Direction |-> Repeat]

Init ==
    /\ phase = "combo" /\ skip = FALSE /\ exit = FALSE
    /\ pad = {} /\ tilt = 0 /\ place = "hosts"
    /\ input = Fresh /\ issued = Nothing
    /\ held = {} /\ quiet = Rested /\ joint = FALSE /\ lost = {}

-----------------------------------------------------------------------------
(* The exit combination and the scroll buttons, at the head of a frame.    *)

Both(in) == Meta \subseteq in.pressed

CanCombo == Both(input) /\ place = "hosts"

UpdateExitComboHold ==
    /\ phase = "combo" /\ phase' = "scroll"
    /\ LET due == Min({input.down[b] : b \in Meta}) >= ExitHold IN
       IF input.triggered \/ ~ CanCombo
       THEN UNCHANGED <<input, exit, joint>>
       ELSE /\ input' = [input EXCEPT !.armed = TRUE, !.triggered = due]
            /\ exit' = (exit \/ due) /\ joint' = TRUE
    /\ issued' = Nothing
    /\ UNCHANGED <<skip, pads, place, held, quiet, lost>>

Due(b) == b \in input.pressed /\ input.scroll[b] >= ScrollRepeat

\* The log viewer stays open: its page commands only scroll.
RepeatScroll(b) ==
    /\ phase = "scroll" /\ place = "log" /\ Due(b)
    /\ input' = [input EXCEPT !.scroll[b] = 0]
    /\ issued' = Sent("page", "scroll")
    /\ UNCHANGED <<phase, skip, exit, pads, place, held, quiet, joint, lost>>

EndScroll ==
    /\ phase = "scroll"
    /\ place = "log" => \A b \in Scroller : ~ Due(b)
    /\ phase' = "events" /\ skip' = FALSE /\ issued' = Nothing
    /\ UNCHANGED <<exit, pads, place, input, held, quiet, joint, lost>>

-----------------------------------------------------------------------------
(* Events.                                                                 *)

HeldNow(buttons, stick) ==
    (buttons \cap Direction) \cup (IF stick >= 1 THEN {"up"} ELSE {})

\* Mutant: the holds are forgotten, but a direction that is still held may
\* move again at the next poll.
HandleAndGoOn(c, in) == [in EXCEPT !.hold = NoHolds(in).hold]

\* A command that is no direction: directions count again once they were let go.
AfterCommand(c, in) == [NoHolds(in) EXCEPT !.neutral = TRUE]

\* A direction starts afresh when its button is let go, when nothing tilts or
\* presses it any more, and when a press of its opposite cancels its hold.
Renewed(d, c, source, buttons, stick) ==
    \/ d \in pad \ buttons
    \/ d \notin HeldNow(buttons, stick)
    \/ c = Opposite(d) /\ source = "pad"

\* What the loop does with the command of an event.  A stream may have run: the
\* pad was closed, sampled by the stream and opened again.
Deliver(c, in, source, buttons, stick) ==
    /\ phase = "events"
    /\ issued' = IF c = "none" THEN Nothing ELSE Sent(c, source)
    /\ IF c = "none" \/ IsNavigation(c)
       THEN /\ input' = in /\ pad' = buttons /\ tilt' = stick
            /\ held' = held \cap HeldNow(buttons, stick)
            /\ lost' = lost \cap (in.pressed \ buttons)
            /\ UNCHANGED <<skip, place>>
       ELSE /\ skip' = TRUE /\ input' = AfterCommand(c, in)
            /\ place' \in Place
            /\ \/ /\ pad' = buttons /\ tilt' = stick
                  /\ lost' = lost \cap (in.pressed \ buttons)
               \/ /\ c \in {"activate", "confirm"} /\ place = "other" /\ place' = "other"
                  /\ \E gone \in SUBSET buttons : pad' = buttons \ gone
                  /\ tilt' \in {0, stick}
                  /\ lost' = in.pressed \ pad'
            /\ held' = HeldNow(pad', tilt')
    /\ joint' = (joint /\ pad' \cap Meta # {})
    /\ quiet' = [d \in Direction |->
                    IF c = d /\ source = "pad" THEN 0
                    ELSE IF Renewed(d, c, source, pad', tilt') THEN Repeat ELSE quiet[d]]
    /\ UNCHANGED <<phase, exit>>

\* Mutant: a pressed direction is left for the poll to notice.
Unseeded(d, in) == in

\* seed_controller_navigation_hold_state
Seed(d, in) == [in EXCEPT !.hold = [@ EXCEPT ![d] = Seeded, ![Opposite(d)] = Released]]

DownFlags(b, in) ==
    LET new == [in EXCEPT !.pressed = @ \cup {b}] IN
    CASE b \in Direction -> Seed(b, in)
      [] b \in Scroller  -> [new EXCEPT !.scroll[b] = 0]
      [] OTHER           -> IF b \in in.pressed THEN in ELSE [new EXCEPT !.down[b] = 0]

Armed(in) == [in EXCEPT !.armed = @ \/ (Both(in) /\ place = "hosts")]

ButtonDown(b) ==
    /\ b \notin pad /\ b # "trigger" /\ Cardinality(pad) < MaxDown
    /\ Deliver(IF b \in Meta THEN "none" ELSE CommandOf(b), Armed(DownFlags(b, input)), "pad",
               pad \cup {b}, tilt)

\* A trigger that crosses the threshold, if it was not taken for pressed already.
TriggerDown ==
    /\ "trigger" \notin pad /\ Cardinality(pad) < MaxDown
    /\ IF "trigger" \in input.pressed
       THEN Deliver("none", input, "pad", pad \cup {"trigger"}, tilt)
       ELSE Deliver("page", DownFlags("trigger", input), "pad", pad \cup {"trigger"}, tilt)

\* Mutant: the combination is over when one of its buttons is up.
ReleaseOne(b, in) ==
    LET new == [in EXCEPT !.pressed = @ \ {b}] IN
    CASE b \in Direction -> [new EXCEPT !.hold[b] = Released]
      [] b \in Scroller  -> [new EXCEPT !.scroll[b] = 0]
      [] b \in Meta      -> [new EXCEPT !.down[b] = 0, !.armed = FALSE, !.triggered = FALSE]

\* The combination is over when both are up.
Release(b, in) ==
    LET new  == [in EXCEPT !.pressed = @ \ {b}]
        over == b # "trigger" /\ new.pressed \cap Meta = {}
        out  == [new EXCEPT !.armed = @ /\ ~ over, !.triggered = @ /\ ~ over]
    IN CASE b \in Direction -> [out EXCEPT !.hold[b] = Released]
         [] b \in Scroller  -> [out EXCEPT !.scroll[b] = 0]
         [] OTHER           -> [out EXCEPT !.down[b] = 0]

\* Start and Back act when they are released, unless they were part of the
\* combination.
ReleaseCommand(b, in) ==
    IF b \in Meta \cap in.pressed /\ ~ in.armed /\ ~ in.triggered THEN CommandOf(b) ELSE "none"

ButtonUp(b) ==
    /\ b \in pad
    /\ Deliver(ReleaseCommand(b, input), Release(b, input), "pad", pad \ {b}, tilt)

Stick(t) ==
    /\ t # tilt /\ Deliver("none", input, "pad", pad, t)

FaceDown(c) == Deliver(c, Armed(input), "face", pad, tilt)

KeyDown(c) == Deliver(c, input, "key", pad, tilt)

\* Mutant: only the directions are forgotten.
PulledKeeps(in) == NoHolds(in)

Pulled(in) == Fresh

\* The pad is pulled out, and one is plugged in again.
Removed ==
    /\ phase = "events" /\ (pad # {} \/ tilt # 0)
    /\ pad' = {} /\ tilt' = 0 /\ input' = Pulled(input)
    /\ issued' = Nothing /\ held' = {} /\ quiet' = Rested /\ joint' = FALSE /\ lost' = {}
    /\ UNCHANGED <<phase, skip, exit, place>>

\* Time passes while events are waited for and while commands are at work.
Older(age, limit) == IF age < limit THEN age + 1 ELSE age
OlderHold(h) == IF h.active
                THEN [h EXCEPT !.on = Older(@, InitialRepeat), !.last = Older(@, Repeat)] ELSE h
Tick ==
    /\ phase = "events"
    /\ input' = [input EXCEPT
           !.down   = [b \in Meta      |-> IF b \in input.pressed THEN Older(@[b], ExitHold) ELSE 0],
           !.scroll = [b \in Scroller  |-> IF b \in input.pressed THEN Older(@[b], ScrollRepeat) ELSE 0],
           !.hold   = [d \in Direction |-> OlderHold(@[d])]]
    /\ quiet' = [d \in Direction |-> Older(quiet[d], Repeat)]
    /\ issued' = Nothing
    /\ UNCHANGED <<phase, skip, exit, pads, place, held, joint, lost>>

Drained ==
    /\ phase = "events" /\ phase' = "poll" /\ issued' = Nothing
    /\ UNCHANGED <<skip, exit, pads, place, input, held, quiet, joint, lost>>

-----------------------------------------------------------------------------
(* The poll of the held directions, at the end of a frame.                 *)

\* Hysteresis: a direction that is active stays so down to the lower threshold.
Pushed(d) == d \in pad \/ (d = "up" /\ tilt >= (IF input.hold[d].active THEN 1 ELSE 2))

Ready(h) == ~ h.active \/ (h.on >= InitialRepeat /\ h.last >= Repeat)

Held(h, pushed) ==
    IF ~ pushed THEN Released
    ELSE IF ~ h.active THEN Seeded
    ELSE IF Ready(h) THEN [h EXCEPT !.last = 0] ELSE h

\* The first direction that is due is taken; those after it are not looked at.
PollCommand == IF Pushed("up") /\ Ready(input.hold["up"]) THEN "up"
               ELSE IF Pushed("down") /\ Ready(input.hold["down"]) THEN "down" ELSE "none"

NavigationActive == HeldNow(pad, tilt) # {}

\* Mutant: the requirement is lifted when the stick and the pad of one
\* direction are at rest.
StillNeutralUp == input.neutral /\ "up" \in HeldNow(pad, tilt)

StillNeutral == input.neutral /\ NavigationActive

Poll ==
    /\ phase = "poll"
    /\ phase' = IF exit THEN "left" ELSE "combo"
    /\ LET settled == [input EXCEPT !.neutral = StillNeutral,
                                    !.hold = IF StillNeutral THEN NoHolds(input).hold ELSE @]
       IN IF skip \/ StillNeutral
          THEN input' = settled /\ issued' = Nothing /\ UNCHANGED quiet
          ELSE /\ input' = [settled EXCEPT
                      !.hold["up"]   = Held(@, Pushed("up")),
                      !.hold["down"] = IF PollCommand = "up" THEN @ ELSE Held(@, Pushed("down"))]
               /\ issued' = IF PollCommand = "none" THEN Nothing ELSE Sent(PollCommand, "poll")
               /\ quiet' = IF PollCommand = "none" THEN quiet ELSE [quiet EXCEPT ![PollCommand] = 0]
    /\ held' = held \cap HeldNow(pad, tilt)
    /\ skip' = FALSE
    /\ UNCHANGED <<exit, pads, place, joint, lost>>

\* A background task may have changed the page between two frames.
PlaceChanges ==
    /\ phase = "combo" /\ place = "other" /\ place' = "hosts"
    /\ issued' = Nothing
    /\ UNCHANGED <<phase, skip, exit, pads, input, held, quiet, joint, lost>>

Next ==
    \/ UpdateExitComboHold \/ EndScroll \/ Drained \/ Poll \/ PlaceChanges
    \/ \E b \in Scroller : RepeatScroll(b)
    \/ \E b \in Button : ButtonDown(b) \/ ButtonUp(b)
    \/ TriggerDown \/ Removed \/ Tick
    \/ \E t \in 0 .. 2 : Stick(t)
    \/ \E c \in FaceCommand : FaceDown(c)
    \/ \E c \in KeyCommand : KeyDown(c)

Spec == Init /\ [][Next]_vars

-----------------------------------------------------------------------------
(* Properties.                                                             *)

TypeOK ==
    /\ phase \in {"combo", "scroll", "events", "poll", "left"}
    /\ skip \in BOOLEAN /\ exit \in BOOLEAN /\ joint \in BOOLEAN
    /\ pad \subseteq Button /\ tilt \in 0 .. 2 /\ place \in Place
    /\ input \in ShellInputState
    /\ held \subseteq Direction /\ lost \subseteq Button
    /\ quiet \in [Direction -> 0 .. Repeat]

\* A direction that was held while the user chose something does not move the
\* selection of what the choice opened, before it was let go.
ChoiceNeedsNeutral == [][issued'.by = "poll" => issued'.command \notin held]_vars

\* The poll never moves in a direction within the repeat interval of the last
\* move by that direction's button or by the poll: one press is one move, also
\* when its event and the poll of the same frame both see it, and whatever other
\* buttons, keys, commands and streams come between.  Excepted is a direction
\* that has been let go since that move (its button released, or the stick
\* centred and tilted again), and one whose opposite was pressed: the code
\* clears its hold, and it moves again at once.
MovesArePaced == [][issued'.by = "poll" => quiet[issued'.command] >= Repeat]_vars

\* Start and Back that were one combination act neither as confirm nor as back,
\* in whatever order and on whatever page they are let go.
CombinationIsNoCommand ==
    [][joint /\ issued'.by = "pad" => issued'.command \notin {"confirm", "back"}]_vars

\* No button counts as pressed that is not down, but for those let go during a
\* stream: their events went to the stream.
PressedAreDown == input.pressed \ pad \subseteq lost
=============================================================================

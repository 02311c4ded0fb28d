-------------------------- MODULE ShellInputProofs --------------------------
(***************************************************************************)
(* What ShellInput promises for any lengths of its timers: after a change  *)
(* of page nothing is chosen before all is released, the poll moves no     *)
(* faster than its pause, the buttons of a combination give no command,    *)
(* and what counts as pressed is down.                                     *)
(***************************************************************************)
EXTENDS ShellInput, TLAPS

-----------------------------------------------------------------------------
(* The inductive invariant.                                                *)

\* The poll has moved in a direction less than a pause ago only while it is
\* held; its hold knows of no longer silence; and without a hold the direction
\* is quiet, or everything must be released first.
PacedAt(d) ==
    /\ quiet[d] < Repeat => d \in HeldNow(pad, tilt)
    /\ input.hold[d].active => quiet[d] >= input.hold[d].last
    /\ ~ input.hold[d].active => quiet[d] >= Repeat \/ input.neutral

\* So it is in every direction.
Paced == \A d \in Direction : PacedAt(d)

\* Until what was held when the page changed is up, the release is waited for.
AwaitsNeutral == held # {} => input.neutral

\* A combination that is under way was armed, and the buttons of combinations
\* that are down count as pressed.
Combined == /\ joint => input.armed
            /\ pad \cap (Meta \cup Scroller) \subseteq input.pressed

\* The inductive invariant.
InputInv == TypeOK /\ Paced /\ AwaitsNeutral /\ Combined /\ PressedAreDown

-----------------------------------------------------------------------------
(* The operators of the model.                                             *)

\* The timers are positive.
LEMMA TicksAreNat ==
    /\ InitialRepeat \in Nat \ {0} /\ Repeat \in Nat \ {0} /\ ScrollRepeat \in Nat \ {0}
    /\ ExitHold \in Nat \ {0} /\ MaxDown \in Nat \ {0}
BY InputAssumption DEF InputAssumption

\* A direction is not its own opposite.
LEMMA OppositeIsOther ==
    /\ Opposite("up") = "down" /\ Opposite("down") = "up"
<1>1. ASSUME NEW d \in Direction, NEW e \in Direction, e # d PROVE Opposite(d) # d /\ Opposite(d) \in Direction
  BY <1>1 DEF Opposite
<1> QED BY <1>1 DEF Direction

\* After a rest every direction has been silent for a pause.
LEMMA RestedType == Rested \in [Direction -> 0 .. Repeat] /\ \A d \in Direction : Rested[d] = Repeat
BY TicksAreNat DEF Rested

\* A hold that was let go and one that starts are holds.
LEMMA HoldsAreHolds == Released \in Hold /\ Seeded \in Hold
BY TicksAreNat DEF Released, Seeded, Hold

\* Changing one part leaves the others alone.
WithHold(in, h)       == [in EXCEPT !.hold = h]
WithScroll(in, p, s)  == [in EXCEPT !.pressed = p, !.scroll = s]
WithDown(in, p, s)    == [in EXCEPT !.pressed = p, !.down = s]
WithFlags(in, p, a, t) == [in EXCEPT !.pressed = p, !.armed = a, !.triggered = t]

\* Changing the holds changes nothing else.
LEMMA WithHoldFacts ==
    ASSUME NEW in \in ShellInputState, NEW h \in [Direction -> Hold]
    PROVE  /\ WithHold(in, h) \in ShellInputState
           /\ WithHold(in, h).hold = h /\ WithHold(in, h).pressed = in.pressed
           /\ WithHold(in, h).neutral = in.neutral /\ WithHold(in, h).armed = in.armed
BY DEF ShellInputState, WithHold

\* Changing what scrolls changes nothing else.
LEMMA WithScrollFacts ==
    ASSUME NEW in \in ShellInputState, NEW p \in SUBSET (Scroller \cup Meta),
           NEW s \in [Scroller -> 0 .. ScrollRepeat]
    PROVE  /\ WithScroll(in, p, s) \in ShellInputState
           /\ WithScroll(in, p, s).hold = in.hold /\ WithScroll(in, p, s).pressed = p
           /\ WithScroll(in, p, s).neutral = in.neutral /\ WithScroll(in, p, s).armed = in.armed
BY DEF ShellInputState, WithScroll

\* Changing how long a button is down changes nothing else.
LEMMA WithDownFacts ==
    ASSUME NEW in \in ShellInputState, NEW p \in SUBSET (Scroller \cup Meta),
           NEW s \in [Meta -> 0 .. ExitHold]
    PROVE  /\ WithDown(in, p, s) \in ShellInputState
           /\ WithDown(in, p, s).hold = in.hold /\ WithDown(in, p, s).pressed = p
           /\ WithDown(in, p, s).neutral = in.neutral /\ WithDown(in, p, s).armed = in.armed
BY DEF ShellInputState, WithDown

\* Changing the combination changes nothing else.
LEMMA WithFlagsFacts ==
    ASSUME NEW in \in ShellInputState, NEW p \in SUBSET (Scroller \cup Meta),
           NEW a \in BOOLEAN, NEW t \in BOOLEAN
    PROVE  /\ WithFlags(in, p, a, t) \in ShellInputState
           /\ WithFlags(in, p, a, t).hold = in.hold /\ WithFlags(in, p, a, t).pressed = p
           /\ WithFlags(in, p, a, t).neutral = in.neutral /\ WithFlags(in, p, a, t).armed = a
BY DEF ShellInputState, WithFlags

\* Forgetting the holds changes nothing else.
LEMMA NoHoldsFacts ==
    ASSUME NEW in \in ShellInputState
    PROVE  /\ NoHolds(in) \in ShellInputState
           /\ NoHolds(in).pressed = in.pressed /\ NoHolds(in).neutral = in.neutral
           /\ NoHolds(in).armed = in.armed
           /\ \A d \in Direction : NoHolds(in).hold[d] = Released
<1>1. [d \in Direction |-> Released] \in [Direction -> Hold] BY HoldsAreHolds
<1>2. NoHolds(in) = WithHold(in, [d \in Direction |-> Released]) BY DEF NoHolds, WithHold
<1>3. in.pressed \in SUBSET (Scroller \cup Meta) BY DEF ShellInputState
<1> QED BY <1>1, <1>2, <1>3, WithHoldFacts

\* A fresh state holds nothing.
LEMMA FreshFacts ==
    /\ Fresh \in ShellInputState /\ Fresh.pressed = {}
    /\ \A d \in Direction : Fresh.hold[d] = Released
BY TicksAreNat, HoldsAreHolds DEF Fresh, ShellInputState

\* After a command that changes the page, nothing is held and all must be
\* released first.
LEMMA AfterCommandFacts ==
    ASSUME NEW in \in ShellInputState, NEW c
    PROVE  /\ AfterCommand(c, in) \in ShellInputState
           /\ AfterCommand(c, in).pressed = in.pressed /\ AfterCommand(c, in).neutral
           /\ AfterCommand(c, in).armed = in.armed
           /\ \A d \in Direction : AfterCommand(c, in).hold[d] = Released
BY NoHoldsFacts DEF AfterCommand, ShellInputState

\* A button that goes down is pressed, unless it is a direction.
LEMMA DownFlagsFacts ==
    ASSUME NEW in \in ShellInputState, NEW b \in Button
    PROVE  /\ DownFlags(b, in) \in ShellInputState
           /\ DownFlags(b, in).pressed = in.pressed \cup ({b} \ Direction)
           /\ DownFlags(b, in).neutral = in.neutral /\ DownFlags(b, in).armed = in.armed
           /\ b \notin Direction => DownFlags(b, in).hold = in.hold
           /\ b \in Direction => /\ DownFlags(b, in).hold[b] = Seeded
                                 /\ \A d \in Direction \ {b} : DownFlags(b, in).hold[d] = Released
<1>0. in.pressed \in SUBSET (Scroller \cup Meta) BY DEF ShellInputState
<1>1. CASE b \in Direction
  <2> DEFINE h == [in.hold EXCEPT ![b] = Seeded, ![Opposite(b)] = Released]
  <2>1. in.hold \in [Direction -> Hold] BY DEF ShellInputState
  <2>2. h \in [Direction -> Hold] BY <2>1, HoldsAreHolds
  <2>3. h[b] = Seeded /\ \A d \in Direction \ {b} : h[d] = Released
    BY <1>1, <2>1, OppositeIsOther DEF Direction
  <2>4. DownFlags(b, in) = WithHold(in, h)
    <3>1. DownFlags(b, in) = Seed(b, in) BY <1>1 DEF DownFlags, Direction, Scroller
    <3>2. Seed(b, in) = WithHold(in, h) BY DEF Seed, WithHold
    <3> QED BY <3>1, <3>2
  <2> HIDE DEF h
  <2> QED BY <1>0, <1>1, <2>2, <2>3, <2>4, WithHoldFacts
<1>2. CASE b \in Scroller
  <2> DEFINE s == [in.scroll EXCEPT ![b] = 0]
  <2>1. s \in [Scroller -> 0 .. ScrollRepeat]
    <3>1. in.scroll \in [Scroller -> 0 .. ScrollRepeat] BY DEF ShellInputState
    <3>2. 0 \in 0 .. ScrollRepeat BY TicksAreNat
    <3> QED BY <3>1, <3>2
  <2>2. DownFlags(b, in) = WithScroll(in, in.pressed \cup {b}, s)
    BY <1>2 DEF DownFlags, ShellInputState, Direction, Scroller, WithScroll
  <2>3. b \notin Direction BY <1>2 DEF Direction, Scroller
  <2>4. in.pressed \cup {b} \in SUBSET (Scroller \cup Meta) BY <1>0, <1>2
  <2>5. in.pressed \cup {b} = in.pressed \cup ({b} \ Direction) BY <2>3
  <2> HIDE DEF s
  <2>6. LET new == WithScroll(in, in.pressed \cup {b}, s) IN
        new \in ShellInputState /\ new.pressed = in.pressed \cup {b} /\ new.neutral = in.neutral
        /\ new.armed = in.armed /\ new.hold = in.hold
    BY <2>1, <2>4, WithScrollFacts
  <2> QED BY <2>2, <2>3, <2>5, <2>6
<1>3. CASE b \in Meta
  <2>0. b \notin Direction /\ b \notin Scroller BY <1>3 DEF Direction, Scroller, Meta
  <2>1. CASE b \in in.pressed
    <3>1. DownFlags(b, in) = in BY <2>0, <2>1 DEF DownFlags
    <3> QED BY <2>0, <2>1, <3>1
  <2>2. CASE b \notin in.pressed
    <3> DEFINE s == [in.down EXCEPT ![b] = 0]
    <3>1. s \in [Meta -> 0 .. ExitHold]
      <4>1. in.down \in [Meta -> 0 .. ExitHold] BY DEF ShellInputState
      <4>2. 0 \in 0 .. ExitHold BY TicksAreNat
      <4> QED BY <4>1, <4>2
    <3>2. DownFlags(b, in) = WithDown(in, in.pressed \cup {b}, s)
      BY <2>0, <2>2 DEF DownFlags, ShellInputState, WithDown
    <3>3. in.pressed \cup {b} \in SUBSET (Scroller \cup Meta) BY <1>0, <1>3
    <3> HIDE DEF s
    <3>4. LET new == WithDown(in, in.pressed \cup {b}, s) IN
          new \in ShellInputState /\ new.pressed = in.pressed \cup {b} /\ new.neutral = in.neutral
          /\ new.armed = in.armed /\ new.hold = in.hold
      BY <3>1, <3>3, WithDownFacts
    <3>5. in.pressed \cup {b} = in.pressed \cup ({b} \ Direction) BY <2>0
    <3> QED BY <2>0, <3>2, <3>4, <3>5
  <2> QED BY <2>1, <2>2
<1> QED BY <1>1, <1>2, <1>3 DEF Button

\* Arming the combination presses nothing.
LEMMA ArmedFacts ==
    ASSUME NEW in \in ShellInputState
    PROVE  /\ Armed(in) \in ShellInputState
           /\ Armed(in).pressed = in.pressed /\ Armed(in).neutral = in.neutral
           /\ in.armed => Armed(in).armed
           /\ Armed(in).hold = in.hold
<1>1. (in.armed \/ (Both(in) /\ place = "hosts")) \in BOOLEAN
  BY DEF ShellInputState, Both
<1> QED BY <1>1 DEF Armed, ShellInputState

\* A button that goes up is not pressed any more, and arms nothing.
LEMMA ReleaseFacts ==
    ASSUME NEW in \in ShellInputState, NEW b \in Button
    PROVE  /\ Release(b, in) \in ShellInputState
           /\ Release(b, in).pressed = in.pressed \ {b}
           /\ Release(b, in).neutral = in.neutral
           /\ in.armed /\ ~ Release(b, in).armed => Meta \cap (in.pressed \ {b}) = {}
           /\ b \notin Direction => Release(b, in).hold = in.hold
           /\ b \in Direction =>
                /\ Release(b, in).hold[b] = Released
                /\ \A d \in Direction \ {b} : Release(b, in).hold[d] = in.hold[d]
<1> DEFINE p    == in.pressed \ {b}
           over == b # "trigger" /\ p \cap Meta = {}
           a    == in.armed /\ ~ over
           t    == in.triggered /\ ~ over
           out  == WithFlags(in, p, a, t)
<1>0. p \in SUBSET (Scroller \cup Meta) BY DEF ShellInputState
<1>1. /\ out \in ShellInputState /\ out.hold = in.hold /\ out.neutral = in.neutral
      /\ out.pressed = p /\ out.armed = (in.armed /\ ~ over)
  <2>1. a \in BOOLEAN /\ t \in BOOLEAN BY DEF ShellInputState
  <2>2. out.armed = a /\ out \in ShellInputState /\ out.hold = in.hold /\ out.neutral = in.neutral
        /\ out.pressed = p
    <3> HIDE DEF a, t, p
    <3> QED BY <1>0, <2>1, WithFlagsFacts
  <2> QED BY <2>2
<1>2. in.armed /\ ~ out.armed => Meta \cap p = {}
  BY <1>1
<1>3. [[in EXCEPT !.pressed = @ \ {b}] EXCEPT !.armed = @ /\ ~ over, !.triggered = @ /\ ~ over] = out
  BY DEF ShellInputState, WithFlags
<1>4. /\ b \in Direction => Release(b, in) = [out EXCEPT !.hold[b] = Released]
      /\ b \in Scroller => Release(b, in) = [out EXCEPT !.scroll[b] = 0]
      /\ b \in Meta => Release(b, in) = [out EXCEPT !.down[b] = 0]
  <2>1. [in EXCEPT !.pressed = @ \ {b}].pressed = p BY DEF ShellInputState
  <2> QED BY <1>3, <2>1 DEF Release, Direction, Scroller, Meta
<1> HIDE DEF out, over
<1>5. CASE b \in Direction
  <2> DEFINE h == [out.hold EXCEPT ![b] = Released]
  <2>1. h \in [Direction -> Hold] BY <1>1, HoldsAreHolds DEF ShellInputState
  <2>2. h[b] = Released /\ \A d \in Direction \ {b} : h[d] = in.hold[d]
    BY <1>1, <1>5 DEF ShellInputState
  <2>3. Release(b, in) = WithHold(out, h) BY <1>1, <1>4, <1>5 DEF ShellInputState, WithHold
  <2> QED BY <1>0, <1>1, <1>2, <1>5, <2>1, <2>2, <2>3, WithHoldFacts
<1>6. CASE b \in Scroller
  <2> DEFINE s == [out.scroll EXCEPT ![b] = 0]
  <2>1. b \notin Direction BY <1>6 DEF Direction, Scroller
  <2>2. s \in [Scroller -> 0 .. ScrollRepeat]
    <3>1. out.scroll \in [Scroller -> 0 .. ScrollRepeat] BY <1>1 DEF ShellInputState
    <3>2. 0 \in 0 .. ScrollRepeat BY TicksAreNat
    <3> QED BY <3>1, <3>2
  <2>3. Release(b, in) = WithScroll(out, p, s) BY <1>1, <1>4, <1>6 DEF ShellInputState, WithScroll
  <2> HIDE DEF s
  <2>4. LET new == WithScroll(out, p, s) IN
        new \in ShellInputState /\ new.pressed = p /\ new.neutral = out.neutral
        /\ new.armed = out.armed /\ new.hold = out.hold
    <3> HIDE DEF p
    <3> QED BY <1>0, <1>1, <2>2, WithScrollFacts
  <2> QED BY <1>1, <1>2, <2>1, <2>3, <2>4
<1>7. CASE b \in Meta
  <2> DEFINE s == [out.down EXCEPT ![b] = 0]
  <2>1. b \notin Direction BY <1>7 DEF Direction, Meta
  <2>2. s \in [Meta -> 0 .. ExitHold]
    <3>1. out.down \in [Meta -> 0 .. ExitHold] BY <1>1 DEF ShellInputState
    <3>2. 0 \in 0 .. ExitHold BY TicksAreNat
    <3> QED BY <3>1, <3>2
  <2>3. Release(b, in) = WithDown(out, p, s) BY <1>1, <1>4, <1>7 DEF ShellInputState, WithDown
  <2> HIDE DEF s
  <2>4. LET new == WithDown(out, p, s) IN
        new \in ShellInputState /\ new.pressed = p /\ new.neutral = out.neutral
        /\ new.armed = out.armed /\ new.hold = out.hold
    <3> HIDE DEF p
    <3> QED BY <1>0, <1>1, <2>2, WithDownFacts
  <2> QED BY <1>1, <1>2, <2>1, <2>3, <2>4
<1> QED BY <1>5, <1>6, <1>7 DEF Button

-----------------------------------------------------------------------------
(* Events.                                                                 *)

\* What an event delivers keeps the invariant, given what its flags say.
LEMMA DeliverKeeps ==
    ASSUME InputInv, NEW in \in ShellInputState, NEW c, NEW source \in {"pad", "face", "key"},
           NEW buttons \in SUBSET Button, NEW stick \in 0 .. 2,
           Deliver(c, in, source, buttons, stick),
           in.neutral = input.neutral,
           source = "key" => in = input /\ buttons = pad /\ stick = tilt,
           c \in Direction /\ source = "pad" => c \in buttons /\ in.hold[c] = Seeded,
           ~ (c \in Direction /\ source = "pad") =>
               \A d \in Direction : in.hold[d] = input.hold[d] \/ d \in pad \ buttons,
           joint /\ ~ in.armed => buttons \cap Meta = {},
           buttons \cap (Meta \cup Scroller) \subseteq in.pressed,
           in.pressed \ buttons \subseteq lost
    PROVE  InputInv'
<1>1. input' \in ShellInputState /\ input'.pressed = in.pressed /\ input'.armed = in.armed
      /\ pad' \subseteq buttons /\ tilt' \in 0 .. 2 /\ (in.neutral => input'.neutral)
  <2>1. CASE c = "none" \/ c \in Direction
    BY <2>1 DEF Deliver, IsNavigation
  <2>2. CASE ~ (c = "none" \/ c \in Direction)
    BY <2>2, AfterCommandFacts DEF Deliver, IsNavigation
  <2> QED BY <2>1, <2>2
<1>2. quiet' \in [Direction -> 0 .. Repeat]
  BY RestedType, TicksAreNat DEF Deliver, InputInv, TypeOK
<1>3. TypeOK'
  <2>1. joint' \in BOOLEAN BY DEF Deliver
  <2>2. phase' = phase /\ exit' = exit /\ skip' \in BOOLEAN /\ place' \in Place
    BY DEF Deliver, InputInv, TypeOK
  <2>3. held' \subseteq Direction /\ lost' \subseteq Button
    BY DEF Deliver, InputInv, TypeOK, HeldNow, ShellInputState, Button, Direction
  <2> QED BY <1>1, <1>2, <2>1, <2>2, <2>3 DEF InputInv, TypeOK
<1>5. Paced'
  <2> SUFFICES ASSUME NEW d \in Direction PROVE PacedAt(d)' BY DEF Paced
  <2>1. /\ c = d /\ source = "pad" => quiet'[d] = 0
        /\ ~ (c = d /\ source = "pad") =>
             quiet'[d] = IF Renewed(d, c, source, pad', tilt') THEN Repeat ELSE quiet[d]
    BY DEF Deliver
  <2>2. quiet[d] \in 0 .. Repeat /\ quiet'[d] \in 0 .. Repeat
    BY <1>2 DEF InputInv, TypeOK
  <2>3. in.hold[d] \in Hold /\ input'.hold[d] \in Hold /\ input.hold[d] \in Hold
    BY <1>1 DEF ShellInputState, InputInv, TypeOK
  <2>4. PacedAt(d) BY DEF InputInv, Paced
  <2>5. d \in pad \ buttons => d \in pad \ pad' BY <1>1
  <2>6. CASE c = d /\ source = "pad"
    <3>1. input' = in /\ pad' = buttons BY <2>6 DEF Deliver, IsNavigation
    <3>2. d \in HeldNow(pad', tilt') BY <2>6, <3>1 DEF HeldNow
    <3> QED BY <2>1, <2>3, <2>6, <3>1, <3>2, TicksAreNat DEF PacedAt, Seeded
  <2>7. CASE ~ (c = d /\ source = "pad") /\ Renewed(d, c, source, pad', tilt')
    <3>1. quiet'[d] = Repeat BY <2>1, <2>7
    <3> QED BY <2>3, <3>1, TicksAreNat DEF PacedAt, Hold
  <2>8. CASE ~ (c = d /\ source = "pad") /\ ~ Renewed(d, c, source, pad', tilt')
    <3>1. quiet'[d] = quiet[d] /\ d \in HeldNow(pad', tilt') BY <2>1, <2>8 DEF Renewed
    <3>2. ~ (c \in Direction /\ source = "pad")
      BY <2>8, OppositeIsOther DEF Renewed, Direction
    <3>3. in.hold[d] = input.hold[d] BY <2>5, <2>8, <3>2 DEF Renewed
    <3>4. CASE c = "none" \/ c \in Direction
      <4>1. input' = in BY <3>4 DEF Deliver, IsNavigation
      <4> QED BY <2>4, <3>1, <3>3, <4>1 DEF PacedAt
    <3>5. CASE ~ (c = "none" \/ c \in Direction)
      <4>1. input'.hold[d] = Released /\ input'.neutral
        BY <3>5, AfterCommandFacts DEF Deliver, IsNavigation
      <4> QED BY <3>1, <4>1 DEF PacedAt, Released
    <3> QED BY <3>4, <3>5
  <2> QED BY <2>6, <2>7, <2>8
<1>6. AwaitsNeutral'
  <2>1. CASE c = "none" \/ c \in Direction
    BY <2>1 DEF Deliver, IsNavigation, AwaitsNeutral, InputInv
  <2>2. CASE ~ (c = "none" \/ c \in Direction)
    BY <2>2, AfterCommandFacts DEF Deliver, IsNavigation, AwaitsNeutral
  <2> QED BY <2>1, <2>2
<1>7. Combined'
  BY <1>1 DEF Deliver, Combined, InputInv
<1>8. PressedAreDown'
  <2>1. \/ lost' = lost \cap (in.pressed \ buttons) /\ pad' = buttons
        \/ lost' = in.pressed \ pad'
    BY DEF Deliver
  <2> QED BY <1>1, <2>1 DEF PressedAreDown
<1> QED BY <1>3, <1>5, <1>6, <1>7, <1>8 DEF InputInv

\* A button goes down.
LEMMA ButtonDownKeeps ==
    ASSUME InputInv, NEW b \in Button, ButtonDown(b)
    PROVE  InputInv'
<1> DEFINE in == Armed(DownFlags(b, input))
           c  == IF b \in Meta THEN "none" ELSE CommandOf(b)
<1>1. /\ in \in ShellInputState /\ in.pressed = input.pressed \cup ({b} \ Direction)
      /\ in.neutral = input.neutral /\ (input.armed => in.armed)
      /\ b \in Direction => in.hold[b] = Seeded
      /\ b \notin Direction => in.hold = input.hold
  BY DownFlagsFacts, ArmedFacts DEF InputInv, TypeOK
<1>2. (c \in Direction => b = c) /\ (b \in Direction => c = b)
  BY DEF CommandOf, Direction, Scroller, Meta, Button
<1>3. Deliver(c, in, "pad", pad \cup {b}, tilt) /\ b \notin pad BY DEF ButtonDown
<1>4. pad \cup {b} \in SUBSET Button /\ tilt \in 0 .. 2 BY DEF InputInv, TypeOK
<1>5. joint => input.armed BY DEF InputInv, Combined
<1>6. (pad \cup {b}) \cap (Meta \cup Scroller) \subseteq in.pressed
  BY <1>1 DEF InputInv, Combined, Direction, Scroller, Meta
<1>7. in.pressed \ (pad \cup {b}) \subseteq lost BY <1>1 DEF InputInv, PressedAreDown
<1> HIDE DEF in, c
<1> QED BY <1>1, <1>2, <1>3, <1>4, <1>5, <1>6, <1>7, DeliverKeeps

\* A trigger is pulled.
LEMMA TriggerDownKeeps ==
    ASSUME InputInv, TriggerDown
    PROVE  InputInv'
<1>0. /\ "trigger" \in Button /\ "trigger" \in Scroller /\ "trigger" \notin Direction
      /\ "page" \notin Direction /\ "none" \notin Direction
      /\ input \in ShellInputState /\ pad \cup {"trigger"} \in SUBSET Button /\ tilt \in 0 .. 2
  BY DEF InputInv, TypeOK, Button, Scroller, Direction
<1>1. joint => input.armed BY DEF InputInv, Combined
<1>2. CASE "trigger" \in input.pressed
  <2>1. (pad \cup {"trigger"}) \cap (Meta \cup Scroller) \subseteq input.pressed
    BY <1>2 DEF InputInv, Combined
  <2>2. input.pressed \ (pad \cup {"trigger"}) \subseteq lost
    BY DEF InputInv, PressedAreDown
  <2>3. Deliver("none", input, "pad", pad \cup {"trigger"}, tilt) BY <1>2 DEF TriggerDown
  <2> QED BY <1>0, <1>1, <2>1, <2>2, <2>3, DeliverKeeps
<1>3. CASE "trigger" \notin input.pressed
  <2> DEFINE in == DownFlags("trigger", input)
  <2>1. /\ in \in ShellInputState /\ in.pressed = input.pressed \cup {"trigger"}
        /\ in.neutral = input.neutral /\ in.armed = input.armed /\ in.hold = input.hold
    BY <1>0, DownFlagsFacts
  <2>2. (pad \cup {"trigger"}) \cap (Meta \cup Scroller) \subseteq in.pressed
    BY <2>1 DEF InputInv, Combined
  <2>3. in.pressed \ (pad \cup {"trigger"}) \subseteq lost
    BY <2>1 DEF InputInv, PressedAreDown
  <2>4. Deliver("page", in, "pad", pad \cup {"trigger"}, tilt) BY <1>3 DEF TriggerDown
  <2> HIDE DEF in
  <2> QED BY <1>0, <1>1, <2>1, <2>2, <2>3, <2>4, DeliverKeeps
<1> QED BY <1>2, <1>3

\* A button goes up.
LEMMA ButtonUpKeeps ==
    ASSUME InputInv, NEW b \in Button, ButtonUp(b)
    PROVE  InputInv'
<1> DEFINE in == Release(b, input)
           c  == ReleaseCommand(b, input)
<1>1. /\ in \in ShellInputState /\ in.pressed = input.pressed \ {b}
      /\ in.neutral = input.neutral
      /\ input.armed /\ ~ in.armed => Meta \cap (input.pressed \ {b}) = {}
      /\ \A d \in Direction : in.hold[d] = input.hold[d] \/ d \in pad \ (pad \ {b})
  <2>1. b \in pad BY DEF ButtonUp
  <2> QED BY <2>1, ReleaseFacts DEF InputInv, TypeOK
<1>2. c \notin Direction
  BY DEF ReleaseCommand, CommandOf, Direction, Scroller, Meta, Button
<1>3. Deliver(c, in, "pad", pad \ {b}, tilt) BY DEF ButtonUp
<1>4. pad \ {b} \in SUBSET Button /\ tilt \in 0 .. 2 BY DEF InputInv, TypeOK
<1>5. (pad \ {b}) \cap (Meta \cup Scroller) \subseteq in.pressed
  BY <1>1 DEF InputInv, Combined
<1>6. joint /\ ~ in.armed => (pad \ {b}) \cap Meta = {}
  BY <1>1, <1>5 DEF InputInv, Combined
<1>7. in.pressed \ (pad \ {b}) \subseteq lost BY <1>1 DEF InputInv, PressedAreDown
<1> HIDE DEF in, c
<1> QED BY <1>1, <1>2, <1>3, <1>4, <1>5, <1>6, <1>7, DeliverKeeps

\* The stick moves, or a command comes from the face buttons or a keyboard.
LEMMA OtherEventsKeep ==
    ASSUME InputInv,
           \/ \E t \in 0 .. 2 : Stick(t)
           \/ \E c \in FaceCommand : FaceDown(c)
           \/ \E c \in KeyCommand : KeyDown(c)
    PROVE  InputInv'
<1>1. /\ input \in ShellInputState /\ pad \in SUBSET Button /\ tilt \in 0 .. 2
      /\ (joint => input.armed) /\ pad \cap (Meta \cup Scroller) \subseteq input.pressed
      /\ input.pressed \ pad \subseteq lost
  BY DEF InputInv, TypeOK, Combined, PressedAreDown
<1>2. "none" \notin Direction /\ "activate" \notin Direction BY DEF Direction
<1>3. ASSUME NEW t \in 0 .. 2, Stick(t) PROVE InputInv'
  BY <1>1, <1>2, <1>3, DeliverKeeps DEF Stick
<1>4. ASSUME NEW c \in FaceCommand, FaceDown(c) PROVE InputInv'
  <2>1. Deliver(c, Armed(input), "face", pad, tilt) /\ c \notin Direction
    BY <1>2, <1>4 DEF FaceDown, FaceCommand
  <2> QED BY <1>1, <2>1, ArmedFacts, DeliverKeeps
<1>5. ASSUME NEW c \in KeyCommand, KeyDown(c) PROVE InputInv'
  BY <1>1, <1>5, DeliverKeeps DEF KeyDown
<1> QED BY <1>3, <1>4, <1>5


-----------------------------------------------------------------------------
(* Time and the poll.                                                      *)

\* Time passes: holds and silences grow together.
LEMMA TickKeeps ==
    ASSUME InputInv, Tick
    PROVE  InputInv'
<1> DEFINE down   == [b \in Meta      |-> IF b \in input.pressed THEN Older(input.down[b], ExitHold) ELSE 0]
           scroll == [b \in Scroller  |-> IF b \in input.pressed THEN Older(input.scroll[b], ScrollRepeat) ELSE 0]
           hold   == [d \in Direction |-> OlderHold(input.hold[d])]
<1>0. input \in ShellInputState BY DEF InputInv, TypeOK
<1>1. down \in [Meta -> 0 .. ExitHold]
  BY <1>0, TicksAreNat DEF ShellInputState, Older
<1>2. scroll \in [Scroller -> 0 .. ScrollRepeat]
  BY <1>0, TicksAreNat DEF ShellInputState, Older
<1>3. /\ hold \in [Direction -> Hold]
      /\ \A d \in Direction :
            /\ hold[d].active = input.hold[d].active
            /\ hold[d].active => hold[d].last = Older(input.hold[d].last, Repeat)
  <2>1. \A h \in Hold : /\ OlderHold(h) \in Hold /\ OlderHold(h).active = h.active
                        /\ h.active => OlderHold(h).last = Older(h.last, Repeat)
    <3> SUFFICES ASSUME NEW h \in Hold
                 PROVE  /\ OlderHold(h) \in Hold /\ OlderHold(h).active = h.active
                        /\ h.active => OlderHold(h).last = Older(h.last, Repeat)
      OBVIOUS
    <3>1. Older(h.on, InitialRepeat) \in 0 .. InitialRepeat /\ Older(h.last, Repeat) \in 0 .. Repeat
      BY TicksAreNat DEF Hold, Older
    <3> QED BY <3>1 DEF Hold, OlderHold
  <2>2. input.hold \in [Direction -> Hold] BY <1>0 DEF ShellInputState
  <2> QED BY <2>1, <2>2
<1>4. input' = [input EXCEPT !.down = down, !.scroll = scroll, !.hold = hold]
  BY DEF Tick
<1> HIDE DEF down, scroll, hold
<1>5. /\ input' \in ShellInputState /\ input'.hold = hold /\ input'.pressed = input.pressed
      /\ input'.neutral = input.neutral /\ input'.armed = input.armed
  BY <1>0, <1>1, <1>2, <1>3, <1>4 DEF ShellInputState
<1>6. quiet' \in [Direction -> 0 .. Repeat]
      /\ \A d \in Direction : quiet'[d] = Older(quiet[d], Repeat)
  BY TicksAreNat DEF Tick, InputInv, TypeOK, Older
<1>7. TypeOK' BY <1>5, <1>6 DEF Tick, InputInv, TypeOK, pads
<1>8. Paced'
  <2> SUFFICES ASSUME NEW d \in Direction PROVE PacedAt(d)' BY DEF Paced
  <2>1. input.hold[d] \in Hold BY <1>0 DEF ShellInputState
  <2> QED BY <1>3, <1>5, <1>6, <2>1, TicksAreNat
             DEF Tick, InputInv, TypeOK, Paced, PacedAt, Older, Hold, pads, HeldNow
<1> QED BY <1>5, <1>7, <1>8
           DEF Tick, InputInv, AwaitsNeutral, Combined, PressedAreDown, pads, Nothing

\* The poll repeats a move only after a pause.
LEMMA PollKeeps ==
    ASSUME InputInv, Poll
    PROVE  /\ InputInv'
           /\ issued'.by = "poll" => quiet[issued'.command] >= Repeat
           /\ issued'.by = "poll" => issued'.command \notin held
<1> DEFINE settled == [input EXCEPT !.neutral = StillNeutral,
                                    !.hold = IF StillNeutral THEN NoHolds(input).hold ELSE @]
<1>0. input \in ShellInputState /\ StillNeutral \in BOOLEAN
  BY DEF InputInv, TypeOK, StillNeutral, ShellInputState, NavigationActive
<1>1. /\ settled \in ShellInputState /\ settled.pressed = input.pressed
      /\ settled.armed = input.armed /\ settled.neutral = StillNeutral
      /\ ~ StillNeutral => settled.hold = input.hold
      /\ StillNeutral => \A d \in Direction : settled.hold[d] = Released
  <2>1. NoHolds(input) \in ShellInputState BY <1>0, NoHoldsFacts
  <2>2. \A d \in Direction : NoHolds(input).hold[d] = Released BY <1>0, NoHoldsFacts
  <2> QED BY <1>0, <2>1, <2>2 DEF ShellInputState
<1>2. pads' = pads /\ lost' = lost /\ joint' = joint /\ place' = place /\ exit' = exit
      /\ skip' = FALSE /\ held' = held \cap HeldNow(pad, tilt)
      /\ phase' \in {"left", "combo"}
  BY DEF Poll, pads
<1>3. \A d \in Direction : quiet[d] \in 0 .. Repeat /\ input.hold[d] \in Hold
  BY <1>0 DEF InputInv, TypeOK, ShellInputState
<1>4. /\ input' \in ShellInputState /\ quiet' \in [Direction -> 0 .. Repeat]
      /\ input'.pressed = input.pressed /\ input'.armed = input.armed
      /\ input'.neutral = StillNeutral
      /\ Paced' /\ (issued'.by = "poll" => issued'.command \notin held)
      /\ issued'.by = "poll" => quiet[issued'.command] >= Repeat
  <2>1. CASE skip \/ StillNeutral
    <3>1. input' = settled /\ issued' = Nothing /\ quiet' = quiet BY <2>1 DEF Poll
    <3>2. Paced'
      <4> SUFFICES ASSUME NEW d \in Direction PROVE PacedAt(d)' BY DEF Paced
      <4>1. CASE StillNeutral
        BY <1>1, <1>2, <3>1, <4>1 DEF Paced, PacedAt, InputInv, Released, pads
      <4>2. CASE ~ StillNeutral
        <5>1. quiet[d] < Repeat => d \in HeldNow(pad, tilt) /\ ~ input.neutral
          BY <4>2 DEF Paced, PacedAt, InputInv, StillNeutral, NavigationActive
        <5> QED BY <1>1, <1>2, <1>3, <3>1, <4>2, <5>1, TicksAreNat DEF Paced, PacedAt, InputInv, pads, Hold
      <4> QED BY <4>1, <4>2
    <3> HIDE DEF settled
    <3> QED BY <1>1, <3>1, <3>2 DEF InputInv, TypeOK, Nothing
  <2>2. CASE ~ (skip \/ StillNeutral)
    <3> DEFINE up   == Held(input.hold["up"], Pushed("up"))
               down == IF PollCommand = "up" THEN input.hold["down"]
                       ELSE Held(input.hold["down"], Pushed("down"))
    <3>1. input' = [settled EXCEPT !.hold["up"]   = Held(@, Pushed("up")),
                                   !.hold["down"] = IF PollCommand = "up" THEN @ ELSE Held(@, Pushed("down"))]
      BY <2>2 DEF Poll
    <3>2. settled.hold = input.hold /\ settled \in ShellInputState BY <1>1, <2>2
    <3>3. \A h \in Hold : \A pushed \in BOOLEAN : Held(h, pushed) \in Hold
      BY TicksAreNat DEF Held, Hold, Released, Seeded
    <3>4. Pushed("up") \in BOOLEAN /\ Pushed("down") \in BOOLEAN
      BY DEF Pushed
    <3>5. up \in Hold /\ down \in Hold
      BY <1>3, <3>3, <3>4 DEF Direction
    <3> DEFINE new == [[settled.hold EXCEPT !["up"] = up] EXCEPT !["down"] = down]
    <3>6. input' = WithHold(settled, new)
      BY <3>1, <3>2 DEF ShellInputState, WithHold, Direction
    <3>7. new \in [Direction -> Hold] /\ new["up"] = up /\ new["down"] = down
      BY <3>2, <3>5 DEF ShellInputState, Direction
    <3>8. /\ input' \in ShellInputState /\ input'.pressed = input.pressed
          /\ input'.armed = input.armed /\ input'.neutral = StillNeutral
          /\ input'.hold["up"] = up /\ input'.hold["down"] = down
      <4> HIDE DEF new, settled, up, down
      <4> QED BY <1>1, <3>2, <3>6, <3>7, WithHoldFacts
    <3>9. PollCommand \in Direction \cup {"none"} /\ "none" \notin Direction
      BY DEF PollCommand, Direction
    <3>10. /\ PollCommand = "none" => issued' = Nothing /\ quiet' = quiet
           /\ PollCommand \in Direction => /\ issued' = Sent(PollCommand, "poll")
                                           /\ quiet' = [quiet EXCEPT ![PollCommand] = 0]
      BY <2>2, <3>9 DEF Poll
    <3>11. \A d \in Direction : Pushed(d) => d \in HeldNow(pad, tilt)
      BY DEF Pushed, HeldNow, InputInv, TypeOK, Direction
    <3>12. \A d \in Direction : input.hold[d].active /\ quiet[d] < Repeat => Pushed(d)
      BY DEF Pushed, HeldNow, InputInv, TypeOK, Paced, PacedAt, Direction
    <3>13. \A d \in Direction : ~ input.hold[d].active /\ quiet[d] < Repeat => StillNeutral
      BY TicksAreNat DEF InputInv, Paced, PacedAt, StillNeutral, NavigationActive, TypeOK
    <3>14. quiet' \in [Direction -> 0 .. Repeat]
      BY <3>9, <3>10, TicksAreNat DEF InputInv, TypeOK
    <3>15. Paced'
      <4> SUFFICES ASSUME NEW d \in Direction PROVE PacedAt(d)' BY DEF Paced
      <4>1. input'.hold[d] = Held(input.hold[d], Pushed(d))
            \/ (input'.hold[d] = input.hold[d] /\ PollCommand # d)
        BY <3>8 DEF Direction
      <4>2. PollCommand # d => \/ input'.hold[d] = input.hold[d]
                               \/ ~ Pushed(d) \/ (input.hold[d].active /\ ~ Ready(input.hold[d]))
        BY <3>8 DEF PollCommand, Direction, Ready
      <4>3. CASE PollCommand = d
        <5>1. quiet'[d] = 0 BY <3>10, <4>3 DEF InputInv, TypeOK
        <5>2. Pushed(d) /\ Ready(input.hold[d]) BY <4>3 DEF PollCommand, Direction
        <5>3. input'.hold[d] = Held(input.hold[d], Pushed(d)) BY <4>1, <4>3
        <5>4. input'.hold[d].active /\ input'.hold[d].last = 0
          BY <1>3, <5>2, <5>3 DEF Held, Hold, Seeded
        <5>5. d \in HeldNow(pad', tilt') BY <1>2, <3>11, <5>2 DEF pads
        <5> QED BY <5>1, <5>4, <5>5 DEF PacedAt
      <4>4. CASE PollCommand # d
        <5>1. quiet'[d] = quiet[d] /\ pad' = pad /\ tilt' = tilt
          BY <1>2, <3>9, <3>10, <4>4 DEF InputInv, TypeOK, pads
        <5>2. input'.hold[d] = input.hold[d] \/ (input'.hold[d] = Released /\ ~ Pushed(d))
          BY <4>1, <4>2, <4>4 DEF Held
        <5>3. PacedAt(d) /\ quiet[d] \in 0 .. Repeat BY <1>3 DEF InputInv, Paced
        <5>4. ~ input.hold[d].active => quiet[d] >= Repeat
          BY <2>2, <3>13, <5>3, TicksAreNat
        <5>5. ~ Pushed(d) => quiet[d] >= Repeat
          BY <3>12, <5>3, <5>4, TicksAreNat
        <5> QED BY <5>1, <5>2, <5>3, <5>4, <5>5 DEF PacedAt, Released
      <4> QED BY <4>3, <4>4
    <3>16. issued'.by = "poll" => issued'.command \notin held
      <4>1. issued'.by = "poll" => issued'.command \in HeldNow(pad, tilt)
        BY <3>10, <3>11, <3>9 DEF PollCommand, Nothing, Sent
      <4> QED BY <1>2, <2>2, <4>1 DEF InputInv, AwaitsNeutral, StillNeutral, NavigationActive
    <3>17. issued'.by = "poll" => quiet[issued'.command] >= Repeat
      <4>1. issued'.by = "poll" => issued'.command = PollCommand /\ PollCommand \in Direction
        BY <3>9, <3>10 DEF Nothing, Sent
      <4>2. PollCommand \in Direction => Pushed(PollCommand) /\ Ready(input.hold[PollCommand])
        BY DEF PollCommand, Direction
      <4> QED BY <4>1, <4>2, <2>2, <3>13, <1>3, TicksAreNat DEF Ready, InputInv, Paced, PacedAt, Hold
    <3> QED BY <3>8, <3>14, <3>15, <3>16, <3>17
  <2> QED BY <2>1, <2>2
<1>5. AwaitsNeutral'
  BY <1>2, <1>4 DEF AwaitsNeutral, InputInv, StillNeutral, NavigationActive
<1>6. TypeOK'
  BY <1>2, <1>4 DEF InputInv, TypeOK, pads
<1> QED BY <1>2, <1>4, <1>5, <1>6 DEF InputInv, Combined, PressedAreDown, pads


\* Without a pad there is nothing to hold.
LEMMA StartFacts ==
    /\ Fresh \in ShellInputState /\ Fresh.pressed = {} /\ Rested \in [Direction -> 0 .. Repeat]
    /\ \A d \in Direction : ~ Fresh.hold[d].active /\ Rested[d] = Repeat
    /\ \A d \in Direction : Rested[d] >= Repeat /\ ~ (Rested[d] < Repeat)
<1>1. \A d \in Direction : ~ Fresh.hold[d].active BY FreshFacts DEF Released
<1> QED BY <1>1, FreshFacts, RestedType, TicksAreNat

\* Every step keeps the invariant.
LEMMA StepKeeps == InputInv /\ [Next]_vars => InputInv'
<1> SUFFICES ASSUME InputInv, [Next]_vars PROVE InputInv' OBVIOUS
<1> USE DEF InputInv
<1>1. CASE UpdateExitComboHold
  <2>1. input' \in ShellInputState /\ input'.hold = input.hold /\ input'.pressed = input.pressed
        /\ input'.neutral = input.neutral /\ (input.armed => input'.armed)
        /\ exit' \in BOOLEAN /\ joint' \in BOOLEAN /\ (joint' => joint \/ input'.armed)
    <3> DEFINE due == Min({input.down[b] : b \in Meta}) >= ExitHold
    <3>1. due \in BOOLEAN OBVIOUS
    <3>2. CASE input.triggered \/ ~ CanCombo
      BY <1>1, <3>2 DEF UpdateExitComboHold, TypeOK
    <3>3. CASE ~ (input.triggered \/ ~ CanCombo)
      <4>1. input' = [input EXCEPT !.armed = TRUE, !.triggered = due] /\ exit' = (exit \/ due) /\ joint' = TRUE
        BY <1>1, <3>3 DEF UpdateExitComboHold
      <4> HIDE DEF due
      <4> QED BY <3>1, <4>1 DEF TypeOK, ShellInputState
    <3> QED BY <3>2, <3>3
  <2> QED BY <1>1, <2>1 DEF UpdateExitComboHold, TypeOK, Paced, PacedAt,
             HeldNow, AwaitsNeutral, Combined, PressedAreDown, pads
<1>2. ASSUME NEW b \in Scroller, RepeatScroll(b) PROVE InputInv'
  <2> DEFINE s == [input.scroll EXCEPT ![b] = 0]
  <2>1. s \in [Scroller -> 0 .. ScrollRepeat]
    <3>1. input.scroll \in [Scroller -> 0 .. ScrollRepeat] BY DEF TypeOK, ShellInputState
    <3>2. 0 \in 0 .. ScrollRepeat BY TicksAreNat
    <3> QED BY <3>1, <3>2
  <2>2. input' = WithScroll(input, input.pressed, s)
    BY <1>2 DEF RepeatScroll, TypeOK, ShellInputState, WithScroll
  <2> HIDE DEF s
  <2>3. input' \in ShellInputState /\ input'.hold = input.hold /\ input'.pressed = input.pressed
        /\ input'.neutral = input.neutral /\ input'.armed = input.armed
    <3>1. input.pressed \in SUBSET (Scroller \cup Meta) BY DEF TypeOK, ShellInputState
    <3> QED BY <2>1, <2>2, <3>1, WithScrollFacts DEF TypeOK
  <2> QED BY <1>2, <2>3 DEF RepeatScroll, TypeOK, Paced, PacedAt,
             HeldNow, AwaitsNeutral, Combined, PressedAreDown, pads
<1>3. CASE EndScroll \/ Drained \/ PlaceChanges
  <2>1. /\ input' = input /\ quiet' = quiet /\ held' = held /\ joint' = joint /\ lost' = lost
        /\ pad' = pad /\ tilt' = tilt /\ exit' = exit /\ issued' = Nothing
        /\ phase' \in {"combo", "scroll", "events", "poll", "left"}
        /\ skip' \in BOOLEAN /\ place' \in Place
    BY <1>3 DEF EndScroll, Drained, PlaceChanges, pads, TypeOK, Place
  <2> QED BY <2>1 DEF TypeOK, Paced, PacedAt,
             HeldNow, AwaitsNeutral, Combined, PressedAreDown
<1>4. CASE Poll BY <1>4, PollKeeps
<1>5. ASSUME NEW b \in Button, ButtonDown(b) PROVE InputInv' BY <1>5, ButtonDownKeeps
<1>6. ASSUME NEW b \in Button, ButtonUp(b) PROVE InputInv' BY <1>6, ButtonUpKeeps
<1>7. CASE TriggerDown BY <1>7, TriggerDownKeeps
<1>8. CASE Removed
  <2>1. pad' = {} /\ tilt' = 0 /\ input' = Fresh BY <1>8 DEF Removed, Pulled
  <2>2. /\ quiet' = Rested /\ issued' = Nothing /\ held' = {} /\ joint' = FALSE /\ lost' = {}
        /\ UNCHANGED <<phase, skip, exit, place>>
    BY <1>8 DEF Removed
  <2>3. TypeOK'
    <3>1. input' \in ShellInputState /\ quiet' \in [Direction -> 0 .. Repeat]
      BY <2>1, <2>2, StartFacts
    <3>2. pad' \subseteq Button /\ held' \subseteq Direction /\ lost' \subseteq Button /\ tilt' \in 0 .. 2
      BY <2>1, <2>2
    <3> QED BY <2>2, <3>1, <3>2 DEF TypeOK
  <2>4. Paced' BY <2>1, <2>2, StartFacts DEF Paced, PacedAt
  <2> QED BY <2>1, <2>2, <2>3, <2>4, StartFacts
          DEF AwaitsNeutral, Combined, PressedAreDown
<1>9. CASE Tick BY <1>9, TickKeeps
<1>10. CASE \/ \E t \in 0 .. 2 : Stick(t)
            \/ \E c \in FaceCommand : FaceDown(c)
            \/ \E c \in KeyCommand : KeyDown(c)
  BY <1>10, OtherEventsKeep
<1>11. CASE UNCHANGED vars
  BY <1>11 DEF vars, pads, TypeOK, Paced, PacedAt,
               HeldNow, AwaitsNeutral, Combined, PressedAreDown
<1> QED BY <1>1, <1>2, <1>3, <1>4, <1>5, <1>6, <1>7, <1>8, <1>9, <1>10, <1>11 DEF Next

-----------------------------------------------------------------------------
(* The theorems.                                                           *)

\* The invariant holds, for any lengths of the timers.
THEOREM InvHolds == Spec => []InputInv
<1>1. Init => InputInv
  <2> SUFFICES ASSUME Init PROVE InputInv OBVIOUS
  <2>1. TypeOK
    <3>1. input \in ShellInputState /\ quiet \in [Direction -> 0 .. Repeat] BY StartFacts DEF Init
    <3>2. pad \subseteq Button /\ held \subseteq Direction /\ lost \subseteq Button BY DEF Init
    <3>3. tilt \in 0 .. 2 /\ place \in Place BY DEF Init, Place
    <3>4. phase \in {"combo", "scroll", "events", "poll", "left"}
          /\ skip \in BOOLEAN /\ exit \in BOOLEAN /\ joint \in BOOLEAN BY DEF Init
    <3> QED BY <3>1, <3>2, <3>3, <3>4 DEF TypeOK
  <2>2. Paced BY StartFacts DEF Init, Paced, PacedAt
  <2> QED BY <2>1, <2>2, StartFacts
          DEF Init, InputInv, AwaitsNeutral, Combined, PressedAreDown
<1> QED BY <1>1, StepKeeps, PTL DEF Spec

\* The state of the input keeps its types.
THEOREM TypeCorrect == Spec => []TypeOK
BY InvHolds, PTL DEF InputInv

\* What counts as pressed is down, unless the event of its release was lost: no
\* button sticks because of how events, timers and page changes interleave.
THEOREM PressedDown == Spec => []PressedAreDown
BY InvHolds, PTL DEF InputInv

\* The poll is the only step that issues commands as "poll"; what is issued as
\* "pad" is the command of a button that goes down or up.
LEMMA WhoIssues ==
    ASSUME InputInv, Next
    PROVE  /\ issued'.by = "poll" => Poll
           /\ issued'.by = "pad" /\ issued'.command \in {"confirm", "back"} =>
                  \E b \in Button : ButtonUp(b) /\ issued'.command = ReleaseCommand(b, input)
<1> DEFINE Goal == /\ issued'.by = "poll" => Poll
                   /\ issued'.by = "pad" /\ issued'.command \in {"confirm", "back"} =>
                        \E b \in Button : ButtonUp(b) /\ issued'.command = ReleaseCommand(b, input)
<1>1. CASE UpdateExitComboHold \/ EndScroll \/ Drained \/ PlaceChanges \/ Removed \/ Tick
  <2>1. issued' = Nothing
    BY <1>1 DEF UpdateExitComboHold, EndScroll, Drained, PlaceChanges, Removed, Tick
  <2> QED BY <2>1 DEF Nothing
<1>2. CASE Poll
  <2>1. issued' = Nothing \/ issued' = Sent(PollCommand, "poll") BY <1>2 DEF Poll
  <2> QED BY <1>2, <2>1 DEF Nothing, Sent
<1>3. ASSUME NEW b \in Scroller, RepeatScroll(b) PROVE Goal
  BY <1>3 DEF RepeatScroll, Sent
<1>4. ASSUME NEW b \in Button, ButtonDown(b) PROVE Goal
  <2> DEFINE c == IF b \in Meta THEN "none" ELSE CommandOf(b)
  <2>1. c \notin {"confirm", "back"} BY DEF CommandOf, Button, Direction, Scroller, Meta
  <2>2. issued' = Nothing \/ issued' = Sent(c, "pad") BY <1>4 DEF ButtonDown, Deliver
  <2> QED BY <2>1, <2>2 DEF Nothing, Sent
<1>5. ASSUME NEW b \in Button, ButtonUp(b) PROVE Goal
  <2>1. issued' = Nothing \/ issued' = Sent(ReleaseCommand(b, input), "pad")
    BY <1>5 DEF ButtonUp, Deliver
  <2> QED BY <1>5, <2>1 DEF Nothing, Sent
<1>6. CASE TriggerDown
  <2>1. issued' = Nothing \/ issued' = Sent("page", "pad") BY <1>6 DEF TriggerDown, Deliver
  <2> QED BY <2>1 DEF Nothing, Sent
<1>7. CASE \/ \E t \in 0 .. 2 : Stick(t)
           \/ \E c \in FaceCommand : FaceDown(c)
           \/ \E c \in KeyCommand : KeyDown(c)
  <2>1. issued' = Nothing \/ issued'.by \in {"face", "key"}
    BY <1>7 DEF Stick, FaceDown, KeyDown, Deliver, Sent
  <2> QED BY <2>1 DEF Nothing
<1> QED BY <1>1, <1>2, <1>3, <1>4, <1>5, <1>6, <1>7 DEF Next

\* A direction held across a choice does not move the selection on the page the
\* choice opened (handle_shell_event, poll_shell_input).
THEOREM ChoicesWait == Spec => ChoiceNeedsNeutral
<1>1. InputInv /\ [Next]_vars => [issued'.by = "poll" => issued'.command \notin held]_vars
  BY WhoIssues, PollKeeps
<1> QED BY <1>1, InvHolds, PTL DEF Spec, ChoiceNeedsNeutral

\* The poll moves the selection no faster than its pause, however holds,
\* releases, rests and page changes interleave.
THEOREM Pacing == Spec => MovesArePaced
<1>1. InputInv /\ [Next]_vars => [issued'.by = "poll" => quiet[issued'.command] >= Repeat]_vars
  BY WhoIssues, PollKeeps
<1> QED BY <1>1, InvHolds, PTL DEF Spec, MovesArePaced

\* A button that was part of a combination gives no command of its own when it
\* goes up.
THEOREM CombinationSilent == Spec => CombinationIsNoCommand
<1>1. InputInv /\ [Next]_vars => [joint /\ issued'.by = "pad" => issued'.command \notin {"confirm", "back"}]_vars
  BY WhoIssues DEF ReleaseCommand, InputInv, Combined
<1> QED BY <1>1, InvHolds, PTL DEF Spec, CombinationIsNoCommand
=============================================================================

---------------------------- MODULE StreamVideo ----------------------------
(***************************************************************************)
(* The video path of a stream: the decoder thread of FfmpegStreamBackend   *)
(* takes decode units from the streaming library, drops all but the newest *)
(* and hands decoded frames to the main thread through three buffers that  *)
(* are swapped under a lock.  The main thread renders, and the backend is  *)
(* torn down by the main thread or, when the connection cannot be started, *)
(* by the thread that starts it.                                           *)
(***************************************************************************)
EXTENDS Integers, Sequences, FiniteSets

CONSTANT MaxUnits    \* bound on the units the host sends

ASSUME UnitsAssumption == MaxUnits \in Nat

VARIABLES
    phase,        \* of the connection: starting, active, failing (a start that is
                  \* taken down), stopping or down
    queue,        \* external: the library's queue of decode units
    received,     \* external: number of the last unit the host sent
    waitingIdr,   \* external: the library drops units up to the next IDR
    woken,        \* external: a wake-up of the waiting decoder is pending
    handed,       \* external: numbers of the units not given back yet
    decoder,      \* what the decoder thread does next
    stop,         \* video_.decoderStopRequested
    unit,         \* the unit the decoder holds
    dropped,      \* units were dropped for the one the decoder holds
    reference,    \* number of the last unit the decoder decoded
    content,      \* number of the frame in each buffer, 0 when empty
    back,         \* the buffer of video_.decodeFrame
    latest,       \* the buffer of video_.latestFrame
    front,        \* the buffer of video_.renderFrame
    version,      \* latestFrameVersion and publishedFrameVersion
    hasFrame,     \* video_.hasFrame
    renderer,     \* what the main thread does next
    rendered,     \* video_.renderedFrameVersion
    shown         \* number of the frame on the screen

depacketizerVars == <<queue, received, waitingIdr, woken, handed>>
decoderVars == <<decoder, stop, unit, dropped, reference>>
bufferVars  == <<content, back, latest, front, version, hasFrame>>
renderVars  == <<renderer, rendered, shown>>
videoVars        == <<phase, depacketizerVars, decoderVars, bufferVars, renderVars>>

Unit    == [number : 1 .. MaxUnits, idr : BOOLEAN]
NoUnit  == [number |-> 0, idr |-> FALSE]
Buffer  == 1 .. 3
Frame   == 0 .. MaxUnits

VideoTypeOK ==
    /\ phase \in {"starting", "active", "failing", "stopping", "down"}
    /\ queue \in Seq(Unit)
    /\ received \in Frame
    /\ waitingIdr \in BOOLEAN
    /\ woken \in BOOLEAN
    /\ handed \subseteq 1 .. MaxUnits
    /\ decoder \in {"check", "wait", "got", "poll", "decode", "copy", "swap",
                    "mark", "ended"}
    /\ stop \in BOOLEAN
    /\ unit \in Unit \cup {NoUnit}
    /\ dropped \in BOOLEAN
    /\ reference \in Frame
    /\ content \in [Buffer -> Frame]
    /\ back \in Buffer /\ latest \in Buffer /\ front \in Buffer
    /\ version \in Frame
    /\ hasFrame \in BOOLEAN
    /\ renderer \in {"idle", "take", "present"}
    /\ rendered \in Frame
    /\ shown \in Frame

\* on_video_setup and on_video_start have run; without a decoder thread when it
\* could not be created.
VideoInit ==
    /\ phase = "starting"
    /\ queue = <<>> /\ received = 0 /\ waitingIdr = TRUE /\ woken = FALSE
    /\ handed = {}
    /\ decoder \in {"check", "ended"} /\ stop = (decoder = "ended") /\ unit = NoUnit /\ dropped = FALSE
    /\ reference = 0
    /\ content = [b \in Buffer |-> 0]
    /\ back = 1 /\ latest = 2 /\ front = 3
    /\ version = 0 /\ hasFrame = FALSE
    /\ renderer = "idle" /\ rendered = 0 /\ shown = 0

-----------------------------------------------------------------------------
(* External: the library and the network.                                  *)

\* A unit arrives; while an IDR is awaited any other is discarded.
Receive(idr) ==
    /\ phase # "down" /\ received < MaxUnits
    /\ received' = received + 1
    /\ waitingIdr' = (waitingIdr /\ ~ idr)
    /\ queue' = IF waitingIdr' THEN queue
                ELSE Append(queue, [number |-> received', idr |-> idr])
    /\ UNCHANGED <<phase, woken, handed, decoderVars, bufferVars, renderVars>>

Lose ==
    /\ phase # "down" /\ received < MaxUnits
    /\ received' = received + 1
    /\ waitingIdr' = TRUE
    /\ UNCHANGED <<phase, queue, woken, handed, decoderVars, bufferVars, renderVars>>

\* LiCompleteVideoFrame: a decoder in need of an IDR loses what is queued.
GiveBack(number, needIdr) ==
    /\ handed' = handed \ {number}
    /\ IF needIdr THEN queue' = <<>> /\ waitingIdr' = TRUE
       ELSE UNCHANGED <<queue, waitingIdr>>

-----------------------------------------------------------------------------
(* run_video_decode_thread                                                 *)

CheckStop ==
    /\ decoder = "check"
    /\ decoder' = IF stop THEN "ended" ELSE "wait"
    /\ UNCHANGED <<phase, depacketizerVars, stop, unit, dropped, reference, bufferVars, renderVars>>

\* LiWaitForNextVideoFrame returns a unit, or nothing once it was woken.
Wait ==
    /\ decoder = "wait"
    /\ IF woken
       THEN decoder' = "ended" /\ woken' = FALSE /\ UNCHANGED <<queue, handed, unit>>
       ELSE /\ queue # <<>>
            /\ decoder' = "got"
            /\ unit' = Head(queue) /\ queue' = Tail(queue)
            /\ handed' = handed \cup {unit'.number}
            /\ UNCHANGED woken
    /\ dropped' = FALSE
    /\ UNCHANGED <<phase, received, waitingIdr, stop, reference, bufferVars, renderVars>>

\* The unit is given back with its status and the decoder looks for the next.
Complete(needIdr) ==
    /\ GiveBack(unit.number, needIdr)
    /\ decoder' = "check"
    /\ unit' = NoUnit

Got ==
    /\ decoder = "got"
    /\ IF stop THEN Complete(FALSE)
       ELSE decoder' = "poll" /\ UNCHANGED <<unit, queue, waitingIdr, handed>>
    /\ UNCHANGED <<phase, received, woken, stop, dropped, reference, bufferVars, renderVars>>

\* Mutant: the replaced unit is not given back.
DropAndKeep ==
    /\ decoder = "poll"
    /\ queue # <<>>
    /\ unit' = Head(queue) /\ queue' = Tail(queue)
    /\ handed' = handed \cup {unit'.number}
    /\ dropped' = TRUE
    /\ UNCHANGED <<phase, received, waitingIdr, woken, decoder, stop, reference,
                   bufferVars, renderVars>>

\* drop_queued_video_decode_units: a newer unit replaces the one held.
DropForNewer ==
    /\ decoder = "poll"
    /\ queue # <<>>
    /\ unit' = Head(queue) /\ queue' = Tail(queue)
    /\ handed' = (handed \ {unit.number}) \cup {unit'.number}
    /\ dropped' = TRUE
    /\ UNCHANGED <<phase, received, waitingIdr, woken, decoder, stop, reference,
                   bufferVars, renderVars>>

\* Mutant: the newest unit is decoded whatever was dropped before it.
PrepareAny ==
    /\ decoder = "poll"
    /\ queue = <<>>
    /\ decoder' = "decode"
    /\ UNCHANGED <<phase, depacketizerVars, stop, unit, dropped, reference, bufferVars, renderVars>>

\* prepare_video_decode_unit: after a drop only an IDR can be decoded.
Prepare ==
    /\ decoder = "poll"
    /\ queue = <<>>
    /\ IF dropped /\ ~ unit.idr THEN Complete(TRUE)
       ELSE decoder' = "decode" /\ UNCHANGED <<unit, queue, waitingIdr, handed>>
    /\ UNCHANGED <<phase, received, woken, stop, dropped, reference, bufferVars, renderVars>>

\* decode_video_decode_unit: the unit is decoded, with a frame or without
\* one, or decoding fails.
Decode ==
    /\ decoder = "decode"
    /\ \/ /\ Complete(TRUE)
          /\ UNCHANGED reference
       \/ /\ reference' = unit.number
          /\ \/ Complete(FALSE)
             \/ decoder' = "copy" /\ UNCHANGED <<unit, queue, waitingIdr, handed>>
    /\ UNCHANGED <<phase, received, woken, stop, dropped, bufferVars, renderVars>>

\* publish_video_frame: the frame is copied into the back buffer, ...
Copy ==
    /\ decoder = "copy"
    /\ content' = [content EXCEPT ![back] = unit.number]
    /\ decoder' = "swap"
    /\ UNCHANGED <<phase, depacketizerVars, stop, unit, dropped, reference, back, latest,
                   front, version, hasFrame, renderVars>>

\* ... the buffers are swapped under the lock, ...
Swap ==
    /\ decoder = "swap"
    /\ back' = latest /\ latest' = back
    /\ version' = version + 1
    /\ decoder' = "mark"
    /\ UNCHANGED <<phase, depacketizerVars, stop, unit, dropped, reference, content,
                   front, hasFrame, renderVars>>

\* ... and the first frame is announced.  Asking for a further frame of the
\* unit may still fail.
Mark ==
    /\ decoder = "mark"
    /\ hasFrame' = TRUE
    /\ \E needIdr \in BOOLEAN : Complete(needIdr)
    /\ UNCHANGED <<phase, received, woken, stop, dropped, reference, content, back,
                   latest, front, version, renderVars>>

DecoderThread == CheckStop \/ Wait \/ Got \/ DropForNewer \/ Prepare \/ Decode
                   \/ Copy \/ Swap \/ Mark

-----------------------------------------------------------------------------
(* render_latest_video_frame on the main thread.                           *)

HasUnrendered == version # rendered

\* render_active_stream_frame_if_needed; the main thread renders on while the
\* starting thread takes a failed start down.
Look ==
    /\ phase \in {"starting", "active", "failing"}
    /\ renderer = "idle" /\ hasFrame /\ HasUnrendered
    /\ renderer' = "take"
    /\ UNCHANGED <<phase, depacketizerVars, decoderVars, bufferVars, rendered, shown>>

\* Mutants: the frame being written is taken, or the version is not recorded.
TakeBack ==
    /\ renderer = "take"
    /\ IF HasUnrendered
       THEN front' = back /\ back' = front /\ rendered' = version
       ELSE UNCHANGED <<front, back, rendered>>
    /\ renderer' = IF content[front'] = 0 THEN "idle" ELSE "present"
    /\ UNCHANGED <<phase, depacketizerVars, decoderVars, content, latest, version, hasFrame, shown>>
TakeUncounted ==
    /\ renderer = "take"
    /\ IF HasUnrendered /\ content[latest] # 0
       THEN front' = latest /\ latest' = front
       ELSE UNCHANGED <<front, latest>>
    /\ renderer' = IF content[front'] = 0 THEN "idle" ELSE "present"
    /\ UNCHANGED <<phase, depacketizerVars, decoderVars, content, back, version, hasFrame,
                   rendered, shown>>

Take ==
    /\ renderer = "take"
    /\ IF HasUnrendered /\ content[latest] # 0
       THEN front' = latest /\ latest' = front /\ rendered' = version
       ELSE UNCHANGED <<front, latest, rendered>>
    /\ renderer' = IF content[front'] = 0 THEN "idle" ELSE "present"
    /\ UNCHANGED <<phase, depacketizerVars, decoderVars, content, back, version, hasFrame, shown>>

\* The frame reaches the screen, or presenting it fails.
Present ==
    /\ renderer = "present"
    /\ shown' \in {shown, content[front]}
    /\ renderer' = "idle"
    /\ UNCHANGED <<phase, depacketizerVars, decoderVars, bufferVars, rendered>>

-----------------------------------------------------------------------------
(* The life of the connection.                                             *)

Started ==
    /\ phase = "starting"
    /\ phase' = "active"
    /\ UNCHANGED <<depacketizerVars, decoderVars, bufferVars, renderVars>>

\* Mutant: the waiting decoder is not woken.
StopWithoutWake ==
    /\ \/ phase = "starting" /\ phase' = "failing"
       \/ phase = "active" /\ renderer = "idle" /\ phase' = "stopping"
    /\ stop' = TRUE
    /\ UNCHANGED <<depacketizerVars, decoder, unit, dropped, reference, bufferVars, renderVars>>

\* stop_video_decoder, with nothing to wake when there is no thread, called by the main thread between two frames or, when
\* a later stage of the start fails, by the starting thread at any time.
StopDecoder ==
    /\ \/ phase = "starting" /\ phase' = "failing"
       \/ phase = "active" /\ renderer = "idle" /\ phase' = "stopping"
    /\ stop' = TRUE /\ woken' = (decoder # "ended")
    /\ UNCHANGED <<queue, received, waitingIdr, handed, decoder, unit, dropped,
                   reference, bufferVars, renderVars>>

\* cleanup_video_decoder, after the thread was joined.
Cleanup ==
    /\ phase \in {"failing", "stopping"} /\ decoder = "ended"
    /\ phase' = "down"
    /\ content' = [b \in Buffer |-> 0]
    /\ version' = 0 /\ rendered' = 0
    /\ hasFrame' = FALSE /\ stop' = FALSE
    /\ UNCHANGED <<depacketizerVars, decoder, unit, dropped, reference, back, latest,
                   front, renderer, shown>>

Down == phase = "down" /\ renderer = "idle" /\ UNCHANGED videoVars

Depacketizer  == Lose \/ \E idr \in BOOLEAN : Receive(idr)
Renderer == Look \/ Take \/ Present

VideoNext == Depacketizer \/ DecoderThread \/ Renderer \/ Started \/ StopDecoder \/ Cleanup \/ Down

\* Both threads are scheduled, and the thread that stops the decoder goes on
\* to clean up.  Nothing makes the network deliver or the stream end.
VideoFairness == WF_videoVars(DecoderThread) /\ WF_videoVars(Renderer) /\ WF_videoVars(Cleanup)

VideoSpec == VideoInit /\ [][VideoNext]_videoVars /\ VideoFairness

-----------------------------------------------------------------------------

(* The inductive invariant behind the safety properties.                   *)

Holding == decoder \in {"got", "poll", "decode", "copy", "swap", "mark"}
Ending  == decoder = "ended" \/ (decoder = "check" /\ stop)

\* The unit the first one in the queue, and the one at position i, come after.
Base    == IF Holding THEN unit.number ELSE reference
Prev(i) == IF i = 1 THEN Base ELSE queue[i - 1].number

Follows(u, number) == u.idr \/ u.number = number + 1

\* Each queued unit is an IDR or follows its predecessor, and so will the one
\* to be received next unless an IDR is awaited.
QueueInv ==
    /\ \A i \in 1 .. Len(queue) : Prev(i) < queue[i].number /\ queue[i].number <= received
    /\ ~ Ending => \A i \in 1 .. Len(queue) : Follows(queue[i], Prev(i))
    /\ ~ Ending /\ ~ waitingIdr => received = Prev(Len(queue) + 1)

DecoderInv ==
    /\ unit # NoUnit <=> Holding
    /\ handed = IF Holding THEN {unit.number} ELSE {}
    /\ Base <= received
    /\ decoder \in {"got", "poll", "decode"} => reference < unit.number
    /\ decoder \in {"copy", "swap", "mark"} => reference = unit.number
    /\ decoder \in {"got", "poll"} /\ ~ dropped => Follows(unit, reference)
    /\ decoder = "decode" => Follows(unit, reference)

\* The decoder thread has ended before the backend is cleaned up.
PhaseInv == phase = "down" => decoder = "ended"

\* The newest frame a buffer may hold before the one being published.
Newest == IF decoder \in {"copy", "swap"} THEN reference - 1 ELSE reference

BufferInv ==
    /\ back # front /\ back # latest /\ latest # front
    /\ content[latest] <= Newest /\ content[front] <= Newest
    /\ version <= Newest /\ rendered <= version
    /\ decoder = "swap" => content[back] = reference
    /\ phase # "down" => /\ version # rendered <=> content[latest] > content[front]
                         /\ shown <= content[front]

VideoInv == VideoTypeOK /\ QueueInv /\ DecoderInv /\ PhaseInv /\ BufferInv

-----------------------------------------------------------------------------

\* The decoder gives back every unit it was handed, exactly the one it works
\* on excepted: none leaks when it is dropped, refused or the thread stops.
UnitsGivenBack == handed = IF unit = NoUnit THEN {} ELSE {unit.number}

\* A unit that is not an IDR is decoded only right after its predecessor.
ReferencesHold ==
    (decoder = "decode" /\ ~ unit.idr) => reference = unit.number - 1

\* The decoder never writes the buffer the renderer presents.
BuffersApart == back # front /\ back # latest /\ latest # front

\* has_unrendered_video_frame tells whether the latest frame is newer than the
\* one taken for rendering.
UnrenderedIsNewer ==
    phase \in {"starting", "active"} =>
        (HasUnrendered <=> content[latest] > content[front])

\* Until the backend is torn down the screen never goes back to an older frame.
ShownForward == [][phase # "down" => shown' >= shown]_videoVars

\* A frame that was decoded is taken for rendering unless the stream stops.
FramesRendered ==
    (phase = "active" /\ hasFrame /\ HasUnrendered) ~> (~ HasUnrendered \/ phase # "active")

\* Stopping the decoder ends: no wake-up is lost.
StopEnds == phase \in {"failing", "stopping"} ~> phase = "down"

-----------------------------------------------------------------------------
(* What a comment of the code promises and it does not keep: TLC finds a     *)
(* counterexample, which no run repeats.                                     *)

\* A frame being presented is a decoded frame.
PresentsFrame == renderer = "present" => content[front] # 0
=============================================================================

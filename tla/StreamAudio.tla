---------------------------- MODULE StreamAudio ----------------------------
(***************************************************************************)
(* The audio path of a session.  The library opens it while it starts the  *)
(* connection, hands over samples on a thread of its own and closes it     *)
(* when the connection fails or is stopped; the device plays on a thread   *)
(* of SDL; meanwhile the main thread asks for the length of the queue.     *)
(***************************************************************************)
EXTENDS StreamSession, FiniteSets

CONSTANTS Format,      \* what a decoded frame may be made of
          NoFormat,
          Limit,       \* STREAM_OVERLAY_AUDIO_QUEUE_LIMIT_MS, in the units of a sample
          MaxSample    \* the longest sample

ASSUME AudioAssumption ==
    /\ NoFormat \notin Format /\ "none" \notin Format /\ "raw" \notin Format
    /\ Limit \in Nat /\ MaxSample \in Nat

VARIABLES
    enabled,    \* audioPlaybackEnabled_
    stream,     \* external: how far the library's audio stream has come
    device,     \* audio_.deviceId: closed, paused or playing
    context,    \* audio_.resampleContext: none, raw (not initialised) or a format's
    known,      \* audio_.resampleInput...: the format the context was made for
    queued,     \* SDL's queue of the device
    held,       \* history: some of the queue was there while the device was paused
    asked       \* the main thread is about to ask the device it has read

resampler == <<context, known>>
audioVars == <<enabled, stream, device, resampler, queued, held, asked>>
allVars   == <<vars, audioVars>>

AudioTypeOK ==
    /\ enabled \in BOOLEAN /\ asked \in BOOLEAN /\ held \in BOOLEAN
    /\ stream \in {"none", "ready", "running", "stopped", "closed"}
    /\ device \in {"closed", "paused", "playing"}
    /\ context \in Format \cup {"none", "raw"} /\ known \in Format \cup {NoFormat}
    /\ queued \in Nat

AudioInit ==
    /\ Init
    /\ enabled = FALSE /\ stream = "none" /\ device = "closed"
    /\ context = "none" /\ known = NoFormat /\ queued = 0 /\ held = FALSE
    /\ asked = FALSE

\* cleanup_audio_decoder
EmptyQueue == queued' = 0 /\ held' = FALSE
CleanUp    == /\ device' = "closed" /\ context' = "none" /\ known' = NoFormat
              /\ EmptyQueue

-----------------------------------------------------------------------------
(* The library's callbacks.                                                *)

\* on_audio_init: what was left is cleaned up; then there is nothing to open,
\* or the device and the decoder open, or one does not and all is cleaned up.
OpenAudio ==
    /\ start = "starting" /\ connection = "starting" /\ stream = "none"
    /\ context' = "none" /\ known' = NoFormat /\ EmptyQueue
    /\ \/ stream' = "ready" /\ device' = IF enabled THEN "paused" ELSE "closed"
       \/ enabled /\ stream' = "closed" /\ device' = "closed"
    /\ UNCHANGED <<vars, enabled, asked>>

\* on_audio_start
StartAudio ==
    /\ start = "starting" /\ connection # "down" /\ stream = "ready"
    /\ stream' = "running"
    /\ IF device = "closed" THEN UNCHANGED <<device, queued, held>>
       ELSE device' = "playing" /\ EmptyQueue
    /\ UNCHANGED <<vars, enabled, resampler, asked>>

\* ensure_audio_resampler for a frame of this format: the context is the right
\* one, or a new one is made, which may fail before or in swr_init.
EnsureResampler(format) ==
    IF context # "none" /\ known = format THEN UNCHANGED <<context, known>>
    ELSE \/ context' = format /\ known' = format
         \/ context' \in {"none", "raw"} /\ UNCHANGED known

\* Mutant: the queue is not looked at.
QueuedAll(length) == queued + length

\* The queue is emptied before it grows when it is too long already.
QueuedAfter(length) == (IF queued > Limit THEN 0 ELSE queued) + length

\* decode_and_play_audio_sample, at any time between on_audio_init and
\* on_audio_cleanup, whether the device plays or not; swr_convert fails on a
\* context that is not initialised, and no sound or less may come of any sample.
PlaySample(format, length) ==
    /\ stream \in {"ready", "running", "stopped"} /\ connection # "down"
    /\ enabled /\ device # "closed"
    /\ EnsureResampler(format)
    /\ queued' = IF context' = format THEN QueuedAfter(length) ELSE queued
    /\ held' = (queued' > 0 /\ (held \/ device = "paused"))
    /\ UNCHANGED <<vars, enabled, stream, device, asked>>

\* External: the device takes sound from its queue.
Plays ==
    /\ device = "playing" /\ queued > 0
    /\ queued' = queued - 1
    /\ UNCHANGED <<vars, enabled, stream, device, resampler, held, asked>>

\* The library takes its connection down, in a start that fails or when it is
\* stopped.
TakenDown == connection # "down" /\ (start = "starting" \/ main = "stop")

\* on_audio_stop, stop_audio_playback: the device keeps its queue.
StopAudio ==
    /\ TakenDown /\ stream \in {"ready", "running"}
    /\ stream' = "stopped"
    /\ IF device = "closed" THEN UNCHANGED <<device, held>>
       ELSE device' = "paused" /\ held' = (queued > 0)
    /\ UNCHANGED <<vars, enabled, resampler, queued, asked>>

\* on_audio_cleanup
CloseAudio ==
    /\ TakenDown /\ stream = "stopped"
    /\ stream' = "closed"
    /\ CleanUp
    /\ UNCHANGED <<vars, enabled, asked>>

-----------------------------------------------------------------------------
(* The steps of the session and what they mean for the audio path.         *)

\* build_overlay_status_line, on the page of a stream that has no video yet:
\* the device is read, then asked for the length of its queue.
ReadDevice ==
    /\ main \in {"starting", "interrupt", "active"} /\ ~ asked
    /\ enabled /\ device # "closed"
    /\ asked' = TRUE
    /\ UNCHANGED <<vars, enabled, stream, device, resampler, queued, held>>

AskDevice ==
    /\ asked /\ asked' = FALSE
    /\ UNCHANGED <<vars, enabled, stream, device, resampler, queued, held>>

\* The connection is down once its audio stream, if it had one, is closed.
LetGo ==
    /\ stream \in {"none", "closed"} /\ stream' = "none"
    /\ UNCHANGED <<enabled, device, resampler, queued, held, asked>>

\* A new backend, with set_audio_playback_enabled.
NewBackend == enabled' \in BOOLEAN /\ stream' = "none" /\ CleanUp /\ UNCHANGED asked

LosesConnection == connection # "down" /\ connection' = "down"
AudioFollows ==
    /\ asked => main' = main
    /\ (started' /\ ~ started) \/ (startResult' /\ ~ startResult) => stream = "running"
    /\ IF LosesConnection THEN LetGo
       ELSE IF session' # session THEN NewBackend ELSE UNCHANGED audioVars

AudioThreads == OpenAudio \/ StartAudio \/ Plays \/ StopAudio \/ CloseAudio
                  \/ \E format \in Format, length \in 0 .. MaxSample : PlaySample(format, length)

AudioNext == (Next /\ AudioFollows) \/ AudioThreads \/ ReadDevice \/ AskDevice

\* As in StreamSession; SDL answers at once.  The main thread draws once in
\* each turn of its loops, so that drawing keeps it from no other step for
\* ever: strong fairness.
AudioFairness ==
    /\ SF_allVars(Starting /\ AudioFollows) /\ SF_allVars(Streaming /\ AudioFollows)
    /\ WF_allVars(StartThread /\ AudioFollows) /\ WF_allVars(InputEnds /\ AudioFollows)
    /\ WF_allVars(StopAudio \/ CloseAudio) /\ WF_allVars(AskDevice)

AudioSpec == AudioInit /\ [][AudioNext]_allVars /\ AudioFairness

-----------------------------------------------------------------------------

\* The device is open only between the calls that open and close it, and plays
\* between those that start and stop it.
DeviceInv ==
    /\ stream # "none" => connection # "down"
    /\ device # "closed" => enabled /\ stream \in {"ready", "running", "stopped"}
    /\ device = "playing" <=> (device # "closed" /\ stream = "running")
    /\ device = "closed" => queued = 0
    /\ queued > 0 /\ device = "paused" => held
    /\ held => device = "paused"
    /\ queued <= Limit + MaxSample

AudioInv == AudioTypeOK /\ DeviceInv

\* What is heard is of now and of this connection.  The queue never holds more
\* than the limit and one sample.  It holds sound only while sound is on, the
\* device is open and the connection is there: a stop leaves the queue as it is
\* and samples still come, but the clean-up empties it.  A device that plays
\* has nothing in its queue from before it was started or from before a pause.
SoundIsOfNow ==
    /\ queued <= Limit + MaxSample
    /\ queued > 0 => enabled /\ device # "closed" /\ connection # "down"
    /\ device = "playing" => ~ held

-----------------------------------------------------------------------------
(* What the code's words promise and it does not keep: TLC finds             *)
(* counterexamples, which no run repeats.                                    *)

\* A resampler that is ready is one for the frame it is asked about: after a
\* context could not be initialised, frames of the old format find it ready.
ReadyIsReady == \A format \in Format :
    (context # "none" /\ known = format) => context = format

\* The main thread asks no device that the failing start has closed.
AskedDeviceIsOpen == asked => device # "closed"
=============================================================================

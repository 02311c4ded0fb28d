---------------------------- MODULE SettingsFile ----------------------------
(***************************************************************************)
(* The settings: in memory, in moonlight.toml, and the video modes of the  *)
(* console that one of them is chosen from.  Every write may fail half     *)
(* way, the file may be edited by hand, and the console switched off.      *)
(***************************************************************************)
EXTENDS Integers, Sequences, Functions

CONSTANTS Levels, Placements, Rates,   \* what a row goes through, from its default on
          Offers,                      \* the lists of video modes the console may detect
          NoMode,                      \* no mode is selected
          Odd                          \* a rate that is not one of the choices

IsList(s) == s \in Seq(Range(s))
Mode == UNION {Range(offer) : offer \in Offers}
ASSUME ChoicesAssumption ==
    /\ \A choices \in {Levels, Placements, Rates} : IsList(choices) /\ choices # <<>>
    /\ \A offer \in Offers : IsList(offer)
    /\ NoMode \notin Mode /\ Odd \notin Range(Rates)

VARIABLES
    on,        \* the program runs
    values,    \* the settings in memory
    dirty,     \* settings.dirty
    modes,     \* settings.availableVideoModes
    stored,    \* what moonlight.toml says
    spoiled    \* history: a save has failed since one succeeded or the start

fileVars == <<on, values, dirty, modes, stored, spoiled>>

Keys == <<"level", "placement", "mode", "rate">>   \* as format_settings_toml writes them
Key  == Range(Keys)

\* Values the loader takes; an integer is taken whatever it is.
Valid == [level |-> Range(Levels), placement |-> Range(Placements),
          mode |-> Mode \cup {NoMode}, rate |-> Range(Rates) \cup {Odd}]
Default == [level |-> Levels[1], placement |-> Placements[1], mode |-> NoMode, rate |-> Rates[1]]
Values == [level : Valid.level, placement : Valid.placement, mode : Valid.mode, rate : Valid.rate]

\* A key of the file may be missing or have a value of no use; keys of older
\* versions may be there.
Content == [exists : BOOLEAN, obsolete : BOOLEAN,
            level : Valid.level \cup {"absent", "invalid"},
            placement : Valid.placement \cup {"absent", "invalid"},
            mode : Valid.mode \cup {"absent", "invalid"},
            rate : Valid.rate \cup {"absent", "invalid"}]
Empty   == [exists |-> TRUE, obsolete |-> FALSE, level |-> "absent", placement |-> "absent",
            mode |-> "absent", rate |-> "absent"]
NoFile  == [Empty EXCEPT !.exists = FALSE]
Whole(v) == [exists |-> TRUE, obsolete |-> FALSE, level |-> v.level, placement |-> v.placement,
             mode |-> v.mode, rate |-> v.rate]

-----------------------------------------------------------------------------
(* moonlight.toml.                                                         *)

\* load_app_settings; a file that cannot be parsed counts as one with no keys.
Load(content) == [k \in Key |-> IF content[k] \in Valid[k] THEN content[k] ELSE Default[k]]

\* What a write leaves that stops after some keys, or within the last number.
Torn(v) ==
    {Empty, [Empty EXCEPT !.level = v.level],
     [Empty EXCEPT !.level = v.level, !.placement = v.placement],
     [Whole(v) EXCEPT !.rate = "absent"], [Whole(v) EXCEPT !.rate = Odd]}

\* save_app_settings truncates the file and writes all of it.
Saves(v) ==
    \/ stored' = Whole(v) /\ dirty' = FALSE /\ spoiled' = FALSE
    \/ stored' \in Torn(v) \cup {stored} /\ dirty' = TRUE /\ spoiled' = TRUE

-----------------------------------------------------------------------------
(* The rows that change a setting.                                         *)

After(sequence, value) ==
    LET at == {i \in DOMAIN sequence : sequence[i] = value} IN
    IF at = {} THEN sequence[1] ELSE sequence[((CHOOSE i \in at : TRUE) % Len(sequence)) + 1]

\* cycle_stream_video_mode starts from the first mode if none is selected.
NextMode ==
    IF modes = <<>> THEN NoMode
    ELSE After(modes, IF values.mode \in Range(modes) THEN values.mode ELSE modes[1])

NextValue ==
    [level |-> After(Levels, values.level), placement |-> After(Placements, values.placement),
     mode |-> NextMode, rate |-> After(Rates, values.rate)]

\* Mutant: where the log viewer is shown is not saved.
ChangeRows(k) ==
    /\ values' = [values EXCEPT ![k] = NextValue[k]]
    /\ IF k # "placement" THEN Saves(values') ELSE UNCHANGED <<dirty, stored, spoiled>>
    /\ UNCHANGED <<on, modes>>

\* The row marks the settings dirty and persist_settings_if_needed saves them.
Change(k) ==
    /\ values' = [values EXCEPT ![k] = NextValue[k]]
    /\ Saves(values')
    /\ UNCHANGED <<on, modes>>

\* The page deletes the file, or a factory reset does and then fails.
DeleteSettings == stored' = NoFile /\ UNCHANGED <<on, values, dirty, modes, spoiled>>

\* factory_reset_if_requested starts from create_initial_state again.
ResetSettings ==
    /\ stored' = NoFile /\ values' = Default
    /\ dirty' = FALSE /\ modes' = <<>> /\ spoiled' = FALSE
    /\ UNCHANGED on

-----------------------------------------------------------------------------
(* The start of the program.                                               *)

\* load_persisted_settings; settings with obsolete keys are written again.
Loads(loaded) ==
    /\ dirty' = FALSE
    /\ \/ ~ stored.obsolete /\ spoiled' = FALSE /\ UNCHANGED stored
       \/ stored.obsolete /\ stored' = Whole(loaded) /\ spoiled' = FALSE
       \/ stored.obsolete /\ stored' \in Torn(loaded) \cup {stored} /\ spoiled' = TRUE

\* initialize_stream_video_mode_settings: the modes that cable and dashboard
\* allow, the one that was selected if it is among them, else one of them.
Detects(loaded) ==
    /\ modes' \in Offers
    /\ values' \in IF modes' = <<>> THEN {[loaded EXCEPT !.mode = NoMode]}
                   ELSE IF loaded.mode \in Range(modes') THEN {loaded}
                   ELSE {[loaded EXCEPT !.mode = m] : m \in Range(modes')}

Boot == ~ on /\ on' = TRUE /\ Loads(Load(stored)) /\ Detects(Load(stored))

\* The program ends or the console is switched off: nothing more is saved.
Off ==
    /\ on /\ on' = FALSE
    /\ values' = Default /\ dirty' = FALSE /\ modes' = <<>> /\ spoiled' = FALSE
    /\ UNCHANGED stored

\* The file is edited on another computer meanwhile.
Edited ==
    /\ ~ on
    /\ stored' \in {content \in Content : content.exists}
    /\ UNCHANGED <<on, values, dirty, modes, spoiled>>

FileInit == on = FALSE /\ values = Default /\ dirty = FALSE /\ modes = <<>> /\ stored = NoFile /\ spoiled = FALSE

FileNext == \/ on /\ ((\E k \in Key : Change(k)) \/ DeleteSettings \/ ResetSettings)
        \/ Boot \/ Off \/ Edited

FileSpec == FileInit /\ [][FileNext]_fileVars
-----------------------------------------------------------------------------

\* Memory and file have their types, whatever the file said.
FileTypeOK ==
    /\ values \in Values /\ stored \in Content /\ modes \in Offers \cup {<<>>}
    /\ on \in BOOLEAN /\ dirty \in BOOLEAN /\ spoiled \in BOOLEAN

\* Unless a save has failed or the file was deleted, a restart brings back the
\* settings in use.  Only a mode the console does not have now may differ: it
\* stays on file until the next save.
SettingsSurvive ==
    on /\ ~ spoiled /\ stored.exists =>
        \A k \in Key : Load(stored)[k] = values[k] \/ (k = "mode" /\ Load(stored).mode \notin Range(modes))

-----------------------------------------------------------------------------
(* What the code's words promise and it does not keep: TLC finds             *)
(* counterexamples, which no run repeats.                                    *)

\* As long as the program runs, the row for the resolution goes through the
\* modes that were detected.
ModesStay == [][on /\ on' => modes' = modes]_fileVars
=============================================================================

---------------------------- MODULE StripControls ----------------------------
(***************************************************************************)
(* The seek bar and the shuttle of a channel strip (ui/channel_strip.c)    *)
(* against the player they act on: a seek before the track is decoded is   *)
(* kept until it is, a speed is shown whether or not the player took it.   *)
(*                                                                         *)
(* A length is known or not, a speed is the place of the slider under the  *)
(* mode.  Of the player there is what these handlers touch (AudioPlayer    *)
(* has the rest); tracks play in order, 1 .. LastTrack.                    *)
(***************************************************************************)
EXTENDS Integers

CONSTANT LastTrack

VARIABLES strip, player,
          missed,     \* history: the last change of speed was refused
          lost,       \* history: the last seek went nowhere
          moved_on    \* history: the player has gone on by itself since the last track was chosen

vars == <<strip, player, missed, lost, moved_on>>

NextShuttle == [off |-> "keylock", keylock |-> "pitched", pitched |-> "off"]
Slider == {-1, 0, 1}      \* its sides

\* ui_shuttle_value_to_speed: 1.0 in the middle and while it is off
SpeedOf(slider, mode) ==
    IF mode = "off" \/ slider = 0 THEN <<"off", 0>> ELSE <<mode, slider>>

-----------------------------------------------------------------------------
(* The shuttle *)

\* audio_pipeline_set_player_speed, refused while no buffer is attached
SetSpeed(speed) ==
    /\ player' = IF player.buffer THEN [player EXCEPT !.speed = speed] ELSE player
    /\ missed' = ~player.buffer
    /\ UNCHANGED <<lost, moved_on>>

\* on_shuttle_value_changed
ValueChanged(v) == SetSpeed(SpeedOf(v, strip.shuttle_mode))

\* on_shuttle_drag_update
MoveSlider(v) ==
    /\ strip.scale /\ v # strip.slider /\ ValueChanged(v)
    /\ strip' = [strip EXCEPT !.slider = v]

\* on_shuttle_pressed with the other button
ResetSlider ==
    /\ strip.scale /\ strip' = [strip EXCEPT !.slider = 0] /\ SetSpeed(SpeedOf(0, "off"))

\* on_shuttle_mode_clicked: off puts the slider in the middle; the speed is set for the new mode
ClickShuttleMode ==
    LET mode == NextShuttle[strip.shuttle_mode]
        slider == IF mode = "off" THEN 0 ELSE strip.slider
    IN  /\ strip' = [strip EXCEPT !.shuttle_mode = mode, !.slider = slider,
                                  !.scale = mode # "off" /\ ~strip.locked]
        /\ SetSpeed(SpeedOf(slider, mode))

\* The row of the scale in sensitivity_rules, which does not know of the mode that is off, when a
\* channel is queued or on air or no longer, or its player starts or stops (on a valid device).
Refresh(locked) ==
    /\ strip' = [strip EXCEPT !.locked = locked, !.scale = ~locked /\ strip.track # 0]
    /\ UNCHANGED <<player, missed, lost, moved_on>>

-----------------------------------------------------------------------------
(* The seek bar *)

\* audio_pipeline_player_seek, refused while no buffer is attached
Seek == lost' = ~player.buffer

\* on_seek: kept while only the library's duration is known
SeekBar ==
    /\ strip.track # 0 /\ ~strip.locked
    /\ IF strip.length THEN Seek /\ UNCHANGED strip
       ELSE /\ strip' = IF strip.estimate THEN [strip EXCEPT !.deferred = strip.track] ELSE strip
            /\ lost' = FALSE
    /\ UNCHANGED <<player, missed, moved_on>>

\* on_skip_clicked and do_skip, by what the player says
SkipSeconds ==
    /\ strip.track # 0 /\ ~strip.locked /\ player.length
    /\ Seek /\ UNCHANGED <<strip, player, missed, moved_on>>

\* ui_channel_strip_update: a kept seek is carried out once the player has a length
Frame ==
    /\ strip' = [strip EXCEPT !.length = player.length,
                              !.estimate = @ /\ ~player.length,
                              !.deferred = IF player.length THEN 0 ELSE @]
    /\ IF player.length /\ strip.deferred # 0 THEN Seek ELSE UNCHANGED lost
    /\ UNCHANGED <<player, missed, moved_on>>

-----------------------------------------------------------------------------
(* The tracks *)

\* A track is chosen: a seek of the last one is forgotten, the length is what the player says, which
\* still is the last track's.
Choose(t, known, scale) ==
    /\ strip' = [strip EXCEPT !.track = t, !.estimate = known, !.deferred = 0,
                              !.length = player.length, !.scale = scale]
    /\ player' = [player EXCEPT !.current = t, !.buffer = FALSE, !.pending = TRUE, !.ends = FALSE]
    /\ moved_on' = FALSE /\ lost' = FALSE
    /\ UNCHANGED missed

\* ui_channel_strip_load_track refreshes the buttons, previous_track and next_track do not
Load(t, known) == ~strip.locked /\ Choose(t, known, TRUE)
Step(t, known) ==
    strip.track # 0 /\ t \in {strip.track - 1, strip.track + 1} /\ Choose(t, known, strip.scale)

\* poll_pending_buffer, and on_track_changed with update_track_display
Attach ==
    /\ player.pending
    /\ player' = [player EXCEPT !.pending = FALSE, !.buffer = TRUE, !.length = TRUE]
    /\ strip' = [strip EXCEPT !.track = player.current, !.length = TRUE]
    /\ UNCHANGED <<missed, lost, moved_on>>

\* poll_pending_buffer and on_track_failed: the next track is chosen
Fail(known) ==
    /\ player.pending /\ strip.track < LastTrack /\ Choose(strip.track + 1, known, strip.scale)

\* A track ends: the next one is swapped in, or its buffer is taken away and the next one set.
EndTrack(preloaded) ==
    /\ player.buffer /\ player.current < LastTrack
    /\ player' = IF preloaded THEN [player EXCEPT !.current = @ + 1, !.ends = TRUE]
                 ELSE [player EXCEPT !.buffer = FALSE, !.ends = TRUE]
    /\ moved_on' = TRUE
    /\ UNCHANGED <<strip, missed, lost>>

\* handle_pending_advance
Advance ==
    /\ player.ends
    /\ IF player.buffer
       THEN /\ player' = [player EXCEPT !.ends = FALSE]
            /\ strip' = [strip EXCEPT !.track = player.current, !.length = player.length]
       ELSE /\ player' = [player EXCEPT !.ends = FALSE, !.current = @ + 1, !.pending = TRUE]
            /\ UNCHANGED strip
    /\ UNCHANGED <<missed, lost, moved_on>>

-----------------------------------------------------------------------------

Init ==
    /\ strip = [track |-> 0, length |-> FALSE, estimate |-> FALSE, deferred |-> 0,
                shuttle_mode |-> "off", slider |-> 0, scale |-> FALSE, locked |-> FALSE]
    /\ player = [current |-> 0, buffer |-> FALSE, pending |-> FALSE, length |-> FALSE,
                 ends |-> FALSE, speed |-> <<"off", 0>>]
    /\ missed = FALSE /\ lost = FALSE /\ moved_on = FALSE

Next ==
    \/ \E v \in Slider : MoveSlider(v)
    \/ ResetSlider \/ ClickShuttleMode \/ SeekBar \/ SkipSeconds \/ Frame \/ Attach \/ Advance
    \/ \E yes \in BOOLEAN :
          \/ Refresh(yes) \/ EndTrack(yes) \/ Fail(yes)
          \/ \E t \in 1 .. LastTrack : Load(t, yes) \/ Step(t, yes)

Spec == Init /\ [][Next]_vars

-----------------------------------------------------------------------------
(* Properties *)

\* The player runs at the speed that the slider and the mode show, unless the last change came while
\* it had no buffer; tracks that end, fail and are chosen in between do not part them.
SpeedFollows == missed \/ player.speed = SpeedOf(strip.slider, strip.shuttle_mode)

\* A seek that waits for a decode is one of the track that is shown, unless the player has gone on by
\* itself before the window was drawn; and a seek goes nowhere only after a track was decoded before
\* (channel_strip.c:640).
SeeksFollow ==
    /\ strip.deferred # 0 => moved_on \/ strip.deferred = strip.track
    /\ lost => player.length

\* A channel that is queued or on air keeps its speed: the scale is locked whatever was pressed.
ScaleLocked == strip.locked => ~strip.scale

ControlsSound == SpeedFollows /\ SeeksFollow /\ ScaleLocked
=============================================================================

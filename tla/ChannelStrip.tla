---------------------------- MODULE ChannelStrip ----------------------------
(***************************************************************************)
(* The channel strips of ui/channel_strip.c and what the window does with  *)
(* them (ui/window.c, ui/settings/controller_bridge.c, device_settings.c): *)
(* the mode of a channel, which of its buttons may be pressed, the focus,  *)
(* and the track a strip shows beside the one its player has.              *)
(*                                                                         *)
(* All of it runs on the main thread, so that a handler is one step, with  *)
(* the signals it sets off.  Of the pipeline there is what a strip sees    *)
(* (AudioPlayer has the rest): the swap at the end of a track is one step, *)
(* and a decode that is done is found by the next poll.  Buttons that the  *)
(* table treats alike are one.  Toasts and labels other than the next      *)
(* track's are left out.                                                   *)
(***************************************************************************)
EXTENDS Integers, FiniteSets

CONSTANTS Channels,       \* the strips of the window
          Followed,       \* those whose players do anything
          LastTrack,      \* tracks of the album, 1 .. LastTrack
          Undecodable,    \* those of them that cannot be decoded
          None

VARIABLES channels,       \* a strip and its player
          focused_channel,
          update_tick     \* the frame callback is installed

vars == <<channels, focused_channel, update_tick>>

AlbumTracks == 1 .. LastTrack
Broadcast == {"queued", "on_air"}
Repeating == -1           \* shown for the next track

\* library_cache_get_next_track_id and library_cache_get_prev_track_id, 0 when there is none
TrackAfter(t) == IF t \in 1 .. LastTrack - 1 THEN t + 1 ELSE 0
TrackBefore(t) == IF t \in AlbumTracks THEN t - 1 ELSE 0

-----------------------------------------------------------------------------
(* What a strip shows *)

Rules == [play  |-> {"file", "device", "not_on_air"},
          stop  |-> {"file", "device", "not_queued", "not_on_air", "playing"},
          end   |-> {"file", "device"},                                \* repeat, autoplay
          seek  |-> {"file", "device", "not_queued", "not_on_air"},    \* seek bar, preview, skips
          queue |-> {"device"}]

Holds(x, player_state) ==
    {need \in {"file", "device", "not_queued", "not_on_air", "playing"} :
        CASE need = "file"       -> x.track # 0
          [] need = "device"     -> x.device
          [] need = "not_queued" -> x.mode # "queued"
          [] need = "not_on_air" -> x.mode # "on_air"
          [] need = "playing"    -> player_state # "stopped"}

\* update_button_sensitivity
Buttons(x, player_state) ==
    [x EXCEPT !.sensitive = {b \in DOMAIN Rules : Rules[b] \subseteq Holds(x, player_state)}]

\* update_album_display: the label of the next track, and the two buttons that change the track
Album(x) ==
    [x EXCEPT !.next_label = IF x.track = 0 THEN 0
                             ELSE IF x.end_mode = "repeat" THEN Repeating ELSE TrackAfter(x.track),
              !.skips = IF x.mode \in Broadcast THEN {}
                        ELSE {b \in {"prev", "next"} :
                                (IF b = "prev" THEN TrackBefore(x.track) ELSE TrackAfter(x.track)) # 0}]

\* set_mode: the buttons follow at once, by the player state that was last drawn
InMode(x, mode) ==
    IF x.mode = mode THEN x ELSE Album(Buttons([x EXCEPT !.mode = mode], x.seen))

\* A channel is x after a step.  on_channel_strip_mode_changed: a channel that leaves the operator's
\* hands loses the focus.
Becomes(c, x) ==
    LET loses == /\ focused_channel = c
                 /\ x.mode \in Broadcast /\ x.mode # channels[c].mode
    IN  /\ channels' = [channels EXCEPT ![c] = [x EXCEPT !.focused = @ /\ ~loses]]
        /\ focused_channel' = IF loses THEN None ELSE focused_channel

-----------------------------------------------------------------------------
(* The player of a channel *)

\* preload_next_track
Preloaded(x) ==
    IF x.end_mode = "repeat" \/ TrackAfter(x.current) = 0 THEN x
    ELSE [x EXCEPT !.next = TrackAfter(x.current), !.next_ready = FALSE]

\* audio_cache_load and audio_pipeline_set_player_track, refused without a stream; `refused' is a
\* history variable: the track that the strip shows was
SetTrack(x, t) ==
    IF ~x.active THEN [x EXCEPT !.refused = @ \/ t = x.track]
    ELSE Preloaded([x EXCEPT !.current = t, !.buffer = FALSE, !.pending = TRUE, !.next = 0,
                             !.next_ready = FALSE, !.refused = @ /\ t # x.track])

\* audio_pipeline_player_play and toggle_play
Played(x) == IF x.active THEN [x EXCEPT !.state = "playing"] ELSE x
Toggled(x) == IF x.state = "playing" THEN [x EXCEPT !.state = "paused"] ELSE Played(x)
Stopped(x) == [x EXCEPT !.state = "stopped"]

\* ui_channel_strip_update_track_display, called by on_track_changed
Shown(x) == Album([x EXCEPT !.track = x.current, !.refused = FALSE])

\* A track chosen on the strip: shown first, then given to the player.
Chosen(x, t) == SetTrack(Album([x EXCEPT !.track = t]), t)

\* ui_channel_strip_next_track
NextTrack(x) == IF TrackAfter(x.track) = 0 THEN x ELSE Chosen(x, TrackAfter(x.track))

\* ui_channel_strip_previous_track: late in a track, or in the first, it goes to the beginning
PreviousTrack(x, late) == IF late \/ TrackBefore(x.track) = 0 THEN x ELSE Chosen(x, TrackBefore(x.track))

\* ui_channel_strip_load_track
Loaded(x, t) ==
    LET shown == Album([x EXCEPT !.track = t]) IN SetTrack(Buttons(shown, shown.seen), t)

\* poll_pending_buffer and on_track_failed, which goes on to the next track
Polled(x, decoded) ==
    IF ~(x.pending /\ decoded) THEN x
    ELSE IF x.current \in Undecodable THEN NextTrack([x EXCEPT !.pending = FALSE, !.current = 0])
    ELSE Shown([x EXCEPT !.pending = FALSE, !.buffer = TRUE])

\* try_attach_next_buffer
Attached(x, decoded) ==
    IF x.next # 0 /\ decoded /\ x.next \notin Undecodable THEN [x EXCEPT !.next_ready = TRUE] ELSE x

\* handle_pending_advance: deferred when nothing plays, or the swap is made known
Advanced(x) ==
    LET taken == [x EXCEPT !.advance = FALSE, !.old = FALSE]
    IN  IF ~x.advance THEN x
        ELSE IF x.old \/ x.buffer THEN Shown(Preloaded(taken))
        ELSE IF x.next = 0 THEN taken ELSE SetTrack(taken, x.next)

\* The poll of the pipeline finds the tracks it waits for decoded, or not yet.
Poll(c) ==
    LET x == channels[c]
    IN  /\ \E decoded \in {FALSE, x.pending}, ready \in {FALSE, x.pending \/ x.next # 0} :
              Becomes(c, Advanced(Attached(Polled(x, decoded), ready)))
        /\ UNCHANGED update_tick

\* on_track_end, on the audio thread
TrackEnds(c) ==
    LET x == channels[c]
        state == IF x.end_mode = "stop" THEN "stopped" ELSE x.state
    IN  /\ x.state = "playing" /\ x.buffer /\ x.active /\ x.end_mode # "repeat"
        /\ Becomes(c,
             IF x.next_ready
             THEN [x EXCEPT !.current = x.next, !.next = 0, !.next_ready = FALSE,
                            !.advance = TRUE, !.old = TRUE, !.state = state]
             ELSE IF x.next # 0
             THEN [x EXCEPT !.buffer = FALSE, !.advance = TRUE, !.state = state]
             ELSE Stopped(x))
        /\ UNCHANGED update_tick

\* The streams of a player come up, and go down with player_deactivate_streams.
Streams(c) ==
    /\ Becomes(c, IF channels[c].active THEN [Stopped(channels[c]) EXCEPT !.active = FALSE]
                  ELSE [channels[c] EXCEPT !.active = TRUE])
    /\ UNCHANGED update_tick

-----------------------------------------------------------------------------
(* The buttons of a strip *)

Press(c, button, x) == button \in channels[c].sensitive /\ Becomes(c, x) /\ UNCHANGED update_tick

\* ui_channel_strip_play and ui_channel_strip_stop
Play(x) ==
    IF x.state = "playing" THEN x
    ELSE Played(IF x.mode = "queued" THEN InMode(x, "on_air") ELSE x)
Stop(x) ==
    IF x.state = "stopped" THEN x
    ELSE IF x.mode \in Broadcast THEN InMode(Stopped(x), "idle") ELSE Stopped(x)

\* on_play_pause, which tries again to set a track that the player did not take
PlayPause(c) ==
    LET x == channels[c]
        again == IF x.track # 0 /\ x.current = 0 THEN SetTrack(x, x.track) ELSE x
    IN  Press(c, "play", IF x.mode = "queued" THEN Play(x)
                         ELSE IF x.mode = "on_air" THEN x
                         ELSE IF x.current = 0 /\ x.track # 0 /\ ~x.active THEN again
                         ELSE Toggled(again))

\* on_stop
StopPressed(c) == Press(c, "stop", Stop(channels[c]))

\* ui_channel_strip_preview_on and ui_channel_strip_preview_off
PreviewOn(x) ==
    IF x.mode \in Broadcast THEN [x EXCEPT !.preview = FALSE]
    ELSE InMode([x EXCEPT !.preview = TRUE], "preview")
PreviewOff(x) ==
    LET off == [x EXCEPT !.preview = FALSE]
    IN  IF x.mode = "preview" THEN InMode(off, "idle") ELSE off

\* on_preview, once the button is turned over
Preview(c) ==
    LET x == channels[c] IN Press(c, "seek", IF x.preview THEN PreviewOff(x) ELSE PreviewOn(x))

\* on_repeat and on_autoplay with set_end_mode_and_sync_buttons.  Where the other button is on it is
\* turned off, and its own handler then sets the mode to stop and turns this one off again.
EndMode(x, button) ==
    LET mode == IF x.repeat \/ x.autoplay THEN "stop" ELSE button
    IN  [x EXCEPT !.end_mode = mode, !.repeat = mode = "repeat", !.autoplay = mode = "autoplay"]

Repeat(c) == Press(c, "end", Album(EndMode(channels[c], "repeat")))
Autoplay(c) ==
    LET x == EndMode(channels[c], "autoplay")
    IN  Press(c, "end", IF channels[c].repeat THEN Album(x) ELSE x)

\* Fault: the button that shows the preview stays on.
QueuedFromPreview(x, double_click) ==
    IF ~x.device THEN x
    ELSE IF x.mode \in Broadcast THEN IF double_click THEN InMode(x, "idle") ELSE x
    ELSE InMode(x, IF x.state = "playing" THEN "on_air" ELSE "queued")

\* on_queue: out of the operator's hands at once when it plays, else when it is played; a double
\* click takes it back
Queued(x, double_click) ==
    IF ~x.device THEN x
    ELSE IF x.mode \in Broadcast THEN IF double_click THEN InMode(x, "idle") ELSE x
    ELSE LET y == IF x.mode = "preview" THEN PreviewOff(x) ELSE x
         IN  InMode(y, IF x.state = "playing" THEN "on_air" ELSE "queued")

Queue(c, double_click) == Press(c, "queue", Queued(channels[c], double_click))

\* on_prev_track_btn_clicked and on_next_track_btn_clicked
Skip(c) ==
    LET x == channels[c]
    IN  /\ \/ "next" \in x.skips /\ Becomes(c, NextTrack(x))
           \/ "prev" \in x.skips /\ \E late \in BOOLEAN : Becomes(c, PreviousTrack(x, late))
        /\ UNCHANGED update_tick

\* on_next_track_label_clicked, on a label that is sensitive
NextLabel(c) ==
    LET x == channels[c]
    IN  /\ x.next_label > 0 /\ x.mode \notin Broadcast /\ x.end_mode # "repeat"
        /\ Becomes(c, NextTrack(x)) /\ UNCHANGED update_tick

-----------------------------------------------------------------------------
(* The window *)

\* ui_channel_strip_is_active
Active(x) == x.device /\ x.mode \notin Broadcast

\* on_load_to_channel for a key, on_library_play for the channel in focus; then ensure_update_tick
Load(c, t) ==
    /\ Active(channels[c]) /\ Becomes(c, Loaded(channels[c], t)) /\ update_tick' = TRUE

Activate(t) == focused_channel # None /\ focused_channel \in Followed /\ Load(focused_channel, t)

\* ui_window_set_focused_channel by a click or a key; a second time it clears the focus
Focus(c) ==
    /\ Active(channels[c])
    /\ focused_channel' = IF focused_channel = c THEN None ELSE c
    /\ channels' = [d \in Channels |-> [channels[d] EXCEPT !.focused = d = focused_channel']]
    /\ UNCHANGED update_tick

\* on_action_play_channel and on_action_stop_channel go to the pipeline, past the strip.
FunctionKey(c, shift) ==
    /\ Becomes(c, IF shift THEN Stopped(channels[c]) ELSE Played(channels[c]))
    /\ UNCHANGED update_tick

\* on_controller_command
Command(c, command) ==
    LET x == channels[c]
    IN  /\ Becomes(c, CASE command = "play_pause" -> IF x.state = "playing" THEN Stop(x) ELSE Play(x)
                        [] command = "preview"    -> IF x.mode = "preview" THEN PreviewOff(x)
                                                     ELSE PreviewOn(x)
                        [] command = "on_air"     -> Play(x)
                        [] command = "skip"       -> NextTrack(x))
        /\ UNCHANGED update_tick

\* ui_channel_strip_set_device_state: valid or not; the buttons do not follow
DeviceState(c, valid) == Becomes(c, [channels[c] EXCEPT !.device = valid]) /\ UNCHANGED update_tick

\* What on_controller_status, the list of devices, and on_device_changed may find: valid where the
\* settings (which are in AppSettings) have a device for the channel, and the controller is connected,
\* or the device is there.
ControllerStatus(connected) == {connected /\ saved : saved \in BOOLEAN}
DevicesListed(found) == {found /\ saved : saved \in BOOLEAN}
DeviceChosen(saved) == {saved}

Device(c) ==
    \E yes \in BOOLEAN :
        \E valid \in ControllerStatus(yes) \cup DevicesListed(yes) \cup DeviceChosen(yes) :
            DeviceState(c, valid)

\* ui_channel_strip_update, once a frame: the buttons follow the player's state
Frame(c) ==
    LET x == channels[c]
    IN  /\ update_tick /\ x.state # x.seen
        /\ Becomes(c, [Buttons(x, x.state) EXCEPT !.seen = x.state])
        /\ UNCHANGED update_tick

-----------------------------------------------------------------------------

\* The widgets as they are built; the player without a stream, or with one.
Init ==
    /\ \E active \in BOOLEAN :
        channels = [c \in Channels |->
            [track |-> 0, device |-> TRUE, mode |-> "idle", preview |-> FALSE,
             repeat |-> FALSE, autoplay |-> TRUE, next_label |-> 0, sensitive |-> DOMAIN Rules,
             skips |-> {}, seen |-> "stopped", focused |-> FALSE, refused |-> FALSE,
             state |-> "stopped", current |-> 0, buffer |-> FALSE, pending |-> FALSE,
             active |-> active, end_mode |-> "autoplay", next |-> 0, next_ready |-> FALSE,
             advance |-> FALSE, old |-> FALSE]]
    /\ focused_channel = None /\ update_tick = FALSE

Next ==
    \/ \E c \in Channels : Focus(c)
    \/ \E t \in AlbumTracks : Activate(t)
    \/ \E c \in Followed :
          \/ PlayPause(c) \/ StopPressed(c) \/ Preview(c) \/ Repeat(c) \/ Autoplay(c) \/ NextLabel(c)
          \/ Skip(c) \/ Device(c) \/ Poll(c) \/ TrackEnds(c) \/ Streams(c) \/ Frame(c)
          \/ \E t \in AlbumTracks : Load(c, t)
          \/ \E yes \in BOOLEAN : Queue(c, yes) \/ FunctionKey(c, yes)
          \/ \E command \in {"play_pause", "preview", "on_air", "skip"} : Command(c, command)

Spec == Init /\ [][Next]_vars

-----------------------------------------------------------------------------
(* Properties *)

\* The buttons of a strip show what it is doing: preview while its mode is preview, repeat and
\* autoplay as the player will end its track, the next track as it will come; whichever of screen,
\* keys and controller changed it.
ButtonsFollow ==
    \A c \in Channels : LET x == channels[c] IN
        /\ x.preview <=> x.mode = "preview"
        /\ x.repeat <=> x.end_mode = "repeat"
        /\ x.autoplay <=> x.end_mode = "autoplay"
        /\ x.track # 0 => x.next_label = IF x.end_mode = "repeat" THEN Repeating ELSE TrackAfter(x.track)

\* A channel that is queued or on air cannot be stopped, sought or given another track by a button of
\* its strip, and one on air cannot be paused, whatever its player, its device and its track did since.
BroadcastIsLocked ==
    \A c \in Channels : LET x == channels[c] IN
        /\ x.mode \in Broadcast => x.sensitive \cap {"stop", "seek"} = {} /\ x.skips = {}
        /\ x.mode = "on_air" => "play" \notin x.sensitive

\* At most one strip has the focus, the window agrees which, and it is not queued or on air.
FocusSound ==
    \A c \in Channels : LET x == channels[c] IN
        /\ x.focused <=> focused_channel = c
        /\ x.focused => x.mode \notin Broadcast

\* A strip shows the track its player has, but for an advance that the main thread has still to be
\* told of or that waits for its decode, and a track that the player did not take for want of a
\* stream.  A strip with a track is drawn.
DisplayFollows ==
    \A c \in Channels : LET x == channels[c] IN
        /\ x.current \notin {0, x.track} =>
              x.advance \/ x.refused \/ (x.pending /\ x.current = TrackAfter(x.track))
        /\ x.track # 0 => update_tick

StripsSound == ButtonsFollow /\ BroadcastIsLocked /\ FocusSound /\ DisplayFollows
=============================================================================

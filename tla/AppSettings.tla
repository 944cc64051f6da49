----------------------------- MODULE AppSettings -----------------------------
(***************************************************************************)
(* The settings: ui/app_settings.c, the handlers of                        *)
(* ui/settings/settings_view.c and of the channel settings, and the        *)
(* debounced save of ui/window.c.                                          *)
(*                                                                         *)
(* A channel, the general settings and a library are records; of the       *)
(* general settings one stands for those of its kind: a number with a      *)
(* range, a text with a default, a text without, a switch the indexer is   *)
(* told of and one it is not.  An empty text and a missing one are None;   *)
(* so is a key that the file does not have.                                *)
(***************************************************************************)
EXTENDS Integers, Sequences, SequencesExt

CONSTANTS None,
          Files,          \* the settings files a first start may find, None when there is none
          Channels, Devices, Addresses,
          OUTPUT_FORMAT_COUNT,
          Quanta,         \* what the quantum list and old files hold
          Sizes,          \* the thumbnail sizes of the list
          Texts,          \* what is typed into an entry
          DefaultConninfo,
          MaxChanges      \* bound: changes of settings

VARIABLES settings,       \* app_settings_t; what the user last had while the program is not running
          file,           \* settings.ini
          save_timer,     \* window: settings_save_timer
          running,
          told,           \* what the indexer controller was told
          changes         \* bound: changes so far

settingsVars == <<settings, file, save_timer, running, told, changes>>

-----------------------------------------------------------------------------
(* Load and save *)

PowersOfTwo == {32, 64, 128, 256, 512, 1024, 2048}

\* init_defaults: a channel, the general settings
DefaultChannel ==
    [device |-> None, enabled |-> FALSE, exclusive |-> TRUE, format |-> 0, quantum |-> 512,
     gpio |-> None]
DefaultGeneral ==
    [spectrum |-> TRUE, warning |-> 10, thumb |-> 96, scans |-> 2, resolve |-> FALSE,
     fingerprint |-> FALSE, conninfo |-> DefaultConninfo, solr |-> None, key |-> None]
Defaults ==
    [channels |-> [c \in Channels |-> DefaultChannel], general |-> DefaultGeneral,
     libraries |-> <<>>]

\* A key of the file counts when its value is one the program can use.
Usable(value, Good(_), default) == IF value # None /\ Good(value) THEN value ELSE default
Given(value) == TRUE

LoadedChannel(c) ==
    LET default == DefaultChannel
    IN [device    |-> c.device,
        enabled   |-> Usable(c.enabled, Given, c.device # None),
        exclusive |-> Usable(c.exclusive, Given, default.exclusive),
        format    |-> Usable(c.format, LAMBDA f : f \in 0 .. (OUTPUT_FORMAT_COUNT - 1),
                             default.format),
        quantum   |-> Usable(c.quantum, LAMBDA q : q \in PowersOfTwo, default.quantum),
        gpio      |-> c.gpio]

LoadedGeneral(g) ==
    LET default == DefaultGeneral
    IN [spectrum    |-> Usable(g.spectrum, Given, default.spectrum),
        warning     |-> Usable(g.warning, LAMBDA n : n > 0, default.warning),
        thumb       |-> Usable(g.thumb, LAMBDA n : n \in 16 .. 300, default.thumb),
        scans       |-> Usable(g.scans, LAMBDA n : n \in 1 .. 8, default.scans),
        resolve     |-> Usable(g.resolve, Given, default.resolve),
        fingerprint |-> Usable(g.fingerprint, Given, default.fingerprint),
        conninfo    |-> Usable(g.conninfo, Given, default.conninfo),
        solr        |-> g.solr,
        key         |-> g.key]

\* The groups Library.N in the order of the file.  One without a path keeps its zeroed entry; one
\* without an index has its position.
LoadedLibraries(groups) ==
    LET entry(i) ==
            IF groups[i].path = None
            THEN [path |-> None, name |-> None, data |-> None, flag |-> 0, locked |-> FALSE,
                  index |-> 0]
            ELSE [groups[i] EXCEPT !.index = Usable(@, Given, i - 1)]
    IN SortSeq([i \in DOMAIN groups |-> entry(i)], LAMBDA l, m : l.index < m.index)

\* app_settings_load
Load(f) ==
    IF f = None THEN Defaults
    ELSE [channels  |-> [c \in Channels |-> LoadedChannel(f.channels[c])],
          general   |-> LoadedGeneral(f.general),
          libraries |-> LoadedLibraries(f.libraries)]

\* app_settings_save: every key, the libraries in the order of the array.
Written(s) ==
    [channels  |-> [c \in Channels |-> s.channels[c]],
     general   |-> s.general,
     libraries |-> s.libraries]

-----------------------------------------------------------------------------
(* Start, save and end *)

\* What ui_window_new tells the indexer.
Told(s) == [resolve |-> s.general.resolve, conninfo |-> s.general.conninfo,
            solr |-> s.general.solr, key |-> s.general.key]

SettingsInit ==
    /\ file \in Files /\ settings = Load(file) /\ told = Told(settings)
    /\ save_timer = FALSE /\ running = FALSE /\ changes = 0

\* on_startup and ui_window_new
Start ==
    /\ ~running /\ running' = TRUE
    /\ settings' = Load(file) /\ told' = Told(settings')
    /\ UNCHANGED <<file, save_timer, changes>>

\* settings_save_tick, 200 ms after the last change
SaveTick ==
    /\ running /\ save_timer
    /\ save_timer' = FALSE /\ file' = Written(settings)
    /\ UNCHANGED <<settings, running, told, changes>>

\* ui_window_dispose with its flush of a pending save, then app_settings_destroy
Quit ==
    /\ running /\ running' = FALSE
    /\ save_timer' = FALSE
    /\ file' = IF save_timer THEN Written(settings) ELSE file
    /\ UNCHANGED <<settings, told, changes>>

\* The process is killed: what was not saved is gone.
Kill ==
    /\ running /\ running' = FALSE
    /\ save_timer' = FALSE /\ settings' = Load(file)
    /\ UNCHANGED <<file, told, changes>>

\* A handler that changes the settings and calls settings_save_debounced.
Change(s) ==
    /\ running /\ changes < MaxChanges /\ changes' = changes + 1
    /\ settings' = s /\ save_timer' = TRUE
    /\ UNCHANGED <<file, running>>

-----------------------------------------------------------------------------
(* Channel settings *)

\* app_settings_set_channel_device, ..._exclusive, ..._format, ..._quantum, ..._gpio
WithDevice(c, d)    == [c EXCEPT !.device = d, !.enabled = d # None]
WithExclusive(c, b) == [c EXCEPT !.exclusive = b]
WithFormat(c, f)    == IF f \in 0 .. (OUTPUT_FORMAT_COUNT - 1) THEN [c EXCEPT !.format = f] ELSE c
WithQuantum(c, q)   == IF q \in PowersOfTwo THEN [c EXCEPT !.quantum = q] ELSE c
WithGpio(c, a)      == [c EXCEPT !.gpio = a]

\* The handlers of a channel's settings; what they do to its stream is in StreamLifecycle.
ChangeChannel(ch) ==
    /\ \E c \in LET old == settings.channels[ch]
                IN  {WithDevice(old, d) : d \in Devices \cup {None}}
                    \cup {WithExclusive(old, b) : b \in BOOLEAN}
                    \cup {WithFormat(old, f) : f \in 0 .. OUTPUT_FORMAT_COUNT}
                    \cup {WithQuantum(old, q) : q \in Quanta}
                    \cup {WithGpio(old, a) : a \in Addresses \cup {None}} :
          Change([settings EXCEPT !.channels[ch] = c])
    /\ UNCHANGED told

-----------------------------------------------------------------------------
(* General settings *)

\* on_spectrum_toggled and on_bool_setting_toggled: the indexer hears of neither.
ToggleSwitch(switch) ==
    /\ Change([settings EXCEPT !.general[switch] = ~@])
    /\ UNCHANGED told

\* on_art_size_changed
SelectSize(n) ==
    /\ settings.general.thumb # n
    /\ Change([settings EXCEPT !.general.thumb = n])
    /\ UNCHANGED told

\* on_mb_resolve_toggled
ToggleResolve ==
    /\ Change([settings EXCEPT !.general.resolve = ~@])
    /\ told' = [told EXCEPT !.resolve = settings'.general.resolve]

\* on_pg_conninfo_changed, on_mb_solr_url_changed and on_fanart_api_key_changed; an entry that is
\* emptied has no text
TypeText(entry, text) ==
    /\ Change([settings EXCEPT !.general[entry] = text])
    /\ told' = [told EXCEPT ![entry] = text]

SettingsNext ==
    \/ Start \/ SaveTick \/ Quit \/ Kill
    \/ \E ch \in Channels : ChangeChannel(ch)
    \/ \E switch \in {"spectrum", "fingerprint"} : ToggleSwitch(switch)
    \/ \E n \in Sizes : SelectSize(n)
    \/ ToggleResolve
    \/ \E entry \in {"conninfo", "solr", "key"}, text \in Texts \cup {None} : TypeText(entry, text)

-----------------------------------------------------------------------------
(* Properties *)

\* What s and t agree in is what the program promises to keep over a restart.  Left out are an
\* emptied connection string, which comes back as the default, and the order of the libraries,
\* which comes back as that of their indices (app_settings.c:248, 361).
SameSettings(s, t) ==
    /\ s.channels = t.channels
    /\ \A k \in DOMAIN s.general :
         (k = "conninfo" /\ s.general[k] = None) \/ s.general[k] = t.general[k]
    /\ ToSet(s.libraries) = ToSet(t.libraries) /\ Len(s.libraries) = Len(t.libraries)

\* Unless a save is due, and always once the program was closed, the next start finds what the user
\* has set: no handler forgets to save, no change is overtaken by the end of the program, nothing is
\* written in a form that loading refuses.
SettingsKept == save_timer \/ SameSettings(settings, Load(file))

\* Whatever the file says, the program works with a format, a quantum, a thumbnail size and a number
\* of scans that it can use (app_settings.c, the checks of load and of the setters).
SettingsUsable ==
    /\ \A c \in Channels : /\ settings.channels[c].format \in 0 .. (OUTPUT_FORMAT_COUNT - 1)
                           /\ \E k \in 5 .. 11 : settings.channels[c].quantum = 2 ^ k
    /\ settings.general.thumb \in 16 .. 300 /\ settings.general.scans \in 1 .. 8

\* The indexer works with the settings that are shown, from the moment they are changed
\* (settings_view.c: the handlers that tell it).
IndexerTold ==
    running => /\ told.resolve = settings.general.resolve
               /\ told.conninfo = settings.general.conninfo
               /\ told.solr = settings.general.solr /\ told.key = settings.general.key

SettingsSound == SettingsKept /\ SettingsUsable /\ IndexerTold
=============================================================================

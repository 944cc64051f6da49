--------------------------- MODULE LibraryRegistry ---------------------------
(***************************************************************************)
(* The list of libraries and what follows it: the cards and the add        *)
(* popover of ui/libraries/libraries_view.c, the slots that the library    *)
(* cache and the artwork manager keep for each library, the monitor of     *)
(* ui/library_monitor.c and the availability handler of ui/window.c.       *)
(*                                                                         *)
(* A library is a record of the settings (AppSettings); its index names    *)
(* its slots wherever they lie, its position names its card and its place  *)
(* in the monitor.  The four integration flags of a library are one.       *)
(* The scans these handlers ask for are in IndexerController, the warming  *)
(* of slots in LibrarySlots.                                               *)
(***************************************************************************)
EXTENDS AppSettings, FiniteSetsExt

CONSTANTS Folders,        \* the folders that hold music
          Drives,         \* those of them on drives that come and go
          Base,           \* the last component of a folder's path
          IndexFolders,   \* where the index of a network library may be put
          Names,          \* names given to libraries
          Flags           \* of an integration: 1 on, 0 off, -1 as in the general settings

VARIABLES slots,          \* cache->slots
          pictures,       \* artwork manager: slots
          cards,          \* window: libs
          popover,        \* AddLibState, None when it is closed
          mounted,        \* the folders that are there
          prev_available, \* monitor: what the last check found, by position
          since           \* what happened since the last check; "lost": what the monitor missed

registryVars == <<slots, pictures, cards, popover, mounted, prev_available, since>>
vars == <<settingsVars, registryVars>>

libraries == settings.libraries

DataRoot(lib) == IF lib.data = None THEN lib.path ELSE lib.data
DisplayName(lib) == IF lib.name = None THEN Base[lib.path] ELSE lib.name

\* app_settings_find_library and find_lib_idx, 0 when there is none
Find(libs, path) == SelectInSeq(libs, LAMBDA lib : lib.path = path)

-----------------------------------------------------------------------------
(* Slots *)

Slot(lib, name) ==
    [index |-> lib.index, path |-> lib.path, data |-> DataRoot(lib), name |-> name,
     available |-> TRUE]

\* bitmap_to_slot: the position of the slot of an index (the last that was registered for it), 0
\* when there is none
Registered(ss, index) == SelectLastInSeq(ss, LAMBDA s : s.index = index)

Available(ss, index) ==
    LET pos == Registered(ss, index) IN pos # 0 /\ ss[pos].available

\* library_cache_add_slot and library_cache_remove_slot, which shifts those behind it
WithSlot(slot) == Append(slots, slot)
WithoutSlot(index) ==
    LET pos == Registered(slots, index) IN IF pos = 0 THEN slots ELSE RemoveAt(slots, pos)

\* artwork_manager_add_library and artwork_manager_remove_library
Picture(lib) == [index |-> lib.index, path |-> lib.path, data |-> DataRoot(lib)]
WithoutPicture(index) ==
    LET pos == SelectInSeq(pictures, LAMBDA p : p.index = index)
    IN  IF pos = 0 THEN pictures ELSE RemoveAt(pictures, pos)

\* libs_load and libs_rebuild with make_lib_card: the cards in the order of the settings
Cards(libs, ss) ==
    [k \in DOMAIN libs |->
        [path |-> libs[k].path, locked |-> libs[k].locked, available |-> Available(ss, libs[k].index)]]

-----------------------------------------------------------------------------
(* The monitor *)

\* check_all_libraries on the slots ss with what it knew: the first positions keep it, new ones are
\* taken to be available.  Where a folder comes or goes the slot is told, and the window by the signal.
Known(ss) ==
    [k \in DOMAIN ss |-> IF k <= Len(prev_available) THEN prev_available[k] ELSE TRUE]

Looked(libs, ss) == {k \in DOMAIN ss : k <= Len(libs) /\ libs[k].path # None}

Turned(libs, ss) == {k \in Looked(libs, ss) : (libs[k].path \in mounted) # Known(ss)[k]}

Check(libs, ss) ==
    LET turned == Turned(libs, ss)
        told_to(k) == libs[k].path \in mounted
        slot(s) == LET heard == {k \in turned : libs[k].index = s.index}
                   IN IF heard = {} THEN s
                      ELSE [s EXCEPT !.available = told_to(Max(heard))]
        seen == [k \in DOMAIN ss |-> slot(ss[k])]
    IN  /\ prev_available' = [k \in DOMAIN ss |->
                                 IF k \in Looked(libs, ss) THEN told_to(k) ELSE Known(ss)[k]]
        /\ slots' = seen
        \* on_library_availability_changed: the card of the settings entry with the index
        /\ cards' = LET built == Cards(libs, ss)
                        first(k) == SelectInSeq(libs, LAMBDA lib : lib.index = libs[k].index)
                        old == IF Len(cards) = Len(libs) THEN cards ELSE built
                    IN  [c \in DOMAIN libs |->
                           LET heard == {k \in turned : first(k) = c}
                           IN  IF heard = {} THEN old[c]
                               ELSE [old[c] EXCEPT !.available = told_to(Max(heard))]]
        /\ since' = (since \ {"moved", "changed"})
                    \cup (IF {"moved", "changed"} \subseteq since THEN {"lost"} ELSE {})

\* The heartbeat, and the volume monitor's signals
MonitorCheck ==
    /\ running
    /\ Check(libraries, slots)
    /\ UNCHANGED <<settingsVars, pictures, popover, mounted>>

\* A drive of a library comes or goes; bound: one between two checks.
Mount(f) ==
    /\ running /\ f \in Drives /\ "changed" \notin since
    /\ \E k \in DOMAIN libraries : libraries[k].path = f
    /\ mounted' = IF f \in mounted THEN mounted \ {f} ELSE mounted \cup {f}
    /\ since' = since \cup {"changed"}
    /\ UNCHANGED <<settingsVars, slots, pictures, cards, popover, prev_available>>

-----------------------------------------------------------------------------
(* Start and end *)

Init ==
    /\ SettingsInit /\ mounted = Folders
    /\ slots = <<>> /\ pictures = <<>> /\ cards = <<>> /\ popover = None
    /\ prev_available = <<>> /\ since = {}

\* on_startup makes the slots, ui_window_new the pictures and the cards; library_monitor_start checks.
StartUp ==
    /\ Start
    /\ LET libs == settings'.libraries
           ss == [k \in DOMAIN libs |-> Slot(libs[k], DisplayName(libs[k]))]
       IN  /\ pictures' = [k \in DOMAIN libs |-> Picture(libs[k])]
           /\ cards = <<>> /\ prev_available = <<>> /\ Check(libs, ss)
    /\ UNCHANGED <<popover, mounted>>

\* ui_window_dispose and library_cache_destroy
Shutdown ==
    /\ Quit \/ Kill
    /\ slots' = <<>> /\ pictures' = <<>> /\ cards' = <<>> /\ popover' = None
    /\ prev_available' = <<>> /\ since' = {}
    /\ UNCHANGED mounted

Save == SaveTick /\ UNCHANGED registryVars

-----------------------------------------------------------------------------
(* The cards *)

\* The settings with other libraries, saved later.
ChangeLibraries(libs) == Change([settings EXCEPT !.libraries = libs]) /\ UNCHANGED told

\* on_remove: the slots go by the index, before the settings shift
RemoveLibrary(c) ==
    /\ running /\ ~cards[c].locked
    /\ LET pos == Find(libraries, cards[c].path)
           index == libraries[pos].index
           libs == RemoveAt(libraries, pos)
           ss == WithoutSlot(index)
       IN  /\ pos # 0
           /\ slots' = ss /\ pictures' = WithoutPicture(index)
           /\ ChangeLibraries(libs) /\ cards' = Cards(libs, ss)
    /\ since' = since \cup {"moved"}
    /\ UNCHANGED <<popover, mounted, prev_available>>

\* on_move_up and on_move_down with app_settings_swap_libraries
MoveLibrary(c, d) ==
    /\ running /\ ~cards[c].locked /\ d \in {c - 1, c + 1} \cap DOMAIN libraries
    /\ LET libs == [libraries EXCEPT ![c] = libraries[d], ![d] = libraries[c]]
       IN  ChangeLibraries(libs) /\ cards' = Cards(libs, slots)
    /\ since' = since \cup {"moved"}
    /\ UNCHANGED <<slots, pictures, popover, mounted, prev_available>>

\* on_lock_pressed: a press locks, the second of two unlocks
PressLock(c, presses) ==
    /\ running /\ cards[c].locked => presses >= 2
    /\ ChangeLibraries([libraries EXCEPT ![c].locked = ~cards[c].locked])
    /\ cards' = [cards EXCEPT ![c].locked = ~@]
    /\ UNCHANGED <<slots, pictures, popover, mounted, prev_available, since>>

\* on_edit_done
Rename(c, name) ==
    /\ running /\ ~cards[c].locked
    /\ LET lib == [libraries[c] EXCEPT !.name = name]
       IN  /\ ChangeLibraries([libraries EXCEPT ![c] = lib])
           /\ slots' = [k \in DOMAIN slots |-> IF k = Registered(slots, lib.index)
                                               THEN [slots[k] EXCEPT !.name = DisplayName(lib)]
                                               ELSE slots[k]]
    /\ UNCHANGED <<pictures, cards, popover, mounted, prev_available, since>>

\* on_integration_toggled
ToggleIntegration(c, flag) ==
    /\ running /\ ~cards[c].locked /\ libraries[c].flag # flag
    /\ ChangeLibraries([libraries EXCEPT ![c].flag = flag])
    /\ UNCHANGED <<registryVars>>

-----------------------------------------------------------------------------
(* The add popover *)

\* generate_portable_data_path: by the last component only
PortableData(path) == <<"portable", Base[path]>>

\* on_add_library
OpenPopover ==
    /\ running /\ popover = None /\ changes < MaxChanges
    /\ popover' = [kind |-> "local", music |-> None, data |-> None]
    /\ UNCHANGED <<settingsVars, slots, pictures, cards, mounted, prev_available, since>>

\* update_auto_data_path
AutoData(p) ==
    IF p.kind = "usb" /\ p.music # None THEN [p EXCEPT !.data = PortableData(p.music)] ELSE p

\* on_type_toggled: only the data path of a drive is kept from one kind to the other
SelectKind(kind) ==
    /\ popover # None /\ popover.kind # kind
    /\ popover' = AutoData([popover EXCEPT !.kind = kind,
                                           !.data = IF kind = "usb" THEN @ ELSE None])
    /\ UNCHANGED <<settingsVars, slots, pictures, cards, mounted, prev_available, since>>

\* on_music_folder_selected
SelectMusic(f) ==
    /\ popover # None /\ f \in mounted
    /\ popover' = AutoData([popover EXCEPT !.music = f])
    /\ UNCHANGED <<settingsVars, slots, pictures, cards, mounted, prev_available, since>>

\* on_data_folder_selected, whose button is there for a network library only
SelectData(f) ==
    /\ popover # None /\ popover.kind = "network"
    /\ popover' = [popover EXCEPT !.data = f]
    /\ UNCHANGED <<settingsVars, slots, pictures, cards, mounted, prev_available, since>>

\* update_confirm_sensitivity
MayConfirm(p) == p.music # None /\ (p.kind = "network" => p.data # None)

\* Where the index goes: beside the music when this is None.
EffectiveData(p) ==
    CASE p.kind = "usb"     -> PortableData(p.music)
      [] p.kind = "network" -> p.data
      [] OTHER              -> None

\* Fault: the number of libraries as the next index.
AddedByCount(libs, path) ==
    IF Find(libs, path) # 0 THEN libs
    ELSE Append(libs, [path |-> path, name |-> None, data |-> None, flag |-> -1, locked |-> FALSE,
                       index |-> Len(libs)])

\* app_settings_add_library: a folder that is there already is not added again
Added(libs, path) ==
    IF Find(libs, path) # 0 THEN libs
    ELSE Append(libs, [path |-> path, name |-> None, data |-> None, flag |-> -1, locked |-> FALSE,
                       index |-> Max({libs[k].index : k \in DOMAIN libs} \cup {-1}) + 1])

\* on_add_confirm: the last library of the list gets the data path and the flags, and a slot, whether
\* or not one was added
ConfirmAdd(flag) ==
    /\ popover # None /\ MayConfirm(popover)
    /\ LET data == EffectiveData(popover)
           added == Added(libraries, popover.music)
           libs == [added EXCEPT ![Len(added)].data = IF data = None THEN @ ELSE data,
                                 ![Len(added)].flag = flag]
           lib == [libs[Len(libs)] EXCEPT !.path = popover.music, !.data = data]
           ss == WithSlot(Slot(lib, None))
       IN  /\ ChangeLibraries(libs)
           /\ slots' = ss /\ pictures' = Append(pictures, Picture(lib))
           /\ cards' = Cards(libs, ss)
           /\ since' = since \cup (IF lib.path \in mounted THEN {} ELSE {"changed"})
                             \cup (IF added = libraries THEN {"twice"} ELSE {})
    /\ popover' = None
    /\ UNCHANGED <<mounted, prev_available>>

\* on_add_cancel and on_add_popover_closed
ClosePopover ==
    /\ popover # None /\ popover' = None
    /\ UNCHANGED <<settingsVars, slots, pictures, cards, mounted, prev_available, since>>

\* A folder was added a second time (libraries_view.c:772).
Once == "twice" \notin since

\* What comes after a folder was added a second time is not followed.
Next ==
    /\ Once
    /\ \/ StartUp \/ Shutdown \/ Save \/ MonitorCheck
       \/ \E f \in Folders : Mount(f) \/ SelectMusic(f)
       \/ \E c \in DOMAIN cards :
             \/ RemoveLibrary(c)
             \/ \E d \in DOMAIN cards : MoveLibrary(c, d)
             \/ \E presses \in {1, 2} : PressLock(c, presses)
             \/ \E name \in Names \cup {None} : Rename(c, name)
             \/ \E flag \in Flags : ToggleIntegration(c, flag)
       \/ OpenPopover \/ ClosePopover
       \/ \E kind \in {"local", "usb", "network"} : SelectKind(kind)
       \/ \E f \in IndexFolders : SelectData(f)
       \/ \E flag \in Flags \ {-1} : ConfirmAdd(flag)

Spec == Init /\ [][Next]_vars

-----------------------------------------------------------------------------
(* Properties *)

\* Every library of the settings has one slot in the cache and one in the artwork manager, under an
\* index of its own, with the folder and the data root that the settings give it, and there are no
\* others; whatever was added, removed and moved before, and over restarts.
SlotsFollow ==
    running /\ Once =>
        /\ Len(slots) = Len(libraries) /\ Len(pictures) = Len(libraries)
        /\ \A k \in DOMAIN libraries :
             LET lib == libraries[k]
             IN  /\ \A m \in DOMAIN libraries : m # k => libraries[m].index # lib.index
                 /\ \E s \in DOMAIN slots : /\ slots[s].index = lib.index
                                            /\ slots[s].path = lib.path
                                            /\ slots[s].data = DataRoot(lib)
                                            /\ slots[s].name \in {None, DisplayName(lib)}
                 /\ \E s \in DOMAIN pictures : pictures[s] = Picture(lib)

\* The cache takes a library for available exactly when its folder was there at the last check,
\* although the monitor remembers by position and the cache goes by the index.  Not promised when a
\* library was removed or moved and a folder came or went between the same two checks
\* (library_monitor.c:63).
AvailabilityFollows ==
    running /\ Once /\ since \cap {"changed", "lost"} = {} =>
        \A k \in DOMAIN libraries :
            Available(slots, libraries[k].index) <=> libraries[k].path \in mounted

\* A card shows the library that its buttons act on, locked and available as it is.
CardsFollow ==
    running /\ Once => cards = Cards(libraries, slots)

RegistrySound == SlotsFollow /\ AvailabilityFollows /\ CardsFollow /\ SettingsKept
=============================================================================

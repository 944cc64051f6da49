----------------------------- MODULE MCChannels -----------------------------
(***************************************************************************)
(* The two ends of a channel for TLC: the decode cache with one track, all *)
(* of whose races are followed (AudioCache), and what the operator has in  *)
(* front of him: a strip (ChannelStrip) and the controls on it             *)
(* (StripControls).  The three have no state in common and a behaviour     *)
(* follows one of them, the `part' it begins with.                         *)
(***************************************************************************)
EXTENDS AudioCache, TLC

BufferSymmetry == Permutations(Buffers)

CONSTANTS
    Channels, Followed,     \* the strips of the window, and those whose players do anything
    LastTrack, Undecodable  \* an album, and its tracks that cannot be decoded

ASSUME StripsAssumption == LastTrack \in Nat \ {0} /\ Followed \subseteq Channels
                           /\ NoBuffer \notin Channels

VARIABLES part,
    channels, focused_channel, update_tick,     \* of ChannelStrip
    strip, player, missed, lost, moved_on       \* of StripControls

strips   == <<channels, focused_channel, update_tick>>
controls == <<strip, player, missed, lost, moved_on>>

Strips == INSTANCE ChannelStrip WITH None <- NoBuffer
Controls == INSTANCE StripControls

\* Only the part that is followed begins in each of its initial states.
PartsInit ==
    /\ part \in {"cache", "strips", "controls"}
    /\ Init /\ Strips!Init /\ Controls!Init
    /\ part # "strips" => \A c \in Channels : channels[c].active

PartsNext ==
    \/ part = "cache" /\ Next /\ UNCHANGED <<part, strips, controls>>
    \/ part = "strips" /\ Strips!Next /\ UNCHANGED <<part, vars, controls>>
    \/ part = "controls" /\ Controls!Next /\ UNCHANGED <<part, vars, strips>>

PartsSpec == PartsInit /\ [][PartsNext]_<<part, vars, strips, controls>>

\* What a strip shows follows what it is about: its buttons and its track the player and the mode,
\* the focus the window, its seeks and its speed the track that plays (the conjuncts are stated in
\* ChannelStrip and StripControls).
ChannelsFollow ==
    /\ part = "strips" => Strips!StripsSound
    /\ part = "controls" => Controls!ControlsSound
=============================================================================

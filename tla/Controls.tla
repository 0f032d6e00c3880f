------------------------------- MODULE Controls --------------------------------
(***************************************************************************)
(* Everything on the deck that looks at the world outside it or acts on    *)
(* it, side by side: the tiles of Glances, and the keys that act on the    *)
(* Mac.  They share nothing but the coordinator that handles their events  *)
(* one at a time, so a behaviour is about one of them, its subject.        *)
(***************************************************************************)
EXTENDS Glances, Mixer, Players, Media, Foreground, AmbientLight

Actors == {"mixer", "players", "wispr", "media", "foreground", "light"}

ASSUME ControlsAssumption == Subjects \subseteq Integrations \cup Actors

\* What is not the subject stays as it is, so one of its initial states will do.
ControlsInit ==
    /\ GlancesInit
    /\ MixerInit /\ (subject # "mixer" => native)
    /\ PlayersInit /\ (subject # "players" => spotify.song = CHOOSE s \in DOMAIN Songs : TRUE)
    /\ WisprInit
    /\ MediaInit /\ (subject # "media" => scene = CHOOSE s \in Scenes : TRUE)
    /\ ForegroundInit
    /\ LightInit
    /\ subject # "light" => filtered = None /\ settings = CHOOSE c \in LightConfigs : TRUE

ControlsNext ==
    \/ /\ subject \in Integrations
       /\ GlancesNext
       /\ UNCHANGED << mixer, players, wispr, media, foreground, ambient >>
    \/ /\ subject = "mixer"
       /\ MixerNext
       /\ UNCHANGED << glances, players, wispr, media, foreground, ambient >>
    \/ /\ subject = "players"
       /\ PlayersNext
       /\ UNCHANGED << glances, mixer, wispr, media, foreground, ambient >>
    \/ /\ subject = "wispr"
       /\ WisprNext
       /\ UNCHANGED << glances, mixer, players, media, foreground, ambient >>
    \/ /\ subject = "media"
       /\ MediaNext
       /\ UNCHANGED << glances, mixer, players, wispr, foreground, ambient >>
    \/ /\ subject = "foreground"
       /\ ForegroundNext
       /\ UNCHANGED << glances, mixer, players, wispr, media, ambient >>
    \/ /\ subject = "light"
       /\ LightNext
       /\ UNCHANGED << glances, mixer, players, wispr, media, foreground >>

deckControls == << glances, mixer, players, wispr, media, foreground, ambient >>

ControlsSpec == ControlsInit /\ [][ControlsNext]_deckControls

-----------------------------------------------------------------------------
\* A press does what its key said.  An audio key chooses a device that its target
\* names and no other; a key for an application acts on the one that it named, and
\* the recent ones are in order; a volume key of Spotify moves the level on its tile;
\* and the media tile names an owner only if there is but one it can be.
PressesHitTheirTarget ==
    /\ SelectionsAreMeant
    /\ ForegroundIsMeant
    /\ StepsAreFromTheTile
    /\ OwnerIsNotGuessed

\* What comes back late is filed where it belongs: covers under their tracks, and the
\* outcome of a toggle in the flag that it turned.
OutcomesAreFiled == CoversAreFiled /\ FlagIsTold

=============================================================================

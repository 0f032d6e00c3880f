----------------------------- MODULE AmbientLight -----------------------------
(***************************************************************************)
(* The brightness of the deck follows the light of the room: a thread of   *)
(* its own reads the sensor (ambient.rs of streamdeck-macos, the monitor   *)
(* of main.rs), the coordinator smooths what it reads and writes to the    *)
(* deck (`AmbientBrightnessController` of runtime/mod.rs); a reload may    *)
(* change the limits, and the deck may go away and come back.              *)
(*                                                                         *)
(* Levels are counted in hundredths of a percent where the code has        *)
(* floating point; Curve is the logarithm of `brightness_for_lux`, in      *)
(* thousandths.                                                            *)
(***************************************************************************)
EXTENDS Tiles

CONSTANTS
    Curve(_),      \* how bright a lux value is, 0..1000
    LightConfigs,  \* the configurations: [enabled, minimum, maximum, brightness]
    Readings,      \* what the sensor may say; below 0 is no reading
    MaxReadings,   \* bound
    MaxUnplugs     \* bound

ASSUME LightAssumption ==
    /\ \A c \in LightConfigs : /\ {c.minimum, c.maximum, c.brightness} \subseteq 10..100
                               /\ c.minimum < c.maximum /\ c.enabled \in BOOLEAN
    /\ Readings \subseteq Int /\ None \notin Int
    /\ \A top \in Readings : \A lux \in 0..top : Curve(lux) \in 0..1000
    /\ \A a, b \in Readings : a <= b => Curve(a) <= Curve(b)
    /\ {MaxReadings, MaxUnplugs} \subseteq Nat

VARIABLES
    settings,   \* the configuration in force
    filtered,   \* the smoothed lux, or None
    applied,    \* the brightness that the light called for last, or None
    sensor,     \* the monitor's sensor: "registry", "hid" or None
    light,      \* the readings on their way to the coordinator
    deck,       \* "new", "attached", "unplugged" and not noticed yet, or "gone"
    glass,      \* auxiliary: the brightness that the deck has
    accepted,   \* auxiliary: the last write of the brightness went through
    lightCounts \* the bounded counters

ambient == << settings, filtered, applied, sensor, light, deck, glass, accepted, lightCounts >>

-----------------------------------------------------------------------------
(* The controller.                                                          *)

\* In hundredths of a percent.
brightness_for_lux(c, lux) == 100 * c.minimum + (Curve(lux) * (c.maximum - c.minimum)) \div 10

Step == 500
Hysteresis == 400

quantize_brightness(value, c) ==
    LET stepped == 5 * ((2 * value + Step) \div (2 * Step))
    IN  IF value <= 100 * c.minimum \/ stepped < c.minimum THEN c.minimum
        ELSE IF value >= 100 * c.maximum \/ stepped > c.maximum THEN c.maximum
        ELSE stepped

Smoothed(lux) == IF filtered = None THEN lux ELSE (3 * filtered + lux) \div 4

Distance(value, level) ==
    IF value > 100 * level THEN value - 100 * level ELSE 100 * level - value

\* What the brightness becomes when the light is this, or None to let it be.
Changed(c, lux) ==
    LET continuous == brightness_for_lux(c, lux)
        target == quantize_brightness(continuous, c)
    IN  IF c.enabled /\ (applied = None
                         \/ (target # applied /\ Distance(continuous, applied) >= Hysteresis))
          THEN target
          ELSE None

\* Mutant: a reload keeps the brightness that the old limits called for.
FaultyReconfigured(c) == applied

Reconfigured(c) ==
    IF c.enabled /\ filtered # None
      THEN quantize_brightness(brightness_for_lux(c, filtered), c)
      ELSE None

effective_brightness(c, level) == IF c.enabled /\ level # None THEN level ELSE c.brightness

\* A write that is refused is a line in the log, and no more.
SetDeckBrightness(level) ==
    CASE deck = "gone" -> UNCHANGED << deck, glass, accepted >>
      [] deck = "unplugged" -> deck' = "unplugged" /\ accepted' = FALSE /\ UNCHANGED glass
      [] OTHER -> /\ deck' = "attached"
                  /\ \/ glass' = level /\ accepted' = TRUE
                     \/ UNCHANGED glass /\ accepted' = FALSE

-----------------------------------------------------------------------------
\* `with_ambient_lux`: a first reading, if there is a sensor.
LightInit ==
    /\ settings \in LightConfigs
    /\ filtered \in {r \in Readings : r >= 0} \cup {None}
    /\ applied = IF filtered = None \/ ~settings.enabled
                   THEN None
                   ELSE quantize_brightness(brightness_for_lux(settings, filtered), settings)
    /\ sensor = None
    /\ light = << >>
    /\ deck = "new"
    /\ glass = None
    /\ accepted = FALSE
    /\ lightCounts = [readings |-> 0, unplugs |-> 0]

StartDeck ==
    /\ deck = "new"
    /\ SetDeckBrightness(effective_brightness(settings, applied))
    /\ UNCHANGED << settings, filtered, applied, sensor, light, lightCounts >>

\* The sensor of the registry is preferred; there may be none.
OpenSensor == IF sensor # None THEN {sensor} ELSE {"registry", "hid", None}

\* One turn of the monitor's loop.  A reading that fails, or makes no sense, closes
\* the sensor.
MonitorPolls ==
    /\ lightCounts.readings < MaxReadings
    /\ \E opened \in OpenSensor : \E lux \in Readings \cup {None} :
        IF opened = None \/ lux = None \/ lux < 0
          THEN /\ sensor' = None
               /\ UNCHANGED << light, lightCounts >>
          ELSE /\ sensor' = opened
               /\ light' = Append(light, lux)
               /\ lightCounts' = [lightCounts EXCEPT !.readings = @ + 1]
    /\ UNCHANGED << settings, filtered, applied, deck, glass, accepted >>

\* Nothing is handled before the deck has been started.
LightArrives ==
    /\ light # << >> /\ deck # "new"
    /\ light' = Tail(light)
    /\ filtered' = Smoothed(Head(light))
    /\ LET level == Changed(settings, filtered')
       IN  IF level = None
             THEN UNCHANGED << applied, deck, glass, accepted >>
             ELSE applied' = level /\ SetDeckBrightness(level)
    /\ UNCHANGED << settings, sensor, lightCounts >>

\* A file that is not valid changes nothing.
ReloadLight ==
    /\ deck # "new"
    /\ settings' \in LightConfigs \ {settings}
    /\ applied' = Reconfigured(settings')
    /\ SetDeckBrightness(effective_brightness(settings', applied'))
    /\ UNCHANGED << filtered, sensor, light, lightCounts >>

DeckUnplugged ==
    /\ deck = "attached"
    /\ lightCounts.unplugs < MaxUnplugs
    /\ deck' = "unplugged"
    /\ accepted' = FALSE
    /\ lightCounts' = [lightCounts EXCEPT !.unplugs = @ + 1]
    /\ UNCHANGED << settings, filtered, applied, sensor, light, glass >>

DeckDisconnected ==
    /\ deck = "unplugged"
    /\ deck' = "gone"
    /\ UNCHANGED << settings, filtered, applied, sensor, light, glass, accepted, lightCounts >>

\* A deck that comes back has the brightness it was made with.
DeckReconnected ==
    /\ deck = "gone"
    /\ deck' = "attached"
    /\ LET level == effective_brightness(settings, applied)
       IN  \/ glass' = level /\ accepted' = TRUE
           \/ glass' = None /\ accepted' = FALSE
    /\ UNCHANGED << settings, filtered, applied, sensor, light, lightCounts >>

LightNext ==
    \/ StartDeck
    \/ MonitorPolls
    \/ LightArrives
    \/ ReloadLight
    \/ DeckUnplugged
    \/ DeckDisconnected
    \/ DeckReconnected

-----------------------------------------------------------------------------
(***************************************************************************)
(* The brightness follows the light, across reloads and reconnections:     *)
(* once the light is known the deck is within the limits in force, and     *)
(* less than the hysteresis away from what the light calls for; and the    *)
(* deck shows the brightness in force, unless its last write was refused.  *)
(* (`observe`, `reconfigure`, `effective_brightness`,                      *)
(* `set_deck_brightness`.)                                                 *)
(***************************************************************************)
BrightnessFollows ==
    LET level == effective_brightness(settings, applied)
    IN  /\ settings.enabled /\ filtered # None =>
                /\ settings.minimum <= level /\ level <= settings.maximum
                /\ Distance(brightness_for_lux(settings, filtered), level) < Hysteresis
        /\ deck = "attached" /\ accepted => glass = level

=============================================================================

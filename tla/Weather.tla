-------------------------------- MODULE Weather --------------------------------
(***************************************************************************)
(* A site's weather (sim/weather.rs): one sky in a slot that make-weather   *)
(* fills and a reset empties, random clouds that each physics tick lets     *)
(* arrive, scripted ones, and partial updates from Lisp and from HTTP,      *)
(* which read the settings, fold a patch over them and write them all back  *)
(* under a second taking of the lock (lisp/defuns/weather.rs,               *)
(* ui/handlers/weather.rs).                                                 *)
(*                                                                         *)
(* A cloud is its span of time, and the settings are the day's window and   *)
(* whether random clouds are on.  How deep a cloud is and how it ramps is   *)
(* left out; a gap between two random clouds may be any time at all.        *)
(***************************************************************************)
EXTENDS Integers

CONSTANTS
    Hour,           \* how long an ended cloud is kept, and the longest lag
    Lengths,        \* how long a cloud lasts
    Patches,        \* settings a partial update carries
    MaxTime,        \* bounds of the model: time,
    MaxTurns        \* and how often the interpreter and the posts act

VARIABLES
    now,            \* the clock physics ticks by
    sky,            \* the slot, NoSky when it is empty
    door,           \* what the interpreter and a POST are doing
    passed,         \* all clouds this sky ever had (history)
    turns
weatherVars == <<now, sky, door, passed, turns>>

Settings == [sunrise : Int, sunset : Int, clouds : BOOLEAN]

ASSUME WeatherAssumption ==
    /\ Hour \in Nat /\ Lengths \subseteq Nat \ {0} /\ MaxTime \in Nat /\ MaxTurns \in Nat
    /\ \A patch \in Patches :
        /\ DOMAIN patch \subseteq {"sunrise", "sunset", "clouds"}
        /\ \A f \in DOMAIN patch : patch[f] \in IF f = "clouds" THEN BOOLEAN ELSE Int

-----------------------------------------------------------------------------
SkyDoors == {"lisp", "post"}
NoSky == [there |-> FALSE]
Never == -1                             \* no anchor, no arrival pending

Defaults == [sunrise |-> 1, sunset |-> 4, clouds |-> FALSE]
New(settings) ==
    [there |-> TRUE, settings |-> settings, events |-> {},
     anchor |-> Never, arrival |-> Never]

\* The patch over settings, and its check: the window as the pair it makes.
Patched(settings, patch) ==
    [f \in DOMAIN settings |-> IF f \in DOMAIN patch THEN patch[f] ELSE settings[f]]
DayHasLength(settings) == settings.sunrise < settings.sunset

Cloud(start, length) == [start |-> start, end |-> start + length]
Resting == [at |-> "idle"]

WeatherInit ==
    /\ now = 1
    /\ sky = NoSky
    /\ door = [d \in SkyDoors |-> Resting]
    /\ passed = {}
    /\ turns = 0

-----------------------------------------------------------------------------
(* A physics tick: Weather::advance.                                        *)

\* The random clouds that come after base and up to time t: the pending one
\* first, or one drawn now; any times after it; and one pending again.
Times(first, t) ==
    {[came |-> A, next |-> n] : A \in {A \in SUBSET (first..t) : first \in A}, n \in {t + 1, t + 2}}
Came(arrival, base, t) ==
    LET firsts == IF arrival = Never THEN {base + 1, t + 1, t + 2} ELSE {arrival}
    IN  UNION {IF first > t THEN {[came |-> {}, next |-> first]} ELSE Times(first, t) :
                  first \in firsts}

\* With random clouds off, none is pending either.
WithoutClouds(s) == {[came |-> {}, next |-> Never]}

Arrivals(s, t) ==
    LET leaps == s.anchor # Never /\ t - s.anchor > Hour
        base  == IF s.anchor = Never \/ leaps THEN t ELSE s.anchor
    IN  IF s.settings.clouds THEN Came(IF leaps THEN Never ELSE s.arrival, base, t)
        ELSE WithoutClouds(s)

\* A cloud is kept for an hour after its end.
Remembered(events, t) == {e \in events : e.end + Hour >= t}

\* Nothing moves on a clock that stepped back behind the last tick.
Advance(t) ==
    IF ~sky.there \/ t < sky.anchor THEN UNCHANGED <<sky, passed>>
    ELSE \E a \in Arrivals(sky, t) : \E length \in [a.came -> Lengths] :
            LET come == {Cloud(start, length[start]) : start \in a.came} IN
            /\ sky' = [sky EXCEPT !.events = Remembered(@ \cup come, t),
                                  !.anchor = t, !.arrival = a.next]
            /\ passed' = passed \cup come

Tick(t) ==
    /\ t \in 1..MaxTime
    /\ now' = t
    /\ Advance(t)
    /\ UNCHANGED <<door, turns>>

-----------------------------------------------------------------------------
(* The interpreter: make-weather, pass-cloud, a reset.                      *)

\* What writes a sky's settings crosses the requests that have read them.
Crossed(d) ==
    [e \in SkyDoors |-> IF e # d /\ door[e].at = "read" THEN [door[e] EXCEPT !.crossed = TRUE]
                     ELSE door[e]]
Turn == turns < MaxTurns /\ turns' = turns + 1

MakeWeather(patch) ==
    /\ Turn /\ door["lisp"] = Resting
    /\ DayHasLength(Patched(Defaults, patch))
    /\ sky' = New(Patched(Defaults, patch)) /\ passed' = {}
    /\ door' = Crossed("lisp")
    /\ UNCHANGED now

Reset ==
    /\ Turn /\ door["lisp"] = Resting
    /\ sky' = NoSky /\ passed' = {}
    /\ door' = Crossed("lisp")
    /\ UNCHANGED now

\* A scripted cloud starts at the last tick's time.
Overhead(length) == Cloud(IF sky.anchor = Never THEN now ELSE sky.anchor, length)
Pass(length) ==
    IF sky.there
    THEN /\ sky' = [sky EXCEPT !.events = @ \cup {Overhead(length)}]
         /\ passed' = passed \cup {Overhead(length)}
    ELSE UNCHANGED <<sky, passed>>

PassCloud(length) ==
    /\ Turn /\ door["lisp"] = Resting
    /\ sky.there
    /\ Pass(length)
    /\ UNCHANGED <<now, door>>

-----------------------------------------------------------------------------
(* A partial update: set-weather, which may carry a seed, or a POST, which  *)
(* may carry a cloud; the reading decides all that follows.                 *)

ReadSky(d, patch, seed, cloud) ==
    /\ Turn /\ door[d] = Resting
    /\ d = "lisp" => cloud = 0
    /\ d = "post" => ~seed
    /\ ~sky.there /\ DOMAIN patch = {} => cloud = 0
    /\ LET settings == IF sky.there THEN sky.settings ELSE Defaults IN
       /\ DayHasLength(Patched(settings, patch))
       /\ door' = [door EXCEPT ![d] =
              [at |-> "read", existed |-> sky.there, settings |-> settings, patch |-> patch,
               seed |-> seed, cloud |-> cloud, crossed |-> FALSE]]
    /\ UNCHANGED <<now, sky, passed>>

\* The settings an update writes: all of them, as it read and patched them;
\* only its own, over what is there by now, in a mutant.
InstalledOverLive(r) == Patched(IF sky.there THEN sky.settings ELSE r.settings, r.patch)
Installed(r) == Patched(r.settings, r.patch)

\* Whether there was a sky is known from the reading, not asked again.
Creates(r) == ~r.existed

\* A sky that was not there is made; one that was is changed if it still is.
Install(d) ==
    LET r == door[d] IN
    /\ r.at = "read"
    /\ IF Creates(r) \/ (sky.there /\ r.seed)
       THEN sky' = New(Installed(r)) /\ passed' = {}
       ELSE /\ sky' = IF sky.there THEN [sky EXCEPT !.settings = Installed(r)] ELSE sky
            /\ UNCHANGED passed
    /\ door' = [Crossed(d) EXCEPT ![d] =
                   IF d = "lisp" THEN Resting ELSE [at |-> "installed", cloud |-> r.cloud]]
    /\ UNCHANGED <<now, turns>>

PostCloud ==
    /\ door["post"].at = "installed"
    /\ IF door["post"].cloud = 0 THEN UNCHANGED <<sky, passed>> ELSE Pass(door["post"].cloud)
    /\ door' = [door EXCEPT !["post"] = [at |-> "answering"]]
    /\ UNCHANGED <<now, turns>>

\* 200 with the sky there is now, or 409 when there is none.
Answer ==
    /\ door["post"].at = "answering"
    /\ door' = [door EXCEPT !["post"] = Resting]
    /\ UNCHANGED <<now, sky, passed, turns>>

WeatherNext ==
    \/ \E t \in {now - 1, now + 1, now + Hour + 1} : Tick(t)
    \/ \E patch \in Patches : MakeWeather(patch)
    \/ Reset
    \/ \E length \in Lengths : PassCloud(length)
    \/ \E d \in SkyDoors, patch \in Patches, seed \in BOOLEAN, cloud \in {0} \cup Lengths :
           ReadSky(d, patch, seed, cloud)
    \/ \E d \in SkyDoors : Install(d)
    \/ PostCloud \/ Answer

WeatherSpec == WeatherInit /\ [][WeatherNext]_weatherVars

-----------------------------------------------------------------------------
\* The day has a length, whoever wrote its two ends; a cloud that was overhead
\* at the time an array looks back to, an hour at most, is still known; and the
\* random cloud that is pending lies ahead (weather.rs: sunrise_before_sunset,
\* MAX_LAG_S, advance).
SkyIsSound ==
    sky.there =>
        /\ DayHasLength(sky.settings)
        /\ sky.anchor # Never =>
             /\ \A e \in passed, lag \in 0..Hour :
                    e.start <= sky.anchor - lag /\ sky.anchor - lag < e.end => e \in sky.events
             /\ sky.arrival # Never => sky.arrival > sky.anchor

\* No tick brings a cloud from before the tick before it, whatever was switched
\* off and on or leapt over in between (advance).
CloudsComeInTime ==
    [][now' # now => \A e \in passed' \ passed :
           sky.anchor # Never /\ sky.anchor < e.start /\ e.start <= now']_weatherVars

\* An update only moves settings it does not carry if somebody wrote them since
\* it read, and never fills a slot it had seen a sky in (install_over).
UpdatesArePartial ==
    [][\A d \in SkyDoors : door[d].at = "read" /\ door'[d].at # "read" =>
           /\ door[d].existed /\ ~sky.there => ~sky'.there
           /\ sky.there /\ sky'.there /\ ~door[d].crossed =>
                  \A f \in DOMAIN sky.settings \ DOMAIN door[d].patch :
                      sky'.settings[f] = sky.settings[f]]_weatherVars

-----------------------------------------------------------------------------
(* The inductive invariant behind them.                                     *)

Clouds == [start : Nat, end : Nat]

Sky ==
    [there : {TRUE}, settings : Settings, events : SUBSET Clouds,
     anchor : Nat \cup {Never}, arrival : Nat \cup {Never}]

Updating ==
    [at : {"read"}, existed : BOOLEAN, settings : Settings, patch : Patches, seed : BOOLEAN,
     cloud : {0} \cup Lengths, crossed : BOOLEAN]

WeatherTypeOK ==
    /\ now \in Nat /\ turns \in Nat
    /\ sky \in Sky \cup {NoSky}
    /\ passed \subseteq Clouds
    /\ door \in [SkyDoors -> {Resting, [at |-> "answering"]} \cup Updating
                               \cup [at : {"installed"}, cloud : {0} \cup Lengths]]

Remains(e, s) == e \in s.events \/ (s.anchor # Never /\ e.end + Hour < s.anchor)

\* Every cloud is known until an hour after its end, as of the last tick, and
\* before the first tick none is forgotten.
CloudsAreKnown == sky.there => \A e \in passed : Remains(e, sky)

\* What is pending lies ahead, and nothing is before the first tick.
ArrivalIsAhead ==
    sky.there /\ sky.arrival # Never => sky.anchor # Never /\ sky.anchor < sky.arrival

\* An update that nobody crossed read what is there now, and what it will
\* write has a day.
Stands(r, s) ==
    /\ DayHasLength(Installed(r))
    /\ ~r.crossed => (r.existed <=> s.there) /\ (s.there => r.settings = s.settings)

ReadingsStand == \A d \in SkyDoors : door[d].at = "read" => Stands(door[d], sky)

DaysHaveLength == sky.there => DayHasLength(sky.settings)

WeatherIInv ==
    /\ WeatherTypeOK /\ CloudsAreKnown /\ ArrivalIsAhead /\ ReadingsStand /\ DaysHaveLength

\* All of them at once, for as long as a site has a weather.
WeatherIsSound == [](WeatherTypeOK /\ SkyIsSound) /\ CloudsComeInTime /\ UpdatesArePartial
=============================================================================

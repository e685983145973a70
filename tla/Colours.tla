------------------------------ MODULE Colours ------------------------------
(***************************************************************************)
(* registry/color_registry.go: the colours of levels and of fields.  A     *)
(* level below 256 has a slot in two arrays, of which the dark scheme      *)
(* reads the second; others are in a map under the text of the level.      *)
(* Every change holds the lock.  GetColor reads the arrays without it: one *)
(* that overlaps a change is a data race and may return anything; the      *)
(* model is about the others, which return Colour of the state they find.  *)
(***************************************************************************)
EXTENDS Integers, Sequences, FiniteSets, SequencesExt

CONSTANTS ColourLevels,  \* levels, numbers
          Ansi,          \* colours that are set
          Fields,        \* fields: the level whose text is their name, if there is one
          ColourConfigs, \* arguments of ConfigureColorsFromConfig: [enabled, scheme, custom]
          MaxColourOps   \* bound: changes

\* DebugLevel to FatalLevel, which have a colour in every scheme.
Standard == 1 .. 5
Schemes == {"default", "dark", "light", "custom"}
NoColour == ""
Unset == "none"

ASSUME ColoursAssumption ==
    /\ ColourLevels \subseteq Nat
    /\ \A cfg \in ColourConfigs :
          /\ cfg.scheme \in Schemes \union {Unset}
          /\ IsFiniteSet(cfg.custom) /\ \A x \in cfg.custom : x.level \in ColourLevels /\ x.colour \in Ansi

VARIABLES slots,     \* levelColors
          slots256,  \* levelColors256
          custom,    \* customColors, NoColour for a key that is not there
          byID,      \* fieldColorsByID, likewise
          scheme, enabled,
          changes    \* history: the changes, in order

colourVars == <<slots, slots256, custom, byID, scheme, enabled, changes>>

InArray == {l \in ColourLevels : l < 256}

\* levelToString: the character '0' + level, and one text for all that are none.
LevelKey(l) == IF 48 + l > 1114111 \/ 48 + l \in 55296 .. 57343 THEN -1 ELSE l

TextKeys == {LevelKey(l) : l \in ColourLevels} \union Fields

\* The registry as a record, so that changes compose.
Reg(sl, sl256, cs, ids, sch, on) ==
    [slots |-> sl, slots256 |-> sl256, custom |-> cs, byID |-> ids, scheme |-> sch, enabled |-> on]
Registry == Reg(slots, slots256, custom, byID, scheme, enabled)

\* An array with a scheme's colours, which go by its name; other levels keep theirs.
Painted(array, s) == [l \in InArray |-> IF l \in Standard THEN s ELSE array[l]]

\* initializeDefaultColors.
Defaults(r) ==
    Reg(Painted(r.slots, "default"), Painted(r.slots256, "dark"), r.custom, r.byID, r.scheme, r.enabled)

ColoursInit ==
    /\ slots = Painted([l \in InArray |-> NoColour], "default")
    /\ slots256 = Painted([l \in InArray |-> NoColour], "dark")
    /\ custom = [k \in TextKeys |-> NoColour] /\ byID = [f \in Fields |-> NoColour]
    /\ scheme = "default" /\ enabled = TRUE
    /\ changes = <<>>

\* getCustomColor and GetColor.
Colour(l) ==
    CASE ~enabled -> NoColour
      [] enabled /\ l < 256 -> IF scheme = "dark" THEN slots256[l] ELSE slots[l]
      [] enabled /\ l >= 256 -> custom[LevelKey(l)]

-----------------------------------------------------------------------------
\* Mutant: only the array of the default scheme is set.
ColorSetOnce(r, l, c) ==
    IF l < 256 THEN Reg([r.slots EXCEPT ![l] = c], r.slots256, r.custom, r.byID, r.scheme, r.enabled)
    ELSE Reg(r.slots, r.slots256, [r.custom EXCEPT ![LevelKey(l)] = c], r.byID, r.scheme, r.enabled)

ColorSet(r, l, c) ==
    IF l < 256
    THEN Reg([r.slots EXCEPT ![l] = c], [r.slots256 EXCEPT ![l] = c], r.custom, r.byID, r.scheme, r.enabled)
    ELSE Reg(r.slots, r.slots256, [r.custom EXCEPT ![LevelKey(l)] = c], r.byID, r.scheme, r.enabled)

\* SetColorScheme: dark and light overwrite the first array; an unknown scheme nothing.
SchemeSet(r, s) ==
    LET d == Defaults(r)
    IN  CASE s = "default" -> Reg(d.slots, d.slots256, r.custom, r.byID, s, r.enabled)
          [] s \in {"dark", "light"} -> Reg(Painted(r.slots, s), r.slots256, r.custom, r.byID, s, r.enabled)
          [] s = "custom" -> Reg(r.slots, r.slots256, r.custom, r.byID, s, r.enabled)

\* Enable and Disable.
Switched(r, on) == Reg(r.slots, r.slots256, r.custom, r.byID, r.scheme, on)

\* Reset; the colours of field ids stay.
Cleared(r) ==
    LET d == Defaults(r)
    IN  Reg(d.slots, d.slots256, [k \in TextKeys |-> NoColour], r.byID, "default", TRUE)

\* RegisterFromConfig and RegisterFromConfigWithIDs; an unknown colour is skipped.
FieldNamed(r, f, c) ==
    IF c = NoColour THEN r
    ELSE Reg(r.slots, r.slots256, [r.custom EXCEPT ![f] = c], r.byID, r.scheme, r.enabled)
FieldNumbered(r, f, c) ==
    IF c = NoColour THEN r
    ELSE Reg(r.slots, r.slots256, r.custom, [r.byID EXCEPT ![f] = c], r.scheme, r.enabled)

Effect(r, c) ==
    CASE c.op = "set" -> ColorSet(r, c.level, c.colour)
      [] c.op = "scheme" -> SchemeSet(r, c.scheme)
      [] c.op = "switch" -> Switched(r, c.on)
      [] c.op = "reset" -> Cleared(r)
      [] c.op = "field" -> FieldNamed(r, c.field, c.colour)
      [] c.op = "id" -> FieldNumbered(r, c.field, c.colour)

Do(cs) ==
    LET r == FoldLeft(Effect, Registry, cs)
    IN  /\ Len(changes) + Len(cs) <= MaxColourOps
        /\ changes' = changes \o cs
        /\ slots' = r.slots /\ slots256' = r.slots256 /\ custom' = r.custom /\ byID' = r.byID
        /\ scheme' = r.scheme /\ enabled' = r.enabled

ColourSet(l, c) == [op |-> "set", level |-> l, colour |-> c]

SetColor == \E l \in ColourLevels, c \in Ansi : Do(<<ColourSet(l, c)>>)

SetColorScheme == \E s \in Schemes : Do(<<[op |-> "scheme", scheme |-> s]>>)

Switch == \E b \in BOOLEAN : Do(<<[op |-> "switch", on |-> b]>>)

ResetColours == Do(<<[op |-> "reset"]>>)

\* ConfigureColorsFromConfig: the switch, the scheme, then the colours in the order
\* the map is ranged over, which is any; a text that names no standard level is skipped.
ConfigureColors ==
    \E cfg \in ColourConfigs : \E order \in SetToSeqs({x \in cfg.custom : x.level \in Standard}) :
       Do((IF cfg.enabled = Unset THEN <<>> ELSE <<[op |-> "switch", on |-> cfg.enabled = "true"]>>)
          \o (IF cfg.scheme = Unset THEN <<>> ELSE <<[op |-> "scheme", scheme |-> cfg.scheme]>>)
          \o [i \in DOMAIN order |-> ColourSet(order[i].level, order[i].colour)])

\* One field of the map it is given.
RegisterFieldColours == \E f \in Fields, c \in Ansi \union {NoColour}, by \in {"field", "id"} :
    Do(<<[op |-> by, field |-> f, colour |-> c]>>)

ColoursNext ==
    \/ SetColor \/ SetColorScheme \/ Switch \/ ResetColours \/ ConfigureColors \/ RegisterFieldColours

-----------------------------------------------------------------------------
\* The last of some changes, 0 if there is none.
Latest(who) == IF who = {} THEN 0 ELSE CHOOSE i \in who : \A j \in who : j <= i

\* A change gives a level its colour; it takes the colours from the array of a scheme.
Gives(c, l) ==
    \/ c.op = "set" /\ LevelKey(c.level) = LevelKey(l)
    \/ l >= 256 /\ c.op = "field" /\ c.field = LevelKey(l) /\ c.colour # NoColour
Repaints(c, s) ==
    \/ c.op = "reset"
    \/ c.op = "scheme" /\ (c.scheme = "default" \/ (c.scheme \in {"dark", "light"} /\ s # "dark"))

\* What GetColor says after any sequence of changes.  A standard level has the
\* colour set for it last, unless the scheme was changed since: default and Reset
\* take it away, dark and light too, but going dark keeps it, whenever it was set.
\* A level without a slot shares its colour with the field of that name and loses
\* it to Reset alone, and a field's colour by id is the last that was registered
\* (color_registry.go GetColor, GetColorByFieldID).
ColoursAsConfigured ==
    /\ \A l \in ColourLevels : enabled =>
          LET set == Latest({i \in DOMAIN changes : Gives(changes[i], l)})
              taken == Latest({i \in DOMAIN changes : Repaints(changes[i], scheme)})
              reset == Latest({i \in DOMAIN changes : changes[i].op = "reset"})
          IN  Colour(l) =
                 CASE l \in Standard ->
                        IF set > taken THEN changes[set].colour
                        ELSE IF scheme = "dark" THEN "dark"
                        ELSE IF taken = 0 \/ changes[taken].op = "reset" THEN "default"
                        ELSE changes[taken].scheme
                   [] l \notin Standard /\ l < 256 -> IF set > 0 THEN changes[set].colour ELSE NoColour
                   [] l >= 256 -> IF set > reset THEN changes[set].colour ELSE NoColour
    /\ \A f \in Fields :
          LET last == Latest({i \in DOMAIN changes :
                                 changes[i].op = "id" /\ changes[i].field = f /\ changes[i].colour # NoColour})
          IN  byID[f] = IF last > 0 THEN changes[last].colour ELSE NoColour
=============================================================================

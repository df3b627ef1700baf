---------------------------- MODULE BatterySense ----------------------------
(***************************************************************************)
(* The pack voltage: battery_task loads the divider's calibration from the *)
(* card once, then samples the ADC and publishes every sample with flags   *)
(* that say whether its volts may be read as a pack voltage.               *)
(*                                                                         *)
(* Counts are taken at four levels: zero, those of a rail nothing drives,  *)
(* those of a pack, and full scale.                                        *)
(***************************************************************************)
EXTENDS Naturals, FiniteSets

CONSTANT SettleSamples      \* BATTERY_PRESENT_SETTLE_SAMPLES

ASSUME BatteryAssumption == SettleSamples \in Nat \ {0}

Levels == {"zero", "residual", "pack", "full"}

\* What the calibration file can hold: nothing readable, a wrong header, or
\* the right header with a scale inside, outside the band, or not a number.
CardScales == {"absent", "header", "sane", "outside", "nan"}

VARIABLES
    ready,      \* s_ready: battery_init succeeded
    cardScale,  \* the calibration file
    scale,      \* s_volts_per_count: "compiled" or what was loaded
    battPc,     \* load, acquire
    counts,     \* s_last_counts
    above,      \* samples_above
    sample,     \* the sample the hub has
    rail        \* history: the rail in the last acquisitions, newest last

battVars == <<ready, cardScale, scale, battPc, counts, above, sample, rail>>

NoSample == [flags |-> {}, volts |-> "zero", counts |-> "zero"]

BattTypeOK ==
    /\ ready \in BOOLEAN /\ cardScale \in CardScales
    /\ scale \in {"compiled"} \union CardScales
    /\ battPc \in {"load", "acquire"}
    /\ counts \in Levels /\ above \in 0..SettleSamples
    /\ sample.volts \in Levels \union {"nan"} /\ sample.counts \in Levels
    /\ sample.flags \subseteq {"present", "converted", "timeout", "init_fail", "railed"}

\* battery_init runs before the scheduler.
BattInit ==
    /\ ready \in BOOLEAN
    /\ cardScale \in CardScales
    /\ scale = "compiled" /\ battPc = "load"
    /\ counts = "zero" /\ above = 0 /\ sample = NoSample
    /\ rail = [i \in 1..SettleSamples |-> "none"]

-----------------------------------------------------------------------------
\* in_band: written as "is inside", which a NaN never is.
InBand(s) == s \notin {"outside", "nan"}

\* battery_calib_load; the read may fail on a busy or missing card.
LoadCalibration ==
    /\ battPc = "load" /\ battPc' = "acquire"
    /\ \/ UNCHANGED scale
       \/ cardScale \notin {"absent", "header"} /\ InBand(cardScale) /\ scale' = cardScale
    /\ UNCHANGED <<ready, cardScale, counts, above, sample, rail>>

\* The average of BATTERY_OVERSAMPLE conversions, or the first that times out.
Outcomes == IF ready THEN {"timeout"} \union Levels ELSE {"invalid"}

Volts(c) == IF scale = "nan" THEN "nan" ELSE c

\* battery_flags_from
RawFlags(out) ==
    CASE out = "timeout" -> {"timeout"}
      [] out = "invalid" -> {"init_fail"}
      [] OTHER -> {"converted"}
                  \union (IF Volts(out) \in {"pack", "full"} THEN {"present"} ELSE {})
                  \union (IF out = "full" THEN {"railed"} ELSE {})

\* samples_above: any sample that does not show the rail up starts it again.
Above(flags) ==
    IF "present" \notin flags THEN 0 ELSE IF above < SettleSamples THEN above + 1 ELSE above

\* battery_flags_settled
Settled(flags, n) == IF n < SettleSamples THEN flags \ {"present"} ELSE flags

\* One pass of battery_task.  After a failed read the counts are the last ones.
Acquire ==
    /\ battPc = "acquire"
    /\ \E out \in Outcomes :
         LET flags == RawFlags(out)
         IN  /\ counts' = IF out \in Levels THEN out ELSE counts
             /\ above' = Above(flags)
             /\ sample' = [flags |-> Settled(flags, Above(flags)), counts |-> counts',
                           volts |-> IF out \in Levels THEN Volts(out) ELSE "zero"]
             /\ rail' = [i \in 1..SettleSamples |-> IF i < SettleSamples THEN rail[i + 1] ELSE out]
    /\ UNCHANGED <<ready, cardScale, scale, battPc>>

BattNext == LoadCalibration \/ Acquire

-----------------------------------------------------------------------------
\* battery_flags_believable
Believable(s) ==
    {"present", "converted"} \subseteq s.flags /\ s.flags \intersect {"timeout", "init_fail", "railed"} = {}

\* A sample is only believed as a pack voltage after the rail has read as one
\* in every acquisition of the settle window: a timeout or a dip inside it
\* starts the window again (battery_task, battery_flags_settled).
PresentEarned ==
    Believable(sample) => \A i \in 1..SettleSamples : rail[i] \in {"pack", "full"}

\* A pack on the rail is seen: whatever the calibration file holds, a settled
\* conversion is published as a believable voltage (battery_calib_load keeps
\* the compiled scale rather than one no voltage can be read with).
PackSeen ==
    (\A i \in 1..SettleSamples : rail[i] = "pack") => Believable(sample)
=============================================================================

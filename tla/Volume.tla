-------------------------------- MODULE Volume --------------------------------
(***************************************************************************)
(* CVolume (Volume.h): the volume in percent, read from and written to a   *)
(* level that the system keeps.  Where there is an IAudioEndpointVolume    *)
(* the level is a scalar, counted here in hundredths; else it is a mixer   *)
(* control from 0 to Bounds.lMaximum.  Every call opens the mixer, finds   *)
(* the control and uses it anew, and each of these may fail.               *)
(***************************************************************************)
EXTENDS Integers

CONSTANTS
    MixerMax,   \* Bounds.lMaximum of the speakers' volume control
    Wide        \* the number of values of an int, 2^32

\* Mixer controls go to 65535.  A percentage of the greatest level is an int, which for
\* 2^32 are levels up to 21474836; a control of two levels would make -100 of Unreadable.
ASSUME VolumeAssumption ==
    /\ MixerMax \in Nat \ {0, 1} /\ Wide \in Nat
    /\ 100 * MixerMax < Wide \div 2

IntMax == Wide \div 2 - 1

\* A sum or a difference of two ints: the compiler of the project lets it wrap.
Wrapped(n) == IF n > IntMax THEN n - Wide ELSE n

\* The percentage GetVolume makes of a control that is not read: GetVolumeValue's -1 as an
\* unsigned int, times 100, divided by MixerMax.
Unreadable == (Wide - 100) \div MixerMax

\* The greatest level.
Scale(endpoint) == IF endpoint THEN 100 ELSE MixerMax

\* What a reading that succeeds may be.  volume * 100 is cut to an int: where the product
\* of the scalar is kept in extended precision it may be one less than what was set.  The
\* mixer's level is divided and the rest cut off.
Readings(endpoint, level) ==
    IF endpoint THEN {level, level - 1} \intersect Nat ELSE {(level * 100) \div MixerMax}

\* What GetVolume makes of a failure: 0 if the mixer does not open, the control is not
\* found or the scalar not read, Unreadable if the control is not read.
Failures(endpoint) == IF endpoint THEN {0} ELSE {0, Unreadable}

GetVolume(endpoint, level) == Readings(endpoint, level) \union Failures(endpoint)

Clamped(v) == IF v < 0 THEN 0 ELSE IF v > 100 THEN 100 ELSE v

\* MUTANT: the percentage is not scaled.
LevelUnscaled(endpoint, v) == Clamped(v)

LevelOf(endpoint, v) == (Clamped(v) * Scale(endpoint)) \div 100

\* SetVolume: the levels it may leave; nobody looks at its result.
SetVolume(endpoint, level, v) == {level, LevelOf(endpoint, v)}
==============================================================================

------------------------------ MODULE MCAudio ------------------------------
(* Audio for TLC: a built-in sink and a bluetooth one, PulseAudio's scale, *)
(* 250 ms and 30 s cut to one and two units of time.  A sink is silent, at *)
(* 50 percent, or has one channel there and the other at 0.                *)
EXTENDS Audio

CONSTANTS s1, s2

MCSinks == <<s1, s2>>
MCBluetooth == {s2}
MCRaw == {<<0, 0>>, <<32768, 32768>>, <<0, 32768>>}
MCLevels == {50}
=============================================================================

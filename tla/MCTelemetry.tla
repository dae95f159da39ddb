---------------------------- MODULE MCTelemetry ----------------------------
(***************************************************************************)
(* TLC instance of Telemetry.  READ_VIN is -63, 0 or 63 mV: a step stays   *)
(* within the deadband of 100 mV, two steps leave it.  One VOUT word means *)
(* 3.3 V to a device with exponent -12 and 26.4 V to one with -9.          *)
(***************************************************************************)
EXTENDS Telemetry

\* Exponent -6 and mantissa -4, 0 and 4.
VinWordsAtZero == {26 * 2048 + 2044, 26 * 2048, 26 * 2048 + 4}
=============================================================================

---------------------------- MODULE MCStandardLink ----------------------------
(***************************************************************************)
(* Setups for the TLC runs of StandardLink.                                *)
(***************************************************************************)
EXTENDS StandardLink, TLC

CONSTANTS s1, s2, d1, d2, f1, f2

Plain ==
  [raw_format |-> s1 :> f1 @@ s2 :> f1 @@ d1 :> f1 @@ d2 :> f2, no_dsp |-> {},
   dont_remix |-> {}, unpositioned |-> {}, configures |-> Devices, passthrough |-> {},
   absent |-> {s2}]

(* One stream with two devices of different formats, of the same one, or    *)
(* with one that has no DSP ports and one that is not configured on         *)
(* activation.  Two streams with one device, which is configured or not;    *)
(* one is not remixed.                                                      *)
MCSetups ==
  {Plain,
   [Plain EXCEPT !.raw_format[d2] = f1],
   [Plain EXCEPT !.no_dsp = {d1}, !.configures = {d1}],
   [Plain EXCEPT !.absent = {d2}, !.passthrough = {s2}, !.configures = {}],
   [Plain EXCEPT !.absent = {d2}, !.passthrough = {s1}, !.dont_remix = {s1},
                 !.configures = {s1, d1}]}
=============================================================================

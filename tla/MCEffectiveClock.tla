---------------------------- MODULE MCEffectiveClock ----------------------------
(***************************************************************************)
(* Small instances of EffectiveClock.  With 133 files, the counters of two *)
(* CPUs leave the headroom when no other file is open, those of one when   *)
(* there are two others.                                                   *)
(***************************************************************************)
EXTENDS EffectiveClock

TwoCPUs == {0, 1}
OneCPU == {0}
Limit == {133}
NoLimit == {}
MCOthers == {2}
NoOthers == {}
=============================================================================

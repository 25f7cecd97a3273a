---------------------------- MODULE MCAlertEngine ----------------------------
(***************************************************************************)
(* Small instances of AlertEngine: rules with upper limits only, with      *)
(* lower limits only and inverted, with and without a duration, and one    *)
(* without limits; readings on both sides of every limit and of its        *)
(* hysteresis band.                                                        *)
(***************************************************************************)
EXTENDS AlertEngine

NoLimits == [warningBelow |-> {}, criticalBelow |-> {}, warningAbove |-> {},
             criticalAbove |-> {}, duration |-> 2, hysteresis |-> 1,
             cooldown |-> 3, notifications |-> TRUE,
             recoveryNotifications |-> TRUE]

UpperLimits == [NoLimits EXCEPT !.warningAbove = {2}, !.criticalAbove = {4}]
LowerLimits == [NoLimits EXCEPT !.warningBelow = {3}, !.criticalBelow = {1},
                                !.duration = 0, !.recoveryNotifications = FALSE]
Inverted == [NoLimits EXCEPT !.warningAbove = {4}, !.criticalAbove = {3},
                             !.duration = 1, !.hysteresis = 0]

MCRules == {NoLimits, UpperLimits, LowerLimits, Inverted}
UpperRules == {UpperLimits}
MCValues == 0..5
=============================================================================

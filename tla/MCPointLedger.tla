---------------------------- MODULE MCPointLedger ----------------------------
(* One session that loaded the account early, against the payment          *)
(* notification and the administrator, who lock it first.  Three days; a   *)
(* trip costs two points and every other amount is one, so that an         *)
(* exchange draws on several lots.                                         *)
EXTENDS PointLedger

CONSTANTS s1, t1, p1, i1, a1
=============================================================================

---------------------------- MODULE MCGainPrefs ----------------------------
(* Gains of 0 and +/- 6 dB, and every number that conversions can make of   *)
(* them, in thousandths.                                                   *)
EXTENDS GainPrefs, TLC

MCSettable == {-6000, 0, 6000}

MCLin ==
  (-6000 :> 501) @@ (0 :> 1000) @@ (6000 :> 1995) @@ (501 :> 1059) @@
  (1000 :> 1122) @@ (1995 :> 1258) @@ (1059 :> 1130) @@ (1122 :> 1138) @@
  (1258 :> 1156) @@ (1130 :> 1139) @@ (1138 :> 1140) @@ (1139 :> 1140) @@
  (1140 :> 1140) @@ (1156 :> 1142) @@ (1142 :> 1141) @@ (1141 :> 1140)

MCNumber == DOMAIN MCLin
=============================================================================

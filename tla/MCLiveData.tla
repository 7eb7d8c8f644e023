----------------------------- MODULE MCLiveData -----------------------------
(* Four fields: two groups in the first word of has-bits, one in the other. *)
EXTENDS LiveData

MCGroup == <<1, 1, 2, 3>>

MCWord == <<0, 0, 0, 1>>
=============================================================================

-------------------------- MODULE GainPrefsProofs --------------------------
(***************************************************************************)
(* Proofs about the input gain and its preferences file, for any set of    *)
(* gains and any conversion Lin that stays within Number.                  *)
(***************************************************************************)
EXTENDS GainPrefs, TLAPS

(* What has been done of the request by each step of do_change_cfg().      *)
Progress ==
  /\ step # "idle" => /\ request \in Request
                      /\ request.l \in unanswered
                      /\ started = <<>>
  /\ step \in {"right", "save", "write", "reply"} => gainL = Lin[request.l]
  /\ step = "write" => file = <<>> /\ node = gainL
  /\ step = "reply" => file = <<gainL>>

(* The channels are equal wherever a request has not come between them.    *)
Balance ==
  (balanced /\ step \in {"idle", "left", "save", "write", "reply"})
    => gainL = gainR

(* Until a request comes, the file gives the factor of the last start.     *)
StartedFromFile == started # <<>> => started = <<Lin[Loaded]>>

IInv == TypeOK /\ Progress /\ Balance /\ StartedFromFile /\ AnsweredIsSaved

(* A request asks for numbers, the same for both channels unless it asks   *)
(* for a pair.                                                             *)
LEMMA RequestShape ==
  \A q \in Request :
    /\ q.l \in Number /\ q.r \in Number
    /\ q.l \in Settable \cup {0}
    /\ q.kind # "gain_pair" => q.l = q.r
    /\ q # NoRequest
<1> SUFFICES ASSUME NEW q \in Request
             PROVE  /\ q.l \in Number /\ q.r \in Number
                    /\ q.l \in Settable \cup {0}
                    /\ q.kind # "gain_pair" => q.l = q.r
                    /\ q # NoRequest
  OBVIOUS
<1>1. /\ q.l \in Settable \cup {0} /\ q.r \in Settable \cup {0}
      /\ q.kind # "gain_pair" => q.l = q.r
      /\ q.kind \in {"gain", "gain_pair", "none"}
  <2>1. CASE \E v \in Settable : q = [kind |-> "gain", l |-> v, r |-> v]
    BY <2>1
  <2>2. CASE q \in [kind : {"gain_pair"}, l : Settable, r : Settable]
    BY <2>2
  <2>3. CASE q \in [kind : {"none"}, l : {0}, r : {0}]
    BY <2>3
  <2> QED
    BY <2>1, <2>2, <2>3 DEF Request
<1>2. q # NoRequest
  <2>1. NoRequest.kind = "no request"
    BY DEF NoRequest
  <2> QED
    BY <1>1, <2>1
<1> QED
  BY <1>1, <1>2, GainAssumption

(* What is appended to the truncated file is all that it holds.            *)
LEMMA WrittenFile == file = <<>> /\ file' = Append(file, node) => file' = <<node>>
<1> SUFFICES ASSUME file = <<>>, file' = Append(file, node) PROVE file' = <<node>>
  OBVIOUS
<1>1. file' = Append(<<>>, node)
  OBVIOUS
<1> QED
  BY <1>1

LEMMA InitIInv == Init => IInv
BY GainAssumption
   DEF Init, IInv, TypeOK, Progress, Balance, StartedFromFile,
       AnsweredIsSaved, Request, NoRequest

LEMMA NextIInv == IInv /\ [Next]_vars => IInv'
<1> SUFFICES ASSUME IInv, [Next]_vars PROVE IInv'
  OBVIOUS
<1> USE GainAssumption, RequestShape
<1>1. CASE Start
  BY <1>1 DEF Start, IInv, TypeOK, Progress, Balance, StartedFromFile,
              AnsweredIsSaved, Loaded
<1>2. ASSUME NEW q \in Request, SetGain(q) PROVE IInv'
  BY <1>2 DEF SetGain, Doing, IInv, TypeOK, Progress, Balance, StartedFromFile,
              AnsweredIsSaved, Loaded
<1>3. CASE SetLeft
  BY <1>3 DEF SetLeft, Doing, IInv, TypeOK, Progress, Balance, StartedFromFile,
              AnsweredIsSaved, Loaded
<1>4. CASE SetRight
  BY <1>4 DEF SetRight, Doing, IInv, TypeOK, Progress, Balance, StartedFromFile,
              AnsweredIsSaved, Loaded
<1>5. CASE SaveTruncates
  BY <1>5 DEF SaveTruncates, Doing, IInv, TypeOK, Progress, Balance,
              StartedFromFile, AnsweredIsSaved, Loaded
<1>6. CASE SaveWrites
  BY <1>6, WrittenFile DEF SaveWrites, Doing, IInv, TypeOK, Progress, Balance,
              StartedFromFile, AnsweredIsSaved, Loaded
<1>7. CASE Reply
  BY <1>7 DEF Reply, Doing, IInv, TypeOK, Progress, Balance, StartedFromFile,
              AnsweredIsSaved, Loaded
<1>8. CASE Stop
  BY <1>8 DEF Stop, IInv, TypeOK, Progress, Balance, StartedFromFile,
              AnsweredIsSaved, Loaded
<1>9. CASE UNCHANGED vars
  BY <1>9 DEF vars, IInv, TypeOK, Progress, Balance, StartedFromFile,
              AnsweredIsSaved, Loaded
<1> QED
  BY <1>1, <1>2, <1>3, <1>4, <1>5, <1>6, <1>7, <1>8, <1>9 DEF Next

LEMMA IInvInvariant == Spec => []IInv
BY InitIInv, NextIInv, PTL DEF Spec

(* The variables keep their ranges.                                        *)
THEOREM TypeCorrect == Spec => []TypeOK
<1>1. IInv => TypeOK
  BY DEF IInv
<1> QED
  BY <1>1, IInvInvariant, PTL

(* A gain that has been answered is in the file, whatever stops and starts *)
(* there are, until a later request is begun.                              *)
THEOREM GainIsSaved == Spec => []AnsweredIsSaved
<1>1. IInv => AnsweredIsSaved
  BY DEF IInv
<1> QED
  BY <1>1, IInvInvariant, PTL

(* Between requests the channels differ only if a pair was asked for.      *)
THEOREM PairsOnly == Spec => []ApartOnlyByPair
<1>1. IInv => ApartOnlyByPair
  BY DEF IInv, Balance, ApartOnlyByPair
<1> QED
  BY <1>1, IInvInvariant, PTL

(* However often the program is restarted, the gain does not drift.        *)
THEOREM NoDrift == Spec => StableAcrossRestarts
<1>1. IInv /\ [Next]_vars =>
        [(~running /\ running' /\ started # <<>>) => gainL' = started[1]]_vars
  <2> SUFFICES ASSUME IInv, Next, ~running, running', started # <<>>
               PROVE  gainL' = started[1]
    OBVIOUS
  <2>1. Start
    BY DEF Next, SetGain, SetLeft, SetRight, SaveTruncates, SaveWrites, Reply,
           Doing, Stop
  <2>2. started = <<gainL'>>
    BY <2>1 DEF Start, IInv, StartedFromFile
  <2> QED
    BY <2>2
<1> QED
  BY <1>1, IInvInvariant, PTL DEF Spec, StableAcrossRestarts
=============================================================================

------------------------------- MODULE MCOtp --------------------------------
(***************************************************************************)
(* Otp on a small instance: two requests of a whitelisted number, whose    *)
(* codes are equal, and two verifications; a window allows one request,    *)
(* and a code one attempt.                                                 *)
(***************************************************************************)
EXTENDS Otp

CONSTANTS q1, q2, v1, v2, a, b

MCRequests == {q1, q2}
MCVerifies == {v1, v2}
MCCodes == {a, b}
MCOtpOf == [q \in Requests |-> a]

\* The calls of a kind are interchangeable, and a run with fairness may not use
\* TLC's symmetry: they begin in the order of their names, as every behaviour does
\* once its calls are renamed.
InOrder ==
  /\ pc'[q2] # "idle" => pc'[q1] # "idle"
  /\ pc'[v2] # "idle" => pc'[v1] # "idle"

MCSpec == Init /\ [][Next /\ InOrder]_vars /\ Fairness
=============================================================================

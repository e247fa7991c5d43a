------------------------------ MODULE Sessions ------------------------------
(***************************************************************************)
(* What the auth service promises about the tokens of a user, without      *)
(* devices, session keys, queries and answers: a login opens a token, a    *)
(* refresh that finds its token live replaces it, and one that finds its   *)
(* token revoked ends them all.                                            *)
(*                                                                         *)
(* A refresh looks at its token once.  What it is entitled to by then it   *)
(* may do later, whatever became of the token, and it may never get to it, *)
(* by a mishap.  A mishap touches no token.                                *)
(***************************************************************************)
EXTENDS Naturals

CONSTANTS
  Logins,      \* the calls that open a token
  Refreshes,   \* the calls that replace one
  Nil,         \* no token
  MaxMishaps   \* how many mishaps there may be

\* A token is named by the call that it comes from.
Tokens == Logins \cup Refreshes

VARIABLES
  state,    \* none, live or revoked
  ended,    \* the tokens that are past their time
  token,    \* the token that a refresh presents
  stage,    \* what a refresh is entitled to
  mishaps   \* the mishaps so far

vars == <<state, ended, token, stage, mishaps>>

Init ==
  /\ state = [t \in Tokens |-> "none"]
  /\ ended = {}
  /\ token = [r \in Refreshes |-> Nil]
  /\ stage = [r \in Refreshes |-> "open"]
  /\ mishaps = 0

Advance(r, from, to) == stage[r] = from /\ stage' = [stage EXCEPT ![r] = to]

Open(l) ==
  /\ state[l] = "none"
  /\ state' = [state EXCEPT ![l] = "live"]
  /\ UNCHANGED <<ended, token, stage, mishaps>>

\* A token that does not fit is refused at once.
Present(r) ==
  /\ token[r] = Nil
  /\ stage[r] = "open"
  /\ \E t \in Tokens : state[t] # "none" /\ token' = [token EXCEPT ![r] = t]
  /\ UNCHANGED stage \/ Advance(r, "open", "over")
  /\ UNCHANGED <<state, ended, mishaps>>

Entitle(r) ==
  /\ token[r] # Nil
  /\ state[token[r]] = "live" /\ token[r] \notin ended
  /\ Advance(r, "open", "entitled")
  /\ UNCHANGED <<state, ended, token, mishaps>>

Alarm(r) ==
  /\ token[r] # Nil
  /\ state[token[r]] = "revoked"
  /\ Advance(r, "open", "alarmed")
  /\ UNCHANGED <<state, ended, token, mishaps>>

Refuse(r) ==
  /\ token[r] # Nil
  /\ state[token[r]] = "live" /\ token[r] \in ended
  /\ Advance(r, "open", "over")
  /\ UNCHANGED <<state, ended, token, mishaps>>

Replace(r) ==
  /\ state[r] = "none"
  /\ Advance(r, "entitled", "over")
  /\ state' = [state EXCEPT ![token[r]] = "revoked", ![r] = "live"]
  /\ UNCHANGED <<ended, token, mishaps>>

RevokeAll(r) ==
  /\ Advance(r, "alarmed", "over")
  /\ state' = [t \in Tokens |-> IF state[t] = "none" THEN "none" ELSE "revoked"]
  /\ UNCHANGED <<ended, token, mishaps>>

RunOut(t) ==
  /\ state[t] # "none" /\ t \notin ended
  /\ ended' = ended \cup {t}
  /\ UNCHANGED <<state, token, stage, mishaps>>

\* Refreshes end before they do what they were to do, or nothing comes of it.
Drop(S) ==
  /\ mishaps < MaxMishaps
  /\ mishaps' = mishaps + 1
  /\ stage' = [r \in Refreshes |-> IF r \in S THEN "over" ELSE stage[r]]
  /\ UNCHANGED <<state, ended, token>>

Next ==
  \/ \E l \in Logins : Open(l)
  \/ \E r \in Refreshes : Present(r) \/ Entitle(r) \/ Alarm(r) \/ Refuse(r)
  \/ \E r \in Refreshes : Replace(r) \/ RevokeAll(r)
  \/ \E t \in Tokens : RunOut(t)
  \/ \E S \in SUBSET Refreshes : Drop(S)

Spec == Init /\ [][Next]_vars
=============================================================================

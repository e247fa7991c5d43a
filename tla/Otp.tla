-------------------------------- MODULE Otp ---------------------------------
(***************************************************************************)
(* One-time passwords for one phone number: calls of requestOtp, which     *)
(* generate and store a code, and of verifyOtp, which compare a presented  *)
(* one with it.  Everything they share is in Redis: the code, a cooldown,  *)
(* and two counters.  A key is deleted, or expires some time after its     *)
(* TTL was set.  A Redis command is one step, and so is a MULTI.           *)
(*                                                                         *)
(* A stored code is named by the request that stored it, since two may be  *)
(* equal.  Its hash, JSON and the SMS that nobody sends are left out.      *)
(***************************************************************************)
EXTENDS Integers, FiniteSets

CONSTANTS
  Requests,      \* the calls of requestOtp
  Verifies,      \* the calls of verifyOtp
  Codes,         \* the codes that clients present
  OtpOf,         \* the code of a request: random, or that of a whitelisted number
  SendLimit,     \* sendLimitCount
  AttemptLimit,  \* verifyAttemptLimit
  Nil,           \* no value
  MaxFaults      \* how many commands may fail, or be executed twice

Calls == Requests \cup Verifies

ASSUME CallsAssumption ==
  /\ Requests \cap Verifies = {}
  /\ OtpOf \in [Requests -> Codes]
ASSUME LimitsAssumption == SendLimit \in Nat \ {0} /\ AttemptLimit \in Nat \ {0}
ASSUME NilAssumption == Nil \notin Requests
ASSUME FaultsAssumption == MaxFaults \in Nat

VARIABLES
  \* Redis
  code,        \* auth:otp, the request whose code it is
  cooldown,    \* whether auth:otp_send_cd is there
  sends,       \* auth:otp_send, 0 when it is not there
  sendTtl,     \* whether it has a TTL
  attempts,    \* auth:otp_attempt, 0 when it is not there
  attemptTtl,  \* its TTL: none, or set earlier or later than that of the code
  \* the calls
  pc,          \* the next step of a call, or how it ended
  number,      \* what INCR answered it
  asked,       \* the stored code that a verification read
  faults,      \* the commands so far that failed or were executed twice
  \* history, read by no guard
  counted,     \* the requests counted in the present window
  clean,       \* the codes that were stored while no other call was half done
  lost,        \* the codes that were replaced or expired
  ended        \* the calls that had taken effect when a verification began

codeVars == <<code, cooldown>>
sendVars == <<sends, sendTtl>>
attemptVars == <<attempts, attemptTtl>>
history == <<counted, clean, lost, ended>>
vars == <<codeVars, sendVars, attemptVars, pc, number, asked, faults, history>>

Init ==
  /\ code = Nil
  /\ cooldown = FALSE
  /\ sends = 0
  /\ sendTtl = FALSE
  /\ attempts = 0
  /\ attemptTtl = "none"
  /\ pc = [c \in Calls |-> "idle"]
  /\ number = [c \in Calls |-> 0]
  /\ asked = [v \in Verifies |-> Nil]
  /\ faults = 0
  /\ counted = {}
  /\ clean = {}
  /\ lost = {}
  /\ ended = [v \in Verifies |-> {}]

Goto(c, step) == pc' = [pc EXCEPT ![c] = step]

-----------------------------------------------------------------------------
(* requestOtp: generateAndStoreOtp.                                        *)

ReadCooldown(q) ==
  /\ pc[q] = "idle"
  /\ Goto(q, IF cooldown THEN "refused" ELSE "count")
  /\ UNCHANGED <<codeVars, sendVars, attemptVars, number, asked, faults, history>>

\* Slip: one more than the limit.
SendAllowedOneMore(n) == n <= SendLimit + 1

SendAllowed(n) == n <= SendLimit

AfterCount(n) == IF SendAllowed(n) THEN "store" ELSE "refused"

\* The MULTI: INCR, and the TTL.
CountSend(q) ==
  /\ pc[q] = "count"
  /\ sends' = sends + 1
  /\ number' = [number EXCEPT ![q] = sends + 1]
  /\ Goto(q, IF sendTtl THEN AfterCount(sends + 1) ELSE "window")
  /\ counted' = counted \cup {q}
  /\ UNCHANGED <<codeVars, sendTtl, attemptVars, asked, faults, clean, lost, ended>>

\* EXPIRE does nothing if the counter has gone.
StartWindow(q) ==
  /\ pc[q] = "window"
  /\ sendTtl' = (sends > 0)
  /\ Goto(q, AfterCount(number[q]))
  /\ UNCHANGED <<codeVars, sends, attemptVars, number, asked, faults, history>>

\* The calls that are between an effect on the code and the last one.
HalfDone == {c \in Calls : pc[c] \in {"cooldown", "reset", "use", "clear"}}

StoreCode(q) ==
  /\ pc[q] = "store"
  /\ code' = q
  /\ attemptTtl' = IF attemptTtl = "later" THEN "earlier" ELSE attemptTtl
  /\ lost' = lost \cup ({code} \ {Nil})
  /\ clean' = IF HalfDone = {} THEN clean \cup {q} ELSE clean
  /\ Goto(q, "cooldown")
  /\ UNCHANGED <<cooldown, sendVars, attempts, number, asked, faults, counted, ended>>

SetCooldown(q) ==
  /\ pc[q] = "cooldown"
  /\ cooldown' = TRUE
  /\ Goto(q, "reset")
  /\ UNCHANGED <<code, sendVars, attemptVars, number, asked, faults, history>>

ResetAttempts(q) ==
  /\ pc[q] = "reset"
  /\ attempts' = 0
  /\ attemptTtl' = "none"
  /\ Goto(q, "sent")
  /\ UNCHANGED <<codeVars, sendVars, number, asked, faults, history>>

-----------------------------------------------------------------------------
(* verifyOtp of OtpService.                                                *)

\* Slip: one more than the limit.
AttemptAllowedOneMore(n) == n <= AttemptLimit + 1

AttemptAllowed(n) == n <= AttemptLimit

AfterAttempt(n) == IF AttemptAllowed(n) THEN "get" ELSE "refused"

\* Slip: no attempt gets a TTL.
CountWithoutTtl(v) ==
  /\ pc[v] = "idle"
  /\ attempts' = attempts + 1
  /\ number' = [number EXCEPT ![v] = attempts + 1]
  /\ Goto(v, AfterAttempt(attempts + 1))
  /\ ended' = [ended EXCEPT ![v] = {c \in Calls : pc[c] \in {"sent", "clear", "verified"}}]
  /\ UNCHANGED <<codeVars, sendVars, attemptTtl, asked, faults, counted, clean, lost>>

\* Only the first attempt of a counter sets its TTL.
CountAttempt(v) ==
  /\ pc[v] = "idle"
  /\ attempts' = attempts + 1
  /\ number' = [number EXCEPT ![v] = attempts + 1]
  /\ Goto(v, IF attempts + 1 = 1 THEN "expire" ELSE AfterAttempt(attempts + 1))
  /\ ended' = [ended EXCEPT ![v] = {c \in Calls : pc[c] \in {"sent", "clear", "verified"}}]
  /\ UNCHANGED <<codeVars, sendVars, attemptTtl, asked, faults, counted, clean, lost>>

LimitAttempts(v) ==
  /\ pc[v] = "expire"
  /\ attemptTtl' = IF attempts > 0 THEN "later" ELSE "none"
  /\ Goto(v, AfterAttempt(number[v]))
  /\ UNCHANGED <<codeVars, sendVars, attempts, number, asked, faults, history>>

\* Slip: the code is taken out to be compared.
TakeCode(v) ==
  /\ pc[v] = "get"
  /\ asked' = [asked EXCEPT ![v] = code]
  /\ code' = Nil
  /\ \E presented \in Codes :
       Goto(v, IF code # Nil /\ OtpOf[code] = presented THEN "use" ELSE "refused")
  /\ UNCHANGED <<cooldown, sendVars, attemptVars, number, faults, history>>

\* The client presented some code, which is right or not.
GetCode(v) ==
  /\ pc[v] = "get"
  /\ asked' = [asked EXCEPT ![v] = code]
  /\ \E presented \in Codes :
       Goto(v, IF code # Nil /\ OtpOf[code] = presented THEN "use" ELSE "refused")
  /\ UNCHANGED <<codeVars, sendVars, attemptVars, number, faults, history>>

\* Slip: the code stays until it expires.
KeepCode(v) ==
  /\ pc[v] = "use"
  /\ Goto(v, "clear")
  /\ UNCHANGED <<codeVars, sendVars, attemptVars, number, asked, faults, history>>

\* DEL takes whatever code is there by now.
UseCode(v) ==
  /\ pc[v] = "use"
  /\ code' = Nil
  /\ Goto(v, "clear")
  /\ UNCHANGED <<cooldown, sendVars, attemptVars, number, asked, faults, history>>

\* Slip: a success takes its own attempt back.
TakeBackAttempt(v) ==
  /\ pc[v] = "clear"
  /\ attempts' = attempts - 1
  /\ Goto(v, "verified")
  /\ UNCHANGED <<codeVars, sendVars, attemptTtl, number, asked, faults, history>>

ClearAttempts(v) ==
  /\ pc[v] = "clear"
  /\ attempts' = 0
  /\ attemptTtl' = "none"
  /\ Goto(v, "verified")
  /\ UNCHANGED <<codeVars, sendVars, number, asked, faults, history>>

-----------------------------------------------------------------------------
(* Expiry and failure.                                                     *)

CodeExpires ==
  /\ code # Nil
  /\ code' = Nil
  /\ lost' = lost \cup {code}
  /\ UNCHANGED <<cooldown, sendVars, attemptVars, pc, number, asked, faults, counted,
                 clean, ended>>

CooldownExpires ==
  /\ cooldown
  /\ cooldown' = FALSE
  /\ UNCHANGED <<code, sendVars, attemptVars, pc, number, asked, faults, history>>

WindowExpires ==
  /\ sendTtl
  /\ sends' = 0
  /\ sendTtl' = FALSE
  /\ counted' = {}
  /\ UNCHANGED <<codeVars, attemptVars, pc, number, asked, faults, clean, lost, ended>>

\* The counter's TTL is as long as that of the code, so the one set first ends first.
AttemptsExpire ==
  /\ \/ attemptTtl = "earlier"
     \/ attemptTtl = "later" /\ code = Nil
  /\ attempts' = 0
  /\ attemptTtl' = "none"
  /\ UNCHANGED <<codeVars, sendVars, pc, number, asked, faults, history>>

Ended == {"idle", "refused", "sent", "verified", "failed"}

\* A command fails, or the process ends, before the next step of a call.
CallFails(c) ==
  /\ faults < MaxFaults
  /\ faults' = faults + 1
  /\ pc[c] \notin Ended
  /\ Goto(c, "failed")
  /\ UNCHANGED <<codeVars, sendVars, attemptVars, number, asked, history>>

-----------------------------------------------------------------------------
(* Counting commands that are executed twice.  The Redis client waits for   *)
(* an answer through any number of reconnections (maxRetriesPerRequest:    *)
(* null), and sends a command again that was not answered.  These          *)
(* executions lose their answer; the step of the call is the answered one. *)
(* Another command that is executed twice is taken for one that is         *)
(* executed late.                                                          *)

AnswerLost ==
  /\ faults < MaxFaults
  /\ faults' = faults + 1
  /\ UNCHANGED <<codeVars, sendTtl, attemptTtl, pc, number, asked, history>>

SendCountedAgain(q) ==
  /\ AnswerLost
  /\ pc[q] = "count"
  /\ sends' = sends + 1
  /\ UNCHANGED attempts

\* When it was the first attempt, none sets the TTL: the answer will be 2.
AttemptCountedAgain(v) ==
  /\ AnswerLost
  /\ pc[v] = "idle"
  /\ attempts' = attempts + 1
  /\ UNCHANGED sends

-----------------------------------------------------------------------------

Request(q) ==
  \/ ReadCooldown(q) \/ CountSend(q) \/ StartWindow(q)
  \/ StoreCode(q) \/ SetCooldown(q) \/ ResetAttempts(q)
Verify(v) ==
  \/ CountAttempt(v) \/ LimitAttempts(v)
  \/ GetCode(v) \/ UseCode(v) \/ ClearAttempts(v)

Next ==
  \/ \E q \in Requests : Request(q)
  \/ \E v \in Verifies : Verify(v)
  \/ \E c \in Calls : CallFails(c)
  \/ \E q \in Requests : SendCountedAgain(q)
  \/ \E v \in Verifies : AttemptCountedAgain(v)
  \/ CodeExpires \/ CooldownExpires \/ WindowExpires \/ AttemptsExpire

Spec == Init /\ [][Next]_vars

\* A step of a call that has begun.
Serve ==
  \/ \E q \in Requests : pc[q] # "idle" /\ Request(q)
  \/ \E v \in Verifies : pc[v] # "idle" /\ Verify(v)

\* Calls that have begun go on, and a TTL comes to its end.
Fairness ==
  /\ WF_vars(Serve)
  /\ WF_vars(CodeExpires) /\ WF_vars(WindowExpires) /\ WF_vars(AttemptsExpire)

FairSpec == Spec /\ Fairness

-----------------------------------------------------------------------------
(* Correctness.                                                            *)

\* Every variable has its type: the domain that the proofs start from.
TypeOK ==
  /\ code \in Requests \cup {Nil}
  /\ cooldown \in BOOLEAN
  /\ sends \in Nat
  /\ sendTtl \in BOOLEAN /\ (sendTtl => sends > 0)
  /\ attempts \in Nat
  /\ attemptTtl \in {"none", "earlier", "later"} /\ (attemptTtl # "none" => attempts > 0)
  /\ pc \in [Calls -> Ended \cup {"count", "window", "store", "cooldown", "reset",
                                  "expire", "get", "use", "clear"}]
  /\ number \in [Calls -> Nat]
  /\ asked \in [Verifies -> Requests \cup {Nil}]
  /\ faults \in 0..MaxFaults
  /\ counted \in SUBSET Requests
  /\ clean \in SUBSET Requests
  /\ lost \in SUBSET Requests
  /\ ended \in [Verifies -> SUBSET Calls]

\* sendLimitCount: however requests overlap, no more than the limit of those that a
\* window counted go on to store a code.
SendsLimited ==
  Cardinality({q \in counted : pc[q] \in {"store", "cooldown", "reset", "sent"}})
    <= SendLimit

\* verifyAttemptLimit: a code that was stored while no other call was half done is
\* compared with no more than the limit of the attempts made after it was sent.
AttemptsLimited ==
  \A q \in clean :
    Cardinality({v \in Verifies : asked[v] = q /\ q \in ended[v]}) <= AttemptLimit

\* The DEL of verifyOtp: a code is accepted again only by a verification that began
\* before it was deleted.
SecondUseNeedsOverlap ==
  \A v1, v2 \in Verifies :
    /\ v1 # v2
    /\ asked[v1] = asked[v2]
    /\ pc[v1] \in {"clear", "verified"}
    /\ pc[v2] \in {"use", "clear", "verified"}
    => v1 \notin ended[v2]

\* A code that was stored while no other call was half done is there until it is
\* replaced, expires or is used: no wrong attempt and no verification of an older
\* code deletes it.
SentCodeStays ==
  \A q \in clean :
    \/ code = q
    \/ q \in lost
    \/ \E v \in Verifies : asked[v] = q /\ pc[v] \in {"clear", "verified", "failed"}

\* The EXPIREs: without a failed command, a counter without an end has a call that is
\* about to set it.
CountersEnd ==
  faults = 0 =>
    /\ sends > 0 /\ ~sendTtl => \E q \in Requests : pc[q] = "window"
    /\ attempts > 0 /\ attemptTtl = "none" => \E v \in Verifies : pc[v] = "expire"

\* A phone number over a limit is let in again, if no command fails.
LimitsLift ==
  /\ sends > SendLimit ~> sends = 0 \/ faults > 0
  /\ attempts > AttemptLimit ~> attempts = 0 \/ faults > 0
=============================================================================

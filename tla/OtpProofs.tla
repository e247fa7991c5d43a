----------------------------- MODULE OtpProofs ------------------------------
(***************************************************************************)
(* What Otp promises for every number of requests and verifications, all   *)
(* limits and any number of failed commands.  The two limits are counted   *)
(* by the numbers that INCR answered: within one life of a counter they    *)
(* are distinct, so that the calls map one to one into 1..limit.           *)
(***************************************************************************)
EXTENDS Otp, FiniteSetTheorems, TLAPS

\* The steps of a call fit its kind.
KindInv ==
  /\ \A q \in Requests : pc[q] \notin {"expire", "get", "use", "clear", "verified"}
  /\ \A v \in Verifies :
       pc[v] \notin {"count", "window", "store", "cooldown", "reset", "sent"}

\* The requests of the present window have different numbers, and one that goes on
\* to store its code has a number within the limit.
SendInv ==
  /\ \A q \in counted : number[q] \in 1..sends
  /\ \A p, q \in counted : p # q => number[p] # number[q]
  /\ \A q \in Requests : pc[q] \in {"idle", "count"} => q \notin counted
  /\ \A q \in Requests :
       pc[q] \in {"store", "cooldown", "reset", "sent"} => number[q] <= SendLimit

\* A code is stored once, by a request that is past that step.
StoredInv ==
  LET Past(q) == pc[q] \in {"cooldown", "reset", "sent", "failed"} IN
  /\ code # Nil => Past(code)
  /\ \A v \in Verifies : asked[v] # Nil => Past(asked[v])
  /\ \A q \in clean : Past(q)

\* What had taken effect when a verification began has still done so.
EndedInv ==
  /\ \A v \in Verifies : pc[v] = "idle" => ended[v] = {}
  /\ \A v \in Verifies : \A q \in Requests : q \in ended[v] => pc[q] = "sent"
  /\ \A v, w \in Verifies : w \in ended[v] => pc[w] \in {"clear", "verified", "failed"}

\* A verification that read a code was allowed to, and a code that was used has gone.
AskInv ==
  \A v \in Verifies :
    /\ asked[v] # Nil => pc[v] \in {"use", "clear", "verified", "refused", "failed"}
    /\ pc[v] \in {"use", "clear", "verified"} => asked[v] # Nil
    /\ pc[v] \in {"clear", "verified"} => code # asked[v]
    /\ pc[v] # "idle" => number[v] >= 1
    /\ pc[v] = "get" \/ asked[v] # Nil => number[v] <= AttemptLimit

\* While a code is there that was stored when no other call was half done, nothing
\* but its own request resets the attempts, and the attempts made since it was sent
\* have different numbers.
CleanInv ==
  \A q \in clean :
    code = q =>
      /\ \A p \in Requests : pc[p] \in {"cooldown", "reset"} => p = q
      /\ \A v \in Verifies : pc[v] # "clear" /\ (pc[v] = "use" => asked[v] = q)
      /\ pc[q] = "sent" => attemptTtl # "earlier"
      /\ \A v \in Verifies : q \in ended[v] => number[v] \in 1..attempts
      /\ \A v, w \in Verifies :
           v # w /\ q \in ended[v] /\ q \in ended[w] => number[v] # number[w]

\* The numbers of the attempts that were compared with a code outlast it.
NumbersInv ==
  \A q \in clean : \A v, w \in Verifies :
    /\ v # w
    /\ asked[v] = q /\ q \in ended[v]
    /\ asked[w] = q /\ q \in ended[w]
    => number[v] # number[w]

IInv ==
  /\ TypeOK
  /\ KindInv
  /\ SendInv
  /\ StoredInv
  /\ EndedInv
  /\ AskInv
  /\ CleanInv
  /\ NumbersInv
  /\ SecondUseNeedsOverlap
  /\ SentCodeStays
  /\ CountersEnd

-----------------------------------------------------------------------------

LEMMA InitInv == Init => IInv
<1> USE NilAssumption, FaultsAssumption, LimitsAssumption DEF Init, Calls, Ended
<1>1. Init => TypeOK
  <2> SUFFICES ASSUME Init PROVE TypeOK
    OBVIOUS
  <2>1. code \in Requests \cup {Nil} /\ cooldown \in BOOLEAN
    OBVIOUS
  <2>2. sends \in Nat /\ sendTtl \in BOOLEAN /\ (sendTtl => sends > 0)
    OBVIOUS
  <2>3. /\ attempts \in Nat
        /\ attemptTtl \in {"none", "earlier", "later"}
        /\ (attemptTtl # "none" => attempts > 0)
    OBVIOUS
  <2>4. faults \in 0..MaxFaults
    OBVIOUS
  <2>5. /\ pc \in [Calls -> Ended \cup {"count", "window", "store", "cooldown", "reset",
                                       "expire", "get", "use", "clear"}]
        /\ number \in [Calls -> Nat]
    OBVIOUS
  <2>6. asked \in [Verifies -> Requests \cup {Nil}] /\ ended \in [Verifies -> SUBSET Calls]
    OBVIOUS
  <2>7. counted \in SUBSET Requests /\ clean \in SUBSET Requests /\ lost \in SUBSET Requests
    OBVIOUS
  <2> QED
    BY <2>1, <2>2, <2>3, <2>4, <2>5, <2>6, <2>7 DEF TypeOK
<1>2. Init => KindInv /\ SendInv /\ StoredInv /\ EndedInv /\ AskInv
  BY DEF KindInv, SendInv, StoredInv, EndedInv, AskInv
<1>3. Init => CleanInv /\ NumbersInv /\ SecondUseNeedsOverlap /\ SentCodeStays /\ CountersEnd
  BY DEF CleanInv, NumbersInv, SecondUseNeedsOverlap, SentCodeStays, CountersEnd
<1> QED
  BY <1>1, <1>2, <1>3 DEF IInv

\* One lemma per action: a step for the types, one for each conjunct that the action can
\* disturb, and a last one for those over the variables that it leaves alone.
LEMMA ReadCooldownInv == ASSUME IInv, NEW q \in Requests, ReadCooldown(q) PROVE IInv'
<1> USE CallsAssumption, NilAssumption, FaultsAssumption, LimitsAssumption
    DEF ReadCooldown, IInv, TypeOK, KindInv, StoredInv, EndedInv, AskInv, Calls, Ended, Goto,
        codeVars, sendVars, attemptVars, history
<1>1. TypeOK'
  OBVIOUS
<1>2. SendInv'
  BY DEF SendInv
<1>3. KindInv' /\ StoredInv' /\ EndedInv' /\ AskInv' /\ CleanInv' /\ NumbersInv'
      /\ SecondUseNeedsOverlap' /\ SentCodeStays' /\ CountersEnd'
  BY DEF CleanInv, NumbersInv, SecondUseNeedsOverlap, SentCodeStays, CountersEnd
<1> QED
  BY <1>1, <1>2, <1>3

LEMMA CountSendInv == ASSUME IInv, NEW q \in Requests, CountSend(q) PROVE IInv'
<1> USE CallsAssumption, NilAssumption, FaultsAssumption, LimitsAssumption
    DEF CountSend, AfterCount, SendAllowed, IInv, TypeOK, KindInv, StoredInv, EndedInv, AskInv,
        Calls, Ended, Goto, codeVars, sendVars, attemptVars, history
<1>1. TypeOK'
  OBVIOUS
<1>2. SendInv'
  BY DEF SendInv
<1>3. CountersEnd'
  BY DEF CountersEnd
<1>4. KindInv' /\ StoredInv' /\ EndedInv' /\ AskInv' /\ CleanInv' /\ NumbersInv'
      /\ SecondUseNeedsOverlap' /\ SentCodeStays'
  BY DEF CleanInv, NumbersInv, SecondUseNeedsOverlap, SentCodeStays
<1> QED
  BY <1>1, <1>2, <1>3, <1>4

LEMMA StartWindowInv == ASSUME IInv, NEW q \in Requests, StartWindow(q) PROVE IInv'
<1> USE CallsAssumption, NilAssumption, FaultsAssumption, LimitsAssumption
    DEF StartWindow, AfterCount, SendAllowed, IInv, TypeOK, KindInv, StoredInv, EndedInv,
        AskInv, Calls, Ended, Goto, codeVars, sendVars, attemptVars, history
<1>1. TypeOK'
  OBVIOUS
<1>2. SendInv'
  BY DEF SendInv
<1>3. CountersEnd'
  BY DEF CountersEnd
<1>4. KindInv' /\ StoredInv' /\ EndedInv' /\ AskInv' /\ CleanInv' /\ NumbersInv'
      /\ SecondUseNeedsOverlap' /\ SentCodeStays'
  BY DEF CleanInv, NumbersInv, SecondUseNeedsOverlap, SentCodeStays
<1> QED
  BY <1>1, <1>2, <1>3, <1>4

LEMMA StoreCodeInv == ASSUME IInv, NEW q \in Requests, StoreCode(q) PROVE IInv'
<1> USE CallsAssumption, NilAssumption, FaultsAssumption, LimitsAssumption
    DEF StoreCode, HalfDone, IInv, TypeOK, KindInv, StoredInv, EndedInv, AskInv, Calls, Ended,
        Goto, codeVars, sendVars, attemptVars, history
<1>1. TypeOK'
  OBVIOUS
<1>2. SendInv'
  BY DEF SendInv
<1>3. StoredInv'
  OBVIOUS
<1>4. AskInv'
  OBVIOUS
<1>5. CleanInv'
  BY DEF CleanInv
<1>6. SentCodeStays'
  BY DEF SentCodeStays, CleanInv
<1>7. KindInv' /\ EndedInv' /\ NumbersInv' /\ SecondUseNeedsOverlap' /\ CountersEnd'
  BY DEF NumbersInv, CleanInv, SecondUseNeedsOverlap, CountersEnd
<1> QED
  BY <1>1, <1>2, <1>3, <1>4, <1>5, <1>6, <1>7

LEMMA SetCooldownInv == ASSUME IInv, NEW q \in Requests, SetCooldown(q) PROVE IInv'
<1> USE CallsAssumption, NilAssumption, FaultsAssumption, LimitsAssumption
    DEF SetCooldown, IInv, TypeOK, KindInv, StoredInv, EndedInv, AskInv, Calls, Ended, Goto,
        codeVars, sendVars, attemptVars, history
<1>1. TypeOK'
  OBVIOUS
<1>2. CleanInv'
  BY DEF CleanInv
<1>3. KindInv' /\ SendInv' /\ StoredInv' /\ EndedInv' /\ AskInv' /\ NumbersInv'
      /\ SecondUseNeedsOverlap' /\ SentCodeStays' /\ CountersEnd'
  BY DEF SendInv, NumbersInv, CleanInv, SecondUseNeedsOverlap, SentCodeStays, CountersEnd
<1> QED
  BY <1>1, <1>2, <1>3

LEMMA ResetAttemptsInv == ASSUME IInv, NEW q \in Requests, ResetAttempts(q) PROVE IInv'
<1> USE CallsAssumption, NilAssumption, FaultsAssumption, LimitsAssumption
    DEF ResetAttempts, IInv, TypeOK, KindInv, StoredInv, EndedInv, AskInv, Calls, Ended, Goto,
        codeVars, sendVars, attemptVars, history
<1>1. TypeOK'
  OBVIOUS
<1>2. CleanInv'
  BY DEF CleanInv
<1>3. CountersEnd'
  BY DEF CountersEnd
<1>4. KindInv' /\ SendInv' /\ StoredInv' /\ EndedInv' /\ AskInv' /\ NumbersInv'
      /\ SecondUseNeedsOverlap' /\ SentCodeStays'
  BY DEF SendInv, NumbersInv, CleanInv, SecondUseNeedsOverlap, SentCodeStays
<1> QED
  BY <1>1, <1>2, <1>3, <1>4

LEMMA CountAttemptInv == ASSUME IInv, NEW v \in Verifies, CountAttempt(v) PROVE IInv'
<1> USE CallsAssumption, NilAssumption, FaultsAssumption, LimitsAssumption
    DEF CountAttempt, AfterAttempt, AttemptAllowed, IInv, TypeOK, KindInv, StoredInv, EndedInv,
        AskInv, Calls, Ended, Goto, codeVars, sendVars, attemptVars, history
<1>1. TypeOK'
  OBVIOUS
<1>2. EndedInv'
  OBVIOUS
<1>3. AskInv'
  OBVIOUS
<1>4. CleanInv'
  BY DEF CleanInv
<1>5. NumbersInv'
  BY DEF NumbersInv, CleanInv
<1>6. SecondUseNeedsOverlap'
  BY DEF SecondUseNeedsOverlap
<1>7. CountersEnd'
  BY DEF CountersEnd
<1>8. KindInv' /\ SendInv' /\ StoredInv' /\ SentCodeStays'
  BY DEF SendInv, SentCodeStays, CleanInv
<1> QED
  BY <1>1, <1>2, <1>3, <1>4, <1>5, <1>6, <1>7, <1>8

LEMMA LimitAttemptsInv == ASSUME IInv, NEW v \in Verifies, LimitAttempts(v) PROVE IInv'
<1> USE CallsAssumption, NilAssumption, FaultsAssumption, LimitsAssumption
    DEF LimitAttempts, AfterAttempt, AttemptAllowed, IInv, TypeOK, KindInv, StoredInv, EndedInv,
        AskInv, Calls, Ended, Goto, codeVars, sendVars, attemptVars, history
<1>1. TypeOK'
  OBVIOUS
<1>2. AskInv'
  OBVIOUS
<1>3. CountersEnd'
  BY DEF CountersEnd
<1>4. KindInv' /\ SendInv' /\ StoredInv' /\ EndedInv' /\ CleanInv' /\ NumbersInv'
      /\ SecondUseNeedsOverlap' /\ SentCodeStays'
  BY DEF SendInv, CleanInv, NumbersInv, SecondUseNeedsOverlap, SentCodeStays
<1> QED
  BY <1>1, <1>2, <1>3, <1>4

LEMMA GetCodeInv == ASSUME IInv, NEW v \in Verifies, GetCode(v) PROVE IInv'
<1> USE CallsAssumption, NilAssumption, FaultsAssumption, LimitsAssumption
    DEF GetCode, IInv, TypeOK, KindInv, StoredInv, EndedInv, AskInv, Calls, Ended, Goto,
        codeVars, sendVars, attemptVars, history
<1>1. TypeOK'
  OBVIOUS
<1>2. StoredInv'
  OBVIOUS
<1>3. AskInv'
  OBVIOUS
<1>4. CleanInv'
  BY DEF CleanInv
<1>5. NumbersInv'
  BY DEF NumbersInv, CleanInv
<1>6. SecondUseNeedsOverlap'
  BY DEF SecondUseNeedsOverlap
<1>7. KindInv' /\ SendInv' /\ EndedInv' /\ SentCodeStays' /\ CountersEnd'
  BY DEF SendInv, SentCodeStays, CleanInv, CountersEnd
<1> QED
  BY <1>1, <1>2, <1>3, <1>4, <1>5, <1>6, <1>7

LEMMA UseCodeInv == ASSUME IInv, NEW v \in Verifies, UseCode(v) PROVE IInv'
<1> USE CallsAssumption, NilAssumption, FaultsAssumption, LimitsAssumption
    DEF UseCode, IInv, TypeOK, KindInv, StoredInv, EndedInv, AskInv, Calls, Ended, Goto,
        codeVars, sendVars, attemptVars, history
<1>1. TypeOK'
  OBVIOUS
<1>2. AskInv'
  OBVIOUS
<1>3. CleanInv'
  BY DEF CleanInv
<1>4. SecondUseNeedsOverlap'
  BY DEF SecondUseNeedsOverlap
<1>5. SentCodeStays'
  BY DEF SentCodeStays, CleanInv
<1>6. KindInv' /\ SendInv' /\ StoredInv' /\ EndedInv' /\ NumbersInv' /\ CountersEnd'
  BY DEF SendInv, NumbersInv, CleanInv, CountersEnd
<1> QED
  BY <1>1, <1>2, <1>3, <1>4, <1>5, <1>6

LEMMA ClearAttemptsInv == ASSUME IInv, NEW v \in Verifies, ClearAttempts(v) PROVE IInv'
<1> USE CallsAssumption, NilAssumption, FaultsAssumption, LimitsAssumption
    DEF ClearAttempts, IInv, TypeOK, KindInv, StoredInv, EndedInv, AskInv, Calls, Ended, Goto,
        codeVars, sendVars, attemptVars, history
<1>1. TypeOK'
  OBVIOUS
<1>2. EndedInv'
  OBVIOUS
<1>3. CleanInv'
  BY DEF CleanInv
<1>4. CountersEnd'
  BY DEF CountersEnd
<1>5. KindInv' /\ SendInv' /\ StoredInv' /\ AskInv' /\ NumbersInv' /\ SecondUseNeedsOverlap'
      /\ SentCodeStays'
  BY DEF SendInv, NumbersInv, CleanInv, SecondUseNeedsOverlap, SentCodeStays
<1> QED
  BY <1>1, <1>2, <1>3, <1>4, <1>5

LEMMA CodeExpiresInv == ASSUME IInv, CodeExpires PROVE IInv'
<1> USE CallsAssumption, NilAssumption, FaultsAssumption, LimitsAssumption
    DEF CodeExpires, IInv, TypeOK, KindInv, StoredInv, EndedInv, AskInv, Calls, Ended, Goto,
        codeVars, sendVars, attemptVars, history
<1>1. TypeOK'
  OBVIOUS
<1>2. SentCodeStays'
  BY DEF SentCodeStays, CleanInv
<1>3. KindInv' /\ SendInv' /\ StoredInv' /\ EndedInv' /\ AskInv' /\ CleanInv' /\ NumbersInv'
      /\ SecondUseNeedsOverlap' /\ CountersEnd'
  BY DEF SendInv, CleanInv, NumbersInv, SecondUseNeedsOverlap, CountersEnd
<1> QED
  BY <1>1, <1>2, <1>3

LEMMA CooldownExpiresInv == ASSUME IInv, CooldownExpires PROVE IInv'
<1> USE CallsAssumption, NilAssumption, FaultsAssumption, LimitsAssumption
    DEF CooldownExpires, IInv, TypeOK, KindInv, StoredInv, EndedInv, AskInv, Calls, Ended, Goto,
        codeVars, sendVars, attemptVars, history
<1>1. TypeOK'
  OBVIOUS
<1>2. KindInv' /\ SendInv' /\ StoredInv' /\ EndedInv' /\ AskInv' /\ CleanInv' /\ NumbersInv'
      /\ SecondUseNeedsOverlap' /\ SentCodeStays' /\ CountersEnd'
  BY DEF SendInv, CleanInv, NumbersInv, SecondUseNeedsOverlap, SentCodeStays, CountersEnd
<1> QED
  BY <1>1, <1>2

LEMMA WindowExpiresInv == ASSUME IInv, WindowExpires PROVE IInv'
<1> USE CallsAssumption, NilAssumption, FaultsAssumption, LimitsAssumption
    DEF WindowExpires, IInv, TypeOK, KindInv, StoredInv, EndedInv, AskInv, Calls, Ended, Goto,
        codeVars, sendVars, attemptVars, history
<1>1. TypeOK'
  OBVIOUS
<1>2. SendInv'
  BY DEF SendInv
<1>3. CountersEnd'
  BY DEF CountersEnd
<1>4. KindInv' /\ StoredInv' /\ EndedInv' /\ AskInv' /\ CleanInv' /\ NumbersInv'
      /\ SecondUseNeedsOverlap' /\ SentCodeStays'
  BY DEF CleanInv, NumbersInv, SecondUseNeedsOverlap, SentCodeStays
<1> QED
  BY <1>1, <1>2, <1>3, <1>4

LEMMA AttemptsExpireInv == ASSUME IInv, AttemptsExpire PROVE IInv'
<1> USE CallsAssumption, NilAssumption, FaultsAssumption, LimitsAssumption
    DEF AttemptsExpire, IInv, TypeOK, KindInv, StoredInv, EndedInv, AskInv, Calls, Ended, Goto,
        codeVars, sendVars, attemptVars, history
<1>1. TypeOK'
  OBVIOUS
<1>2. CleanInv'
  BY DEF CleanInv
<1>3. CountersEnd'
  BY DEF CountersEnd
<1>4. KindInv' /\ SendInv' /\ StoredInv' /\ EndedInv' /\ AskInv' /\ NumbersInv'
      /\ SecondUseNeedsOverlap' /\ SentCodeStays'
  BY DEF SendInv, NumbersInv, CleanInv, SecondUseNeedsOverlap, SentCodeStays
<1> QED
  BY <1>1, <1>2, <1>3, <1>4

LEMMA CallFailsInv == ASSUME IInv, NEW c \in Calls, CallFails(c) PROVE IInv'
<1> USE CallsAssumption, NilAssumption, FaultsAssumption, LimitsAssumption
    DEF CallFails, IInv, TypeOK, KindInv, StoredInv, EndedInv, AskInv, Calls, Ended, Goto,
        codeVars, sendVars, attemptVars, history
<1>1. TypeOK'
  OBVIOUS
<1>2. EndedInv'
  OBVIOUS
<1>3. CountersEnd'
  BY DEF CountersEnd
<1>4. KindInv' /\ SendInv' /\ StoredInv' /\ AskInv' /\ CleanInv' /\ NumbersInv'
      /\ SecondUseNeedsOverlap' /\ SentCodeStays'
  BY DEF SendInv, CleanInv, NumbersInv, SecondUseNeedsOverlap, SentCodeStays
<1> QED
  BY <1>1, <1>2, <1>3, <1>4

LEMMA SendCountedAgainInv == ASSUME IInv, NEW q \in Requests, SendCountedAgain(q) PROVE IInv'
<1> USE CallsAssumption, NilAssumption, FaultsAssumption, LimitsAssumption
    DEF SendCountedAgain, AnswerLost, IInv, TypeOK, KindInv, StoredInv, EndedInv, AskInv, Calls,
        Ended, Goto, codeVars, sendVars, attemptVars, history
<1>1. TypeOK'
  OBVIOUS
<1>2. SendInv'
  BY DEF SendInv
<1>3. CountersEnd'
  BY DEF CountersEnd
<1>4. KindInv' /\ StoredInv' /\ EndedInv' /\ AskInv' /\ CleanInv' /\ NumbersInv'
      /\ SecondUseNeedsOverlap' /\ SentCodeStays'
  BY DEF CleanInv, NumbersInv, SecondUseNeedsOverlap, SentCodeStays
<1> QED
  BY <1>1, <1>2, <1>3, <1>4

LEMMA AttemptCountedAgainInv == ASSUME IInv, NEW v \in Verifies, AttemptCountedAgain(v) PROVE IInv'
<1> USE CallsAssumption, NilAssumption, FaultsAssumption, LimitsAssumption
    DEF AttemptCountedAgain, AnswerLost, IInv, TypeOK, KindInv, StoredInv, EndedInv, AskInv,
        Calls, Ended, Goto, codeVars, sendVars, attemptVars, history
<1>1. TypeOK'
  OBVIOUS
<1>2. CleanInv'
  BY DEF CleanInv
<1>3. CountersEnd'
  BY DEF CountersEnd
<1>4. KindInv' /\ SendInv' /\ StoredInv' /\ EndedInv' /\ AskInv' /\ NumbersInv'
      /\ SecondUseNeedsOverlap' /\ SentCodeStays'
  BY DEF SendInv, NumbersInv, CleanInv, SecondUseNeedsOverlap, SentCodeStays
<1> QED
  BY <1>1, <1>2, <1>3, <1>4

LEMMA NextInv == ASSUME IInv, [Next]_vars PROVE IInv'
<1>1. CASE UNCHANGED vars
  BY <1>1 DEF vars, codeVars, sendVars, attemptVars, history, IInv, TypeOK, KindInv, SendInv,
              StoredInv, EndedInv, AskInv, CleanInv, NumbersInv, SecondUseNeedsOverlap,
              SentCodeStays, CountersEnd
<1>2. ASSUME NEW q \in Requests, Request(q) PROVE IInv'
  BY <1>2, ReadCooldownInv, CountSendInv, StartWindowInv, StoreCodeInv, SetCooldownInv,
     ResetAttemptsInv DEF Request
<1>3. ASSUME NEW v \in Verifies, Verify(v) PROVE IInv'
  BY <1>3, CountAttemptInv, LimitAttemptsInv, GetCodeInv, UseCodeInv, ClearAttemptsInv
     DEF Verify
<1> QED
  BY <1>1, <1>2, <1>3, SendCountedAgainInv, AttemptCountedAgainInv, CallFailsInv,
     CodeExpiresInv, CooldownExpiresInv, WindowExpiresInv, AttemptsExpireInv DEF Next

LEMMA Invariance == Spec => []IInv
<1>1. IInv /\ [Next]_vars => IInv'
  BY NextInv
<1> QED
  BY InitInv, <1>1, PTL DEF Spec

\* A set whose members have different numbers from 1 to n has no more than n members.
LEMMA NumberedSet ==
  ASSUME NEW n \in Nat, NEW S, NEW num, \A x \in S : num[x] \in 1..n,
         \A x, y \in S : x # y => num[x] # num[y]
  PROVE  Cardinality(S) <= n
<1> DEFINE f == [x \in S |-> num[x]]
<1>1. f \in Injection(S, 1..n)
  BY DEF Injection, IsInjective
<1>2. IsFiniteSet(1..n) /\ Cardinality(1..n) = n
  BY FS_Interval
<1> QED
  BY <1>1, <1>2, FS_Injection

\* Every variable keeps its type, and no counter with a TTL is empty.
THEOREM TypeCorrect == Spec => []TypeOK
<1>1. IInv => TypeOK
  BY DEF IInv
<1> QED
  BY Invariance, <1>1, PTL

\* generateAndStoreOtp: a window lets no more requests through than sendLimitCount.
THEOREM SendLimitHolds == Spec => []SendsLimited
<1>1. ASSUME IInv PROVE SendsLimited
  <2> DEFINE S == {q \in counted : pc[q] \in {"store", "cooldown", "reset", "sent"}}
  <2>1. \A q \in S : number[q] \in 1..SendLimit
    BY <1>1, LimitsAssumption DEF IInv, TypeOK, SendInv, Calls
  <2>2. \A p, q \in S : p # q => number[p] # number[q]
    BY <1>1 DEF IInv, SendInv
  <2>3. Cardinality(S) <= SendLimit
    BY <2>1, <2>2, NumberedSet, LimitsAssumption
  <2> QED
    BY <2>3 DEF SendsLimited
<1> QED
  BY Invariance, <1>1, PTL

\* verifyOtp: a code that was stored undisturbed is compared with no more attempts made
\* after it was sent than verifyAttemptLimit.
THEOREM AttemptLimitHolds == Spec => []AttemptsLimited
<1>1. ASSUME IInv, NEW q \in clean
      PROVE  Cardinality({v \in Verifies : asked[v] = q /\ q \in ended[v]}) <= AttemptLimit
  <2> DEFINE S == {v \in Verifies : asked[v] = q /\ q \in ended[v]}
  <2>1. \A v \in S : number[v] \in 1..AttemptLimit
    BY <1>1, LimitsAssumption, NilAssumption, CallsAssumption
       DEF IInv, TypeOK, AskInv, Calls, Ended
  <2>2. \A v, w \in S : v # w => number[v] # number[w]
    BY <1>1 DEF IInv, NumbersInv
  <2> QED
    BY <2>1, <2>2, NumberedSet, LimitsAssumption
<1>2. IInv => AttemptsLimited
  BY <1>1 DEF AttemptsLimited
<1> QED
  BY Invariance, <1>2, PTL

\* verifyOtp: a code is used twice only by verifications that overlap.
THEOREM SecondUsesOverlap == Spec => []SecondUseNeedsOverlap
<1>1. IInv => SecondUseNeedsOverlap
  BY DEF IInv
<1> QED
  BY Invariance, <1>1, PTL

\* A code that was stored undisturbed goes only when it is replaced, expires or is used.
THEOREM CodeStays == Spec => []SentCodeStays
<1>1. IInv => SentCodeStays
  BY DEF IInv
<1> QED
  BY Invariance, <1>1, PTL

\* Without a failed command, every counter has a TTL or a call about to set it.
THEOREM CountersHaveEnd == Spec => []CountersEnd
<1>1. IInv => CountersEnd
  BY DEF IInv
<1> QED
  BY Invariance, <1>1, PTL
=============================================================================

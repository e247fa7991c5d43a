--------------------------- MODULE SessionsProofs ---------------------------
(***************************************************************************)
(* RefreshToken implements Sessions, for every number of logins,           *)
(* refreshes, devices and faults: whatever the handlers, the queries and   *)
(* the crashes of the auth service do, a user's tokens take one step of    *)
(* the abstract specification, or none.                                    *)
(*                                                                         *)
(* Every action is mapped by a lemma of its own.  What the mapping needs   *)
(* of the invariant of RefreshTokenProofs is where a call can be when its  *)
(* row is stored, and that the token a refresh reads has a row.            *)
(***************************************************************************)
EXTENDS RefreshTokenProofs

\* A refresh that has not begun has presented no token.
Unpresented == \A r \in Refreshes : pc[r] = "idle" => parent[r] = Nil

LEMMA UnpresentedHolds == Spec => []Unpresented
<1>1. Init => Unpresented
  BY DEF Init, Unpresented, Calls
<1>2. ASSUME IInv, Unpresented, [Next]_vars PROVE Unpresented'
  <2> USE <1>2 DEF IInv, TypeOK, Unpresented, Goto, Calls
  <2>1. CASE UNCHANGED vars
    BY <2>1 DEF vars, callVars
  <2>2. ASSUME NEW l \in Logins, Login(l) PROVE Unpresented'
    BY <2>2, CallsAssumption DEF Login, FindDevice, CreateDevice, IssueToken
  <2>3. ASSUME NEW r \in Refreshes, Present(r) PROVE Unpresented'
    BY <2>3 DEF Present
  <2>4. ASSUME NEW r \in Refreshes, Serve(r) PROVE Unpresented'
    BY <2>4 DEF Serve, ReadRow, Rotate, RevokeAll, Verdict
  <2>5. ASSUME NEW c \in Calls, Finish(c) \/ Expire(c) \/ CallFails(c) PROVE Unpresented'
    BY <2>5 DEF Finish, SetSession, Answer, Expire, CallFails, Running, callVars
  <2>6. CASE Crash
    BY <2>6 DEF Crash
  <2> QED
    BY <2>1, <2>2, <2>3, <2>4, <2>5, <2>6 DEF Next
<1> QED
  BY <1>1, <1>2, Invariance, PTL DEF Spec

\* A step of a call changes the stage of no other refresh.
LEMMA OneStageMoves ==
  ASSUME NEW c \in Calls, \A r \in Refreshes \ {c} : pc'[r] = pc[r]
  PROVE  /\ c \notin Refreshes => Stages' = Stages
         /\ c \in Refreshes => Stages' = [Stages EXCEPT ![c] = Stage(c)']
  BY DEF Stages, Stage

\* A fault that reaches some refreshes drops them.
LEMMA FaultDrops ==
  ASSUME NEW S \in SUBSET Refreshes,
         Fault,
         UNCHANGED <<row, expired, parent>>,
         \A r \in Refreshes : pc'[r] = IF r \in S THEN "failed" ELSE pc[r]
  PROVE  Store!Drop(S)
<1>1. Stages' = [r \in Refreshes |-> IF r \in S THEN "over" ELSE Stages[r]]
  BY DEF Stages, Stage
<1> QED
  BY <1>1 DEF Fault, Store!Drop

\* A login opens its token by IssueToken; the rest of it does not show.
LEMMA LoginImplements ==
  ASSUME IInv, NEW l \in Logins, Login(l)
  PROVE  Store!Open(l) \/ UNCHANGED Store!vars
<1>1. l \in Calls /\ l \notin Refreshes
  BY CallsAssumption DEF Calls
<1>2. /\ \A r \in Refreshes \ {l} : pc'[r] = pc[r]
      /\ UNCHANGED <<expired, parent, faults>>
  BY <1>1 DEF Login, FindDevice, CreateDevice, IssueToken, Goto, storeVars, Calls, IInv, TypeOK
<1>3. Stages' = Stages
  BY <1>1, <1>2, OneStageMoves
<1>4. CASE FindDevice(l) \/ CreateDevice(l)
  BY <1>2, <1>3, <1>4 DEF FindDevice, CreateDevice, storeVars, Store!vars
<1>5. CASE IssueToken(l)
  <2>1. row[l] = "none"
    BY <1>1, <1>5 DEF IssueToken, IInv, CallInv, Stored
  <2> QED
    BY <1>2, <1>3, <1>5, <2>1 DEF IssueToken, Store!Open
<1> QED
  BY <1>4, <1>5 DEF Login

\* What is presented was issued.
LEMMA PresentImplements ==
  ASSUME IInv, Unpresented, NEW r \in Refreshes, Present(r)
  PROVE  Store!Present(r)
<1>1. r \in Calls
  BY DEF Calls
<1>2. PICK t \in Calls :
        /\ Known(t)
        /\ parent' = [parent EXCEPT ![r] = t]
        /\ Goto(r, "read") \/ Goto(r, "refused")
  BY DEF Present
<1>3. row[t] # "none"
  BY <1>2 DEF Known, IInv, CallInv, Stored
<1>4. Stage(r) = "open" /\ Stages[r] = "open" /\ Stage(r)' \in {"open", "over"}
  BY <1>1, <1>2 DEF Present, Goto, Stages, Stage, IInv, TypeOK
<1>5. Stages' = [Stages EXCEPT ![r] = Stage(r)']
  BY <1>1, <1>2, OneStageMoves DEF Goto, Calls, IInv, TypeOK
<1>6. Stages' = Stages \/ Stages' = [Stages EXCEPT ![r] = "over"]
  BY <1>4, <1>5 DEF Stages
<1>7. parent[r] = Nil
  BY DEF Present, Unpresented
<1> QED
  BY <1>2, <1>3, <1>4, <1>6, <1>7
  DEF Present, storeVars, Store!Present, Store!Advance, Store!Tokens, Calls
\* Verdict goes by the row of the token, which was issued.
LEMMA ReadRowImplements ==
  ASSUME IInv, NEW r \in Refreshes, ReadRow(r)
  PROVE  Store!Entitle(r) \/ Store!Alarm(r) \/ Store!Refuse(r)
<1> DEFINE t == parent[r]
<1>1. r \in Calls /\ t \in Calls /\ t # Nil /\ row[t] \in {"live", "revoked"}
  BY NilAssumption DEF ReadRow, Calls, IInv, TypeOK, ChainInv, Known, CallInv, Stored
<1>2. pc' = [pc EXCEPT ![r] = Verdict(t)] /\ UNCHANGED <<row, expired, parent, faults>>
  BY DEF ReadRow, Goto, storeVars
<1>3. Stages[r] = "open" /\ Stages' = [Stages EXCEPT ![r] = Stage(r)']
  BY <1>1, <1>2, OneStageMoves DEF ReadRow, Stages, Stage, IInv, TypeOK
<1>4. pc'[r] = Verdict(t)
  BY <1>1, <1>2 DEF IInv, TypeOK
<1>5. CASE row[t] = "live" /\ t \notin expired
  <2>1. Stage(r)' = "entitled"
    BY <1>4, <1>5 DEF Verdict, Stage
  <2> QED
    BY <1>1, <1>2, <1>3, <1>5, <2>1 DEF Store!Entitle, Store!Advance
<1>6. CASE row[t] = "live" /\ t \in expired
  <2>1. Stage(r)' = "over"
    BY <1>4, <1>6 DEF Verdict, Stage
  <2> QED
    BY <1>1, <1>2, <1>3, <1>6, <2>1 DEF Store!Refuse, Store!Advance
<1>7. CASE row[t] = "revoked"
  <2>1. Stage(r)' = "alarmed"
    BY <1>4, <1>7 DEF Verdict, Stage
  <2> QED
    BY <1>1, <1>2, <1>3, <1>7, <2>1 DEF Store!Alarm, Store!Advance
<1> QED
  BY <1>1, <1>5, <1>6, <1>7

\* The transaction of rotateRefreshToken is one step.
LEMMA RotateImplements ==
  ASSUME IInv, NEW r \in Refreshes, Rotate(r)
  PROVE  Store!Replace(r)
<1>1. r \in Calls /\ row[r] = "none"
  BY DEF Rotate, Calls, IInv, CallInv, Stored
<1>2. Stages[r] = "entitled" /\ Stage(r)' = "over"
  BY <1>1 DEF Rotate, Goto, Stages, Stage, IInv, TypeOK
<1>3. Stages' = [Stages EXCEPT ![r] = "over"]
  BY <1>1, <1>2, OneStageMoves DEF Rotate, Goto, IInv, TypeOK
<1> QED
  BY <1>1, <1>2, <1>3 DEF Rotate, Store!Replace, Store!Advance

LEMMA RevokeAllImplements ==
  ASSUME IInv, NEW r \in Refreshes, RevokeAll(r)
  PROVE  Store!RevokeAll(r)
<1>1. r \in Calls
  BY DEF Calls
<1>2. Stages[r] = "alarmed" /\ Stage(r)' = "over"
  BY <1>1 DEF RevokeAll, Goto, Stages, Stage, IInv, TypeOK
<1>3. Stages' = [Stages EXCEPT ![r] = "over"]
  BY <1>1, <1>2, OneStageMoves DEF RevokeAll, Goto, IInv, TypeOK
<1>4. row' = [c \in Calls |-> IF row[c] = "none" THEN "none" ELSE "revoked"]
  BY DEF RevokeAll, Stored
<1> QED
  BY <1>2, <1>3, <1>4 DEF RevokeAll, Store!RevokeAll, Store!Advance, Store!Tokens, Calls

\* The end of a call, and the end of a token.
LEMMA FinishImplements ==
  ASSUME IInv, NEW c \in Calls, Finish(c) \/ Expire(c)
  PROVE  Store!RunOut(c) \/ UNCHANGED Store!vars
<1>1. CASE Finish(c)
  <2>1. /\ \A r \in Refreshes \ {c} : pc'[r] = pc[r]
        /\ UNCHANGED <<row, expired, parent, faults>>
    BY <1>1 DEF Finish, SetSession, Answer, Goto, storeVars, Calls, IInv, TypeOK
  <2>2. ASSUME c \in Refreshes PROVE Stage(c)' = Stages[c]
    BY <1>1, <2>2 DEF Finish, SetSession, Answer, Goto, Stages, Stage, IInv, TypeOK
  <2>3. Stages' = Stages
    BY <2>1, <2>2, OneStageMoves DEF Stages
  <2> QED
    BY <2>1, <2>3 DEF Store!vars
<1>2. CASE Expire(c)
  BY <1>2 DEF Expire, callVars, Stored, Stages, Stage, Store!RunOut
<1> QED
  BY <1>1, <1>2

\* A failure or a crash takes refreshes out of their way, and touches no token.
LEMMA FaultImplements ==
  ASSUME IInv, (\E c \in Calls : CallFails(c)) \/ Crash
  PROVE  \E S \in SUBSET Refreshes : Store!Drop(S)
<1>1. ASSUME NEW c \in Calls, CallFails(c) PROVE Store!Drop(Refreshes \cap {c})
  <2>1. \A r \in Refreshes :
          pc'[r] = IF r \in Refreshes \cap {c} THEN "failed" ELSE pc[r]
    BY <1>1 DEF CallFails, Goto, Calls, IInv, TypeOK
  <2> QED
    BY <1>1, <2>1, FaultDrops DEF CallFails, storeVars
<1>2. ASSUME Crash PROVE Store!Drop({r \in Refreshes : Running(r)})
  <2>1. \A r \in Refreshes :
          pc'[r] = IF r \in {x \in Refreshes : Running(x)} THEN "failed" ELSE pc[r]
    BY <1>2 DEF Crash, Calls
  <2> QED
    BY <1>2, <2>1, FaultDrops DEF Crash, storeVars
<1> QED
  BY <1>1, <1>2

LEMMA NextImplements ==
  ASSUME IInv, Unpresented, [Next]_vars
  PROVE  [Store!Next]_(Store!vars)
<1>1. CASE UNCHANGED vars
  BY <1>1 DEF vars, storeVars, callVars, Stages, Stage, Store!vars
<1>2. ASSUME NEW l \in Logins, Login(l) PROVE [Store!Next]_(Store!vars)
  BY <1>2, LoginImplements DEF Store!Next
<1>3. ASSUME NEW r \in Refreshes, Present(r) \/ Serve(r) PROVE Store!Next
  BY <1>3, PresentImplements, ReadRowImplements, RotateImplements, RevokeAllImplements
  DEF Serve, Store!Next
<1>4. ASSUME NEW c \in Calls, Finish(c) \/ Expire(c) PROVE [Store!Next]_(Store!vars)
  BY <1>4, FinishImplements DEF Store!Next, Store!Tokens, Calls
<1>5. CASE (\E c \in Calls : CallFails(c)) \/ Crash
  BY <1>5, FaultImplements DEF Store!Next
<1> QED
  BY <1>1, <1>2, <1>3, <1>4, <1>5 DEF Next

\* The auth service keeps a user's tokens as Sessions says: a refresh replaces a token
\* that it found live, a reuse ends them all, and no failure leaves one half-way.
THEOREM RefreshIsSessions == Spec => ImplementsSessions
<1>1. Init => Store!Init
  BY DEF Init, Store!Init, Stages, Stage, Store!Tokens, Calls
<1>2. IInv /\ Unpresented /\ [Next]_vars => [Store!Next]_(Store!vars)
  BY NextImplements
<1> QED
  BY <1>1, <1>2, Invariance, UnpresentedHolds, PTL DEF Spec, ImplementsSessions, Store!Spec
=============================================================================

------------------------- MODULE RefreshTokenProofs -------------------------
(***************************************************************************)
(* What RefreshToken promises for every number of logins, refreshes,       *)
(* devices and faults.  The inductive invariant has four parts: where a    *)
(* call can be once its row is stored, what a login saw of the devices,    *)
(* which token a refresh works on, and what a revoked row goes back to.    *)
(***************************************************************************)
EXTENDS RefreshToken, TLAPS

\* The steps of a call fit its kind, and it has a row exactly from the session step
\* on, which it may keep when it fails.
CallInv ==
  /\ \A l \in Logins : pc[l] \notin {"read", "rotate", "reuse", "refused"}
  /\ \A r \in Refreshes : pc[r] \notin {"create", "issue"}
  /\ \A c \in Calls : Stored(c) => pc[c] \in {"session", "answer", "done", "failed"}
  /\ \A c \in Calls : pc[c] \in {"session", "answer", "done"} => Stored(c)

\* A login that is about to create its device saw none with its fingerprint.
LoginInv ==
  /\ \A l \in Logins : pc[l] = "issue" \/ Stored(l) => device[l] \in devices
  /\ \A l \in devices : pc[l] \notin {"idle", "create"}
  /\ \A l \in Logins : saw[l] \subseteq devices
  /\ \A l \in Logins :
       pc[l] = "create" => \A d \in saw[l] : FingerprintOf[d] # FingerprintOf[l]

\* A refresh that reads works on a token that was answered, for its device.
ChainInv ==
  /\ \A r \in Refreshes :
       device[r] # Nil =>
         /\ pc[r] # "idle"
         /\ parent[r] \in Calls
         /\ Known(parent[r])
         /\ parent[r] # r
         /\ device[r] = device[parent[r]]
  /\ \A r \in Refreshes :
       pc[r] \in {"read", "rotate", "reuse"} \/ Stored(r) => device[r] # Nil

\* A token with a successor is revoked, and a refresh that is about to replace its
\* token saw no successor of it.
ReplaceInv ==
  /\ \A r \in Refreshes : Stored(r) => row[parent[r]] = "revoked"
  /\ \A r \in Refreshes : \A c \in saw[r] : Stored(c)
  /\ \A r1, r2 \in Refreshes :
       /\ r1 # r2
       /\ Stored(r1)
       /\ pc[r2] = "rotate" \/ Stored(r2)
       /\ parent[r1] = parent[r2]
       => r1 \notin saw[r2]

\* A refresh that is about to replace a token revoked with all others had passed
\* its check before.
LateInv ==
  \A r \in Refreshes : pc[r] = "rotate" /\ parent[r] \in purged => r \in late

\* From its SET on, a refresh has taken the session key from its parent.
SessionInv ==
  \A r \in Refreshes : pc[r] \in {"answer", "done"} => session[device[r]] # parent[r]

IInv ==
  /\ TypeOK
  /\ CallInv
  /\ LoginInv
  /\ DoubleNeedsOverlap
  /\ ChainInv
  /\ ReplaceInv
  /\ RevokedForReason
  /\ PurgeHolds
  /\ LateInv
  /\ SessionInv
  /\ HonestClient

-----------------------------------------------------------------------------

LEMMA InitInv == Init => IInv
  BY NilAssumption, FaultsAssumption
  DEF Init, IInv, TypeOK, CallInv, LoginInv, DoubleNeedsOverlap, ChainInv, ReplaceInv,
      RevokedForReason, PurgeHolds, LateInv, SessionInv, HonestClient, Stored, Known, Calls

\* One lemma per action: a step for the types, one for each conjunct that the action can
\* disturb, and a last one for those over the variables that it leaves alone.
LEMMA FindDeviceInv == ASSUME IInv, NEW l \in Logins, FindDevice(l) PROVE IInv'
<1> USE CallsAssumption, NilAssumption
    DEF FindDevice, IInv, TypeOK, CallInv, LoginInv, ChainInv, ReplaceInv, Stored, Known, Calls,
        Goto, storeVars
<1>1. TypeOK'
  BY DEF Matching
<1>2. LoginInv'
  BY DEF Matching
<1>3. DoubleNeedsOverlap'
  BY DEF DoubleNeedsOverlap
<1>4. CallInv' /\ ChainInv' /\ ReplaceInv'
  OBVIOUS
<1>5. RevokedForReason' /\ PurgeHolds' /\ LateInv' /\ SessionInv' /\ HonestClient'
  BY DEF RevokedForReason, PurgeHolds, LateInv, SessionInv, HonestClient
<1> QED
  BY <1>1, <1>2, <1>3, <1>4, <1>5

LEMMA CreateDeviceInv == ASSUME IInv, NEW l \in Logins, CreateDevice(l) PROVE IInv'
<1> USE CallsAssumption, NilAssumption, FaultsAssumption
    DEF CreateDevice, IInv, TypeOK, CallInv, LoginInv, ChainInv, ReplaceInv, Stored, Known,
        Calls, Goto, storeVars, callVars, history
<1>1. TypeOK'
  OBVIOUS
<1>2. LoginInv'
  OBVIOUS
<1>3. DoubleNeedsOverlap'
  BY DEF DoubleNeedsOverlap
<1>4. CallInv' /\ ChainInv' /\ ReplaceInv' /\ RevokedForReason' /\ PurgeHolds' /\ LateInv'
      /\ SessionInv' /\ HonestClient'
  BY DEF RevokedForReason, PurgeHolds, LateInv, SessionInv, HonestClient
<1> QED
  BY <1>1, <1>2, <1>3, <1>4

LEMMA IssueTokenInv == ASSUME IInv, NEW l \in Logins, IssueToken(l) PROVE IInv'
<1> USE CallsAssumption, NilAssumption, FaultsAssumption
    DEF IssueToken, IInv, TypeOK, CallInv, LoginInv, ChainInv, ReplaceInv, Stored, Known, Calls,
        Goto, storeVars, callVars, history
<1>1. TypeOK'
  OBVIOUS
<1>2. CallInv'
  OBVIOUS
<1>3. ReplaceInv'
  OBVIOUS
<1>4. LoginInv' /\ DoubleNeedsOverlap' /\ ChainInv' /\ RevokedForReason' /\ PurgeHolds'
      /\ LateInv' /\ SessionInv' /\ HonestClient'
  BY DEF DoubleNeedsOverlap, RevokedForReason, PurgeHolds, LateInv, SessionInv, HonestClient
<1> QED
  BY <1>1, <1>2, <1>3, <1>4

LEMMA PresentInv == ASSUME IInv, NEW r \in Refreshes, Present(r) PROVE IInv'
<1>1. /\ pc[r] = "idle" /\ device[r] = Nil
      /\ UNCHANGED <<storeVars, faults, history>>
  BY DEF Present, IInv, ChainInv
<1>2. PICK t \in Calls, d \in devices, f \in Fingerprints :
        /\ Known(t)
        /\ parent' = [parent EXCEPT ![r] = t]
        /\ \/ /\ Fits(t, d, f)
              /\ device' = [device EXCEPT ![r] = d]
              /\ Goto(r, "read")
           \/ /\ Goto(r, "refused")
              /\ UNCHANGED device
  BY DEF Present
<1>3. PICK e \in devices \cup {Nil}, step \in {"read", "refused"} :
        /\ device' = [device EXCEPT ![r] = e]
        /\ pc' = [pc EXCEPT ![r] = step]
        /\ step = "read" => e = device[t] /\ e \in devices
        /\ step = "refused" => e = Nil
  BY <1>1, <1>2 DEF Fits, Goto, IInv, TypeOK, Calls
<1> USE CallsAssumption, NilAssumption, FaultsAssumption
    DEF IInv, TypeOK, CallInv, LoginInv, ChainInv, ReplaceInv, Stored, Known, Calls,
        storeVars, callVars, history
<1>4. Known(t) /\ parent' = [parent EXCEPT ![r] = t]
  BY <1>2
<1>5. TypeOK'
  BY <1>1, <1>3, <1>4
<1>6. ChainInv'
  BY <1>1, <1>3, <1>4
<1>7. ReplaceInv'
  BY <1>1, <1>3, <1>4
<1>8. HonestClient'
  <2>1. /\ \A q \in Refreshes :
             device[q] # Nil => device'[q] = device[q] /\ parent'[q] = parent[q]
        /\ \A q \in Refreshes : pc'[q] = "reuse" => pc[q] = "reuse"
        /\ purged' = purged
    BY <1>1, <1>3, <1>4
  <2> QED
    BY <2>1 DEF HonestClient
<1>9. CallInv' /\ LoginInv' /\ DoubleNeedsOverlap'
  BY <1>1, <1>3, <1>4 DEF DoubleNeedsOverlap
<1>10. RevokedForReason' /\ PurgeHolds' /\ LateInv' /\ SessionInv'
  BY <1>1, <1>3, <1>4 DEF RevokedForReason, PurgeHolds, LateInv, SessionInv
<1> QED
  BY <1>5, <1>6, <1>7, <1>8, <1>9, <1>10

LEMMA ReadRowInv == ASSUME IInv, NEW r \in Refreshes, ReadRow(r) PROVE IInv'
<1> USE CallsAssumption, NilAssumption, FaultsAssumption
    DEF ReadRow, Verdict, IInv, TypeOK, CallInv, LoginInv, ChainInv, ReplaceInv, Stored, Known,
        Calls, Goto, storeVars, callVars, history
<1>1. TypeOK'
  OBVIOUS
<1>2. ReplaceInv'
  OBVIOUS
<1>3. LateInv'
  BY DEF PurgeHolds, LateInv
<1>4. HonestClient'
  BY DEF HonestClient, RevokedForReason
<1>5. CallInv' /\ LoginInv' /\ DoubleNeedsOverlap' /\ ChainInv' /\ RevokedForReason'
      /\ PurgeHolds' /\ SessionInv'
  BY DEF DoubleNeedsOverlap, RevokedForReason, PurgeHolds, LateInv, SessionInv
<1> QED
  BY <1>1, <1>2, <1>3, <1>4, <1>5

LEMMA RotateInv == ASSUME IInv, NEW r \in Refreshes, Rotate(r) PROVE IInv'
<1> USE CallsAssumption, NilAssumption, FaultsAssumption
    DEF Rotate, IInv, TypeOK, CallInv, LoginInv, ChainInv, ReplaceInv, Stored, Known, Calls,
        Goto, storeVars, callVars, history
<1>1. TypeOK'
  OBVIOUS
<1>2. CallInv'
  OBVIOUS
<1>3. ChainInv'
  OBVIOUS
<1>4. ReplaceInv'
  OBVIOUS
<1>5. RevokedForReason'
  BY DEF RevokedForReason
<1>6. PurgeHolds'
  BY DEF PurgeHolds, LateInv
<1>7. SessionInv'
  BY DEF SessionInv
<1>8. LoginInv' /\ DoubleNeedsOverlap' /\ LateInv' /\ HonestClient'
  BY DEF DoubleNeedsOverlap, PurgeHolds, LateInv, HonestClient, RevokedForReason
<1> QED
  BY <1>1, <1>2, <1>3, <1>4, <1>5, <1>6, <1>7, <1>8

LEMMA RevokeAllInv == ASSUME IInv, NEW r \in Refreshes, RevokeAll(r) PROVE IInv'
<1> USE CallsAssumption, NilAssumption, FaultsAssumption
    DEF RevokeAll, IInv, TypeOK, CallInv, LoginInv, ChainInv, ReplaceInv, Stored, Known, Calls,
        Goto, storeVars, callVars, history
<1>1. TypeOK'
  OBVIOUS
<1>2. ReplaceInv'
  OBVIOUS
<1>3. RevokedForReason'
  BY DEF RevokedForReason
<1>4. PurgeHolds'
  BY DEF PurgeHolds, LateInv
<1>5. LateInv'
  BY DEF PurgeHolds, LateInv
<1>6. HonestClient'
  BY DEF HonestClient, RevokedForReason
<1>7. CallInv' /\ LoginInv' /\ DoubleNeedsOverlap' /\ ChainInv' /\ SessionInv'
  BY DEF DoubleNeedsOverlap, SessionInv
<1> QED
  BY <1>1, <1>2, <1>3, <1>4, <1>5, <1>6, <1>7

LEMMA SetSessionInv == ASSUME IInv, NEW c \in Calls, SetSession(c) PROVE IInv'
<1> USE CallsAssumption, NilAssumption, FaultsAssumption
    DEF SetSession, IInv, TypeOK, CallInv, LoginInv, ChainInv, ReplaceInv, Stored, Known, Calls,
        Goto, storeVars, callVars, history
<1>1. TypeOK'
  OBVIOUS
<1>2. CallInv'
  OBVIOUS
<1>3. ChainInv'
  OBVIOUS
<1>4. SessionInv'
  BY DEF SessionInv
<1>5. LoginInv' /\ DoubleNeedsOverlap' /\ ReplaceInv' /\ RevokedForReason' /\ PurgeHolds'
      /\ LateInv' /\ HonestClient'
  BY DEF DoubleNeedsOverlap, RevokedForReason, PurgeHolds, LateInv, HonestClient
<1> QED
  BY <1>1, <1>2, <1>3, <1>4, <1>5

LEMMA AnswerInv == ASSUME IInv, NEW c \in Calls, Answer(c) PROVE IInv'
<1> USE CallsAssumption, NilAssumption, FaultsAssumption
    DEF Answer, IInv, TypeOK, CallInv, LoginInv, ChainInv, ReplaceInv, Stored, Known, Calls,
        Goto, storeVars, callVars, history
<1>1. TypeOK'
  OBVIOUS
<1>2. ChainInv'
  OBVIOUS
<1>3. CallInv' /\ LoginInv' /\ DoubleNeedsOverlap' /\ ReplaceInv' /\ RevokedForReason'
      /\ PurgeHolds' /\ LateInv' /\ SessionInv' /\ HonestClient'
  BY DEF DoubleNeedsOverlap, RevokedForReason, PurgeHolds, LateInv, SessionInv, HonestClient
<1> QED
  BY <1>1, <1>2, <1>3

LEMMA ExpireInv == ASSUME IInv, NEW c \in Calls, Expire(c) PROVE IInv'
<1> USE CallsAssumption, NilAssumption, FaultsAssumption
    DEF Expire, IInv, TypeOK, CallInv, LoginInv, ChainInv, ReplaceInv, Stored, Known, Calls,
        Goto, storeVars, callVars, history
<1>1. TypeOK'
  OBVIOUS
<1>2. CallInv' /\ LoginInv' /\ DoubleNeedsOverlap' /\ ChainInv' /\ ReplaceInv'
      /\ RevokedForReason' /\ PurgeHolds' /\ LateInv' /\ SessionInv' /\ HonestClient'
  BY DEF DoubleNeedsOverlap, RevokedForReason, PurgeHolds, LateInv, SessionInv, HonestClient
<1> QED
  BY <1>1, <1>2

LEMMA CallFailsInv == ASSUME IInv, NEW c \in Calls, CallFails(c) PROVE IInv'
<1> USE CallsAssumption, NilAssumption, FaultsAssumption
    DEF CallFails, Running, Fault, IInv, TypeOK, CallInv, LoginInv, ChainInv, ReplaceInv,
        Stored, Known, Calls, Goto, storeVars, callVars, history
<1>1. TypeOK'
  OBVIOUS
<1>2. CallInv'
  OBVIOUS
<1>3. ChainInv'
  OBVIOUS
<1>4. LoginInv' /\ DoubleNeedsOverlap' /\ ReplaceInv' /\ RevokedForReason' /\ PurgeHolds'
      /\ LateInv' /\ SessionInv' /\ HonestClient'
  BY DEF DoubleNeedsOverlap, RevokedForReason, PurgeHolds, LateInv, SessionInv, HonestClient
<1> QED
  BY <1>1, <1>2, <1>3, <1>4

LEMMA CrashInv == ASSUME IInv, Crash PROVE IInv'
<1> USE CallsAssumption, NilAssumption, FaultsAssumption
    DEF Crash, Running, Fault, IInv, TypeOK, CallInv, LoginInv, ChainInv, ReplaceInv, Stored,
        Known, Calls, Goto, storeVars, callVars, history
<1>1. TypeOK'
  OBVIOUS
<1>2. CallInv'
  OBVIOUS
<1>3. ChainInv'
  OBVIOUS
<1>4. LoginInv' /\ DoubleNeedsOverlap' /\ ReplaceInv' /\ RevokedForReason' /\ PurgeHolds'
      /\ LateInv' /\ SessionInv' /\ HonestClient'
  BY DEF DoubleNeedsOverlap, RevokedForReason, PurgeHolds, LateInv, SessionInv, HonestClient
<1> QED
  BY <1>1, <1>2, <1>3, <1>4

LEMMA NextInv == ASSUME IInv, [Next]_vars PROVE IInv'
<1>1. CASE UNCHANGED vars
  BY <1>1 DEF vars, storeVars, callVars, history, IInv, TypeOK, CallInv, LoginInv,
              DoubleNeedsOverlap, ChainInv, ReplaceInv, RevokedForReason, PurgeHolds, LateInv,
              SessionInv, HonestClient, Stored, Known
<1>2. ASSUME NEW l \in Logins, Login(l) PROVE IInv'
  BY <1>2, FindDeviceInv, CreateDeviceInv, IssueTokenInv DEF Login
<1>3. ASSUME NEW r \in Refreshes, Present(r) \/ Serve(r) PROVE IInv'
  BY <1>3, PresentInv, ReadRowInv, RotateInv, RevokeAllInv DEF Serve
<1>4. ASSUME NEW c \in Calls, Finish(c) \/ Expire(c) \/ CallFails(c) PROVE IInv'
  BY <1>4, SetSessionInv, AnswerInv, ExpireInv, CallFailsInv DEF Finish
<1> QED
  BY <1>1, <1>2, <1>3, <1>4, CrashInv DEF Next

LEMMA Invariance == Spec => []IInv
<1>1. IInv /\ [Next]_vars => IInv'
  BY NextInv
<1> QED
  BY InitInv, <1>1, PTL DEF Spec

\* Every variable keeps its type.
THEOREM TypeCorrect == Spec => []TypeOK
<1>1. IInv => TypeOK
  BY DEF IInv
<1> QED
  BY Invariance, <1>1, PTL

\* rotateRefreshToken: a token gets two successors only from rotations that both read
\* it before either replaced it.
THEOREM ForksOverlap == Spec => []ForkNeedsOverlap
<1>1. IInv => ForkNeedsOverlap
  BY DEF IInv, ReplaceInv, ForkNeedsOverlap
<1> QED
  BY Invariance, <1>1, PTL

\* No token is lost half-way: a revoked one has a successor, or was revoked with all.
THEOREM NothingHalfRevoked == Spec => []RevokedForReason
<1>1. IInv => RevokedForReason
  BY DEF IInv
<1> QED
  BY Invariance, <1>1, PTL

\* revokeAllForUser ends every token, and only rotations past their check outlive it.
THEOREM PurgeIsFinal == Spec => []PurgeHolds
<1>1. IInv => PurgeHolds
  BY DEF IInv
<1> QED
  BY Invariance, <1>1, PTL

\* While the clients present each token once, no call takes one for a reuse.
THEOREM HonestStaysIn == Spec => []HonestClient
<1>1. IInv => HonestClient
  BY DEF IInv
<1> QED
  BY Invariance, <1>1, PTL

\* A chain of tokens stays on the device of its login.
THEOREM ChainOnDevice == Spec => []StaysOnDevice
<1>1. IInv => StaysOnDevice
  BY DEF IInv, ChainInv, StaysOnDevice
<1> QED
  BY Invariance, <1>1, PTL

\* upsertDevice: only overlapping logins create a device twice.
THEOREM DoublesOverlap == Spec => []DoubleNeedsOverlap
<1>1. IInv => DoubleNeedsOverlap
  BY DEF IInv
<1> QED
  BY Invariance, <1>1, PTL

\* The session key has left a token behind before its successor is answered.
THEOREM SessionFollows == Spec => []SessionMovesOn
<1>1. IInv => SessionMovesOn
  BY DEF IInv, SessionInv, SessionMovesOn, Known
<1> QED
  BY Invariance, <1>1, PTL

=============================================================================

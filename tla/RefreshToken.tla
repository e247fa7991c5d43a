---------------------------- MODULE RefreshToken ----------------------------
(***************************************************************************)
(* The sessions of one user at the auth service: logins, which find or     *)
(* create a device and issue a refresh token for it, and refreshes, which  *)
(* replace a token by a new one or, when the token was revoked before,     *)
(* revoke every token of the user.                                         *)
(*                                                                         *)
(* A row of a table is named by the call that creates it, and so is the    *)
(* token whose hash it stores.  A query, a transaction, a Redis command    *)
(* and an HTTP response are one step each.  Logins start where the code    *)
(* was right; the user's row, which no code deletes, is left out, and so   *)
(* are the access tokens, which are not stored.                            *)
(***************************************************************************)
EXTENDS Integers

CONSTANTS
  Logins,         \* the calls of verifyOtp
  Refreshes,      \* the calls of refresh
  Fingerprints,   \* the fingerprints of the user's devices
  FingerprintOf,  \* the fingerprint that a login presents
  Nil,            \* no value
  MaxFaults       \* how many errors, crashes and lost answers may happen

Calls == Logins \cup Refreshes

ASSUME CallsAssumption ==
  /\ Logins \cap Refreshes = {}
  /\ FingerprintOf \in [Logins -> Fingerprints]
ASSUME NilAssumption == Nil \notin Calls
ASSUME FaultsAssumption == MaxFaults \in Nat

VARIABLES
  \* PostgreSQL and Redis
  devices,  \* the logins that created a row of devices
  row,      \* the row of a token: none, live or revoked
  expired,  \* the tokens that are past their expiry
  session,  \* the session key of a device: the token it names
  \* the calls
  pc,       \* the next step of a call, or how it ended
  device,   \* the device that a call is for
  parent,   \* the token that a refresh presents
  faults,   \* the errors, crashes and lost answers so far
  \* history, read by no guard
  saw,      \* the rows that were there when a call looked for a row
  purged,   \* the tokens that were there when all were revoked
  late      \* the refreshes that were past their check when all were revoked

storeVars == <<devices, row, expired, session>>
callVars == <<pc, device, parent>>
history == <<saw, purged, late>>
vars == <<storeVars, callVars, faults, history>>

Init ==
  /\ devices = {}
  /\ row = [c \in Calls |-> "none"]
  /\ expired = {}
  /\ session = [l \in Logins |-> Nil]
  /\ pc = [c \in Calls |-> "idle"]
  /\ device = [c \in Calls |-> Nil]
  /\ parent = [r \in Refreshes |-> Nil]
  /\ faults = 0
  /\ saw = [c \in Calls |-> {}]
  /\ purged = {}
  /\ late = {}

Goto(c, step) == pc' = [pc EXCEPT ![c] = step]

Stored(c) == row[c] # "none"
Known(c) == pc[c] = "done"
Running(c) == pc[c] \notin {"idle", "done", "refused", "failed"}

-----------------------------------------------------------------------------
(* A login: upsertDevice, then issueTokens.                                *)

\* Slip: the device is looked up under the name that the login would give it.
MatchingOwn(l) == devices \cap {l}

\* The devices of the user that have the fingerprint of a login.
Matching(l) == {d \in devices : FingerprintOf[d] = FingerprintOf[l]}

\* findFirst takes any row that matches.  The update that follows changes no
\* more than names and dates.
FindDevice(l) ==
  /\ pc[l] = "idle"
  /\ saw' = [saw EXCEPT ![l] = devices]
  /\ \/ /\ Matching(l) = {}
        /\ Goto(l, "create")
        /\ UNCHANGED device
     \/ \E d \in Matching(l) :
          /\ device' = [device EXCEPT ![l] = d]
          /\ Goto(l, "issue")
  /\ UNCHANGED <<storeVars, parent, faults, purged, late>>

CreateDevice(l) ==
  /\ pc[l] = "create"
  /\ devices' = devices \cup {l}
  /\ device' = [device EXCEPT ![l] = l]
  /\ Goto(l, "issue")
  /\ UNCHANGED <<row, expired, session, parent, faults, history>>

IssueToken(l) ==
  /\ pc[l] = "issue"
  /\ row' = [row EXCEPT ![l] = "live"]
  /\ Goto(l, "session")
  /\ UNCHANGED <<devices, expired, session, device, parent, faults, history>>

-----------------------------------------------------------------------------
(* A refresh: AuthService.refresh, then rotateRefreshToken.                *)

\* Slip: the payload's deviceId is not compared.
FitsAnyDevice(t, d, f) ==
  /\ t \notin expired
  /\ FingerprintOf[d] = f

\* The client's token fits the device it names: the JWT has not expired, the
\* device has the client's fingerprint, and the token was issued for it.
Fits(t, d, f) ==
  /\ t \notin expired
  /\ FingerprintOf[d] = f
  /\ device[t] = d

\* A client presents a token that it was given, and a device with its
\* fingerprint.
Present(r) ==
  /\ pc[r] = "idle"
  /\ \E t \in Calls, d \in devices, f \in Fingerprints :
       /\ Known(t)
       /\ parent' = [parent EXCEPT ![r] = t]
       /\ \/ /\ Fits(t, d, f)
             /\ device' = [device EXCEPT ![r] = d]
             /\ Goto(r, "read")
          \/ /\ ~Fits(t, d, f)
             /\ Goto(r, "refused")
             /\ UNCHANGED device
  /\ UNCHANGED <<storeVars, faults, history>>

\* Slip: the state of the row is passed on as it is.
RawVerdict(t) == IF row[t] = "revoked" THEN "revoked" ELSE "rotate"

\* Slip: the row is only looked at for its expiry.
VerdictByExpiry(t) == IF t \in expired THEN "refused" ELSE "rotate"

\* Slip: any token that is no longer valid counts as a reuse.
VerdictExpiryIsReuse(t) ==
  IF row[t] = "revoked" \/ t \in expired THEN "reuse" ELSE "rotate"

\* What the token's row decides.
Verdict(t) ==
  CASE row[t] = "revoked" -> "reuse"
    [] row[t] = "live" /\ t \in expired -> "refused"
    [] OTHER -> "rotate"

ReadRow(r) ==
  /\ pc[r] = "read"
  /\ Goto(r, Verdict(parent[r]))
  /\ saw' = [saw EXCEPT ![r] = {c \in Calls : Stored(c)}]
  /\ UNCHANGED <<storeVars, device, parent, faults, purged, late>>

\* Slip: no transaction, and the old token is revoked first.
RotateInTwoSteps(r) ==
  /\ pc[r] = "rotate"
  /\ LET old == parent[r] IN
       IF row[old] = "live"
       THEN /\ row' = [row EXCEPT ![old] = "revoked"]
            /\ UNCHANGED pc
       ELSE /\ row' = [row EXCEPT ![r] = "live"]
            /\ Goto(r, "session")
  /\ UNCHANGED <<devices, expired, session, device, parent, faults, history>>

\* The transaction: the old row is revoked, the new one created.  It does not
\* look at the old row again.
Rotate(r) ==
  /\ pc[r] = "rotate"
  /\ row' = [row EXCEPT ![parent[r]] = "revoked", ![r] = "live"]
  /\ Goto(r, "session")
  /\ UNCHANGED <<devices, expired, session, device, parent, faults, history>>

\* Slip: revokeRefreshToken is called instead, with the token presented.
RevokePresented(r) ==
  /\ pc[r] = "reuse"
  /\ row' = [row EXCEPT ![parent[r]] = "revoked"]
  /\ purged' = {c \in Calls : Stored(c)}
  /\ late' = late \cup {c \in Refreshes : pc[c] = "rotate"}
  /\ Goto(r, "refused")
  /\ UNCHANGED <<devices, expired, session, device, parent, faults, saw>>

\* revokeAllForUser: every row of the user, those of other devices included.
RevokeAll(r) ==
  /\ pc[r] = "reuse"
  /\ row' = [c \in Calls |-> IF Stored(c) THEN "revoked" ELSE "none"]
  /\ purged' = {c \in Calls : Stored(c)}
  /\ late' = late \cup {c \in Refreshes : pc[c] = "rotate"}
  /\ Goto(r, "refused")
  /\ UNCHANGED <<devices, expired, session, device, parent, faults, saw>>

-----------------------------------------------------------------------------
(* Both end alike.                                                         *)

\* Slip: a rotation leaves the session key as the login set it.
SetAtLogin(c) ==
  /\ pc[c] = "session"
  /\ session' = IF c \in Logins THEN [session EXCEPT ![device[c]] = c] ELSE session
  /\ Goto(c, "answer")
  /\ UNCHANGED <<devices, row, expired, device, parent, faults, history>>

SetSession(c) ==
  /\ pc[c] = "session"
  /\ session' = [session EXCEPT ![device[c]] = c]
  /\ Goto(c, "answer")
  /\ UNCHANGED <<devices, row, expired, device, parent, faults, history>>

Answer(c) ==
  /\ pc[c] = "answer"
  /\ Goto(c, "done")
  /\ UNCHANGED <<storeVars, device, parent, faults, history>>

Expire(c) ==
  /\ Stored(c)
  /\ c \notin expired
  /\ expired' = expired \cup {c}
  /\ UNCHANGED <<devices, row, session, callVars, faults, history>>

Fault == faults < MaxFaults /\ faults' = faults + 1

\* A query, a command or the answer fails.  A failure after the effect is one of
\* the next step.
CallFails(c) ==
  /\ Fault
  /\ Running(c)
  /\ Goto(c, "failed")
  /\ UNCHANGED <<storeVars, device, parent, history>>

\* The process ends, and with it every call.
Crash ==
  /\ Fault
  /\ \E c \in Calls : Running(c)
  /\ pc' = [c \in Calls |-> IF Running(c) THEN "failed" ELSE pc[c]]
  /\ UNCHANGED <<storeVars, device, parent, history>>

-----------------------------------------------------------------------------

Login(l) == FindDevice(l) \/ CreateDevice(l) \/ IssueToken(l)
Serve(r) == ReadRow(r) \/ Rotate(r) \/ RevokeAll(r)
Finish(c) == SetSession(c) \/ Answer(c)

Next ==
  \/ \E l \in Logins : Login(l)
  \/ \E r \in Refreshes : Present(r) \/ Serve(r)
  \/ \E c \in Calls : Finish(c) \/ Expire(c) \/ CallFails(c)
  \/ Crash

Spec == Init /\ [][Next]_vars

-----------------------------------------------------------------------------
(* Correctness.                                                            *)

\* Every variable has its type: the domain that the proofs start from.
TypeOK ==
  /\ devices \in SUBSET Logins
  /\ row \in [Calls -> {"none", "live", "revoked"}]
  /\ expired \in SUBSET Calls
  /\ session \in [Logins -> Calls \cup {Nil}]
  /\ pc \in [Calls -> {"idle", "create", "issue", "read", "rotate", "reuse", "session",
                       "answer", "done", "refused", "failed"}]
  /\ device \in [Calls -> Logins \cup {Nil}]
  /\ parent \in [Refreshes -> Calls \cup {Nil}]
  /\ faults \in 0..MaxFaults
  /\ saw \in [Calls -> SUBSET Calls]
  /\ purged \in SUBSET Calls
  /\ late \in SUBSET Refreshes

\* rotateRefreshToken: a token gets a second successor only if both rotations had
\* read its row before either replaced it.
ForkNeedsOverlap ==
  \A r1, r2 \in Refreshes :
    r1 # r2 /\ Stored(r1) /\ Stored(r2) /\ parent[r1] = parent[r2] => r1 \notin saw[r2]

\* The transaction of rotateRefreshToken, and revokeAllForUser: a token is revoked
\* only when its successor exists, or with all others.  A call that stops half-way
\* leaves its client the old token.
RevokedForReason ==
  \A c \in Calls :
    row[c] = "revoked" => c \in purged \/ \E r \in Refreshes : Stored(r) /\ parent[r] = c

\* revokeAllForUser: what it revoked stays so, and yields no further token, except to
\* a rotation that had passed its check by then.
PurgeHolds ==
  /\ \A c \in purged : row[c] = "revoked"
  /\ \A r \in Refreshes : Stored(r) /\ parent[r] \in purged => r \in purged \cup late

\* The check of revoked in rotateRefreshToken: as long as no token is presented twice
\* for its device, nothing is taken for a reuse, whatever fails or expires.
HonestClient ==
  (\A r1, r2 \in Refreshes :
     r1 # r2 /\ device[r1] # Nil /\ device[r2] # Nil => parent[r1] # parent[r2])
  => purged = {} /\ \A r \in Refreshes : pc[r] # "reuse"

\* The checks of the fingerprint and of the payload's deviceId: a successor belongs to
\* the device of the login that its chain began with.
StaysOnDevice ==
  \A r \in Refreshes : Stored(r) => device[r] = device[parent[r]]

\* upsertDevice: a fingerprint gets a second device only from logins that overlap.
DoubleNeedsOverlap ==
  \A d1, d2 \in devices :
    d1 # d2 /\ FingerprintOf[d1] = FingerprintOf[d2] => d1 \notin saw[d2]

\* The SETs of issueTokens and rotateRefreshToken: once a refresh is answered, the
\* session key does not name the token that it replaced.
SessionMovesOn ==
  \A r \in Refreshes : Known(r) => session[device[r]] # parent[r]

\* What a refresh is entitled to by the row that it read.
Stage(r) ==
  CASE pc[r] \in {"idle", "read"} -> "open"
    [] pc[r] = "rotate" -> "entitled"
    [] pc[r] = "reuse" -> "alarmed"
    [] OTHER -> "over"

Stages == [r \in Refreshes |-> Stage(r)]

\* The service seen as the tokens of the user, with a mishap for each fault.
Store == INSTANCE Sessions WITH
  MaxMishaps <- MaxFaults,
  state <- row,
  ended <- expired,
  token <- parent,
  stage <- Stages,
  mishaps <- faults

\* Whatever a handler, a query or a crash does, it is one step of the tokens: a live
\* token is replaced, by a refresh that found it live and not expired, a token is
\* revoked for nothing only with all others, by one that found its own revoked, and
\* no failure leaves a token half-way.
ImplementsSessions == Store!Spec

\* "Refresh token reuse detected" (token.service.ts:146): the presented token had been
\* replaced before.
ReuseMeansReplaced ==
  \A r \in Refreshes :
    pc[r] = "reuse" => \E s \in Refreshes : Stored(s) /\ parent[s] = parent[r]

=============================================================================

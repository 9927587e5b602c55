------------------------------- MODULE Logins --------------------------------
(***************************************************************************)
(* One account's logins: LoginSubmit (src/console/handlers/auth.go), the   *)
(* sessions it creates (src/pkg/auth/session.go) and the edits of the      *)
(* identity that write its flags back (src/pkg/services/identities.go).    *)
(*                                                                         *)
(* A login reads the flags, verifies the password, which takes long, and   *)
(* then counts or clears failures and locks in statements of their own,    *)
(* whose errors it ignores.  An edit reads the row, changes some fields    *)
(* and writes every column, account_locked among them.                     *)
(***************************************************************************)
EXTENDS Naturals, FiniteSets

CONSTANTS
    LoginFailureThreshold,  \* 10 in the code
    LoginRequests,
    Tokens,                 \* sessions that can be created
    MaxFailures             \* bound on bad_password_count

ASSUME ThresholdAssumption == LoginFailureThreshold \in Nat \ {0}
ASSUME MaxFailuresAssumption == MaxFailures \in Nat
ASSUME LoginRequestsAssumption == IsFiniteSet(LoginRequests)

VARIABLES
    enabled,    \* account_enabled
    locked,     \* account_locked
    removed,    \* deleted_at is set
    failures,   \* bad_password_count
    session,    \* session[t]: "none", "active" or "ended"
    lreq,       \* lreq[r]: where request r is and the flags it has read
    wrong,      \* history: wrong passwords verified since the last login
                \* that succeeded and the last edit that unlocked
    missed,     \* history: a statement has failed since then
    unlocked    \* history: an edit, or a lock statement that failed, has
                \* left the account unlocked whatever failures says

loginVars == <<enabled, locked, removed, failures, session, lreq, wrong,
               missed, unlocked>>

LoginIdle == [pc |-> "idle", enabled |-> TRUE, locked |-> FALSE]

LoginsTypeOK ==
    /\ {enabled, locked, removed, missed, unlocked} \subseteq BOOLEAN
    /\ failures \in 0..MaxFailures
    /\ session \in [Tokens -> {"none", "active", "ended"}]
    /\ lreq \in [LoginRequests ->
                   [pc : {"idle", "verify", "failure", "lock", "success",
                          "session", "edit"},
                    enabled : BOOLEAN, locked : BOOLEAN]]
    /\ wrong \in Nat

LoginsInit ==
    /\ enabled = TRUE
    /\ locked = FALSE
    /\ removed = FALSE
    /\ failures = 0
    /\ session = [t \in Tokens |-> "none"]
    /\ lreq = [r \in LoginRequests |-> LoginIdle]
    /\ wrong = 0
    /\ missed = FALSE
    /\ unlocked = FALSE

LoginAt(r, label) == lreq[r].pc = label

LoginMove(r, label) == lreq' = [lreq EXCEPT ![r].pc = label]

Flags == <<enabled, locked, removed>>

History == <<wrong, missed, unlocked>>

(* A statement fails: nothing is counted until the history starts anew.    *)
Missed == missed' = TRUE /\ wrong' = 0

-----------------------------------------------------------------------------
(* LoginSubmit.                                                            *)

(* Mutant: the lock is not looked at.                                      *)
LoginReadUnlocked(r) ==
    /\ LoginAt(r, "idle")
    /\ enabled /\ ~removed
    /\ LoginMove(r, "verify")
    /\ UNCHANGED <<Flags, failures, session, History>>

(* GetByEmailGlobal, of an address one identity has, and the two flags.    *)
LoginRead(r) ==
    /\ LoginAt(r, "idle")
    /\ enabled /\ ~locked /\ ~removed
    /\ LoginMove(r, "verify")
    /\ UNCHANGED <<Flags, failures, session, History>>

(* GetIdentity reads the hash of an identity that is not deleted, and      *)
(* VerifyPassword compares; the flags are not read again.                  *)
Verify(r) ==
    /\ LoginAt(r, "verify")
    /\ \/ /\ removed
          /\ LoginMove(r, "idle")
          /\ UNCHANGED wrong
       \/ /\ ~removed
          /\ LoginMove(r, "success")
          /\ UNCHANGED wrong
       \/ /\ ~removed
          /\ failures + Cardinality({s \in LoginRequests :
                                       LoginAt(s, "failure")}) < MaxFailures
          /\ LoginMove(r, "failure")
          /\ wrong' = IF missed THEN 0 ELSE wrong + 1
    /\ UNCHANGED <<Flags, failures, session, missed, unlocked>>

(* RecordLoginFailure; when it fails the lock statement runs all the same. *)
RecordLoginFailure(r) ==
    /\ LoginAt(r, "failure")
    /\ LoginMove(r, "lock")
    /\ \/ failures' = failures + 1 /\ UNCHANGED <<missed, wrong>>
       \/ Missed /\ UNCHANGED failures
    /\ UNCHANGED <<Flags, session, unlocked>>

(* Mutant: the account is locked one failure late.                         *)
ExceededLate == failures > LoginFailureThreshold

Exceeded == failures >= LoginFailureThreshold

(* LockIdentityIfThresholdExceeded.                                        *)
LockIfExceeded(r) ==
    /\ LoginAt(r, "lock")
    /\ LoginMove(r, "idle")
    /\ \/ /\ locked' = (locked \/ Exceeded)
          /\ unlocked' = (unlocked /\ ~Exceeded)
          /\ UNCHANGED <<missed, wrong>>
       \/ /\ Missed
          /\ unlocked' = TRUE
          /\ UNCHANGED locked
    /\ UNCHANGED <<enabled, removed, failures, session>>

(* RecordLoginSuccess.                                                     *)
RecordLoginSuccess(r) ==
    /\ LoginAt(r, "success")
    /\ LoginMove(r, "session")
    /\ \/ /\ failures' = 0
          /\ wrong' = 0
          /\ missed' = FALSE
          /\ unlocked' = FALSE
       \/ UNCHANGED <<failures, History>>
    /\ UNCHANGED <<Flags, session>>

(* SessionManager.Create.                                                  *)
CreateSession(r, t) ==
    /\ LoginAt(r, "session")
    /\ session[t] = "none"
    /\ session' = [session EXCEPT ![t] = "active"]
    /\ LoginMove(r, "idle")
    /\ UNCHANGED <<Flags, failures, History>>

(* Logout revokes it, or its time is up.                                   *)
EndSession(t) ==
    /\ session[t] = "active"
    /\ session' = [session EXCEPT ![t] = "ended"]
    /\ UNCHANGED <<Flags, failures, lreq, History>>

-----------------------------------------------------------------------------
(* UpdateFields and the other edits: the row as read, with what the form   *)
(* changes.                                                                *)
EditRead(r, e, l) ==
    /\ LoginAt(r, "idle")
    /\ ~removed
    /\ lreq' = [lreq EXCEPT ![r] = [pc |-> "edit", enabled |-> e,
                                    locked |-> l]]
    /\ UNCHANGED <<Flags, failures, session, History>>

(* UpdateIdentity writes both flags; bad_password_count stays.             *)
EditWrite(r) ==
    LET q == lreq[r]
        unlocks == locked /\ ~q.locked IN
    /\ LoginAt(r, "edit")
    /\ enabled' = q.enabled
    /\ locked' = q.locked
    /\ unlocked' = (unlocked \/ unlocks)
    /\ wrong' = IF unlocks THEN 0 ELSE wrong
    /\ missed' = (missed /\ ~unlocks)
    /\ lreq' = [lreq EXCEPT ![r] = LoginIdle]
    /\ UNCHANGED <<removed, failures, session>>

(* The identity is soft deleted or restored.                               *)
RemoveOrRestore ==
    /\ removed' = ~removed
    /\ UNCHANGED <<enabled, locked, failures, session, lreq, History>>

(* The process dies, or the session cannot be created.                     *)
LoginFail(r) ==
    /\ ~LoginAt(r, "idle")
    /\ lreq' = [lreq EXCEPT ![r] = LoginIdle]
    /\ Missed
    /\ unlocked' = (unlocked \/ LoginAt(r, "lock"))
    /\ UNCHANGED <<Flags, failures, session>>

LoginStep(r) ==
    \/ LoginRead(r) \/ Verify(r)
    \/ RecordLoginFailure(r) \/ LockIfExceeded(r)
    \/ RecordLoginSuccess(r) \/ \E t \in Tokens : CreateSession(r, t)
    \/ \E e, l \in BOOLEAN : EditRead(r, e, l)
    \/ EditWrite(r) \/ LoginFail(r)

LoginsNext ==
    \/ \E r \in LoginRequests : LoginStep(r)
    \/ \E t \in Tokens : EndSession(t)
    \/ RemoveOrRestore

LoginsSpec == LoginsInit /\ [][LoginsNext]_loginVars

-----------------------------------------------------------------------------
(* "LoginFailureThreshold locks an account after this many consecutive     *)
(* failed login attempts": with that many counted it is locked, unless the *)
(* statement that locks it is still to come or an edit or a failure has    *)
(* left it unlocked since.                                                 *)
LockedAtThreshold ==
    failures >= LoginFailureThreshold =>
        \/ locked
        \/ unlocked
        \/ \E r \in LoginRequests : LoginAt(r, "lock")

(* However logins overlap, no more wrong passwords are tried against the   *)
(* account than the threshold and one for every other login that had read  *)
(* the flags before the lock.                                              *)
GuessesBounded ==
    missed \/ wrong < LoginFailureThreshold + Cardinality(LoginRequests)

(* The lockout: it comes at the threshold, and it bounds the guesses.      *)
LockoutHolds == LockedAtThreshold /\ GuessesBounded

=============================================================================

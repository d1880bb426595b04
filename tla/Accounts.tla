------------------------------ MODULE Accounts ------------------------------
(***************************************************************************)
(* One account of one node: login against the lockout of                   *)
(* src/src/state.rs, sessions, the change of the password from the page,   *)
(* from the master and from the command line (src/src/auth.rs,             *)
(* src/src/cluster/server.rs, src/src/main.rs).                            *)
(*                                                                         *)
(* A request is one HTTP call or one run of the command line; the session  *)
(* it makes carries its name.  A password stands for its Argon2 hash too:  *)
(* verify_password accepts exactly the password that was hashed.           *)
(***************************************************************************)
EXTENDS Naturals, FiniteSets

CONSTANTS
    Reqs,          \* the requests, each made at most once
    Passwords, Initial,
    None,
    MaxFailures,   \* MAX_LOGIN_FAILURES: 3 in the code
    MaxActive,     \* bound: requests in progress at once
    MaxRestarts    \* bound: restarts of the server

VARIABLES
    stored,        \* users.password_hash
    sessions,      \* the sessions rows
    stale,         \* those not used for two hours
    failures,      \* LoginEntry.failures
    lock,          \* LoginEntry.locked_until: "open", "locked", or "over" when it has passed
    pc, kind,
    given, seen, fresh,   \* the password sent, the hash read, the new password
    changes,       \* how often the stored password was replaced (never read by the code)
    issued,        \* the value of changes when a session was made (never read)
    tries,         \* wrong guesses since the account was last open to all (never read)
    restarts

guard == <<failures, lock, tries>>
call  == <<kind, given, seen, fresh>>
vars  == <<stored, sessions, stale, guard, pc, call, changes, issued, restarts>>

Ended == {"ok", "failed", "refused", "lost"}
Kinds == {"login", "change", "sync", "cli", "issue"}

TypeOK ==
    /\ stored \in Passwords
    /\ sessions \subseteq Reqs /\ stale \subseteq sessions
    /\ failures \in 0..(MaxFailures - 1) /\ lock \in {"open", "locked", "over"}
    /\ pc \in [Reqs -> {"idle", "verify", "hash", "purge"} \cup Ended]
    /\ kind \in [Reqs -> Kinds \cup {None}]
    /\ given \in [Reqs -> Passwords \cup {None}] /\ seen \in [Reqs -> Passwords \cup {None}]
    /\ fresh \in [Reqs -> Passwords \cup {None}]
    /\ changes \in 0..Cardinality(Reqs) /\ issued \in [Reqs -> Nat]
    /\ tries \in Nat /\ restarts \in 0..MaxRestarts

\* ensure_initial_admin has made the account before the server listens.
Init ==
    /\ stored = Initial /\ sessions = {} /\ stale = {}
    /\ failures = 0 /\ lock = "open" /\ tries = 0
    /\ pc = [r \in Reqs |-> "idle"]
    /\ kind = [r \in Reqs |-> None] /\ given = [r \in Reqs |-> None]
    /\ seen = [r \in Reqs |-> None] /\ fresh = [r \in Reqs |-> None]
    /\ changes = 0 /\ issued = [r \in Reqs |-> 0] /\ restarts = 0
-----------------------------------------------------------------------------
Active == {r \in Reqs : pc[r] \notin Ended \cup {"idle"}}

\* Runs of the command line: processes of their own.
Outside == {"cli", "issue"}

\* The server's connection is one mutex; another process has its own.
DbFree(r) == \A q \in Reqs \ {r} : pc[q] = "purge" => kind[q] \in Outside \/ kind[r] \in Outside

Begin(r, k, p, n, s) ==
    /\ pc[r] = "idle" /\ Cardinality(Active) < MaxActive
    /\ \A q \in Reqs : pc[q] = "purge" => kind[q] \in Outside \/ k \in Outside
    /\ kind' = [kind EXCEPT ![r] = k]
    /\ given' = [given EXCEPT ![r] = p] /\ fresh' = [fresh EXCEPT ![r] = n]
    /\ seen' = [seen EXCEPT ![r] = stored]
    /\ pc' = [pc EXCEPT ![r] = s]
    /\ UNCHANGED <<stored, changes, restarts, failures, lock, tries>>

\* Mutant: a failure never locks while an earlier lock has not been cleared.
RecordFailureOnce ==
    LET n == failures + 1 IN
    /\ failures' = IF n >= MaxFailures THEN 0 ELSE n
    /\ lock' = IF n >= MaxFailures /\ lock = "open" THEN "locked" ELSE "open"
    /\ tries' = tries + 1

\* Mutant: the count goes on after a lock.
RecordFailureUnbounded ==
    /\ failures' = failures + 1
    /\ lock' = IF failures + 1 >= MaxFailures THEN "locked" ELSE lock
    /\ tries' = tries + 1

\* LoginGuard::record_failure
RecordFailure ==
    LET n == (IF lock = "over" THEN 0 ELSE failures) + 1 IN
    /\ failures' = IF n >= MaxFailures THEN 0 ELSE n
    /\ lock' = IF n >= MaxFailures THEN "locked" ELSE IF lock = "over" THEN "open" ELSE lock
    /\ tries' = tries + 1

\* login: the lockout is asked and the hash is read before the await.
Login(r) ==
    /\ \E p \in Passwords : Begin(r, "login", p, None, IF lock = "locked" THEN "refused" ELSE "verify")
    /\ UNCHANGED <<sessions, stale, issued>>

IssueSession(r) ==
    /\ sessions' = sessions \cup {r}
    /\ issued' = [issued EXCEPT ![r] = changes]
    /\ UNCHANGED stale

\* login after verify_password: a right password clears the entry, locked or not.
VerifyLogin(r) ==
    /\ pc[r] = "verify" /\ kind[r] = "login" /\ DbFree(r)
    /\ \/ /\ given[r] = seen[r] /\ IssueSession(r)
          /\ failures' = 0 /\ lock' = "open" /\ tries' = 0
          /\ pc' = [pc EXCEPT ![r] = "ok"]
       \/ /\ given[r] # seen[r] /\ RecordFailure
          /\ pc' = [pc EXCEPT ![r] = "failed"]
          /\ UNCHANGED <<sessions, stale, issued>>
    /\ UNCHANGED <<stored, call, changes, restarts>>

\* change_password: current_user deletes a stale session and touches any other.
ChangePassword(r) ==
    \E t \in Reqs, p, n \in Passwords :
        /\ pc[t] # "idle"
        /\ LET known == t \in sessions \ stale IN
           /\ Begin(r, "change", p, n, IF known THEN "verify" ELSE "refused")
           /\ sessions' = sessions \ ({t} \cap stale) /\ stale' = stale \ {t}
        /\ UNCHANGED issued

VerifyChange(r) ==
    /\ pc[r] = "verify" /\ kind[r] = "change"
    /\ pc' = [pc EXCEPT ![r] = IF given[r] = seen[r] THEN "hash" ELSE "failed"]
    /\ UNCHANGED <<stored, sessions, stale, guard, call, changes, issued, restarts>>

\* auth_sync from the master, and reset-password or change-password on the host.
ReplacePassword(r) ==
    /\ \E k \in {"sync", "cli"}, n \in Passwords : Begin(r, k, None, n, "hash")
    /\ UNCHANGED <<sessions, stale, issued>>

\* issue-session on the host asks for no password.
IssueSessionCli(r) ==
    /\ pc[r] = "idle" /\ IssueSession(r)
    /\ Begin(r, "issue", None, None, "ok")

\* db::update_password_hash, then db::delete_sessions_for_user: two
\* autocommitted statements under one guard.
UpdateHash(r) ==
    /\ pc[r] = "hash" /\ DbFree(r)
    /\ stored' = fresh[r] /\ changes' = changes + 1
    /\ pc' = [pc EXCEPT ![r] = "purge"]
    /\ UNCHANGED <<sessions, stale, guard, call, issued, restarts>>

\* Mutant: only the caller's own session ends.
DeleteOwnSession(r) ==
    /\ pc[r] = "purge"
    /\ sessions' = sessions \ {r} /\ stale' = stale \ {r}
    /\ pc' = [pc EXCEPT ![r] = "ok"]
    /\ UNCHANGED <<stored, guard, call, changes, issued, restarts>>

DeleteSessions(r) ==
    /\ pc[r] = "purge"
    /\ sessions' = {} /\ stale' = {}
    /\ pc' = [pc EXCEPT ![r] = "ok"]
    /\ UNCHANGED <<stored, guard, call, changes, issued, restarts>>

\* require_auth of a stale session, or logout.
EndSession(t) ==
    /\ t \in sessions /\ \A q \in Reqs : pc[q] = "purge" => kind[q] \in Outside
    /\ sessions' = sessions \ {t} /\ stale' = stale \ {t}
    /\ UNCHANGED <<stored, guard, pc, call, changes, issued, restarts>>

\* Two hours without a request of session t.
Idle(t) ==
    /\ t \in sessions \ stale /\ stale' = stale \cup {t}
    /\ UNCHANGED <<stored, sessions, guard, pc, call, changes, issued, restarts>>

\* The three minutes are over.
LockExpires ==
    /\ lock = "locked" /\ lock' = "over" /\ tries' = 0
    /\ UNCHANGED <<stored, sessions, stale, failures, pc, call, changes, issued, restarts>>

\* The lockout is kept in memory, the sessions are not.
Restart ==
    /\ restarts < MaxRestarts /\ restarts' = restarts + 1
    /\ failures' = 0 /\ lock' = "open" /\ tries' = 0
    /\ pc' = [r \in Reqs |-> IF r \in Active /\ kind[r] \notin Outside THEN "lost" ELSE pc[r]]
    /\ UNCHANGED <<stored, sessions, stale, call, changes, issued>>

\* Every request has been made and has ended.
Rest == (\A r \in Reqs : pc[r] \in Ended) /\ UNCHANGED vars

Next ==
    \/ \E r \in Reqs :
          \/ Login(r) \/ VerifyLogin(r) \/ ChangePassword(r) \/ VerifyChange(r)
          \/ ReplacePassword(r) \/ IssueSessionCli(r) \/ UpdateHash(r) \/ DeleteSessions(r)
          \/ EndSession(r) \/ Idle(r)
    \/ LockExpires \/ Restart \/ Rest

Spec == Init /\ [][Next]_vars
-----------------------------------------------------------------------------
\* However many attempts run in parallel, at most MaxFailures guesses and one
\* more for every other attempt in progress are answered before the account is
\* locked: login asks for the lockout before it verifies and counts after it.
GuessBudget == tries < MaxFailures + MaxActive

\* A session made before the last change of the password is gone when the
\* change is done (README: all old logins end), whoever made the change.  A
\* restart between the two statements leaves them, so this is of runs without.
OldSessionsEnd ==
    (restarts = 0 /\ \A r \in Reqs : pc[r] # "purge") => \A s \in sessions : issued[s] = changes
=============================================================================

------------------------------ MODULE Sessions ------------------------------
(***************************************************************************)
(* Users who race: for the file the online editor edits, as ComposeEditor  *)
(* has it, and for the account of the node.  The two share nothing: `comp` *)
(* says which one a behaviour is about, so their states add up and do not  *)
(* multiply.                                                               *)
(***************************************************************************)
EXTENDS ComposeEditor

CONSTANTS Passwords, Initial, MaxFailures, MaxActive, MaxRestarts

\* At least one guess is free, and the requests are not endless.
ASSUME AccountAssumption ==
    /\ Initial \in Passwords /\ IsFiniteSet(Reqs)
    /\ MaxFailures \in Nat \ {0} /\ MaxActive \in Nat /\ MaxRestarts \in Nat

VARIABLES
    comp,
    stored, sessions, stale, failures, lockout, step, kind, given, seen, fresh, changes, issued, tries, restarts

account == <<stored, sessions, stale, failures, lockout, step, kind, given, seen, fresh, changes, issued, tries, restarts>>
all     == <<comp, vars, account>>

A == INSTANCE Accounts WITH lock <- lockout, pc <- step

\* What is not looked at is in one of its initial states.
UsersInit ==
    /\ comp \in {"editor", "account"} /\ Init /\ A!Init
    /\ comp = "account" => open /\ \A n \in Name : files[n] = Absent

UsersNext ==
    \/ comp = "editor" /\ Next /\ UNCHANGED <<comp, account>>
    \/ comp = "account" /\ A!Next /\ UNCHANGED <<comp, vars>>

UsersSpec == UsersInit /\ [][UsersNext]_all
-----------------------------------------------------------------------------
\* The file and the account keep their types.
TypesHold == TypeOK /\ A!TypeOK

\* state.rs login_locked, record_failure: however many logins run in parallel,
\* few guesses are answered between two openings of the account.
GuessBudget == A!GuessBudget

\* auth.rs change_password, main.rs reset_password: a change of the password
\* ends the sessions there were.
OldSessionsEnd == A!OldSessionsEnd
=============================================================================

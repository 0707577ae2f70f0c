------------------------------- MODULE SignIn -------------------------------
(***************************************************************************)
(* How one address gets an account and sessions on it: registration,       *)
(* verification links, sign-in by password and by Google, the password     *)
(* set, changed and reset, sessions revoked (auth/mod.rs, auth/session.rs, *)
(* auth/oauth_google.rs), the account deactivated, given back and purged.  *)
(*                                                                         *)
(* A request is its database statements: what it read, then what it wrote. *)
(* A password is the number of passwords set before it; whoever signs in   *)
(* or changes it knows it. Expiries are counted from one clock; a session  *)
(* that expires, or is idle too long, is over at any time. Emails arrive.  *)
(***************************************************************************)
EXTENDS Integers, FiniteSets

CONSTANTS
    Callers,       \* the requests in flight at once
    Links, Resets, Sessions,
    Cooldown,      \* VERIFICATION_RESEND_COOLDOWN_SECS
    LinkLife,      \* EMAIL_VERIFICATION_TTL_HOURS, and PASSWORD_RESET_TTL_HOURS
    MaxPasswords,  \* bound on the passwords set
    LastTime,      \* bound on the clock
    Nothing,       \* no link, no session
    Mixes          \* the account a behaviour starts with, and the handlers at work

NoPassword == 0   \* password_hash IS NULL
\* What is kept of the row of an account; renewed is history, the last reset or change.
Account == [row : {"none", "active", "deactivated", "purged"}, password : Nat, verified : BOOLEAN,
            gate : {"age", "terms", "full"}, google : BOOLEAN, renewed : Nat]

SignInAssumption ==
    /\ {Cooldown, LinkLife, MaxPasswords, LastTime} \subseteq Nat
    /\ Nothing \notin Links \cup Resets \cup Sessions
    /\ \A m \in Mixes : m.account \in Account

VARIABLES
    time,
    account,    \* the row of the address in `users`, and whether Google is bound to it
    links,      \* email_verification_tokens
    resets,     \* password_reset_tokens
    sessions,
    asked,      \* what each request is at
    passwords,  \* history: passwords set so far
    uses,       \* history: how often each reset link gave a password
    mix         \* what is at work together

signInVars == <<time, account, links, resets, sessions, asked, passwords, uses, mix>>

NoAccount == [row |-> "none", password |-> NoPassword, verified |-> FALSE, gate |-> "age",
              google |-> FALSE, renewed |-> NoPassword]
NoLink == [at |-> "none", issued |-> 0]
\* History: the password when it was asked for, and whether a revocation may miss it.
NoSession == [at |-> "none", restricted |-> FALSE, since |-> NoPassword, excused |-> FALSE]
Quiet == [at |-> "idle", link |-> Nothing, session |-> Nothing, seen |-> NoAccount,
          when |-> 0, out |-> {}]

SignInInit ==
    /\ mix \in Mixes
    /\ time = Cooldown
    /\ account = mix.account /\ passwords = mix.account.password
    /\ links = [l \in Links |-> NoLink] /\ resets = [r \in Resets |-> NoLink]
    /\ sessions = [s \in Sessions |-> NoSession]
    /\ asked = [p \in Callers |-> Quiet]
    /\ uses = [r \in Resets |-> 0]

-----------------------------------------------------------------------------
(* What a session opens: session_state.                                    *)

Live == {s \in Sessions : sessions[s].at = "live"}

Access(s) ==
    LET e == sessions[s] IN
    CASE s \notin Live \/ account.row = "purged" -> "Refused"
      [] ~e.restricted /\ account.row = "active" -> account.gate
      [] e.restricted /\ account.row = "deactivated" -> "Deactivated"
      [] OTHER -> "Refused"
Full(s) == Access(s) = "full"
Ended(s) == [sessions[s] EXCEPT !.at = "over"]

-----------------------------------------------------------------------------
(* The steps of a request.                                                 *)

Become(p, r) == asked' = [asked EXCEPT ![p] = r]
Start(p, h) == h \in mix.does /\ asked[p] = Quiet
Go(p, at) == Become(p, [asked[p] EXCEPT !.at = at, !.seen = account])

\* Mutant: a link is read without the lock on its row.
NeverLocked(l) == FALSE
\* FOR UPDATE OF t, to the end of the transaction.
LockedLink(l) == \E q \in Callers : asked[q].at \in {"verify", "reset"} /\ asked[q].link = l

Running(l) == l.at = "out" /\ l.issued + LinkLife >= time
\* now() when the statement began.
Issue(when) == [at |-> "out", issued |-> when]

Spent(T) == [l \in DOMAIN T |-> IF T[l].at = "out" THEN [T[l] EXCEPT !.at = "used"] ELSE T[l]]

NewPassword == passwords < MaxPasswords /\ passwords' = passwords + 1

-----------------------------------------------------------------------------
(* Registration and the verification of the address.                       *)

\* register_valid, of an address without an account.
Register(p) ==
    /\ Start(p, "register") /\ account.row = "none" /\ Go(p, "create")
    /\ UNCHANGED <<time, account, links, resets, sessions, passwords, uses>>

\* create_account: whoever inserts the address first keeps the row.
CreateAccount(p) ==
    /\ asked[p].at = "create" /\ Become(p, Quiet)
    /\ IF account.row = "none"
       THEN /\ NewPassword
            /\ account' = [NoAccount EXCEPT !.row = "active", !.password = passwords', !.gate = "full"]
            /\ \E l \in Links : links[l] = NoLink /\ links' = [links EXCEPT ![l] = Issue(time)]
       ELSE UNCHANGED <<account, links, passwords>>
    /\ UNCHANGED <<time, resets, sessions, uses>>

\* resend_verification_to, or register_valid of an address not verified yet.
AskLink(p) ==
    /\ Start(p, "resend") /\ account.row = "active" /\ ~account.verified /\ Go(p, "issue")
    /\ UNCHANGED <<time, account, links, resets, sessions, passwords, uses>>

\* issue_verification is one statement: all of it sees the links there are when it
\* begins...
ReadLinks(p) ==
    LET recent == {l \in Links : links[l] # NoLink /\ time - links[l].issued < Cooldown}
        outstanding == {l \in Links : links[l].at = "out"}
    IN  /\ asked[p].at = "issue"
        /\ Become(p, IF recent # {} THEN Quiet
                     ELSE [asked[p] EXCEPT !.at = "issuing", !.when = time, !.out = outstanding])
        /\ UNCHANGED <<time, account, links, resets, sessions, passwords, uses>>

\* ...but for the rows it consumes, which it waits for and reads again.
IssueLink(p) ==
    LET a == asked[p] IN
    /\ a.at = "issuing" /\ \A l \in a.out : ~LockedLink(l)
    /\ \E n \in Links :
         /\ links[n] = NoLink
         /\ links' = [l \in Links |-> IF l = n THEN Issue(a.when)
                                      ELSE IF l \in a.out /\ links[l].at = "out"
                                      THEN [links[l] EXCEPT !.at = "used"] ELSE links[l]]
    /\ Become(p, Quiet)
    /\ UNCHANGED <<time, account, resets, sessions, passwords, uses>>

\* verify_email: the token locked and read...
ReadLink(p, l) ==
    /\ Start(p, "verify") /\ account.row = "active"
    /\ Running(links[l]) /\ ~LockedLink(l)
    /\ Become(p, [Quiet EXCEPT !.at = "verify", !.link = l])
    /\ UNCHANGED <<time, account, links, resets, sessions, passwords, uses>>

\* ...consumed, and the address verified.
Verify(p) ==
    /\ asked[p].at = "verify" /\ Become(p, Quiet)
    /\ links' = [links EXCEPT ![asked[p].link].at = "used"]
    /\ account' = [account EXCEPT !.verified = TRUE]
    /\ UNCHANGED <<time, resets, sessions, passwords, uses>>

-----------------------------------------------------------------------------
(* Signing in.                                                             *)

\* insert_session. Opened on a password whose replacement, and the revocation with
\* it, have ended since it was read: no revocation finds it.
Open(p, restricted) ==
    \E s \in Sessions :
       /\ sessions[s] = NoSession
       /\ sessions' = [sessions EXCEPT ![s] =
                          [at |-> "live", restricted |-> restricted,
                           since |-> asked[p].seen.renewed,
                           excused |-> /\ asked[p].seen.renewed # account.renewed
                                       /\ \A q \in Callers : asked[q].at # "revoke"]]

\* login_inner: the row read, and the password checked against it...
Login(p) ==
    /\ Start(p, "login") /\ account.row \in {"active", "deactivated"}
    /\ account.password # NoPassword /\ account.verified /\ Go(p, "login")
    /\ UNCHANGED <<time, account, links, resets, sessions, passwords, uses>>

\* ...and a session opened on what was read.
OpenSession(p) ==
    /\ asked[p].at = "login" /\ Open(p, asked[p].seen.row = "deactivated") /\ Become(p, Quiet)
    /\ UNCHANGED <<time, account, links, resets, passwords, uses>>

\* sign_in_profile: the account Google is bound to, else the one of the address.
GoogleReads(p) ==
    /\ Start(p, "google") /\ account.row # "purged"
    /\ Go(p, IF account.row = "deactivated" \/ account.google THEN "signed" ELSE "bind")
    /\ UNCHANGED <<time, account, links, resets, sessions, passwords, uses>>

\* The account created, the identity bound to it: unless another request did since.
GoogleBinds(p) ==
    LET create == asked[p].seen.row = "none" IN
    /\ asked[p].at = "bind"
    /\ IF (create /\ account.row # "none") \/ account.google
       THEN Become(p, Quiet) /\ UNCHANGED account
       ELSE /\ account' = IF create THEN [NoAccount EXCEPT !.row = "active", !.verified = TRUE,
                                                           !.google = TRUE]
                          ELSE [account EXCEPT !.google = TRUE]
            /\ Become(p, [asked[p] EXCEPT !.at = "signed"])
    /\ UNCHANGED <<time, links, resets, sessions, passwords, uses>>

GoogleOpens(p) ==
    /\ asked[p].at = "signed" /\ Open(p, asked[p].seen.row = "deactivated") /\ Become(p, Quiet)
    /\ UNCHANGED <<time, account, links, resets, passwords, uses>>

\* age_declaration.rs, then terms_acceptance.rs.
Declare ==
    /\ \E s \in Live : Access(s) \in {"age", "terms"}
    /\ account' = [account EXCEPT !.gate = IF @ = "age" THEN "terms" ELSE "full"]
    /\ UNCHANGED <<time, links, resets, sessions, asked, passwords, uses>>

-----------------------------------------------------------------------------
(* Passwords set, changed and reset.                                       *)

\* Mutant: the sessions are left.
OnlyWritten(p) == Quiet
\* What is left to a request once its password is written.
Written(p) == [asked[p] EXCEPT !.at = "revoke"]

\* forgot_password
Forgot(p) ==
    /\ Start(p, "forgot") /\ account.row = "active"
    /\ \E r \in Resets : resets[r] = NoLink /\ resets' = [resets EXCEPT ![r] = Issue(time)]
    /\ UNCHANGED <<time, account, links, sessions, asked, passwords, uses>>

\* reset_password: the token locked, the password hashed...
ReadReset(p, r) ==
    /\ Start(p, "reset") /\ account.row = "active"
    /\ Running(resets[r]) /\ ~LockedLink(r)
    /\ Become(p, [Quiet EXCEPT !.at = "reset", !.link = r])
    /\ UNCHANGED <<time, account, links, resets, sessions, passwords, uses>>

\* ...the token deleted and the password written.
Reset(p) ==
    LET r == asked[p].link IN
    /\ asked[p].at = "reset" /\ NewPassword
    /\ resets' = [resets EXCEPT ![r].at = "used"] /\ uses' = [uses EXCEPT ![r] = @ + 1]
    /\ account' = [account EXCEPT !.password = passwords', !.renewed = passwords']
    /\ Become(p, Written(p))
    /\ UNCHANGED <<time, links, sessions>>

\* change_password: the current one read and checked...
ReadPassword(p, s) ==
    /\ Start(p, "change") /\ Full(s) /\ account.password # NoPassword
    /\ Become(p, [Quiet EXCEPT !.at = "change", !.session = s])
    /\ UNCHANGED <<time, account, links, resets, sessions, passwords, uses>>

\* ...and another written, whatever it is now.
Change(p) ==
    /\ asked[p].at = "change" /\ NewPassword
    /\ account' = [account EXCEPT !.password = passwords', !.renewed = passwords']
    /\ Become(p, Written(p))
    /\ UNCHANGED <<time, links, resets, sessions, uses>>

\* revoke_all_sessions, but for the one that changed the password.
RevokeAll(p) ==
    LET spared == asked[p].session IN
    /\ asked[p].at = "revoke" /\ Become(p, Quiet)
    /\ sessions' = [s \in Sessions |-> IF s = spared THEN [sessions[s] EXCEPT !.excused = TRUE]
                                       ELSE IF s \in Live THEN Ended(s) ELSE sessions[s]]
    /\ UNCHANGED <<time, account, links, resets, passwords, uses>>

\* set_password, of an account without one: read...
ReadNoPassword(p, s) ==
    /\ Start(p, "set") /\ Full(s) /\ account.password = NoPassword /\ Go(p, "set")
    /\ UNCHANGED <<time, account, links, resets, sessions, passwords, uses>>

\* ...and written, of no use before a link is followed.
SetPassword(p) ==
    /\ asked[p].at = "set" /\ NewPassword /\ Become(p, Quiet)
    /\ account' = [account EXCEPT !.password = passwords', !.verified = FALSE]
    /\ \E l \in Links : links[l] = NoLink /\ links' = [links EXCEPT ![l] = Issue(time)]
    /\ UNCHANGED <<time, resets, sessions, uses>>

\* A process killed, a query refused: what was committed stays.
FailSignIn(p) ==
    /\ asked[p].at # "idle" /\ Become(p, Quiet)
    /\ sessions' = IF asked[p].at # "revoke" THEN sessions
                   ELSE [s \in Sessions |-> [sessions[s] EXCEPT !.excused = TRUE]]
    /\ UNCHANGED <<time, account, links, resets, passwords, uses>>

-----------------------------------------------------------------------------
(* Sessions ended, and the account deactivated, given back and purged.     *)

Over(S) == sessions' = [s \in Sessions |-> IF s \in S THEN Ended(s) ELSE sessions[s]]

\* logout, revoke_one_session, the end of its lifetime, or of its use.
EndOne(s) ==
    /\ s \in Live /\ Over({s})
    /\ UNCHANGED <<time, account, links, resets, asked, passwords, uses>>

RevokeEvery ==
    /\ \E s \in Live : Full(s)
    /\ Over(Live)
    /\ UNCHANGED <<time, account, links, resets, asked, passwords, uses>>

\* The sessions the retention purge deletes for what the account is.
DeleteRefused ==
    /\ \E s \in Live : Access(s) = "Refused"
    /\ Over({s \in Live : Access(s) = "Refused"})
    /\ UNCHANGED <<time, account, links, resets, asked, passwords, uses>>

Deactivate ==
    /\ "deactivate" \in mix.does /\ account.row = "active"
    /\ account' = [account EXCEPT !.row = "deactivated"] /\ Over(Live)
    /\ UNCHANGED <<time, links, resets, asked, passwords, uses>>

\* The restricted sessions end; the others did when it was deactivated.
Reactivate ==
    /\ account.row = "deactivated"
    /\ account' = [account EXCEPT !.row = "active"]
    /\ Over({s \in Live : sessions[s].restricted})
    /\ UNCHANGED <<time, links, resets, asked, passwords, uses>>

\* purge_account. It waits for the links it deletes; deleted, they are as good as used.
PurgeAccount ==
    /\ "purge" \in mix.does /\ account.row \in {"active", "deactivated"}
    /\ \A l \in Links \cup Resets : ~LockedLink(l)
    /\ account' = [NoAccount EXCEPT !.row = "purged"]
    /\ links' = Spent(links) /\ resets' = Spent(resets)
    /\ Over(Live)
    /\ UNCHANGED <<time, asked, passwords, uses>>

Pass ==
    /\ time < LastTime /\ time' = time + 1
    /\ UNCHANGED <<account, links, resets, sessions, asked, passwords, uses>>

-----------------------------------------------------------------------------
SignInNext ==
    /\ \/ \E p \in Callers :
             \/ Register(p) \/ CreateAccount(p) \/ AskLink(p) \/ ReadLinks(p) \/ IssueLink(p)
             \/ Login(p) \/ OpenSession(p) \/ GoogleReads(p) \/ GoogleBinds(p) \/ GoogleOpens(p)
             \/ Verify(p) \/ Forgot(p) \/ Reset(p) \/ Change(p) \/ RevokeAll(p)
             \/ SetPassword(p) \/ FailSignIn(p)
             \/ \E l \in Links : ReadLink(p, l)
             \/ \E r \in Resets : ReadReset(p, r)
             \/ \E s \in Live : ReadPassword(p, s) \/ ReadNoPassword(p, s)
       \/ \E s \in Sessions : EndOne(s)
       \/ Declare \/ RevokeEvery \/ DeleteRefused
       \/ Deactivate \/ Reactivate \/ PurgeAccount \/ Pass
    /\ UNCHANGED mix

SignInSpec == SignInInit /\ [][SignInNext]_signInVars

-----------------------------------------------------------------------------
(* Properties.                                                             *)

Link == [at : {"none", "out", "used"}, issued : Nat]
Session == [at : {"none", "live", "over"}, restricted : BOOLEAN, since : Nat, excused : BOOLEAN]
Request == [at : {"idle", "create", "issue", "issuing", "verify", "login", "bind", "signed",
                  "reset", "change", "revoke", "set"},
            link : Links \cup Resets \cup {Nothing}, session : Sessions \cup {Nothing},
            seen : Account, when : Nat, out : SUBSET Links]

TypeOK ==
    /\ time \in Nat /\ passwords \in Nat /\ mix \in Mixes
    /\ account \in Account
    /\ links \in [Links -> Link] /\ resets \in [Resets -> Link]
    /\ sessions \in [Sessions -> Session] /\ asked \in [Callers -> Request]
    /\ uses \in [Resets -> Nat]

(* A reset link gives one password, however many requests follow it at     *)
(* once (reset_password: its row is locked, then deleted at use, #138).    *)
LinksWorkOnce == \A r \in Resets : uses[r] <= 1

(* Once a reset or a change of password has ended, whatever else was under *)
(* way, the sessions asked for before it are over: but for the one that    *)
(* made the change, one that was being opened meanwhile, and those a       *)
(* failure between the password and the revocation left.                   *)
OldSessionsEnd ==
    (\A p \in Callers : asked[p].at # "revoke")
        => \A s \in Live : sessions[s].excused \/ sessions[s].since >= account.renewed
=============================================================================

------------------------------ MODULE Accounts ------------------------------
(***************************************************************************)
(* Accounts and sessions (auth_service.py and its repository).             *)
(*                                                                         *)
(* A call of AuthService reads what it checks, awaits, writes, and is      *)
(* committed when its route returns; a call that is refused raises, and    *)
(* what it wrote is rolled back with it.  So a call is two steps, and the  *)
(* calls of several callers overlap between the two.  Redis, which keeps   *)
(* the pending challenges and the counters, is not rolled back.            *)
(***************************************************************************)
EXTENDS Naturals, SequencesExt

CONSTANTS
    Users,
    MaxAttempts,   \* RATE_LIMIT_LOGIN_REQUESTS
    MaxSessions,   \* bound: rows of the sessions table
    MaxResets,     \* bound: rows of password_resets
    MaxChallenges, \* bound: challenges in Redis
    MaxSecrets,    \* bound: secrets a user has been shown
    MaxOpen,       \* bound: calls under way
    MaxFaults      \* bound: calls that fail

ASSUME AccountsBounds ==
    {MaxAttempts, MaxSessions, MaxResets, MaxChallenges, MaxSecrets, MaxOpen,
     MaxFaults} \subseteq Nat

VARIABLES
    mfa,        \* mfa_enabled and mfa_secret; 0 is no secret
    sessions,   \* the sessions table; a row stands for its refresh token
    resets,     \* the password_resets table; live: neither used nor expired
    challenges, \* mfa_challenge:*, by number; live: still in Redis
    window,     \* the rate limiter's counter for one address
    open,       \* calls between their reads and their commit
    phone,      \* the secret each user's authenticator has
    shown,      \* how many secrets each user has been shown
    raced,      \* history: tokens that two calls had read at once
    uses,       \* history: how often each token was honoured
    faults,     \* calls that have failed
    cutoff      \* history: sessions that were there at the user's last reset

tables  == <<mfa, sessions, resets>>
redis   == <<challenges, window>>
people  == <<phone, shown>>
history == <<raced, uses, cutoff, faults>>
vars    == <<tables, redis, open, people, history>>

Row == [user : Users, live : BOOLEAN]
Mfa == [enabled : BOOLEAN, secret : 0 .. MaxSecrets]
Reader == {"refresh", "challenge", "reset"}
Token == ({"refresh"} \X (1 .. MaxSessions)) \cup ({"reset"} \X (1 .. MaxResets))
         \cup ({"challenge"} \X (1 .. MaxChallenges))
Call == [op : {"login"}, user : Users, mfa : BOOLEAN]
        \cup [op : Reader, user : Users, key : Nat]

TypeOK ==
    /\ mfa \in [Users -> Mfa]
    /\ sessions \in Seq(Row) /\ Len(sessions) <= MaxSessions
    /\ resets \in Seq(Row) /\ Len(resets) <= MaxResets
    /\ challenges \in Seq(Row) /\ Len(challenges) <= MaxChallenges
    /\ window \in 0 .. MaxAttempts
    /\ IsFiniteSet(open) /\ open \subseteq [call : Call, no : 1 .. MaxOpen]
    /\ phone \in [Users -> 0 .. MaxSecrets] /\ shown \in [Users -> 0 .. MaxSecrets]
    /\ raced \subseteq Token /\ uses \in [Token -> Nat]
    /\ cutoff \in [Users -> 0 .. MaxSessions] /\ faults \in 0 .. MaxFaults

Init ==
    /\ mfa = [u \in Users |-> [enabled |-> FALSE, secret |-> 0]]
    /\ sessions = <<>> /\ resets = <<>> /\ challenges = <<>>
    /\ window = 0 /\ open = {} /\ faults = 0
    /\ phone = [u \in Users |-> 0] /\ shown = [u \in Users |-> 0]
    /\ raced = {} /\ uses = [t \in Token |-> 0] /\ cutoff = [u \in Users |-> 0]

-----------------------------------------------------------------------------
(* Calls.                                                                  *)

\* A call has read and passed its checks.
Begin(call) ==
    LET free == (1 .. MaxOpen) \ {q.no : q \in open} IN
    /\ free # {}
    /\ open' = open \cup {[call |-> call, no |-> CHOOSE n \in free : TRUE]}

\* One that reads a one-time token: another call may have read it as well.
BeginWith(op, u, key) ==
    /\ Begin([op |-> op, user |-> u, key |-> key])
    /\ raced' = raced \cup {<<op, key>> : q \in {q \in open :
                               q.call.op = op /\ q.call.key = key}}
    /\ UNCHANGED <<uses, cutoff, faults>>

Honour(q) ==
    /\ open' = open \ {q}
    /\ uses' = [uses EXCEPT ![<<q.call.op, q.call.key>>] = @ + 1]

\* create_session, create_password_reset, and the challenges' SETEX
Opened(rows, u) == Append(rows, [user |-> u, live |-> TRUE])
Room == Len(sessions) < MaxSessions

\* revoke_session, revoke_all_user_sessions, use_password_reset, Redis DEL
Over(row) == [row EXCEPT !.live = FALSE]
Closed(rows, i) == [rows EXCEPT ![i] = Over(@)]
RevokedAll(u) ==
    [i \in DOMAIN sessions |-> IF sessions[i].user = u THEN Over(sessions[i]) ELSE sessions[i]]

-----------------------------------------------------------------------------
(* Login.                                                                  *)

\* check_rate_limit counts the call, and whether it goes on.  How far beyond
\* the limit the count is makes no difference.
Admitted == window < MaxAttempts
Counted == window' = IF Admitted THEN window + 1 ELSE window

\* The window's time is up.
WindowEnds ==
    /\ window > 0 /\ window' = 0
    /\ UNCHANGED <<tables, challenges, open, people, history>>

\* A wrong password, or too many calls.  The failure that is counted in the
\* user's row, and the lock, are rolled back by the 401 that follows, so that
\* the counter of failures in Redis, which only leads to them, is left out.
LoginRefused ==
    /\ Counted
    /\ UNCHANGED <<tables, challenges, open, people, history>>

LoginReads(u) ==
    /\ Counted /\ Admitted
    /\ Begin([op |-> "login", user |-> u, mfa |-> mfa[u].enabled /\ mfa[u].secret # 0])
    /\ UNCHANGED <<tables, challenges, people, history>>

\* _issue_tokens_and_session, or a challenge for the second factor.
LoginEnds(q) ==
    /\ q.call.op = "login"
    /\ open' = open \ {q}
    /\ IF q.call.mfa
       THEN /\ Len(challenges) < MaxChallenges
            /\ challenges' = Opened(challenges, q.call.user)
            /\ UNCHANGED sessions
       ELSE /\ Room /\ sessions' = Opened(sessions, q.call.user)
            /\ UNCHANGED challenges
    /\ UNCHANGED <<mfa, resets, window, people, history>>

\* verify_mfa, with the code the user's authenticator shows.
VerifyReads(k) ==
    LET u == challenges[k].user IN
    /\ challenges[k].live /\ mfa[u].secret # 0 /\ phone[u] = mfa[u].secret
    /\ BeginWith("challenge", u, k)
    /\ UNCHANGED <<tables, redis, people>>

VerifyEnds(q) ==
    /\ q.call.op = "challenge" /\ Room
    /\ challenges' = Closed(challenges, q.call.key)
    /\ sessions' = Opened(sessions, q.call.user)
    /\ Honour(q)
    /\ UNCHANGED <<mfa, resets, window, people, raced, cutoff, faults>>

ChallengeExpires(k) ==
    /\ challenges[k].live
    /\ challenges' = Closed(challenges, k)
    /\ UNCHANGED <<tables, window, open, people, history>>

-----------------------------------------------------------------------------
(* Sessions.                                                               *)

\* refresh_tokens: the row is not revoked and not expired.  (A token that is
\* presented again is refused, and the revocation of the user's sessions
\* that comes before the refusal is rolled back.)
RefreshReads(i) ==
    /\ sessions[i].live
    /\ BeginWith("refresh", sessions[i].user, i)
    /\ UNCHANGED <<tables, redis, people>>

\* Variants: the old session is left alone; it gets the new token itself.
RefreshKeepsOld(q) ==
    /\ q.call.op = "refresh" /\ Room
    /\ sessions' = Opened(sessions, q.call.user)
    /\ Honour(q)
    /\ UNCHANGED <<mfa, resets, redis, people, raced, cutoff, faults>>
RefreshRenewsRow(q) ==
    /\ q.call.op = "refresh"
    /\ sessions' = [sessions EXCEPT ![q.call.key].live = TRUE]
    /\ Honour(q)
    /\ UNCHANGED <<mfa, resets, redis, people, raced, cutoff, faults>>

RefreshEnds(q) ==
    /\ q.call.op = "refresh" /\ Room
    /\ sessions' = Opened(Closed(sessions, q.call.key), q.call.user)
    /\ Honour(q)
    /\ UNCHANGED <<mfa, resets, redis, people, raced, cutoff, faults>>

\* logout.  The access token is good until it expires, whatever became of its
\* session.
Logout(i) ==
    /\ sessions' = Closed(sessions, i) /\ sessions' # sessions
    /\ UNCHANGED <<mfa, resets, redis, open, people, history>>

\* revoke_my_session: a row of the user's, from a list that may be old by now.
RevokeMySession(i) ==
    /\ sessions' = Closed(sessions, i)
    /\ UNCHANGED <<mfa, resets, redis, open, people, history>>

\* force_logout_user
ForceLogout(u) ==
    /\ sessions' = RevokedAll(u)
    /\ UNCHANGED <<mfa, resets, redis, open, people, history>>

\* update_user_role; which roles a user has is in Administration.
UpdateRole(u) ==
    /\ sessions' = RevokedAll(u)
    /\ UNCHANGED <<mfa, resets, redis, open, people, history>>

-----------------------------------------------------------------------------
(* Passwords.  Which one is current makes no difference to the rest.       *)

ForgotPassword(u) ==
    /\ Len(resets) < MaxResets
    /\ resets' = Opened(resets, u)
    /\ UNCHANGED <<mfa, sessions, redis, open, people, history>>

ResetReads(k) ==
    /\ resets[k].live
    /\ BeginWith("reset", resets[k].user, k)
    /\ UNCHANGED <<tables, redis, people>>

ResetEnds(q) ==
    LET u == q.call.user IN
    /\ q.call.op = "reset"
    /\ resets' = Closed(resets, q.call.key)
    /\ sessions' = RevokedAll(u)
    /\ Honour(q)
    /\ cutoff' = [cutoff EXCEPT ![u] = Len(sessions)]
    /\ UNCHANGED <<mfa, redis, people, raced, faults>>

ResetExpires(k) ==
    /\ resets[k].live
    /\ resets' = Closed(resets, k)
    /\ UNCHANGED <<mfa, sessions, redis, open, people, history>>

-----------------------------------------------------------------------------
(* The second factor.                                                      *)

\* setup_mfa stores a new secret and shows it; the user may scan it or not.
SetupMfa(u) ==
    /\ shown[u] < MaxSecrets
    /\ shown' = [shown EXCEPT ![u] = @ + 1]
    /\ mfa' = [mfa EXCEPT ![u] = [@ EXCEPT !.secret = shown[u] + 1]]
    /\ phone' \in {phone, [phone EXCEPT ![u] = shown[u] + 1]}
    /\ UNCHANGED <<sessions, resets, redis, open, history>>

EnableMfa(u) ==
    /\ mfa[u].secret # 0 /\ phone[u] = mfa[u].secret
    /\ mfa' = [mfa EXCEPT ![u] = [@ EXCEPT !.enabled = TRUE]]
    /\ UNCHANGED <<sessions, resets, redis, open, people, history>>

DisableMfa(u) ==
    /\ mfa' = [mfa EXCEPT ![u] = [enabled |-> FALSE, secret |-> 0]]
    /\ UNCHANGED <<sessions, resets, redis, open, people, history>>

-----------------------------------------------------------------------------
\* The call raises after all, or its commit fails: the tables stay as they
\* were, and a challenge that had been taken out of Redis is gone.
Fails(q) ==
    /\ faults < MaxFaults /\ faults' = faults + 1
    /\ open' = open \ {q}
    /\ \/ UNCHANGED challenges
       \/ q.call.op = "challenge" /\ challenges' = Closed(challenges, q.call.key)
    /\ UNCHANGED <<tables, window, people, raced, uses, cutoff>>

Ends(q) == LoginEnds(q) \/ VerifyEnds(q) \/ RefreshEnds(q) \/ ResetEnds(q) \/ Fails(q)

Next ==
    \/ WindowEnds \/ LoginRefused
    \/ \E u \in Users :
           \/ LoginReads(u) \/ ForgotPassword(u) \/ ForceLogout(u)
           \/ UpdateRole(u)
           \/ SetupMfa(u) \/ EnableMfa(u) \/ DisableMfa(u)
    \/ \E i \in DOMAIN sessions : RefreshReads(i) \/ Logout(i) \/ RevokeMySession(i)
    \/ \E k \in DOMAIN challenges : VerifyReads(k) \/ ChallengeExpires(k)
    \/ \E k \in DOMAIN resets : ResetReads(k) \/ ResetExpires(k)
    \/ \E q \in open : Ends(q)

Spec == Init /\ [][Next]_vars

-----------------------------------------------------------------------------
(* Properties.                                                             *)

\* The table a call of this kind reads, and whether a call that reads the
\* token now is let through.
Table(op) == CASE op = "refresh" -> sessions [] op = "reset" -> resets [] OTHER -> challenges
Good(t) == t[2] \in DOMAIN Table(t[1]) /\ Table(t[1])[t[2]].live

\* The calls that have read a token and are not committed.
Holders(t) == {q \in open : q.call.op = t[1] /\ q.call.key = t[2]}

\* Tokens that were read or honoured have a row, and resets know no session
\* that is yet to come.
Known ==
    /\ \A t \in Token : uses[t] > 0 => t[2] \in DOMAIN Table(t[1])
    /\ \A q \in open : q.call.op # "login" => q.call.key \in DOMAIN Table(q.call.op)
    /\ \A u \in Users : cutoff[u] <= Len(sessions)

\* A token that was honoured is good for nothing, and no call still has it,
\* unless two calls had read it before either was committed.
Spent ==
    \A t \in Token \ raced :
        /\ \A p, q \in Holders(t) : p = q
        /\ uses[t] > 0 => ~Good(t) /\ Holders(t) = {}

\* A refresh token, a reset link and a challenge are honoured once, unless
\* two calls had read the token before either was committed.
SingleUse == \A t \in Token \ raced : uses[t] <= 1

\* reset_password "Revoke all sessions": none that was committed before the
\* reset is live after it, however the calls in between interleave.
NoneSurvivesReset ==
    \A i \in DOMAIN sessions : sessions[i].live => i > cutoff[sessions[i].user]

Inv == TypeOK /\ Known /\ Spent /\ SingleUse /\ NoneSurvivesReset

\* A revoked session stays revoked, and sessions are never taken away.
RevokedForEver ==
    [][\A i \in DOMAIN sessions : i \in DOMAIN sessions' /\ (sessions'[i].live => sessions[i].live)]_vars
=============================================================================

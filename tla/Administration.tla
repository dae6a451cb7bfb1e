---------------------------- MODULE Administration ----------------------------
(***************************************************************************)
(* What is kept about people and their organization (admin_router.py, the  *)
(* profile half of auth_router.py, audit.py, rbac_middleware.py): rows     *)
(* that several callers read and write back, the audit trail, and the      *)
(* access tokens, which carry their permissions with them and are asked    *)
(* for nothing else.                                                       *)
(*                                                                         *)
(* A caller's handler reads a row, awaits, and writes it.  update_user     *)
(* writes back every column it may change; settings and preferences are    *)
(* ORM objects, of which a flush writes the columns that differ from what  *)
(* was loaded.                                                             *)
(***************************************************************************)
EXTENDS Naturals, FiniteSetsExt

CONSTANTS
    Staff,        \* the users there are rows of
    DemoRole,     \* the role each user is seeded with
    SecondFactor, \* users with mfa_enabled and a secret
    NoRow,
    MaxColumns,   \* bound: columns a change names
    MaxAsked,     \* bound: changes asked for
    MaxCalls,     \* bound: handlers at work
    MaxFailures   \* bound: failing statements and restarts

VARIABLES
    row,       \* the rows of users, organizations, notification_preferences
    holds,     \* the user_roles of each user
    tokens,    \* access tokens that have not expired: [who, may]
    trail,     \* audit_logs: [event, by, after]
    logins,    \* users whose login has looked at the status
    pending,   \* users with a challenge in Redis
    calls,     \* handlers between their read and their answer
    decided,   \* history: what was last asked of each column and committed
    contested, \* history: columns written by a handler that another overtook
    unlogged,  \* history: settings were changed and the audit row failed
    asked, failures

access   == <<tokens, logins, pending>>
bounds   == <<asked, failures>>
recorded == <<decided, contested, unlogged>>
admin    == <<row, holds, access, trail, calls, recorded, bounds>>

-----------------------------------------------------------------------------
(* The tables.                                                             *)

Role == {"WAREHOUSE_OPERATOR", "WAREHOUSE_MANAGER", "ENTERPRISE_ADMIN"}

\* _SYSTEM_ROLES, as far as the handlers below ask; a supervisor may no more
\* here than an operator.
Permissions ==
    [WAREHOUSE_OPERATOR |-> {}, WAREHOUSE_MANAGER |-> {"users:write"},
     ENTERPRISE_ADMIN |-> {"users:write", "settings:write"}]

\* Two columns a row, two values a column: 0 is the value it begins with, and
\* a status of 1 is SUSPENDED.
Columns ==
    [person |-> {"display_name", "status"},
     org    |-> {"mfa_policy", "session_timeout_hours"},
     pref   |-> {"enabled", "frequency"}]
Value == 0 .. 1

ASSUME AdministrationBounds ==
    /\ DemoRole \in [Staff -> Role] /\ {MaxColumns, MaxAsked, MaxCalls, MaxFailures} \subseteq Nat
    /\ NoRow \notin UNION {[Columns[k] -> Value] : k \in DOMAIN Columns}

Fresh(kind) == [c \in Columns[kind] |-> 0]
Merged(f, g) == [c \in DOMAIN f \cup DOMAIN g |-> IF c \in DOMAIN f THEN f[c] ELSE g[c]]
Asks(kind) == UNION {[C -> Value] : C \in UNION {kSubset(n, Columns[kind]) : n \in 1 .. MaxColumns}}

Person(u) == <<"person", u>>
Pref(u)   == <<"pref", u>>
Org       == <<"org", NoRow>>
Rows      == {Org} \cup {Person(u) : u \in Staff} \cup {Pref(u) : u \in Staff}

Suspended(u) == row[Person(u)].status = 1

\* seed_initial_data gives a role to a user who has none.
Seeded(h) == [u \in Staff |-> IF h[u] = {} THEN {DemoRole[u]} ELSE h[u]]

\* build_user_profile
May(u) == UNION {Permissions[r] : r \in holds[u]}

Handling == [by : Staff, row : Rows, ask : UNION {Asks(k) : k \in DOMAIN Columns},
         read : {NoRow} \cup UNION {[Columns[k] -> Value] : k \in DOMAIN Columns},
         at : {"read", "committed", "refreshed"}, late : BOOLEAN]

AdministrationTypeOK ==
    /\ \A r \in Rows : \/ row[r] \in [Columns[r[1]] -> Value]
                       \/ row[r] = NoRow /\ r[1] = "pref"
    /\ holds \in [Staff -> (SUBSET Role) \ {{}}]
    /\ tokens \subseteq [who : Staff, may : SUBSET {"users:write", "settings:write"}]
    /\ \A e \in trail : e.by \in Staff
    /\ logins \subseteq Staff /\ pending \subseteq Staff
    /\ calls \subseteq Handling /\ Cardinality(calls) <= MaxCalls
    /\ DOMAIN decided = Rows
    /\ contested \subseteq Rows \X UNION {Columns[k] : k \in DOMAIN Columns}
    /\ unlogged \in BOOLEAN /\ asked \in 0 .. MaxAsked /\ failures \in 0 .. MaxFailures

AdministrationInit ==
    /\ row = [r \in Rows |-> IF r[1] = "pref" THEN NoRow ELSE Fresh(r[1])]
    /\ holds = Seeded([u \in Staff |-> {}])
    /\ tokens = {} /\ trail = {} /\ logins = {} /\ pending = {} /\ calls = {}
    /\ decided = [r \in Rows |-> Fresh(r[1])] /\ contested = {} /\ unlogged = FALSE
    /\ asked = 0 /\ failures = 0

-----------------------------------------------------------------------------
(* Signing in.                                                             *)

\* login looks at the status first and issues the token at the end.
LoginUnchecked(u) ==
    /\ logins' = logins \cup {u}
    /\ UNCHANGED <<row, holds, tokens, trail, pending, calls, recorded, bounds>>

Login(u) ==
    /\ ~Suspended(u) /\ logins' = logins \cup {u}
    /\ UNCHANGED <<row, holds, tokens, trail, pending, calls, recorded, bounds>>

\* The 403 that a suspended user gets.
LoginDenied(u) == Suspended(u) /\ UNCHANGED admin

Event(event, u, after) == [event |-> event, by |-> u, after |-> after]

\* What an access token carries.
TokenOf(u) == [who |-> u, may |-> May(u)]

\* _issue_tokens_and_session: the token and its audit row, or, when the row
\* fails, neither: write_audit_log returns, and the commit then raises.
Issue(u) ==
    /\ tokens' = tokens \cup {TokenOf(u)}
    /\ trail' = trail \cup {Event("USER_LOGIN_SUCCESS", u, NoRow)}
    /\ UNCHANGED failures

IssueFails == failures < MaxFailures /\ failures' = failures + 1 /\ UNCHANGED <<tokens, trail>>

LoginReturns(u) ==
    /\ u \in logins \ SecondFactor /\ logins' = logins \ {u}
    /\ Issue(u) \/ IssueFails
    /\ UNCHANGED <<row, holds, pending, calls, recorded, asked>>

LoginChallenges(u) ==
    /\ u \in logins \cap SecondFactor /\ logins' = logins \ {u}
    /\ pending' = pending \cup {u}
    /\ UNCHANGED <<row, holds, tokens, trail, calls, recorded, bounds>>

\* verify_mfa does not look at the status.
Verify(u) ==
    /\ u \in pending /\ pending' = pending \ {u}
    /\ Issue(u) \/ IssueFails
    /\ UNCHANGED <<row, holds, logins, calls, recorded, asked>>

ChallengeRunsOut(u) ==
    /\ u \in pending /\ pending' = pending \ {u}
    /\ UNCHANGED <<row, holds, tokens, trail, logins, calls, recorded, bounds>>

\* verify_access_token looks at the expiry, not at the session.
ExpireToken(t) ==
    /\ t \in tokens /\ tokens' = tokens \ {t}
    /\ UNCHANGED <<row, holds, trail, logins, pending, calls, recorded, bounds>>

-----------------------------------------------------------------------------
(* Reading a row and writing it back.                                      *)

Asked == asked < MaxAsked /\ asked' = asked + 1

\* A handler's checks and its read.
ReadsRow(by, r, a) ==
    /\ Asked /\ Cardinality(calls) < MaxCalls
    /\ calls' = calls \cup {[by |-> by, row |-> r, ask |-> a, read |-> row[r],
                             at |-> "read", late |-> FALSE]}
    /\ UNCHANGED <<row, holds, access, trail, recorded, failures>>

\* A commit: whoever had read the row before is late from now on.
Others(q, r) == {[p EXCEPT !.late = @ \/ (p.row = r /\ p.at = "read")] : p \in calls \ {q}}

Writes(q, ask, new) ==
    /\ row' = [row EXCEPT ![q.row] = new]
    /\ decided' = [decided EXCEPT ![q.row] = Merged(ask, @)]
    /\ contested' = IF q.late THEN contested \cup {<<q.row, c>> : c \in DOMAIN new}
                    ELSE contested \ {<<q.row, c>> : c \in DOMAIN ask}

\* What a flush writes of an object that was loaded as q.read.
Altered(q) ==
    LET C == {c \in DOMAIN q.ask : q.ask[c] # q.read[c]} IN
    Merged([c \in C |-> q.ask[c]], row[q.row])

\* require_permission
Allowed(t, permission) == t \in tokens /\ permission \in t.may

UpdateUserReads(t, u, a) == Allowed(t, "users:write") /\ ReadsRow(t.who, Person(u), a)

\* Every column, those that were not asked for as they were read.
UpdateUserEnds(q) ==
    /\ q.row[1] = "person" /\ calls' = Others(q, q.row)
    /\ Writes(q, q.ask, Merged(q.ask, q.read))
    /\ UNCHANGED <<holds, access, trail, unlogged, bounds>>

\* update_me: the name alone, in one statement.
UpdateMe(t, v) ==
    LET q == [row |-> Person(t.who), late |-> FALSE] a == [display_name |-> v] IN
    /\ t \in tokens /\ Asked
    /\ Writes(q, a, Merged(a, row[q.row])) /\ calls' = Others(q, q.row)
    /\ UNCHANGED <<holds, access, trail, unlogged, failures>>

\* remove_role and assign_role with one role: what is held besides stays.
Assigned(held, role) == (held \ {role}) \cup {role}

\* update_user_role: the role it gives is all it takes away.
UpdateUserRole(t, u, role) ==
    /\ Allowed(t, "users:write") /\ Asked
    /\ holds' = [holds EXCEPT ![u] = Assigned(@, role)]
    /\ UNCHANGED <<row, access, trail, calls, recorded, failures>>

-----------------------------------------------------------------------------
(* Settings: a commit of its own, and the audit row after it.              *)

SettingsReads(t, a) == Allowed(t, "settings:write") /\ ReadsRow(t.who, Org, a)

SettingsCommits(q) ==
    /\ q.row = Org /\ q.at = "read"
    /\ Writes(q, q.ask, Altered(q))
    /\ calls' = Others(q, Org) \cup {[q EXCEPT !.at = "committed", !.late = FALSE]}
    /\ UNCHANGED <<holds, access, trail, unlogged, bounds>>

\* Variant: the object in memory, which outlives the commit.
SettingsKept(q) ==
    /\ q.row = Org /\ q.at = "committed"
    /\ calls' = (calls \ {q}) \cup {[q EXCEPT !.at = "refreshed", !.read = Merged(q.ask, q.read)]}
    /\ UNCHANGED <<row, holds, access, trail, recorded, bounds>>

SettingsRefreshed(q) ==
    /\ q.row = Org /\ q.at = "committed"
    /\ calls' = (calls \ {q}) \cup {[q EXCEPT !.at = "refreshed", !.read = row[Org]]}
    /\ UNCHANGED <<row, holds, access, trail, recorded, bounds>>

SettingsLogged(q) ==
    /\ q.row = Org /\ q.at = "refreshed" /\ calls' = calls \ {q}
    /\ trail' = trail \cup {Event("ORG_SETTINGS_UPDATED", q.by, q.read)}
    /\ UNCHANGED <<row, holds, access, recorded, bounds>>

-----------------------------------------------------------------------------
(* Preferences: a row is made by the first change.                         *)

PrefReads(t, a) == t \in tokens /\ ReadsRow(t.who, Pref(t.who), a)

PrefUpdated(q) ==
    /\ q.row[1] = "pref" /\ q.read # NoRow /\ calls' = Others(q, q.row)
    /\ Writes(q, q.ask, Altered(q))
    /\ UNCHANGED <<holds, access, trail, unlogged, bounds>>

PrefInserted(q) ==
    /\ q.row[1] = "pref" /\ q.read = NoRow /\ row[q.row] = NoRow /\ calls' = Others(q, q.row)
    /\ Writes(q, q.ask, Merged(q.ask, Fresh("pref")))
    /\ UNCHANGED <<holds, access, trail, unlogged, bounds>>

\* uq_notif_user_category_channel: another's row is there already.
PrefConflict(q) ==
    /\ q.row[1] = "pref" /\ q.read = NoRow /\ row[q.row] # NoRow /\ calls' = calls \ {q}
    /\ UNCHANGED <<row, holds, access, trail, recorded, bounds>>

-----------------------------------------------------------------------------
\* A statement fails, the audit row's among them: what is not committed is
\* rolled back.
StatementFails(q) ==
    /\ failures < MaxFailures /\ failures' = failures + 1
    /\ calls' = calls \ {q} /\ unlogged' = (unlogged \/ q.at # "read")
    /\ UNCHANGED <<row, holds, access, trail, decided, contested, asked>>

\* The process dies and starts again; tokens and challenges live elsewhere.
Restart ==
    /\ failures < MaxFailures /\ failures' = failures + 1
    /\ calls' = {} /\ logins' = {} /\ holds' = Seeded(holds)
    /\ unlogged' = (unlogged \/ \E q \in calls : q.at # "read")
    /\ UNCHANGED <<row, tokens, pending, trail, decided, contested, asked>>

Answers(q) ==
    \/ UpdateUserEnds(q)
    \/ SettingsCommits(q) \/ SettingsRefreshed(q) \/ SettingsLogged(q)
    \/ PrefUpdated(q) \/ PrefInserted(q) \/ PrefConflict(q)

SignsIn(u) == LoginReturns(u) \/ LoginChallenges(u)

AdministrationNext ==
    \/ \E u \in Staff : Login(u) \/ LoginDenied(u) \/ SignsIn(u) \/ Verify(u) \/ ChallengeRunsOut(u)
    \/ \E t \in tokens :
           \/ ExpireToken(t)
           \/ \E u \in Staff : \/ \E a \in Asks("person") : UpdateUserReads(t, u, a)
                               \/ \E r \in Role : UpdateUserRole(t, u, r)
           \/ \E v \in Value : UpdateMe(t, v)
           \/ \E a \in Asks("org") : SettingsReads(t, a)
           \/ \E a \in Asks("pref") : PrefReads(t, a)
    \/ \E q \in calls : Answers(q) \/ StatementFails(q)
    \/ Restart

\* Handlers end, and time passes for challenges and tokens; nobody need sign
\* in or ask for anything.
AdministrationFairness ==
    \A u \in Staff : /\ WF_admin(SignsIn(u)) /\ WF_admin(ChallengeRunsOut(u))
                     /\ WF_admin(\E t \in tokens : t.who = u /\ ExpireToken(t))
                     /\ WF_admin(\E q \in calls : q.by = u /\ Answers(q))

AdministrationSpec == AdministrationInit /\ [][AdministrationNext]_admin /\ AdministrationFairness

-----------------------------------------------------------------------------
(* Properties.                                                             *)

\* What was last asked of a column and committed is what the row holds,
\* however handlers overlap, unless the last to write it had read the row
\* before another's commit: then update_user puts back what it did not mean
\* to change, a suspension among it, and an ORM object keeps silent about a
\* column it found as asked (update_user, update_org_settings,
\* upsert_notification_pref).
AnsweredStands ==
    \A r \in Rows \ {r \in Rows : row[r] = NoRow} : \A c \in DOMAIN row[r] :
        row[r][c] = decided[r][c] \/ <<r, c>> \in contested

\* Nobody holds a token whose login is not in the trail.
LoggedIn == \A t \in tokens : Event("USER_LOGIN_SUCCESS", t.who, NoRow) \in trail

AdministrationInv == AdministrationTypeOK /\ AnsweredStands /\ LoggedIn

\* Once every change of the settings has been answered, the trail shows the
\* settings as they are, however the changes overlapped, unless an audit row
\* failed after the commit it was to tell of (update_org_settings).
TrailShows ==
    (\A q \in calls : q.row = Org => q.at = "read") /\ row[Org] # Fresh("org") /\ ~unlogged
        => \E e \in trail : e.event = "ORG_SETTINGS_UPDATED" /\ e.after = row[Org]

\* Who stays suspended has in the end no token and no handler at work for
\* them, whatever was under way at the time, a second factor included; until
\* then their tokens do all they did before (login, verify_access_token).
SuspensionTakes ==
    \A u \in Staff : <>[]Suspended(u) =>
        <>[]((\A t \in tokens : t.who # u) /\ \A q \in calls : q.by # u)
=============================================================================

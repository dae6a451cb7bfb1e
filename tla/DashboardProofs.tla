--------------------------- MODULE DashboardProofs ---------------------------
(***************************************************************************)
(* Proofs about what people do, for every value of the constants: accounts *)
(* at the server (Accounts), sessions and lists in the browser             *)
(* (Workbench), and the parts of MC_Dashboard, each by its own inductive   *)
(* invariant: RemoteShell, Administration, Statistics, TwinPage.           *)
(***************************************************************************)
EXTENDS MC_Accounts, MC_Dashboard, FiniteSetTheorems, SequenceTheorems, TLAPS

-----------------------------------------------------------------------------
(* The tables.                                                             *)

\* A later state of a table: no row is taken away, none changes hands, and
\* none is live again.
Later(before, after) ==
    /\ after \in Seq(Row) /\ Len(before) <= Len(after)
    /\ \A i \in DOMAIN before : /\ after[i].user = before[i].user
                                /\ after[i].live => before[i].live

LEMMA SameLater ==
    ASSUME NEW table \in Seq(Row)
    PROVE  Later(table, table)
BY DEF Later

\* Closing a row (revoke_session, use_password_reset).
LEMMA ClosedLater ==
    ASSUME NEW table \in Seq(Row), NEW i \in DOMAIN table
    PROVE  /\ Later(table, Closed(table, i)) /\ Len(Closed(table, i)) = Len(table)
           /\ ~Closed(table, i)[i].live
<1>1. \A r \in Row : Over(r) \in Row /\ Over(r).user = r.user /\ ~Over(r).live
  BY DEF Row, Over
<1>2. DOMAIN table = 1 .. Len(table) /\ \A k \in DOMAIN table : table[k] \in Row
  OBVIOUS
<1> QED  BY <1>1, <1>2 DEF Closed, Later

\* Closing every row of a user (revoke_all_user_sessions).
LEMMA RevokedLater ==
    ASSUME sessions \in Seq(Row), NEW u \in Users
    PROVE  /\ Later(sessions, RevokedAll(u)) /\ Len(RevokedAll(u)) = Len(sessions)
           /\ \A i \in DOMAIN sessions : sessions[i].user = u => ~RevokedAll(u)[i].live
<1>1. \A r \in Row : Over(r) \in Row /\ Over(r).user = r.user /\ ~Over(r).live
  BY DEF Row, Over
<1>2. DOMAIN sessions = 1 .. Len(sessions) /\ \A k \in DOMAIN sessions : sessions[k] \in Row
  OBVIOUS
<1> QED  BY <1>1, <1>2, IsASeq DEF RevokedAll, Later

\* Adding a row (create_session, create_password_reset).
LEMMA OpenedLater ==
    ASSUME NEW table \in Seq(Row), NEW u \in Users
    PROVE  Later(table, Opened(table, u)) /\ Len(Opened(table, u)) = Len(table) + 1
BY DEF Opened, Later, Row

\* Closing one and adding one (refresh_tokens).
LEMMA ReplacedLater ==
    ASSUME NEW table \in Seq(Row), NEW i \in DOMAIN table, NEW u \in Users
    PROVE  LET after == Opened(Closed(table, i), u) IN
           Later(table, after) /\ Len(after) = Len(table) + 1 /\ ~after[i].live
<1> DEFINE middle == Closed(table, i)
           after  == Opened(middle, u)
<1>1. Later(table, middle) /\ Len(middle) = Len(table) /\ ~middle[i].live
  BY ClosedLater
<1>2. middle \in Seq(Row)
  BY <1>1 DEF Later
<1> HIDE DEF middle
<1>3. Later(middle, after) /\ Len(after) = Len(middle) + 1
  BY <1>2, OpenedLater
<1>4. DOMAIN table = 1 .. Len(table) /\ DOMAIN middle = DOMAIN table
  BY <1>1, <1>2
<1> QED  BY <1>1, <1>3, <1>4 DEF Later, middle

-----------------------------------------------------------------------------
(* The steps.                                                              *)

Tables == Later(sessions, sessions') /\ Later(resets, resets') /\ Later(challenges, challenges')

\* A call that is neither a read nor honoured.
Quiet ==
    /\ UNCHANGED <<raced, uses, cutoff>>
    /\ \A q \in open' : q \in open \/ q.call.op = "login"

\* A call that reads the live row of a token.
Reads ==
    /\ UNCHANGED <<tables, redis, uses, cutoff>>
    /\ \E op \in Reader, u \in Users, key \in Nat :
           /\ Good(<<op, key>>)
           /\ raced' = raced \cup {<<op, key>> : q \in {q \in open :
                                      q.call.op = op /\ q.call.key = key}}
           /\ \E new : /\ open' = open \cup {new}
                       /\ new.call = [op |-> op, user |-> u, key |-> key]

\* A call whose token is honoured, and its row closed.
Honours ==
    \E q \in open :
        /\ q.call.op \in Reader /\ open' = open \ {q} /\ raced' = raced
        /\ uses' = [uses EXCEPT ![<<q.call.op, q.call.key>>] = @ + 1]
        /\ ~Good(<<q.call.op, q.call.key>>)'

\* What a call under way stands for.
LEMMA CallFacts ==
    ASSUME Inv, NEW q \in open
    PROVE  /\ q.call.user \in Users /\ q.call.op \in Reader \cup {"login"}
           /\ q.call.op = "login" => q.call.mfa \in BOOLEAN
           /\ q.call.op \in Reader => /\ q.call.key \in DOMAIN Table(q.call.op)
                                      /\ <<q.call.op, q.call.key>> \in Token
<1>1. q.call \in Call
  BY DEF Inv, TypeOK
<1>2. q.call.user \in Users /\ q.call.op \in Reader \cup {"login"}
      /\ (q.call.op = "login" => q.call.mfa \in BOOLEAN)
  BY <1>1 DEF Call, Reader
<1>3. ASSUME q.call.op \in Reader
      PROVE  q.call.key \in DOMAIN Table(q.call.op) /\ <<q.call.op, q.call.key>> \in Token
  <2>1. q.call.key \in DOMAIN Table(q.call.op)
    BY <1>3 DEF Inv, Known, Reader
  <2>2. sessions \in Seq(Row) /\ resets \in Seq(Row) /\ challenges \in Seq(Row)
        /\ Len(sessions) <= MaxSessions /\ Len(resets) <= MaxResets
        /\ Len(challenges) <= MaxChallenges
    BY DEF Inv, TypeOK
  <2>3. /\ DOMAIN sessions \subseteq 1 .. MaxSessions /\ DOMAIN resets \subseteq 1 .. MaxResets
        /\ DOMAIN challenges \subseteq 1 .. MaxChallenges
    BY <2>2, AccountsBounds
  <2> QED  BY <1>3, <2>1, <2>3 DEF Token, Table, Reader
<1> QED  BY <1>2, <1>3

\* A call's number is one that no call under way has (get_db).
LEMMA BeginType ==
    ASSUME TypeOK, NEW call \in Call, Begin(call)
    PROVE  /\ IsFiniteSet(open') /\ open' \subseteq [call : Call, no : 1 .. MaxOpen]
           /\ \E new : open' = open \cup {new} /\ new.call = call
<1> DEFINE free == (1 .. MaxOpen) \ {q.no : q \in open}
           n == CHOOSE n \in free : TRUE
<1>1. n \in free /\ open' = open \cup {[call |-> call, no |-> n]}
  BY DEF Begin
<1>2. IsFiniteSet(open')
  BY <1>1, FS_AddElement DEF TypeOK
<1> DEFINE it == [call |-> call, no |-> n]
<1>3. it \in [call : Call, no : 1 .. MaxOpen] /\ it.call = call
  BY <1>1
<1>4. open' = open \cup {it}
  BY <1>1
<1> HIDE DEF it, n
<1> QED  BY <1>2, <1>3, <1>4 DEF TypeOK

\* What every step does: types, tables, token, and what a reset knows.
Step ==
    /\ TypeOK' /\ Tables
    /\ Quiet \/ Reads \/ Honours
    /\ \/ UNCHANGED cutoff
       \/ \E u \in Users : /\ sessions' = RevokedAll(u)
                           /\ cutoff' = [cutoff EXCEPT ![u] = Len(sessions)]

\* Steps that leave the calls and the history alone.
LEMMA QuietSteps ==
    ASSUME Inv, UNCHANGED <<open, history>>,
           Later(sessions, sessions') /\ Len(sessions') = Len(sessions),
           Later(resets, resets') /\ Len(resets') <= MaxResets,
           Later(challenges, challenges') /\ Len(challenges') = Len(challenges),
           mfa' \in [Users -> Mfa],
           window' \in 0 .. MaxAttempts,
           phone' \in [Users -> 0 .. MaxSecrets], shown' \in [Users -> 0 .. MaxSecrets]
    PROVE  Step
<1>1. TypeOK'
  BY DEF Inv, TypeOK, Later, history
<1>2. Quiet /\ UNCHANGED cutoff
  BY DEF Quiet, history
<1> QED  BY <1>1, <1>2 DEF Step, Tables

\* The columns mfa_enabled and mfa_secret, and how they are written.
LEMMA MfaType ==
    /\ \A m \in Mfa, n \in 0 .. MaxSecrets : [m EXCEPT !.secret = n] \in Mfa
    /\ \A m \in Mfa : [m EXCEPT !.enabled = TRUE] \in Mfa
    /\ [enabled |-> FALSE, secret |-> 0] \in Mfa
<1>1. MaxSecrets \in Nat
  BY AccountsBounds
<1>2. ASSUME NEW m \in Mfa, NEW n \in 0 .. MaxSecrets
      PROVE  [m EXCEPT !.secret = n] \in Mfa /\ [m EXCEPT !.enabled = TRUE] \in Mfa
  BY DEF Mfa
<1>3. [enabled |-> FALSE, secret |-> 0] \in Mfa
  BY <1>1 DEF Mfa
<1> QED  BY <1>2, <1>3, <1>1 DEF Mfa

LEMMA PersonSteps ==
    ASSUME Inv, NEW u \in Users,
           SetupMfa(u) \/ EnableMfa(u) \/ DisableMfa(u) \/ ForgotPassword(u) \/ ForceLogout(u)
           \/ UpdateRole(u)
    PROVE  Step
<1>1. /\ mfa \in [Users -> Mfa]
      /\ sessions \in Seq(Row) /\ resets \in Seq(Row) /\ challenges \in Seq(Row)
      /\ Len(resets) <= MaxResets /\ window \in 0 .. MaxAttempts
      /\ phone \in [Users -> 0 .. MaxSecrets] /\ shown \in [Users -> 0 .. MaxSecrets]
      /\ MaxResets \in Nat /\ MaxSecrets \in Nat
  BY AccountsBounds DEF Inv, TypeOK
<1>2. Later(sessions, sessions) /\ Later(resets, resets) /\ Later(challenges, challenges)
  BY <1>1, SameLater
<1>3. /\ \A m \in Mfa, n \in 0 .. MaxSecrets : [m EXCEPT !.secret = n] \in Mfa
      /\ \A m \in Mfa : [m EXCEPT !.enabled = TRUE] \in Mfa
      /\ [enabled |-> FALSE, secret |-> 0] \in Mfa
  BY MfaType
<1>4. CASE SetupMfa(u)
  <2>1. shown[u] + 1 \in 0 .. MaxSecrets
    BY <1>1, <1>4 DEF SetupMfa
  <2>2. mfa' \in [Users -> Mfa] /\ phone' \in [Users -> 0 .. MaxSecrets]
        /\ shown' \in [Users -> 0 .. MaxSecrets]
    BY <1>1, <1>3, <1>4, <2>1 DEF SetupMfa
  <2> QED  BY <1>1, <1>2, <1>4, <2>2, QuietSteps DEF SetupMfa, redis
<1>5. CASE EnableMfa(u) \/ DisableMfa(u)
  <2>1. mfa' \in [Users -> Mfa]
    BY <1>1, <1>3, <1>5 DEF EnableMfa, DisableMfa
  <2> QED  BY <1>1, <1>2, <1>5, <2>1, QuietSteps DEF EnableMfa, DisableMfa, redis, people
<1>6. CASE ForgotPassword(u)
  <2>1. Later(resets, resets') /\ Len(resets') <= MaxResets
    BY <1>1, <1>6, OpenedLater DEF ForgotPassword
  <2> QED  BY <1>1, <1>2, <1>6, <2>1, QuietSteps DEF ForgotPassword, redis, people
<1>7. ASSUME sessions' = RevokedAll(u),
             UNCHANGED <<mfa, resets, redis, open, people, history>>
      PROVE  Step
  <2>1. Later(sessions, sessions') /\ Len(sessions') = Len(sessions)
    BY <1>1, <1>7, RevokedLater
  <2> QED  BY <1>1, <1>2, <1>7, <2>1, QuietSteps DEF redis, people
<1>8. CASE ForceLogout(u)
  BY <1>1, <1>7, <1>8 DEF ForceLogout
<1>9. ASSUME UpdateRole(u) PROVE Step
  BY <1>1, <1>7, <1>9 DEF UpdateRole
<1> QED  BY <1>4, <1>5, <1>6, <1>8, <1>9

LEMMA OtherSteps ==
    ASSUME Inv,
           \/ WindowEnds \/ LoginRefused \/ UNCHANGED vars
           \/ \E i \in DOMAIN sessions : Logout(i) \/ RevokeMySession(i)
           \/ \E k \in DOMAIN challenges : ChallengeExpires(k)
           \/ \E k \in DOMAIN resets : ResetExpires(k)
    PROVE  Step
<1>1. /\ mfa \in [Users -> Mfa]
      /\ sessions \in Seq(Row) /\ resets \in Seq(Row) /\ challenges \in Seq(Row)
      /\ Len(resets) <= MaxResets /\ window \in 0 .. MaxAttempts /\ MaxAttempts \in Nat
      /\ phone \in [Users -> 0 .. MaxSecrets] /\ shown \in [Users -> 0 .. MaxSecrets]
  BY AccountsBounds DEF Inv, TypeOK
<1>2. Later(sessions, sessions) /\ Later(resets, resets) /\ Later(challenges, challenges)
  BY <1>1, SameLater
<1>3. CASE WindowEnds \/ LoginRefused \/ UNCHANGED vars
  <2>1. window' \in 0 .. MaxAttempts
    BY <1>1, <1>3 DEF WindowEnds, LoginRefused, Counted, Admitted, vars, redis
  <2> QED
    BY <1>1, <1>2, <1>3, <2>1, QuietSteps DEF WindowEnds, LoginRefused, vars, tables, redis, people
<1>4. ASSUME NEW i \in DOMAIN sessions, Logout(i) \/ RevokeMySession(i) PROVE Step
  <2>1. Later(sessions, sessions') /\ Len(sessions') = Len(sessions)
    BY <1>1, <1>4, ClosedLater DEF Logout, RevokeMySession
  <2> QED  BY <1>1, <1>2, <1>4, <2>1, QuietSteps DEF Logout, RevokeMySession, redis, people
<1>5. ASSUME NEW k \in DOMAIN challenges, ChallengeExpires(k) PROVE Step
  <2>1. Later(challenges, challenges') /\ Len(challenges') = Len(challenges)
    BY <1>1, <1>5, ClosedLater DEF ChallengeExpires
  <2> QED  BY <1>1, <1>2, <1>5, <2>1, QuietSteps DEF ChallengeExpires, tables, people
<1>6. ASSUME NEW k \in DOMAIN resets, ResetExpires(k) PROVE Step
  <2>1. Later(resets, resets') /\ Len(resets') = Len(resets)
    BY <1>1, <1>6, ClosedLater DEF ResetExpires
  <2> QED  BY <1>1, <1>2, <1>6, <2>1, QuietSteps DEF ResetExpires, redis, people
<1> QED  BY <1>3, <1>4, <1>5, <1>6

\* Steps that leave the tables alone but for a call that begins or fails.
LEMMA CallSteps ==
    ASSUME Inv, UNCHANGED <<mfa, sessions, resets, people, uses, cutoff>>,
           IsFiniteSet(open') /\ open' \subseteq [call : Call, no : 1 .. MaxOpen],
           Later(challenges, challenges') /\ Len(challenges') = Len(challenges),
           window' \in 0 .. MaxAttempts, faults' \in 0 .. MaxFaults,
           raced' \subseteq Token, Quiet \/ Reads
    PROVE  Step
<1>1. TypeOK'
  BY DEF Inv, TypeOK, Later, people
<1>2. Tables
  BY SameLater DEF Tables, Inv, TypeOK
<1> QED  BY <1>1, <1>2 DEF Step

LEMMA ReadSteps ==
    ASSUME Inv,
           \/ \E u \in Users : LoginReads(u)
           \/ \E i \in DOMAIN sessions : RefreshReads(i)
           \/ \E k \in DOMAIN challenges : VerifyReads(k)
           \/ \E k \in DOMAIN resets : ResetReads(k)
    PROVE  Step
<1>1. TypeOK
  BY DEF Inv
<1>2. /\ mfa \in [Users -> Mfa] /\ challenges \in Seq(Row) /\ raced \subseteq Token
      /\ window \in 0 .. MaxAttempts /\ faults \in 0 .. MaxFaults /\ MaxAttempts \in Nat
  BY <1>1, AccountsBounds DEF TypeOK
<1>3. Later(challenges, challenges)
  BY <1>2, SameLater
<1>4. ASSUME NEW u \in Users, LoginReads(u) PROVE Step
  <2> DEFINE both == mfa[u].enabled /\ mfa[u].secret # 0
             call == [op |-> "login", user |-> u, mfa |-> both]
  <2>1. both \in BOOLEAN
    OBVIOUS
  <2> HIDE DEF both
  <2>2. call \in Call /\ call.op = "login"
    BY <2>1 DEF Call
  <2>3. Begin(call)
    BY <1>4 DEF LoginReads, both
  <2> HIDE DEF call
  <2>4. /\ IsFiniteSet(open') /\ open' \subseteq [call : Call, no : 1 .. MaxOpen]
        /\ \E new : open' = open \cup {new} /\ new.call = call
    BY <1>1, <2>2, <2>3, BeginType
  <2>5. Quiet
    BY <1>4, <2>2, <2>4 DEF Quiet, LoginReads, history
  <2>6. window' \in 0 .. MaxAttempts
    BY <1>2, <1>4 DEF LoginReads, Counted, Admitted
  <2> QED  BY <1>2, <1>3, <1>4, <2>4, <2>5, <2>6, CallSteps DEF LoginReads, tables, people, history
<1>5. ASSUME NEW op \in Reader, NEW u \in Users, NEW key \in Nat, <<op, key>> \in Token,
             Good(<<op, key>>), BeginWith(op, u, key), UNCHANGED <<tables, redis, people>>
      PROVE  Step
  <2> DEFINE call == [op |-> op, user |-> u, key |-> key]
  <2>1. call \in Call
    BY DEF Call
  <2>2. Begin(call)
    BY <1>5 DEF BeginWith
  <2> HIDE DEF call
  <2>3. /\ IsFiniteSet(open') /\ open' \subseteq [call : Call, no : 1 .. MaxOpen]
        /\ \E new : open' = open \cup {new} /\ new.call = call
    BY <1>1, <2>1, <2>2, BeginType
  <2>4. Reads
    BY <1>5, <2>3 DEF Reads, BeginWith, call
  <2>5. raced' \subseteq Token
    BY <1>2, <1>5 DEF BeginWith
  <2> QED  BY <1>2, <1>3, <1>5, <2>3, <2>4, <2>5, CallSteps DEF BeginWith, tables, redis
<1>6. ASSUME NEW op \in Reader, NEW key \in DOMAIN Table(op), Table(op)[key].live,
             BeginWith(op, Table(op)[key].user, key), UNCHANGED <<tables, redis, people>>
      PROVE  Step
  <2>1. /\ sessions \in Seq(Row) /\ resets \in Seq(Row) /\ challenges \in Seq(Row)
        /\ Len(sessions) <= MaxSessions /\ Len(resets) <= MaxResets
        /\ Len(challenges) <= MaxChallenges
    BY <1>1 DEF TypeOK
  <2>2. Table(op) \in Seq(Row)
    BY <2>1 DEF Table
  <2>3. key \in Nat /\ Table(op)[key] \in Row
    BY <2>2
  <2>4. Table(op)[key].user \in Users
    BY <2>3 DEF Row
  <2>5. <<op, key>> \in Token
    BY <2>1, <1>6, AccountsBounds DEF Token, Table, Reader
  <2>6. Good(<<op, key>>)
    BY <1>6 DEF Good
  <2> QED  BY <1>5, <1>6, <2>3, <2>4, <2>5, <2>6
<1>7. ASSUME NEW i \in DOMAIN sessions, RefreshReads(i) PROVE Step
  <2>1. Table("refresh") = sessions
    BY DEF Table
  <2> QED  BY <1>6, <1>7, <2>1 DEF RefreshReads, Reader
<1>8. ASSUME NEW k \in DOMAIN challenges, VerifyReads(k) PROVE Step
  <2>1. Table("challenge") = challenges
    BY DEF Table
  <2> QED  BY <1>6, <1>8, <2>1 DEF VerifyReads, Reader
<1>9. ASSUME NEW k \in DOMAIN resets, ResetReads(k) PROVE Step
  <2>1. Table("reset") = resets
    BY DEF Table
  <2> QED  BY <1>6, <1>9, <2>1 DEF ResetReads, Reader
<1> QED  BY <1>4, <1>7, <1>8, <1>9

LEMMA EndSteps ==
    ASSUME Inv, NEW q \in open, Ends(q)
    PROVE  Step
<1>1. TypeOK
  BY DEF Inv
<1>2. /\ sessions \in Seq(Row) /\ resets \in Seq(Row) /\ challenges \in Seq(Row)
      /\ Len(sessions) <= MaxSessions /\ Len(resets) <= MaxResets
      /\ Len(challenges) <= MaxChallenges /\ MaxSessions \in Nat /\ MaxChallenges \in Nat
      /\ faults \in 0 .. MaxFaults /\ MaxFaults \in Nat
      /\ uses \in [Token -> Nat] /\ cutoff \in [Users -> 0 .. MaxSessions]
  BY <1>1, AccountsBounds DEF TypeOK
<1>3. Later(sessions, sessions) /\ Later(resets, resets) /\ Later(challenges, challenges)
  BY <1>2, SameLater
<1>4. q.call.user \in Users
  BY CallFacts
<1>5. IsFiniteSet(open \ {q}) /\ open \ {q} \subseteq [call : Call, no : 1 .. MaxOpen]
  BY <1>1, FS_RemoveElement DEF TypeOK
<1>6. CASE LoginEnds(q)
  <2>1. Quiet /\ UNCHANGED cutoff
    BY <1>6 DEF LoginEnds, Quiet, history
  <2>2. Later(challenges, challenges') /\ Len(challenges') <= MaxChallenges
        /\ Later(sessions, sessions') /\ Len(sessions') <= MaxSessions
    BY <1>2, <1>3, <1>4, <1>6, OpenedLater DEF LoginEnds, Room
  <2>3. TypeOK'
    BY <1>1, <1>5, <1>6, <2>2 DEF TypeOK, Later, LoginEnds, people, history
  <2> QED  BY <1>3, <1>6, <2>1, <2>2, <2>3 DEF Step, Tables, LoginEnds
<1>7. CASE Fails(q)
  <2>1. Later(challenges, challenges') /\ Len(challenges') = Len(challenges)
    <3>1. q.call.op = "challenge" => q.call.key \in DOMAIN challenges
      BY CallFacts DEF Table, Reader
    <3> QED  BY <1>2, <1>3, <1>7, <3>1, ClosedLater DEF Fails
  <2>2. Quiet
    BY <1>7 DEF Fails, Quiet
  <2>3. faults' \in 0 .. MaxFaults
    BY <1>2, <1>7 DEF Fails
  <2> QED  BY <1>1, <1>5, <1>7, <2>1, <2>2, <2>3, CallSteps DEF Fails, tables, TypeOK
<1>8. ASSUME Honour(q), q.call.op \in Reader, UNCHANGED <<mfa, window, people, raced, faults>>,
             Later(sessions, sessions') /\ Len(sessions') <= MaxSessions,
             Later(resets, resets') /\ Len(resets') <= MaxResets,
             Later(challenges, challenges') /\ Len(challenges') <= MaxChallenges,
             ~Good(<<q.call.op, q.call.key>>)', cutoff' \in [Users -> 0 .. MaxSessions],
             \/ UNCHANGED cutoff
             \/ \E u \in Users : /\ sessions' = RevokedAll(u)
                                 /\ cutoff' = [cutoff EXCEPT ![u] = Len(sessions)]
      PROVE  Step
  <2>1. Honours
    BY <1>8 DEF Honours, Honour
  <2>2. uses' \in [Token -> Nat]
    BY <1>2, <1>8, CallFacts DEF Honour
  <2>3. TypeOK'
    BY <1>1, <1>5, <1>8, <2>2 DEF TypeOK, Later, Honour, people
  <2> QED  BY <1>8, <2>1, <2>3 DEF Step, Tables
<1>9. CASE VerifyEnds(q)
  <2>1. q.call.op \in Reader /\ q.call.key \in DOMAIN challenges
    BY <1>9, CallFacts DEF VerifyEnds, Table, Reader
  <2>2. Later(challenges, challenges') /\ Len(challenges') <= MaxChallenges
        /\ ~challenges'[q.call.key].live
    BY <1>2, <1>9, <2>1, ClosedLater DEF VerifyEnds
  <2>3. Later(sessions, sessions') /\ Len(sessions') <= MaxSessions
    BY <1>2, <1>4, <1>9, OpenedLater DEF VerifyEnds, Room
  <2>4. ~Good(<<q.call.op, q.call.key>>)'
    BY <1>9, <2>2 DEF VerifyEnds, Good, Table
  <2> QED  BY <1>2, <1>3, <1>8, <1>9, <2>1, <2>2, <2>3, <2>4 DEF VerifyEnds
<1>10. CASE RefreshEnds(q)
  <2>1. q.call.op \in Reader /\ q.call.key \in DOMAIN sessions
    BY <1>10, CallFacts DEF RefreshEnds, Table, Reader
  <2>2. Later(sessions, sessions') /\ Len(sessions') <= MaxSessions
        /\ ~sessions'[q.call.key].live
    BY <1>2, <1>4, <1>10, <2>1, ReplacedLater DEF RefreshEnds, Room
  <2>3. ~Good(<<q.call.op, q.call.key>>)'
    BY <1>10, <2>2 DEF RefreshEnds, Good, Table
  <2> QED  BY <1>2, <1>3, <1>8, <1>10, <2>1, <2>2, <2>3 DEF RefreshEnds, redis
<1>11. CASE ResetEnds(q)
  <2>1. q.call.op \in Reader /\ q.call.key \in DOMAIN resets
    BY <1>11, CallFacts DEF ResetEnds, Table, Reader
  <2>2. Later(resets, resets') /\ Len(resets') <= MaxResets /\ ~resets'[q.call.key].live
    BY <1>2, <1>11, <2>1, ClosedLater DEF ResetEnds
  <2>3. Later(sessions, sessions') /\ Len(sessions') <= MaxSessions
    BY <1>2, <1>4, <1>11, RevokedLater DEF ResetEnds
  <2>4. ~Good(<<q.call.op, q.call.key>>)'
    BY <1>11, <2>2 DEF ResetEnds, Good, Table
  <2>5. cutoff' \in [Users -> 0 .. MaxSessions]
    <3>1. Len(sessions) \in 0 .. MaxSessions
      BY <1>2
    <3> QED  BY <1>2, <1>11, <3>1 DEF ResetEnds
  <2> QED  BY <1>2, <1>3, <1>4, <1>8, <1>11, <2>1, <2>2, <2>3, <2>4, <2>5 DEF ResetEnds, redis
<1> QED  BY <1>6, <1>7, <1>9, <1>10, <1>11 DEF Ends

LEMMA NextSteps ==
    ASSUME Inv, [Next]_vars
    PROVE  Step
<1>1. ASSUME NEW u \in Users,
             \/ LoginReads(u) \/ ForgotPassword(u) \/ ForceLogout(u)
             \/ UpdateRole(u)
             \/ SetupMfa(u) \/ EnableMfa(u) \/ DisableMfa(u)
      PROVE  Step
  BY <1>1, PersonSteps, ReadSteps
<1>2. CASE \/ WindowEnds \/ LoginRefused \/ UNCHANGED vars
           \/ \E i \in DOMAIN sessions : Logout(i) \/ RevokeMySession(i)
           \/ \E k \in DOMAIN challenges : ChallengeExpires(k)
           \/ \E k \in DOMAIN resets : ResetExpires(k)
  BY <1>2, OtherSteps
<1>3. CASE \/ \E i \in DOMAIN sessions : RefreshReads(i)
           \/ \E k \in DOMAIN challenges : VerifyReads(k)
           \/ \E k \in DOMAIN resets : ResetReads(k)
  BY <1>3, ReadSteps
<1>4. ASSUME NEW q \in open, Ends(q) PROVE Step
  BY <1>4, EndSteps
<1> QED  BY <1>1, <1>2, <1>3, <1>4 DEF Next

-----------------------------------------------------------------------------
(* The invariant.                                                          *)

\* A token's table only grows, and a token that is good for nothing stays so.
LEMMA TablesKeep ==
    ASSUME Inv, Step, NEW t \in Token, t[2] \in DOMAIN Table(t[1])
    PROVE  t[2] \in DOMAIN Table(t[1])' /\ (Good(t)' => Good(t))
<1> DEFINE before == Table(t[1])
           after  == Table(t[1])'
<1>1. before \in Seq(Row) /\ Later(before, after)
  BY DEF Inv, TypeOK, Step, Tables, Table
<1>2. DOMAIN before \subseteq DOMAIN after
  <2>1. after \in Seq(Row) /\ Len(before) <= Len(after)
    BY <1>1 DEF Later
  <2> HIDE DEF before, after
  <2> QED  BY <1>1, <2>1
<1>3. \A i \in DOMAIN before : after[i].live => before[i].live
  BY <1>1 DEF Later
<1> QED  BY <1>2, <1>3 DEF Good

\* The kinds of token differ, and each is a pair.
LEMMA TokenShape ==
    ASSUME NEW t \in Token
    PROVE  t = <<t[1], t[2]>> /\ t[1] \in Reader /\ t[2] \in Nat
BY AccountsBounds DEF Token, Reader

LEMMA KnownStep ==
    ASSUME Inv, Step
    PROVE  Known'
<1>1. \A u \in Users : cutoff'[u] <= Len(sessions')
  <2>1. sessions \in Seq(Row) /\ sessions' \in Seq(Row) /\ Len(sessions) <= Len(sessions')
    BY DEF Inv, TypeOK, Step, Tables, Later
  <2>2. cutoff \in [Users -> 0 .. MaxSessions] /\ \A u \in Users : cutoff[u] <= Len(sessions)
    BY DEF Inv, TypeOK, Known
  <2>3. \A u \in Users : cutoff'[u] = cutoff[u] \/ cutoff'[u] = Len(sessions)
    BY <2>2 DEF Step
  <2> QED  BY <2>1, <2>2, <2>3, AccountsBounds
<1>2. ASSUME NEW q \in open', q.call.op # "login" PROVE q.call.key \in DOMAIN Table(q.call.op)'
  <2>1. ASSUME q \in open PROVE q.call.key \in DOMAIN Table(q.call.op)'
    <3> DEFINE t == <<q.call.op, q.call.key>>
    <3>1. t \in Token /\ t[2] \in DOMAIN Table(t[1])
      BY <1>2, <2>1, CallFacts
    <3> QED  BY <3>1, TablesKeep
  <2>2. CASE Reads
    BY <1>2, <2>1, <2>2 DEF Reads, Good, Table, tables, redis
  <2>3. CASE Quiet \/ Honours
    BY <1>2, <2>1, <2>3 DEF Quiet, Honours
  <2> QED  BY <2>2, <2>3 DEF Step
<1>3. ASSUME NEW t \in Token, uses'[t] > 0 PROVE t[2] \in DOMAIN Table(t[1])'
  <2>1. t[2] \in DOMAIN Table(t[1])
    <3>1. CASE Quiet \/ Reads
      BY <1>3, <3>1 DEF Inv, Known, Quiet, Reads
    <3>2. CASE Honours
      <4>1. PICK q \in open : /\ q.call.op \in Reader
                             /\ uses' = [uses EXCEPT ![<<q.call.op, q.call.key>>] = @ + 1]
        BY <3>2 DEF Honours
      <4>2. CASE t = <<q.call.op, q.call.key>>
        BY <4>1, <4>2, CallFacts
      <4>3. CASE t # <<q.call.op, q.call.key>>
        BY <1>3, <4>1, <4>3 DEF Inv, TypeOK, Known
      <4> QED  BY <4>2, <4>3
    <3> QED  BY <3>1, <3>2 DEF Step
  <2> QED  BY <2>1, TablesKeep
<1> QED  BY <1>1, <1>2, <1>3 DEF Known

\* Spent and SingleUse, one token at a time.
SpentOnce(t) ==
    /\ \A p, q \in Holders(t) : p = q
    /\ uses[t] > 0 => ~Good(t) /\ Holders(t) = {}
    /\ uses[t] <= 1

LEMMA SpentStep ==
    ASSUME Inv, Step, NEW t \in Token, t \notin raced'
    PROVE  SpentOnce(t)'
<1>1. uses \in [Token -> Nat] /\ t = <<t[1], t[2]>> /\ t[1] \in Reader
  BY TokenShape DEF Inv, TypeOK
<1>2. t \notin raced
  BY DEF Step, Quiet, Reads, Honours
<1>3. SpentOnce(t)
  BY <1>2 DEF Inv, Spent, SingleUse, SpentOnce
<1>4. uses[t] > 0 => ~Good(t)'
  BY <1>3, TablesKeep DEF SpentOnce, Inv, Known
<1>5. ASSUME Holders(t)' \subseteq Holders(t), uses'[t] = uses[t] PROVE SpentOnce(t)'
  BY <1>3, <1>4, <1>5 DEF SpentOnce
<1>6. CASE Quiet
  <2>1. Holders(t)' \subseteq Holders(t)
    BY <1>1, <1>6 DEF Quiet, Holders, Reader
  <2> QED  BY <1>5, <1>6, <2>1 DEF Quiet
<1>7. CASE Reads
  <2>0. PICK op \in Reader, u \in Users, key \in Nat :
            /\ Good(<<op, key>>)
            /\ raced' = raced \cup {<<op, key>> : q \in {q \in open :
                                       q.call.op = op /\ q.call.key = key}}
            /\ \E new : /\ open' = open \cup {new}
                        /\ new.call = [op |-> op, user |-> u, key |-> key]
    BY <1>7 DEF Reads
  <2>1. PICK new : /\ open' = open \cup {new}
                   /\ new.call = [op |-> op, user |-> u, key |-> key]
    BY <2>0
  <2>2. CASE t = <<op, key>>
    <3>1. Holders(t) = {}
      BY <2>0, <2>1, <2>2 DEF Holders
    <3>2. \A p, q \in Holders(t)' : p = q
      BY <2>1, <3>1 DEF Holders
    <3>3. uses'[t] = 0
      BY <1>1, <1>3, <1>7, <2>0, <2>2 DEF SpentOnce, Reads
    <3> QED  BY <3>2, <3>3 DEF SpentOnce
  <2>3. CASE t # <<op, key>>
    <3>1. Holders(t)' \subseteq Holders(t)
      BY <1>1, <2>1, <2>3 DEF Holders
    <3> QED  BY <1>5, <1>7, <3>1 DEF Reads
  <2> QED  BY <2>2, <2>3
<1>8. CASE Honours
  <2>1. PICK q \in open :
            /\ q.call.op \in Reader /\ open' = open \ {q}
            /\ uses' = [uses EXCEPT ![<<q.call.op, q.call.key>>] = @ + 1]
            /\ ~Good(<<q.call.op, q.call.key>>)'
    BY <1>8 DEF Honours
  <2>2. Holders(t)' \subseteq Holders(t)
    BY <2>1 DEF Holders
  <2>3. CASE t = <<q.call.op, q.call.key>>
    <3>1. q \in Holders(t)
      BY <2>3 DEF Holders
    <3>2. Holders(t)' = {}
      BY <1>3, <2>1, <2>2, <3>1 DEF SpentOnce, Holders
    <3>3. uses'[t] = 1
      BY <1>1, <1>3, <2>1, <2>3, <3>1 DEF SpentOnce
    <3> QED  BY <2>1, <2>3, <3>2, <3>3 DEF SpentOnce
  <2>4. CASE t # <<q.call.op, q.call.key>>
    BY <1>1, <1>5, <2>1, <2>2, <2>4
  <2> QED  BY <2>3, <2>4
<1> QED  BY <1>6, <1>7, <1>8 DEF Step

LEMMA SurvivesStep ==
    ASSUME Inv, Step
    PROVE  NoneSurvivesReset'
<1> SUFFICES ASSUME NEW i \in DOMAIN sessions', sessions'[i].live
             PROVE  i > cutoff'[sessions'[i].user]
  BY DEF NoneSurvivesReset
<1>1. /\ sessions \in Seq(Row) /\ sessions' \in Seq(Row) /\ Later(sessions, sessions')
      /\ cutoff \in [Users -> 0 .. MaxSessions] /\ MaxSessions \in Nat
      /\ \A u \in Users : cutoff[u] <= Len(sessions)
  BY AccountsBounds DEF Inv, TypeOK, Known, Step, Tables, Later
<1>2. sessions'[i].user \in Users
  <2>1. sessions'[i] \in Row
    BY <1>1
  <2> QED  BY <2>1 DEF Row
<1>3. CASE i \in DOMAIN sessions
  <2>1. sessions[i].live /\ sessions'[i].user = sessions[i].user
    BY <1>1, <1>3 DEF Later
  <2>2. i > cutoff[sessions[i].user]
    BY <1>3, <2>1 DEF Inv, NoneSurvivesReset
  <2>3. ASSUME NEW u \in Users, sessions' = RevokedAll(u),
               cutoff' = [cutoff EXCEPT ![u] = Len(sessions)]
        PROVE  cutoff'[sessions[i].user] = cutoff[sessions[i].user]
    <3>1. sessions[i].user # u
      BY <1>1, <1>3, <2>3, RevokedLater
    <3> QED  BY <1>1, <1>2, <2>1, <2>3, <3>1
  <2> QED  BY <2>1, <2>2, <2>3 DEF Step
<1>4. CASE i \notin DOMAIN sessions
  <2> DEFINE known == cutoff'[sessions'[i].user]
  <2>1. i \in Nat /\ i > Len(sessions) /\ Len(sessions) \in Nat
    BY <1>1, <1>4
  <2>2. known = cutoff[sessions'[i].user] \/ known = Len(sessions)
    BY <1>1, <1>2 DEF Step
  <2>3. known \in Nat /\ known <= Len(sessions)
    BY <1>1, <1>2, <2>1, <2>2
  <2> HIDE DEF known
  <2>4. i > known
    BY <2>1, <2>3
  <2> QED  BY <2>4 DEF known
<1> QED  BY <1>3, <1>4

\* The invariant of the accounts: a token is honoured once, and no session
\* outlives a password reset (auth_service.py).
THEOREM InvCorrect == Spec => []Inv
<1>1. Init => Inv
  <2> SUFFICES ASSUME Init PROVE Inv
    OBVIOUS
  <2>1. TypeOK
    BY AccountsBounds, FS_EmptySet DEF Init, TypeOK, Mfa
  <2>2. Known /\ Spent /\ SingleUse /\ NoneSurvivesReset
    BY DEF Init, Known, Spent, SingleUse, NoneSurvivesReset, Holders
  <2> QED  BY <2>1, <2>2 DEF Inv
<1>2. Inv /\ [Next]_vars => Inv'
  <2> SUFFICES ASSUME Inv, [Next]_vars PROVE Inv'
    OBVIOUS
  <2>1. Step
    BY NextSteps
  <2>2. Spent' /\ SingleUse'
    BY <2>1, SpentStep DEF Spent, SingleUse, SpentOnce
  <2> QED  BY <2>1, <2>2, KnownStep, SurvivesStep DEF Inv, Step
<1> QED  BY <1>1, <1>2, PTL DEF Spec

\* A revoked session stays revoked, and none is taken away (auth_repo.py).
THEOREM RevokedCorrect == Spec => RevokedForEver
<1>1. Inv /\ [Next]_vars => [\A i \in DOMAIN sessions :
            i \in DOMAIN sessions' /\ (sessions'[i].live => sessions[i].live)]_vars
  <2> SUFFICES ASSUME Inv, [Next]_vars, NEW i \in DOMAIN sessions
               PROVE  i \in DOMAIN sessions' /\ (sessions'[i].live => sessions[i].live)
    OBVIOUS
  <2>1. sessions \in Seq(Row) /\ Later(sessions, sessions')
    BY NextSteps DEF Inv, TypeOK, Step, Tables
  <2> QED  BY <2>1 DEF Later
<1> QED  BY <1>1, InvCorrect, PTL DEF Spec, RevokedForEver

-----------------------------------------------------------------------------
(* The dashboard in a browser: what the inductive invariant says.          *)

\* Requests are told apart by their ids.
IdsTell ==
    /\ \A r \in flight : r.id <= sent
    /\ \A p, q \in flight : p.id = q.id => p = q

LoginServed(r) == r.kind = "login" /\ r.answer = "served"

\* The session that a login brings is nobody's yet.
LoginsFresh ==
    /\ storage \in (1 .. begun) \cup {None} /\ ended \subseteq 1 .. begun
    /\ \A t \in Tabs : memory[t] \in (1 .. begun) \cup {None}
    /\ \A r \in flight : LoginServed(r) =>
           /\ r.value \in 1 .. begun /\ r.value \notin ended /\ r.value # storage
           /\ \A t \in Tabs : memory[t] # r.value
           /\ \A p \in flight : LoginServed(p) /\ p.value = r.value => p = r

\* A token that was refused is good no more.
RefusedStays ==
    /\ valid \subseteq 1 .. begun
    /\ \A r \in flight :
        /\ r.token \in (1 .. begun) \cup {None}
        /\ r.answer = "refused" => r.kind = "login" \/ r.token \notin valid

Shown == [list : List, row : Empty .. MaxRow]
OfList(r) == r.kind = "list" \/ r.kind \in Changes

\* Lists and changes that a page waits for are of the list it shows.
PageAsks ==
    /\ \A r \in flight :
        /\ OfList(r) => r.list \in List
        /\ OfList(r) /\ r.answer = "served" => r.value <= rows[r.list]
        /\ OfList(r) /\ r.live => page[r.tab] \in Shown /\ r.list = page[r.tab].list
    /\ \A t \in Tabs : page[t] # None => own[t] <= rows[page[t].list]
    /\ \A p, q \in flight :
        p.live /\ q.live /\ p.tab = q.tab /\ p.list = "alerts" /\ p.kind = "list" /\ q.kind \in Changes
           => p.id < q.id

\* A fetch of tab t that will not show less than the tab's own change.
Covers(p, t) ==
    /\ p \in flight /\ p.tab = t /\ p.live /\ p.kind = "list"
    /\ p.answer = "served" => p.value >= own[t]

\* What a page shows, or will show, is no older than its own change.
WillShow ==
    \A t \in Tabs : page[t] # None =>
        /\ t \in behind \/ page[t].row = Empty \/ page[t].row >= own[t]
           \/ \E p \in flight : Covers(p, t)
        /\ \A r \in flight : r.tab = t /\ r.live /\ r.kind = "list" /\ r.answer = "served" =>
               r.value >= own[t] \/ r.id < newest[t] \/ \E p \in flight : Covers(p, t) /\ p.id > r.id

DeskInv == WorkbenchTypeOK /\ IdsTell /\ EndedStays /\ LoginsFresh /\ RefusedStays /\ PageAsks /\ WillShow


-----------------------------------------------------------------------------

\* What a request is sent as.
New(t, kind, list, live) ==
    [id |-> sent', tab |-> t, kind |-> kind, list |-> list, token |-> memory[t],
     live |-> live, answer |-> "unserved", value |-> 0]

LEMMA NewFacts ==
    ASSUME WorkbenchTypeOK, NEW t \in Tabs, NEW kind \in Kind, NEW list \in List \cup {None},
           sent < MaxRequests, sent' = sent + 1
    PROVE  /\ sent' \in 1 .. MaxRequests
           /\ New(t, kind, list, TRUE) \in Request /\ New(t, kind, list, FALSE) \in Request
<1>1. sent' \in 1 .. MaxRequests
  BY WorkbenchBounds DEF WorkbenchTypeOK
<1>2. 0 \in 0 .. MaxLogins + MaxRow /\ memory[t] \in Session \cup {None}
  BY WorkbenchBounds DEF WorkbenchTypeOK
<1> QED  BY <1>1, <1>2 DEF Request, New

\* Requests whose page is gone keep all but that.
LEMMA DeadFacts ==
    ASSUME NEW t \in Tabs, NEW F \in SUBSET Request
    PROVE  /\ Dead(t, F) \subseteq Request
           /\ \A p \in Dead(t, F) : \/ p \in F /\ p.tab # t
                                    \/ \E q \in F : /\ q.tab = t /\ ~p.live /\ p.id = q.id /\ p.tab = t
                                                    /\ p.kind = q.kind /\ p.list = q.list
                                                    /\ p.token = q.token /\ p.answer = q.answer
                                                    /\ p.value = q.value
                                                    /\ p = [q EXCEPT !.live = FALSE]
           /\ \A p \in F : p.tab # t => p \in Dead(t, F)
<1>1. \A q \in F : LET p == [q EXCEPT !.live = FALSE] IN
           /\ p \in Request /\ ~p.live /\ p.id = q.id /\ p.tab = q.tab
           /\ p.kind = q.kind /\ p.list = q.list /\ p.token = q.token /\ p.answer = q.answer
           /\ p.value = q.value
  BY DEF Request
<1> QED  BY <1>1 DEF Dead

\* The effect of an answer of the server.
Replies(r, new) ==
    /\ r \in flight /\ new \in Request /\ flight' = (flight \ {r}) \cup {new}
    /\ new.id = r.id /\ new.tab = r.tab /\ new.kind = r.kind /\ new.list = r.list
    /\ new.token = r.token /\ new.live = r.live
    /\ UNCHANGED <<memory, storage, sent, page, ended, own, newest, behind>>
    /\ rows' \in [List -> 0 .. MaxRow] /\ \A k \in List : rows[k] <= rows'[k]
    /\ new.answer = "served" =>
           /\ new.kind = "list" => new.value = rows[r.list]
           /\ new.kind \in Changes => new.value = rows'[r.list]
    /\ new.answer = "refused" => r.kind = "login" \/ r.token \notin valid
    /\ \/ UNCHANGED <<valid, begun>> /\ ~LoginServed(new)
       \/ /\ begun < MaxLogins /\ begun' = begun + 1 /\ valid' = valid \cup {begun'}
          /\ new.value = begun' /\ r.kind = "login" /\ new.answer = "served"

LEMMA ReplyFacts ==
    ASSUME NEW r \in Request, NEW answer \in {"served", "refused", "forbidden", "failed"},
           NEW value \in 0 .. MaxLogins + MaxRow, Reply(r, answer, value)
    PROVE  \E new \in Request :
               /\ flight' = (flight \ {r}) \cup {new} /\ new.answer = answer /\ new.value = value
               /\ new.id = r.id /\ new.tab = r.tab /\ new.kind = r.kind /\ new.list = r.list
               /\ new.token = r.token /\ new.live = r.live
<1> DEFINE new == [r EXCEPT !.answer = answer, !.value = value]
<1>1. /\ new \in Request /\ new.answer = answer /\ new.value = value
      /\ new.id = r.id /\ new.tab = r.tab /\ new.kind = r.kind /\ new.list = r.list
      /\ new.token = r.token /\ new.live = r.live
  BY DEF Request
<1> QED  BY <1>1 DEF Reply

LEMMA ServesReply ==
    ASSUME DeskInv, NEW r \in flight, Serves(r)
    PROVE  \E new : Replies(r, new)
<1>t. r \in Request /\ rows \in [List -> 0 .. MaxRow] /\ begun \in 0 .. MaxLogins
      /\ valid \subseteq Session
  BY DEF DeskInv, WorkbenchTypeOK
<1>n. /\ 0 \in 0 .. MaxLogins + MaxRow /\ begun + 1 \in Nat
      /\ \A v \in 0 .. MaxRow : v \in 0 .. MaxLogins + MaxRow
      /\ \A v \in 1 .. MaxLogins : v \in 0 .. MaxLogins + MaxRow
      /\ \A k \in List : rows[k] <= rows[k] /\ rows[k] \in 0 .. MaxRow
  BY <1>t, WorkbenchBounds
<1>l. r.list \in List => rows[r.list] \in 0 .. MaxRow
  BY <1>t
<1>p. OfList(r) => r.list \in List
  BY DEF DeskInv, PageAsks
<1>1. CASE ServeLogin(r)
  <2>1. r.kind = "login" /\ r.kind # "list" /\ r.kind \notin Changes
    BY <1>1 DEF ServeLogin, Waiting, Changes, Change, List
  <2>2. CASE begun < MaxLogins /\ begun' = begun + 1 /\ valid' = valid \cup {begun'} /\ Serve(r, begun')
    <3>1. begun' \in 0 .. MaxLogins + MaxRow
      BY <2>2, <1>t, WorkbenchBounds
    <3>2. PICK new \in Request :
               /\ flight' = (flight \ {r}) \cup {new} /\ new.answer = "served" /\ new.value = begun'
               /\ new.id = r.id /\ new.tab = r.tab /\ new.kind = r.kind /\ new.list = r.list
               /\ new.token = r.token /\ new.live = r.live
      BY <2>2, <3>1, <1>t, ReplyFacts DEF Serve
    <3>3. UNCHANGED <<memory, storage, sent, rows, page, ended, own, newest, behind>>
      BY <1>1 DEF ServeLogin, seen
    <3> QED  BY <2>1, <2>2, <3>2, <3>3, <1>t, <1>n DEF Replies
  <2>3. CASE Refuse(r) /\ UNCHANGED <<valid, begun>>
    <3>2. PICK new \in Request :
               /\ flight' = (flight \ {r}) \cup {new} /\ new.answer = "refused" /\ new.value = 0
               /\ new.id = r.id /\ new.tab = r.tab /\ new.kind = r.kind /\ new.list = r.list
               /\ new.token = r.token /\ new.live = r.live
      BY <2>3, <1>n, <1>t, ReplyFacts DEF Refuse
    <3>3. UNCHANGED <<memory, storage, sent, rows, page, ended, own, newest, behind>>
      BY <1>1 DEF ServeLogin, seen
    <3> QED  BY <2>1, <2>3, <3>2, <3>3, <1>t, <1>n DEF Replies, LoginServed
  <2> QED  BY <1>1, <2>2, <2>3 DEF ServeLogin
<1>2. CASE ServePeople(r)
  <2>1. /\ r.kind = "people" /\ r.kind # "list" /\ r.kind \notin Changes /\ r.kind # "login"
        /\ UNCHANGED <<memory, storage, sent, valid, begun, rows, page, ended, own, newest, behind>>
    BY <1>2 DEF ServePeople, Waiting, Changes, Change, List, server, seen
  <2>2. PICK answer \in {"served", "refused", "forbidden", "failed"} :
            /\ Reply(r, answer, 0) /\ (answer = "refused" => r.token \notin valid)
    BY <1>2 DEF ServePeople, Serve, Refuse, Unknown
  <2>3. PICK new \in Request :
               /\ flight' = (flight \ {r}) \cup {new} /\ new.answer = answer /\ new.value = 0
               /\ new.id = r.id /\ new.tab = r.tab /\ new.kind = r.kind /\ new.list = r.list
               /\ new.token = r.token /\ new.live = r.live
    BY <2>2, <1>t, <1>n, ReplyFacts
  <2> QED  BY <2>1, <2>2, <2>3, <1>t, <1>n DEF Replies, LoginServed
<1>3. CASE ServeList(r)
  <2>1. /\ r.kind = "list" /\ r.kind \notin Changes /\ r.kind # "login"
        /\ UNCHANGED <<memory, storage, sent, valid, begun, rows, page, ended, own, newest, behind>>
    BY <1>3 DEF ServeList, Waiting, Changes, Change, List, server, seen
  <2>2. rows[r.list] \in 0 .. MaxLogins + MaxRow /\ Reply(r, "served", rows[r.list])
    BY <1>3, <1>p, <1>n, <2>1 DEF ServeList, Serve, OfList
  <2>3. PICK new \in Request :
               /\ flight' = (flight \ {r}) \cup {new} /\ new.answer = "served" /\ new.value = rows[r.list]
               /\ new.id = r.id /\ new.tab = r.tab /\ new.kind = r.kind /\ new.list = r.list
               /\ new.token = r.token /\ new.live = r.live
    BY <2>2, <1>t, ReplyFacts
  <2> QED  BY <2>1, <2>3, <1>t, <1>n DEF Replies, LoginServed
<1>4. CASE ServeChange(r)
  <2>1. /\ r.kind \in Changes /\ r.kind # "list" /\ r.kind # "login"
        /\ UNCHANGED <<memory, storage, sent, valid, begun, page, ended, own, newest, behind>>
    BY <1>4 DEF ServeChange, Waiting, Changes, Change, List, seen
  <2>2. /\ r.list \in List /\ rows[r.list] < MaxRow /\ rows' = [rows EXCEPT ![r.list] = @ + 1]
        /\ Serve(r, rows'[r.list])
    BY <1>4, <1>p, <2>1 DEF ServeChange, OfList
  <2>3. /\ rows[r.list] + 1 \in 0 .. MaxRow /\ rows[r.list] <= rows[r.list] + 1
    BY <2>2, <1>t, WorkbenchBounds
  <2>4. /\ rows' \in [List -> 0 .. MaxRow] /\ \A k \in List : rows[k] <= rows'[k]
    BY <2>2, <2>3, <1>t, <1>n
  <2>5. rows'[r.list] \in 0 .. MaxLogins + MaxRow
    BY <2>2, <2>4, <1>n
  <2>6. PICK new \in Request :
               /\ flight' = (flight \ {r}) \cup {new} /\ new.answer = "served" /\ new.value = rows'[r.list]
               /\ new.id = r.id /\ new.tab = r.tab /\ new.kind = r.kind /\ new.list = r.list
               /\ new.token = r.token /\ new.live = r.live
    BY <2>2, <2>5, <1>t, ReplyFacts DEF Serve
  <2> QED  BY <2>1, <2>4, <2>6 DEF Replies, LoginServed
<1>5. CASE ServeFails(r)
  <2>1. UNCHANGED <<memory, storage, sent, valid, begun, rows, page, ended, own, newest, behind>>
    BY <1>5 DEF ServeFails, server, seen
  <2>3. PICK new \in Request :
               /\ flight' = (flight \ {r}) \cup {new} /\ new.answer = "failed" /\ new.value = 0
               /\ new.id = r.id /\ new.tab = r.tab /\ new.kind = r.kind /\ new.list = r.list
               /\ new.token = r.token /\ new.live = r.live
    BY <1>5, <1>t, <1>n, ReplyFacts DEF ServeFails
  <2> QED  BY <2>1, <2>3, <1>t, <1>n DEF Replies, LoginServed
<1> QED  BY <1>1, <1>2, <1>3, <1>4, <1>5 DEF Serves

\* An answer of the server keeps the invariant.
LEMMA RepliesKeep ==
    ASSUME DeskInv, NEW r, NEW new, Replies(r, new)
    PROVE  DeskInv'
<1>f. \A p \in flight' : p = new \/ (p \in flight /\ p # r)
  BY DEF Replies
<1>g. /\ r \in flight /\ new.id = r.id /\ new.tab = r.tab /\ new.kind = r.kind /\ new.list = r.list
      /\ new.token = r.token /\ new.live = r.live /\ new \in Request
      /\ UNCHANGED <<memory, storage, sent, page, ended, own, newest, behind>>
  BY DEF Replies
<1>t. /\ begun \in 0 .. MaxLogins /\ valid \subseteq 1 .. MaxLogins /\ flight \subseteq Request
      /\ begun' \in 0 .. MaxLogins /\ begun <= begun' /\ valid' \subseteq valid \cup {begun'}
      /\ begun' \in 1 .. MaxLogins \/ valid' = valid
      /\ valid \subseteq 1 .. begun /\ valid' \subseteq 1 .. begun'
  <2>1. begun \in 0 .. MaxLogins /\ valid \subseteq 1 .. MaxLogins /\ flight \subseteq Request
        /\ valid \subseteq 1 .. begun
    BY DEF DeskInv, WorkbenchTypeOK, Session, RefusedStays
  <2>2. CASE UNCHANGED <<valid, begun>>
    BY <2>1, <2>2
  <2>3. CASE begun < MaxLogins /\ begun' = begun + 1 /\ valid' = valid \cup {begun'}
    <3>1. \A s \in 1 .. begun : s \in 1 .. begun'
      BY <2>1, <2>3
    <3> QED  BY <2>1, <2>3, <3>1, WorkbenchBounds
  <2> QED  BY <2>2, <2>3 DEF Replies
<1>1. WorkbenchTypeOK'
  <2>1. flight' \subseteq Request
    BY <1>f, <1>g, <1>t
  <2>2. valid' \subseteq Session
    BY <1>t DEF Session
  <2>3. rows' \in [List -> 0 .. MaxRow]
    BY DEF Replies
  <2> QED  BY <1>g, <1>t, <2>1, <2>2, <2>3 DEF DeskInv, WorkbenchTypeOK
<1>2. IdsTell'
  BY <1>f, <1>g DEF DeskInv, IdsTell
<1>3. EndedStays'
  BY <1>g DEF DeskInv, EndedStays
<1>4. LoginsFresh'
  <2>1. \A s \in 1 .. begun : s \in 1 .. begun'
    BY <1>t
  <2>2. /\ storage' \in (1 .. begun') \cup {None} /\ ended' \subseteq 1 .. begun'
        /\ \A t \in Tabs : memory'[t] \in (1 .. begun') \cup {None}
    BY <1>g, <2>1 DEF DeskInv, LoginsFresh
  <2>3. CASE ~LoginServed(new)
    BY <1>f, <1>g, <2>1, <2>2, <2>3 DEF DeskInv, LoginsFresh
  <2>4. CASE LoginServed(new)
    <3>1. begun' = begun + 1 /\ new.value = begun' /\ begun' \in 1 .. begun' /\ begun' \notin 1 .. begun
      BY <1>t, <2>4 DEF Replies
    <3>2. \A p \in flight : LoginServed(p) => p.value \in 1 .. begun
      BY DEF DeskInv, LoginsFresh
    <3>3. begun' \notin ended /\ begun' # storage /\ \A t \in Tabs : memory[t] # begun'
      <4>1. None # begun'
        BY <1>t, <3>1, WorkbenchBounds
      <4> QED  BY <3>1, <4>1 DEF DeskInv, LoginsFresh
    <3>4. \A p \in flight : LoginServed(p) =>
             /\ p.value \notin ended /\ p.value # storage
             /\ \A t \in Tabs : memory[t] # p.value
             /\ \A q \in flight : LoginServed(q) /\ q.value = p.value => q = p
      BY DEF DeskInv, LoginsFresh
    <3> QED  BY <1>f, <1>g, <2>1, <2>2, <3>1, <3>2, <3>3, <3>4 DEF LoginsFresh
  <2> QED  BY <2>3, <2>4
<1>5. RefusedStays'
  <2>1. \A s \in 1 .. begun : s \in 1 .. begun'
    BY <1>t
  <2>2. \A p \in flight : p.token \in (1 .. begun) \cup {None}
    BY DEF DeskInv, RefusedStays
  <2>3. \A p \in flight : p.token \notin valid => p.token \notin valid'
    <3>1. CASE UNCHANGED valid
      BY <3>1
    <3>2. CASE begun < MaxLogins /\ begun' = begun + 1 /\ valid' = valid \cup {begun'}
      <4>1. begun' \notin 1 .. begun /\ begun' # None
        BY <1>t, <3>2, WorkbenchBounds
      <4> QED  BY <2>2, <3>2, <4>1
    <3> QED  BY <3>1, <3>2 DEF Replies
  <2>4. \A p \in flight : p.answer = "refused" => p.kind = "login" \/ p.token \notin valid
    BY DEF DeskInv, RefusedStays
  <2>5. new.answer = "refused" => r.kind = "login" \/ r.token \notin valid
    BY DEF Replies
  <2>6. valid' \subseteq 1 .. begun'
    BY <1>t
  <2>7. \A p \in flight' : /\ p.token \in (1 .. begun') \cup {None}
                           /\ p.answer = "refused" => p.kind = "login" \/ p.token \notin valid'
    BY <1>f, <1>g, <2>1, <2>2, <2>3, <2>4, <2>5
  <2> QED  BY <2>6, <2>7 DEF RefusedStays
<1>m. /\ rows \in [List -> 0 .. MaxRow] /\ rows' \in [List -> 0 .. MaxRow]
      /\ \A k \in List : rows[k] <= rows'[k] /\ rows[k] \in Nat /\ rows'[k] \in Nat
      /\ \A p \in flight' : p \in Request /\ p.value \in Nat
      /\ \A t \in Tabs : own[t] \in Nat /\ newest[t] \in Nat
  <2>1. /\ rows \in [List -> 0 .. MaxRow] /\ rows' \in [List -> 0 .. MaxRow]
        /\ \A k \in List : rows[k] <= rows'[k]
        /\ \A t \in Tabs : own[t] \in Nat /\ newest[t] \in Nat
    BY DEF DeskInv, WorkbenchTypeOK, Replies
  <2>2. \A p \in Request : p.value \in Nat
    BY WorkbenchBounds DEF Request
  <2> QED  BY <1>f, <1>g, <1>t, <2>1, <2>2
<1>6. PageAsks'
  <2>1. \A p \in flight : p \in Request /\ p.value \in Nat
    <3>1. \A p \in Request : p.value \in Nat
      BY WorkbenchBounds DEF Request
    <3> QED  BY <1>t, <3>1
  <2>2. \A p \in flight :
            /\ OfList(p) => p.list \in List
            /\ OfList(p) /\ p.answer = "served" => p.value <= rows'[p.list]
            /\ OfList(p) /\ p.live => page[p.tab] \in Shown /\ p.list = page[p.tab].list
    BY <1>m, <2>1 DEF DeskInv, PageAsks
  <2>3. OfList(new) /\ new.answer = "served" => new.value <= rows'[new.list]
    BY <1>g, <1>m, <2>2 DEF Replies, OfList
  <2>4. OfList(new) <=> OfList(r)
    BY <1>g DEF OfList
  <2>5. \A p \in flight' :
            /\ OfList(p) => p.list \in List
            /\ OfList(p) /\ p.answer = "served" => p.value <= rows'[p.list]
            /\ OfList(p) /\ p.live => page'[p.tab] \in Shown /\ p.list = page'[p.tab].list
    BY <1>f, <1>g, <2>2, <2>3, <2>4
  <2>6. \A t \in Tabs : page'[t] # None => own'[t] <= rows'[page'[t].list]
    <3> SUFFICES ASSUME NEW t \in Tabs, page[t] # None PROVE own[t] <= rows'[page[t].list]
      BY <1>g
    <3>1. page[t].list \in List /\ own[t] <= rows[page[t].list]
      BY DEF DeskInv, PageAsks, WorkbenchTypeOK
    <3> QED  BY <1>m, <3>1
  <2>7. \A p, q \in flight' :
            p.live /\ q.live /\ p.tab = q.tab /\ p.list = "alerts" /\ p.kind = "list" /\ q.kind \in Changes
                => p.id < q.id
    BY <1>f, <1>g DEF DeskInv, PageAsks
  <2> QED  BY <2>5, <2>6, <2>7 DEF PageAsks
<1>7. WillShow'
  <2> SUFFICES ASSUME NEW t \in Tabs, page[t] # None
               PROVE  /\ t \in behind \/ page[t].row = Empty \/ page[t].row >= own[t]
                         \/ \E p \in flight' : Covers(p, t)'
                      /\ \A q \in flight' : q.tab = t /\ q.live /\ q.kind = "list" /\ q.answer = "served" =>
                            q.value >= own[t] \/ q.id < newest[t]
                            \/ \E p \in flight' : Covers(p, t)' /\ p.id > q.id
    BY <1>g DEF WillShow
  <2>1. r.tab = t /\ r.live /\ r.kind = "list" /\ new.answer = "served" => new.value >= own[t]
    <3>1. r.tab = t /\ r.live /\ r.kind = "list" => r.list = page[t].list /\ r.list \in List
      BY <1>g DEF DeskInv, PageAsks, OfList
    <3>2. own[t] <= rows[page[t].list]
      BY DEF DeskInv, PageAsks
    <3> QED  BY <1>g, <1>m, <3>1, <3>2 DEF Replies
  <2>2. \A p \in flight : Covers(p, t) => \E q \in flight' : Covers(q, t)' /\ q.id = p.id
    <3> SUFFICES ASSUME NEW p \in flight, Covers(p, t)
                 PROVE  \E q \in flight' : Covers(q, t)' /\ q.id = p.id
      OBVIOUS
    <3>1. CASE p = r
      BY <1>g, <2>1, <3>1 DEF Covers, Replies
    <3>2. CASE p # r
      BY <1>g, <3>2 DEF Covers, Replies
    <3> QED  BY <3>1, <3>2
  <2>3. t \in behind \/ page[t].row = Empty \/ page[t].row >= own[t] \/ \E p \in flight : Covers(p, t)
    BY DEF DeskInv, WillShow
  <2>4. \A q \in flight : q.tab = t /\ q.live /\ q.kind = "list" /\ q.answer = "served" =>
            q.value >= own[t] \/ q.id < newest[t] \/ \E p \in flight : Covers(p, t) /\ p.id > q.id
    BY DEF DeskInv, WillShow
  <2> QED  BY <1>f, <1>g, <2>1, <2>2, <2>3, <2>4
<1> QED  BY <1>1, <1>2, <1>3, <1>4, <1>5, <1>6, <1>7 DEF DeskInv

\* Requests that are left of those in flight, some of their pages gone.
From(F) ==
    /\ F \subseteq Request
    /\ \A p \in F : \E q \in flight :
           /\ p.id = q.id /\ p.tab = q.tab /\ p.kind = q.kind /\ p.list = q.list
           /\ p.token = q.token /\ p.answer = q.answer /\ p.value = q.value
           /\ p.live => p = q
    /\ \A p, q \in F : p.id = q.id => p = q

LEMMA SomeFrom ==
    ASSUME DeskInv, NEW F \in SUBSET flight
    PROVE  From(F)
BY DEF DeskInv, WorkbenchTypeOK, IdsTell, From

LEMMA DeadFrom ==
    ASSUME DeskInv, NEW F \in SUBSET flight, NEW t \in Tabs
    PROVE  /\ From(Dead(t, F))
           /\ \A p \in Dead(t, F) : p.live => p \in F /\ p.tab # t
           /\ \A p \in F : p.tab # t => p \in Dead(t, F)
<1>1. F \in SUBSET Request
  BY DEF DeskInv, WorkbenchTypeOK
<1>2. \A p, q \in F : p.id = q.id => p = q
  BY DEF DeskInv, IdsTell
<1>3. /\ Dead(t, F) \subseteq Request
      /\ \A p \in Dead(t, F) : \/ p \in F /\ p.tab # t
                               \/ \E q \in F : /\ q.tab = t /\ ~p.live /\ p.id = q.id /\ p.tab = t
                                               /\ p.kind = q.kind /\ p.list = q.list
                                               /\ p.token = q.token /\ p.answer = q.answer
                                               /\ p.value = q.value
                                               /\ p = [q EXCEPT !.live = FALSE]
      /\ \A p \in F : p.tab # t => p \in Dead(t, F)
  BY <1>1, DeadFacts
<1>4. \A p \in Dead(t, F) : \E q \in F :
           /\ p.id = q.id /\ p.tab = q.tab /\ p.kind = q.kind /\ p.list = q.list
           /\ p.token = q.token /\ p.answer = q.answer /\ p.value = q.value
           /\ p.live => p = q
  BY <1>3
<1>5. \A p, q \in Dead(t, F) : p.id = q.id => p = q
  <2> SUFFICES ASSUME NEW p \in Dead(t, F), NEW q \in Dead(t, F), p.id = q.id PROVE p = q
    OBVIOUS
  <2>1. PICK a \in F : (p = a /\ a.tab # t) \/ (a.tab = t /\ p.id = a.id /\ p = [a EXCEPT !.live = FALSE])
    BY <1>3
  <2>2. PICK b \in F : (q = b /\ b.tab # t) \/ (b.tab = t /\ q.id = b.id /\ q = [b EXCEPT !.live = FALSE])
    BY <1>3
  <2>3. a.id = b.id
    BY <2>1, <2>2
  <2>4. a = b
    BY <1>2, <2>3
  <2> QED  BY <2>1, <2>2, <2>4
<1> QED  BY <1>3, <1>4, <1>5 DEF From

\* What holds of the requests holds of what is left of them.
LEMMA FromFacts ==
    ASSUME DeskInv, NEW F, From(F)
    PROVE  /\ \A p \in F : p.id <= sent
           /\ \A p \in F : LoginServed(p) =>
                  /\ p.value \in 1 .. begun /\ p.value \notin ended /\ p.value # storage
                  /\ \A t \in Tabs : memory[t] # p.value
                  /\ \A q \in F : LoginServed(q) /\ q.value = p.value => q = p
           /\ \A p \in F : /\ p.token \in (1 .. begun) \cup {None}
                           /\ p.answer = "refused" => p.kind = "login" \/ p.token \notin valid
           /\ \A p \in F :
                  /\ OfList(p) => p.list \in List
                  /\ OfList(p) /\ p.answer = "served" => p.value <= rows[p.list]
<1>1. \A p \in F : p.id <= sent
  BY DEF From, DeskInv, IdsTell
<1>2. ASSUME NEW p \in F, LoginServed(p)
      PROVE  /\ p.value \in 1 .. begun /\ p.value \notin ended /\ p.value # storage
             /\ \A t \in Tabs : memory[t] # p.value
             /\ \A q \in F : LoginServed(q) /\ q.value = p.value => q = p
  <2>1. PICK a \in flight : p.id = a.id /\ p.value = a.value /\ LoginServed(a)
    BY <1>2 DEF From, LoginServed
  <2>2. ASSUME NEW q \in F, LoginServed(q), q.value = p.value PROVE q = p
    <3>1. PICK b \in flight : q.id = b.id /\ q.value = b.value /\ LoginServed(b)
      BY <2>2 DEF From, LoginServed
    <3>2. a = b
      BY <2>1, <2>2, <3>1 DEF DeskInv, LoginsFresh
    <3> QED  BY <2>1, <3>1, <3>2 DEF From
  <2> QED  BY <2>1, <2>2 DEF DeskInv, LoginsFresh
<1>3. \A p \in F : /\ p.token \in (1 .. begun) \cup {None}
                   /\ p.answer = "refused" => p.kind = "login" \/ p.token \notin valid
  BY DEF From, DeskInv, RefusedStays
<1>4. \A p \in F :
          /\ OfList(p) => p.list \in List
          /\ OfList(p) /\ p.answer = "served" => p.value <= rows[p.list]
  <2> SUFFICES ASSUME NEW p \in F, OfList(p)
               PROVE  p.list \in List /\ (p.answer = "served" => p.value <= rows[p.list])
    OBVIOUS
  <2>1. PICK q \in flight : /\ p.kind = q.kind /\ p.list = q.list /\ p.answer = q.answer
                            /\ p.value = q.value
    BY DEF From
  <2>2. OfList(q)
    BY <2>1 DEF OfList
  <2> QED  BY <2>1, <2>2 DEF DeskInv, PageAsks
<1> QED  BY <1>1, <1>2, <1>3, <1>4

\* Requests are sent, and nobody signs in or out.
Sent(F, new) ==
    /\ From(F) /\ new \in Request /\ flight' = F \cup {new}
    /\ sent' = sent + 1 /\ sent' \in 1 .. MaxRequests /\ new.id = sent'
    /\ new.answer = "unserved" /\ new.token = memory[new.tab]
    /\ UNCHANGED <<memory, storage, valid, begun, rows, ended>>

LEMMA SentKeeps ==
    ASSUME DeskInv, NEW F, NEW new, Sent(F, new)
    PROVE  /\ flight' \subseteq Request /\ sent' \in 0 .. MaxRequests
           /\ IdsTell' /\ EndedStays' /\ LoginsFresh' /\ RefusedStays'
           /\ \A p \in F : p.id < new.id
<1>1. flight' \subseteq Request /\ sent' \in 0 .. MaxRequests /\ new.tab \in Tabs
  BY DEF Sent, From, Request
<1>2. /\ sent \in Nat /\ sent < new.id /\ new.id = sent'
      /\ \A p \in F : p.id \in Nat
  BY DEF Sent, DeskInv, WorkbenchTypeOK, From, Request
<1>3. \A p \in F : p.id < new.id /\ p.id <= sent' /\ p.id # new.id
  BY <1>2, FromFacts DEF Sent
<1>4. \A p \in flight' : p = new \/ p \in F
  BY DEF Sent
<1>5. IdsTell'
  BY <1>2, <1>3, <1>4 DEF IdsTell, Sent, From
<1>6. EndedStays'
  BY DEF Sent, DeskInv, EndedStays
<1>7. ~LoginServed(new) /\ new.answer # "refused" /\ new.token \in (1 .. begun) \cup {None}
  BY <1>1 DEF Sent, LoginServed, DeskInv, LoginsFresh
<1>8. LoginsFresh'
  <2>1. /\ storage' \in (1 .. begun') \cup {None} /\ ended' \subseteq 1 .. begun'
        /\ \A t \in Tabs : memory'[t] \in (1 .. begun') \cup {None}
    BY DEF Sent, DeskInv, LoginsFresh
  <2>2. /\ \A p \in F : LoginServed(p) =>
               /\ p.value \in 1 .. begun /\ p.value \notin ended /\ p.value # storage
               /\ \A t \in Tabs : memory[t] # p.value
               /\ \A q \in F : LoginServed(q) /\ q.value = p.value => q = p
    BY FromFacts DEF Sent
  <2>3. UNCHANGED <<memory, storage, begun, ended>>
    BY DEF Sent
  <2> QED  BY <1>4, <1>7, <2>1, <2>2, <2>3 DEF LoginsFresh
<1>9. RefusedStays'
  <2>1. \A p \in F : /\ p.token \in (1 .. begun) \cup {None}
                     /\ p.answer = "refused" => p.kind = "login" \/ p.token \notin valid
    BY FromFacts DEF Sent
  <2> QED  BY <1>4, <1>7, <2>1 DEF Sent, DeskInv, RefusedStays
<1> QED  BY <1>1, <1>3, <1>5, <1>6, <1>8, <1>9

\* Requests are left, and nobody signs in.
LEMMA LeftKeeps ==
    ASSUME DeskInv, From(flight'), UNCHANGED <<sent, valid, begun>>
    PROVE  flight' \subseteq Request /\ sent' \in 0 .. MaxRequests /\ IdsTell' /\ RefusedStays'
<1>1. /\ \A p \in flight' : p.id <= sent
      /\ \A p \in flight' : /\ p.token \in (1 .. begun) \cup {None}
                            /\ p.answer = "refused" => p.kind = "login" \/ p.token \notin valid
  BY FromFacts
<1>2. flight' \subseteq Request /\ sent' \in 0 .. MaxRequests
  BY DEF From, DeskInv, WorkbenchTypeOK
<1>3. IdsTell'
  BY <1>1 DEF IdsTell, From
<1> QED  BY <1>1, <1>2, <1>3 DEF RefusedStays, DeskInv

\* What the other tabs' lists are compared with stays as it is.
OthersStay(t) ==
    \A u \in Tabs \ {t} : own'[u] = own[u] /\ newest'[u] = newest[u] /\ (u \in behind' <=> u \in behind)

\* The tab leaves its page: nothing is shown there, and nothing is awaited
\* for it but what is sent now.
LEMMA PageLeft ==
    ASSUME DeskInv, NEW t \in Tabs, NEW F, From(F), flight' \subseteq Request,
           \A p \in F : p.live => p \in flight /\ p.tab # t,
           \A p \in flight : p.tab # t => p \in F,
           F \subseteq flight', \A p \in flight' : p \in F \/ (p.tab = t /\ ~OfList(p)),
           page' = [page EXCEPT ![t] = None],
           UNCHANGED rows, OthersStay(t)
    PROVE  PageAsks' /\ WillShow' /\ page' \in [Tabs -> Shown \cup {None}]
<1>1. /\ page' \in [Tabs -> Shown \cup {None}] /\ page'[t] = None
      /\ \A u \in Tabs : u # t => page'[u] = page[u]
  BY DEF DeskInv, WorkbenchTypeOK, Shown
<1>2. \A p \in F : /\ OfList(p) => p.list \in List
                   /\ OfList(p) /\ p.answer = "served" => p.value <= rows[p.list]
  BY FromFacts
<1>3. PageAsks'
  <2>1. \A p \in flight : p \in Request
    BY DEF DeskInv, WorkbenchTypeOK
  <2>2. \A p \in flight' : OfList(p) /\ p.live => page'[p.tab] \in Shown /\ p.list = page'[p.tab].list
    <3> SUFFICES ASSUME NEW p \in flight', OfList(p), p.live
                 PROVE  page'[p.tab] \in Shown /\ p.list = page'[p.tab].list
      OBVIOUS
    <3>1. p \in flight /\ p.tab # t /\ p.tab \in Tabs
      BY <2>1 DEF Request
    <3> QED  BY <1>1, <3>1 DEF DeskInv, PageAsks
  <2>3. \A u \in Tabs : page'[u] # None => own'[u] <= rows'[page'[u].list]
    BY <1>1 DEF DeskInv, PageAsks, OthersStay
  <2>4. \A p, q \in flight' :
            p.live /\ q.live /\ p.tab = q.tab /\ p.list = "alerts" /\ p.kind = "list" /\ q.kind \in Changes
                => p.id < q.id
    <3> SUFFICES ASSUME NEW p \in flight', NEW q \in flight', p.live, q.live, p.tab = q.tab,
                        p.list = "alerts", p.kind = "list", q.kind \in Changes
                 PROVE  p.id < q.id
      OBVIOUS
    <3>1. OfList(p) /\ OfList(q)
      BY DEF OfList
    <3> QED  BY <3>1 DEF DeskInv, PageAsks
  <2>5. \A p \in flight' : /\ OfList(p) => p.list \in List
                           /\ OfList(p) /\ p.answer = "served" => p.value <= rows'[p.list]
    BY <1>2
  <2> QED  BY <2>2, <2>3, <2>4, <2>5 DEF PageAsks
<1>4. WillShow'
  <2> SUFFICES ASSUME NEW u \in Tabs, page'[u] # None
               PROVE  /\ u \in behind' \/ page'[u].row = Empty \/ page'[u].row >= own'[u]
                         \/ \E p \in flight' : Covers(p, u)'
                      /\ \A q \in flight' : q.tab = u /\ q.live /\ q.kind = "list" /\ q.answer = "served" =>
                            q.value >= own'[u] \/ q.id < newest'[u]
                            \/ \E p \in flight' : Covers(p, u)' /\ p.id > q.id
    BY DEF WillShow
  <2>1. /\ u # t /\ page'[u] = page[u] /\ own'[u] = own[u] /\ newest'[u] = newest[u]
        /\ u \in behind' <=> u \in behind
    BY <1>1 DEF OthersStay
  <2>2. \A p \in flight : Covers(p, u) => p \in flight' /\ Covers(p, u)'
    BY <2>1 DEF Covers
  <2>3. \A q \in flight' : q.tab = u /\ q.live /\ q.kind = "list" => q \in flight
    BY <2>1
  <2> QED  BY <2>1, <2>2, <2>3 DEF DeskInv, WillShow
<1> QED  BY <1>1, <1>3, <1>4

LEMMA HandleLoginKeeps ==
    ASSUME DeskInv, NEW t \in Tabs, HandleLogin(t)
    PROVE  DeskInv'
<1> DEFINE F == Dead(t, flight)
<1>1. /\ From(F) /\ \A p \in F : p.live => p \in flight /\ p.tab # t
      /\ \A p \in flight : p.tab # t => p \in F
  BY DeadFrom
<1>2. /\ UNCHANGED <<memory, storage, valid, begun, rows, ended, own, newest, behind>>
      /\ page' = [page EXCEPT ![t] = None] /\ Sends(t, "login", None, TRUE, F)
  BY DEF HandleLogin, server, seen
<1>3. PICK new \in Request : Sent(F, new) /\ new.tab = t /\ new.kind = "login"
  <2> DEFINE new == New(t, "login", None, TRUE)
  <2>1. WorkbenchTypeOK /\ "login" \in Kind /\ None \in List \cup {None}
    BY DEF DeskInv, Kind
  <2>2. sent < MaxRequests /\ sent' = sent + 1 /\ flight' = F \cup {new}
    BY <1>2 DEF Sends, New
  <2>3. sent' \in 1 .. MaxRequests /\ new \in Request
    BY <2>1, <2>2, NewFacts
  <2>4. /\ new.id = sent' /\ new.tab = t /\ new.kind = "login" /\ new.token = memory[t]
        /\ new.answer = "unserved"
    BY DEF New
  <2> HIDE DEF new, F
  <2>5. Sent(F, new)
    BY <1>1, <1>2, <2>2, <2>3, <2>4 DEF Sent
  <2> QED  BY <2>3, <2>4, <2>5
<1> HIDE DEF F
<1>4. ~OfList(new)
  BY <1>3 DEF OfList, Changes, Change, List
<1>5. /\ flight' \subseteq Request /\ sent' \in 0 .. MaxRequests
      /\ IdsTell' /\ EndedStays' /\ LoginsFresh' /\ RefusedStays'
  BY <1>3, SentKeeps
<1>6. F \subseteq flight' /\ \A p \in flight' : p \in F \/ (p.tab = t /\ ~OfList(p))
  BY <1>3, <1>4 DEF Sent
<1>7. PageAsks' /\ WillShow' /\ page' \in [Tabs -> Shown \cup {None}]
  BY <1>1, <1>2, <1>5, <1>6, PageLeft DEF OthersStay
<1>8. WorkbenchTypeOK'
  BY <1>2, <1>5, <1>7 DEF DeskInv, WorkbenchTypeOK, Shown
<1> QED  BY <1>5, <1>7, <1>8 DEF DeskInv

\* store.logout(), after the requests in F are left.
LEMMA DropKeeps ==
    ASSUME DeskInv, NEW t \in Tabs, NEW F \in SUBSET flight, Drop(t, F),
           \A p \in flight : p.tab # t => p \in F,
           UNCHANGED <<sent, valid, begun, rows, own, newest, behind>>
    PROVE  DeskInv'
<1>1. /\ From(flight') /\ \A p \in flight' : p.live => p \in flight /\ p.tab # t
      /\ \A p \in flight : p.tab # t => p \in flight'
  BY DeadFrom DEF Drop
<1>2. /\ memory' = [memory EXCEPT ![t] = None] /\ storage' = None
      /\ ended' = ended \cup ({memory[t]} \ {None}) /\ page' = [page EXCEPT ![t] = None]
  BY DEF Drop
<1>3. flight' \subseteq Request /\ sent' \in 0 .. MaxRequests /\ IdsTell' /\ RefusedStays'
  BY <1>1, LeftKeeps
<1>4. PageAsks' /\ WillShow' /\ page' \in [Tabs -> Shown \cup {None}]
  BY <1>1, <1>2, <1>3, PageLeft DEF OthersStay
<1>5. /\ memory \in [Tabs -> Session \cup {None}] /\ begun \in 0 .. MaxLogins
      /\ memory[t] \in (1 .. begun) \cup {None} /\ ended \subseteq 1 .. begun
  BY DEF DeskInv, WorkbenchTypeOK, LoginsFresh
<1>6. None \notin 1 .. begun
  BY <1>5, WorkbenchBounds
<1>7. /\ ended' \subseteq 1 .. begun
      /\ memory' \in [Tabs -> Session \cup {None}]
      /\ \A u \in Tabs : memory'[u] = None \/ memory'[u] = memory[u]
  BY <1>2, <1>5
<1>8. EndedStays'
  BY <1>2, <1>6, <1>7 DEF EndedStays
<1>9. LoginsFresh'
  <2>1. \A p \in flight' : LoginServed(p) =>
               /\ p.value \in 1 .. begun /\ p.value \notin ended /\ p.value # storage
               /\ \A u \in Tabs : memory[u] # p.value
               /\ \A q \in flight' : LoginServed(q) /\ q.value = p.value => q = p
    BY <1>1, FromFacts
  <2>2. \A u \in Tabs : memory[u] \in (1 .. begun) \cup {None}
    BY DEF DeskInv, LoginsFresh
  <2>3. \A p \in flight' : LoginServed(p) => p.value \notin ended' /\ p.value # None
    BY <1>2, <1>6, <2>1
  <2> QED  BY <1>2, <1>7, <2>1, <2>2, <2>3 DEF LoginsFresh
<1>10. WorkbenchTypeOK'
  <2>1. ended' \subseteq Session
    <3>1. \A s \in 1 .. begun : s \in 1 .. MaxLogins
      BY <1>5, WorkbenchBounds
    <3> QED  BY <1>7, <3>1 DEF Session
  <2> QED  BY <1>2, <1>3, <1>4, <1>7, <2>1 DEF DeskInv, WorkbenchTypeOK, Shown
<1> QED  BY <1>3, <1>4, <1>8, <1>9, <1>10 DEF DeskInv

LEMMA LeavesKeep ==
    ASSUME DeskInv
    PROVE  /\ \A t \in Tabs : LogOut(t) => DeskInv'
           /\ \A r \in flight : Refused(r) => DeskInv'
<1>1. ASSUME NEW t \in Tabs, LogOut(t) PROVE DeskInv'
  BY <1>1, DropKeeps DEF LogOut, server, seen
<1>2. ASSUME NEW r \in flight, Refused(r) PROVE DeskInv'
  <2>1. r.tab \in Tabs /\ Drop(r.tab, flight \ {r})
        /\ UNCHANGED <<sent, valid, begun, rows, own, newest, behind>>
    BY <1>2 DEF Refused, server, seen, DeskInv, WorkbenchTypeOK, Request
  <2>2. \A p \in flight : p.tab # r.tab => p \in flight \ {r}
    OBVIOUS
  <2> QED  BY <2>1, <2>2, DropKeeps
<1> QED  BY <1>1, <1>2

LEMMA ReloadKeeps ==
    ASSUME DeskInv, NEW t \in Tabs, Reload(t)
    PROVE  DeskInv'
<1>1. /\ memory' = [memory EXCEPT ![t] = storage] /\ page' = [page EXCEPT ![t] = None]
      /\ flight' = {r \in flight : r.tab # t}
      /\ UNCHANGED <<storage, sent, valid, begun, rows, ended, own, newest, behind>>
  BY DEF Reload, server, seen
<1>2. From(flight') /\ (\A p \in flight' : p \in flight /\ p.tab # t)
  BY <1>1, SomeFrom
<1>3. flight' \subseteq Request /\ sent' \in 0 .. MaxRequests /\ IdsTell' /\ RefusedStays'
  BY <1>1, <1>2, LeftKeeps
<1>4. PageAsks' /\ WillShow' /\ page' \in [Tabs -> Shown \cup {None}]
  BY <1>1, <1>2, <1>3, PageLeft DEF OthersStay
<1>5. EndedStays'
  BY <1>1 DEF DeskInv, EndedStays
<1>6. /\ storage \in (1 .. begun) \cup {None} /\ storage \in Session \cup {None}
      /\ memory \in [Tabs -> Session \cup {None}] /\ begun \in 0 .. MaxLogins
      /\ \A u \in Tabs : memory[u] \in (1 .. begun) \cup {None}
  BY DEF DeskInv, LoginsFresh, WorkbenchTypeOK
<1>7. /\ memory' \in [Tabs -> Session \cup {None}]
      /\ \A u \in Tabs : memory'[u] = storage \/ memory'[u] = memory[u]
      /\ \A u \in Tabs : memory'[u] \in (1 .. begun) \cup {None}
  BY <1>1, <1>6
<1>8. LoginsFresh'
  <2>1. \A p \in flight' : LoginServed(p) =>
               /\ p.value \in 1 .. begun /\ p.value \notin ended /\ p.value # storage
               /\ \A u \in Tabs : memory[u] # p.value
               /\ \A q \in flight' : LoginServed(q) /\ q.value = p.value => q = p
    BY <1>2, FromFacts
  <2> QED  BY <1>1, <1>6, <1>7, <2>1 DEF LoginsFresh, DeskInv
<1>9. WorkbenchTypeOK'
  BY <1>1, <1>3, <1>4, <1>7 DEF DeskInv, WorkbenchTypeOK, Shown
<1> QED  BY <1>3, <1>4, <1>5, <1>8, <1>9 DEF DeskInv

\* A page opens.
LEMMA MountKeeps ==
    ASSUME DeskInv, NEW t \in Tabs, NEW kind \in {"list", "people"},
           NEW list \in List \cup {None}, Mount(t, kind, list), kind = "list" => list \in List
    PROVE  DeskInv'
<1> DEFINE F == Dead(t, flight)
           opened == [list |-> list, row |-> Loading]
<1>1. /\ From(F) /\ \A p \in F : p.live => p \in flight /\ p.tab # t
      /\ \A p \in flight : p.tab # t => p \in F
  BY DeadFrom
<1>2. /\ UNCHANGED <<memory, storage, valid, begun, rows, ended>>
      /\ page' = [page EXCEPT ![t] = IF kind = "list" THEN opened ELSE None]
      /\ own' = [own EXCEPT ![t] = 0] /\ newest' = [newest EXCEPT ![t] = 0]
      /\ behind' = behind \ {t} /\ Sends(t, kind, list, TRUE, F)
  BY DEF Mount, server, seen
<1>3. PICK new \in Request : Sent(F, new) /\ new.tab = t /\ new.kind = kind /\ new.list = list /\ new.live
  <2> DEFINE new == New(t, kind, list, TRUE)
  <2>1. WorkbenchTypeOK /\ kind \in Kind
    BY DEF DeskInv, Kind
  <2>2. sent < MaxRequests /\ sent' = sent + 1 /\ flight' = F \cup {new}
    BY <1>2 DEF Sends, New
  <2>3. sent' \in 1 .. MaxRequests /\ new \in Request
    BY <2>1, <2>2, NewFacts
  <2>4. /\ new.id = sent' /\ new.tab = t /\ new.kind = kind /\ new.token = memory[t]
        /\ new.answer = "unserved" /\ new.list = list /\ new.live
    BY DEF New
  <2> HIDE DEF new, F
  <2>5. Sent(F, new)
    BY <1>1, <1>2, <2>2, <2>3, <2>4 DEF Sent
  <2> QED  BY <2>3, <2>4, <2>5
<1> HIDE DEF F
<1>4. /\ flight' \subseteq Request /\ sent' \in 0 .. MaxRequests
      /\ IdsTell' /\ EndedStays' /\ LoginsFresh' /\ RefusedStays'
  BY <1>3, SentKeeps
<1>5. /\ own \in [Tabs -> 0 .. MaxRow] /\ newest \in [Tabs -> 0 .. MaxRequests]
      /\ page \in [Tabs -> Shown \cup {None}] /\ behind \subseteq Tabs
  BY DEF DeskInv, WorkbenchTypeOK, Shown
<1>6. /\ own' \in [Tabs -> 0 .. MaxRow] /\ newest' \in [Tabs -> 0 .. MaxRequests]
      /\ own'[t] = 0 /\ newest'[t] = 0 /\ behind' \subseteq Tabs /\ OthersStay(t)
  BY <1>2, <1>5, WorkbenchBounds DEF OthersStay
<1>7. PageAsks' /\ WillShow' /\ page' \in [Tabs -> Shown \cup {None}]
  <2>1. CASE kind = "people"
    <3>1. F \subseteq flight' /\ (\A p \in flight' : p \in F \/ (p.tab = t /\ ~OfList(p)))
      BY <1>3, <2>1 DEF Sent, OfList, Changes, Change, List
    <3>2. page' = [page EXCEPT ![t] = None] /\ UNCHANGED rows
      BY <1>2, <2>1
    <3> HIDE DEF opened
    <3> QED  BY <1>1, <1>4, <1>6, <3>1, <3>2, PageLeft
  <2>2. CASE kind = "list"
    <3>1. opened \in Shown /\ opened.list = list /\ opened.row = Loading /\ list \in List
      BY <2>2, WorkbenchBounds DEF Shown, Loading, Empty
    <3>2. page' = [page EXCEPT ![t] = opened]
      BY <1>2, <2>2
    <3> HIDE DEF opened
    <3>3. /\ page' \in [Tabs -> Shown \cup {None}] /\ page'[t] = opened
          /\ \A u \in Tabs : u # t => page'[u] = page[u]
      BY <1>5, <3>1, <3>2
    <3>4. /\ \A p \in flight' : p = new \/ p \in F
          /\ \A p \in F : p \in flight' /\ p \in Request
          /\ new \in flight'
          /\ \A p \in F : /\ OfList(p) => p.list \in List
                          /\ OfList(p) /\ p.answer = "served" => p.value <= rows[p.list]
      BY <1>1, <1>3, FromFacts DEF Sent, From
    <3>5. new.answer = "unserved" /\ new.kind = "list" /\ new.kind \notin Changes
      BY <1>3, <2>2 DEF Sent, Changes, Change, List
    <3>6. PageAsks'
      <4>1. \A p \in flight' : OfList(p) /\ p.live => page'[p.tab] \in Shown /\ p.list = page'[p.tab].list
        <5> SUFFICES ASSUME NEW p \in F, OfList(p), p.live
                     PROVE  page'[p.tab] \in Shown /\ p.list = page'[p.tab].list
          BY <1>3, <3>1, <3>3, <3>4
        <5>1. p \in flight /\ p.tab # t /\ p.tab \in Tabs
          BY <1>1, <3>4 DEF Request
        <5> QED  BY <3>3, <5>1 DEF DeskInv, PageAsks
      <4>2. \A u \in Tabs : page'[u] # None => own'[u] <= rows'[page'[u].list]
        <5> SUFFICES ASSUME NEW u \in Tabs, page'[u] # None PROVE own'[u] <= rows'[page'[u].list]
          OBVIOUS
        <5>1. CASE u = t
          BY <1>2, <1>6, <3>1, <3>3, <5>1 DEF DeskInv, WorkbenchTypeOK
        <5>2. CASE u # t
          BY <1>2, <1>6, <3>3, <5>2 DEF DeskInv, PageAsks, OthersStay
        <5> QED  BY <5>1, <5>2
      <4>3. \A p, q \in flight' :
                p.live /\ q.live /\ p.tab = q.tab /\ p.list = "alerts" /\ p.kind = "list" /\ q.kind \in Changes
                    => p.id < q.id
        BY <1>1, <1>3, <3>4, <3>5 DEF DeskInv, PageAsks
      <4>4. \A p \in flight' : /\ OfList(p) => p.list \in List
                               /\ OfList(p) /\ p.answer = "served" => p.value <= rows'[p.list]
        BY <1>2, <1>3, <3>1, <3>4, <3>5
      <4> QED  BY <4>1, <4>2, <4>3, <4>4 DEF PageAsks
    <3>7. WillShow'
      <4> SUFFICES ASSUME NEW u \in Tabs, page'[u] # None
                   PROVE  /\ u \in behind' \/ page'[u].row = Empty \/ page'[u].row >= own'[u]
                             \/ \E p \in flight' : Covers(p, u)'
                          /\ \A q \in flight' : q.tab = u /\ q.live /\ q.kind = "list" /\ q.answer = "served" =>
                                q.value >= own'[u] \/ q.id < newest'[u]
                                \/ \E p \in flight' : Covers(p, u)' /\ p.id > q.id
        BY DEF WillShow
      <4>1. CASE u = t
        <5>1. Covers(new, t)'
          BY <1>3, <3>4, <3>5 DEF Covers
        <5>2. \A q \in flight' : q.tab = t /\ q.live => q = new
          BY <1>1, <3>4
        <5> QED  BY <3>4, <3>5, <4>1, <5>1, <5>2
      <4>2. CASE u # t
        <5>1. /\ page'[u] = page[u] /\ own'[u] = own[u] /\ newest'[u] = newest[u]
              /\ u \in behind' <=> u \in behind
          BY <1>6, <3>3, <4>2 DEF OthersStay
        <5>2. \A p \in flight : Covers(p, u) => p \in flight' /\ Covers(p, u)'
          BY <1>1, <3>4, <4>2, <5>1 DEF Covers
        <5>3. \A q \in flight' : q.tab = u /\ q.live /\ q.kind = "list" => q \in flight
          BY <1>1, <1>3, <3>4, <4>2
        <5> QED  BY <5>1, <5>2, <5>3 DEF DeskInv, WillShow
      <4> QED  BY <4>1, <4>2
    <3> QED  BY <3>3, <3>6, <3>7
  <2> QED  BY <2>1, <2>2
<1>8. WorkbenchTypeOK'
  BY <1>2, <1>4, <1>6, <1>7 DEF DeskInv, WorkbenchTypeOK, Shown
<1> QED  BY <1>4, <1>7, <1>8 DEF DeskInv

\* A request of no list, or of a page that is gone, is answered.
LEMMA AsideKeeps ==
    ASSUME DeskInv, NEW r \in flight, flight' = flight \ {r}, r.kind # "list" \/ ~r.live,
           UNCHANGED <<rows, page, own, newest, behind>>
    PROVE  PageAsks' /\ WillShow'
<1>1. PageAsks'
  BY DEF DeskInv, PageAsks
<1>2. \A t \in Tabs : \A p \in flight : Covers(p, t) => p \in flight' /\ Covers(p, t)'
  BY DEF Covers
<1>3. WillShow'
  <2> SUFFICES ASSUME NEW u \in Tabs, page[u] # None
               PROVE  /\ u \in behind \/ page[u].row = Empty \/ page[u].row >= own[u]
                         \/ \E p \in flight' : Covers(p, u)'
                      /\ \A q \in flight' : q.tab = u /\ q.live /\ q.kind = "list" /\ q.answer = "served" =>
                            q.value >= own[u] \/ q.id < newest[u]
                            \/ \E p \in flight' : Covers(p, u)' /\ p.id > q.id
    BY DEF WillShow
  <2> QED  BY <1>2 DEF DeskInv, WillShow
<1> QED  BY <1>1, <1>3

LEMMA AsideLeft ==
    ASSUME DeskInv, NEW r \in flight, flight' = flight \ {r},
           UNCHANGED <<memory, storage, sent, valid, begun, rows, ended>>
    PROVE  /\ flight' \subseteq Request /\ sent' \in 0 .. MaxRequests
           /\ IdsTell' /\ EndedStays' /\ LoginsFresh' /\ RefusedStays'
<1>1. flight' \subseteq Request /\ sent' \in 0 .. MaxRequests /\ IdsTell' /\ RefusedStays'
  BY SomeFrom, LeftKeeps
<1>2. EndedStays' /\ LoginsFresh'
  BY DEF DeskInv, EndedStays, LoginsFresh
<1> QED  BY <1>1, <1>2

LEMMA SettledKeeps ==
    ASSUME DeskInv, NEW r \in flight, Settled(r)
    PROVE  DeskInv'
<1>1. /\ flight' = flight \ {r} /\ r.kind # "list"
      /\ UNCHANGED <<memory, storage, sent, valid, begun, rows, page, ended, own, newest, behind>>
  BY DEF Settled, server, seen
<1>2. PageAsks' /\ WillShow'
  BY <1>1, AsideKeeps
<1>3. /\ flight' \subseteq Request /\ sent' \in 0 .. MaxRequests
      /\ IdsTell' /\ EndedStays' /\ LoginsFresh' /\ RefusedStays'
  BY <1>1, AsideLeft
<1> QED  BY <1>1, <1>2, <1>3 DEF DeskInv, WorkbenchTypeOK

LEMMA SetUserKeeps ==
    ASSUME DeskInv, NEW r \in flight, SetUser(r)
    PROVE  DeskInv'
<1>1. /\ flight' = flight \ {r} /\ r.kind # "list" /\ LoginServed(r)
      /\ memory' = [memory EXCEPT ![r.tab] = r.value] /\ storage' = r.value
      /\ UNCHANGED <<sent, valid, begun, rows, page, ended, own, newest, behind>>
  BY DEF SetUser, server, seen, LoginServed
<1>2. PageAsks' /\ WillShow'
  BY <1>1, AsideKeeps
<1>3. flight' \subseteq Request /\ sent' \in 0 .. MaxRequests /\ IdsTell' /\ RefusedStays'
  BY <1>1, SomeFrom, LeftKeeps
<1>4. /\ memory \in [Tabs -> Session \cup {None}] /\ begun \in 0 .. MaxLogins
      /\ r.value \in 1 .. begun /\ r.value \notin ended
      /\ \A p \in flight : LoginServed(p) /\ p.value = r.value => p = r
      /\ \A t \in Tabs : memory[t] \in (1 .. begun) \cup {None}
  BY <1>1 DEF DeskInv, WorkbenchTypeOK, LoginsFresh
<1>5. r.value \in Session
  BY <1>4, WorkbenchBounds DEF Session
<1>6. /\ memory' \in [Tabs -> Session \cup {None}]
      /\ \A t \in Tabs : memory'[t] = r.value \/ memory'[t] = memory[t]
  BY <1>1, <1>4, <1>5
<1>7. LoginsFresh'
  BY <1>1, <1>4, <1>6 DEF DeskInv, LoginsFresh
<1>8. EndedStays'
  BY <1>1, <1>4 DEF EndedStays
<1> QED  BY <1>1, <1>2, <1>3, <1>5, <1>6, <1>7, <1>8 DEF DeskInv, WorkbenchTypeOK

LEMMA RestKeeps ==
    ASSUME DeskInv
    PROVE  /\ \A s \in Session : Expire(s) => DeskInv'
           /\ \A k \in List : OthersChange(k) => DeskInv'
<1>1. ASSUME NEW s \in Session, Expire(s) PROVE DeskInv'
  <2>1. /\ valid' \subseteq valid
        /\ UNCHANGED <<memory, storage, flight, sent, page, begun, rows, ended, own, newest, behind>>
    BY <1>1 DEF Expire, browser, seen
  <2>2. WorkbenchTypeOK' /\ IdsTell' /\ EndedStays'
    BY <2>1 DEF DeskInv, WorkbenchTypeOK, IdsTell, EndedStays
  <2>3. LoginsFresh' /\ RefusedStays'
    BY <2>1 DEF DeskInv, LoginsFresh, RefusedStays
  <2>4. PageAsks'
    BY <2>1 DEF DeskInv, PageAsks
  <2>5. \A t \in Tabs : \A p \in flight : Covers(p, t)' <=> Covers(p, t)
    BY <2>1 DEF Covers
  <2>6. WillShow'
    BY <2>1, <2>5 DEF DeskInv, WillShow
  <2> QED  BY <2>2, <2>3, <2>4, <2>6 DEF DeskInv
<1>2. ASSUME NEW k \in List, OthersChange(k) PROVE DeskInv'
  <2>1. /\ rows[k] < MaxRow /\ rows' = [rows EXCEPT ![k] = @ + 1]
        /\ UNCHANGED <<memory, storage, flight, sent, page, valid, begun, ended, own, newest, behind>>
    BY <1>2 DEF OthersChange, browser, seen
  <2>2. rows \in [List -> 0 .. MaxRow] /\ rows[k] + 1 \in 0 .. MaxRow
    BY <2>1, WorkbenchBounds DEF DeskInv, WorkbenchTypeOK
  <2>3. /\ rows' \in [List -> 0 .. MaxRow]
        /\ \A l \in List : rows[l] \in Nat /\ rows'[l] \in Nat /\ rows[l] <= rows'[l]
    BY <2>1, <2>2
  <2>4. WorkbenchTypeOK' /\ IdsTell' /\ EndedStays' /\ LoginsFresh' /\ RefusedStays'
    BY <2>1, <2>3 DEF DeskInv, WorkbenchTypeOK, IdsTell, EndedStays, LoginsFresh, RefusedStays
  <2>5. PageAsks'
    <3>1. \A p \in flight : p.value \in Nat
      BY WorkbenchBounds DEF DeskInv, WorkbenchTypeOK, Request
    <3>2. \A t \in Tabs : own[t] \in Nat /\ (page[t] # None => page[t].list \in List)
      BY WorkbenchBounds DEF DeskInv, WorkbenchTypeOK
    <3>3. \A p \in flight : /\ OfList(p) => p.list \in List
                            /\ OfList(p) /\ p.answer = "served" => p.value <= rows'[p.list]
      BY <2>3, <3>1 DEF DeskInv, PageAsks
    <3>4. \A t \in Tabs : page[t] # None => own[t] <= rows'[page[t].list]
      BY <2>3, <3>2 DEF DeskInv, PageAsks
    <3> QED  BY <2>1, <3>3, <3>4 DEF DeskInv, PageAsks
  <2>6. \A t \in Tabs : \A p \in flight : Covers(p, t)' <=> Covers(p, t)
    BY <2>1 DEF Covers
  <2>7. WillShow'
    BY <2>1, <2>6 DEF DeskInv, WillShow
  <2> QED  BY <2>4, <2>5, <2>7 DEF DeskInv
<1> QED  BY <1>1, <1>2

\* The answer to a request of a page that is still there is shown.
LEMMA ShowKeeps ==
    ASSUME DeskInv, NEW r \in flight, OfList(r), r.live, flight' = flight \ {r}, rows' = rows,
           NEW what \in Empty .. MaxRow, page' = [page EXCEPT ![r.tab].row = what],
           newest' = [newest EXCEPT ![r.tab] = IF r.id > @ THEN r.id ELSE @],
           behind' \in {behind \cup {r.tab}, behind \ {r.tab}},
           own' \in [Tabs -> 0 .. MaxRow], \A u \in Tabs \ {r.tab} : own'[u] = own[u],
           own'[r.tab] <= rows[r.list],
           \/ r.tab \in behind' \/ what = Empty \/ what >= own'[r.tab]
           \/ \E p \in flight' : Covers(p, r.tab)',
           \A q \in flight' : q.tab = r.tab /\ q.live /\ q.kind = "list" /\ q.answer = "served" =>
               q.value >= own'[r.tab] \/ q.id < newest[r.tab] \/ q.id < r.id
               \/ \E p \in flight' : Covers(p, r.tab)' /\ p.id > q.id
    PROVE  /\ PageAsks' /\ WillShow' /\ page' \in [Tabs -> Shown \cup {None}]
           /\ newest' \in [Tabs -> 0 .. MaxRequests] /\ behind' \subseteq Tabs
<1> DEFINE t == r.tab
<1>1. /\ r \in Request /\ t \in Tabs /\ r.id \in 1 .. MaxRequests
      /\ page[t] \in Shown /\ r.list = page[t].list /\ r.list \in List
  BY DEF DeskInv, WorkbenchTypeOK, Request, PageAsks
<1>2. page \in [Tabs -> Shown \cup {None}] /\ newest \in [Tabs -> 0 .. MaxRequests]
  BY DEF DeskInv, WorkbenchTypeOK, Shown
<1>3. /\ page' \in [Tabs -> Shown \cup {None}] /\ page'[t] \in Shown
      /\ page'[t].list = page[t].list /\ page'[t].row = what
      /\ \A u \in Tabs : u # t => page'[u] = page[u]
  <2>1. /\ [page[t] EXCEPT !.row = what] \in Shown
        /\ [page[t] EXCEPT !.row = what].list = page[t].list
        /\ [page[t] EXCEPT !.row = what].row = what
    BY <1>1 DEF Shown
  <2>2. page' = [page EXCEPT ![t] = [page[t] EXCEPT !.row = what]]
    BY <1>1, <1>2
  <2> QED  BY <1>1, <1>2, <2>1, <2>2
<1>4. /\ newest' \in [Tabs -> 0 .. MaxRequests]
      /\ newest'[t] >= r.id /\ newest'[t] >= newest[t] /\ newest'[t] \in Nat
      /\ \A u \in Tabs : u # t => newest'[u] = newest[u]
      /\ newest[t] \in Nat
  <2>1. newest[t] \in 0 .. MaxRequests
    BY <1>1, <1>2
  <2>2. newest'[t] = IF r.id > newest[t] THEN r.id ELSE newest[t]
    BY <1>1, <1>2
  <2>3. \A u \in Tabs : u # t => newest'[u] = newest[u]
    BY <1>1, <1>2
  <2>4. newest' \in [Tabs -> 0 .. MaxRequests]
    BY <1>1, <1>2, <2>1
  <2> QED  BY <1>1, <2>1, <2>2, <2>3, <2>4
<1>5. /\ behind' \subseteq Tabs
      /\ \A u \in Tabs : u # t => (u \in behind' <=> u \in behind)
  BY <1>1 DEF DeskInv, WorkbenchTypeOK
<1> HIDE DEF t
<1>6. \A p \in flight' : p \in flight /\ p \in Request /\ p.id \in Nat
  BY DEF DeskInv, WorkbenchTypeOK, Request
<1>7. PageAsks'
  <2>1. \A p \in flight : /\ OfList(p) => p.list \in List
                          /\ OfList(p) /\ p.answer = "served" => p.value <= rows[p.list]
                          /\ OfList(p) /\ p.live => page[p.tab] \in Shown /\ p.list = page[p.tab].list
                          /\ p.tab \in Tabs
    BY DEF DeskInv, PageAsks, WorkbenchTypeOK, Request
  <2>2. \A p \in flight' : OfList(p) /\ p.live => page'[p.tab] \in Shown /\ p.list = page'[p.tab].list
    BY <1>3, <1>6, <2>1
  <2>3. \A u \in Tabs : page'[u] # None => own'[u] <= rows'[page'[u].list]
    <3> SUFFICES ASSUME NEW u \in Tabs, page'[u] # None PROVE own'[u] <= rows'[page'[u].list]
      OBVIOUS
    <3>1. CASE u = t
      BY <1>1, <1>3, <3>1 DEF t
    <3>2. CASE u # t
      BY <1>3, <3>2 DEF t, DeskInv, PageAsks
    <3> QED  BY <3>1, <3>2
  <2>4. \A p, q \in flight' :
            p.live /\ q.live /\ p.tab = q.tab /\ p.list = "alerts" /\ p.kind = "list" /\ q.kind \in Changes
                => p.id < q.id
    BY <1>6 DEF DeskInv, PageAsks
  <2> QED  BY <1>6, <2>1, <2>2, <2>3, <2>4 DEF PageAsks
<1>8. WillShow'
  <2> SUFFICES ASSUME NEW u \in Tabs, page'[u] # None
               PROVE  /\ u \in behind' \/ page'[u].row = Empty \/ page'[u].row >= own'[u]
                         \/ \E p \in flight' : Covers(p, u)'
                      /\ \A q \in flight' : q.tab = u /\ q.live /\ q.kind = "list" /\ q.answer = "served" =>
                            q.value >= own'[u] \/ q.id < newest'[u]
                            \/ \E p \in flight' : Covers(p, u)' /\ p.id > q.id
    BY DEF WillShow
  <2>1. CASE u = t
    <3>1. u \in behind' \/ page'[u].row = Empty \/ page'[u].row >= own'[u]
          \/ \E p \in flight' : Covers(p, u)'
      BY <1>3, <2>1 DEF t
    <3>2. ASSUME NEW q \in flight', q.tab = u, q.live, q.kind = "list", q.answer = "served"
          PROVE  q.value >= own'[u] \/ q.id < newest'[u]
                 \/ \E p \in flight' : Covers(p, u)' /\ p.id > q.id
      <4>1. q.id < newest[t] \/ q.id < r.id => q.id < newest'[t]
        BY <1>1, <1>4, <1>6, <3>2
      <4> QED  BY <2>1, <3>2, <4>1 DEF t
    <3> QED  BY <3>1, <3>2
  <2>2. CASE u # t
    <3>1. own'[u] = own[u] /\ newest'[u] = newest[u] /\ page'[u] = page[u] /\ (u \in behind' <=> u \in behind)
      BY <1>3, <1>4, <1>5, <2>2 DEF t
    <3>2. \A p \in flight : Covers(p, u) => p \in flight' /\ Covers(p, u)'
      BY <2>2, <3>1 DEF Covers, t
    <3> QED  BY <1>6, <3>1, <3>2 DEF DeskInv, WillShow
  <2> QED  BY <2>1, <2>2
<1> QED  BY <1>3, <1>4, <1>5, <1>7, <1>8

LEMMA ListArrivesKeeps ==
    ASSUME DeskInv, NEW r \in flight, ListArrives(r)
    PROVE  DeskInv'
<1>1. /\ r.kind = "list" /\ OfList(r) /\ flight' = flight \ {r}
      /\ UNCHANGED <<memory, storage, sent, valid, begun, rows, ended, own>>
  BY DEF ListArrives, OfList, server
<1>2. /\ flight' \subseteq Request /\ sent' \in 0 .. MaxRequests
      /\ IdsTell' /\ EndedStays' /\ LoginsFresh' /\ RefusedStays'
  BY <1>1, AsideLeft
<1>3. r \in Request /\ r.tab \in Tabs /\ r.list \in List /\ r.value \in Nat /\ r.id \in Nat
  BY <1>1, WorkbenchBounds DEF DeskInv, WorkbenchTypeOK, PageAsks, Request
<1>4. CASE ~r.live
  <2>1. UNCHANGED <<page, newest, behind>>
    BY <1>4 DEF ListArrives, Show
  <2>2. PageAsks' /\ WillShow'
    BY <1>1, <1>4, <2>1, AsideKeeps
  <2> QED  BY <1>1, <1>2, <2>1, <2>2 DEF DeskInv, WorkbenchTypeOK
<1>5. CASE r.live
  <2> DEFINE t == r.tab
             Put(what) ==
                 /\ page' = [page EXCEPT ![r.tab].row = what]
                 /\ newest' = [newest EXCEPT ![r.tab] = IF r.id > @ THEN r.id ELSE @]
  <2>1. /\ page[t] \in Shown /\ r.list = page[t].list /\ page[t].list \in List
        /\ page[t].row \in Empty .. MaxRow
    BY <1>1, <1>5, <1>3 DEF DeskInv, PageAsks, Shown
  <2>t. /\ rows[r.list] \in 0 .. MaxRow /\ own \in [Tabs -> 0 .. MaxRow]
        /\ newest[t] \in Nat /\ behind \subseteq Tabs
    BY <1>3 DEF DeskInv, WorkbenchTypeOK
  <2>2. PICK what \in Empty .. MaxRow :
            /\ Put(what) /\ behind' \in {behind \cup {t}, behind \ {t}}
            /\ \/ t \in behind' \/ what = Empty
               \/ what = r.value /\ r.answer = "served" /\ r.id >= newest[t]
    <3>1. CASE r.answer = "served" /\ Show(r, r.value, FALSE)
      <4>1. r.value \in Empty .. MaxRow
        <5>1. r.value <= rows[r.list]
          BY <1>1, <3>1 DEF DeskInv, PageAsks
        <5> QED  BY <1>3, <2>t, <5>1, WorkbenchBounds DEF Empty
      <4>2. Put(r.value) /\ behind' = IF r.id < newest[t] THEN behind \cup {t} ELSE behind \ {t}
        BY <1>5, <3>1 DEF Show
      <4>3. t \in behind' \/ r.id >= newest[t]
        BY <1>3, <2>t, <4>2
      <4>4. behind' \in {behind \cup {t}, behind \ {t}}
        BY <4>2
      <4>5. Put(r.value)
        BY <4>2
      <4> HIDE DEF Put
      <4> QED  BY <3>1, <4>1, <4>3, <4>4, <4>5
    <3>2. CASE Show(r, Empty, FALSE)
      <4>1. Empty \in Empty .. MaxRow
        BY WorkbenchBounds DEF Empty
      <4>2. Put(Empty) /\ behind' \in {behind \cup {t}, behind \ {t}}
        BY <1>5, <3>2 DEF Show
      <4> QED  BY <4>1, <4>2
    <3>3. ASSUME NEW before \in Empty .. MaxRow, Show(r, before, TRUE)
          PROVE  Put(before) /\ behind' = behind \cup {t}
      BY <1>5, <3>3 DEF Show
    <3>4. CASE Show(r, IF page[t].row = Loading THEN Empty ELSE page[t].row, TRUE)
      <4> DEFINE before == IF page[t].row = Loading THEN Empty ELSE page[t].row
      <4>1. before \in Empty .. MaxRow
        BY <2>1, WorkbenchBounds DEF Empty
      <4>2. Show(r, before, TRUE)
        BY <3>4
      <4> HIDE DEF before
      <4>3. Put(before) /\ behind' = behind \cup {t}
        BY <3>3, <4>1, <4>2
      <4>4. t \in behind'
        BY <4>3
      <4> QED  BY <4>1, <4>3, <4>4
    <3> QED  BY <1>5, <3>1, <3>2, <3>4 DEF ListArrives
  <2>3. page[t] # None /\ own[t] <= rows[r.list]
    <3>1. page[t] # None
      BY <2>1, WorkbenchBounds DEF Shown
    <3> QED  BY <1>3, <2>1, <3>1 DEF DeskInv, PageAsks
  <2>4. \A p \in flight : Covers(p, t) /\ p # r => p \in flight' /\ Covers(p, t)'
    BY <1>1 DEF Covers
  <2>5. ASSUME NEW q \in flight, q.tab = t, q.live, q.kind = "list", q.answer = "served"
        PROVE  q.value >= own[t] \/ q.id < newest[t] \/ q.id < r.id
               \/ \E p \in flight' : Covers(p, t)' /\ p.id > q.id
    <3>1. q.value >= own[t] \/ q.id < newest[t] \/ \E p \in flight : Covers(p, t) /\ p.id > q.id
      BY <1>3, <2>3, <2>5 DEF DeskInv, WillShow
    <3> QED  BY <2>4, <3>1
  <2>6. t \in behind' \/ what = Empty \/ what >= own'[t] \/ \E p \in flight' : Covers(p, t)'
    <3> SUFFICES ASSUME what = r.value, r.answer = "served", r.id >= newest[t]
                 PROVE  what >= own'[t] \/ \E p \in flight' : Covers(p, t)'
      BY <2>2
    <3>1. r.value >= own[t] \/ \E p \in flight : Covers(p, t) /\ p.id > r.id
      BY <1>1, <1>3, <1>5, <2>3, <2>t DEF DeskInv, WillShow
    <3> QED  BY <1>1, <1>3, <2>4, <3>1
  <2>7. \A q \in flight' : q.tab = r.tab /\ q.live /\ q.kind = "list" /\ q.answer = "served" =>
               q.value >= own'[r.tab] \/ q.id < newest[r.tab] \/ q.id < r.id
               \/ \E p \in flight' : Covers(p, r.tab)' /\ p.id > q.id
    BY <1>1, <2>5
  <2>8. /\ own' \in [Tabs -> 0 .. MaxRow] /\ \A u \in Tabs \ {r.tab} : own'[u] = own[u]
        /\ own'[r.tab] <= rows[r.list] /\ rows' = rows
    BY <1>1, <2>t, <2>3
  <2> HIDE DEF t
  <2>9. /\ PageAsks' /\ WillShow' /\ page' \in [Tabs -> Shown \cup {None}]
        /\ newest' \in [Tabs -> 0 .. MaxRequests] /\ behind' \subseteq Tabs
    BY <1>1, <1>5, <2>2, <2>6, <2>7, <2>8, ShowKeeps DEF t
  <2> QED  BY <1>1, <1>2, <2>9 DEF DeskInv, WorkbenchTypeOK, Shown
<1> QED  BY <1>4, <1>5

LEMMA AlertChangedKeeps ==
    ASSUME DeskInv, NEW r \in flight, AlertChanged(r)
    PROVE  DeskInv'
<1>1. /\ r.kind \in Changes /\ r.kind # "list" /\ OfList(r) /\ r.list = "alerts" /\ r.answer = "served"
      /\ flight' = flight \ {r} /\ Owns(r) /\ Show(r, r.value, FALSE)
      /\ UNCHANGED <<memory, storage, sent, valid, begun, rows, ended>>
  <2>1. /\ r.kind \in Changes /\ r.list = "alerts" /\ r.answer = "served"
        /\ flight' = flight \ {r} /\ Owns(r) /\ Show(r, r.value, FALSE)
        /\ UNCHANGED <<memory, storage, sent, valid, begun, rows, ended>>
    BY DEF AlertChanged, server
  <2>2. "list" \notin Changes
    BY DEF Changes, Change, List
  <2> QED  BY <2>1, <2>2 DEF OfList
<1>2. /\ flight' \subseteq Request /\ sent' \in 0 .. MaxRequests
      /\ IdsTell' /\ EndedStays' /\ LoginsFresh' /\ RefusedStays'
  BY <1>1, AsideLeft
<1>3. /\ r \in Request /\ r.tab \in Tabs /\ r.list \in List /\ r.value \in Nat /\ r.id \in Nat
      /\ r.value <= rows[r.list] /\ rows[r.list] \in 0 .. MaxRow /\ own \in [Tabs -> 0 .. MaxRow]
  <2>1. r \in Request /\ r.tab \in Tabs /\ r.value \in Nat /\ r.id \in Nat
    BY WorkbenchBounds DEF DeskInv, WorkbenchTypeOK, Request
  <2>2. r.list \in List /\ r.value <= rows[r.list]
    BY <1>1 DEF DeskInv, PageAsks
  <2>3. rows[r.list] \in 0 .. MaxRow /\ own \in [Tabs -> 0 .. MaxRow]
    BY <2>2 DEF DeskInv, WorkbenchTypeOK
  <2> QED  BY <2>1, <2>2, <2>3
<1>4. CASE ~r.live
  <2>1. UNCHANGED <<page, own, newest, behind>>
    BY <1>1, <1>4 DEF Show, Owns
  <2>2. PageAsks' /\ WillShow'
    BY <1>1, <1>4, <2>1, AsideKeeps
  <2> QED  BY <1>1, <1>2, <2>1, <2>2 DEF DeskInv, WorkbenchTypeOK
<1>5. CASE r.live
  <2>1. r.value \in 0 .. MaxRow /\ r.value \in Empty .. MaxRow
    BY <1>3, WorkbenchBounds DEF Empty
  <2>2. /\ page' = [page EXCEPT ![r.tab].row = r.value]
        /\ newest' = [newest EXCEPT ![r.tab] = IF r.id > @ THEN r.id ELSE @]
        /\ behind' \in {behind \cup {r.tab}, behind \ {r.tab}}
    BY <1>1, <1>5 DEF Show
  <2>3. own' = [own EXCEPT ![r.tab] = r.value]
    BY <1>1, <1>5 DEF Owns
  <2>4. /\ own' \in [Tabs -> 0 .. MaxRow] /\ \A u \in Tabs \ {r.tab} : own'[u] = own[u]
        /\ own'[r.tab] = r.value /\ own'[r.tab] <= rows[r.list] /\ r.value >= own'[r.tab]
    BY <1>3, <2>1, <2>3
  <2>5. \A q \in flight' : q.tab = r.tab /\ q.live /\ q.kind = "list" => q.id < r.id
    <3> SUFFICES ASSUME NEW q \in flight', q.tab = r.tab, q.live, q.kind = "list" PROVE q.id < r.id
      OBVIOUS
    <3>1. q \in flight /\ q.list = page[q.tab].list /\ r.list = page[r.tab].list
      BY <1>1, <1>5 DEF DeskInv, PageAsks, OfList
    <3> QED  BY <1>1, <1>5, <3>1 DEF DeskInv, PageAsks
  <2>6. /\ PageAsks' /\ WillShow' /\ page' \in [Tabs -> Shown \cup {None}]
        /\ newest' \in [Tabs -> 0 .. MaxRequests] /\ behind' \subseteq Tabs
    BY <1>1, <1>5, <2>1, <2>2, <2>4, <2>5, ShowKeeps
  <2> QED  BY <1>1, <1>2, <2>4, <2>6 DEF DeskInv, WorkbenchTypeOK, Shown
<1> QED  BY <1>4, <1>5

\* A request of a page that is still there, or of none, is sent besides those
\* that are left.
LEMMA BesidesKeeps ==
    ASSUME DeskInv, NEW F \in SUBSET flight, NEW new \in Request, Sent(F, new), OfList(new),
           \A p \in flight \ F : p.kind # "list", UNCHANGED <<rows, page, newest, behind>>,
           new.list \in List,
           new.live => page[new.tab] \in Shown /\ new.list = page[new.tab].list,
           new.kind = "list" => new.kind \notin Changes /\ new.list # "alerts",
           own' \in [Tabs -> 0 .. MaxRow],
           \/ own' = own
           \/ /\ new.live /\ new.kind = "list" /\ \A u \in Tabs \ {new.tab} : own'[u] = own[u]
              /\ own'[new.tab] <= rows[new.list]
    PROVE  DeskInv'
<1>1. /\ flight' \subseteq Request /\ sent' \in 0 .. MaxRequests
      /\ IdsTell' /\ EndedStays' /\ LoginsFresh' /\ RefusedStays'
      /\ \A p \in F : p.id < new.id
  BY SentKeeps
<1>2. /\ \A p \in flight' : p = new \/ p \in F
      /\ new \in flight' /\ F \subseteq flight' /\ new.answer = "unserved" /\ new.tab \in Tabs
      /\ rows' = rows
  BY DEF Sent, Request
<1>3. PageAsks'
  <2>1. \A p \in flight' : /\ OfList(p) => p.list \in List
                           /\ OfList(p) /\ p.answer = "served" => p.value <= rows'[p.list]
                           /\ OfList(p) /\ p.live => page'[p.tab] \in Shown /\ p.list = page'[p.tab].list
    BY <1>2 DEF DeskInv, PageAsks
  <2>2. \A u \in Tabs : page'[u] # None => own'[u] <= rows'[page'[u].list]
    <3> SUFFICES ASSUME NEW u \in Tabs, page[u] # None PROVE own'[u] <= rows[page[u].list]
      BY <1>2
    <3>1. own[u] <= rows[page[u].list]
      BY DEF DeskInv, PageAsks
    <3> QED  BY <1>2, <3>1
  <2>3. \A p, q \in flight' :
            p.live /\ q.live /\ p.tab = q.tab /\ p.list = "alerts" /\ p.kind = "list" /\ q.kind \in Changes
                => p.id < q.id
    <3> SUFFICES ASSUME NEW p \in flight', NEW q \in flight', p.live, q.live, p.tab = q.tab,
                        p.list = "alerts", p.kind = "list", q.kind \in Changes
                 PROVE  p.id < q.id
      OBVIOUS
    <3>1. p # new
      OBVIOUS
    <3>2. CASE q = new
      BY <1>1, <1>2, <3>1, <3>2
    <3>3. CASE q # new
      BY <1>2, <3>1, <3>3 DEF DeskInv, PageAsks
    <3> QED  BY <3>2, <3>3
  <2> QED  BY <2>1, <2>2, <2>3 DEF PageAsks
<1>4. WillShow'
  <2> SUFFICES ASSUME NEW u \in Tabs, page[u] # None
               PROVE  /\ u \in behind \/ page[u].row = Empty \/ page[u].row >= own'[u]
                         \/ \E p \in flight' : Covers(p, u)'
                      /\ \A q \in flight' : q.tab = u /\ q.live /\ q.kind = "list" /\ q.answer = "served" =>
                            q.value >= own'[u] \/ q.id < newest[u]
                            \/ \E p \in flight' : Covers(p, u)' /\ p.id > q.id
    BY DEF WillShow
  <2>1. CASE own'[u] = own[u]
    <3>1. \A p \in flight : Covers(p, u) => p \in flight' /\ Covers(p, u)'
      BY <1>2, <2>1 DEF Covers
    <3> QED  BY <1>2, <2>1, <3>1 DEF DeskInv, WillShow
  <2>2. CASE u = new.tab /\ new.live /\ new.kind = "list"
    <3>1. Covers(new, u)'
      BY <1>2, <2>2 DEF Covers
    <3>2. \A q \in F : q.id \in Nat /\ new.id \in Nat /\ new.id > q.id
      BY <1>1 DEF DeskInv, WorkbenchTypeOK, Request
    <3> QED  BY <1>2, <3>1, <3>2
  <2> QED  BY <2>1, <2>2
<1> QED  BY <1>1, <1>3, <1>4 DEF DeskInv, WorkbenchTypeOK, Sent

LEMMA HandleActionKeeps ==
    ASSUME DeskInv, NEW t \in Tabs, NEW kind \in Kind, HandleAction(t, kind)
    PROVE  DeskInv'
<1> DEFINE k   == page[t].list
           new == New(t, kind, k, TRUE)
<1>1. /\ page[t] # None /\ kind \in Change[k] /\ Sends(t, kind, k, TRUE, flight)
      /\ UNCHANGED <<memory, storage, page, valid, begun, rows, ended, own, newest, behind>>
  BY DEF HandleAction, server, seen
<1>2. page[t] \in Shown /\ k \in List /\ WorkbenchTypeOK /\ own \in [Tabs -> 0 .. MaxRow]
  BY <1>1 DEF DeskInv, WorkbenchTypeOK, Shown
<1>3. kind \in Changes /\ kind # "list"
  BY <1>1, <1>2 DEF Changes, Change, List
<1>4. sent < MaxRequests /\ sent' = sent + 1 /\ flight' = flight \cup {new}
  BY <1>1 DEF Sends, New
<1>5. sent' \in 1 .. MaxRequests /\ new \in Request
  BY <1>2, <1>4, NewFacts
<1>6. /\ new.id = sent' /\ new.tab = t /\ new.kind = kind /\ new.token = memory[t]
      /\ new.answer = "unserved" /\ new.list = k /\ new.live
  BY DEF New
<1> HIDE DEF new
<1>7. From(flight)
  BY SomeFrom
<1>8. Sent(flight, new)
  BY <1>1, <1>4, <1>5, <1>6, <1>7 DEF Sent
<1>9. OfList(new)
  BY <1>3, <1>6 DEF OfList
<1> QED  BY <1>1, <1>2, <1>3, <1>5, <1>6, <1>8, <1>9, BesidesKeeps

LEMMA ChangedKeeps ==
    ASSUME DeskInv, NEW r \in flight, Changed(r)
    PROVE  DeskInv'
<1> DEFINE F   == flight \ {r}
           new == New(r.tab, "list", r.list, r.live)
<1>1. /\ r.kind \in Changes /\ r.kind # "list" /\ "list" \notin Changes /\ OfList(r)
      /\ r.list # "alerts" /\ r.answer = "served"
      /\ Owns(r) /\ Sends(r.tab, "list", r.list, r.live, F)
      /\ UNCHANGED <<memory, storage, valid, begun, rows, page, ended, newest, behind>>
  BY DEF Changed, OfList, server, Changes, Change, List
<1>2. /\ WorkbenchTypeOK /\ r \in Request /\ r.tab \in Tabs /\ r.list \in List /\ r.live \in BOOLEAN
      /\ r.value <= rows[r.list] /\ r.value \in Nat /\ rows[r.list] \in 0 .. MaxRow
      /\ own \in [Tabs -> 0 .. MaxRow] /\ "list" \in Kind
  <2>1. r \in Request /\ r.tab \in Tabs /\ r.value \in Nat /\ r.live \in BOOLEAN /\ WorkbenchTypeOK
    BY WorkbenchBounds DEF DeskInv, WorkbenchTypeOK, Request
  <2>2. r.list \in List /\ r.value <= rows[r.list]
    BY <1>1 DEF DeskInv, PageAsks
  <2>3. rows[r.list] \in 0 .. MaxRow /\ own \in [Tabs -> 0 .. MaxRow]
    BY <2>2 DEF DeskInv, WorkbenchTypeOK
  <2> QED  BY <2>1, <2>2, <2>3 DEF Kind
<1>3. r.live => page[r.tab] \in Shown /\ r.list = page[r.tab].list
  BY <1>1 DEF DeskInv, PageAsks
<1>4. sent < MaxRequests /\ sent' = sent + 1 /\ flight' = F \cup {new}
  BY <1>1 DEF Sends, New
<1>5. sent' \in 1 .. MaxRequests /\ new \in Request
  <2>1. r.live = TRUE \/ r.live = FALSE
    BY <1>2
  <2> QED  BY <1>2, <1>4, <2>1, NewFacts
<1>6. /\ new.id = sent' /\ new.tab = r.tab /\ new.kind = "list" /\ new.token = memory[r.tab]
      /\ new.answer = "unserved" /\ new.list = r.list /\ (new.live <=> r.live)
  BY DEF New
<1>7. From(F) /\ F \in SUBSET flight
  BY SomeFrom
<1>8. \A p \in flight \ F : p.kind # "list"
  BY <1>1
<1>9. /\ own' \in [Tabs -> 0 .. MaxRow]
      /\ own' = own \/ (r.live /\ own'[r.tab] = r.value /\ \A u \in Tabs \ {r.tab} : own'[u] = own[u])
  <2>1. CASE r.live
    <3>1. r.value \in 0 .. MaxRow
      BY <1>2, WorkbenchBounds
    <3>2. own' = [own EXCEPT ![r.tab] = r.value]
      BY <1>1, <2>1 DEF Owns
    <3> QED  BY <1>2, <2>1, <3>1, <3>2
  <2>2. CASE ~r.live
    BY <1>1, <1>2, <2>2 DEF Owns
  <2> QED  BY <2>1, <2>2
<1> HIDE DEF new, F
<1>10. Sent(F, new)
  BY <1>1, <1>4, <1>5, <1>6, <1>7 DEF Sent
<1>11. OfList(new)
  BY <1>6 DEF OfList
<1> QED  BY <1>1, <1>2, <1>3, <1>5, <1>6, <1>7, <1>8, <1>9, <1>10, <1>11, BesidesKeeps

LEMMA UsesKeep ==
    ASSUME DeskInv, NEW T \in SUBSET Tabs, NEW L \in SUBSET List, Uses(T, L)
    PROVE  DeskInv'
<1>1. ASSUME NEW t \in T, HandleLogin(t) \/ LogOut(t) \/ Reload(t) PROVE DeskInv'
  BY <1>1, HandleLoginKeeps, LeavesKeep, ReloadKeeps
<1>2. ASSUME NEW t \in T, Mount(t, "people", None) PROVE DeskInv'
  <2>1. "people" \in {"list", "people"} /\ None \in List \cup {None} /\ "people" # "list" /\ t \in Tabs
    OBVIOUS
  <2> QED  BY <1>2, <2>1, MountKeeps
<1>3. ASSUME NEW t \in T, NEW k \in L, Mount(t, "list", k) PROVE DeskInv'
  <2>1. "list" \in {"list", "people"} /\ k \in List \cup {None} /\ k \in List /\ t \in Tabs
    OBVIOUS
  <2> QED  BY <1>3, <2>1, MountKeeps
<1>4. ASSUME NEW t \in T, NEW k \in Kind, HandleAction(t, k) PROVE DeskInv'
  BY <1>4, HandleActionKeeps
<1>5. ASSUME NEW r \in flight, Serves(r) PROVE DeskInv'
  BY <1>5, ServesReply, RepliesKeep
<1>6. ASSUME NEW r \in flight, Arrives(r) PROVE DeskInv'
  BY <1>6, SetUserKeeps, LeavesKeep, ListArrivesKeeps, ChangedKeeps, AlertChangedKeeps, SettledKeeps
     DEF Arrives
<1>7. ASSUME NEW s \in Session, Expire(s) PROVE DeskInv'
  BY <1>7, RestKeeps
<1>8. ASSUME NEW k \in L, OthersChange(k) PROVE DeskInv'
  BY <1>8, RestKeeps
<1> QED  BY <1>1, <1>2, <1>3, <1>4, <1>5, <1>6, <1>7, <1>8 DEF Uses

\* Nothing changes what the requests and the tabs are asked about.
LEMMA IdleKeeps ==
    ASSUME DeskInv, UNCHANGED <<memory, storage, valid, begun, flight, sent, rows, page, ended, own,
                                newest, behind>>
    PROVE  DeskInv'
<1>1. IdsTell' /\ WorkbenchTypeOK' /\ EndedStays'
  BY DEF DeskInv, IdsTell, WorkbenchTypeOK, EndedStays
<1>2. LoginsFresh' /\ RefusedStays'
  BY DEF DeskInv, LoginsFresh, RefusedStays
<1>3. PageAsks'
  BY DEF DeskInv, PageAsks
<1>4. WillShow'
  BY DEF DeskInv, WillShow, Covers
<1> QED  BY <1>1, <1>2, <1>3, <1>4 DEF DeskInv

LEMMA InitHolds ==
    ASSUME WorkbenchInit
    PROVE  DeskInv
<1>1. \/ storage = None /\ valid = {} /\ begun = 0
      \/ storage = 1 /\ valid = {1} /\ begun = 1
  <2>1. Cardinality({}) = 0 /\ Cardinality({1}) = 1
    BY FS_EmptySet, FS_Singleton
  <2>2. 1 \in 1 .. MaxLogins /\ None # 1
    BY WorkbenchBounds
  <2>3. CASE storage = None
    <3>1. valid = {}
      BY <2>3 DEF WorkbenchInit
    <3> QED  BY <2>1, <2>3, <3>1 DEF WorkbenchInit
  <2>4. CASE storage = 1
    <3>1. valid = {1}
      BY <2>2, <2>4 DEF WorkbenchInit
    <3> QED  BY <2>1, <2>4, <3>1 DEF WorkbenchInit
  <2> QED  BY <2>3, <2>4 DEF WorkbenchInit
<1>2. /\ flight = {} /\ sent = 0 /\ rows = [k \in List |-> 0] /\ page = [t \in Tabs |-> None]
      /\ ended = {} /\ own = [t \in Tabs |-> 0] /\ newest = [t \in Tabs |-> 0] /\ behind = {}
      /\ memory = [t \in Tabs |-> storage]
  BY DEF WorkbenchInit
<1>3. storage \in (1 .. begun) \cup {None} /\ valid \subseteq 1 .. begun /\ begun \in 0 .. MaxLogins
      /\ 1 .. begun \subseteq Session
  BY <1>1, WorkbenchBounds DEF Session
<1>4. 0 \in 0 .. MaxRow /\ 0 \in 0 .. MaxRequests
  BY WorkbenchBounds
<1>5. WorkbenchTypeOK
  <2>1. memory \in [Tabs -> Session \cup {None}] /\ storage \in Session \cup {None}
        /\ valid \subseteq Session /\ begun \in 0 .. MaxLogins
    BY <1>2, <1>3
  <2>2. /\ rows \in [List -> 0 .. MaxRow] /\ own \in [Tabs -> 0 .. MaxRow]
        /\ newest \in [Tabs -> 0 .. MaxRequests] /\ sent \in 0 .. MaxRequests
        /\ page \in [Tabs -> [list : List, row : Empty .. MaxRow] \cup {None}]
    BY <1>2, <1>4
  <2> QED  BY <1>2, <2>1, <2>2 DEF WorkbenchTypeOK
<1>6. IdsTell /\ EndedStays /\ RefusedStays /\ LoginsFresh
  BY <1>2, <1>3 DEF IdsTell, EndedStays, RefusedStays, LoginsFresh
<1>7. PageAsks /\ WillShow
  BY <1>2 DEF PageAsks, WillShow
<1> QED  BY <1>5, <1>6, <1>7 DEF DeskInv

LEMMA FreshHolds ==
    ASSUME DeskInv
    PROVE  ListFresh
<1> SUFFICES ASSUME NEW t \in Tabs \ behind, page[t] # None, \A r \in flight : r.tab = t => ~r.live
             PROVE  page[t].row = Empty \/ page[t].row >= own[t]
  BY DEF ListFresh
<1>1. ~\E p \in flight : Covers(p, t)
  BY DEF Covers
<1> QED  BY <1>1 DEF DeskInv, WillShow

LEMMA KeptHolds ==
    ASSUME DeskInv, NEW T \in SUBSET Tabs, NEW L \in SUBSET List, Uses(T, L), NEW t \in Tabs,
           memory[t] \in valid, memory'[t] = None
    PROVE  \/ storage = None \/ LogOut(t)
           \/ \E r \in flight : /\ r.tab = t /\ r.id \notin {q.id : q \in flight'}
                                /\ r.kind = "login" \/ r.token # memory[t]
<1>1. /\ memory \in [Tabs -> Session \cup {None}] /\ memory[t] # None /\ None \notin Session
      /\ flight \subseteq Request /\ valid \subseteq Session
  BY WorkbenchBounds DEF DeskInv, WorkbenchTypeOK, Session
<1>2. CASE UNCHANGED memory
  BY <1>1, <1>2
<1>3. CASE \E u \in T : LogOut(u)
  <2>1. PICK u \in T : LogOut(u)
    BY <1>3
  <2>2. memory' = [memory EXCEPT ![u] = None]
    BY <2>1 DEF LogOut, Drop
  <2> QED  BY <1>1, <2>1, <2>2
<1>4. CASE \E u \in T : Reload(u)
  <2>1. PICK u \in T : Reload(u)
    BY <1>4
  <2>2. memory' = [memory EXCEPT ![u] = storage]
    BY <2>1 DEF Reload
  <2> QED  BY <1>1, <2>1, <2>2
<1>5. CASE \E r \in flight : SetUser(r)
  <2>1. PICK r \in flight : SetUser(r)
    BY <1>5
  <2>2. memory' = [memory EXCEPT ![r.tab] = r.value] /\ LoginServed(r)
    BY <2>1 DEF SetUser, LoginServed
  <2>3. r.value \in 1 .. begun /\ begun \in 0 .. MaxLogins
    BY <2>2 DEF DeskInv, LoginsFresh, WorkbenchTypeOK
  <2>4. r.value # None
    BY <2>3, WorkbenchBounds
  <2> QED  BY <1>1, <2>2, <2>4
<1>6. CASE \E r \in flight : Refused(r)
  <2>1. PICK r \in flight : Refused(r)
    BY <1>6
  <2>2. /\ r.answer = "refused" /\ memory' = [memory EXCEPT ![r.tab] = None]
        /\ flight' = Dead(r.tab, flight \ {r})
    BY <2>1 DEF Refused, Drop
  <2>3. r.tab = t
    BY <1>1, <2>2
  <2>4. \A q \in flight' : \E p \in flight \ {r} : q.id = p.id
    BY <1>1, <2>2, DeadFacts
  <2>5. r.id \notin {q.id : q \in flight'}
    BY <2>4 DEF DeskInv, IdsTell
  <2>6. r.kind = "login" \/ r.token # memory[t]
    BY <2>2 DEF DeskInv, RefusedStays
  <2> QED  BY <2>3, <2>5, <2>6
<1>7. ASSUME NEW u \in T PROVE /\ HandleLogin(u) => UNCHANGED memory
                               /\ Mount(u, "people", None) => UNCHANGED memory
                               /\ \A k \in L : Mount(u, "list", k) => UNCHANGED memory
                               /\ \A k \in Kind : HandleAction(u, k) => UNCHANGED memory
  BY DEF HandleLogin, Mount, HandleAction
<1>8. ASSUME NEW r \in flight, Serves(r) PROVE UNCHANGED memory
  BY <1>8 DEF Serves, ServeLogin, ServePeople, ServeList, ServeChange, ServeFails
<1>9. ASSUME NEW r \in flight, ListArrives(r) \/ Changed(r) \/ AlertChanged(r) \/ Settled(r)
      PROVE  UNCHANGED memory
  BY <1>9 DEF ListArrives, Changed, AlertChanged, Settled
<1>10. /\ \A s \in Session : Expire(s) => UNCHANGED memory
       /\ \A k \in L : OthersChange(k) => UNCHANGED memory
  BY DEF Expire, OthersChange, browser
<1> QED  BY <1>2, <1>3, <1>4, <1>5, <1>6, <1>7, <1>8, <1>9, <1>10 DEF Uses, Arrives

-----------------------------------------------------------------------------

\* A session that a tab has dropped is in no localStorage, and a list with
\* nothing under way shows the tab's own last change or something later
\* (authStore.ts, client.ts, the pages' handlers).
THEOREM WorkbenchCorrect == WorkbenchSpec => []WorkbenchInv
<1>1. DeskInv /\ [Uses(Tabs, List)]_desk => DeskInv'
  <2>1. CASE UNCHANGED desk
    BY <2>1, IdleKeeps DEF desk, browser, server, seen
  <2>2. CASE Uses(Tabs, List)
    BY <2>2, UsesKeep
  <2> QED  BY <2>1, <2>2
<1>2. DeskInv => WorkbenchInv
  BY FreshHolds DEF DeskInv, WorkbenchInv
<1> QED  BY <1>1, <1>2, InitHolds, PTL DEF WorkbenchSpec

\* A tab whose session's token is good loses that session to its own Log Out,
\* to a wrong password, to an answer meant for an earlier session, or on a
\* load after another tab dropped what localStorage held (client.ts).
THEOREM KeptCorrect == WorkbenchSpec => SessionKept
<1> DEFINE Kept == \A t \in Tabs : memory[t] \in valid /\ memory'[t] = None =>
           \/ storage = None \/ LogOut(t)
           \/ \E r \in flight : /\ r.tab = t /\ r.id \notin {q.id : q \in flight'}
                                /\ r.kind = "login" \/ r.token # memory[t]
<1>1. DeskInv /\ [Uses(Tabs, List)]_desk => DeskInv' /\ [Kept]_desk
  <2>1. CASE UNCHANGED desk
    BY <2>1, IdleKeeps DEF desk, browser, server, seen
  <2>2. ASSUME DeskInv, Uses(Tabs, List) PROVE DeskInv' /\ Kept
    BY <2>2, UsesKeep, KeptHolds
  <2> QED  BY <2>1, <2>2
<1> QED  BY <1>1, InitHolds, PTL DEF WorkbenchSpec, SessionKept

LEMMA UsesMore ==
    ASSUME NEW T \in SUBSET Tabs, NEW L \in SUBSET List, Uses(T, L)
    PROVE  Uses(Tabs, List)
BY DEF Uses

\* The instance that TLC explores follows the accounts or the dashboard, and
\* each by its own specification.
THEOREM InstanceFollows == MCSpec => Spec /\ WorkbenchSpec
<1>1. MCInit => Init /\ WorkbenchInit
  BY DEF MCInit
<1>2. [MCNext]_all => [Next]_vars
  BY DEF MCNext, all
<1>3. [MCNext]_all => [Uses(Tabs, List)]_desk
  <2>1. CASE part = "sessions" /\ Uses(Tabs, {})
    BY <2>1, UsesMore
  <2>2. CASE part \in List /\ Uses({tab1}, {part})
    BY <2>2, UsesMore, InstanceAssumption
  <2> QED  BY <2>1, <2>2 DEF MCNext, all
<1> QED  BY <1>1, <1>2, <1>3, PTL DEF MCSpec, Spec, WorkbenchSpec

-----------------------------------------------------------------------------
(* The administrator's terminal (RemoteShell).                             *)

\* A connect is at work for an id that no other is at work for; its session
\* is open from then on, and in the registry when it ends.
ConnectsApart ==
    /\ \A t \in threads :
        /\ t.what = "connect" => t.id \in Sessions \ (fresh \cup Registered)
        /\ t.what = "connect" => link[t.id] = IF t.at = "opened" THEN "up" ELSE "none"
        /\ t.at = "opened" => t.what = "connect"
        /\ t.what = "line" => t.command \in Commands
        /\ \A u \in threads : t.what = "connect" /\ u.what = "connect" /\ t.id = u.id => t = u
    /\ \A s \in fresh : link[s] = "none"

ShellInv == RemoteShellInv /\ ConnectsApart

-----------------------------------------------------------------------------

LEMMA TailFacts ==
    ASSUME NEW S, NEW q \in Seq(S), q # <<>>, IsInjective(q)
    PROVE  /\ Tail(q) \in Seq(S) /\ Len(Tail(q)) = Len(q) - 1 /\ IsInjective(Tail(q))
           /\ ToSet(Tail(q)) = ToSet(q) \ {Head(q)} /\ Head(q) \in ToSet(q)
<1>1. /\ Tail(q) \in Seq(S) /\ Len(Tail(q)) = Len(q) - 1 /\ Len(q) \in Nat /\ Len(q) > 0
      /\ \A i \in 1 .. Len(q) - 1 : Tail(q)[i] = q[i + 1]
      /\ Head(q) = q[1]
  BY HeadTailProperties
<1>2. DOMAIN q = 1 .. Len(q) /\ DOMAIN Tail(q) = 1 .. Len(q) - 1
  BY <1>1
<1>3. \A i, j \in 1 .. Len(q) : q[i] = q[j] => i = j
  BY <1>2 DEF IsInjective
<1>4. IsInjective(Tail(q))
  BY <1>1, <1>2, <1>3 DEF IsInjective
<1>5. ASSUME NEW x \in ToSet(q), x # q[1] PROVE x \in ToSet(Tail(q))
  <2>1. PICK i \in 1 .. Len(q) : x = q[i]
    BY <1>2 DEF ToSet
  <2>2. i - 1 \in 1 .. Len(q) - 1 /\ Tail(q)[i - 1] = x
    BY <1>1, <1>5, <2>1
  <2> QED  BY <1>2, <2>2 DEF ToSet
<1>6. ASSUME NEW x \in ToSet(Tail(q)) PROVE x \in ToSet(q) /\ x # q[1]
  <2>1. PICK i \in 1 .. Len(q) - 1 : x = Tail(q)[i]
    BY <1>2 DEF ToSet
  <2>2. x = q[i + 1] /\ i + 1 \in 1 .. Len(q) /\ 1 \in 1 .. Len(q) /\ i + 1 # 1
    BY <1>1, <2>1
  <2> QED  BY <1>2, <1>3, <2>2 DEF ToSet
<1>7. q[1] \in ToSet(q)
  BY <1>1, <1>2 DEF ToSet
<1> QED  BY <1>1, <1>4, <1>5, <1>6, <1>7

LEMMA RemoveFacts ==
    ASSUME NEW S, NEW q \in Seq(S), IsInjective(q), NEW i \in 1 .. Len(q)
    PROVE  LET r == RemoveAt(q, i) IN
           r \in Seq(S) /\ Len(r) = Len(q) - 1 /\ IsInjective(r) /\ ToSet(r) = ToSet(q) \ {q[i]}
<1> DEFINE a == SubSeq(q, 1, i - 1)
           b == SubSeq(q, i + 1, Len(q))
           r == a \o b
<1>n. Len(q) \in Nat /\ i \in Nat /\ i >= 1 /\ i <= Len(q) /\ DOMAIN q = 1 .. Len(q)
  OBVIOUS
<1>1. a \in Seq(S) /\ Len(a) = i - 1 /\ \A k \in 1 .. i - 1 : a[k] = q[k]
  BY SubSeqProperties
<1>2. b \in Seq(S) /\ Len(b) = Len(q) - i /\ \A k \in 1 .. Len(q) - i : b[k] = q[i + k]
  BY SubSeqProperties
<1>3. RemoveAt(q, i) = r
  BY DEF RemoveAt
<1> HIDE DEF a, b
<1>4. /\ r \in Seq(S) /\ Len(r) = Len(a) + Len(b)
      /\ \A k \in 1 .. Len(a) + Len(b) : r[k] = IF k <= Len(a) THEN a[k] ELSE b[k - Len(a)]
  BY <1>1, <1>2, ConcatProperties
<1> HIDE DEF r
<1>5. Len(r) = Len(q) - 1
  BY <1>n, <1>1, <1>2, <1>4
<1>6. \A k \in 1 .. Len(q) - 1 : r[k] = IF k < i THEN q[k] ELSE q[k + 1]
  <2> SUFFICES ASSUME NEW k \in 1 .. Len(q) - 1
               PROVE  r[k] = IF k < i THEN q[k] ELSE q[k + 1]
    OBVIOUS
  <2>1. k \in 1 .. Len(a) + Len(b) /\ Len(a) = i - 1
    BY <1>n, <1>1, <1>2
  <2>2. CASE k < i
    BY <1>n, <1>1, <1>4, <2>1, <2>2
  <2>3. CASE ~(k < i)
    <3>1. r[k] = b[k - (i - 1)] /\ k - (i - 1) \in 1 .. Len(q) - i
      BY <1>n, <1>4, <2>1, <2>3
    <3>2. b[k - (i - 1)] = q[i + (k - (i - 1))] /\ i + (k - (i - 1)) = k + 1
      BY <1>n, <1>2, <3>1
    <3> QED  BY <2>3, <3>1, <3>2
  <2> QED  BY <2>2, <2>3
<1>7. DOMAIN r = 1 .. Len(q) - 1
  <2>1. r \in Seq(S) /\ Len(r) = Len(q) - 1
    BY <1>4, <1>5
  <2> QED  BY <2>1
<1>8. \A j, k \in 1 .. Len(q) : q[j] = q[k] => j = k
  BY <1>n DEF IsInjective
<1>9. IsInjective(r)
  <2> SUFFICES ASSUME NEW j \in 1 .. Len(q) - 1, NEW k \in 1 .. Len(q) - 1, r[j] = r[k]
               PROVE  j = k
    BY <1>7 DEF IsInjective
  <2>1. j \in 1 .. Len(q) /\ k \in 1 .. Len(q) /\ j + 1 \in 1 .. Len(q) /\ k + 1 \in 1 .. Len(q)
    BY <1>n
  <2> QED  BY <1>n, <1>6, <1>8, <2>1
<1>10. ASSUME NEW x \in ToSet(q), x # q[i] PROVE x \in ToSet(r)
  <2>1. PICK k \in 1 .. Len(q) : x = q[k]
    BY <1>n DEF ToSet
  <2>2. CASE k < i
    <3>1. k \in 1 .. Len(q) - 1 /\ r[k] = x
      BY <1>n, <1>6, <2>1, <2>2
    <3> QED  BY <1>7, <3>1 DEF ToSet
  <2>3. CASE k > i
    <3>1. k - 1 \in 1 .. Len(q) - 1 /\ r[k - 1] = x
      BY <1>n, <1>6, <2>1, <2>3
    <3> QED  BY <1>7, <3>1 DEF ToSet
  <2> QED  BY <1>n, <1>10, <2>1, <2>2, <2>3
<1>11. ASSUME NEW x \in ToSet(r) PROVE x \in ToSet(q) /\ x # q[i]
  <2>1. PICK k \in 1 .. Len(q) - 1 : x = r[k]
    BY <1>7 DEF ToSet
  <2>2. k \in 1 .. Len(q) /\ k + 1 \in 1 .. Len(q)
    BY <1>n
  <2>3. PICK j \in 1 .. Len(q) : x = q[j] /\ j # i
    BY <1>n, <1>6, <2>1, <2>2
  <2> QED  BY <1>n, <1>8, <2>3 DEF ToSet
<1>12. ToSet(r) = ToSet(q) \ {q[i]}
  BY <1>8, <1>10, <1>11
<1> QED  BY <1>3, <1>4, <1>5, <1>9, <1>12

LEMMA PushFacts ==
    ASSUME NEW S, NEW q \in Seq(S), IsInjective(q), NEW x \in S, x \notin ToSet(q)
    PROVE  LET r == Append(q, x) IN
           r \in Seq(S) /\ Len(r) = Len(q) + 1 /\ IsInjective(r) /\ ToSet(r) = ToSet(q) \cup {x}
<1> DEFINE r == Append(q, x)
<1>1. /\ r \in Seq(S) /\ Len(r) = Len(q) + 1 /\ r[Len(q) + 1] = x /\ Len(q) \in Nat
      /\ \A i \in 1 .. Len(q) : r[i] = q[i]
  OBVIOUS
<1>2. DOMAIN r = 1 .. Len(q) + 1 /\ DOMAIN q = 1 .. Len(q)
  OBVIOUS
<1> HIDE DEF r
<1>3. \A i \in 1 .. Len(q) : q[i] # x
  BY <1>2 DEF ToSet
<1>4. IsInjective(r)
  BY <1>1, <1>2, <1>3 DEF IsInjective
<1>5. \A i \in 1 .. Len(q) + 1 : r[i] \in ToSet(q) \cup {x}
  BY <1>1, <1>2 DEF ToSet
<1>6. ToSet(q) \cup {x} \subseteq ToSet(r)
  BY <1>1, <1>2 DEF ToSet
<1>7. ToSet(r) \subseteq ToSet(q) \cup {x}
  BY <1>2, <1>5 DEF ToSet
<1> QED  BY <1>1, <1>4, <1>6, <1>7 DEF r

-----------------------------------------------------------------------------

\* Handlers that are no connect's, and lines, come and go.
LEMMA ThreadsKeep ==
    ASSUME ShellInv, UNCHANGED <<link, registry, fresh>>, threads' \subseteq Thread,
           \A t \in threads' \ threads : t.what # "connect" /\ t.at # "opened"
                                         /\ (t.what = "line" => t.command \in Commands),
           \A t \in threads \ threads' : t.what # "connect" /\ t.at # "opened"
    PROVE  ConnectsApart' /\ NoneLeft'
<1>1. ConnectsApart'
  BY DEF ShellInv, ConnectsApart, Registered
<1>2. NoneLeft'
  BY DEF ShellInv, RemoteShellInv, NoneLeft, Registered
<1> QED  BY <1>1, <1>2

\* What the terminal types and the relays and the other side do.
LEMMA AsideKeep ==
    ASSUME ShellInv,
           \/ \E s \in Sessions : AskDisconnect(s) \/ Relay(s) \/ HangUp(s) \/ RelayEnds(s) \/ GoesQuiet(s)
           \/ \E c \in Commands : Type(c)
           \/ Leave \/ JoinRoom \/ FindIdle
    PROVE  ShellInv'
<1> USE DEF dashboard, session
<1>1. UNCHANGED <<link, registry, fresh>>
  BY DEF AskDisconnect, Relay, HangUp, RelayEnds, GoesQuiet, Type, Leave, JoinRoom, FindIdle
<1>2. /\ threads \subseteq threads' /\ threads' \subseteq Thread
      /\ \A t \in threads' \ threads : t.what # "connect" /\ t.at # "opened"
                                       /\ (t.what = "line" => t.command \in Commands)
  <2>1. CASE \E s \in Sessions : AskDisconnect(s)
    BY <2>1 DEF AskDisconnect, Say, ShellInv, RemoteShellInv, RemoteShellTypeOK
  <2>2. CASE \E c \in Commands : Type(c)
    BY <2>2 DEF Type, Say, ShellInv, RemoteShellInv, RemoteShellTypeOK
  <2>3. CASE UNCHANGED threads
    BY <2>3 DEF ShellInv, RemoteShellInv, RemoteShellTypeOK
  <2> QED  BY <2>1, <2>2, <2>3 DEF Relay, HangUp, RelayEnds, GoesQuiet, Leave, JoinRoom, FindIdle
<1>3. ConnectsApart' /\ NoneLeft'
  BY <1>1, <1>2, ThreadsKeep
<1>4. /\ shell' \in Sessions \cup {NoSession} /\ unsaid' \subseteq Commands
      /\ active' \subseteq Sessions /\ hungUp' \subseteq Sessions /\ idle' \subseteq Sessions
      /\ victims' \subseteq Sessions /\ typed' = typed /\ joined' \in BOOLEAN /\ ran' \subseteq Commands
  <2>1. RemoteShellTypeOK
    BY DEF ShellInv, RemoteShellInv
  <2>2. FindIdle => victims' \subseteq Sessions
    BY <2>1 DEF FindIdle, Registered, RemoteShellTypeOK, ToSet
  <2> QED  BY <2>1, <2>2 DEF AskDisconnect, Relay, HangUp, RelayEnds, GoesQuiet, Type, Leave, JoinRoom,
                       FindIdle, Execute, RemoteShellTypeOK
<1>5. RemoteShellTypeOK'
  BY <1>1, <1>2, <1>4 DEF ShellInv, RemoteShellInv, RemoteShellTypeOK
<1> QED  BY <1>3, <1>5 DEF ShellInv, RemoteShellInv

\* The types of what the inductive step below is about.
LEMMA ShellTypes ==
    ASSUME ShellInv
    PROVE  /\ RemoteShellTypeOK /\ NoneLeft /\ ConnectsApart
           /\ registry \in Seq(Sessions) /\ IsInjective(registry) /\ Registered \subseteq Sessions
           /\ threads \subseteq Thread /\ link \in [Sessions -> {"none", "up", "down", "left"}]
<1>1. RemoteShellTypeOK /\ NoneLeft /\ ConnectsApart
  BY DEF ShellInv, RemoteShellInv
<1>2. registry \in Seq(Sessions) /\ IsInjective(registry)
  BY <1>1 DEF RemoteShellTypeOK, NoneLeft
<1>3. Registered \subseteq Sessions
  BY <1>2 DEF Registered, ToSet
<1> QED  BY <1>1, <1>2, <1>3 DEF RemoteShellTypeOK

LEMMA ConnectKeeps ==
    ASSUME ShellInv, NEW s \in Sessions, Connect(s)
    PROVE  ShellInv'
<1> DEFINE new == [what |-> "connect", id |-> s, command |-> NoSession, at |-> "start"]
<1>1. /\ s \in fresh /\ fresh' = fresh \ {s} /\ shell' = s
      /\ UNCHANGED <<unsaid, link, active, hungUp, idle, registry, victims, joined, typed, ran>>
  BY DEF Connect, session
<1>2. new \in Thread /\ threads' \subseteq threads \cup {new} /\ threads \subseteq threads'
      /\ \A t \in threads' \ threads : t = new
  BY DEF Connect, Say, Thread
<1>3. link[s] = "none" /\ s \notin Registered /\ \A t \in threads : t.what = "connect" => t.id # s
  <2>1. link[s] = "none" /\ \A t \in threads : t.what = "connect" => t.id # s
    BY <1>1, ShellTypes DEF ConnectsApart
  <2> QED  BY <2>1, ShellTypes DEF NoneLeft
<1>4. /\ new.what = "connect" /\ new.id = s /\ new.at = "start"
  OBVIOUS
<1> HIDE DEF new
<1>5. RemoteShellTypeOK'
  BY <1>1, <1>2, ShellTypes DEF RemoteShellTypeOK
<1>6. NoneLeft'
  BY <1>1, <1>2, ShellTypes DEF NoneLeft, Registered
<1>7. ConnectsApart'
  <2>1. \A t \in threads' :
        /\ t.what = "connect" => t.id \in Sessions \ (fresh' \cup Registered')
        /\ t.what = "connect" => link'[t.id] = IF t.at = "opened" THEN "up" ELSE "none"
        /\ t.at = "opened" => t.what = "connect"
        /\ t.what = "line" => t.command \in Commands
    BY <1>1, <1>2, <1>3, <1>4, ShellTypes DEF ConnectsApart, Registered
  <2>2. \A t, u \in threads' : t.what = "connect" /\ u.what = "connect" /\ t.id = u.id => t = u
    BY <1>2, <1>3, <1>4, ShellTypes DEF ConnectsApart
  <2>3. \A x \in fresh' : link'[x] = "none"
    BY <1>1, ShellTypes DEF ConnectsApart
  <2> QED  BY <2>1, <2>2, <2>3 DEF ConnectsApart
<1> QED  BY <1>5, <1>6, <1>7 DEF ShellInv, RemoteShellInv

LEMMA OpenKeeps ==
    ASSUME ShellInv, NEW t \in threads, OpenSession(t)
    PROVE  ShellInv'
<1>1. /\ t.what = "connect" /\ t.at = "start"
      /\ UNCHANGED <<shell, fresh, unsaid, hungUp, idle, registry, victims, joined, typed, ran>>
  BY DEF OpenSession, dashboard
<1>2. /\ t \in Thread /\ t.id \in Sessions \ (fresh \cup Registered) /\ link[t.id] = "none"
      /\ \A u \in threads : u.what = "connect" /\ u.id = t.id => u = t
  BY <1>1, ShellTypes DEF ConnectsApart
<1>3. CASE /\ HandlerEnds(t) /\ UNCHANGED active
           /\ link' = link \/ link' = [link EXCEPT ![t.id] = "left"]
  <2>1. /\ threads' = threads \ {t}
        /\ link' \in [Sessions -> {"none", "up", "down", "left"}] /\ link'[t.id] # "up"
        /\ \A s \in Sessions \ {t.id} : link'[s] = link[s]
    BY <1>2, <1>3, ShellTypes DEF HandlerEnds
  <2>2. RemoteShellTypeOK'
    BY <1>1, <1>3, <2>1, ShellTypes DEF RemoteShellTypeOK
  <2>3. NoneLeft'
    BY <1>1, <1>2, <2>1, ShellTypes DEF NoneLeft, Registered
  <2>4. ConnectsApart'
    <3>1. \A u \in threads' :
          /\ u.what = "connect" => u.id \in Sessions \ (fresh' \cup Registered') /\ u.id # t.id
          /\ u.at = "opened" => u.what = "connect"
          /\ u.what = "line" => u.command \in Commands
      BY <1>1, <1>2, <2>1, ShellTypes DEF ConnectsApart, Registered
    <3>2. \A u \in threads' :
             u.what = "connect" => link'[u.id] = IF u.at = "opened" THEN "up" ELSE "none"
      BY <2>1, <3>1, ShellTypes DEF ConnectsApart
    <3>3. \A u, v \in threads' : u.what = "connect" /\ v.what = "connect" /\ u.id = v.id => u = v
      BY <2>1, ShellTypes DEF ConnectsApart
    <3>4. \A s \in fresh' : link'[s] = "none"
      BY <1>1, <1>2, <2>1, ShellTypes DEF ConnectsApart, RemoteShellTypeOK
    <3> QED  BY <3>1, <3>2, <3>3, <3>4 DEF ConnectsApart
  <2> QED  BY <2>2, <2>3, <2>4 DEF ShellInv, RemoteShellInv
<1>4. CASE Goes(t, "opened") /\ link' = [link EXCEPT ![t.id] = "up"] /\ active' = active \cup {t.id}
  <2>1. PICK n \in Thread : /\ threads' = (threads \ {t}) \cup {n} /\ n.what = "connect"
                            /\ n.id = t.id /\ n.at = "opened"
    <3> DEFINE n == [t EXCEPT !.at = "opened"]
    <3>1. n \in Thread /\ n.what = "connect" /\ n.id = t.id /\ n.at = "opened"
      BY <1>1, <1>2 DEF Thread
    <3> QED  BY <1>4, <3>1 DEF Goes
  <2>2. /\ link' \in [Sessions -> {"none", "up", "down", "left"}] /\ link'[t.id] = "up"
        /\ \A s \in Sessions \ {t.id} : link'[s] = link[s]
    BY <1>2, <1>4, ShellTypes
  <2>3. RemoteShellTypeOK'
    BY <1>1, <1>2, <1>4, <2>1, <2>2, ShellTypes DEF RemoteShellTypeOK
  <2>4. NoneLeft'
    <3>1. \A s \in Sessions : link'[s] = "up" =>
              s \in Registered' \/ \E u \in threads' : u.id = s /\ u.at = "opened"
      <4> SUFFICES ASSUME NEW s \in Sessions, link'[s] = "up", s \notin Registered
                   PROVE  \E u \in threads' : u.id = s /\ u.at = "opened"
        BY <1>1 DEF Registered
      <4>1. CASE s = t.id
        BY <2>1, <4>1
      <4>2. CASE s # t.id
        BY <2>1, <2>2, <4>2, ShellTypes DEF NoneLeft
      <4> QED  BY <4>1, <4>2
    <3>2. \A s \in Registered' : link'[s] = "up"
      BY <1>1, <1>2, <2>2, ShellTypes DEF NoneLeft, Registered
    <3> QED  BY <1>1, <3>1, <3>2, ShellTypes DEF NoneLeft
  <2>5. ConnectsApart'
    <3>1. \A u \in threads' :
          /\ u.what = "connect" => u.id \in Sessions \ (fresh' \cup Registered')
          /\ u.what = "connect" => link'[u.id] = IF u.at = "opened" THEN "up" ELSE "none"
          /\ u.at = "opened" => u.what = "connect"
          /\ u.what = "line" => u.command \in Commands
      BY <1>1, <1>2, <2>1, <2>2, ShellTypes DEF ConnectsApart, Registered
    <3>2. \A u, v \in threads' : u.what = "connect" /\ v.what = "connect" /\ u.id = v.id => u = v
      BY <1>2, <2>1, ShellTypes DEF ConnectsApart
    <3>3. \A s \in fresh' : link'[s] = "none"
      BY <1>1, <1>2, <2>2, ShellTypes DEF ConnectsApart, RemoteShellTypeOK
    <3> QED  BY <3>1, <3>2, <3>3 DEF ConnectsApart
  <2> QED  BY <2>3, <2>4, <2>5 DEF ShellInv, RemoteShellInv
<1> QED  BY <1>3, <1>4 DEF OpenSession

LEMMA AddKeeps ==
    ASSUME ShellInv, NEW t \in threads, Add(t)
    PROVE  ShellInv'
<1> DEFINE kept == IF Full THEN Tail(registry) ELSE registry
<1>1. /\ t.what = "connect" /\ t.at = "opened" /\ threads' = threads \ {t}
      /\ Close(Evicted) /\ registry' = Append(kept, t.id)
      /\ UNCHANGED <<shell, fresh, unsaid, hungUp, idle, victims, joined, typed, ran>>
  BY DEF Add, Insert, HandlerEnds, dashboard
<1>2. /\ t \in Thread /\ t.id \in Sessions \ (fresh \cup Registered) /\ link[t.id] = "up"
      /\ \A u \in threads : u.what = "connect" /\ u.id = t.id => u = t
  BY <1>1, ShellTypes DEF ConnectsApart
<1>3. /\ kept \in Seq(Sessions) /\ Len(kept) < MaxShells /\ IsInjective(kept)
      /\ ToSet(kept) = Registered \ Evicted /\ Evicted \subseteq Registered
  <2>1. Len(registry) <= MaxShells /\ Len(registry) \in Nat
    BY ShellTypes DEF NoneLeft
  <2>2. CASE Full
    <3>1. registry # <<>>
      BY <2>2, ShellAssumption, ShellTypes DEF Full
    <3>2. /\ Tail(registry) \in Seq(Sessions) /\ Len(Tail(registry)) = Len(registry) - 1
          /\ IsInjective(Tail(registry)) /\ ToSet(Tail(registry)) = Registered \ {Head(registry)}
          /\ Head(registry) \in Registered
      BY <3>1, ShellTypes, TailFacts DEF Registered
    <3>3. kept = Tail(registry) /\ Evicted = {Head(registry)}
      BY <2>2 DEF Evicted
    <3> HIDE DEF kept
    <3> QED  BY <2>1, <3>2, <3>3, ShellAssumption
  <2>3. CASE ~Full
    BY <2>1, <2>3, ShellAssumption, ShellTypes DEF Full, Evicted, Registered
  <2> QED  BY <2>2, <2>3
<1> HIDE DEF kept
<1>4. /\ registry' \in Seq(Sessions) /\ Len(registry') = Len(kept) + 1 /\ IsInjective(registry')
      /\ Registered' = (Registered \ Evicted) \cup {t.id}
  <2> DEFINE s == t.id
  <2>1. s \in Sessions /\ s \notin ToSet(kept)
    BY <1>2, <1>3
  <2> HIDE DEF s
  <2>2. LET r == Append(kept, s) IN
        r \in Seq(Sessions) /\ Len(r) = Len(kept) + 1 /\ IsInjective(r) /\ ToSet(r) = ToSet(kept) \cup {s}
    BY <1>3, <2>1, PushFacts
  <2> QED  BY <1>1, <1>3, <2>2 DEF s, Registered
<1>5. /\ link' = [s \in Sessions |-> IF s \in Evicted THEN "down" ELSE link[s]]
      /\ active' = active \ Evicted /\ t.id \notin Evicted
  BY <1>1, <1>2, <1>3 DEF Close
<1>6. RemoteShellTypeOK'
  BY <1>1, <1>4, <1>5, ShellTypes DEF RemoteShellTypeOK
<1>7. NoneLeft'
  <2>1. Len(registry') <= MaxShells
    <3>1. Len(kept) \in Nat
      BY <1>3
    <3> QED  BY <1>3, <1>4, <3>1, ShellAssumption
  <2>2. \A s \in Sessions : link'[s] = "up" =>
            s \in Registered' \/ \E u \in threads' : u.id = s /\ u.at = "opened"
    <3> SUFFICES ASSUME NEW s \in Sessions, link'[s] = "up", s \notin Registered'
                 PROVE  \E u \in threads' : u.id = s /\ u.at = "opened"
      OBVIOUS
    <3>1. link[s] = "up" /\ s \notin Registered /\ s # t.id
      BY <1>4, <1>5
    <3>2. PICK u \in threads : u.id = s /\ u.at = "opened"
      BY <3>1, ShellTypes DEF NoneLeft
    <3> QED  BY <1>1, <3>1, <3>2
  <2>3. \A s \in Registered' : link'[s] = "up"
    BY <1>2, <1>4, <1>5, ShellTypes DEF NoneLeft
  <2> QED  BY <1>4, <2>1, <2>2, <2>3 DEF NoneLeft
<1>8. ConnectsApart'
  <2>1. \A u \in threads' :
        /\ u.what = "connect" => u.id \in Sessions \ (fresh' \cup Registered')
        /\ u.what = "connect" => link'[u.id] = IF u.at = "opened" THEN "up" ELSE "none"
        /\ u.at = "opened" => u.what = "connect"
        /\ u.what = "line" => u.command \in Commands
    BY <1>1, <1>2, <1>3, <1>4, <1>5, ShellTypes DEF ConnectsApart
  <2>2. \A u, v \in threads' : u.what = "connect" /\ v.what = "connect" /\ u.id = v.id => u = v
    BY <1>1, ShellTypes DEF ConnectsApart
  <2>3. \A s \in fresh' : link'[s] = "none"
    BY <1>1, <1>3, <1>5, ShellTypes DEF ConnectsApart, NoneLeft, RemoteShellTypeOK
  <2> QED  BY <2>1, <2>2, <2>3 DEF ConnectsApart
<1> QED  BY <1>6, <1>7, <1>8 DEF ShellInv, RemoteShellInv

\* SessionRegistry.remove, for a disconnect (whose handler then ends) and for
\* the cleanup.
LEMMA RemoveKeeps ==
    ASSUME ShellInv, NEW s, RemoveSession(s), threads' \subseteq threads,
           \A t \in threads \ threads' : t.what # "connect", victims' \subseteq Sessions,
           UNCHANGED <<shell, fresh, unsaid, hungUp, idle, joined, typed, ran>>
    PROVE  ShellInv'
<1>1. /\ registry' \in Seq(Sessions) /\ Len(registry') <= Len(registry) /\ IsInjective(registry')
      /\ Registered' = Registered \ {s} /\ Len(registry) \in Nat /\ Len(registry') \in Nat
  <2>1. CASE s \notin Registered
    BY <2>1, ShellTypes DEF RemoveSession, Registered
  <2>2. CASE s \in Registered
    <3> DEFINE i == CHOOSE i \in DOMAIN registry : registry[i] = s
    <3>1. i \in 1 .. Len(registry) /\ registry[i] = s /\ registry' = RemoveAt(registry, i)
      <4>1. DOMAIN registry = 1 .. Len(registry) /\ \E k \in DOMAIN registry : registry[k] = s
        BY <2>2, ShellTypes DEF Registered, ToSet
      <4> QED  BY <2>2, <4>1 DEF RemoveSession
    <3> HIDE DEF i
    <3>2. LET r == RemoveAt(registry, i) IN
          /\ r \in Seq(Sessions) /\ Len(r) = Len(registry) - 1 /\ IsInjective(r)
          /\ ToSet(r) = ToSet(registry) \ {registry[i]}
      BY <3>1, ShellTypes, RemoveFacts
    <3>3. Len(registry) \in Nat /\ Len(registry) >= 1
      BY <3>1, ShellTypes
    <3> QED  BY <3>1, <3>2, <3>3 DEF Registered
  <2> QED  BY <2>1, <2>2
<1>2. /\ link' = [x \in Sessions |-> IF x \in {s} \cap Registered THEN "down" ELSE link[x]]
      /\ active' = active \ ({s} \cap Registered)
  BY DEF RemoveSession, Close
<1>3. RemoteShellTypeOK'
  BY <1>1, <1>2, ShellTypes DEF RemoteShellTypeOK
<1>4. NoneLeft'
  <2>1. Len(registry') <= MaxShells
    BY <1>1, ShellAssumption, ShellTypes DEF NoneLeft
  <2>2. \A x \in Sessions : link'[x] = "up" =>
            x \in Registered' \/ \E u \in threads' : u.id = x /\ u.at = "opened"
    <3> SUFFICES ASSUME NEW x \in Sessions, link'[x] = "up", x \notin Registered'
                 PROVE  \E u \in threads' : u.id = x /\ u.at = "opened"
      OBVIOUS
    <3>1. link[x] = "up" /\ x \notin Registered
      BY <1>1, <1>2
    <3>2. PICK u \in threads : u.id = x /\ u.at = "opened"
      BY <3>1, ShellTypes DEF NoneLeft
    <3>3. u.what = "connect"
      BY <3>2, ShellTypes DEF ConnectsApart
    <3> QED  BY <3>2, <3>3
  <2>3. \A x \in Registered' : link'[x] = "up"
    BY <1>1, <1>2, ShellTypes DEF NoneLeft
  <2> QED  BY <1>1, <2>1, <2>2, <2>3 DEF NoneLeft
<1>5. ConnectsApart'
  <2>1. \A u \in threads' :
        /\ u.what = "connect" => u.id \in Sessions \ (fresh' \cup Registered')
        /\ u.what = "connect" => link'[u.id] = IF u.at = "opened" THEN "up" ELSE "none"
        /\ u.at = "opened" => u.what = "connect"
        /\ u.what = "line" => u.command \in Commands
    BY <1>1, <1>2, ShellTypes DEF ConnectsApart
  <2>2. \A u, v \in threads' : u.what = "connect" /\ v.what = "connect" /\ u.id = v.id => u = v
    BY ShellTypes DEF ConnectsApart
  <2>3. \A x \in fresh' : link'[x] = "none"
    BY <1>2, ShellTypes DEF ConnectsApart, NoneLeft, RemoteShellTypeOK
  <2> QED  BY <2>1, <2>2, <2>3 DEF ConnectsApart
<1> QED  BY <1>3, <1>4, <1>5 DEF ShellInv, RemoteShellInv

LEMMA RemovesKeep ==
    ASSUME ShellInv, \/ \E t \in threads : Disconnect(t)
                     \/ \E s \in Sessions : RemoveIdle(s)
    PROVE  ShellInv'
<1>1. ASSUME NEW t \in threads, Disconnect(t) PROVE ShellInv'
  <2>1. /\ RemoveSession(t.id) /\ threads' = threads \ {t} /\ t.what = "disconnect"
        /\ victims' = victims /\ victims \subseteq Sessions
        /\ UNCHANGED <<shell, fresh, unsaid, hungUp, idle, joined, typed, ran>>
    BY <1>1, ShellTypes DEF Disconnect, HandlerEnds, dashboard, RemoteShellTypeOK
  <2>2. threads' \subseteq threads /\ \A u \in threads \ threads' : u.what # "connect"
    BY <2>1
  <2> QED  BY <2>1, <2>2, RemoveKeeps
<1>2. ASSUME NEW s \in Sessions, RemoveIdle(s) PROVE ShellInv'
  <2>1. /\ RemoveSession(s) /\ threads' = threads /\ victims' \subseteq Sessions
        /\ UNCHANGED <<shell, fresh, unsaid, hungUp, idle, joined, typed, ran>>
    BY <1>2, ShellTypes DEF RemoveIdle, dashboard, RemoteShellTypeOK
  <2> QED  BY <2>1, RemoveKeeps
<1> QED  BY <1>1, <1>2

\* A line finds its session and goes into it.
LEMMA LinesKeep ==
    ASSUME ShellInv, NEW t \in threads, Find(t) \/ Send(t)
    PROVE  ShellInv'
<1>1. /\ t.what = "line" /\ t \in Thread /\ t.command \in Commands /\ t.at # "opened"
      /\ UNCHANGED <<shell, fresh, unsaid, link, active, hungUp, registry, victims, joined, ran>>
  BY ShellTypes DEF Find, Send, dashboard, session, ConnectsApart
<1>2. /\ threads' \subseteq Thread
      /\ \A u \in threads' \ threads : u.what # "connect" /\ u.at # "opened"
                                       /\ (u.what = "line" => u.command \in Commands)
      /\ \A u \in threads \ threads' : u.what # "connect" /\ u.at # "opened"
  <2> DEFINE n == [t EXCEPT !.at = "found"]
  <2>1. n \in Thread /\ n.what = "line" /\ n.command \in Commands /\ n.at = "found"
    BY <1>1 DEF Thread
  <2>2. threads' \subseteq (threads \ {t}) \cup {n} /\ threads \ {t} \subseteq threads'
    BY DEF Find, Send, Goes, HandlerEnds
  <2> HIDE DEF n
  <2> QED  BY <1>1, <2>1, <2>2, ShellTypes
<1>3. idle' \subseteq Sessions /\ typed' \in [Sessions -> Seq(Commands)]
  <2>1. idle \subseteq Sessions /\ typed \in [Sessions -> Seq(Commands)] /\ active \subseteq Sessions
    BY ShellTypes DEF RemoteShellTypeOK
  <2>2. CASE Find(t)
    BY <2>1, <2>2 DEF Find, session
  <2>3. CASE Send(t) /\ t.id \in active
    <3>1. Append(typed[t.id], t.command) \in Seq(Commands)
      BY <1>1, <2>1, <2>3
    <3> QED  BY <2>1, <2>3, <3>1 DEF Send
  <2>4. CASE Send(t) /\ t.id \notin active
    BY <2>1, <2>4 DEF Send
  <2> QED  BY <2>2, <2>3, <2>4
<1>4. RemoteShellTypeOK'
  BY <1>1, <1>2, <1>3, ShellTypes DEF RemoteShellTypeOK
<1> QED  BY <1>1, <1>2, <1>4, ThreadsKeep DEF ShellInv, RemoteShellInv

LEMMA ShellInit ==
    ASSUME RemoteShellInit
    PROVE  ShellInv
<1>1. registry = <<>> /\ Registered = {} /\ threads = {} /\ link = [s \in Sessions |-> "none"]
  BY DEF RemoteShellInit, Registered, ToSet
<1>2. RemoteShellTypeOK
  <2>1. <<>> \in Seq(Commands) /\ <<>> \in Seq(Sessions)
    OBVIOUS
  <2>2. typed \in [Sessions -> Seq(Commands)] /\ registry \in Seq(Sessions)
    BY <2>1 DEF RemoteShellInit
  <2> QED  BY <2>2 DEF RemoteShellInit, RemoteShellTypeOK
<1>3. NoneLeft /\ ConnectsApart
  <2>1. Len(registry) = 0 /\ IsInjective(registry)
    BY <1>1 DEF IsInjective
  <2> QED  BY <1>1, <2>1, ShellAssumption DEF NoneLeft, ConnectsApart, RemoteShellInit
<1> QED  BY <1>2, <1>3 DEF ShellInv, RemoteShellInv

LEMMA ShellNext ==
    ASSUME ShellInv, [RemoteShellNext]_terminal
    PROVE  ShellInv'
<1>1. CASE UNCHANGED terminal
  <2>1. RemoteShellTypeOK'
    BY <1>1, ShellTypes DEF terminal, dashboard, session, RemoteShellTypeOK
  <2>2. UNCHANGED <<link, registry, fresh>> /\ threads' = threads
    BY <1>1 DEF terminal, dashboard, session
  <2> QED  BY <2>1, <2>2, ShellTypes, ThreadsKeep DEF ShellInv, RemoteShellInv, RemoteShellTypeOK
<1>2. ASSUME NEW s \in Sessions, \/ Connect(s) \/ AskDisconnect(s) \/ Relay(s) \/ HangUp(s)
                                 \/ RelayEnds(s) \/ GoesQuiet(s) \/ RemoveIdle(s)
      PROVE  ShellInv'
  BY <1>2, ConnectKeeps, AsideKeep, RemovesKeep
<1>3. ASSUME NEW t \in threads, Handler(t) PROVE ShellInv'
  BY <1>3, OpenKeeps, AddKeeps, RemovesKeep, LinesKeep DEF Handler
<1>4. CASE (\E c \in Commands : Type(c)) \/ Leave \/ JoinRoom \/ FindIdle
  BY <1>4, AsideKeep
<1> QED  BY <1>1, <1>2, <1>3, <1>4 DEF RemoteShellNext

-----------------------------------------------------------------------------
(* People and settings (Administration).                                   *)

Content == UNION {[Columns[k] -> Value] : k \in DOMAIN Columns}

\* Each row has the columns of its kind, and a preference that nobody has
\* made yet is as it is taken to be.
RowsFit ==
    /\ row \in [Rows -> Content \cup {NoRow}] /\ decided \in [Rows -> Content]
    /\ \A r \in Rows : /\ decided[r] \in [Columns[r[1]] -> Value]
                       /\ row[r] = NoRow => decided[r] = Fresh(r[1])

\* A handler has read and asks for the columns of its row, and if it is not
\* late what it has read is there.
CallFits(q) ==
    /\ q \in Handling /\ DOMAIN q.ask \subseteq Columns[q.row[1]] /\ q.ask \in [DOMAIN q.ask -> Value]
    /\ q.read \in [Columns[q.row[1]] -> Value] \/ (q.read = NoRow /\ q.row[1] = "pref")
    /\ q.at # "read" => q.row = Org
    /\ q.at = "read" /\ ~q.late => q.read = row[q.row]
    /\ q.read # NoRow => row[q.row] # NoRow

CallsFit == IsFiniteSet(calls) /\ \A q \in calls : CallFits(q)

\* A handler that has committed settings and not told the trail of them.
SeesToIt(q) ==
    q.row = Org /\ (q.at = "committed" \/ (q.at = "refreshed" /\ q.read = row[Org]))

\* The trail shows the settings, or a handler at work is to see to it.
TrailComes ==
    row[Org] # Fresh("org") /\ ~unlogged =>
        \/ \E e \in trail : e.event = "ORG_SETTINGS_UPDATED" /\ e.after = row[Org]
        \/ \E q \in calls : SeesToIt(q)

AdminInv == AdministrationInv /\ RowsFit /\ CallsFit /\ TrailComes

-----------------------------------------------------------------------------
Kinds == {"person", "org", "pref"}

LEMMA RowFacts ==
    /\ Org \in Rows /\ Org[1] = "org"
    /\ \A u \in Staff : Person(u) \in Rows /\ Person(u)[1] = "person" /\ Person(u) # Org
    /\ \A u \in Staff : Pref(u) \in Rows /\ Pref(u)[1] = "pref" /\ Pref(u) # Org
    /\ \A r \in Rows : r[1] \in Kinds /\ (r[1] = "org" => r = Org)
BY DEF Rows, Org, Person, Pref, Kinds

LEMMA ColumnFacts ==
    /\ DOMAIN Columns = Kinds
    /\ \A k \in Kinds : [Columns[k] -> Value] \subseteq Content /\ Fresh(k) \in [Columns[k] -> Value]
    /\ NoRow \notin Content
    /\ \A k \in Kinds, l \in Kinds : \A c \in [Columns[k] -> Value] : c # NoRow
<1>1. DOMAIN Columns = Kinds
  BY DEF Columns, Kinds
<1>2. 0 \in Value
  BY DEF Value
<1> QED  BY <1>1, <1>2, AdministrationBounds DEF Content, Fresh

LEMMA AskFacts ==
    ASSUME NEW k, NEW a \in Asks(k)
    PROVE  DOMAIN a \subseteq Columns[k] /\ a \in [DOMAIN a -> Value]
BY DEF Asks, kSubset

LEMMA MergedFacts ==
    ASSUME NEW k, NEW f, NEW g, DOMAIN f \subseteq Columns[k], f \in [DOMAIN f -> Value],
           g \in [Columns[k] -> Value]
    PROVE  /\ Merged(f, g) \in [Columns[k] -> Value]
           /\ \A c \in DOMAIN f : Merged(f, g)[c] = f[c]
           /\ \A c \in Columns[k] \ DOMAIN f : Merged(f, g)[c] = g[c]
<1>1. DOMAIN f \cup DOMAIN g = Columns[k]
  OBVIOUS
<1> QED  BY <1>1 DEF Merged

\* The handlers that are left when one of them has committed.
LEMMA OthersFacts ==
    ASSUME AdminInv, NEW q, NEW r
    PROVE  /\ Others(q, r) \subseteq Handling /\ IsFiniteSet(Others(q, r))
           /\ Cardinality(Others(q, r)) <= Cardinality(calls \ {q})
           /\ \A p \in Others(q, r) : \E o \in calls \ {q} :
                  /\ p.by = o.by /\ p.row = o.row /\ p.ask = o.ask /\ p.read = o.read /\ p.at = o.at
                  /\ ~p.late => ~o.late /\ ~(o.row = r /\ o.at = "read")
           /\ \A o \in calls \ {q} : o.at # "read" => o \in Others(q, r)
<1> DEFINE late(p) == p.late \/ (p.row = r /\ p.at = "read")
           of(p)   == [p EXCEPT !.late = @ \/ (p.row = r /\ p.at = "read")]
           C       == calls \ {q}
<1>1. C \subseteq Handling /\ IsFiniteSet(calls)
  BY DEF AdminInv, AdministrationInv, AdministrationTypeOK, CallsFit
<1>2. \A p \in C : /\ of(p) \in Handling /\ of(p).by = p.by /\ of(p).row = p.row /\ of(p).ask = p.ask
                   /\ of(p).read = p.read /\ of(p).at = p.at /\ (of(p).late <=> late(p))
  BY <1>1 DEF Handling
<1>3. \A p \in C : p.at # "read" => of(p) = p
  BY <1>1 DEF Handling
<1> DEFINE S == {of(p) : p \in C}
           f == [p \in C |-> of(p)]
<1>4. Others(q, r) = S
  BY DEF Others
<1> HIDE DEF of
<1>5. f \in Surjection(C, S) /\ \A x \in S : \E p \in C : x = of(p)
  BY DEF Surjection
<1>6. \A p \in C : of(p) \in S
  OBVIOUS
<1>7. IsFiniteSet(C)
  BY <1>1, FS_RemoveElement
<1> HIDE DEF f, S, C
<1>8. IsFiniteSet(S) /\ Cardinality(S) <= Cardinality(C)
  BY <1>5, <1>7, FS_Surjection
<1> USE DEF C
<1> QED  BY <1>2, <1>3, <1>4, <1>5, <1>6, <1>8 DEF late

\* What the figures of a step that leaves the rows alone have to show.
Around ==
    /\ holds \in [Staff -> (SUBSET Role) \ {{}}]
    /\ tokens \subseteq [who : Staff, may : SUBSET {"users:write", "settings:write"}]
    /\ \A e \in trail : e.by \in Staff
    /\ logins \subseteq Staff /\ pending \subseteq Staff
    /\ unlogged \in BOOLEAN /\ asked \in 0 .. MaxAsked /\ failures \in 0 .. MaxFailures
    /\ LoggedIn

CallsBound ==
    /\ IsFiniteSet(calls) /\ Cardinality(calls) <= MaxCalls /\ \A q \in calls : CallFits(q)

LEMMA RowsAsideKeep ==
    ASSUME AdminInv, UNCHANGED <<row, decided, contested>>, Around', CallsBound', TrailComes'
    PROVE  AdminInv'
<1>1. CallsFit' /\ RowsFit'
  BY DEF AdminInv, CallsBound, CallsFit, RowsFit
<1>2. AnsweredStands'
  BY DEF AdminInv, AdministrationInv, AnsweredStands
<1>3. AdministrationTypeOK'
  BY DEF AdminInv, AdministrationInv, AdministrationTypeOK, Around, CallsBound, CallFits
<1> QED  BY <1>1, <1>2, <1>3 DEF AdminInv, AdministrationInv, Around

LEMMA AroundHolds ==
    ASSUME AdminInv
    PROVE  Around /\ CallsBound
BY DEF AdminInv, AdministrationInv, AdministrationTypeOK, CallsFit, Around, CallsBound

\* A commit that leaves the columns it was not asked for, or makes a row.
Puts(q, ask, new) ==
    LET r == q.row IN
    /\ r \in Rows /\ new \in [Columns[r[1]] -> Value]
    /\ DOMAIN ask \subseteq Columns[r[1]] /\ ask \in [DOMAIN ask -> Value]
    /\ q.late \/ (\A c \in Columns[r[1]] :
                     new[c] = IF c \in DOMAIN ask THEN ask[c]
                              ELSE IF row[r] = NoRow THEN 0 ELSE row[r][c])

LEMMA WritesKeep ==
    ASSUME AdminInv, NEW q, NEW ask, NEW new, Puts(q, ask, new), Writes(q, ask, new)
    PROVE  /\ RowsFit' /\ AnsweredStands' /\ row'[q.row] = new
           /\ contested' \subseteq Rows \X UNION {Columns[k] : k \in DOMAIN Columns}
           /\ \A r \in Rows \ {q.row} : row'[r] = row[r]
           /\ \A r \in Rows : \/ row'[r] \in [Columns[r[1]] -> Value]
                              \/ row'[r] = NoRow /\ r[1] = "pref"
<1> DEFINE r == q.row
           K == Columns[r[1]]
<1>1. /\ r \in Rows /\ new \in [K -> Value] /\ DOMAIN ask \subseteq K /\ ask \in [DOMAIN ask -> Value]
      /\ r[1] \in Kinds
  BY RowFacts DEF Puts
<1>2. /\ row \in [Rows -> Content \cup {NoRow}] /\ decided \in [Rows -> Content]
      /\ \A s \in Rows : /\ decided[s] \in [Columns[s[1]] -> Value]
                         /\ row[s] = NoRow => decided[s] = Fresh(s[1])
      /\ \A s \in Rows : \/ row[s] \in [Columns[s[1]] -> Value]
                         \/ row[s] = NoRow /\ s[1] = "pref"
  BY DEF AdminInv, RowsFit, AdministrationInv, AdministrationTypeOK
<1>3. /\ row' = [row EXCEPT ![r] = new] /\ decided' = [decided EXCEPT ![r] = Merged(ask, decided[r])]
      /\ contested' = IF q.late THEN contested \cup {<<r, c>> : c \in DOMAIN new}
                      ELSE contested \ {<<r, c>> : c \in DOMAIN ask}
  BY DEF Writes
<1>4. /\ Merged(ask, decided[r]) \in [K -> Value]
      /\ \A c \in DOMAIN ask : Merged(ask, decided[r])[c] = ask[c]
      /\ \A c \in K \ DOMAIN ask : Merged(ask, decided[r])[c] = decided[r][c]
  <2>1. decided[r] \in [Columns[r[1]] -> Value]
    BY <1>1, <1>2
  <2> DEFINE k == r[1]
             g == decided[r]
  <2>2. DOMAIN ask \subseteq Columns[k] /\ ask \in [DOMAIN ask -> Value] /\ g \in [Columns[k] -> Value]
    BY <1>1, <2>1
  <2> HIDE DEF k, g
  <2>3. /\ Merged(ask, g) \in [Columns[k] -> Value]
        /\ \A c \in DOMAIN ask : Merged(ask, g)[c] = ask[c]
        /\ \A c \in Columns[k] \ DOMAIN ask : Merged(ask, g)[c] = g[c]
    BY <2>2, MergedFacts
  <2> QED  BY <2>3 DEF k, g
<1>5. new \in Content /\ Merged(ask, decided[r]) \in Content /\ new # NoRow
  BY <1>1, <1>4, ColumnFacts
<1> DEFINE made == Merged(ask, decided[r])
<1> HIDE DEF made
<1>6. /\ row'[r] = new /\ decided'[r] = made
      /\ \A s \in Rows \ {r} : row'[s] = row[s] /\ decided'[s] = decided[s]
  BY <1>1, <1>2, <1>3 DEF made
<1>7. RowsFit'
  <2>1. row' \in [Rows -> Content \cup {NoRow}] /\ decided' \in [Rows -> Content]
    BY <1>2, <1>3, <1>5
  <2> QED  BY <1>2, <1>4, <1>5, <1>6, <2>1 DEF RowsFit, made
<1>8. \A s \in Rows : \/ row'[s] \in [Columns[s[1]] -> Value]
                      \/ row'[s] = NoRow /\ s[1] = "pref"
  BY <1>1, <1>2, <1>6
<1>9. contested' \subseteq Rows \X UNION {Columns[k] : k \in DOMAIN Columns}
  <2>1. contested \subseteq Rows \X UNION {Columns[k] : k \in DOMAIN Columns}
    BY DEF AdminInv, AdministrationInv, AdministrationTypeOK
  <2>2. DOMAIN new = K /\ K \subseteq UNION {Columns[k] : k \in DOMAIN Columns}
    BY <1>1, ColumnFacts
  <2> QED  BY <1>1, <1>3, <2>1, <2>2
<1>10. AnsweredStands'
  <2> SUFFICES ASSUME NEW s \in Rows, row'[s] # NoRow, NEW c \in DOMAIN row'[s]
               PROVE  row'[s][c] = decided'[s][c] \/ <<s, c>> \in contested'
    BY DEF AnsweredStands
  <2>1. CASE s # r
    <3>1. row[s][c] = decided[s][c] \/ <<s, c>> \in contested
      BY <1>6, <2>1 DEF AdminInv, AdministrationInv, AnsweredStands
    <3> QED  BY <1>3, <1>6, <2>1, <3>1
  <2>2. CASE s = r /\ q.late
    BY <1>3, <1>6, <2>2
  <2>3. CASE s = r /\ ~q.late
    <3>1. c \in K /\ DOMAIN new = K
      BY <1>1, <1>6, <2>3
    <3>2. new[c] = IF c \in DOMAIN ask THEN ask[c] ELSE IF row[r] = NoRow THEN 0 ELSE row[r][c]
      BY <2>3, <3>1 DEF Puts
    <3>3. CASE c \in DOMAIN ask
      BY <1>4, <1>6, <2>3, <3>2, <3>3 DEF made
    <3>4. CASE c \notin DOMAIN ask
      <4>1. decided'[r][c] = decided[r][c]
        BY <1>4, <1>6, <3>1, <3>4 DEF made
      <4>2. CASE row[r] = NoRow
        <5>1. decided[r] = Fresh(r[1])
          BY <1>1, <1>2, <4>2
        <5>2. decided[r][c] = 0
          BY <3>1, <5>1 DEF Fresh
        <5> QED  BY <1>6, <2>3, <3>2, <3>4, <4>1, <4>2, <5>2
      <4>3. CASE row[r] # NoRow
        <5>1. row[r][c] = decided[r][c] \/ <<r, c>> \in contested
          <6>1. DOMAIN row[r] = K
            BY <1>1, <1>2, <4>3
          <6> QED  BY <1>1, <3>1, <4>3, <6>1 DEF AdminInv, AdministrationInv, AnsweredStands
        <5>2. <<r, c>> \in contested => <<r, c>> \in contested'
          BY <1>3, <2>3, <3>4
        <5> QED  BY <1>6, <2>3, <3>2, <3>4, <4>1, <4>3, <5>1, <5>2
      <4> QED  BY <4>2, <4>3
    <3> QED  BY <3>3, <3>4
  <2> QED  BY <2>1, <2>2, <2>3
<1> QED  BY <1>6, <1>7, <1>8, <1>9, <1>10

LEMMA LateKeep ==
    ASSUME AdminInv, NEW q, q.row \in Rows, row'[q.row] # NoRow,
           \A r \in Rows \ {q.row} : row'[r] = row[r]
    PROVE  \A p \in Others(q, q.row) : CallFits(p)'
<1> DEFINE r == q.row
<1> SUFFICES ASSUME NEW p \in Others(q, r)
             PROVE  CallFits(p)'
  OBVIOUS
<1> HIDE DEF r
<1>1. PICK o \in calls \ {q} :
          /\ p.by = o.by /\ p.row = o.row /\ p.ask = o.ask /\ p.read = o.read /\ p.at = o.at
          /\ ~p.late => ~o.late /\ ~(o.row = r /\ o.at = "read")
  <2>1. /\ Others(q, r) \subseteq Handling /\ IsFiniteSet(Others(q, r))
        /\ Cardinality(Others(q, r)) <= Cardinality(calls \ {q})
        /\ \A x \in Others(q, r) : \E o \in calls \ {q} :
               /\ x.by = o.by /\ x.row = o.row /\ x.ask = o.ask /\ x.read = o.read /\ x.at = o.at
               /\ ~x.late => ~o.late /\ ~(o.row = r /\ o.at = "read")
        /\ \A o \in calls \ {q} : o.at # "read" => o \in Others(q, r)
    BY OthersFacts, Zenon
  <2> QED  BY <2>1, Zenon
<1>2. p \in Handling
  BY OthersFacts
<1>3. CallFits(o) /\ o.row \in Rows
  BY DEF AdminInv, CallsFit, CallFits, Handling
<1> QED  BY <1>1, <1>2, <1>3 DEF CallFits, r

\* A handler's last step but for the settings: the row is put, and who had
\* read it is late.
LEMMA CommitKeeps ==
    ASSUME AdminInv, NEW q, NEW ask, NEW new, Puts(q, ask, new), Writes(q, ask, new), q.row # Org,
           calls' = Others(q, q.row), UNCHANGED <<trail, unlogged>>, Around'
    PROVE  AdminInv'
<1>1. /\ RowsFit' /\ AnsweredStands' /\ row'[q.row] = new /\ q.row \in Rows /\ new # NoRow
      /\ contested' \subseteq Rows \X UNION {Columns[k] : k \in DOMAIN Columns}
      /\ \A r \in Rows \ {q.row} : row'[r] = row[r]
      /\ \A r \in Rows : \/ row'[r] \in [Columns[r[1]] -> Value]
                         \/ row'[r] = NoRow /\ r[1] = "pref"
  <2>1. q.row \in Rows /\ new # NoRow
    BY RowFacts, ColumnFacts DEF Puts
  <2> QED  BY <2>1, WritesKeep
<1>2. CallsFit'
  BY <1>1, LateKeep, OthersFacts DEF CallsFit
<1>3. Cardinality(calls') <= MaxCalls /\ calls' \subseteq Handling
  <2>1. IsFiniteSet(calls) /\ Cardinality(calls) <= MaxCalls
    BY AroundHolds DEF CallsBound
  <2>2. IsFiniteSet(calls \ {q}) /\ Cardinality(calls \ {q}) <= Cardinality(calls)
    BY <2>1, FS_Subset
  <2>3. /\ Cardinality(calls \ {q}) \in Nat /\ Cardinality(calls) \in Nat
        /\ Cardinality(Others(q, q.row)) \in Nat
        /\ Cardinality(Others(q, q.row)) <= Cardinality(calls \ {q}) /\ Others(q, q.row) \subseteq Handling
    BY <2>1, <2>2, FS_CardinalityType, OthersFacts
  <2> QED  BY <2>1, <2>2, <2>3, AdministrationBounds
<1>4. DOMAIN decided' = Rows
  BY <1>1 DEF RowsFit
<1>5. AdministrationTypeOK'
  BY <1>1, <1>3, <1>4 DEF AdministrationTypeOK, Around
<1>6. TrailComes'
  <2>1. row'[Org] = row[Org]
    BY <1>1, RowFacts
  <2>2. \A o \in calls : o.row = Org /\ o.at # "read" => o \in calls'
    BY OthersFacts
  <2> QED  BY <2>1, <2>2 DEF AdminInv, TrailComes, SeesToIt
<1> QED  BY <1>1, <1>2, <1>5, <1>6 DEF AdminInv, AdministrationInv, Around

LEMMA UpdatesKeep ==
    ASSUME AdminInv, NEW q \in calls, UpdateUserEnds(q) \/ PrefUpdated(q) \/ PrefInserted(q)
    PROVE  AdminInv'
<1>1. /\ q.row \in Rows /\ q.row # Org /\ calls' = Others(q, q.row)
      /\ UNCHANGED <<holds, tokens, logins, pending, trail, unlogged, asked, failures>>
  BY RowFacts DEF UpdateUserEnds, PrefUpdated, PrefInserted, access, bounds, AdminInv, CallsFit,
                  CallFits, Handling
<1>2. Around'
  BY <1>1, AroundHolds DEF Around, LoggedIn
<1>3. CallFits(q) /\ DOMAIN q.ask \subseteq Columns[q.row[1]] /\ q.ask \in [DOMAIN q.ask -> Value]
  BY DEF AdminInv, CallsFit, CallFits
<1>4. \A r \in Rows : \/ row[r] \in [Columns[r[1]] -> Value]
                      \/ row[r] = NoRow /\ r[1] = "pref"
  BY DEF AdminInv, AdministrationInv, AdministrationTypeOK
<1> DEFINE k == q.row[1]
           a == q.ask
<1>5. k \in Kinds /\ Fresh(k) \in [Columns[k] -> Value] /\ \A c \in Columns[k] : Fresh(k)[c] = 0
  BY <1>1, RowFacts, ColumnFacts DEF Fresh
<1>6. CASE UpdateUserEnds(q)
  <2> DEFINE new == Merged(a, q.read)
  <2>1. q.read \in [Columns[k] -> Value]
    BY <1>3, <1>6 DEF UpdateUserEnds, CallFits
  <2>2. /\ new \in [Columns[k] -> Value] /\ \A c \in DOMAIN a : new[c] = a[c]
        /\ \A c \in Columns[k] \ DOMAIN a : new[c] = q.read[c]
    <3> HIDE DEF k, a
    <3> QED  BY <1>3, <2>1, MergedFacts DEF k, a
  <2>3. q.at = "read" /\ row[q.row] # NoRow
    <3>1. k = "person" /\ q.row # Org
      BY <1>1, <1>6 DEF UpdateUserEnds
    <3>2. row[q.row] \in [Columns[k] -> Value]
      BY <1>1, <1>4, <3>1
    <3>3. row[q.row] # NoRow
      BY <1>5, <3>2, ColumnFacts
    <3> QED  BY <1>3, <3>1, <3>3 DEF CallFits, Handling
  <2>4. Writes(q, a, new)
    BY <1>6 DEF UpdateUserEnds
  <2>5. Puts(q, a, new)
    BY <1>1, <1>3, <2>2, <2>3 DEF Puts, CallFits
  <2> QED  BY <1>1, <1>2, <2>4, <2>5, CommitKeeps
<1>7. CASE PrefUpdated(q)
  <2> DEFINE C   == {c \in DOMAIN a : a[c] # q.read[c]}
             f   == [c \in C |-> a[c]]
             new == Merged(f, row[q.row])
  <2>1. q.read # NoRow /\ row[q.row] \in [Columns[k] -> Value]
    BY <1>1, <1>3, <1>4, <1>7 DEF PrefUpdated, CallFits
  <2>2. /\ new \in [Columns[k] -> Value] /\ \A c \in DOMAIN f : new[c] = f[c]
        /\ \A c \in Columns[k] \ DOMAIN f : new[c] = row[q.row][c]
    <3>1. DOMAIN f \subseteq Columns[k] /\ f \in [DOMAIN f -> Value]
      BY <1>3
    <3> DEFINE g == row[q.row]
    <3>2. g \in [Columns[k] -> Value]
      BY <2>1
    <3> HIDE DEF k, f, g
    <3>3. /\ Merged(f, g) \in [Columns[k] -> Value] /\ \A c \in DOMAIN f : Merged(f, g)[c] = f[c]
          /\ \A c \in Columns[k] \ DOMAIN f : Merged(f, g)[c] = g[c]
      BY <3>1, <3>2, MergedFacts
    <3> QED  BY <3>3 DEF g
  <2>3. q.at = "read"
    BY <1>1, <1>3 DEF CallFits, Handling
  <2>4. Writes(q, a, new)
    BY <1>7 DEF PrefUpdated, Altered
  <2>5. ASSUME ~q.late, NEW c \in Columns[k]
        PROVE  new[c] = IF c \in DOMAIN a THEN a[c] ELSE row[q.row][c]
    <3>1. q.read = row[q.row]
      BY <1>3, <2>3, <2>5 DEF CallFits
    <3> QED  BY <2>2, <2>5, <3>1
  <2>6. row[q.row] # NoRow
    BY <1>3, <2>1 DEF CallFits
  <2> HIDE DEF new, f, C
  <2>7. Puts(q, a, new)
    BY <1>1, <1>3, <2>2, <2>5, <2>6 DEF Puts
  <2> QED  BY <1>1, <1>2, <2>4, <2>7, CommitKeeps
<1>8. CASE PrefInserted(q)
  <2> DEFINE new == Merged(a, Fresh("pref"))
  <2>1. k = "pref" /\ row[q.row] = NoRow /\ Writes(q, a, new)
    BY <1>8 DEF PrefInserted
  <2>2. /\ new \in [Columns[k] -> Value] /\ \A c \in DOMAIN a : new[c] = a[c]
        /\ \A c \in Columns[k] \ DOMAIN a : new[c] = Fresh(k)[c]
    <3>1. DOMAIN a \subseteq Columns[k] /\ a \in [DOMAIN a -> Value] /\ new = Merged(a, Fresh(k))
      BY <1>3, <2>1
    <3> HIDE DEF k, a, new
    <3> QED  BY <1>5, <3>1, MergedFacts
  <2> HIDE DEF new
  <2>3. Puts(q, a, new)
    BY <1>1, <1>3, <1>5, <2>1, <2>2 DEF Puts
  <2> QED  BY <1>1, <1>2, <2>1, <2>3, CommitKeeps
<1> QED  BY <1>6, <1>7, <1>8

LEMMA UpdateMeKeeps ==
    ASSUME AdminInv, NEW t \in tokens, NEW v \in Value, UpdateMe(t, v)
    PROVE  AdminInv'
<1> DEFINE q   == [row |-> Person(t.who), late |-> FALSE]
           a   == [display_name |-> v]
           r   == Person(t.who)
           new == Merged(a, row[r])
<1>1. /\ Writes(q, a, new) /\ calls' = Others(q, q.row) /\ asked < MaxAsked /\ asked' = asked + 1
      /\ UNCHANGED <<holds, tokens, logins, pending, trail, unlogged, failures>>
  BY DEF UpdateMe, Asked, access
<1>2. Around'
  BY <1>1, AroundHolds, AdministrationBounds DEF Around, LoggedIn
<1>3. t.who \in Staff /\ r \in Rows /\ r[1] = "person" /\ r # Org
  BY AroundHolds, RowFacts DEF Around
<1>4. "display_name" \in Columns["person"]
  BY DEF Columns
<1>5. row[r] \in [Columns[r[1]] -> Value] /\ row[r] # NoRow
  <2>1. row[r] \in [Columns[r[1]] -> Value]
    BY <1>3 DEF AdminInv, AdministrationInv, AdministrationTypeOK
  <2> QED  BY <1>3, <2>1, RowFacts, ColumnFacts
<1>6. DOMAIN a = {"display_name"} /\ a \in [DOMAIN a -> Value] /\ DOMAIN a \subseteq Columns[r[1]]
  BY <1>3, <1>4
<1>7. /\ new \in [Columns[r[1]] -> Value] /\ \A c \in DOMAIN a : new[c] = a[c]
      /\ \A c \in Columns[r[1]] \ DOMAIN a : new[c] = row[r][c]
  <2> DEFINE k == r[1]
             g == row[r]
  <2>1. DOMAIN a \subseteq Columns[k] /\ a \in [DOMAIN a -> Value] /\ g \in [Columns[k] -> Value]
    BY <1>5, <1>6
  <2> HIDE DEF a, k, g
  <2>2. /\ Merged(a, g) \in [Columns[k] -> Value] /\ \A c \in DOMAIN a : Merged(a, g)[c] = a[c]
        /\ \A c \in Columns[k] \ DOMAIN a : Merged(a, g)[c] = g[c]
    BY <2>1, MergedFacts
  <2> QED  BY <2>2 DEF k, g
<1>8. q.row = r
  OBVIOUS
<1> HIDE DEF a, new, r, q
<1>9. Puts(q, a, new)
  BY <1>3, <1>5, <1>6, <1>7, <1>8 DEF Puts
<1> QED  BY <1>1, <1>2, <1>3, <1>8, <1>9, CommitKeeps

LEMMA TrailStays ==
    ASSUME AdminInv, UNCHANGED <<row, unlogged>>, trail \subseteq trail',
           \A o \in calls : o.row = Org /\ o.at # "read" => o \in calls'
    PROVE  TrailComes'
BY DEF AdminInv, TrailComes, SeesToIt

LEMMA SameCalls ==
    ASSUME AdminInv, UNCHANGED <<row, calls>>
    PROVE  CallsBound'
BY AroundHolds DEF CallsBound, CallFits

\* Signing in and out, and the roles.
LEMMA PeopleKeep ==
    ASSUME AdminInv, NEW u \in Staff,
           \/ Login(u) \/ LoginDenied(u) \/ SignsIn(u) \/ Verify(u) \/ ChallengeRunsOut(u)
           \/ \E t \in tokens : ExpireToken(t) \/ \E r \in Role : UpdateUserRole(t, u, r)
    PROVE  AdminInv'
<1> USE DEF access, recorded, bounds
<1>a. Around
  BY AroundHolds
<1>1. UNCHANGED <<row, calls, decided, contested, unlogged>>
  BY DEF Login, LoginDenied, SignsIn, LoginReturns, LoginChallenges, Verify, ChallengeRunsOut, ExpireToken,
         UpdateUserRole, admin
<1>2. /\ trail \subseteq trail' /\ \A e \in trail' : e.by \in Staff
      /\ logins' \subseteq Staff /\ pending' \subseteq Staff
      /\ asked' \in 0 .. MaxAsked /\ failures' \in 0 .. MaxFailures
      /\ holds' \in [Staff -> (SUBSET Role) \ {{}}]
      /\ tokens' \subseteq [who : Staff, may : SUBSET {"users:write", "settings:write"}]
      /\ \A t \in tokens' : Event("USER_LOGIN_SUCCESS", t.who, NoRow) \in trail'
  <2>i. ASSUME Issue(u)
        PROVE  /\ trail \subseteq trail' /\ \A e \in trail' : e.by \in Staff
               /\ failures' = failures
               /\ tokens' \subseteq [who : Staff, may : SUBSET {"users:write", "settings:write"}]
               /\ \A t \in tokens' : Event("USER_LOGIN_SUCCESS", t.who, NoRow) \in trail'
    <3>1. May(u) \subseteq {"users:write", "settings:write"}
      BY <1>a DEF May, Permissions, Around, Role
    <3> QED  BY <1>a, <2>i, <3>1 DEF Issue, TokenOf, Event, Around, LoggedIn
  <2>f. ASSUME IssueFails
        PROVE  UNCHANGED <<tokens, trail>> /\ failures' \in 0 .. MaxFailures
    BY <1>a, <2>f, AdministrationBounds DEF IssueFails, Around
  <2>1. CASE Login(u) \/ LoginDenied(u) \/ LoginChallenges(u) \/ ChallengeRunsOut(u)
    BY <1>a, <2>1 DEF Login, LoginDenied, LoginChallenges, ChallengeRunsOut, Around, LoggedIn, admin
  <2>2. CASE LoginReturns(u) \/ Verify(u)
    <3>1. /\ logins' \subseteq Staff /\ pending' \subseteq Staff /\ asked' = asked /\ holds' = holds
          /\ Issue(u) \/ IssueFails
      BY <1>a, <2>2 DEF LoginReturns, Verify, Around
    <3> QED  BY <1>a, <2>i, <2>f, <3>1 DEF Around, LoggedIn
  <2>3. CASE \E t \in tokens : ExpireToken(t)
    BY <1>a, <2>3 DEF ExpireToken, Around, LoggedIn
  <2>4. CASE \E t \in tokens : \E r \in Role : UpdateUserRole(t, u, r)
    <3>1. PICK t \in tokens, r \in Role : UpdateUserRole(t, u, r)
      BY <2>4
    <3>2. holds' \in [Staff -> (SUBSET Role) \ {{}}]
      BY <1>a, <3>1 DEF UpdateUserRole, Assigned, Around
    <3>3. asked' \in 0 .. MaxAsked /\ UNCHANGED <<tokens, trail, logins, pending, failures>>
      BY <1>a, <3>1, AdministrationBounds DEF UpdateUserRole, Assigned, Around, Asked
    <3> QED  BY <1>a, <3>2, <3>3 DEF Around, LoggedIn
  <2> QED  BY <2>1, <2>2, <2>3, <2>4 DEF SignsIn
<1>3. Around'
  BY <1>1, <1>2, <1>a DEF Around, LoggedIn
<1>4. TrailComes' /\ CallsBound'
  BY <1>1, <1>2, TrailStays, SameCalls
<1> QED  BY <1>1, <1>3, <1>4, RowsAsideKeep

LEMMA OneMore ==
    ASSUME NEW S, NEW x, IsFiniteSet(S)
    PROVE  /\ IsFiniteSet(S \cup {x}) /\ Cardinality(S) \in Nat /\ Cardinality(S \cup {x}) \in Nat
           /\ Cardinality(S \cup {x}) <= Cardinality(S) + 1
<1> DEFINE n == Cardinality(S)
           m == Cardinality(S \cup {x})
<1>1. IsFiniteSet(S \cup {x}) /\ n \in Nat
  BY FS_AddElement, FS_CardinalityType
<1>2. m \in Nat
  BY <1>1, FS_CardinalityType
<1>3. m = n \/ m = n + 1
  BY FS_AddElement
<1> HIDE DEF n, m
<1>4. m <= n + 1
  BY <1>1, <1>2, <1>3
<1> QED  BY <1>1, <1>2, <1>4 DEF n, m

\* A handler begins with its checks and its read.
LEMMA ReadsKeep ==
    ASSUME AdminInv, NEW by \in Staff, NEW r \in Rows, NEW a \in Asks(r[1]), ReadsRow(by, r, a)
    PROVE  AdminInv'
<1> DEFINE new == [by |-> by, row |-> r, ask |-> a, read |-> row[r], at |-> "read", late |-> FALSE]
<1>1. /\ asked < MaxAsked /\ asked' = asked + 1 /\ Cardinality(calls) < MaxCalls
      /\ calls' = calls \cup {new}
      /\ UNCHANGED <<row, holds, tokens, logins, pending, trail, decided, contested, unlogged,
                     failures>>
  BY DEF ReadsRow, Asked, access, recorded
<1>2. Around'
  BY <1>1, AroundHolds, AdministrationBounds DEF Around, LoggedIn
<1>3. CallFits(new)
  <2>1. r[1] \in Kinds /\ DOMAIN a \subseteq Columns[r[1]] /\ a \in [DOMAIN a -> Value]
    BY RowFacts, AskFacts
  <2>2. row[r] \in [Columns[r[1]] -> Value] \/ (row[r] = NoRow /\ r[1] = "pref")
    BY DEF AdminInv, AdministrationInv, AdministrationTypeOK
  <2>3. a \in UNION {Asks(k) : k \in DOMAIN Columns}
    BY <2>1, ColumnFacts
  <2>4. row[r] \in {NoRow} \cup UNION {[Columns[k] -> Value] : k \in DOMAIN Columns}
    BY <2>1, <2>2, ColumnFacts
  <2>5. new \in Handling
    BY <2>3, <2>4 DEF Handling
  <2> QED  BY <2>1, <2>2, <2>5 DEF CallFits
<1> HIDE DEF new
<1>4. CallsBound'
  <2>1. IsFiniteSet(calls) /\ Cardinality(calls) \in Nat
    BY AroundHolds, FS_CardinalityType DEF CallsBound
  <2>2. IsFiniteSet(calls') /\ Cardinality(calls') <= Cardinality(calls) + 1
        /\ Cardinality(calls') \in Nat
    BY <1>1, <2>1, OneMore
  <2>3. Cardinality(calls') <= MaxCalls
    BY <1>1, <2>1, <2>2, AdministrationBounds
  <2>4. \A o \in calls' : CallFits(o)'
    BY <1>1, <1>3, AroundHolds DEF CallsBound, CallFits
  <2> QED  BY <2>2, <2>3, <2>4 DEF CallsBound
<1>5. TrailComes'
  BY <1>1, TrailStays
<1> QED  BY <1>1, <1>2, <1>4, <1>5, RowsAsideKeep

LEMMA AskingKeeps ==
    ASSUME AdminInv, NEW t \in tokens,
           \/ \E u \in Staff, a \in Asks("person") : UpdateUserReads(t, u, a)
           \/ \E a \in Asks("org") : SettingsReads(t, a)
           \/ \E a \in Asks("pref") : PrefReads(t, a)
    PROVE  AdminInv'
<1>1. t.who \in Staff
  BY AroundHolds DEF Around
<1>2. ASSUME NEW u \in Staff, NEW a \in Asks("person"), UpdateUserReads(t, u, a) PROVE AdminInv'
  <2>1. Person(u) \in Rows /\ Person(u)[1] = "person" /\ ReadsRow(t.who, Person(u), a)
    BY <1>2, RowFacts DEF UpdateUserReads
  <2> QED  BY <1>1, <2>1, ReadsKeep
<1>3. ASSUME NEW a \in Asks("org"), SettingsReads(t, a) PROVE AdminInv'
  <2>1. Org \in Rows /\ Org[1] = "org" /\ ReadsRow(t.who, Org, a)
    BY <1>3, RowFacts DEF SettingsReads
  <2> QED  BY <1>1, <2>1, ReadsKeep
<1>4. ASSUME NEW a \in Asks("pref"), PrefReads(t, a) PROVE AdminInv'
  <2>1. Pref(t.who) \in Rows /\ Pref(t.who)[1] = "pref" /\ ReadsRow(t.who, Pref(t.who), a)
    BY <1>1, <1>4, RowFacts DEF PrefReads
  <2> QED  BY <1>1, <2>1, ReadsKeep
<1> QED  BY <1>2, <1>3, <1>4

\* A handler ends, or goes on, with the rows as they are.
LEMMA FewerCalls ==
    ASSUME AdminInv, NEW q \in calls, NEW new, UNCHANGED row,
           calls' = calls \ {q} \/ (calls' = (calls \ {q}) \cup {new} /\ CallFits(new)')
    PROVE  CallsBound'
<1>1. IsFiniteSet(calls) /\ Cardinality(calls) <= MaxCalls
  BY AroundHolds DEF CallsBound
<1>2. /\ IsFiniteSet(calls \ {q}) /\ Cardinality(calls \ {q}) = Cardinality(calls) - 1
      /\ Cardinality(calls) \in Nat /\ Cardinality(calls \ {q}) \in Nat
  BY <1>1, FS_RemoveElement, FS_CardinalityType
<1> DEFINE C == calls \ {q}
<1> HIDE DEF C
<1>3. /\ IsFiniteSet(C \cup {new}) /\ Cardinality(C \cup {new}) <= Cardinality(C) + 1
      /\ Cardinality(C \cup {new}) \in Nat
  BY <1>2, OneMore DEF C
<1>4. IsFiniteSet(calls') /\ Cardinality(calls') <= MaxCalls
  BY <1>1, <1>2, <1>3, AdministrationBounds DEF C
<1>5. \A o \in calls' : CallFits(o)'
  BY AroundHolds DEF CallsBound, CallFits
<1> QED  BY <1>4, <1>5 DEF CallsBound

LEMMA SettingsKeep ==
    ASSUME AdminInv, NEW q \in calls, SettingsRefreshed(q) \/ SettingsLogged(q)
    PROVE  AdminInv'
<1> USE DEF access, recorded, bounds
<1>1. /\ q \in Handling /\ q.row = Org /\ CallFits(q) /\ row[Org] \in [Columns["org"] -> Value]
  <2>1. q \in Handling /\ q.row = Org /\ CallFits(q)
    BY DEF SettingsRefreshed, SettingsLogged, AdminInv, CallsFit, CallFits
  <2>2. row[Org] \in [Columns["org"] -> Value]
    BY RowFacts DEF AdminInv, AdministrationInv, AdministrationTypeOK
  <2> QED  BY <2>1, <2>2
<1>2. UNCHANGED <<row, decided, contested, holds, tokens, logins, pending, unlogged, asked, failures>>
  BY DEF SettingsRefreshed, SettingsLogged
<1>3. CASE SettingsRefreshed(q)
  <2>1. PICK new \in Handling : /\ calls' = (calls \ {q}) \cup {new} /\ trail' = trail
                            /\ new.row = Org /\ new.ask = q.ask /\ new.at = "refreshed"
                            /\ new.read = row[Org]
    <3> DEFINE new == [q EXCEPT !.at = "refreshed", !.read = row[Org]]
    <3>1. row[Org] \in {NoRow} \cup UNION {[Columns[k] -> Value] : k \in DOMAIN Columns}
      BY <1>1, ColumnFacts DEF Kinds
    <3>2. new \in Handling /\ new.row = Org /\ new.ask = q.ask /\ new.at = "refreshed" /\ new.read = row[Org]
      BY <1>1, <3>1 DEF Handling
    <3> QED  BY <1>3, <3>2 DEF SettingsRefreshed
  <2>3. CallFits(new)'
    <3>1. Org[1] = "org" /\ row[Org] # NoRow
      BY <1>1, RowFacts, ColumnFacts DEF Kinds
    <3> QED  BY <1>1, <1>2, <2>1, <3>1 DEF CallFits
  <2>4. TrailComes'
    BY <1>2, <2>1 DEF TrailComes, SeesToIt
  <2>5. CallsBound'
    BY <1>2, <2>1, <2>3, FewerCalls
  <2>6. Around'
    BY <1>2, <2>1, AroundHolds DEF Around, LoggedIn
  <2> QED  BY <1>2, <2>4, <2>5, <2>6, RowsAsideKeep
<1>4. CASE SettingsLogged(q)
  <2>1. /\ calls' = calls \ {q} /\ trail' = trail \cup {Event("ORG_SETTINGS_UPDATED", q.by, q.read)}
        /\ q.at = "refreshed" /\ q.by \in Staff
    BY <1>1, <1>4 DEF SettingsLogged, Handling
  <2>2. TrailComes'
    <3> SUFFICES ASSUME row[Org] # Fresh("org"), ~unlogged
                 PROVE  \/ \E e \in trail' : e.event = "ORG_SETTINGS_UPDATED" /\ e.after = row[Org]
                        \/ \E o \in calls' : SeesToIt(o)
      BY <1>2 DEF TrailComes, SeesToIt
    <3>1. CASE \E e \in trail : e.event = "ORG_SETTINGS_UPDATED" /\ e.after = row[Org]
      BY <2>1, <3>1
    <3>2. CASE q.read = row[Org]
      <4> DEFINE e == Event("ORG_SETTINGS_UPDATED", q.by, q.read)
      <4>1. e \in trail' /\ e.event = "ORG_SETTINGS_UPDATED" /\ e.after = row[Org]
        BY <2>1, <3>2 DEF Event
      <4> QED  BY <4>1
    <3>3. CASE q.read # row[Org] /\ \E o \in calls : SeesToIt(o)
      BY <2>1, <3>3 DEF SeesToIt
    <3> QED  BY <1>2, <3>1, <3>2, <3>3 DEF AdminInv, TrailComes
  <2>3. CallsBound'
    BY <1>2, <2>1, FewerCalls
  <2>4. Around'
    BY <1>2, <2>1, AroundHolds DEF Around, LoggedIn, Event
  <2> QED  BY <1>2, <2>2, <2>3, <2>4, RowsAsideKeep
<1> QED  BY <1>3, <1>4

LEMMA FailuresKeep ==
    ASSUME AdminInv, Restart \/ \E q \in calls : StatementFails(q) \/ PrefConflict(q)
    PROVE  AdminInv'
<1> USE DEF access, recorded, bounds
<1>1. CASE Restart
  <2>1. /\ failures < MaxFailures /\ failures' = failures + 1 /\ calls' = {} /\ logins' = {}
        /\ holds' = Seeded(holds) /\ UNCHANGED <<row, tokens, pending, trail, decided, contested, asked>>
        /\ unlogged' = (unlogged \/ \E q \in calls : q.at # "read")
    BY <1>1 DEF Restart
  <2>2. holds' \in [Staff -> (SUBSET Role) \ {{}}]
    BY <2>1, AroundHolds, AdministrationBounds DEF Around, Seeded
  <2>3. Around'
    BY <2>1, <2>2, AroundHolds, AdministrationBounds DEF Around, LoggedIn
  <2>4. CallsBound'
    BY <2>1, FS_EmptySet, AdministrationBounds DEF CallsBound
  <2>5. TrailComes'
    BY <2>1 DEF AdminInv, TrailComes, SeesToIt
  <2> QED  BY <2>1, <2>3, <2>4, <2>5, RowsAsideKeep
<1>2. ASSUME NEW q \in calls, StatementFails(q) PROVE AdminInv'
  <2>1. /\ failures < MaxFailures /\ failures' = failures + 1 /\ calls' = calls \ {q}
        /\ UNCHANGED <<row, holds, tokens, logins, pending, trail, decided, contested, asked>>
        /\ unlogged' = (unlogged \/ q.at # "read")
    BY <1>2 DEF StatementFails
  <2>2. Around'
    BY <2>1, AroundHolds, AdministrationBounds DEF Around, LoggedIn
  <2>3. CallsBound'
    BY <2>1, FewerCalls
  <2>4. TrailComes'
    BY <2>1 DEF AdminInv, TrailComes, SeesToIt
  <2> QED  BY <2>1, <2>2, <2>3, <2>4, RowsAsideKeep
<1>3. ASSUME NEW q \in calls, PrefConflict(q) PROVE AdminInv'
  <2>1. /\ calls' = calls \ {q} /\ q.row[1] = "pref"
        /\ UNCHANGED <<row, holds, tokens, logins, pending, trail, decided, contested, asked, unlogged,
                       failures>>
    BY <1>3 DEF PrefConflict
  <2>2. Around'
    BY <2>1, AroundHolds DEF Around, LoggedIn
  <2>3. CallsBound'
    BY <2>1, FewerCalls
  <2>4. TrailComes'
    BY <2>1, RowFacts DEF AdminInv, TrailComes, SeesToIt
  <2> QED  BY <2>1, <2>2, <2>3, <2>4, RowsAsideKeep
<1> QED  BY <1>1, <1>2, <1>3

\* Settings are committed: who had read them is late, and this handler is to
\* tell the trail.
LEMMA SettingsCommitKeeps ==
    ASSUME AdminInv, NEW q \in calls, SettingsCommits(q)
    PROVE  AdminInv'
<1> USE DEF access, recorded, bounds
<1> DEFINE a   == q.ask
           C   == {c \in DOMAIN a : a[c] # q.read[c]}
           f   == [c \in C |-> a[c]]
           new == Merged(f, row[Org])
           O   == Others(q, Org)
<1>1. /\ q.row = Org /\ q.at = "read" /\ Writes(q, a, new)
      /\ calls' = O \cup {[q EXCEPT !.at = "committed", !.late = FALSE]}
      /\ UNCHANGED <<holds, tokens, logins, pending, trail, unlogged, asked, failures>>
  BY DEF SettingsCommits, Altered
<1>2. /\ q \in Handling /\ CallFits(q) /\ Org[1] = "org" /\ Org \in Rows /\ "org" \in Kinds
      /\ DOMAIN a \subseteq Columns["org"] /\ a \in [DOMAIN a -> Value]
      /\ q.read \in [Columns["org"] -> Value]
  <2>1. CallFits(q) /\ Org[1] = "org" /\ Org \in Rows
    BY RowFacts DEF AdminInv, CallsFit
  <2> QED  BY <1>1, <2>1 DEF CallFits, Kinds
<1>3. row[Org] \in [Columns["org"] -> Value]
  BY <1>2 DEF AdminInv, AdministrationInv, AdministrationTypeOK
<1>4. /\ new \in [Columns["org"] -> Value] /\ \A c \in DOMAIN f : new[c] = f[c]
      /\ \A c \in Columns["org"] \ DOMAIN f : new[c] = row[Org][c]
  <2>1. DOMAIN f \subseteq Columns["org"] /\ f \in [DOMAIN f -> Value]
    BY <1>2
  <2> DEFINE g == row[Org]
             k == "org"
  <2>2. g \in [Columns[k] -> Value] /\ DOMAIN f \subseteq Columns[k]
    BY <1>3, <2>1
  <2> HIDE DEF k, f, g
  <2>3. /\ Merged(f, g) \in [Columns[k] -> Value] /\ \A c \in DOMAIN f : Merged(f, g)[c] = f[c]
        /\ \A c \in Columns[k] \ DOMAIN f : Merged(f, g)[c] = g[c]
    BY <2>1, <2>2, MergedFacts
  <2> QED  BY <2>3 DEF g, k
<1>5. ASSUME ~q.late, NEW c \in Columns["org"]
      PROVE  new[c] = IF c \in DOMAIN a THEN a[c] ELSE row[Org][c]
  <2>1. q.read = row[Org]
    BY <1>1, <1>2, <1>5 DEF CallFits
  <2> QED  BY <1>4, <1>5, <2>1
<1>6. new # NoRow /\ row[Org] # NoRow
  BY <1>2, <1>3, <1>4, ColumnFacts
<1> HIDE DEF new, f, C
<1>7. Puts(q, a, new)
  BY <1>1, <1>2, <1>4, <1>5, <1>6 DEF Puts
<1>8. /\ RowsFit' /\ AnsweredStands' /\ row'[Org] = new
      /\ contested' \subseteq Rows \X UNION {Columns[k] : k \in DOMAIN Columns}
      /\ \A r \in Rows \ {Org} : row'[r] = row[r]
      /\ \A r \in Rows : \/ row'[r] \in [Columns[r[1]] -> Value]
                         \/ row'[r] = NoRow /\ r[1] = "pref"
  BY <1>1, <1>7, WritesKeep
<1>9. PICK told \in Handling : /\ calls' = O \cup {told} /\ told.row = Org /\ told.ask = a
                           /\ told.read = q.read /\ told.at = "committed"
  <2> DEFINE told == [q EXCEPT !.at = "committed", !.late = FALSE]
  <2>1. told \in Handling /\ told.row = Org /\ told.ask = a /\ told.read = q.read /\ told.at = "committed"
    BY <1>1, <1>2 DEF Handling
  <2> QED  BY <1>1, <2>1
<1>10. CallFits(told)'
  BY <1>2, <1>6, <1>8, <1>9 DEF CallFits
<1>11. \A p \in O : CallFits(p)'
  BY <1>1, <1>2, <1>6, <1>8, LateKeep
<1>12. IsFiniteSet(calls') /\ Cardinality(calls') <= MaxCalls /\ calls' \subseteq Handling
  <2>1. IsFiniteSet(calls) /\ Cardinality(calls) <= MaxCalls
    BY AroundHolds DEF CallsBound
  <2>2. /\ Cardinality(calls \ {q}) = Cardinality(calls) - 1 /\ Cardinality(calls) \in Nat
        /\ IsFiniteSet(calls \ {q}) /\ Cardinality(calls \ {q}) \in Nat
    BY <2>1, FS_RemoveElement, FS_CardinalityType
  <2>3. /\ O \subseteq Handling /\ IsFiniteSet(O) /\ Cardinality(O) <= Cardinality(calls \ {q})
    BY OthersFacts
  <2> HIDE DEF O
  <2>4. /\ IsFiniteSet(O \cup {told}) /\ Cardinality(O \cup {told}) <= Cardinality(O) + 1
        /\ Cardinality(O) \in Nat /\ Cardinality(O \cup {told}) \in Nat
    BY <2>3, OneMore
  <2>5. Cardinality(O \cup {told}) <= MaxCalls
    BY <2>1, <2>2, <2>3, <2>4, AdministrationBounds
  <2> QED  BY <1>9, <2>3, <2>4, <2>5
<1>13. CallsFit'
  BY <1>9, <1>10, <1>11, <1>12 DEF CallsFit
<1>14. Around'
  BY <1>1, AroundHolds DEF Around, LoggedIn
<1>15. AdministrationTypeOK'
  <2>1. DOMAIN decided' = Rows
    BY <1>8 DEF RowsFit
  <2> QED  BY <1>8, <1>12, <1>14, <2>1 DEF AdministrationTypeOK, Around
<1>16. TrailComes'
  BY <1>9 DEF TrailComes, SeesToIt
<1> QED  BY <1>8, <1>13, <1>14, <1>15, <1>16 DEF AdminInv, AdministrationInv, Around

LEMMA AdminInit ==
    ASSUME AdministrationInit
    PROVE  AdminInv
<1>1. /\ row = [r \in Rows |-> IF r[1] = "pref" THEN NoRow ELSE Fresh(r[1])]
      /\ holds = Seeded([u \in Staff |-> {}])
      /\ tokens = {} /\ trail = {} /\ logins = {} /\ pending = {} /\ calls = {}
      /\ decided = [r \in Rows |-> Fresh(r[1])] /\ contested = {} /\ unlogged = FALSE
      /\ asked = 0 /\ failures = 0
  BY DEF AdministrationInit
<1>2. \A r \in Rows : /\ r[1] \in Kinds /\ Fresh(r[1]) \in [Columns[r[1]] -> Value]
                      /\ Fresh(r[1]) \in Content /\ Fresh(r[1]) # NoRow
  BY RowFacts, ColumnFacts
<1>3. \A r \in Rows : /\ row[r] = IF r[1] = "pref" THEN NoRow ELSE Fresh(r[1])
                      /\ decided[r] = Fresh(r[1])
  BY <1>1
<1>4. RowsFit
  BY <1>1, <1>2, <1>3 DEF RowsFit
<1>5. holds \in [Staff -> (SUBSET Role) \ {{}}]
  BY <1>1, AdministrationBounds DEF Seeded
<1>6. AdministrationTypeOK
  <2>1. Cardinality(calls) = 0 /\ IsFiniteSet(calls)
    BY <1>1, FS_EmptySet
  <2>2. \A r \in Rows : \/ row[r] \in [Columns[r[1]] -> Value]
                        \/ row[r] = NoRow /\ r[1] = "pref"
    BY <1>2, <1>3
  <2>3. 0 \in 0 .. MaxAsked /\ 0 \in 0 .. MaxFailures /\ 0 <= MaxCalls
    BY AdministrationBounds
  <2>4. DOMAIN decided = Rows /\ unlogged \in BOOLEAN
    BY <1>1
  <2>5. calls \subseteq Handling /\ Cardinality(calls) <= MaxCalls
    BY <1>1, <2>1, <2>3
  <2> QED  BY <1>1, <1>5, <2>2, <2>3, <2>4, <2>5 DEF AdministrationTypeOK
<1>7. CallsFit
  BY <1>1, FS_EmptySet DEF CallsFit
<1>8. AnsweredStands /\ LoggedIn
  BY <1>1, <1>3 DEF AnsweredStands, LoggedIn
<1>9. TrailComes
  BY <1>3, RowFacts DEF TrailComes
<1> QED  BY <1>4, <1>6, <1>7, <1>8, <1>9 DEF AdminInv, AdministrationInv

LEMMA AdminNext ==
    ASSUME AdminInv, [AdministrationNext]_admin
    PROVE  AdminInv'
<1>1. CASE UNCHANGED admin
  <2>1. UNCHANGED <<row, decided, contested>> /\ UNCHANGED <<calls, trail, unlogged>>
    BY <1>1 DEF admin, recorded
  <2>2. Around'
    BY <1>1, AroundHolds DEF Around, LoggedIn, admin, access, recorded, bounds
  <2> QED  BY <2>1, <2>2, SameCalls, TrailStays, RowsAsideKeep
<1>2. ASSUME NEW u \in Staff,
             Login(u) \/ LoginDenied(u) \/ SignsIn(u) \/ Verify(u) \/ ChallengeRunsOut(u)
      PROVE  AdminInv'
  BY <1>2, PeopleKeep
<1>3. ASSUME NEW t \in tokens, ExpireToken(t) PROVE AdminInv'
  <2>1. t.who \in Staff
    BY AroundHolds DEF Around
  <2> QED  BY <1>3, <2>1, PeopleKeep
<1>4. ASSUME NEW t \in tokens, NEW u \in Staff, NEW r \in Role, UpdateUserRole(t, u, r) PROVE AdminInv'
  BY <1>4, PeopleKeep
<1>5. ASSUME NEW t \in tokens, NEW v \in Value, UpdateMe(t, v) PROVE AdminInv'
  BY <1>5, UpdateMeKeeps
<1>6. ASSUME NEW q \in calls, Answers(q) \/ StatementFails(q) PROVE AdminInv'
  BY <1>6, UpdatesKeep, SettingsCommitKeeps, SettingsKeep, FailuresKeep DEF Answers
<1>7. ASSUME NEW t \in tokens,
           \/ \E u \in Staff, a \in Asks("person") : UpdateUserReads(t, u, a)
           \/ \E a \in Asks("org") : SettingsReads(t, a)
           \/ \E a \in Asks("pref") : PrefReads(t, a)
      PROVE  AdminInv'
  BY <1>7, AskingKeeps
<1>8. CASE Restart
  BY <1>8, FailuresKeep
<1> QED  BY <1>1, <1>2, <1>3, <1>4, <1>5, <1>6, <1>7, <1>8 DEF AdministrationNext

LEMMA TrailFollows ==
    ASSUME AdminInv
    PROVE  TrailShows
BY DEF AdminInv, TrailComes, TrailShows, SeesToIt

-----------------------------------------------------------------------------
(* The figures (Statistics).                                               *)

Told(q)  == {q[i] : i \in DOMAIN q}

FigureTypes ==
    /\ alerts \in [AlertRows -> {Absent} \cup AlertRow]
    /\ mission \in MissionStatus /\ robots \in [Robots -> RobotStatus]
    /\ today \in 0 .. MaxDay /\ meanwhile \in 0 .. changes /\ changes \in 0 .. MaxChanges
    /\ query # Absent =>
        /\ query \in [what : DOMAIN Statements, now : 0 .. today, existed : SUBSET Raised,
                     figures : {query.figures}]
        /\ query.figures \in Seq(Told(query.figures))
        /\ Len(query.figures) <= Len(Statements[query.what])

Total(f) == f[1]["INFO"] + f[1]["HIGH"]
OpenNow  == Cardinality(With({"OPEN"}))

\* Each commit moves the number of open alerts by one at most.
CountsAgree ==
    query # Absent /\ query.what = "dashboard" =>
        /\ Len(query.figures) >= 1 =>
               /\ Total(query.figures) \in Nat
               /\ OpenNow <= Total(query.figures) + meanwhile /\ Total(query.figures) <= OpenNow + meanwhile
        /\ Len(query.figures) >= 2 =>
               /\ Cardinality(query.figures[2]) \in Nat
               /\ Cardinality(query.figures[2]) <= Total(query.figures) + meanwhile
               /\ Cardinality(query.figures[2]) < MaxRecent =>
                      Total(query.figures) <= Cardinality(query.figures[2]) + meanwhile

\* A score's parts are rates.
RatesFit ==
    query # Absent /\ query.what = "kpis" =>
        LET f == query.figures IN
        /\ Len(f) >= 1 => f[1].finished \in {0, 1} /\ f[1].completed \in 0 .. f[1].finished
        /\ Len(f) >= 2 => f[2].total \in Nat /\ f[2].online \in 0 .. f[2].total
        /\ Len(f) >= 3 => f[3] \in Nat
        /\ Len(f) >= 4 => f[4] <= Max({0, 1000 - 5 * f[3]})

PointsCount ==
    Complete /\ query.what \in DOMAIN Charted =>
        \A i \in 0 .. Days - 1, s \in Charted[query.what] :
            Points(query.now, query.figures[1], Charted[query.what])[i][s] \in Nat

FiguresInv == FigureTypes /\ CountsAgree /\ RatesFit /\ PointsCount /\ PointsExact

-----------------------------------------------------------------------------
\* One more figure, whatever kinds of figures an answer is made of.
LEMMA FigureGrows ==
    ASSUME NEW q, q \in Seq(Told(q)), NEW r
    PROVE  /\ Append(q, r) \in Seq(Told(Append(q, r)))
           /\ Len(q) \in Nat /\ Len(Append(q, r)) = Len(q) + 1
           /\ \A i \in 1 .. Len(q) : Append(q, r)[i] = q[i]
           /\ Append(q, r)[Len(q) + 1] = r
<1> DEFINE p == Append(q, r)
           S == Told(q) \cup {r}
<1>1. q \in Seq(S) /\ r \in S
  BY SeqMonotonic
<1>2. /\ p \in Seq(S) /\ Len(p) = Len(q) + 1 /\ Len(q) \in Nat
      /\ \A i \in 1 .. Len(q) : p[i] = q[i]
      /\ p[Len(q) + 1] = r
  BY <1>1, AppendProperties
<1> HIDE DEF p
<1>3. p \in [1 .. Len(p) -> S] /\ Len(p) \in Nat
  BY <1>2
<1>4. p \in [1 .. Len(p) -> Told(p)]
  BY <1>3 DEF Told
<1>5. p \in Seq(Told(p))
  BY <1>3, <1>4, SeqDef
<1> QED  BY <1>2, <1>5 DEF p

\* Sets that differ in one element.
LEMMA OneApart ==
    ASSUME NEW S, NEW T, IsFiniteSet(S), IsFiniteSet(T), NEW x, S \ {x} = T \ {x}
    PROVE  /\ Cardinality(S) \in Nat /\ Cardinality(T) \in Nat
           /\ Cardinality(T) <= Cardinality(S) + 1 /\ Cardinality(S) <= Cardinality(T) + 1
<1>1. Cardinality(S) \in Nat /\ Cardinality(T) \in Nat
  BY FS_CardinalityType
<1>2. Cardinality(S \ {x}) = IF x \in S THEN Cardinality(S) - 1 ELSE Cardinality(S)
  BY FS_RemoveElement
<1>3. Cardinality(T \ {x}) = IF x \in T THEN Cardinality(T) - 1 ELSE Cardinality(T)
  BY FS_RemoveElement
<1>4. Cardinality(S \ {x}) = Cardinality(T \ {x})
  OBVIOUS
<1> DEFINE s == Cardinality(S \ {x})
           u == Cardinality(T \ {x})
<1>5. /\ s = (IF x \in S THEN Cardinality(S) - 1 ELSE Cardinality(S))
      /\ u = (IF x \in T THEN Cardinality(T) - 1 ELSE Cardinality(T))
      /\ s = u
  BY <1>2, <1>3, <1>4
<1> HIDE DEF s, u
<1> QED  BY <1>1, <1>5

LEMMA Finite ==
    ASSUME NEW R \in SUBSET AlertRows
    PROVE  IsFiniteSet(R) /\ Cardinality(R) \in Nat
BY StatisticsBounds, FS_Subset, FS_CardinalityType

LEMMA SeverityTotal ==
    ASSUME FigureTypes
    PROVE  /\ SeverityMap["INFO"] \in Nat /\ SeverityMap["HIGH"] \in Nat
           /\ SeverityMap["INFO"] + SeverityMap["HIGH"] = OpenNow /\ OpenNow \in Nat
<1> DEFINE W == With({"OPEN"})
           I == {a \in W : alerts[a].severity = "INFO"}
           H == {a \in W : alerts[a].severity = "HIGH"}
<1>1. W \in SUBSET AlertRows /\ \A a \in W : alerts[a] \in AlertRow
  BY DEF With, Raised, FigureTypes
<1>2. SeverityMap["INFO"] = Cardinality(I) /\ SeverityMap["HIGH"] = Cardinality(H)
  BY DEF SeverityMap, Severity
<1>3. OpenNow = Cardinality(W)
  BY DEF OpenNow
<1>4. W = I \cup H
  BY <1>1 DEF AlertRow, Severity
<1>5. I \cap H = {}
  OBVIOUS
<1>6. I \in SUBSET AlertRows /\ H \in SUBSET AlertRows
  BY <1>1
<1> HIDE DEF W, I, H
<1>7. /\ IsFiniteSet(I) /\ Cardinality(I) \in Nat /\ IsFiniteSet(H) /\ Cardinality(H) \in Nat
      /\ Cardinality(W) \in Nat
  BY <1>1, <1>6, Finite
<1>8. Cardinality(I \cup H) = Cardinality(I) + Cardinality(H) - Cardinality(I \cap H)
  BY <1>7, FS_Union
<1>9. Cardinality(I \cap H) = 0
  BY <1>5, FS_EmptySet
<1> QED  BY <1>2, <1>3, <1>4, <1>7, <1>8, <1>9

LEMMA Bigger ==
    ASSUME NEW a \in Int, NEW b \in Int
    PROVE  /\ Max({a, b}) = IF a >= b THEN a ELSE b
           /\ Min({a, b}) = IF a <= b THEN a ELSE b
<1>1. \E x \in {a, b} : \A y \in {a, b} : x >= y
  OBVIOUS
<1>2. Max({a, b}) \in {a, b} /\ \A y \in {a, b} : Max({a, b}) >= y
  BY <1>1 DEF Max
<1>3. \E x \in {a, b} : \A y \in {a, b} : x <= y
  OBVIOUS
<1>4. Min({a, b}) \in {a, b} /\ \A y \in {a, b} : Min({a, b}) <= y
  BY <1>3 DEF Min
<1> QED  BY <1>2, <1>4

LEMMA TenthsBound ==
    ASSUME NEW b \in Nat, NEW a \in 0 .. b, NEW empty \in Nat, empty <= 1000
    PROVE  Tenths(a, b, empty) \in Int /\ Tenths(a, b, empty) <= 1000
<1>1. CASE b = 0
  BY <1>1 DEF Tenths
<1>2. CASE b # 0
  <2> DEFINE half == b \div 2
             n    == 1000 * a + half
  <2>1. half \in Nat /\ half < b
    BY <1>2
  <2> HIDE DEF half
  <2>2. n \in Nat /\ n < 1001 * b
    BY <2>1
  <2> HIDE DEF n
  <2>3. n \div b <= 1000 /\ n \div b \in Int
    <3> DEFINE d == n \div b
    <3>1. d \in Int /\ b * d <= n
      BY <1>2, <2>2
    <3> HIDE DEF d
    <3>2. d <= 1000
      <4> SUFFICES ASSUME d >= 1001 PROVE FALSE
        BY <3>1
      <4>1. PICK e \in Nat : d = 1001 + e
        BY <3>1
      <4>2. b * d = 1001 * b + b * e /\ b * e >= 0
        BY <4>1
      <4> QED  BY <2>2, <3>1, <4>2
    <3> QED  BY <3>1, <3>2 DEF d
  <2> QED  BY <1>2, <2>3 DEF Tenths, n, half
<1> QED  BY <1>1, <1>2

LEMMA HealthBound ==
    ASSUME NEW f, f[1].finished \in {0, 1}, f[1].completed \in 0 .. f[1].finished,
           f[2].total \in Nat, f[2].online \in 0 .. f[2].total, f[3] \in Nat
    PROVE  Health(f) <= Max({0, 1000 - 5 * f[3]})
<1> DEFINE x == Tenths(f[1].completed, f[1].finished, 1000)
           y == Tenths(f[2].online, f[2].total, 995)
           rate == (4 * 992 + 3 * x + 3 * y) \div 10
           raw == rate - 5 * f[3]
           z == Min({1000, raw})
<1>1. x \in Int /\ x <= 1000
  <2> DEFINE a == f[1].completed
             b == f[1].finished
             e == 1000
  <2>1. b \in Nat /\ a \in 0 .. b /\ e \in Nat /\ e <= 1000
    OBVIOUS
  <2>2. x = Tenths(a, b, e)
    OBVIOUS
  <2> HIDE DEF a, b, e, x
  <2>3. Tenths(a, b, e) \in Int /\ Tenths(a, b, e) <= 1000
    BY <2>1, TenthsBound
  <2> QED  BY <2>2, <2>3
<1>2. y \in Int /\ y <= 1000
  <2> DEFINE a == f[2].online
             b == f[2].total
             e == 995
  <2>1. b \in Nat /\ a \in 0 .. b /\ e \in Nat /\ e <= 1000
    OBVIOUS
  <2>2. y = Tenths(a, b, e)
    OBVIOUS
  <2> HIDE DEF a, b, e, y
  <2>3. Tenths(a, b, e) \in Int /\ Tenths(a, b, e) <= 1000
    BY <2>1, TenthsBound
  <2> QED  BY <2>2, <2>3
<1>3. Health(f) = Max({0, z})
  BY DEF Health
<1> HIDE DEF x, y
<1>4. rate \in Int /\ rate <= 1000
  BY <1>1, <1>2
<1> HIDE DEF rate
<1>5. raw \in Int /\ raw <= 1000 - 5 * f[3]
  BY <1>4
<1>e. z = Min({1000, raw})
  OBVIOUS
<1> HIDE DEF raw, z
<1>6. z = (IF 1000 <= raw THEN 1000 ELSE raw)
  BY <1>5, <1>e, Bigger
<1>7. z \in Int /\ z <= 1000 - 5 * f[3]
  BY <1>5, <1>6
<1>8. Max({0, z}) = (IF 0 >= z THEN 0 ELSE z)
  BY <1>7, Bigger
<1>9. 1000 - 5 * f[3] \in Int
  OBVIOUS
<1> DEFINE top == 1000 - 5 * f[3]
<1>10. Max({0, top}) = (IF 0 >= top THEN 0 ELSE top)
  BY <1>9, Bigger
<1> QED  BY <1>3, <1>7, <1>8, <1>9, <1>10

\* The query's points are the counts of the rows there are.
LEMMA PointsFact ==
    ASSUME FigureTypes, NEW now \in Int, NEW S \in SUBSET Severity,
           NEW i \in 0 .. Days - 1, NEW s \in S
    PROVE  Points(now, ByDate(now, S), S)[i][s] =
             Cardinality({a \in Raised : alerts[a].severity = s /\ alerts[a].day = now - Days + 1 + i})
<1> DEFINE d == Since(now) + i
           recent == {alerts[a].day : a \in {b \in Raised : alerts[b].day >= Since(now)}}
           of == {a \in Raised : alerts[a].severity = s /\ alerts[a].day = now - Days + 1 + i}
<1> USE StatisticsBounds
<1>1. Since(now) \in Int /\ d = now - Days + 1 + i /\ d >= Since(now)
  BY DEF Since
<1>2. ByDate(now, S) = [e \in recent |->
          [x \in S |-> Cardinality({a \in Raised : alerts[a].day = e /\ alerts[a].severity = x})]]
  BY DEF ByDate
<1>3. Points(now, ByDate(now, S), S)[i] =
          IF d \in DOMAIN ByDate(now, S) THEN ByDate(now, S)[d] ELSE [x \in S |-> 0]
  BY DEF Points
<1>4. CASE d \in recent
  <2>1. Points(now, ByDate(now, S), S)[i][s] =
            Cardinality({a \in Raised : alerts[a].day = d /\ alerts[a].severity = s})
    BY <1>2, <1>3, <1>4
  <2>2. {a \in Raised : alerts[a].day = d /\ alerts[a].severity = s} = of
    BY <1>1
  <2> QED  BY <2>1, <2>2
<1>5. CASE d \notin recent
  <2>1. Points(now, ByDate(now, S), S)[i][s] = 0
    BY <1>2, <1>3, <1>5
  <2>2. of = {}
    BY <1>1, <1>5
  <2> QED  BY <2>1, <2>2, FS_EmptySet
<1> QED  BY <1>4, <1>5

LEMMA StatementFacts ==
    /\ DOMAIN Statements = {"dashboard", "kpis", "trend", "frequency", "missionStats", "counts"}
    /\ Statements["dashboard"] = <<"severity", "recent">>
    /\ Statements["kpis"] = <<"missions", "robots", "open", "health">>
    /\ Statements["trend"] = <<"dates">> /\ Statements["frequency"] = <<"dates">>
    /\ \A q \in DOMAIN Statements : Len(Statements[q]) \in Nat \ {0}
    /\ Len(Statements["dashboard"]) = 2 /\ Len(Statements["kpis"]) = 4
    /\ Len(Statements["trend"]) = 1 /\ Len(Statements["frequency"]) = 1
    /\ DOMAIN Charted = {"trend", "frequency"}
    /\ \A q \in DOMAIN Charted : Charted[q] \in SUBSET Severity
<1>1. /\ DOMAIN Statements = {"dashboard", "kpis", "trend", "frequency", "missionStats", "counts"}
      /\ Statements["dashboard"] = <<"severity", "recent">>
      /\ Statements["kpis"] = <<"missions", "robots", "open", "health">>
      /\ Statements["trend"] = <<"dates">> /\ Statements["frequency"] = <<"dates">>
      /\ Statements["missionStats"] = <<"by status">> /\ Statements["counts"] = <<"all">>
  BY DEF Statements
<1>2. /\ Len(Statements["dashboard"]) = 2 /\ Len(Statements["kpis"]) = 4
      /\ Len(Statements["trend"]) = 1 /\ Len(Statements["frequency"]) = 1
      /\ Len(Statements["missionStats"]) = 1 /\ Len(Statements["counts"]) = 1
  BY <1>1
<1>3. ASSUME NEW q \in DOMAIN Statements PROVE Len(Statements[q]) \in Nat \ {0}
  <2>1. \/ q = "dashboard" \/ q = "kpis" \/ q = "trend" \/ q = "frequency"
        \/ q = "missionStats" \/ q = "counts"
    BY <1>1
  <2> DEFINE n == Len(Statements[q])
  <2>2. n = 1 \/ n = 2 \/ n = 4
    BY <1>2, <2>1
  <2> HIDE DEF n
  <2>3. n \in Nat \ {0}
    BY <2>2
  <2> QED  BY <2>3 DEF n
<1>4. DOMAIN Charted = {"trend", "frequency"} /\ \A q \in DOMAIN Charted : Charted[q] \in SUBSET Severity
  BY DEF Charted, Severity
<1> QED  BY <1>1, <1>2, <1>3, <1>4

LEMMA AskKeeps ==
    ASSUME FiguresInv, NEW what \in DOMAIN Statements, Ask(what)
    PROVE  FiguresInv'
<1>1. /\ query' = [what |-> what, now |-> today, existed |-> Raised, figures |-> <<>>]
      /\ meanwhile' = 0 /\ UNCHANGED <<alerts, mission, robots, today, changes>>
  BY DEF Ask, counted
<1>2. query'.figures = <<>> /\ query'.what = what /\ Len(query'.figures) = 0 /\ Raised' = Raised
  BY <1>1 DEF Raised
<1>3. <<>> \in Seq(Told(<<>>))
  OBVIOUS
<1>4. changes \in Nat /\ today \in 0 .. MaxDay
  BY StatisticsBounds DEF FiguresInv, FigureTypes
<1>5. 0 <= Len(Statements[what]) /\ Len(Statements[what]) # 0
  BY StatementFacts
<1>6. query' \in [what : DOMAIN Statements, now : 0 .. today, existed : SUBSET Raised, figures : {query'.figures}]
  BY <1>1, <1>2, <1>4, StatisticsBounds
<1>7. FigureTypes'
  <2>1. meanwhile' \in 0 .. changes'
    BY <1>1, <1>4
  <2> QED  BY <1>1, <1>2, <1>3, <1>5, <1>6, <2>1 DEF FiguresInv, FigureTypes
<1>8. CountsAgree' /\ RatesFit'
  BY <1>2 DEF CountsAgree, RatesFit
<1>9. PointsExact' /\ PointsCount'
  BY <1>2, <1>5 DEF PointsExact, PointsCount, Complete
<1> QED  BY <1>7, <1>8, <1>9 DEF FiguresInv

\* One more row or another status moves each count as it may.
LEMMA StatCommitKeeps ==
    ASSUME FiguresInv, Commits, alerts' \in [AlertRows -> {Absent} \cup AlertRow],
           mission' \in MissionStatus, robots' \in [Robots -> RobotStatus],
           NEW a, \A b \in AlertRows \ {a} : alerts'[b] = alerts[b],
           Raised \subseteq Raised',
           \A b \in Raised : alerts'[b].severity = alerts[b].severity /\ alerts'[b].day = alerts[b].day
    PROVE  FiguresInv'
<1> USE StatisticsBounds
<1>1. /\ changes < MaxChanges /\ changes' = changes + 1 /\ meanwhile' = meanwhile + 1
      /\ today' = today /\ query' = query
  BY DEF Commits
<1>2. changes \in 0 .. MaxChanges /\ meanwhile \in 0 .. changes
  BY DEF FiguresInv, FigureTypes
<1>3. FigureTypes'
  <2>1. changes' \in 0 .. MaxChanges /\ meanwhile' \in 0 .. changes'
    BY <1>1, <1>2
  <2>2. query' # Absent =>
        /\ query' \in [what : DOMAIN Statements, now : 0 .. today', existed : SUBSET Raised',
                      figures : {query'.figures}]
        /\ query'.figures \in Seq(Told(query'.figures))
        /\ Len(query'.figures) <= Len(Statements[query'.what])
    BY <1>1 DEF FiguresInv, FigureTypes
  <2> QED  BY <1>1, <2>1, <2>2 DEF FiguresInv, FigureTypes
<1>4. OpenNow \in Nat /\ OpenNow' \in Nat /\ OpenNow' <= OpenNow + 1 /\ OpenNow <= OpenNow' + 1
  <2> DEFINE S == With({"OPEN"})
             T == With({"OPEN"})'
  <2>1. S \in SUBSET AlertRows /\ T \in SUBSET AlertRows
    BY DEF With, Raised
  <2>2. S \ {a} = T \ {a}
    BY DEF With, Raised
  <2>3. OpenNow = Cardinality(S) /\ OpenNow' = Cardinality(T)
    BY DEF OpenNow
  <2> HIDE DEF S, T
  <2>4. IsFiniteSet(S) /\ IsFiniteSet(T)
    BY <2>1, Finite
  <2> QED  BY <2>2, <2>3, <2>4, OneApart
<1>5. CountsAgree'
  <2> SUFFICES ASSUME query # Absent, query.what = "dashboard" PROVE
        /\ Len(query.figures) >= 1 =>
               /\ Total(query.figures) \in Nat
               /\ OpenNow' <= Total(query.figures) + meanwhile' /\ Total(query.figures) <= OpenNow' + meanwhile'
        /\ Len(query.figures) >= 2 =>
               /\ Cardinality(query.figures[2]) \in Nat
               /\ Cardinality(query.figures[2]) <= Total(query.figures) + meanwhile'
               /\ Cardinality(query.figures[2]) < MaxRecent =>
                      Total(query.figures) <= Cardinality(query.figures[2]) + meanwhile'
    BY <1>1 DEF CountsAgree
  <2> DEFINE t == Total(query.figures)
             c == Cardinality(query.figures[2])
  <2>1. /\ Len(query.figures) >= 1 =>
               t \in Nat /\ OpenNow <= t + meanwhile /\ t <= OpenNow + meanwhile
        /\ Len(query.figures) >= 2 =>
               /\ c \in Nat /\ c <= t + meanwhile
               /\ c < MaxRecent => t <= c + meanwhile
    BY DEF FiguresInv, CountsAgree
  <2>2. query.figures \in Seq(Told(query.figures))
    BY DEF FiguresInv, FigureTypes
  <2>3. Len(query.figures) \in Nat
    BY <2>2
  <2> DEFINE n == Len(query.figures)
             m == meanwhile
             o == OpenNow
             p == OpenNow'
  <2>5. /\ n \in Nat /\ m \in Nat /\ meanwhile' = m + 1
        /\ o \in Nat /\ p \in Nat /\ p <= o + 1 /\ o <= p + 1
    <3>1. m \in Nat /\ meanwhile' = m + 1
      BY <1>1, <1>2
    <3> QED  BY <1>4, <2>3, <3>1
  <2>6. /\ n >= 1 => t \in Nat /\ o <= t + m /\ t <= o + m
        /\ n >= 2 => c \in Nat /\ c <= t + m /\ (c < MaxRecent => t <= c + m)
    BY <2>1
  <2> HIDE DEF t, c, n, m, o, p
  <2>7. /\ n >= 1 => t \in Nat /\ p <= t + (m + 1) /\ t <= p + (m + 1)
        /\ n >= 2 => c \in Nat /\ c <= t + (m + 1) /\ (c < MaxRecent => t <= c + (m + 1))
    BY <2>5, <2>6
  <2>4. /\ Len(query.figures) >= 1 =>
               t \in Nat /\ OpenNow' <= t + meanwhile' /\ t <= OpenNow' + meanwhile'
        /\ Len(query.figures) >= 2 =>
               /\ c \in Nat /\ c <= t + meanwhile'
               /\ c < MaxRecent => t <= c + meanwhile'
    BY <2>5, <2>7 DEF n, p
  <2> QED  BY <2>4 DEF t, c
<1>6. RatesFit'
  BY <1>1 DEF FiguresInv, RatesFit
<1>8. PointsCount'
  BY <1>1 DEF FiguresInv, PointsCount, Complete
<1>7. PointsExact'
  <2> SUFFICES ASSUME Complete, query.what \in DOMAIN Charted,
                      NEW i \in 0 .. Days - 1, NEW s \in Charted[query.what]
               PROVE  LET of(R) == Cardinality({b \in R : alerts'[b].severity = s /\
                                                           alerts'[b].day = query.now - Days + 1 + i})
                          point == Points(query.now, query.figures[1], Charted[query.what])[i][s]
                      IN of(query.existed) <= point /\ point <= of(Raised')
    BY <1>1 DEF PointsExact, Complete
  <2> DEFINE point == Points(query.now, query.figures[1], Charted[query.what])[i][s]
             d == query.now - Days + 1 + i
             then == {b \in query.existed : alerts[b].severity = s /\ alerts[b].day = d}
             now  == {b \in Raised : alerts[b].severity = s /\ alerts[b].day = d}
             next == {b \in Raised' : alerts'[b].severity = s /\ alerts'[b].day = d}
  <2>1. Cardinality(then) <= point /\ point <= Cardinality(now) /\ point \in Nat
    BY DEF FiguresInv, PointsExact, PointsCount
  <2>2. query.existed \subseteq Raised
    BY DEF FiguresInv, FigureTypes, Complete
  <2>3. {b \in query.existed : alerts'[b].severity = s /\ alerts'[b].day = d} = then
    BY <2>2
  <2>4. now \in SUBSET next /\ next \in SUBSET AlertRows /\ then \in SUBSET AlertRows
    BY <2>2 DEF Raised
  <2> HIDE DEF now, next, then, point
  <2>5. Cardinality(now) <= Cardinality(next) /\ Cardinality(now) \in Nat /\ Cardinality(next) \in Nat
    <3>1. IsFiniteSet(next) /\ Cardinality(next) \in Nat
      BY <2>4, Finite
    <3>2. Cardinality(now) <= Cardinality(next)
      BY <2>4, <3>1, FS_Subset
    <3>3. Cardinality(now) \in Nat
      BY <2>4, Finite
    <3> QED  BY <3>1, <3>2, <3>3
  <2>6. Cardinality(then) \in Nat
    BY <2>4, Finite
  <2>7. Cardinality(then) <= point /\ point <= Cardinality(next)
    BY <2>1, <2>5, <2>6
  <2> QED  BY <2>3, <2>7 DEF next, then, point
<1> QED  BY <1>3, <1>5, <1>6, <1>7, <1>8 DEF FiguresInv

\* What PointsExact asks of the table, the call at work and the rows raised.
Exact(table, q, R) ==
    \A i \in 0 .. Days - 1, s \in Charted[q.what] :
        LET of(S) == Cardinality({a \in S : table[a].severity = s /\
                                            table[a].day = q.now - Days + 1 + i})
            point == Points(q.now, q.figures[1], Charted[q.what])[i][s]
        IN of(q.existed) <= point /\ point <= of(R)

\* Time passes, an answer goes out, or nothing happens.
LEMMA AnswersKeep ==
    ASSUME FiguresInv, Answer \/ Midnight \/ UNCHANGED statistics
    PROVE  FiguresInv'
<1> USE StatisticsBounds
<1>1. /\ UNCHANGED <<alerts, mission, robots, meanwhile, changes>>
      /\ query' = Absent \/ query' = query
      /\ today' = today \/ (today < MaxDay /\ today' = today + 1)
  BY DEF Answer, Midnight, counted, statistics
<1>2. today \in 0 .. MaxDay
  BY DEF FiguresInv, FigureTypes
<1>3. today' \in 0 .. MaxDay /\ 0 .. today \subseteq 0 .. today'
  BY <1>1, <1>2
<1>4. Raised' = Raised /\ OpenNow' = OpenNow
  BY <1>1 DEF Raised, OpenNow, With
<1>5. FigureTypes'
  BY <1>1, <1>3, <1>4 DEF FiguresInv, FigureTypes
<1>6. CountsAgree'
  BY <1>1, <1>4 DEF FiguresInv, CountsAgree
<1>7. CASE query' = Absent
  BY <1>5, <1>6, <1>7 DEF FiguresInv, RatesFit, PointsCount, PointsExact, Complete
<1>8. CASE query' = query
  <2>1. RatesFit'
    BY <1>8 DEF FiguresInv, RatesFit
  <2>2. PointsCount'
    BY <1>8 DEF FiguresInv, PointsCount, Complete
  <2>3. PointsExact'
    <3>1. PointsExact /\ UNCHANGED <<alerts, query, Raised>>
      BY <1>1, <1>4, <1>8 DEF FiguresInv
    <3>2. Complete' = Complete
      BY <3>1 DEF Complete
    <3>3. Exact(alerts', query', Raised') = Exact(alerts, query, Raised)
      BY <3>1
    <3>4. Complete /\ query.what \in DOMAIN Charted => Exact(alerts, query, Raised)
      BY <3>1 DEF PointsExact, Exact
    <3>5. Complete' /\ query'.what \in DOMAIN Charted => Exact(alerts', query', Raised')
      BY <3>1, <3>2, <3>3, <3>4
    <3> QED  BY <3>5 DEF PointsExact, Exact
  <2> QED  BY <1>5, <1>6, <2>1, <2>2, <2>3 DEF FiguresInv
<1> QED  BY <1>1, <1>7, <1>8

-----------------------------------------------------------------------------
\* What a statement adds to the figures.
LEMMA ExecuteFacts ==
    ASSUME FiguresInv, ExecuteStatement
    PROVE  LET q == query.figures
               n == Len(q) + 1
           IN /\ query # Absent /\ query.what \in DOMAIN Statements
              /\ n \in Nat \ {0} /\ n <= Len(Statements[query.what])
              /\ query'.figures[n] \in Result(query, Statements[query.what][n])
              /\ Len(query'.figures) = n /\ \A i \in 1 .. Len(q) : query'.figures[i] = q[i]
              /\ query'.figures \in Seq(Told(query'.figures))
              /\ query' = [query EXCEPT !.figures = query'.figures]
              /\ query'.what = query.what /\ query'.now = query.now /\ query'.existed = query.existed
              /\ query' \in [what : DOMAIN Statements, now : 0 .. today, existed : SUBSET Raised,
                            figures : {query'.figures}]
              /\ UNCHANGED <<alerts, mission, robots, today, meanwhile, changes>>
<1> DEFINE q == query.figures
           n == Len(q) + 1
<1>1. /\ query # Absent /\ Len(q) < Len(Statements[query.what])
      /\ UNCHANGED <<alerts, mission, robots, today, meanwhile, changes>>
  BY DEF ExecuteStatement, counted
<1>2. PICK r \in Result(query, Statements[query.what][n]) : query' = [query EXCEPT !.figures = Append(q, r)]
  BY DEF ExecuteStatement
<1>3. /\ query \in [what : DOMAIN Statements, now : 0 .. today, existed : SUBSET Raised, figures : {q}]
      /\ q \in Seq(Told(q))
  BY <1>1 DEF FiguresInv, FigureTypes
<1>4. /\ Append(q, r) \in Seq(Told(Append(q, r)))
      /\ Len(q) \in Nat /\ Len(Append(q, r)) = Len(q) + 1
      /\ \A i \in 1 .. Len(q) : Append(q, r)[i] = q[i]
      /\ Append(q, r)[Len(q) + 1] = r
  BY <1>3, FigureGrows
<1>5. Len(Statements[query.what]) \in Nat
  BY <1>3, StatementFacts
<1>6. n \in Nat \ {0} /\ n <= Len(Statements[query.what])
  BY <1>1, <1>4, <1>5
<1> DEFINE p == Append(q, r)
<1>7. /\ p \in Seq(Told(p)) /\ Len(p) = n /\ p[n] = r
      /\ \A i \in 1 .. Len(q) : p[i] = q[i]
      /\ query' = [query EXCEPT !.figures = p]
  BY <1>2, <1>4
<1> HIDE DEF p, n, q
<1>8. /\ query'.figures = p /\ query'.what = query.what /\ query'.now = query.now
      /\ query'.existed = query.existed
      /\ query' \in [what : DOMAIN Statements, now : 0 .. today, existed : SUBSET Raised, figures : {p}]
  BY <1>3, <1>7
<1>9. query.what \in DOMAIN Statements
  BY <1>3
<1>10. query'.figures[n] \in Result(query, Statements[query.what][n])
  BY <1>7, <1>8
<1> QED  BY <1>1, <1>6, <1>7, <1>8, <1>9, <1>10 DEF n, q

LEMMA DashboardKeeps ==
    ASSUME FiguresInv, ExecuteStatement
    PROVE  CountsAgree'
<1> USE StatisticsBounds
<1> DEFINE q == query.figures
           p == query'.figures
           n == Len(q) + 1
<1>1. /\ n \in Nat \ {0} /\ n <= Len(Statements[query.what]) /\ Len(p) = n
      /\ p[n] \in Result(query, Statements[query.what][n])
      /\ \A i \in 1 .. Len(q) : p[i] = q[i]
      /\ query # Absent /\ query'.what = query.what
      /\ UNCHANGED <<alerts, mission, robots, today, meanwhile, changes>>
  BY ExecuteFacts
<1>2. Len(q) \in Nat
  <2>1. q \in Seq(Told(q))
    BY <1>1 DEF FiguresInv, FigureTypes
  <2> QED  BY <2>1
<1>3. OpenNow' = OpenNow
  BY <1>1 DEF OpenNow, With, Raised
<1>4. meanwhile \in Nat
  BY DEF FiguresInv, FigureTypes
<1>5. /\ SeverityMap["INFO"] \in Nat /\ SeverityMap["HIGH"] \in Nat
      /\ SeverityMap["INFO"] + SeverityMap["HIGH"] = OpenNow /\ OpenNow \in Nat
  BY SeverityTotal DEF FiguresInv
<1> SUFFICES ASSUME query.what = "dashboard" PROVE
        /\ Len(p) >= 1 =>
               /\ Total(p) \in Nat
               /\ OpenNow <= Total(p) + meanwhile /\ Total(p) <= OpenNow + meanwhile
        /\ Len(p) >= 2 =>
               /\ Cardinality(p[2]) \in Nat
               /\ Cardinality(p[2]) <= Total(p) + meanwhile
               /\ Cardinality(p[2]) < MaxRecent => Total(p) <= Cardinality(p[2]) + meanwhile
  BY <1>1, <1>3 DEF CountsAgree
<1>6. n = 1 \/ n = 2
  <2>1. Len(Statements["dashboard"]) = 2
    BY StatementFacts
  <2> QED  BY <1>1, <2>1
<1> HIDE DEF p, n
<1>7. CASE n = 1
  <2>1. Statements[query.what][n] = "severity"
    BY <1>7, StatementFacts
  <2>2. p[1] = SeverityMap
    BY <1>1, <1>7, <2>1 DEF Result
  <2>3. Total(p) = OpenNow
    BY <1>5, <2>2 DEF Total
  <2>4. Total(p) \in Nat /\ OpenNow <= Total(p) + meanwhile /\ Total(p) <= OpenNow + meanwhile
    BY <1>4, <1>5, <2>3
  <2> QED  BY <1>1, <1>7, <2>4
<1>8. CASE n = 2
  <2>1. Statements[query.what][n] = "recent"
    BY <1>8, StatementFacts
  <2>2. p[2] \in Latest(With({"OPEN"}))
    BY <1>1, <1>8, <2>1 DEF Result
  <2> DEFINE W == With({"OPEN"})
             k == IF Cardinality(W) < MaxRecent THEN Cardinality(W) ELSE MaxRecent
  <2>3. Cardinality(p[2]) = k
    BY <2>2 DEF Latest, kSubset
  <2>4. Len(q) = 1 /\ p[1] = q[1]
    <3> DEFINE l == Len(q)
    <3>l. l \in Nat /\ n = l + 1
      BY <1>2 DEF n
    <3> HIDE DEF l
    <3>0. l = 1
      BY <1>8, <3>l
    <3>1. Len(q) = 1
      BY <3>0 DEF l
    <3>2. 1 \in 1 .. Len(q)
      BY <3>1
    <3> QED  BY <1>1, <3>1, <3>2
  <2>5. /\ Total(p) = Total(q) /\ Total(q) \in Nat
        /\ OpenNow <= Total(q) + meanwhile /\ Total(q) <= OpenNow + meanwhile
    BY <1>1, <2>4 DEF FiguresInv, CountsAgree, Total
  <2>6. Cardinality(W) = OpenNow
    BY DEF OpenNow
  <2>7. k = IF OpenNow < MaxRecent THEN OpenNow ELSE MaxRecent
    BY <2>6
  <2> DEFINE c == Cardinality(p[2])
             t == Total(p)
  <2>8. c = (IF OpenNow < MaxRecent THEN OpenNow ELSE MaxRecent) /\ t = Total(q)
    BY <2>3, <2>5, <2>7
  <2>9. t \in Nat /\ OpenNow <= t + meanwhile /\ t <= OpenNow + meanwhile
    BY <2>5
  <2> HIDE DEF c, t
  <2>10. c \in Nat /\ c <= t + meanwhile /\ (c < MaxRecent => t <= c + meanwhile)
    BY <1>4, <1>5, <2>8, <2>9
  <2> QED  BY <2>9, <2>10 DEF c, t
<1> QED  BY <1>6, <1>7, <1>8

LEMMA KpisKeep ==
    ASSUME FiguresInv, ExecuteStatement
    PROVE  RatesFit'
<1> USE StatisticsBounds
<1> DEFINE q == query.figures
           p == query'.figures
           n == Len(q) + 1
<1>1. /\ n \in Nat \ {0} /\ n <= Len(Statements[query.what]) /\ Len(p) = n
      /\ p[n] \in Result(query, Statements[query.what][n])
      /\ \A i \in 1 .. Len(q) : p[i] = q[i]
      /\ query # Absent /\ query'.what = query.what
  BY ExecuteFacts
<1>2. Len(q) \in Nat
  <2>1. q \in Seq(Told(q))
    BY <1>1 DEF FiguresInv, FigureTypes
  <2> QED  BY <2>1
<1> SUFFICES ASSUME query.what = "kpis" PROVE
        /\ Len(p) >= 1 => p[1].finished \in {0, 1} /\ p[1].completed \in 0 .. p[1].finished
        /\ Len(p) >= 2 => p[2].total \in Nat /\ p[2].online \in 0 .. p[2].total
        /\ Len(p) >= 3 => p[3] \in Nat
        /\ Len(p) >= 4 => p[4] <= Max({0, 1000 - 5 * p[3]})
  BY <1>1 DEF RatesFit
<1>3. n \in {1, 2, 3, 4} /\ n = Len(q) + 1
  <2>1. Len(Statements["kpis"]) = 4
    BY StatementFacts
  <2>2. n \in Nat \ {0} /\ n <= 4 /\ n = Len(q) + 1
    BY <1>1, <2>1
  <2> HIDE DEF n
  <2>3. n \in {1, 2, 3, 4}
    BY <2>2
  <2> QED  BY <2>2, <2>3
<1>4. /\ Len(q) >= 1 => q[1].finished \in {0, 1} /\ q[1].completed \in 0 .. q[1].finished
      /\ Len(q) >= 2 => q[2].total \in Nat /\ q[2].online \in 0 .. q[2].total
      /\ Len(q) >= 3 => q[3] \in Nat
  BY <1>1 DEF FiguresInv, RatesFit
<1> HIDE DEF p, n
<1>5. CASE n = 1
  <2>1. Statements[query.what][n] = "missions"
    BY <1>5, StatementFacts
  <2>2. p[1] = MissionCounts
    BY <1>1, <1>5, <2>1 DEF Result
  <2>3. p[1].finished \in {0, 1} /\ p[1].completed \in 0 .. p[1].finished
    BY <2>2 DEF MissionCounts
  <2> QED  BY <1>1, <1>5, <2>3
<1>6. CASE n = 2
  <2>1. Statements[query.what][n] = "robots"
    BY <1>6, StatementFacts
  <2>2. p[2] = RobotCounts
    BY <1>1, <1>6, <2>1 DEF Result
  <2>3. p[2].total \in Nat /\ p[2].online \in 0 .. p[2].total
    <3> DEFINE U == {r \in Robots : robots[r] # "OFFLINE"}
    <3>1. U \in SUBSET Robots
      OBVIOUS
    <3>2. p[2].total = Cardinality(Robots) /\ p[2].online = Cardinality(U)
      BY <2>2 DEF RobotCounts
    <3> HIDE DEF U
    <3>3. IsFiniteSet(U) /\ Cardinality(U) <= Cardinality(Robots)
      BY <3>1, FS_Subset
    <3>4. Cardinality(U) \in Nat /\ Cardinality(Robots) \in Nat
      BY <3>3, FS_CardinalityType
    <3> QED  BY <3>2, <3>3, <3>4
  <2>4. Len(q) = 1 /\ p[1] = q[1]
    <3> DEFINE l == Len(q)
    <3>l. l \in Nat /\ n = l + 1
      BY <1>2, <1>3
    <3> HIDE DEF l
    <3>0. l = 1
      BY <1>6, <3>l
    <3>1. Len(q) = 1
      BY <3>0 DEF l
    <3>2. 1 .. 1 = 1 .. Len(q)
      BY <3>1
    <3>3. \A i \in 1 .. 1 : p[i] = q[i]
      BY <1>1, <3>2
    <3> QED  BY <3>1, <3>3
  <2> QED  BY <1>1, <1>4, <1>6, <2>3, <2>4
<1>7. CASE n = 3
  <2>1. Statements[query.what][n] = "open"
    BY <1>7, StatementFacts
  <2>2. p[3] = OpenCount
    BY <1>1, <1>7, <2>1 DEF Result
  <2>3. p[3] \in Nat
    <3>1. With({"OPEN", "ACKNOWLEDGED", "ACTION_REQUIRED"}) \in SUBSET AlertRows
      BY DEF With, Raised
    <3> QED  BY <2>2, <3>1, Finite DEF OpenCount
  <2>4. Len(q) = 2 /\ p[1] = q[1] /\ p[2] = q[2]
    <3> DEFINE l == Len(q)
    <3>l. l \in Nat /\ n = l + 1
      BY <1>2, <1>3
    <3> HIDE DEF l
    <3>0. l = 2
      BY <1>7, <3>l
    <3>1. Len(q) = 2
      BY <3>0 DEF l
    <3>2. 1 .. 2 = 1 .. Len(q)
      BY <3>1
    <3>3. \A i \in 1 .. 2 : p[i] = q[i]
      BY <1>1, <3>2
    <3> QED  BY <3>1, <3>3
  <2> QED  BY <1>1, <1>4, <1>7, <2>3, <2>4
<1>8. CASE n = 4
  <2>1. Statements[query.what][n] = "health"
    BY <1>8, StatementFacts
  <2>2. p[4] = Health(q)
    BY <1>1, <1>8, <2>1 DEF Result
  <2>3. Len(q) = 3 /\ p[1] = q[1] /\ p[2] = q[2] /\ p[3] = q[3]
    <3> DEFINE l == Len(q)
    <3>l. l \in Nat /\ n = l + 1
      BY <1>2, <1>3
    <3> HIDE DEF l
    <3>0. l = 3
      BY <1>8, <3>l
    <3>1. Len(q) = 3
      BY <3>0 DEF l
    <3>2. 1 .. 3 = 1 .. Len(q)
      BY <3>1
    <3>3. \A i \in 1 .. 3 : p[i] = q[i]
      BY <1>1, <3>2
    <3> QED  BY <3>1, <3>3
  <2> HIDE DEF q
  <2>4. /\ q[1].finished \in {0, 1} /\ q[1].completed \in 0 .. q[1].finished
        /\ q[2].total \in Nat /\ q[2].online \in 0 .. q[2].total /\ q[3] \in Nat
    BY <1>4, <2>3
  <2>5. Health(q) <= Max({0, 1000 - 5 * q[3]})
    BY <2>4, HealthBound
  <2>6. p[4] <= Max({0, 1000 - 5 * p[3]})
    BY <2>2, <2>3, <2>5
  <2> QED  BY <2>3, <2>4, <2>6
<1> QED  BY <1>3, <1>5, <1>6, <1>7, <1>8

LEMMA TrendKeeps ==
    ASSUME FiguresInv, ExecuteStatement
    PROVE  PointsExact' /\ PointsCount'
<1> USE StatisticsBounds
<1> DEFINE p == query'.figures
           n == Len(query.figures) + 1
           S == Charted[query.what]
<1>1. /\ n \in Nat \ {0} /\ n <= Len(Statements[query.what]) /\ Len(p) = n
      /\ p[n] \in Result(query, Statements[query.what][n])
      /\ query # Absent /\ query'.what = query.what /\ query'.now = query.now /\ query'.existed = query.existed
      /\ UNCHANGED <<alerts, mission, robots, today, meanwhile, changes>>
  BY ExecuteFacts
<1>2. FigureTypes /\ query.now \in Int /\ query.existed \subseteq Raised
  BY <1>1 DEF FiguresInv, FigureTypes
<1>3. Raised' = Raised /\ alerts' = alerts
  BY <1>1 DEF Raised
<1> SUFFICES ASSUME query.what \in DOMAIN Charted, NEW i \in 0 .. Days - 1, NEW s \in S
             PROVE  LET of(R) == Cardinality({a \in R : alerts[a].severity = s /\
                                                         alerts[a].day = query.now - Days + 1 + i})
                        point == Points(query.now, p[1], S)[i][s]
                    IN point \in Nat /\ of(query.existed) <= point /\ point <= of(Raised)
  <2>1. PointsCount'
    BY <1>1 DEF PointsCount, Complete
  <2>2. PointsExact'
    <3> SUFFICES ASSUME query.what \in DOMAIN Charted, NEW j \in 0 .. Days - 1, NEW x \in S
                 PROVE  LET of(R) == Cardinality({a \in R : alerts'[a].severity = x /\
                                                            alerts'[a].day = query'.now - Days + 1 + j})
                            point == Points(query'.now, query'.figures[1], Charted[query'.what])[j][x]
                        IN of(query'.existed) <= point /\ point <= of(Raised')
      BY <1>1 DEF PointsExact
    <3> DEFINE Of(R) == {a \in R : alerts[a].severity = x /\ alerts[a].day = query.now - Days + 1 + j}
               OfNow(R) == {a \in R : alerts'[a].severity = x /\ alerts'[a].day = query'.now - Days + 1 + j}
    <3>1. OfNow(query'.existed) = Of(query.existed) /\ OfNow(Raised') = Of(Raised)
      BY <1>1, <1>3
    <3>2. Points(query'.now, query'.figures[1], Charted[query'.what])[j][x] = Points(query.now, p[1], S)[j][x]
      BY <1>1
    <3>3. /\ Cardinality(Of(query.existed)) <= Points(query.now, p[1], S)[j][x]
          /\ Points(query.now, p[1], S)[j][x] <= Cardinality(Of(Raised))
      OBVIOUS
    <3> QED  BY <3>1, <3>2, <3>3
  <2> QED  BY <2>1, <2>2
<1> HIDE DEF p, n
<1>4. n = 1 /\ Statements[query.what][n] = "dates" /\ S \in SUBSET Severity
  <2>1. /\ query.what \in {"trend", "frequency"} /\ Statements[query.what] = <<"dates">>
        /\ Len(Statements[query.what]) = 1 /\ S \in SUBSET Severity
    BY StatementFacts
  <2>2. n = 1
    BY <1>1, <2>1
  <2> QED  BY <2>1, <2>2
<1>5. p[1] = ByDate(query.now, S)
  BY <1>1, <1>4 DEF Result
<1> DEFINE then == {a \in query.existed : alerts[a].severity = s /\ alerts[a].day = query.now - Days + 1 + i}
           now  == {a \in Raised : alerts[a].severity = s /\ alerts[a].day = query.now - Days + 1 + i}
           point == Points(query.now, p[1], S)[i][s]
<1>6. point = Cardinality(now)
  <2> DEFINE d == query.now
  <2>1. d \in Int
    BY <1>2
  <2> HIDE DEF d, S
  <2>2. Points(d, ByDate(d, S), S)[i][s] =
            Cardinality({a \in Raised : alerts[a].severity = s /\ alerts[a].day = d - Days + 1 + i})
    BY <1>2, <1>4, <2>1, PointsFact
  <2> QED  BY <1>5, <2>2 DEF d
<1>7. now \in SUBSET AlertRows /\ then \in SUBSET now
  BY <1>2 DEF Raised
<1> HIDE DEF now, then, point
<1>8. IsFiniteSet(now) /\ Cardinality(now) \in Nat
  BY <1>7, Finite
<1>9. Cardinality(then) <= Cardinality(now)
  BY <1>7, <1>8, FS_Subset
<1>10. point \in Nat /\ Cardinality(then) <= point /\ point <= Cardinality(now)
  BY <1>6, <1>8, <1>9
<1> QED  BY <1>10 DEF now, then, point

LEMMA ExecuteKeeps ==
    ASSUME FiguresInv, ExecuteStatement
    PROVE  FiguresInv'
<1> DEFINE p == query'.figures
           n == Len(query.figures) + 1
<1>1. /\ n <= Len(Statements[query.what]) /\ Len(p) = n /\ query'.what = query.what
      /\ p \in Seq(Told(p))
      /\ query' \in [what : DOMAIN Statements, now : 0 .. today, existed : SUBSET Raised, figures : {p}]
      /\ UNCHANGED <<alerts, mission, robots, today, meanwhile, changes>>
  BY ExecuteFacts
<1>2. Raised' = Raised
  BY <1>1 DEF Raised
<1>3. FigureTypes'
  BY <1>1, <1>2 DEF FiguresInv, FigureTypes
<1> QED  BY <1>3, DashboardKeeps, KpisKeep, TrendKeeps DEF FiguresInv

LEMMA AlertsKeep ==
    ASSUME FiguresInv, NEW a \in AlertRows,
           \/ \E s \in Severity : RaiseAlert(a, s)
           \/ \E s \in AlertStatus : SetAlert(a, s)
    PROVE  FiguresInv'
<1> USE StatisticsBounds
<1>1. /\ alerts \in [AlertRows -> {Absent} \cup AlertRow] /\ today \in 0 .. MaxDay
      /\ mission \in MissionStatus /\ robots \in [Robots -> RobotStatus]
  BY DEF FiguresInv, FigureTypes
<1>2. ASSUME NEW s \in Severity, RaiseAlert(a, s) PROVE FiguresInv'
  <2>1. /\ alerts[a] = Absent /\ Commits /\ UNCHANGED <<mission, robots>>
        /\ alerts' = [alerts EXCEPT ![a] = [status |-> "OPEN", severity |-> s, day |-> today]]
    BY <1>2 DEF RaiseAlert
  <2>2. [status |-> "OPEN", severity |-> s, day |-> today] \in AlertRow
    BY <1>1 DEF AlertRow, AlertStatus
  <2>3. /\ alerts' \in [AlertRows -> {Absent} \cup AlertRow]
        /\ \A b \in AlertRows \ {a} : alerts'[b] = alerts[b]
    BY <1>1, <2>1, <2>2
  <2>4. /\ Raised \subseteq Raised'
        /\ \A b \in Raised : alerts'[b].severity = alerts[b].severity /\ alerts'[b].day = alerts[b].day
    BY <2>1, <2>3 DEF Raised
  <2> QED  BY <1>1, <2>1, <2>3, <2>4, StatCommitKeeps
<1>3. ASSUME NEW s \in AlertStatus, SetAlert(a, s) PROVE FiguresInv'
  <2>1. /\ a \in Raised /\ Commits /\ UNCHANGED <<mission, robots>>
        /\ alerts' = [alerts EXCEPT ![a].status = s]
    BY <1>3 DEF SetAlert
  <2>2. alerts[a] \in AlertRow
    BY <1>1, <2>1 DEF Raised
  <2>3. /\ alerts'[a] \in AlertRow /\ alerts'[a].severity = alerts[a].severity
        /\ alerts'[a].day = alerts[a].day
    BY <1>1, <2>1, <2>2 DEF AlertRow
  <2>4. /\ alerts' \in [AlertRows -> {Absent} \cup AlertRow]
        /\ \A b \in AlertRows \ {a} : alerts'[b] = alerts[b]
    BY <1>1, <2>1, <2>3
  <2>5. /\ Raised \subseteq Raised'
        /\ \A b \in Raised : alerts'[b].severity = alerts[b].severity /\ alerts'[b].day = alerts[b].day
    BY <2>1, <2>3, <2>4 DEF Raised
  <2> QED  BY <1>1, <2>1, <2>4, <2>5, StatCommitKeeps
<1> QED  BY <1>2, <1>3

LEMMA OthersKeep ==
    ASSUME FiguresInv,
           \/ \E s \in MissionStatus : SetMission(s)
           \/ \E r \in Robots, s \in RobotStatus : SetRobot(r, s)
    PROVE  FiguresInv'
<1>1. /\ alerts \in [AlertRows -> {Absent} \cup AlertRow]
      /\ mission \in MissionStatus /\ robots \in [Robots -> RobotStatus]
  BY DEF FiguresInv, FigureTypes
<1>2. /\ Commits /\ alerts' = alerts
      /\ mission' \in MissionStatus /\ robots' \in [Robots -> RobotStatus]
  BY <1>1 DEF SetMission, SetRobot
<1>3. /\ Raised' = Raised /\ alerts' \in [AlertRows -> {Absent} \cup AlertRow]
      /\ \A b \in AlertRows \ {Absent} : alerts'[b] = alerts[b]
  BY <1>1, <1>2 DEF Raised
<1> QED  BY <1>2, <1>3, StatCommitKeeps

-----------------------------------------------------------------------------
LEMMA FiguresInit == StatisticsInit => FiguresInv
<1> SUFFICES ASSUME StatisticsInit PROVE FiguresInv
  OBVIOUS
<1> USE StatisticsBounds
<1>1. /\ alerts = [a \in AlertRows |-> Absent]
      /\ mission = "SCHEDULED" /\ robots = [r \in Robots |-> "IDLE"]
      /\ today = 0 /\ query = Absent /\ meanwhile = 0 /\ changes = 0
  BY DEF StatisticsInit
<1>2. FigureTypes
  BY <1>1 DEF FigureTypes, MissionStatus, RobotStatus
<1> QED  BY <1>1, <1>2 DEF FiguresInv, CountsAgree, RatesFit, PointsCount, PointsExact, Complete

LEMMA FiguresNext == FiguresInv /\ [StatisticsNext]_statistics => FiguresInv'
<1> SUFFICES ASSUME FiguresInv, [StatisticsNext]_statistics PROVE FiguresInv'
  OBVIOUS
<1>1. CASE Answer \/ Midnight \/ UNCHANGED statistics
  BY <1>1, AnswersKeep
<1>2. ASSUME NEW what \in DOMAIN Statements, Ask(what) PROVE FiguresInv'
  BY <1>2, AskKeeps
<1>3. CASE ExecuteStatement
  BY <1>3, ExecuteKeeps
<1>4. ASSUME NEW a \in AlertRows,
             (\E s \in Severity : RaiseAlert(a, s)) \/ (\E s \in AlertStatus : SetAlert(a, s))
      PROVE  FiguresInv'
  BY <1>4, AlertsKeep
<1>5. CASE \/ \E s \in MissionStatus : SetMission(s)
           \/ \E r \in Robots, s \in RobotStatus : SetRobot(r, s)
  BY <1>5, OthersKeep
<1> QED  BY <1>1, <1>2, <1>3, <1>4, <1>5 DEF StatisticsNext

\* What the invariant says of a call at work, said of an answer.
LEMMA FiguresFollow == FiguresInv => Figures /\ StatisticsTypeOK
<1> SUFFICES ASSUME FiguresInv PROVE Figures /\ StatisticsTypeOK
  OBVIOUS
<1> USE StatisticsBounds
<1>1. StatisticsTypeOK
  <2>1. /\ today \in 0 .. MaxDay /\ meanwhile \in 0 .. MaxChanges /\ changes \in 0 .. MaxChanges
    BY DEF FiguresInv, FigureTypes
  <2>2. query # Absent => query.existed \subseteq Raised /\ query.now <= today
    BY <2>1 DEF FiguresInv, FigureTypes
  <2>3. \A a \in Raised : alerts[a] \in AlertRow
    BY DEF FiguresInv, FigureTypes, Raised
  <2> QED  BY <2>1, <2>2, <2>3 DEF FiguresInv, FigureTypes, StatisticsTypeOK, AlertRow
<1>2. ASSUME Complete, query.what = "dashboard" PROVE
        LET total  == query.figures[1]["INFO"] + query.figures[1]["HIGH"]
            listed == Cardinality(query.figures[2])
        IN /\ listed <= total + meanwhile
           /\ listed < MaxRecent => total <= listed + meanwhile
  <2>1. query # Absent /\ Len(query.figures) = 2
    BY <1>2, StatementFacts DEF Complete
  <2> QED  BY <1>2, <2>1 DEF FiguresInv, CountsAgree, Total
<1>3. ASSUME Complete, query.what = "kpis"
      PROVE  query.figures[4] <= Max({0, 1000 - 5 * query.figures[3]})
  <2>1. query # Absent /\ Len(query.figures) = 4
    BY <1>3, StatementFacts DEF Complete
  <2> QED  BY <1>3, <2>1 DEF FiguresInv, RatesFit
<1>4. FiguresAgree
  BY <1>2, <1>3 DEF FiguresAgree
<1> QED  BY <1>1, <1>4 DEF FiguresInv, Figures

-----------------------------------------------------------------------------
(* The floor plan (TwinPage).                                              *)

Plan(S) == UNION {[K -> Payload] : K \in SUBSET S}
Fetch   == [bins : {"asked", "answered", "failed"},
            robots : {"asked", "answered", "failed", "elsewhere"}, has : [Items -> Payload]]

PageTypes ==
    /\ stored \in [Items -> Payload] /\ copy \in [Items -> Payload]
    /\ room \in {"out", "entered", "joined"} /\ wire \in Seq(Plan(Items)) /\ Len(wire) <= MaxWire
    /\ floor \in [robots : Plan(Movers), bins : Plan(Places)]
    /\ fetch = Nothing \/ fetch \in Fetch
    /\ rescan \in Places \cup {Nothing} /\ setBack \subseteq Items /\ visits \in 0 .. MaxVisits

Mentions(k) == {i \in DOMAIN wire : k \in DOMAIN wire[i]}

\* What is on the way, and else the copy, is what the twin stores.
WireTells ==
    /\ room = "out" => wire = <<>>
    /\ \A k \in Items :
        \/ \E i \in Mentions(k) : wire[i][k] = stored[k] /\ \A j \in Mentions(k) : j <= i
        \/ Mentions(k) = {} /\ (room = "joined" => copy[k] = stored[k])

\* What has been told or fetched was stored, and payloads only grow.
NothingAhead ==
    /\ \A k \in Items : copy[k] <= stored[k] /\ (fetch # Nothing => fetch.has[k] <= stored[k])
    /\ \A i \in DOMAIN wire : \A k \in DOMAIN wire[i] : wire[i][k] <= stored[k]
    /\ \A k \in DOMAIN floor.robots : floor.robots[k] <= stored[k]
    /\ \A k \in DOMAIN floor.bins : floor.bins[k] <= stored[k]

\* The page shows no less than the copy, but where something set it back.
FloorFollows ==
    /\ room # "out" => visits > 0
    /\ visits > 0 =>
        /\ \A r \in Movers \ setBack :
            copy[r] = 0 \/ (r \in DOMAIN floor.robots /\ floor.robots[r] >= copy[r])
        /\ \A b \in DOMAIN floor.bins \ setBack : floor.bins[b] >= copy[b]

PlanInv == PageTypes /\ WireTells /\ NothingAhead /\ FloorFollows

-----------------------------------------------------------------------------
\* A partial map of payloads, taken apart and put together.
LEMMA PlanFacts ==
    ASSUME NEW S
    PROVE  /\ \A f \in Plan(S) : /\ f = [x \in DOMAIN f |-> f[x]] /\ DOMAIN f \subseteq S
                                 /\ \A x \in DOMAIN f : f[x] \in Payload
           /\ \A K \in SUBSET S : \A f \in [K -> Payload] : f \in Plan(S)
<1>1. ASSUME NEW f \in Plan(S)
      PROVE  /\ f = [x \in DOMAIN f |-> f[x]] /\ DOMAIN f \subseteq S
             /\ \A x \in DOMAIN f : f[x] \in Payload
  <2>1. PICK K \in SUBSET S : f \in [K -> Payload]
    BY DEF Plan
  <2> QED  BY <2>1
<1>2. ASSUME NEW K \in SUBSET S, NEW f \in [K -> Payload] PROVE f \in Plan(S)
  BY DEF Plan
<1> QED  BY <1>1, <1>2

\* The entries the store has anything for.
LEMMA KnownFacts ==
    ASSUME NEW f \in [Items -> Payload], NEW S \in SUBSET Items
    PROVE  /\ Filled(f, S) \in Plan(S) /\ DOMAIN Filled(f, S) = {k \in S : f[k] # 0}
           /\ \A k \in S : f[k] # 0 => Filled(f, S)[k] = f[k]
           /\ Filled(f, S) = <<>> => \A k \in S : f[k] = 0
<1> DEFINE K == {k \in S : f[k] # 0}
<1>1. Filled(f, S) = [k \in K |-> f[k]]
  BY DEF Filled, Restrict
<1>2. Filled(f, S) \in [K -> Payload] /\ K \in SUBSET S
  BY <1>1
<1>3. Filled(f, S) \in Plan(S)
  BY <1>2, PlanFacts
<1>4. ASSUME Filled(f, S) = <<>>, NEW k \in S PROVE f[k] = 0
  <2>1. DOMAIN Filled(f, S) = {}
    BY <1>4
  <2>2. K = {}
    BY <1>1, <2>1
  <2> QED  BY <2>2
<1> QED  BY <1>1, <1>3, <1>4

\* One more message on the way, and one fewer.
LEMMA WireGrows ==
    ASSUME NEW S, NEW q \in Seq(S), NEW m \in S
    PROVE  /\ Append(q, m) \in Seq(S) /\ Len(Append(q, m)) = Len(q) + 1 /\ Len(q) \in Nat
           /\ DOMAIN Append(q, m) = DOMAIN q \cup {Len(q) + 1} /\ DOMAIN q = 1 .. Len(q)
           /\ \A i \in DOMAIN q : Append(q, m)[i] = q[i]
           /\ Append(q, m)[Len(q) + 1] = m
<1>1. /\ Append(q, m) \in Seq(S) /\ Len(Append(q, m)) = Len(q) + 1 /\ Len(q) \in Nat
      /\ \A i \in 1 .. Len(q) : Append(q, m)[i] = q[i]
      /\ Append(q, m)[Len(q) + 1] = m
  BY AppendProperties
<1>2. DOMAIN q = 1 .. Len(q) /\ DOMAIN Append(q, m) = 1 .. Len(q) + 1
  BY <1>1
<1> QED  BY <1>1, <1>2

LEMMA WireShrinks ==
    ASSUME NEW S, NEW q \in Seq(S), q # <<>>
    PROVE  /\ Tail(q) \in Seq(S) /\ Len(Tail(q)) = Len(q) - 1 /\ Len(q) \in Nat \ {0}
           /\ DOMAIN q = 1 .. Len(q) /\ DOMAIN Tail(q) = 1 .. Len(q) - 1
           /\ \A i \in DOMAIN Tail(q) : Tail(q)[i] = q[i + 1]
           /\ Head(q) = q[1] /\ q[1] \in S
<1>1. /\ Tail(q) \in Seq(S) /\ Len(Tail(q)) = Len(q) - 1 /\ Len(q) \in Nat /\ Len(q) > 0
      /\ \A i \in 1 .. Len(q) - 1 : Tail(q)[i] = q[i + 1]
      /\ Head(q) = q[1] /\ Head(q) \in S
  BY HeadTailProperties
<1>2. DOMAIN q = 1 .. Len(q) /\ DOMAIN Tail(q) = 1 .. Len(q) - 1
  BY <1>1
<1> QED  BY <1>1, <1>2

LEMMA Numbers ==
    /\ MaxPayload \in Nat \ {0} /\ MaxWire \in Nat /\ MaxVisits \in Nat /\ Payload = 0 .. MaxPayload
    /\ Payload \subseteq Nat /\ 0 \in Payload /\ Movers \subseteq Items /\ Places \subseteq Items
BY PageBounds DEF Payload, Items

-----------------------------------------------------------------------------
LEMMA ChangeKeeps ==
    ASSUME PlanInv, NEW k \in Items, TwinChanges(k)
    PROVE  PlanInv'
<1> DEFINE n == Len(wire) + 1
           m == [x \in {k} |-> stored'[k]]
<1> USE Numbers
<1>1. /\ stored \in [Items -> Payload] /\ copy \in [Items -> Payload]
      /\ wire \in Seq(Plan(Items)) /\ Len(wire) <= MaxWire
  BY DEF PlanInv, PageTypes
<1>2. /\ stored' = [stored EXCEPT ![k] = @ + 1] /\ stored[k] < MaxPayload
      /\ UNCHANGED <<room, copy, fetch, floor, rescan, setBack, visits>>
      /\ \/ room = "out" /\ wire' = wire
         \/ room # "out" /\ Len(wire) < MaxWire /\ wire' = Append(wire, m)
  BY DEF TwinChanges
<1>3. /\ stored' \in [Items -> Payload] /\ \A q \in Items : stored[q] <= stored'[q]
      /\ \A q \in Items \ {k} : stored'[q] = stored[q]
  BY <1>1, <1>2
<1>4. m \in [{k} -> Payload] /\ {k} \in SUBSET Items /\ m[k] = stored'[k] /\ DOMAIN m = {k}
  BY <1>3
<1>5. m \in Plan(Items)
  BY <1>4, PlanFacts
<1> HIDE DEF m
<1>6. CASE room = "out" /\ wire' = wire
  <2>1. wire = <<>>
    BY <1>6 DEF PlanInv, WireTells
  <2>2. DOMAIN wire = {} /\ DOMAIN wire' = {}
    BY <2>1, <1>6
  <2>3. WireTells'
    BY <1>2, <1>6, <2>1, <2>2 DEF WireTells, Mentions
  <2>4. PageTypes'
    BY <1>1, <1>2, <1>3, <1>6 DEF PlanInv, PageTypes, Plan
  <2>5. NothingAhead'
    <3>1. \A q \in Items : copy'[q] <= stored'[q] /\ (fetch' # Nothing => fetch'.has[q] <= stored'[q])
      BY <1>1, <1>2, <1>3 DEF PlanInv, PageTypes, NothingAhead, Fetch
    <3> QED  BY <3>1, <1>1, <1>2, <1>3, <2>2, PlanFacts DEF PlanInv, PageTypes, NothingAhead
  <2>6. FloorFollows'
    BY <1>2 DEF PlanInv, FloorFollows
  <2> QED  BY <2>3, <2>4, <2>5, <2>6 DEF PlanInv
<1>7. CASE room # "out" /\ Len(wire) < MaxWire /\ wire' = Append(wire, m)
  <2>1. /\ wire' \in Seq(Plan(Items)) /\ Len(wire') = n /\ Len(wire) \in Nat
        /\ DOMAIN wire' = DOMAIN wire \cup {n} /\ DOMAIN wire = 1 .. Len(wire)
        /\ \A i \in DOMAIN wire : wire'[i] = wire[i]
        /\ wire'[n] = m
    BY <1>1, <1>5, <1>7, WireGrows
  <2> HIDE DEF n
  <2>n. n \in Nat /\ n = Len(wire) + 1 /\ n \notin DOMAIN wire /\ \A i \in DOMAIN wire : i \in Nat /\ i < n
    BY <2>1 DEF n
  <2>2. PageTypes'
    <3>1. Len(wire') <= MaxWire
      BY <1>7, <2>1, <2>n
    <3>2. UNCHANGED <<room, copy, fetch, floor, rescan, setBack, visits>>
      BY <1>2
    <3> QED  BY <1>3, <2>1, <3>1, <3>2 DEF PlanInv, PageTypes
  <2>3. ASSUME NEW q \in Items
        PROVE  \/ \E i \in Mentions(q)' : wire'[i][q] = stored'[q] /\ \A j \in Mentions(q)' : j <= i
               \/ Mentions(q)' = {} /\ (room' = "joined" => copy'[q] = stored'[q])
    <3>1. CASE q = k
      <4>1. n \in Mentions(q)' /\ wire'[n][q] = stored'[q]
        BY <2>1, <1>4, <3>1 DEF Mentions
      <4>2. \A j \in Mentions(q)' : j <= n
        BY <2>1, <2>n DEF Mentions
      <4> QED  BY <4>1, <4>2
    <3>2. CASE q # k
      <4>1. Mentions(q)' = Mentions(q)
        BY <2>1, <2>n, <1>4, <3>2 DEF Mentions
      <4>2. \A i \in Mentions(q) : wire'[i] = wire[i]
        BY <2>1 DEF Mentions
      <4>3. stored'[q] = stored[q] /\ copy' = copy /\ room' = room
        BY <1>2, <1>3, <3>2
      <4>4. \/ \E i \in Mentions(q) : wire[i][q] = stored[q] /\ \A j \in Mentions(q) : j <= i
            \/ Mentions(q) = {} /\ (room = "joined" => copy[q] = stored[q])
        BY DEF PlanInv, WireTells
      <4> QED  BY <4>1, <4>2, <4>3, <4>4
    <3> QED  BY <3>1, <3>2
  <2>4. WireTells'
    BY <1>2, <1>7, <2>3 DEF WireTells
  <2>5. NothingAhead'
    <3>1. \A q \in Items : copy'[q] <= stored'[q] /\ (fetch' # Nothing => fetch'.has[q] <= stored'[q])
      BY <1>1, <1>2, <1>3 DEF PlanInv, PageTypes, NothingAhead, Fetch
    <3>2. ASSUME NEW i \in DOMAIN wire', NEW q \in DOMAIN wire'[i] PROVE wire'[i][q] <= stored'[q]
      <4>1. CASE i = n
        BY <4>1, <2>1, <1>3, <1>4
      <4>2. CASE i \in DOMAIN wire
        <5>1. wire[i] \in Plan(Items) /\ wire'[i] = wire[i]
          BY <1>1, <2>1, <4>2
        <5>2. q \in Items /\ wire[i][q] \in Payload
          BY <5>1, <3>2, PlanFacts
        <5>3. wire[i][q] <= stored[q]
          BY <3>2, <4>2, <5>1 DEF PlanInv, NothingAhead
        <5> QED  BY <5>1, <5>2, <5>3, <1>1, <1>3
      <4> QED  BY <2>1, <4>1, <4>2
    <3>3. /\ \A q \in DOMAIN floor.robots : floor'.robots[q] <= stored'[q]
          /\ \A q \in DOMAIN floor.bins : floor'.bins[q] <= stored'[q]
      BY <1>1, <1>2, <1>3, PlanFacts DEF PlanInv, PageTypes, NothingAhead
    <3> QED  BY <1>2, <3>1, <3>2, <3>3 DEF NothingAhead
  <2>6. FloorFollows'
    BY <1>2 DEF PlanInv, FloorFollows
  <2> QED  BY <2>2, <2>4, <2>5, <2>6 DEF PlanInv
<1> QED  BY <1>2, <1>6, <1>7

LEMMA SendSnapshotKeeps ==
    ASSUME PlanInv, SendSnapshot
    PROVE  PlanInv'
<1> DEFINE n == Len(wire) + 1
<1> USE Numbers
<1>1. stored \in [Items -> Payload] /\ wire \in Seq(Plan(Items)) /\ Len(wire) <= MaxWire
  BY DEF PlanInv, PageTypes
<1>2. /\ room = "entered" /\ room' = "joined" /\ Len(wire) < MaxWire /\ wire' = Append(wire, stored)
      /\ UNCHANGED <<stored, copy, fetch, floor, rescan, setBack, visits>>
  BY DEF SendSnapshot
<1>3. stored \in Plan(Items) /\ DOMAIN stored = Items
  BY <1>1, PlanFacts
<1>4. /\ wire' \in Seq(Plan(Items)) /\ Len(wire') = n /\ Len(wire) \in Nat
      /\ DOMAIN wire' = DOMAIN wire \cup {n} /\ DOMAIN wire = 1 .. Len(wire)
      /\ \A i \in DOMAIN wire : wire'[i] = wire[i]
      /\ wire'[n] = stored
  BY <1>1, <1>2, <1>3, WireGrows
<1>5. n \in Nat /\ n = Len(wire) + 1 /\ \A i \in DOMAIN wire : i \in Nat /\ i < n
  BY <1>4
<1> HIDE DEF n
<1>6. PageTypes'
  <2>1. Len(wire') <= MaxWire
    BY <1>2, <1>4, <1>5
  <2> QED  BY <1>2, <1>4, <2>1 DEF PlanInv, PageTypes
<1>7. ASSUME NEW q \in Items
      PROVE  \E i \in Mentions(q)' : wire'[i][q] = stored'[q] /\ \A j \in Mentions(q)' : j <= i
  <2>1. n \in Mentions(q)' /\ wire'[n][q] = stored'[q]
    BY <1>2, <1>3, <1>4 DEF Mentions
  <2>2. \A j \in Mentions(q)' : j <= n
    BY <1>4, <1>5 DEF Mentions
  <2> QED  BY <2>1, <2>2
<1>8. WireTells'
  BY <1>2, <1>7 DEF WireTells
<1>9. NothingAhead'
  <2>1. ASSUME NEW i \in DOMAIN wire', NEW q \in DOMAIN wire'[i] PROVE wire'[i][q] <= stored'[q]
    <3>1. CASE i = n
      BY <3>1, <1>1, <1>2, <1>3, <1>4, <2>1
    <3>2. CASE i \in DOMAIN wire
      BY <3>2, <1>2, <1>4, <2>1 DEF PlanInv, NothingAhead
    <3> QED  BY <1>4, <3>1, <3>2
  <2> QED  BY <1>2, <2>1 DEF PlanInv, NothingAhead
<1>10. FloorFollows'
  BY <1>2 DEF PlanInv, FloorFollows
<1> QED  BY <1>6, <1>8, <1>9, <1>10 DEF PlanInv

\* Entering a room and leaving it.
LEMMA RoomKeeps ==
    ASSUME PlanInv, Enter \/ Cut
    PROVE  PlanInv'
<1> USE Numbers
<1>0. <<>> \in Seq(Plan(Items)) /\ Len(<<>>) = 0 /\ DOMAIN <<>> = {}
  OBVIOUS
<1>1. /\ UNCHANGED <<stored, copy, fetch, floor, rescan, setBack, visits>>
      /\ wire' = <<>> /\ room' \in {"out", "entered"} /\ (room' # "out" => visits > 0)
  BY DEF PlanInv, WireTells, Enter, Cut
<1>2. PageTypes'
  BY <1>0, <1>1 DEF PlanInv, PageTypes
<1>3. DOMAIN wire' = {}
  BY <1>0, <1>1
<1>4. WireTells'
  BY <1>1, <1>3 DEF WireTells, Mentions
<1>5. NothingAhead'
  BY <1>1, <1>3 DEF PlanInv, NothingAhead
<1>6. FloorFollows'
  BY <1>1 DEF PlanInv, FloorFollows
<1> QED  BY <1>2, <1>4, <1>5, <1>6 DEF PlanInv

\* What a message leaves on the wire still tells what is stored, and what it
\* takes off it is in the copy.
LEMMA WireReceive ==
    ASSUME PlanInv, Receive
    PROVE  /\ WireTells' /\ wire' \in Seq(Plan(Items)) /\ Len(wire') <= MaxWire
           /\ copy' \in [Items -> Payload]
           /\ \A k \in Items : copy'[k] <= stored[k] /\ (k \notin DOMAIN Head(wire) => copy'[k] = copy[k])
           /\ \A i \in DOMAIN wire' : \A k \in DOMAIN wire'[i] : wire'[i][k] <= stored[k]
           /\ DOMAIN Head(wire) \subseteq Items
<1> DEFINE h == Head(wire)
<1> USE Numbers
<1>1. /\ stored \in [Items -> Payload] /\ copy \in [Items -> Payload]
      /\ wire \in Seq(Plan(Items)) /\ Len(wire) <= MaxWire
  BY DEF PlanInv, PageTypes
<1>2. /\ wire # <<>> /\ wire' = Tail(wire) /\ stored' = stored /\ room' = room
      /\ copy' = [k \in Items |-> IF k \in DOMAIN h THEN h[k] ELSE copy[k]]
  BY DEF Receive
<1>3. /\ wire' \in Seq(Plan(Items)) /\ Len(wire') = Len(wire) - 1 /\ Len(wire) \in Nat \ {0}
      /\ DOMAIN wire = 1 .. Len(wire) /\ DOMAIN wire' = 1 .. Len(wire) - 1
      /\ \A i \in DOMAIN wire' : wire'[i] = wire[i + 1]
      /\ h = wire[1] /\ h \in Plan(Items)
  BY <1>1, <1>2, WireShrinks
<1>4. DOMAIN h \subseteq Items /\ \A k \in DOMAIN h : h[k] \in Payload
  BY <1>3, PlanFacts
<1> HIDE DEF h
<1>5. copy' \in [Items -> Payload] /\ \A k \in Items : k \notin DOMAIN h => copy'[k] = copy[k]
  BY <1>1, <1>2, <1>4
<1>6. \A i \in DOMAIN wire' : i \in Nat /\ i + 1 \in DOMAIN wire
  BY <1>3
<1>7. \A k \in Items : copy'[k] <= stored[k]
  <2> SUFFICES ASSUME NEW k \in Items PROVE copy'[k] <= stored[k]
    OBVIOUS
  <2>1. CASE k \in DOMAIN h
    <3>1. 1 \in DOMAIN wire
      BY <1>3
    <3>2. h[k] <= stored[k]
      BY <1>3, <2>1, <3>1 DEF PlanInv, NothingAhead
    <3> QED  BY <1>2, <2>1, <3>2
  <2>2. CASE k \notin DOMAIN h
    BY <1>5, <2>2 DEF PlanInv, NothingAhead
  <2> QED  BY <2>1, <2>2
<1>8. \A i \in DOMAIN wire' : \A k \in DOMAIN wire'[i] : wire'[i][k] <= stored[k]
  BY <1>3, <1>6 DEF PlanInv, NothingAhead
<1>9. ASSUME NEW q \in Items
      PROVE  \/ \E i \in Mentions(q)' : wire'[i][q] = stored'[q] /\ \A j \in Mentions(q)' : j <= i
             \/ Mentions(q)' = {} /\ (room' = "joined" => copy'[q] = stored'[q])
  <2>1. \A j \in Mentions(q)' : j \in Nat \ {0} /\ j + 1 \in Mentions(q) /\ wire'[j] = wire[j + 1]
    BY <1>3, <1>6 DEF Mentions
  <2>2. CASE Mentions(q) = {} /\ (room = "joined" => copy[q] = stored[q])
    <3>1. 1 \in DOMAIN wire /\ 1 \notin Mentions(q)
      BY <1>3, <2>2
    <3>2. q \notin DOMAIN h
      BY <1>3, <3>1 DEF Mentions
    <3>3. Mentions(q)' = {}
      BY <2>1, <2>2
    <3> QED  BY <1>2, <1>5, <2>2, <3>2, <3>3
  <2>3. ASSUME NEW i \in Mentions(q), wire[i][q] = stored[q], \A j \in Mentions(q) : j <= i
        PROVE  \/ \E m \in Mentions(q)' : wire'[m][q] = stored'[q] /\ \A j \in Mentions(q)' : j <= m
               \/ Mentions(q)' = {} /\ (room' = "joined" => copy'[q] = stored'[q])
    <3>1. i \in Nat \ {0} /\ i \in DOMAIN wire /\ q \in DOMAIN wire[i]
      BY <1>3 DEF Mentions
    <3>2. CASE i = 1
      <4>1. Mentions(q)' = {}
        <5>1. ASSUME NEW j \in Mentions(q)' PROVE FALSE
          <6>1. j \in Nat \ {0} /\ j + 1 <= 1
            BY <2>1, <2>3, <3>2, <5>1
          <6> QED  BY <6>1
        <5> QED  BY <5>1
      <4>2. copy'[q] = stored[q]
        BY <1>2, <1>3, <2>3, <3>1, <3>2
      <4> QED  BY <1>2, <4>1, <4>2
    <3>3. CASE i # 1
      <4>1. i - 1 \in DOMAIN wire' /\ (i - 1) + 1 = i
        BY <1>3, <3>1, <3>3
      <4>2. wire'[i - 1] = wire[i]
        BY <1>3, <4>1
      <4>3. i - 1 \in Mentions(q)' /\ wire'[i - 1][q] = stored'[q]
        BY <1>2, <2>3, <3>1, <4>1, <4>2 DEF Mentions
      <4>4. \A j \in Mentions(q)' : j <= i - 1
        <5>1. ASSUME NEW j \in Mentions(q)' PROVE j <= i - 1
          <6>1. j \in Nat /\ j + 1 <= i
            BY <2>1, <2>3, <5>1
          <6> QED  BY <3>1, <6>1
        <5> QED  BY <5>1
      <4> QED  BY <4>3, <4>4
    <3> QED  BY <3>2, <3>3
  <2>4. \/ \E i \in Mentions(q) : wire[i][q] = stored[q] /\ \A j \in Mentions(q) : j <= i
        \/ Mentions(q) = {} /\ (room = "joined" => copy[q] = stored[q])
    BY DEF PlanInv, WireTells
  <2> QED  BY <2>2, <2>3, <2>4
<1>10. room' = "out" => wire' = <<>>
  <2>1. room # "out"
    BY <1>2 DEF PlanInv, WireTells
  <2> QED  BY <1>2, <2>1
<1>11. WireTells'
  BY <1>9, <1>10 DEF WireTells
<1>12. Len(wire') <= MaxWire
  BY <1>1, <1>3
<1> QED  BY <1>3, <1>4, <1>5, <1>7, <1>8, <1>11, <1>12 DEF h

\* What the store's effects put on the page.
LEMMA EffectFacts ==
    ASSUME floor \in [robots : Plan(Movers), bins : Plan(Places)], NEW c \in [Items -> Payload]
    PROVE  /\ RobotsShown(c) \in Plan(Movers) /\ Bins(c) \in Plan(Places)
           /\ DOMAIN Bins(c) = DOMAIN floor.bins
           /\ \A r \in Movers : c[r] = 0 \/ (r \in DOMAIN RobotsShown(c) /\ RobotsShown(c)[r] = c[r])
           /\ \A r \in DOMAIN RobotsShown(c) :
                 RobotsShown(c)[r] = c[r] \/ (r \in DOMAIN floor.robots /\ RobotsShown(c)[r] = floor.robots[r])
           /\ \A b \in DOMAIN Bins(c) : Bins(c)[b] >= c[b] /\ Bins(c)[b] \in {c[b], floor.bins[b]}
<1> USE Numbers
<1>1. /\ floor.robots \in Plan(Movers) /\ floor.bins \in Plan(Places)
      /\ DOMAIN floor.bins \subseteq Places /\ \A b \in DOMAIN floor.bins : floor.bins[b] \in Payload
  BY PlanFacts
<1>2. /\ Filled(c, Movers) \in Plan(Movers) /\ DOMAIN Filled(c, Movers) = {k \in Movers : c[k] # 0}
      /\ \A k \in Movers : c[k] # 0 => Filled(c, Movers)[k] = c[k]
      /\ Filled(c, Movers) = <<>> => \A k \in Movers : c[k] = 0
  BY KnownFacts
<1>3. /\ RobotsShown(c) \in Plan(Movers)
      /\ \A r \in Movers : c[r] = 0 \/ (r \in DOMAIN RobotsShown(c) /\ RobotsShown(c)[r] = c[r])
      /\ \A r \in DOMAIN RobotsShown(c) :
            RobotsShown(c)[r] = c[r] \/ (r \in DOMAIN floor.robots /\ RobotsShown(c)[r] = floor.robots[r])
  <2>1. CASE Filled(c, Movers) = <<>>
    <3>1. RobotsShown(c) = floor.robots
      BY <2>1 DEF RobotsShown
    <3> QED  BY <1>1, <1>2, <2>1, <3>1
  <2>2. CASE Filled(c, Movers) # <<>>
    <3>1. RobotsShown(c) = Filled(c, Movers)
      BY <2>2 DEF RobotsShown
    <3> QED  BY <1>2, <3>1
  <2> QED  BY <2>1, <2>2
<1>4. DOMAIN Bins(c) = DOMAIN floor.bins /\ Bins(c) \in [DOMAIN floor.bins -> Payload]
  BY <1>1 DEF Bins
<1>5. Bins(c) \in Plan(Places)
  BY <1>1, <1>4, PlanFacts
<1>6. \A b \in DOMAIN Bins(c) : Bins(c)[b] >= c[b] /\ Bins(c)[b] \in {c[b], floor.bins[b]}
  BY <1>1, <1>4 DEF Bins
<1> QED  BY <1>3, <1>4, <1>5, <1>6

LEMMA ReceiveKeeps ==
    ASSUME PlanInv, Receive
    PROVE  PlanInv'
<1> DEFINE h == Head(wire)
           told == DOMAIN h
<1> USE Numbers
<1>1. /\ WireTells' /\ wire' \in Seq(Plan(Items)) /\ Len(wire') <= MaxWire
      /\ copy' \in [Items -> Payload]
      /\ \A k \in Items : copy'[k] <= stored[k] /\ (k \notin told => copy'[k] = copy[k])
      /\ \A i \in DOMAIN wire' : \A k \in DOMAIN wire'[i] : wire'[i][k] <= stored[k]
      /\ told \subseteq Items
  BY WireReceive
<1>2. /\ floor' = [robots |-> IF told \cap Movers = {} THEN floor.robots ELSE RobotsShown(copy'),
                   bins   |-> IF told \cap Places = {} THEN floor.bins ELSE Bins(copy')]
      /\ setBack' = setBack \ UNION {S \in {Movers, Places} : told \cap S # {}}
      /\ UNCHANGED <<stored, room, fetch, rescan, visits>>
  BY DEF Receive
<1> HIDE DEF h, told
<1>3. /\ stored \in [Items -> Payload] /\ copy \in [Items -> Payload] /\ setBack \subseteq Items
      /\ floor \in [robots : Plan(Movers), bins : Plan(Places)] /\ visits \in Nat
  BY DEF PlanInv, PageTypes
<1>4. DEFINE R == RobotsShown(copy')
             B == Bins(copy')
             c == copy'
<1>5. /\ R \in Plan(Movers) /\ B \in Plan(Places)
      /\ DOMAIN B = DOMAIN floor.bins
      /\ \A r \in Movers : c[r] = 0 \/ (r \in DOMAIN R /\ R[r] = c[r])
      /\ \A r \in DOMAIN R : R[r] = c[r] \/ (r \in DOMAIN floor.robots /\ R[r] = floor.robots[r])
      /\ \A b \in DOMAIN B : B[b] >= c[b] /\ B[b] \in {c[b], floor.bins[b]}
  BY <1>1, <1>3, EffectFacts
<1>6. /\ floor' = [robots |-> IF told \cap Movers = {} THEN floor.robots ELSE R,
                   bins   |-> IF told \cap Places = {} THEN floor.bins ELSE B]
      /\ c = copy'
  BY <1>2
<1> HIDE DEF R, B, c
<1>7. PageTypes'
  <2>1. floor' \in [robots : Plan(Movers), bins : Plan(Places)]
    BY <1>3, <1>5, <1>6
  <2>2. UNCHANGED <<stored, room, fetch, rescan, visits>> /\ setBack' \subseteq Items
    BY <1>2, <1>3
  <2> QED  BY <1>1, <2>1, <2>2 DEF PlanInv, PageTypes
<1>8. /\ floor.robots \in Plan(Movers) /\ floor.bins \in Plan(Places)
      /\ DOMAIN floor.robots \subseteq Movers /\ DOMAIN floor.bins \subseteq Places
      /\ DOMAIN R \subseteq Movers
  BY <1>3, <1>5, PlanFacts
<1>9. NothingAhead'
  <2>1. \A k \in DOMAIN floor'.robots : floor'.robots[k] <= stored[k]
    <3>1. \A k \in DOMAIN floor.robots : floor.robots[k] <= stored[k]
      BY DEF PlanInv, NothingAhead
    <3>2. \A k \in DOMAIN R : R[k] <= stored[k]
      BY <1>1, <1>5, <1>6, <1>8, <3>1
    <3> QED  BY <1>6, <3>1, <3>2
  <2>2. \A k \in DOMAIN floor'.bins : floor'.bins[k] <= stored[k]
    <3>1. \A k \in DOMAIN floor.bins : floor.bins[k] <= stored[k]
      BY DEF PlanInv, NothingAhead
    <3>2. \A k \in DOMAIN B : B[k] <= stored[k]
      BY <1>1, <1>5, <1>6, <1>8, <3>1
    <3> QED  BY <1>6, <3>1, <3>2
  <2>3. \A k \in Items : copy'[k] <= stored'[k] /\ (fetch' # Nothing => fetch'.has[k] <= stored'[k])
    BY <1>1, <1>2 DEF PlanInv, NothingAhead
  <2> QED  BY <1>1, <1>2, <2>1, <2>2, <2>3 DEF NothingAhead
<1>10. FloorFollows'
  <2>1. room' # "out" => visits' > 0
    BY <1>2 DEF PlanInv, FloorFollows
  <2>2. Movers \cap Places = {}
    BY PageBounds
  <2>3. ASSUME NEW r \in Movers \ setBack', visits > 0
        PROVE  c[r] = 0 \/ (r \in DOMAIN floor'.robots /\ floor'.robots[r] >= c[r])
    <3>1. CASE told \cap Movers = {}
      <4>1. r \notin setBack /\ r \notin told
        BY <1>2, <2>2, <2>3, <3>1
      <4>2. copy[r] = 0 \/ (r \in DOMAIN floor.robots /\ floor.robots[r] >= copy[r])
        BY <2>3, <4>1 DEF PlanInv, FloorFollows
      <4>3. c[r] = copy[r] /\ floor'.robots = floor.robots
        BY <1>1, <1>6, <2>3, <3>1, <4>1
      <4> QED  BY <4>2, <4>3
    <3>2. CASE told \cap Movers # {}
      <4>1. floor'.robots = R
        BY <1>6, <3>2
      <4>2. c[r] = 0 \/ (r \in DOMAIN R /\ R[r] = c[r])
        BY <1>5, <2>3
      <4>3. c[r] \in Nat
        BY <1>1, <1>6, <2>3
      <4> QED  BY <4>1, <4>2, <4>3
    <3> QED  BY <3>1, <3>2
  <2>4. ASSUME NEW b \in DOMAIN floor'.bins, b \notin setBack', visits > 0
        PROVE  floor'.bins[b] >= c[b]
    <3>1. CASE told \cap Places = {}
      <4>1. floor'.bins = floor.bins
        BY <1>6, <3>1
      <4>2. b \in Places
        BY <1>8, <2>4, <4>1
      <4>3. b \notin setBack /\ b \notin told
        BY <1>2, <2>2, <2>4, <3>1, <4>2
      <4>4. floor.bins[b] >= copy[b]
        BY <2>4, <4>1, <4>3 DEF PlanInv, FloorFollows
      <4>5. c[b] = copy[b]
        BY <1>1, <1>6, <4>2, <4>3
      <4> QED  BY <4>1, <4>4, <4>5
    <3>2. CASE told \cap Places # {}
      BY <1>5, <1>6, <2>4, <3>2
    <3> QED  BY <3>1, <3>2
  <2> QED  BY <1>2, <1>6, <2>1, <2>3, <2>4 DEF FloorFollows
<1> QED  BY <1>1, <1>7, <1>9, <1>10 DEF PlanInv

LEMMA PageOpens ==
    ASSUME PlanInv, Open
    PROVE  PlanInv'
<1> USE Numbers
<1>0. <<>> \in Seq(Plan(Items)) /\ Len(<<>>) = 0 /\ DOMAIN <<>> = {}
  OBVIOUS
<1>1. /\ visits < MaxVisits /\ visits' = visits + 1
      /\ fetch' = [bins |-> "asked", robots |-> "asked", has |-> [k \in Items |-> 0]]
      /\ floor' = [robots |-> Filled(copy, Movers), bins |-> <<>>]
      /\ room' = "out" /\ wire' = <<>> /\ rescan' = Nothing /\ setBack' = {}
      /\ UNCHANGED <<stored, copy>>
  BY DEF Open
<1>2. stored \in [Items -> Payload] /\ copy \in [Items -> Payload] /\ visits \in 0 .. MaxVisits
  BY DEF PlanInv, PageTypes
<1>3. /\ Filled(copy, Movers) \in Plan(Movers) /\ DOMAIN Filled(copy, Movers) = {k \in Movers : copy[k] # 0}
      /\ \A k \in Movers : copy[k] # 0 => Filled(copy, Movers)[k] = copy[k]
  BY <1>2, KnownFacts
<1>4. <<>> \in Plan(Places)
  <2>1. <<>> \in [{} -> Payload] /\ {} \in SUBSET Places
    OBVIOUS
  <2> QED  BY <2>1, PlanFacts
<1>5. PageTypes'
  <2>1. floor' \in [robots : Plan(Movers), bins : Plan(Places)]
    BY <1>1, <1>3, <1>4
  <2>2. fetch' \in Fetch
    BY <1>1 DEF Fetch
  <2>3. visits' \in 0 .. MaxVisits
    BY <1>1, <1>2
  <2> QED  BY <1>0, <1>1, <1>2, <2>1, <2>2, <2>3 DEF PageTypes
<1>6. WireTells'
  BY <1>0, <1>1 DEF WireTells, Mentions
<1>7. \A k \in Items : copy[k] <= stored[k]
  BY DEF PlanInv, NothingAhead
<1>8. NothingAhead'
  <2>1. \A k \in DOMAIN floor'.robots : floor'.robots[k] <= stored'[k]
    BY <1>1, <1>3, <1>7
  <2>2. DOMAIN floor'.bins = {}
    BY <1>0, <1>1
  <2>3. \A k \in Items : fetch'.has[k] <= stored'[k]
    BY <1>1, <1>2
  <2> QED  BY <1>0, <1>1, <1>7, <2>1, <2>2, <2>3 DEF NothingAhead
<1>9. FloorFollows'
  <2>1. \A r \in Movers : copy'[r] = 0 \/ (r \in DOMAIN floor'.robots /\ floor'.robots[r] >= copy'[r])
    BY <1>1, <1>2, <1>3
  <2>2. DOMAIN floor'.bins = {}
    BY <1>0, <1>1
  <2> QED  BY <1>1, <2>1, <2>2 DEF FloorFollows
<1> QED  BY <1>5, <1>6, <1>8, <1>9 DEF PlanInv

\* What leaves the wire and the copy alone.
LEMMA WireStays ==
    ASSUME PlanInv, UNCHANGED <<stored, room, wire, copy, visits>>
    PROVE  /\ WireTells'
           /\ \A k \in Items : copy'[k] <= stored'[k]
           /\ \A i \in DOMAIN wire' : \A k \in DOMAIN wire'[i] : wire'[i][k] <= stored'[k]
           /\ room' # "out" => visits' > 0
BY DEF PlanInv, WireTells, NothingAhead, FloorFollows, Mentions

LEMMA FetchReads ==
    ASSUME PlanInv, NEW half \in {"bins", "robots"}, NEW keys, RouteReads(half, keys)
    PROVE  PlanInv'
<1> USE Numbers
<1>1. /\ fetch # Nothing /\ fetch[half] = "asked"
      /\ UNCHANGED <<stored, room, wire, copy, floor, rescan, setBack, visits>>
      /\ \/ fetch' = [fetch EXCEPT ![half] = "answered",
                            !.has = [k \in Items |-> IF k \in keys THEN stored[k] ELSE @[k]]]
         \/ fetch' = [fetch EXCEPT ![half] = "failed"]
  BY DEF RouteReads
<1>2. stored \in [Items -> Payload] /\ fetch \in Fetch
  BY <1>1 DEF PlanInv, PageTypes
<1>3. \A k \in Items : fetch.has[k] <= stored[k]
  BY <1>1 DEF PlanInv, NothingAhead
<1>4. fetch' \in Fetch /\ \A k \in Items : fetch'.has[k] <= stored[k]
  <2>1. CASE fetch' = [fetch EXCEPT ![half] = "failed"]
    BY <1>2, <1>3, <2>1 DEF Fetch
  <2>2. CASE fetch' = [fetch EXCEPT ![half] = "answered",
                            !.has = [k \in Items |-> IF k \in keys THEN stored[k] ELSE @[k]]]
    <3> DEFINE has == [k \in Items |-> IF k \in keys THEN stored[k] ELSE fetch.has[k]]
    <3>1. has \in [Items -> Payload] /\ \A k \in Items : has[k] <= stored[k]
      BY <1>2, <1>3 DEF Fetch
    <3>2. fetch' = [fetch EXCEPT ![half] = "answered", !.has = has]
      BY <1>2, <2>2 DEF Fetch
    <3> HIDE DEF has
    <3>3. fetch' \in Fetch /\ fetch'.has = has
      BY <1>2, <3>1, <3>2 DEF Fetch
    <3> QED  BY <3>1, <3>3
  <2> QED  BY <1>1, <2>1, <2>2
<1>5. PageTypes'
  BY <1>1, <1>4 DEF PlanInv, PageTypes
<1>6. NothingAhead'
  BY <1>1, <1>4 DEF PlanInv, NothingAhead
<1>7. FloorFollows'
  BY <1>1 DEF PlanInv, FloorFollows
<1> QED  BY <1>1, <1>5, <1>6, <1>7, WireStays DEF PlanInv

LEMMA FetchKeeps ==
    ASSUME PlanInv, FetchArrives
    PROVE  PlanInv'
<1> USE Numbers
<1>1. /\ fetch # Nothing /\ "asked" \notin {fetch.bins, fetch.robots} /\ fetch.robots # "elsewhere"
      /\ floor' = [robots |-> IF fetch.robots = "failed" THEN floor.robots
                              ELSE Filled(fetch.has, Movers),
                   bins   |-> Filled(fetch.has, Places)]
      /\ setBack' = (setBack \ Places) \cup Older(Places)
                 \cup (IF fetch.robots = "failed" THEN {} ELSE Older(Movers))
      /\ fetch' = IF fetch.robots = "failed" THEN [fetch EXCEPT !.robots = "elsewhere"] ELSE Nothing
      /\ UNCHANGED <<stored, room, wire, copy, rescan, visits>>
  BY DEF FetchArrives
<1>2. /\ stored \in [Items -> Payload] /\ copy \in [Items -> Payload] /\ fetch \in Fetch
      /\ setBack \subseteq Items /\ floor \in [robots : Plan(Movers), bins : Plan(Places)]
  BY <1>1 DEF PlanInv, PageTypes
<1>3. /\ fetch.has \in [Items -> Payload]
      /\ fetch' = Nothing \/ (fetch' \in Fetch /\ fetch'.has = fetch.has)
  BY <1>1, <1>2 DEF Fetch
<1>4. \A k \in Items : fetch.has[k] <= stored[k] /\ copy[k] <= stored[k]
  BY <1>1 DEF PlanInv, NothingAhead
<1> DEFINE R == Filled(fetch.has, Movers)
           B == Filled(fetch.has, Places)
<1>5. /\ R \in Plan(Movers) /\ DOMAIN R = {k \in Movers : fetch.has[k] # 0}
      /\ \A k \in Movers : fetch.has[k] # 0 => R[k] = fetch.has[k]
      /\ B \in Plan(Places) /\ DOMAIN B = {k \in Places : fetch.has[k] # 0}
      /\ \A k \in Places : fetch.has[k] # 0 => B[k] = fetch.has[k]
  BY <1>3, KnownFacts
<1>6. floor' = [robots |-> IF fetch.robots = "failed" THEN floor.robots ELSE R, bins |-> B]
  BY <1>1
<1> HIDE DEF R, B
<1>7. PageTypes'
  <2>1. floor' \in [robots : Plan(Movers), bins : Plan(Places)]
    BY <1>2, <1>5, <1>6
  <2>2. setBack' \subseteq Items
    BY <1>1, <1>2 DEF Older
  <2> QED  BY <1>1, <1>3, <2>1, <2>2 DEF PlanInv, PageTypes
<1>8. NothingAhead'
  <2>1. \A k \in DOMAIN floor'.robots : floor'.robots[k] <= stored'[k]
    BY <1>1, <1>4, <1>5, <1>6 DEF PlanInv, NothingAhead
  <2>2. \A k \in DOMAIN floor'.bins : floor'.bins[k] <= stored'[k]
    BY <1>1, <1>4, <1>5, <1>6
  <2> QED  BY <1>1, <1>3, <1>4, <2>1, <2>2, WireStays DEF NothingAhead
<1>9. FloorFollows'
  <2>1. ASSUME NEW r \in Movers \ setBack', visits > 0
        PROVE  copy[r] = 0 \/ (r \in DOMAIN floor'.robots /\ floor'.robots[r] >= copy[r])
    <3>1. CASE fetch.robots = "failed"
      <4>1. r \notin setBack
        BY <1>1, <2>1, <3>1, PageBounds
      <4> QED  BY <1>6, <2>1, <3>1, <4>1 DEF PlanInv, FloorFollows
    <3>2. CASE fetch.robots # "failed"
      <4>1. ~ (fetch.has[r] < copy[r])
        BY <1>1, <2>1, <3>2 DEF Older
      <4>2. fetch.has[r] \in Nat /\ copy[r] \in Nat
        BY <1>2, <1>3
      <4> QED  BY <1>5, <1>6, <2>1, <3>2, <4>1, <4>2
    <3> QED  BY <3>1, <3>2
  <2>2. ASSUME NEW b \in DOMAIN floor'.bins, b \notin setBack' PROVE floor'.bins[b] >= copy[b]
    <3>1. b \in Places /\ floor'.bins[b] = fetch.has[b]
      BY <1>5, <1>6, <2>2
    <3>2. ~ (fetch.has[b] < copy[b])
      BY <1>1, <2>2, <3>1 DEF Older
    <3>3. fetch.has[b] \in Nat /\ copy[b] \in Nat
      BY <1>2, <1>3, <3>1
    <3> QED  BY <3>1, <3>2, <3>3
  <2> QED  BY <1>1, <2>1, <2>2, WireStays DEF FloorFollows
<1> QED  BY <1>1, <1>7, <1>8, <1>9, WireStays DEF PlanInv

LEMMA ElsewhereKeeps ==
    ASSUME PlanInv, RobotsElsewhere
    PROVE  PlanInv'
<1> USE Numbers
<1>1. PICK S \in {{}, Movers} : floor' = [floor EXCEPT !.robots = [r \in S |-> 0]]
  BY DEF RobotsElsewhere
<1>2. /\ fetch' = Nothing /\ setBack' = setBack \cup Movers
      /\ UNCHANGED <<stored, room, wire, copy, rescan, visits>>
  BY DEF RobotsElsewhere
<1>3. /\ stored \in [Items -> Payload] /\ setBack \subseteq Items
      /\ floor \in [robots : Plan(Movers), bins : Plan(Places)]
  BY DEF PlanInv, PageTypes
<1>4. [r \in S |-> 0] \in [S -> Payload] /\ S \in SUBSET Movers
  OBVIOUS
<1>5. [r \in S |-> 0] \in Plan(Movers)
  BY <1>4, PlanFacts
<1>6. /\ floor' \in [robots : Plan(Movers), bins : Plan(Places)]
      /\ floor'.robots = [r \in S |-> 0] /\ floor'.bins = floor.bins
  BY <1>1, <1>3, <1>5
<1>7. PageTypes'
  BY <1>2, <1>3, <1>6 DEF PlanInv, PageTypes
<1>8. NothingAhead'
  <2>1. \A k \in DOMAIN floor'.robots : floor'.robots[k] <= stored'[k]
    BY <1>2, <1>3, <1>4, <1>6
  <2> QED  BY <1>2, <1>6, <2>1, WireStays DEF PlanInv, NothingAhead
<1>9. FloorFollows'
  <2>1. \A b \in DOMAIN floor'.bins \ setBack' : visits' > 0 => floor'.bins[b] >= copy'[b]
    BY <1>2, <1>6 DEF PlanInv, FloorFollows
  <2> QED  BY <1>2, <2>1, WireStays DEF FloorFollows
<1> QED  BY <1>2, <1>7, <1>8, <1>9, WireStays DEF PlanInv

LEMMA RescanKeeps ==
    ASSUME PlanInv, RescanAnswered \/ \E b \in Places : HandleRescan(b)
    PROVE  PlanInv'
<1> USE Numbers
<1>1. /\ UNCHANGED <<stored, room, wire, copy, fetch, visits>> /\ rescan' \in Places \cup {Nothing}
      /\ \/ UNCHANGED <<floor, setBack>>
         \/ /\ rescan \in DOMAIN floor.bins /\ setBack' = setBack \cup {rescan}
            /\ floor' = [floor EXCEPT !.bins[rescan] = 0]
  BY DEF RescanAnswered, HandleRescan
<1>2. /\ stored \in [Items -> Payload] /\ setBack \subseteq Items
      /\ floor \in [robots : Plan(Movers), bins : Plan(Places)]
  BY DEF PlanInv, PageTypes
<1>3. CASE UNCHANGED <<floor, setBack>>
  <2>1. PageTypes'
    BY <1>1, <1>3 DEF PlanInv, PageTypes
  <2>2. NothingAhead'
    BY <1>1, <1>3 DEF PlanInv, NothingAhead
  <2>3. FloorFollows'
    BY <1>1, <1>3 DEF PlanInv, FloorFollows
  <2> QED  BY <1>1, <2>1, <2>2, <2>3, WireStays DEF PlanInv
<1>4. CASE /\ rescan \in DOMAIN floor.bins /\ setBack' = setBack \cup {rescan}
           /\ floor' = [floor EXCEPT !.bins[rescan] = 0]
  <2>1. /\ floor.bins = [x \in DOMAIN floor.bins |-> floor.bins[x]]
        /\ DOMAIN floor.bins \in SUBSET Places
        /\ \A x \in DOMAIN floor.bins : floor.bins[x] \in Payload
    BY <1>2, PlanFacts
  <2>2. floor'.robots = floor.robots /\ floor'.bins = [floor.bins EXCEPT ![rescan] = 0]
    BY <1>2, <1>4
  <2>3. floor'.bins \in [DOMAIN floor.bins -> Payload]
    BY <2>1, <2>2
  <2>4. floor' \in [robots : Plan(Movers), bins : Plan(Places)]
    <3>1. floor'.bins \in Plan(Places)
      BY <2>1, <2>3, PlanFacts
    <3> QED  BY <1>2, <1>4, <2>2, <3>1
  <2>5. setBack' \subseteq Items
    BY <1>2, <1>4, <2>1
  <2>6. PageTypes'
    BY <1>1, <2>4, <2>5 DEF PlanInv, PageTypes
  <2>7. NothingAhead'
    <3>1. \A k \in DOMAIN floor'.bins : floor'.bins[k] <= stored'[k]
      BY <1>1, <1>2, <2>1, <2>2 DEF PlanInv, NothingAhead
    <3> QED  BY <1>1, <2>2, <3>1 DEF PlanInv, NothingAhead
  <2>8. FloorFollows'
    <3>1. \A b \in DOMAIN floor'.bins \ setBack' : b \in DOMAIN floor.bins \ setBack /\ floor'.bins[b] = floor.bins[b]
      BY <1>4, <2>1, <2>2
    <3> QED  BY <1>1, <1>4, <2>2, <3>1 DEF PlanInv, FloorFollows
  <2> QED  BY <1>1, <2>6, <2>7, <2>8, WireStays DEF PlanInv
<1> QED  BY <1>1, <1>3, <1>4

-----------------------------------------------------------------------------
LEMMA PlanInit == TwinPageInit => PlanInv
<1> SUFFICES ASSUME TwinPageInit PROVE PlanInv
  OBVIOUS
<1> USE Numbers
<1>0. <<>> \in Seq(Plan(Items)) /\ Len(<<>>) = 0 /\ DOMAIN <<>> = {}
  OBVIOUS
<1>1. <<>> \in Plan(Movers) /\ <<>> \in Plan(Places)
  <2>1. <<>> \in [{} -> Payload] /\ {} \in SUBSET Movers /\ {} \in SUBSET Places
    OBVIOUS
  <2> QED  BY <2>1, PlanFacts
<1>2. /\ stored \in [Items -> Payload] /\ copy \in [Items -> Payload]
      /\ \A k \in Items : copy[k] <= stored[k]
  BY DEF TwinPageInit
<1>3. /\ room = "out" /\ wire = <<>> /\ fetch = Nothing /\ rescan = Nothing
      /\ floor = [robots |-> <<>>, bins |-> <<>>] /\ setBack = {} /\ visits = 0
  BY DEF TwinPageInit
<1>4. PageTypes
  <2>1. floor \in [robots : Plan(Movers), bins : Plan(Places)]
    BY <1>1, <1>3
  <2> QED  BY <1>0, <1>2, <1>3, <2>1 DEF PageTypes
<1>5. WireTells
  BY <1>0, <1>3 DEF WireTells, Mentions
<1>6. NothingAhead
  BY <1>0, <1>2, <1>3 DEF NothingAhead
<1>7. FloorFollows
  BY <1>3 DEF FloorFollows
<1> QED  BY <1>4, <1>5, <1>6, <1>7 DEF PlanInv

LEMMA PlanNext == PlanInv /\ [TwinPageNext]_floorPlan => PlanInv'
<1> SUFFICES ASSUME PlanInv, [TwinPageNext]_floorPlan PROVE PlanInv'
  OBVIOUS
<1>1. CASE UNCHANGED floorPlan
  BY <1>1 DEF floorPlan, PlanInv, PageTypes, WireTells, NothingAhead, FloorFollows, Mentions
<1>2. ASSUME NEW k \in Items, TwinChanges(k) PROVE PlanInv'
  BY <1>2, ChangeKeeps
<1>3. CASE Enter \/ Cut
  BY <1>3, RoomKeeps
<1>4. CASE SendSnapshot
  BY <1>4, SendSnapshotKeeps
<1>5. CASE Receive
  BY <1>5, ReceiveKeeps
<1>6. CASE Open
  BY <1>6, PageOpens
<1>7. CASE RouteReads("bins", Places)
  BY <1>7, FetchReads
<1>8. CASE RouteReads("robots", Movers)
  BY <1>8, FetchReads
<1>9. CASE FetchArrives
  BY <1>9, FetchKeeps
<1>10. CASE RobotsElsewhere
  BY <1>10, ElsewhereKeeps
<1>11. CASE RescanAnswered \/ \E b \in Places : HandleRescan(b)
  BY <1>11, RescanKeeps
<1> QED  BY <1>1, <1>2, <1>3, <1>4, <1>5, <1>6, <1>7, <1>8, <1>9, <1>10, <1>11 DEF TwinPageNext

\* With nothing on the way the copy is what is stored, and the page shows
\* no less than the copy and no more than what is stored.
LEMMA PlanFollows == PlanInv => TwinPageInv
<1> SUFFICES ASSUME PlanInv PROVE TwinPageInv
  OBVIOUS
<1> USE Numbers
<1>1. /\ stored \in [Items -> Payload] /\ copy \in [Items -> Payload]
      /\ floor \in [robots : Plan(Movers), bins : Plan(Places)]
  BY DEF PlanInv, PageTypes
<1>2. /\ floor.robots \in Plan(Movers) /\ floor.bins \in Plan(Places)
      /\ DOMAIN floor.robots \subseteq Movers /\ DOMAIN floor.bins \subseteq Places
      /\ \A r \in DOMAIN floor.robots : floor.robots[r] \in Payload
      /\ \A b \in DOMAIN floor.bins : floor.bins[b] \in Payload
  BY <1>1, PlanFacts
<1>3. TwinPageTypeOK
  <2>1. Range(floor.robots) \cup Range(floor.bins) \subseteq Payload
    BY <1>2 DEF Range
  <2> QED  BY <1>2, <2>1 DEF PlanInv, PageTypes, TwinPageTypeOK
<1>4. ASSUME room = "joined", wire = <<>>, fetch = Nothing PROVE
        /\ \A r \in Movers \ setBack : stored[r] # 0 =>
               r \in DOMAIN floor.robots /\ floor.robots[r] = stored[r]
        /\ \A b \in DOMAIN floor.bins \ setBack : floor.bins[b] = stored[b]
  <2>1. DOMAIN wire = {} /\ visits > 0
    BY <1>4 DEF PlanInv, FloorFollows
  <2>2. \A k \in Items : copy[k] = stored[k]
    BY <1>4, <2>1 DEF PlanInv, WireTells, Mentions
  <2>3. ASSUME NEW r \in Movers \ setBack, stored[r] # 0
        PROVE  r \in DOMAIN floor.robots /\ floor.robots[r] = stored[r]
    <3>1. r \in DOMAIN floor.robots /\ floor.robots[r] >= stored[r]
      BY <2>1, <2>2, <2>3 DEF PlanInv, FloorFollows
    <3>2. floor.robots[r] <= stored[r] /\ floor.robots[r] \in Nat /\ stored[r] \in Nat
      BY <1>1, <1>2, <3>1 DEF PlanInv, NothingAhead
    <3> QED  BY <3>1, <3>2
  <2>4. ASSUME NEW b \in DOMAIN floor.bins \ setBack PROVE floor.bins[b] = stored[b]
    <3>1. b \in Items /\ floor.bins[b] >= stored[b]
      BY <1>2, <2>1, <2>2, <2>4 DEF PlanInv, FloorFollows
    <3>2. floor.bins[b] <= stored[b] /\ floor.bins[b] \in Nat /\ stored[b] \in Nat
      BY <1>1, <1>2, <2>4, <3>1 DEF PlanInv, NothingAhead
    <3> QED  BY <3>1, <3>2
  <2> QED  BY <2>3, <2>4
<1> QED  BY <1>3, <1>4 DEF TwinPageInv, PlanShows

-----------------------------------------------------------------------------
(* The dashboard's parts together.                                         *)

BoardKept == ShellInv /\ AdminInv /\ FiguresInv /\ PlanInv

\* A step of one part leaves the others alone.
LEMMA PartsStep ==
    ASSUME [BoardNext]_board
    PROVE  /\ [RemoteShellNext]_terminal /\ [AdministrationNext]_admin
           /\ [StatisticsNext]_statistics /\ [TwinPageNext]_floorPlan
BY DEF BoardNext, board

LEMMA BoardStarts ==
    ASSUME BoardInit
    PROVE  BoardKept
BY ShellInit, AdminInit, FiguresInit, PlanInit DEF BoardInit, BoardKept

LEMMA BoardSteps ==
    ASSUME BoardKept, [BoardNext]_board
    PROVE  BoardKept'
BY PartsStep, ShellNext, AdminNext, FiguresNext, PlanNext DEF BoardKept

\* Whatever connects, disconnects, evictions and cleanups interleave, every
\* session that was opened and not closed is held by the registry or by the
\* thread that opened it (ssh_proxy.py; the client of a connect that failed
\* half way is no session, and stays connected); however handlers
\* overlap, a row holds what was last asked of it unless its last writer had
\* read it too early, and who has a token has a login in the trail
\* (admin_router.py, auth_service.py); and the floor plan comes to show what
\* the twin stores (DigitalTwin.tsx).
THEOREM BoardCorrect == BoardSpec => []BoardInv
<1>1. BoardKept => BoardInv
  BY PlanFollows, FiguresFollow DEF BoardKept, BoardInv, ShellInv, AdminInv
<1> QED  BY <1>1, BoardStarts, BoardSteps, PTL DEF BoardSpec

\* Once every change of the settings has been answered the audit trail shows
\* them as they are, unless an audit row failed after its commit
\* (update_org_settings).
THEOREM TrailCorrect == BoardSpec => []TrailShows
<1>1. BoardKept => TrailShows
  BY TrailFollows DEF BoardKept
<1> QED  BY <1>1, BoardStarts, BoardSteps, PTL DEF BoardSpec

\* A trend's points count what was raised on their days whatever midnight
\* and others' commits do, and the figures of one answer differ by no more
\* than what was committed between its statements (reconciliation_repo.py).
THEOREM FiguresCorrect == BoardSpec => []Figures
<1>1. BoardKept => Figures
  BY FiguresFollow DEF BoardKept
<1> QED  BY <1>1, BoardStarts, BoardSteps, PTL DEF BoardSpec
=============================================================================

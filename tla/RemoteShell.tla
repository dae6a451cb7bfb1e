----------------------------- MODULE RemoteShell -----------------------------
(***************************************************************************)
(* The administrator's terminal: AdminOverview.tsx types a command, the    *)
(* Socket.IO server relays it to the warehouse's room, and two programs on *)
(* the scanner hear it: remote_shell.py runs it as it is, ssh_proxy.py     *)
(* opens a session for a connect request and types everything else into    *)
(* the session of that id.                                                 *)
(*                                                                         *)
(* The Socket.IO client gives every message a thread of its own, each      *)
(* session has a relay thread, and a cleanup thread looks for idle         *)
(* sessions; a lock guards the registry alone.                             *)
(***************************************************************************)
EXTENDS Naturals, SequencesExt, FiniteSetsExt

CONSTANTS
    Sessions,    \* the ids a terminal makes up, one for each connect
    Commands,    \* lines typed, each once
    MaxShells, \* SSH_PROXY_MAX_SESSIONS
    NoSession

ASSUME ShellAssumption == MaxShells \in Nat \ {0}

VARIABLES
    shell,     \* sshSessionId
    fresh,     \* ids not yet made up
    unsaid,    \* commands not yet typed
    threads,   \* the proxy's handlers at work: [what, id, command, at]
    link,      \* per session: its client is "none", "up", "down", or "left" connected
    active,    \* sessions whose _active is set
    hungUp,    \* sessions whose channel the other side has closed
    idle,      \* sessions quiet for longer than SSH_PROXY_IDLE_TIMEOUT
    registry,  \* _sessions in the order of insertion
    victims,   \* what the cleanup thread has yet to remove
    joined,    \* the proxy is connected and in the warehouse's room
    typed,     \* lines that went into each session's channel
    ran        \* lines remote_shell.py has run

dashboard == <<shell, fresh, unsaid>>
session   == <<link, active, hungUp, idle>>
terminal      == <<dashboard, threads, session, registry, victims, joined, typed, ran>>

Thread == [what : {"connect", "disconnect", "line"}, id : Sessions \cup {NoSession},
           command : Commands \cup {NoSession}, at : {"start", "opened", "found"}]

RemoteShellTypeOK ==
    /\ shell \in Sessions \cup {NoSession} /\ fresh \subseteq Sessions /\ unsaid \subseteq Commands
    /\ threads \subseteq Thread /\ link \in [Sessions -> {"none", "up", "down", "left"}]
    /\ active \subseteq Sessions /\ hungUp \subseteq Sessions /\ idle \subseteq Sessions
    /\ registry \in Seq(Sessions) /\ victims \subseteq Sessions
    /\ typed \in [Sessions -> Seq(Commands)]
    /\ joined \in BOOLEAN /\ ran \subseteq Commands

RemoteShellInit ==
    /\ shell = NoSession /\ fresh = Sessions /\ unsaid = Commands /\ threads = {}
    /\ link = [s \in Sessions |-> "none"] /\ active = {} /\ hungUp = {} /\ idle = {}
    /\ registry = <<>> /\ victims = {} /\ typed = [s \in Sessions |-> <<>>]
    /\ joined = FALSE /\ ran = {}

\* Who is not in the room does not hear it, and nobody says it again.
Say(what, id, command) ==
    threads' = threads \cup {t \in Thread : joined /\
                  t = [what |-> what, id |-> id, command |-> command, at |-> "start"]}

\* The proxy loses its connection, which its sessions outlive ...
Leave ==
    /\ joined /\ joined' = FALSE
    /\ UNCHANGED <<dashboard, threads, session, registry, victims, typed, ran>>

\* ... and connects again and joins the warehouse.
JoinRoom ==
    /\ ~joined /\ joined' = TRUE
    /\ UNCHANGED <<dashboard, threads, session, registry, victims, typed, ran>>

-----------------------------------------------------------------------------
(* The terminal.                                                           *)

\* A new id each time; the session before it is left as it is.
Connect(s) ==
    /\ s \in fresh /\ fresh' = fresh \ {s} /\ shell' = s
    /\ Say("connect", s, NoSession)
    /\ UNCHANGED <<unsaid, session, registry, victims, joined, typed, ran>>

\* remote_shell.py, in the room throughout, takes every line that is no
\* request for the proxy.
Execute(c) == ran' = ran \cup {c}

\* A line goes to both programs, with or without a session.
Type(c) ==
    /\ c \in unsaid /\ unsaid' = unsaid \ {c}
    /\ Say("line", shell, c) /\ Execute(c)
    /\ UNCHANGED <<shell, fresh, session, registry, victims, joined, typed>>

\* The proxy's handler for a message no page of the dashboard sends.
AskDisconnect(s) ==
    /\ s \notin fresh
    /\ Say("disconnect", s, NoSession)
    /\ UNCHANGED <<dashboard, session, registry, victims, joined, typed, ran>>

-----------------------------------------------------------------------------
(* The proxy's handlers.                                                   *)

Goes(t, at) == threads' = (threads \ {t}) \cup {[t EXCEPT !.at = at]}
HandlerEnds(t)     == threads' = threads \ {t}

\* Up to fifteen seconds; then the session is open and its relay runs, or
\* there is no client, or there is one and no shell or no relay for it:
\* connect returns False without closing it, and nothing knows of it.
OpenSession(t) ==
    /\ t \in threads /\ t.what = "connect" /\ t.at = "start"
    /\ \/ /\ Goes(t, "opened")
          /\ link' = [link EXCEPT ![t.id] = "up"] /\ active' = active \cup {t.id}
       \/ HandlerEnds(t) /\ UNCHANGED <<link, active>>
       \/ /\ HandlerEnds(t)
          /\ link' = [link EXCEPT ![t.id] = "left"] /\ UNCHANGED active
    /\ UNCHANGED <<dashboard, hungUp, idle, registry, victims, joined, typed, ran>>

Close(S) ==
    /\ link' = [s \in Sessions |-> IF s \in S THEN "down" ELSE link[s]]
    /\ active' = active \ S

\* In one critical section: at the limit the session inserted first goes.
Full    == Len(registry) >= MaxShells
Evicted == IF Full THEN {Head(registry)} ELSE {}

Insert(s) == registry' = Append(IF Full THEN Tail(registry) ELSE registry, s)

AddUnclosed(t) ==
    /\ t \in threads /\ t.what = "connect" /\ t.at = "opened"
    /\ Insert(t.id) /\ HandlerEnds(t)
    /\ UNCHANGED <<dashboard, session, victims, joined, typed, ran>>

Add(t) ==
    /\ t \in threads /\ t.what = "connect" /\ t.at = "opened"
    /\ Close(Evicted) /\ Insert(t.id) /\ HandlerEnds(t)
    /\ UNCHANGED <<dashboard, hungUp, idle, victims, joined, typed, ran>>

Registered == ToSet(registry)

RemoveSession(s) ==
    /\ Close({s} \cap Registered)
    /\ registry' = IF s \in Registered
                   THEN RemoveAt(registry, CHOOSE i \in DOMAIN registry : registry[i] = s)
                   ELSE registry

\* A session still connecting is not there to be removed.
Disconnect(t) ==
    /\ t \in threads /\ t.what = "disconnect"
    /\ RemoveSession(t.id) /\ HandlerEnds(t)
    /\ UNCHANGED <<dashboard, hungUp, idle, victims, joined, typed, ran>>

\* Nor is it there to be typed into: the line is dropped.
Find(t) ==
    /\ t \in threads /\ t.what = "line" /\ t.at = "start"
    /\ IF t.id \in Registered THEN Goes(t, "found") ELSE HandlerEnds(t)
    /\ UNCHANGED <<dashboard, session, registry, victims, joined, typed, ran>>

\* The session may have ended since; what is sent to one whose other side
\* hung up is lost.
Send(t) ==
    /\ t \in threads /\ t.what = "line" /\ t.at = "found" /\ HandlerEnds(t)
    /\ IF t.id \in active
       THEN /\ idle' = IF t.id \in hungUp THEN idle ELSE idle \ {t.id}
            /\ typed' = IF t.id \in hungUp THEN typed
                        ELSE [typed EXCEPT ![t.id] = Append(@, t.command)]
       ELSE UNCHANGED <<idle, typed>>
    /\ UNCHANGED <<dashboard, link, active, hungUp, registry, victims, joined, ran>>

-----------------------------------------------------------------------------
(* The sessions' own threads, the other side, and the clock.               *)

Relay(s) ==
    /\ s \in active /\ s \notin hungUp
    /\ idle' = idle \ {s}
    /\ UNCHANGED <<dashboard, threads, link, active, hungUp, registry, victims,
                   joined, typed, ran>>

HangUp(s) ==
    /\ link[s] = "up" /\ s \notin hungUp /\ hungUp' = hungUp \cup {s}
    /\ UNCHANGED <<dashboard, threads, link, active, idle, registry, victims, joined, typed, ran>>

\* The relay sees it, or fails, and ends; nothing takes the session off the
\* registry.
RelayEnds(s) ==
    /\ s \in active /\ active' = active \ {s}
    /\ UNCHANGED <<dashboard, threads, link, hungUp, idle, registry, victims, joined, typed, ran>>

GoesQuiet(s) ==
    /\ link[s] = "up" /\ s \notin idle /\ idle' = idle \cup {s}
    /\ UNCHANGED <<dashboard, threads, link, active, hungUp, registry, victims,
                   joined, typed, ran>>

\* A cleanup that only looks at sessions still in use.
FindIdleActive ==
    /\ victims = {} /\ victims' = Registered \cap idle \cap active
    /\ UNCHANGED <<dashboard, threads, session, registry, joined, typed, ran>>

\* Every thirty seconds, under the lock ...
FindIdle ==
    /\ victims = {} /\ victims' = Registered \cap idle
    /\ UNCHANGED <<dashboard, threads, session, registry, joined, typed, ran>>

\* ... and then each without it: the session may be in use again.
RemoveIdle(s) ==
    /\ s \in victims /\ victims' = victims \ {s}
    /\ RemoveSession(s)
    /\ UNCHANGED <<dashboard, threads, hungUp, idle, joined, typed, ran>>

-----------------------------------------------------------------------------
Handler(t) == OpenSession(t) \/ Add(t) \/ Disconnect(t) \/ Find(t) \/ Send(t)

RemoteShellNext ==
    \/ \E s \in Sessions : \/ Connect(s) \/ AskDisconnect(s) \/ Relay(s) \/ HangUp(s)
                           \/ RelayEnds(s) \/ GoesQuiet(s) \/ RemoveIdle(s)
    \/ \E c \in Commands : Type(c)
    \/ \E t \in threads : Handler(t)
    \/ Leave \/ JoinRoom \/ FindIdle

\* Each connect has a thread of its own and a timeout, and the cleanup goes
\* round; the other threads owe nothing.
RemoteShellFairness ==
    /\ \A s \in Sessions : /\ WF_terminal(\E t \in threads : t.id = s /\ (OpenSession(t) \/ Add(t)))
                           /\ WF_terminal(RemoveIdle(s))
    /\ WF_terminal(FindIdle)

RemoteShellSpec == RemoteShellInit /\ [][RemoteShellNext]_terminal /\ RemoteShellFairness

-----------------------------------------------------------------------------
(* Properties.                                                             *)

\* However connects, disconnects, evictions and the cleanup interleave, the
\* registry stays within its limit, and a session that was opened is one the
\* registry or the thread that has just opened it still holds: none is left
\* running with nothing that could ever close it (SessionRegistry.add,
\* remove).  A client that SSHSession.connect has left behind was never a
\* session, and nothing closes it.
NoneLeft ==
    /\ Len(registry) <= MaxShells /\ IsInjective(registry)
    /\ \A s \in Sessions : link[s] = "up" =>
            s \in Registered \/ \E t \in threads : t.id = s /\ t.at = "opened"
    /\ \A s \in Registered : link[s] = "up"

RemoteShellInv == RemoteShellTypeOK /\ NoneLeft

\* A session that was opened and stays quiet is closed in the end, whether its
\* own thread still runs or the other side has hung up (_cleanup_loop).
QuietEnds == \A s \in Sessions : []<>(link[s] # "up" \/ s \notin idle)
=============================================================================

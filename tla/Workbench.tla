------------------------------ MODULE Workbench ------------------------------
(***************************************************************************)
(* The dashboard in a browser: authStore.ts with its copy in localStorage, *)
(* the interceptors of client.ts, the login page, the Log Out button, the  *)
(* three lists of rows that a page changes (MissionControl.tsx,            *)
(* AlertCenter.tsx, InventoryManagement.tsx) and the pages that ask for    *)
(* people, who alone want a token (SupervisorDashboard.tsx,                *)
(* TeamMonitor.tsx).                                                       *)
(*                                                                         *)
(* Requests take their token when they are sent and are answered in any    *)
(* order; a handler goes on after its page is gone.  A login brings no     *)
(* refresh token, so that every 401 ends in logout().                      *)
(***************************************************************************)
EXTENDS Integers, FiniteSets

CONSTANTS
    Tabs,
    None,
    MaxLogins,   \* bound: sessions begun
    MaxRequests, \* bound: requests sent
    MaxFlight,   \* bound: requests sent and not yet answered at a time
    MaxRow       \* bound: changes of a list's row

VARIABLES
    memory,  \* the session in each tab's store
    storage, \* wareops-auth
    valid,   \* sessions whose access token has not expired
    begun,   \* sessions begun; they are numbered
    flight,  \* requests sent and not yet answered to the page
    sent,    \* requests sent; they are numbered
    rows,    \* the row of each list, as the number of its changes
    page,    \* the list a tab has open, and what it shows
    ended,   \* history: sessions some tab's store has dropped
    own,     \* history: what each tab's last answered change made of its row
    newest,  \* history: the latest request whose answer a list has shown
    behind   \* history: tabs that were last shown what was older than that, or nothing

browser == <<memory, storage, flight, sent, page>>
server  == <<valid, begun, rows>>
seen   == <<own, newest, behind>>
desk    == <<browser, server, ended, seen>>

Session == 1 .. MaxLogins
List    == {"missions", "alerts", "products"}
Change  == [missions |-> {"create", "pause"}, alerts |-> {"resolve"}, products |-> {"create", "remove"}]
Changes == UNION {Change[k] : k \in List}
Kind    == {"login", "list", "people"} \cup Changes

\* A list without an answer, with no rows, or with its row at some change.
Loading == -1
Empty   == -2

\* None is no session and no page.
ASSUME WorkbenchBounds ==
    /\ MaxLogins \in Nat \ {0} /\ {MaxRequests, MaxFlight, MaxRow} \subseteq Nat
    /\ None \notin 1 .. MaxLogins /\ None \notin [list : List, row : Empty .. MaxRow]

Request == [id : 1 .. MaxRequests, tab : Tabs, kind : Kind, list : List \cup {None},
            token : Session \cup {None}, live : BOOLEAN,
            answer : {"unserved", "served", "refused", "forbidden", "failed"},
            value : 0 .. MaxLogins + MaxRow]

WorkbenchTypeOK ==
    /\ memory \in [Tabs -> Session \cup {None}] /\ storage \in Session \cup {None}
    /\ valid \subseteq Session /\ begun \in 0 .. MaxLogins
    /\ flight \subseteq Request /\ sent \in 0 .. MaxRequests /\ rows \in [List -> 0 .. MaxRow]
    /\ page \in [Tabs -> [list : List, row : Empty .. MaxRow] \cup {None}]
    /\ ended \subseteq Session /\ own \in [Tabs -> 0 .. MaxRow]
    /\ newest \in [Tabs -> 0 .. MaxRequests] /\ behind \subseteq Tabs

\* Every tab begins with what localStorage holds.
WorkbenchInit ==
    /\ storage \in {None, 1} /\ memory = [t \in Tabs |-> storage]
    /\ valid = {storage} \ {None} /\ begun = Cardinality(valid)
    /\ flight = {} /\ sent = 0 /\ rows = [k \in List |-> 0] /\ page = [t \in Tabs |-> None]
    /\ ended = {} /\ own = [t \in Tabs |-> 0] /\ newest = [t \in Tabs |-> 0] /\ behind = {}

-----------------------------------------------------------------------------
(* The store and the pages.                                                *)

\* A request of tab t, added to those in F.
Sends(t, kind, list, live, F) ==
    /\ Cardinality(F) < MaxFlight /\ sent < MaxRequests /\ sent' = sent + 1
    /\ flight' = F \cup {[id |-> sent', tab |-> t, kind |-> kind, list |-> list,
                          token |-> memory[t], live |-> live,
                          answer |-> "unserved", value |-> 0]}

\* No answer reaches a page that is gone.
Dead(t, F) == {IF r.tab = t THEN [r EXCEPT !.live = FALSE] ELSE r : r \in F}

\* A page opens with a fetch, and has shown nothing yet.
Mount(t, kind, list) ==
    /\ memory[t] # None
    /\ Sends(t, kind, list, TRUE, Dead(t, flight))
    /\ page' = [page EXCEPT ![t] = IF kind = "list" THEN [list |-> list, row |-> Loading] ELSE None]
    /\ own' = [own EXCEPT ![t] = 0] /\ newest' = [newest EXCEPT ![t] = 0]
    /\ behind' = behind \ {t}
    /\ UNCHANGED <<memory, storage, server, ended>>

\* store.logout(): both copies, and ProtectedRoute leaves the page.
Drop(t, F) ==
    /\ memory' = [memory EXCEPT ![t] = None] /\ storage' = None
    /\ ended' = ended \cup ({memory[t]} \ {None})
    /\ page' = [page EXCEPT ![t] = None] /\ flight' = Dead(t, F)

\* The tab is loaded anew, from localStorage.
Reload(t) ==
    /\ memory' = [memory EXCEPT ![t] = storage] /\ page' = [page EXCEPT ![t] = None]
    /\ flight' = {r \in flight : r.tab # t}
    /\ UNCHANGED <<storage, sent, server, ended, seen>>

-----------------------------------------------------------------------------
(* The server.                                                             *)

Reply(r, answer, value) ==
    flight' = (flight \ {r}) \cup {[r EXCEPT !.answer = answer, !.value = value]}

Serve(r, value) == Reply(r, "served", value)
Refuse(r)       == Reply(r, "refused", 0)

Waiting(r, kinds) == r \in flight /\ r.answer = "unserved" /\ r.kind \in kinds

\* A token of nobody, or one that has run out.
Unknown(r) == r.token \notin valid

ServeLogin(r) ==
    /\ Waiting(r, {"login"})
    /\ \/ /\ begun < MaxLogins /\ begun' = begun + 1
          /\ valid' = valid \cup {begun'} /\ Serve(r, begun')
       \/ Refuse(r) /\ UNCHANGED <<valid, begun>>
    /\ UNCHANGED <<memory, storage, sent, rows, page, ended, seen>>

\* Variant: a missing permission is answered as a missing token.
ServePeopleBluntly(r) ==
    /\ Waiting(r, {"people"}) /\ Refuse(r)
    /\ UNCHANGED <<memory, storage, sent, server, page, ended, seen>>

\* get_users looks at the token and then at the permissions.
ServePeople(r) ==
    /\ Waiting(r, {"people"})
    /\ \/ Unknown(r) /\ Refuse(r)
       \/ ~Unknown(r) /\ (Reply(r, "forbidden", 0) \/ Serve(r, 0))
    /\ UNCHANGED <<memory, storage, sent, server, page, ended, seen>>

\* Missions, alerts and products are anybody's.
ServeList(r) ==
    /\ Waiting(r, {"list"}) /\ Serve(r, rows[r.list])
    /\ UNCHANGED <<memory, storage, sent, server, page, ended, seen>>

ServeChange(r) ==
    /\ Waiting(r, Changes) /\ rows[r.list] < MaxRow
    /\ rows' = [rows EXCEPT ![r.list] = @ + 1] /\ Serve(r, rows'[r.list])
    /\ UNCHANGED <<memory, storage, sent, valid, begun, page, ended, seen>>

\* An error of the server or the network, or ten seconds: then the server
\* may have done it or do it still.
ServeFails(r) ==
    /\ r \in flight /\ r.answer # "failed" /\ Reply(r, "failed", 0)
    /\ UNCHANGED <<memory, storage, sent, server, page, ended, seen>>

Expire(s) ==
    /\ s \in valid /\ valid' = valid \ {s}
    /\ UNCHANGED <<browser, begun, rows, ended, seen>>

OthersChange(k) ==
    /\ rows[k] < MaxRow /\ rows' = [rows EXCEPT ![k] = @ + 1]
    /\ UNCHANGED <<browser, valid, begun, ended, seen>>

-----------------------------------------------------------------------------
(* Signing in and out.                                                     *)

\* /login is open to who is signed in already.
HandleLogin(t) ==
    /\ Sends(t, "login", None, TRUE, Dead(t, flight))
    /\ page' = [page EXCEPT ![t] = None]
    /\ UNCHANGED <<memory, storage, server, ended, seen>>

\* However late the answer, it is the tab's and the browser's session now.
SetUser(r) ==
    /\ r \in flight /\ r.kind = "login" /\ r.answer = "served"
    /\ memory' = [memory EXCEPT ![r.tab] = r.value] /\ storage' = r.value
    /\ flight' = flight \ {r}
    /\ UNCHANGED <<sent, server, page, ended, seen>>

\* The server is not told.
LogOut(t) ==
    /\ memory[t] # None /\ Drop(t, flight)
    /\ UNCHANGED <<sent, server, seen>>

\* The interceptor, for a wrong password, too.
Refused(r) ==
    /\ r \in flight /\ r.answer = "refused"
    /\ Drop(r.tab, flight \ {r})
    /\ UNCHANGED <<sent, server, seen>>

-----------------------------------------------------------------------------
(* The lists.                                                              *)

\* What is set on a page that is still there; it may be of an older request
\* than what it replaces, or nothing new at all.
Show(r, what, old) ==
    IF r.live
    THEN /\ page' = [page EXCEPT ![r.tab].row = what]
         /\ newest' = [newest EXCEPT ![r.tab] = IF r.id > @ THEN r.id ELSE @]
         /\ behind' = IF old \/ r.id < newest[r.tab] THEN behind \cup {r.tab} ELSE behind \ {r.tab}
    ELSE UNCHANGED <<page, newest, behind>>

\* A failed fetch leaves an empty list, or the products that were there.
ListArrives(r) ==
    /\ r \in flight /\ r.kind = "list"
    /\ \/ r.answer = "served" /\ Show(r, r.value, FALSE)
       \/ r.answer = "failed" /\ r.list # "products" /\ Show(r, Empty, FALSE)
       \/ /\ r.answer = "failed" /\ r.list = "products"
          /\ LET before == IF r.live THEN page[r.tab].row ELSE Empty
             IN Show(r, IF before = Loading THEN Empty ELSE before, TRUE)
    /\ flight' = flight \ {r}
    /\ UNCHANGED <<memory, storage, sent, server, ended, own>>

\* A row's buttons are there when the row is, what makes a new one always.
HandleAction(t, kind) ==
    /\ page[t] # None /\ kind \in Change[page[t].list]
    /\ page[t].row \in 0 .. MaxRow \/ kind = "create"
    /\ Sends(t, kind, page[t].list, TRUE, flight)
    /\ UNCHANGED <<memory, storage, page, server, ended, seen>>

Owns(r) == own' = IF r.live THEN [own EXCEPT ![r.tab] = r.value] ELSE own

\* Variant: the list is left as it is.
ChangedUnfetched(r) ==
    /\ r \in flight /\ r.kind \in Changes /\ r.list # "alerts" /\ r.answer = "served"
    /\ flight' = flight \ {r} /\ Owns(r)
    /\ UNCHANGED <<memory, storage, sent, server, page, ended, newest, behind>>

\* MissionControl and InventoryManagement fetch the list again, gone or not.
Changed(r) ==
    /\ r \in flight /\ r.kind \in Changes /\ r.list # "alerts" /\ r.answer = "served"
    /\ Sends(r.tab, "list", r.list, r.live, flight \ {r}) /\ Owns(r)
    /\ UNCHANGED <<memory, storage, server, page, ended, newest, behind>>

\* AlertCenter puts the answer in the row's place.
AlertChanged(r) ==
    /\ r \in flight /\ r.list = "alerts" /\ r.kind \in Changes /\ r.answer = "served"
    /\ Show(r, r.value, FALSE) /\ Owns(r) /\ flight' = flight \ {r}
    /\ UNCHANGED <<memory, storage, sent, server, ended>>

\* Answers that change nothing that is followed here.
Settled(r) ==
    /\ r \in flight /\ r.kind # "list"
    /\ r.answer \in {"forbidden", "failed"} \/ <<r.kind, r.answer>> = <<"people", "served">>
    /\ flight' = flight \ {r}
    /\ UNCHANGED <<memory, storage, sent, server, page, ended, seen>>

-----------------------------------------------------------------------------
Serves(r) == ServeLogin(r) \/ ServePeople(r) \/ ServeList(r) \/ ServeChange(r) \/ ServeFails(r)

Arrives(r) ==
    SetUser(r) \/ Refused(r) \/ ListArrives(r) \/ Changed(r) \/ AlertChanged(r)
    \/ Settled(r)

\* What happens when the tabs in T are used, with the lists in L.
Uses(T, L) ==
    \/ \E t \in T : \/ HandleLogin(t) \/ LogOut(t) \/ Reload(t) \/ Mount(t, "people", None)
                    \/ \E k \in L : Mount(t, "list", k)
                    \/ \E k \in Kind : HandleAction(t, k)
    \/ \E r \in flight : Serves(r) \/ Arrives(r)
    \/ \E s \in Session : Expire(s)
    \/ \E k \in L : OthersChange(k)

WorkbenchSpec == WorkbenchInit /\ [][Uses(Tabs, List)]_desk

-----------------------------------------------------------------------------
(* Properties.                                                             *)

\* A session that one tab has dropped is not the one a tab would find in
\* localStorage, whichever tabs sign in, sign out and get their answers when
\* (authStore.ts, client.ts's interceptor).
EndedStays == storage \notin ended

\* A list on which nothing is under way shows what the tab's own last change
\* made of the row or something later, unless its last fetch failed or the
\* answer of an older request came in last (handleAction, handleResolve,
\* handleRemoveProducts).
ListFresh ==
    \A t \in Tabs \ behind :
        page[t] # None /\ (\A r \in flight : r.tab = t => ~r.live) =>
            page[t].row = Empty \/ page[t].row >= own[t]

WorkbenchInv == WorkbenchTypeOK /\ EndedStays /\ ListFresh

\* A tab loses a session whose token is good only to its own Log Out, to a
\* wrong password on the login page, to an answer meant for an earlier
\* session of the tab, or when it is loaded after another tab has dropped
\* what localStorage held (client.ts's interceptor).
SessionKept ==
    [][\A t \in Tabs : memory[t] \in valid /\ memory'[t] = None =>
           \/ storage = None \/ LogOut(t)
           \/ \E r \in flight : /\ r.tab = t /\ r.id \notin {q.id : q \in flight'}
                                /\ r.kind = "login" \/ r.token # memory[t]]_desk
=============================================================================

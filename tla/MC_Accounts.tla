----------------------------- MODULE MC_Accounts -----------------------------
(***************************************************************************)
(* Small instances of accounts and sessions at either end: the calls on    *)
(* one user's account, two at a time, and the dashboard's sessions in two  *)
(* tabs and its lists in one.  They share no state; the initial state says *)
(* which part is followed, and the others stay as they began.              *)
(***************************************************************************)
EXTENDS Accounts, Workbench

CONSTANT tab1

ASSUME InstanceAssumption == tab1 \in Tabs

VARIABLE part

all == <<part, vars, desk>>

MCInit ==
    /\ part \in {"account", "sessions"} \cup List
    /\ Init /\ WorkbenchInit
    /\ part = "account" => storage = None

MCNext ==
    /\ UNCHANGED part
    /\ \/ part = "account" /\ Next /\ UNCHANGED desk
       \/ /\ UNCHANGED vars
          /\ \/ part = "sessions" /\ Uses(Tabs, {})
             \/ part \in List /\ Uses({tab1}, {part})

MCSpec == MCInit /\ [][MCNext]_all
=============================================================================

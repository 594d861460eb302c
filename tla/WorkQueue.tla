----------------------------- MODULE WorkQueue -----------------------------
(***************************************************************************)
(* What a Hostlet work queue promises, with no table, lease, clock, lock   *)
(* or message in sight: an item is submitted once, is handed to one owner  *)
(* at a time and at most Limit times, and is settled at most once.  Only   *)
(* an owned item can succeed or fail; an item that is given back waits     *)
(* only if it can still be handed out again.                               *)
(***************************************************************************)
EXTENDS Naturals

CONSTANTS Item, Owner, NoOwner, Limit

VARIABLES status, owner, grants

qvars == <<status, owner, grants>>

Outcomes == {"succeeded", "failed"}

QInit ==
  /\ status = [i \in Item |-> "absent"]
  /\ owner  = [i \in Item |-> NoOwner]
  /\ grants = [i \in Item |-> 0]

Submit(i) ==
  /\ status[i] = "absent"
  /\ status' = [status EXCEPT ![i] = "waiting"]
  /\ UNCHANGED <<owner, grants>>

Grant(i, w) ==
  /\ status[i] = "waiting"
  /\ grants[i] < Limit
  /\ status' = [status EXCEPT ![i] = "owned"]
  /\ owner'  = [owner EXCEPT ![i] = w]
  /\ grants' = [grants EXCEPT ![i] = @ + 1]

GiveBack(i) ==
  /\ status[i] = "owned"
  /\ grants[i] < Limit
  /\ status' = [status EXCEPT ![i] = "waiting"]
  /\ owner'  = [owner EXCEPT ![i] = NoOwner]
  /\ UNCHANGED grants

Settle(i, o) ==
  /\ status[i] = "owned"
  /\ status' = [status EXCEPT ![i] = o]
  /\ owner'  = [owner EXCEPT ![i] = NoOwner]
  /\ UNCHANGED grants

Withdraw(i) ==
  /\ status[i] \in {"waiting", "owned"}
  /\ status' = [status EXCEPT ![i] = "canceled"]
  /\ owner'  = [owner EXCEPT ![i] = NoOwner]
  /\ UNCHANGED grants

QNext ==
  \E i \in Item :
    \/ Submit(i)
    \/ \E w \in Owner : Grant(i, w)
    \/ GiveBack(i)
    \/ \E o \in Outcomes : Settle(i, o)
    \/ Withdraw(i)

QSpec == QInit /\ [][QNext]_qvars
=============================================================================

------------------------------ MODULE TunPorts ------------------------------
(***************************************************************************)
(* What the Solaris driver promises about interfaces and streams, without  *)
(* its linked lists.                                                       *)
(*                                                                         *)
(* An interface (a PPA) exists as long as the control stream that created  *)
(* it is open.  A protocol stream is on at most one interface, and is      *)
(* bound only while it is on one.  When the interface goes, exactly the    *)
(* streams that were on it are taken off.                                  *)
(***************************************************************************)
CONSTANTS Streams, Ids, Nil

VARIABLES
  ctl,                      \* ctl[i]: the control stream of interface i
  on,                       \* on[s]: the interface stream s is on
  dl                        \* dl[s]: its DLPI state

vars == <<ctl, on, dl>>

Init ==
  /\ ctl = [i \in Ids |-> Nil]
  /\ on = [s \in Streams |-> Nil]
  /\ dl = [s \in Streams |-> "UNATTACHED"]

Create(i, s) ==
  /\ ctl[i] = Nil
  /\ \A j \in Ids : ctl[j] # s
  /\ on[s] = Nil
  /\ ctl' = [ctl EXCEPT ![i] = s]
  /\ UNCHANGED <<on, dl>>

(* TUNSETPPA leaves the DLPI state as it is, DL_ATTACH_REQ moves it. *)
Join(i, s) ==
  /\ ctl[i] # Nil
  /\ \A j \in Ids : ctl[j] # s
  /\ on[s] = Nil
  /\ on' = [on EXCEPT ![s] = i]
  /\ dl' = dl \/ dl' = [dl EXCEPT ![s] = "UNBOUND"]
  /\ UNCHANGED ctl

Leave(s) ==
  /\ on[s] # Nil
  /\ on' = [on EXCEPT ![s] = Nil]
  /\ dl' = [dl EXCEPT ![s] = "UNATTACHED"]
  /\ UNCHANGED ctl

Bind(s) ==
  /\ on[s] # Nil /\ dl[s] = "UNBOUND"
  /\ dl' = [dl EXCEPT ![s] = "IDLE"]
  /\ UNCHANGED <<ctl, on>>

Unbind(s) ==
  /\ on[s] # Nil /\ dl[s] = "IDLE"
  /\ dl' = [dl EXCEPT ![s] = "UNBOUND"]
  /\ UNCHANGED <<ctl, on>>

(* The control stream of i is closed. *)
Remove(i) ==
  /\ ctl[i] # Nil
  /\ ctl' = [ctl EXCEPT ![i] = Nil]
  /\ on' = [s \in Streams |-> IF on[s] = i THEN Nil ELSE on[s]]
  /\ dl' = [s \in Streams |-> IF on[s] = i THEN "UNATTACHED" ELSE dl[s]]

Next ==
  \/ \E i \in Ids, s \in Streams : Create(i, s) \/ Join(i, s)
  \/ \E s \in Streams : Leave(s) \/ Bind(s) \/ Unbind(s)
  \/ \E i \in Ids : Remove(i)

Spec == Init /\ [][Next]_vars
=============================================================================

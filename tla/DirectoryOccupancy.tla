-------------------------- MODULE DirectoryOccupancy --------------------------
(***************************************************************************)
(* What the directory coordinator promises its callers, without queues,    *)
(* threads or events: an execution directory belongs to one piece of       *)
(* top-level work (its owner) and to what that work started; a stranger    *)
(* enters only when all of them have left, or in the very step in which    *)
(* the last of them leaves.                                                *)
(***************************************************************************)
CONSTANTS Leases, Roots, NoLease

VARIABLES
  occupants,  \* for each root, the leases that occupy it
  owner       \* for each root, the top-level lease they descend from

Init ==
  /\ occupants = [r \in Roots |-> {}]
  /\ owner = [r \in Roots |-> NoLease]

\* Top-level work enters a free directory.
Enter(r, c) ==
  /\ occupants[r] = {}
  /\ occupants' = [occupants EXCEPT ![r] = {c}]
  /\ owner' = [owner EXCEPT ![r] = c]

\* A child joins work that is still there.
Join(r, c) ==
  /\ occupants[r] # {} /\ c \notin occupants[r]
  /\ occupants' = [occupants EXCEPT ![r] = @ \cup {c}]
  /\ UNCHANGED owner

\* One lease is released; the last one frees the directory.
Leave(r, c) ==
  /\ c \in occupants[r]
  /\ occupants' = [occupants EXCEPT ![r] = @ \ {c}]
  /\ owner' = [owner EXCEPT ![r] = IF occupants[r] = {c} THEN NoLease ELSE @]

\* The last lease is released and the next top-level work takes its place.
HandOver(r, c, d) ==
  /\ occupants[r] = {c} /\ d # c
  /\ occupants' = [occupants EXCEPT ![r] = {d}]
  /\ owner' = [owner EXCEPT ![r] = d]

Next ==
  \E r \in Roots, c \in Leases :
    \/ Enter(r, c) \/ Join(r, c) \/ Leave(r, c)
    \/ \E d \in Leases : HandOver(r, c, d)

Spec == Init /\ [][Next]_<<occupants, owner>>

=============================================================================

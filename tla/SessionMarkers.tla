--------------------------- MODULE SessionMarkers ---------------------------
(***************************************************************************)
(* The per-user session marker files of src/vserve/lock.py as one value.   *)
(*                                                                         *)
(* Every user has at most one file, session-<user>.json, and read_session  *)
(* takes the most recently modified one that is not empty.  Only the ORDER *)
(* of the modification times matters, so a marker store is a record        *)
(*   files   the users who have a marker,                                  *)
(*   older   for each of them, the users whose marker is older,            *)
(*   claims  those whose marker says "orphan-claim" (written by            *)
(*           `vserve stop`), not the label of a launched model.            *)
(***************************************************************************)
EXTENDS FiniteSets

CONSTANTS Users,    \* the people who share the machine
          NoUser    \* "no marker": what read_session calls None

ASSUME UsersAssumption == IsFiniteSet(Users) /\ NoUser \notin Users

MarkerStores == [files  : SUBSET Users,
                 older  : [Users -> SUBSET Users],
                 claims : SUBSET Users]

NoMarkers == [files |-> {}, older |-> [u \in Users |-> {}], claims |-> {}]

\* write_session: the user's own file becomes the newest one.
WriteMarker(m, u, isClaim) ==
    [files  |-> m.files \cup {u},
     older  |-> [v \in Users |-> IF v = u THEN m.files \ {u}
                                          ELSE m.older[v] \ {u}],
     claims |-> IF isClaim THEN m.claims \cup {u} ELSE m.claims \ {u}]

\* _unlink_regular_state_file on the markers of the users in S.
RemoveMarkers(m, S) ==
    [files  |-> m.files \ S,
     older  |-> [v \in Users |-> IF v \in S THEN {} ELSE m.older[v] \ S],
     claims |-> m.claims \ S]

\* read_session: the user of the newest marker.
Newest(m, u) == u \in m.files /\ m.older[u] = m.files \ {u}
Holder(m) == IF \E u \in Users : Newest(m, u)
             THEN CHOOSE u \in Users : Newest(m, u)
             ELSE NoUser

\* The modification times of distinct files order them totally.
Ordered(m) ==
    /\ \A u \in Users : m.older[u] \subseteq m.files \ {u}
    /\ \A u \in m.files : \A v \in m.files \ {u} :
           (u \in m.older[v]) <=> (v \notin m.older[u])
    /\ \A u, v \in m.files : v \in m.older[u] => m.older[v] \subseteq m.older[u]
    /\ m.claims \subseteq m.files
=============================================================================

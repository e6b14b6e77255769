------------------------ MODULE MCScheduleDispatcher ------------------------
(* Two users.  One of them saves from two tabs; the other has a weekly     *)
(* schedule, so that a claim may return two rows.                          *)
EXTENDS ScheduleDispatcher

CONSTANTS u1, u2, weekly, monthly, dated

MCSavers == {<<u1, 1>>, <<u1, 2>>}

Stored(e) == [enabled |-> e, config |-> dated, next |-> [config |-> dated, serial |-> 0]]

(* The rows of u1: none, one, or two of which at most one is enabled.      *)
(* Exchanging the two frequencies gives the other tables.                  *)
MCTables ==
  {[s \in Slots |-> IF s[1] = u1 THEN mine[s[2]]
                    ELSE IF s[2] = weekly THEN Stored(TRUE) ELSE None] :
     mine \in {[t \in Types |-> None],
               [t \in Types |-> IF t = weekly THEN Stored(TRUE) ELSE None],
               [t \in Types |-> Stored(FALSE)],
               [t \in Types |-> Stored(t = weekly)]}}
=============================================================================

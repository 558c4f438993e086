---- MODULE MCBgpSched ----
(* Two connections of which the second only opens and closes, or one with two *)
(* timers. *)
EXTENDS BgpSched

CONSTANTS c1, c2, t1, t2
MCConn == {c1, c2}
MCTimer == {t1, t2}
MCOneTimer == {t1}
MCOwner == [t \in Timer |-> c1]
MCMaxMessages == [c \in Conn |-> IF c = c1 THEN 2 ELSE 0]
MCOneMessage == [c \in Conn |-> 1]
MCStartTime == [t \in Timer |-> IF t = t1 THEN 1 ELSE 3]
MCWait == {1, 3}
====

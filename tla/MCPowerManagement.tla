------------------------- MODULE MCPowerManagement -------------------------
(* Values for the constants of PowerManagement. *)
EXTENDS PowerManagement, TLC

OneCore  == {0}
TwoCores == {0, 1}
OneTask  == [c \in Cores |-> IF c = 0 THEN 1 ELSE 0]
TwoTasks == [c \in Cores |-> IF c = 0 THEN 2 ELSE 0]
AllUserEvents == {"USR_ON", "USR_OFF", "USR_START", "USR_STOP"}
UserOff       == {"USR_OFF"}
Nobody   == {}
Anybody  == {"system", "debugfs"}

(* Two bounds share one run: one task and two ioctls of the user, or two   *)
(* tasks, the second of which may meet what the first left, and one ioctl. *)
Bounds == left.tasks[0] > 0 \/ left.user > 0
=============================================================================

------------------------------ MODULE MCPomodoro -----------------------------
(* PomodoroDaemon on phases of one to three minutes of one tick.            *)
EXTENDS PomodoroDaemon

MCShortest == [focus |-> 1, shortBreak |-> 1, longBreak |-> 1]
MCLongest == [focus |-> 3, shortBreak |-> 1, longBreak |-> 2]
MCFirstMinutes == [focus |-> 2, shortBreak |-> 1, longBreak |-> 1]
MCStep == [focus |-> 2, shortBreak |-> 1, longBreak |-> 1]
MCMaxCompleted == [focus |-> 2, shortBreak |-> 1, longBreak |-> 1]

=============================================================================

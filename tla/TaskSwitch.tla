----------------------------- MODULE TaskSwitch -----------------------------
(***************************************************************************)
(* What an interrupt that switches processes must look like to them: one   *)
(* step, in which the running stream is put away as the current process's  *)
(* and the saved stream of another goes on.  Nothing else moves a process  *)
(* from where it is in its code.                                           *)
(***************************************************************************)
EXTENDS Integers

CONSTANT Tasks

Process == 0 .. Tasks

VARIABLES running,    \* the stream on the CPU: whose it is and where it is
          saved,      \* the streams put away; Nothing for the current process
          current     \* the process the scheduler takes for the running one

switchVars == <<running, saved, current>>

Nothing == [pid |-> 0, at |-> "garbage"]

BootPlace == {"setup_idt", "install", "clear_mask", "link", "install_end",
              "pit_disable", "pit_enable", "free_queue", "create", "halt"}

SwitchInit ==
    /\ running = [pid |-> -1, at |-> "setup_idt"]
    /\ saved = [p \in Process |-> Nothing]
    /\ current = -1

\* The boot code goes on or creates a process.
BootMoves ==
    /\ running.pid = -1
    /\ \/ \E to \in BootPlace :
              running' = [running EXCEPT !.at = to] /\ UNCHANGED saved
       \/ \E p \in Process :
              /\ saved[p] = Nothing
              /\ saved' = [saved EXCEPT ![p] =
                               [pid |-> p, at |-> IF p = 0 THEN "kernel" ELSE "user"]]
              /\ UNCHANGED running
    /\ UNCHANGED current

\* A task goes on in its own code or in the kernel's.
TaskMoves ==
    /\ running.pid = current /\ current \in 1 .. Tasks
    /\ \E step \in {<<"user", "entry">>, <<"entry", "kernel">>, <<"kernel", "closed">>,
                    <<"closed", "kernel">>, <<"kernel", "user">>, <<"user", "dead">>} :
           running.at = step[1] /\ running' = [running EXCEPT !.at = step[2]]
    /\ UNCHANGED <<saved, current>>

\* The first tick abandons the boot code, the later ones switch.
FirstSwitch ==
    /\ current = -1
    /\ running' = saved[0]
    /\ saved' = [saved EXCEPT ![0] = Nothing]
    /\ current' = 0

Switch(p) ==
    /\ running.pid = current /\ current \in Process
    /\ current' = p
    /\ LET put == [saved EXCEPT ![current] = running]
       IN running' = put[p] /\ saved' = [put EXCEPT ![p] = Nothing]

SwitchNext ==
    BootMoves \/ TaskMoves \/ FirstSwitch \/ \E p \in Process : Switch(p)

SwitchSpec == SwitchInit /\ [][SwitchNext]_switchVars

=============================================================================

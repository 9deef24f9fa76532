------------------------------ MODULE ProveAws ------------------------------
(***************************************************************************)
(* tools/prove-aws.sh: the release measurements on an EC2 instance.  The   *)
(* script launches an instance, waits for its SSM agent, sends it a        *)
(* command, polls the command, and terminates the instance in its EXIT     *)
(* trap.  Beside it run EC2, the agent and the remote command; any call    *)
(* may fail, be carried out without its answer arriving, or be cut short   *)
(* by a signal to the script; and the script may be killed, trap and all.  *)
(***************************************************************************)
EXTENDS Integers

CONSTANTS
  MaxPings,   (* turns of the loop that waits for SSM, 60 in the script *)
  MaxPolls,   (* turns of the loop that polls the command, 720          *)
  MaxFaults   (* bound on failed calls, lost answers and signals        *)

ASSUME ProveAwsAssumption ==
  MaxPings \in Nat \ {0} /\ MaxPolls \in Nat \ {0} /\ MaxFaults \in Nat

VARIABLES
  pc,        (* the next command of the script                          *)
  keep,      (* --keep                                                  *)
  known,     (* INSTANCE is not empty                                   *)
  turns,     (* turns left in the current loop                          *)
  status,    (* STATUS                                                  *)
  printed,   (* the remote output was printed                           *)
  exit,      (* exit code, Running before                               *)
  ec2,       (* the instance                                            *)
  agent,     (* its SSM agent is online                                 *)
  remote,    (* the remote command                                      *)
  unanswered,(* history: calls carried out or dropped unknown to the script *)
  faults     (* history: faults so far                                  *)

script == <<pc, keep, known, turns, status, printed, exit>>
cloud  == <<ec2, agent, remote>>
vars   == <<script, cloud, unanswered, faults>>

Running == -1   (* no exit code yet *)

Final == {"Success", "Failed", "TimedOut", "Cancelled"}   (* ends the poll loop *)

Init ==
  /\ pc = "resolve" /\ keep \in BOOLEAN /\ known = FALSE
  /\ turns = 0 /\ status = "" /\ printed = FALSE /\ exit = Running
  /\ ec2 = "none" /\ agent = FALSE /\ remote = "none"
  /\ unanswered = {} /\ faults = 0

-----------------------------------------------------------------------------

NoFault == UNCHANGED faults

Fault == faults < MaxFaults /\ faults' = faults + 1

(* Mutant: the trap is installed once the instance runs. *)
LeaveBeforeLateTrap(code) ==
  /\ exit' = code
  /\ pc' = IF pc \in {"resolve", "launch", "wait"} THEN "exited" ELSE "trap"

(* set -e, die or a signal: the EXIT trap runs next, once it is installed. *)
Leave(code) ==
  /\ exit' = code
  /\ pc' = IF pc = "resolve" THEN "exited" ELSE "trap"

Goto(next) == pc' = next /\ UNCHANGED exit

Resolve ==
  /\ pc = "resolve"
  /\ \/ NoFault /\ Goto("launch")
     \/ Fault /\ Leave(1)
  /\ UNCHANGED <<keep, known, turns, status, printed, cloud, unanswered>>

(* run-instances: answered, refused, or carried out and not answered. *)
Launch ==
  /\ pc = "launch"
  /\ \/ NoFault /\ ec2' = "pending" /\ known' = TRUE /\ Goto("wait") /\ UNCHANGED unanswered
     \/ Fault /\ Leave(1) /\ UNCHANGED <<ec2, known, unanswered>>
     \/ /\ Fault /\ Leave(1)
        /\ ec2' = "pending" /\ UNCHANGED known
        /\ unanswered' = unanswered \cup {"run-instances"}
  /\ UNCHANGED <<keep, turns, status, printed, agent, remote>>

(* aws ec2 wait instance-running: fails on a dead instance, and after a    *)
(* bounded number of attempts of its own on one that does not start.       *)
WaitRunning ==
  /\ pc = "wait"
  /\ \/ NoFault /\ ec2 = "running" /\ Goto("ping") /\ turns' = MaxPings
     \/ NoFault /\ ec2 # "running" /\ Leave(1) /\ UNCHANGED turns
     \/ Fault /\ Leave(1) /\ UNCHANGED turns
  /\ UNCHANGED <<keep, known, status, printed, cloud, unanswered>>

(* Mutant: only an online agent ends the loop. *)
PingForever ==
  /\ pc = "ping"
  /\ \/ NoFault /\ agent /\ Goto("send") /\ UNCHANGED turns
     \/ ((NoFault /\ ~agent) \/ Fault) /\ Goto("ping") /\ UNCHANGED turns
  /\ UNCHANGED <<keep, known, status, printed, cloud, unanswered>>

(* One turn of the SSM loop; a failed call reads as not online. *)
Ping ==
  /\ pc = "ping"
  /\ \/ NoFault /\ agent /\ Goto("send") /\ UNCHANGED turns
     \/ /\ (NoFault /\ ~agent) \/ Fault
        /\ turns' = turns - 1
        /\ IF turns = 1 THEN Leave(1) ELSE Goto("ping")
  /\ UNCHANGED <<keep, known, status, printed, cloud, unanswered>>

SendCommand ==
  /\ pc = "send"
  /\ \/ /\ NoFault /\ agent
        /\ remote' = "InProgress" /\ Goto("poll") /\ turns' = MaxPolls
     \/ NoFault /\ ~agent /\ Leave(1) /\ UNCHANGED <<remote, turns>>
     \/ Fault /\ Leave(1) /\ remote' \in {remote, "InProgress"} /\ UNCHANGED turns
  /\ UNCHANGED <<keep, known, status, printed, ec2, agent, unanswered>>

(* One turn of the poll loop; a failed call reads as Pending. *)
Poll ==
  /\ pc = "poll"
  /\ \/ NoFault /\ status' = remote
     \/ Fault /\ status' = "Pending"
  /\ turns' = turns - 1
  /\ IF status' \in Final THEN Goto("print")
     ELSE IF turns = 1 THEN Leave(1) ELSE Goto("poll")
  /\ UNCHANGED <<keep, known, printed, cloud, unanswered>>

(* The output, then the error output: neither call is allowed to fail. *)
PrintOutput ==
  /\ pc = "print"
  /\ \/ NoFault /\ printed' = TRUE /\ Goto("check")
     \/ Fault /\ Leave(1) /\ printed' \in BOOLEAN
  /\ UNCHANGED <<keep, known, turns, status, cloud, unanswered>>

(* Mutant: only Failed is a failure. *)
CheckNotFailed ==
  /\ pc = "check"
  /\ Leave(IF status # "Failed" THEN 0 ELSE 1)
  /\ UNCHANGED <<keep, known, turns, status, printed, cloud, unanswered, faults>>

CheckStatus ==
  /\ pc = "check"
  /\ Leave(IF status = "Success" THEN 0 ELSE 1)
  /\ UNCHANGED <<keep, known, turns, status, printed, cloud, unanswered, faults>>

(* The EXIT trap.  A failed terminate-instances is ignored (`|| true`). *)
Terminate ==
  /\ pc = "trap"
  /\ pc' = "exited"
  /\ IF known /\ ~keep
       THEN \/ /\ NoFault /\ ec2' = "terminated" /\ agent' = FALSE
               /\ UNCHANGED unanswered
            \/ /\ Fault /\ UNCHANGED <<ec2, agent>>
               /\ unanswered' = unanswered \cup {"terminate-instances"}
       ELSE NoFault /\ UNCHANGED <<ec2, agent, unanswered>>
  /\ UNCHANGED <<keep, known, turns, status, printed, exit, remote>>

(* SIGINT or SIGTERM between two commands: bash runs the trap. *)
Interrupt ==
  /\ pc \notin {"trap", "exited", "killed"}
  /\ Fault /\ Leave(130)
  /\ UNCHANGED <<keep, known, turns, status, printed, cloud, unanswered>>

(* SIGKILL or a crash of the host: no trap runs. *)
Kill ==
  /\ pc \notin {"exited", "killed"}
  /\ Fault /\ pc' = "killed"
  /\ UNCHANGED <<keep, known, turns, status, printed, exit, cloud, unanswered>>

ScriptStep ==
  \/ Resolve \/ Launch \/ WaitRunning \/ Ping \/ SendCommand
  \/ Poll \/ PrintOutput \/ CheckStatus \/ Terminate

-----------------------------------------------------------------------------
(* The cloud.                                                              *)

Boot ==
  /\ ec2 = "pending" /\ ec2' \in {"running", "terminated"}
  /\ UNCHANGED <<script, agent, remote, unanswered, faults>>

InstanceDies ==
  /\ ec2 = "running" /\ ec2' = "terminated" /\ agent' = FALSE
  /\ UNCHANGED <<script, remote, unanswered, faults>>

Register ==
  /\ ec2 = "running" /\ ~agent /\ agent' = TRUE
  /\ UNCHANGED <<script, ec2, remote, unanswered, faults>>

(* The command ends, or SSM gives it up. *)
RemoteEnds ==
  /\ remote = "InProgress"
  /\ remote' \in (IF ec2 = "running" THEN Final ELSE Final \ {"Success"})
  /\ UNCHANGED <<script, ec2, agent, unanswered, faults>>

CloudStep == Boot \/ InstanceDies \/ Register \/ RemoteEnds

Next == ScriptStep \/ Interrupt \/ Kill \/ CloudStep

(* The shell runs on, because each call returns in the end (the CLI has    *)
(* timeouts).  Nothing is assumed of EC2, the agent or the remote command. *)
Spec == Init /\ [][Next]_vars /\ WF_vars(ScriptStep)

-----------------------------------------------------------------------------

Exited == pc = "exited"
Leaked == Exited /\ ~keep /\ ec2 \in {"pending", "running"}

(***************************************************************************)
(* prove-aws.sh:5-7: the instance is terminated when the script exits.     *)
(***************************************************************************)
TerminatedWhenTheScriptExits == ~Leaked

(***************************************************************************)
(* Every other exit terminates it: an instance outlives the exit only    *)
(* when the answer to run-instances was lost, so that INSTANCE is empty,   *)
(* or terminate-instances failed (prove-aws.sh:186-206).                   *)
(***************************************************************************)
LeaksOnlyByLostCalls == Leaked => unanswered # {}

(***************************************************************************)
(* Exit code 0 means measured: the remote command succeeded and its output *)
(* was printed, whatever calls failed on the way (prove-aws.sh:245-258).   *)
(***************************************************************************)
SuccessMeansMeasured == (Exited /\ exit = 0) => (remote = "Success" /\ printed)

(***************************************************************************)
(* The script ends, whether or not the agent ever registers and the remote *)
(* command ever finishes: both loops are bounded (prove-aws.sh:215, 237).  *)
(***************************************************************************)
ScriptEnds == <>(Exited \/ pc = "killed")

=============================================================================

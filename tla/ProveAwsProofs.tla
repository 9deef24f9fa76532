--------------------------- MODULE ProveAwsProofs ---------------------------
(***************************************************************************)
(* Theorems about ProveAws, for every number of turns and of faults.       *)
(***************************************************************************)
EXTENDS ProveAws, TLAPS

-----------------------------------------------------------------------------
(* The invariant.                                                          *)

Commands == {"resolve", "launch", "wait", "ping", "send", "poll", "print", "check"}

(* Before the command was sent there is no status to mistake for its own. *)
Unsent == {"resolve", "launch", "wait", "ping", "send"}

(* A final status is that of the remote command, which keeps it; and a zero *)
(* exit code was taken from it, after the output.                          *)
MeasuredInv ==
  /\ pc \in Commands \cup {"trap", "exited", "killed"}
  /\ pc \in Commands => exit = Running
  /\ status \in Final => pc \notin Unsent /\ remote = status
  /\ pc \in {"print", "check"} => status \in Final
  /\ pc = "check" => printed
  /\ exit = 0 => status = "Success" /\ printed

(* An instance exists only after its launch; it is known, or its answer was *)
(* lost; and a known one that is not kept is dead when the script exits, or *)
(* the call that terminates it failed.                                      *)
LeakInv ==
  /\ pc \in {"resolve", "launch"} => ec2 = "none"
  /\ ec2 # "none" => known \/ unanswered # {}
  /\ (pc = "exited" /\ known /\ ~keep) => ec2 \in {"none", "terminated"} \/ unanswered # {}

Inv == MeasuredInv /\ LeakInv

(* -1 is no exit code. *)
LEMMA RunningIsNoCode == Running # 0 /\ Running # 1 /\ Running # 130
BY DEF Running

LEMMA InitInv == Init => Inv
<1> SUFFICES ASSUME Init PROVE Inv
  OBVIOUS
<1>1. MeasuredInv
  BY RunningIsNoCode, Zenon DEF Init, MeasuredInv, Commands, Unsent, Final
<1>2. LeakInv
  <2>1. pc = "resolve" /\ ec2 = "none"
    BY DEF Init
  <2> QED BY <2>1 DEF LeakInv
<1> QED BY <1>1, <1>2 DEF Inv

-----------------------------------------------------------------------------
(* The steps.  Leave, wherever it is taken, keeps both parts.              *)

LEMMA MeasuredStep ==
  ASSUME Inv, [Next]_vars
  PROVE  MeasuredInv'
<1> USE DEF MeasuredInv, Commands, Unsent, Final
<1>1. CASE Resolve
  BY <1>1 DEF Inv, Resolve, Leave, Goto, cloud
<1>2. CASE Launch
  BY <1>2 DEF Inv, Launch, Leave, Goto
<1>3. CASE WaitRunning
  BY <1>3 DEF Inv, WaitRunning, Leave, Goto, cloud
<1>4. CASE Ping
  BY <1>4 DEF Inv, Ping, Leave, Goto, cloud
<1>5. CASE SendCommand
  BY <1>5 DEF Inv, SendCommand, Leave, Goto
<1>6. CASE Poll
  <2>1. pc = "poll" /\ exit = Running /\ remote' = remote /\ printed' = printed
    BY <1>6 DEF Inv, Poll, cloud
  <2>2. status' \in Final => remote' = status'
    BY <1>6 DEF Poll, cloud
  <2>3. CASE status' \in Final
    BY <1>6, <2>1, <2>2, <2>3, RunningIsNoCode DEF Poll, Goto
  <2>4. CASE status' \notin Final
    <3>1. (pc' = "trap" /\ exit' = 1) \/ (pc' = "poll" /\ exit' = exit)
      BY <1>6, <2>4 DEF Poll, Leave, Goto
    <3> QED BY <2>1, <2>4, <3>1, RunningIsNoCode
  <2> QED BY <2>3, <2>4
<1>7. CASE PrintOutput
  BY <1>7 DEF Inv, PrintOutput, Leave, Goto, cloud
<1>8. CASE CheckStatus
  BY <1>8 DEF Inv, CheckStatus, Leave, cloud
<1>9. CASE Terminate
  BY <1>9 DEF Inv, Terminate
<1>10. CASE Interrupt
  BY <1>10 DEF Inv, Interrupt, Leave, cloud
<1>11. CASE Boot
  BY <1>11 DEF Inv, Boot, script
<1>12. CASE InstanceDies
  BY <1>12 DEF Inv, InstanceDies, script
<1>13. CASE Register
  BY <1>13 DEF Inv, Register, script
<1>14. CASE RemoteEnds
  BY <1>14 DEF Inv, RemoteEnds, script
<1>15. CASE Kill
  BY <1>15 DEF Inv, Kill, cloud
<1>16. CASE UNCHANGED vars
  BY <1>16 DEF Inv, vars, script, cloud
<1> QED BY <1>1, <1>2, <1>3, <1>4, <1>5, <1>6, <1>7, <1>8, <1>9, <1>10, <1>11, <1>12, <1>13, <1>14, <1>15, <1>16
  DEF Next, ScriptStep, CloudStep

LEMMA LeakStep ==
  ASSUME Inv, [Next]_vars
  PROVE  LeakInv'
<1> USE DEF LeakInv
<1>1. CASE Resolve
  BY <1>1 DEF Inv, Resolve, Leave, Goto, cloud
<1>2. CASE Launch
  BY <1>2 DEF Inv, Launch, Leave, Goto
<1>3. CASE WaitRunning
  BY <1>3 DEF Inv, WaitRunning, Leave, Goto, cloud
<1>4. CASE Ping
  BY <1>4 DEF Inv, Ping, Leave, Goto, cloud
<1>5. CASE SendCommand
  BY <1>5 DEF Inv, SendCommand, Leave, Goto
<1>6. CASE Poll
  BY <1>6 DEF Inv, Poll, Leave, Goto, cloud
<1>7. CASE PrintOutput
  BY <1>7 DEF Inv, PrintOutput, Leave, Goto, cloud
<1>8. CASE CheckStatus
  BY <1>8 DEF Inv, CheckStatus, Leave, cloud
<1>9. CASE Terminate
  BY <1>9 DEF Inv, Terminate
<1>10. CASE Interrupt
  BY <1>10 DEF Inv, Interrupt, Leave, cloud
<1>11. CASE Boot
  BY <1>11 DEF Inv, Boot, script
<1>12. CASE InstanceDies
  BY <1>12 DEF Inv, InstanceDies, script
<1>13. CASE Register
  BY <1>13 DEF Inv, Register, script
<1>14. CASE RemoteEnds
  BY <1>14 DEF Inv, RemoteEnds, script
<1>15. CASE Kill
  BY <1>15 DEF Inv, Kill, cloud
<1>16. CASE UNCHANGED vars
  BY <1>16 DEF Inv, vars, script, cloud
<1> QED BY <1>1, <1>2, <1>3, <1>4, <1>5, <1>6, <1>7, <1>8, <1>9, <1>10, <1>11, <1>12, <1>13, <1>14, <1>15, <1>16
  DEF Next, ScriptStep, CloudStep

LEMMA InvInductive == Spec => []Inv
<1>1. Inv /\ [Next]_vars => Inv'
  BY MeasuredStep, LeakStep DEF Inv
<1> QED BY <1>1, InitInv, PTL DEF Spec

-----------------------------------------------------------------------------

(* An instance outlives the script only when an answer was lost or the     *)
(* call that terminates it failed, whatever the number of faults.          *)
THEOREM ProveAwsLeaksOnlyByLostCalls == Spec => []LeaksOnlyByLostCalls
<1>1. Inv => LeaksOnlyByLostCalls
  BY DEF Inv, LeakInv, LeaksOnlyByLostCalls, Leaked, Exited
<1> QED BY <1>1, InvInductive, PTL

(* Exit code 0 means that the remote command succeeded and its output was  *)
(* printed.                                                                *)
THEOREM ProveAwsSuccessMeansMeasured == Spec => []SuccessMeansMeasured
<1>1. Inv => SuccessMeansMeasured
  BY DEF Inv, MeasuredInv, SuccessMeansMeasured, Exited, Final
<1> QED BY <1>1, InvInductive, PTL

=============================================================================

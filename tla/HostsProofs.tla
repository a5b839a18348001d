----------------------------- MODULE HostsProofs -----------------------------
(***************************************************************************)
(* The invariants of the three host specifications of MCHosts, for every   *)
(* value of their constants: what the outbox acknowledges was shown, what  *)
(* a former owner of the lease sends is fenced, and what the reference     *)
(* host reports failed was not written.                                    *)
(***************************************************************************)
EXTENDS MCHosts, Sequences, TLAPS

(***************************************************************************)
(* The reference host.                                                     *)
(***************************************************************************)

\* Nothing has been opened for the task yet.
Untouched ==
    /\ current = 0 /\ running = 0 /\ ~wrote /\ central \in {"none", "active"}
    /\ \A i \in Reference!Interactions : chain[i] = "none"

\* Before the record is bound and its tool is called, the task is untouched.
NothingBeforeExecute ==
    /\ ~bound \/ step = "execute" => Untouched
    /\ local = "none" \/ step = "bind" => ~bound
    /\ step = "execute" => bound
    /\ step \in {"monitor", "resume", "close"} => active # 0

\* One interaction is open at a time, and a resume executes the open one.
OneIsOpen ==
    /\ running # 0 => running = current /\ chain[running] = "ready"
    /\ \A i \in Reference!Interactions : chain[i] \in {"pending", "ready"} => i = current
    /\ current # 0 => \A i \in Reference!Interactions : chain[i] = "closed" => i = current

\* The write is the last thing that happens to a task, and none that was
\* declined is written.
WriteIsLast ==
    /\ central \in Reference!FinalStates => current = 0
    /\ wrote => current = 0 /\ central \in {"succeeded", "unknown"}
    /\ \A i \in Reference!Interactions : chain[i] = "closed" => ~wrote

\* A record that is failed is out of the driver's hands, and what only this
\* host may resume is not being resumed.
FailedIsOver ==
    local \in {"failed", "canceled"} =>
        /\ step \in {"idle", "off"}
        /\ mine => ~wrote /\ running = 0

\* The inductive invariant of the reference host.
ReferenceInv ==
    /\ Reference!TypeOK
    /\ NothingBeforeExecute
    /\ OneIsOpen
    /\ WriteIsLast
    /\ FailedIsOver

\* The central service, as the reference host sees it: a card is answered, the
\* lease is taken over, another host resumes.
LEMMA ReferenceService ==
    ASSUME ReferenceInv, Reference!ReferenceAssumption,
           \/ \E a \in {"ready", "closed"} : Reference!UserActs(a)
           \/ Reference!LeaseTakenOver
           \/ Reference!OtherHostResumes
    PROVE  ReferenceInv'
<1> USE DEF Reference!ReferenceAssumption, Reference!Interactions, Reference!FinalStates,
            Reference!ActiveStates, Reference!hostVars, Reference!centralVars
<1>1. ASSUME NEW a \in {"ready", "closed"}, Reference!UserActs(a)
      PROVE  ReferenceInv'
  <2>1. Reference!TypeOK'
    BY <1>1 DEF ReferenceInv, Reference!TypeOK, NothingBeforeExecute, Untouched,
       Reference!UserActs
  <2>2. OneIsOpen'
    BY <1>1 DEF ReferenceInv, Reference!TypeOK, OneIsOpen, WriteIsLast,
       NothingBeforeExecute, Untouched, FailedIsOver,
       Reference!UserActs
  <2>3. WriteIsLast'
    BY <1>1 DEF ReferenceInv, Reference!TypeOK, OneIsOpen, WriteIsLast,
       NothingBeforeExecute, Untouched, FailedIsOver,
       Reference!UserActs
  <2>4. NothingBeforeExecute'
    BY <1>1 DEF ReferenceInv, Reference!TypeOK, OneIsOpen, WriteIsLast,
       NothingBeforeExecute, Untouched, FailedIsOver,
       Reference!UserActs
  <2>5. FailedIsOver'
    BY <1>1 DEF ReferenceInv, Reference!TypeOK, OneIsOpen, WriteIsLast,
       NothingBeforeExecute, Untouched, FailedIsOver,
       Reference!UserActs
  <2> QED BY <2>1, <2>2, <2>3, <2>4, <2>5 DEF ReferenceInv
<1>2. ASSUME Reference!LeaseTakenOver
      PROVE  ReferenceInv'
  <2>1. Reference!TypeOK'
    BY <1>2 DEF ReferenceInv, Reference!TypeOK, NothingBeforeExecute, Untouched,
       Reference!LeaseTakenOver
  <2>2. OneIsOpen'
    BY <1>2 DEF ReferenceInv, Reference!TypeOK, OneIsOpen, WriteIsLast,
       NothingBeforeExecute, Untouched, FailedIsOver,
       Reference!LeaseTakenOver
  <2>3. WriteIsLast'
    BY <1>2 DEF ReferenceInv, Reference!TypeOK, OneIsOpen, WriteIsLast,
       NothingBeforeExecute, Untouched, FailedIsOver,
       Reference!LeaseTakenOver
  <2>4. NothingBeforeExecute'
    BY <1>2 DEF ReferenceInv, Reference!TypeOK, OneIsOpen, WriteIsLast,
       NothingBeforeExecute, Untouched, FailedIsOver,
       Reference!LeaseTakenOver
  <2>5. FailedIsOver'
    BY <1>2 DEF ReferenceInv, Reference!TypeOK, OneIsOpen, WriteIsLast,
       NothingBeforeExecute, Untouched, FailedIsOver,
       Reference!LeaseTakenOver
  <2> QED BY <2>1, <2>2, <2>3, <2>4, <2>5 DEF ReferenceInv
<1>3. ASSUME Reference!OtherHostResumes
      PROVE  ReferenceInv'
  <2>1. Reference!TypeOK'
    BY <1>3 DEF ReferenceInv, Reference!TypeOK, NothingBeforeExecute, Untouched,
       Reference!OtherHostResumes
  <2>2. OneIsOpen'
    BY <1>3 DEF ReferenceInv, Reference!TypeOK, OneIsOpen, WriteIsLast,
       NothingBeforeExecute, Untouched, FailedIsOver,
       Reference!OtherHostResumes
  <2>3. WriteIsLast'
    BY <1>3 DEF ReferenceInv, Reference!TypeOK, OneIsOpen, WriteIsLast,
       NothingBeforeExecute, Untouched, FailedIsOver,
       Reference!OtherHostResumes
  <2>4. NothingBeforeExecute'
    BY <1>3 DEF ReferenceInv, Reference!TypeOK, OneIsOpen, WriteIsLast,
       NothingBeforeExecute, Untouched, FailedIsOver,
       Reference!OtherHostResumes
  <2>5. FailedIsOver'
    BY <1>3 DEF ReferenceInv, Reference!TypeOK, OneIsOpen, WriteIsLast,
       NothingBeforeExecute, Untouched, FailedIsOver,
       Reference!OtherHostResumes
  <2> QED BY <2>1, <2>2, <2>3, <2>4, <2>5 DEF ReferenceInv
<1> QED BY <1>1, <1>2, <1>3

\* The record is written, bound to the central task, and the tool is called.
LEMMA ReferenceStarts ==
    ASSUME ReferenceInv, Reference!ReferenceAssumption,
           \/ Reference!PrepareTask
           \/ \E s, a \in BOOLEAN : Reference!BindTask(s, a)
           \/ \E s, a, o \in BOOLEAN : Reference!ExecutePlan(s, a, o)
    PROVE  ReferenceInv'
<1> USE DEF Reference!ReferenceAssumption, Reference!Interactions, Reference!FinalStates,
            Reference!ActiveStates, Reference!hostVars, Reference!centralVars
<1>1. ASSUME Reference!PrepareTask
      PROVE  ReferenceInv'
  <2>1. Reference!TypeOK'
    BY <1>1 DEF ReferenceInv, Reference!TypeOK, NothingBeforeExecute, Untouched,
       Reference!PrepareTask, Reference!CreateTask
  <2>2. OneIsOpen'
    BY <1>1 DEF ReferenceInv, Reference!TypeOK, OneIsOpen, WriteIsLast,
       NothingBeforeExecute, Untouched, FailedIsOver,
       Reference!PrepareTask, Reference!CreateTask
  <2>3. WriteIsLast'
    BY <1>1 DEF ReferenceInv, Reference!TypeOK, OneIsOpen, WriteIsLast,
       NothingBeforeExecute, Untouched, FailedIsOver,
       Reference!PrepareTask, Reference!CreateTask
  <2>4. NothingBeforeExecute'
    BY <1>1 DEF ReferenceInv, Reference!TypeOK, OneIsOpen, WriteIsLast,
       NothingBeforeExecute, Untouched, FailedIsOver,
       Reference!PrepareTask, Reference!CreateTask
  <2>5. FailedIsOver'
    BY <1>1 DEF ReferenceInv, Reference!TypeOK, OneIsOpen, WriteIsLast,
       NothingBeforeExecute, Untouched, FailedIsOver,
       Reference!PrepareTask, Reference!CreateTask
  <2> QED BY <2>1, <2>2, <2>3, <2>4, <2>5 DEF ReferenceInv
<1>2. ASSUME NEW s \in BOOLEAN, NEW a \in BOOLEAN, Reference!BindTask(s, a)
      PROVE  ReferenceInv'
  <2>1. Reference!TypeOK'
    BY <1>2 DEF ReferenceInv, Reference!TypeOK, NothingBeforeExecute, Untouched,
       Reference!BindTask, Reference!FailLocalTask, Reference!UpdateTask,
       Reference!Finish
  <2>2. OneIsOpen'
    BY <1>2 DEF ReferenceInv, Reference!TypeOK, OneIsOpen, WriteIsLast,
       NothingBeforeExecute, Untouched, FailedIsOver,
       Reference!BindTask, Reference!FailLocalTask, Reference!UpdateTask,
       Reference!Finish
  <2>3. WriteIsLast'
    BY <1>2 DEF ReferenceInv, Reference!TypeOK, OneIsOpen, WriteIsLast,
       NothingBeforeExecute, Untouched, FailedIsOver,
       Reference!BindTask, Reference!FailLocalTask, Reference!UpdateTask,
       Reference!Finish
  <2>4. NothingBeforeExecute'
    BY <1>2 DEF ReferenceInv, Reference!TypeOK, OneIsOpen, WriteIsLast,
       NothingBeforeExecute, Untouched, FailedIsOver,
       Reference!BindTask, Reference!FailLocalTask, Reference!UpdateTask,
       Reference!Finish
  <2>5. FailedIsOver'
    BY <1>2 DEF ReferenceInv, Reference!TypeOK, OneIsOpen, WriteIsLast,
       NothingBeforeExecute, Untouched, FailedIsOver,
       Reference!BindTask, Reference!FailLocalTask, Reference!UpdateTask,
       Reference!Finish
  <2> QED BY <2>1, <2>2, <2>3, <2>4, <2>5 DEF ReferenceInv
<1>3. ASSUME NEW s \in BOOLEAN, NEW a \in BOOLEAN, NEW o \in BOOLEAN, Reference!ExecutePlan(s, a, o)
      PROVE  ReferenceInv'
  <2>1. Reference!TypeOK'
    BY <1>3 DEF ReferenceInv, Reference!TypeOK, NothingBeforeExecute, Untouched,
       Reference!ExecutePlan, Reference!FailLocalTask, Reference!Present,
       Reference!UpdateTask, Reference!Finish
  <2>2. OneIsOpen'
    BY <1>3 DEF ReferenceInv, Reference!TypeOK, OneIsOpen, WriteIsLast,
       NothingBeforeExecute, Untouched, FailedIsOver,
       Reference!ExecutePlan, Reference!FailLocalTask, Reference!Present,
       Reference!UpdateTask, Reference!Finish
  <2>3. WriteIsLast'
    BY <1>3 DEF ReferenceInv, Reference!TypeOK, OneIsOpen, WriteIsLast,
       NothingBeforeExecute, Untouched, FailedIsOver,
       Reference!ExecutePlan, Reference!FailLocalTask, Reference!Present,
       Reference!UpdateTask, Reference!Finish
  <2>4. NothingBeforeExecute'
    BY <1>3 DEF ReferenceInv, Reference!TypeOK, OneIsOpen, WriteIsLast,
       NothingBeforeExecute, Untouched, FailedIsOver,
       Reference!ExecutePlan, Reference!FailLocalTask, Reference!Present,
       Reference!UpdateTask, Reference!Finish
  <2>5. FailedIsOver'
    BY <1>3 DEF ReferenceInv, Reference!TypeOK, OneIsOpen, WriteIsLast,
       NothingBeforeExecute, Untouched, FailedIsOver,
       Reference!ExecutePlan, Reference!FailLocalTask, Reference!Present,
       Reference!UpdateTask, Reference!Finish
  <2> QED BY <2>1, <2>2, <2>3, <2>4, <2>5 DEF ReferenceInv
<1> QED BY <1>1, <1>2, <1>3

\* The open interaction is followed, resumed and closed.
LEMMA ReferenceFollows ==
    ASSUME ReferenceInv, Reference!ReferenceAssumption,
           \/ Reference!Monitor
           \/ \E d \in BOOLEAN : Reference!MonitorEnds(d)
           \/ Reference!SendResume
           \/ Reference!ResumeRefused
           \/ \E f \in BOOLEAN : Reference!CloseInteraction(f)
    PROVE  ReferenceInv'
<1> USE DEF Reference!ReferenceAssumption, Reference!Interactions, Reference!FinalStates,
            Reference!ActiveStates, Reference!hostVars, Reference!centralVars
<1>1. ASSUME Reference!Monitor
      PROVE  ReferenceInv'
  <2>0. started' \in SUBSET Reference!Interactions
    <3>1. active \in Reference!Interactions
      BY <1>1 DEF ReferenceInv, Reference!TypeOK, NothingBeforeExecute, Reference!Monitor
    <3>2. started' = started \/ started' = started \cup {active}
      BY <1>1 DEF Reference!Monitor
    <3>3. started \in SUBSET Reference!Interactions
      BY DEF ReferenceInv, Reference!TypeOK
    <3> QED BY <3>1, <3>2, <3>3
  <2>1. Reference!TypeOK'
    BY <1>1, <2>0 DEF ReferenceInv, Reference!TypeOK, NothingBeforeExecute, Untouched,
       Reference!Monitor
  <2>2. OneIsOpen'
    BY <1>1 DEF ReferenceInv, Reference!TypeOK, OneIsOpen, WriteIsLast,
       NothingBeforeExecute, Untouched, FailedIsOver,
       Reference!Monitor
  <2>3. WriteIsLast'
    BY <1>1 DEF ReferenceInv, Reference!TypeOK, OneIsOpen, WriteIsLast,
       NothingBeforeExecute, Untouched, FailedIsOver,
       Reference!Monitor
  <2>4. NothingBeforeExecute'
    BY <1>1 DEF ReferenceInv, Reference!TypeOK, OneIsOpen, WriteIsLast,
       NothingBeforeExecute, Untouched, FailedIsOver,
       Reference!Monitor
  <2>5. FailedIsOver'
    BY <1>1 DEF ReferenceInv, Reference!TypeOK, OneIsOpen, WriteIsLast,
       NothingBeforeExecute, Untouched, FailedIsOver,
       Reference!Monitor
  <2> QED BY <2>1, <2>2, <2>3, <2>4, <2>5 DEF ReferenceInv
<1>2. ASSUME NEW d \in BOOLEAN, Reference!MonitorEnds(d)
      PROVE  ReferenceInv'
  <2>1. Reference!TypeOK'
    BY <1>2 DEF ReferenceInv, Reference!TypeOK, NothingBeforeExecute, Untouched,
       Reference!MonitorEnds, Reference!UpdateTask, Reference!DriverError
  <2>2. OneIsOpen'
    BY <1>2 DEF ReferenceInv, Reference!TypeOK, OneIsOpen, WriteIsLast,
       NothingBeforeExecute, Untouched, FailedIsOver,
       Reference!MonitorEnds, Reference!UpdateTask, Reference!DriverError
  <2>3. WriteIsLast'
    BY <1>2 DEF ReferenceInv, Reference!TypeOK, OneIsOpen, WriteIsLast,
       NothingBeforeExecute, Untouched, FailedIsOver,
       Reference!MonitorEnds, Reference!UpdateTask, Reference!DriverError
  <2>4. NothingBeforeExecute'
    BY <1>2 DEF ReferenceInv, Reference!TypeOK, OneIsOpen, WriteIsLast,
       NothingBeforeExecute, Untouched, FailedIsOver,
       Reference!MonitorEnds, Reference!UpdateTask, Reference!DriverError
  <2>5. FailedIsOver'
    BY <1>2 DEF ReferenceInv, Reference!TypeOK, OneIsOpen, WriteIsLast,
       NothingBeforeExecute, Untouched, FailedIsOver,
       Reference!MonitorEnds, Reference!UpdateTask, Reference!DriverError
  <2> QED BY <2>1, <2>2, <2>3, <2>4, <2>5 DEF ReferenceInv
<1>3. ASSUME Reference!SendResume
      PROVE  ReferenceInv'
  <2>1. Reference!TypeOK'
    BY <1>3 DEF ReferenceInv, Reference!TypeOK, NothingBeforeExecute, Untouched,
       Reference!SendResume
  <2>2. OneIsOpen'
    BY <1>3 DEF ReferenceInv, Reference!TypeOK, OneIsOpen, WriteIsLast,
       NothingBeforeExecute, Untouched, FailedIsOver,
       Reference!SendResume
  <2>3. WriteIsLast'
    BY <1>3 DEF ReferenceInv, Reference!TypeOK, OneIsOpen, WriteIsLast,
       NothingBeforeExecute, Untouched, FailedIsOver,
       Reference!SendResume
  <2>4. NothingBeforeExecute'
    BY <1>3 DEF ReferenceInv, Reference!TypeOK, OneIsOpen, WriteIsLast,
       NothingBeforeExecute, Untouched, FailedIsOver,
       Reference!SendResume
  <2>5. FailedIsOver'
    BY <1>3 DEF ReferenceInv, Reference!TypeOK, OneIsOpen, WriteIsLast,
       NothingBeforeExecute, Untouched, FailedIsOver,
       Reference!SendResume
  <2> QED BY <2>1, <2>2, <2>3, <2>4, <2>5 DEF ReferenceInv
<1>4. ASSUME Reference!ResumeRefused
      PROVE  ReferenceInv'
  <2>1. Reference!TypeOK'
    BY <1>4 DEF ReferenceInv, Reference!TypeOK, NothingBeforeExecute, Untouched,
       Reference!ResumeRefused, Reference!UpdateTask, Reference!DriverError
  <2>2. OneIsOpen'
    BY <1>4 DEF ReferenceInv, Reference!TypeOK, OneIsOpen, WriteIsLast,
       NothingBeforeExecute, Untouched, FailedIsOver,
       Reference!ResumeRefused, Reference!UpdateTask, Reference!DriverError
  <2>3. WriteIsLast'
    BY <1>4 DEF ReferenceInv, Reference!TypeOK, OneIsOpen, WriteIsLast,
       NothingBeforeExecute, Untouched, FailedIsOver,
       Reference!ResumeRefused, Reference!UpdateTask, Reference!DriverError
  <2>4. NothingBeforeExecute'
    BY <1>4 DEF ReferenceInv, Reference!TypeOK, OneIsOpen, WriteIsLast,
       NothingBeforeExecute, Untouched, FailedIsOver,
       Reference!ResumeRefused, Reference!UpdateTask, Reference!DriverError
  <2>5. FailedIsOver'
    BY <1>4 DEF ReferenceInv, Reference!TypeOK, OneIsOpen, WriteIsLast,
       NothingBeforeExecute, Untouched, FailedIsOver,
       Reference!ResumeRefused, Reference!UpdateTask, Reference!DriverError
  <2> QED BY <2>1, <2>2, <2>3, <2>4, <2>5 DEF ReferenceInv
<1>5. ASSUME NEW f \in BOOLEAN, Reference!CloseInteraction(f)
      PROVE  ReferenceInv'
  <2>1. Reference!TypeOK'
    BY <1>5 DEF ReferenceInv, Reference!TypeOK, NothingBeforeExecute, Untouched,
       Reference!CloseInteraction, Reference!FinishCentralTask,
       Reference!CentralOutcome, Reference!UpdateTask, Reference!Finish
  <2>2. OneIsOpen'
    BY <1>5 DEF ReferenceInv, Reference!TypeOK, OneIsOpen, WriteIsLast,
       NothingBeforeExecute, Untouched, FailedIsOver,
       Reference!CloseInteraction, Reference!FinishCentralTask,
       Reference!CentralOutcome, Reference!UpdateTask, Reference!Finish
  <2>3. WriteIsLast'
    BY <1>5 DEF ReferenceInv, Reference!TypeOK, OneIsOpen, WriteIsLast,
       NothingBeforeExecute, Untouched, FailedIsOver,
       Reference!CloseInteraction, Reference!FinishCentralTask,
       Reference!CentralOutcome, Reference!UpdateTask, Reference!Finish
  <2>4. NothingBeforeExecute'
    BY <1>5 DEF ReferenceInv, Reference!TypeOK, OneIsOpen, WriteIsLast,
       NothingBeforeExecute, Untouched, FailedIsOver,
       Reference!CloseInteraction, Reference!FinishCentralTask,
       Reference!CentralOutcome, Reference!UpdateTask, Reference!Finish
  <2>5. FailedIsOver'
    BY <1>5 DEF ReferenceInv, Reference!TypeOK, OneIsOpen, WriteIsLast,
       NothingBeforeExecute, Untouched, FailedIsOver,
       Reference!CloseInteraction, Reference!FinishCentralTask,
       Reference!CentralOutcome, Reference!UpdateTask, Reference!Finish
  <2> QED BY <2>1, <2>2, <2>3, <2>4, <2>5 DEF ReferenceInv
<1> QED BY <1>1, <1>2, <1>3, <1>4, <1>5

\* The server ends a resume, and the host hears of it or does not.
LEMMA ReferenceResumed ==
    ASSUME ReferenceInv, Reference!ReferenceAssumption,
           \E out \in Reference!Outcomes, h \in BOOLEAN : Reference!ResumeEnds(out, h)
    PROVE  ReferenceInv'
<1> USE DEF Reference!ReferenceAssumption, Reference!Interactions, Reference!FinalStates,
            Reference!ActiveStates, Reference!hostVars, Reference!centralVars
<1>1. ASSUME NEW out \in Reference!Outcomes, NEW h \in BOOLEAN, Reference!ResumeEnds(out, h)
      PROVE  ReferenceInv'
  <2>1. Reference!TypeOK'
    BY <1>1 DEF ReferenceInv, Reference!TypeOK, NothingBeforeExecute, Untouched,
       Reference!ResumeEnds, Reference!Executed, Reference!Outcomes,
       Reference!Present, Reference!DriverError, Reference!UpdateTask,
       Reference!Finish
  <2>2. OneIsOpen'
    BY <1>1 DEF ReferenceInv, Reference!TypeOK, OneIsOpen, WriteIsLast,
       NothingBeforeExecute, Untouched, FailedIsOver,
       Reference!ResumeEnds, Reference!Executed, Reference!Outcomes,
       Reference!Present, Reference!DriverError, Reference!UpdateTask,
       Reference!Finish
  <2>3. WriteIsLast'
    BY <1>1 DEF ReferenceInv, Reference!TypeOK, OneIsOpen, WriteIsLast,
       NothingBeforeExecute, Untouched, FailedIsOver,
       Reference!ResumeEnds, Reference!Executed, Reference!Outcomes,
       Reference!Present, Reference!DriverError, Reference!UpdateTask,
       Reference!Finish
  <2>4. NothingBeforeExecute'
    BY <1>1 DEF ReferenceInv, Reference!TypeOK, OneIsOpen, WriteIsLast,
       NothingBeforeExecute, Untouched, FailedIsOver,
       Reference!ResumeEnds, Reference!Executed, Reference!Outcomes,
       Reference!Present, Reference!DriverError, Reference!UpdateTask,
       Reference!Finish
  <2>5. FailedIsOver'
    BY <1>1 DEF ReferenceInv, Reference!TypeOK, OneIsOpen, WriteIsLast,
       NothingBeforeExecute, Untouched, FailedIsOver,
       Reference!ResumeEnds, Reference!Executed, Reference!Outcomes,
       Reference!Present, Reference!DriverError, Reference!UpdateTask,
       Reference!Finish
  <2> QED BY <2>1, <2>2, <2>3, <2>4, <2>5 DEF ReferenceInv
<1> QED BY <1>1

\* The host stops, and recovers a record it finds.
LEMMA ReferenceRecovers ==
    ASSUME ReferenceInv, Reference!ReferenceAssumption,
           \/ Reference!Stop
           \/ Reference!RecoverUnbound
           \/ Reference!RecoverBound
    PROVE  ReferenceInv'
<1> USE DEF Reference!ReferenceAssumption, Reference!Interactions, Reference!FinalStates,
            Reference!ActiveStates, Reference!hostVars, Reference!centralVars
<1>1. ASSUME Reference!Stop
      PROVE  ReferenceInv'
  <2>1. Reference!TypeOK'
    BY <1>1 DEF ReferenceInv, Reference!TypeOK, NothingBeforeExecute, Untouched,
       Reference!Stop
  <2>2. OneIsOpen'
    BY <1>1 DEF ReferenceInv, Reference!TypeOK, OneIsOpen, WriteIsLast,
       NothingBeforeExecute, Untouched, FailedIsOver,
       Reference!Stop
  <2>3. WriteIsLast'
    BY <1>1 DEF ReferenceInv, Reference!TypeOK, OneIsOpen, WriteIsLast,
       NothingBeforeExecute, Untouched, FailedIsOver,
       Reference!Stop
  <2>4. NothingBeforeExecute'
    BY <1>1 DEF ReferenceInv, Reference!TypeOK, OneIsOpen, WriteIsLast,
       NothingBeforeExecute, Untouched, FailedIsOver,
       Reference!Stop
  <2>5. FailedIsOver'
    BY <1>1 DEF ReferenceInv, Reference!TypeOK, OneIsOpen, WriteIsLast,
       NothingBeforeExecute, Untouched, FailedIsOver,
       Reference!Stop
  <2> QED BY <2>1, <2>2, <2>3, <2>4, <2>5 DEF ReferenceInv
<1>2. ASSUME Reference!RecoverUnbound
      PROVE  ReferenceInv'
  <2>1. Reference!TypeOK'
    BY <1>2 DEF ReferenceInv, Reference!TypeOK, NothingBeforeExecute, Untouched,
       Reference!RecoverUnbound, Reference!UpdateTask, Reference!Finish
  <2>2. OneIsOpen'
    BY <1>2 DEF ReferenceInv, Reference!TypeOK, OneIsOpen, WriteIsLast,
       NothingBeforeExecute, Untouched, FailedIsOver,
       Reference!RecoverUnbound, Reference!UpdateTask, Reference!Finish
  <2>3. WriteIsLast'
    BY <1>2 DEF ReferenceInv, Reference!TypeOK, OneIsOpen, WriteIsLast,
       NothingBeforeExecute, Untouched, FailedIsOver,
       Reference!RecoverUnbound, Reference!UpdateTask, Reference!Finish
  <2>4. NothingBeforeExecute'
    BY <1>2 DEF ReferenceInv, Reference!TypeOK, OneIsOpen, WriteIsLast,
       NothingBeforeExecute, Untouched, FailedIsOver,
       Reference!RecoverUnbound, Reference!UpdateTask, Reference!Finish
  <2>5. FailedIsOver'
    BY <1>2 DEF ReferenceInv, Reference!TypeOK, OneIsOpen, WriteIsLast,
       NothingBeforeExecute, Untouched, FailedIsOver,
       Reference!RecoverUnbound, Reference!UpdateTask, Reference!Finish
  <2> QED BY <2>1, <2>2, <2>3, <2>4, <2>5 DEF ReferenceInv
<1>3. ASSUME Reference!RecoverBound
      PROVE  ReferenceInv'
  <2>1. Reference!TypeOK'
    BY <1>3 DEF ReferenceInv, Reference!TypeOK, NothingBeforeExecute, Untouched,
       Reference!RecoverBound, Reference!Present, Reference!UpdateTask,
       Reference!Finish
  <2>2. OneIsOpen'
    BY <1>3 DEF ReferenceInv, Reference!TypeOK, OneIsOpen, WriteIsLast,
       NothingBeforeExecute, Untouched, FailedIsOver,
       Reference!RecoverBound, Reference!Present, Reference!UpdateTask,
       Reference!Finish
  <2>3. WriteIsLast'
    BY <1>3 DEF ReferenceInv, Reference!TypeOK, OneIsOpen, WriteIsLast,
       NothingBeforeExecute, Untouched, FailedIsOver,
       Reference!RecoverBound, Reference!Present, Reference!UpdateTask,
       Reference!Finish
  <2>4. NothingBeforeExecute'
    BY <1>3 DEF ReferenceInv, Reference!TypeOK, OneIsOpen, WriteIsLast,
       NothingBeforeExecute, Untouched, FailedIsOver,
       Reference!RecoverBound, Reference!Present, Reference!UpdateTask,
       Reference!Finish
  <2>5. FailedIsOver'
    BY <1>3 DEF ReferenceInv, Reference!TypeOK, OneIsOpen, WriteIsLast,
       NothingBeforeExecute, Untouched, FailedIsOver,
       Reference!RecoverBound, Reference!Present, Reference!UpdateTask,
       Reference!Finish
  <2> QED BY <2>1, <2>2, <2>3, <2>4, <2>5 DEF ReferenceInv
<1> QED BY <1>1, <1>2, <1>3

\* ReferenceInv is an invariant of MCHosts: the reference host keeps it, and
\* the other two specifications leave its variables alone.
LEMMA ReferenceInvariant == Spec => []ReferenceInv
<1>0. Reference!ReferenceAssumption
  BY ConstantsFit
<1>1. Init => ReferenceInv
  <2> SUFFICES ASSUME Reference!Init PROVE ReferenceInv
    BY DEF Init
  <2> USE <1>0 DEF Reference!Init, Reference!Interactions, Reference!FinalStates,
                   Reference!ActiveStates, Reference!ReferenceAssumption
  <2>1. Reference!TypeOK
    <3>1. started \in SUBSET Reference!Interactions
      BY Zenon
    <3>2. bound \in BOOLEAN /\ mine \in BOOLEAN /\ wrote \in BOOLEAN
      OBVIOUS
    <3> QED BY <3>1, <3>2 DEF Reference!TypeOK
  <2>2. NothingBeforeExecute /\ OneIsOpen /\ WriteIsLast /\ FailedIsOver
    BY DEF NothingBeforeExecute, Untouched, OneIsOpen, WriteIsLast, FailedIsOver
  <2> QED BY <2>1, <2>2 DEF ReferenceInv
<1>2. ReferenceInv /\ [Next]_vars => ReferenceInv'
  <2> SUFFICES ASSUME ReferenceInv, [Next]_vars PROVE ReferenceInv'
    OBVIOUS
  <2>1. CASE Reference!Next
    BY <1>0, <2>1, ReferenceService, ReferenceStarts, ReferenceFollows, ReferenceResumed,
       ReferenceRecovers DEF Reference!Next
  <2>2. CASE UNCHANGED referenceVars
    BY <2>2 DEF referenceVars, ReferenceInv, Reference!TypeOK, NothingBeforeExecute,
       Untouched, OneIsOpen, WriteIsLast, FailedIsOver
  <2> QED BY <2>1, <2>2 DEF Next, vars
<1> QED BY <1>1, <1>2, PTL DEF Spec

\* The reference host never reports failed or canceled, while it owns the
\* lease, a task whose write took place (task_driver.py).
THEOREM ReferenceHostIsRight == Spec => []FailedNeverWrote
<1>1. ReferenceInv => FailedNeverWrote
  BY DEF ReferenceInv, FailedIsOver, FailedNeverWrote, Reference!FailedNeverWrote
<1> QED BY <1>1, ReferenceInvariant, PTL

(***************************************************************************)
(* The outbox.                                                             *)
(***************************************************************************)

\* The inductive invariant of the outbox: what is on the wire says of a
\* notification no more than the loop saw.
OutboxInv ==
    /\ state = [r \in Rows |-> state[r]]
    /\ \A a \in wire : a.ok \in BOOLEAN /\ a.defer \in BOOLEAN
    /\ Outbox!AcknowledgedWasShown

\* The hub's own steps acknowledge nothing but what a pull client reads
\* elsewhere (_reconcile_pull_based_deliveries).
LEMMA OutboxHub ==
    ASSUME OutboxInv,
           \/ \E r \in Rows : \/ Outbox!AppendEvent(r) \/ Outbox!TimePasses(r)
                              \/ Outbox!Requeue(r) \/ Outbox!Archive(r)
           \/ \E closed \in SUBSET Rows : Outbox!Reactivate(closed)
           \/ \E c \in Outbox!Clients : Outbox!EnsureEndpoint(c)
           \/ Outbox!Restart
    PROVE  OutboxInv'
<1> USE DEF OutboxInv, Outbox!AcknowledgedWasShown
<1>1. ASSUME NEW r \in Rows,
             \/ Outbox!AppendEvent(r) \/ Outbox!TimePasses(r)
             \/ Outbox!Requeue(r) \/ Outbox!Archive(r)
      PROVE  OutboxInv'
  BY <1>1 DEF Outbox!AppendEvent, Outbox!TimePasses, Outbox!Requeue, Outbox!Archive
<1>2. ASSUME NEW closed \in SUBSET Rows, Outbox!Reactivate(closed)
      PROVE  OutboxInv'
  BY <1>2 DEF Outbox!Reactivate
<1>3. ASSUME NEW c \in Outbox!Clients, Outbox!EnsureEndpoint(c)
      PROVE  OutboxInv'
  BY <1>3 DEF Outbox!EnsureEndpoint
<1>4. ASSUME Outbox!Restart
      PROVE  OutboxInv'
  BY <1>4 DEF Outbox!Restart
<1> QED BY <1>1, <1>2, <1>3, <1>4

\* What a loop does with its batch, and what becomes of its answers.
LEMMA OutboxLoops ==
    ASSUME OutboxInv,
           \/ \E l \in Loops : \/ Outbox!LoopClaims(l) \/ Outbox!LoopDelivers(l)
                               \/ Outbox!LoopDies(l)
           \/ Outbox!HostNotificationAck
    PROVE  OutboxInv'
<1> USE DEF OutboxInv, Outbox!AcknowledgedWasShown
<1>1. ASSUME NEW l \in Loops, NEW answered \in BOOLEAN, Outbox!Claim(l, answered)
      PROVE  OutboxInv'
  BY <1>1 DEF Outbox!Claim, Outbox!ClaimRows
<1>2. ASSUME NEW l \in Loops, NEW ok \in BOOLEAN, NEW kept \in BOOLEAN,
             Outbox!Deliver(l, ok, kept)
      PROVE  OutboxInv'
  <2> DEFINE r == Head(batch[l])
             delivered == Outbox!Delivered(r, ok, kept)
             ack == [loop |-> l, row |-> r, ok |-> delivered,
                     defer |-> ~delivered /\ ~kept /\ client = "wechat"]
  <2>1. delivered \in BOOLEAN /\ (~delivered /\ ~kept /\ client = "wechat") \in BOOLEAN
    BY Zenon DEF Outbox!Delivered
  <2>2. shown' = IF delivered THEN shown \cup {r} ELSE shown
    BY <1>2 DEF Outbox!Deliver, Outbox!Delivered
  <2>3. wire' = wire \cup {ack} /\ state' = state
    BY <1>2 DEF Outbox!Deliver
  <2>4. ack.ok \in BOOLEAN /\ ack.defer \in BOOLEAN /\ ack.row = r /\ (ack.ok => delivered)
    BY <2>1
  <2> HIDE DEF ack, delivered, r
  <2> QED BY <2>2, <2>3, <2>4
<1>3. ASSUME NEW l \in Loops, Outbox!LoopDies(l)
      PROVE  OutboxInv'
  BY <1>3 DEF Outbox!LoopDies
<1>4. ASSUME NEW a \in wire, Outbox!AckArrives(a)
      PROVE  OutboxInv'
  <2>1. Outbox!AckState(a) = "acknowledged" => a.ok
    BY <1>4 DEF Outbox!AckState
  <2> QED BY <1>4, <2>1 DEF Outbox!AckArrives, Outbox!Acknowledge
<1>5. ASSUME NEW a \in wire, NEW lost \in BOOLEAN, Outbox!AckFails(a, lost)
      PROVE  OutboxInv'
  BY <1>5 DEF Outbox!AckFails
<1> QED BY <1>1, <1>2, <1>3, <1>4, <1>5 DEF Outbox!LoopClaims, Outbox!LoopDelivers,
        Outbox!HostNotificationAck

\* Whatever answers are lost, late or repeated, what acknowledge_outbox marks
\* acknowledged was shown to the user or need not be shown.
THEOREM OutboxIsRight == Spec => []AcknowledgedWasShown
<1>1. Init => OutboxInv
  BY DEF Init, Outbox!Init, OutboxInv, Outbox!AcknowledgedWasShown
<1>2. OutboxInv /\ [Next]_vars => OutboxInv'
  <2> SUFFICES ASSUME OutboxInv, [Next]_vars PROVE OutboxInv'
    OBVIOUS
  <2>1. CASE Outbox!Next
    BY <2>1, OutboxHub, OutboxLoops DEF Outbox!Next
  <2>2. CASE UNCHANGED outboxVars
    BY <2>2 DEF outboxVars, OutboxInv, Outbox!AcknowledgedWasShown
  <2> QED BY <2>1, <2>2 DEF Next, vars
<1>3. OutboxInv => AcknowledgedWasShown
  BY DEF OutboxInv, AcknowledgedWasShown
<1> QED BY <1>1, <1>2, <1>3, PTL DEF Spec

(***************************************************************************)
(* The coordinator lease.                                                  *)
(***************************************************************************)

\* The inductive invariant of the coordination: the lease and the calls made
\* under it.
LeaseInv ==
    /\ lease \in [owner : Hosts \cup {NoHost}, version : Nat,
                  state : {"active", "released"}, live : BOOLEAN]
    /\ calls \in SUBSET [host : Hosts, inter : Coordination!Interactions,
                         version : Nat \ {0}, admitted : BOOLEAN]
    /\ Coordination!VersionFences

\* Granting the lease to h leaves no call of another host under its version.
LEMMA LeaseChangesHands ==
    ASSUME LeaseInv, NEW h \in Hosts, lease' = Coordination!LeaseOf(h)
    PROVE  /\ lease' \in [owner : Hosts \cup {NoHost}, version : Nat,
                          state : {"active", "released"}, live : BOOLEAN]
           /\ lease'.owner = h /\ lease'.version \in Nat \ {0}
           /\ \A c \in calls : /\ c.version <= lease'.version
                               /\ c.version = lease'.version => c.host = h
  BY DEF LeaseInv, Coordination!LeaseOf, Coordination!VersionFences

\* The server admits, refuses, executes or loses a resume call.
LEMMA LeaseServer ==
    ASSUME LeaseInv, NEW c \in calls,
           \/ Coordination!Admit(c) \/ Coordination!Refuse(c) \/ Coordination!LoseCall(c)
           \/ \E last, answered \in BOOLEAN : Coordination!Resume(c, last, answered)
    PROVE  LeaseInv'
<1> USE DEF LeaseInv, Coordination!VersionFences, Coordination!contractVars
<1>1. CASE Coordination!Admit(c)
  BY <1>1 DEF Coordination!Admit
<1>2. CASE \/ Coordination!Refuse(c) \/ Coordination!LoseCall(c)
           \/ \E last, answered \in BOOLEAN : Coordination!Resume(c, last, answered)
  <2>1. lease' = lease /\ calls' = calls \ {c}
    BY <1>2 DEF Coordination!Refuse, Coordination!LoseCall, Coordination!Resume
  <2> QED BY <2>1
<1> QED BY <1>1, <1>2

\* A host that gets the lease sends its call under the version it got.
LEMMA LeaseIsAnswered ==
    ASSUME LeaseInv, NEW h \in Hosts, NEW i \in Coordination!Interactions,
           Coordination!LeaseAnswer(h, i)
    PROVE  LeaseInv'
<1>1. CASE lease' = lease /\ calls' = calls
  BY <1>1 DEF LeaseInv, Coordination!VersionFences
<1>2. CASE /\ lease' = Coordination!LeaseOf(h)
           /\ calls' = calls \cup {[host |-> h, inter |-> i,
                                    version |-> Coordination!LeaseOf(h).version,
                                    admitted |-> FALSE]}
  <2> DEFINE c == [host |-> h, inter |-> i, version |-> lease'.version,
                   admitted |-> FALSE]
  <2>1. /\ lease' \in [owner : Hosts \cup {NoHost}, version : Nat,
                       state : {"active", "released"}, live : BOOLEAN]
        /\ lease'.owner = h /\ lease'.version \in Nat \ {0}
        /\ \A d \in calls : /\ d.version <= lease'.version
                            /\ d.version = lease'.version => d.host = h
    BY <1>2, LeaseChangesHands
  <2>2. calls' = calls \cup {c}
    BY <1>2
  <2>3. /\ c \in [host : Hosts, inter : Coordination!Interactions,
                  version : Nat \ {0}, admitted : BOOLEAN]
        /\ c.version = lease'.version /\ c.host = h
    BY <2>1
  <2> HIDE DEF c
  <2> QED BY <2>1, <2>2, <2>3 DEF LeaseInv, Coordination!VersionFences
<1> QED BY <1>1, <1>2 DEF Coordination!LeaseAnswer, Coordination!contractVars

\* The lease is taken over, released, or lapses.
LEMMA LeaseContract ==
    ASSUME LeaseInv,
           \/ \E h \in Hosts : Coordination!Contract(h)
           \/ \E h \in Hosts, e \in 0 .. MaxVersion : Coordination!TakeOver(h, e)
           \/ Coordination!LeaseLapses /\ UNCHANGED Coordination!coordVars
    PROVE  LeaseInv'
<1>1. ASSUME NEW h \in Hosts, Coordination!Contract(h)
      PROVE  LeaseInv'
  BY <1>1 DEF Coordination!Contract, Coordination!Release, Coordination!Upgrade, LeaseInv,
     Coordination!VersionFences
<1>2. ASSUME NEW h \in Hosts, NEW e \in 0 .. MaxVersion, Coordination!TakeOver(h, e)
      PROVE  LeaseInv'
  BY <1>2, LeaseChangesHands DEF Coordination!TakeOver, LeaseInv,
     Coordination!VersionFences
<1>3. ASSUME Coordination!LeaseLapses, UNCHANGED Coordination!coordVars
      PROVE  LeaseInv'
  BY <1>3 DEF Coordination!LeaseLapses, Coordination!coordVars, LeaseInv,
     Coordination!VersionFences
<1> QED BY <1>1, <1>2, <1>3

\* The other steps touch neither the lease nor the calls.
LEMMA LeaseIsLeftAlone ==
    ASSUME \/ \E i \in Coordination!Interactions :
                 Coordination!Complete(i) \/ Coordination!Close(i)
           \/ \E h \in Hosts, i \in Coordination!Interactions :
                 \/ Coordination!Poll(h, i) \/ Coordination!PollEnds(h, i)
                 \/ Coordination!Restore(h, i) \/ Coordination!Prune(h, i)
           \/ \E h \in Hosts : Coordination!MarkTerminal(h) \/ Coordination!GatewayRestarts(h)
           \/ \E h \in Hosts, a \in Coordination!Approvals : Coordination!Register(h, a)
    PROVE  UNCHANGED <<lease, calls>>
  BY DEF Coordination!Complete, Coordination!Close, Coordination!Poll,
     Coordination!PollEnds, Coordination!Restore, Coordination!Prune,
     Coordination!MarkTerminal, Coordination!GatewayRestarts, Coordination!Register,
     Coordination!Negotiate, Coordination!contractVars

\* A resume call under the current version of the lease is a call of the host
\* that owns it, and no call is ahead of the lease (host_contract.py).
THEOREM LeaseIsRight == Spec => []VersionFences
<1>1. Init => LeaseInv
  BY DEF Init, Coordination!Init, Coordination!ContractInit, LeaseInv,
     Coordination!VersionFences
<1>2. LeaseInv /\ [Next]_vars => LeaseInv'
  <2> SUFFICES ASSUME LeaseInv, [Next]_vars PROVE LeaseInv'
    OBVIOUS
  <2>1. CASE Coordination!Next
    <3>1. CASE UNCHANGED <<lease, calls>>
      BY <3>1 DEF LeaseInv, Coordination!VersionFences
    <3> QED BY <2>1, <3>1, LeaseServer, LeaseIsAnswered, LeaseContract, LeaseIsLeftAlone
            DEF Coordination!Next
  <2>2. CASE UNCHANGED coordinationVars
    BY <2>2 DEF coordinationVars, LeaseInv, Coordination!VersionFences
  <2> QED BY <2>1, <2>2 DEF Next, vars
<1>3. LeaseInv => VersionFences
  BY DEF LeaseInv, VersionFences
<1> QED BY <1>1, <1>2, <1>3, PTL DEF Spec
=============================================================================

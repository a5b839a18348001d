---------------------------- MODULE TaskPlanProofs ----------------------------
(***************************************************************************)
(* Proofs about the durable task plan.  The argument follows what the user *)
(* can get to see.  A write takes an authorization the user was shown; the *)
(* first one is made of the fields the user submitted, which are consumed  *)
(* once, and every later one of a warning of the business system, in which *)
(* the write before it ended.  So of any two authorizations that were ever *)
(* returned to anybody, the earlier one has ended in a warning, and at     *)
(* most one can be applied.  That the fields are asked for once is where   *)
(* plan lock, attempts and the recovery come in.  Two lemmas at the end    *)
(* carry the promise of PlannedWrite to any number of steps, cancels,      *)
(* polls and recoveries under the conditions of run TaskPlan (Undisturbed):*)
(* they say nothing of calls of hosts that overlap, or of a revocation.    *)
(***************************************************************************)
EXTENDS TaskPlan, FiniteSetTheorems, TLAPS

Last == Len(Kinds)

\* NextAuth is not bounded by MaxAuths here, so a thread may hold a larger one.
AnyInts == Interactions \cup {Null} \cup ({"auth"} \X Nat)

\* Every state, label and word of a row.
OtherWords ==
    {"none", "queued", "skipped", "validated", "waiting_user", "canceled", "outcome_unknown",
     "pending", "submitted", "approved", "consumed", "expired", "superseded", "rejected",
     "sent", "applied", "refused", "warned"}
Words == Labels \cup OpStates \cup OtherWords

FrameShape ==
    [int : AnyInts, seen : Words, bound : BOOLEAN, op : OpIds \cup {Null},
     step : Steps \cup {Null}, resp : [st : Words, int : AnyInts],
     retire : SUBSET AnyInts]

StepRows ==
    /\ plan_state \in Words
    /\ current_step \in Steps \cup {Null}
    /\ commit_op \in OpIds \cup {Null}
    /\ step_state \in [Steps -> Words]
    /\ step_int \in [Steps -> AnyInts]
    /\ attempt \in [Steps -> Nat]
    /\ step_at \in [Steps -> Nat]

OtherRows ==
    /\ op_state \in [OpIds -> Words]
    /\ op_int \in [OpIds -> AnyInts]
    /\ op_at \in [OpIds -> Nat]
    /\ card \in [Interactions -> Words]
    /\ consumer \in [Interactions -> OpIds \cup {Null}]
    /\ shown \subseteq AnyInts
    /\ request \in [Auths -> Words]
    /\ writes \in {0, 1}
    /\ runtime \in 0 .. MaxCrashes
    /\ pc \in [Threads -> Words]
    /\ frame \in [Threads -> FrameShape]

Rows == StepRows /\ OtherRows

\* A step starts again only in a later runtime: its attempts stay in bounds.
StepsOK ==
    /\ \A s \in Steps :
          /\ step_at[s] <= runtime /\ attempt[s] <= 1 + step_at[s]
          /\ step_state[s] = "queued" => attempt[s] <= runtime
          /\ step_state[s] \in {"running", "waiting_user"} => attempt[s] >= 1
    /\ plan_state \notin {"failed", "outcome_unknown"} /\ current_step # Null
         => attempt[current_step] >= 1
    /\ plan_state = "waiting_user" => current_step # Null

\* A thread in one of these executes its operation.
Executing == {"handler", "prepare", "consume_field", "boundary", "send", "outcome", "finish"}
Writing == {"send", "outcome"}
Answering == {"respond", "relock", "consume"}

\* Steps are begun, executed, consumed and reset under the plan lock.
LockFits(u) ==
    /\ pc[u] \in {"begin", "fail", "consume", "reset"} => plan_lock = u
    /\ pc[u] \in {"consume", "relock"} => frame[u].step \in Steps
    /\ pc[u] = "bind" => frame[u].int \in Interactions \cap shown
    /\ pc[u] = "reset" =>
          /\ frame[u].step \in Steps
          /\ attempt[frame[u].step] \in 1 .. runtime
          /\ op_state[<<"step", frame[u].step, attempt[frame[u].step]>>] # "requires_user_action"

\* The operation a thread works for is the current attempt of its step, or
\* resumes what the user was shown.
OpFits(u) ==
    pc[u] \in {"invoke"} \cup Executing =>
        /\ frame[u].op \in OpIds
        /\ frame[u].op \in StepOps =>
              /\ plan_lock = u
              /\ frame[u].step = frame[u].op[2]
              /\ frame[u].op[3] = attempt[frame[u].op[2]]
              /\ step_state[frame[u].op[2]] # "queued"
        /\ frame[u].op \in ResumeOps => frame[u].op[2] \in shown

RunFits(u) ==
    pc[u] \in Executing => op_state[frame[u].op] = "running" /\ op_at[frame[u].op] = runtime

CardFits(u) ==
    /\ pc[u] \in {"prepare", "consume_field"} =>
          frame[u].op \in ResumeOps /\ frame[u].op[2] \in Fields
    /\ pc[u] \in {"boundary"} \cup Writing =>
          frame[u].op \in ResumeOps /\ frame[u].op[2] \in Auths
    /\ pc[u] = "consume_field" =>
          /\ frame[u].resp.int \in {"auth"} \X Nat
          /\ frame[u].resp.int \in Auths => card[frame[u].resp.int] # "absent"
    /\ pc[u] \in Writing =>
          card[frame[u].op[2]] = "consumed" /\ consumer[frame[u].op[2]] = frame[u].op
    /\ pc[u] = "send" => request[frame[u].op[2]] = "none"
    /\ pc[u] = "finish" /\ frame[u].op \in StepOps /\ frame[u].resp.int # Null =>
          /\ frame[u].op[2] = Last /\ frame[u].resp.st = "requires_user_action"
          /\ frame[u].resp.int = <<"field", frame[u].op[3]>>
    /\ pc[u] = "finish" /\ frame[u].op \in ResumeOps /\ frame[u].resp.int \in Fields =>
          frame[u].resp.int \in shown

ThreadFits(u) == LockFits(u) /\ OpFits(u) /\ RunFits(u) /\ CardFits(u)

\* An operation is executed by one thread.
OneRunner ==
    \A t, u \in Threads :
        pc[t] \in Executing /\ pc[u] \in Executing /\ frame[t].op = frame[u].op => t = u

\* What has been returned to a caller, recorded or delivered.
Known(i) ==
    \/ i \in shown
    \/ \E o \in OpIds : op_int[o] = i
    \/ \E u \in Threads : pc[u] \in Answering /\ frame[u].resp.int = i

Visible(i) == Known(i) \/ \E u \in Threads : pc[u] = "finish" /\ frame[u].resp.int = i

\* Fields are those of the write's only attempt that got to ask for them.
Asked(f) ==
    /\ f[2] = attempt[Last] /\ step_state[Last] # "queued"
    /\ op_state[<<"step", Last, f[2]>>] = "requires_user_action"

FieldsAsked == \A f \in Fields : Known(f) => Asked(f)

\* Authorizations are numbered as they are made.
Numbered(m) == \A a \in Auths : card[a] # "absent" <=> a[2] <= m

Counted == \E m \in 0 .. MaxAuths : Numbered(m)

FieldsUsed == \E f \in Fields : f \in shown /\ card[f] = "consumed"

AuthsKnown == \A a \in Auths : Visible(a) => card[a] # "absent" /\ FieldsUsed

SentOK ==
    /\ \A a \in Auths : request[a] # "none" => card[a] = "consumed" /\ a \in shown
    /\ writes = 1 => \E a \in Auths : request[a] = "applied"
    /\ writes = 0 => \A a \in Auths : request[a] # "applied"

\* Of two authorizations the earlier one ended in a warning, and nobody works
\* for it any more.
Ended(a) ==
    /\ request[a] = "warned"
    /\ \A u \in Threads : pc[u] \in Writing => frame[u].op[2] # a

Chain == \A a, b \in Auths : Visible(a) /\ Visible(b) /\ a[2] < b[2] => Ended(a)

PlanInv ==
    /\ Rows /\ StepsOK
    /\ \A u \in Threads : ThreadFits(u)
    /\ OneRunner /\ FieldsAsked /\ Counted /\ AuthsKnown /\ SentOK /\ Chain

-----------------------------------------------------------------------------
(* What the rows and operations are.                                         *)

LEMMA Bounds ==
    /\ MaxCrashes \in Nat /\ MaxAttempts \in Nat /\ MaxAuths \in Nat
    /\ MaxAttempts = 1 + MaxCrashes
<1>1. Cardinality(Keys) \in Nat
  BY BoundsAssumption, FS_CardinalityType
<1>2. MaxCrashes \in Nat /\ MaxWarnings \in Nat
  BY BoundsAssumption
<1>3. MaxAttempts \in Nat
  BY <1>2 DEF MaxAttempts
<1>4. MaxAttempts * Cardinality(Keys) \in Nat
  BY <1>1, <1>3
<1> QED BY <1>2, <1>3, <1>4 DEF MaxAuths, MaxAttempts

LEMMA Cards ==
    /\ \A a \in Auths : /\ a = <<"auth", a[2]>> /\ a[1] = "auth" /\ a[2] \in Nat
                        /\ a[2] \in 1 .. MaxAuths
                        /\ a \in Interactions /\ a \notin Fields /\ a # Null
    /\ \A f \in Fields : /\ f = <<"field", f[2]>> /\ f[1] = "field" /\ f[2] \in Nat
                         /\ f \in Interactions /\ f \notin Auths /\ f # Null
    /\ \A i \in Interactions : (i[1] = "auth" => i \in Auths) /\ (i[1] = "field" => i \in Fields)
    /\ \A i \in Interactions : i[1] \in {"auth", "field"}
    /\ \A n \in 1 .. MaxAuths : <<"auth", n>> \in Auths
    /\ \A n \in 1 .. MaxAttempts : <<"field", n>> \in Fields
    /\ Interactions \subseteq AnyInts /\ Null \in AnyInts /\ Null \notin Interactions
    /\ \A n \in Nat : <<"auth", n>> \in AnyInts
    /\ \A i \in {"auth"} \X Nat : i \in AnyInts /\ i \notin Fields
BY Bounds, NullAssumption DEF Auths, Fields, Interactions, AnyInts

LEMMA Operations ==
    /\ \A o \in OpIds : o \in StepOps <=> o \notin ResumeOps
    /\ \A o \in StepOps : /\ o = <<"step", o[2], o[3]>> /\ o[1] = "step" /\ o \in OpIds
                          /\ o[2] \in Steps /\ o[3] \in 1 .. MaxAttempts
    /\ \A o \in ResumeOps : /\ o = <<"resume", o[2], o[3]>> /\ o[1] = "resume" /\ o \in OpIds
                            /\ o[2] \in Interactions /\ o[3] \in Keys
    /\ \A s \in Steps, n \in 1 .. MaxAttempts : <<"step", s, n>> \in StepOps
    /\ \A i \in Interactions, k \in Keys : <<"resume", i, k>> \in ResumeOps
    /\ \A s, r, m, n : <<"step", s, m>> = <<"step", r, n>> => s = r /\ m = n
    /\ Null \notin OpIds
BY NullAssumption DEF OpIds, StepOps, ResumeOps

LEMMA StepNumbers ==
    /\ Last \in Steps /\ Steps \subseteq Nat /\ Null \notin Steps /\ Null \notin Threads
    /\ \A s \in Steps : Kinds[s] \in {"read", "transform", "write"}
                        /\ (Kinds[s] = "write" => s = Last)
<1>1. Len(Kinds) \in Nat /\ Len(Kinds) > 0
  BY KindsAssumption
<1>2. \A s \in Steps : Kinds[s] \in {"read", "transform", "write"}
  BY KindsAssumption DEF Steps
<1> QED BY <1>1, <1>2, KindsAssumption, NullAssumption DEF Steps, Last

LEMMA WordList == Labels \subseteq Words /\ OpStates \subseteq Words /\ OtherWords \subseteq Words
BY DEF Words

\* The frames that actions build.
LEMMA EmptyFrameIsFrame ==
    /\ EmptyFrame \in FrameShape
    /\ EmptyFrame.resp = NoResponse /\ EmptyFrame.resp.int = Null /\ EmptyFrame.op = Null
    /\ EmptyFrame.step = Null
<1>1. Null \in AnyInts
  BY Cards
<1>2. NoResponse \in [st : Words, int : AnyInts] /\ NoResponse.int = Null
  BY <1>1, WordList DEF NoResponse, OpStates
<1>3. {} \in SUBSET AnyInts
  OBVIOUS
<1>4. EmptyFrame \in FrameShape
  BY <1>1, <1>2, <1>3, WordList DEF EmptyFrame, FrameShape, OtherWords
<1> QED BY <1>2, <1>4 DEF EmptyFrame

LEMMA FramesAreFrames ==
    ASSUME NEW k \in FrameShape
    PROVE  /\ k.int \in AnyInts /\ k.op \in OpIds \cup {Null} /\ k.step \in Steps \cup {Null}
           /\ k.resp.int \in AnyInts /\ k.resp.st \in Words /\ k.retire \subseteq AnyInts
BY DEF FrameShape

-----------------------------------------------------------------------------
(* What a step may change without breaking the invariant.                    *)

\* No step is begun or reset.
StepsHold ==
    /\ attempt' = attempt
    /\ \A s \in Steps :
          /\ step_state'[s] = "queued" => step_state[s] = "queued"
          /\ step_state'[s] \in {"running", "waiting_user"} => attempt[s] >= 1
          /\ step_at'[s] \in {step_at[s], runtime}
    /\ plan_state' \notin {"failed", "outcome_unknown"} /\ current_step' # Null
         => attempt[current_step'] >= 1
    /\ plan_state' = "waiting_user" => current_step' # Null

\* Cards are neither made nor consumed.
CardsHold ==
    /\ card' \in [Interactions -> Words]
    /\ \A i \in Interactions : /\ card'[i] = "absent" <=> card[i] = "absent"
                               /\ card'[i] = "consumed" <=> card[i] = "consumed"
    /\ UNCHANGED consumer

\* Nobody takes the plan lock from another thread.
LockHolds(t) == \A u \in Threads : u # t /\ plan_lock = u => plan_lock' = u

WorldHolds == UNCHANGED <<request, writes, runtime>>

\* The other threads are not disturbed.
LEMMA OthersFit ==
    ASSUME PlanInv, NEW u \in Threads,
           pc'[u] = pc[u], frame'[u] = frame[u], runtime' = runtime, shown \subseteq shown',
           plan_lock = u => plan_lock' = u,
           plan_lock = u => /\ attempt' = attempt
                            /\ \A s \in Steps : step_state[s] # "queued" => step_state'[s] # "queued"
                            /\ \A o \in StepOps : op_state'[o] = op_state[o],
           pc[u] \in Executing => /\ op_state'[frame[u].op] = op_state[frame[u].op]
                                  /\ op_at'[frame[u].op] = op_at[frame[u].op],
           \A i \in Interactions : /\ card[i] # "absent" => card'[i] # "absent"
                                   /\ i \in Auths /\ card[i] = "consumed" =>
                                        card'[i] = "consumed" /\ consumer'[i] = consumer[i],
           pc[u] = "send" => request'[frame[u].op[2]] = request[frame[u].op[2]]
    PROVE  ThreadFits(u)'
<1>0. ThreadFits(u)
  BY DEF PlanInv
<1>1. LockFits(u)'
  <2>1. ASSUME pc[u] = "reset"
        PROVE  /\ attempt'[frame[u].step] \in 1 .. runtime
               /\ op_state'[<<"step", frame[u].step, attempt'[frame[u].step]>>]
                    # "requires_user_action"
    <3>1. /\ plan_lock = u /\ frame[u].step \in Steps
          /\ attempt[frame[u].step] \in 1 .. runtime
          /\ op_state[<<"step", frame[u].step, attempt[frame[u].step]>>] # "requires_user_action"
      BY <1>0, <2>1 DEF ThreadFits, LockFits
    <3>2. attempt[frame[u].step] \in 1 .. MaxAttempts
      BY <3>1, Bounds DEF PlanInv, Rows, OtherRows
    <3>3. <<"step", frame[u].step, attempt[frame[u].step]>> \in StepOps
      BY <3>1, <3>2, Operations
    <3> QED BY <3>1, <3>3
  <2> QED BY <1>0, <2>1 DEF ThreadFits, LockFits
<1>2. OpFits(u)'
  <2>1. ASSUME pc[u] \in {"invoke"} \cup Executing, frame[u].op \in StepOps
        PROVE  /\ plan_lock' = u /\ frame[u].step = frame[u].op[2]
               /\ frame[u].op[3] = attempt'[frame[u].op[2]]
               /\ step_state'[frame[u].op[2]] # "queued"
    <3>1. frame[u].op[2] \in Steps
      BY <2>1, Operations
    <3> QED BY <1>0, <2>1, <3>1 DEF ThreadFits, OpFits
  <2> QED BY <1>0, <2>1 DEF ThreadFits, OpFits
<1>3. RunFits(u)'
  BY <1>0 DEF ThreadFits, RunFits
<1>4. CardFits(u)'
  BY <1>0, Cards DEF ThreadFits, CardFits, Writing
<1> QED BY <1>1, <1>2, <1>3, <1>4 DEF ThreadFits

\* What the moves of a thread make known.
LEMMA KnownMoves ==
    ASSUME NEW t \in Threads, NEW label, NEW k, Rows, Goto(t, label, k), NEW i,
           i \in shown' => Known(i),
           \A o \in OpIds : op_int'[o] = i => Known(i),
           label \in Answering /\ k.resp.int = i => Known(i),
           Known(i)'
    PROVE  Known(i)
<1>1. \A u \in Threads : u # t => pc'[u] = pc[u] /\ frame'[u] = frame[u]
  BY DEF Goto, Rows, OtherRows
<1>2. pc'[t] = label /\ frame'[t] = k
  BY DEF Goto, Rows, OtherRows
<1> QED BY <1>1, <1>2 DEF Known

LEMMA VisibleMoves ==
    ASSUME NEW t \in Threads, NEW label, NEW k, Rows, Goto(t, label, k), NEW i,
           i \in shown' => Visible(i),
           \A o \in OpIds : op_int'[o] = i => Visible(i),
           label \in Answering \cup {"finish"} /\ k.resp.int = i => Visible(i),
           Visible(i)'
    PROVE  Visible(i)
<1>1. \A u \in Threads : u # t => pc'[u] = pc[u] /\ frame'[u] = frame[u]
  BY DEF Goto, Rows, OtherRows
<1>2. pc'[t] = label /\ frame'[t] = k
  BY DEF Goto, Rows, OtherRows
<1> QED BY <1>1, <1>2 DEF Known, Visible

LEMMA AskedStays ==
    ASSUME Rows, NEW f \in Fields, Asked(f), attempt'[Last] = attempt[Last],
           step_state[Last] # "queued" => step_state'[Last] # "queued",
           \A o \in StepOps : op_state[o] = "requires_user_action"
                                => op_state'[o] = "requires_user_action"
    PROVE  Asked(f)'
<1>1. f[2] \in 1 .. MaxAttempts
  BY DEF Fields
<1>2. <<"step", Last, f[2]>> \in StepOps
  BY <1>1, Operations, StepNumbers
<1> QED BY <1>2 DEF Asked

LEMMA ChainStays ==
    ASSUME NEW t \in Threads, NEW label, NEW k, Rows, Chain, Goto(t, label, k),
           \A a \in Auths : Visible(a)' => Visible(a),
           \A a \in Auths : request[a] = "warned" => request'[a] = "warned",
           label \in Writing =>
              \A a, b \in Auths : Visible(a) /\ Visible(b) /\ a[2] < b[2] => k.op[2] # a
    PROVE  Chain'
<1>1. \A u \in Threads : u # t => pc'[u] = pc[u] /\ frame'[u] = frame[u]
  BY DEF Goto, Rows, OtherRows
<1>2. pc'[t] = label /\ frame'[t] = k
  BY DEF Goto, Rows, OtherRows
<1>3. ASSUME NEW a \in Auths, NEW b \in Auths, Visible(a)', Visible(b)', a[2] < b[2]
      PROVE  Ended(a)'
  <2>1. Ended(a) /\ Visible(a) /\ Visible(b)
    BY <1>3 DEF Chain
  <2> QED BY <1>1, <1>2, <1>3, <2>1 DEF Ended
<1> QED BY <1>3 DEF Chain

LEMMA RunnerStays ==
    ASSUME NEW t \in Threads, NEW label, NEW k, Rows, OneRunner, Goto(t, label, k),
           label \in Executing =>
              \/ pc[t] \in Executing /\ k.op = frame[t].op
              \/ \A u \in Threads : pc[u] \in Executing => frame[u].op # k.op
    PROVE  OneRunner'
<1>1. \A u \in Threads : u # t => pc'[u] = pc[u] /\ frame'[u] = frame[u]
  BY DEF Goto, Rows, OtherRows
<1>2. pc'[t] = label /\ frame'[t] = k
  BY DEF Goto, Rows, OtherRows
<1> QED BY <1>1, <1>2 DEF OneRunner

LEMMA StepsStay ==
    ASSUME Rows, StepsOK, StepRows', StepsHold, runtime' = runtime
    PROVE  StepsOK'
<1>1. runtime \in Nat
  BY Bounds DEF Rows, OtherRows
<1>2. current_step' \in Steps \cup {Null}
  BY DEF StepRows
<1>3. ASSUME NEW s \in Steps
      PROVE  /\ step_at'[s] <= runtime /\ attempt[s] <= 1 + step_at'[s]
             /\ step_state'[s] = "queued" => attempt[s] <= runtime
             /\ step_state'[s] \in {"running", "waiting_user"} => attempt[s] >= 1
  <2>1. /\ step_at[s] <= runtime /\ attempt[s] <= 1 + step_at[s]
        /\ step_state[s] = "queued" => attempt[s] <= runtime
    BY DEF StepsOK
  <2>2. attempt[s] \in Nat /\ step_at[s] \in Nat
    BY DEF Rows, StepRows
  <2> QED BY <1>1, <2>1, <2>2 DEF StepsHold
<1> QED BY <1>2, <1>3 DEF StepsOK, StepsHold

\* A thread moves on, and nothing is made, consumed, begun or settled.
LEMMA Quiet ==
    ASSUME PlanInv, NEW t \in Threads, NEW label \in Words, NEW k \in FrameShape,
           Goto(t, label, k), StepRows', StepsHold, CardsHold, WorldHolds, LockHolds(t),
           UNCHANGED <<opVars, writes>>, shown \subseteq shown', shown' \subseteq AnyInts,
           \A i \in Interactions : i \in shown' => Known(i),
           label \in Answering /\ k.resp.int \in Interactions => Known(k.resp.int),
           label = "finish" /\ k.resp.int \in Auths => Visible(k.resp.int),
           label \in Executing => pc[t] \in Executing /\ k.op = frame[t].op,
           label \in Writing => pc[t] \in Writing,
           ThreadFits(t)'
    PROVE  PlanInv'
<1> USE DEF PlanInv
<1>1. /\ \A u \in Threads : u # t => pc'[u] = pc[u] /\ frame'[u] = frame[u]
      /\ pc'[t] = label /\ frame'[t] = k
  BY DEF Goto, Rows, OtherRows
<1>2. Rows'
  BY DEF Goto, Rows, OtherRows, opVars, CardsHold, WorldHolds
<1>3. StepsOK'
  BY StepsStay DEF WorldHolds
<1>4. ASSUME NEW u \in Threads PROVE ThreadFits(u)'
  <2>1. CASE u = t
    BY <2>1
  <2>2. CASE u # t
    <3>1. runtime' = runtime /\ request' = request /\ op_state' = op_state /\ op_at' = op_at
          /\ attempt' = attempt
      BY DEF WorldHolds, opVars, StepsHold
    <3>2. \A s \in Steps : step_state[s] # "queued" => step_state'[s] # "queued"
      BY DEF StepsHold
    <3>3. \A i \in Interactions : /\ card[i] # "absent" => card'[i] # "absent"
                                  /\ card[i] = "consumed" =>
                                       card'[i] = "consumed" /\ consumer'[i] = consumer[i]
      BY DEF CardsHold
    <3>4. plan_lock = u => plan_lock' = u
      BY <2>2 DEF LockHolds
    <3> QED BY <1>1, <2>2, <3>1, <3>2, <3>3, <3>4, OthersFit
  <2> QED BY <2>1, <2>2
<1>5. OneRunner'
  BY RunnerStays
<1>6. op_int' = op_int
  BY DEF opVars
<1>7. ASSUME NEW i \in Interactions, Known(i)' PROVE Known(i)
  <2>1. \A o \in OpIds : op_int'[o] = i => Known(i)
    BY <1>6 DEF Known
  <2> QED BY <1>7, <2>1, KnownMoves
<1>8. ASSUME NEW a \in Auths, Visible(a)' PROVE Visible(a)
  <2>0. a \in Interactions
    BY Cards
  <2>1. a \in shown' => Visible(a)
    BY <2>0 DEF Visible
  <2>2. \A o \in OpIds : op_int'[o] = a => Visible(a)
    BY <1>6 DEF Known, Visible
  <2>3. label \in Answering \cup {"finish"} /\ k.resp.int = a => Visible(a)
    BY <2>0 DEF Visible
  <2> QED BY <1>8, <2>1, <2>2, <2>3, VisibleMoves
<1>9. FieldsAsked'
  <2>1. ASSUME NEW f \in Fields, Known(f)' PROVE Asked(f)'
    <3>1. Asked(f)
      BY <1>7, <2>1, Cards DEF FieldsAsked
    <3>2. attempt'[Last] = attempt[Last] /\ op_state' = op_state
          /\ (step_state[Last] # "queued" => step_state'[Last] # "queued")
      BY StepNumbers DEF StepsHold, opVars
    <3> QED BY <3>1, <3>2, AskedStays
  <2> QED BY <2>1 DEF FieldsAsked
<1>10. Counted'
  BY Cards DEF Counted, Numbered, CardsHold
<1>11. AuthsKnown'
  <2>1. FieldsUsed => FieldsUsed'
    BY Cards DEF FieldsUsed, CardsHold
  <2> QED BY <1>8, <2>1, Cards DEF AuthsKnown, CardsHold
<1>12. SentOK'
  BY Cards DEF SentOK, CardsHold, WorldHolds
<1>13. Chain'
  <2>1. ASSUME label \in Writing, NEW a \in Auths, NEW b \in Auths,
               Visible(a), Visible(b), a[2] < b[2]
        PROVE  k.op[2] # a
    <3>1. Ended(a)
      BY <2>1 DEF Chain
    <3>2. pc[t] \in Writing /\ pc[t] \in Executing
      BY <2>1 DEF Writing, Executing
    <3> QED BY <2>1, <3>1, <3>2 DEF Ended, Executing, Writing
  <2>2. \A a \in Auths : request[a] = "warned" => request'[a] = "warned"
    BY DEF WorldHolds
  <2> QED BY <1>8, <2>1, <2>2, ChainStays
<1> QED BY <1>2, <1>3, <1>4, <1>5, <1>9, <1>10, <1>11, <1>12, <1>13

\* Labels at which a thread remembers nothing the invariant speaks of.
Plain == {"idle", "advance", "retire", "nothing_to_do", "reject", "terminal", "terminal_lock",
          "cancel"}

LEMMA QuietPlain ==
    ASSUME PlanInv, NEW t \in Threads, NEW label \in Plain, NEW k \in FrameShape,
           Goto(t, label, k), StepRows', StepsHold, CardsHold, WorldHolds, LockHolds(t),
           UNCHANGED <<opVars, writes>>, shown \subseteq shown', shown' \subseteq AnyInts,
           \A i \in Interactions : i \in shown' => Known(i)
    PROVE  PlanInv'
<1>1. pc'[t] = label
  BY DEF Goto, PlanInv, Rows, OtherRows
<1>2. label \in Words /\ label \notin Executing \cup Answering \cup Writing
      /\ label \notin {"invoke", "begin", "fail", "reset", "bind", "finish", "boundary", "prepare",
                       "consume_field", "send", "consume", "relock"}
  BY WordList DEF Plain, Labels, Executing, Answering, Writing
<1>3. ThreadFits(t)'
  BY <1>1, <1>2 DEF ThreadFits, LockFits, OpFits, RunFits, CardFits
<1> QED BY <1>2, <1>3, Quiet

LEMMA StepsSame ==
    ASSUME PlanInv, UNCHANGED <<planVars, stepVars>>
    PROVE  StepRows' /\ StepsHold
BY DEF PlanInv, Rows, StepRows, StepsHold, StepsOK, planVars, stepVars

LEMMA CardsSame ==
    ASSUME PlanInv, UNCHANGED cardVars
    PROVE  CardsHold
BY DEF PlanInv, Rows, OtherRows, CardsHold, cardVars

LEMMA ShownSame ==
    ASSUME PlanInv, shown' = shown
    PROVE  /\ shown \subseteq shown' /\ shown' \subseteq AnyInts
           /\ \A i \in Interactions : i \in shown' => Known(i)
BY DEF PlanInv, Rows, OtherRows, Known

LEMMA LockSame ==
    ASSUME NEW t \in Threads,
           \/ plan_lock' = plan_lock
           \/ plan_lock \in {Null, t}
           \/ plan_lock' = Released(plan_lock, t)
    PROVE  LockHolds(t)
BY StepNumbers DEF LockHolds, Released

\* The ends of a plan.
LEMMA SupersedingHolds ==
    ASSUME PlanInv, NEW S, card' = Superseding(S), UNCHANGED consumer
    PROVE  CardsHold
<1>1. card \in [Interactions -> Words]
  BY DEF PlanInv, Rows, OtherRows
<1>2. "superseded" \in Words
  BY WordList DEF OtherWords
<1> QED BY <1>1, <1>2 DEF Superseding, CardsHold, LiveCards

LEMMA CompletingKeeps ==
    ASSUME PlanInv, NEW t \in Threads, CompletePlan(t)
    PROVE  PlanInv'
<1>1. StepRows' /\ StepsHold
  <2>1. StepRows /\ "succeeded" \in Words /\ "skipped" \in Words
    BY WordList DEF PlanInv, Rows, OpStates, OtherWords
  <2>2. \A s \in Steps : step_state[s] \in {"running", "waiting_user"} => attempt[s] >= 1
    BY DEF PlanInv, StepsOK
  <2> QED BY <2>1, <2>2 DEF CompletePlan, StepRows, StepsHold
<1>2. CardsHold /\ WorldHolds /\ LockHolds(t) /\ UNCHANGED <<opVars, writes, shown>>
  BY CardsSame, LockSame DEF CompletePlan, Return, cardVars, worldVars, WorldHolds
<1> QED BY <1>1, <1>2, EmptyFrameIsFrame, ShownSame, QuietPlain DEF CompletePlan, Return, Plain

LEMMA StepInteractionsTyped ==
    ASSUME PlanInv PROVE StepInteractions \subseteq AnyInts
BY DEF PlanInv, Rows, StepRows, StepInteractions

LEMMA RetireFrame ==
    ASSUME NEW S \in SUBSET AnyInts PROVE [EmptyFrame EXCEPT !.retire = S] \in FrameShape
BY EmptyFrameIsFrame DEF FrameShape

LEMMA MarkingFailedHolds ==
    ASSUME PlanInv, NEW s \in Steps \cup {Null}, NEW st \in {"failed", "outcome_unknown"},
           MarkStepFailed(s, st)
    PROVE  StepRows' /\ StepsHold
<1>1. StepRows /\ st \in Words /\ "canceled" \in Words /\ Null \in AnyInts
  BY WordList, Cards DEF PlanInv, Rows, OpStates, OtherWords
<1>2. \A r \in Steps : step_state[r] \in {"running", "waiting_user"} => attempt[r] >= 1
  BY DEF PlanInv, StepsOK
<1>3. runtime \in Nat
  BY Bounds DEF PlanInv, Rows, OtherRows
<1>4. StepRows'
  BY <1>1, <1>3 DEF MarkStepFailed, StepRows
<1> QED BY <1>1, <1>2, <1>4 DEF MarkStepFailed, StepsHold, StepRows

LEMMA FailingKeeps ==
    ASSUME PlanInv, NEW t \in Threads, NEW s \in Steps \cup {Null},
           NEW st \in {"failed", "outcome_unknown"}, FailPlan(t, s, st), UNCHANGED opVars,
           plan_lock \in {Null, t}
    PROVE  PlanInv'
<1>1. StepRows' /\ StepsHold
  BY MarkingFailedHolds DEF FailPlan
<1>2. CardsHold /\ WorldHolds /\ LockHolds(t) /\ UNCHANGED <<opVars, writes, shown>>
  BY CardsSame, LockSame DEF FailPlan, cardVars, worldVars, WorldHolds
<1>3. [EmptyFrame EXCEPT !.retire = StepInteractions] \in FrameShape
  BY StepInteractionsTyped, RetireFrame
<1> QED BY <1>1, <1>2, <1>3, ShownSame, QuietPlain DEF FailPlan, LockPlanAndGoto, Plain

LEMMA CancelingKeeps ==
    ASSUME PlanInv, NEW t \in Threads, CancelPlan(t), plan_lock \in {Null, t}
    PROVE  PlanInv'
<1>1. StepRows' /\ StepsHold
  <2>1. StepRows /\ "canceled" \in Words
    BY WordList DEF PlanInv, Rows, OtherWords
  <2>2. \A s \in Steps : step_state[s] \in {"running", "waiting_user"} => attempt[s] >= 1
    BY DEF PlanInv, StepsOK
  <2> QED BY <2>1, <2>2 DEF CancelPlan, StepRows, StepsHold
<1>2. CardsHold /\ WorldHolds /\ LockHolds(t) /\ UNCHANGED <<opVars, writes, shown>>
  BY CardsSame, LockSame DEF CancelPlan, cardVars, worldVars, WorldHolds
<1>3. [EmptyFrame EXCEPT !.retire = StepInteractions] \in FrameShape
  BY StepInteractionsTyped, RetireFrame
<1> QED BY <1>1, <1>2, <1>3, ShownSame, QuietPlain DEF CancelPlan, LockPlanAndGoto, Plain

LEMMA RetireKeeps ==
    ASSUME PlanInv, NEW t \in Threads, Retire(t)
    PROVE  PlanInv'
<1>0. /\ StepRows' /\ StepsHold /\ WorldHolds /\ UNCHANGED <<opVars, writes, shown>>
      /\ frame[t] \in FrameShape
  BY StepsSame DEF Retire, worldVars, WorldHolds, PlanInv, Rows, OtherRows
<1>1. CASE Return(t) /\ UNCHANGED cardVars
  BY <1>0, <1>1, EmptyFrameIsFrame, CardsSame, LockSame, ShownSame, QuietPlain
     DEF Return, Plain, cardVars
<1>2. ASSUME NEW i \in frame[t].retire, card' = Superseding({i}), UNCHANGED <<consumer, lockVars>>,
             Goto(t, "retire", [frame[t] EXCEPT !.retire = @ \ {i}])
      PROVE  PlanInv'
  <2>1. [frame[t] EXCEPT !.retire = @ \ {i}] \in FrameShape
    BY <1>0 DEF FrameShape
  <2>2. CardsHold /\ LockHolds(t)
    BY <1>2, SupersedingHolds, LockSame DEF lockVars
  <2> QED BY <1>0, <1>2, <2>1, <2>2, ShownSame, QuietPlain DEF Plain
<1> QED BY <1>1, <1>2 DEF Retire

-----------------------------------------------------------------------------
(* The plan: advancing, consuming, canceling.                                *)

\* Labels at which a thread only has to hold the plan lock.
LEMMA QuietLocked ==
    ASSUME PlanInv, NEW t \in Threads, NEW label \in {"begin", "fail"}, NEW k \in FrameShape,
           Goto(t, label, k), plan_lock' = t, plan_lock \in {Null, t},
           UNCHANGED <<planVars, stepVars, opVars, cardVars, shown, worldVars>>
    PROVE  PlanInv'
<1>1. pc'[t] = label
  BY DEF Goto, PlanInv, Rows, OtherRows
<1>2. label \in Words /\ label \notin Executing \cup Answering \cup Writing \cup {"finish"}
  BY WordList DEF Labels, Executing, Answering, Writing
<1>3. ThreadFits(t)'
  BY <1>1, <1>2 DEF ThreadFits, LockFits, OpFits, RunFits, CardFits, Executing, Answering, Writing
<1>4. WorldHolds /\ LockHolds(t) /\ UNCHANGED <<opVars, writes, shown, cardVars, planVars, stepVars>>
  BY LockSame DEF WorldHolds, worldVars
<1> QED BY <1>2, <1>3, <1>4, StepsSame, CardsSame, ShownSame, Quiet

LEMMA PrepareKeeps ==
    ASSUME PlanInv, NEW t \in Threads, PrepareTaskPlan(t)
    PROVE  PlanInv'
<1>1. StepRows' /\ StepsHold
  <2>1. StepRows /\ "validated" \in Words
    BY WordList DEF PlanInv, Rows, OtherWords
  <2> QED BY <2>1 DEF PlanInv, PrepareTaskPlan, StepRows, StepsHold, StepsOK, stepVars
<1>2. CardsHold /\ WorldHolds /\ LockHolds(t) /\ UNCHANGED <<opVars, writes, shown>>
  BY CardsSame, LockSame DEF PrepareTaskPlan, cardVars, worldVars, lockVars, WorldHolds
<1> QED BY <1>1, <1>2, EmptyFrameIsFrame, ShownSame, QuietPlain DEF PrepareTaskPlan, Plain

\* A thread that leaves everything as it is.
LEMMA ReturningKeeps ==
    ASSUME PlanInv, NEW t \in Threads, Return(t),
           UNCHANGED <<planVars, stepVars, opVars, cardVars, shown, worldVars>>
    PROVE  PlanInv'
<1>1. WorldHolds /\ LockHolds(t) /\ UNCHANGED <<opVars, writes, shown, cardVars, planVars, stepVars>>
  BY LockSame DEF WorldHolds, worldVars, Return
<1> QED BY <1>1, EmptyFrameIsFrame, StepsSame, CardsSame, ShownSame, QuietPlain DEF Return, Plain

LEMMA MovingKeeps ==
    ASSUME PlanInv, NEW t \in Threads, NEW label \in Plain, NEW k \in FrameShape,
           Goto(t, label, k), LockHolds(t),
           UNCHANGED <<planVars, stepVars, opVars, cardVars, shown, worldVars>>
    PROVE  PlanInv'
<1>1. WorldHolds /\ UNCHANGED <<opVars, writes, shown, cardVars, planVars, stepVars>>
  BY DEF WorldHolds, worldVars
<1> QED BY <1>1, StepsSame, CardsSame, ShownSame, QuietPlain

LEMMA AdvanceKeeps ==
    ASSUME PlanInv, NEW t \in Threads, AdvanceGet(t)
    PROVE  PlanInv'
<1>1. CASE Return(t) /\ UNCHANGED <<planVars, stepVars, opVars, cardVars, shown, worldVars>>
  BY <1>1, ReturningKeeps
<1>2. CASE CompletePlan(t)
  BY <1>2, CompletingKeeps
<1>3. CASE /\ LockPlanAndGoto(t, "begin", EmptyFrame)
           /\ UNCHANGED <<planVars, stepVars, opVars, cardVars, shown, worldVars>>
  BY <1>3, EmptyFrameIsFrame, QuietLocked DEF AdvanceGet, LockPlanAndGoto, MayLockPlan
<1> QED BY <1>1, <1>2, <1>3, Zenon DEF AdvanceGet

LEMMA LabelFacts ==
    ASSUME PlanInv, NEW t \in Threads
    PROVE  /\ pc[t] \in {"begin", "fail", "consume", "reset"} => plan_lock = t
           /\ pc[t] \in {"consume", "relock"} => frame[t].step \in Steps
           /\ pc[t] = "bind" => frame[t].int \in Interactions \cap shown
           /\ frame[t] \in FrameShape
BY DEF PlanInv, ThreadFits, LockFits, Rows, OtherRows

LEMMA FailStepKeeps ==
    ASSUME PlanInv, NEW t \in Threads, FailStep(t)
    PROVE  PlanInv'
<1>1. plan_lock = t /\ frame[t].step \in Steps \cup {Null}
  BY LabelFacts, FramesAreFrames DEF FailStep
<1> QED BY <1>1, FailingKeeps DEF FailStep

\* _consume_step_response.
LEMMA WaitingKeeps ==
    ASSUME PlanInv, NEW t \in Threads, MarkStepWaiting(t)
    PROVE  PlanInv'
<1> DEFINE s == frame[t].step
           i == frame[t].resp.int
<1>0. s \in Steps /\ s # Null /\ i \in AnyInts /\ attempt[s] >= 1
  <2>1. s \in Steps /\ i \in AnyInts
    BY LabelFacts, FramesAreFrames DEF MarkStepWaiting
  <2> QED BY <2>1, StepNumbers DEF MarkStepWaiting, Updatable, PlanInv, StepsOK
<1>1. /\ plan_state' = "waiting_user" /\ current_step' = s /\ commit_op' = Null
      /\ step_state' = [step_state EXCEPT ![s] = "waiting_user"]
      /\ step_int' = [step_int EXCEPT ![s] = i]
      /\ step_at' = [step_at EXCEPT ![s] = runtime]
      /\ attempt' = attempt /\ shown' = shown \cup {i} /\ Return(t)
      /\ UNCHANGED <<opVars, cardVars, worldVars>> /\ pc[t] = "consume"
  BY DEF MarkStepWaiting, MarkerWhenWaiting
<1>2. StepRows' /\ StepsHold
  <2>1. StepRows /\ "waiting_user" \in Words /\ runtime \in Nat
    BY WordList, Bounds DEF PlanInv, Rows, OtherRows, OtherWords
  <2>2. \A r \in Steps : step_state[r] \in {"running", "waiting_user"} => attempt[r] >= 1
    BY DEF PlanInv, StepsOK
  <2> HIDE DEF s, i
  <2> QED BY <1>0, <1>1, <2>1, <2>2 DEF StepRows, StepsHold
<1>3. CardsHold /\ WorldHolds /\ LockHolds(t) /\ UNCHANGED <<opVars, writes>>
  BY <1>1, CardsSame, LockSame DEF Return, worldVars, WorldHolds
<1>4. Known(i)
  BY <1>1 DEF Known, Answering
<1>5. /\ shown \subseteq shown' /\ shown' \subseteq AnyInts
      /\ \A j \in Interactions : j \in shown' => Known(j)
  <2>1. shown \subseteq AnyInts /\ \A j \in Interactions : j \in shown => Known(j)
    BY DEF PlanInv, Rows, OtherRows, Known
  <2> HIDE DEF i
  <2> QED BY <1>0, <1>1, <1>4, <2>1
<1> QED BY <1>1, <1>2, <1>3, <1>5, EmptyFrameIsFrame, QuietPlain DEF Return, Plain

LEMMA SucceedingKeeps ==
    ASSUME PlanInv, NEW t \in Threads, MarkStepSucceeded(t)
    PROVE  PlanInv'
<1> DEFINE s == frame[t].step
<1>0. s \in Steps
  BY LabelFacts DEF MarkStepSucceeded
<1>1. PICK label \in {"nothing_to_do", "advance"} :
        /\ plan_state' = "running" /\ current_step' = Null
        /\ step_state' = [step_state EXCEPT ![s] = "succeeded"]
        /\ step_int' = [step_int EXCEPT ![s] = Null]
        /\ step_at' = [step_at EXCEPT ![s] = runtime]
        /\ Goto(t, label, EmptyFrame)
        /\ UNCHANGED <<commit_op, attempt, opVars, cardVars, shown, worldVars, lockVars>>
  BY Zenon DEF MarkStepSucceeded
<1>2. StepRows' /\ StepsHold
  <2>1. StepRows /\ "succeeded" \in Words /\ "running" \in Words /\ runtime \in Nat /\ Null \in AnyInts
    BY WordList, Bounds, Cards DEF PlanInv, Rows, OtherRows, OpStates
  <2>2. \A r \in Steps : step_state[r] \in {"running", "waiting_user"} => attempt[r] >= 1
    BY DEF PlanInv, StepsOK
  <2> HIDE DEF s
  <2> QED BY <1>0, <1>1, <2>1, <2>2 DEF StepRows, StepsHold
<1>3. CardsHold /\ WorldHolds /\ LockHolds(t) /\ UNCHANGED <<opVars, writes, shown>>
  BY <1>1, CardsSame, LockSame DEF lockVars, worldVars, WorldHolds
<1> QED BY <1>1, <1>2, <1>3, EmptyFrameIsFrame, ShownSame, QuietPlain DEF Plain

LEMMA ConsumeFailureKeeps ==
    ASSUME PlanInv, NEW t \in Threads, ConsumeFailure(t)
    PROVE  PlanInv'
<1>1. /\ pc[t] = "consume" /\ UNCHANGED opVars
      /\ \E st \in {"failed", "outcome_unknown"} : FailPlan(t, frame[t].step, st)
  BY DEF ConsumeFailure, FailedState
<1>2. plan_lock = t /\ frame[t].step \in Steps
  BY <1>1, LabelFacts
<1> QED BY <1>1, <1>2, FailingKeeps

\* begin_next_step.
LEMMA RunFrames ==
    ASSUME NEW s \in Steps, NEW n \in 1 .. MaxAttempts
    PROVE  /\ [EmptyFrame EXCEPT !.step = s, !.op = <<"step", s, n>>] \in FrameShape
           /\ [EmptyFrame EXCEPT !.step = s, !.resp.st = "failed"] \in FrameShape
<1>1. <<"step", s, n>> \in OpIds
  BY Operations
<1>2. "failed" \in Words /\ Null \in AnyInts
  BY WordList, Cards DEF OpStates
<1>3. [EmptyFrame EXCEPT !.step = s, !.op = <<"step", s, n>>] \in FrameShape
  BY <1>1, EmptyFrameIsFrame DEF FrameShape
<1>4. [EmptyFrame EXCEPT !.step = s, !.resp.st = "failed"] \in FrameShape
  BY <1>2, EmptyFrameIsFrame DEF FrameShape
<1> QED BY <1>3, <1>4

\* The step is left as it is: another thread began it, or it waits.
LEMMA RerunKeeps ==
    ASSUME PlanInv, NEW t \in Threads, BeginNextStep(t), HasCurrentStep,
           step_state[current_step] = "running", UNCHANGED <<planVars, stepVars>>,
           RunStep(t, current_step)
    PROVE  PlanInv'
<1> DEFINE s == current_step
           n == attempt[current_step]
<1>1. /\ s \in Steps /\ n \in 1 .. MaxAttempts /\ plan_lock = t
      /\ attempt' = attempt
      /\ UNCHANGED <<opVars, cardVars, shown, worldVars, lockVars, planVars, stepVars>>
  <2>1. pc[t] = "begin" /\ UNCHANGED <<opVars, cardVars, shown, worldVars, lockVars, stepVars>>
    BY DEF BeginNextStep, RunStep
  <2>2. s \in Steps
    BY DEF HasCurrentStep, PlanInv, Rows, StepRows
  <2>3. n >= 1 /\ n <= 1 + step_at[s] /\ step_at[s] <= runtime
    BY <2>2 DEF PlanInv, StepsOK
  <2>4. n \in Nat /\ step_at[s] \in Nat /\ runtime \in 0 .. MaxCrashes
    BY <2>2 DEF PlanInv, Rows, StepRows, OtherRows
  <2>5. n \in 1 .. MaxAttempts
    BY <2>3, <2>4, Bounds
  <2> QED BY <2>1, <2>2, <2>5, LabelFacts DEF stepVars
<1> DEFINE k == [EmptyFrame EXCEPT !.step = s, !.op = <<"step", s, n>>]
<1>2. CASE authority
  <2>1. Goto(t, "invoke", k)
    BY <1>1, <1>2 DEF RunStep
  <2>2. /\ k \in FrameShape /\ k.op = <<"step", s, n>> /\ k.step = s
    BY <1>1, RunFrames, EmptyFrameIsFrame DEF FrameShape
  <2>3. k.op \in StepOps /\ k.op[2] = s /\ k.op[3] = n
    BY <1>1, <2>2, Operations
  <2> HIDE DEF k
  <2>4. ThreadFits(t)'
    <3>1. pc'[t] = "invoke" /\ frame'[t] = k
      BY <2>1 DEF Goto, PlanInv, Rows, OtherRows
    <3>2. OpFits(t)'
      BY <1>1, <2>2, <2>3, <3>1, Operations DEF OpFits, lockVars, stepVars
    <3> QED BY <3>1, <3>2 DEF ThreadFits, LockFits, RunFits, CardFits, Executing, Writing
  <2>5. WorldHolds /\ LockHolds(t) /\ UNCHANGED <<opVars, writes, shown, cardVars, planVars, stepVars>>
    BY <1>1, LockSame DEF WorldHolds, worldVars, lockVars
  <2>6. "invoke" \in Words /\ "invoke" \notin Executing \cup Answering \cup Writing \cup {"finish"}
    BY WordList DEF Labels, Executing, Answering, Writing
  <2> QED BY <2>1, <2>2, <2>4, <2>5, <2>6, StepsSame, CardsSame, ShownSame, Quiet
<1>3. CASE ~authority
  <2>1. Goto(t, "fail", [EmptyFrame EXCEPT !.step = s, !.resp.st = "failed"])
    BY <1>3 DEF RunStep
  <2>2. plan_lock' = t /\ plan_lock \in {Null, t}
    BY <1>1 DEF lockVars
  <2> QED BY <1>1, <2>1, <2>2, RunFrames, QuietLocked
<1> QED BY <1>2, <1>3

\* A queued step is begun.
LEMMA BeginKeeps ==
    ASSUME PlanInv, NEW t \in Threads, pc[t] = "begin", NEW s \in NextSteps,
           plan_state' = "running", current_step' = s,
           step_state' = [step_state EXCEPT ![s] = "running"],
           attempt' = [attempt EXCEPT ![s] = @ + 1],
           step_at' = [step_at EXCEPT ![s] = runtime],
           UNCHANGED <<commit_op, step_int>>, RunStep(t, s),
           UNCHANGED <<opVars, cardVars, shown, worldVars>>
    PROVE  PlanInv'
<1>0. /\ s \in Steps /\ step_state[s] = "queued" /\ plan_lock = t /\ plan_lock' = plan_lock
      /\ runtime' = runtime /\ runtime \in 0 .. MaxCrashes /\ MaxCrashes \in Nat
      /\ attempt[s] \in Nat /\ attempt[s] <= runtime
  BY LabelFacts, Bounds DEF NextSteps, PlanInv, StepsOK, Rows, StepRows, OtherRows, RunStep,
                            lockVars, worldVars
<1> DEFINE n == attempt[s] + 1
<1>1. n \in 1 .. MaxAttempts /\ attempt'[s] = n /\ n \in Nat
  BY <1>0, Bounds DEF PlanInv, Rows, StepRows
<1>2. PICK label \in {"invoke", "fail"}, k \in FrameShape :
        /\ Goto(t, label, k)
        /\ label = "invoke" => k.op = <<"step", s, n>> /\ k.step = s
  <2>1. CASE authority
    <3>1. Goto(t, "invoke", [EmptyFrame EXCEPT !.step = s, !.op = <<"step", s, n>>])
      BY <1>1, <2>1 DEF RunStep
    <3>2. [EmptyFrame EXCEPT !.step = s, !.op = <<"step", s, n>>].op = <<"step", s, n>>
          /\ [EmptyFrame EXCEPT !.step = s, !.op = <<"step", s, n>>].step = s
      BY EmptyFrameIsFrame DEF FrameShape
    <3> QED BY <1>0, <1>1, <3>1, <3>2, RunFrames
  <2>2. CASE ~authority
    BY <1>0, <1>1, <2>2, RunFrames DEF RunStep
  <2> QED BY <2>1, <2>2
<1>3. /\ \A u \in Threads : u # t => pc'[u] = pc[u] /\ frame'[u] = frame[u]
      /\ pc'[t] = label /\ frame'[t] = k
  BY <1>2 DEF Goto, PlanInv, Rows, OtherRows
<1>4. /\ UNCHANGED <<op_state, op_int, op_at, card, consumer, request, writes, shown, runtime>>
      /\ label \in Words /\ label \notin Executing \cup Answering \cup Writing \cup {"finish"}
  BY <1>2, WordList DEF opVars, cardVars, worldVars, Labels, Executing, Answering, Writing
<1>5. /\ step_state \in [Steps -> Words] /\ attempt \in [Steps -> Nat] /\ step_at \in [Steps -> Nat]
      /\ "running" \in Words /\ runtime \in Nat
      /\ \A r \in Steps : r # s => /\ step_state'[r] = step_state[r] /\ attempt'[r] = attempt[r]
                                   /\ step_at'[r] = step_at[r]
      /\ step_state'[s] = "running" /\ step_at'[s] = runtime
  BY <1>0, WordList DEF PlanInv, Rows, StepRows, OpStates
<1> HIDE DEF n
<1>6. Rows'
  <2>1. StepRows'
    <3>1. attempt' \in [Steps -> Nat] /\ step_at' \in [Steps -> Nat] /\ step_state' \in [Steps -> Words]
      BY <1>0, <1>5
    <3>2. plan_state' \in Words
      BY <1>5
    <3> QED BY <1>0, <3>1, <3>2 DEF PlanInv, Rows, StepRows
  <2>2. OtherRows'
    BY <1>2, <1>4 DEF PlanInv, Rows, OtherRows, Goto
  <2> QED BY <2>1, <2>2 DEF Rows
<1>7. StepsOK'
  BY <1>0, <1>1, <1>4, <1>5 DEF PlanInv, StepsOK
<1>8. ASSUME NEW u \in Threads PROVE ThreadFits(u)'
  <2>1. CASE u = t
    <3>1. OpFits(t)'
      <4>1. label = "invoke" => /\ k.op \in StepOps /\ k.op[2] = s /\ k.op[3] = n
                                /\ k.op \in OpIds /\ k.op \notin ResumeOps
        <5>1. <<"step", s, n>> \in StepOps
          BY <1>0, <1>1, Operations
        <5>2. <<"step", s, n>> \in OpIds /\ <<"step", s, n>> \notin ResumeOps
          BY <5>1, Operations
        <5> QED BY <1>2, <5>1, <5>2
      <4> QED BY <1>0, <1>1, <1>2, <1>3, <1>4, <1>5, <4>1 DEF OpFits
    <3> QED BY <1>0, <1>2, <1>3, <1>4, <2>1, <3>1
            DEF ThreadFits, LockFits, RunFits, CardFits, Executing, Answering, Writing
  <2>2. CASE u # t
    BY <1>0, <1>3, <1>4, <2>2, OthersFit
  <2> QED BY <2>1, <2>2
<1>9. OneRunner'
  BY <1>2, <1>4, RunnerStays DEF PlanInv
<1>10. ASSUME NEW i, Known(i)' PROVE Known(i)
  BY <1>2, <1>4, <1>10, KnownMoves DEF PlanInv, Known
<1>11. ASSUME NEW i, Visible(i)' PROVE Visible(i)
  BY <1>2, <1>4, <1>11, VisibleMoves DEF PlanInv, Known, Visible
<1>12. FieldsAsked'
  <2>1. ASSUME NEW f \in Fields, Known(f)' PROVE Asked(f)'
    <3>1. Asked(f)
      BY <1>10, <2>1 DEF PlanInv, FieldsAsked
    <3>2. Last # s
      BY <1>0, <3>1 DEF Asked
    <3>3. attempt'[Last] = attempt[Last] /\ step_state'[Last] = step_state[Last]
      BY <1>5, <3>2, StepNumbers
    <3> QED BY <1>4, <3>1, <3>3, AskedStays DEF PlanInv
  <2> QED BY <2>1 DEF FieldsAsked
<1>13. Counted' /\ SentOK'
  BY <1>4 DEF PlanInv, Counted, Numbered, SentOK
<1>14. AuthsKnown'
  BY <1>4, <1>11 DEF PlanInv, AuthsKnown, FieldsUsed
<1>15. Chain'
  BY <1>2, <1>4, <1>11, ChainStays DEF PlanInv
<1> QED BY <1>6, <1>7, <1>8, <1>9, <1>12, <1>13, <1>14, <1>15 DEF PlanInv

\* reset_running_step_for_recovery: nothing was asked for in the attempt that
\* is given up.
LEMMA ResetKeeps ==
    ASSUME PlanInv, NEW t \in Threads, ResetRunningStep(t)
    PROVE  PlanInv'
<1> DEFINE s == frame[t].step
<1>0. /\ pc[t] = "reset" /\ s \in Steps /\ plan_lock = t /\ plan_lock' = plan_lock
      /\ attempt[s] \in 1 .. runtime
      /\ op_state[<<"step", s, attempt[s]>>] # "requires_user_action"
      /\ runtime \in Nat
  <2>1. pc[t] = "reset" /\ plan_lock' = plan_lock
    BY DEF ResetRunningStep, lockVars
  <2>2. LockFits(t) /\ runtime \in Nat
    BY Bounds DEF PlanInv, ThreadFits, Rows, OtherRows
  <2> QED BY <2>1, <2>2 DEF LockFits
<1>1. /\ plan_state' = "running" /\ current_step' = Null
      /\ step_state' = [step_state EXCEPT ![s] = "queued"]
      /\ step_int' = [step_int EXCEPT ![s] = Null]
      /\ step_at' = [step_at EXCEPT ![s] = runtime]
      /\ Goto(t, "advance", EmptyFrame)
      /\ UNCHANGED <<commit_op, attempt, opVars, cardVars, shown, worldVars, lockVars>>
  BY DEF ResetRunningStep
<1> HIDE DEF s
<1>2. /\ \A u \in Threads : u # t => pc'[u] = pc[u] /\ frame'[u] = frame[u]
      /\ pc'[t] = "advance" /\ frame'[t] = EmptyFrame
  BY <1>1 DEF Goto, PlanInv, Rows, OtherRows
<1>3. /\ UNCHANGED <<op_state, op_int, op_at, card, consumer, request, writes, shown, runtime>>
      /\ "advance" \in Words /\ "advance" \notin Executing \cup Answering \cup Writing \cup {"finish"}
  BY <1>1, WordList DEF opVars, cardVars, worldVars, Labels, Executing, Answering, Writing
<1>4. /\ step_state' \in [Steps -> Words] /\ step_at' \in [Steps -> Nat]
      /\ \A r \in Steps : r # s => step_state'[r] = step_state[r] /\ step_at'[r] = step_at[r]
      /\ step_state'[s] = "queued" /\ step_at'[s] = runtime
  <2>1. "queued" \in Words
    BY WordList DEF OtherWords
  <2> QED BY <1>0, <1>1, <2>1 DEF PlanInv, Rows, StepRows
<1>5. Rows'
  <2>1. "running" \in Words /\ Null \in AnyInts
    BY WordList, Cards DEF OpStates
  <2>2. step_int' \in [Steps -> AnyInts]
    BY <1>0, <1>1, <2>1 DEF PlanInv, Rows, StepRows
  <2>3. StepRows'
    BY <1>1, <1>4, <2>1, <2>2 DEF PlanInv, Rows, StepRows
  <2>4. OtherRows'
    BY <1>1, <1>3, EmptyFrameIsFrame DEF PlanInv, Rows, OtherRows, Goto
  <2> QED BY <2>3, <2>4 DEF Rows
<1>6. StepsOK'
  BY <1>0, <1>1, <1>3, <1>4 DEF PlanInv, StepsOK
<1>7. ASSUME NEW u \in Threads PROVE ThreadFits(u)'
  <2>1. CASE u = t
    BY <1>2, <1>3, <2>1 DEF ThreadFits, LockFits, OpFits, RunFits, CardFits, Executing, Answering,
                            Writing
  <2>2. CASE u # t
    <3>1. plan_lock # u
      BY <1>0, <2>2
    <3> QED BY <1>0, <1>2, <1>3, <2>2, <3>1, OthersFit
  <2> QED BY <2>1, <2>2
<1>8. OneRunner'
  BY <1>1, <1>3, RunnerStays DEF PlanInv
<1>9. ASSUME NEW i, Known(i)' PROVE Known(i)
  BY <1>1, <1>3, <1>9, KnownMoves DEF PlanInv, Known
<1>10. ASSUME NEW i, Visible(i)' PROVE Visible(i)
  BY <1>1, <1>3, <1>10, VisibleMoves DEF PlanInv, Known, Visible
<1>11. FieldsAsked'
  <2>1. ASSUME NEW f \in Fields, Known(f)' PROVE Asked(f)'
    <3>1. Asked(f)
      BY <1>9, <2>1 DEF PlanInv, FieldsAsked
    <3>2. Last # s
      BY <1>0, <3>1 DEF Asked
    <3>3. attempt'[Last] = attempt[Last] /\ step_state'[Last] = step_state[Last]
      BY <1>1, <1>4, <3>2, StepNumbers
    <3> QED BY <1>3, <3>1, <3>3, AskedStays DEF PlanInv
  <2> QED BY <2>1 DEF FieldsAsked
<1>12. Counted' /\ SentOK'
  BY <1>3 DEF PlanInv, Counted, Numbered, SentOK
<1>13. AuthsKnown'
  BY <1>3, <1>10 DEF PlanInv, AuthsKnown, FieldsUsed
<1>14. Chain'
  BY <1>1, <1>3, <1>10, ChainStays DEF PlanInv
<1> QED BY <1>5, <1>6, <1>7, <1>8, <1>11, <1>12, <1>13, <1>14 DEF PlanInv

LEMMA BeginNextKeeps ==
    ASSUME PlanInv, NEW t \in Threads, BeginNextStep(t)
    PROVE  PlanInv'
<1>0. pc[t] = "begin" /\ UNCHANGED <<opVars, cardVars, shown, worldVars>>
  BY DEF BeginNextStep
<1>1. CASE /\ Return(t) /\ UNCHANGED <<planVars, stepVars>>
  BY <1>0, <1>1, ReturningKeeps
<1>2. CASE /\ HasCurrentStep /\ step_state[current_step] = "running"
           /\ UNCHANGED <<planVars, stepVars>> /\ RunStep(t, current_step)
  BY <1>2, RerunKeeps
<1>3. ASSUME NEW s \in NextSteps,
             plan_state' = "running", current_step' = s,
             step_state' = [step_state EXCEPT ![s] = "running"],
             attempt' = [attempt EXCEPT ![s] = @ + 1],
             step_at' = [step_at EXCEPT ![s] = runtime],
             UNCHANGED <<commit_op, step_int>>, RunStep(t, s)
      PROVE  PlanInv'
  BY <1>0, <1>3, BeginKeeps
<1> QED BY <1>1, <1>2, <1>3 DEF BeginNextStep

-----------------------------------------------------------------------------
(* Interactions, cancels and the recovery.                                   *)

LEMMA ResumeInteractionKeeps ==
    ASSUME PlanInv, NEW t \in Threads, NEW i \in Interactions, ResumeInteraction(t, i)
    PROVE  PlanInv'
<1> DEFINE k == [EmptyFrame EXCEPT !.int = i, !.seen = card[i]]
<1>1. /\ Goto(t, "bind", k) /\ i \in shown
      /\ UNCHANGED <<planVars, stepVars, opVars, cardVars, shown, worldVars, lockVars>>
  BY DEF ResumeInteraction
<1>2. k \in FrameShape /\ k.int = i
  <2>1. i \in AnyInts /\ card[i] \in Words
    BY Cards DEF PlanInv, Rows, OtherRows
  <2> QED BY <2>1, EmptyFrameIsFrame DEF FrameShape
<1> HIDE DEF k
<1>3. /\ "bind" \in Words /\ "bind" \notin Executing \cup Answering \cup Writing
                                          \cup {"finish", "invoke", "boundary"}
  BY WordList DEF Labels, Executing, Answering, Writing
<1>4. ThreadFits(t)'
  <2>1. pc'[t] = "bind" /\ frame'[t] = k
    BY <1>1, <1>2 DEF Goto, PlanInv, Rows, OtherRows
  <2> QED BY <1>1, <1>2, <1>3, <2>1
          DEF ThreadFits, LockFits, OpFits, RunFits, CardFits, Executing, Writing
<1>5. WorldHolds /\ LockHolds(t) /\ UNCHANGED <<opVars, writes, shown, cardVars, planVars, stepVars>>
  BY <1>1, LockSame DEF WorldHolds, worldVars, lockVars
<1> QED BY <1>1, <1>2, <1>3, <1>4, <1>5, StepsSame, CardsSame, ShownSame, Quiet

LEMMA IntFrames ==
    ASSUME NEW i \in AnyInts
    PROVE  [EmptyFrame EXCEPT !.int = i] \in FrameShape
BY EmptyFrameIsFrame DEF FrameShape

LEMMA BindKeeps ==
    ASSUME PlanInv, NEW t \in Threads, BindInteraction(t)
    PROVE  PlanInv'
<1> DEFINE i == frame[t].int
<1>0. /\ i \in Interactions /\ i \in shown /\ i \in AnyInts
      /\ UNCHANGED <<planVars, stepVars, opVars, cardVars, shown, worldVars>>
  BY LabelFacts, Cards DEF BindInteraction
<1> HIDE DEF i
<1>1. CASE Goto(t, "reject", EmptyFrame) /\ UNCHANGED lockVars
  BY <1>0, <1>1, EmptyFrameIsFrame, LockSame, MovingKeeps DEF Plain, lockVars
<1>2. CASE Goto(t, "terminal", [EmptyFrame EXCEPT !.int = i]) /\ UNCHANGED lockVars
  BY <1>0, <1>2, IntFrames, LockSame, MovingKeeps DEF Plain, lockVars
<1>3. CASE Return(t)
  BY <1>0, <1>3, ReturningKeeps
<1>4. ASSUME NEW x \in Keys, UNCHANGED lockVars,
             Goto(t, "invoke", [EmptyFrame EXCEPT !.int = i, !.bound = Bound(i),
                                                  !.op = <<"resume", i, x>>])
      PROVE  PlanInv'
  <2> DEFINE o == <<"resume", i, x>>
             k == [EmptyFrame EXCEPT !.int = i, !.bound = Bound(i), !.op = o]
  <2>1. o \in ResumeOps
    BY <1>0, Operations
  <2>2. o \in OpIds /\ o \notin StepOps /\ o[2] = i
    BY <2>1, Operations
  <2> HIDE DEF o
  <2>3. Bound(i) \in BOOLEAN
    BY DEF Bound
  <2>4. k \in FrameShape /\ k.op = o
    BY <1>0, <2>2, <2>3, EmptyFrameIsFrame DEF FrameShape
  <2>5. Goto(t, "invoke", k)
    BY <1>4 DEF o
  <2> HIDE DEF k
  <2>6. ThreadFits(t)'
    <3>1. pc'[t] = "invoke" /\ frame'[t] = k
      BY <2>5 DEF Goto, PlanInv, Rows, OtherRows
    <3>2. OpFits(t)'
      BY <1>0, <2>2, <2>4, <3>1 DEF OpFits
    <3> QED BY <3>1, <3>2 DEF ThreadFits, LockFits, RunFits, CardFits, Executing, Writing
  <2>7. "invoke" \in Words /\ "invoke" \notin Executing \cup Answering \cup Writing \cup {"finish"}
    BY WordList DEF Labels, Executing, Answering, Writing
  <2>8. WorldHolds /\ LockHolds(t) /\ UNCHANGED <<opVars, writes, shown, cardVars, planVars, stepVars>>
    BY <1>0, <1>4, LockSame DEF WorldHolds, worldVars, lockVars
  <2> QED BY <2>4, <2>5, <2>6, <2>7, <2>8, StepsSame, CardsSame, ShownSame, Quiet
<1> QED BY <1>1, <1>2, <1>3, <1>4 DEF BindInteraction, i

\* A thread that waits for the plan lock with a response, or has it: the
\* response is one that is known.
LEMMA AnsweringKeeps ==
    ASSUME PlanInv, NEW t \in Threads, NEW label \in {"relock", "consume"}, NEW k \in FrameShape,
           Goto(t, label, k), k.step \in Steps, label = "consume" => plan_lock' = t,
           k.resp.int \in Interactions => Known(k.resp.int), LockHolds(t),
           UNCHANGED <<planVars, stepVars, opVars, cardVars, shown, worldVars>>
    PROVE  PlanInv'
<1>1. pc'[t] = label /\ frame'[t] = k
  BY DEF Goto, PlanInv, Rows, OtherRows
<1>2. label \in Words /\ label \notin Executing \cup Writing \cup {"finish"}
  BY WordList DEF Labels, Executing, Writing
<1>3. ThreadFits(t)'
  BY <1>1, <1>2 DEF ThreadFits, LockFits, OpFits, RunFits, CardFits, Executing, Writing
<1>4. WorldHolds /\ UNCHANGED <<opVars, writes, shown, cardVars, planVars, stepVars>>
  BY DEF WorldHolds, worldVars
<1> QED BY <1>2, <1>3, <1>4, StepsSame, CardsSame, ShownSame, Quiet

LEMMA AnswerResumeKeeps ==
    ASSUME PlanInv, NEW t \in Threads, AnswerResume(t)
    PROVE  PlanInv'
<1>0. /\ pc[t] = "respond" /\ frame[t] \in FrameShape /\ Known(frame[t].resp.int)
      /\ UNCHANGED <<planVars, stepVars, opVars, cardVars, worldVars>>
  BY LabelFacts DEF AnswerResume, Known, Answering
<1>1. CASE /\ Bound(frame[t].int) /\ UNCHANGED <<shown, lockVars>>
           /\ Goto(t, "relock", [frame[t] EXCEPT !.step = BoundStep(frame[t].int)])
  <2>1. BoundStep(frame[t].int) \in Steps
    BY <1>1 DEF Bound, BoundStep
  <2> DEFINE k == [frame[t] EXCEPT !.step = BoundStep(frame[t].int)]
  <2>2. k \in FrameShape /\ k.step \in Steps /\ k.resp.int = frame[t].resp.int
    BY <1>0, <2>1 DEF FrameShape
  <2>3. Goto(t, "relock", k) /\ LockHolds(t)
    BY <1>1, LockSame DEF lockVars
  <2> HIDE DEF k
  <2> QED BY <1>0, <1>1, <2>2, <2>3, AnsweringKeeps
<1>2. CASE shown' = shown \cup ({frame[t].resp.int} \ {Null}) /\ Return(t)
  <2> DEFINE i == frame[t].resp.int
  <2>1. i \in AnyInts /\ Known(i)
    BY <1>0, FramesAreFrames
  <2>2. shown' \subseteq shown \cup {i} /\ shown \subseteq shown'
    BY <1>2
  <2> HIDE DEF i
  <2>3. /\ shown' \subseteq AnyInts
        /\ \A j \in Interactions : j \in shown' => Known(j)
    <3>1. shown \subseteq AnyInts /\ \A j \in Interactions : j \in shown => Known(j)
      BY DEF PlanInv, Rows, OtherRows, Known
    <3> QED BY <2>1, <2>2, <3>1
  <2>4. /\ StepRows' /\ StepsHold /\ CardsHold /\ WorldHolds /\ LockHolds(t)
        /\ UNCHANGED <<opVars, writes>>
    BY <1>0, <1>2, StepsSame, CardsSame, LockSame DEF Return, WorldHolds, worldVars
  <2> QED BY <1>2, <2>2, <2>3, <2>4, EmptyFrameIsFrame, QuietPlain DEF Return, Plain
<1> QED BY <1>1, <1>2 DEF AnswerResume

LEMMA AfterCapabilityKeeps ==
    ASSUME PlanInv, NEW t \in Threads, ResumeAfterCapability(t)
    PROVE  PlanInv'
<1>0. /\ pc[t] = "relock" /\ frame[t] \in FrameShape /\ frame[t].step \in Steps
      /\ Known(frame[t].resp.int) /\ plan_lock \in {Null, t}
      /\ UNCHANGED <<planVars, stepVars, opVars, cardVars, shown, worldVars>>
  BY LabelFacts DEF ResumeAfterCapability, Known, Answering, MayLockPlan
<1>1. CASE LockPlanAndGoto(t, "consume", [frame[t] EXCEPT !.int = Null, !.bound = FALSE])
  <2> DEFINE k == [frame[t] EXCEPT !.int = Null, !.bound = FALSE]
  <2>1. k \in FrameShape /\ k.step = frame[t].step /\ k.resp.int = frame[t].resp.int
    <3>1. Null \in AnyInts
      BY Cards
    <3> QED BY <1>0, <3>1 DEF FrameShape
  <2>2. Goto(t, "consume", k) /\ plan_lock' = t /\ LockHolds(t)
    BY <1>0, <1>1, LockSame DEF LockPlanAndGoto
  <2> HIDE DEF k
  <2> QED BY <1>0, <2>1, <2>2, AnsweringKeeps
<1>2. CASE LockPlanAndGoto(t, "retire",
             [EmptyFrame EXCEPT !.retire = (StepInteractions \cup {frame[t].resp.int}) \ {Null}])
  <2>1. (StepInteractions \cup {frame[t].resp.int}) \ {Null} \in SUBSET AnyInts
    BY <1>0, StepInteractionsTyped, FramesAreFrames
  <2>2. LockHolds(t)
    BY <1>0, LockSame
  <2> QED BY <1>0, <1>2, <2>1, <2>2, RetireFrame, MovingKeeps DEF LockPlanAndGoto, Plain
<1> QED BY <1>1, <1>2 DEF ResumeAfterCapability

LEMMA RejectKeeps ==
    ASSUME PlanInv, NEW t \in Threads, Reject(t)
    PROVE  PlanInv'
<1>1. CASE /\ Return(t) /\ UNCHANGED <<planVars, stepVars, opVars, cardVars, shown, worldVars>>
  BY <1>1, ReturningKeeps
<1>2. ASSUME NEW s \in ActiveSteps, FailPlan(t, s, "failed"), UNCHANGED opVars PROVE PlanInv'
  <2>1. s \in Steps /\ plan_lock \in {Null, t}
    BY DEF ActiveSteps, Reject, MayLockPlan
  <2> QED BY <1>2, <2>1, FailingKeeps
<1> QED BY <1>1, <1>2 DEF Reject

LEMMA BindTerminalKeeps ==
    ASSUME PlanInv, NEW t \in Threads, BindTerminal(t)
    PROVE  PlanInv'
<1>0. frame[t] \in FrameShape /\ UNCHANGED <<planVars, stepVars, opVars, cardVars, shown, worldVars>>
  BY LabelFacts DEF BindTerminal
<1>1. CASE /\ Bound(frame[t].int) /\ UNCHANGED lockVars
           /\ Goto(t, "terminal_lock", [frame[t] EXCEPT !.step = BoundStep(frame[t].int)])
  <2>1. BoundStep(frame[t].int) \in Steps
    BY <1>1 DEF Bound, BoundStep
  <2>2. [frame[t] EXCEPT !.step = BoundStep(frame[t].int)] \in FrameShape
    BY <1>0, <2>1 DEF FrameShape
  <2> QED BY <1>0, <1>1, <2>2, LockSame, MovingKeeps DEF Plain, lockVars
<1>2. CASE Return(t)
  BY <1>0, <1>2, ReturningKeeps
<1> QED BY <1>1, <1>2 DEF BindTerminal

LEMMA HandleTerminalKeeps ==
    ASSUME PlanInv, NEW t \in Threads, HandleTerminal(t)
    PROVE  PlanInv'
<1>0. plan_lock \in {Null, t} /\ frame[t].step \in Steps \cup {Null}
  BY LabelFacts, FramesAreFrames DEF HandleTerminal, MayLockPlan
<1>1. CASE Return(t) /\ UNCHANGED <<planVars, stepVars, opVars, cardVars, shown, worldVars>>
  BY <1>1, ReturningKeeps
<1>2. CASE CancelPlan(t)
  BY <1>0, <1>2, CancelingKeeps
<1>3. CASE FailPlan(t, frame[t].step, "failed") /\ UNCHANGED opVars
  BY <1>0, <1>3, FailingKeeps
<1> QED BY <1>1, <1>2, <1>3 DEF HandleTerminal

LEMMA CancelKeeps ==
    ASSUME PlanInv, NEW t \in Threads, Cancel(t)
    PROVE  PlanInv'
<1>1. CASE Return(t) /\ UNCHANGED <<planVars, stepVars, opVars, cardVars, shown, worldVars>>
  BY <1>1, ReturningKeeps
<1>2. CASE CancelPlan(t)
  BY <1>2, CancelingKeeps DEF Cancel, MayLockPlan
<1> QED BY <1>1, <1>2 DEF Cancel

\* The steps of threads that need no more than what is above.
LEMMA RoutineKeeps ==
    ASSUME PlanInv, NEW t \in Threads,
           \/ NoStepLeft(t) \/ NothingToDo(t) \/ StepStillRunning(t)
           \/ \E tool \in CancelTools : CallCancel(t, tool)
           \/ \E i \in Interactions : PollInteraction(t, i)
           \/ RecoverRejected(t) \/ RecoverWaiting(t)
    PROVE  PlanInv'
<1>1. CASE NoStepLeft(t) \/ NothingToDo(t)
  BY <1>1, CompletingKeeps DEF NoStepLeft, NothingToDo
<1>2. CASE StepStillRunning(t)
  BY <1>2, ReturningKeeps DEF StepStillRunning
<1>3. ASSUME NEW tool \in CancelTools, CallCancel(t, tool) PROVE PlanInv'
  BY <1>3, EmptyFrameIsFrame, LockSame, MovingKeeps DEF CallCancel, Plain
<1>4. ASSUME NEW i \in Interactions, PollInteraction(t, i) PROVE PlanInv'
  <2>1. [EmptyFrame EXCEPT !.int = i] \in FrameShape
    BY Cards, IntFrames
  <2> QED BY <1>4, <2>1, LockSame, MovingKeeps DEF PollInteraction, Plain, lockVars
<1>5. ASSUME RecoverRejected(t) PROVE PlanInv'
  <2>1. PICK s \in ActiveSteps : FailPlan(t, s, "failed")
    BY <1>5 DEF RecoverRejected
  <2>2. s \in Steps /\ plan_lock \in {Null, t} /\ UNCHANGED opVars
    BY <1>5 DEF ActiveSteps, RecoverRejected, Recovering
  <2> QED BY <2>1, <2>2, FailingKeeps
<1>6. ASSUME RecoverWaiting(t) PROVE PlanInv'
  <2> DEFINE i == step_int[current_step]
  <2>1. current_step \in Steps /\ step_int \in [Steps -> AnyInts]
    BY <1>6 DEF RecoverWaiting, PlanInv, Rows, StepRows, StepsOK
  <2>2. i \in AnyInts
    BY <2>1
  <2>3. [EmptyFrame EXCEPT !.int = i] \in FrameShape
    BY <2>2, IntFrames
  <2>4. /\ Goto(t, "terminal", [EmptyFrame EXCEPT !.int = i])
        /\ UNCHANGED <<planVars, stepVars, opVars, cardVars, shown, worldVars>>
        /\ plan_lock \in {Null, t}
    BY <1>6 DEF RecoverWaiting, Recovering, LockPlanAndGoto
  <2> QED BY <2>3, <2>4, LockSame, MovingKeeps DEF Plain
<1> QED BY <1>1, <1>2, <1>3, <1>4, <1>5, <1>6

-----------------------------------------------------------------------------
(* Operations.                                                               *)

\* One operation that no other thread executes changes its row.
LEMMA OperationMoves ==
    ASSUME PlanInv, NEW t \in Threads, NEW label \in Words, NEW k \in FrameShape,
           Goto(t, label, k), LockHolds(t),
           UNCHANGED <<planVars, stepVars, cardVars, shown, worldVars>>,
           NEW o \in OpIds, op_state[o] # "requires_user_action",
           op_state' \in [OpIds -> Words], op_int' \in [OpIds -> AnyInts], op_at' \in [OpIds -> Nat],
           \A x \in OpIds \ {o} : op_state'[x] = op_state[x] /\ op_at'[x] = op_at[x],
           \A u \in Threads \ {t} : pc[u] \in Executing => frame[u].op # o,
           o \in StepOps => plan_lock \in {Null, t},
           \A f \in Fields : Known(f)' => Known(f) \/ Asked(f)',
           \A a \in Auths : Visible(a)' => Visible(a),
           label \notin Writing,
           label \in Executing => \A u \in Threads : pc[u] \in Executing => frame[u].op # k.op,
           ThreadFits(t)'
    PROVE  PlanInv'
<1> USE DEF PlanInv
<1>1. /\ \A u \in Threads : u # t => pc'[u] = pc[u] /\ frame'[u] = frame[u]
      /\ pc'[t] = label /\ frame'[t] = k
  BY DEF Goto, Rows, OtherRows
<1>2. /\ UNCHANGED <<card, consumer, request, writes, shown, runtime, attempt, step_state, step_at>>
  BY DEF cardVars, worldVars, stepVars
<1>3. Rows'
  BY <1>2 DEF Goto, Rows, OtherRows, StepRows, planVars, stepVars
<1>4. StepsOK'
  BY <1>2 DEF StepsOK, planVars
<1>5. ASSUME NEW u \in Threads PROVE ThreadFits(u)'
  <2>1. CASE u = t
    BY <2>1
  <2>2. CASE u # t
    <3>1. plan_lock = u => plan_lock' = u
      BY <2>2 DEF LockHolds
    <3>2. plan_lock = u => \A x \in StepOps : op_state'[x] = op_state[x]
      BY <2>2, Operations, StepNumbers
    <3>3. pc[u] \in Executing => /\ op_state'[frame[u].op] = op_state[frame[u].op]
                                 /\ op_at'[frame[u].op] = op_at[frame[u].op]
      <4>1. ThreadFits(u)
        OBVIOUS
      <4> QED BY <2>2, <4>1 DEF ThreadFits, OpFits
    <3> QED BY <1>1, <1>2, <2>2, <3>1, <3>2, <3>3, OthersFit
  <2> QED BY <2>1, <2>2
<1>6. OneRunner'
  BY RunnerStays
<1>7. FieldsAsked'
  <2>1. ASSUME NEW f \in Fields, Asked(f) PROVE Asked(f)'
    <3>1. \A x \in StepOps : op_state[x] = "requires_user_action"
                               => op_state'[x] = "requires_user_action"
      BY Operations
    <3> QED BY <1>2, <2>1, <3>1, AskedStays
  <2> QED BY <2>1 DEF FieldsAsked
<1>8. Counted' /\ SentOK'
  BY <1>2 DEF Counted, Numbered, SentOK
<1>9. AuthsKnown'
  BY <1>2 DEF AuthsKnown, FieldsUsed
<1>10. Chain'
  BY <1>2, ChainStays
<1> QED BY <1>3, <1>4, <1>5, <1>6, <1>7, <1>8, <1>9, <1>10

LEMMA InvokeKeeps ==
    ASSUME PlanInv, NEW t \in Threads, Invoke(t)
    PROVE  PlanInv'
<1> DEFINE o == frame[t].op
<1>0. /\ pc[t] = "invoke" /\ frame[t] \in FrameShape /\ o \in OpIds /\ OpFits(t)
      /\ o \in StepOps => plan_lock = t /\ frame[t].step = o[2] /\ o[2] \in Steps
      /\ UNCHANGED <<planVars, stepVars, cardVars, shown, worldVars>>
  BY Operations DEF Invoke, PlanInv, ThreadFits, OpFits, Rows, OtherRows
<1>1. CASE /\ op_state[o] = "absent"
           /\ op_state' = [op_state EXCEPT ![o] = "running"]
           /\ op_at' = [op_at EXCEPT ![o] = runtime]
           /\ Goto(t, "handler", frame[t])
           /\ UNCHANGED <<op_int, plan_lock>>
  <2>1. /\ op_state' \in [OpIds -> Words] /\ op_at' \in [OpIds -> Nat] /\ op_int' \in [OpIds -> AnyInts]
        /\ op_state'[o] = "running" /\ op_at'[o] = runtime
        /\ \A x \in OpIds \ {o} : op_state'[x] = op_state[x] /\ op_at'[x] = op_at[x]
    <3>1. "running" \in Words /\ runtime \in Nat
      BY WordList, Bounds DEF PlanInv, Rows, OtherRows, OpStates
    <3> QED BY <1>0, <1>1, <3>1 DEF PlanInv, Rows, OtherRows
  <2>2. \A u \in Threads : pc[u] \in Executing => frame[u].op # o
    BY <1>1 DEF PlanInv, ThreadFits, RunFits
  <2> HIDE DEF o
  <2>3. ThreadFits(t)'
    <3>1. pc'[t] = "handler" /\ frame'[t] = frame[t] /\ runtime' = runtime
      BY <1>0, <1>1 DEF Goto, PlanInv, Rows, OtherRows, worldVars
    <3>2. OpFits(t)'
      BY <1>0, <1>1, <3>1 DEF OpFits, stepVars, Executing
    <3>3. RunFits(t)'
      BY <2>1, <3>1 DEF RunFits, o
    <3> QED BY <3>1, <3>2, <3>3 DEF ThreadFits, LockFits, CardFits, Writing
  <2>4. ASSUME NEW i, Known(i)' PROVE Known(i)
    BY <1>0, <1>1, <2>4, KnownMoves DEF PlanInv, Known, Answering
  <2>5. ASSUME NEW i, Visible(i)' PROVE Visible(i)
    BY <1>0, <1>1, <2>5, VisibleMoves DEF PlanInv, Known, Visible, Answering
  <2>6. LockHolds(t) /\ "handler" \in Words /\ "handler" \notin Writing
    BY <1>1, LockSame, WordList DEF Labels, Writing
  <2>7. o = frame[t].op
    BY DEF o
  <2> QED BY <1>0, <1>1, <2>1, <2>2, <2>3, <2>4, <2>5, <2>6, <2>7, OperationMoves
<1>2. CASE /\ Goto(t, AfterOperation(o),
                   [frame[t] EXCEPT !.resp = [st |-> op_state[o], int |-> op_int[o]]])
           /\ UNCHANGED <<opVars, lockVars>>
  <2> DEFINE k == [frame[t] EXCEPT !.resp = [st |-> op_state[o], int |-> op_int[o]]]
             label == AfterOperation(o)
  <2>1. op_state[o] \in Words /\ op_int[o] \in AnyInts /\ Known(op_int[o])
    BY <1>0 DEF PlanInv, Rows, OtherRows, Known
  <2>2. k \in FrameShape /\ k.resp.int = op_int[o] /\ k.step = frame[t].step
    BY <1>0, <2>1 DEF FrameShape
  <2>3. Goto(t, label, k) /\ LockHolds(t)
    BY <1>2, LockSame DEF lockVars
  <2>4. /\ label \in {"consume", "respond"}
        /\ label = "consume" => plan_lock = t /\ frame[t].step \in Steps
    BY <1>0, Operations DEF AfterOperation
  <2> HIDE DEF k, label
  <2>5. CASE label = "consume"
    BY <1>0, <1>2, <2>1, <2>2, <2>3, <2>4, <2>5, AnsweringKeeps DEF lockVars
  <2>6. CASE label = "respond"
    <3>1. "respond" \in Words /\ "respond" \notin Executing \cup Writing \cup {"finish"}
      BY WordList DEF Labels, Executing, Writing
    <3>2. ThreadFits(t)'
      <4>1. pc'[t] = "respond"
        BY <2>3, <2>6 DEF Goto, PlanInv, Rows, OtherRows
      <4> QED BY <4>1 DEF ThreadFits, LockFits, OpFits, RunFits, CardFits, Executing, Writing
    <3>3. WorldHolds /\ UNCHANGED <<opVars, writes, shown, cardVars, planVars, stepVars>>
      BY <1>0, <1>2 DEF WorldHolds, worldVars
    <3> QED BY <2>1, <2>2, <2>3, <2>6, <3>1, <3>2, <3>3, StepsSame, CardsSame, ShownSame, Quiet
  <2> QED BY <2>4, <2>5, <2>6
<1> QED BY <1>1, <1>2 DEF Invoke

LEMMA FinishKeeps ==
    ASSUME PlanInv, NEW t \in Threads, FinishOperation(t)
    PROVE  PlanInv'
<1> DEFINE o == frame[t].op
           i == frame[t].resp.int
           st == frame[t].resp.st
           label == AfterOperation(o)
<1>0. /\ pc[t] = "finish" /\ pc[t] \in Executing /\ frame[t] \in FrameShape /\ o \in OpIds
      /\ i \in AnyInts /\ st \in Words /\ OpFits(t) /\ CardFits(t)
      /\ op_state[o] = "running"
  BY FramesAreFrames DEF FinishOperation, PlanInv, ThreadFits, OpFits, RunFits, Rows, OtherRows,
                         Executing
<1>1. /\ op_state' = [op_state EXCEPT ![o] = st]
      /\ op_int' = [op_int EXCEPT ![o] = i]
      /\ op_at' = [op_at EXCEPT ![o] = runtime]
      /\ Goto(t, label, frame[t])
      /\ UNCHANGED <<planVars, stepVars, cardVars, shown, worldVars, plan_lock>>
  BY DEF FinishOperation
<1>2. /\ o \in StepOps => /\ plan_lock = t /\ frame[t].step = o[2] /\ o[2] \in Steps
                          /\ o[3] = attempt[o[2]] /\ step_state[o[2]] # "queued"
                          /\ o = <<"step", o[2], o[3]>> /\ label = "consume"
      /\ o \in ResumeOps => label = "respond"
      /\ o \in StepOps <=> o \notin ResumeOps
  BY <1>0, Operations DEF OpFits, AfterOperation
<1>3. \A u \in Threads \ {t} : pc[u] \in Executing => frame[u].op # o
  BY <1>0 DEF PlanInv, OneRunner
<1>4. /\ op_state' \in [OpIds -> Words] /\ op_int' \in [OpIds -> AnyInts]
      /\ op_at' \in [OpIds -> Nat]
      /\ op_state'[o] = st /\ op_int'[o] = i
      /\ \A x \in OpIds \ {o} : /\ op_state'[x] = op_state[x] /\ op_at'[x] = op_at[x]
                                /\ op_int'[x] = op_int[x]
  <2>1. runtime \in Nat
    BY Bounds DEF PlanInv, Rows, OtherRows
  <2> QED BY <1>0, <1>1, <2>1 DEF PlanInv, Rows, OtherRows
<1>5. i = frame[t].resp.int /\ o = frame[t].op /\ st = frame[t].resp.st
  OBVIOUS
<1> HIDE DEF o, i, st, label
<1>6. ASSUME NEW j, Known(j)', j # i PROVE Known(j)
  <2>1. \A x \in OpIds : op_int'[x] = j => Known(j)
    BY <1>4, <1>6 DEF Known
  <2> QED BY <1>1, <1>5, <1>6, <2>1, KnownMoves DEF PlanInv, Known
<1>7. ASSUME NEW j, Visible(j)' PROVE Visible(j)
  <2>1. \A x \in OpIds : op_int'[x] = j => Visible(j)
    BY <1>0, <1>4, <1>5 DEF Known, Visible
  <2>2. frame[t].resp.int = j => Visible(j)
    BY <1>0 DEF Visible
  <2>3. j \in shown' => Visible(j)
    BY <1>1 DEF Known, Visible
  <2> QED BY <1>1, <1>7, <2>1, <2>2, <2>3, VisibleMoves DEF PlanInv
<1>8. ASSUME NEW f \in Fields, Known(f)' PROVE Known(f) \/ Asked(f)'
  <2>1. CASE f # i
    BY <1>6, <1>8, <2>1
  <2>2. CASE f = i /\ o \in ResumeOps
    BY <1>0, <1>5, <2>2 DEF CardFits, Known
  <2>3. CASE f = i /\ o \in StepOps
    <3>1. o[2] = Last /\ st = "requires_user_action" /\ f = <<"field", o[3]>>
      BY <1>0, <1>5, <2>3, Cards DEF CardFits
    <3>2. f[2] = o[3] /\ o = <<"step", Last, f[2]>>
      BY <1>2, <2>3, <3>1
    <3>3. f[2] = attempt[Last] /\ step_state[Last] # "queued"
      BY <1>2, <2>3, <3>1, <3>2
    <3>4. op_state'[<<"step", Last, f[2]>>] = "requires_user_action"
      BY <1>4, <3>1, <3>2
    <3> QED BY <1>1, <3>3, <3>4 DEF Asked, stepVars
  <2> QED BY <1>2, <2>1, <2>2, <2>3
<1>9. /\ label \in Words /\ label \notin Executing \cup Writing \cup {"finish"}
      /\ label \in {"consume", "respond"}
  BY <1>2, WordList DEF Labels, Executing, Writing
<1>10. ThreadFits(t)'
  <2>1. pc'[t] = label /\ frame'[t] = frame[t]
    BY <1>1 DEF Goto, PlanInv, Rows, OtherRows
  <2>2. LockFits(t)'
    BY <1>1, <1>2, <1>9, <2>1 DEF LockFits
  <2> QED BY <1>9, <2>1, <2>2 DEF ThreadFits, OpFits, RunFits, CardFits, Executing, Writing
<1>11. LockHolds(t)
  BY <1>1, LockSame
<1>12. op_state[o] # "requires_user_action" /\ (o \in StepOps => plan_lock \in {Null, t})
  BY <1>0, <1>2
<1> QED BY <1>0, <1>1, <1>3, <1>4, <1>7, <1>8, <1>9, <1>10, <1>11, <1>12, OperationMoves

\* A thread gets the plan lock with the response of the plan's commit.
LEMMA ResponseFrame ==
    ASSUME NEW s \in Steps, NEW st \in Words, NEW i \in AnyInts
    PROVE  [EmptyFrame EXCEPT !.step = s, !.resp = [st |-> st, int |-> i]] \in FrameShape
BY EmptyFrameIsFrame DEF FrameShape

LEMMA RecoverCommitKeeps ==
    ASSUME PlanInv, NEW t \in Threads, RecoverCommit(t)
    PROVE  PlanInv'
<1> DEFINE s == CommitStep
           o == commit_op
           r(st) == [EmptyFrame EXCEPT !.step = s, !.resp = [st |-> st, int |-> op_int[o]]]
<1>0. /\ s \in Steps /\ o \in OpIds /\ plan_lock = Null /\ op_int[o] \in AnyInts
      /\ op_state[o] \in Words /\ Known(op_int[o]) /\ "unknown" \in Words
  <2>1. s \in Steps
    BY StepNumbers DEF CommitStep, PlanInv, Rows, StepRows, Last
  <2>2. o \in OpIds /\ plan_lock = Null
    BY DEF RecoverCommit, Recovering, PlanInv, Rows, StepRows
  <2> QED BY <2>1, <2>2, WordList DEF PlanInv, Rows, OtherRows, Known, OpStates
<1>1. \A st \in Words : /\ r(st) \in FrameShape /\ r(st).step = s /\ r(st).resp.int = op_int[o]
  BY <1>0, ResponseFrame, EmptyFrameIsFrame DEF FrameShape
<1>2. CASE CompletePlan(t)
  BY <1>2, CompletingKeeps
<1>3. CASE /\ op_state[o] = "running" /\ OfPreviousRuntime(op_at[o])
           /\ op_state' = [op_state EXCEPT ![o] = "unknown"]
           /\ op_at' = [op_at EXCEPT ![o] = runtime]
           /\ LockPlanAndGoto(t, "consume", r("unknown"))
           /\ UNCHANGED <<planVars, stepVars, op_int, cardVars, shown, worldVars>>
  <2> DEFINE k == r("unknown")
  <2>1. k \in FrameShape /\ k.step = s /\ k.resp.int = op_int[o]
    BY <1>0, <1>1
  <2>2. Goto(t, "consume", k) /\ plan_lock' = t /\ LockHolds(t)
    BY <1>0, <1>3, LockSame DEF LockPlanAndGoto
  <2> HIDE DEF k, s
  <2>3. /\ op_state' \in [OpIds -> Words] /\ op_int' \in [OpIds -> AnyInts]
        /\ op_at' \in [OpIds -> Nat]
        /\ \A x \in OpIds \ {o} : op_state'[x] = op_state[x] /\ op_at'[x] = op_at[x]
    <3>1. runtime \in Nat
      BY Bounds DEF PlanInv, Rows, OtherRows
    <3> QED BY <1>0, <1>3, <3>1 DEF PlanInv, Rows, OtherRows
  <2>4. \A u \in Threads : pc[u] \in Executing => frame[u].op # o
    <3>1. op_at[o] # runtime
      <4>1. op_at[o] \in Nat /\ runtime \in Nat
        BY <1>0, Bounds DEF PlanInv, Rows, OtherRows
      <4> QED BY <1>3, <4>1 DEF OfPreviousRuntime
    <3> QED BY <3>1 DEF PlanInv, ThreadFits, RunFits
  <2>5. "consume" \in Words /\ "consume" \notin Executing \cup Writing \cup {"finish"}
    BY WordList DEF Labels, Executing, Writing
  <2>6. ThreadFits(t)'
    <3>1. pc'[t] = "consume" /\ frame'[t] = k
      BY <2>2 DEF Goto, PlanInv, Rows, OtherRows
    <3> QED BY <1>0, <2>1, <2>2, <2>5, <3>1
            DEF ThreadFits, LockFits, OpFits, RunFits, CardFits, Writing
  <2>7. ASSUME NEW i, Known(i)' PROVE Known(i)
    BY <1>0, <1>3, <2>1, <2>2, <2>7, KnownMoves DEF PlanInv, Known
  <2>8. ASSUME NEW i, Visible(i)' PROVE Visible(i)
    BY <1>0, <1>3, <2>1, <2>2, <2>8, VisibleMoves DEF PlanInv, Known, Visible
  <2> QED BY <1>0, <1>3, <2>1, <2>2, <2>3, <2>4, <2>5, <2>6, <2>7, <2>8, OperationMoves
<1>4. CASE /\ LockPlanAndGoto(t, "consume", r(op_state[o]))
           /\ UNCHANGED <<planVars, stepVars, opVars, cardVars, shown, worldVars>>
  <2> DEFINE k == r(op_state[o])
  <2>1. k \in FrameShape /\ k.step = s /\ k.resp.int = op_int[o]
    BY <1>0, <1>1
  <2>2. Goto(t, "consume", k) /\ plan_lock' = t /\ LockHolds(t)
    BY <1>0, <1>4, LockSame DEF LockPlanAndGoto
  <2> HIDE DEF k, s
  <2> QED BY <1>0, <1>4, <2>1, <2>2, AnsweringKeeps
<1> QED BY <1>2, <1>3, <1>4 DEF RecoverCommit

LEMMA RecoverRunningKeeps ==
    ASSUME PlanInv, NEW t \in Threads, RecoverRunning(t)
    PROVE  PlanInv'
<1> DEFINE s == current_step
           o == <<"step", s, attempt[s]>>
<1>0. /\ plan_lock = Null
      /\ UNCHANGED <<planVars, stepVars, op_int, op_at, cardVars, shown, worldVars>>
  BY DEF RecoverRunning, Recovering
<1>1. CASE LockPlanAndGoto(t, "advance", EmptyFrame) /\ UNCHANGED op_state
  BY <1>0, <1>1, EmptyFrameIsFrame, LockSame, MovingKeeps DEF LockPlanAndGoto, Plain, opVars
<1>2. CASE /\ s # Null /\ Interrupted(s)
           /\ op_state' = IF op_state[o] = "running" THEN [op_state EXCEPT ![o] = "failed"]
                                                     ELSE op_state
           /\ LockPlanAndGoto(t, "reset", [EmptyFrame EXCEPT !.step = s])
  <2> DEFINE k == [EmptyFrame EXCEPT !.step = s]
  <2>1. /\ s \in Steps /\ attempt[s] \in 1 .. runtime /\ attempt[s] \in 1 .. MaxAttempts
        /\ op_state[o] \in {"absent", "running"}
    <3>1. s \in Steps
      BY <1>2 DEF PlanInv, Rows, StepRows
    <3>2. /\ step_at[s] < runtime /\ op_state[o] \in {"absent", "running"}
          /\ attempt[s] >= 1 /\ attempt[s] <= 1 + step_at[s]
      BY <1>2, <3>1 DEF Interrupted, OfPreviousRuntime, PlanInv, StepsOK
    <3>3. step_at[s] \in Nat /\ attempt[s] \in Nat /\ runtime \in 0 .. MaxCrashes
      BY <3>1 DEF PlanInv, Rows, StepRows, OtherRows
    <3> QED BY <3>1, <3>2, <3>3, Bounds
  <2>2. o \in StepOps /\ o \in OpIds
    BY <2>1, Operations
  <2>3. k \in FrameShape /\ k.step = s /\ k.resp.int = Null
    BY <2>1, EmptyFrameIsFrame DEF FrameShape
  <2>4. Goto(t, "reset", k) /\ plan_lock' = t /\ LockHolds(t)
    BY <1>0, <1>2, LockSame DEF LockPlanAndGoto
  <2> HIDE DEF k
  <2>5. /\ op_state' \in [OpIds -> Words] /\ op_state'[o] # "requires_user_action"
        /\ op_int' \in [OpIds -> AnyInts] /\ op_at' \in [OpIds -> Nat]
        /\ \A x \in OpIds \ {o} : op_state'[x] = op_state[x] /\ op_at'[x] = op_at[x]
    <3>1. "failed" \in Words
      BY WordList DEF OpStates
    <3> HIDE DEF o
    <3> QED BY <1>0, <1>2, <2>1, <2>2, <3>1 DEF PlanInv, Rows, OtherRows
  <2>6. \A u \in Threads : pc[u] \in Executing => frame[u].op # o
    <3> HIDE DEF o
    <3> QED BY <1>0, <2>2, StepNumbers DEF PlanInv, ThreadFits, OpFits
  <2>7. "reset" \in Words /\ "reset" \notin Executing \cup Writing \cup Answering \cup {"finish", "invoke"}
    BY WordList DEF Labels, Executing, Writing, Answering
  <2>8. ThreadFits(t)'
    <3>1. pc'[t] = "reset" /\ frame'[t] = k /\ attempt' = attempt /\ runtime' = runtime
      BY <1>0, <2>4 DEF Goto, PlanInv, Rows, OtherRows, stepVars, worldVars
    <3>2. LockFits(t)'
      BY <2>1, <2>3, <2>4, <2>5, <3>1 DEF LockFits
    <3> QED BY <2>7, <3>1, <3>2 DEF ThreadFits, OpFits, RunFits, CardFits, Writing, Executing
  <2> HIDE DEF o, s
  <2>9. ASSUME NEW i, Known(i)' PROVE Known(i)
    BY <1>0, <2>4, <2>7, <2>9, KnownMoves DEF PlanInv, Known
  <2>10. ASSUME NEW i, Visible(i)' PROVE Visible(i)
    BY <1>0, <2>4, <2>7, <2>10, VisibleMoves DEF PlanInv, Known, Visible
  <2>11. op_state[o] # "requires_user_action" /\ plan_lock \in {Null, t}
    BY <1>0, <2>1
  <2> QED BY <1>0, <2>2, <2>3, <2>4, <2>5, <2>6, <2>7, <2>8, <2>9, <2>10, <2>11, OperationMoves
<1> QED BY <1>1, <1>2 DEF RecoverRunning

-----------------------------------------------------------------------------
(* The two halves of a controlled write.                                     *)

LEMMA ExecutingFacts ==
    ASSUME PlanInv, NEW t \in Threads, pc[t] \in Executing
    PROVE  /\ frame[t] \in FrameShape /\ frame[t].op \in OpIds
           /\ OpFits(t) /\ RunFits(t) /\ CardFits(t)
           /\ op_state[frame[t].op] = "running"
BY DEF PlanInv, ThreadFits, OpFits, RunFits, Rows, OtherRows

LEMMA HandlesFacts ==
    ASSUME PlanInv, NEW t \in Threads, NEW kind, Handles(t, kind)
    PROVE  /\ pc[t] = "handler" /\ pc[t] \in Executing
           /\ kind \in {"read", "transform", "write"} => frame[t].op \in StepOps
           /\ kind = "write" => frame[t].op[2] = Last
           /\ kind = "field" => frame[t].op \in ResumeOps /\ frame[t].op[2] \in Fields
           /\ kind = "auth" => frame[t].op \in ResumeOps /\ frame[t].op[2] \in Auths
<1>1. pc[t] = "handler" /\ pc[t] \in Executing
  BY DEF Handles, Executing
<1>2. frame[t].op \in OpIds
  BY <1>1, ExecutingFacts
<1>3. CASE frame[t].op \in StepOps
  <2>1. frame[t].op[1] = "step" /\ frame[t].op[2] \in Steps
    BY <1>3, Operations
  <2>2. Kinds[frame[t].op[2]] = kind
    BY <2>1 DEF Handles
  <2> QED BY <1>1, <1>3, <2>1, <2>2, StepNumbers
<1>4. CASE frame[t].op \in ResumeOps
  <2>1. frame[t].op[1] = "resume" /\ frame[t].op[2] \in Interactions
    BY <1>4, Operations
  <2>2. frame[t].op[2][1] = kind
    BY <2>1 DEF Handles
  <2> QED BY <1>1, <1>4, <2>1, <2>2, Cards
<1> QED BY <1>2, <1>3, <1>4 DEF OpIds

\* A handler ends with an outcome.
LEMMA OutcomeKeeps ==
    ASSUME PlanInv, NEW t \in Threads, pc[t] \in Executing, NEW st \in Words, NEW i \in AnyInts,
           Outcome(t, st, i),
           UNCHANGED <<planVars, stepVars, opVars, cardVars, shown, worldVars, lockVars>>,
           frame[t].op \in StepOps => i = Null,
           frame[t].op \in ResumeOps /\ i \in Fields => i \in shown,
           i \in Auths => Visible(i)
    PROVE  PlanInv'
<1> DEFINE k == [frame[t] EXCEPT !.resp = [st |-> st, int |-> i]]
<1>0. frame[t] \in FrameShape /\ OpFits(t) /\ RunFits(t)
  BY ExecutingFacts
<1>1. k \in FrameShape /\ k.resp.int = i /\ k.op = frame[t].op /\ k.step = frame[t].step
  BY <1>0 DEF FrameShape
<1>2. Goto(t, "finish", k)
  BY DEF Outcome
<1> HIDE DEF k
<1>3. /\ "finish" \in Words /\ "finish" \in Executing
      /\ "finish" \notin Answering \cup Writing \cup {"invoke", "boundary"}
  BY WordList DEF Labels, Executing, Answering, Writing
<1>4. ThreadFits(t)'
  <2>1. pc'[t] = "finish" /\ frame'[t] = k
    BY <1>1, <1>2 DEF Goto, PlanInv, Rows, OtherRows
  <2>2. UNCHANGED <<plan_lock, op_state, op_at, attempt, step_state, shown, runtime>>
    BY DEF lockVars, opVars, stepVars, worldVars
  <2>3. OpFits(t)'
    BY <1>0, <1>1, <1>3, <2>1, <2>2 DEF OpFits
  <2>4. RunFits(t)'
    BY <1>0, <1>1, <2>1, <2>2 DEF RunFits
  <2>5. CardFits(t)'
    BY <1>1, <1>3, <2>1, <2>2 DEF CardFits
  <2> QED BY <1>3, <2>1, <2>3, <2>4, <2>5 DEF ThreadFits, LockFits
<1>5. WorldHolds /\ LockHolds(t) /\ UNCHANGED <<opVars, writes, shown, cardVars, planVars, stepVars>>
  BY LockSame DEF WorldHolds, worldVars, lockVars
<1> QED BY <1>1, <1>2, <1>3, <1>4, <1>5, StepsSame, CardsSame, ShownSame, Quiet

LEMMA NoInteraction == Null \in AnyInts /\ Null \notin Fields /\ Null \notin Auths
BY Cards DEF Interactions

LEMMA SourceKeeps ==
    ASSUME PlanInv, NEW t \in Threads, ReadSource(t) \/ FailBeforeBoundary(t)
    PROVE  PlanInv'
<1>1. /\ \E st \in OpStates : Outcome(t, st, Null)
      /\ UNCHANGED <<planVars, stepVars, opVars, cardVars, shown, worldVars, lockVars>>
      /\ pc[t] \in Executing
  BY HandlesFacts DEF ReadSource, FailBeforeBoundary, OpStates, Executing
<1> QED BY <1>1, WordList, NoInteraction, OutcomeKeeps

\* A handler goes on to its next transaction.
LEMMA HandlerMoves ==
    ASSUME PlanInv, NEW t \in Threads, pc[t] = "handler", NEW label \in {"prepare", "boundary"},
           Goto(t, label, frame[t]), frame[t].op \in ResumeOps,
           frame[t].op[2] \in IF label = "prepare" THEN Fields ELSE Auths,
           UNCHANGED <<planVars, stepVars, opVars, cardVars, shown, worldVars, lockVars>>
    PROVE  PlanInv'
<1>0. pc[t] \in Executing
  BY DEF Executing
<1>1. frame[t] \in FrameShape /\ OpFits(t) /\ RunFits(t)
  BY <1>0, ExecutingFacts
<1>2. label \in Words /\ label \in Executing /\ label \notin Answering \cup Writing \cup {"finish"}
  BY WordList DEF Labels, Executing, Answering, Writing
<1>3. ThreadFits(t)'
  <2>1. pc'[t] = label /\ frame'[t] = frame[t]
    BY DEF Goto, PlanInv, Rows, OtherRows
  <2>2. UNCHANGED <<plan_lock, op_state, op_at, attempt, step_state, shown, runtime>>
    BY DEF lockVars, opVars, stepVars, worldVars
  <2>3. OpFits(t)'
    BY <1>0, <1>1, <1>2, <2>1, <2>2 DEF OpFits
  <2>4. RunFits(t)'
    BY <1>0, <1>1, <2>1, <2>2 DEF RunFits
  <2> QED BY <1>2, <2>1, <2>3, <2>4 DEF ThreadFits, LockFits, CardFits
<1>4. WorldHolds /\ LockHolds(t) /\ UNCHANGED <<opVars, writes, shown, cardVars, planVars, stepVars>>
  BY LockSame DEF WorldHolds, worldVars, lockVars
<1> QED BY <1>0, <1>1, <1>2, <1>3, <1>4, StepsSame, CardsSame, ShownSame, Quiet

\* The submission, or the authorization, as it was loaded.
LEMMA LoadKeeps ==
    ASSUME PlanInv, NEW t \in Threads, GetSubmission(t) \/ GetAuthorization(t)
    PROVE  PlanInv'
<1> DEFINE i == frame[t].op[2]
<1>1. /\ UNCHANGED <<planVars, stepVars, opVars, cardVars, shown, worldVars, lockVars>>
      /\ pc[t] = "handler" /\ pc[t] \in Executing /\ frame[t].op \in ResumeOps
      /\ \/ Outcome(t, "requires_user_action", i) \/ Outcome(t, "requires_user_action", Null)
         \/ Goto(t, "prepare", frame[t]) /\ i \in Fields
         \/ Goto(t, "boundary", frame[t]) /\ i \in Auths
  BY HandlesFacts DEF GetSubmission, GetAuthorization
<1>2. i \in Interactions /\ i \in shown /\ i \in AnyInts /\ frame[t].op \notin StepOps
  BY <1>1, ExecutingFacts, Operations, Cards DEF OpFits
<1>3. Visible(i)
  BY <1>2 DEF Visible, Known
<1>4. "requires_user_action" \in Words
  BY WordList DEF OpStates
<1>5. CASE Outcome(t, "requires_user_action", i)
  BY <1>1, <1>2, <1>3, <1>4, <1>5, OutcomeKeeps
<1>6. CASE Outcome(t, "requires_user_action", Null)
  BY <1>1, <1>2, <1>4, <1>6, NoInteraction, OutcomeKeeps
<1>7. CASE Goto(t, "prepare", frame[t]) /\ i \in Fields
  BY <1>1, <1>7, HandlerMoves
<1>8. CASE Goto(t, "boundary", frame[t]) /\ i \in Auths
  BY <1>1, <1>8, HandlerMoves
<1> QED BY <1>1, <1>5, <1>6, <1>7, <1>8

\* An executing thread changes cards or requests on its way.
LEMMA CardMoves ==
    ASSUME PlanInv, NEW t \in Threads, NEW label \in Executing, NEW k \in FrameShape,
           Goto(t, label, k), pc[t] \in Executing, k.op = frame[t].op,
           StepRows', StepsHold, UNCHANGED <<opVars, shown, writes, runtime, lockVars>>,
           card' \in [Interactions -> Words], consumer' \in [Interactions -> OpIds \cup {Null}],
           request' \in [Auths -> Words],
           \A i \in Interactions : /\ card[i] # "absent" => card'[i] # "absent"
                                   /\ i \in Auths /\ card[i] = "consumed" =>
                                        card'[i] = "consumed" /\ consumer'[i] = consumer[i],
           \A u \in Threads \ {t} : pc[u] = "send" => request'[frame[u].op[2]] = request[frame[u].op[2]],
           Counted', AuthsKnown', SentOK', Chain', ThreadFits(t)'
    PROVE  PlanInv'
<1> USE DEF PlanInv
<1>1. /\ \A u \in Threads : u # t => pc'[u] = pc[u] /\ frame'[u] = frame[u]
      /\ pc'[t] = label /\ frame'[t] = k
  BY DEF Goto, Rows, OtherRows
<1>2. label \in Words /\ label \notin Answering
  BY WordList DEF Executing, Answering, Labels
<1>3. Rows'
  BY <1>2 DEF Goto, Rows, OtherRows, opVars
<1>4. StepsOK'
  BY StepsStay
<1>5. ASSUME NEW u \in Threads PROVE ThreadFits(u)'
  <2>1. CASE u = t
    BY <2>1
  <2>2. CASE u # t
    <3>1. /\ runtime' = runtime /\ op_state' = op_state /\ op_at' = op_at /\ attempt' = attempt
          /\ plan_lock' = plan_lock /\ shown' = shown
      BY DEF opVars, StepsHold, lockVars
    <3>2. \A s \in Steps : step_state[s] # "queued" => step_state'[s] # "queued"
      BY DEF StepsHold
    <3> QED BY <1>1, <2>2, <3>1, <3>2, OthersFit
  <2> QED BY <2>1, <2>2
<1>6. OneRunner'
  BY RunnerStays
<1>7. FieldsAsked'
  <2>1. ASSUME NEW f \in Fields, Known(f)' PROVE Asked(f)'
    <3>1. Known(f)
      <4>1. shown' = shown /\ op_int' = op_int
        BY DEF opVars
      <4> QED BY <1>2, <2>1, <4>1, KnownMoves DEF Known
    <3>2. Asked(f)
      BY <2>1, <3>1 DEF FieldsAsked
    <3>3. attempt'[Last] = attempt[Last] /\ op_state' = op_state
          /\ (step_state[Last] # "queued" => step_state'[Last] # "queued")
      BY StepNumbers DEF StepsHold, opVars
    <3> QED BY <3>2, <3>3, AskedStays
  <2> QED BY <2>1 DEF FieldsAsked
<1> QED BY <1>3, <1>4, <1>5, <1>6, <1>7

\* The authorizations a thread makes visible on its way.
LEMMA VisibleOnTheWay ==
    ASSUME PlanInv, NEW t \in Threads, NEW label \in Executing, NEW k,
           Goto(t, label, k), UNCHANGED <<opVars, shown>>, NEW i, Visible(i)'
    PROVE  Visible(i) \/ (label = "finish" /\ k.resp.int = i)
<1>1. shown' = shown /\ op_int' = op_int
  BY DEF opVars
<1>2. label \notin Answering
  BY DEF Executing, Answering
<1> QED BY <1>1, <1>2, VisibleMoves DEF PlanInv, Known, Visible

\* A new authorization takes the next number.
LEMMA NumberingCounts ==
    ASSUME NEW m \in 0 .. MaxAuths, Numbered(m)
    PROVE  NextAuth = <<"auth", m + 1>>
<1> DEFINE S == {a \in Auths : card[a] # "absent"}
           g == [n \in 1 .. m |-> <<"auth", n>>]
<1>1. m \in Nat /\ \A n \in 1 .. m : n \in 1 .. MaxAuths
  BY Bounds
<1>2. \A n \in 1 .. m : g[n] \in Auths /\ g[n] \in S
  <2>1. ASSUME NEW n \in 1 .. m PROVE g[n] \in Auths /\ g[n] \in S
    <3>1. g[n] = <<"auth", n>> /\ g[n] \in Auths /\ g[n][2] = n
      BY <1>1, Cards
    <3> QED BY <3>1 DEF Numbered
  <2> QED BY <2>1
<1>3. \A a \in S : a[2] \in 1 .. m /\ a = g[a[2]]
  BY <1>1, Cards DEF Numbered
<1>4. g \in Bijection(1 .. m, S)
  <2>1. g \in [1 .. m -> S]
    BY <1>2
  <2>2. \A x, y \in 1 .. m : g[x] = g[y] => x = y
    OBVIOUS
  <2>3. \A a \in S : \E n \in 1 .. m : g[n] = a
    BY <1>3
  <2> HIDE DEF g, S
  <2> QED BY <2>1, <2>2, <2>3 DEF Bijection, Injection, Surjection, IsInjective
<1>5. ExistsBijection(1 .. m, S)
  BY <1>4 DEF ExistsBijection
<1>6. Cardinality(S) = m
  BY <1>1, <1>5, FS_CountingElements
<1> QED BY <1>1, <1>6 DEF NextAuth

LEMMA NewAuthorization ==
    ASSUME PlanInv, card' = WithNewAuth
    PROVE  /\ card' \in [Interactions -> Words]
           /\ NextAuth \in {"auth"} \X Nat /\ NextAuth \in AnyInts /\ NextAuth \notin Fields
           /\ \A i \in Interactions : /\ card[i] # "absent" => card'[i] # "absent"
                                      /\ card'[i] = "consumed" <=> card[i] = "consumed"
           /\ NextAuth \in Auths => card'[NextAuth] = "pending"
           /\ \A a \in Auths : card[a] # "absent" => a[2] < NextAuth[2]
           /\ Counted'
<1>0. card \in [Interactions -> Words] /\ "pending" \in Words /\ "superseded" \in Words
  BY WordList DEF PlanInv, Rows, OtherRows, OtherWords
<1>1. PICK m \in 0 .. MaxAuths : Numbered(m)
  BY DEF PlanInv, Counted
<1>2. NextAuth = <<"auth", m + 1>> /\ m \in Nat /\ MaxAuths \in Nat
  BY <1>1, NumberingCounts, Bounds
<1>3. /\ NextAuth[1] = "auth" /\ NextAuth[2] = m + 1 /\ NextAuth \in {"auth"} \X Nat
      /\ NextAuth \in AnyInts /\ NextAuth \notin Fields
      /\ NextAuth \in Auths <=> m + 1 \in 1 .. MaxAuths
  BY <1>2, Cards
<1>4. NextAuth \in Auths => card[NextAuth] = "absent" /\ NextAuth \in Interactions
  BY <1>1, <1>2, <1>3, Cards DEF Numbered
<1>5. NextAuth \notin Auths => NextAuth \notin Interactions
  BY <1>3 DEF Interactions
<1>6. \A i \in Interactions :
         card'[i] = IF i = NextAuth THEN "pending"
                    ELSE IF i \in Auths /\ card[i] \in LiveCards THEN "superseded" ELSE card[i]
  BY <1>4, <1>5 DEF WithNewAuth, Superseding
<1>7. card' \in [Interactions -> Words]
  <2>1. Superseding(Auths) \in [Interactions -> Words]
    BY <1>0 DEF Superseding
  <2> QED BY <1>0, <2>1 DEF WithNewAuth
<1>8. \A i \in Interactions : /\ card[i] # "absent" => card'[i] # "absent"
                              /\ card'[i] = "consumed" <=> card[i] = "consumed"
                              /\ i # NextAuth => (card'[i] = "absent" <=> card[i] = "absent")
  BY <1>4, <1>5, <1>6 DEF LiveCards
<1>9. \A a \in Auths : card[a] # "absent" => a[2] < NextAuth[2]
  BY <1>1, <1>2, <1>3, Cards DEF Numbered
<1>10. NextAuth \in Auths => card'[NextAuth] = "pending"
  BY <1>4, <1>6
<1>11. Counted'
  <2>1. CASE NextAuth \in Auths
    <3>1. m + 1 \in 0 .. MaxAuths
      BY <1>2, <1>3, <2>1
    <3>2. \A a \in Auths : card'[a] # "absent" <=> a[2] <= m + 1
      <4>1. ASSUME NEW a \in Auths PROVE card'[a] # "absent" <=> a[2] <= m + 1
        <5>1. a \in Interactions /\ a[2] \in Nat /\ (a[2] = m + 1 => a = NextAuth)
          BY <1>2, Cards
        <5>2. card[a] # "absent" <=> a[2] <= m
          BY <1>1 DEF Numbered
        <5> QED BY <1>2, <1>3, <1>8, <1>10, <2>1, <5>1, <5>2
      <4> QED BY <4>1
    <3> QED BY <3>1, <3>2 DEF Counted, Numbered
  <2>2. CASE NextAuth \notin Auths
    <3>1. \A a \in Auths : card'[a] = "absent" <=> card[a] = "absent"
      BY <1>8, <2>2, Cards
    <3> QED BY <1>1, <3>1 DEF Counted, Numbered
  <2> QED BY <2>1, <2>2
<1> QED BY <1>3, <1>7, <1>8, <1>9, <1>10, <1>11

-----------------------------------------------------------------------------
(* Cards and requests on the way of a write.                                 *)

\* What an executing thread keeps of its operation, whatever its label becomes.
LEMMA OperationStays ==
    ASSUME PlanInv, NEW t \in Threads, NEW label, NEW k, Goto(t, label, k),
           pc[t] \in Executing, k.op = frame[t].op, k.step = frame[t].step,
           UNCHANGED <<opVars, shown, runtime, lockVars>>, StepsHold
    PROVE  /\ pc'[t] = label /\ frame'[t] = k
           /\ OpFits(t)' /\ RunFits(t)'
<1>1. pc'[t] = label /\ frame'[t] = k
  BY DEF Goto, PlanInv, Rows, OtherRows
<1>2. OpFits(t) /\ RunFits(t) /\ frame[t].op \in OpIds
  BY ExecutingFacts
<1>3. /\ op_state' = op_state /\ op_at' = op_at /\ plan_lock' = plan_lock /\ attempt' = attempt
      /\ \A s \in Steps : step_state[s] # "queued" => step_state'[s] # "queued"
  BY DEF opVars, lockVars, StepsHold
<1>4. RunFits(t)'
  BY <1>1, <1>2, <1>3 DEF RunFits
<1>5. OpFits(t)'
  <2>1. frame[t].op \in StepOps => frame[t].op[2] \in Steps
    BY Operations
  <2> QED BY <1>1, <1>2, <1>3, <2>1 DEF OpFits
<1> QED BY <1>1, <1>4, <1>5

\* A shown field card of the plan was asked for by the write's only asking attempt.
LEMMA OneAskedField ==
    ASSUME PlanInv, NEW f \in Fields, NEW g \in Fields, f \in shown, g \in shown
    PROVE  f = g
<1>1. Asked(f) /\ Asked(g)
  BY DEF PlanInv, FieldsAsked, Known
<1> QED BY <1>1, Cards DEF Asked

LEMMA RequireFieldKeeps ==
    ASSUME PlanInv, NEW t \in Threads, RequireFieldInput(t)
    PROVE  PlanInv'
<1> DEFINE f == <<"field", frame[t].op[3]>>
           st == "requires_user_action"
           k == [frame[t] EXCEPT !.resp = [st |-> st, int |-> f]]
<1>0. /\ pc[t] \in Executing /\ frame[t].op \in StepOps /\ frame[t].op[2] = Last
      /\ frame[t] \in FrameShape /\ OpFits(t) /\ op_state[frame[t].op] = "running"
      /\ pc[t] = "handler"
  BY ExecutingFacts, HandlesFacts DEF RequireFieldInput
<1>1. f \in Fields /\ f \in AnyInts /\ f \notin Auths /\ f[2] = frame[t].op[3]
  BY <1>0, Operations, Cards
<1>2. f \notin shown
  <2>1. frame[t].op = <<"step", Last, f[2]>>
    BY <1>0, <1>1, Operations
  <2> HIDE DEF f
  <2>2. ~Asked(f)
    BY <1>0, <2>1 DEF Asked
  <2> QED BY <1>1, <2>2 DEF PlanInv, FieldsAsked, Known
<1>3. /\ UNCHANGED <<planVars, stepVars, opVars, consumer, shown, worldVars, lockVars>>
      /\ card' = WithNewField(f) /\ Goto(t, "finish", k)
  BY DEF RequireFieldInput, Outcome
<1>4. k \in FrameShape /\ k.resp.int = f /\ k.resp.st = st /\ k.op = frame[t].op
      /\ k.step = frame[t].step
  <2>1. st \in Words
    BY WordList DEF OpStates
  <2> HIDE DEF f, st
  <2> QED BY <1>0, <1>1, <2>1 DEF FrameShape
<1> HIDE DEF k
<1>5. /\ card' \in [Interactions -> Words]
      /\ \A i \in Interactions :
            card'[i] = IF i = f THEN "pending"
                       ELSE IF i \in Fields /\ card[i] \in LiveCards THEN "superseded" ELSE card[i]
  <2>1. card \in [Interactions -> Words] /\ "pending" \in Words /\ "superseded" \in Words
    BY WordList DEF PlanInv, Rows, OtherRows, OtherWords
  <2> HIDE DEF f
  <2> QED BY <1>1, <1>3, <2>1, Cards DEF WithNewField, Superseding
<1> HIDE DEF f, st
<1>6. /\ \A i \in Interactions : card[i] # "absent" => card'[i] # "absent"
      /\ \A a \in Auths : card'[a] = card[a]
      /\ FieldsUsed => FieldsUsed'
  <2>1. \A i \in Interactions : card[i] # "absent" => card'[i] # "absent"
    BY <1>5
  <2>2. \A a \in Auths : card'[a] = card[a]
    BY <1>1, <1>5, Cards
  <2>3. FieldsUsed => FieldsUsed'
    BY <1>2, <1>3, <1>5, Cards DEF FieldsUsed, LiveCards
  <2> QED BY <2>1, <2>2, <2>3
<1>7. StepRows' /\ StepsHold
  BY <1>3, StepsSame
<1>8. UNCHANGED <<writes, runtime, request, authority>>
  BY <1>3 DEF worldVars
<1>9. "finish" \in Executing /\ "finish" \notin Writing \cup Answering
  BY DEF Executing, Writing, Answering
<1>10. /\ pc'[t] = "finish" /\ frame'[t] = k /\ OpFits(t)' /\ RunFits(t)'
  BY <1>0, <1>3, <1>4, <1>7, <1>8, OperationStays
<1>11. ThreadFits(t)'
  <2>1. CardFits(t)'
    BY <1>0, <1>1, <1>4, <1>9, <1>10, Operations DEF CardFits, f, st
  <2> QED BY <1>9, <1>10, <2>1 DEF ThreadFits, LockFits
<1>12. ASSUME NEW a \in Auths, Visible(a)' PROVE Visible(a)
  BY <1>1, <1>3, <1>4, <1>9, <1>12, VisibleOnTheWay
<1>13. Counted' /\ SentOK'
  BY <1>3, <1>6, <1>8 DEF PlanInv, Counted, Numbered, SentOK
<1>14. AuthsKnown'
  BY <1>6, <1>12 DEF PlanInv, AuthsKnown
<1>15. Chain'
  BY <1>3, <1>8, <1>9, <1>12, ChainStays DEF PlanInv
<1>16. consumer' = consumer /\ consumer \in [Interactions -> OpIds \cup {Null}]
       /\ request' \in [Auths -> Words]
  BY <1>3, <1>8 DEF PlanInv, Rows, OtherRows
<1>17. \A i \in Interactions : /\ card[i] # "absent" => card'[i] # "absent"
                               /\ i \in Auths /\ card[i] = "consumed" =>
                                    card'[i] = "consumed" /\ consumer'[i] = consumer[i]
  BY <1>6, <1>16
<1> QED BY <1>0, <1>3, <1>4, <1>5, <1>7, <1>8, <1>9, <1>11, <1>13, <1>14, <1>15, <1>16, <1>17, CardMoves

LEMMA CreateKeeps ==
    ASSUME PlanInv, NEW t \in Threads, CreateAuthorization(t)
    PROVE  PlanInv'
<1> DEFINE k == [frame[t] EXCEPT !.resp.int = NextAuth]
<1>0. /\ pc[t] = "prepare" /\ pc[t] \in Executing /\ card' = WithNewAuth
      /\ Goto(t, "consume_field", k)
      /\ UNCHANGED <<planVars, stepVars, opVars, consumer, shown, worldVars, lockVars>>
  BY DEF CreateAuthorization, Executing
<1>1. /\ frame[t] \in FrameShape /\ CardFits(t)
      /\ frame[t].op \in ResumeOps /\ frame[t].op[2] \in Fields
  BY <1>0, ExecutingFacts DEF CardFits
<1>2. /\ card' \in [Interactions -> Words]
      /\ NextAuth \in {"auth"} \X Nat /\ NextAuth \in AnyInts
      /\ \A i \in Interactions : /\ card[i] # "absent" => card'[i] # "absent"
                                 /\ card'[i] = "consumed" <=> card[i] = "consumed"
      /\ NextAuth \in Auths => card'[NextAuth] = "pending"
      /\ Counted'
  BY <1>0, NewAuthorization
<1>3. k \in FrameShape /\ k.resp.int = NextAuth /\ k.op = frame[t].op /\ k.step = frame[t].step
  BY <1>1, <1>2 DEF FrameShape
<1> HIDE DEF k
<1>4. StepRows' /\ StepsHold
  BY <1>0, StepsSame
<1>5. UNCHANGED <<writes, runtime, request, authority>>
  BY <1>0 DEF worldVars
<1>6. "consume_field" \in Executing /\ "consume_field" \notin Writing \cup Answering \cup {"finish"}
  BY DEF Executing, Writing, Answering
<1>7. /\ pc'[t] = "consume_field" /\ frame'[t] = k /\ OpFits(t)' /\ RunFits(t)'
  BY <1>0, <1>3, <1>4, <1>5, OperationStays
<1>8. ThreadFits(t)'
  <2>1. CardFits(t)'
    BY <1>1, <1>2, <1>3, <1>6, <1>7 DEF CardFits
  <2> QED BY <1>6, <1>7, <2>1 DEF ThreadFits, LockFits
<1>9. ASSUME NEW a \in Auths, Visible(a)' PROVE Visible(a)
  BY <1>0, <1>6, <1>9, VisibleOnTheWay
<1>10. SentOK'
  BY <1>0, <1>2, <1>5, Cards DEF PlanInv, SentOK
<1>11. AuthsKnown'
  <2>1. FieldsUsed => FieldsUsed'
    BY <1>0, <1>2, Cards DEF FieldsUsed
  <2> QED BY <1>2, <1>9, <2>1, Cards DEF PlanInv, AuthsKnown
<1>12. Chain'
  BY <1>0, <1>5, <1>6, <1>9, ChainStays DEF PlanInv
<1>13. consumer' = consumer /\ consumer \in [Interactions -> OpIds \cup {Null}]
       /\ request' \in [Auths -> Words]
  BY <1>0, <1>5 DEF PlanInv, Rows, OtherRows
<1> QED BY <1>0, <1>2, <1>3, <1>4, <1>5, <1>6, <1>8, <1>10, <1>11, <1>12, <1>13, CardMoves

LEMMA ConsumeKeeps ==
    ASSUME PlanInv, NEW t \in Threads, ConsumeSubmission(t)
    PROVE  PlanInv'
<1> DEFINE f == frame[t].op[2]
           b == frame[t].resp.int
           st == "requires_user_action"
           k == [frame[t] EXCEPT !.resp = [st |-> st, int |-> b]]
<1>0. /\ pc[t] = "consume_field" /\ pc[t] \in Executing
      /\ UNCHANGED <<planVars, stepVars, opVars, shown, worldVars, lockVars>>
  BY DEF ConsumeSubmission, Executing
<1>1. /\ frame[t] \in FrameShape /\ frame[t].op \in ResumeOps /\ frame[t].op \in OpIds
      /\ f \in Fields /\ f \in shown /\ f \in Interactions
      /\ b \in {"auth"} \X Nat /\ (b \in Auths => card[b] # "absent")
  BY <1>0, ExecutingFacts, Operations, Cards DEF CardFits, OpFits
<1>2. CASE Outcome(t, "failed", Null) /\ UNCHANGED cardVars
  BY <1>0, <1>2, NoInteraction, WordList, OutcomeKeeps DEF OpStates
<1>3. CASE /\ card[f] = "submitted"
           /\ card' = [card EXCEPT ![f] = "consumed"]
           /\ consumer' = [consumer EXCEPT ![f] = frame[t].op]
           /\ Outcome(t, st, b)
  <2>1. Goto(t, "finish", k)
    BY <1>3 DEF Outcome
  <2>2. k \in FrameShape /\ k.resp.int = b /\ k.op = frame[t].op /\ k.step = frame[t].step
    <3>1. st \in Words /\ b \in AnyInts
      BY <1>1, Cards, WordList DEF OpStates
    <3> HIDE DEF b, st
    <3> QED BY <1>1, <3>1 DEF FrameShape
  <2> HIDE DEF k
  <2>3. /\ card' \in [Interactions -> Words]
        /\ consumer' \in [Interactions -> OpIds \cup {Null}]
        /\ card'[f] = "consumed"
        /\ \A i \in Interactions : i # f => card'[i] = card[i] /\ consumer'[i] = consumer[i]
    <3>1. "consumed" \in Words
      BY WordList DEF OtherWords
    <3> QED BY <1>1, <1>3, <3>1 DEF PlanInv, Rows, OtherRows
  <2>4. StepRows' /\ StepsHold
    BY <1>0, StepsSame
  <2>5. UNCHANGED <<writes, runtime, request, authority>> /\ shown' = shown
    BY <1>0 DEF worldVars
  <2>6. "finish" \in Executing /\ "finish" \notin Writing \cup Answering
    BY DEF Executing, Writing, Answering
  <2>7. /\ pc'[t] = "finish" /\ frame'[t] = k /\ OpFits(t)' /\ RunFits(t)'
    BY <1>0, <2>1, <2>2, <2>4, <2>5, OperationStays
  <2>8. b \notin Fields
    BY <1>1, Cards
  <2>9. ThreadFits(t)'
    <3>1. CardFits(t)'
      BY <1>1, <2>2, <2>6, <2>7, <2>8, Operations DEF CardFits
    <3> QED BY <2>6, <2>7, <3>1 DEF ThreadFits, LockFits
  <2>10. ASSUME NEW a \in Auths PROVE ~Visible(a)
    <3>1. ASSUME Visible(a) PROVE FALSE
      <4>1. PICK g \in Fields : g \in shown /\ card[g] = "consumed"
        BY <3>1 DEF PlanInv, AuthsKnown, FieldsUsed
      <4>2. g = f
        BY <1>1, <4>1, OneAskedField
      <4> QED BY <1>3, <4>1, <4>2
    <3> QED BY <3>1
  <2>11. ASSUME NEW a \in Auths, Visible(a)' PROVE a = b
    BY <1>0, <2>1, <2>2, <2>6, <2>10, <2>11, VisibleOnTheWay
  <2>12. f \notin Auths
    BY <1>1, Cards
  <2> HIDE DEF f, b
  <2>13. Counted' /\ SentOK'
    BY <2>3, <2>5, <2>12, Cards DEF PlanInv, Counted, Numbered, SentOK
  <2>14. AuthsKnown'
    <3>1. FieldsUsed'
      BY <1>1, <2>3, <2>5 DEF FieldsUsed
    <3> QED BY <1>1, <2>3, <2>11, <2>12, <3>1, Cards DEF AuthsKnown
  <2>15. Chain'
    BY <2>11, Cards DEF Chain
  <2>16. request' \in [Auths -> Words]
    BY <2>5 DEF PlanInv, Rows, OtherRows
  <2>17. \A i \in Interactions : /\ card[i] # "absent" => card'[i] # "absent"
                                 /\ i \in Auths /\ card[i] = "consumed" =>
                                      card'[i] = "consumed" /\ consumer'[i] = consumer[i]
    BY <2>3, <2>12
  <2> QED BY <1>0, <2>1, <2>2, <2>3, <2>4, <2>5, <2>6, <2>9, <2>13, <2>14, <2>15, <2>16, <2>17, CardMoves
<1> QED BY <1>2, <1>3 DEF ConsumeSubmission

\* The plan's rows when its commit begins.
LEMMA MarkingHolds ==
    ASSUME PlanInv, NEW a, NEW o \in OpIds, MarkCommit(a, o),
           Bound(a) => plan_state \in ActivePlanStates
    PROVE  StepRows' /\ StepsHold
<1>1. CASE ~Bound(a)
  BY <1>1, StepsSame DEF MarkCommit
<1>2. CASE Bound(a)
  <2>1. /\ plan_state' = "running" /\ commit_op' = o
        /\ step_state' = [step_state EXCEPT ![current_step] = "running"]
        /\ step_at' = [step_at EXCEPT ![current_step] = runtime]
        /\ UNCHANGED <<current_step, step_int, attempt>>
    BY <1>2 DEF MarkCommit
  <2>2. StepRows /\ "running" \in Words /\ runtime \in Nat
    BY WordList, Bounds DEF PlanInv, Rows, OtherRows, OpStates
  <2>3. current_step # Null => attempt[current_step] >= 1
    BY <1>2 DEF PlanInv, StepsOK, ActivePlanStates
  <2>4. Null \notin Steps
    BY StepNumbers
  <2>5. StepRows'
    BY <2>1, <2>2 DEF StepRows
  <2>6. \A s \in Steps : step_state[s] \in {"running", "waiting_user"} => attempt[s] >= 1
    BY DEF PlanInv, StepsOK
  <2> QED BY <2>1, <2>2, <2>3, <2>4, <2>5, <2>6 DEF StepsHold, StepRows
<1> QED BY <1>1, <1>2

LEMMA BoundaryKeeps ==
    ASSUME PlanInv, NEW t \in Threads, EnterCommitBoundary(t)
    PROVE  PlanInv'
<1> DEFINE a == frame[t].op[2]
<1>0. /\ pc[t] = "boundary" /\ pc[t] \in Executing
      /\ UNCHANGED <<opVars, shown, worldVars, lockVars>>
  BY DEF EnterCommitBoundary, Executing
<1>1. /\ frame[t] \in FrameShape /\ frame[t].op \in ResumeOps /\ frame[t].op \in OpIds
      /\ a \in Auths /\ a \in shown /\ a \in Interactions
  BY <1>0, ExecutingFacts, Cards DEF CardFits, OpFits
<1>2. CASE Outcome(t, "failed", Null) /\ UNCHANGED <<planVars, stepVars, cardVars>>
  BY <1>0, <1>2, NoInteraction, WordList, OutcomeKeeps DEF OpStates
<1>3. CASE /\ card[a] = "approved" /\ GuardAllows(a)
           /\ card' = Consumed(a)
           /\ consumer' = [consumer EXCEPT ![a] = frame[t].op]
           /\ MarkCommit(a, frame[t].op)
           /\ Goto(t, "send", frame[t])
  <2>1. /\ card' \in [Interactions -> Words]
        /\ consumer' \in [Interactions -> OpIds \cup {Null}]
        /\ card'[a] = "consumed" /\ consumer'[a] = frame[t].op
        /\ \A i \in Interactions : i # a => card'[i] = card[i] /\ consumer'[i] = consumer[i]
    <3>1. "consumed" \in Words
      BY WordList DEF OtherWords
    <3> QED BY <1>1, <1>3, <3>1 DEF PlanInv, Rows, OtherRows, Consumed
  <2>2. StepRows' /\ StepsHold
    BY <1>1, <1>3, MarkingHolds DEF GuardAllows
  <2>3. UNCHANGED <<writes, runtime, request, authority>> /\ shown' = shown
    BY <1>0 DEF worldVars
  <2>4. "send" \in Executing /\ "send" \notin Answering /\ "send" # "finish" /\ "send" # "consume_field"
    BY DEF Executing, Answering
  <2>5. /\ pc'[t] = "send" /\ frame'[t] = frame[t] /\ OpFits(t)' /\ RunFits(t)'
    BY <1>0, <1>3, <2>2, <2>3, OperationStays
  <2>6. request[a] = "none"
    BY <1>1, <1>3 DEF PlanInv, SentOK
  <2>7. ThreadFits(t)'
    <3>1. CardFits(t)'
      BY <1>1, <2>1, <2>3, <2>4, <2>5, <2>6 DEF CardFits
    <3> QED BY <2>4, <2>5, <3>1 DEF ThreadFits, LockFits
  <2>8. ASSUME NEW x \in Auths, Visible(x)' PROVE Visible(x)
    BY <1>0, <1>3, <2>4, <2>8, VisibleOnTheWay
  <2>9. \A i \in Interactions : /\ card[i] # "absent" => card'[i] # "absent"
                                /\ card'[i] = "absent" <=> card[i] = "absent"
                                /\ card[i] = "consumed" => card'[i] = "consumed"
                                /\ i \in Auths /\ card[i] = "consumed" =>
                                     card'[i] = "consumed" /\ consumer'[i] = consumer[i]
    BY <1>3, <2>1
  <2> HIDE DEF a
  <2>10. Counted' /\ SentOK'
    BY <2>3, <2>9, Cards DEF PlanInv, Counted, Numbered, SentOK
  <2>11. AuthsKnown'
    <3>1. FieldsUsed => FieldsUsed'
      BY <2>3, <2>9, Cards DEF FieldsUsed
    <3> QED BY <2>8, <2>9, Cards, <3>1 DEF PlanInv, AuthsKnown
  <2>12. Chain'
    <3>1. ASSUME NEW x \in Auths, NEW y \in Auths, Visible(x), Visible(y), x[2] < y[2]
          PROVE  frame[t].op[2] # x
      BY <2>6, <3>1 DEF PlanInv, Chain, Ended, a
    <3> QED BY <1>3, <2>3, <2>8, <3>1, ChainStays DEF PlanInv
  <2>13. request' \in [Auths -> Words]
    BY <2>3 DEF PlanInv, Rows, OtherRows
  <2> QED BY <1>0, <1>1, <1>3, <2>1, <2>2, <2>3, <2>4, <2>7, <2>9, <2>10, <2>11, <2>12, <2>13, CardMoves
<1> QED BY <1>2, <1>3 DEF EnterCommitBoundary

\* A consumed authorization is worked for by the thread that consumed it.
LEMMA OneWriter ==
    ASSUME PlanInv, NEW t \in Threads, NEW u \in Threads, pc[t] \in Writing, pc[u] \in Writing,
           frame[t].op[2] = frame[u].op[2]
    PROVE  t = u
<1>1. pc[t] \in Executing /\ pc[u] \in Executing
  BY DEF Writing, Executing
<1>2. frame[t].op = frame[u].op
  <2>1. CardFits(t) /\ CardFits(u)
    BY <1>1, ExecutingFacts
  <2> QED BY <2>1 DEF CardFits
<1> QED BY <1>1, <1>2 DEF PlanInv, OneRunner

LEMMA SendKeeps ==
    ASSUME PlanInv, NEW t \in Threads, SendWrite(t)
    PROVE  PlanInv'
<1> DEFINE a == frame[t].op[2]
<1>0. /\ pc[t] = "send" /\ pc[t] \in Executing /\ pc[t] \in Writing
      /\ Goto(t, "outcome", frame[t]) /\ request' = [request EXCEPT ![a] = "sent"]
      /\ UNCHANGED <<planVars, stepVars, opVars, cardVars, shown, writes, authority, runtime, lockVars>>
  BY DEF SendWrite, Executing, Writing
<1>1. /\ frame[t] \in FrameShape /\ frame[t].op \in ResumeOps /\ frame[t].op \in OpIds
      /\ a \in Auths /\ a \in shown /\ a \in Interactions
      /\ card[a] = "consumed" /\ consumer[a] = frame[t].op /\ request[a] = "none"
  BY <1>0, ExecutingFacts, Cards DEF CardFits, OpFits
<1>2. /\ request' \in [Auths -> Words] /\ request'[a] = "sent"
      /\ \A x \in Auths : x # a => request'[x] = request[x]
  <2>1. "sent" \in Words
    BY WordList DEF OtherWords
  <2> QED BY <1>0, <1>1, <2>1 DEF PlanInv, Rows, OtherRows
<1>3. card' = card /\ consumer' = consumer /\ shown' = shown
  BY <1>0 DEF cardVars
<1>4. StepRows' /\ StepsHold
  BY <1>0, StepsSame
<1>5. "outcome" \in Executing /\ "outcome" \in Writing
      /\ "outcome" \notin Answering \cup {"finish", "send", "consume_field"}
  BY DEF Executing, Answering, Writing
<1>6. /\ pc'[t] = "outcome" /\ frame'[t] = frame[t] /\ OpFits(t)' /\ RunFits(t)'
  BY <1>0, <1>4, OperationStays
<1>7. ThreadFits(t)'
  <2>1. CardFits(t)'
    BY <1>1, <1>3, <1>5, <1>6 DEF CardFits
  <2> QED BY <1>5, <1>6, <2>1 DEF ThreadFits, LockFits
<1>8. ASSUME NEW x \in Auths, Visible(x)' PROVE Visible(x)
  BY <1>0, <1>5, <1>8, VisibleOnTheWay
<1>9. ASSUME NEW u \in Threads \ {t}, pc[u] = "send"
      PROVE  request'[frame[u].op[2]] = request[frame[u].op[2]]
  <2>1. pc[u] \in Writing /\ pc[u] \in Executing
    BY <1>9 DEF Writing, Executing
  <2>2. frame[u].op[2] # a
    BY <1>0, <2>1, OneWriter
  <2>3. frame[u].op[2] \in Auths
    BY <2>1, ExecutingFacts DEF CardFits
  <2> QED BY <1>2, <2>2, <2>3
<1> HIDE DEF a
<1>10. Counted' /\ AuthsKnown'
  BY <1>3, <1>8 DEF PlanInv, Counted, Numbered, AuthsKnown, FieldsUsed
<1>11. SentOK'
  BY <1>0, <1>1, <1>2, <1>3 DEF PlanInv, SentOK
<1>12. Chain'
  <2>1. ASSUME NEW x \in Auths, NEW y \in Auths, Visible(x), Visible(y), x[2] < y[2]
        PROVE  frame[t].op[2] # x
    BY <1>1, <2>1 DEF PlanInv, Chain, Ended, a
  <2>2. \A x \in Auths : request[x] = "warned" => request'[x] = "warned"
    BY <1>1, <1>2
  <2> QED BY <1>0, <1>8, <2>1, <2>2, ChainStays DEF PlanInv
<1>13. card \in [Interactions -> Words] /\ consumer \in [Interactions -> OpIds \cup {Null}]
  BY DEF PlanInv, Rows, OtherRows
<1> QED BY <1>0, <1>1, <1>2, <1>3, <1>4, <1>5, <1>7, <1>9, <1>10, <1>11, <1>12, <1>13, CardMoves

LEMMA OutcomeOfCommitKeeps ==
    ASSUME PlanInv, NEW t \in Threads, CommitOutcome(t)
    PROVE  PlanInv'
<1> DEFINE a == frame[t].op[2]
           st == "requires_user_action"
           k == [frame[t] EXCEPT !.resp = [st |-> st, int |-> NextAuth]]
<1>0. /\ pc[t] = "outcome" /\ pc[t] \in Executing /\ pc[t] \in Writing
      /\ UNCHANGED <<planVars, stepVars, opVars, consumer, shown, worldVars, lockVars>>
  BY DEF CommitOutcome, Executing, Writing
<1>1. /\ frame[t] \in FrameShape /\ frame[t].op \in ResumeOps /\ frame[t].op \in OpIds
      /\ a \in Auths /\ a \in shown /\ card[a] = "consumed" /\ consumer[a] = frame[t].op
  BY <1>0, ExecutingFacts DEF CardFits, OpFits
<1>2. CASE /\ \E x \in OpStates : Outcome(t, x, Null)
           /\ UNCHANGED card
  BY <1>0, <1>2, NoInteraction, WordList, OutcomeKeeps DEF cardVars
<1>3. CASE /\ request[a] = "warned"
           /\ card' = WithNewAuth
           /\ Outcome(t, st, NextAuth)
  <2>1. Goto(t, "finish", k)
    BY <1>3 DEF Outcome
  <2>2. /\ card' \in [Interactions -> Words]
        /\ NextAuth \in {"auth"} \X Nat /\ NextAuth \in AnyInts /\ NextAuth \notin Fields
        /\ \A i \in Interactions : /\ card[i] # "absent" => card'[i] # "absent"
                                   /\ card'[i] = "consumed" <=> card[i] = "consumed"
        /\ NextAuth \in Auths => card'[NextAuth] = "pending"
        /\ \A x \in Auths : card[x] # "absent" => x[2] < NextAuth[2]
        /\ Counted'
    BY <1>3, NewAuthorization
  <2>3. k \in FrameShape /\ k.resp.int = NextAuth /\ k.op = frame[t].op /\ k.step = frame[t].step
    <3>1. st \in Words
      BY WordList DEF OpStates
    <3> HIDE DEF st
    <3> QED BY <1>1, <2>2, <3>1 DEF FrameShape
  <2> HIDE DEF k
  <2>4. StepRows' /\ StepsHold
    BY <1>0, StepsSame
  <2>5. UNCHANGED <<writes, runtime, request, authority>> /\ shown' = shown
    BY <1>0 DEF worldVars
  <2>6. "finish" \in Executing /\ "finish" \notin Writing \cup Answering
    BY DEF Executing, Writing, Answering
  <2>7. /\ pc'[t] = "finish" /\ frame'[t] = k /\ OpFits(t)' /\ RunFits(t)'
    BY <1>0, <2>1, <2>3, <2>4, <2>5, OperationStays
  <2>8. ThreadFits(t)'
    <3>1. CardFits(t)'
      BY <1>1, <2>2, <2>3, <2>6, <2>7, Operations DEF CardFits
    <3> QED BY <2>6, <2>7, <3>1 DEF ThreadFits, LockFits
  <2>9. ASSUME NEW x \in Auths, Visible(x)' PROVE Visible(x) \/ x = NextAuth
    BY <1>0, <2>1, <2>3, <2>6, <2>9, VisibleOnTheWay
  <2>10. Visible(a) /\ FieldsUsed
    BY <1>1 DEF Visible, Known, PlanInv, AuthsKnown
  <2>11. SentOK'
    BY <2>2, <2>5, Cards DEF PlanInv, SentOK
  <2>12. AuthsKnown'
    <3>1. FieldsUsed'
      BY <2>2, <2>5, <2>10, Cards DEF FieldsUsed
    <3> QED BY <2>2, <2>9, <3>1, Cards DEF PlanInv, AuthsKnown
  <2>13. Chain'
    <3>1. ASSUME NEW x \in Auths, Visible(x) PROVE x = a \/ Ended(x)
      <4>1. ~Ended(a)
        BY <1>0 DEF Ended
      <4>2. ~(a[2] < x[2])
        BY <1>1, <2>10, <3>1, <4>1 DEF PlanInv, Chain
      <4>3. x[2] < a[2] => Ended(x)
        BY <1>1, <2>10, <3>1 DEF PlanInv, Chain
      <4>4. x[2] \in Nat /\ a[2] \in Nat /\ x = <<"auth", x[2]>> /\ a = <<"auth", a[2]>>
        BY <1>1, Cards
      <4>5. x[2] < a[2] \/ x[2] = a[2]
        BY <4>2, <4>4
      <4> QED BY <4>3, <4>4, <4>5
    <3>2. ASSUME NEW u \in Threads, pc'[u] \in Writing
          PROVE  u # t /\ pc[u] \in Writing /\ frame'[u] = frame[u] /\ frame[u].op[2] # a
      <4>1. u # t
        BY <2>6, <2>7, <3>2
      <4>2. pc'[u] = pc[u] /\ frame'[u] = frame[u]
        BY <2>1, <4>1 DEF Goto, PlanInv, Rows, OtherRows
      <4> QED BY <1>0, <3>2, <4>1, <4>2, OneWriter
    <3>3. ASSUME NEW x \in Auths, Visible(x) PROVE Ended(x)'
      <4>1. request'[x] = "warned"
        BY <1>3, <2>5, <3>1, <3>3 DEF Ended
      <4>2. ASSUME NEW u \in Threads, pc'[u] \in Writing PROVE frame'[u].op[2] # x
        <5>1. u # t /\ pc[u] \in Writing /\ frame'[u] = frame[u] /\ frame[u].op[2] # a
          BY <3>2, <4>2
        <5> QED BY <3>1, <3>3, <5>1 DEF Ended
      <4> QED BY <4>1, <4>2 DEF Ended
    <3>4. ASSUME NEW x \in Auths, NEW y \in Auths, Visible(x)', Visible(y)', x[2] < y[2]
          PROVE  Ended(x)'
      <4>1. x[2] \in Nat /\ y[2] \in Nat
        BY Cards
      <4>2. CASE Visible(x)
        BY <3>3, <4>2
      <4>3. CASE x = NextAuth /\ y # NextAuth
        <5>1. card[y] # "absent"
          BY <2>9, <3>4, <4>3 DEF PlanInv, AuthsKnown
        <5>2. y[2] < x[2]
          BY <2>2, <4>3, <5>1
        <5> QED BY <3>4, <4>1, <5>2
      <4>4. CASE x = NextAuth /\ y = NextAuth
        BY <3>4, <4>1, <4>4
      <4> QED BY <2>9, <3>4, <4>2, <4>3, <4>4
    <3> QED BY <3>4 DEF Chain
  <2>14. consumer' = consumer /\ consumer \in [Interactions -> OpIds \cup {Null}]
         /\ request' \in [Auths -> Words]
    BY <1>0, <2>5 DEF PlanInv, Rows, OtherRows
  <2> QED BY <1>0, <2>1, <2>2, <2>3, <2>4, <2>5, <2>6, <2>8, <2>11, <2>12, <2>13, <2>14, CardMoves
<1> QED BY <1>2, <1>3 DEF CommitOutcome, OpStates

-----------------------------------------------------------------------------
(* Users, the clock, the business system, revocations and restarts.          *)

\* The threads stand still.
LEMMA StillThreads ==
    ASSUME PlanInv, UNCHANGED <<planVars, stepVars, opVars, shown, runtime, lockVars, threadVars>>,
           CardsHold, request' \in [Auths -> Words], writes' \in {0, 1},
           \A a \in Auths : request[a] \in {"none", "warned"} => request'[a] = request[a],
           SentOK'
    PROVE  PlanInv'
<1> USE DEF PlanInv
<1>1. /\ pc' = pc /\ frame' = frame /\ shown' = shown /\ runtime' = runtime /\ plan_lock' = plan_lock
      /\ op_state' = op_state /\ op_int' = op_int /\ op_at' = op_at
      /\ plan_state' = plan_state /\ current_step' = current_step /\ commit_op' = commit_op
      /\ step_state' = step_state /\ step_int' = step_int /\ attempt' = attempt
      /\ step_at' = step_at
  BY DEF planVars, stepVars, opVars, lockVars, threadVars
<1>2. Rows'
  BY <1>1 DEF Rows, StepRows, OtherRows, CardsHold
<1>3. StepsOK'
  BY <1>1 DEF StepsOK
<1>4. ASSUME NEW u \in Threads PROVE ThreadFits(u)'
  <2>1. ASSUME pc[u] = "send" PROVE request'[frame[u].op[2]] = request[frame[u].op[2]]
    <3>1. pc[u] \in Executing /\ pc[u] \in Writing
      BY <2>1 DEF Executing, Writing
    <3>2. frame[u].op[2] \in Auths /\ request[frame[u].op[2]] = "none"
      BY <2>1, <3>1, ExecutingFacts DEF CardFits
    <3> QED BY <3>2
  <2>2. \A i \in Interactions : /\ card[i] # "absent" => card'[i] # "absent"
                                /\ i \in Auths /\ card[i] = "consumed" =>
                                     card'[i] = "consumed" /\ consumer'[i] = consumer[i]
    BY DEF CardsHold
  <2> QED BY <1>1, <2>1, <2>2, OthersFit
<1>5. OneRunner'
  BY <1>1 DEF OneRunner
<1>6. FieldsAsked'
  BY <1>1 DEF FieldsAsked, Known, Asked
<1>7. Counted'
  BY Cards DEF Counted, Numbered, CardsHold
<1>8. AuthsKnown'
  BY <1>1, Cards DEF AuthsKnown, Visible, Known, FieldsUsed, CardsHold
<1>9. Chain'
  <2>1. ASSUME NEW a \in Auths, Ended(a) PROVE Ended(a)'
    BY <1>1, <2>1 DEF Ended
  <2>2. \A a \in Auths : Visible(a)' => Visible(a)
    BY <1>1 DEF Visible, Known
  <2> QED BY <2>1, <2>2 DEF Chain
<1> QED BY <1>2, <1>3, <1>4, <1>5, <1>6, <1>7, <1>8, <1>9

LEMMA CardsAloneKeep ==
    ASSUME PlanInv, CardsHold,
           UNCHANGED <<planVars, stepVars, opVars, shown, worldVars, lockVars, threadVars>>
    PROVE  PlanInv'
<1>1. request' = request /\ writes' = writes /\ runtime' = runtime /\ shown' = shown
  BY DEF worldVars
<1>2. request' \in [Auths -> Words] /\ writes' \in {0, 1}
  BY <1>1 DEF PlanInv, Rows, OtherRows
<1>3. SentOK'
  BY <1>1, Cards DEF PlanInv, SentOK, CardsHold
<1> QED BY <1>1, <1>2, <1>3, StillThreads

LEMMA UserKeeps ==
    ASSUME PlanInv, NEW i \in Interactions, card[i] \in LiveCards,
           NEW st \in {"submitted", "approved", "rejected", "expired"},
           card' = [card EXCEPT ![i] = st],
           UNCHANGED <<planVars, stepVars, opVars, consumer, shown, worldVars, lockVars, threadVars>>
    PROVE  PlanInv'
<1>1. CardsHold
  <2>1. st \in Words
    BY WordList DEF OtherWords
  <2> QED BY <2>1 DEF PlanInv, Rows, OtherRows, CardsHold, LiveCards
<1> QED BY <1>1, CardsAloneKeep

LEMMA UsersKeep ==
    ASSUME PlanInv,
           \/ \E f \in Fields : SubmitFields(f)
           \/ \E a \in Auths : DecideAuthorization(a)
           \/ \E i \in Interactions : Expire(i)
    PROVE  PlanInv'
BY UserKeeps, Cards DEF SubmitFields, DecideAuthorization, Expire, LiveCards

LEMMA AnswerKeeps ==
    ASSUME PlanInv, NEW a \in Auths, TargetAnswers(a)
    PROVE  PlanInv'
<1>0. /\ request[a] = "sent" /\ card' = card /\ consumer' = consumer /\ runtime' = runtime
      /\ shown' = shown
      /\ UNCHANGED <<planVars, stepVars, opVars, cardVars, shown, runtime, lockVars, threadVars>>
  BY DEF TargetAnswers, cardVars
<1>1. PICK r \in {"applied", "refused", "warned"} :
         /\ request' = [request EXCEPT ![a] = r]
         /\ writes' = IF r = "applied" THEN writes + 1 ELSE writes
  BY DEF TargetAnswers
<1>2. request \in [Auths -> Words] /\ writes \in {0, 1}
  BY DEF PlanInv, Rows, OtherRows
<1>3. /\ request' \in [Auths -> Words] /\ request'[a] = r
      /\ \A x \in Auths : x # a => request'[x] = request[x]
  <2>1. r \in Words
    BY WordList DEF OtherWords
  <2> QED BY <1>1, <1>2, <2>1
<1>4. writes = 0
  <2>1. ASSUME writes = 1 PROVE FALSE
    <3>1. PICK b \in Auths : request[b] = "applied"
      BY <2>1 DEF PlanInv, SentOK
    <3>2. a \in shown /\ b \in shown
      BY <1>0, <3>1 DEF PlanInv, SentOK
    <3>3. Visible(a) /\ Visible(b) /\ ~Ended(a) /\ ~Ended(b)
      BY <1>0, <3>1, <3>2 DEF Visible, Known, Ended
    <3>4. ~(a[2] < b[2]) /\ ~(b[2] < a[2])
      BY <3>3 DEF PlanInv, Chain
    <3>5. a[2] \in Nat /\ b[2] \in Nat /\ a = <<"auth", a[2]>> /\ b = <<"auth", b[2]>>
      BY Cards
    <3>6. a[2] = b[2]
      BY <3>4, <3>5
    <3> QED BY <1>0, <3>1, <3>5, <3>6
  <2> QED BY <1>2, <2>1
<1>5. writes' \in {0, 1} /\ (writes' = 1 <=> r = "applied") /\ (writes' = 0 <=> r # "applied")
  BY <1>1, <1>4
<1>6. SentOK'
  <2>1. \A x \in Auths : request[x] # "applied"
    BY <1>4 DEF PlanInv, SentOK
  <2>2. \A x \in Auths : request'[x] # "none" => request[x] # "none"
    BY <1>0, <1>3
  <2> QED BY <1>0, <1>3, <1>5, <2>1, <2>2 DEF PlanInv, SentOK
<1>7. CardsHold
  BY <1>0 DEF PlanInv, Rows, OtherRows, CardsHold
<1>8. \A x \in Auths : request[x] \in {"none", "warned"} => request'[x] = request[x]
  BY <1>0, <1>3
<1> QED BY <1>0, <1>3, <1>5, <1>6, <1>7, <1>8, StillThreads

LEMMA RevokeKeeps ==
    ASSUME PlanInv, Revoke
    PROVE  PlanInv'
<1>1. /\ request' = request /\ writes' = writes /\ shown' = shown /\ card' = card
      /\ consumer' = consumer
      /\ UNCHANGED <<planVars, stepVars, opVars, shown, runtime, lockVars, threadVars>>
  BY DEF Revoke, cardVars
<1>2. request' \in [Auths -> Words] /\ writes' \in {0, 1} /\ CardsHold
  BY <1>1 DEF PlanInv, Rows, OtherRows, CardsHold
<1>3. SentOK'
  BY <1>1 DEF PlanInv, SentOK
<1> QED BY <1>1, <1>2, <1>3, StillThreads

LEMMA CrashKeeps ==
    ASSUME PlanInv, Crash
    PROVE  PlanInv'
<1> USE DEF PlanInv
<1>1. /\ request' = request /\ writes' = writes /\ shown' = shown /\ card' = card
      /\ consumer' = consumer /\ op_state' = op_state /\ op_int' = op_int /\ op_at' = op_at
      /\ plan_state' = plan_state /\ current_step' = current_step /\ commit_op' = commit_op
      /\ step_state' = step_state /\ step_int' = step_int /\ attempt' = attempt
      /\ step_at' = step_at
      /\ runtime < MaxCrashes /\ runtime' = runtime + 1
  BY DEF Crash, planVars, stepVars, opVars, cardVars
<1>2. /\ pc' = [u \in Threads |-> "idle"] /\ frame' = [u \in Threads |-> EmptyFrame]
      /\ "idle" \in Words /\ EmptyFrame \in FrameShape
      /\ "idle" \notin Executing \cup Answering \cup Writing \cup {"finish"}
  BY WordList, EmptyFrameIsFrame DEF Crash, Labels, Executing, Answering, Writing
<1>3. runtime' \in 0 .. MaxCrashes
  BY <1>1, Bounds DEF Rows, OtherRows
<1>4. Rows'
  BY <1>1, <1>2, <1>3 DEF Rows, StepRows, OtherRows
<1>5. StepsOK'
  <2>1. runtime \in Nat /\ (\A s \in Steps : step_at[s] \in Nat /\ attempt[s] \in Nat)
    BY Bounds DEF Rows, StepRows, OtherRows
  <2>2. ASSUME NEW s \in Steps
        PROVE  /\ step_at[s] <= runtime' /\ attempt[s] <= 1 + step_at[s]
               /\ step_state[s] = "queued" => attempt[s] <= runtime'
               /\ step_state[s] \in {"running", "waiting_user"} => attempt[s] >= 1
    <3>1. /\ step_at[s] <= runtime /\ attempt[s] <= 1 + step_at[s]
          /\ step_state[s] = "queued" => attempt[s] <= runtime
          /\ step_state[s] \in {"running", "waiting_user"} => attempt[s] >= 1
      BY DEF StepsOK
    <3> QED BY <1>1, <2>1, <3>1
  <2> QED BY <1>1, <2>2 DEF StepsOK
<1>6. \A u \in Threads : ThreadFits(u)'
  BY <1>2 DEF ThreadFits, LockFits, OpFits, RunFits, CardFits, Executing, Answering, Writing
<1>7. OneRunner'
  BY <1>2 DEF OneRunner
<1>8. \A i : (Known(i)' => Known(i)) /\ (Visible(i)' => Visible(i))
  BY <1>1, <1>2 DEF Known, Visible
<1>9. FieldsAsked'
  BY <1>1, <1>8 DEF FieldsAsked, Asked
<1>10. Counted' /\ AuthsKnown' /\ SentOK'
  BY <1>1, <1>8 DEF Counted, Numbered, AuthsKnown, FieldsUsed, SentOK
<1>11. Chain'
  <2>1. ASSUME NEW a \in Auths, Ended(a) PROVE Ended(a)'
    BY <1>1, <1>2, <2>1 DEF Ended
  <2> QED BY <1>8, <2>1 DEF Chain
<1> QED BY <1>4, <1>5, <1>6, <1>7, <1>9, <1>10, <1>11

-----------------------------------------------------------------------------
(* The theorem.                                                              *)

LEMMA PlanInit ==
    ASSUME Init
    PROVE  PlanInv
<1>1. MaxCrashes \in Nat /\ MaxAuths \in Nat
  BY Bounds
<1>2. /\ "idle" \in Words /\ EmptyFrame \in FrameShape /\ Null \in AnyInts
      /\ "idle" \notin Executing \cup Answering \cup Writing \cup {"finish"}
  BY WordList, Cards, EmptyFrameIsFrame DEF Labels, Executing, Answering, Writing
<1>3. {"absent", "queued", "none"} \subseteq Words
  BY WordList DEF OtherWords, OpStates
<1>4. Rows
  BY <1>1, <1>2, <1>3 DEF Init, Rows, StepRows, OtherRows
<1>5. StepsOK
  BY <1>1 DEF Init, StepsOK
<1>6. \A u \in Threads : ThreadFits(u)
  BY <1>2 DEF Init, ThreadFits, LockFits, OpFits, RunFits, CardFits, Executing, Answering, Writing
<1>7. OneRunner
  BY <1>2 DEF Init, OneRunner
<1>8. \A i \in Interactions : ~Visible(i)
  BY <1>2, NullAssumption DEF Init, Visible, Known, Answering
<1>9. FieldsAsked /\ AuthsKnown /\ Chain
  BY <1>8, Cards DEF FieldsAsked, AuthsKnown, Chain, Visible
<1>10. Counted
  <2>1. 0 \in 0 .. MaxAuths /\ Numbered(0)
    <3>1. \A a \in Auths : a \in Interactions /\ ~(a[2] <= 0)
      BY <1>1, Cards
    <3> QED BY <1>1, <3>1 DEF Init, Numbered
  <2> QED BY <2>1 DEF Counted
<1>11. SentOK
  BY DEF Init, SentOK
<1> QED BY <1>4, <1>5, <1>6, <1>7, <1>9, <1>10, <1>11 DEF PlanInv

\* A step of a thread that works for a call or for the recovery cycle.
LEMMA ThreadKeeps ==
    ASSUME PlanInv, NEW t \in Threads, Continue(t) \/ Recover(t)
    PROVE  PlanInv'
<1>1. CASE \/ AdvanceGet(t) \/ BeginNextStep(t) \/ NoStepLeft(t) \/ FailStep(t)
           \/ StepStillRunning(t) \/ MarkStepWaiting(t) \/ MarkStepSucceeded(t)
           \/ NothingToDo(t) \/ ConsumeFailure(t) \/ ResetRunningStep(t) \/ Retire(t)
  BY <1>1, AdvanceKeeps, BeginNextKeeps, FailStepKeeps, WaitingKeeps, SucceedingKeeps,
     ConsumeFailureKeeps, ResetKeeps, RetireKeeps, RoutineKeeps
<1>2. CASE \/ Invoke(t) \/ FinishOperation(t) \/ ReadSource(t) \/ RequireFieldInput(t)
           \/ GetSubmission(t) \/ CreateAuthorization(t) \/ ConsumeSubmission(t)
           \/ GetAuthorization(t) \/ FailBeforeBoundary(t) \/ EnterCommitBoundary(t)
           \/ SendWrite(t) \/ CommitOutcome(t)
  BY <1>2, InvokeKeeps, FinishKeeps, SourceKeeps, RequireFieldKeeps, LoadKeeps, CreateKeeps,
     ConsumeKeeps, BoundaryKeeps, SendKeeps, OutcomeOfCommitKeeps
<1>3. CASE \/ BindInteraction(t) \/ Reject(t) \/ AnswerResume(t) \/ ResumeAfterCapability(t)
           \/ BindTerminal(t) \/ HandleTerminal(t) \/ Cancel(t)
  BY <1>3, BindKeeps, RejectKeeps, AnswerResumeKeeps, AfterCapabilityKeeps, BindTerminalKeeps,
     HandleTerminalKeeps, CancelKeeps
<1>4. CASE Recover(t)
  BY <1>4, RecoverCommitKeeps, RecoverRunningKeeps, RoutineKeeps DEF Recover
<1> QED BY <1>1, <1>2, <1>3, <1>4 DEF Continue

LEMMA StutterKeeps ==
    ASSUME PlanInv, UNCHANGED vars
    PROVE  PlanInv'
<1>1. CardsHold
  BY CardsSame DEF vars
<1> QED BY <1>1, CardsAloneKeep DEF vars

LEMMA PlanStep ==
    ASSUME PlanInv, [Next]_vars
    PROVE  PlanInv'
<1>1. ASSUME NEW t \in Threads, Continue(t) \/ Recover(t)
      PROVE  PlanInv'
  BY <1>1, ThreadKeeps
<1>2. ASSUME NEW t \in Threads, HostCalls(t)
      PROVE  PlanInv'
  BY <1>2, PrepareKeeps, RoutineKeeps DEF HostCalls
<1>3. ASSUME NEW t \in Threads, NEW i \in Interactions,
             ResumeInteraction(t, i) \/ PollInteraction(t, i)
      PROVE  PlanInv'
  BY <1>3, ResumeInteractionKeeps, RoutineKeeps
<1>4. CASE Revoke \/ Crash \/ UNCHANGED vars
  BY <1>4, RevokeKeeps, CrashKeeps, StutterKeeps
<1>5. ASSUME NEW a \in Auths, TargetAnswers(a)
      PROVE  PlanInv'
  BY <1>5, AnswerKeeps
<1> QED BY <1>1, <1>2, <1>3, <1>4, <1>5, UsersKeep DEF Next, Environment

\* OneEffect for any steps, threads, resume keys, warnings and restarts.
THEOREM WritesOnce == Spec => []OneEffect
<1>1. Init => PlanInv
  BY PlanInit
<1>2. PlanInv /\ [Next]_vars => PlanInv'
  BY PlanStep
<1>3. PlanInv => OneEffect
  BY DEF PlanInv, Rows, OtherRows, OneEffect
<1> QED BY <1>1, <1>2, <1>3, PTL DEF Spec

\* RequestsInTurn for any steps, hosts at a time, cancels, polls, resume keys,
\* warnings, revocations, restarts and recoveries (enter_commit_boundary,
\* consume of write_authorizations.py and the warning path of the executor).
THEOREM EveryRequestInTurn == Spec => []RequestsInTurn
<1>1. Init => PlanInv
  BY PlanInit
<1>2. PlanInv /\ [Next]_vars => PlanInv'
  BY PlanStep
<1>3. PlanInv => RequestsInTurn
  <2>1. SUFFICES ASSUME PlanInv PROVE RequestsInTurn
    OBVIOUS
  <2>2. \A a \in Auths : request[a] # "none" => a \in shown /\ card[a] = "consumed" /\ Visible(a)
    BY <2>1 DEF PlanInv, SentOK, Visible, Known
  <2> QED BY <2>1, <2>2 DEF PlanInv, Chain, Ended, RequestsInTurn
<1> QED BY <1>1, <1>2, <1>3, PTL DEF Spec

-----------------------------------------------------------------------------
(* The promise of PlannedWrite, where calls of hosts come one at a time, no  *)
(* authority is revoked, and an interaction is resumed under one key if the  *)
(* service can restart.  What each thread may still do to the plan follows   *)
(* from the phase of the plan: as long as it is open, everything the user    *)
(* was shown is used up or bound to the step that waits; from the consumption *)
(* of the authorization on, everything shown is used up, and whatever anyone *)
(* answers with is what the operation of the commit has recorded.            *)

Undisturbed ==
    /\ \A t, u \in Hosts : t = u
    /\ MaxRevocations = 0
    /\ MaxCrashes = 0 \/ \A k, l \in Keys : k = l

Over == plan_state \in TerminalPlanStates
Open == ~Over /\ commit_op = Null
Committing == ~Over /\ commit_op # Null

Used(i) == i \in Interactions /\ card[i] = "consumed"
Settled(a) == request[a] \in {"none", "warned"}

SeenFits ==
    /\ Null \notin shown
    /\ \A i \in Interactions : card[i] = "consumed" => i \in shown
    /\ \A s \in Steps : step_int[s] # Null => step_int[s] \in shown

\* An open plan waits on the one interaction that is not used up.
OpenFits == Open =>
    /\ \A s \in Steps : step_int[s] # Null => plan_state = "waiting_user" /\ s = current_step
    /\ plan_state = "waiting_user" =>
          /\ current_step \in Steps /\ step_state[current_step] = "waiting_user"
          /\ step_int[current_step] # Null
    /\ \A i \in shown : Used(i) \/ Bound(i)
    /\ \A a \in Auths : Settled(a)

\* What the operation of a commit may have recorded.
Result(a, st, i) ==
    \/ st \in {"running", "unknown"} /\ i = Null
    \/ st = "succeeded" /\ i = Null /\ request[a] = "applied"
    \/ st = "failed" /\ i = Null /\ request[a] = "refused"
    \/ st = "requires_user_action" /\ i # Null /\ request[a] = "warned"

CommitFits == Committing =>
    /\ commit_op \in ResumeOps /\ commit_op[2] \in Auths
    /\ plan_state = "running"
    /\ card[commit_op[2]] = "consumed"
    /\ \A b \in Auths : b # commit_op[2] => Settled(b)
    /\ \A i \in shown : Used(i)
    /\ \A s \in Steps : step_int[s] # Null => s = current_step
    /\ current_step # Null =>
          /\ step_state[current_step] = "running"
          /\ step_int[current_step] = commit_op[2]
    /\ current_step = Null => op_state[commit_op] = "succeeded"
    /\ Result(commit_op[2], op_state[commit_op], op_int[commit_op])

\* Nobody will resume it: it is about to be retired, or its key is used.
Forsaken(i) ==
    IF MaxCrashes = 0
    THEN \E u \in Hosts : pc[u] = "retire" /\ i \in frame[u].retire
    ELSE \A k \in Keys :
            /\ op_state[<<"resume", i, k>>] # "absent"
            /\ \A u \in Threads : pc[u] \in Executing => frame[u].op # <<"resume", i, k>>

OverFits == Over =>
    /\ \A i \in shown \cap Interactions : card[i] \in LiveCards => Bound(i) \/ Forsaken(i)
    /\ \A a, b \in Auths : Settled(a) \/ Settled(b) \/ a = b

\* How the operation of a resumed interaction ends.
OwnEnds == {"requires_user_action", "succeeded", "failed", "unknown"}

OpsFit ==
    /\ \A o \in StepOps : op_state[o] # "unknown"
    /\ \A o \in OpIds : op_state[o] \in {"absent", "running"} => op_int[o] = Null
    /\ \A o \in ResumeOps :
          /\ op_state[o] \in {"absent", "running"} \cup OwnEnds
          /\ op_state[o] \in {"succeeded", "unknown"} \/ op_int[o] \notin {Null, o[2]}
               => card[o[2]] = "consumed"

\* Threads between the operations.
LoopFits(u) ==
    /\ pc[u] \notin {"fail", "reject"}
    /\ pc[u] = "bind" => /\ u \in Hosts
                         /\ card[frame[u].int] = "consumed" => frame[u].seen = "consumed"
                         /\ TerminalCard(frame[u].seen) => TerminalCard(card[frame[u].int])
    /\ pc[u] = "advance" /\ u \notin Hosts =>
          plan_lock = u /\ plan_state \notin {"absent", "waiting_user"}
    /\ pc[u] = "begin" => /\ plan_state \in ActivePlanStates /\ commit_op = Null
                          /\ u \notin Hosts => plan_state # "waiting_user"
    /\ pc[u] \in {"nothing_to_do", "reset"} =>
          plan_lock = u /\ plan_state \in {"validated", "running"} /\ commit_op = Null
    /\ pc[u] \in {"terminal", "terminal_lock"} =>
          /\ frame[u].int # Null /\ frame[u].int \in shown
          /\ frame[u].int \in Interactions => TerminalCard(card[frame[u].int])
    /\ pc[u] = "terminal_lock" =>
          /\ frame[u].step \in Steps
          /\ ~Over => step_int[frame[u].step] = frame[u].int

\* Threads that execute a step or consume its response.
StepFits(u) ==
    pc[u] \in {"invoke", "consume"} \cup Executing /\ frame[u].op \in StepOps =>
        /\ plan_state \in {"validated", "running"} /\ commit_op = Null
        /\ current_step = frame[u].step
        /\ pc[u] \in {"finish", "consume"} => frame[u].resp.st # "unknown"
        /\ pc[u] = "finish" => frame[u].resp.st \notin {"absent", "running"}

OwnFits(u) ==
    /\ pc[u] \in {"invoke", "respond", "relock", "consume"} \cup Executing
         /\ frame[u].op \in ResumeOps => u \in Hosts
    /\ pc[u] \in {"respond", "relock"} => frame[u].op \in ResumeOps
    /\ pc[u] \in Answering /\ frame[u].op \in ResumeOps => op_state[frame[u].op] # "absent"

Early == {"invoke", "handler", "prepare", "consume_field", "boundary"}

\* The call that resumes an interaction.
CallFits(u) ==
    pc[u] \in {"invoke", "respond"} \cup Executing /\ frame[u].op \in ResumeOps =>
        /\ frame[u].int = frame[u].op[2]
        /\ frame[u].bound \/ (Over /\ ~Bound(frame[u].op[2]))
        /\ pc[u] \in Early => ~Committing /\ card[frame[u].op[2]] # "consumed"
        /\ pc[u] \in Writing => Committing /\ commit_op = frame[u].op
        /\ pc[u] \in {"finish", "respond"} /\ frame[u].resp.int \notin shown \cup {Null} =>
              frame[u].bound /\ Bound(frame[u].op[2]) /\ card[frame[u].op[2]] = "consumed"

\* A response r that an open plan may get to operation o.  Everything the user
\* was shown is used up, but for what o resumed or what the response asks for.
AskedFor(r, o) == IF r.st = "requires_user_action" /\ r.int # Null THEN r.int ELSE o[2]

Harmless(r, o) ==
    /\ plan_state = "waiting_user"
    /\ r.st \in {"failed", "running", "requires_user_action"}
    /\ \A i \in shown : Used(i) \/ i = AskedFor(r, o)

FinishFits(u) ==
    pc[u] = "finish" /\ frame[u].op \in ResumeOps =>
        /\ frame[u].resp.st \in OwnEnds
        /\ frame[u].resp.st \in {"succeeded", "unknown"} => card[frame[u].op[2]] = "consumed"
        /\ frame[u].resp.int \notin {Null, frame[u].op[2]} => card[frame[u].op[2]] = "consumed"
        /\ Committing => /\ commit_op = frame[u].op
                         /\ Result(frame[u].op[2], frame[u].resp.st, frame[u].resp.int)
        /\ Open => Harmless(frame[u].resp, frame[u].op)

\* What the operation of the commit has recorded.
Recorded == [st |-> op_state[commit_op], int |-> op_int[commit_op]]

AnswerFits(u) ==
    pc[u] \in Answering /\ frame[u].op \notin StepOps =>
        /\ Committing =>
              /\ frame[u].op \in {commit_op, Null}
              /\ frame[u].resp = Recorded /\ op_state[commit_op] # "running"
              /\ pc[u] # "respond" => current_step \in {frame[u].step, Null}
        /\ Open => /\ frame[u].op # Null /\ Harmless(frame[u].resp, frame[u].op)
                   /\ pc[u] # "respond" => frame[u].step = current_step
        /\ Over => pc[u] # "consume"

WorkFits(u) ==
    LoopFits(u) /\ StepFits(u) /\ OwnFits(u) /\ CallFits(u) /\ FinishFits(u) /\ AnswerFits(u)

PromiseInv ==
    /\ authority = TRUE
    /\ SeenFits /\ OpenFits /\ CommitFits /\ OverFits /\ OpsFit
    /\ \A u \in Threads : WorkFits(u)

\* What is assumed of every step below.
Given == PlanInv /\ PlanInv' /\ PromiseInv /\ Undisturbed

LEMMA Moves ==
    ASSUME PlanInv, NEW t \in Threads, NEW label, NEW k, Goto(t, label, k)
    PROVE  /\ pc'[t] = label /\ frame'[t] = k
           /\ \A u \in Threads : u # t => pc'[u] = pc[u] /\ frame'[u] = frame[u]
BY DEF PlanInv, Rows, OtherRows, Goto

LEMMA Phases ==
    /\ Over \/ Open \/ Committing
    /\ Open => ~Over /\ ~Committing /\ commit_op = Null
    /\ Committing => ~Over /\ commit_op # Null
    /\ plan_state \in ActivePlanStates => ~Over
    /\ plan_state = "absent" => ~Over
BY DEF Over, Open, Committing, ActivePlanStates, TerminalPlanStates

\* The marker of a commit, and what its operation can have recorded.
LEMMA Marker ==
    ASSUME PromiseInv, Committing
    PROVE  /\ commit_op \in ResumeOps /\ commit_op \in OpIds /\ commit_op # Null
           /\ commit_op[2] \in Auths /\ commit_op[2] \in Interactions
           /\ card[commit_op[2]] = "consumed" /\ plan_state = "running"
           /\ op_state[commit_op] \in {"running", "unknown", "succeeded", "failed",
                                       "requires_user_action"}
BY Operations, Cards DEF PromiseInv, CommitFits, Result, Committing

-----------------------------------------------------------------------------
(* Steps that leave the plan as it is.                                       *)

CardsGo(t) ==
    \A i \in Interactions :
        /\ card[i] = "consumed" => card'[i] = "consumed"
        /\ i \in shown /\ TerminalCard(card[i]) => TerminalCard(card'[i])
        /\ i \in shown /\ card'[i] \in LiveCards => card[i] \in LiveCards
        /\ card'[i] = "consumed" => card[i] = "consumed" \/ (t \in Hosts /\ i \in shown)

OpsGo ==
    \A o \in OpIds :
        /\ op_state[o] # "absent" => op_state'[o] # "absent"
        /\ op_state[o] \notin {"absent", "running"} =>
              op_state'[o] = op_state[o] /\ op_int'[o] = op_int[o]

RequestsGo ==
    \A a \in Auths : request[a] \in {"applied", "refused", "warned"} => request'[a] = request[a]

PlanStays == UNCHANGED <<plan_state, current_step, commit_op, step_int, shown, authority>>

\* The other threads may do what they could do before.
LEMMA OthersWork ==
    ASSUME Given, NEW t, NEW u \in Threads, u # t,
           pc'[u] = pc[u], frame'[u] = frame[u],
           PlanStays, CardsGo(t), OpsGo, RequestsGo, LockHolds(t)
    PROVE  WorkFits(u)'
<1> USE DEF Given
<1>0. WorkFits(u)
  BY DEF PromiseInv
<1>1. /\ Over' = Over /\ Open' = Open /\ Committing' = Committing
      /\ \A i : Bound(i)' = Bound(i)
      /\ \A i : Used(i) => Used(i)'
  BY DEF PlanStays, Over, Open, Committing, Bound, Used, CardsGo
<1>2. u \in Hosts => t \notin Hosts
  BY DEF Undisturbed
<1>3. LoopFits(u)'
  <2>1. pc[u] = "bind" => frame[u].int \in Interactions /\ frame[u].int \in shown
    BY LabelFacts
  <2> QED BY <1>0, <1>1, <1>2, <2>1 DEF WorkFits, LoopFits, PlanStays, CardsGo, LockHolds
<1>4. StepFits(u)'
  BY <1>0 DEF WorkFits, StepFits, PlanStays
<1>5. OwnFits(u)'
  <2>1. frame[u].op \in ResumeOps => frame[u].op \in OpIds
    BY Operations
  <2> QED BY <1>0, <2>1 DEF WorkFits, OwnFits, OpsGo
<1>6. CallFits(u)'
  <2>1. frame[u].op \in ResumeOps => frame[u].op[2] \in Interactions
    BY Operations
  <2> QED BY <1>0, <1>1, <1>2, <2>1 DEF WorkFits, CallFits, OwnFits, PlanStays, CardsGo,
          Early, Executing
<1>7. FinishFits(u)'
  <2>1. frame[u].op \in ResumeOps => frame[u].op[2] \in Interactions
    BY Operations
  <2>2. \A r, o : Harmless(r, o) => Harmless(r, o)'
    BY <1>1 DEF Harmless, AskedFor, PlanStays
  <2>3. ASSUME Committing, commit_op = frame[u].op,
               Result(frame[u].op[2], frame[u].resp.st, frame[u].resp.int)
        PROVE  Result(frame[u].op[2], frame[u].resp.st, frame[u].resp.int)'
    <3>1. frame[u].op[2] \in Auths
      BY <2>3, Marker
    <3> QED BY <2>3, <3>1 DEF Result, RequestsGo
  <2> QED BY <1>0, <1>1, <2>1, <2>2, <2>3 DEF WorkFits, FinishFits, PlanStays, CardsGo
<1>8. AnswerFits(u)'
  <2>1. \A r, o : Harmless(r, o) => Harmless(r, o)'
    BY <1>1 DEF Harmless, AskedFor, PlanStays
  <2>2. ASSUME Committing, op_state[commit_op] # "running"
        PROVE  Recorded' = Recorded /\ op_state'[commit_op] # "running"
    <3>1. commit_op \in OpIds /\ op_state[commit_op] # "absent"
      BY <2>2, Marker
    <3> QED BY <2>2, <3>1 DEF OpsGo, Recorded, PlanStays
  <2> QED BY <1>0, <1>1, <2>1, <2>2 DEF WorkFits, AnswerFits, PlanStays
<1> QED BY <1>3, <1>4, <1>5, <1>6, <1>7, <1>8 DEF WorkFits

\* The plan stays in its phase: thread t, if it is one, moves on.
LEMMA Routine ==
    ASSUME Given, NEW t,
           \A u \in Threads : u # t => pc'[u] = pc[u] /\ frame'[u] = frame[u],
           PlanStays, CardsGo(t), OpsGo, LockHolds(t), step_state' = step_state,
           UNCHANGED <<request, writes>>, OpsFit',
           Committing => Result(commit_op[2], op_state'[commit_op], op_int'[commit_op]),
           t \in Threads =>
               /\ pc'[t] \in Executing => \/ pc[t] \in Executing /\ frame'[t].op = frame[t].op
                                          \/ op_state[frame'[t].op] = "absent"
               /\ pc[t] = "retire" =>
                     \A i \in Interactions \cap frame[t].retire :
                         \/ pc'[t] = "retire" /\ i \in frame'[t].retire
                         \/ card'[i] \notin LiveCards
               /\ WorkFits(t)'
    PROVE  PromiseInv' /\ UNCHANGED <<planPhase, writeEffect>>
<1> USE DEF Given
<1>1. /\ Over' = Over /\ Open' = Open /\ Committing' = Committing
      /\ \A i : Bound(i)' = Bound(i)
      /\ \A i : Used(i) => Used(i)'
      /\ \A a : Settled(a)' = Settled(a)
  BY DEF PlanStays, Over, Open, Committing, Bound, Used, CardsGo, Settled
<1>2. \A u \in Threads : WorkFits(u)'
  <2>1. RequestsGo
    BY DEF RequestsGo
  <2> QED BY <2>1, OthersWork
<1>3. authority' = TRUE /\ SeenFits'
  BY DEF PromiseInv, SeenFits, PlanStays, CardsGo
<1>4. OpenFits'
  BY <1>1 DEF PromiseInv, OpenFits, PlanStays
<1>5. CommitFits'
  <2>1. ASSUME Committing
        PROVE  /\ op_state[commit_op] = "succeeded" => op_state'[commit_op] = "succeeded"
               /\ card'[commit_op[2]] = "consumed"
               /\ Result(commit_op[2], op_state[commit_op], op_int[commit_op])'
    <3>1. commit_op \in OpIds /\ commit_op[2] \in Interactions /\ card[commit_op[2]] = "consumed"
      BY <2>1, Marker
    <3> QED BY <2>1, <3>1 DEF OpsGo, CardsGo, PlanStays, Result
  <2> QED BY <1>1, <2>1 DEF PromiseInv, CommitFits, PlanStays
<1>6. OverFits'
  <2>1. ASSUME NEW i \in Interactions, Forsaken(i), card'[i] \in LiveCards
        PROVE  Forsaken(i)'
    <3>1. CASE MaxCrashes = 0
      <4>1. PICK u \in Hosts : pc[u] = "retire" /\ i \in frame[u].retire
        BY <2>1, <3>1 DEF Forsaken
      <4>2. u \in Threads
        BY DEF Threads
      <4>3. pc'[u] = "retire" /\ i \in frame'[u].retire
        BY <2>1, <4>1, <4>2
      <4> QED BY <3>1, <4>3 DEF Forsaken
    <3>2. CASE MaxCrashes # 0
      <4>1. ASSUME NEW x \in Keys
            PROVE  /\ op_state'[<<"resume", i, x>>] # "absent"
                   /\ \A u \in Threads : pc'[u] \in Executing => frame'[u].op # <<"resume", i, x>>
        <5>1. <<"resume", i, x>> \in OpIds
          BY Operations
        <5>2. /\ op_state[<<"resume", i, x>>] # "absent"
              /\ \A u \in Threads : pc[u] \in Executing => frame[u].op # <<"resume", i, x>>
          BY <2>1, <3>2 DEF Forsaken
        <5> QED BY <5>1, <5>2 DEF OpsGo
      <4> QED BY <3>2, <4>1 DEF Forsaken
    <3> QED BY <3>1, <3>2
  <2>2. ASSUME NEW i \in shown \cap Interactions, card'[i] \in LiveCards, Over
        PROVE  Bound(i)' \/ Forsaken(i)'
    BY <1>1, <2>1, <2>2 DEF PromiseInv, OverFits, CardsGo
  <2> QED BY <1>1, <2>2 DEF PromiseInv, OverFits, PlanStays
<1>7. UNCHANGED <<planPhase, writeEffect>>
  BY DEF planPhase, writeEffect, PlanStays
<1> QED BY <1>2, <1>3, <1>4, <1>5, <1>6, <1>7 DEF PromiseInv

Kept == PromiseInv' /\ UNCHANGED <<planPhase, writeEffect>>

Rest == {"idle", "retire", "cancel"}

LEMMA AtRest ==
    ASSUME NEW t \in Threads, pc'[t] \in Rest
    PROVE  WorkFits(t)'
<1>1. pc'[t] \notin Executing \cup Writing \cup Answering \cup Early
                \cup {"invoke", "bind", "fail", "reject", "advance", "begin", "nothing_to_do",
                      "reset", "terminal", "terminal_lock", "finish", "respond", "consume", "relock"}
  BY DEF Rest, Executing, Writing, Answering, Early
<1> QED BY <1>1 DEF WorkFits, LoopFits, StepFits, OwnFits, CallFits, FinishFits, AnswerFits,
                    Executing, Writing, Answering

\* A thread moves on and no row changes.
LEMMA Calm ==
    ASSUME Given, NEW t \in Threads, NEW label, NEW k, Goto(t, label, k), LockHolds(t),
           UNCHANGED <<planVars, stepVars, opVars, cardVars, shown, worldVars>>,
           label \in Executing => pc[t] \in Executing /\ k.op = frame[t].op,
           pc[t] # "retire", WorkFits(t)'
    PROVE  Kept
<1>0. /\ pc'[t] = label /\ frame'[t] = k
      /\ \A u \in Threads : u # t => pc'[u] = pc[u] /\ frame'[u] = frame[u]
  BY Moves DEF Given
<1>1. /\ PlanStays /\ step_state' = step_state /\ UNCHANGED <<request, writes>>
      /\ card' = card /\ op_state' = op_state /\ op_int' = op_int
  BY DEF PlanStays, planVars, stepVars, worldVars, cardVars, opVars
<1>2. CardsGo(t) /\ OpsGo
  BY <1>1 DEF CardsGo, OpsGo
<1>3. OpsFit'
  BY <1>1 DEF Given, PromiseInv, OpsFit
<1>4. Committing => Result(commit_op[2], op_state'[commit_op], op_int'[commit_op])
  BY <1>1 DEF Given, PromiseInv, CommitFits
<1> QED BY <1>0, <1>1, <1>2, <1>3, <1>4, Routine DEF Kept

LEMMA ReturnKeeps ==
    ASSUME Given, NEW t \in Threads, Return(t), pc[t] # "retire",
           UNCHANGED <<planVars, stepVars, opVars, cardVars, shown, worldVars>>
    PROVE  Kept
<1>1. pc'[t] = "idle" /\ WorkFits(t)'
  BY Moves, AtRest DEF Return, Rest, Given
<1>2. LockHolds(t) /\ "idle" \notin Executing
  BY LockSame DEF Return, Executing
<1> QED BY <1>1, <1>2, Calm DEF Return

\* Labels of threads that are not in an operation.
Loops == {"bind", "advance", "begin", "nothing_to_do", "reset", "terminal", "terminal_lock"}

LEMMA InLoop ==
    ASSUME NEW t \in Threads, pc'[t] \in Loops, LoopFits(t)'
    PROVE  WorkFits(t)'
<1>1. pc'[t] \notin Executing \cup Writing \cup Answering \cup Early
                \cup {"invoke", "finish", "respond", "consume", "relock"}
  BY DEF Loops, Executing, Writing, Answering, Early
<1> QED BY <1>1 DEF WorkFits, StepFits, OwnFits, CallFits, FinishFits, AnswerFits,
                    Executing, Writing, Answering

LEMMA LoopMoves ==
    ASSUME Given, NEW t \in Threads, NEW label \in Loops, NEW k, Goto(t, label, k), LockHolds(t),
           UNCHANGED <<planVars, stepVars, opVars, cardVars, shown, worldVars>>,
           pc[t] # "retire", LoopFits(t)'
    PROVE  Kept
<1>1. pc'[t] = label
  BY Moves DEF Given
<1>2. label \notin Executing
  BY DEF Loops, Executing
<1> QED BY <1>1, <1>2, InLoop, Calm

LEMMA AdvanceGoesOn ==
    ASSUME Given, NEW t \in Threads, pc[t] = "advance", MayLockPlan(t),
           plan_state \in ActivePlanStates, commit_op = Null,
           LockPlanAndGoto(t, "begin", EmptyFrame),
           UNCHANGED <<planVars, stepVars, opVars, cardVars, shown, worldVars>>
    PROVE  Kept
<1>1. Goto(t, "begin", EmptyFrame) /\ pc'[t] = "begin"
  BY Moves DEF LockPlanAndGoto, Given
<1>2. LockHolds(t)
  BY LockSame DEF MayLockPlan
<1>3. LoopFits(t)'
  <2>1. t \notin Hosts => plan_state # "waiting_user"
    BY DEF Given, PromiseInv, WorkFits, LoopFits
  <2> QED BY <1>1, <2>1 DEF LoopFits, planVars
<1> QED BY <1>1, <1>2, <1>3, LoopMoves DEF Loops

LEMMA ResumeGoesOn ==
    ASSUME Given, NEW t \in Threads, NEW i \in Interactions, ResumeInteraction(t, i)
    PROVE  Kept
<1> DEFINE k == [EmptyFrame EXCEPT !.int = i, !.seen = card[i]]
<1>1. /\ Goto(t, "bind", k) /\ t \in Hosts /\ pc[t] = "idle"
      /\ UNCHANGED <<planVars, stepVars, opVars, cardVars, shown, worldVars, lockVars>>
  BY DEF ResumeInteraction
<1>2. k.int = i /\ k.seen = card[i]
  BY DEF EmptyFrame
<1> HIDE DEF k
<1>3. pc'[t] = "bind" /\ frame'[t] = k /\ card' = card
  BY <1>1, Moves DEF Given, cardVars
<1>4. LoopFits(t)'
  BY <1>1, <1>2, <1>3 DEF LoopFits
<1>5. LockHolds(t)
  BY <1>1, LockSame DEF lockVars
<1> QED BY <1>1, <1>4, <1>5, LoopMoves DEF Loops

LEMMA PollGoesOn ==
    ASSUME Given, NEW t \in Threads, NEW i \in Interactions, PollInteraction(t, i)
    PROVE  Kept
<1> DEFINE k == [EmptyFrame EXCEPT !.int = i]
<1>1. /\ Goto(t, "terminal", k) /\ i \in shown /\ TerminalCard(card[i]) /\ pc[t] = "idle"
      /\ UNCHANGED <<planVars, stepVars, opVars, cardVars, shown, worldVars, lockVars>>
  BY DEF PollInteraction
<1>2. k.int = i /\ i # Null
  BY Cards DEF EmptyFrame
<1> HIDE DEF k
<1>3. pc'[t] = "terminal" /\ frame'[t] = k /\ card' = card /\ shown' = shown
  BY <1>1, Moves DEF Given, cardVars
<1>4. LoopFits(t)'
  BY <1>1, <1>2, <1>3 DEF LoopFits
<1>5. LockHolds(t)
  BY <1>1, LockSame DEF lockVars
<1> QED BY <1>1, <1>4, <1>5, LoopMoves DEF Loops

LEMMA CallCancelGoesOn ==
    ASSUME Given, NEW t \in Threads, NEW tool, CallCancel(t, tool)
    PROVE  Kept
<1>1. /\ Goto(t, "cancel", EmptyFrame) /\ pc[t] = "idle" /\ LockHolds(t)
      /\ UNCHANGED <<planVars, stepVars, opVars, cardVars, shown, worldVars>>
  BY LockSame DEF CallCancel
<1>2. WorkFits(t)' /\ "cancel" \notin Executing
  BY <1>1, Moves, AtRest DEF Given, Rest, Executing
<1> QED BY <1>1, <1>2, Calm

LEMMA BindTerminalGoesOn ==
    ASSUME Given, NEW t \in Threads, BindTerminal(t)
    PROVE  Kept
<1>0. /\ pc[t] = "terminal" /\ frame[t] \in FrameShape
      /\ UNCHANGED <<planVars, stepVars, opVars, cardVars, shown, worldVars>>
  BY LabelFacts DEF BindTerminal, Given
<1>1. CASE /\ Bound(frame[t].int) /\ UNCHANGED lockVars
           /\ Goto(t, "terminal_lock", [frame[t] EXCEPT !.step = BoundStep(frame[t].int)])
  <2> DEFINE i == frame[t].int
             s == BoundStep(i)
             k == [frame[t] EXCEPT !.step = s]
  <2>1. s \in Steps /\ step_int[s] = i
    BY <1>1 DEF Bound, BoundStep
  <2>2. k.int = i /\ k.step = s /\ Goto(t, "terminal_lock", k)
    BY <1>0, <1>1 DEF FrameShape
  <2> HIDE DEF k, s
  <2>3. pc'[t] = "terminal_lock" /\ frame'[t] = k /\ card' = card /\ step_int' = step_int
        /\ shown' = shown
    BY <1>0, <2>2, Moves DEF Given, cardVars, stepVars
  <2>4. LoopFits(t)'
    <3>1. LoopFits(t)
      BY DEF Given, PromiseInv, WorkFits
    <3> QED BY <1>0, <2>1, <2>2, <2>3, <3>1 DEF LoopFits
  <2>5. LockHolds(t)
    BY <1>1, LockSame DEF lockVars
  <2> QED BY <1>0, <2>2, <2>4, <2>5, LoopMoves DEF Loops
<1>2. CASE Return(t)
  BY <1>0, <1>2, ReturnKeeps
<1> QED BY <1>1, <1>2 DEF BindTerminal

LEMMA RecoverWaitingGoesOn ==
    ASSUME Given, NEW t \in Threads, RecoverWaiting(t)
    PROVE  Kept
<1> DEFINE i == step_int[current_step]
           k == [EmptyFrame EXCEPT !.int = i]
<1>1. /\ Goto(t, "terminal", k) /\ TerminalCard(card[i]) /\ pc[t] = "idle" /\ LockHolds(t)
      /\ UNCHANGED <<planVars, stepVars, opVars, cardVars, shown, worldVars>>
      /\ plan_state = "waiting_user" /\ commit_op = Null
  BY LockSame DEF RecoverWaiting, Recovering, LockPlanAndGoto
<1>2. k.int = i
  BY DEF EmptyFrame
<1>3. i # Null /\ i \in shown
  BY <1>1, Phases DEF Given, PromiseInv, OpenFits, SeenFits, ActivePlanStates
<1> HIDE DEF k, i
<1>4. pc'[t] = "terminal" /\ frame'[t] = k /\ card' = card /\ shown' = shown
  BY <1>1, Moves DEF Given, cardVars
<1>5. LoopFits(t)'
  BY <1>1, <1>2, <1>3, <1>4 DEF LoopFits
<1> QED BY <1>1, <1>5, LoopMoves DEF Loops

\* Before the operation of a resumed interaction has had an effect.
LEMMA EarlyCall ==
    ASSUME Given, NEW t \in Threads, pc[t] \in Early, frame[t].op \in ResumeOps
    PROVE  /\ t \in Hosts /\ ~Committing
           /\ frame[t].op[2] \in Interactions /\ frame[t].op[2] \in shown
           /\ card[frame[t].op[2]] # "consumed"
           /\ frame[t].int = frame[t].op[2]
           /\ frame[t].bound \/ (Over /\ ~Bound(frame[t].op[2]))
           /\ Open => /\ plan_state = "waiting_user" /\ Bound(frame[t].op[2])
                      /\ \A i \in shown : Used(i) \/ i = frame[t].op[2]
<1> USE DEF Given
<1>1. WorkFits(t) /\ pc[t] \in {"invoke"} \cup Executing
  BY DEF PromiseInv, Early, Executing
<1>2. frame[t].op[2] \in Interactions /\ frame[t].op[2] \in shown /\ frame[t].op[2] # Null
  <2>1. OpFits(t)
    BY DEF PlanInv, ThreadFits
  <2> QED BY <1>1, <2>1, Operations, NullAssumption DEF OpFits
<1>3. /\ t \in Hosts /\ ~Committing /\ card[frame[t].op[2]] # "consumed"
      /\ frame[t].int = frame[t].op[2]
      /\ frame[t].bound \/ (Over /\ ~Bound(frame[t].op[2]))
  BY <1>1 DEF WorkFits, OwnFits, CallFits
<1>4. ASSUME Open
      PROVE  /\ plan_state = "waiting_user" /\ Bound(frame[t].op[2])
             /\ \A i \in shown : Used(i) \/ i = frame[t].op[2]
  <2>1. Bound(frame[t].op[2])
    BY <1>2, <1>3, <1>4 DEF PromiseInv, OpenFits, Used
  <2>2. PICK s \in Steps : step_int[s] = frame[t].op[2]
    BY <2>1 DEF Bound
  <2>3. plan_state = "waiting_user" /\ s = current_step
    BY <1>2, <1>4, <2>2 DEF PromiseInv, OpenFits
  <2>4. ASSUME NEW i \in shown, ~Used(i)
        PROVE  i = frame[t].op[2]
    <3>1. PICK r \in Steps : step_int[r] = i
      BY <1>4, <2>4 DEF PromiseInv, OpenFits, Bound
    <3>2. i # Null
      BY <2>4 DEF PromiseInv, SeenFits
    <3>3. r = current_step
      BY <1>4, <3>1, <3>2 DEF PromiseInv, OpenFits
    <3> QED BY <2>2, <2>3, <3>1, <3>3
  <2> QED BY <2>1, <2>3, <2>4
<1> QED BY <1>2, <1>3, <1>4

LEMMA BindGoesOn ==
    ASSUME Given, NEW t \in Threads, BindInteraction(t)
    PROVE  Kept
<1> DEFINE i == frame[t].int
<1> USE DEF Given
<1>0. /\ i \in Interactions /\ i \in shown /\ pc[t] = "bind" /\ LoopFits(t) /\ i # Null
      /\ UNCHANGED <<planVars, stepVars, opVars, cardVars, shown, worldVars>>
  BY LabelFacts, NullAssumption DEF BindInteraction, PromiseInv, WorkFits
<1>1. ~MustReject(i)
  BY DEF MustReject, PromiseInv
<1>2. CASE /\ Goto(t, "terminal", [EmptyFrame EXCEPT !.int = i]) /\ UNCHANGED lockVars
           /\ TerminalCard(frame[t].seen)
  <2> DEFINE k == [EmptyFrame EXCEPT !.int = i]
  <2>1. k.int = i /\ Goto(t, "terminal", k)
    BY <1>2 DEF EmptyFrame
  <2> HIDE DEF k
  <2>2. pc'[t] = "terminal" /\ frame'[t] = k /\ card' = card /\ shown' = shown
    BY <1>0, <2>1, Moves DEF cardVars
  <2>3. TerminalCard(card[i])
    BY <1>0, <1>2 DEF LoopFits
  <2>4. LoopFits(t)'
    BY <1>0, <2>1, <2>2, <2>3 DEF LoopFits
  <2>5. LockHolds(t)
    BY <1>2, LockSame DEF lockVars
  <2> QED BY <1>0, <2>1, <2>4, <2>5, LoopMoves DEF Loops
<1>3. CASE Return(t)
  BY <1>0, <1>3, ReturnKeeps
<1>4. ASSUME NEW x \in Keys, UNCHANGED lockVars, ReadyCard(frame[t].seen),
             Goto(t, "invoke", [EmptyFrame EXCEPT !.int = i, !.bound = Bound(i),
                                                  !.op = <<"resume", i, x>>])
      PROVE  Kept
  <2> DEFINE o == <<"resume", i, x>>
             k == [EmptyFrame EXCEPT !.int = i, !.bound = Bound(i), !.op = o]
  <2>1. o \in ResumeOps /\ o \notin StepOps /\ o[2] = i
    BY <1>0, Operations DEF OpIds
  <2>2. k.int = i /\ k.bound = Bound(i) /\ k.op = o /\ Goto(t, "invoke", k)
    BY <1>4 DEF EmptyFrame
  <2> HIDE DEF k, o
  <2>3. /\ pc'[t] = "invoke" /\ frame'[t] = k /\ card' = card
        /\ Over' = Over /\ Committing' = Committing /\ Bound(i)' = Bound(i)
    BY <1>0, <2>2, Moves DEF cardVars, planVars, stepVars, Over, Committing, Bound
  <2>4. t \in Hosts /\ card[i] # "consumed"
    BY <1>0, <1>4 DEF LoopFits, ReadyCard
  <2>5. ~Committing /\ (Open => Bound(i))
    BY <1>0, <2>4 DEF PromiseInv, CommitFits, OpenFits, Used
  <2>6. CallFits(t)'
    <3>1. "invoke" \notin Writing \cup {"finish", "respond"}
      BY DEF Writing
    <3> QED BY <2>1, <2>2, <2>3, <2>4, <2>5, <3>1, Phases DEF CallFits
  <2>7. "invoke" \notin Executing \cup Writing \cup Answering
    BY DEF Executing, Writing, Answering
  <2>8. WorkFits(t)'
    BY <2>1, <2>2, <2>3, <2>4, <2>6, <2>7
       DEF WorkFits, LoopFits, StepFits, OwnFits, FinishFits, AnswerFits
  <2>9. LockHolds(t)
    BY <1>4, LockSame DEF lockVars
  <2> QED BY <1>0, <2>2, <2>7, <2>8, <2>9, Calm
<1> QED BY <1>1, <1>2, <1>3, <1>4, Zenon DEF BindInteraction

LEMMA AnswerGoesOn ==
    ASSUME Given, NEW t \in Threads, AnswerResume(t)
    PROVE  Kept
<1> USE DEF Given
<1> DEFINE i == frame[t].int
<1>0. /\ pc[t] = "respond" /\ frame[t] \in FrameShape /\ WorkFits(t)
      /\ UNCHANGED <<planVars, stepVars, opVars, cardVars, worldVars>>
      /\ frame[t].op \in ResumeOps /\ i = frame[t].op[2] /\ i # Null /\ t \in Hosts
      /\ frame[t].op \notin StepOps
  <2>1. pc[t] = "respond" /\ frame[t] \in FrameShape /\ WorkFits(t)
    BY LabelFacts DEF AnswerResume, PromiseInv
  <2>2. frame[t].op \in ResumeOps
    BY <2>1 DEF WorkFits, OwnFits
  <2> QED BY <2>1, <2>2, Operations, NullAssumption
          DEF AnswerResume, WorkFits, OwnFits, CallFits, OpIds
<1>1. CASE /\ Bound(i) /\ UNCHANGED <<shown, lockVars>>
           /\ Goto(t, "relock", [frame[t] EXCEPT !.step = BoundStep(i)])
  <2> DEFINE s == BoundStep(i)
             k == [frame[t] EXCEPT !.step = s]
  <2>1. s \in Steps /\ step_int[s] = i
    BY <1>1 DEF Bound, BoundStep
  <2>2. k.op = frame[t].op /\ k.step = s /\ k.resp = frame[t].resp /\ Goto(t, "relock", k)
    BY <1>0, <1>1 DEF FrameShape
  <2>3. (Open \/ Committing) => s = current_step
    BY <1>0, <2>1 DEF PromiseInv, OpenFits, CommitFits
  <2> HIDE DEF k, s
  <2>4. /\ pc'[t] = "relock" /\ frame'[t] = k
        /\ UNCHANGED <<planVars, stepVars, opVars, cardVars, shown>>
    BY <1>0, <1>1, <2>2, Moves
  <2>5. /\ Over' = Over /\ Committing' = Committing /\ Open' = Open /\ Recorded' = Recorded
        /\ \A r, o : Harmless(r, o)' = Harmless(r, o)
        /\ current_step' = current_step /\ commit_op' = commit_op /\ op_state' = op_state
    BY <2>4 DEF planVars, stepVars, opVars, cardVars, Over, Committing, Open, Recorded, Harmless, AskedFor, Used
  <2>6. AnswerFits(t)'
    <3>1. pc[t] \in Answering
      BY <1>0 DEF Answering
    <3> HIDE DEF i
    <3> QED BY <1>0, <2>2, <2>3, <2>4, <2>5, <3>1 DEF WorkFits, AnswerFits
  <2>7. "relock" \notin Executing \cup Writing \cup {"invoke", "consume"}
    BY DEF Executing, Writing
  <2>8. WorkFits(t)'
    BY <1>0, <2>2, <2>4, <2>5, <2>6, <2>7
       DEF WorkFits, LoopFits, StepFits, OwnFits, CallFits, FinishFits, Answering
  <2>9. LockHolds(t)
    BY <1>1, LockSame DEF lockVars
  <2> QED BY <1>0, <1>1, <2>2, <2>7, <2>8, <2>9, Calm
<1>2. CASE /\ ~(frame[t].bound /\ Bound(i)) /\ Return(t)
           /\ shown' = shown \cup ({frame[t].resp.int} \ {Null})
  <2>1. frame[t].resp.int \in shown \cup {Null}
    BY <1>0, <1>2 DEF WorkFits, CallFits
  <2>2. shown' = shown
    BY <1>2, <2>1
  <2> QED BY <1>0, <1>2, <2>2, ReturnKeeps
<1> QED BY <1>1, <1>2, Zenon DEF AnswerResume

LEMMA AfterCapabilityGoesOn ==
    ASSUME Given, NEW t \in Threads, ResumeAfterCapability(t)
    PROVE  Kept
<1> USE DEF Given
<1>0. /\ pc[t] = "relock" /\ frame[t] \in FrameShape /\ WorkFits(t) /\ LockHolds(t)
      /\ UNCHANGED <<planVars, stepVars, opVars, cardVars, shown, worldVars>>
      /\ frame[t].op \in ResumeOps /\ t \in Hosts /\ frame[t].op \notin StepOps
  <2>1. pc[t] = "relock" /\ frame[t] \in FrameShape /\ WorkFits(t) /\ LockHolds(t)
    BY LabelFacts, LockSame DEF ResumeAfterCapability, PromiseInv, MayLockPlan
  <2>2. frame[t].op \in ResumeOps
    BY <2>1 DEF WorkFits, OwnFits
  <2> QED BY <2>1, <2>2, Operations DEF ResumeAfterCapability, WorkFits, OwnFits, OpIds
<1>1. CASE /\ plan_state \in ActivePlanStates
           /\ LockPlanAndGoto(t, "consume", [frame[t] EXCEPT !.int = Null, !.bound = FALSE])
  <2> DEFINE k == [frame[t] EXCEPT !.int = Null, !.bound = FALSE]
  <2>1. /\ k.op = frame[t].op /\ k.step = frame[t].step /\ k.resp = frame[t].resp
        /\ Goto(t, "consume", k)
    BY <1>0, <1>1 DEF FrameShape, LockPlanAndGoto
  <2> HIDE DEF k
  <2>2. /\ pc'[t] = "consume" /\ frame'[t] = k /\ ~Over
        /\ UNCHANGED <<planVars, stepVars, opVars, cardVars, shown>>
    BY <1>0, <1>1, <2>1, Moves, Phases
  <2>3. /\ Over' = Over /\ Committing' = Committing /\ Open' = Open /\ Recorded' = Recorded
        /\ \A r, o : Harmless(r, o)' = Harmless(r, o)
        /\ current_step' = current_step /\ commit_op' = commit_op /\ op_state' = op_state
    BY <2>2 DEF planVars, stepVars, opVars, cardVars, Over, Committing, Open, Recorded, Harmless, AskedFor, Used
  <2>4. AnswerFits(t)'
    <3>1. pc[t] \in Answering
      BY <1>0 DEF Answering
    <3> QED BY <1>0, <2>1, <2>2, <2>3, <3>1 DEF WorkFits, AnswerFits
  <2>5. "consume" \notin Executing \cup Writing \cup {"invoke"}
    BY DEF Executing, Writing
  <2>6. WorkFits(t)'
    BY <1>0, <2>1, <2>2, <2>3, <2>4, <2>5
       DEF WorkFits, LoopFits, StepFits, OwnFits, CallFits, FinishFits, Answering
  <2> QED BY <1>0, <2>1, <2>5, <2>6, Calm
<1>2. CASE LockPlanAndGoto(t, "retire",
             [EmptyFrame EXCEPT !.retire = (StepInteractions \cup {frame[t].resp.int}) \ {Null}])
  <2> DEFINE k == [EmptyFrame EXCEPT !.retire = (StepInteractions \cup {frame[t].resp.int}) \ {Null}]
  <2>1. Goto(t, "retire", k)
    BY <1>2 DEF LockPlanAndGoto
  <2> HIDE DEF k
  <2>2. WorkFits(t)' /\ "retire" \notin Executing
    BY <2>1, Moves, AtRest DEF Rest, Executing
  <2> QED BY <1>0, <2>1, <2>2, Calm
<1> QED BY <1>1, <1>2 DEF ResumeAfterCapability

LEMMA RetireGoesOn ==
    ASSUME Given, NEW t \in Threads, Retire(t)
    PROVE  Kept
<1> USE DEF Given
<1>0. /\ pc[t] = "retire" /\ frame[t] \in FrameShape
      /\ UNCHANGED <<planVars, stepVars, opVars, shown, worldVars>>
  BY LabelFacts DEF Retire
<1>1. /\ PlanStays /\ step_state' = step_state /\ UNCHANGED <<request, writes>>
      /\ op_state' = op_state /\ op_int' = op_int /\ OpsGo
      /\ Committing => Result(commit_op[2], op_state'[commit_op], op_int'[commit_op])
  BY <1>0 DEF PlanStays, planVars, stepVars, worldVars, opVars, OpsGo, PromiseInv, CommitFits
<1>2. CASE frame[t].retire = {} /\ Return(t) /\ UNCHANGED cardVars
  <2>1. Goto(t, "idle", EmptyFrame) /\ LockHolds(t) /\ card' = card
    BY <1>2, LockSame DEF Return, cardVars
  <2>2. CardsGo(t) /\ OpsFit'
    BY <1>1, <2>1 DEF CardsGo, PromiseInv, OpsFit
  <2>3. /\ WorkFits(t)' /\ pc'[t] \notin Executing
        /\ \A u \in Threads : u # t => pc'[u] = pc[u] /\ frame'[u] = frame[u]
    BY <2>1, Moves, AtRest DEF Rest, Executing
  <2> QED BY <1>1, <1>2, <2>1, <2>2, <2>3, Routine DEF Kept
<1>3. ASSUME NEW i \in frame[t].retire, card' = Superseding({i}), UNCHANGED <<consumer, lockVars>>,
             Goto(t, "retire", [frame[t] EXCEPT !.retire = @ \ {i}])
      PROVE  Kept
  <2> DEFINE k == [frame[t] EXCEPT !.retire = @ \ {i}]
  <2>1. k.retire = frame[t].retire \ {i} /\ Goto(t, "retire", k) /\ LockHolds(t)
    BY <1>0, <1>3, LockSame DEF FrameShape, lockVars
  <2> HIDE DEF k
  <2>2. \A j \in Interactions :
           card'[j] = IF j = i /\ card[j] \in LiveCards THEN "superseded" ELSE card[j]
    BY <1>3 DEF Superseding
  <2>3. CardsGo(t)
    BY <2>2 DEF CardsGo, LiveCards, TerminalCard
  <2>4. OpsFit'
    <3>1. \A o \in ResumeOps : o[2] \in Interactions
      BY Operations
    <3>2. \A o \in ResumeOps : card[o[2]] = "consumed" => card'[o[2]] = "consumed"
      BY <2>3, <3>1 DEF CardsGo
    <3> QED BY <1>1, <3>2 DEF PromiseInv, OpsFit
  <2>5. /\ WorkFits(t)' /\ pc'[t] \notin Executing /\ pc'[t] = "retire" /\ frame'[t] = k
        /\ \A u \in Threads : u # t => pc'[u] = pc[u] /\ frame'[u] = frame[u]
    BY <2>1, Moves, AtRest DEF Rest, Executing
  <2>6. \A j \in Interactions : j \in frame[t].retire => j \in k.retire \/ card'[j] \notin LiveCards
    BY <2>1, <2>2 DEF LiveCards
  <2> QED BY <1>1, <2>1, <2>3, <2>4, <2>5, <2>6, Routine DEF Kept
<1> QED BY <1>2, <1>3 DEF Retire

-----------------------------------------------------------------------------
(* Operations: nobody sees what they do before they are finished.            *)

LEMMA InsideGoesOn ==
    ASSUME Given, NEW t \in Threads, pc[t] \in Executing,
           NEW label \in Executing \ Writing, NEW k, Goto(t, label, k),
           k.op = frame[t].op, k.step = frame[t].step,
           PlanStays, step_state' = step_state, UNCHANGED opVars, UNCHANGED <<request, writes>>,
           LockHolds(t), CardsGo(t),
           frame[t].op \in StepOps /\ label = "finish" =>
               k.resp.st \notin {"unknown", "absent", "running"},
           frame[t].op \in ResumeOps => CallFits(t)' /\ FinishFits(t)'
    PROVE  Kept
<1> USE DEF Given
<1>0. /\ pc'[t] = label /\ frame'[t] = k
      /\ \A u \in Threads : u # t => pc'[u] = pc[u] /\ frame'[u] = frame[u]
  BY Moves
<1>1. /\ op_state' = op_state /\ op_int' = op_int /\ OpsGo
      /\ Committing => Result(commit_op[2], op_state'[commit_op], op_int'[commit_op])
  BY DEF opVars, OpsGo, PromiseInv, CommitFits
<1>2. OpsFit'
  <2>1. \A o \in ResumeOps : card[o[2]] = "consumed" => card'[o[2]] = "consumed"
    BY Operations DEF CardsGo
  <2> QED BY <1>1, <2>1 DEF PromiseInv, OpsFit
<1>3. WorkFits(t)'
  <2>1. /\ WorkFits(t) /\ frame[t].op \in OpIds
        /\ frame[t].op \in StepOps => frame[t].op \notin ResumeOps
        /\ frame[t].op \in ResumeOps => frame[t].op \notin StepOps
    BY ExecutingFacts, Operations DEF PromiseInv
  <2>2. /\ label \in {"handler", "prepare", "consume_field", "boundary", "finish"}
        /\ label \notin Answering
    BY DEF Executing, Writing, Answering
  <2>3. LoopFits(t)' /\ AnswerFits(t)'
    BY <1>0, <2>2 DEF LoopFits, AnswerFits
  <2>4. StepFits(t)'
    BY <1>0, <2>1, <2>2 DEF WorkFits, StepFits, PlanStays
  <2>5. OwnFits(t)'
    BY <1>0, <2>1, <2>2 DEF WorkFits, OwnFits
  <2>6. CallFits(t)' /\ FinishFits(t)'
    <3>1. CASE frame[t].op \in ResumeOps
      BY <3>1
    <3>2. CASE frame[t].op \notin ResumeOps
      BY <1>0, <3>2 DEF CallFits, FinishFits
    <3> QED BY <3>1, <3>2
  <2> QED BY <2>3, <2>4, <2>5, <2>6 DEF WorkFits
<1>4. pc[t] # "retire"
  BY DEF Executing
<1> QED BY <1>0, <1>1, <1>2, <1>3, <1>4, Routine DEF Kept

LEMMA OutcomeFrame ==
    ASSUME NEW t \in Threads, frame[t] \in FrameShape, NEW st, NEW i, Outcome(t, st, i)
    PROVE  \E k : /\ Goto(t, "finish", k)
                  /\ k.op = frame[t].op /\ k.step = frame[t].step /\ k.int = frame[t].int
                  /\ k.bound = frame[t].bound /\ k.resp.st = st /\ k.resp.int = i
<1> DEFINE k == [frame[t] EXCEPT !.resp = [st |-> st, int |-> i]]
<1>1. /\ k.op = frame[t].op /\ k.step = frame[t].step /\ k.int = frame[t].int
      /\ k.bound = frame[t].bound /\ k.resp.st = st /\ k.resp.int = i
  BY DEF FrameShape
<1>2. Goto(t, "finish", k)
  BY DEF Outcome
<1> HIDE DEF k
<1> QED BY <1>1, <1>2

\* No card and no row has changed.
LEMMA SameRows ==
    ASSUME UNCHANGED <<planVars, stepVars, opVars, cardVars, shown, worldVars, lockVars>>, NEW t
    PROVE  /\ PlanStays /\ step_state' = step_state /\ UNCHANGED opVars
           /\ UNCHANGED <<request, writes>> /\ LockHolds(t) /\ CardsGo(t)
           /\ card' = card /\ shown' = shown /\ plan_state' = plan_state
           /\ Over' = Over /\ Open' = Open /\ Committing' = Committing
           /\ \A i : Bound(i)' = Bound(i)
<1>1. UNCHANGED <<plan_state, current_step, commit_op, step_int, step_state, shown, authority,
                   request, writes, card, plan_lock, opVars>>
  BY DEF planVars, stepVars, cardVars, worldVars, lockVars
<1>2. CardsGo(t)
  BY <1>1 DEF CardsGo, TerminalCard
<1> QED BY <1>1, <1>2 DEF LockHolds, PlanStays, Over, Open, Committing, Bound

LEMMA StepOutcomeGoesOn ==
    ASSUME Given, NEW t \in Threads, pc[t] \in Executing, frame[t].op \in StepOps,
           PlanStays, step_state' = step_state, UNCHANGED opVars, UNCHANGED <<request, writes>>,
           LockHolds(t), CardsGo(t),
           NEW st, st \notin {"unknown", "absent", "running"}, NEW i, Outcome(t, st, i)
    PROVE  Kept
<1>1. PICK k : /\ Goto(t, "finish", k) /\ k.op = frame[t].op /\ k.step = frame[t].step
               /\ k.resp.st = st
  BY ExecutingFacts, OutcomeFrame DEF Given
<1>2. "finish" \in Executing \ Writing /\ frame[t].op \notin ResumeOps
  BY Operations DEF Executing, Writing
<1> QED BY <1>1, <1>2, InsideGoesOn

\* The call ends before its interaction is used up.
LEMMA EarlyOutcomeGoesOn ==
    ASSUME Given, NEW t \in Threads, pc[t] \in Executing, pc[t] \in Early, frame[t].op \in ResumeOps,
           UNCHANGED <<planVars, stepVars, opVars, cardVars, shown, worldVars, lockVars>>,
           NEW st \in {"failed", "requires_user_action"}, NEW i \in {Null, frame[t].op[2]},
           Outcome(t, st, i)
    PROVE  Kept
<1> DEFINE o == frame[t].op
<1>0. frame[t] \in FrameShape
  BY ExecutingFacts DEF Given
<1>1. PICK k : /\ Goto(t, "finish", k) /\ k.op = o /\ k.step = frame[t].step
               /\ k.int = frame[t].int /\ k.bound = frame[t].bound
               /\ k.resp.st = st /\ k.resp.int = i
  BY <1>0, OutcomeFrame
<1>2. "finish" \in Executing \ Writing /\ "finish" \notin Early \cup Writing /\ o \notin StepOps
  BY Operations DEF Executing, Writing, Early
<1>3. pc'[t] = "finish" /\ frame'[t] = k
  BY <1>1, Moves DEF Given
<1>4. CallFits(t)'
  BY <1>1, <1>2, <1>3, EarlyCall, SameRows DEF CallFits
<1>5. FinishFits(t)'
  <2>1. ASSUME Open
        PROVE  Harmless(k.resp, k.op)'
    <3>1. AskedFor(k.resp, k.op) = k.op[2]
      BY <1>1 DEF AskedFor
    <3>2. /\ plan_state = "waiting_user"
          /\ \A j \in shown : Used(j) \/ j = k.op[2]
      BY <1>1, <2>1, EarlyCall
    <3>3. k.resp.st \in {"failed", "running", "requires_user_action"}
      BY <1>1
    <3> QED BY <3>1, <3>2, <3>3, SameRows DEF Harmless, Used, AskedFor
  <2> QED BY <1>1, <1>3, <2>1, EarlyCall, SameRows DEF FinishFits, OwnEnds
<1> QED BY <1>1, <1>2, <1>4, <1>5, SameRows, InsideGoesOn

\* The handler goes on, and still nothing has happened.
LEMMA HandlerGoesOn ==
    ASSUME Given, NEW t \in Threads, pc[t] \in Executing, pc[t] \in Early, frame[t].op \in ResumeOps,
           UNCHANGED <<planVars, stepVars, opVars, cardVars, shown, worldVars, lockVars>>,
           NEW label \in {"prepare", "boundary"}, Goto(t, label, frame[t])
    PROVE  Kept
<1>1. label \in Executing \ Writing /\ label \in Early /\ label \notin {"finish", "respond"} \cup Writing
  BY DEF Executing, Writing, Early
<1>2. pc'[t] = label /\ frame'[t] = frame[t]
  BY Moves DEF Given
<1>3. CallFits(t)' /\ FinishFits(t)'
  BY <1>1, <1>2, EarlyCall, SameRows DEF CallFits, FinishFits
<1>4. frame[t].op \notin StepOps
  BY Operations
<1> QED BY <1>1, <1>3, <1>4, SameRows, InsideGoesOn

LEMMA SourceGoesOn ==
    ASSUME Given, NEW t \in Threads, ReadSource(t) \/ FailBeforeBoundary(t)
    PROVE  Kept
<1>0. /\ UNCHANGED <<planVars, stepVars, opVars, cardVars, shown, worldVars, lockVars>>
      /\ pc[t] \in Executing
  BY HandlesFacts DEF ReadSource, FailBeforeBoundary, Executing, Given
<1>1. CASE \E st \in {"succeeded", "empty", "incomplete", "failed"} :
              Outcome(t, st, Null) /\ frame[t].op \in StepOps
  BY <1>0, <1>1, SameRows, StepOutcomeGoesOn
<1>2. CASE pc[t] \in {"prepare", "boundary"} /\ Outcome(t, "failed", Null)
  <2>1. frame[t].op \in ResumeOps
    BY <1>0, <1>2, ExecutingFacts DEF CardFits, Given
  <2>2. pc[t] \in Early
    BY <1>2 DEF Early
  <2> QED BY <1>0, <1>2, <2>1, <2>2, EarlyOutcomeGoesOn
<1> QED BY <1>1, <1>2, HandlesFacts DEF ReadSource, FailBeforeBoundary, Given

LEMMA LoadGoesOn ==
    ASSUME Given, NEW t \in Threads, GetSubmission(t) \/ GetAuthorization(t)
    PROVE  Kept
<1> DEFINE i == frame[t].op[2]
<1>1. /\ UNCHANGED <<planVars, stepVars, opVars, cardVars, shown, worldVars, lockVars>>
      /\ pc[t] \in Early /\ pc[t] \in Executing /\ frame[t].op \in ResumeOps
      /\ \/ Outcome(t, "requires_user_action", i) \/ Outcome(t, "requires_user_action", Null)
         \/ Goto(t, "prepare", frame[t]) \/ Goto(t, "boundary", frame[t])
  BY HandlesFacts DEF GetSubmission, GetAuthorization, Early, Given
<1> HIDE DEF i
<1>2. CASE Outcome(t, "requires_user_action", i) \/ Outcome(t, "requires_user_action", Null)
  BY <1>1, <1>2, EarlyOutcomeGoesOn DEF i
<1>3. CASE Goto(t, "prepare", frame[t]) \/ Goto(t, "boundary", frame[t])
  BY <1>1, <1>3, HandlerGoesOn
<1> QED BY <1>1, <1>2, <1>3

\* Of the authorizations, the live ones give way to the new one.
LEMMA NewAuthGoes ==
    ASSUME Given, NEW t, card' = WithNewAuth
    PROVE  /\ CardsGo(t) /\ NextAuth # Null
           /\ \A i \in Interactions : card'[i] = "consumed" <=> card[i] = "consumed"
<1> USE DEF Given
<1>1. /\ NextAuth \in {"auth"} \X Nat /\ NextAuth \notin Fields
      /\ \A a \in Auths : card[a] # "absent" => a[2] < NextAuth[2]
      /\ \A i \in Interactions : card'[i] = "consumed" <=> card[i] = "consumed"
  BY NewAuthorization
<1>2. NextAuth \in Auths => card[NextAuth] = "absent" /\ NextAuth \in Interactions
  <2>1. NextAuth[2] \in Nat /\ ~(NextAuth[2] < NextAuth[2])
    BY <1>1
  <2> QED BY <1>1, <2>1, Cards
<1>3. NextAuth \notin Auths => NextAuth \notin Interactions
  BY <1>1 DEF Interactions
<1>4. NextAuth \in Auths => NextAuth \notin shown
  BY <1>2 DEF PlanInv, AuthsKnown, Visible, Known
<1>5. \A i \in Interactions :
         card'[i] = IF i = NextAuth THEN "pending"
                    ELSE IF i \in Auths /\ card[i] \in LiveCards THEN "superseded" ELSE card[i]
  BY <1>2, <1>3 DEF WithNewAuth, Superseding
<1>6. NextAuth # Null
  BY <1>1, NullAssumption
<1> HIDE DEF Given
<1>7. CardsGo(t)
  BY <1>1, <1>2, <1>3, <1>4, <1>5 DEF CardsGo, TerminalCard, LiveCards
<1> QED BY <1>1, <1>6, <1>7

LEMMA CreateGoesOn ==
    ASSUME Given, NEW t \in Threads, CreateAuthorization(t)
    PROVE  Kept
<1> DEFINE k == [frame[t] EXCEPT !.resp.int = NextAuth]
<1>0. /\ pc[t] \in Executing /\ pc[t] \in Early /\ frame[t] \in FrameShape
      /\ frame[t].op \in ResumeOps /\ frame[t].op \notin StepOps
      /\ UNCHANGED <<planVars, stepVars, opVars, consumer, shown, worldVars, lockVars>>
      /\ card' = WithNewAuth
  BY ExecutingFacts, Operations DEF CreateAuthorization, Executing, Early, CardFits, Given
<1>1. /\ k.op = frame[t].op /\ k.step = frame[t].step /\ k.int = frame[t].int
      /\ k.bound = frame[t].bound /\ Goto(t, "consume_field", k)
  BY <1>0 DEF FrameShape, CreateAuthorization
<1> HIDE DEF k
<1>2. /\ "consume_field" \in Executing \ Writing
      /\ "consume_field" \notin Writing \cup {"finish", "respond"}
  BY DEF Executing, Writing
<1>3. pc'[t] = "consume_field" /\ frame'[t] = k
  BY <1>1, Moves DEF Given
<1>4. /\ PlanStays /\ step_state' = step_state /\ UNCHANGED <<request, writes>> /\ LockHolds(t)
      /\ Over' = Over /\ Committing' = Committing /\ \A i : Bound(i)' = Bound(i)
  BY <1>0 DEF PlanStays, planVars, stepVars, worldVars, lockVars, LockHolds, Over, Committing, Bound
<1>5. card'[frame[t].op[2]] # "consumed"
  BY <1>0, EarlyCall, NewAuthGoes
<1>6. CallFits(t)' /\ FinishFits(t)'
  BY <1>0, <1>1, <1>2, <1>3, <1>4, <1>5, EarlyCall DEF CallFits, FinishFits
<1> QED BY <1>0, <1>1, <1>2, <1>4, <1>6, NewAuthGoes, InsideGoesOn

\* What is still live in a call is bound to the plan: nobody has ended the plan
\* and left the card behind.
LEMMA LiveIsBound ==
    ASSUME Given, NEW t \in Threads, pc[t] \in Executing, pc[t] \in Early, frame[t].op \in ResumeOps,
           card[frame[t].op[2]] \in LiveCards
    PROVE  Bound(frame[t].op[2]) /\ frame[t].bound
<1> DEFINE i == frame[t].op[2]
<1>1. /\ t \in Hosts /\ i \in Interactions /\ i \in shown /\ ~Committing
      /\ frame[t].bound \/ (Over /\ ~Bound(i))
      /\ Open => Bound(i)
  BY EarlyCall
<1>2. frame[t].op = <<"resume", i, frame[t].op[3]>> /\ frame[t].op[3] \in Keys
  BY Operations
<1>3. pc[t] # "retire"
  BY DEF Executing
<1> HIDE DEF i
<1>4. ~Forsaken(i)
  <2>1. CASE MaxCrashes = 0
    BY <1>1, <1>3, <2>1 DEF Forsaken, Given, Undisturbed
  <2>2. CASE MaxCrashes # 0
    BY <1>2, <2>2 DEF Forsaken
  <2> QED BY <2>1, <2>2
<1>5. Over => Bound(i)
  BY <1>1, <1>4 DEF Given, PromiseInv, OverFits, i
<1> QED BY <1>1, <1>5, Phases DEF i

LEMMA SubmissionGoesOn ==
    ASSUME Given, NEW t \in Threads, ConsumeSubmission(t)
    PROVE  Kept
<1> DEFINE f == frame[t].op[2]
<1>0. /\ pc[t] \in Executing /\ pc[t] \in Early /\ frame[t] \in FrameShape
      /\ frame[t].op \in ResumeOps /\ frame[t].op \notin StepOps /\ f \in Interactions
      /\ UNCHANGED <<planVars, stepVars, opVars, shown, worldVars, lockVars>>
      /\ f \in shown /\ t \in Hosts
  BY ExecutingFacts, Operations, EarlyCall
     DEF ConsumeSubmission, Executing, Early, CardFits, Given
<1>1. CASE /\ card[f] = "submitted" /\ card' = [card EXCEPT ![f] = "consumed"]
           /\ Outcome(t, "requires_user_action", frame[t].resp.int)
  <2>1. PICK k : /\ Goto(t, "finish", k) /\ k.op = frame[t].op /\ k.step = frame[t].step
                 /\ k.int = frame[t].int /\ k.bound = frame[t].bound
                 /\ k.resp.st = "requires_user_action" /\ k.resp.int = frame[t].resp.int
    BY <1>0, <1>1, OutcomeFrame
  <2>2. "finish" \in Executing \ Writing /\ "finish" \notin Early \cup Writing
    BY DEF Executing, Writing, Early
  <2>3. pc'[t] = "finish" /\ frame'[t] = k
    BY <2>1, Moves DEF Given
  <2>4. /\ PlanStays /\ step_state' = step_state /\ UNCHANGED <<request, writes>> /\ LockHolds(t)
        /\ Over' = Over /\ Open' = Open /\ Committing' = Committing /\ \A i : Bound(i)' = Bound(i)
        /\ shown' = shown /\ plan_state' = plan_state
    BY <1>0 DEF PlanStays, planVars, stepVars, worldVars, lockVars, LockHolds, Over, Committing,
                Open, Bound
  <2>5. card'[f] = "consumed" /\ \A i \in Interactions : i # f => card'[i] = card[i]
    BY <1>0, <1>1 DEF Given, PlanInv, Rows, OtherRows
  <2>6. CardsGo(t)
    BY <1>0, <1>1, <2>5 DEF CardsGo, TerminalCard, LiveCards
  <2>7. Bound(f) /\ frame[t].bound
    BY <1>0, <1>1, LiveIsBound DEF LiveCards
  <2>8. CallFits(t)'
    BY <1>0, <2>1, <2>2, <2>3, <2>4, <2>5, <2>7, EarlyCall DEF CallFits
  <2>9. ASSUME Open
        PROVE  Harmless(k.resp, k.op)'
    <3>1. /\ plan_state = "waiting_user"
          /\ \A j \in shown : Used(j) \/ j = f
      BY <1>0, <2>9, EarlyCall
    <3>2. \A j \in shown : Used(j)'
      BY <1>0, <2>5, <3>1 DEF Used
    <3> QED BY <2>1, <2>4, <3>1, <3>2 DEF Harmless
  <2>10. FinishFits(t)'
    BY <1>0, <2>1, <2>3, <2>4, <2>5, <2>9, EarlyCall DEF FinishFits, OwnEnds
  <2> QED BY <1>0, <2>1, <2>2, <2>4, <2>6, <2>8, <2>10, InsideGoesOn
<1>2. CASE Outcome(t, "failed", Null) /\ UNCHANGED cardVars
  BY <1>0, <1>2, EarlyOutcomeGoesOn
<1> QED BY <1>1, <1>2 DEF ConsumeSubmission

LEMMA RequireFieldGoesOn ==
    ASSUME Given, NEW t \in Threads, RequireFieldInput(t)
    PROVE  Kept
<1> DEFINE f == <<"field", frame[t].op[3]>>
<1>0. /\ pc[t] \in Executing /\ frame[t].op \in StepOps /\ frame[t].op[2] = Last
      /\ op_state[frame[t].op] = "running"
      /\ UNCHANGED <<planVars, stepVars, opVars, consumer, shown, worldVars, lockVars>>
      /\ card' = WithNewField(f) /\ Outcome(t, "requires_user_action", f)
  BY ExecutingFacts, HandlesFacts DEF RequireFieldInput, Given
<1>1. f \in Fields /\ f[2] = frame[t].op[3] /\ f \in Interactions
  BY <1>0, Operations, Cards
<1>2. frame[t].op = <<"step", Last, f[2]>>
  BY <1>0, <1>1, Operations
<1> HIDE DEF f
<1>3. f \notin shown
  BY <1>0, <1>1, <1>2 DEF Given, PlanInv, FieldsAsked, Known, Asked
<1>4. \A i \in Interactions :
         card'[i] = IF i = f THEN "pending"
                    ELSE IF i \in Fields /\ card[i] \in LiveCards THEN "superseded" ELSE card[i]
  BY <1>0, <1>1, Cards DEF WithNewField, Superseding
<1>5. card[f] # "consumed"
  BY <1>1, <1>3 DEF Given, PromiseInv, SeenFits
<1>6. CardsGo(t)
  BY <1>1, <1>3, <1>4, <1>5 DEF CardsGo, TerminalCard, LiveCards
<1>7. PlanStays /\ step_state' = step_state /\ UNCHANGED <<request, writes>> /\ LockHolds(t)
  BY <1>0 DEF PlanStays, planVars, stepVars, worldVars, lockVars, LockHolds
<1> QED BY <1>0, <1>6, <1>7, StepOutcomeGoesOn

\* A commit under way: it is the plan's, and its interaction is bound.
LEMMA WritingCall ==
    ASSUME Given, NEW t \in Threads, pc[t] \in Writing
    PROVE  /\ pc[t] \in Executing /\ frame[t] \in FrameShape
           /\ frame[t].op \in ResumeOps /\ frame[t].op \notin StepOps /\ frame[t].op \in OpIds
           /\ t \in Hosts /\ Committing /\ commit_op = frame[t].op
           /\ frame[t].op[2] \in Auths /\ frame[t].op[2] \in Interactions
           /\ card[frame[t].op[2]] = "consumed" /\ op_state[frame[t].op] = "running"
           /\ frame[t].int = frame[t].op[2]
           /\ frame[t].bound /\ Bound(frame[t].op[2])
<1> USE DEF Given
<1>1. pc[t] \in Executing /\ WorkFits(t)
  BY DEF Writing, Executing, PromiseInv
<1>2. /\ frame[t] \in FrameShape /\ frame[t].op \in ResumeOps /\ frame[t].op[2] \in Auths
      /\ card[frame[t].op[2]] = "consumed" /\ op_state[frame[t].op] = "running"
  BY <1>1, ExecutingFacts DEF CardFits
<1>3. frame[t].op \notin StepOps /\ frame[t].op \in OpIds /\ frame[t].op[2] \in Interactions
  BY <1>2, Operations
<1>4. /\ t \in Hosts /\ Committing /\ commit_op = frame[t].op /\ frame[t].int = frame[t].op[2]
      /\ frame[t].bound
  BY <1>1, <1>2, Phases DEF WorkFits, OwnFits, CallFits
<1>5. Bound(frame[t].op[2])
  <2>1. current_step # Null
    BY <1>2, <1>4 DEF PromiseInv, CommitFits
  <2>2. current_step \in Steps /\ step_int[current_step] = frame[t].op[2]
    BY <1>4, <2>1 DEF PromiseInv, CommitFits, PlanInv, Rows, StepRows
  <2> QED BY <2>2 DEF Bound
<1> QED BY <1>1, <1>2, <1>3, <1>4, <1>5

LEMMA OutcomeGoesOn ==
    ASSUME Given, NEW t \in Threads, CommitOutcome(t)
    PROVE  Kept
<1> DEFINE a == frame[t].op[2]
<1>0. /\ pc[t] \in Writing
      /\ UNCHANGED <<planVars, stepVars, opVars, consumer, shown, worldVars, lockVars>>
  BY DEF CommitOutcome, Writing
<1>1. /\ PlanStays /\ step_state' = step_state /\ UNCHANGED <<request, writes>> /\ LockHolds(t)
      /\ Over' = Over /\ Open' = Open /\ Committing' = Committing /\ \A i : Bound(i)' = Bound(i)
      /\ shown' = shown /\ commit_op' = commit_op
  BY <1>0 DEF PlanStays, planVars, stepVars, worldVars, lockVars, LockHolds, Over, Committing,
              Open, Bound
<1>2. "finish" \in Executing \ Writing /\ "finish" \notin Early \cup Writing
  BY DEF Executing, Writing, Early
<1>3. ASSUME NEW st, NEW i, Outcome(t, st, i), Result(a, st, i), st # "running",
             CardsGo(t), card'[a] = "consumed"
      PROVE  Kept
  <2>1. PICK k : /\ Goto(t, "finish", k) /\ k.op = frame[t].op /\ k.step = frame[t].step
                 /\ k.int = frame[t].int /\ k.bound = frame[t].bound
                 /\ k.resp.st = st /\ k.resp.int = i
    BY <1>0, <1>3, WritingCall, OutcomeFrame
  <2>2. pc'[t] = "finish" /\ frame'[t] = k
    BY <2>1, Moves DEF Given
  <2>3. CallFits(t)'
    BY <1>0, <1>1, <1>2, <1>3, <2>1, <2>2, WritingCall DEF CallFits
  <2>4. Result(k.op[2], st, i)'
    BY <1>1, <1>3, <2>1 DEF Result
  <2>5. FinishFits(t)'
    BY <1>0, <1>1, <1>3, <2>1, <2>2, <2>4, WritingCall, Phases DEF FinishFits, OwnEnds, Result
  <2> QED BY <1>0, <1>1, <1>2, <1>3, <2>1, <2>3, <2>5, WritingCall, InsideGoesOn
<1>4. CASE /\ \/ request[a] = "applied" /\ Outcome(t, "succeeded", Null)
              \/ Outcome(t, "unknown", Null)
              \/ request[a] = "refused" /\ Outcome(t, "failed", Null)
           /\ UNCHANGED card
  <2>1. CardsGo(t) /\ card'[a] = "consumed"
    BY <1>0, <1>4, WritingCall DEF CardsGo, TerminalCard
  <2> QED BY <1>3, <1>4, <2>1 DEF Result
<1>5. CASE request[a] = "warned" /\ card' = WithNewAuth /\ Outcome(t, "requires_user_action", NextAuth)
  <2>1. CardsGo(t) /\ card'[a] = "consumed" /\ NextAuth # Null
    BY <1>0, <1>5, WritingCall, NewAuthGoes
  <2> QED BY <1>3, <1>5, <2>1 DEF Result
<1> QED BY <1>4, <1>5 DEF CommitOutcome, Verified

LEMMA BoundaryRefuses ==
    ASSUME Given, NEW t \in Threads, EnterCommitBoundary(t),
           ~(card[frame[t].op[2]] = "approved" /\ GuardAllows(frame[t].op[2]))
    PROVE  Kept
<1>1. /\ pc[t] \in Executing /\ pc[t] \in Early /\ frame[t].op \in ResumeOps
      /\ Outcome(t, "failed", Null)
      /\ UNCHANGED <<planVars, stepVars, opVars, cardVars, shown, worldVars, lockVars>>
  BY ExecutingFacts DEF EnterCommitBoundary, Executing, Early, CardFits, Given
<1> QED BY <1>1, EarlyOutcomeGoesOn

LEMMA StillRunningGoesOn ==
    ASSUME Given, NEW t \in Threads, StepStillRunning(t)
    PROVE  Kept
BY ReturnKeeps DEF StepStillRunning

\* The operation's row gets its outcome.
LEMMA FinishGoesOn ==
    ASSUME Given, NEW t \in Threads, FinishOperation(t)
    PROVE  Kept
<1> USE DEF Given
<1> DEFINE o == frame[t].op
           r == frame[t].resp
<1>0. /\ pc[t] = "finish" /\ pc[t] \in Executing /\ frame[t] \in FrameShape /\ o \in OpIds
      /\ op_state[o] = "running" /\ WorkFits(t) /\ r = [st |-> r.st, int |-> r.int]
      /\ UNCHANGED <<planVars, stepVars, cardVars, shown, worldVars, plan_lock>>
      /\ Goto(t, AfterOperation(o), frame[t])
  <2>1. pc[t] = "finish" /\ pc[t] \in Executing
    BY DEF FinishOperation, Executing
  <2>2. frame[t] \in FrameShape
    BY <2>1, ExecutingFacts
  <2>3. r = [st |-> r.st, int |-> r.int]
    BY <2>2 DEF FrameShape
  <2> QED BY <2>1, <2>2, <2>3, ExecutingFacts DEF FinishOperation, PromiseInv
<1>1. /\ PlanStays /\ step_state' = step_state /\ UNCHANGED <<request, writes>> /\ LockHolds(t)
      /\ Over' = Over /\ Open' = Open /\ Committing' = Committing /\ \A i : Bound(i)' = Bound(i)
      /\ shown' = shown /\ commit_op' = commit_op /\ card' = card /\ plan_state' = plan_state
      /\ current_step' = current_step
  BY <1>0 DEF PlanStays, planVars, stepVars, worldVars, cardVars, LockHolds, Over, Committing,
              Open, Bound
<1>2. /\ op_state'[o] = r.st /\ op_int'[o] = r.int
      /\ \A p \in OpIds : p # o => op_state'[p] = op_state[p] /\ op_int'[p] = op_int[p]
  BY <1>0 DEF FinishOperation, PlanInv, Rows, OtherRows
<1>3. /\ pc'[t] = AfterOperation(o) /\ frame'[t] = frame[t]
      /\ \A u \in Threads : u # t => pc'[u] = pc[u] /\ frame'[u] = frame[u]
  BY <1>0, Moves
<1>4. /\ r.st \notin {"absent", "running"}
      /\ o \in StepOps => r.st # "unknown" /\ o \notin ResumeOps /\ AfterOperation(o) = "consume"
      /\ o \in ResumeOps =>
            /\ r.st \in OwnEnds /\ o \notin StepOps /\ AfterOperation(o) = "respond"
            /\ r.st \in {"succeeded", "unknown"} => card[o[2]] = "consumed"
            /\ r.int \notin {Null, o[2]} => card[o[2]] = "consumed"
  BY <1>0, Operations DEF WorkFits, StepFits, FinishFits, OwnEnds, AfterOperation, OpIds
<1>5. OpsGo /\ CardsGo(t)
  BY <1>0, <1>1, <1>2, <1>4 DEF OpsGo, CardsGo, TerminalCard
<1>6. OpsFit'
  BY <1>1, <1>2, <1>4, Operations DEF PromiseInv, OpsFit
<1>7. Committing => Result(commit_op[2], op_state'[commit_op], op_int'[commit_op])
  <2>1. ASSUME Committing
        PROVE  Result(commit_op[2], op_state'[commit_op], op_int'[commit_op])
    <3>1. commit_op \in OpIds /\ commit_op \in ResumeOps
      BY <2>1, Marker
    <3>2. CASE commit_op = o
      BY <1>0, <1>2, <2>1, <3>1, <3>2 DEF WorkFits, FinishFits
    <3>3. CASE commit_op # o
      BY <1>2, <2>1, <3>1, <3>3 DEF PromiseInv, CommitFits
    <3> QED BY <3>2, <3>3
  <2> QED BY <2>1
<1>8. CASE o \in StepOps
  <2>1. "consume" \notin Executing \cup Writing \cup {"invoke", "respond", "finish"}
    BY DEF Executing, Writing
  <2>2. StepFits(t)'
    BY <1>0, <1>1, <1>3, <1>4, <1>8, <2>1 DEF WorkFits, StepFits
  <2>3. WorkFits(t)' /\ pc'[t] \notin Executing
    BY <1>3, <1>4, <1>8, <2>1, <2>2
       DEF WorkFits, LoopFits, OwnFits, CallFits, FinishFits, AnswerFits
  <2> QED BY <1>0, <1>1, <1>3, <1>5, <1>6, <1>7, <2>3, Routine DEF Kept
<1>9. CASE o \in ResumeOps
  <2>1. "respond" \notin Executing \cup Writing \cup Early \cup {"invoke", "consume", "finish"}
    BY DEF Executing, Writing, Early
  <2>2. CallFits(t)'
    BY <1>0, <1>1, <1>3, <1>4, <1>9, <2>1 DEF WorkFits, CallFits
  <2>3. OwnFits(t)'
    BY <1>0, <1>2, <1>3, <1>4, <1>9, <2>1 DEF WorkFits, OwnFits
  <2>4. AnswerFits(t)'
    <3>1. Committing => r = Recorded' /\ op_state'[commit_op] # "running" /\ o = commit_op
      BY <1>0, <1>1, <1>2, <1>4, <1>9 DEF WorkFits, FinishFits, Recorded
    <3>2. Open => Harmless(r, o) /\ o # Null
      BY <1>0, <1>9, Operations DEF WorkFits, FinishFits
    <3>3. \A x, p : Harmless(x, p) => Harmless(x, p)'
      BY <1>1 DEF Harmless, AskedFor, Used
    <3> QED BY <1>1, <1>3, <1>4, <1>9, <2>1, <3>1, <3>2, <3>3 DEF AnswerFits
  <2>5. WorkFits(t)' /\ pc'[t] \notin Executing
    BY <1>3, <1>4, <1>9, <2>1, <2>2, <2>3, <2>4 DEF WorkFits, LoopFits, StepFits, FinishFits
  <2> QED BY <1>0, <1>1, <1>3, <1>5, <1>6, <1>7, <2>5, Routine DEF Kept
<1> QED BY <1>0, <1>8, <1>9 DEF OpIds

\* The operation is started, or answered with what its row says.
LEMMA InvokeGoesOn ==
    ASSUME Given, NEW t \in Threads, Invoke(t)
    PROVE  Kept
<1> USE DEF Given
<1> DEFINE o == frame[t].op
           k == [frame[t] EXCEPT !.resp = [st |-> op_state[o], int |-> op_int[o]]]
<1>0. /\ pc[t] = "invoke" /\ pc[t] \in Early /\ frame[t] \in FrameShape /\ o \in OpIds /\ WorkFits(t)
      /\ UNCHANGED <<planVars, stepVars, cardVars, shown, worldVars>>
  BY DEF Invoke, PromiseInv, Early, PlanInv, Rows, OtherRows, ThreadFits, OpFits
<1>1. /\ PlanStays /\ step_state' = step_state /\ UNCHANGED <<request, writes>>
      /\ Over' = Over /\ Open' = Open /\ Committing' = Committing /\ \A i : Bound(i)' = Bound(i)
      /\ shown' = shown /\ commit_op' = commit_op /\ card' = card /\ plan_state' = plan_state
      /\ current_step' = current_step
  BY <1>0 DEF PlanStays, planVars, stepVars, worldVars, cardVars, Over, Committing, Open, Bound
<1>2. CardsGo(t)
  BY <1>1 DEF CardsGo, TerminalCard
<1>3. CASE /\ op_state[o] = "absent"
           /\ op_state' = [op_state EXCEPT ![o] = "running"]
           /\ Goto(t, "handler", frame[t]) /\ UNCHANGED <<op_int, plan_lock>>
  <2>1. /\ op_state'[o] = "running" /\ op_int' = op_int
        /\ \A p \in OpIds : p # o => op_state'[p] = op_state[p]
    BY <1>0, <1>3 DEF PlanInv, Rows, OtherRows
  <2>2. /\ pc'[t] = "handler" /\ frame'[t] = frame[t]
        /\ \A u \in Threads : u # t => pc'[u] = pc[u] /\ frame'[u] = frame[u]
    BY <1>3, Moves
  <2>3. OpsGo /\ LockHolds(t)
    BY <1>3, <2>1 DEF OpsGo, LockHolds
  <2>4. OpsFit'
    BY <1>1, <1>3, <2>1, Operations DEF PromiseInv, OpsFit
  <2>5. Committing => Result(commit_op[2], op_state'[commit_op], op_int'[commit_op])
    BY <1>3, <2>1, Marker DEF PromiseInv, CommitFits
  <2>6. "handler" \in Executing \cap Early /\ "handler" \notin Writing \cup Answering
    BY DEF Executing, Early, Writing, Answering
  <2>7. StepFits(t)' /\ OwnFits(t)' /\ CallFits(t)'
    BY <1>0, <1>1, <2>2, <2>6 DEF WorkFits, StepFits, OwnFits, CallFits
  <2>8. WorkFits(t)'
    BY <2>2, <2>6, <2>7 DEF WorkFits, LoopFits, FinishFits, AnswerFits
  <2> QED BY <1>0, <1>1, <1>2, <1>3, <2>2, <2>3, <2>4, <2>5, <2>8, Routine DEF Kept
<1>4. CASE /\ op_state[o] # "absent" /\ Goto(t, AfterOperation(o), k)
           /\ UNCHANGED <<opVars, lockVars>>
  <2>1. /\ k.op = o /\ k.step = frame[t].step /\ k.int = frame[t].int /\ k.bound = frame[t].bound
        /\ k.resp.st = op_state[o] /\ k.resp.int = op_int[o]
    BY <1>0 DEF FrameShape
  <2> HIDE DEF k
  <2>2. pc'[t] = AfterOperation(o) /\ frame'[t] = k /\ op_state' = op_state /\ op_int' = op_int
    BY <1>4, Moves DEF opVars
  <2>3. LockHolds(t) /\ UNCHANGED <<planVars, stepVars, opVars, cardVars, shown, worldVars>>
    BY <1>0, <1>4 DEF LockHolds, lockVars
  <2>4. CASE o \in StepOps
    <3>1. /\ "consume" \notin Executing \cup Writing \cup {"invoke", "respond", "finish"}
          /\ AfterOperation(o) = "consume" /\ o \notin ResumeOps
      BY <2>4, Operations DEF Executing, Writing, AfterOperation
    <3>2. StepFits(t)'
      BY <1>0, <1>1, <2>1, <2>2, <2>4, <3>1 DEF WorkFits, StepFits, PromiseInv, OpsFit
    <3>3. WorkFits(t)'
      BY <2>1, <2>2, <2>4, <3>1, <3>2
         DEF WorkFits, LoopFits, OwnFits, CallFits, FinishFits, AnswerFits
    <3> QED BY <1>0, <1>4, <2>3, <3>1, <3>3, Calm
  <2>5. CASE o \in ResumeOps
    <3>1. /\ "respond" \notin Executing \cup Writing \cup Early \cup {"invoke", "consume", "finish"}
          /\ AfterOperation(o) = "respond" /\ o \notin StepOps
      BY <2>5, Operations DEF Executing, Writing, Early, AfterOperation
    <3>2. /\ ~Committing /\ card[o[2]] # "consumed" /\ o[2] \in shown
          /\ op_state[o] \in {"running", "requires_user_action", "failed"}
          /\ op_int[o] \in {Null, o[2]}
      BY <1>0, <1>4, <2>5, EarlyCall DEF PromiseInv, OpsFit, OwnEnds
    <3>3. OwnFits(t)' /\ CallFits(t)'
      BY <1>0, <1>1, <1>4, <2>1, <2>2, <2>5, <3>1, <3>2 DEF WorkFits, OwnFits, CallFits
    <3>4. ASSUME Open
          PROVE  Harmless(k.resp, k.op)
      <4>1. /\ plan_state = "waiting_user"
            /\ \A j \in shown : Used(j) \/ j = o[2]
        BY <1>0, <2>5, <3>4, EarlyCall
      <4> HIDE DEF o
      <4>2. AskedFor(k.resp, o) = o[2]
        BY <2>1, <3>2 DEF AskedFor
      <4> QED BY <2>1, <3>2, <4>1, <4>2 DEF Harmless
    <3>5. AnswerFits(t)'
      <4>1. \A x, p : Harmless(x, p) => Harmless(x, p)'
        BY <1>1 DEF Harmless, AskedFor, Used
      <4> QED BY <1>0, <1>1, <2>1, <2>2, <3>1, <3>2, <3>4, <4>1, Operations DEF AnswerFits
    <3>6. WorkFits(t)'
      BY <2>1, <2>2, <2>5, <3>1, <3>3, <3>5 DEF WorkFits, LoopFits, StepFits, FinishFits
    <3> QED BY <1>0, <1>4, <2>3, <3>1, <3>6, Calm
  <2> QED BY <1>0, <2>4, <2>5 DEF OpIds
<1> QED BY <1>3, <1>4 DEF Invoke

-----------------------------------------------------------------------------
(* Steps of a plan that is begun, recovered or left alone.                   *)

\* The operation of a step that is begun is an operation of a step.
LEMMA BegunOp ==
    ASSUME Given, NEW t \in Threads, NEW s, pc'[t] = "invoke", frame'[t].op = <<"step", s, attempt'[s]>>
    PROVE  frame'[t].op \in StepOps /\ frame'[t].op \notin ResumeOps
<1>1. frame'[t].op \in OpIds
  BY DEF Given, PlanInv, ThreadFits, OpFits
<1>2. frame'[t].op[1] = "step"
  OBVIOUS
<1> QED BY <1>1, <1>2, Operations

LEMMA BegunFits ==
    ASSUME Given, NEW t \in Threads, NEW s,
           Goto(t, "invoke", [EmptyFrame EXCEPT !.step = s, !.op = <<"step", s, attempt'[s]>>]),
           (plan_state \in {"validated", "running"})', commit_op' = Null, current_step' = s
    PROVE  WorkFits(t)'
<1>1. PICK k : /\ Goto(t, "invoke", k) /\ k.step = s /\ k.op = <<"step", s, attempt'[s]>>
  <2> DEFINE k == [EmptyFrame EXCEPT !.step = s, !.op = <<"step", s, attempt'[s]>>]
  <2>1. k.step = s /\ k.op = <<"step", s, attempt'[s]>>
    BY DEF EmptyFrame
  <2> QED BY <2>1
<1>2. pc'[t] = "invoke" /\ frame'[t] = k
  BY <1>1, Moves DEF Given
<1>3. frame'[t].op \in StepOps /\ frame'[t].op \notin ResumeOps
  BY <1>1, <1>2, BegunOp
<1>4. "invoke" \notin Executing \cup Writing \cup Answering
  BY DEF Executing, Writing, Answering
<1> QED BY <1>1, <1>2, <1>3, <1>4
        DEF WorkFits, LoopFits, StepFits, OwnFits, CallFits, FinishFits, AnswerFits

LEMMA BeginAgain ==
    ASSUME Given, NEW t \in Threads, BeginNextStep(t), HasCurrentStep
    PROVE  Kept
<1> USE DEF Given
<1>0. /\ pc[t] = "begin" /\ WorkFits(t)
      /\ UNCHANGED <<planVars, stepVars, opVars, cardVars, shown, worldVars>>
  BY DEF BeginNextStep, PromiseInv
<1>1. CASE step_state[current_step] = "waiting_user" /\ Return(t)
  BY <1>0, <1>1, ReturnKeeps
<1>2. CASE step_state[current_step] = "running" /\ RunStep(t, current_step)
  <2> DEFINE s == current_step
  <2>1. /\ Goto(t, "invoke", [EmptyFrame EXCEPT !.step = s, !.op = <<"step", s, attempt'[s]>>])
        /\ UNCHANGED lockVars
    BY <1>2 DEF RunStep, PromiseInv
  <2>2. /\ plan_state \in {"validated", "running"} /\ commit_op = Null
        /\ UNCHANGED <<plan_state, commit_op, current_step>>
    BY <1>0, <1>2, Phases DEF WorkFits, LoopFits, PromiseInv, OpenFits, ActivePlanStates, planVars,
                              Open
  <2>3. WorkFits(t)'
    BY <2>1, <2>2, BegunFits
  <2>4. LockHolds(t) /\ "invoke" \notin Executing
    BY <2>1 DEF LockHolds, lockVars, Executing
  <2> QED BY <1>0, <2>1, <2>3, <2>4, Calm
<1> QED BY <1>0, <1>1, <1>2, Zenon DEF BeginNextStep

LEMMA NotCanceled ==
    ASSUME Given, NEW t \in Threads,
           \/ HandleTerminal(t) /\ (plan_state \notin ActivePlanStates
                                    \/ (card[frame[t].int] = "rejected" /\ ~Cancelable))
           \/ Cancel(t) /\ ~Cancelable
    PROVE  Kept
<1>1. Return(t) /\ UNCHANGED <<planVars, stepVars, opVars, cardVars, shown, worldVars>>
      /\ pc[t] # "retire"
  BY DEF HandleTerminal, Cancel, Cancelable
<1> QED BY <1>1, ReturnKeeps

\* What a thread may do about a commit that has stopped.
LEMMA SettleFits ==
    ASSUME Given, NEW t \in Threads, Committing, Committing', commit_op' = commit_op,
           current_step' = current_step, NEW st, NEW i,
           Goto(t, "consume", [EmptyFrame EXCEPT !.step = CommitStep,
                                                 !.resp = [st |-> st, int |-> i]]),
           st = op_state'[commit_op], i = op_int'[commit_op], st # "running"
    PROVE  WorkFits(t)' /\ pc'[t] \notin Executing
<1>1. PICK k : /\ Goto(t, "consume", k) /\ k.step = CommitStep /\ k.op = Null
               /\ k.resp = [st |-> st, int |-> i]
  <2> DEFINE k == [EmptyFrame EXCEPT !.step = CommitStep, !.resp = [st |-> st, int |-> i]]
  <2>1. k.step = CommitStep /\ k.op = Null /\ k.resp = [st |-> st, int |-> i]
    BY DEF EmptyFrame
  <2> QED BY <2>1
<1>2. pc'[t] = "consume" /\ frame'[t] = k
  BY <1>1, Moves DEF Given
<1>3. "consume" \notin Executing \cup Writing \cup {"invoke", "respond", "finish", "relock"}
  BY DEF Executing, Writing
<1>4. Null \notin StepOps /\ Null \notin ResumeOps
  BY Operations
<1>5. AnswerFits(t)'
  <2>1. k.resp = Recorded'
    BY <1>1 DEF Recorded
  <2>2. current_step \in {CommitStep, Null}
    BY DEF CommitStep
  <2>3. ~Open' /\ ~Over'
    BY DEF Open, Over, Committing
  <2> QED BY <1>1, <1>2, <1>3, <2>1, <2>2, <2>3 DEF AnswerFits
<1> QED BY <1>1, <1>2, <1>3, <1>4, <1>5
        DEF WorkFits, LoopFits, StepFits, OwnFits, CallFits, FinishFits

LEMMA RecoverCommitGoesOn ==
    ASSUME Given, NEW t \in Threads, RecoverCommit(t), step_state[CommitStep] # "succeeded"
    PROVE  Kept
<1> USE DEF Given
<1> DEFINE st == IF op_state[commit_op] = "running" THEN "unknown" ELSE op_state[commit_op]
<1>0. /\ Committing /\ pc[t] = "idle" /\ plan_lock = Null
      /\ UNCHANGED <<planVars, stepVars, op_int, cardVars, shown, worldVars>>
      /\ Goto(t, "consume", [EmptyFrame EXCEPT !.step = CommitStep,
                                               !.resp = [st |-> st, int |-> op_int[commit_op]]])
      /\ \/ op_state[commit_op] = "running" /\ op_state' = [op_state EXCEPT ![commit_op] = "unknown"]
         \/ op_state[commit_op] # "running" /\ op_state' = op_state
  BY Phases DEF RecoverCommit, Recovering, LockPlanAndGoto, Committing, opVars
<1>1. /\ PlanStays /\ step_state' = step_state /\ UNCHANGED <<request, writes>> /\ LockHolds(t)
      /\ Over' = Over /\ Committing' = Committing /\ card' = card
      /\ commit_op' = commit_op /\ current_step' = current_step
  BY <1>0, StepNumbers
     DEF PlanStays, planVars, stepVars, worldVars, cardVars, LockHolds, Over, Committing
<1>2. /\ commit_op \in ResumeOps /\ commit_op \in OpIds /\ commit_op \notin StepOps
      /\ card[commit_op[2]] = "consumed" /\ op_state[commit_op] # "absent"
      /\ Result(commit_op[2], op_state[commit_op], op_int[commit_op])
  BY <1>0, Marker, Operations DEF PromiseInv, CommitFits
<1>3. /\ op_state'[commit_op] = st /\ st \notin {"absent", "running"}
      /\ \A o \in OpIds : o # commit_op => op_state'[o] = op_state[o]
      /\ Result(commit_op[2], st, op_int[commit_op])
  BY <1>0, <1>2 DEF PlanInv, Rows, OtherRows, Result
<1>4. OpsGo /\ CardsGo(t)
  BY <1>0, <1>1, <1>2, <1>3 DEF OpsGo, CardsGo, TerminalCard
<1>5. OpsFit'
  BY <1>0, <1>1, <1>2, <1>3, Operations DEF PromiseInv, OpsFit, OwnEnds
<1>6. WorkFits(t)' /\ pc'[t] \notin Executing
  <2> HIDE DEF st
  <2> QED BY <1>0, <1>1, <1>3, SettleFits
<1>7. \A u \in Threads : u # t => pc'[u] = pc[u] /\ frame'[u] = frame[u]
  BY <1>0, Moves
<1> QED BY <1>0, <1>1, <1>3, <1>4, <1>5, <1>6, <1>7, Routine DEF Kept

LEMMA RecoverRunningGoesOn ==
    ASSUME Given, NEW t \in Threads, RecoverRunning(t)
    PROVE  Kept
<1> USE DEF Given
<1> DEFINE o == <<"step", current_step, attempt[current_step]>>
<1>0. /\ pc[t] = "idle" /\ plan_lock = Null /\ commit_op = Null /\ plan_lock' = t
      /\ plan_state \in {"validated", "running"}
      /\ UNCHANGED <<planVars, stepVars, op_int, cardVars, shown, worldVars>>
      /\ \E label \in {"advance", "reset"} : \E k : Goto(t, label, k)
      /\ \/ op_state' = op_state
         \/ op_state[o] = "running" /\ op_state' = [op_state EXCEPT ![o] = "failed"]
  BY DEF RecoverRunning, Recovering, LockPlanAndGoto
<1>1. /\ PlanStays /\ step_state' = step_state /\ UNCHANGED <<request, writes>> /\ LockHolds(t)
      /\ card' = card /\ plan_state' = plan_state /\ commit_op' = commit_op
  BY <1>0, StepNumbers DEF PlanStays, planVars, stepVars, worldVars, cardVars, LockHolds
<1>2. PICK label \in {"advance", "reset"} : \E k : Goto(t, label, k)
  BY <1>0
<1>3. /\ pc'[t] = label
      /\ \A u \in Threads : u # t => pc'[u] = pc[u] /\ frame'[u] = frame[u]
  BY <1>2, Moves
<1>4. LoopFits(t)'
  BY <1>0, <1>1, <1>3 DEF LoopFits
<1>5. WorkFits(t)' /\ pc'[t] \notin Executing
  BY <1>3, <1>4, InLoop DEF Loops, Executing
<1>6. \A p \in OpIds : \/ op_state'[p] = op_state[p]
                       \/ p \in StepOps /\ op_state[p] = "running" /\ op_state'[p] = "failed"
  <2>1. o[1] = "step"
    OBVIOUS
  <2> HIDE DEF o
  <2> QED BY <1>0, <2>1, Operations DEF PlanInv, Rows, OtherRows
<1>7. OpsGo /\ CardsGo(t)
  BY <1>0, <1>1, <1>6 DEF OpsGo, CardsGo, TerminalCard
<1>8. OpsFit'
  BY <1>0, <1>1, <1>6, Operations DEF PromiseInv, OpsFit
<1>9. ~Committing
  BY <1>0 DEF Committing
<1> QED BY <1>0, <1>1, <1>3, <1>5, <1>7, <1>8, <1>9, Routine DEF Kept

LEMMA UsersGoOn ==
    ASSUME Given, NEW i \in Interactions, card[i] \in LiveCards,
           NEW st \in {"submitted", "approved", "rejected", "expired"},
           st \in LiveCards => card[i] = "pending",
           card' = [card EXCEPT ![i] = st],
           UNCHANGED <<planVars, stepVars, opVars, consumer, shown, worldVars, lockVars, threadVars>>
    PROVE  Kept
<1> USE DEF Given
<1>1. \A j \in Interactions : card'[j] = IF j = i THEN st ELSE card[j]
  BY DEF PlanInv, Rows, OtherRows
<1>2. CardsGo(Null)
  BY <1>1 DEF CardsGo, TerminalCard, LiveCards
<1>3. /\ PlanStays /\ step_state' = step_state /\ UNCHANGED <<request, writes>> /\ LockHolds(Null)
      /\ op_state' = op_state /\ op_int' = op_int /\ OpsGo
      /\ \A u \in Threads : pc'[u] = pc[u] /\ frame'[u] = frame[u]
  BY DEF PlanStays, planVars, stepVars, opVars, worldVars, lockVars, threadVars, LockHolds, OpsGo
<1>4. OpsFit'
  <2>1. \A o \in ResumeOps : card[o[2]] = "consumed" => card'[o[2]] = "consumed"
    BY <1>2, Operations DEF CardsGo
  <2> QED BY <1>3, <2>1 DEF PromiseInv, OpsFit
<1>5. Committing => Result(commit_op[2], op_state'[commit_op], op_int'[commit_op])
  BY <1>3 DEF PromiseInv, CommitFits
<1> QED BY <1>2, <1>3, <1>4, <1>5, StepNumbers, Routine DEF Kept

LEMMA UsersAndClockGoOn ==
    ASSUME Given,
           \/ \E f \in Fields : SubmitFields(f)
           \/ \E a \in Auths : DecideAuthorization(a)
           \/ \E i \in Interactions : Expire(i)
    PROVE  Kept
<1>1. CASE \E f \in Fields : SubmitFields(f)
  <2>1. PICK f \in Fields : SubmitFields(f)
    BY <1>1
  <2>2. f \in Interactions /\ card[f] \in LiveCards
    BY <2>1, Cards DEF SubmitFields, LiveCards
  <2> QED BY <2>1, <2>2, UsersGoOn DEF SubmitFields
<1>2. CASE \E a \in Auths : DecideAuthorization(a)
  <2>1. PICK a \in Auths : DecideAuthorization(a)
    BY <1>2
  <2>2. a \in Interactions /\ card[a] \in LiveCards
    BY <2>1, Cards DEF DecideAuthorization, LiveCards
  <2> QED BY <2>1, <2>2, UsersGoOn DEF DecideAuthorization
<1>3. CASE \E i \in Interactions : Expire(i)
  BY <1>3, UsersGoOn DEF Expire, LiveCards
<1> QED BY <1>1, <1>2, <1>3

\* After a restart nobody works, and what the user was shown is as before.
LEMMA CrashGoesOn ==
    ASSUME Given, Crash
    PROVE  Kept
<1> USE DEF Given
<1>1. /\ UNCHANGED <<plan_state, current_step, commit_op, step_state, step_int, shown, card,
                     request, writes, authority, op_state, op_int>>
      /\ \A u \in Threads : pc'[u] = "idle"
      /\ MaxCrashes # 0
  BY Bounds DEF Crash, planVars, stepVars, cardVars, opVars, PlanInv, Rows, OtherRows
<1>2. /\ Over' = Over /\ Open' = Open /\ Committing' = Committing
      /\ \A i : Bound(i)' = Bound(i) /\ Used(i)' = Used(i)
      /\ \A a : Settled(a)' = Settled(a)
  BY <1>1 DEF Over, Open, Committing, Bound, Used, Settled
<1>3. \A u \in Threads : WorkFits(u)'
  BY <1>1, AtRest DEF Rest
<1>4. authority' = TRUE /\ SeenFits' /\ OpenFits' /\ OpsFit'
  BY <1>1, <1>2 DEF PromiseInv, SeenFits, OpenFits, OpsFit
<1>5. CommitFits'
  <2>1. \A a, st, i : Result(a, st, i)' = Result(a, st, i)
    BY <1>1 DEF Result
  <2> QED BY <1>1, <1>2, <2>1 DEF PromiseInv, CommitFits
<1>6. OverFits'
  <2>1. \A i \in Interactions : Forsaken(i) => Forsaken(i)'
    <3>1. "idle" \notin Executing
      BY DEF Executing
    <3> QED BY <1>1, <3>1 DEF Forsaken
  <2> QED BY <1>1, <1>2, <2>1 DEF PromiseInv, OverFits
<1>7. UNCHANGED <<planPhase, writeEffect>>
  BY <1>1 DEF planPhase, writeEffect
<1> QED BY <1>3, <1>4, <1>5, <1>6, <1>7 DEF PromiseInv, Kept

-----------------------------------------------------------------------------
(* Steps that PlannedWrite takes too.                                        *)

Promised == PromiseInv' /\ [Abstract!Next]_<<planPhase, writeEffect>>

LEMMA KeptIsPromised == Kept => Promised
BY DEF Kept, Promised

\* The phase of the plan and the effect of its write.
LEMMA PhaseIs ==
    /\ Open => planPhase = "open"
    /\ Committing => planPhase = "committing"
    /\ Over => planPhase = plan_state
BY DEF Open, Committing, Over, planPhase

LEMMA EffectIs ==
    ASSUME PlanInv, PromiseInv
    PROVE  /\ Open => writeEffect = "none"
           /\ Committing => writeEffect = IF request[commit_op[2]] = "sent" THEN "sent"
                                          ELSE IF request[commit_op[2]] = "applied" THEN "applied"
                                          ELSE "none"
<1>1. /\ writes \in {0, 1}
      /\ writes > 0 <=> \E a \in Auths : request[a] = "applied"
  BY DEF PlanInv, Rows, OtherRows, SentOK
<1>2. Open => \A a \in Auths : request[a] \in {"none", "warned"}
  BY DEF PromiseInv, OpenFits, Settled
<1>3. Committing => /\ commit_op[2] \in Auths
                    /\ \A a \in Auths : a # commit_op[2] => request[a] \in {"none", "warned"}
  BY DEF PromiseInv, CommitFits, Settled
<1> QED BY <1>1, <1>2, <1>3 DEF writeEffect

\* Others may go on after a step that changes the requests alone.
LEMMA RequestGoes ==
    ASSUME Given, NEW t, \A u \in Threads : u # t => pc'[u] = pc[u] /\ frame'[u] = frame[u],
           UNCHANGED <<planVars, stepVars, opVars, cardVars, shown, authority>>, LockHolds(t),
           RequestsGo,
           Open => \A a \in Auths : Settled(a)',
           Committing => \A a \in Auths : a # commit_op[2] => Settled(a)',
           Over => \A a, b \in Auths : Settled(a)' \/ Settled(b)' \/ a = b,
           t \in Threads => pc[t] \in Writing /\ pc'[t] \in Executing /\ frame'[t] = frame[t]
                            /\ WorkFits(t)'
    PROVE  PromiseInv' /\ planPhase' = planPhase
<1> USE DEF Given
<1>1. /\ PlanStays /\ card' = card /\ op_state' = op_state /\ op_int' = op_int
      /\ step_state' = step_state
      /\ Over' = Over /\ Open' = Open /\ Committing' = Committing
      /\ \A i : Bound(i)' = Bound(i) /\ Used(i)' = Used(i)
  BY DEF PlanStays, planVars, stepVars, opVars, cardVars, Over, Open, Committing, Bound, Used
<1>2. CardsGo(t) /\ OpsGo
  BY <1>1 DEF CardsGo, TerminalCard, OpsGo
<1>3. \A u \in Threads : WorkFits(u)'
  BY <1>1, <1>2, OthersWork
<1>4. authority' = TRUE /\ SeenFits' /\ OpenFits' /\ OpsFit'
  BY <1>1 DEF PromiseInv, SeenFits, OpenFits, OpsFit, PlanStays
<1>5. CommitFits'
  <2>1. ASSUME Committing
        PROVE  Result(commit_op[2], op_state[commit_op], op_int[commit_op])'
    BY <1>1, <2>1, Marker DEF PromiseInv, CommitFits, Result, RequestsGo, PlanStays
  <2> QED BY <1>1, <2>1 DEF PromiseInv, CommitFits, PlanStays
<1>6. OverFits'
  <2>1. \A i \in Interactions : Forsaken(i) => Forsaken(i)'
    <3>1. t \in Threads => pc[t] # "retire" /\ pc[t] \in Executing
      BY DEF Writing, Executing
    <3>2. Hosts \subseteq Threads
      BY DEF Threads
    <3> QED BY <1>1, <3>1, <3>2 DEF Forsaken
  <2> QED BY <1>1, <2>1 DEF PromiseInv, OverFits, PlanStays
<1> QED BY <1>1, <1>3, <1>4, <1>5, <1>6 DEF PromiseInv, planPhase, PlanStays

LEMMA SendIsPromised ==
    ASSUME Given, NEW t \in Threads, SendWrite(t)
    PROVE  Promised
<1> USE DEF Given
<1> DEFINE a == frame[t].op[2]
<1>0. /\ pc[t] = "send" /\ pc[t] \in Writing
      /\ UNCHANGED <<planVars, stepVars, opVars, cardVars, shown, authority, lockVars>>
      /\ Goto(t, "outcome", frame[t])
  BY DEF SendWrite, Writing
<1>1. /\ Committing /\ commit_op = frame[t].op /\ a \in Auths /\ request[a] = "none"
      /\ WorkFits(t) /\ frame[t].op \notin StepOps /\ frame[t].op \in ResumeOps
  BY <1>0, WritingCall, ExecutingFacts DEF CardFits, PromiseInv
<1>2. /\ request'[a] = "sent"
      /\ \A b \in Auths : b # a => request'[b] = request[b]
  BY <1>0, <1>1 DEF SendWrite, PlanInv, Rows, OtherRows
<1>3. /\ pc'[t] = "outcome" /\ frame'[t] = frame[t]
      /\ \A u \in Threads : u # t => pc'[u] = pc[u] /\ frame'[u] = frame[u]
  BY <1>0, Moves
<1>4. LockHolds(t) /\ RequestsGo
  BY <1>0, <1>1, <1>2 DEF LockHolds, lockVars, RequestsGo
<1>5. /\ "outcome" \in Executing /\ "outcome" \in Writing
      /\ "outcome" \notin Early \cup Answering \cup {"finish", "respond"}
  BY DEF Executing, Writing, Early, Answering
<1>6. WorkFits(t)'
  <2>1. /\ Committing' = Committing /\ commit_op' = commit_op /\ Over' = Over
        /\ \A i : Bound(i)' = Bound(i)
    BY <1>0 DEF planVars, stepVars, Committing, Over, Bound
  <2>2. OwnFits(t)' /\ CallFits(t)'
    BY <1>0, <1>1, <1>3, <1>5, <2>1, WritingCall DEF OwnFits, CallFits
  <2> QED BY <1>1, <1>3, <1>5, <2>2 DEF WorkFits, LoopFits, StepFits, FinishFits, AnswerFits
<1>7. PromiseInv' /\ planPhase' = planPhase
  <2>1. \A b \in Auths : b # commit_op[2] => Settled(b)'
    BY <1>1, <1>2 DEF PromiseInv, CommitFits, Settled
  <2>2. ~Open /\ ~Over
    BY <1>1, Phases
  <2> QED BY <1>0, <1>1, <1>3, <1>4, <1>5, <1>6, <2>1, <2>2, RequestGoes
<1>8. Abstract!Send
  <2>1. planPhase = "committing" /\ writeEffect = "none"
    BY <1>1, PhaseIs, EffectIs
  <2>2. writeEffect' = "sent"
    BY <1>1, <1>2 DEF writeEffect
  <2> QED BY <1>7, <2>1, <2>2 DEF Abstract!Send
<1> QED BY <1>7, <1>8 DEF Promised, Abstract!Next

LEMMA AnswerIsPromised ==
    ASSUME Given, NEW a \in Auths, TargetAnswers(a)
    PROVE  Promised
<1> USE DEF Given
<1>0. /\ request[a] = "sent"
      /\ UNCHANGED <<planVars, stepVars, opVars, cardVars, shown, authority, lockVars, threadVars>>
  BY DEF TargetAnswers
<1>1. PICK r \in {"applied", "refused", "warned"} :
         /\ request' = [request EXCEPT ![a] = r]
         /\ writes' = IF r = "applied" THEN writes + 1 ELSE writes
  BY DEF TargetAnswers
<1>2. /\ request'[a] = r
      /\ \A b \in Auths : b # a => request'[b] = request[b]
  BY <1>1 DEF PlanInv, Rows, OtherRows
<1>3. \A b \in Auths : b # a => Settled(b)
  <2>1. ~Open
    BY <1>0 DEF PromiseInv, OpenFits, Settled
  <2>2. Committing => a = commit_op[2]
    BY <1>0 DEF PromiseInv, CommitFits, Settled
  <2>3. ~Settled(a)
    BY <1>0 DEF Settled
  <2> QED BY <2>1, <2>2, <2>3, Phases DEF PromiseInv, CommitFits, OverFits
<1>4. /\ \A b \in Auths : b # a => Settled(b)'
      /\ ~Open /\ (Committing => a = commit_op[2])
  BY <1>0, <1>2, <1>3, Phases DEF Settled, PromiseInv, OpenFits, CommitFits
<1>5. LockHolds(Null) /\ RequestsGo
  BY <1>0, <1>1, <1>2 DEF LockHolds, lockVars, RequestsGo
<1>6. PromiseInv' /\ planPhase' = planPhase
  BY <1>0, <1>4, <1>5, StepNumbers, RequestGoes DEF threadVars
<1>7. Abstract!Answer
  <2>1. writeEffect = "sent"
    BY <1>0 DEF writeEffect
  <2>2. writes = 0
    <3>1. \A b \in Auths : request[b] # "applied"
      BY <1>0, <1>3 DEF Settled
    <3> QED BY <3>1 DEF PlanInv, Rows, OtherRows, SentOK
  <2>3. \A b \in Auths : request'[b] # "sent"
    BY <1>2, <1>4 DEF Settled
  <2>4. writeEffect' \in {"applied", "none"}
    BY <2>3 DEF writeEffect
  <2> QED BY <1>6, <2>1, <2>4 DEF Abstract!Answer
<1> QED BY <1>6, <1>7 DEF Promised, Abstract!Next

-----------------------------------------------------------------------------
(* Steps that change the plan: what the other threads may still do.          *)

\* A thread that works neither on a step nor on the response of one.
Outside(u) ==
    /\ pc[u] \notin {"begin", "nothing_to_do", "reset", "consume"}
    /\ pc[u] = "advance" => u \in Hosts
    /\ pc[u] \in {"invoke"} \cup Executing => frame[u].op \notin StepOps

LEMMA LockedOut ==
    ASSUME Given, NEW t \in Threads, NEW u \in Threads, u # t, plan_lock \in {Null, t}
    PROVE  Outside(u)
<1>1. plan_lock # u
  BY StepNumbers
<1>2. LockFits(u) /\ OpFits(u) /\ LoopFits(u)
  BY DEF Given, PlanInv, ThreadFits, PromiseInv, WorkFits
<1> QED BY <1>1, <1>2 DEF Outside, LockFits, OpFits, LoopFits

\* An open plan that waits, or does not exist yet, is left to the host.
LEMMA WaitedOut ==
    ASSUME Given, NEW t \in Hosts, NEW u \in Threads, u # t,
           Open, plan_state \in {"waiting_user", "absent"}
    PROVE  Outside(u)
<1>1. u \notin Hosts /\ WorkFits(u)
  BY DEF Given, Undisturbed, PromiseInv
<1>2. pc[u] # "consume"
  <2>1. SUFFICES ASSUME pc[u] = "consume" PROVE FALSE
    OBVIOUS
  <2>2. frame[u].op \notin StepOps
    BY <1>1, <2>1 DEF WorkFits, StepFits
  <2>3. frame[u].op # Null
    BY <1>1, <2>1, <2>2 DEF WorkFits, AnswerFits, Answering
  <2>4. frame[u].op \in ResumeOps
    BY <2>2, <2>3 DEF Given, PlanInv, Rows, OtherRows, FrameShape, OpIds
  <2> QED BY <1>1, <2>1, <2>4 DEF WorkFits, OwnFits
<1>3. plan_state \notin {"validated", "running"}
  OBVIOUS
<1> QED BY <1>1, <1>2, <1>3 DEF Outside, WorkFits, LoopFits, StepFits, ActivePlanStates

LEMMA Bystander ==
    ASSUME Given, NEW t, NEW u \in Threads, u # t,
           pc'[u] = pc[u], frame'[u] = frame[u], Outside(u),
           CardsGo(t), shown \subseteq shown', op_state' = op_state,
           pc[u] = "terminal_lock" => Over' \/ step_int'[frame[u].step] = frame[u].int,
           u \in Hosts => CallFits(u)' /\ FinishFits(u)' /\ AnswerFits(u)'
    PROVE  WorkFits(u)'
<1>0. WorkFits(u)
  BY DEF Given, PromiseInv
<1>1. LoopFits(u)'
  <2>1. pc[u] = "bind" => frame[u].int \in Interactions /\ frame[u].int \in shown
    BY LabelFacts DEF Given
  <2>2. u \in Hosts => t \notin Hosts
    BY DEF Given, Undisturbed
  <2> QED BY <1>0, <2>1, <2>2 DEF WorkFits, LoopFits, Outside, CardsGo
<1>2. StepFits(u)'
  BY DEF StepFits, Outside
<1>3. OwnFits(u)'
  BY <1>0 DEF WorkFits, OwnFits
<1>4. u \notin Hosts => CallFits(u)' /\ FinishFits(u)' /\ AnswerFits(u)'
  <2>1. SUFFICES ASSUME u \notin Hosts PROVE CallFits(u)' /\ FinishFits(u)' /\ AnswerFits(u)'
    OBVIOUS
  <2>2. /\ pc[u] \in {"invoke", "respond", "relock", "consume"} \cup Executing =>
              frame[u].op \notin ResumeOps
        /\ pc[u] \notin {"respond", "relock", "consume"}
    BY <1>0, <2>1 DEF WorkFits, OwnFits, Outside
  <2>3. "finish" \in Executing
    BY DEF Executing
  <2> QED BY <2>2, <2>3 DEF CallFits, FinishFits, AnswerFits, Answering
<1> QED BY <1>1, <1>2, <1>3, <1>4 DEF WorkFits

\* A thread about to handle an interaction that has ended is waited for.
LEMMA TerminalLocked ==
    ASSUME Given, NEW u \in Threads, pc[u] = "terminal_lock"
    PROVE  /\ ~Committing /\ frame[u].step \in Steps
           /\ frame[u].int \in Interactions => TerminalCard(card[frame[u].int])
           /\ ~Used(frame[u].int) /\ frame[u].int \in shown
           /\ Open => /\ plan_state = "waiting_user" /\ frame[u].step = current_step
                      /\ step_int[current_step] = frame[u].int
<1> USE DEF Given
<1>1. /\ frame[u].step \in Steps /\ frame[u].int \in shown /\ frame[u].int # Null
      /\ frame[u].int \in Interactions => TerminalCard(card[frame[u].int])
      /\ ~Over => step_int[frame[u].step] = frame[u].int
  BY DEF PromiseInv, WorkFits, LoopFits
<1>2. ~Used(frame[u].int)
  BY <1>1 DEF Used, TerminalCard
<1>3. ~Committing
  BY <1>1, <1>2 DEF PromiseInv, CommitFits
<1>4. Open => plan_state = "waiting_user" /\ frame[u].step = current_step
  BY <1>1, Phases DEF PromiseInv, OpenFits
<1> QED BY <1>1, <1>2, <1>3, <1>4, Phases

\* An open plan that does not wait: everything shown is used up.
LEMMA OpenIdle ==
    ASSUME Given, Open, plan_state # "waiting_user"
    PROVE  /\ \A s \in Steps : step_int[s] = Null
           /\ \A i \in shown : Used(i) /\ ~Bound(i)
           /\ \A u \in Threads : pc[u] # "terminal_lock"
<1>1. \A s \in Steps : step_int[s] = Null
  BY DEF Given, PromiseInv, OpenFits
<1>2. \A i \in shown : ~Bound(i)
  BY <1>1 DEF Given, PromiseInv, SeenFits, Bound
<1>3. \A i \in shown : Used(i)
  BY <1>2 DEF Given, PromiseInv, OpenFits
<1> QED BY <1>1, <1>2, <1>3, TerminalLocked

\* No host is in the middle of a call where an open plan does not wait.
LEMMA NoCall ==
    ASSUME Given, Open, plan_state # "waiting_user", NEW u \in Threads,
           pc[u] \in {"invoke", "respond", "relock", "consume"} \cup Executing
    PROVE  frame[u].op \notin ResumeOps /\ pc[u] \notin {"respond", "relock"}
<1> USE DEF Given
<1>0. WorkFits(u) /\ ~Committing
  BY Phases DEF PromiseInv
<1>1. SUFFICES ASSUME frame[u].op \in ResumeOps PROVE FALSE
  BY <1>0 DEF WorkFits, OwnFits
<1>2. frame[u].op \notin StepOps
  BY <1>1, Operations
<1>3. CASE pc[u] \in Early
  BY <1>1, <1>3, EarlyCall
<1>4. CASE pc[u] \in Writing
  BY <1>0, <1>1, <1>4 DEF WorkFits, CallFits, Writing, Executing
<1>5. CASE pc[u] = "finish"
  BY <1>0, <1>1, <1>5 DEF WorkFits, FinishFits, Harmless
<1>6. CASE pc[u] \in Answering
  BY <1>0, <1>2, <1>6 DEF WorkFits, AnswerFits, Harmless
<1> QED BY <1>3, <1>4, <1>5, <1>6 DEF Early, Executing, Writing, Answering

LEMMA OpenGoesOn ==
    ASSUME Given, NEW t \in Threads, NEW u \in Threads, u # t,
           pc'[u] = pc[u], frame'[u] = frame[u],
           plan_lock \in {Null, t} \/ (t \in Hosts /\ plan_state = "absent"),
           Open, plan_state # "waiting_user",
           UNCHANGED <<cardVars, opVars>>, shown \subseteq shown'
    PROVE  WorkFits(u)'
<1>1. Outside(u)
  BY LockedOut, WaitedOut
<1>2. op_state' = op_state /\ CardsGo(t)
  <2>1. card' = card /\ op_state' = op_state
    BY DEF cardVars, opVars
  <2> QED BY <2>1 DEF CardsGo, TerminalCard
<1>3. CallFits(u)' /\ FinishFits(u)' /\ AnswerFits(u)'
  <2>1. /\ pc[u] \in {"invoke", "respond", "relock", "consume"} \cup Executing =>
              frame[u].op \notin ResumeOps /\ pc[u] \notin {"respond", "relock"}
        /\ "finish" \in Executing /\ pc[u] # "consume"
    BY <1>1, NoCall DEF Executing, Outside
  <2> QED BY <2>1 DEF CallFits, FinishFits, AnswerFits, Answering
<1>4. pc[u] # "terminal_lock"
  BY OpenIdle
<1> QED BY <1>1, <1>2, <1>3, <1>4, Bystander

\* A host in a call, where another thread settles the commit it began.
LEMMA Settling ==
    ASSUME Given, Committing, op_state[commit_op] # "running", NEW u \in Threads,
           pc[u] \in {"invoke", "respond", "relock", "consume"} \cup Executing,
           frame[u].op \in ResumeOps
    PROVE  /\ pc[u] \in Answering /\ frame[u].op = commit_op /\ frame[u].resp = Recorded
           /\ pc[u] # "respond" => current_step \in {frame[u].step, Null}
           /\ pc[u] = "respond" => frame[u].bound
<1> USE DEF Given
<1>0. WorkFits(u) /\ frame[u].op \notin StepOps
  BY Operations DEF PromiseInv
<1>1. pc[u] \notin Early
  BY EarlyCall
<1>2. pc[u] \notin Writing
  BY WritingCall
<1>3. pc[u] # "finish"
  <2>1. SUFFICES ASSUME pc[u] = "finish" PROVE FALSE
    OBVIOUS
  <2>2. pc[u] \in Executing
    BY <2>1 DEF Executing
  <2>3. op_state[frame[u].op] = "running"
    BY <2>2, ExecutingFacts
  <2> QED BY <1>0, <2>1, <2>3 DEF WorkFits, FinishFits
<1>4. pc[u] \in Answering
  BY <1>1, <1>2, <1>3 DEF Early, Executing, Writing, Answering
<1> QED BY <1>0, <1>4, Operations, Phases DEF WorkFits, AnswerFits, CallFits

-----------------------------------------------------------------------------
(* Steps of an open plan that does not wait.                                 *)

LEMMA IdleGoesOn ==
    ASSUME Given, NEW t \in Threads, NEW label, NEW k, Goto(t, label, k),
           plan_lock \in {Null, t} \/ (t \in Hosts /\ plan_state = "absent"),
           Open, plan_state # "waiting_user",
           UNCHANGED <<commit_op, opVars, cardVars, shown, worldVars>>,
           plan_state' \in {"validated", "running"}, \A s \in Steps : step_int'[s] = Null,
           WorkFits(t)'
    PROVE  Kept
<1> USE DEF Given
<1>1. /\ card' = card /\ op_state' = op_state /\ op_int' = op_int
      /\ UNCHANGED <<request, writes, authority, shown, commit_op>>
  BY DEF cardVars, opVars, worldVars
<1>2. Open' /\ ~Over' /\ ~Committing'
  BY <1>1 DEF Open, Over, Committing, TerminalPlanStates
<1>3. \A u \in Threads : WorkFits(u)'
  BY Moves, OpenGoesOn
<1>4. authority' = TRUE /\ SeenFits' /\ OpsFit'
  BY <1>1 DEF PromiseInv, SeenFits, OpsFit
<1>5. OpenFits'
  <2>1. \A i \in shown : Used(i)'
    BY <1>1, OpenIdle DEF Used
  <2>2. \A a \in Auths : Settled(a)'
    BY <1>1 DEF PromiseInv, OpenFits, Settled
  <2> QED BY <1>1, <2>1, <2>2 DEF OpenFits
<1>6. CommitFits' /\ OverFits'
  BY <1>2 DEF CommitFits, OverFits
<1>7. UNCHANGED <<planPhase, writeEffect>>
  <2>1. planPhase = "open"
    BY PhaseIs
  <2>2. planPhase' = "open"
    BY <1>2 DEF planPhase, Open, Over
  <2> QED BY <1>1, <2>1, <2>2 DEF writeEffect
<1> QED BY <1>3, <1>4, <1>5, <1>6, <1>7 DEF PromiseInv, Kept

LEMMA BeginGoesOn ==
    ASSUME Given, NEW t \in Threads, BeginNextStep(t)
    PROVE  Kept
<1> USE DEF Given
<1>1. CASE HasCurrentStep
  BY <1>1, BeginAgain
<1>2. CASE ~HasCurrentStep
  <2>0. /\ pc[t] = "begin" /\ plan_lock = t /\ Open /\ plan_state # "waiting_user"
        /\ UNCHANGED <<opVars, cardVars, shown, worldVars>>
    <3>1. pc[t] = "begin" /\ plan_lock = t /\ LoopFits(t)
      BY LabelFacts DEF BeginNextStep, PromiseInv, WorkFits
    <3>2. Open
      BY <3>1, Phases DEF LoopFits
    <3>3. plan_state # "waiting_user"
      BY <1>2, <3>2, StepNumbers DEF PromiseInv, OpenFits, HasCurrentStep
    <3> QED BY <3>1, <3>2, <3>3 DEF BeginNextStep
  <2>1. PICK s \in NextSteps :
          /\ plan_state' = "running" /\ current_step' = s
          /\ UNCHANGED <<commit_op, step_int>>
          /\ RunStep(t, s)
    BY <1>2, Zenon DEF BeginNextStep
  <2>2. Goto(t, "invoke", [EmptyFrame EXCEPT !.step = s, !.op = <<"step", s, attempt'[s]>>])
    BY <2>1 DEF RunStep, PromiseInv
  <2>3. commit_op' = Null /\ \A r \in Steps : step_int'[r] = Null
    BY <2>0, <2>1, OpenIdle, Phases
  <2>4. WorkFits(t)'
    BY <2>1, <2>2, <2>3, BegunFits
  <2> QED BY <2>0, <2>1, <2>2, <2>3, <2>4, IdleGoesOn
<1> QED BY <1>1, <1>2

LEMMA ResetGoesOn ==
    ASSUME Given, NEW t \in Threads, ResetRunningStep(t)
    PROVE  Kept
<1> USE DEF Given
<1>0. /\ pc[t] = "reset" /\ plan_lock = t /\ Goto(t, "advance", EmptyFrame)
      /\ plan_state' = "running"
      /\ step_int' = [step_int EXCEPT ![frame[t].step] = Null]
      /\ UNCHANGED <<commit_op, opVars, cardVars, shown, worldVars, lockVars>>
      /\ LoopFits(t)
  BY LabelFacts DEF ResetRunningStep, PromiseInv, WorkFits
<1>1. Open /\ plan_state # "waiting_user"
  BY <1>0, Phases DEF LoopFits, ActivePlanStates
<1>2. \A s \in Steps : step_int'[s] = Null
  BY <1>0, <1>1, OpenIdle DEF PlanInv, Rows, StepRows
<1>3. WorkFits(t)'
  <2>1. pc'[t] = "advance"
    BY <1>0, Moves
  <2>2. LoopFits(t)'
    BY <1>0, <2>1 DEF LoopFits, lockVars
  <2> QED BY <2>1, <2>2, InLoop DEF Loops
<1> QED BY <1>0, <1>1, <1>2, <1>3, IdleGoesOn

LEMMA PrepareGoesOn ==
    ASSUME Given, NEW t \in Threads, PrepareTaskPlan(t)
    PROVE  Kept
<1> USE DEF Given
<1>0. /\ t \in Hosts /\ pc[t] = "idle" /\ Goto(t, "advance", EmptyFrame)
      /\ UNCHANGED <<current_step, commit_op, stepVars, opVars, cardVars, shown, worldVars, lockVars>>
  BY DEF PrepareTaskPlan
<1>1. LoopFits(t)'
  <2>1. pc'[t] = "advance"
    BY <1>0, Moves
  <2> QED BY <1>0, <2>1 DEF LoopFits
<1>2. CASE plan_state # "absent"
  <2>1. UNCHANGED planVars
    BY <1>0, <1>2 DEF PrepareTaskPlan, planVars
  <2>2. LockHolds(t)
    BY <1>0, LockSame DEF lockVars
  <2> QED BY <1>0, <1>1, <2>1, <2>2, LoopMoves DEF Loops
<1>3. CASE plan_state = "absent"
  <2>1. plan_state' = "validated"
    BY <1>3 DEF PrepareTaskPlan
  <2>2. ~Committing
    BY <1>3, Marker
  <2>3. Open /\ plan_state # "waiting_user"
    BY <1>3, <2>2, Phases
  <2>4. \A s \in Steps : step_int'[s] = Null
    BY <1>0, <2>3, OpenIdle DEF stepVars
  <2>5. WorkFits(t)'
    BY <1>0, <1>1, Moves, InLoop DEF Loops
  <2> QED BY <1>0, <1>3, <2>1, <2>3, <2>4, <2>5, IdleGoesOn
<1> QED BY <1>2, <1>3

\* A response about to be consumed: of a step, of what the user answered to an
\* open plan, or of the commit.
LEMMA Consuming ==
    ASSUME Given, NEW t \in Threads, pc[t] = "consume"
    PROVE  /\ plan_lock = t /\ frame[t].step \in Steps /\ frame[t] \in FrameShape
           /\ \/ /\ frame[t].op \in StepOps
                 /\ Open /\ plan_state # "waiting_user" /\ plan_state # "absent"
                 /\ current_step = frame[t].step /\ frame[t].resp.st # "unknown"
              \/ /\ frame[t].op \in ResumeOps /\ t \in Hosts
                 /\ Open /\ Harmless(frame[t].resp, frame[t].op)
                 /\ current_step = frame[t].step
              \/ /\ Committing /\ frame[t].resp = Recorded /\ op_state[commit_op] # "running"
                 /\ current_step \in {frame[t].step, Null}
<1> USE DEF Given
<1>1. plan_lock = t /\ frame[t].step \in Steps /\ frame[t] \in FrameShape /\ WorkFits(t)
  BY LabelFacts DEF PromiseInv
<1>2. CASE frame[t].op \in StepOps
  BY <1>1, <1>2, Phases DEF WorkFits, StepFits, ActivePlanStates
<1>3. CASE frame[t].op \notin StepOps
  <2>1. pc[t] \in Answering
    BY DEF Answering
  <2>2. AnswerFits(t) /\ OwnFits(t)
    BY <1>1 DEF WorkFits
  <2>3. CASE Committing
    BY <1>1, <1>3, <2>1, <2>2, <2>3 DEF AnswerFits
  <2>4. CASE Open
    <3>1. /\ Harmless(frame[t].resp, frame[t].op) /\ frame[t].op # Null
          /\ frame[t].step = current_step
      BY <1>3, <2>1, <2>2, <2>4 DEF AnswerFits
    <3>2. frame[t].op \in ResumeOps
      BY <1>1, <1>3, <3>1 DEF FrameShape, OpIds
    <3>3. t \in Hosts
      BY <2>2, <3>2 DEF OwnFits
    <3> QED BY <1>1, <2>4, <3>1, <3>2, <3>3
  <2>5. CASE Over
    BY <1>3, <2>1, <2>2, <2>5 DEF AnswerFits
  <2> QED BY <2>3, <2>4, <2>5, Phases
<1> QED BY <1>2, <1>3

LEMMA SucceededGoesOn ==
    ASSUME Given, NEW t \in Threads, MarkStepSucceeded(t), Open
    PROVE  Kept
<1> USE DEF Given
<1>0. /\ pc[t] = "consume"
      /\ frame[t].resp.st \in {"succeeded", "empty", "incomplete"}
      /\ plan_state' = "running"
      /\ step_int' = [step_int EXCEPT ![frame[t].step] = Null]
      /\ UNCHANGED <<commit_op, opVars, cardVars, shown, worldVars, lockVars>>
  BY DEF MarkStepSucceeded
<1>1. plan_lock = t /\ plan_state # "waiting_user"
  BY <1>0, Consuming, Phases DEF Harmless
<1>2. PICK label \in {"advance", "nothing_to_do"} : Goto(t, label, EmptyFrame)
  BY DEF MarkStepSucceeded
<1>3. \A s \in Steps : step_int'[s] = Null
  BY <1>0, <1>1, OpenIdle DEF PlanInv, Rows, StepRows
<1>4. WorkFits(t)'
  <2>1. pc'[t] = label
    BY <1>2, Moves
  <2>2. LoopFits(t)'
    BY <1>0, <1>1, <2>1, Phases DEF LoopFits, lockVars
  <2> QED BY <2>1, <2>2, InLoop DEF Loops
<1> QED BY <1>0, <1>1, <1>2, <1>3, <1>4, IdleGoesOn

-----------------------------------------------------------------------------
(* The plan ends.                                                            *)

LEMMA LiveIsWaitedFor ==
    ASSUME Given, ~Over, NEW i \in shown, card[i] \in LiveCards, i \in Interactions
    PROVE  Open /\ Bound(i)
<1>1. ~Used(i)
  BY DEF Used, LiveCards
<1> QED BY <1>1, Phases DEF Given, PromiseInv, CommitFits, OpenFits

LEMMA EndsGoesOn ==
    ASSUME Given, NEW t \in Threads, NEW u \in Threads, u # t,
           pc'[u] = pc[u], frame'[u] = frame[u], plan_lock \in {Null, t},
           Open \/ (Committing /\ op_state[commit_op] # "running"), Over',
           UNCHANGED <<cardVars, opVars, shown>>,
           pc[u] \in {"finish", "respond"} /\ frame[u].op \in ResumeOps
             /\ frame[u].resp.int \notin shown \cup {Null} => Bound(frame[u].op[2])'
    PROVE  WorkFits(u)'
<1> USE DEF Given
<1>0. /\ WorkFits(u) /\ ~Over /\ ~Open' /\ ~Committing'
      /\ card' = card /\ op_state' = op_state
  BY Phases DEF PromiseInv, cardVars, opVars, Open, Committing
<1>1. Outside(u)
  BY LockedOut
<1>2. CardsGo(t)
  BY <1>0 DEF CardsGo
<1>3. pc[u] \notin Writing
  BY WritingCall, Phases
<1>4. CallFits(u)'
  BY <1>0, <1>3 DEF WorkFits, CallFits
<1>5. FinishFits(u)'
  BY <1>0 DEF WorkFits, FinishFits
<1>6. AnswerFits(u)'
  BY <1>0, <1>1 DEF AnswerFits, Outside
<1> QED BY <1>0, <1>1, <1>2, <1>4, <1>5, <1>6, Bystander

LEMMA EndKeeps ==
    ASSUME Given, NEW t \in Threads, NEW label \in {"idle", "retire"}, NEW k, Goto(t, label, k),
           plan_lock \in {Null, t},
           Open \/ (Committing /\ op_state[commit_op] # "running"), Over',
           UNCHANGED <<cardVars, opVars, shown, worldVars>>,
           \A s \in Steps : step_int'[s] \in {step_int[s], Null},
           \A u \in Threads :
               u # t /\ pc[u] \in {"finish", "respond"} /\ frame[u].op \in ResumeOps
                 /\ frame[u].resp.int \notin shown \cup {Null} => Bound(frame[u].op[2])',
           \A i \in shown \cap Interactions :
               card[i] \in LiveCards /\ Bound(i) => Bound(i)' \/ Forsaken(i)'
    PROVE  PromiseInv' /\ writeEffect' = writeEffect /\ planPhase' = plan_state'
<1> USE DEF Given
<1>0. /\ card' = card /\ op_state' = op_state /\ op_int' = op_int /\ ~Over
      /\ UNCHANGED <<request, writes, authority, shown>>
      /\ \A u \in Threads : u # t => pc'[u] = pc[u] /\ frame'[u] = frame[u]
      /\ pc'[t] = label
  BY Moves, Phases DEF cardVars, opVars, worldVars
<1>1. \A u \in Threads : WorkFits(u)'
  BY <1>0, EndsGoesOn, AtRest DEF Rest
<1>2. authority' = TRUE /\ OpsFit'
  BY <1>0 DEF PromiseInv, OpsFit
<1>3. SeenFits'
  BY <1>0 DEF PromiseInv, SeenFits
<1>4. OpenFits' /\ CommitFits'
  BY DEF OpenFits, CommitFits, Open, Committing
<1>5. OverFits'
  <2>1. \A i \in shown \cap Interactions : card[i] \in LiveCards => Bound(i)' \/ Forsaken(i)'
    BY <1>0, LiveIsWaitedFor
  <2>2. \A a, b \in Auths : Settled(a) \/ Settled(b) \/ a = b
    BY DEF PromiseInv, OpenFits, CommitFits
  <2> QED BY <1>0, <2>1, <2>2 DEF OverFits, Settled
<1>6. writeEffect' = writeEffect /\ planPhase' = plan_state'
  BY <1>0 DEF writeEffect, planPhase, Over
<1> QED BY <1>1, <1>2, <1>3, <1>4, <1>5, <1>6 DEF PromiseInv

\* What a call still has to deliver belongs to what the plan waits on.
LEMMA AnswersAreBound ==
    ASSUME Given, NEW u \in Threads, pc[u] \in {"finish", "respond"}, frame[u].op \in ResumeOps,
           frame[u].resp.int \notin shown \cup {Null}
    PROVE  Bound(frame[u].op[2]) /\ card[frame[u].op[2]] = "consumed"
<1>1. pc[u] \in {"invoke", "respond"} \cup Executing
  BY DEF Executing
<1> QED BY <1>1 DEF Given, PromiseInv, WorkFits, CallFits

\* The operation of the commit has succeeded: the write is applied.
LEMMA SucceededIsApplied ==
    ASSUME Given, Committing, op_state[commit_op] = "succeeded"
    PROVE  writeEffect = "applied"
<1>1. Result(commit_op[2], op_state[commit_op], op_int[commit_op])
  BY DEF Given, PromiseInv, CommitFits
<1>2. request[commit_op[2]] = "applied"
  BY <1>1 DEF Result
<1> QED BY <1>2, EffectIs DEF Given

LEMMA CompletionIsPromised ==
    ASSUME Given, NEW t \in Threads, CompletePlan(t), plan_lock \in {Null, t},
           Open \/ (Committing /\ op_state[commit_op] = "succeeded")
    PROVE  Promised
<1> USE DEF Given
<1>0. /\ plan_state' = "succeeded" /\ Goto(t, "idle", EmptyFrame)
      /\ UNCHANGED <<step_int, opVars, cardVars, shown, worldVars>>
  BY DEF CompletePlan, Return
<1>1. Over' /\ \A i : Bound(i)' = Bound(i)
  BY <1>0 DEF Over, TerminalPlanStates, Bound
<1>2. PromiseInv' /\ writeEffect' = writeEffect /\ planPhase' = plan_state'
  <2>1. \A s \in Steps : step_int'[s] \in {step_int[s], Null}
    BY <1>0
  <2>2. \A u \in Threads :
           u # t /\ pc[u] \in {"finish", "respond"} /\ frame[u].op \in ResumeOps
             /\ frame[u].resp.int \notin shown \cup {Null} => Bound(frame[u].op[2])'
    BY <1>0, Moves, AnswersAreBound DEF Bound
  <2>3. \A i \in shown \cap Interactions :
           card[i] \in LiveCards /\ Bound(i) => Bound(i)' \/ Forsaken(i)'
    BY <1>1
  <2>4. PICK k : Goto(t, "idle", k)
    BY <1>0
  <2>5. Open \/ (Committing /\ op_state[commit_op] # "running")
    OBVIOUS
  <2> QED BY <1>0, <1>1, <2>1, <2>2, <2>3, <2>4, <2>5, EndKeeps
<1>3. Abstract!Succeed
  BY <1>0, <1>2, PhaseIs, EffectIs, SucceededIsApplied DEF Abstract!Succeed
<1> QED BY <1>2, <1>3 DEF Promised, Abstract!Next

LEMMA CancelingIsPromised ==
    ASSUME Given, NEW t \in Threads, CancelPlan(t), Cancelable, plan_lock \in {Null, t}
    PROVE  Promised
<1> USE DEF Given
<1>0. /\ plan_state' = "canceled" /\ \E k : Goto(t, "retire", k)
      /\ UNCHANGED <<step_int, opVars, cardVars, shown, worldVars>>
  BY DEF CancelPlan, LockPlanAndGoto
<1>1. Over' /\ \A i : Bound(i)' = Bound(i)
  BY <1>0 DEF Over, TerminalPlanStates, Bound
<1>2. Open
  BY Phases DEF Cancelable
<1>3. PromiseInv' /\ writeEffect' = writeEffect /\ planPhase' = plan_state'
  <2>1. \A s \in Steps : step_int'[s] \in {step_int[s], Null}
    BY <1>0
  <2>2. \A u \in Threads :
           u # t /\ pc[u] \in {"finish", "respond"} /\ frame[u].op \in ResumeOps
             /\ frame[u].resp.int \notin shown \cup {Null} => Bound(frame[u].op[2])'
    BY <1>0, Moves, AnswersAreBound DEF Bound
  <2>3. \A i \in shown \cap Interactions :
           card[i] \in LiveCards /\ Bound(i) => Bound(i)' \/ Forsaken(i)'
    BY <1>1
  <2>4. PICK k : Goto(t, "retire", k)
    BY <1>0
  <2>5. Open \/ (Committing /\ op_state[commit_op] # "running")
    BY <1>2
  <2> QED BY <1>0, <1>1, <2>1, <2>2, <2>3, <2>4, <2>5, EndKeeps
<1>4. Abstract!Cancel
  BY <1>0, <1>2, <1>3, PhaseIs, EffectIs DEF Abstract!Cancel
<1> QED BY <1>3, <1>4 DEF Promised, Abstract!Next

\* A commit is over once its step is: the operation has succeeded.
LEMMA NoStepOfCommit ==
    ASSUME Given, Committing, current_step # Null => step_state[current_step] # "running"
    PROVE  op_state[commit_op] = "succeeded"
BY DEF Given, PromiseInv, CommitFits

LEMMA AdvanceIsPromised ==
    ASSUME Given, NEW t \in Threads, AdvanceGet(t)
    PROVE  Promised
<1> USE DEF Given
<1>0. pc[t] = "advance" /\ MayLockPlan(t)
  BY DEF AdvanceGet
<1>1. CASE /\ Return(t)
           /\ UNCHANGED <<planVars, stepVars, opVars, cardVars, shown, worldVars>>
  BY <1>0, <1>1, ReturnKeeps, KeptIsPromised
<1>2. CASE /\ plan_state \in ActivePlanStates /\ commit_op # Null /\ AllStepsDone
           /\ CompletePlan(t)
  <2>1. Committing
    BY <1>2, Phases DEF Committing
  <2>2. current_step # Null => step_state[current_step] # "running"
    BY <1>2 DEF AllStepsDone, PlanInv, Rows, StepRows
  <2> QED BY <1>0, <1>2, <2>1, <2>2, NoStepOfCommit, CompletionIsPromised DEF MayLockPlan
<1>3. CASE /\ plan_state \in ActivePlanStates /\ commit_op = Null
           /\ LockPlanAndGoto(t, "begin", EmptyFrame)
           /\ UNCHANGED <<planVars, stepVars, opVars, cardVars, shown, worldVars>>
  BY <1>0, <1>3, AdvanceGoesOn, KeptIsPromised
<1> QED BY <1>1, <1>2, <1>3, Zenon DEF AdvanceGet

LEMMA NoStepLeftIsPromised ==
    ASSUME Given, NEW t \in Threads, NoStepLeft(t) \/ NothingToDo(t)
    PROVE  Promised
<1>1. CompletePlan(t) /\ pc[t] \in {"begin", "nothing_to_do"}
  BY DEF NoStepLeft, NothingToDo
<1>2. LoopFits(t) /\ (pc[t] = "begin" => plan_lock = t)
  BY LabelFacts DEF Given, PromiseInv, WorkFits
<1>3. plan_lock = t /\ Open
  BY <1>1, <1>2, Phases DEF LoopFits, ActivePlanStates
<1> QED BY <1>1, <1>3, CompletionIsPromised

LEMMA RecoverCommitIsPromised ==
    ASSUME Given, NEW t \in Threads, RecoverCommit(t)
    PROVE  Promised
<1>1. CASE step_state[CommitStep] # "succeeded"
  BY <1>1, RecoverCommitGoesOn, KeptIsPromised
<1>2. CASE step_state[CommitStep] = "succeeded"
  <2>1. /\ plan_lock = Null /\ Committing /\ CompletePlan(t)
    BY <1>2, Phases DEF RecoverCommit, Recovering, Committing
  <2>2. current_step # Null => step_state[current_step] # "running"
    BY <1>2 DEF CommitStep
  <2> QED BY <2>1, <2>2, NoStepOfCommit, CompletionIsPromised
<1> QED BY <1>1, <1>2

LEMMA FailingIsPromised ==
    ASSUME Given, NEW t \in Threads, NEW s \in Steps, NEW st, FailPlan(t, s, st), UNCHANGED opVars,
           st \in {"failed", "outcome_unknown"}, plan_lock \in {Null, t},
           Open \/ (Committing /\ op_state[commit_op] # "running"),
           \A u \in Threads :
               u # t /\ pc[u] \in {"finish", "respond"} /\ frame[u].op \in ResumeOps =>
                   frame[u].resp.int \in shown \cup {Null},
           \A i \in shown \cap Interactions :
               card[i] \in LiveCards /\ step_int[s] = i =>
                   t \in Hosts /\ pc[t] = "consume"
                   /\ frame[t].op \in ResumeOps /\ frame[t].op[2] = i
    PROVE  PromiseInv' /\ writeEffect' = writeEffect /\ planPhase' = st
<1> USE DEF Given
<1> DEFINE k == [EmptyFrame EXCEPT !.retire = StepInteractions]
<1>0. /\ plan_state' = st /\ Goto(t, "retire", k) /\ k.retire = StepInteractions
      /\ step_int' = [step_int EXCEPT ![s] = Null]
      /\ UNCHANGED <<commit_op, opVars, cardVars, shown, worldVars>>
  BY DEF FailPlan, MarkStepFailed, LockPlanAndGoto, EmptyFrame
<1> HIDE DEF k
<1>1. Over'
  BY <1>0 DEF Over, TerminalPlanStates
<1>2. \A r \in Steps : step_int'[r] = IF r = s THEN Null ELSE step_int[r]
  BY <1>0 DEF PlanInv, Rows, StepRows
<1>3. \A r \in Steps : step_int'[r] \in {step_int[r], Null}
  BY <1>2
<1>4. ASSUME NEW i \in shown \cap Interactions, card[i] \in LiveCards, Bound(i)
      PROVE  Bound(i)' \/ Forsaken(i)'
  <2>1. PICK r \in Steps : step_int[r] = i
    BY <1>4 DEF Bound
  <2>2. CASE r # s
    BY <1>2, <2>1, <2>2 DEF Bound
  <2>3. CASE r = s
    <3>1. t \in Hosts /\ pc[t] = "consume" /\ frame[t].op \in ResumeOps /\ frame[t].op[2] = i
      BY <1>4, <2>1, <2>3
    <3>2. pc'[t] = "retire" /\ frame'[t] = k
      BY <1>0, Moves
    <3>3. i \in k.retire
      BY <1>0, <2>1, Cards DEF StepInteractions
    <3>4. CASE MaxCrashes = 0
      BY <3>1, <3>2, <3>3, <3>4 DEF Forsaken
    <3>5. CASE MaxCrashes # 0
      <4>1. \A x \in Keys : frame[t].op = <<"resume", i, x>>
        BY <3>1, <3>5, Operations DEF Undisturbed
      <4>2. op_state[frame[t].op] # "absent"
        <5>1. OwnFits(t)
          BY DEF PromiseInv, WorkFits
        <5> QED BY <3>1, <5>1 DEF OwnFits, Answering
      <4>3. op_state' = op_state
        BY <1>0 DEF opVars
      <4>4. ASSUME NEW u \in Threads, pc'[u] \in Executing
            PROVE  frame'[u].op # frame[t].op
        <5>1. u # t /\ pc'[u] = pc[u] /\ frame'[u] = frame[u]
          BY <1>0, <3>2, <4>4, Moves DEF Executing
        <5>2. u \notin Hosts
          BY <3>1, <5>1 DEF Undisturbed
        <5>3. OwnFits(u)
          BY DEF PromiseInv, WorkFits
        <5> QED BY <3>1, <4>4, <5>1, <5>2, <5>3 DEF OwnFits
      <4> QED BY <3>5, <4>1, <4>2, <4>3, <4>4 DEF Forsaken
    <3> QED BY <3>4, <3>5
  <2> QED BY <2>2, <2>3
<1>5. \A u \in Threads :
         ~(u # t /\ pc[u] \in {"finish", "respond"} /\ frame[u].op \in ResumeOps
           /\ frame[u].resp.int \notin shown \cup {Null})
  OBVIOUS
<1> QED BY <1>0, <1>1, <1>3, <1>4, <1>5, EndKeeps

\* Of a failed response nothing is left to deliver, and what was resumed is
\* used up or resumed by this very call.
LEMMA FailureIsPromised ==
    ASSUME Given, NEW t \in Threads, ConsumeFailure(t)
    PROVE  Promised
<1> USE DEF Given
<1> DEFINE r == frame[t].resp
           s == frame[t].step
           st == FailedState(r.st)
<1>0. /\ pc[t] = "consume" /\ plan_lock = t /\ s \in Steps /\ frame[t] \in FrameShape
      /\ FailPlan(t, s, st) /\ UNCHANGED opVars
      /\ \/ r.st \in {"failed", "unknown", "incomplete"}
         \/ r.st = "requires_user_action" /\ r.int = Null
      /\ st \in {"failed", "outcome_unknown"}
  BY Consuming DEF ConsumeFailure, FailedState
<1>1. CASE /\ frame[t].op \in StepOps
           /\ Open /\ plan_state # "waiting_user" /\ r.st # "unknown"
  <2>1. \A u \in Threads : ~(pc[u] \in {"finish", "respond"} /\ frame[u].op \in ResumeOps)
    BY <1>1, NoCall DEF Executing
  <2>2. \A i \in shown \cap Interactions : card[i] \notin LiveCards
    BY <1>1, OpenIdle DEF Used, LiveCards
  <2>3. PromiseInv' /\ writeEffect' = writeEffect /\ planPhase' = st
    <3> HIDE DEF st, s, r
    <3> QED BY <1>0, <1>1, <2>1, <2>2, FailingIsPromised
  <2>4. st = "failed" /\ planPhase = "open" /\ writeEffect = "none"
    BY <1>1, PhaseIs, EffectIs DEF FailedState
  <2> QED BY <2>3, <2>4 DEF Promised, Abstract!Next, Abstract!Fail
<1>2. CASE /\ frame[t].op \in ResumeOps /\ t \in Hosts
           /\ Open /\ Harmless(r, frame[t].op)
  <2>1. \A u \in Threads :
           ~(u # t /\ pc[u] \in {"finish", "respond"} /\ frame[u].op \in ResumeOps)
    <3>1. ASSUME NEW u \in Threads, u # t, pc[u] \in {"finish", "respond"}, frame[u].op \in ResumeOps
          PROVE  FALSE
      <4>1. OwnFits(u) /\ u \notin Hosts
        BY <1>2, <3>1 DEF PromiseInv, WorkFits, Undisturbed
      <4> QED BY <3>1, <4>1 DEF OwnFits, Executing
    <3> QED BY <3>1
  <2>2. \A i \in shown \cap Interactions : card[i] \in LiveCards => frame[t].op[2] = i
    BY <1>0, <1>2 DEF Harmless, AskedFor, Used, LiveCards
  <2>3. PromiseInv' /\ writeEffect' = writeEffect /\ planPhase' = st
    <3> HIDE DEF st, s, r
    <3> QED BY <1>0, <1>2, <2>1, <2>2, FailingIsPromised
  <2>4. st = "failed" /\ planPhase = "open" /\ writeEffect = "none"
    BY <1>2, PhaseIs, EffectIs DEF FailedState, Harmless
  <2> QED BY <2>3, <2>4 DEF Promised, Abstract!Next, Abstract!Fail
<1>3. CASE Committing /\ r = Recorded /\ op_state[commit_op] # "running"
  <2>0. Result(commit_op[2], r.st, r.int)
    BY <1>3 DEF PromiseInv, CommitFits, Recorded
  <2>1. r.int = Null /\ r.st \in {"failed", "unknown"}
        /\ (r.st = "failed" => request[commit_op[2]] = "refused")
    BY <1>0, <2>0 DEF Result
  <2>2. \A u \in Threads :
           pc[u] \in {"finish", "respond"} /\ frame[u].op \in ResumeOps =>
               frame[u].resp.int \in shown \cup {Null}
    BY <1>3, <2>1, Settling DEF Executing
  <2>3. \A i \in shown \cap Interactions : card[i] \notin LiveCards
    BY <1>3, LiveIsWaitedFor, Phases
  <2>4. PromiseInv' /\ writeEffect' = writeEffect /\ planPhase' = st
    <3> HIDE DEF st, s, r
    <3> QED BY <1>0, <1>3, <2>2, <2>3, FailingIsPromised
  <2>5. planPhase = "committing"
    BY <1>3, PhaseIs
  <2>6. CASE r.st = "unknown"
    BY <2>4, <2>5, <2>6 DEF Promised, Abstract!Next, Abstract!LoseTrack, FailedState
  <2>7. CASE r.st = "failed"
    <3>1. writeEffect = "none" /\ st = "failed"
      BY <1>3, <2>1, <2>7, EffectIs DEF FailedState
    <3> QED BY <2>4, <2>5, <3>1 DEF Promised, Abstract!Next, Abstract!Fail
  <2> QED BY <2>1, <2>6, <2>7
<1> QED BY <1>0, <1>1, <1>2, <1>3, Consuming, Zenon

LEMMA TerminalIsPromised ==
    ASSUME Given, NEW t \in Threads, HandleTerminal(t)
    PROVE  Promised
<1> USE DEF Given
<1> DEFINE i == frame[t].int
<1>0. pc[t] = "terminal_lock" /\ plan_lock \in {Null, t}
  BY DEF HandleTerminal, MayLockPlan
<1>1. CASE \/ plan_state \notin ActivePlanStates
           \/ card[i] = "rejected" /\ ~Cancelable
  BY <1>1, NotCanceled, KeptIsPromised
<1>2. CASE /\ plan_state \in ActivePlanStates
           /\ ~(card[i] = "rejected" /\ ~Cancelable)
  <2>1. /\ Open /\ frame[t].step \in Steps /\ i \in shown /\ ~Used(i)
        /\ i \in Interactions => TerminalCard(card[i])
        /\ plan_state = "waiting_user" /\ frame[t].step = current_step
        /\ step_int[current_step] = i
    BY <1>0, <1>2, TerminalLocked, Phases
  <2>2. CASE CancelPlan(t) /\ Cancelable
    BY <1>0, <2>2, CancelingIsPromised
  <2>3. CASE FailPlan(t, frame[t].step, "failed") /\ UNCHANGED opVars
    <3>1. ASSUME NEW u \in Threads, pc[u] \in {"finish", "respond"}, frame[u].op \in ResumeOps
          PROVE  frame[u].resp.int \in shown \cup {Null}
      <4>1. SUFFICES ASSUME frame[u].resp.int \notin shown \cup {Null}
                     PROVE  FALSE
        OBVIOUS
      <4>2. card[frame[u].op[2]] = "consumed" /\ frame[u].op[2] \in Interactions
            /\ frame[u].op \notin StepOps
        BY <3>1, <4>1, AnswersAreBound, Operations
      <4>3. Harmless(frame[u].resp, frame[u].op)
        <5>1. FinishFits(u) /\ AnswerFits(u)
          BY DEF PromiseInv, WorkFits
        <5> QED BY <2>1, <3>1, <4>2, <5>1 DEF FinishFits, AnswerFits, Answering
      <4>4. i = AskedFor(frame[u].resp, frame[u].op)
        BY <2>1, <4>3 DEF Harmless
      <4>5. i # frame[u].op[2]
        BY <2>1, <4>2 DEF Used
      <4> QED BY <2>1, <4>1, <4>4, <4>5 DEF AskedFor
    <3>2. \A j \in shown \cap Interactions : ~(card[j] \in LiveCards /\ step_int[frame[t].step] = j)
      BY <2>1 DEF TerminalCard, LiveCards
    <3>3. PromiseInv' /\ writeEffect' = writeEffect /\ planPhase' = "failed"
      BY <1>0, <2>1, <2>3, <3>1, <3>2, FailingIsPromised
    <3>4. planPhase = "open" /\ writeEffect = "none"
      BY <2>1, PhaseIs, EffectIs
    <3> QED BY <3>3, <3>4 DEF Promised, Abstract!Next, Abstract!Fail
  <2> QED BY <1>2, <2>2, <2>3, Zenon DEF HandleTerminal
<1> QED BY <1>1, <1>2

LEMMA CancelIsPromised ==
    ASSUME Given, NEW t \in Threads, Cancel(t)
    PROVE  Promised
<1>1. CASE Cancelable /\ CancelPlan(t)
  BY <1>1, CancelingIsPromised DEF Cancel, MayLockPlan
<1>2. CASE ~Cancelable
  BY <1>2, NotCanceled, KeptIsPromised
<1> QED BY <1>1, <1>2 DEF Cancel

-----------------------------------------------------------------------------
(* The plan waits for the user.                                              *)

LEMMA WaitKeeps ==
    ASSUME Given, NEW t \in Threads, MarkStepWaiting(t),
           NEW s, s = frame[t].step, NEW i, i = frame[t].resp.int,
           \A r \in Steps : r # s => step_int[r] = Null,
           \A j \in shown : Used(j) \/ j = i,
           \A a \in Auths : Settled(a),
           \A u \in Threads : u # t => WorkFits(u)'
    PROVE  PromiseInv' /\ planPhase' = "open" /\ writeEffect' = writeEffect
<1> USE DEF Given
<1>0. /\ s \in Steps /\ i # Null
      /\ plan_state' = "waiting_user" /\ current_step' = s /\ commit_op' = Null
      /\ step_state'[s] = "waiting_user" /\ step_int'[s] = i
      /\ \A r \in Steps : r # s => step_int'[r] = Null
      /\ shown' = shown \cup {i}
      /\ UNCHANGED <<card, op_state, op_int, request, writes, authority>>
  <2>1. s \in Steps
    BY Consuming DEF MarkStepWaiting
  <2> QED BY <2>1 DEF MarkStepWaiting, MarkerWhenWaiting, cardVars, opVars, worldVars,
                      PlanInv, Rows, StepRows
<1>1. WorkFits(t)'
  <2>1. Goto(t, "idle", EmptyFrame)
    BY DEF MarkStepWaiting, Return
  <2> QED BY <2>1, Moves, AtRest DEF Rest
<1>2. Open' /\ ~Over' /\ ~Committing'
  BY <1>0 DEF Open, Over, Committing, TerminalPlanStates
<1>3. authority' = TRUE /\ OpsFit'
  BY <1>0 DEF PromiseInv, OpsFit
<1>4. SeenFits'
  BY <1>0 DEF PromiseInv, SeenFits
<1>5. OpenFits'
  <2>1. Bound(i)'
    BY <1>0 DEF Bound
  <2>2. \A j \in shown' : Used(j)' \/ j = i
    BY <1>0 DEF Used
  <2>3. \A j \in shown' : Used(j)' \/ Bound(j)'
    BY <2>1, <2>2
  <2>4. \A a \in Auths : Settled(a)'
    BY <1>0 DEF Settled
  <2> QED BY <1>0, <2>3, <2>4 DEF OpenFits
<1>6. CommitFits' /\ OverFits'
  BY <1>2 DEF CommitFits, OverFits
<1>7. planPhase' = "open" /\ writeEffect' = writeEffect
  BY <1>0, <1>2 DEF planPhase, writeEffect, Over
<1> QED BY <1>1, <1>3, <1>4, <1>5, <1>6, <1>7 DEF PromiseInv

\* Where the response of a commit is consumed, the host that began it may still
\* hold the same response, for the same step.
LEMMA HostsAnswer ==
    ASSUME Given, NEW t \in Threads, NEW u \in Threads, u # t,
           pc'[u] = pc[u], frame'[u] = frame[u], plan_lock \in {Null, t},
           Committing, op_state[commit_op] # "running",
           UNCHANGED <<cardVars, opVars>>, shown \subseteq shown', ~Over',
           Recorded.int \in shown' \cup {Null},
           Committing' => commit_op' = commit_op /\ current_step' = Null,
           Open' => /\ \A r, o : r = Recorded /\ o = commit_op => Harmless(r, o)'
                    /\ current_step # Null /\ current_step' = current_step
    PROVE  WorkFits(u)'
<1> USE DEF Given
<1>0. /\ Outside(u) /\ WorkFits(u) /\ card' = card /\ op_state' = op_state /\ op_int' = op_int
  BY LockedOut DEF PromiseInv, cardVars, opVars
<1>1. CardsGo(t)
  BY <1>0 DEF CardsGo
<1>2. pc[u] # "terminal_lock"
  BY TerminalLocked
<1>3. CASE pc[u] \in {"invoke", "respond", "relock", "consume"} \cup Executing
           /\ frame[u].op \in ResumeOps
  <2>1. /\ pc[u] \in Answering /\ frame[u].op = commit_op /\ frame[u].resp = Recorded
        /\ pc[u] # "respond" => current_step \in {frame[u].step, Null}
        /\ pc[u] = "respond" => frame[u].bound
    BY <1>3, Settling
  <2>2. pc[u] \notin {"invoke", "finish"} \cup Executing \cup Early \cup Writing
    BY <2>1 DEF Answering, Executing, Early, Writing
  <2>3. CallFits(u)'
    BY <1>0, <1>3, <2>1, <2>2 DEF WorkFits, CallFits
  <2>4. FinishFits(u)'
    BY <2>2 DEF FinishFits
  <2>5. AnswerFits(u)'
    <3>1. commit_op # Null
      BY Phases
    <3>2. Committing' => Recorded' = Recorded /\ op_state'[commit_op'] # "running"
                         /\ commit_op' = commit_op
      BY <1>0, <2>1 DEF Recorded
    <3>3. Open' => \A r, o : r = frame[u].resp /\ o = frame[u].op => Harmless(r, o)'
      BY <2>1
    <3> QED BY <2>1, <3>1, <3>2, <3>3 DEF AnswerFits
  <2> QED BY <1>0, <1>1, <1>2, <2>3, <2>4, <2>5, Bystander
<1>4. CASE ~(pc[u] \in {"invoke", "respond", "relock", "consume"} \cup Executing
             /\ frame[u].op \in ResumeOps)
  <2>1. CallFits(u)' /\ FinishFits(u)'
    BY <1>4 DEF CallFits, FinishFits, Executing
  <2>2. pc[u] \notin Answering
    BY <1>0, <1>4 DEF WorkFits, OwnFits, Answering, Outside
  <2>3. AnswerFits(u)'
    BY <2>2 DEF AnswerFits
  <2> QED BY <1>0, <1>1, <1>2, <2>1, <2>3, Bystander
<1> QED BY <1>3, <1>4

LEMMA WaitingIsPromised ==
    ASSUME Given, NEW t \in Threads, MarkStepWaiting(t)
    PROVE  Promised
<1> USE DEF Given
<1>0. PICK s \in Steps, i \in AnyInts : s = frame[t].step /\ i = frame[t].resp.int
  BY Consuming, FramesAreFrames DEF MarkStepWaiting
<1>1. /\ pc[t] = "consume" /\ frame[t].resp.st = "requires_user_action" /\ i # Null
      /\ plan_lock = t
      /\ plan_state' = "waiting_user" /\ current_step' = s /\ commit_op' = Null
      /\ shown' = shown \cup {i} /\ step_int'[s] = i
      /\ UNCHANGED <<opVars, cardVars, worldVars>>
      /\ \A u \in Threads : u # t => pc'[u] = pc[u] /\ frame'[u] = frame[u]
  BY <1>0, Consuming, Moves
     DEF MarkStepWaiting, MarkerWhenWaiting, Return, PlanInv, Rows, StepRows
<1>2. CASE Open /\ plan_state # "waiting_user"
  <2>1. \A u \in Threads : u # t => WorkFits(u)'
    BY <1>1, <1>2, OpenGoesOn
  <2>2. PromiseInv' /\ planPhase' = "open" /\ writeEffect' = writeEffect
    <3>1. \A a \in Auths : Settled(a)
      BY <1>2 DEF PromiseInv, OpenFits
    <3>2. \A r \in Steps : r # s => step_int[r] = Null
      BY <1>2, OpenIdle
    <3>3. \A j \in shown : Used(j) \/ j = i
      BY <1>2, OpenIdle
    <3> QED BY <1>0, <2>1, <3>1, <3>2, <3>3, WaitKeeps
  <2> QED BY <1>2, <2>2, PhaseIs DEF Promised
<1>3. CASE /\ t \in Hosts /\ Open /\ Harmless(frame[t].resp, frame[t].op)
           /\ current_step = frame[t].step
  <2>1. plan_state = "waiting_user" /\ \A j \in shown : Used(j) \/ j = i
    BY <1>0, <1>1, <1>3 DEF Harmless, AskedFor
  <2>2. \A r \in Steps : r # s => step_int[r] = Null
    BY <1>0, <1>3 DEF PromiseInv, OpenFits
  <2>3. ASSUME NEW u \in Threads, u # t
        PROVE  WorkFits(u)'
    <3>1. u \notin Hosts
      BY <1>3, <2>3 DEF Undisturbed
    <3>2. Outside(u) /\ op_state' = op_state /\ card' = card
      BY <1>1, <2>3, LockedOut DEF opVars, cardVars
    <3>3. CardsGo(t)
      BY <3>2 DEF CardsGo
    <3>4. pc[u] = "terminal_lock" => step_int'[frame[u].step] = frame[u].int
      BY <1>0, <1>1, <1>3, <2>1, TerminalLocked
    <3> QED BY <1>1, <2>3, <3>1, <3>2, <3>3, <3>4, Bystander
  <2>4. PromiseInv' /\ planPhase' = "open" /\ writeEffect' = writeEffect
    <3>1. \A a \in Auths : Settled(a)
      BY <1>3 DEF PromiseInv, OpenFits
    <3> QED BY <1>0, <2>1, <2>2, <2>3, <3>1, WaitKeeps
  <2> QED BY <1>3, <2>4, PhaseIs DEF Promised
<1>4. CASE /\ Committing /\ frame[t].resp = Recorded /\ op_state[commit_op] # "running"
           /\ current_step \in {frame[t].step, Null}
  <2>1. Recorded.int = i /\ Recorded.st = "requires_user_action"
    BY <1>0, <1>1, <1>4
  <2>2. /\ op_state[commit_op] = "requires_user_action" /\ op_int[commit_op] = i
        /\ request[commit_op[2]] = "warned"
    BY <1>4, <2>1 DEF Recorded, PromiseInv, CommitFits, Result
  <2>3. /\ current_step = s /\ \A j \in shown : Used(j)
        /\ \A r \in Steps : r # s => step_int[r] = Null
        /\ \A a \in Auths : Settled(a)
    BY <1>0, <1>4, <2>2 DEF PromiseInv, CommitFits, Settled
  <2>4. ~Over' /\ ~Committing'
    BY <1>1 DEF Over, Committing, TerminalPlanStates
  <2>5. \A r, o : r = Recorded /\ o = commit_op => Harmless(r, o)'
    <3>1. \A j \in shown' : Used(j)' \/ j = i
      BY <1>1, <2>3 DEF Used, cardVars
    <3>2. \A r, o : r = Recorded => AskedFor(r, o) = i
      BY <1>1, <2>1 DEF AskedFor
    <3> QED BY <1>1, <2>1, <3>1, <3>2 DEF Harmless
  <2>6. \A u \in Threads : u # t => WorkFits(u)'
    <3>1. i \in shown'
      BY <1>1
    <3>2. current_step # Null /\ current_step' = current_step
      BY <1>1, <2>3, StepNumbers
    <3> QED BY <1>1, <1>4, <2>1, <2>4, <2>5, <3>1, <3>2, HostsAnswer
  <2>7. PromiseInv' /\ planPhase' = "open" /\ writeEffect' = writeEffect
    BY <1>0, <2>3, <2>6, WaitKeeps
  <2>8. planPhase = "committing" /\ writeEffect = "none"
    BY <1>4, <2>2, PhaseIs, EffectIs
  <2> QED BY <2>7, <2>8 DEF Promised, Abstract!Next, Abstract!Reopen
<1> QED BY <1>1, <1>2, <1>3, <1>4, Consuming

-----------------------------------------------------------------------------
(* The commit begins, and its step succeeds.                                 *)

LEMMA CommittedGoesOn ==
    ASSUME Given, NEW t \in Threads, MarkStepSucceeded(t), Committing
    PROVE  Kept
<1> USE DEF Given
<1>0. PICK s \in Steps : s = frame[t].step
  BY Consuming DEF MarkStepSucceeded
<1>1. /\ pc[t] = "consume" /\ plan_lock = t
      /\ frame[t].resp.st \in {"succeeded", "empty", "incomplete"}
      /\ frame[t].resp = Recorded /\ op_state[commit_op] # "running"
      /\ current_step \in {s, Null}
  BY <1>0, Consuming, Phases DEF MarkStepSucceeded
<1>2. /\ op_state[commit_op] = "succeeded" /\ op_int[commit_op] = Null
      /\ Result(commit_op[2], op_state[commit_op], op_int[commit_op])
  BY <1>1 DEF Recorded, PromiseInv, CommitFits, Result
<1>3. /\ plan_state' = "running" /\ current_step' = Null
      /\ Goto(t, "advance", EmptyFrame)
      /\ UNCHANGED <<commit_op, shown, card, op_state, op_int, request, writes, authority, plan_lock>>
      /\ UNCHANGED <<cardVars, opVars>>
      /\ \A r \in Steps : step_int'[r] = IF r = s THEN Null ELSE step_int[r]
  <2>1. frame[t].resp.st = "succeeded"
    BY <1>1, <1>2 DEF Recorded
  <2> QED BY <1>0, <2>1
          DEF MarkStepSucceeded, cardVars, opVars, worldVars, lockVars, PlanInv, Rows, StepRows
<1>4. ~Over' /\ Committing' /\ ~Open'
  BY <1>3, Phases DEF Over, Committing, Open, TerminalPlanStates
<1>5. \A r \in Steps : step_int'[r] = Null
  BY <1>1, <1>3, StepNumbers DEF PromiseInv, CommitFits
<1>6. \A u \in Threads : u # t => WorkFits(u)'
  <2>1. Recorded.int = Null
    BY <1>2 DEF Recorded
  <2>2. \A u \in Threads : u # t => pc'[u] = pc[u] /\ frame'[u] = frame[u]
    BY <1>3, Moves
  <2> QED BY <1>1, <1>3, <1>4, <2>1, <2>2, HostsAnswer
<1>7. WorkFits(t)'
  <2>1. pc'[t] = "advance"
    BY <1>3, Moves
  <2>2. LoopFits(t)'
    BY <1>1, <1>3, <2>1 DEF LoopFits
  <2> QED BY <2>1, <2>2, InLoop DEF Loops
<1>8. authority' = TRUE /\ SeenFits' /\ OpsFit'
  BY <1>3, <1>5 DEF PromiseInv, SeenFits, OpsFit
<1>9. OpenFits' /\ OverFits'
  BY <1>4 DEF OpenFits, OverFits
<1>10. CommitFits'
  <2>1. \A a : Settled(a)' = Settled(a)
    BY <1>3 DEF Settled
  <2>2. \A j : Used(j)' = Used(j)
    BY <1>3 DEF Used
  <2>3. Result(commit_op[2], op_state[commit_op], op_int[commit_op])'
    BY <1>2, <1>3 DEF Result
  <2> QED BY <1>2, <1>3, <1>5, <2>1, <2>2, <2>3 DEF PromiseInv, CommitFits
<1>11. UNCHANGED <<planPhase, writeEffect>>
  <2>1. planPhase = "committing"
    BY PhaseIs
  <2>2. planPhase' = "committing"
    BY <1>4 DEF planPhase, Over, Committing
  <2> QED BY <1>3, <2>1, <2>2 DEF writeEffect
<1> QED BY <1>6, <1>7, <1>8, <1>9, <1>10, <1>11 DEF PromiseInv, Kept

LEMMA SucceededIsPromised ==
    ASSUME Given, NEW t \in Threads, MarkStepSucceeded(t)
    PROVE  Promised
<1>1. pc[t] = "consume"
  BY DEF MarkStepSucceeded
<1> QED BY <1>1, Consuming, SucceededGoesOn, CommittedGoesOn, KeptIsPromised

LEMMA CommitIsPromised ==
    ASSUME Given, NEW t \in Threads, EnterCommitBoundary(t)
    PROVE  Promised
<1> USE DEF Given
<1>1. CASE ~(card[frame[t].op[2]] = "approved" /\ GuardAllows(frame[t].op[2]))
  BY <1>1, BoundaryRefuses, KeptIsPromised
<1>2. CASE card[frame[t].op[2]] = "approved" /\ GuardAllows(frame[t].op[2])
  <2>1. PICK a \in Auths, o \in ResumeOps :
           /\ o = frame[t].op /\ a = o[2] /\ card[a] = "approved" /\ GuardAllows(a)
           /\ a \in Interactions /\ o \in OpIds /\ o \notin StepOps
           /\ pc[t] = "boundary" /\ pc[t] \in Early /\ op_state[o] = "running"
    <3>1. pc[t] = "boundary" /\ pc[t] \in Executing /\ pc[t] \in Early
      BY DEF EnterCommitBoundary, Executing, Early
    <3> QED BY <1>2, <3>1, ExecutingFacts, Operations, Cards DEF CardFits
  <2>2. /\ t \in Hosts /\ a \in shown /\ frame[t].int = a
        /\ Bound(a) /\ frame[t].bound
    <3>1. pc[t] \in Executing
      BY <2>1 DEF Executing
    <3> QED BY <2>1, <3>1, EarlyCall, LiveIsBound DEF LiveCards
  <2>3. Open
    BY <2>1, <2>2, Phases DEF GuardAllows
  <2>4. /\ plan_state = "waiting_user"
        /\ \A i \in shown : Used(i) \/ i = a
    BY <2>1, <2>3, EarlyCall
  <2>5. /\ current_step \in Steps /\ step_int[current_step] = a
        /\ \A s \in Steps : step_int[s] # Null => s = current_step
    <3>1. PICK s \in Steps : step_int[s] = a
      BY <2>2 DEF Bound
    <3>2. a # Null
      BY Cards
    <3> QED BY <2>3, <2>4, <3>1, <3>2 DEF PromiseInv, OpenFits
  <2>6. /\ plan_state' = "running" /\ commit_op' = o /\ current_step' = current_step
        /\ step_int' = step_int /\ step_state'[current_step] = "running"
        /\ card'[a] = "consumed" /\ \A i \in Interactions : i # a => card'[i] = card[i]
        /\ UNCHANGED <<op_state, op_int, shown, request, writes, authority>>
        /\ Goto(t, "send", frame[t])
    BY <1>2, <2>1, <2>2, <2>5
       DEF EnterCommitBoundary, MarkCommit, Consumed, opVars, worldVars, PlanInv, Rows, StepRows,
           OtherRows
  <2>7. /\ pc'[t] = "send" /\ frame'[t] = frame[t]
        /\ \A u \in Threads : u # t => pc'[u] = pc[u] /\ frame'[u] = frame[u]
    BY <2>6, Moves
  <2>8. Committing' /\ ~Open' /\ ~Over' /\ \A i : Bound(i)' = Bound(i)
    BY <2>1, <2>6, Operations DEF Committing, Open, Over, TerminalPlanStates, Bound
  <2>9. CardsGo(t)
    BY <2>1, <2>2, <2>6 DEF CardsGo, TerminalCard, LiveCards
  <2>10. ASSUME NEW u \in Threads, u # t
         PROVE  WorkFits(u)'
    <3>1. u \notin Hosts
      BY <2>2, <2>10 DEF Undisturbed
    <3>2. Outside(u)
      BY <2>2, <2>3, <2>4, <2>10, WaitedOut
    <3>3. pc[u] = "terminal_lock" => step_int'[frame[u].step] = frame[u].int
      BY <2>3, <2>6, TerminalLocked
    <3> QED BY <2>6, <2>7, <2>9, <2>10, <3>1, <3>2, <3>3, Bystander
  <2>11. WorkFits(t)'
    <3>1. /\ "send" \in Executing /\ "send" \in Writing
          /\ "send" \notin Early \cup Answering \cup {"finish", "respond"}
      BY DEF Executing, Writing, Early, Answering
    <3>2. OwnFits(t)' /\ CallFits(t)'
      BY <2>1, <2>2, <2>6, <2>7, <2>8, <3>1 DEF OwnFits, CallFits
    <3> QED BY <2>1, <2>7, <3>1, <3>2 DEF WorkFits, LoopFits, StepFits, FinishFits, AnswerFits
  <2>12. authority' = TRUE /\ SeenFits'
    BY <2>2, <2>6 DEF PromiseInv, SeenFits
  <2>13. OpsFit'
    <3>1. \A p \in ResumeOps : card[p[2]] = "consumed" => card'[p[2]] = "consumed"
      BY <2>9, Operations DEF CardsGo
    <3> QED BY <2>6, <3>1 DEF PromiseInv, OpsFit
  <2>14. OpenFits' /\ OverFits'
    BY <2>8 DEF OpenFits, OverFits
  <2>15. CommitFits'
    <3>1. \A b \in Auths : Settled(b)'
      BY <2>3, <2>6 DEF PromiseInv, OpenFits, Settled
    <3>2. \A i \in shown' : Used(i)'
      BY <2>1, <2>4, <2>6 DEF Used
    <3>3. op_int[o] = Null
      BY <2>1 DEF PromiseInv, OpsFit
    <3>4. Result(o[2], op_state[o], op_int[o])'
      BY <2>1, <2>6, <3>3 DEF Result
    <3>5. current_step' # Null
      BY <2>5, <2>6, StepNumbers
    <3> QED BY <2>1, <2>5, <2>6, <3>1, <3>2, <3>4, <3>5 DEF CommitFits
  <2>16. PromiseInv'
    BY <2>10, <2>11, <2>12, <2>13, <2>14, <2>15 DEF PromiseInv
  <2>17. /\ planPhase = "open" /\ writeEffect = "none"
         /\ planPhase' = "committing" /\ writeEffect' = writeEffect
    <3>1. planPhase' = "committing"
      BY <2>8 DEF planPhase, Committing, Over
    <3> QED BY <2>3, <2>6, <3>1, PhaseIs, EffectIs DEF writeEffect
  <2> QED BY <2>16, <2>17 DEF Promised, Abstract!Next, Abstract!Commit
<1> QED BY <1>1, <1>2

-----------------------------------------------------------------------------
(* Every step keeps the promise.                                             *)

LEMMA ContinueIsPromised ==
    ASSUME Given, NEW t \in Threads, Continue(t)
    PROVE  Promised
<1>0. LoopFits(t)
  BY DEF Given, PromiseInv, WorkFits
<1>1. CASE AdvanceGet(t) \/ BeginNextStep(t) \/ NoStepLeft(t) \/ NothingToDo(t)
  BY <1>1, AdvanceIsPromised, BeginGoesOn, NoStepLeftIsPromised, KeptIsPromised
<1>2. CASE FailStep(t) \/ Reject(t)
  BY <1>0, <1>2 DEF FailStep, Reject, LoopFits
<1>3. CASE \/ Invoke(t) \/ FinishOperation(t) \/ ReadSource(t) \/ RequireFieldInput(t)
           \/ GetSubmission(t) \/ CreateAuthorization(t) \/ ConsumeSubmission(t)
           \/ GetAuthorization(t) \/ FailBeforeBoundary(t)
  BY <1>3, InvokeGoesOn, FinishGoesOn, SourceGoesOn, RequireFieldGoesOn, LoadGoesOn, CreateGoesOn,
     SubmissionGoesOn, KeptIsPromised
<1>4. CASE EnterCommitBoundary(t) \/ SendWrite(t) \/ CommitOutcome(t)
  BY <1>4, CommitIsPromised, SendIsPromised, OutcomeGoesOn, KeptIsPromised
<1>5. CASE StepStillRunning(t) \/ MarkStepWaiting(t) \/ MarkStepSucceeded(t) \/ ConsumeFailure(t)
  BY <1>5, StillRunningGoesOn, WaitingIsPromised, SucceededIsPromised, FailureIsPromised,
     KeptIsPromised
<1>6. CASE BindInteraction(t) \/ AnswerResume(t) \/ ResumeAfterCapability(t)
  BY <1>6, BindGoesOn, AnswerGoesOn, AfterCapabilityGoesOn, KeptIsPromised
<1>7. CASE BindTerminal(t) \/ HandleTerminal(t) \/ Cancel(t)
  BY <1>7, BindTerminalGoesOn, TerminalIsPromised, CancelIsPromised, KeptIsPromised
<1>8. CASE ResetRunningStep(t) \/ Retire(t)
  BY <1>8, ResetGoesOn, RetireGoesOn, KeptIsPromised
<1> QED BY <1>1, <1>2, <1>3, <1>4, <1>5, <1>6, <1>7, <1>8, Zenon DEF Continue

LEMMA EnvironmentIsPromised ==
    ASSUME Given, Environment
    PROVE  Promised
<1>1. CASE \E t \in Threads : PrepareTaskPlan(t)
  BY <1>1, PrepareGoesOn, KeptIsPromised
<1>2. CASE \E t \in Threads : \E tool \in CancelTools : CallCancel(t, tool)
  BY <1>2, CallCancelGoesOn, KeptIsPromised
<1>3. CASE \E t \in Threads, i \in Interactions : ResumeInteraction(t, i) \/ PollInteraction(t, i)
  BY <1>3, ResumeGoesOn, PollGoesOn, KeptIsPromised
<1>4. CASE \/ \E f \in Fields : SubmitFields(f)
           \/ \E a \in Auths : DecideAuthorization(a)
           \/ \E i \in Interactions : Expire(i)
  BY <1>4, UsersAndClockGoOn, KeptIsPromised
<1>5. CASE \E a \in Auths : TargetAnswers(a)
  BY <1>5, AnswerIsPromised
<1>6. CASE Revoke
  BY <1>6 DEF Revoke, Given, Undisturbed
<1>7. CASE Crash
  BY <1>7, CrashGoesOn, KeptIsPromised
<1> QED BY <1>1, <1>2, <1>3, <1>4, <1>5, <1>6, <1>7, Zenon DEF Environment, HostCalls

LEMMA RecoverIsPromised ==
    ASSUME Given, NEW t \in Threads, Recover(t)
    PROVE  Promised
<1>1. ~RecoverRejected(t)
  BY DEF RecoverRejected, Given, PromiseInv
<1> QED BY <1>1, RecoverCommitIsPromised, RecoverWaitingGoesOn, RecoverRunningGoesOn, KeptIsPromised
        DEF Recover

LEMMA StutterIsPromised ==
    ASSUME Given, UNCHANGED vars
    PROVE  Promised
<1>1. /\ UNCHANGED <<plan_state, current_step, commit_op, step_state, step_int, op_state, op_int,
                     card, shown, request, writes, authority, plan_lock>>
      /\ pc' = pc /\ frame' = frame
  BY DEF vars, planVars, stepVars, opVars, cardVars, worldVars, lockVars, threadVars
<1>2. /\ PlanStays /\ CardsGo(Null) /\ OpsGo /\ LockHolds(Null)
      /\ OpsFit'
      /\ Committing => Result(commit_op[2], op_state'[commit_op], op_int'[commit_op])
  BY <1>1 DEF PlanStays, CardsGo, OpsGo, LockHolds, OpsFit, CommitFits, Given, PromiseInv
<1>3. Kept
  BY <1>1, <1>2, StepNumbers, Routine DEF Kept
<1> QED BY <1>3, KeptIsPromised

LEMMA StepIsPromised ==
    ASSUME PlanInv, PlanInv', PromiseInv, Undisturbed, [Next]_vars
    PROVE  Promised
<1>1. Given
  BY DEF Given
<1>2. CASE \E t \in Threads : Continue(t) \/ Recover(t)
  BY <1>1, <1>2, ContinueIsPromised, RecoverIsPromised
<1>3. CASE Environment
  BY <1>1, <1>3, EnvironmentIsPromised
<1>4. CASE UNCHANGED vars
  BY <1>1, <1>4, StutterIsPromised
<1> QED BY <1>2, <1>3, <1>4 DEF Next

LEMMA InitIsPromised == Init => PromiseInv /\ Abstract!Init
<1> SUFFICES ASSUME Init PROVE PromiseInv /\ Abstract!Init
  OBVIOUS
<1>1. /\ plan_state = "absent" /\ current_step = Null /\ commit_op = Null
      /\ \A s \in Steps : step_int[s] = Null
      /\ \A o \in OpIds : op_state[o] = "absent" /\ op_int[o] = Null
      /\ \A i \in Interactions : card[i] = "absent"
      /\ shown = {} /\ authority = TRUE /\ writes = 0
      /\ \A a \in Auths : request[a] = "none"
      /\ \A u \in Threads : pc[u] = "idle" /\ frame[u] = EmptyFrame
  BY DEF Init
<1>2. Open /\ ~Over /\ ~Committing
  BY <1>1 DEF Open, Over, Committing, TerminalPlanStates
<1>3. \A u \in Threads : WorkFits(u)
  <2>1. "idle" \notin Executing \cup Writing \cup Answering \cup Early
    BY DEF Executing, Writing, Answering, Early
  <2> QED BY <1>1, <2>1 DEF WorkFits, LoopFits, StepFits, OwnFits, CallFits, FinishFits, AnswerFits
<1>4. SeenFits /\ OpenFits
  BY <1>1 DEF SeenFits, OpenFits, Settled
<1>5. CommitFits /\ OverFits
  BY <1>2 DEF CommitFits, OverFits
<1>6. OpsFit
  <2>1. StepOps \subseteq OpIds /\ ResumeOps \subseteq OpIds
    BY DEF OpIds
  <2> QED BY <1>1, <2>1 DEF OpsFit
<1>7. Abstract!Init
  BY <1>1, <1>2, PhaseIs DEF Abstract!Init, writeEffect
<1> QED BY <1>1, <1>3, <1>4, <1>5, <1>6, <1>7 DEF PromiseInv

\* The plan keeps the promise of PlannedWrite: it is open until its one commit
\* begins, the write is sent in the commit only, and the end that is reported
\* is true, whatever users, clock, business system, polls, cancels, recoveries
\* and restarts do in between.  The code does not guarantee the condition, it is
\* that of run TaskPlan for any number of steps and threads: calls of hosts that
\* come one at a time, no revocation, and no restart where an interaction has
\* several keys.
LEMMA PromiseIsKept ==
    ASSUME Undisturbed
    PROVE  Spec => KeepsPromise
<1>1. Init => PlanInv /\ PromiseInv /\ Abstract!Init
  BY InitIsPromised, PlanInit
<1>2. PlanInv /\ PromiseInv /\ [Next]_vars =>
        PlanInv' /\ PromiseInv' /\ [Abstract!Next]_<<planPhase, writeEffect>>
  BY PlanStep, StepIsPromised DEF Promised
<1> QED BY <1>1, <1>2, PTL DEF Spec, KeepsPromise, Abstract!Spec

\* What PlannedWrite says of the ends that report that nothing was written.
NothingWritten == planPhase \in {"canceled", "failed"} => writeEffect = "none"

\* A plan reported canceled or failed has no write under way and none applied:
\* CanceledNeverWrites and FailedNeverWrites, under the conditions of the promise.
LEMMA EndsAreTrue ==
    ASSUME Undisturbed
    PROVE  Spec => [](CanceledNeverWrites /\ FailedNeverWrites)
<1>1. Init => PlanInv /\ Abstract!Init
  BY InitIsPromised, PlanInit
<1>2. PlanInv /\ [Next]_vars => PlanInv'
  BY PlanStep
<1>3. Abstract!Init => NothingWritten
  BY DEF Abstract!Init, NothingWritten
<1>4. NothingWritten /\ [Abstract!Next]_<<planPhase, writeEffect>> => NothingWritten'
  BY DEF NothingWritten, Abstract!Next, Abstract!Commit, Abstract!Send, Abstract!Answer,
         Abstract!Reopen, Abstract!Succeed, Abstract!Fail, Abstract!LoseTrack, Abstract!Cancel
<1>5. PlanInv /\ NothingWritten => CanceledNeverWrites /\ FailedNeverWrites
  <2>1. SUFFICES ASSUME PlanInv, NothingWritten, plan_state \in {"canceled", "failed"},
                        NEW a \in Auths
                 PROVE  request[a] \notin {"sent", "applied"}
    BY DEF CanceledNeverWrites, FailedNeverWrites
  <2>2. writeEffect = "none"
    BY <2>1 DEF NothingWritten, planPhase, TerminalPlanStates
  <2>3. request[a] # "sent" /\ ~(writes > 0)
    BY <2>1, <2>2 DEF writeEffect
  <2>4. writes = 0
    BY <2>1, <2>3 DEF PlanInv, Rows, OtherRows
  <2> QED BY <2>1, <2>3, <2>4 DEF PlanInv, SentOK
<1>6. Spec => KeepsPromise
  BY PromiseIsKept
<1> QED BY <1>1, <1>2, <1>3, <1>4, <1>5, <1>6, PTL DEF Spec, KeepsPromise, Abstract!Spec
=============================================================================

----------------------------- MODULE RunProofs ------------------------------
(***************************************************************************)
(* How a run starts, and how it stays aligned with its records when its    *)
(* code is patched.                                                        *)
(***************************************************************************)
EXTENDS RunStart, PatchPoint, TLAPS

-----------------------------------------------------------------------------
(***************************************************************************)
(* The start of a workflow and of a child, for any number of calls,        *)
(* executions and ids.                                                     *)
(***************************************************************************)

(* What an answer at the parent's position stands for.                     *)
Shown(answer) == IF answer = Refused THEN "refused" ELSE answer

(* A call, seen with the rows.  The holder of the parent's lock is in its  *)
(* transaction, with the position unrecorded; the one that is to execute a *)
(* direct child has recorded it, and nobody has executed it.               *)
CallSound(c) ==
    /\ call[c].got \notin Stops /\ c \in ParentExec =>
         step # NoStep /\ step.child = Shown(call[c].got)
    /\ c \in Caller => call[c].pc \in {"insert", "find", "read", "over"}
    /\ c \in ParentExec => call[c].pc \notin {"insert", "find", "read"}
    /\ call[c].pc # "over" => call[c].got = "none"
    /\ call[c].pc \in {"try", "lookup"} <=> plock = c
    /\ call[c].pc = "lookup" => child.keyed
    /\ call[c].pc = "spawn" =>
         step = [child |-> child.id] /\ Exists(child.id) /\ begun[child.id] = 0
RowsSound ==
    /\ plock # NoLock => step = NoStep
    /\ \A i \in keyed : runs[i] = "live"
    /\ \A i, j \in keyed : i = j
    /\ \A i \in RunIds : begun[i] <= 1 /\ (~Exists(i) => begun[i] = 0)
    /\ Exists(child.id) /\ child.id \notin {asked[c].id : c \in Caller} =>
         step = [child |-> child.id]
OneSpawner == \A e, f \in ParentExec : call[e].pc = "spawn" /\ call[f].pc = "spawn" => e = f
RunInv ==
    /\ RunTypeOK /\ RowsSound /\ OneSpawner
    /\ \A c \in Caller \cup ParentExec : CallSound(c)
Calls == Caller \cup ParentExec

----------------------------------------------------------------------------
(* The prover of a leaf that names none.                                   *)
USE Zenon

LEMMA InvStarts == RunInit => RunInv
<1> SUFFICES ASSUME RunInit PROVE RunInv
  OBVIOUS
<1>1. RunTypeOK
  <2>1. call \in [Caller \cup ParentExec -> RunCalls]
    BY RunAssumption DEF RunInit, RunCalls, RunPcs, Stops
  <2>2. begun \in [RunIds -> Nat]
    BY DEF RunInit
  <2>3. runs \in [RunIds -> {"none", "live", "done"}] /\ keyed \subseteq RunIds
    BY RunAssumption DEF RunInit
  <2> QED BY <2>1, <2>2, <2>3 DEF RunInit, RunTypeOK
<1>2. child \in Asks
  BY RunAssumption DEF RunInit
<1>3. RowsSound
  BY <1>2, RunAssumption, SMT DEF RunInit, RowsSound, Exists, Asks
<1>4. OneSpawner
  BY DEF RunInit, OneSpawner
<1>5. \A c \in Caller \cup ParentExec : CallSound(c)
  BY RunAssumption DEF RunInit, CallSound, Stops
<1> QED BY <1>1, <1>3, <1>4, <1>5 DEF RunInv

LEMMA InvGives == RunInv => ChildrenAgree
  BY DEF RunInv, CallSound, RowsSound, ChildrenAgree, Shown

(* What the other calls see of a step.                                     *)
Keeps(c) ==
    /\ child' = child
    /\ step # NoStep => step' = step
    /\ \A i \in RunIds : runs[i] # "none" => runs'[i] # "none"
    /\ \A d \in Calls \ {c} :
         /\ call'[d] = call[d]
         /\ plock' = d <=> plock = d
         /\ call[d].pc = "spawn" => begun'[child.id] = begun[child.id]

LEMMA CallsStaySound ==
    ASSUME RunInv, NEW c \in Calls, Keeps(c), CallSound(c)'
    PROVE  \A d \in Calls : CallSound(d)'
<1> SUFFICES ASSUME NEW d \in Calls, d # c PROVE CallSound(d)'
  OBVIOUS
<1>1. CallSound(d)
  BY DEF RunInv, Calls
<1>2. child.id \in RunIds
  BY RunAssumption DEF RunInv, RunTypeOK, Asks
<1>3. /\ child' = child /\ (step # NoStep => step' = step)
      /\ call'[d] = call[d] /\ (plock' = d <=> plock = d)
      /\ call[d].pc = "spawn" => begun'[child.id] = begun[child.id]
      /\ runs[child.id] # "none" => runs'[child.id] # "none"
  BY <1>2 DEF Keeps
<1>4. step # NoStep \/ call[d].pc # "spawn"
  BY <1>1, <1>2, RunAssumption, SMT DEF CallSound, Steps
<1> QED BY <1>1, <1>3, <1>4, SMT DEF CallSound, Exists, Shown

LEMMA SpawnersStay ==
    ASSUME RunInv, NEW c \in Calls, Keeps(c),
           call'[c].pc = "spawn" => \A d \in ParentExec \ {c} : call[d].pc # "spawn"
    PROVE  OneSpawner'
<1> SUFFICES ASSUME NEW e \in ParentExec, NEW f \in ParentExec,
                    call'[e].pc = "spawn", call'[f].pc = "spawn"
             PROVE  e = f
  BY DEF OneSpawner
<1>1. \A d \in ParentExec \ {c} : call'[d] = call[d]
  BY DEF Keeps, Calls
<1> QED BY <1>1 DEF RunInv, OneSpawner

LEMMA OwnCall ==
    ASSUME RunInv, NEW c \in Calls
    PROVE  call \in [Calls -> RunCalls] /\ call[c] \in RunCalls /\ CallSound(c)
  BY DEF RunInv, RunTypeOK, Calls

(* A step that changes one call, outside a transaction, and no row.        *)
Free == RunPcs \ {"try", "lookup", "spawn"}
LEMMA LocalMove ==
    ASSUME RunInv, NEW c \in Calls, NEW r \in RunCalls, call' = [call EXCEPT ![c] = r],
           call[c].pc \in Free, r.pc \in Free, r.pc # "over" => r.got = "none",
           c \in Caller => r.pc \in {"insert", "find", "read", "over"},
           c \in ParentExec => r.pc \notin {"insert", "find", "read"},
           r.got \notin Stops /\ c \in ParentExec => step # NoStep /\ step.child = Shown(r.got),
           UNCHANGED <<runs, keyed, asked, child, step, plock, pcancel, begun>>
    PROVE  RunInv'
<1>1. call' \in [Calls -> RunCalls] /\ call'[c] = r /\ \A d \in Calls \ {c} : call'[d] = call[d]
  BY OwnCall
<1>2. RunTypeOK'
  BY <1>1 DEF RunInv, RunTypeOK, Calls
<1>3. RowsSound'
  BY DEF RunInv, RowsSound, Exists
<1>4. Keeps(c)
  BY <1>1 DEF Keeps
<1>5. CallSound(c)'
  BY <1>1, OwnCall DEF CallSound, Free, Shown
<1>6. OneSpawner'
  BY <1>1, <1>4, SpawnersStay DEF Free
<1> QED BY <1>2, <1>3, <1>4, <1>5, <1>6, CallsStaySound DEF RunInv, Calls

(* How a call looks after Goes and after Gets.                             *)
LEMMA AfterGoes ==
    ASSUME RunInv, NEW c \in Calls, NEW p \in RunPcs, Goes(c, p)
    PROVE  /\ call' \in [Calls -> RunCalls] /\ \A d \in Calls \ {c} : call'[d] = call[d]
           /\ call'[c].pc = p /\ call'[c].got = call[c].got
           /\ call' = [call EXCEPT ![c] = [call[c] EXCEPT !.pc = p]]
           /\ [call[c] EXCEPT !.pc = p] \in RunCalls
  BY OwnCall DEF Goes, RunCalls
Answers == RunIds \cup Stops \cup {Refused}
LEMMA AfterGets ==
    ASSUME RunInv, NEW c \in Calls, NEW a \in Answers, Gets(c, a)
    PROVE  /\ call' \in [Calls -> RunCalls] /\ \A d \in Calls \ {c} : call'[d] = call[d]
           /\ call'[c].pc = "over" /\ call'[c].got = a
           /\ call' = [call EXCEPT ![c] = [call[c] EXCEPT !.pc = "over", !.got = a]]
           /\ [call[c] EXCEPT !.pc = "over", !.got = a] \in RunCalls
  BY OwnCall DEF Gets, RunCalls, RunPcs, Answers

LEMMA GoesMove ==
    ASSUME RunInv, NEW c \in Calls, NEW p \in Free \ {"over"}, Goes(c, p),
           call[c].pc \in Free \ {"over"},
           c \in Caller => p \in {"insert", "find", "read"},
           c \in ParentExec => p \notin {"insert", "find", "read"},
           UNCHANGED <<runs, keyed, asked, child, step, plock, pcancel, begun>>
    PROVE  RunInv'
<1> DEFINE r == [call[c] EXCEPT !.pc = p]
<1>1. r \in RunCalls /\ call' = [call EXCEPT ![c] = r]
  BY AfterGoes DEF Free
<1>2. r.pc = p /\ r.got = "none"
  BY OwnCall, SMT DEF RunCalls, CallSound
<1> HIDE DEF r
<1> QED BY <1>1, <1>2, LocalMove DEF Free, Stops

LEMMA GetsMove ==
    ASSUME RunInv, NEW c \in Calls, NEW a \in Answers, Gets(c, a), call[c].pc \in Free,
           a \notin Stops /\ c \in ParentExec => step # NoStep /\ step.child = Shown(a),
           UNCHANGED <<runs, keyed, asked, child, step, plock, pcancel, begun>>
    PROVE  RunInv'
<1> DEFINE r == [call[c] EXCEPT !.pc = "over", !.got = a]
<1>1. r \in RunCalls /\ call' = [call EXCEPT ![c] = r]
  BY AfterGets
<1>2. r.pc = "over" /\ r.got = a
  BY OwnCall DEF RunCalls
<1> HIDE DEF r
<1> QED BY <1>1, <1>2, LocalMove DEF Free, RunPcs

(* The top-level calls' retry.                                             *)
LEMMA AgainMove ==
    ASSUME RunInv, NEW c \in Caller, Again(c, "insert"), call[c].pc \in {"find", "read"},
           UNCHANGED <<runs, keyed, asked, child, step, plock, pcancel, begun>>
    PROVE  RunInv'
<1>1. c \in Calls /\ c \notin ParentExec
  BY RunAssumption DEF Calls
<1>2. CASE call[c].tries + 1 = MaxDedup
  BY <1>1, <1>2, GetsMove DEF Again, Answers, Stops, Free, RunPcs
<1>3. CASE call[c].tries + 1 # MaxDedup
  <2> DEFINE r == [call[c] EXCEPT !.pc = "insert", !.tries = @ + 1]
  <2>0. call[c].got = "none" /\ call[c].tries + 1 \in Nat
    BY <1>1, OwnCall, SMT DEF RunCalls, CallSound
  <2>1. r \in RunCalls /\ r.pc = "insert" /\ r.got = "none"
    BY <1>1, <2>0, OwnCall DEF RunCalls, RunPcs
  <2>2. call' = [call EXCEPT ![c] = r]
    BY <1>1, <1>3, OwnCall DEF Again
  <2> HIDE DEF r
  <2> QED BY <1>1, <2>1, <2>2, LocalMove DEF Free, RunPcs
<1> QED BY <1>2, <1>3

(* --------------------------------------------------- top-level calls *)

LEMMA FindSound == ASSUME RunInv, NEW c \in Caller, FindHolder(c) PROVE RunInv'
<1>1. c \in Calls /\ c \notin ParentExec
  BY RunAssumption DEF Calls
<1>2. CASE Again(c, "insert")
  BY <1>2, AgainMove DEF FindHolder
<1>3. ASSUME NEW i \in keyed, call' = [call EXCEPT ![c].pc = "read", ![c].found = i]
      PROVE  RunInv'
  <2> DEFINE r == [call[c] EXCEPT !.pc = "read", !.found = i]
  <2>1. i \in RunIds
    BY DEF RunInv, RunTypeOK
  <2>2. r \in RunCalls /\ r.pc = "read" /\ r.got = "none"
    BY <1>1, <2>1, OwnCall DEF RunCalls, RunPcs, CallSound, FindHolder
  <2>3. call' = [call EXCEPT ![c] = r]
    BY <1>1, <1>3, OwnCall
  <2> HIDE DEF r
  <2> QED BY <1>1, <2>2, <2>3, LocalMove DEF Free, RunPcs, FindHolder
<1> QED BY <1>2, <1>3 DEF FindHolder

LEMMA ReadSound == ASSUME RunInv, NEW c \in Caller, ReadHolder(c) PROVE RunInv'
<1>1. c \in Calls /\ c \notin ParentExec
  BY RunAssumption DEF Calls
<1>2. CASE Again(c, "insert")
  BY <1>2, AgainMove DEF ReadHolder
<1>3. CASE Gets(c, call[c].found)
  <2>1. call[c].found \in Answers
    BY <1>1, OwnCall DEF RunCalls, Answers
  <2> QED BY <1>1, <1>3, <2>1, GetsMove DEF ReadHolder, Free, RunPcs
<1> QED BY <1>2, <1>3 DEF ReadHolder

LEMMA InsertSound == ASSUME RunInv, NEW c \in Caller, InsertRun(c) PROVE RunInv'
<1> DEFINE a == asked[c]
<1>1. c \in Calls /\ c \notin ParentExec /\ c # NoLock
  BY RunAssumption DEF Calls
<1>2. a \in Asks /\ a.id \in RunIds /\ a.id \in Answers
  BY RunAssumption, SMT DEF RunInv, RunTypeOK, Asks, Answers
<1>3. /\ call[c].pc = "insert"
      /\ UNCHANGED <<asked, child, step, plock, pcancel>>
  BY DEF InsertRun
<1>4. CASE Exists(a.id) /\ Gets(c, a.id) /\ UNCHANGED <<runs, keyed, begun>>
  BY <1>1, <1>2, <1>3, <1>4, GetsMove DEF Free, RunPcs
<1>5. CASE /\ IF a.adopt THEN Goes(c, "find") ELSE Gets(c, Refused)
           /\ UNCHANGED <<runs, keyed, begun>>
  <2>1. CASE Goes(c, "find")
    BY <1>1, <1>3, <1>5, <2>1, GoesMove DEF Free, RunPcs
  <2>2. CASE Gets(c, Refused)
    BY <1>1, <1>3, <1>5, <2>2, GetsMove DEF Free, RunPcs, Answers
  <2> QED BY <1>5, <2>1, <2>2
<1>6. CASE /\ ~Exists(a.id) /\ ~SlotTaken(a) /\ Creates(a) /\ Gets(c, a.id)
           /\ begun' = IF a.keyed THEN begun ELSE [begun EXCEPT ![a.id] = @ + 1]
  <2>1. /\ call' \in [Calls -> RunCalls] /\ \A d \in Calls \ {c} : call'[d] = call[d]
        /\ call'[c].pc = "over" /\ call'[c].got = a.id
    BY <1>1, <1>2, <1>6, AfterGets
  <2>2. /\ runs \in [RunIds -> {"none", "live", "done"}] /\ begun \in [RunIds -> Nat]
        /\ keyed \subseteq RunIds /\ \A i \in RunIds : runs[i] = "none" => begun[i] = 0
    BY DEF RunInv, RunTypeOK, RowsSound, Exists
  <2>3. /\ runs' \in [RunIds -> {"none", "live", "done"}] /\ runs'[a.id] = "live"
        /\ \A i \in RunIds \ {a.id} : runs'[i] = runs[i]
    BY <1>2, <1>6, <2>2 DEF Creates
  <2>4. /\ begun' \in [RunIds -> Nat] /\ begun'[a.id] <= 1
        /\ \A i \in RunIds \ {a.id} : begun'[i] = begun[i]
    BY <1>2, <1>6, <2>2, SMT DEF Exists
  <2>5. keyed' \subseteq RunIds /\ (keyed' = keyed \/ keyed' = {a.id})
    BY <1>2, <1>6, <2>2 DEF Creates, SlotTaken
  <2>6. RunTypeOK'
    BY <1>3, <2>1, <2>3, <2>4, <2>5 DEF RunInv, RunTypeOK, Calls
  <2>7. Keeps(c)
    <3>1. \A d \in Calls : call[d].pc = "spawn" => child.id # a.id
      BY <1>6 DEF RunInv, CallSound, Calls, Exists
    <3>2. child.id \in RunIds
      BY RunAssumption DEF RunInv, RunTypeOK, Asks
    <3> QED BY <1>3, <2>1, <2>3, <2>4, <3>1, <3>2 DEF Keeps
  <2>8. CallSound(c)'
    <3>1. plock # c
      BY <1>1, <1>3, OwnCall DEF CallSound
    <3> QED BY <1>1, <1>3, <2>1, <3>1 DEF CallSound
  <2>9. RowsSound'
    <3>1. a.id \in {asked'[d].id : d \in Caller}
      BY <1>3
    <3>2. \A i \in keyed' : runs'[i] = "live"
      BY <1>2, <2>2, <2>3, <2>5, SMT DEF RunInv, RowsSound
    <3>3. \A i \in RunIds : begun'[i] <= 1 /\ (runs'[i] = "none" => begun'[i] = 0)
      BY <2>2, <2>3, <2>4 DEF RunInv, RowsSound
    <3>4. child.id \in RunIds
      BY RunAssumption DEF RunInv, RunTypeOK, Asks
    <3>5. Exists(child.id)' /\ child'.id \notin {asked'[d].id : d \in Caller} =>
            step' = [child |-> child'.id]
      BY <1>3, <2>3, <3>1, <3>4, SMT DEF RunInv, RowsSound, Exists
    <3> QED BY <1>3, <2>5, <3>2, <3>3, <3>5 DEF RunInv, RowsSound, Exists
  <2>10. OneSpawner'
    BY <1>1, <2>1, <2>7, SpawnersStay
  <2> QED BY <1>1, <2>6, <2>7, <2>8, <2>9, <2>10, CallsStaySound DEF RunInv, Calls
<1> QED BY <1>4, <1>5, <1>6 DEF InsertRun

(* --------------------------------------- a child's start, outside the lock *)

LEMMA StepIsOne == ASSUME RunInv, step # NoStep PROVE step.child \in RunIds \cup {"refused"}
  BY DEF RunInv, RunTypeOK, Steps

LEMMA ShownAsIs == ASSUME NEW i \in RunIds PROVE Shown(i) = i
  BY RunAssumption DEF Shown

LEMMA CheckChildSound == ASSUME RunInv, NEW e \in ParentExec, CheckChild(e) PROVE RunInv'
<1>1. e \in Calls /\ e \notin Caller
  BY RunAssumption DEF Calls
<1>2. CASE step # NoStep /\ step.child # "refused"
  <2>1. step.child \in RunIds /\ Shown(step.child) = step.child
    BY <1>2, StepIsOne, ShownAsIs
  <2> QED BY <1>1, <1>2, <2>1, GetsMove DEF CheckChild, Answers, Free, RunPcs
<1>3. CASE ~(step # NoStep /\ step.child # "refused")
  BY <1>1, <1>3, GoesMove DEF CheckChild, Free, RunPcs
<1> QED BY <1>2, <1>3

LEMMA CheckRefusalSound == ASSUME RunInv, NEW e \in ParentExec, CheckRefusal(e) PROVE RunInv'
<1>1. e \in Calls /\ e \notin Caller
  BY RunAssumption DEF Calls
<1>2. CASE step # NoStep /\ step.child = "refused"
  BY <1>1, <1>2, GetsMove DEF CheckRefusal, Answers, Shown, Free, RunPcs
<1>3. CASE ~(step # NoStep /\ step.child = "refused")
  BY <1>1, <1>3, GoesMove DEF CheckRefusal, Free, RunPcs
<1> QED BY <1>2, <1>3

LEMMA CheckCancelledSound == ASSUME RunInv, NEW e \in ParentExec, CheckCancelled(e) PROVE RunInv'
<1>1. e \in Calls /\ e \notin Caller
  BY RunAssumption DEF Calls
<1>2. CASE pcancel
  BY <1>1, <1>2, GetsMove DEF CheckCancelled, Answers, Stops, Free, RunPcs
<1>3. CASE ~pcancel
  BY <1>1, <1>3, GoesMove DEF CheckCancelled, Free, RunPcs
<1> QED BY <1>2, <1>3

(* ----------------------------------------------- inside the transaction *)

(* A step that keeps the rows and begun, and may move the lock of one      *)
(* execution or record the position.                                       *)
LEMMA ParentMove ==
    ASSUME RunInv, NEW e \in ParentExec,
           UNCHANGED <<runs, keyed, asked, child, begun>>, pcancel' \in BOOLEAN,
           call' \in [Calls -> RunCalls], \A d \in Calls \ {e} : call'[d] = call[d],
           step' \in Steps \cup {NoStep}, step # NoStep => step' = step,
           plock' \in {plock, NoLock, e}, plock # e => plock' = plock \/ plock = NoLock,
           plock' # NoLock => step' = NoStep,
           call'[e].pc # "spawn",
           CallSound(e)'
    PROVE  RunInv'
<1>1. e \in Calls /\ e # NoLock
  BY RunAssumption DEF Calls
<1>2. RunTypeOK'
  <2>1. plock' \in ParentExec \cup {NoLock}
    BY DEF RunInv, RunTypeOK
  <2> QED BY <2>1 DEF RunInv, RunTypeOK, Calls
<1>3. Keeps(e)
  <2>1. \A d \in Calls \ {e} : plock' = d <=> plock = d
    BY RunAssumption DEF Calls
  <2> QED BY <2>1 DEF Keeps
<1>4. RowsSound'
  <2>1. Exists(child.id) /\ child.id \notin {asked[c].id : c \in Caller} => step' = step
    BY RunAssumption, SMT DEF RunInv, RowsSound, RunTypeOK, Steps, Asks
  <2> QED BY <2>1 DEF RunInv, RowsSound, Exists
<1>5. OneSpawner'
  BY <1>1, <1>3, SpawnersStay
<1> QED BY <1>1, <1>2, <1>3, <1>4, <1>5, CallsStaySound DEF RunInv, Calls

LEMMA LockSound == ASSUME RunInv, NEW e \in ParentExec, LockParent(e) PROVE RunInv'
<1>1. e \in Calls /\ e \notin Caller /\ call[e].pc = "lock" /\ plock = NoLock
  BY RunAssumption DEF Calls, LockParent
<1>2. CASE step # NoStep
  <2> DEFINE a == IF step.child = "refused" THEN "WorkflowConflict" ELSE step.child
  <2>1. a \in Answers /\ (a \notin Stops => step.child = Shown(a))
    BY <1>2, StepIsOne, ShownAsIs DEF Answers, Stops
  <2>2. Gets(e, a) /\ plock' = plock
    BY <1>2 DEF LockParent
  <2> HIDE DEF a
  <2> QED BY <1>1, <1>2, <2>1, <2>2, GetsMove DEF LockParent, Free, RunPcs
<1>3. CASE step = NoStep /\ pcancel
  BY <1>1, <1>3, GetsMove DEF LockParent, Answers, Stops, Free, RunPcs
<1>4. CASE step = NoStep /\ ~pcancel
  <2>1. Goes(e, "try") /\ plock' = e /\ UNCHANGED <<runs, keyed, asked, child, step, pcancel, begun>>
    BY <1>4 DEF LockParent
  <2>2. /\ call' \in [Calls -> RunCalls] /\ \A d \in Calls \ {e} : call'[d] = call[d]
        /\ call'[e].pc = "try" /\ call'[e].got = call[e].got
    BY <1>1, <2>1, AfterGoes DEF RunPcs
  <2>3. call[e].got = "none"
    BY <1>1, OwnCall DEF CallSound
  <2>4. CallSound(e)'
    BY <1>1, <2>1, <2>2, <2>3 DEF CallSound, Stops
  <2>5. pcancel' \in BOOLEAN /\ step' \in Steps \cup {NoStep}
    BY <2>1 DEF RunInv, RunTypeOK
  <2> QED BY <1>1, <1>4, <2>1, <2>2, <2>4, <2>5, ParentMove
<1> QED BY <1>2, <1>3, <1>4

LEMMA RefusalSound == ASSUME RunInv, NEW e \in ParentExec, RecordRefusal(e) PROVE RunInv'
<1>1. e \in Calls /\ e \notin Caller /\ call[e].pc = "refuse" /\ plock = NoLock
  BY RunAssumption DEF Calls, RecordRefusal
<1>2. CASE step \notin {NoStep, [child |-> "refused"]}
  BY <1>1, <1>2, GetsMove DEF RecordRefusal, Answers, Stops, Free, RunPcs
<1>r. CASE step = [child |-> "refused"]
  <2>1. Gets(e, Refused) /\ UNCHANGED <<runs, keyed, asked, child, step, plock, pcancel, begun>>
    BY <1>r, RunAssumption DEF RecordRefusal, Steps
  <2>2. step # NoStep /\ step.child = Shown(Refused)
    BY <1>r, RunAssumption, SMT DEF Steps, Shown
  <2> QED BY <1>1, <2>1, <2>2, GetsMove DEF Answers, Free, RunPcs
<1>3. CASE step = NoStep
  <2>1. /\ Gets(e, Refused) /\ step' = [child |-> "refused"]
        /\ UNCHANGED <<runs, keyed, asked, child, plock, pcancel, begun>>
    BY <1>3 DEF RecordRefusal
  <2>2. /\ call' \in [Calls -> RunCalls] /\ \A d \in Calls \ {e} : call'[d] = call[d]
        /\ call'[e].pc = "over" /\ call'[e].got = Refused
    BY <1>1, <2>1, AfterGets DEF Answers
  <2>3. step' \in Steps /\ step' # NoStep /\ step'.child = "refused"
    BY <2>1, RunAssumption, SMT DEF Steps
  <2>4. CallSound(e)'
    BY <1>1, <2>1, <2>2, <2>3, RunAssumption DEF CallSound, Shown
  <2>5. pcancel' \in BOOLEAN
    BY <2>1 DEF RunInv, RunTypeOK
  <2> QED BY <1>1, <1>3, <2>1, <2>2, <2>3, <2>4, <2>5, ParentMove
<1> QED BY <1>2, <1>r, <1>3

(* An existing row becomes the child.                                      *)
LEMMA AttachSound ==
    ASSUME RunInv, NEW e \in ParentExec, NEW i \in RunIds, call[e].pc \in {"try", "lookup"},
           Commits(e, i, FALSE), UNCHANGED <<runs, keyed, asked, child, pcancel, begun>>
    PROVE  RunInv'
<1>1. e \in Calls /\ e \notin Caller /\ plock = e /\ e # NoLock
  BY OwnCall, RunAssumption DEF Calls, CallSound
<1>2. step = NoStep
  BY <1>1 DEF RunInv, RowsSound
<1>3. Gets(e, i) /\ step' = [child |-> i] /\ plock' = NoLock
  BY DEF Commits
<1>4. /\ call' \in [Calls -> RunCalls] /\ \A d \in Calls \ {e} : call'[d] = call[d]
      /\ call'[e].pc = "over" /\ call'[e].got = i
  BY <1>1, <1>3, AfterGets DEF Answers
<1>5. step' \in Steps /\ step' # NoStep /\ step'.child = Shown(i)
  BY <1>3, ShownAsIs, RunAssumption, SMT DEF Steps
<1>6. CallSound(e)'
  BY <1>1, <1>3, <1>4, <1>5 DEF CallSound, Shown
<1>7. pcancel' \in BOOLEAN
  BY DEF RunInv, RunTypeOK
<1> QED BY <1>1, <1>2, <1>3, <1>4, <1>5, <1>6, <1>7, ParentMove

(* The child's row and the checkpoint appear together.                     *)
LEMMA CreateSound ==
    ASSUME RunInv, NEW e \in ParentExec, call[e].pc = "try", ~Exists(child.id), ~SlotTaken(child),
           Creates(child), Commits(e, child.id, TRUE), UNCHANGED <<asked, child, pcancel, begun>>
    PROVE  RunInv'
<1>1. e \in Calls /\ e \notin Caller /\ plock = e /\ e # NoLock
  BY OwnCall, RunAssumption DEF Calls, CallSound
<1>2. step = NoStep /\ step' = [child |-> child.id] /\ plock' = NoLock
  BY <1>1 DEF RunInv, RowsSound, Commits
<1>3. child.id \in RunIds /\ child.id \in Answers /\ child \in Asks
  BY RunAssumption DEF RunInv, RunTypeOK, Asks, Answers
<1>4. step' \in Steps /\ step' # NoStep /\ step'.child = Shown(child.id)
  BY <1>2, <1>3, ShownAsIs, RunAssumption, SMT DEF Steps
<1>5. /\ call' \in [Calls -> RunCalls] /\ \A d \in Calls \ {e} : call'[d] = call[d]
      /\ \/ call'[e].pc = "over" /\ call'[e].got = child.id
         \/ call'[e].pc = "spawn" /\ call'[e].got = "none"
  <2>1. CASE Gets(e, child.id)
    BY <1>1, <1>3, <2>1, AfterGets
  <2>2. CASE Goes(e, "spawn")
    <3>1. call[e].got = "none"
      BY <1>1, OwnCall DEF CallSound
    <3> QED BY <1>1, <2>2, <3>1, AfterGoes DEF RunPcs
  <2> QED BY <2>1, <2>2 DEF Commits
<1>6. /\ runs \in [RunIds -> {"none", "live", "done"}] /\ keyed \subseteq RunIds
      /\ \A i \in RunIds : begun[i] <= 1 /\ (runs[i] = "none" => begun[i] = 0)
  BY DEF RunInv, RunTypeOK, RowsSound, Exists
<1>7. /\ runs' \in [RunIds -> {"none", "live", "done"}] /\ runs'[child.id] = "live"
      /\ \A i \in RunIds \ {child.id} : runs'[i] = runs[i]
  BY <1>3, <1>6 DEF Creates
<1>8. keyed' \subseteq RunIds /\ (keyed' = keyed \/ keyed' = {child.id})
  BY <1>3, <1>6 DEF Creates, SlotTaken
<1>9. RunTypeOK'
  BY <1>2, <1>4, <1>5, <1>7, <1>8 DEF RunInv, RunTypeOK, Calls
<1>10. Keeps(e)
  <2>1. \A d \in Calls \ {e} : plock' = d <=> plock = d
    BY <1>1, <1>2, RunAssumption DEF Calls
  <2> QED BY <1>2, <1>5, <1>6, <1>7, <2>1 DEF Keeps
<1>11. CallSound(e)'
  <2>1. begun[child.id] = 0
    BY <1>3, <1>6 DEF Exists
  <2> QED BY <1>1, <1>2, <1>4, <1>5, <1>7, <2>1 DEF CallSound, Exists, Stops, Shown
<1>12. RowsSound'
  <2>1. \A i \in keyed' : runs'[i] = "live"
    BY <1>3, <1>6, <1>7, <1>8, SMT DEF RunInv, RowsSound
  <2>2. \A i, j \in keyed' : i = j
    BY <1>8 DEF RunInv, RowsSound
  <2>3. \A i \in RunIds : begun'[i] <= 1 /\ (runs'[i] = "none" => begun'[i] = 0)
    BY <1>6, <1>7
  <2> QED BY <1>2, <2>1, <2>2, <2>3 DEF RowsSound, Exists
<1>13. OneSpawner'
  <2>1. \A d \in ParentExec : call[d].pc # "spawn"
    <3>1. [child |-> child.id] # NoStep
      BY <1>3, RunAssumption, SMT DEF Steps
    <3> QED BY <1>2, <3>1 DEF RunInv, CallSound
  <2> QED BY <1>1, <1>10, <2>1, SpawnersStay
<1> QED BY <1>1, <1>9, <1>10, <1>11, <1>12, <1>13, CallsStaySound DEF RunInv, Calls

(* A transaction goes on, or is rolled back.                               *)
LEMMA TxMove ==
    ASSUME RunInv, NEW e \in ParentExec, call[e].pc \in {"try", "lookup"},
           call' \in [Calls -> RunCalls], \A d \in Calls \ {e} : call'[d] = call[d],
           \/ call'[e].pc = "lookup" /\ child.keyed /\ plock' = plock /\ call'[e].got = "none"
           \/ call'[e].pc = "try" /\ plock' = plock /\ call'[e].got = "none"
           \/ call'[e].pc = "refuse" /\ plock' = NoLock /\ call'[e].got = "none"
           \/ call'[e].pc = "over" /\ plock' = NoLock /\ call'[e].got \in Stops,
           UNCHANGED <<runs, keyed, asked, child, step, pcancel, begun>>
    PROVE  RunInv'
<1>1. e \in Calls /\ e \notin Caller /\ plock = e /\ e # NoLock
  BY OwnCall, RunAssumption DEF Calls, CallSound
<1>2. step = NoStep
  BY <1>1 DEF RunInv, RowsSound
<1>3. CallSound(e)'
  BY <1>1 DEF CallSound, Stops
<1>4. pcancel' \in BOOLEAN
  BY DEF RunInv, RunTypeOK
<1> QED BY <1>1, <1>2, <1>3, <1>4, ParentMove

LEMMA TrySound == ASSUME RunInv, NEW e \in ParentExec, TryInsert(e) PROVE RunInv'
<1>1. e \in Calls /\ call[e].pc = "try" /\ call[e].got = "none"
  BY OwnCall DEF Calls, TryInsert, CallSound
<1>2. UNCHANGED <<asked, child, pcancel, begun>> /\ child.id \in RunIds
  BY RunAssumption DEF TryInsert, RunInv, RunTypeOK, Asks
<1>3. CASE Exists(child.id) /\ Commits(e, child.id, FALSE) /\ UNCHANGED <<runs, keyed>>
  BY <1>1, <1>2, <1>3, AttachSound
<1>4. CASE SlotTaken(child) /\ Goes(e, "lookup") /\ UNCHANGED <<runs, keyed, step, plock>>
  BY <1>1, <1>2, <1>4, AfterGoes, TxMove DEF SlotTaken, RunPcs
<1>5. CASE Goes(e, "refuse") /\ plock' = NoLock /\ UNCHANGED <<runs, keyed, step>>
  BY <1>1, <1>2, <1>5, AfterGoes, TxMove DEF RunPcs
<1>6. CASE ~Exists(child.id) /\ ~SlotTaken(child) /\ Creates(child) /\ Commits(e, child.id, TRUE)
  BY <1>1, <1>2, <1>6, CreateSound
<1> QED BY <1>3, <1>4, <1>5, <1>6 DEF TryInsert

LEMMA AdoptSound == ASSUME RunInv, NEW e \in ParentExec, Adopt(e) PROVE RunInv'
<1>1. e \in Calls /\ call[e].pc = "lookup" /\ call[e].got = "none" /\ call[e] \in RunCalls
  BY OwnCall DEF Calls, Adopt, CallSound
<1>2. UNCHANGED <<runs, keyed, asked, child, pcancel, begun>> /\ keyed \subseteq RunIds
  BY DEF Adopt, RunInv, RunTypeOK
<1>3. ASSUME NEW i \in keyed, Commits(e, i, FALSE) PROVE RunInv'
  BY <1>1, <1>2, <1>3, AttachSound
<1>4. CASE Gets(e, "ObservationFailed") /\ step' = step /\ plock' = NoLock
  <2>1. "ObservationFailed" \in Answers /\ "ObservationFailed" \in Stops
    BY DEF Answers, Stops
  <2> QED BY <1>1, <1>2, <1>4, <2>1, AfterGets, TxMove
<1>5. CASE /\ call' = [call EXCEPT ![e].pc = "try", ![e].tries = @ + 1]
           /\ step' = step /\ plock' = plock
  <2> DEFINE n == call[e].tries + 1
             r == [call[e] EXCEPT !.pc = "try", !.tries = n]
  <2>1. n \in Nat
    BY <1>1, SMT DEF RunCalls
  <2>2. r \in RunCalls /\ r.pc = "try" /\ r.got = "none"
    <3> HIDE DEF n
    <3> QED BY <1>1, <2>1 DEF RunCalls, RunPcs
  <2>3. call' = [call EXCEPT ![e] = r]
    BY <1>5
  <2> HIDE DEF r
  <2>4. call' \in [Calls -> RunCalls] /\ call'[e] = r /\ \A d \in Calls \ {e} : call'[d] = call[d]
    BY <1>1, <2>2, <2>3, OwnCall
  <2> QED BY <1>1, <1>2, <1>5, <2>2, <2>4, TxMove
<1> QED BY <1>3, <1>4, <1>5 DEF Adopt, Again

LEMMA SpawnSound == ASSUME RunInv, NEW e \in ParentExec, SpawnChild(e) PROVE RunInv'
<1>1. e \in Calls /\ e \notin Caller /\ call[e].pc = "spawn" /\ plock # e
  BY OwnCall, RunAssumption DEF Calls, SpawnChild, CallSound
<1>2. /\ child.id \in RunIds /\ child.id \in Answers
      /\ step = [child |-> child.id] /\ Exists(child.id) /\ begun[child.id] = 0
  BY <1>1, OwnCall, RunAssumption DEF RunInv, RunTypeOK, Asks, Answers, CallSound
<1>3. /\ UNCHANGED <<runs, keyed, asked, child, step, plock, pcancel>>
      /\ begun' = [begun EXCEPT ![child.id] = @ + 1] /\ Gets(e, child.id)
  BY DEF SpawnChild
<1>4. /\ call' \in [Calls -> RunCalls] /\ \A d \in Calls \ {e} : call'[d] = call[d]
      /\ call'[e].pc = "over" /\ call'[e].got = child.id
  BY <1>1, <1>2, <1>3, AfterGets
<1>5. /\ begun' \in [RunIds -> Nat] /\ begun'[child.id] = 1
      /\ \A i \in RunIds \ {child.id} : begun'[i] = begun[i]
  BY <1>2, <1>3, SMT DEF RunInv, RunTypeOK
<1>6. RunTypeOK'
  BY <1>3, <1>4, <1>5 DEF RunInv, RunTypeOK, Calls
<1>7. Keeps(e)
  <2>1. \A d \in Calls \ {e} : call[d].pc # "spawn"
    <3>1. \A d \in Caller : call[d].pc # "spawn"
      BY OwnCall DEF Calls, CallSound
    <3> QED BY <1>1, <3>1 DEF RunInv, OneSpawner, Calls
  <2> QED BY <1>3, <1>4, <2>1 DEF Keeps
<1>8. CallSound(e)'
  <2>1. step # NoStep /\ step.child = Shown(child.id)
    BY <1>2, ShownAsIs, RunAssumption, SMT DEF Steps
  <2> QED BY <1>1, <1>3, <1>4, <2>1 DEF CallSound, Shown
<1>9. RowsSound'
  BY <1>2, <1>3, <1>5, SMT DEF RunInv, RowsSound, Exists
<1>10. OneSpawner'
  BY <1>1, <1>4, <1>7, SpawnersStay
<1> QED BY <1>1, <1>6, <1>7, <1>8, <1>9, <1>10, CallsStaySound DEF RunInv, Calls

LEMMA DiesSound == ASSUME RunInv, NEW e \in ParentExec, ExecutionDies(e) PROVE RunInv'
<1>1. e \in Calls /\ e \notin Caller /\ e # NoLock
  BY RunAssumption DEF Calls
<1>2. /\ Gets(e, "crashed") /\ plock' = IF plock = e THEN NoLock ELSE plock
      /\ UNCHANGED <<runs, keyed, asked, child, step, pcancel, begun>>
  BY DEF ExecutionDies
<1>3. "crashed" \in Answers /\ "crashed" \in Stops
  BY DEF Answers, Stops
<1>4. /\ call' \in [Calls -> RunCalls] /\ \A d \in Calls \ {e} : call'[d] = call[d]
      /\ call'[e].pc = "over" /\ call'[e].got = "crashed"
  BY <1>1, <1>2, <1>3, AfterGets
<1>5. CallSound(e)'
  BY <1>1, <1>2, <1>3, <1>4 DEF CallSound, Stops
<1>6. step \in Steps \cup {NoStep} /\ pcancel \in BOOLEAN /\ (plock # NoLock => step = NoStep)
  BY DEF RunInv, RunTypeOK, RowsSound
<1> QED BY <1>2, <1>4, <1>5, <1>6, ParentMove

LEMMA RowEndsSound == ASSUME RunInv, NEW i \in RunIds, RowEnds(i) PROVE RunInv'
<1>1. /\ runs[i] = "live" /\ runs' = [runs EXCEPT ![i] = "done"] /\ keyed' = keyed \ {i}
      /\ UNCHANGED <<asked, child, step, plock, pcancel, call, begun>>
  BY DEF RowEnds
<1>2. /\ runs' \in [RunIds -> {"none", "live", "done"}]
      /\ \A j \in RunIds : runs'[j] = "none" <=> runs[j] = "none"
      /\ \A j \in RunIds \ {i} : runs'[j] = runs[j]
  BY <1>1 DEF RunInv, RunTypeOK
<1>3. RunTypeOK' /\ child.id \in RunIds
  BY <1>1, <1>2, RunAssumption, SMT DEF RunInv, RunTypeOK, Asks
<1>4. RowsSound'
  <2>1. \A j \in keyed' : runs'[j] = "live"
    BY <1>1, <1>2 DEF RunInv, RunTypeOK, RowsSound
  <2> QED BY <1>1, <1>2, <1>3, <2>1, SMT DEF RunInv, RowsSound, Exists
<1>5. OneSpawner'
  BY <1>1 DEF RunInv, OneSpawner
<1>6. ASSUME NEW d \in Calls PROVE CallSound(d)'
  BY <1>1, <1>2, <1>3, OwnCall DEF CallSound, Exists, Shown
<1> QED BY <1>3, <1>4, <1>5, <1>6 DEF RunInv, Calls

LEMMA CancelSound == ASSUME RunInv, ParentCancelled PROVE RunInv'
<1>1. RunTypeOK' /\ RowsSound' /\ OneSpawner'
  BY DEF RunInv, ParentCancelled, RunTypeOK, RowsSound, OneSpawner, Exists
<1>2. ASSUME NEW d \in Calls PROVE CallSound(d)'
  BY OwnCall DEF ParentCancelled, CallSound, Exists, Shown
<1> QED BY <1>1, <1>2 DEF RunInv, Calls

LEMMA InvKept == RunInv /\ [RunNext]_runVars => RunInv'
<1> SUFFICES ASSUME RunInv, [RunNext]_runVars PROVE RunInv'
  OBVIOUS
<1>1. ASSUME NEW c \in Caller, InsertRun(c) \/ FindHolder(c) \/ ReadHolder(c) PROVE RunInv'
  BY <1>1, InsertSound, FindSound, ReadSound
<1>2. ASSUME NEW e \in ParentExec,
             \/ CheckChild(e) \/ CheckRefusal(e) \/ CheckCancelled(e) \/ LockParent(e)
             \/ TryInsert(e) \/ Adopt(e) \/ RecordRefusal(e) \/ SpawnChild(e)
             \/ ExecutionDies(e)
      PROVE  RunInv'
  BY <1>2, CheckChildSound, CheckRefusalSound, CheckCancelledSound, LockSound, TrySound,
     AdoptSound, RefusalSound, SpawnSound, DiesSound
<1>3. CASE UNCHANGED runVars
  <2>1. RunTypeOK' /\ RowsSound' /\ OneSpawner'
    BY <1>3 DEF RunInv, runVars, RunTypeOK, RowsSound, OneSpawner, Exists
  <2>2. ASSUME NEW d \in Calls PROVE CallSound(d)'
    BY <1>3, OwnCall DEF runVars, CallSound, Exists, Shown
  <2> QED BY <2>1, <2>2 DEF RunInv, Calls
<1> QED BY <1>1, <1>2, <1>3, RowEndsSound, CancelSound DEF RunNext

----------------------------------------------------------------------------
(* start_child: all executions of a parent that learn what a child's start *)
(* came to learn what its position records, no child row exists without    *)
(* the record, and no run is executed by two calls.                        *)
THEOREM ChildStartsAgree == RunSpec => []ChildrenAgree
  BY InvStarts, InvKept, InvGives, PTL DEF RunSpec

(* A call is handed a run it did not name by one kind of step only.        *)
LEMMA HandsOverLive ==
    ASSUME RunInv, RunNext, NEW c \in Caller, call[c].got = "none",
           call'[c].got \in RunIds \ {asked[c].id}
    PROVE  runs[call'[c].got] = "live" /\ call'[c].got \in keyed
<1>1. /\ call \in [Calls -> RunCalls] /\ c \in Calls /\ c \notin ParentExec
      /\ call'[c] # call[c]
  BY OwnCall, RunAssumption DEF Calls, Stops
<1>2. \A d \in Calls, a \in Answers : Gets(d, a) => d = c /\ call'[c].got = a
  BY <1>1, AfterGets
<1>3. \A d \in Calls, p \in RunPcs : ~Goes(d, p)
  <2> SUFFICES ASSUME NEW d \in Calls, NEW p \in RunPcs, Goes(d, p) PROVE FALSE
    OBVIOUS
  <2> QED BY <1>1, AfterGoes, RunAssumption DEF Stops
<1>4. \A d \in Calls, p \in RunPcs : ~Again(d, p)
  <2> SUFFICES ASSUME NEW d \in Calls, NEW p \in RunPcs, Again(d, p) PROVE FALSE
    OBVIOUS
  <2>1. CASE Gets(d, "ObservationFailed")
    <3>1. "ObservationFailed" \in Answers /\ "ObservationFailed" \notin RunIds
      BY RunAssumption DEF Answers, Stops
    <3> QED BY <1>2, <2>1, <3>1
  <2>2. CASE call' = [call EXCEPT ![d].pc = p, ![d].tries = @ + 1]
    <3>1. call'[c].got = call[c].got
      BY <1>1, <2>2 DEF RunCalls
    <3> QED BY <3>1, RunAssumption DEF Stops
  <2> QED BY <2>1, <2>2 DEF Again
<1>5. ASSUME NEW d \in Caller, InsertRun(d) PROVE FALSE
  <2>1. d \in Calls /\ asked[d].id \in Answers /\ Refused \in Answers /\ Refused \notin RunIds
    BY RunAssumption, SMT DEF Calls, Answers, RunInv, RunTypeOK, Asks
  <2>2. Gets(d, asked[d].id) \/ Gets(d, Refused) \/ Goes(d, "find")
    BY <1>5 DEF InsertRun
  <2> QED BY <1>2, <1>3, <2>1, <2>2 DEF RunPcs
<1>6. ASSUME NEW d \in Caller, FindHolder(d) PROVE FALSE
  <2>1. ASSUME NEW i \in keyed, call' = [call EXCEPT ![d].pc = "read", ![d].found = i]
        PROVE  FALSE
    <3>1. call'[c].got = call[c].got
      BY <1>1, <2>1 DEF RunCalls
    <3> QED BY <3>1, RunAssumption DEF Stops
  <2> QED BY <1>4, <1>6, <2>1 DEF FindHolder, Calls, RunPcs
<1>7. ASSUME NEW d \in Caller, ReadHolder(d) PROVE runs[call'[c].got] = "live" /\ call'[c].got \in keyed
  <2>1. d \in Calls /\ call[d].found \in Answers
    BY <1>1 DEF Calls, Answers, RunCalls
  <2>2. Gets(d, call[d].found) /\ call[d].found \in keyed
    BY <1>4, <1>7, <2>1 DEF ReadHolder, RunPcs
  <2> QED BY <1>2, <2>1, <2>2 DEF RunInv, RowsSound
<1>8. ASSUME NEW e \in ParentExec,
             \/ CheckChild(e) \/ CheckRefusal(e) \/ CheckCancelled(e) \/ LockParent(e)
             \/ TryInsert(e) \/ Adopt(e) \/ RecordRefusal(e) \/ SpawnChild(e)
             \/ ExecutionDies(e)
      PROVE  FALSE
  <2>1. \/ \E q : Gets(e, q)
        \/ \E p \in RunPcs : Goes(e, p)
        \/ Again(e, "try")
    BY <1>8 DEF CheckChild, CheckRefusal, CheckCancelled, LockParent, TryInsert, Commits, Adopt,
       RecordRefusal, SpawnChild, ExecutionDies, RunPcs
  <2>2. e \in Calls /\ e # c
    BY <1>1 DEF Calls
  <2>3. ASSUME NEW q, Gets(e, q) PROVE FALSE
    BY <1>1, <2>2, <2>3 DEF Gets
  <2> QED BY <1>3, <1>4, <2>1, <2>2, <2>3 DEF RunPcs
<1>9. ASSUME NEW i \in RunIds, RowEnds(i) PROVE FALSE
  BY <1>1, <1>9 DEF RowEnds
<1>10. CASE ParentCancelled
  BY <1>1, <1>10 DEF ParentCancelled
<1> QED BY <1>5, <1>6, <1>7, <1>8, <1>9, <1>10 DEF RunNext

(* A position is recorded with the child it named, the holder of the key,  *)
(* or the refusal.                                                         *)
LEMMA RecordsHolder ==
    ASSUME RunInv, RunNext, step = NoStep, step' # NoStep
    PROVE  step'.child \in {"refused", child.id} \cup keyed
<1>1. ASSUME NEW c \in Caller, InsertRun(c) \/ FindHolder(c) \/ ReadHolder(c) PROVE FALSE
  BY <1>1 DEF InsertRun, FindHolder, ReadHolder
<1>2. ASSUME NEW e \in ParentExec,
             \/ CheckChild(e) \/ CheckRefusal(e) \/ CheckCancelled(e) \/ LockParent(e)
             \/ SpawnChild(e) \/ ExecutionDies(e)
      PROVE  FALSE
  BY <1>2 DEF CheckChild, CheckRefusal, CheckCancelled, LockParent, SpawnChild, ExecutionDies
<1>3. ASSUME NEW e \in ParentExec, TryInsert(e) \/ Adopt(e) \/ RecordRefusal(e)
      PROVE  step'.child \in {"refused", child.id} \cup keyed
  BY <1>3, SMT DEF TryInsert, Adopt, RecordRefusal, Commits
<1>4. ASSUME NEW i \in RunIds, RowEnds(i) PROVE FALSE
  BY <1>4 DEF RowEnds
<1>5. CASE ParentCancelled
  BY <1>5 DEF ParentCancelled
<1> QED BY <1>1, <1>2, <1>3, <1>4, <1>5 DEF RunNext

(* find_dedup_target and insert_child_workflow: the key has one holder,    *)
(* and a call handed a run it did not name is handed the key's holder of   *)
(* that moment, which was still to end.                                    *)
THEOREM AdoptionIsLive == RunSpec => AdoptsLiveRun
<1> DEFINE A == /\ \A i, j \in keyed' : i = j
                /\ \A c \in Caller :
                     LET id == call'[c].got
                     IN  call[c].got = "none" /\ id \in RunIds \ {asked[c].id} =>
                           runs[id] = "live" /\ id \in keyed
                /\ step = NoStep /\ step' # NoStep =>
                     step'.child \in {"refused", child.id} \cup keyed
<1>1. RunInv /\ RunInv' /\ [RunNext]_runVars => [A]_runVars
  <2> SUFFICES ASSUME RunInv, RunInv', RunNext PROVE A
    OBVIOUS
  <2>1. \A i, j \in keyed' : i = j
    BY DEF RunInv, RowsSound
  <2> QED BY <2>1, HandsOverLive, RecordsHolder
<1>2. RunSpec => [][A]_runVars
  BY <1>1, InvStarts, InvKept, PTL DEF RunSpec
<1> QED BY <1>2 DEF AdoptsLiveRun

-----------------------------------------------------------------------------
(***************************************************************************)
(* A patched workflow, for any number of executions of its versions.       *)
(***************************************************************************)

PatchExecs ==
    [pc : {"new", "first", "point", "mark", "work", "last", "over"}, v : 1 .. 3, seq : 0 .. 4,
     path : {"old", "new"}, ran : BOOLEAN, end : {"none", "crashed", "UnexpectedStep", "WorkflowConflict"}]

(* The records of a run: A X B, or A patch N B, or A N B.                  *)
Laid ==
    /\ names \in [0 .. 4 -> {NoName, "A", "X", "N", "B", "patch"}]
    /\ names[0] \in {NoName, "A"} /\ names[1] \in {NoName, "X", "N", "patch"} /\ names[4] = NoName
    /\ names[1] = NoName => names[2] = NoName
    /\ names[2] = NoName => names[3] = NoName
    /\ names[1] \in {"X", "N"} => names[2] \in {NoName, "B"} /\ names[3] = NoName
    /\ names[1] = "patch" => names[2] \in {NoName, "N"} /\ names[3] \in {NoName, "B"}
(* An execution by its version: where it stands in that layout.            *)
OldFits(r) ==
    /\ names[1] \in {NoName, "X"} /\ r.pc # "mark"
    /\ r.pc = "work" => r.seq = 1 /\ r.path = "old"
    /\ r.pc = "last" => r.seq = 2 /\ r.path = "old" /\ names[1] = "X"
PatchedFits(r) ==
    /\ names[1] # "N"
    /\ r.pc = "mark" => names[1] # "X"
    /\ r.pc = "work" => \/ r.seq = 1 /\ r.path = "old" /\ names[1] = "X"
                        \/ r.seq = 2 /\ r.path = "new" /\ names[1] = "patch"
    /\ r.pc = "last" => \/ r.seq = 2 /\ names[1] = "X"
                        \/ r.seq = 3 /\ names[1] = "patch" /\ names[2] = "N"
NewFits(r) ==
    /\ names[1] # "X" /\ r.pc # "mark"
    /\ r.pc = "work" => /\ r.path = "new"
                        /\ \/ r.seq = 1 /\ names[1] # "patch"
                           \/ r.seq = 2 /\ names[1] = "patch"
    /\ r.pc = "last" => \/ r.seq = 2 /\ names[1] = "N"
                        \/ r.seq = 3 /\ names[1] = "patch" /\ names[2] = "N"
Unran(r) == r.ran = FALSE
Fits(r) ==
    /\ r.end # "UnexpectedStep"
    /\ r.pc \in {"new", "first"} => r.seq = 0
    /\ r.pc \in {"point", "mark"} => r.seq = 1
    /\ r.pc \in {"point", "mark"} => Unran(r)
    /\ r.pc \notin {"new", "over"} => /\ r.v = 1 => OldFits(r)
                                      /\ r.v = 2 => PatchedFits(r)
                                      /\ r.v = 3 => NewFits(r)
PatchInv ==
    /\ deployed \in 1 .. 3 /\ pe \in [PatchExec -> PatchExecs] /\ Laid
    /\ names[1] = "N" => deployed = 3
    /\ names[1] = "patch" => deployed >= 2
    /\ \A e \in PatchExec : Fits(pe[e]) /\ pe[e].v <= deployed
    /\ \A e, f \in PatchExec : Running(e) /\ Running(f) => pe[e].v = pe[f].v

LEMMA VersionNames ==
    /\ Len(Versions) = 3
    /\ \A v \in 1 .. 3 : /\ Versions[v] = "before" <=> v = 1
                         /\ Versions[v] = "patched" <=> v = 2
                         /\ Versions[v] = "after" <=> v = 3
BY SMT DEF Versions

LEMMA PatchStarts == PatchInit => PatchInv
<1> SUFFICES ASSUME PatchInit PROVE PatchInv
  OBVIOUS
<1> DEFINE r == [pc |-> "new", v |-> 1, seq |-> 0, path |-> "old", ran |-> FALSE, end |-> "none"]
<1>1. r \in PatchExecs /\ \A e \in PatchExec : pe[e] = r
  BY SMT DEF PatchInit, PatchExecs
<1>2. Fits(r) /\ r.v = 1 /\ r.pc = "new"
  BY DEF Fits
<1>3. Laid /\ names[1] = NoName
  BY SMT DEF PatchInit, Laid
<1> HIDE DEF r
<1>4. pe \in [PatchExec -> PatchExecs]
  BY <1>1 DEF PatchInit, r
<1>5. \A e \in PatchExec : Fits(pe[e])
  BY <1>1, <1>2
<1>6. deployed \in 1 .. 3 /\ \A e \in PatchExec : pe[e].v <= deployed /\ ~Running(e)
  BY <1>1, <1>2, SMT DEF PatchInit, Running
<1>7. names[1] # "N" /\ names[1] # "patch"
  BY <1>3, PatchAssumption
<1> QED BY <1>3, <1>4, <1>5, <1>6, <1>7 DEF PatchInv

(* What a step does to one execution: the others are left alone.           *)
LEMMA OneMoves ==
    ASSUME NEW e \in PatchExec, PatchInv, NEW r \in PatchExecs, pe' = [pe EXCEPT ![e] = r],
           Laid', deployed' \in 1 .. 3, deployed <= deployed',
           names'[1] = "N" => deployed' = 3, names'[1] = "patch" => deployed' >= 2,
           Fits(r)', r.v <= deployed',
           \A f \in PatchExec \ {e} : Fits(pe[f])',
           r.pc \notin {"new", "over"} => \A f \in PatchExec \ {e} : Running(f) => pe[f].v = r.v
    PROVE  PatchInv'
<1>1. pe' \in [PatchExec -> PatchExecs] /\ \A f \in PatchExec : pe'[f] = IF f = e THEN r ELSE pe[f]
  BY DEF PatchInv
<1>2. \A f \in PatchExec : Fits(pe[f])'
  <2> TAKE f \in PatchExec
  <2>1. CASE f = e
    BY <1>1, <2>1 DEF Fits, OldFits, PatchedFits, NewFits
  <2>2. CASE f # e
    BY <1>1, <2>2 DEF Fits, OldFits, PatchedFits, NewFits
  <2> QED BY <2>1, <2>2
<1>3. \A f \in PatchExec : (pe[f].v <= deployed)'
  BY <1>1, SMT DEF PatchInv, PatchExecs
<1>4. \A f, g \in PatchExec : (Running(f) /\ Running(g) => pe[f].v = pe[g].v)'
  BY <1>1, SMT DEF PatchInv, Running
<1> QED BY <1>1, <1>2, <1>3, <1>4 DEF PatchInv

(* An execution of a step record stands at its place and its version's     *)
(* record is the step's.                                                   *)
LEMMA StandsAt ==
    ASSUME NEW e \in PatchExec, PatchInv, Running(e)
    PROVE  /\ pe[e] \in PatchExecs /\ Fits(pe[e]) /\ pe[e].seq \in 0 .. 3
           /\ Recorded(e) = names[pe[e].seq]
           /\ pe[e].pc \in {"first", "work", "last"} => Recorded(e) \in {NoName, Op(e)}
<1>1. pe[e] \in PatchExecs /\ Fits(pe[e]) /\ Laid
  BY DEF PatchInv
<1>2. pe[e].v \in 1 .. 3 /\ pe[e].pc \notin {"new", "over"}
  BY <1>1 DEF PatchExecs, Running
<1>3. CASE pe[e].v = 1
  BY <1>1, <1>2, <1>3, PatchAssumption, SMT DEF PatchExecs, Fits, OldFits, Laid, Recorded, Op
<1>4. CASE pe[e].v = 2
  BY <1>1, <1>2, <1>4, PatchAssumption, SMT DEF PatchExecs, Fits, PatchedFits, Laid, Recorded, Op
<1>5. CASE pe[e].v = 3
  BY <1>1, <1>2, <1>5, PatchAssumption, SMT DEF PatchExecs, Fits, NewFits, Laid, Recorded, Op
<1> QED BY <1>2, <1>3, <1>4, <1>5, SMT

LEMMA EndsOne ==
    ASSUME NEW e \in PatchExec, PatchInv, NEW how \in {"crashed", "WorkflowConflict"}, Ends(e, how)
    PROVE  \E r \in PatchExecs : /\ pe' = [pe EXCEPT ![e] = r] /\ r.pc = "over" /\ r.end = how
                                 /\ r.v = pe[e].v
<1>1. pe[e] \in PatchExecs /\ pe \in [PatchExec -> PatchExecs]
  BY DEF PatchInv
<1> DEFINE r == [pe[e] EXCEPT !.pc = "over", !.end = how]
<1>2. pe' = [pe EXCEPT ![e] = r]
  BY <1>1 DEF Ends, PatchExecs
<1>3. r \in PatchExecs /\ r.pc = "over" /\ r.end = how /\ r.v = pe[e].v
  BY <1>1 DEF PatchExecs
<1> QED BY <1>2, <1>3

(* A step of one execution that records nothing.                           *)
LEMMA RecordsNothing ==
    ASSUME NEW e \in PatchExec, PatchInv, Running(e), NEW r \in PatchExecs, pe' = [pe EXCEPT ![e] = r],
           UNCHANGED <<names, deployed>>, Fits(r), r.v = pe[e].v
    PROVE  PatchInv'
<1>1. Laid' /\ Fits(r)' /\ \A f \in PatchExec \ {e} : Fits(pe[f])'
  <2>1. Laid'
    BY DEF PatchInv, Laid
  <2>2. Fits(r)'
    BY DEF Fits, OldFits, PatchedFits, NewFits
  <2>3. ASSUME NEW f \in PatchExec \ {e} PROVE Fits(pe[f])'
    <3>1. pe'[f] = pe[f] /\ Fits(pe[f])
      BY DEF PatchInv
    <3> QED BY <3>1, SMT DEF Fits, OldFits, PatchedFits, NewFits
  <2> QED BY <2>1, <2>2, <2>3
<1>2. deployed' \in 1 .. 3 /\ deployed <= deployed' /\ r.v <= deployed'
  BY SMT DEF PatchInv
<1>3. (names'[1] = "N" => deployed' = 3) /\ (names'[1] = "patch" => deployed' >= 2)
  BY DEF PatchInv
<1>4. \A f \in PatchExec \ {e} : Running(f) => pe[f].v = r.v
  BY DEF PatchInv
<1> QED BY <1>1, <1>2, <1>3, <1>4, OneMoves

LEMMA PatchDeploys == ASSUME PatchInv, Deploy PROVE PatchInv'
<1>1. deployed' \in 1 .. 3 /\ deployed' >= deployed /\ UNCHANGED <<names, pe>>
  BY VersionNames, SMT DEF PatchInv, Deploy
<1>2. Laid' /\ \A e \in PatchExec : Fits(pe[e])'
  <2>1. Laid'
    BY <1>1 DEF PatchInv, Laid
  <2>2. ASSUME NEW e \in PatchExec PROVE Fits(pe[e])'
    <3>1. pe'[e] = pe[e] /\ Fits(pe[e])
      BY <1>1 DEF PatchInv
    <3> QED BY <1>1, <3>1, SMT DEF Fits, OldFits, PatchedFits, NewFits
  <2> QED BY <2>1, <2>2
<1>3. \A e \in PatchExec : pe[e].v <= deployed'
  BY <1>1, SMT DEF PatchInv, PatchExecs
<1>4. \A e, f \in PatchExec : (Running(e) /\ Running(f) => pe[e].v = pe[f].v)'
  BY <1>1 DEF PatchInv, Running
<1>5. (names[1] = "N" => deployed' = 3) /\ (names[1] = "patch" => deployed' >= 2)
  BY <1>1, SMT DEF PatchInv
<1> QED BY <1>1, <1>2, <1>3, <1>4, <1>5 DEF PatchInv

LEMMA PatchBegins ==
    ASSUME PatchInv, Rolling = FALSE, NEW e \in PatchExec, BeginExecution(e)
    PROVE  PatchInv'
<1>1. /\ pe[e].pc = "new" /\ UNCHANGED <<names, deployed>> /\ pe[e] \in PatchExecs
      /\ pe \in [PatchExec -> PatchExecs] /\ Fits(pe[e]) /\ deployed \in 1 .. 3
      /\ \A f \in PatchExec : Running(f) => pe[f].v = deployed
      /\ pe' = [pe EXCEPT ![e].pc = "first", ![e].v = deployed]
  BY DEF BeginExecution, PatchInv
<1>0. PICK r : r = [pe[e] EXCEPT !.pc = "first", !.v = deployed]
  OBVIOUS
<1>2. /\ r \in PatchExecs /\ r.pc = "first" /\ r.v = deployed /\ r.seq = pe[e].seq /\ r.end = pe[e].end
  BY <1>0, <1>1 DEF PatchExecs
<1>3. pe' = [pe EXCEPT ![e] = r]
  BY <1>0, <1>1 DEF PatchExecs
<1>4. deployed = 3 => names[1] # "X"
  <2>1. 1 \in DOMAIN names /\ names[1] \in Range(names)
    BY SMT DEF PatchInv, Laid, Range
  <2> QED BY <1>1, <2>1, VersionNames DEF BeginExecution
<1>5. Fits(r)'
  <2>1. r.seq = 0 /\ r.end # "UnexpectedStep"
    BY <1>1, <1>2 DEF Fits
  <2>2. /\ deployed = 1 => names[1] \in {NoName, "X"}
        /\ deployed = 2 => names[1] # "N"
    BY <1>1, SMT DEF PatchInv, Laid
  <2>3. CASE deployed = 1
    BY <1>1, <1>2, <2>1, <2>2, <2>3, SMT DEF Fits, OldFits
  <2>4. CASE deployed = 2
    BY <1>1, <1>2, <2>1, <2>2, <2>4, SMT DEF Fits, PatchedFits
  <2>5. CASE deployed = 3
    BY <1>1, <1>2, <1>4, <2>1, <2>5, SMT DEF Fits, NewFits
  <2> QED BY <1>1, <2>3, <2>4, <2>5, SMT
<1>6. Laid' /\ \A f \in PatchExec \ {e} : Fits(pe[f])'
  <2>1. Laid'
    BY <1>1 DEF PatchInv, Laid
  <2>2. ASSUME NEW f \in PatchExec \ {e} PROVE Fits(pe[f])'
    <3>1. pe'[f] = pe[f] /\ Fits(pe[f])
      BY <1>3 DEF PatchInv
    <3> QED BY <1>1, <3>1, SMT DEF Fits, OldFits, PatchedFits, NewFits
  <2> QED BY <2>1, <2>2
<1>7. (names'[1] = "N" => deployed' = 3) /\ (names'[1] = "patch" => deployed' >= 2)
  BY <1>1 DEF PatchInv
<1>8. deployed' \in 1 .. 3 /\ deployed <= deployed' /\ r.v <= deployed'
  BY <1>1, <1>2, SMT
<1> QED BY <1>1, <1>2, <1>3, <1>5, <1>6, <1>7, <1>8, OneMoves

LEMMA PatchStops == ASSUME PatchInv, NEW e \in PatchExec, ExecutionStops(e) PROVE PatchInv'
<1>1. PICK r \in PatchExecs : pe' = [pe EXCEPT ![e] = r] /\ r.pc = "over" /\ r.end = "crashed" /\ r.v = pe[e].v
  BY EndsOne DEF ExecutionStops
<1>2. Fits(r)
  BY <1>1 DEF Fits
<1> QED BY <1>1, <1>2, RecordsNothing DEF ExecutionStops

(* The step is served or recorded: the execution goes on at the next       *)
(* position.                                                               *)
LEMMA GoesOn ==
    ASSUME NEW e \in PatchExec, PatchInv, Running(e), pe[e].pc \in {"first", "work", "last"},
           names[pe[e].seq] = Op(e), NEW r \in PatchExecs, r.pc = Beyond(pe[e].pc),
           r.path = pe[e].path, r.seq = pe[e].seq + 1, Unran(r), r.v = pe[e].v,
           r.end = pe[e].end
    PROVE  Fits(r)
<1>1. pe[e] \in PatchExecs /\ Fits(pe[e]) /\ Laid
  BY DEF PatchInv
<1>2. pe[e].v \in 1 .. 3 /\ pe[e].pc \notin {"new", "over"} /\ r.end # "UnexpectedStep" /\ Unran(r)
  BY <1>1 DEF PatchExecs, Fits
<1>3. CASE pe[e].pc = "first"
  <2>1. r.pc = "point" /\ r.seq = 1
    BY <1>1, <1>3, SMT DEF Fits, Beyond
  <2> QED BY <1>1, <1>2, <1>3, <2>1 DEF Fits, OldFits, PatchedFits, NewFits
<1>4. CASE pe[e].pc = "work"
  <2>1. r.pc = "last" /\ names[pe[e].seq] = IF pe[e].path = "new" THEN "N" ELSE "X"
    BY <1>4 DEF Beyond, Op
  <2>2. CASE pe[e].v = 1
    <3>1. pe[e].seq = 1 /\ pe[e].path = "old" /\ OldFits(pe[e])
      BY <1>1, <1>2, <1>4, <2>2 DEF Fits, OldFits
    <3>2. r.seq = 2 /\ names[1] = "X"
      BY <2>1, <3>1, SMT
    <3> QED BY <1>2, <2>1, <2>2, <3>1, <3>2, SMT DEF Fits, OldFits
  <2>3. CASE pe[e].v = 2
    <3>1. PatchedFits(pe[e])
      BY <1>1, <1>2, <2>3 DEF Fits
    <3>2. \/ r.seq = 2 /\ names[1] = "X"
          \/ r.seq = 3 /\ names[1] = "patch" /\ names[2] = "N"
      BY <1>4, <2>1, <3>1, SMT DEF PatchedFits
    <3> QED BY <1>2, <2>1, <2>3, <3>1, <3>2, SMT DEF Fits, PatchedFits
  <2>4. CASE pe[e].v = 3
    <3>1. NewFits(pe[e])
      BY <1>1, <1>2, <2>4 DEF Fits
    <3>2. \/ r.seq = 2 /\ names[1] = "N"
          \/ r.seq = 3 /\ names[1] = "patch" /\ names[2] = "N"
      BY <1>4, <2>1, <3>1, SMT DEF NewFits
    <3> QED BY <1>2, <2>1, <2>4, <3>1, <3>2, SMT DEF Fits, NewFits
  <2> QED BY <1>2, <2>2, <2>3, <2>4, SMT
<1>5. CASE pe[e].pc = "last"
  <2>1. r.pc = "over"
    BY <1>5 DEF Beyond
  <2> QED BY <1>2, <2>1 DEF Fits
<1> QED BY <1>3, <1>4, <1>5

LEMMA PatchServes == ASSUME PatchInv, NEW e \in PatchExec, StepServed(e) PROVE PatchInv'
<1>1. /\ pe[e].pc \in {"first", "work", "last"} /\ Running(e) /\ UNCHANGED <<names, deployed>>
      /\ pe[e] \in PatchExecs /\ pe \in [PatchExec -> PatchExecs] /\ Fits(pe[e])
  BY DEF StepServed, Running, PatchInv
<1>2. CASE Recorded(e) = NoName
  <2>1. pe' = [pe EXCEPT ![e].ran = TRUE]
    BY <1>2 DEF StepServed
  <2>2. PICK r : r = [pe[e] EXCEPT !.ran = TRUE]
    OBVIOUS
  <2>3. r \in PatchExecs /\ pe' = [pe EXCEPT ![e] = r] /\ r.v = pe[e].v
    BY <1>1, <2>1, <2>2 DEF PatchExecs
  <2>4. /\ r.pc = pe[e].pc /\ r.seq = pe[e].seq /\ r.path = pe[e].path /\ r.end = pe[e].end
        /\ r.v = pe[e].v
    BY <1>1, <2>2 DEF PatchExecs
  <2>5. Fits(r)
    BY <1>1, <2>4 DEF Fits, OldFits, PatchedFits, NewFits
  <2> QED BY <1>1, <2>3, <2>5, RecordsNothing
<1>3. CASE Recorded(e) # NoName
  <2>1. Recorded(e) = Op(e) /\ pe[e].seq \in 0 .. 3
    BY <1>1, <1>3, StandsAt
  <2>2. Moves(e, Beyond(pe[e].pc), pe[e].path, 1)
    BY <1>3, <2>1 DEF StepServed
  <2>3. Beyond(pe[e].pc) \in {"first", "point", "mark", "work", "last", "over"}
        /\ pe[e].path \in {"old", "new"} /\ pe[e].seq + 1 <= 4
    BY <1>1, <2>1, SMT DEF Beyond, PatchExecs
  <2>4. PICK r \in PatchExecs :
              /\ pe' = [pe EXCEPT ![e] = r]
              /\ r.pc = Beyond(pe[e].pc) /\ r.path = pe[e].path /\ r.seq = pe[e].seq + 1 /\ Unran(r)
              /\ r.v = pe[e].v /\ r.end = pe[e].end
    <3>1. PICK pc \in {"first", "point", "mark", "work", "last", "over"}, path \in {"old", "new"} :
              pc = Beyond(pe[e].pc) /\ path = pe[e].path
      BY <2>3
    <3>2. PICK n \in 0 .. 4 : n = pe[e].seq + 1
      BY <2>1, SMT
    <3>3. pe' = [pe EXCEPT ![e].pc = pc, ![e].path = path, ![e].seq = n, ![e].ran = FALSE]
      BY <1>1, <2>2, <3>1, <3>2 DEF Moves, PatchExecs
    <3>4. PICK r : r = [pe[e] EXCEPT !.pc = pc, !.path = path, !.seq = n, !.ran = FALSE]
      OBVIOUS
    <3>5. /\ r \in PatchExecs /\ pe' = [pe EXCEPT ![e] = r]
          /\ r.pc = pc /\ r.path = path /\ r.seq = n /\ Unran(r)
          /\ r.v = pe[e].v /\ r.end = pe[e].end
      BY <1>1, <3>3, <3>4 DEF PatchExecs, Unran
    <3> QED BY <3>1, <3>2, <3>5
  <2>5. Fits(r)
    BY <1>1, <2>1, <2>4, GoesOn DEF Recorded
  <2> QED BY <1>1, <2>4, <2>5, RecordsNothing
<1> QED BY <1>2, <1>3

LEMMA PatchPoints ==
    ASSUME PatchInv, NEW e \in PatchExec, NoPatchCall(e) \/ Patch(e) \/ DeprecatePatch(e)
    PROVE  PatchInv'
<1>1. /\ pe[e].pc = "point" /\ Running(e) /\ UNCHANGED <<names, deployed>>
      /\ pe[e] \in PatchExecs /\ pe \in [PatchExec -> PatchExecs] /\ Fits(pe[e]) /\ pe[e].v \in 1 .. 3
      /\ pe[e].seq = 1 /\ Recorded(e) = names[1] /\ Laid /\ Unran(pe[e])
  BY DEF NoPatchCall, Patch, DeprecatePatch, Running, PatchInv, PatchExecs, Fits, Recorded
<1>2. ASSUME Patch(e), names[1] = NoName PROVE PatchInv'
  <2>1. pe' = [pe EXCEPT ![e].pc = "mark"] /\ pe[e].v = 2
    BY <1>1, <1>2, VersionNames DEF Patch
  <2>2. PICK r : r = [pe[e] EXCEPT !.pc = "mark"]
    OBVIOUS
  <2>3. r \in PatchExecs /\ pe' = [pe EXCEPT ![e] = r] /\ r.v = pe[e].v
    BY <1>1, <2>1, <2>2 DEF PatchExecs
  <2>4. r.pc = "mark" /\ r.seq = 1 /\ r.end = pe[e].end /\ r.v = 2 /\ Unran(r)
    BY <1>1, <2>1, <2>2 DEF PatchExecs, Unran
  <2>5. Fits(r)
    <3>1. names[1] # "N" /\ names[1] # "X" /\ r.end # "UnexpectedStep"
      BY <1>1, <1>2, <2>4, PatchAssumption DEF Fits
    <3>2. PatchedFits(r)
      BY <2>4, <3>1 DEF PatchedFits
    <3> QED BY <2>4, <3>1, <3>2, SMT DEF Fits
  <2> QED BY <1>1, <2>3, <2>5, RecordsNothing
<1>3. ASSUME ~(Patch(e) /\ names[1] = NoName) PROVE PatchInv'
  <2>1. PICK path \in {"old", "new"}, n \in 0 .. 1 :
           /\ Moves(e, "work", path, n)
           /\ \/ pe[e].v = 1 /\ path = "old" /\ n = 0
              \/ pe[e].v = 2 /\ path = "old" /\ n = 0 /\ names[1] # "patch" /\ names[1] # NoName
              \/ pe[e].v = 2 /\ path = "new" /\ n = 1 /\ names[1] = "patch"
              \/ pe[e].v = 3 /\ path = "new" /\ n = (IF names[1] = "patch" THEN 1 ELSE 0)
    <3>1. CASE NoPatchCall(e)
      BY <1>1, <3>1, VersionNames, SMT DEF NoPatchCall
    <3>2. CASE Patch(e)
      BY <1>1, <1>3, <3>2, VersionNames, SMT DEF Patch, Marker
    <3>3. CASE DeprecatePatch(e)
      BY <1>1, <3>3, VersionNames, SMT DEF DeprecatePatch, Marker
    <3> QED BY <3>1, <3>2, <3>3
  <2>2. PICK r \in PatchExecs :
              /\ pe' = [pe EXCEPT ![e] = r]
              /\ r.pc = "work" /\ r.path = path /\ r.seq = pe[e].seq + n /\ Unran(r)
              /\ r.v = pe[e].v /\ r.end = pe[e].end
    <3>1. PICK k \in 0 .. 4 : k = pe[e].seq + n
      BY <1>1, SMT
    <3>2. pe' = [pe EXCEPT ![e].pc = "work", ![e].path = path, ![e].seq = k, ![e].ran = FALSE]
      BY <1>1, <2>1, <3>1 DEF Moves, PatchExecs
    <3>3. PICK r : r = [pe[e] EXCEPT !.pc = "work", !.path = path, !.seq = k, !.ran = FALSE]
      OBVIOUS
    <3>4. /\ r \in PatchExecs /\ pe' = [pe EXCEPT ![e] = r]
          /\ r.pc = "work" /\ r.path = path /\ r.seq = k /\ Unran(r)
          /\ r.v = pe[e].v /\ r.end = pe[e].end
      BY <1>1, <3>2, <3>3 DEF PatchExecs, Unran
    <3> QED BY <3>1, <3>4
  <2>3. r.seq = 1 + n /\ r.end # "UnexpectedStep" /\ Unran(r)
    BY <1>1, <2>2 DEF Fits
  <2>4. CASE pe[e].v = 1
    <3>1. OldFits(pe[e])
      BY <1>1, <2>4 DEF Fits
    <3>2. Fits(r)
      BY <1>1, <2>1, <2>2, <2>3, <2>4, <3>1, SMT DEF Fits, OldFits
    <3> QED BY <1>1, <2>2, <3>2, RecordsNothing
  <2>5. CASE pe[e].v = 2
    <3>1. PatchedFits(pe[e])
      BY <1>1, <2>5 DEF Fits
    <3>2. Fits(r)
      BY <1>1, <2>1, <2>2, <2>3, <2>5, <3>1, SMT DEF Fits, PatchedFits, Laid
    <3> QED BY <1>1, <2>2, <3>2, RecordsNothing
  <2>6. CASE pe[e].v = 3
    <3>1. NewFits(pe[e])
      BY <1>1, <2>6 DEF Fits
    <3>2. Fits(r)
      BY <1>1, <2>1, <2>2, <2>3, <2>6, <3>1, SMT DEF Fits, NewFits, Laid
    <3> QED BY <1>1, <2>2, <3>2, RecordsNothing
  <2> QED BY <1>1, <2>4, <2>5, <2>6, SMT
<1> QED BY <1>2, <1>3

(* A record at a position that was free: what the executions of one        *)
(* version stand on is kept.                                               *)
Grows(v) ==
    \/ names'[1] = names[1] /\ (names[2] = NoName \/ names'[2] = names[2])
    \/ /\ names[1] = NoName
       /\ names'[1] = (CASE v = 1 -> "X" [] v = 2 -> "patch" [] v = 3 -> "N")
LEMMA GrowsFits ==
    ASSUME NEW q \in PatchExecs, Fits(q), NEW v \in 1 .. 3, Grows(v),
           q.pc \notin {"new", "over"} => q.v = v
    PROVE  Fits(q)'
<1>0. CASE q.pc \in {"new", "over"}
  BY <1>0 DEF Fits
<1>1. CASE q.pc \notin {"new", "over"} /\ v = 1
  <2>1. OldFits(q) /\ (names'[1] = names[1] \/ (names[1] = NoName /\ names'[1] = "X"))
    BY <1>1, SMT DEF Fits, Grows
  <2>2. OldFits(q)'
    BY <2>1, PatchAssumption DEF OldFits
  <2> QED BY <1>1, <2>2, SMT DEF Fits
<1>2. CASE q.pc \notin {"new", "over"} /\ v = 2
  <2>1. /\ PatchedFits(q)
        /\ \/ names'[1] = names[1] /\ (names[2] = NoName \/ names'[2] = names[2])
           \/ names[1] = NoName /\ names'[1] = "patch"
    BY <1>2, SMT DEF Fits, Grows
  <2>2. PatchedFits(q)'
    BY <2>1, PatchAssumption DEF PatchedFits
  <2> QED BY <1>2, <2>2, SMT DEF Fits
<1>3. CASE q.pc \notin {"new", "over"} /\ v = 3
  <2>1. /\ NewFits(q)
        /\ \/ names'[1] = names[1] /\ (names[2] = NoName \/ names'[2] = names[2])
           \/ names[1] = NoName /\ names'[1] = "N"
    BY <1>3, SMT DEF Fits, Grows
  <2>2. NewFits(q)'
    BY <2>1, PatchAssumption DEF NewFits
  <2> QED BY <1>3, <2>2, SMT DEF Fits
<1> QED BY <1>0, <1>1, <1>2, <1>3, SMT

LEMMA RecordsOne ==
    ASSUME NEW e \in PatchExec, PatchInv, Running(e), NEW r \in PatchExecs, pe' = [pe EXCEPT ![e] = r],
           deployed' = deployed, r.v = pe[e].v, Laid', Fits(r)', Grows(pe[e].v)
    PROVE  PatchInv'
<1>1. pe[e].v \in 1 .. 3 /\ pe[e].v <= deployed /\ deployed \in 1 .. 3
  BY DEF PatchInv, PatchExecs
<1>2. \A f \in PatchExec \ {e} : Running(f) => pe[f].v = r.v
  BY DEF PatchInv
<1>3. ASSUME NEW f \in PatchExec \ {e} PROVE Fits(pe[f])'
  <2>1. PICK q \in PatchExecs : q = pe[f] /\ q = pe'[f] /\ Fits(q) /\ (q.pc \notin {"new", "over"} => q.v = pe[e].v)
    BY <1>2 DEF PatchInv, Running
  <2>2. Fits(q)'
    BY <1>1, <2>1, GrowsFits
  <2> QED BY <2>1, <2>2, SMT DEF Fits, OldFits, PatchedFits, NewFits
<1>4. (names'[1] = "N" => deployed' = 3) /\ (names'[1] = "patch" => deployed' >= 2)
  BY <1>1, PatchAssumption, SMT DEF PatchInv, Grows
<1>5. deployed' \in 1 .. 3 /\ deployed <= deployed' /\ r.v <= deployed'
  BY <1>1, SMT
<1> QED BY <1>2, <1>3, <1>4, <1>5, OneMoves

LEMMA PatchMarks == ASSUME PatchInv, NEW e \in PatchExec, RecordMarker(e) PROVE PatchInv'
<1>1. /\ pe[e].pc = "mark" /\ Running(e) /\ deployed' = deployed
      /\ pe[e] \in PatchExecs /\ pe \in [PatchExec -> PatchExecs] /\ Fits(pe[e]) /\ pe[e].v \in 1 .. 3
      /\ pe[e].seq = 1 /\ Recorded(e) = names[1] /\ Laid
  BY DEF RecordMarker, Running, PatchInv, PatchExecs, Fits, Recorded
<1>2. pe[e].v = 2 /\ PatchedFits(pe[e])
  BY <1>1, SMT DEF Fits, OldFits, NewFits
<1>3. names[1] \in {NoName, "patch"}
  BY <1>1, <1>2 DEF PatchedFits, Laid
<1>4. PICK n \in 0 .. 4 : n = 2
  BY SMT
<1>5. PICK r : r = [pe[e] EXCEPT !.pc = "work", !.path = "new", !.seq = n, !.ran = FALSE]
  OBVIOUS
<1>6. /\ r \in PatchExecs /\ r.pc = "work" /\ r.path = "new" /\ r.seq = 2
      /\ r.v = pe[e].v /\ r.end = pe[e].end
  BY <1>1, <1>4, <1>5 DEF PatchExecs
<1>7. pe' = [pe EXCEPT ![e] = r]
  BY <1>1, <1>4, <1>5, SMT DEF RecordMarker, Moves, PatchExecs
<1>8. names' \in [0 .. 4 -> {NoName, "A", "X", "N", "B", "patch"}]
      /\ names'[1] = "patch" /\ \A i \in {0, 2, 3, 4} : names'[i] = names[i]
  BY <1>1, <1>3, PatchAssumption, SMT DEF RecordMarker, Laid, Marker
<1>9. Laid'
  BY <1>1, <1>3, <1>8, PatchAssumption DEF Laid
<1>10. Fits(r)'
  <2>1. r.end # "UnexpectedStep" /\ r.v = 2
    BY <1>1, <1>2, <1>6 DEF Fits
  <2>2. PatchedFits(r)'
    BY <1>6, <1>8 DEF PatchedFits
  <2> QED BY <1>6, <2>1, <2>2, SMT DEF Fits
<1>11. Grows(pe[e].v)
  BY <1>2, <1>3, <1>8, SMT DEF Grows
<1> QED BY <1>1, <1>6, <1>7, <1>9, <1>10, <1>11, RecordsOne

LEMMA PatchRecords == ASSUME PatchInv, NEW e \in PatchExec, StepRecorded(e) PROVE PatchInv'
<1>1. /\ Running(e) /\ deployed' = deployed /\ ~Unran(pe[e])
      /\ pe[e] \in PatchExecs /\ pe \in [PatchExec -> PatchExecs] /\ Fits(pe[e]) /\ pe[e].v \in 1 .. 3
      /\ Recorded(e) = names[pe[e].seq] /\ Laid /\ pe[e].seq \in 0 .. 3
  BY StandsAt DEF StepRecorded, PatchInv, PatchExecs, Unran
<1>2. pe[e].pc \in {"first", "work", "last"}
  BY <1>1 DEF Fits, Running, PatchExecs
<1>3. CASE Recorded(e) # NoName
  <2>1. Ends(e, "WorkflowConflict") /\ names' = names
    BY <1>3 DEF StepRecorded
  <2>2. PICK r \in PatchExecs : pe' = [pe EXCEPT ![e] = r] /\ r.pc = "over" /\ r.end = "WorkflowConflict" /\ r.v = pe[e].v
    BY <2>1, EndsOne
  <2>3. Fits(r)
    BY <2>2 DEF Fits
  <2> QED BY <1>1, <2>1, <2>2, <2>3, RecordsNothing
<1>4. CASE Recorded(e) = NoName
  <2>1. names' = [names EXCEPT ![pe[e].seq] = Op(e)] /\ Moves(e, Beyond(pe[e].pc), pe[e].path, 1)
    BY <1>4 DEF StepRecorded
  <2>2. PICK n \in 0 .. 4 : n = pe[e].seq + 1
    BY <1>1, SMT
  <2>3. PICK r : r = [pe[e] EXCEPT !.pc = Beyond(pe[e].pc), !.path = pe[e].path, !.seq = n, !.ran = FALSE]
    OBVIOUS
  <2>4. /\ r \in PatchExecs /\ r.pc = Beyond(pe[e].pc) /\ r.path = pe[e].path /\ r.seq = pe[e].seq + 1
        /\ r.v = pe[e].v /\ r.end = pe[e].end /\ Unran(r) /\ r.end # "UnexpectedStep"
    BY <1>1, <1>2, <2>2, <2>3 DEF PatchExecs, Unran, Beyond, Fits
  <2>5. pe' = [pe EXCEPT ![e] = r]
    BY <1>1, <2>1, <2>2, <2>3 DEF Moves, PatchExecs
  <2>6. CASE pe[e].pc = "first"
    <3>1. pe[e].seq = 0 /\ r.seq = 1 /\ r.pc = "point" /\ Op(e) = "A"
      BY <1>1, <2>4, <2>6, SMT DEF Fits, Beyond, Op
    <3>2. names' \in [0 .. 4 -> {NoName, "A", "X", "N", "B", "patch"}]
          /\ names'[0] = "A" /\ \A i \in {1, 2, 3, 4} : names'[i] = names[i]
      BY <1>1, <2>1, <3>1, SMT DEF Laid
    <3>3. Laid'
      BY <1>1, <3>2 DEF Laid
    <3>4. Grows(pe[e].v)
      BY <3>2 DEF Grows
    <3>5. Fits(r)'
      <4>1. Fits(r)
        BY <1>1, <1>2, <2>4, <2>6, <3>1 DEF Fits, OldFits, PatchedFits, NewFits
      <4> QED BY <1>1, <2>4, <3>4, <4>1, GrowsFits
    <3> QED BY <1>1, <2>4, <2>5, <3>3, <3>4, <3>5, RecordsOne
  <2>7. CASE pe[e].pc = "last"
    <3>1. r.pc = "over" /\ Op(e) = "B"
      BY <2>4, <2>7 DEF Beyond, Op
    <3>2. \/ pe[e].seq = 2 /\ names[1] \in {"X", "N"}
          \/ pe[e].seq = 3 /\ names[1] = "patch" /\ names[2] = "N"
      BY <1>1, <2>7, SMT DEF Fits, OldFits, PatchedFits, NewFits
    <3>3. PICK k \in {2, 3} : k = pe[e].seq /\ names[k] = NoName
      BY <1>1, <1>4, <3>2
    <3>4. names' \in [0 .. 4 -> {NoName, "A", "X", "N", "B", "patch"}]
          /\ names'[k] = "B" /\ \A i \in (0 .. 4) \ {k} : names'[i] = names[i]
      BY <1>1, <2>1, <3>1, <3>3, SMT DEF Laid
    <3>5. Laid'
      <4>1. CASE k = 2
        BY <1>1, <3>2, <3>3, <3>4, <4>1, PatchAssumption, SMT DEF Laid
      <4>2. CASE k = 3
        BY <1>1, <3>2, <3>3, <3>4, <4>2, PatchAssumption, SMT DEF Laid
      <4> QED BY <4>1, <4>2
    <3>6. Grows(pe[e].v)
      BY <3>3, <3>4, SMT DEF Grows
    <3>7. Fits(r)'
      BY <2>4, <3>1 DEF Fits
    <3> QED BY <1>1, <2>4, <2>5, <3>5, <3>6, <3>7, RecordsOne
  <2>8. CASE pe[e].pc = "work"
    <3>1. r.pc = "last" /\ Op(e) = (IF pe[e].path = "new" THEN "N" ELSE "X")
      BY <2>4, <2>8 DEF Beyond, Op
    <3>2. \/ pe[e].seq = 2 /\ names[1] = "patch" /\ pe[e].path = "new" /\ pe[e].v \in {2, 3}
          \/ pe[e].seq = 1 /\ pe[e].path = "old" /\ pe[e].v = 1
          \/ pe[e].seq = 1 /\ pe[e].path = "new" /\ pe[e].v = 3
      <4>0. pe[e].seq = 1 => names[1] = NoName
        BY <1>1, <1>4
      <4>1. CASE pe[e].v = 1
        BY <1>1, <2>8, <4>1 DEF Fits, OldFits
      <4>2. CASE pe[e].v = 2
        <5>1. PatchedFits(pe[e])
          BY <1>1, <2>8, <4>2 DEF Fits
        <5> QED BY <2>8, <4>0, <4>2, <5>1, PatchAssumption DEF PatchedFits
      <4>3. CASE pe[e].v = 3
        <5>1. NewFits(pe[e])
          BY <1>1, <2>8, <4>3 DEF Fits
        <5> QED BY <2>8, <4>0, <4>3, <5>1, PatchAssumption DEF NewFits
      <4> QED BY <1>1, <4>1, <4>2, <4>3, SMT
    <3>3. CASE pe[e].seq = 2 /\ names[1] = "patch" /\ pe[e].path = "new" /\ pe[e].v \in {2, 3}
      <4>1. names' \in [0 .. 4 -> {NoName, "A", "X", "N", "B", "patch"}]
            /\ names'[2] = "N" /\ \A i \in {0, 1, 3, 4} : names'[i] = names[i]
        BY <1>1, <2>1, <3>1, <3>3, SMT DEF Laid
      <4>2. names[2] = NoName
        BY <1>1, <1>4, <3>3
      <4>3. Laid'
        BY <1>1, <3>3, <4>1, <4>2, PatchAssumption DEF Laid
      <4>4. Grows(pe[e].v)
        BY <4>1, <4>2 DEF Grows
      <4>5. Fits(r)'
        <5>1. r.seq = 3 /\ names'[1] = "patch" /\ r.v \in {2, 3}
          BY <2>4, <3>3, <4>1, SMT
        <5>2. PatchedFits(r)' /\ NewFits(r)'
          BY <3>1, <4>1, <5>1 DEF PatchedFits, NewFits
        <5> QED BY <2>4, <3>1, <5>1, <5>2, SMT DEF Fits
      <4> QED BY <1>1, <2>4, <2>5, <4>3, <4>4, <4>5, RecordsOne
    <3>4. CASE pe[e].seq = 1 /\ pe[e].path = "old" /\ pe[e].v = 1
      <4>1. names' \in [0 .. 4 -> {NoName, "A", "X", "N", "B", "patch"}]
            /\ names'[1] = "X" /\ \A i \in {0, 2, 3, 4} : names'[i] = names[i]
        BY <1>1, <2>1, <3>1, <3>4, SMT DEF Laid
      <4>2. names[1] = NoName
        BY <1>1, <1>4, <3>4
      <4>3. Laid'
        BY <1>1, <4>1, <4>2, PatchAssumption DEF Laid
      <4>4. Grows(pe[e].v)
        BY <3>4, <4>1, <4>2 DEF Grows
      <4>5. Fits(r)'
        <5>1. r.seq = 2 /\ r.path = "old" /\ r.v = 1
          BY <2>4, <3>4, SMT
        <5>2. OldFits(r)'
          BY <3>1, <4>1, <5>1 DEF OldFits
        <5> QED BY <2>4, <3>1, <5>1, <5>2, SMT DEF Fits
      <4> QED BY <1>1, <2>4, <2>5, <4>3, <4>4, <4>5, RecordsOne
    <3>5. CASE pe[e].seq = 1 /\ pe[e].path = "new" /\ pe[e].v = 3
      <4>1. names' \in [0 .. 4 -> {NoName, "A", "X", "N", "B", "patch"}]
            /\ names'[1] = "N" /\ \A i \in {0, 2, 3, 4} : names'[i] = names[i]
        BY <1>1, <2>1, <3>1, <3>5, SMT DEF Laid
      <4>2. names[1] = NoName
        BY <1>1, <1>4, <3>5
      <4>3. Laid'
        BY <1>1, <4>1, <4>2, PatchAssumption DEF Laid
      <4>4. Grows(pe[e].v)
        BY <3>5, <4>1, <4>2, SMT DEF Grows
      <4>5. Fits(r)'
        <5>1. r.seq = 2 /\ r.v = 3
          BY <2>4, <3>5, SMT
        <5>2. NewFits(r)'
          BY <3>1, <4>1, <5>1 DEF NewFits
        <5> QED BY <2>4, <3>1, <5>1, <5>2, SMT DEF Fits
      <4> QED BY <1>1, <2>4, <2>5, <4>3, <4>4, <4>5, RecordsOne
    <3> QED BY <3>2, <3>3, <3>4, <3>5
  <2> QED BY <1>2, <2>6, <2>7, <2>8
<1> QED BY <1>3, <1>4

(* Executions of one version at a time, each version of the code in turn:  *)
(* no execution meets another operation's record at its position, and the  *)
(* run has the steps of one path only.                                     *)
THEOREM PatchedRunsStayAligned == Rolling = FALSE /\ PatchSpec => []PatchKeepsAligned
<1> SUFFICES ASSUME Rolling = FALSE PROVE PatchSpec => []PatchKeepsAligned
  OBVIOUS
<1>1. ASSUME PatchInv, [PatchNext]_patchVars PROVE PatchInv'
  <2>1. CASE UNCHANGED patchVars
    <3>1. UNCHANGED <<names, deployed, pe>>
      BY <2>1 DEF patchVars
    <3>2. Laid'
      BY <1>1, <3>1 DEF PatchInv, Laid
    <3>3. ASSUME NEW e \in PatchExec PROVE Fits(pe[e])'
      BY <1>1, <3>1 DEF PatchInv, Fits, OldFits, PatchedFits, NewFits
    <3> QED BY <1>1, <3>1, <3>2, <3>3 DEF PatchInv, Running
  <2> QED BY <1>1, <2>1, PatchDeploys, PatchBegins, PatchStops, PatchServes, PatchRecords, PatchPoints,
             PatchMarks DEF PatchNext
<1>2. PatchInv => PatchKeepsAligned
  <2> SUFFICES ASSUME PatchInv PROVE PatchKeepsAligned
    OBVIOUS
  <2>1. \A e \in PatchExec : pe[e].end # "UnexpectedStep"
    BY DEF PatchInv, Fits
  <2>2. Range(names) = {names[0], names[1], names[2], names[3], names[4]}
    BY SMT DEF PatchInv, Laid, Range
  <2>3. ~("X" \in Range(names) /\ "N" \in Range(names))
    BY <2>2, PatchAssumption DEF PatchInv, Laid
  <2> QED BY <2>1, <2>3 DEF PatchKeepsAligned
<1> QED BY <1>1, <1>2, PatchStarts, PTL DEF PatchSpec
=============================================================================

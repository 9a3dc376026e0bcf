----------------------------- MODULE FaultProofs ------------------------------
(***************************************************************************)
(* Proofs about Fault for any number of tasks, any causes and permissions, *)
(* as long as user programs leave the vmalloc area alone.                  *)
(*                                                                         *)
(* The lock's count follows from where the tasks are: a writer excludes    *)
(* every reader, a writer does not wait for the lock it holds, and a task  *)
(* comes back without the lock from handle_mm_fault only if it may try     *)
(* again or is killed.  What a fault ends in follows from what the map has *)
(* refused since it began.                                                 *)
(***************************************************************************)
EXTENDS Fault, FiniteSetTheorems, TLAPS

Types ==
  /\ vma \in [place : Places, perms : Perms]
  /\ sem \in Int /\ writer \in SUBSET Tasks
  /\ stage \in [Tasks -> Stages]
  /\ access \in [Tasks -> [ctx : Contexts, area : Areas, cause : Causes] \cup {NoAccess}]
  /\ allow \in [Tasks -> BOOLEAN]
  /\ code \in [Tasks -> {"SEGV_MAPERR", "SEGV_ACCERR"}]
  /\ sig \in [Tasks -> {"none", "SEGV_MAPERR", "SEGV_ACCERR", "BUS_ADRERR"}]
  /\ seen \in [Tasks -> SUBSET {"unmapped", "protected"}]

Readers == {t \in Tasks : stage[t] \in Holding}

SemInv ==
  \/ writer = {} /\ sem = Cardinality(Readers)
  \/ \E w \in Tasks : writer = {w} /\ sem = -1 /\ Readers = {}

(* Who may be where. *)
Waiting == {"retry", "retried"} \cup (Holding \ {"bug"})

StageOf(u) ==
  /\ stage[u] = "write" => u \in writer
  /\ stage[u] \in {"run"} \cup Waiting \cup {"bug"} => u \notin writer
  /\ stage[u] \notin Resting =>
       /\ access[u] # NoAccess
       /\ access[u].area = "vmalloc" <=> access[u].ctx = "kernel"
  /\ stage[u] \in Waiting => access[u].area = "user"
  /\ stage[u] = "entry" /\ u \in writer => access[u].ctx \in {"atomic", "kernel"}
  /\ stage[u] = "retried" => allow[u] \/ u \in fatal

StageInv == \A u \in Tasks : StageOf(u)

(* What a task has seen of the map's refusals. *)
SeenOf(u) ==
  /\ stage[u] \notin Resting => Refusals(access[u], vma, master) \subseteq seen[u]
  /\ stage[u] = "bad_area" =>
       seen[u] # {} /\ (code[u] = "SEGV_MAPERR" => "unmapped" \in seen[u])
  /\ stage[u] = "no_context" /\ access[u].ctx = "kernel" => seen[u] # {}

SeenInv == \A u \in Tasks : SeenOf(u)

IInv == Types /\ SemInv /\ StageInv /\ SeenInv

-----------------------------------------------------------------------------
(* One task moves: what becomes of the number of readers. *)
LEMMA Moves ==
  ASSUME stage \in [Tasks -> Stages], NEW t \in Tasks, NEW s,
         stage' = [stage EXCEPT ![t] = s]
  PROVE  /\ Cardinality(Readers) \in Nat
         /\ (stage[t] \in Holding <=> s \in Holding) => Readers' = Readers
         /\ stage[t] \notin Holding /\ s \in Holding =>
              Cardinality(Readers') = Cardinality(Readers) + 1
         /\ stage[t] \in Holding => Readers # {}
         /\ stage[t] \in Holding /\ s \notin Holding =>
              Cardinality(Readers') = Cardinality(Readers) - 1
  <1>1. IsFiniteSet(Readers)
    BY FS_Subset, TasksAssumption DEF Readers
  <1>2. Cardinality(Readers) \in Nat
    BY <1>1, FS_CardinalityType
  <1>3. (stage[t] \in Holding <=> s \in Holding) => Readers' = Readers
    BY DEF Readers
  <1>4. ASSUME stage[t] \notin Holding, s \in Holding
        PROVE  Cardinality(Readers') = Cardinality(Readers) + 1
    <2>1. Readers' = Readers \cup {t} /\ t \notin Readers
      BY <1>4 DEF Readers
    <2> QED BY <2>1, <1>1, FS_AddElement
  <1>5. ASSUME stage[t] \in Holding, s \notin Holding
        PROVE  Cardinality(Readers') = Cardinality(Readers) - 1
    <2>1. Readers' = Readers \ {t} /\ t \in Readers
      BY <1>5 DEF Readers
    <2> QED BY <2>1, <1>1, FS_RemoveElement
  <1>6. stage[t] \in Holding => Readers # {}
    BY DEF Readers
  <1> QED BY <1>2, <1>3, <1>4, <1>5, <1>6

LEMMA InitIInv == Init => IInv
  <1> SUFFICES ASSUME Init PROVE IInv
    OBVIOUS
  <1>1. Types
    BY DEF Init, Types, Stages, Resting
  <1>2. Readers = {}
    BY DEF Init, Readers, Holding
  <1>3. SemInv
    BY <1>2, FS_EmptySet DEF Init, SemInv
  <1>4. StageInv
    BY DEF Init, StageInv, StageOf, Waiting, Holding, Resting
  <1>5. SeenInv
    BY DEF Init, SeenInv, SeenOf, Resting
  <1> QED BY <1>1, <1>3, <1>4, <1>5 DEF IInv

(* Every step, of any task. *)
LEMMA ReturnTypes ==
  ASSUME Types, NEW t \in Tasks, NEW i \in {"none", "SEGV_MAPERR", "SEGV_ACCERR", "BUS_ADRERR"},
         Return(t, i)
  PROVE  /\ stage' \in [Tasks -> Stages]
         /\ access' \in [Tasks -> [ctx : Contexts, area : Areas, cause : Causes] \cup {NoAccess}]
         /\ allow' \in [Tasks -> BOOLEAN]
         /\ code' \in [Tasks -> {"SEGV_MAPERR", "SEGV_ACCERR"}]
         /\ sig' \in [Tasks -> {"none", "SEGV_MAPERR", "SEGV_ACCERR", "BUS_ADRERR"}]
         /\ seen' \in [Tasks -> SUBSET {"unmapped", "protected"}]
  <1>1. stage' \in [Tasks -> Stages]
        /\ sig' \in [Tasks -> {"none", "SEGV_MAPERR", "SEGV_ACCERR", "BUS_ADRERR"}]
    BY DEF Types, Return, Go, Stages, Resting
  <1>2. access' \in [Tasks -> [ctx : Contexts, area : Areas,
  cause : Causes] \cup {NoAccess}]
    BY DEF Types, Return, Leave
  <1>3. allow' \in [Tasks -> BOOLEAN] /\ code' \in [Tasks -> {"SEGV_MAPERR", "SEGV_ACCERR"}]
        /\ seen' \in [Tasks -> SUBSET {"unmapped", "protected"}]
    BY DEF Types, Return, Leave
  <1> QED BY <1>1, <1>2, <1>3

LEMMA StepTypes == Types /\ [Next]_vars => Types'
  <1> SUFFICES ASSUME Types, [Next]_vars PROVE Types'
    OBVIOUS
  <1>1. CASE UNCHANGED vars
    BY <1>1 DEF Types, Stages, Resting, vars, mapVars, taskVars, localVars
  <1>2. ASSUME NEW t \in Tasks, do_page_fault(t) PROVE Types'
    BY <1>2 DEF Types, Stages, Resting, do_page_fault, Checks, user_mode, Go,
       mapVars, localVars
  <1>3. ASSUME NEW t \in Tasks, vmalloc_fault(t) PROVE Types'
    BY <1>3 DEF Types, Stages, Resting, vmalloc_fault, user_mode, Return, Leave,
       Go, mapVars, localVars
  <1>4. ASSUME NEW t \in Tasks, find_vma(t) PROVE Types'
    <2>1. vma' \in [place : Places, perms : Perms]
      BY <1>4 DEF find_vma, Types, Places
    <2> QED BY <1>4, <2>1 DEF Types, Stages, Resting, find_vma, Go
  <1>5. ASSUME NEW t \in Tasks, handle_mm_fault(t) PROVE Types'
    BY <1>5 DEF Types, Stages, Resting, handle_mm_fault, Go, mapVars, localVars
  <1>6. ASSUME NEW t \in Tasks, retried(t) PROVE Types'
    BY <1>6 DEF Types, Stages, Resting, retried, Return, Leave, Go, mapVars,
       localVars
  <1>7. ASSUME NEW t \in Tasks, release(t) PROVE Types'
    <2>1. sem' \in Int /\ UNCHANGED <<vma, writer>> /\ Return(t, "none")
      BY <1>7 DEF Types, release, up_read, mapVars
    <2> QED BY <2>1, ReturnTypes DEF Types
  <1>8. ASSUME NEW t \in Tasks, bad_area(t) PROVE Types'
    <2>1. sem' \in Int /\ UNCHANGED <<vma, writer>>
      BY <1>8 DEF Types, bad_area, up_read, mapVars
    <2>2. CASE Return(t, code[t])
      <3>1. code[t] \in {"none", "SEGV_MAPERR", "SEGV_ACCERR", "BUS_ADRERR"}
        BY DEF Types
      <3> QED BY <2>1, <2>2, <3>1, ReturnTypes DEF Types
    <2>3. CASE Go(t, "no_context") /\ UNCHANGED <<localVars, sig>>
      BY <2>1, <2>3 DEF Types, Go, Stages, localVars
    <2> QED BY <1>8, <2>2, <2>3 DEF bad_area
  <1>9. ASSUME NEW t \in Tasks, out_of_memory(t) PROVE Types'
    <2>1. sem' \in Int /\ UNCHANGED <<vma, writer>>
      BY <1>9 DEF Types, out_of_memory, up_read, mapVars
    <2>2. CASE Return(t, "none")
      <3>1. "none" \in {"none", "SEGV_MAPERR", "SEGV_ACCERR", "BUS_ADRERR"}
        BY DEF Types
      <3> QED BY <2>1, <2>2, <3>1, ReturnTypes DEF Types
    <2>3. CASE Go(t, "no_context") /\ UNCHANGED <<localVars, sig>>
      BY <2>1, <2>3 DEF Types, Go, Stages, localVars
    <2> QED BY <1>9, <2>2, <2>3 DEF out_of_memory
  <1>10. ASSUME NEW t \in Tasks, do_sigbus(t) PROVE Types'
    <2>1. sem' \in Int /\ UNCHANGED <<vma, writer>>
      BY <1>10 DEF Types, do_sigbus, up_read, mapVars
    <2>2. CASE Return(t, "BUS_ADRERR")
      <3>1. "BUS_ADRERR" \in {"none", "SEGV_MAPERR", "SEGV_ACCERR", "BUS_ADRERR"}
        BY DEF Types
      <3> QED BY <2>1, <2>2, <3>1, ReturnTypes DEF Types
    <2>3. CASE Go(t, "no_context") /\ UNCHANGED <<localVars, sig>>
      BY <2>1, <2>3 DEF Types, Go, Stages, localVars
    <2> QED BY <1>10, <2>2, <2>3 DEF do_sigbus
  <1>11. ASSUME NEW t \in Tasks, no_context(t) PROVE Types'
    BY <1>11 DEF Types, Stages, Resting, no_context, Return, Leave, Go, mapVars,
       localVars
  <1>12. ASSUME NEW t \in Tasks, down_read(t) PROVE Types'
    BY <1>12 DEF Types, Stages, Resting, down_read, Go, mapVars, localVars
  <1>13. ASSUME NEW t \in Tasks, DownWrite(t) PROVE Types'
    BY <1>13 DEF Types, Stages, Resting, DownWrite, Go, localVars
  <1>14. ASSUME NEW t \in Tasks, ChangeMap(t) PROVE Types'
    BY <1>14 DEF Types, ChangeMap, Witness, Refusals
  <1>15. ASSUME NEW t \in Tasks, UpWrite(t) PROVE Types'
    BY <1>15 DEF Types, Stages, Resting, UpWrite, Go, localVars
  <1>16. ASSUME NEW t \in Tasks, SendFatalSignal(t) PROVE Types'
    BY <1>16 DEF Types, Stages, Resting, SendFatalSignal, mapVars, taskVars,
       localVars
  <1>17. ASSUME NEW t \in Tasks, NEW a \in Accesses, NEW cause \in Causes,
                Trap(t, a[1], a[2], cause)
         PROVE  Types'
    <2> DEFINE acc == [ctx |-> a[1], area |-> a[2], cause |-> cause]
    <2>1. acc \in [ctx : Contexts, area : Areas, cause : Causes]
      BY DEF Accesses, Contexts, Areas
    <2>2. /\ access' = [access EXCEPT ![t] = acc]
          /\ seen' = [seen EXCEPT ![t] = Refusals(acc, vma, master)]
      BY <1>17 DEF Trap
    <2>3. Refusals(acc, vma, master) \subseteq {"unmapped", "protected"}
      BY DEF Refusals
    <2> HIDE DEF acc
    <2> QED BY <1>17, <2>1, <2>2, <2>3 DEF Types, Stages, Resting, Trap, Go, mapVars
  <1>18. CASE VmallocOrVfree
    BY <1>18 DEF Types, VmallocOrVfree, Witness, Refusals
  <1> QED
    BY <1>1, <1>2, <1>3, <1>4, <1>5, <1>6, <1>7, <1>8, <1>9,
       <1>10, <1>11, <1>12, <1>13, <1>14, <1>15, <1>16, <1>17, <1>18 DEF Next,
       Handler

(* The lock's count. *)
LEMMA StepSemInv == Types /\ SemInv /\ StageInv /\ [Next]_vars => SemInv'
  <1> SUFFICES ASSUME Types /\ SemInv /\ StageInv, [Next]_vars PROVE SemInv'
    OBVIOUS
  <1>1. CASE UNCHANGED vars
    BY <1>1 DEF SemInv, Readers, vars, mapVars, taskVars, localVars
  <1>2. ASSUME NEW t \in Tasks, do_page_fault(t) PROVE SemInv'
    <2>1. access[t].area # "vmalloc" /\ stage[t] = "entry"
      BY <1>2 DEF do_page_fault, user_mode, StageInv, StageOf, Resting
    <2>2. Readers' = Readers /\ sem' = sem /\ writer' = writer
      BY <1>2, <2>1 DEF do_page_fault, Checks, user_mode, Go, mapVars, localVars,
         Types, Readers, Holding
    <2> QED BY <2>2 DEF SemInv
  <1>3. ASSUME NEW t \in Tasks, vmalloc_fault(t) PROVE SemInv'
    <2>1. Readers' = Readers /\ sem' = sem /\ writer' = writer
      BY <1>3 DEF vmalloc_fault, user_mode, Return, Leave, Go, mapVars, localVars,
         Types, Readers, Holding
    <2> QED BY <2>1 DEF SemInv
  <1>4. ASSUME NEW t \in Tasks, find_vma(t) PROVE SemInv'
    <2>1. Readers' = Readers /\ sem' = sem /\ writer' = writer
      BY <1>4 DEF find_vma, Go, Types, Readers, Holding
    <2> QED BY <2>1 DEF SemInv
  <1>5. ASSUME NEW t \in Tasks, handle_mm_fault(t) PROVE SemInv'
    <2>1. CASE sem' = sem - 1 /\ stage' = [stage EXCEPT ![t] = "retried"]
      <3>1. stage[t] \in Holding /\ "retried" \notin Holding /\ writer' = writer
        BY <1>5 DEF handle_mm_fault, Go, mapVars, localVars, Holding
      <3> QED BY <2>1, <3>1, Moves DEF SemInv, Types
    <2>2. CASE sem' = sem /\ Readers' = Readers
      BY <1>5, <2>2 DEF SemInv, handle_mm_fault, mapVars
    <2>3. \/ sem' = sem - 1 /\ stage' = [stage EXCEPT ![t] = "retried"]
          \/ sem' = sem /\ Readers' = Readers
      BY <1>5 DEF handle_mm_fault, Go, mapVars, localVars, Holding, Readers, Types
    <2> QED BY <2>1, <2>2, <2>3
  <1>6. ASSUME NEW t \in Tasks, retried(t) PROVE SemInv'
    <2>1. Readers' = Readers /\ sem' = sem /\ writer' = writer
      BY <1>6 DEF retried, Return, Leave, Go, mapVars, localVars, Types, Readers,
         Holding, StageInv, StageOf
    <2> QED BY <2>1 DEF SemInv
  <1>7. ASSUME NEW t \in Tasks, release(t) PROVE SemInv'
    <2>1. PICK s \in {"run", "write",
    "no_context"} : stage' = [stage EXCEPT ![t] = s]
      BY <1>7 DEF release, up_read, Return, Leave, Go, mapVars
    <2>2. stage[t] \in Holding /\ sem' = sem - 1 /\ writer' = writer
      BY <1>7 DEF release, up_read, Return, Leave, Go, mapVars, Holding
    <2>3. s \notin Holding
      BY DEF Holding
    <2> QED BY <2>1, <2>2, <2>3, Moves DEF SemInv, Types
  <1>8. ASSUME NEW t \in Tasks, bad_area(t) PROVE SemInv'
    <2>1. PICK s \in {"run", "write",
    "no_context"} : stage' = [stage EXCEPT ![t] = s]
      BY <1>8 DEF bad_area, up_read, user_mode, Return, Leave, Go, mapVars,
         localVars
    <2>2. stage[t] \in Holding /\ sem' = sem - 1 /\ writer' = writer
      BY <1>8 DEF bad_area, up_read, user_mode, Return, Leave, Go, mapVars,
         localVars, Holding
    <2>3. s \notin Holding
      BY DEF Holding
    <2> QED BY <2>1, <2>2, <2>3, Moves DEF SemInv, Types
  <1>9. ASSUME NEW t \in Tasks, out_of_memory(t) PROVE SemInv'
    <2>1. PICK s \in {"run", "write",
    "no_context"} : stage' = [stage EXCEPT ![t] = s]
      BY <1>9 DEF out_of_memory, up_read, user_mode, Return, Leave, Go, mapVars,
         localVars
    <2>2. stage[t] \in Holding /\ sem' = sem - 1 /\ writer' = writer
      BY <1>9 DEF out_of_memory, up_read, user_mode, Return, Leave, Go, mapVars,
         localVars, Holding
    <2>3. s \notin Holding
      BY DEF Holding
    <2> QED BY <2>1, <2>2, <2>3, Moves DEF SemInv, Types
  <1>10. ASSUME NEW t \in Tasks, do_sigbus(t) PROVE SemInv'
    <2>1. PICK s \in {"run", "write",
    "no_context"} : stage' = [stage EXCEPT ![t] = s]
      BY <1>10 DEF do_sigbus, up_read, user_mode, Return, Leave, Go, mapVars,
         localVars
    <2>2. stage[t] \in Holding /\ sem' = sem - 1 /\ writer' = writer
      BY <1>10 DEF do_sigbus, up_read, user_mode, Return, Leave, Go, mapVars,
         localVars, Holding
    <2>3. s \notin Holding
      BY DEF Holding
    <2> QED BY <2>1, <2>2, <2>3, Moves DEF SemInv, Types
  <1>11. ASSUME NEW t \in Tasks, no_context(t) PROVE SemInv'
    <2>1. Readers' = Readers /\ sem' = sem /\ writer' = writer
      BY <1>11 DEF no_context, Return, Leave, Go, mapVars, localVars, Types,
         Readers, Holding
    <2> QED BY <2>1 DEF SemInv
  <1>12. ASSUME NEW t \in Tasks, down_read(t) PROVE SemInv'
    <2>1. /\ stage' = [stage EXCEPT ![t] = "find_vma"] /\ stage[t] \notin Holding
          /\ "find_vma" \in Holding /\ sem >= 0 /\ sem' = sem + 1 /\ writer' = writer
      BY <1>12 DEF down_read, Go, mapVars, localVars, Holding
    <2>2. writer = {} /\ sem = Cardinality(Readers)
      BY <2>1 DEF SemInv
    <2>3. Cardinality(Readers') = Cardinality(Readers) + 1
      BY <2>1, Moves DEF Types
    <2> QED BY <2>1, <2>2, <2>3 DEF SemInv
  <1>13. ASSUME NEW t \in Tasks, DownWrite(t) PROVE SemInv'
    <2>1. Readers' = Readers /\ sem = 0 /\ sem' = -1 /\ writer' = {t}
      BY <1>13 DEF DownWrite, Go, localVars, Types, Readers, Holding
    <2>2. Readers = {}
      <3>1. IsFiniteSet(Readers)
        BY FS_Subset, TasksAssumption DEF Readers
      <3> QED BY <2>1, <3>1, FS_EmptySet DEF SemInv
    <2> QED BY <2>1, <2>2 DEF SemInv
  <1>14. ASSUME NEW t \in Tasks, ChangeMap(t) PROVE SemInv'
    <2>1. Readers' = Readers /\ sem' = sem /\ writer' = writer
      BY <1>14 DEF ChangeMap, Witness, Types, Readers, Holding
    <2> QED BY <2>1 DEF SemInv
  <1>15. ASSUME NEW t \in Tasks, UpWrite(t) PROVE SemInv'
    <2>1. Readers' = Readers /\ sem' = sem + 1 /\ writer' = writer \ {t} /\ t \in writer
      BY <1>15 DEF UpWrite, Go, localVars, Types, Readers, Holding, StageInv,
         StageOf
    <2> QED BY <2>1, FS_EmptySet DEF SemInv
  <1>16. ASSUME NEW t \in Tasks, SendFatalSignal(t) PROVE SemInv'
    <2>1. Readers' = Readers /\ sem' = sem /\ writer' = writer
      BY <1>16 DEF SendFatalSignal, mapVars, taskVars, localVars, Types, Readers,
         Holding
    <2> QED BY <2>1 DEF SemInv
  <1>17. ASSUME NEW t \in Tasks, NEW a \in Accesses, NEW cause \in Causes,
                Trap(t, a[1], a[2], cause)
         PROVE  SemInv'
    <2>1. Readers' = Readers /\ sem' = sem /\ writer' = writer
      BY <1>17 DEF Trap, Go, mapVars, Types, Readers, Holding
    <2> QED BY <2>1 DEF SemInv
  <1>18. CASE VmallocOrVfree
    <2>1. Readers' = Readers /\ sem' = sem /\ writer' = writer
      BY <1>18 DEF VmallocOrVfree, Witness, Types, Readers, Holding
    <2> QED BY <2>1 DEF SemInv
  <1> QED
    BY <1>1, <1>2, <1>3, <1>4, <1>5, <1>6, <1>7, <1>8, <1>9,
       <1>10, <1>11, <1>12, <1>13, <1>14, <1>15, <1>16, <1>17, <1>18 DEF Next,
       Handler

(* Who may be where. *)
LEMMA StepStageInv ==
  ASSUME VmallocFromUser = FALSE
  PROVE  Types /\ SemInv /\ StageInv /\ [Next]_vars => StageInv'
  <1> SUFFICES ASSUME Types /\ SemInv /\ StageInv, [Next]_vars PROVE StageInv'
    OBVIOUS
  <1>1. CASE UNCHANGED vars
    BY <1>1 DEF Types, StageInv, StageOf, Waiting, Holding, Resting, vars, mapVars,
       taskVars, localVars
  <1>2. ASSUME NEW t \in Tasks, do_page_fault(t) PROVE StageInv'
    <2>1. /\ stage[t] = "entry" /\ access[t].area # "vmalloc"
          /\ access[t] \in [ctx : Contexts, area : Areas, cause : Causes]
          /\ access[t] # NoAccess /\ access[t].ctx # "kernel"
      BY <1>2 DEF do_page_fault, user_mode, Types, StageInv, StageOf, Resting
    <2>2. PICK s : /\ stage' = [stage EXCEPT ![t] = s]
                   /\ \/ s = "no_context"
                      \/ s = "retry" /\ access[t].ctx # "atomic"
      BY <1>2, <2>1 DEF do_page_fault, Checks, Go
    <2>3. UNCHANGED <<writer, fatal, allow, access>>
      BY <1>2 DEF do_page_fault, mapVars, localVars
    <2>4. ASSUME NEW u \in Tasks, u # t PROVE StageOf(u)'
      BY <2>2, <2>3, <2>4 DEF Types, StageInv, StageOf
    <2>5. access[t].area = "user"
      BY <2>1 DEF Areas
    <2>6. t \in writer => access[t].ctx = "atomic"
      BY <2>1 DEF StageInv, StageOf
    <2>7. StageOf(t)'
      BY <2>1, <2>2, <2>3, <2>5, <2>6 DEF Types, StageOf, Waiting, Holding
    <2> QED BY <2>4, <2>7 DEF StageInv
  <1>3. ASSUME NEW t \in Tasks, vmalloc_fault(t) PROVE StageInv'
    <2>1. ASSUME NEW u \in Tasks, u # t PROVE StageOf(u)'
      BY <1>3, <2>1 DEF Types, StageInv, StageOf, Waiting, Holding, Resting,
         NoAccess, vmalloc_fault, user_mode, Return, Leave, Go, mapVars, localVars
    <2>2. StageOf(t)'
      BY <1>3 DEF Types, StageInv, StageOf, Waiting, Holding, Resting, NoAccess,
         vmalloc_fault, user_mode, Return, Leave, Go, mapVars, localVars
    <2> QED BY <2>1, <2>2 DEF StageInv
  <1>4. ASSUME NEW t \in Tasks, find_vma(t) PROVE StageInv'
    <2>1. ASSUME NEW u \in Tasks, u # t PROVE StageOf(u)'
      BY <1>4, <2>1 DEF Types, StageInv, StageOf, Waiting, Holding, Resting,
         NoAccess, find_vma, Go
    <2>2. StageOf(t)'
      BY <1>4 DEF Types, StageInv, StageOf, Waiting, Holding, Resting, NoAccess,
         find_vma, Go
    <2> QED BY <2>1, <2>2 DEF StageInv
  <1>5. ASSUME NEW t \in Tasks, handle_mm_fault(t) PROVE StageInv'
    <2>1. ASSUME NEW u \in Tasks, u # t PROVE StageOf(u)'
      BY <1>5, <2>1 DEF Types, StageInv, StageOf, Waiting, Holding, Resting,
         NoAccess, handle_mm_fault, Go, mapVars, localVars
    <2>2. StageOf(t)'
      BY <1>5 DEF Types, StageInv, StageOf, Waiting, Holding, Resting, NoAccess,
         handle_mm_fault, Go, mapVars, localVars
    <2> QED BY <2>1, <2>2 DEF StageInv
  <1>6. ASSUME NEW t \in Tasks, retried(t) PROVE StageInv'
    <2>1. ASSUME NEW u \in Tasks, u # t PROVE StageOf(u)'
      BY <1>6, <2>1 DEF Types, StageInv, StageOf, Waiting, Holding, Resting,
         NoAccess, retried, Return, Leave, Go, mapVars, localVars
    <2>2. StageOf(t)'
      BY <1>6 DEF Types, StageInv, StageOf, Waiting, Holding, Resting, NoAccess,
         retried, Return, Leave, Go, mapVars, localVars
    <2> QED BY <2>1, <2>2 DEF StageInv
  <1>7. ASSUME NEW t \in Tasks, release(t) PROVE StageInv'
    <2>1. ASSUME NEW u \in Tasks, u # t PROVE StageOf(u)'
      BY <1>7, <2>1 DEF Types, StageInv, StageOf, Waiting, Holding, Resting,
         NoAccess, release, up_read, Return, Leave, Go, mapVars
    <2>2. StageOf(t)'
      BY <1>7 DEF Types, StageInv, StageOf, Waiting, Holding, Resting, NoAccess,
         release, up_read, Return, Leave, Go, mapVars
    <2> QED BY <2>1, <2>2 DEF StageInv
  <1>8. ASSUME NEW t \in Tasks, bad_area(t) PROVE StageInv'
    <2>1. ASSUME NEW u \in Tasks, u # t PROVE StageOf(u)'
      BY <1>8, <2>1 DEF Types, StageInv, StageOf, Waiting, Holding, Resting,
         NoAccess, bad_area, up_read, user_mode, Return, Leave, Go, mapVars,
         localVars
    <2>2. StageOf(t)'
      BY <1>8 DEF Types, StageInv, StageOf, Waiting, Holding, Resting, NoAccess,
         bad_area, up_read, user_mode, Return, Leave, Go, mapVars, localVars
    <2> QED BY <2>1, <2>2 DEF StageInv
  <1>9. ASSUME NEW t \in Tasks, out_of_memory(t) PROVE StageInv'
    <2>1. ASSUME NEW u \in Tasks, u # t PROVE StageOf(u)'
      BY <1>9, <2>1 DEF Types, StageInv, StageOf, Waiting, Holding, Resting,
         NoAccess, out_of_memory, up_read, user_mode, Return, Leave, Go, mapVars,
         localVars
    <2>2. StageOf(t)'
      BY <1>9 DEF Types, StageInv, StageOf, Waiting, Holding, Resting, NoAccess,
         out_of_memory, up_read, user_mode, Return, Leave, Go, mapVars, localVars
    <2> QED BY <2>1, <2>2 DEF StageInv
  <1>10. ASSUME NEW t \in Tasks, do_sigbus(t) PROVE StageInv'
    <2>1. ASSUME NEW u \in Tasks, u # t PROVE StageOf(u)'
      BY <1>10, <2>1 DEF Types, StageInv, StageOf, Waiting, Holding, Resting,
         NoAccess, do_sigbus, up_read, user_mode, Return, Leave, Go, mapVars,
         localVars
    <2>2. StageOf(t)'
      BY <1>10 DEF Types, StageInv, StageOf, Waiting, Holding, Resting, NoAccess,
         do_sigbus, up_read, user_mode, Return, Leave, Go, mapVars, localVars
    <2> QED BY <2>1, <2>2 DEF StageInv
  <1>11. ASSUME NEW t \in Tasks, no_context(t) PROVE StageInv'
    <2>1. ASSUME NEW u \in Tasks, u # t PROVE StageOf(u)'
      BY <1>11, <2>1 DEF Types, StageInv, StageOf, Waiting, Holding, Resting,
         NoAccess, no_context, Return, Leave, Go, mapVars, localVars
    <2>2. StageOf(t)'
      BY <1>11 DEF Types, StageInv, StageOf, Waiting, Holding, Resting, NoAccess,
         no_context, Return, Leave, Go, mapVars, localVars
    <2> QED BY <2>1, <2>2 DEF StageInv
  <1>12. ASSUME NEW t \in Tasks, down_read(t) PROVE StageInv'
    <2>1. ASSUME NEW u \in Tasks, u # t PROVE StageOf(u)'
      BY <1>12, <2>1 DEF Types, StageInv, StageOf, Waiting, Holding, Resting,
         NoAccess, down_read, Go, mapVars, localVars
    <2>2. StageOf(t)'
      BY <1>12 DEF Types, StageInv, StageOf, Waiting, Holding, Resting, NoAccess,
         down_read, Go, mapVars, localVars
    <2> QED BY <2>1, <2>2 DEF StageInv
  <1>13. ASSUME NEW t \in Tasks, DownWrite(t) PROVE StageInv'
    <2>0. writer = {} /\ writer' = {t}
      BY <1>13 DEF SemInv, DownWrite
    <2>1. ASSUME NEW u \in Tasks, u # t PROVE StageOf(u)'
      BY <1>13, <2>0, <2>1 DEF Types, StageInv, StageOf, Waiting, Holding, Resting,
         NoAccess, DownWrite, Go, localVars
    <2>2. StageOf(t)'
      BY <1>13, <2>0 DEF Types, StageInv, StageOf, Waiting, Holding, Resting,
         NoAccess, DownWrite, Go, localVars
    <2> QED BY <2>1, <2>2 DEF StageInv
  <1>14. ASSUME NEW t \in Tasks, ChangeMap(t) PROVE StageInv'
    BY <1>14 DEF Types, StageInv, StageOf, Waiting, Holding, Resting, ChangeMap,
       Witness
  <1>15. ASSUME NEW t \in Tasks, UpWrite(t) PROVE StageInv'
    <2>1. ASSUME NEW u \in Tasks, u # t PROVE StageOf(u)'
      BY <1>15, <2>1 DEF Types, StageInv, StageOf, Waiting, Holding, Resting,
         NoAccess, UpWrite, Go, localVars
    <2>2. StageOf(t)'
      BY <1>15 DEF Types, StageInv, StageOf, Waiting, Holding, Resting, NoAccess,
         UpWrite, Go, localVars
    <2> QED BY <2>1, <2>2 DEF StageInv
  <1>16. ASSUME NEW t \in Tasks, SendFatalSignal(t) PROVE StageInv'
    BY <1>16 DEF Types, StageInv, StageOf, Waiting, Holding, Resting,
       SendFatalSignal, mapVars, taskVars, localVars
  <1>17. ASSUME NEW t \in Tasks, NEW a \in Accesses, NEW cause \in Causes,
                Trap(t, a[1], a[2], cause)
         PROVE  StageInv'
    <2> DEFINE acc == [ctx |-> a[1], area |-> a[2], cause |-> cause]
    <2>1. /\ access' = [access EXCEPT ![t] = acc]
          /\ stage' = [stage EXCEPT ![t] = "entry"]
          /\ UNCHANGED <<writer, fatal, allow>>
      BY <1>17 DEF Trap, Go, mapVars
    <2>5. /\ stage[t] = "run" \/ stage[t] = "write"
          /\ stage[t] = "write" => a[1] \in {"atomic", "kernel"}
      BY <1>17, Zenon DEF Trap
    <2>2. a[1] # "none" /\ (a[2] = "vmalloc" <=> a[1] = "kernel")
      BY VmallocFromUser = FALSE DEF Accesses
    <2>3. ASSUME NEW u \in Tasks, u # t PROVE StageOf(u)'
      BY <2>1, <2>3 DEF Types, StageInv, StageOf
    <2>4. StageOf(t)'
      BY <2>1, <2>2, <2>5 DEF Types, StageInv, StageOf, Waiting, Holding, Resting,
         NoAccess
    <2> QED BY <2>3, <2>4 DEF StageInv
  <1>18. CASE VmallocOrVfree
    BY <1>18 DEF Types, StageInv, StageOf, Waiting, Holding, Resting,
       VmallocOrVfree, Witness
  <1> QED
    BY <1>1, <1>2, <1>3, <1>4, <1>5, <1>6, <1>7, <1>8, <1>9,
       <1>10, <1>11, <1>12, <1>13, <1>14, <1>15, <1>16, <1>17, <1>18 DEF Next,
       Handler

(* What the faulting tasks have seen. *)
LEMMA StepSeenInv == Types /\ StageInv /\ SeenInv /\ [Next]_vars => SeenInv'
  <1> SUFFICES ASSUME Types /\ StageInv /\ SeenInv, [Next]_vars PROVE SeenInv'
    OBVIOUS
  <1>1. CASE UNCHANGED vars
    BY <1>1 DEF Types, SeenInv, SeenOf, vars, mapVars, taskVars, localVars
  <1>2. ASSUME NEW t \in Tasks, do_page_fault(t) PROVE SeenInv'
    <2>1. ASSUME NEW u \in Tasks, u # t PROVE SeenOf(u)'
      BY <1>2, <2>1 DEF Types, SeenInv, SeenOf, do_page_fault, Checks, user_mode,
         Go, mapVars, localVars
    <2>2. SeenOf(t)'
      BY <1>2 DEF Types, StageInv, StageOf, SeenInv, SeenOf, Waiting, Holding,
         Resting, Contexts, do_page_fault, Checks, user_mode, Go, mapVars, localVars
    <2> QED BY <2>1, <2>2 DEF SeenInv
  <1>3. ASSUME NEW t \in Tasks, vmalloc_fault(t) PROVE SeenInv'
    <2>1. ASSUME NEW u \in Tasks, u # t PROVE SeenOf(u)'
      BY <1>3, <2>1 DEF Types, SeenInv, SeenOf, vmalloc_fault, user_mode, Return,
         Leave, Go, mapVars, localVars
    <2>2. Refusals(access[t], vma,
    master) = IF master = "page" THEN {} ELSE {"unmapped"}
      BY <1>3 DEF vmalloc_fault, user_mode, Refusals
    <2>3. SeenOf(t)'
      BY <1>3, <2>2 DEF Types, SeenInv, SeenOf, Resting, vmalloc_fault, user_mode,
         Return, Leave, Go, mapVars, localVars
    <2> QED BY <2>1, <2>3 DEF SeenInv
  <1>4. ASSUME NEW t \in Tasks, find_vma(t) PROVE SeenInv'
    <2>1. \A a : Refusals(a, vma', master') = Refusals(a, vma, master)
      BY <1>4 DEF find_vma, Refusals, Types
    <2>2. ASSUME NEW u \in Tasks, u # t PROVE SeenOf(u)'
      BY <1>4, <2>1, <2>2 DEF Types, SeenInv, SeenOf, find_vma, Go
    <2>3. /\ stage[t] = "find_vma" /\ access[t].area = "user" /\ access[t].cause \in Causes
          /\ Refusals(access[t], vma, master) \subseteq seen[t]
      BY <1>4 DEF find_vma, Types, StageInv, StageOf, SeenInv, SeenOf, Waiting,
         Holding, Resting
    <2>4. ASSUME vma.place \in {"none", "stack_full"} PROVE "unmapped" \in seen[t]
      BY <2>3, <2>4 DEF Refusals
    <2>5. ASSUME vma.place \notin {"none", "stack_full"}, ~Permitted(access[t].cause, vma.perms)
          PROVE  seen[t] # {}
      BY <2>3, <2>5, CausesAssumption DEF Refusals, Permitted
    <2>6. SeenOf(t)'
      BY <1>4, <2>1, <2>3, <2>4, <2>5 DEF SeenOf, Types, find_vma, Go, Resting
    <2> QED BY <2>2, <2>6 DEF SeenInv
  <1>5. ASSUME NEW t \in Tasks, handle_mm_fault(t) PROVE SeenInv'
    <2>1. ASSUME NEW u \in Tasks, u # t PROVE SeenOf(u)'
      BY <1>5, <2>1 DEF Types, SeenInv, SeenOf, handle_mm_fault, Go, mapVars,
         localVars
    <2>2. SeenOf(t)'
      BY <1>5 DEF Types, StageInv, StageOf, SeenInv, SeenOf, Waiting, Holding,
         Resting, Contexts, handle_mm_fault, Go, mapVars, localVars
    <2> QED BY <2>1, <2>2 DEF SeenInv
  <1>6. ASSUME NEW t \in Tasks, retried(t) PROVE SeenInv'
    <2>1. ASSUME NEW u \in Tasks, u # t PROVE SeenOf(u)'
      BY <1>6, <2>1 DEF Types, SeenInv, SeenOf, retried, Return, Leave, Go,
         mapVars, localVars
    <2>2. SeenOf(t)'
      BY <1>6 DEF Types, StageInv, StageOf, SeenInv, SeenOf, Waiting, Holding,
         Resting, Contexts, retried, Return, Leave, Go, mapVars, localVars
    <2> QED BY <2>1, <2>2 DEF SeenInv
  <1>7. ASSUME NEW t \in Tasks, release(t) PROVE SeenInv'
    <2>1. ASSUME NEW u \in Tasks, u # t PROVE SeenOf(u)'
      BY <1>7, <2>1 DEF Types, SeenInv, SeenOf, release, up_read, Return, Leave,
         Go, mapVars
    <2>2. SeenOf(t)'
      BY <1>7 DEF Types, StageInv, StageOf, SeenInv, SeenOf, Waiting, Holding,
         Resting, Contexts, release, up_read, Return, Leave, Go, mapVars
    <2> QED BY <2>1, <2>2 DEF SeenInv
  <1>8. ASSUME NEW t \in Tasks, bad_area(t) PROVE SeenInv'
    <2>1. ASSUME NEW u \in Tasks, u # t PROVE SeenOf(u)'
      BY <1>8, <2>1 DEF Types, SeenInv, SeenOf, bad_area, up_read, user_mode,
         Return, Leave, Go, mapVars, localVars
    <2>2. SeenOf(t)'
      BY <1>8 DEF Types, StageInv, StageOf, SeenInv, SeenOf, Waiting, Holding,
         Resting, Contexts, bad_area, up_read, user_mode, Return, Leave, Go,
         mapVars, localVars
    <2> QED BY <2>1, <2>2 DEF SeenInv
  <1>9. ASSUME NEW t \in Tasks, out_of_memory(t) PROVE SeenInv'
    <2>1. ASSUME NEW u \in Tasks, u # t PROVE SeenOf(u)'
      BY <1>9, <2>1 DEF Types, SeenInv, SeenOf, out_of_memory, up_read, user_mode,
         Return, Leave, Go, mapVars, localVars
    <2>2. SeenOf(t)'
      BY <1>9 DEF Types, StageInv, StageOf, SeenInv, SeenOf, Waiting, Holding,
         Resting, Contexts, out_of_memory, up_read, user_mode, Return, Leave, Go,
         mapVars, localVars
    <2> QED BY <2>1, <2>2 DEF SeenInv
  <1>10. ASSUME NEW t \in Tasks, do_sigbus(t) PROVE SeenInv'
    <2>1. ASSUME NEW u \in Tasks, u # t PROVE SeenOf(u)'
      BY <1>10, <2>1 DEF Types, SeenInv, SeenOf, do_sigbus, up_read, user_mode,
         Return, Leave, Go, mapVars, localVars
    <2>2. SeenOf(t)'
      BY <1>10 DEF Types, StageInv, StageOf, SeenInv, SeenOf, Waiting, Holding,
         Resting, Contexts, do_sigbus, up_read, user_mode, Return, Leave, Go,
         mapVars, localVars
    <2> QED BY <2>1, <2>2 DEF SeenInv
  <1>11. ASSUME NEW t \in Tasks, no_context(t) PROVE SeenInv'
    <2>1. ASSUME NEW u \in Tasks, u # t PROVE SeenOf(u)'
      BY <1>11, <2>1 DEF Types, SeenInv, SeenOf, no_context, Return, Leave, Go,
         mapVars, localVars
    <2>2. SeenOf(t)'
      BY <1>11 DEF Types, StageInv, StageOf, SeenInv, SeenOf, Waiting, Holding,
         Resting, Contexts, no_context, Return, Leave, Go, mapVars, localVars
    <2> QED BY <2>1, <2>2 DEF SeenInv
  <1>12. ASSUME NEW t \in Tasks, down_read(t) PROVE SeenInv'
    <2>1. ASSUME NEW u \in Tasks, u # t PROVE SeenOf(u)'
      BY <1>12, <2>1 DEF Types, SeenInv, SeenOf, down_read, Go, mapVars, localVars
    <2>2. SeenOf(t)'
      BY <1>12 DEF Types, StageInv, StageOf, SeenInv, SeenOf, Waiting, Holding,
         Resting, Contexts, down_read, Go, mapVars, localVars
    <2> QED BY <2>1, <2>2 DEF SeenInv
  <1>13. ASSUME NEW t \in Tasks, DownWrite(t) PROVE SeenInv'
    BY <1>13 DEF Types, SeenInv, SeenOf, Resting, DownWrite, Go, localVars
  <1>14. ASSUME NEW t \in Tasks, ChangeMap(t) PROVE SeenInv'
    <2>1. \A u \in Tasks : stage[u] \notin Resting =>
             seen'[u] = seen[u] \cup Refusals(access[u], vma', master')
      BY <1>14 DEF ChangeMap, Witness, Types
    <2>2. UNCHANGED <<stage, access, code>>
      BY <1>14 DEF ChangeMap, Witness
    <2>3. \A u \in Tasks : seen[u] \subseteq seen'[u]
      BY <1>14 DEF ChangeMap, Witness, Types
    <2> QED BY <2>1, <2>2, <2>3 DEF SeenInv, SeenOf
  <1>15. ASSUME NEW t \in Tasks, UpWrite(t) PROVE SeenInv'
    BY <1>15 DEF Types, SeenInv, SeenOf, Resting, UpWrite, Go, localVars
  <1>16. ASSUME NEW t \in Tasks, SendFatalSignal(t) PROVE SeenInv'
    BY <1>16 DEF Types, SeenInv, SeenOf, Resting, SendFatalSignal, mapVars,
       taskVars, localVars
  <1>17. ASSUME NEW t \in Tasks, NEW a \in Accesses, NEW cause \in Causes,
                Trap(t, a[1], a[2], cause)
         PROVE  SeenInv'
    <2> DEFINE acc == [ctx |-> a[1], area |-> a[2], cause |-> cause]
    <2>1. /\ access' = [access EXCEPT ![t] = acc]
          /\ seen' = [seen EXCEPT ![t] = Refusals(acc, vma, master)]
          /\ stage' = [stage EXCEPT ![t] = "entry"]
          /\ UNCHANGED <<vma, master, code>>
      BY <1>17 DEF Trap, Go, mapVars
    <2> HIDE DEF acc
    <2>2. ASSUME NEW u \in Tasks, u # t PROVE SeenOf(u)'
      BY <2>1, <2>2 DEF Types, SeenInv, SeenOf
    <2>3. SeenOf(t)'
      BY <2>1 DEF Types, SeenOf
    <2> QED BY <2>2, <2>3 DEF SeenInv
  <1>18. CASE VmallocOrVfree
    <2>1. \A u \in Tasks : stage[u] \notin Resting =>
             seen'[u] = seen[u] \cup Refusals(access[u], vma', master')
      BY <1>18 DEF VmallocOrVfree, Witness, Types
    <2>2. UNCHANGED <<stage, access, code>>
      BY <1>18 DEF VmallocOrVfree, Witness
    <2>3. \A u \in Tasks : seen[u] \subseteq seen'[u]
      BY <1>18 DEF VmallocOrVfree, Witness, Types
    <2> QED BY <2>1, <2>2, <2>3 DEF SeenInv, SeenOf
  <1> QED
    BY <1>1, <1>2, <1>3, <1>4, <1>5, <1>6, <1>7, <1>8, <1>9,
       <1>10, <1>11, <1>12, <1>13, <1>14, <1>15, <1>16, <1>17, <1>18 DEF Next,
       Handler

-----------------------------------------------------------------------------
(* The invariant holds at all times. *)
THEOREM Invariance ==
  ASSUME VmallocFromUser = FALSE
  PROVE  Spec => []IInv
  <1>1. Init => IInv
    BY InitIInv
  <1>2. IInv /\ [Next]_vars => IInv'
    BY StepTypes, StepSemInv, StepStageInv, StepSeenInv,
       VmallocFromUser = FALSE DEF IInv
  <1> QED BY <1>1, <1>2, PTL DEF Spec

(* fault.c: mmap_sem is released exactly as often as it was taken.         *)
THEOREM SemBalancedHolds ==
  ASSUME VmallocFromUser = FALSE
  PROVE  Spec => []SemBalanced
  <1>1. ASSUME SemInv PROVE SemBalanced
    <2>1. CASE writer = {} /\ sem = Cardinality(Readers)
      <3>1. Cardinality(Readers) \in Nat
        BY FS_Subset, FS_CardinalityType, TasksAssumption DEF Readers
      <3> QED BY <2>1, <3>1, FS_EmptySet DEF Readers, SemBalanced
    <2>2. CASE \E w \in Tasks : writer = {w} /\ sem = -1 /\ Readers = {}
      <3>1. Cardinality(writer) = 1 /\ sem = -1 /\ Cardinality(Readers) = 0
        BY <2>2, FS_EmptySet, FS_Singleton
      <3> QED BY <3>1 DEF Readers, SemBalanced
    <2> QED BY <1>1, <2>1, <2>2 DEF SemInv
  <1>2. IInv => SemBalanced
    BY <1>1 DEF IInv
  <1> QED BY <1>2, Invariance, VmallocFromUser = FALSE, PTL

(* What the faulting tasks do not write. *)
OtherTypes ==
  fatal \subseteq Tasks /\ master \in {"none", "table", "page"} /\ copied \in BOOLEAN

LEMMA OthersTyped == Spec => []OtherTypes
  <1> USE DEF OtherTypes
  <1>1. Init => OtherTypes
    BY DEF Init
  <1>2. OtherTypes /\ [Next]_vars => OtherTypes'
    <2> SUFFICES ASSUME OtherTypes, [Next]_vars PROVE OtherTypes'
      OBVIOUS
    <2>1. ASSUME NEW t \in Tasks, Handler(t) PROVE OtherTypes'
      <3>1. CASE vmalloc_fault(t)
        BY <3>1 DEF vmalloc_fault, mapVars
      <3>2. CASE do_page_fault(t) \/ find_vma(t) \/ handle_mm_fault(t) \/ retried(t)
        BY <3>2 DEF do_page_fault, find_vma, handle_mm_fault, retried, mapVars
      <3>3. CASE release(t) \/ bad_area(t) \/ out_of_memory(t) \/ do_sigbus(t) \/ no_context(t)
        BY <3>3 DEF release, bad_area, out_of_memory, do_sigbus, no_context, mapVars
      <3> QED
        BY <2>1, <3>1, <3>2, <3>3 DEF Handler
    <2>2. ASSUME NEW t \in Tasks,
                 down_read(t) \/ DownWrite(t) \/ ChangeMap(t) \/ UpWrite(t) \/ SendFatalSignal(t)
          PROVE  OtherTypes'
      BY <2>2 DEF down_read, DownWrite, ChangeMap, UpWrite, SendFatalSignal, mapVars
    <2>3. ASSUME NEW t \in Tasks, NEW a \in Accesses, NEW cause \in Causes,
                 Trap(t, a[1], a[2], cause)
          PROVE  OtherTypes'
      BY <2>3 DEF Trap, mapVars
    <2>4. CASE VmallocOrVfree \/ UNCHANGED vars
      BY <2>4 DEF VmallocOrVfree, vars, mapVars
    <2> QED
      BY <2>1, <2>2, <2>3, <2>4 DEF Next
  <1> QED
    BY <1>1, <1>2, PTL DEF Spec

(* fault.c: every variable keeps its type: mmap_sem is never released by   *)
(* more than hold it, nor held by more than there are tasks.               *)
THEOREM TypeCorrect ==
  ASSUME VmallocFromUser = FALSE
  PROVE  Spec => []TypeOK
  <1>1. IInv => sem \in -1 .. Cardinality(Tasks)
    <2> SUFFICES ASSUME IInv PROVE sem \in -1 .. Cardinality(Tasks)
      OBVIOUS
    <2>1. Readers \subseteq Tasks /\ IsFiniteSet(Tasks)
      BY TasksAssumption DEF Readers
    <2>2. Cardinality(Readers) \in Nat /\ Cardinality(Tasks) \in Nat
          /\ Cardinality(Readers) <= Cardinality(Tasks)
      BY <2>1, FS_Subset, FS_CardinalityType
    <2> QED
      BY <2>2 DEF IInv, SemInv
  <1>2. IInv /\ OtherTypes => TypeOK
    BY <1>1 DEF IInv, OtherTypes, Types, TypeOK
  <1> QED
    BY <1>2, Invariance, OthersTyped, VmallocFromUser = FALSE, PTL

(* How a fault ends. *)
LEMMA StepJustified == Types /\ StageInv /\ SeenInv /\ [Next]_vars => Justified
  <1> SUFFICES ASSUME Types /\ StageInv /\ SeenInv, [Next]_vars PROVE Justified
    OBVIOUS
  <1>1. CASE UNCHANGED vars
    BY <1>1 DEF Types, Justified, vars, mapVars, taskVars, localVars
  <1>2. ASSUME NEW t \in Tasks, do_page_fault(t) PROVE Justified
    BY <1>2 DEF Types, Resting, Justified, do_page_fault, Checks, user_mode, Go,
       mapVars, localVars
  <1>3. ASSUME NEW t \in Tasks, vmalloc_fault(t) PROVE Justified
    BY <1>3 DEF Types, Resting, Justified, vmalloc_fault, user_mode, Return, Leave,
       Go, mapVars, localVars
  <1>4. ASSUME NEW t \in Tasks, find_vma(t) PROVE Justified
    BY <1>4 DEF Types, Resting, Justified, find_vma, Go
  <1>5. ASSUME NEW t \in Tasks, handle_mm_fault(t) PROVE Justified
    BY <1>5 DEF Types, Resting, Justified, handle_mm_fault, Go, mapVars, localVars
  <1>6. ASSUME NEW t \in Tasks, retried(t) PROVE Justified
    BY <1>6 DEF Types, Resting, Justified, retried, Return, Leave, Go, mapVars,
       localVars
  <1>7. ASSUME NEW t \in Tasks, release(t) PROVE Justified
    BY <1>7 DEF Types, Resting, Justified, release, up_read, Return, Leave, Go,
       mapVars
  <1>8. ASSUME NEW t \in Tasks, bad_area(t) PROVE Justified
    BY <1>8 DEF Types, StageInv, StageOf, SeenInv, SeenOf, Justified, Resting,
       bad_area, up_read, user_mode, Return, Leave, Go, mapVars, localVars
  <1>9. ASSUME NEW t \in Tasks, out_of_memory(t) PROVE Justified
    BY <1>9 DEF Types, Resting, Justified, out_of_memory, up_read, user_mode,
       Return, Leave, Go, mapVars, localVars
  <1>10. ASSUME NEW t \in Tasks, do_sigbus(t) PROVE Justified
    BY <1>10 DEF Types, Resting, Justified, do_sigbus, up_read, user_mode, Return,
       Leave, Go, mapVars, localVars
  <1>11. ASSUME NEW t \in Tasks, no_context(t) PROVE Justified
    BY <1>11 DEF Types, StageInv, StageOf, SeenInv, SeenOf, Justified, Resting,
       no_context, Return, Leave, Go, mapVars, localVars
  <1>12. ASSUME NEW t \in Tasks, down_read(t) PROVE Justified
    BY <1>12 DEF Types, Resting, Justified, down_read, Go, mapVars, localVars
  <1>13. ASSUME NEW t \in Tasks, DownWrite(t) PROVE Justified
    BY <1>13 DEF Types, Resting, Justified, DownWrite, Go, localVars
  <1>14. ASSUME NEW t \in Tasks, ChangeMap(t) PROVE Justified
    BY <1>14 DEF Types, Resting, Justified, ChangeMap, Witness
  <1>15. ASSUME NEW t \in Tasks, UpWrite(t) PROVE Justified
    BY <1>15 DEF Types, Resting, Justified, UpWrite, Go, localVars
  <1>16. ASSUME NEW t \in Tasks, SendFatalSignal(t) PROVE Justified
    BY <1>16 DEF Types, Resting, Justified, SendFatalSignal, mapVars, taskVars,
       localVars
  <1>17. ASSUME NEW t \in Tasks, NEW a \in Accesses, NEW cause \in Causes,
                Trap(t, a[1], a[2], cause)
         PROVE  Justified
    BY <1>17 DEF Types, Resting, Justified, Trap, Go, mapVars
  <1>18. CASE VmallocOrVfree
    BY <1>18 DEF Types, Resting, Justified, VmallocOrVfree, Witness
  <1> QED
    BY <1>1, <1>2, <1>3, <1>4, <1>5, <1>6, <1>7, <1>8, <1>9,
       <1>10, <1>11, <1>12, <1>13, <1>14, <1>15, <1>16, <1>17, <1>18 DEF Next,
       Handler

(* fault.c: a signal or an oops is for an access that the map refused      *)
(* since it faulted.                                                       *)
THEOREM OutcomeJustifiedHolds ==
  ASSUME VmallocFromUser = FALSE
  PROVE  Spec => OutcomeJustified
  <1>1. IInv /\ [Next]_vars => [Justified]_vars
    BY StepJustified DEF IInv
  <1> QED BY <1>1, Invariance, VmallocFromUser = FALSE, PTL DEF Spec,
     OutcomeJustified

=============================================================================

----------------------- MODULE UniqueValuesGateProofs -----------------------
(***************************************************************************)
(* Theorems about UniqueValuesGate, for any number of threads and regexes: *)
(* type correctness, that every match is one of a configured regex, that a *)
(* loaded list is never loaded again, and that decisions are exact after a *)
(* load that no other one overlapped.                                      *)
(***************************************************************************)
EXTENDS UniqueValuesGate, SequenceTheorems, TLAPS

AfterCheck ==
  {"parse", "enter", "grow", "bump", "store", "return", "empty", "again",
   "iterate"}

(* What a thread th relies on at its line, when the field is f: its place  *)
(* in the file is one, and the references it follows are not null.         *)
ThreadOK(th, f) ==
  /\ th.line \in AfterCheck => f # NULL
  /\ th.line \in {"check", "assign", "parse"} => th.i = 0
  /\ th.line = "enter" => th.i < Len(Regexes)
  /\ th.line \in {"grow", "bump", "store"} => th.i \in 1..Len(Regexes)
  /\ th.line \in {"grow", "bump", "store", "empty", "again", "iterate"}
       => th.list \in Threads
  /\ th.line = "store" => th.size < MaxSlots
  /\ th.line = "matched" => SomeMatch(th.target)

ThreadsOK == \A t \in Threads : ThreadOK(threads[t], field)

IInv == TypeOK /\ ThreadsOK

-----------------------------------------------------------------------------
(* A step moves one thread, to a record r that is in order, and leaves the *)
(* field as it is or sets it: the other threads stay in order.             *)
LEMMA ThreadMoves ==
  ASSUME IInv, NEW t \in Threads, NEW r \in ThreadRecord,
         threads' = [threads EXCEPT ![t] = r],
         field' \in Threads \cup {NULL}, field # NULL => field' # NULL,
         ThreadOK(r, field')
  PROVE  threads' \in [Threads -> ThreadRecord] /\ ThreadsOK'
<1>1. threads \in [Threads -> ThreadRecord]
  BY DEF IInv, TypeOK
<1>2. threads' \in [Threads -> ThreadRecord]
  BY <1>1
<1>3. ASSUME NEW u \in Threads
      PROVE  ThreadOK(threads'[u], field')
  <2>1. CASE u = t
    BY <1>1, <2>1
  <2>2. CASE u # t
    <3>1. threads'[u] = threads[u]
      BY <1>1, <2>2
    <3>2. ThreadOK(threads[u], field)
      BY DEF IInv, ThreadsOK
    <3> QED
      BY <3>1, <3>2 DEF ThreadOK
  <2> QED
    BY <2>1, <2>2
<1> QED
  BY <1>2, <1>3 DEF ThreadsOK

(* Goto changes the line of the record only.                               *)
LEMMA GotoMoves ==
  ASSUME IInv, NEW t \in Threads, NEW line, Goto(t, line)
  PROVE  threads' = [threads EXCEPT ![t] = [threads[t] EXCEPT !.line = line]]
  BY DEF Goto

LEMMA ThreadType ==
  ASSUME IInv, NEW t \in Threads
  PROVE  threads[t] \in ThreadRecord /\ ThreadOK(threads[t], field)
  BY DEF IInv, TypeOK, ThreadsOK

LEMMA NewListType == NewList \in ListRecord
  BY GateAssumption DEF NewList, NoSlots, ListRecord

LEMMA RegexType ==
  ASSUME NEW i \in 1..Len(Regexes)
  PROVE  Regexes[i] \in Configured
  BY GateAssumption DEF Configured

-----------------------------------------------------------------------------
(* Each step preserves the invariant. *)

LEMMA RequestStep ==
  ASSUME IInv, NEW t \in Threads, NEW target \in Targets, Request(t, target)
  PROVE  IInv'
<1> DEFINE r == [IdleThread EXCEPT !.line = "check", !.target = target]
<1>1. r \in ThreadRecord /\ ThreadOK(r, field')
  BY DEF IdleThread, ThreadRecord, ThreadOK, AfterCheck, Deciding
<1>2. threads' = [threads EXCEPT ![t] = r] /\ field' = field
  BY DEF Request
<1> HIDE DEF r
<1>3. threads' \in [Threads -> ThreadRecord] /\ ThreadsOK'
  BY <1>1, <1>2, ThreadMoves DEF IInv, TypeOK
<1>4. warm' \in [Threads -> BOOLEAN]
  BY DEF Request, IInv, TypeOK, Warm
<1> QED
  BY <1>3, <1>4 DEF Request, IInv, TypeOK

LEMMA CheckNullStep ==
  ASSUME IInv, NEW t \in Threads, CheckNull(t)
  PROVE  IInv'
<1> DEFINE r == [threads[t] EXCEPT !.line = IF field = NULL THEN "assign"
                                            ELSE "empty",
                                   !.list = field]
<1>1. threads[t] \in ThreadRecord /\ ThreadOK(threads[t], field)
  BY ThreadType
<1>2. field \in Threads \cup {NULL} /\ threads[t].line = "check" /\ field' = field
  BY DEF CheckNull, IInv, TypeOK
<1>3. r \in ThreadRecord /\ ThreadOK(r, field')
  <2>1. CASE field = NULL
    BY <1>1, <1>2, <2>1 DEF ThreadRecord, ThreadOK, AfterCheck, Loading
  <2>2. CASE field # NULL
    BY <1>1, <1>2, <2>2 DEF ThreadRecord, ThreadOK, AfterCheck, Deciding
  <2> QED
    BY <2>1, <2>2
<1>4. threads' = [threads EXCEPT ![t] = r]
  BY DEF CheckNull
<1> HIDE DEF r
<1>5. threads' \in [Threads -> ThreadRecord] /\ ThreadsOK'
  BY <1>2, <1>3, <1>4, ThreadMoves
<1> QED
  BY <1>5 DEF CheckNull, IInv, TypeOK

(* The steps that only move a thread to another line.                      *)
LEMMA GotoStep ==
  ASSUME IInv, NEW t \in Threads, NEW line, Goto(t, line),
         [threads[t] EXCEPT !.line = line] \in ThreadRecord,
         ThreadOK([threads[t] EXCEPT !.line = line], field'),
         field' \in Threads \cup {NULL}, field # NULL => field' # NULL
  PROVE  threads' \in [Threads -> ThreadRecord] /\ ThreadsOK'
<1> DEFINE r == [threads[t] EXCEPT !.line = line]
<1>1. threads' = [threads EXCEPT ![t] = r] /\ r \in ThreadRecord /\ ThreadOK(r, field')
  BY GotoMoves
<1> HIDE DEF r
<1> QED
  BY <1>1, ThreadMoves

LEMMA AssignStep ==
  ASSUME IInv, NEW t \in Threads, Assign(t)
  PROVE  IInv'
<1>1. threads[t] \in ThreadRecord /\ ThreadOK(threads[t], field)
  BY ThreadType
<1>2. threads[t].line = "assign" /\ field' = t /\ Goto(t, "parse")
  BY DEF Assign
<1>3. t # NULL
  BY GateAssumption
<1>4. /\ [threads[t] EXCEPT !.line = "parse"] \in ThreadRecord
      /\ ThreadOK([threads[t] EXCEPT !.line = "parse"], field')
  BY <1>1, <1>2, <1>3 DEF ThreadRecord, ThreadOK, Loading
<1>5. threads' \in [Threads -> ThreadRecord] /\ ThreadsOK'
  BY <1>2, <1>3, <1>4, GotoStep
<1>6. lists' \in [Threads -> ListRecord]
  BY NewListType DEF Assign, IInv, TypeOK
<1> QED
  BY <1>5, <1>6 DEF Assign, IInv, TypeOK

LEMMA ParseConfigStep ==
  ASSUME IInv, NEW t \in Threads, ParseConfig(t)
  PROVE  IInv'
<1> DEFINE line == IF readable /\ Regexes # <<>> THEN "enter" ELSE "return"
<1>1. threads[t] \in ThreadRecord /\ ThreadOK(threads[t], field)
  BY ThreadType
<1>2. threads[t].line = "parse" /\ field' = field /\ Goto(t, line)
  BY DEF ParseConfig
<1>3. field \in Threads \cup {NULL}
  BY DEF IInv, TypeOK
<1>4. Regexes # <<>> => 0 < Len(Regexes)
  BY GateAssumption
<1>5. /\ [threads[t] EXCEPT !.line = line] \in ThreadRecord
      /\ ThreadOK([threads[t] EXCEPT !.line = line], field')
  <2>1. CASE readable /\ Regexes # <<>>
    BY <1>1, <1>2, <1>4, <2>1 DEF ThreadRecord, ThreadOK, Loading, AfterCheck
  <2>2. CASE ~(readable /\ Regexes # <<>>)
    BY <1>1, <1>2, <2>2 DEF ThreadRecord, ThreadOK, Loading, AfterCheck
  <2> QED
    BY <2>1, <2>2
<1> HIDE DEF line
<1>6. threads' \in [Threads -> ThreadRecord] /\ ThreadsOK'
  BY <1>2, <1>3, <1>5, GotoStep
<1> QED
  BY <1>6 DEF ParseConfig, IInv, TypeOK

LEMMA AddEnterStep ==
  ASSUME IInv, NEW t \in Threads, AddEnter(t)
  PROVE  IInv'
<1> DEFINE r == [threads[t] EXCEPT !.line = "grow", !.list = field,
                                   !.i = threads[t].i + 1,
                                   !.array = lists[field].array]
           list == [lists[field] EXCEPT !.mods = lists[field].mods + 1]
<1>1. threads[t] \in ThreadRecord /\ ThreadOK(threads[t], field)
  BY ThreadType
<1>2. threads[t].line = "enter" /\ field' = field
  BY DEF AddEnter
<1>3. field \in Threads
  BY <1>1, <1>2 DEF IInv, TypeOK, ThreadOK, AfterCheck
<1>4. threads' = [threads EXCEPT ![t] = r]
  BY DEF AddEnter
<1>5. lists[field] \in ListRecord
  BY <1>3 DEF IInv, TypeOK
<1>6. r \in ThreadRecord
  <2> DEFINE array == lists[field].array
             i == threads[t].i + 1
  <2>1. array \in Nat /\ i \in Nat
    BY <1>1, <1>5 DEF ListRecord, ThreadRecord
  <2> HIDE DEF array, i
  <2>2. [threads[t] EXCEPT !.line = "grow", !.list = field, !.i = i,
                           !.array = array] \in ThreadRecord
    BY <1>1, <1>3, <2>1 DEF ThreadRecord, Loading
  <2> QED
    BY <2>2 DEF array, i
<1>7. r.line = "grow" /\ r.list = field /\ r.i = threads[t].i + 1
  BY <1>1 DEF ThreadRecord
<1>8. threads[t].i \in Nat /\ threads[t].i < Len(Regexes) /\ Len(Regexes) \in Nat
      /\ field # NULL
  BY <1>1, <1>2, GateAssumption DEF ThreadRecord, ThreadOK, AfterCheck
<1> HIDE DEF r
<1>9. ThreadOK(r, field')
  BY <1>2, <1>3, <1>7, <1>8 DEF ThreadOK
<1>10. threads' \in [Threads -> ThreadRecord] /\ ThreadsOK'
  BY <1>2, <1>3, <1>4, <1>6, <1>9, ThreadMoves
<1>11. list \in ListRecord
  BY <1>5 DEF ListRecord
<1>12. lists' = [lists EXCEPT ![field] = list]
  BY DEF AddEnter
<1> HIDE DEF list
<1>13. lists' \in [Threads -> ListRecord]
  BY <1>3, <1>11, <1>12 DEF IInv, TypeOK
<1> QED
  BY <1>10, <1>13 DEF AddEnter, IInv, TypeOK

LEMMA AddGrowStep ==
  ASSUME IInv, NEW t \in Threads, AddGrow(t)
  PROVE  IInv'
<1> DEFINE l == threads[t].list
           array == IF threads[t].array = 0 THEN lists[l].array + 1
                    ELSE lists[l].array
           r == [threads[t] EXCEPT !.line = "bump", !.array = array,
                                   !.size = lists[l].size]
<1>1. threads[t] \in ThreadRecord /\ ThreadOK(threads[t], field)
  BY ThreadType
<1>2. threads[t].line = "grow" /\ field' = field
  BY DEF AddGrow
<1>3. l \in Threads /\ field \in Threads \cup {NULL} /\ field # NULL
  BY <1>1, <1>2 DEF IInv, TypeOK, ThreadOK, AfterCheck
<1>4. lists[l] \in ListRecord
  BY <1>3 DEF IInv, TypeOK
<1>5. array \in Nat /\ lists[l].size \in Nat
  BY <1>1, <1>4 DEF ThreadRecord, ListRecord
<1>6. threads' = [threads EXCEPT ![t] = r]
  BY DEF AddGrow
<1>7. PICK lost \in SUBSET (1..MaxSlots) :
        lists' = [lists EXCEPT
                    ![l] = [lists[l] EXCEPT
                              !.array = array,
                              !.slots = [i \in 1..MaxSlots |->
                                           IF i \in lost THEN NULL
                                           ELSE lists[l].slots[i]]]]
  BY DEF AddGrow
<1> HIDE DEF array
<1>8. r \in ThreadRecord
  BY <1>1, <1>5 DEF ThreadRecord, Loading
<1>9. r.line = "bump" /\ r.list = l /\ r.i = threads[t].i
  BY <1>1 DEF ThreadRecord
<1>10. threads[t].i \in 1..Len(Regexes)
  BY <1>1, <1>2 DEF ThreadOK
<1> DEFINE slots == [i \in 1..MaxSlots |->
                       IF i \in lost THEN NULL ELSE lists[l].slots[i]]
           list == [lists[l] EXCEPT !.array = array, !.slots = slots]
<1>11. slots \in [1..MaxSlots -> Configured \cup {NULL}]
  BY <1>4 DEF ListRecord
<1>12. lists' = [lists EXCEPT ![l] = list]
  BY <1>7
<1> HIDE DEF slots
<1>13. list \in ListRecord
  BY <1>4, <1>5, <1>11 DEF ListRecord
<1> HIDE DEF list, l, r
<1>14. lists' \in [Threads -> ListRecord]
  BY <1>3, <1>12, <1>13 DEF IInv, TypeOK
<1>15. ThreadOK(r, field')
  BY <1>2, <1>3, <1>9, <1>10 DEF ThreadOK
<1>16. threads' \in [Threads -> ThreadRecord] /\ ThreadsOK'
  BY <1>2, <1>3, <1>6, <1>8, <1>15, ThreadMoves
<1> QED
  BY <1>14, <1>16 DEF AddGrow, IInv, TypeOK

LEMMA AddBumpStep ==
  ASSUME IInv, NEW t \in Threads, AddBump(t)
  PROVE  IInv'
<1>1. threads[t] \in ThreadRecord /\ ThreadOK(threads[t], field)
  BY ThreadType
<1>2. /\ threads[t].line = "bump" /\ threads[t].size < MaxSlots
      /\ field' = field /\ Goto(t, "store")
  BY DEF AddBump
<1>3. /\ threads[t].list \in Threads /\ threads[t].size \in Nat
      /\ field \in Threads \cup {NULL}
  BY <1>1, <1>2 DEF IInv, TypeOK, ThreadOK, ThreadRecord
<1>4. /\ [threads[t] EXCEPT !.line = "store"] \in ThreadRecord
      /\ ThreadOK([threads[t] EXCEPT !.line = "store"], field')
  BY <1>1, <1>2 DEF ThreadRecord, ThreadOK, Loading, AfterCheck
<1>5. threads' \in [Threads -> ThreadRecord] /\ ThreadsOK'
  BY <1>2, <1>3, <1>4, GotoStep
<1>6. threads[t].size + 1 \in 0..MaxSlots
  BY <1>2, <1>3, GateAssumption
<1>7. lists' \in [Threads -> ListRecord]
  BY <1>3, <1>6 DEF AddBump, IInv, TypeOK, ListRecord
<1> QED
  BY <1>5, <1>7 DEF AddBump, IInv, TypeOK

LEMMA AddStoreStep ==
  ASSUME IInv, NEW t \in Threads, AddStore(t)
  PROVE  IInv'
<1> DEFINE l == threads[t].list
           line == IF threads[t].i < Len(Regexes) THEN "enter" ELSE "return"
           list == [lists[l] EXCEPT !.slots[threads[t].size + 1] =
                                      Regexes[threads[t].i]]
<1>1. threads[t] \in ThreadRecord /\ ThreadOK(threads[t], field)
  BY ThreadType
<1>2. threads[t].line = "store" /\ field' = field /\ Goto(t, line)
  BY DEF AddStore
<1>3. l \in Threads /\ field \in Threads \cup {NULL}
  BY <1>1, <1>2 DEF IInv, TypeOK, ThreadOK
<1>4. /\ [threads[t] EXCEPT !.line = line] \in ThreadRecord
      /\ ThreadOK([threads[t] EXCEPT !.line = line], field')
  <2>1. CASE threads[t].i < Len(Regexes)
    BY <1>1, <1>2, <2>1 DEF ThreadRecord, ThreadOK, Loading, AfterCheck
  <2>2. CASE ~(threads[t].i < Len(Regexes))
    BY <1>1, <1>2, <2>2 DEF ThreadRecord, ThreadOK, AfterCheck
  <2> QED
    BY <2>1, <2>2
<1>5. Regexes[threads[t].i] \in Configured
  BY <1>1, <1>2, RegexType DEF ThreadOK
<1>6. lists[l] \in ListRecord
  BY <1>3 DEF IInv, TypeOK
<1>7. list \in ListRecord
  BY <1>5, <1>6 DEF ListRecord
<1>8. lists' = lists \/ lists' = [lists EXCEPT ![l] = list]
  BY DEF AddStore, Store
<1> HIDE DEF line, list, l
<1>9. threads' \in [Threads -> ThreadRecord] /\ ThreadsOK'
  BY <1>2, <1>3, <1>4, GotoStep
<1>10. lists' \in [Threads -> ListRecord]
  BY <1>3, <1>7, <1>8 DEF IInv, TypeOK
<1> QED
  BY <1>9, <1>10 DEF AddStore, IInv, TypeOK

LEMMA ReturnLoadedStep ==
  ASSUME IInv, NEW t \in Threads, ReturnLoaded(t)
  PROVE  IInv'
<1> DEFINE r == [threads[t] EXCEPT !.line = "empty", !.list = field]
<1>1. threads[t] \in ThreadRecord /\ ThreadOK(threads[t], field)
  BY ThreadType
<1>2. threads[t].line = "return" /\ field' = field
  BY DEF ReturnLoaded
<1>3. field \in Threads /\ field # NULL
  BY <1>1, <1>2 DEF IInv, TypeOK, ThreadOK, AfterCheck
<1>4. r \in ThreadRecord /\ ThreadOK(r, field')
  BY <1>1, <1>2, <1>3 DEF ThreadRecord, ThreadOK, AfterCheck, Deciding
<1>5. threads' = [threads EXCEPT ![t] = r]
  BY DEF ReturnLoaded
<1> HIDE DEF r
<1>6. threads' \in [Threads -> ThreadRecord] /\ ThreadsOK'
  BY <1>2, <1>3, <1>4, <1>5, ThreadMoves
<1> QED
  BY <1>6 DEF ReturnLoaded, IInv, TypeOK

LEMMA IsEmptyStep ==
  ASSUME IInv, NEW t \in Threads, IsEmpty(t)
  PROVE  IInv'
<1> DEFINE line == IF lists[threads[t].list].size = 0 THEN "open" ELSE "again"
<1>1. threads[t] \in ThreadRecord /\ ThreadOK(threads[t], field)
  BY ThreadType
<1>2. threads[t].line = "empty" /\ field' = field /\ Goto(t, line)
  BY DEF IsEmpty
<1>3. line \in {"open", "again"}
  OBVIOUS
<1> HIDE DEF line
<1>4. /\ [threads[t] EXCEPT !.line = line] \in ThreadRecord
      /\ ThreadOK([threads[t] EXCEPT !.line = line], field')
  BY <1>1, <1>2, <1>3 DEF ThreadRecord, ThreadOK, Deciding, Verdicts, AfterCheck
<1>5. field \in Threads \cup {NULL}
  BY DEF IInv, TypeOK
<1>6. threads' \in [Threads -> ThreadRecord] /\ ThreadsOK'
  BY <1>2, <1>4, <1>5, GotoStep
<1> QED
  BY <1>6 DEF IsEmpty, IInv, TypeOK

LEMMA StartIterationStep ==
  ASSUME IInv, NEW t \in Threads, StartIteration(t)
  PROVE  IInv'
<1> DEFINE r == [threads[t] EXCEPT !.line = "iterate", !.list = field,
                                   !.i = 0, !.mods = lists[field].mods]
<1>1. threads[t] \in ThreadRecord /\ ThreadOK(threads[t], field)
  BY ThreadType
<1>2. threads[t].line = "again" /\ field' = field
  BY DEF StartIteration
<1>3. field \in Threads /\ field # NULL
  BY <1>1, <1>2 DEF IInv, TypeOK, ThreadOK, AfterCheck
<1>4. lists[field].mods \in Nat
  BY <1>3 DEF IInv, TypeOK, ListRecord
<1>5. r \in ThreadRecord /\ ThreadOK(r, field')
  BY <1>1, <1>2, <1>3, <1>4 DEF ThreadRecord, ThreadOK, AfterCheck, Deciding
<1>6. threads' = [threads EXCEPT ![t] = r]
  BY DEF StartIteration
<1> HIDE DEF r
<1>7. threads' \in [Threads -> ThreadRecord] /\ ThreadsOK'
  BY <1>2, <1>3, <1>5, <1>6, ThreadMoves
<1> QED
  BY <1>7 DEF StartIteration, IInv, TypeOK

LEMMA IterateStep ==
  ASSUME IInv, NEW t \in Threads, Iterate(t)
  PROVE  IInv'
<1> DEFINE list == lists[threads[t].list]
           i    == threads[t].i
<1>1. threads[t] \in ThreadRecord /\ ThreadOK(threads[t], field)
  BY ThreadType
<1>2. threads[t].line = "iterate" /\ field' = field
  BY DEF Iterate
<1>3. /\ threads[t].list \in Threads /\ field \in Threads \cup {NULL}
      /\ list \in ListRecord /\ i \in Nat
  BY <1>1, <1>2 DEF IInv, TypeOK, ThreadOK, ThreadRecord
<1>4. \/ Goto(t, "denied") \/ Goto(t, "failed")
      \/ /\ Goto(t, "matched")
         /\ i < list.size
         /\ <<threads[t].target, list.slots[i + 1]>> \in Matches
      \/ threads' = [threads EXCEPT ![t] = [threads[t] EXCEPT !.i = i + 1]]
  BY DEF Iterate
<1>5. ASSUME NEW line \in {"denied", "failed"}, Goto(t, line)
      PROVE  threads' \in [Threads -> ThreadRecord] /\ ThreadsOK'
  <2>1. /\ [threads[t] EXCEPT !.line = line] \in ThreadRecord
        /\ ThreadOK([threads[t] EXCEPT !.line = line], field')
    BY <1>1, <1>2 DEF ThreadRecord, ThreadOK, Verdicts, AfterCheck
  <2> QED
    BY <1>2, <1>3, <1>5, <2>1, GotoStep
<1>6. ASSUME Goto(t, "matched"), i < list.size,
             <<threads[t].target, list.slots[i + 1]>> \in Matches
      PROVE  threads' \in [Threads -> ThreadRecord] /\ ThreadsOK'
  <2>1. list.slots[i + 1] \in Configured
    BY <1>6, GateAssumption
  <2>2. SomeMatch(threads[t].target)
    BY <1>6, <2>1 DEF SomeMatch, Configured
  <2>3. /\ [threads[t] EXCEPT !.line = "matched"] \in ThreadRecord
        /\ ThreadOK([threads[t] EXCEPT !.line = "matched"], field')
    BY <1>1, <1>2, <2>2 DEF ThreadRecord, ThreadOK, Verdicts, AfterCheck
  <2> QED
    BY <1>2, <1>3, <1>6, <2>3, GotoStep
<1>7. ASSUME threads' = [threads EXCEPT ![t] = [threads[t] EXCEPT !.i = i + 1]]
      PROVE  threads' \in [Threads -> ThreadRecord] /\ ThreadsOK'
  <2> DEFINE r == [threads[t] EXCEPT !.i = i + 1]
  <2>1. r \in ThreadRecord /\ ThreadOK(r, field')
    BY <1>1, <1>2, <1>3 DEF ThreadRecord, ThreadOK, AfterCheck
  <2>2. threads' = [threads EXCEPT ![t] = r]
    BY <1>7
  <2> HIDE DEF r
  <2> QED
    BY <1>2, <1>3, <2>1, <2>2, ThreadMoves
<1>8. threads' \in [Threads -> ThreadRecord] /\ ThreadsOK'
  BY <1>4, <1>5, <1>6, <1>7
<1> QED
  BY <1>8 DEF Iterate, IInv, TypeOK

-----------------------------------------------------------------------------
(* The invariant is inductive.                                             *)
THEOREM Inductive == Spec => []IInv
<1>1. Init => IInv
  <2> SUFFICES ASSUME Init PROVE IInv
    OBVIOUS
  <2>1. IdleThread \in ThreadRecord /\ ThreadOK(IdleThread, field)
    BY DEF IdleThread, ThreadRecord, ThreadOK, AfterCheck
  <2>2. NewList \in ListRecord
    BY NewListType
  <2> QED
    BY <2>1, <2>2 DEF Init, IInv, TypeOK, ThreadsOK
<1>2. IInv /\ [Next]_vars => IInv'
  <2> SUFFICES ASSUME IInv, [Next]_vars PROVE IInv'
    OBVIOUS
  <2>1. CASE UNCHANGED vars
    BY <2>1 DEF vars, IInv, TypeOK, ThreadsOK
  <2>2. CASE Next
    <3>1. PICK t \in Threads :
            Step(t) \/ \E target \in Targets : Request(t, target)
      BY <2>2 DEF Next
    <3>2. CASE Step(t)
      BY <3>2, CheckNullStep, AssignStep, ParseConfigStep, AddEnterStep,
         AddGrowStep, AddBumpStep, AddStoreStep, ReturnLoadedStep,
         IsEmptyStep, StartIterationStep, IterateStep DEF Step
    <3>3. CASE \E target \in Targets : Request(t, target)
      BY <3>3, RequestStep
    <3> QED
      BY <3>1, <3>2, <3>3
  <2> QED
    BY <2>1, <2>2
<1> QED
  BY <1>1, <1>2, PTL DEF Spec

(* Type correctness, in every interleaving of the requests.                *)
THEOREM TypeCorrect == Spec => []TypeOK
<1>1. IInv => TypeOK
  BY DEF IInv
<1> QED
  BY <1>1, Inductive, PTL

(* However loads race, a grant that was matched was matched by a regex of  *)
(* the configuration file.                                                 *)
THEOREM MatchesAlwaysConfigured == Spec => []MatchesAreConfigured
<1>1. IInv => MatchesAreConfigured
  BY DEF IInv, ThreadsOK, ThreadOK, MatchesAreConfigured
<1> QED
  BY <1>1, Inductive, PTL

(* After a load that no other one overlaps, the list is final.             *)
THEOREM WarmStaysWarm == Spec => WarmIsForever
<1>1. IInv /\ [Next]_vars => [Warm => Warm' /\ UNCHANGED <<field, lists>>]_vars
  <2> SUFFICES ASSUME IInv, Next, Warm
               PROVE  Warm' /\ UNCHANGED <<field, lists>>
    BY DEF vars
  <2>1. PICK t \in Threads :
          Step(t) \/ \E target \in Targets : Request(t, target)
    BY DEF Next
  <2>2. threads \in [Threads -> ThreadRecord]
    BY DEF IInv, TypeOK
  <2>3. field # NULL /\ threads[t].line \notin Loading
    BY DEF Warm
  <2>4. ASSUME NEW r, threads' = [threads EXCEPT ![t] = r], r.line \notin Loading,
               UNCHANGED <<field, lists>>
        PROVE  Warm' /\ UNCHANGED <<field, lists>>
    BY <2>2, <2>4 DEF Warm
  <2>5. ASSUME NEW line, Goto(t, line), line \notin Loading,
               UNCHANGED <<field, lists>>
        PROVE  Warm' /\ UNCHANGED <<field, lists>>
    <3>1. [threads[t] EXCEPT !.line = line].line = line
      BY <2>2 DEF ThreadRecord
    <3> QED
      BY <2>4, <2>5, <3>1, GotoMoves
  <2>6. CASE \E target \in Targets : Request(t, target)
    <3>1. PICK target \in Targets : Request(t, target)
      BY <2>6
    <3> QED
      BY <2>4, <3>1 DEF Request, IdleThread, Loading
  <2>7. CASE CheckNull(t)
    <3> DEFINE r == [threads[t] EXCEPT !.line = IF field = NULL THEN "assign"
                                                ELSE "empty",
                                       !.list = field]
    <3>1. r.line = "empty"
      BY <2>2, <2>3 DEF ThreadRecord
    <3>2. threads' = [threads EXCEPT ![t] = r] /\ UNCHANGED <<field, lists>>
      BY <2>7 DEF CheckNull
    <3> HIDE DEF r
    <3> QED
      BY <2>4, <3>1, <3>2 DEF Loading
  <2>8. CASE Assign(t) \/ ParseConfig(t) \/ AddEnter(t) \/ AddGrow(t)
             \/ AddBump(t) \/ AddStore(t)
    BY <2>3, <2>8 DEF Assign, ParseConfig, AddEnter, AddGrow, AddBump,
       AddStore, Loading
  <2>9. CASE ReturnLoaded(t)
    <3> DEFINE r == [threads[t] EXCEPT !.line = "empty", !.list = field]
    <3>1. r.line = "empty"
      BY <2>2 DEF ThreadRecord
    <3>2. threads' = [threads EXCEPT ![t] = r] /\ UNCHANGED <<field, lists>>
      BY <2>9 DEF ReturnLoaded
    <3> HIDE DEF r
    <3> QED
      BY <2>4, <3>1, <3>2 DEF Loading
  <2>10. CASE IsEmpty(t)
    BY <2>5, <2>10 DEF IsEmpty, Loading
  <2>11. CASE StartIteration(t)
    <3> DEFINE r == [threads[t] EXCEPT !.line = "iterate", !.list = field,
                                       !.i = 0, !.mods = lists[field].mods]
    <3>1. r.line = "iterate"
      BY <2>2 DEF ThreadRecord
    <3>2. threads' = [threads EXCEPT ![t] = r] /\ UNCHANGED <<field, lists>>
      BY <2>11 DEF StartIteration
    <3> HIDE DEF r
    <3> QED
      BY <2>4, <3>1, <3>2 DEF Loading
  <2>12. CASE Iterate(t)
    <3> DEFINE r == [threads[t] EXCEPT !.i = threads[t].i + 1]
    <3>1. UNCHANGED <<field, lists>>
      BY <2>12 DEF Iterate
    <3>2. \/ Goto(t, "denied") \/ Goto(t, "failed") \/ Goto(t, "matched")
          \/ threads' = [threads EXCEPT ![t] = r]
      BY <2>12 DEF Iterate
    <3>3. r.line \notin Loading
      BY <2>2, <2>3 DEF ThreadRecord
    <3> HIDE DEF r
    <3> QED
      BY <2>4, <2>5, <3>1, <3>2, <3>3 DEF Loading
  <2> QED
    BY <2>1, <2>6, <2>7, <2>8, <2>9, <2>10, <2>11, <2>12 DEF Step
<1> QED
  BY <1>1, Inductive, PTL DEF Spec, WarmIsForever

-----------------------------------------------------------------------------
(* Decisions after a load that no other one overlaps                       *)

Solo == \A u, v \in loaders : u = v

HasRegexes == readable /\ Regexes # <<>>

(* The first n regexes are where they belong.                              *)
Filled(list, n) == \A i \in 1..n : list.slots[i] = Regexes[i]

Complete(list) ==
  IF HasRegexes THEN list.size = Len(Regexes) /\ Filled(list, Len(Regexes))
  ELSE list.size = 0

(* How far the one loading thread th has come with its list.               *)
LoaderOK(th, list) ==
  /\ th.line = "parse" => list.size = 0 /\ list.array = 0
  /\ th.line \in {"enter", "grow", "bump", "store"} => HasRegexes
  /\ th.line = "enter" => /\ list.size = th.i /\ Filled(list, th.i)
                          /\ list.array = 0 => th.i = 0
  /\ th.line \in {"grow", "bump", "store"} =>
       /\ th.list = field /\ th.array = list.array
       /\ Filled(list, th.i - 1)
  /\ th.line = "grow" => /\ list.size = th.i - 1
                         /\ list.array = 0 => th.i = 1
  /\ th.line \in {"bump", "store"} => list.array # 0 /\ th.size = th.i - 1
  /\ th.line = "bump" => list.size = th.i - 1
  /\ th.line = "store" => list.size = th.i
  /\ th.line \notin Loading => Complete(list)

(* What a request that came after the load knows.                          *)
WarmOK(th, list) ==
  /\ th.line \in Deciding \cup Verdicts
  /\ th.line = "empty" => th.list = field
  /\ th.line \in {"again", "iterate", "matched", "denied"} => HasRegexes
  /\ th.line = "iterate" =>
       /\ th.list = field /\ th.mods = list.mods /\ th.i <= Len(Regexes)
       /\ \A i \in 1..th.i : <<th.target, Regexes[i]>> \notin Matches
  /\ th.line = "open" => ~HasRegexes
  /\ th.line = "matched" => SomeMatch(th.target)
  /\ th.line = "denied" => ~SomeMatch(th.target)
  /\ th.line # "failed"

SoloOK ==
  Solo => /\ field # NULL => LoaderOK(threads[field], lists[field])
          /\ \A t \in Threads : warm[t] => WarmOK(threads[t], lists[field])

SoloInv ==
  /\ field # NULL => field \in loaders
  /\ \A t \in Threads : warm[t] => Warm
  /\ \A t \in Threads :
       threads[t].line \in (Loading \ {"assign"}) \cup {"return"} => t \in loaders
  /\ SoloOK

(* The lines that lead to no load.                                         *)
Quiet(line) ==
  line \notin Loading \cup {"return"} \/ (line = "assign" /\ field = NULL)

(* A step outside loading changes no list, and leads to no load.           *)
LEMMA QuietStep ==
  ASSUME IInv, SoloInv, NEW t \in Threads, NEW r,
         threads' = [threads EXCEPT ![t] = r],
         UNCHANGED <<readable, field, lists, loaders>>,
         threads[t].line \notin Loading,
         Quiet(r.line),
         \A u \in Threads : warm'[u] => warm[u] \/ (u = t /\ Warm),
         Solo /\ Warm /\ warm'[t] => WarmOK(r, lists[field])
  PROVE  SoloInv'
<1>1. /\ threads' \in [Threads -> {threads[u] : u \in Threads} \cup {r}]
      /\ threads'[t] = r
      /\ \A u \in Threads \ {t} : threads'[u] = threads[u]
  BY DEF IInv, TypeOK
<1>2. \A u \in Threads \ {t} : warm'[u] => warm[u]
  OBVIOUS
<1>3. \A u \in Threads : warm'[u] => Warm
  BY DEF SoloInv
<1>4. Warm => Warm' /\ r.line \notin Loading
  BY <1>1 DEF Warm, Loading, Quiet
<1>5. \A u \in Threads :
        threads'[u].line \in (Loading \ {"assign"}) \cup {"return"} => u \in loaders
  BY <1>1 DEF SoloInv, Loading, Quiet
<1>6. ASSUME Solo, field # NULL
      PROVE  LoaderOK(threads'[field], lists[field])
  <2>1. LoaderOK(threads[field], lists[field])
    BY <1>6 DEF SoloInv, SoloOK
  <2>2. CASE t = field
    <3>1. Complete(lists[field])
      BY <2>1, <2>2 DEF LoaderOK
    <3>2. r.line \notin Loading \cup {"return"}
      BY <1>6 DEF Quiet
    <3> QED
      BY <1>1, <2>2, <3>1, <3>2 DEF LoaderOK, Loading
  <2>3. CASE t # field
    <3>1. threads'[field] = threads[field]
      BY <1>1, <1>6, <2>3 DEF IInv, TypeOK
    <3> QED
      BY <2>1, <3>1
  <2> QED
    BY <2>2, <2>3
<1>7. ASSUME Solo, NEW u \in Threads, warm'[u]
      PROVE  WarmOK(threads'[u], lists[field])
  <2>1. Warm /\ r.line \notin Loading
    BY <1>3, <1>4, <1>7
  <2>2. CASE u = t
    BY <1>1, <1>7, <2>1, <2>2
  <2>3. CASE u # t
    BY <1>1, <1>2, <1>7, <2>3 DEF SoloInv, SoloOK
  <2> QED
    BY <2>2, <2>3
<1>8. SoloOK'
  <2> SUFFICES ASSUME Solo'
               PROVE  /\ field # NULL => LoaderOK(threads[field], lists[field])'
                      /\ \A u \in Threads : warm'[u] => WarmOK(threads[u], lists[field])'
    BY DEF SoloOK
  <2>1. Solo
    BY DEF Solo
  <2> QED
    BY <1>6, <1>7, <2>1 DEF LoaderOK, WarmOK, Complete, HasRegexes, Filled
<1> QED
  BY <1>3, <1>4, <1>5, <1>8 DEF SoloInv

(* A step of the one thread that loads: no request is warm yet.            *)
LEMMA LoadingStep ==
  ASSUME IInv, SoloInv, NEW t \in Threads, NEW r,
         threads' = [threads EXCEPT ![t] = r],
         UNCHANGED <<readable, field, loaders, warm>>,
         threads[t].line \in Loading \ {"assign"},
         Solo /\ t = field => LoaderOK(r, lists'[field])
  PROVE  SoloInv'
<1>1. /\ threads'[t] = r
      /\ \A u \in Threads \ {t} : threads'[u] = threads[u]
  BY DEF IInv, TypeOK
<1>2. t \in loaders /\ field # NULL /\ field \in loaders
  BY ThreadType DEF SoloInv, Loading, ThreadOK, AfterCheck
<1>3. \A u \in Threads : ~warm[u]
  BY DEF SoloInv, Warm
<1>4. \A u \in Threads :
        threads'[u].line \in (Loading \ {"assign"}) \cup {"return"} => u \in loaders
  BY <1>1, <1>2 DEF SoloInv
<1>5. SoloOK'
  <2> SUFFICES ASSUME Solo'
               PROVE  LoaderOK(threads[field], lists[field])'
    BY <1>3 DEF SoloOK
  <2>1. Solo /\ t = field
    BY <1>2 DEF Solo
  <2>2. LoaderOK(threads'[field], lists'[field])
    BY <1>1, <2>1
  <2> QED
    BY <2>2 DEF LoaderOK, Complete, HasRegexes, Filled
<1> QED
  BY <1>2, <1>3, <1>4, <1>5 DEF SoloInv

(* The one thread that loads, and its list.                                *)
LEMMA TheLoader ==
  ASSUME IInv, SoloInv, NEW t \in Threads, Solo, t = field
  PROVE  /\ LoaderOK(threads[t], lists[t]) /\ lists[t] \in ListRecord
         /\ threads[t] \in ThreadRecord /\ ThreadOK(threads[t], field)
<1>1. field # NULL
  BY GateAssumption DEF IInv, TypeOK
<1> QED
  BY <1>1, ThreadType DEF IInv, TypeOK, SoloInv, SoloOK

LEMMA AssignKeepsSolo ==
  ASSUME IInv, SoloInv, NEW t \in Threads, Assign(t)
  PROVE  SoloInv'
<1> DEFINE r == [threads[t] EXCEPT !.line = "parse"]
<1>1. threads[t] \in ThreadRecord /\ ThreadOK(threads[t], field)
  BY ThreadType
<1>2. r.line = "parse" /\ threads' = [threads EXCEPT ![t] = r]
  BY <1>1, GotoMoves DEF Assign, ThreadRecord
<1> HIDE DEF r
<1>3. /\ threads'[t].line = "parse" /\ lists'[t] = NewList
      /\ \A u \in Threads \ {t} : threads'[u] = threads[u]
      /\ field' = t /\ loaders' = loaders \cup {t} /\ warm' = warm
  BY <1>2 DEF Assign, IInv, TypeOK
<1>4. threads[t].line \in Loading
  BY DEF Assign, Loading
<1>5. \A u \in Threads : ~warm[u]
  BY <1>4 DEF SoloInv, Warm
<1>6. \A u \in Threads :
        threads'[u].line \in (Loading \ {"assign"}) \cup {"return"} => u \in loaders'
  BY <1>3 DEF SoloInv
<1>7. LoaderOK(threads[field], lists[field])'
  BY <1>3 DEF LoaderOK, NewList, Loading
<1> QED
  BY <1>3, <1>5, <1>6, <1>7 DEF SoloInv, SoloOK

LEMMA ParseConfigKeepsSolo ==
  ASSUME IInv, SoloInv, NEW t \in Threads, ParseConfig(t)
  PROVE  SoloInv'
<1> DEFINE line == IF HasRegexes THEN "enter" ELSE "return"
           r == [threads[t] EXCEPT !.line = line]
<1>1. threads[t] \in ThreadRecord /\ ThreadOK(threads[t], field)
  BY ThreadType
<1>2. r.line = line /\ r.i = threads[t].i /\ threads[t].i = 0
  BY <1>1 DEF ParseConfig, ThreadRecord, ThreadOK
<1>3. threads' = [threads EXCEPT ![t] = r]
  BY GotoMoves DEF ParseConfig, HasRegexes
<1>4. ASSUME Solo, t = field
      PROVE  LoaderOK(r, lists'[field])
  <2>1. lists[field].size = 0 /\ lists[field].array = 0
    BY <1>4, TheLoader DEF LoaderOK, ParseConfig
  <2>2. CASE HasRegexes
    BY <1>2, <2>1, <2>2 DEF LoaderOK, Loading, Filled, ParseConfig
  <2>3. CASE ~HasRegexes
    BY <1>2, <2>1, <2>3 DEF LoaderOK, Loading, Complete, ParseConfig
  <2> QED
    BY <2>2, <2>3
<1> HIDE DEF r
<1>5. threads[t].line \in Loading \ {"assign"}
  BY DEF ParseConfig, Loading
<1> QED
  BY <1>3, <1>4, <1>5, LoadingStep DEF ParseConfig

LEMMA AddEnterKeepsSolo ==
  ASSUME IInv, SoloInv, NEW t \in Threads, AddEnter(t)
  PROVE  SoloInv'
<1> DEFINE r == [threads[t] EXCEPT !.line = "grow", !.list = field,
                                   !.i = threads[t].i + 1,
                                   !.array = lists[field].array]
<1>1. threads[t] \in ThreadRecord /\ threads[t].line = "enter"
  BY ThreadType DEF AddEnter
<1>2. threads' = [threads EXCEPT ![t] = r]
  BY DEF AddEnter
<1>3. ASSUME Solo, t = field
      PROVE  LoaderOK(r, lists'[field])
  <2>1. /\ LoaderOK(threads[t], lists[t]) /\ lists[t] \in ListRecord
        /\ lists'[t] = [lists[t] EXCEPT !.mods = lists[t].mods + 1]
    BY <1>3, TheLoader DEF AddEnter, IInv, TypeOK
  <2>2. /\ lists'[t].size = lists[t].size /\ lists'[t].slots = lists[t].slots
        /\ lists'[t].array = lists[t].array
    BY <2>1 DEF ListRecord
  <2>3. /\ r.line = "grow" /\ r.list = field /\ r.i = threads[t].i + 1
        /\ r.array = lists[field].array /\ threads[t].i \in Nat
    BY <1>1 DEF ThreadRecord
  <2> HIDE DEF r
  <2> QED
    BY <1>1, <1>3, <2>1, <2>2, <2>3 DEF LoaderOK, Loading, Filled
<1> HIDE DEF r
<1>4. threads[t].line \in Loading \ {"assign"}
  BY <1>1 DEF Loading
<1> QED
  BY <1>2, <1>3, <1>4, LoadingStep DEF AddEnter

(* The list of the one thread that loads is empty when it gets its array,  *)
(* so nothing in it is lost.                                               *)
LEMMA AddGrowKeepsSolo ==
  ASSUME IInv, SoloInv, NEW t \in Threads, AddGrow(t)
  PROVE  SoloInv'
<1> DEFINE l == threads[t].list
           makes == threads[t].array = 0
           array == IF makes THEN lists[l].array + 1 ELSE lists[l].array
           r == [threads[t] EXCEPT !.line = "bump", !.array = array,
                                   !.size = lists[l].size]
<1>1. threads[t] \in ThreadRecord /\ threads[t].line = "grow"
  BY ThreadType DEF AddGrow
<1>2. threads' = [threads EXCEPT ![t] = r]
  BY DEF AddGrow
<1>3. ASSUME Solo, t = field
      PROVE  LoaderOK(r, lists'[field])
  <2>1. /\ LoaderOK(threads[t], lists[t]) /\ lists[t] \in ListRecord
        /\ ThreadOK(threads[t], field) /\ l = t
    BY <1>1, <1>3, TheLoader DEF LoaderOK
  <2>2. PICK lost \in SUBSET (1..MaxSlots) :
          /\ makes \/ lost = {}
          /\ lists' = [lists EXCEPT
               ![l] = [lists[l] EXCEPT
                         !.array = array,
                         !.slots = [i \in 1..MaxSlots |->
                                      IF i \in lost THEN NULL
                                      ELSE lists[l].slots[i]]]]
    BY DEF AddGrow
  <2>3. /\ lists'[t].size = lists[t].size /\ lists'[t].array = array
        /\ lists'[t].slots = [i \in 1..MaxSlots |->
                                IF i \in lost THEN NULL ELSE lists[t].slots[i]]
    BY <2>1, <2>2 DEF IInv, TypeOK, ListRecord
  <2>4. /\ r.line = "bump" /\ r.list = l /\ r.i = threads[t].i
        /\ r.array = array /\ r.size = lists[t].size
        /\ threads[t].i \in 1..Len(Regexes)
        /\ lists[t].size = threads[t].i - 1 /\ lists[t].size <= MaxSlots
        /\ threads[t].array = lists[t].array /\ lists[t].array \in Nat
        /\ lists[t].array = 0 => threads[t].i = 1
        /\ Filled(lists[t], threads[t].i - 1) /\ HasRegexes
    BY <1>1, <2>1, GateAssumption DEF ThreadRecord, LoaderOK, ThreadOK, ListRecord
  <2>5. array # 0
    BY <2>1, <2>4
  <2>6. Filled(lists'[t], threads[t].i - 1)
    <3>1. CASE makes
      BY <2>4, <3>1 DEF Filled
    <3>2. CASE ~makes
      <4>1. lost = {} /\ \A i \in 1..(threads[t].i - 1) : i \in 1..MaxSlots
        BY <2>2, <2>4, <3>2, GateAssumption
      <4> QED
        BY <2>3, <2>4, <4>1 DEF Filled
    <3> QED
      BY <3>1, <3>2
  <2> HIDE DEF r, array
  <2> QED
    BY <1>3, <2>1, <2>3, <2>4, <2>5, <2>6 DEF LoaderOK, Loading
<1> HIDE DEF r
<1>4. threads[t].line \in Loading \ {"assign"}
  BY <1>1 DEF Loading
<1> QED
  BY <1>2, <1>3, <1>4, LoadingStep DEF AddGrow

LEMMA AddBumpKeepsSolo ==
  ASSUME IInv, SoloInv, NEW t \in Threads, AddBump(t)
  PROVE  SoloInv'
<1> DEFINE r == [threads[t] EXCEPT !.line = "store"]
<1>1. threads[t] \in ThreadRecord /\ threads[t].line = "bump"
  BY ThreadType DEF AddBump
<1>2. threads' = [threads EXCEPT ![t] = r]
  BY GotoMoves DEF AddBump
<1>3. ASSUME Solo, t = field
      PROVE  LoaderOK(r, lists'[field])
  <2>1. LoaderOK(threads[t], lists[t]) /\ lists[t] \in ListRecord
    BY <1>3, TheLoader
  <2>2. /\ r.line = "store" /\ r.list = threads[t].list /\ r.i = threads[t].i
        /\ r.array = threads[t].array /\ r.size = threads[t].size
        /\ threads[t].i \in Nat
    BY <1>1 DEF ThreadRecord
  <2>3. /\ threads[t].list = t /\ threads[t].size = threads[t].i - 1
    BY <1>1, <1>3, <2>1 DEF LoaderOK
  <2>4. lists'[t] = [lists[t] EXCEPT !.size = threads[t].size + 1]
    BY <2>3 DEF AddBump, IInv, TypeOK
  <2>5. /\ lists'[t].size = threads[t].i /\ lists'[t].slots = lists[t].slots
        /\ lists'[t].array = lists[t].array
    BY <2>1, <2>2, <2>3, <2>4 DEF ListRecord
  <2> HIDE DEF r
  <2> QED
    BY <1>1, <1>3, <2>1, <2>2, <2>5 DEF LoaderOK, Loading, Filled
<1> HIDE DEF r
<1>4. threads[t].line \in Loading \ {"assign"}
  BY <1>1 DEF Loading
<1> QED
  BY <1>2, <1>3, <1>4, LoadingStep DEF AddBump

LEMMA AddStoreKeepsSolo ==
  ASSUME IInv, SoloInv, NEW t \in Threads, AddStore(t)
  PROVE  SoloInv'
<1> DEFINE line == IF threads[t].i < Len(Regexes) THEN "enter" ELSE "return"
           r == [threads[t] EXCEPT !.line = line]
<1>1. threads[t] \in ThreadRecord /\ threads[t].line = "store"
  BY ThreadType DEF AddStore
<1>2. threads' = [threads EXCEPT ![t] = r]
  BY GotoMoves DEF AddStore
<1>3. ASSUME Solo, t = field
      PROVE  LoaderOK(r, lists'[field])
  <2>1. /\ LoaderOK(threads[t], lists[t]) /\ lists[t] \in ListRecord
        /\ ThreadOK(threads[t], field)
    BY <1>3, TheLoader
  <2>2. /\ threads[t].list = t /\ threads[t].size = threads[t].i - 1
        /\ threads[t].array = lists[t].array /\ lists[t].array # 0
        /\ lists[t].size = threads[t].i
        /\ Filled(lists[t], threads[t].i - 1) /\ HasRegexes
        /\ threads[t].i \in 1..Len(Regexes) /\ threads[t].i \in Nat
        /\ threads[t].i <= MaxSlots
    BY <1>1, <1>3, <2>1, GateAssumption DEF LoaderOK, ThreadOK, ListRecord, ThreadRecord
  <2>3. lists'[t] = [lists[t] EXCEPT !.slots[threads[t].i] = Regexes[threads[t].i]]
    BY <2>2 DEF AddStore, Store, IInv, TypeOK
  <2>4. /\ lists'[t].size = threads[t].i /\ lists'[t].array = lists[t].array
        /\ lists'[t].slots =
             [lists[t].slots EXCEPT ![threads[t].i] = Regexes[threads[t].i]]
        /\ lists[t].slots \in [1..MaxSlots -> Configured \cup {NULL}]
    BY <2>1, <2>2, <2>3 DEF ListRecord
  <2>5. Filled(lists'[t], threads[t].i)
    <3> SUFFICES ASSUME NEW i \in 1..threads[t].i
                 PROVE  lists'[t].slots[i] = Regexes[i]
      BY DEF Filled
    <3>1. CASE i = threads[t].i
      BY <2>2, <2>4, <3>1, GateAssumption
    <3>2. CASE i # threads[t].i
      <4>1. i \in 1..(threads[t].i - 1) /\ i \in 1..MaxSlots
        BY <2>2, <3>2, GateAssumption
      <4> QED
        BY <2>2, <2>4, <3>2, <4>1 DEF Filled
    <3> QED
      BY <3>1, <3>2
  <2>6. r.line = line /\ r.i = threads[t].i
    BY <1>1 DEF ThreadRecord
  <2> HIDE DEF r
  <2>7. CASE threads[t].i < Len(Regexes)
    BY <1>3, <2>2, <2>4, <2>5, <2>6, <2>7 DEF LoaderOK, Loading
  <2>8. CASE ~(threads[t].i < Len(Regexes))
    <3>1. threads[t].i = Len(Regexes)
      BY <2>2, <2>8
    <3>2. Complete(lists'[t])
      BY <2>2, <2>4, <2>5, <3>1 DEF Complete
    <3> QED
      BY <1>3, <2>6, <2>8, <3>2 DEF LoaderOK, Loading
  <2> QED
    BY <2>7, <2>8
<1> HIDE DEF r
<1>4. threads[t].line \in Loading \ {"assign"}
  BY <1>1 DEF Loading
<1> QED
  BY <1>2, <1>3, <1>4, LoadingStep DEF AddStore

(* What a warm request finds: the whole list, which nobody changes.        *)
LEMMA WarmFinds ==
  ASSUME IInv, SoloInv, NEW t \in Threads, Solo, warm[t]
  PROVE  /\ WarmOK(threads[t], lists[field])
         /\ Complete(lists[field]) /\ lists[field] \in ListRecord
         /\ field \in Threads
<1>1. field \in Threads /\ field # NULL /\ threads[field].line \notin Loading
  BY DEF SoloInv, Warm, IInv, TypeOK
<1> QED
  BY <1>1 DEF SoloInv, SoloOK, LoaderOK, IInv, TypeOK

LEMMA RequestKeepsSolo ==
  ASSUME IInv, SoloInv, NEW t \in Threads, NEW target \in Targets,
         Request(t, target)
  PROVE  SoloInv'
<1> DEFINE r == [IdleThread EXCEPT !.line = "check", !.target = target]
<1>1. /\ threads' = [threads EXCEPT ![t] = r]
      /\ warm' = [warm EXCEPT ![t] = Warm]
      /\ threads[t].line \notin Loading
  BY DEF Request, Verdicts, Loading
<1>2. r.line = "check"
  BY DEF IdleThread
<1> HIDE DEF r
<1>3. Quiet(r.line) /\ WarmOK(r, lists[field])
  BY <1>2 DEF Quiet, Loading, Deciding, WarmOK
<1>4. \A u \in Threads : warm'[u] => warm[u] \/ (u = t /\ Warm)
  BY <1>1 DEF IInv, TypeOK
<1> QED
  BY <1>1, <1>3, <1>4, QuietStep DEF Request

LEMMA CheckNullKeepsSolo ==
  ASSUME IInv, SoloInv, NEW t \in Threads, CheckNull(t)
  PROVE  SoloInv'
<1> DEFINE r == [threads[t] EXCEPT !.line = IF field = NULL THEN "assign"
                                            ELSE "empty",
                                   !.list = field]
<1>1. threads[t] \in ThreadRecord /\ threads[t].line = "check"
  BY ThreadType DEF CheckNull
<1>2. threads' = [threads EXCEPT ![t] = r]
  BY DEF CheckNull
<1>3. /\ r.line = IF field = NULL THEN "assign" ELSE "empty"
      /\ r.list = field
  BY <1>1 DEF ThreadRecord
<1> HIDE DEF r
<1>4. Quiet(r.line) /\ threads[t].line \notin Loading
  BY <1>1, <1>3 DEF Quiet, Loading
<1>5. ASSUME Warm PROVE WarmOK(r, lists[field])
  BY <1>3, <1>5 DEF Warm, WarmOK, Deciding
<1> QED
  BY <1>2, <1>4, <1>5, QuietStep DEF CheckNull

LEMMA ReturnLoadedKeepsSolo ==
  ASSUME IInv, SoloInv, NEW t \in Threads, ReturnLoaded(t)
  PROVE  SoloInv'
<1> DEFINE r == [threads[t] EXCEPT !.line = "empty", !.list = field]
<1>1. threads[t] \in ThreadRecord /\ threads[t].line = "return"
  BY ThreadType DEF ReturnLoaded
<1>2. threads' = [threads EXCEPT ![t] = r]
  BY DEF ReturnLoaded
<1>3. r.line = "empty" /\ r.list = field
  BY <1>1 DEF ThreadRecord
<1> HIDE DEF r
<1>4. /\ Quiet(r.line) /\ threads[t].line \notin Loading
      /\ WarmOK(r, lists[field])
  BY <1>1, <1>3 DEF Quiet, Loading, WarmOK, Deciding
<1> QED
  BY <1>2, <1>4, QuietStep DEF ReturnLoaded

LEMMA IsEmptyKeepsSolo ==
  ASSUME IInv, SoloInv, NEW t \in Threads, IsEmpty(t)
  PROVE  SoloInv'
<1> DEFINE line == IF lists[threads[t].list].size = 0 THEN "open" ELSE "again"
           r == [threads[t] EXCEPT !.line = line]
<1>1. threads[t] \in ThreadRecord /\ threads[t].line = "empty"
  BY ThreadType DEF IsEmpty
<1>2. threads' = [threads EXCEPT ![t] = r]
  BY GotoMoves DEF IsEmpty
<1>3. r.line = line
  BY <1>1 DEF ThreadRecord
<1> HIDE DEF r
<1>4. Quiet(r.line) /\ threads[t].line \notin Loading
  BY <1>1, <1>3 DEF Quiet, Loading
<1>5. ASSUME Solo, warm[t] PROVE WarmOK(r, lists[field])
  <2>1. threads[t].list = field /\ Complete(lists[field])
    BY <1>1, <1>5, WarmFinds DEF WarmOK
  <2>2. lists[field].size = 0 <=> ~HasRegexes
    BY <2>1, GateAssumption, EmptySeq DEF Complete, HasRegexes
  <2> QED
    BY <1>3, <2>1, <2>2 DEF WarmOK, Deciding, Verdicts
<1> QED
  BY <1>2, <1>4, <1>5, QuietStep DEF IsEmpty

LEMMA StartIterationKeepsSolo ==
  ASSUME IInv, SoloInv, NEW t \in Threads, StartIteration(t)
  PROVE  SoloInv'
<1> DEFINE r == [threads[t] EXCEPT !.line = "iterate", !.list = field,
                                   !.i = 0, !.mods = lists[field].mods]
<1>1. threads[t] \in ThreadRecord /\ threads[t].line = "again"
  BY ThreadType DEF StartIteration
<1>2. threads' = [threads EXCEPT ![t] = r]
  BY DEF StartIteration
<1>3. r.line = "iterate" /\ r.list = field /\ r.i = 0 /\ r.mods = lists[field].mods
  BY <1>1 DEF ThreadRecord
<1> HIDE DEF r
<1>4. Quiet(r.line) /\ threads[t].line \notin Loading
  BY <1>1, <1>3 DEF Quiet, Loading
<1>5. ASSUME Solo, warm[t] PROVE WarmOK(r, lists[field])
  <2>1. HasRegexes
    BY <1>1, <1>5, WarmFinds DEF WarmOK
  <2> QED
    BY <1>3, <2>1, GateAssumption DEF WarmOK, Deciding
<1> QED
  BY <1>2, <1>4, <1>5, QuietStep DEF StartIteration

(* The iteration sees the regexes of the file one after the other: it ends *)
(* at one that matches, or after all of them, and never in an exception.   *)
LEMMA IterateKeepsSolo ==
  ASSUME IInv, SoloInv, NEW t \in Threads, Iterate(t)
  PROVE  SoloInv'
<1> DEFINE list == lists[threads[t].list]
           i    == threads[t].i
<1>1. /\ threads[t] \in ThreadRecord /\ threads[t].line = "iterate" /\ i \in Nat
      /\ threads[t].line \notin Loading
  BY ThreadType DEF Iterate, ThreadRecord, Loading
<1>2. ASSUME Solo, warm[t]
      PROVE  /\ list.size = Len(Regexes) /\ list.mods = threads[t].mods
             /\ i <= list.size /\ HasRegexes
             /\ i < list.size => /\ list.slots[i + 1] = Regexes[i + 1]
                                 /\ list.slots[i + 1] # NULL
                                 /\ i + 1 \in DOMAIN Regexes
             /\ \A j \in 1..i : <<threads[t].target, Regexes[j]>> \notin Matches
             /\ WarmOK(threads[t], lists[field]) /\ list = lists[field]
  <2>1. /\ WarmOK(threads[t], lists[field]) /\ Complete(lists[field])
        /\ threads[t].list = field /\ HasRegexes
    BY <1>1, <1>2, WarmFinds DEF WarmOK
  <2>2. list.size = Len(Regexes) /\ Filled(list, Len(Regexes))
        /\ Len(Regexes) \in Nat /\ DOMAIN Regexes = 1..Len(Regexes)
    BY <2>1, GateAssumption DEF Complete
  <2>3. i < list.size => /\ i + 1 \in 1..Len(Regexes)
                         /\ list.slots[i + 1] = Regexes[i + 1]
    BY <1>1, <2>2 DEF Filled
  <2>4. \A j \in 1..Len(Regexes) : Regexes[j] # NULL
    BY RegexType, GateAssumption
  <2> QED
    BY <1>1, <2>1, <2>2, <2>3, <2>4 DEF WarmOK
<1>3. ASSUME NEW line \in Verdicts, Goto(t, line),
             Solo /\ warm[t] => line \in {"matched", "denied"} /\
               (line = "matched" <=> SomeMatch(threads[t].target))
      PROVE  SoloInv'
  <2> DEFINE r == [threads[t] EXCEPT !.line = line]
  <2>1. /\ r.line = line /\ r.target = threads[t].target
        /\ threads' = [threads EXCEPT ![t] = r]
    BY <1>1, <1>3, GotoMoves DEF ThreadRecord
  <2> HIDE DEF r
  <2>2. Quiet(r.line)
    BY <2>1 DEF Quiet, Verdicts, Loading
  <2>3. ASSUME Solo, warm[t] PROVE WarmOK(r, lists[field])
    BY <1>2, <1>3, <2>1, <2>3 DEF WarmOK
  <2> QED
    BY <1>1, <2>1, <2>2, <2>3, QuietStep DEF Iterate
<1>4. CASE i = list.size /\ Goto(t, "denied")
  <2>1. ASSUME Solo, warm[t] PROVE ~SomeMatch(threads[t].target)
    <3>1. i = Len(Regexes) /\ DOMAIN Regexes = 1..Len(Regexes)
      BY <1>2, <1>4, <2>1, GateAssumption
    <3> QED
      BY <1>2, <2>1, <3>1 DEF SomeMatch
  <2> QED
    BY <1>3, <1>4, <2>1 DEF Verdicts
<1>5. CASE /\ i # list.size
           /\ list.mods # threads[t].mods \/ i > list.size
                \/ list.slots[i + 1] = NULL
           /\ Goto(t, "failed")
  <2>1. ~(Solo /\ warm[t])
    <3> SUFFICES ASSUME Solo, warm[t] PROVE FALSE
      OBVIOUS
    <3>1. i < list.size
      BY <1>1, <1>2, <1>5, GateAssumption
    <3> QED
      BY <1>1, <1>2, <1>5, <3>1, GateAssumption
  <2> QED
    BY <1>3, <1>5, <2>1 DEF Verdicts
<1>6. CASE /\ i < list.size
           /\ <<threads[t].target, list.slots[i + 1]>> \in Matches
           /\ Goto(t, "matched")
  <2>1. Solo /\ warm[t] => SomeMatch(threads[t].target)
    BY <1>2, <1>6 DEF SomeMatch
  <2> QED
    BY <1>3, <1>6, <2>1 DEF Verdicts
<1>7. CASE /\ i < list.size
           /\ <<threads[t].target, list.slots[i + 1]>> \notin Matches
           /\ threads' = [threads EXCEPT ![t].i = i + 1]
  <2> DEFINE r == [threads[t] EXCEPT !.i = i + 1]
  <2>1. threads' = [threads EXCEPT ![t] = r]
    BY <1>7
  <2>2. /\ r.line = "iterate" /\ r.i = i + 1 /\ r.list = threads[t].list
        /\ r.mods = threads[t].mods /\ r.target = threads[t].target
    BY <1>1 DEF ThreadRecord
  <2> HIDE DEF r
  <2>3. Quiet(r.line)
    BY <2>2 DEF Quiet, Loading
  <2>4. ASSUME Solo, warm[t] PROVE WarmOK(r, lists[field])
    <3>1. i + 1 <= Len(Regexes)
      BY <1>1, <1>2, <1>7, <2>4, GateAssumption
    <3>2. \A j \in 1..(i + 1) : <<threads[t].target, Regexes[j]>> \notin Matches
      <4> TAKE j \in 1..(i + 1)
      <4>1. j = i + 1 \/ j \in 1..i
        BY <1>1
      <4> QED
        BY <1>2, <1>7, <2>4, <4>1
    <3> QED
      BY <1>1, <1>2, <2>2, <2>4, <3>1, <3>2 DEF WarmOK
  <2> QED
    BY <1>1, <2>1, <2>3, <2>4, QuietStep DEF Iterate
<1> QED
  BY <1>4, <1>5, <1>6, <1>7 DEF Iterate

(* A request that comes after one thread loaded the list is decided as the *)
(* configuration says, and does not fail: for any threads and regexes.     *)
THEOREM SoloLoadAlwaysExact == Spec => []SoloLoadExact
<1>1. Init => SoloInv
  BY DEF Init, SoloInv, SoloOK, IdleThread, Loading
<1>2. IInv /\ SoloInv /\ [Next]_vars => SoloInv'
  <2> SUFFICES ASSUME IInv, SoloInv, [Next]_vars PROVE SoloInv'
    OBVIOUS
  <2>1. CASE UNCHANGED vars
    BY <2>1 DEF vars, SoloInv, SoloOK, Solo, Warm, LoaderOK, WarmOK, Complete,
       HasRegexes, Filled
  <2>2. CASE Next
    BY <2>2, RequestKeepsSolo, CheckNullKeepsSolo, AssignKeepsSolo,
       ParseConfigKeepsSolo, AddEnterKeepsSolo, AddGrowKeepsSolo,
       AddBumpKeepsSolo, AddStoreKeepsSolo, ReturnLoadedKeepsSolo,
       IsEmptyKeepsSolo, StartIterationKeepsSolo, IterateKeepsSolo
       DEF Next, Step
  <2> QED
    BY <2>1, <2>2
<1>3. SoloInv => SoloLoadExact
  <2> SUFFICES ASSUME SoloInv, NEW t \in Threads, warm[t], Solo
               PROVE  CASE threads[t].line = "open"    -> ~HasRegexes
                        [] threads[t].line = "matched" ->
                             readable /\ SomeMatch(threads[t].target)
                        [] threads[t].line = "denied"  ->
                             HasRegexes /\ ~SomeMatch(threads[t].target)
                        [] OTHER -> threads[t].line # "failed"
    BY DEF SoloLoadExact, Solo, HasRegexes
  <2>1. WarmOK(threads[t], lists[field])
    BY DEF SoloInv, SoloOK
  <2> QED
    BY <2>1 DEF WarmOK, HasRegexes
<1> QED
  BY <1>1, <1>2, <1>3, Inductive, PTL DEF Spec

=============================================================================

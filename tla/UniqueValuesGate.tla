-------------------------- MODULE UniqueValuesGate --------------------------
(***************************************************************************)
(* LayerFiltersService decides whether uniqueValues may list a property:   *)
(* its full name must match a regex of the data directory's filters.xml.   *)
(* The list of regexes is loaded lazily by the first request, into a field *)
(* that all request threads share and nothing guards.                      *)
(*                                                                         *)
(* The lists are java.util.ArrayLists, which are external: add() grows the *)
(* backing array on the first element, then reads and increments size, then *)
(* stores, and each of these steps may interleave with another thread's.   *)
(* A lost increment of modCount needs no step of its own: to the iterators,*)
(* that only compare it, it is an increment that came earlier.             *)
(***************************************************************************)
EXTENDS Naturals, Sequences

CONSTANTS
  Threads,   \* request threads of the servlet container
  Regexes,   \* the regexes in the configuration file, in order
  Targets,   \* full names workspace:layer/property that are asked for
  Matches,   \* the pairs <<target, regex>> that match
  MaxSlots,  \* length of a list's backing array in the model
  NULL       \* Java's null

Configured == {Regexes[i] : i \in DOMAIN Regexes}

ASSUME GateAssumption ==
  /\ Regexes \in Seq(Configured)
  /\ MaxSlots \in Nat
  /\ NULL \notin Configured \cup Threads \cup Targets
  /\ Matches \subseteq Targets \X Configured

VARIABLES
  readable,   \* whether the configuration file parses
  field,      \* uniqueValuesAllowedRegex: NULL, or whose list it refers to
  lists,      \* the list each thread may have created
  threads,    \* the request threads' control state and locals
  loaders,    \* history: threads that assigned the field
  warm        \* history: threads whose request began after all loading

vars == <<readable, field, lists, threads, loaders, warm>>

(* An empty ArrayList: array counts the backing arrays made for it.        *)
NoSlots == [i \in 1..MaxSlots |-> NULL]
NewList == [array |-> 0, slots |-> NoSlots, size |-> 0, mods |-> 0]

(* A thread's line is the next thing it does, list the list it works on, i   *)
(* its place in the file or the list, mods the count its iterator expects. *)
IdleThread ==
  [line |-> "idle", target |-> NULL, list |-> NULL, i |-> 0, size |-> 0,
   array |-> 0, mods |-> 0]

Loading == {"assign", "parse", "enter", "grow", "bump", "store"}
Deciding == {"check", "empty", "again", "iterate"}
Verdicts == {"open", "matched", "denied", "failed"}

Goto(t, line) == threads' = [threads EXCEPT ![t].line = line]

-----------------------------------------------------------------------------
(* No thread loads and the list is there: no load will ever start again.   *)
Warm == field # NULL /\ \A t \in Threads : threads[t].line \notin Loading

(* uniqueValues(): a request for a property comes to an idle thread.       *)
Request(t, target) ==
  /\ threads[t].line \in {"idle"} \cup Verdicts
  /\ threads' = [threads EXCEPT ![t] = [IdleThread EXCEPT !.line = "check",
                                                          !.target = target]]
  /\ warm' = [warm EXCEPT ![t] = Warm]
  /\ UNCHANGED <<readable, field, lists, loaders>>

(* Mutant of CheckNull: an empty list counts as not loaded.                *)
CheckEmpty(t) ==
  /\ threads[t].line = "check"
  /\ Goto(t, IF field = NULL THEN "assign"
             ELSE IF lists[field].size = 0 THEN "assign" ELSE "return")
  /\ UNCHANGED <<readable, field, lists, loaders, warm>>

(* getUniqueValuesAllowedRegex, first call: the list that is returned is   *)
(* the one isEmpty() is then asked of.                                     *)
CheckNull(t) ==
  /\ threads[t].line = "check"
  /\ threads' = [threads EXCEPT
                   ![t] = [@ EXCEPT !.line = IF field = NULL THEN "assign"
                                             ELSE "empty",
                                    !.list = field]]
  /\ UNCHANGED <<readable, field, lists, loaders, warm>>

(* Mutant of Assign: a thread waits for the loading thread's regexes.      *)
AssignBlocked(t) ==
  /\ threads[t].line = "assign" /\ loaders = {}
  /\ field' = t
  /\ lists' = [lists EXCEPT ![t] = NewList]
  /\ loaders' = loaders \cup {t}
  /\ Goto(t, "parse")
  /\ UNCHANGED <<readable, warm>>

(* The field refers to the new, empty list before the file is parsed.      *)
Assign(t) ==
  /\ threads[t].line = "assign"
  /\ field' = t
  /\ lists' = [lists EXCEPT ![t] = NewList]
  /\ loaders' = loaders \cup {t}
  /\ Goto(t, "parse")
  /\ UNCHANGED <<readable, warm>>

(* A file that cannot be parsed is logged and leaves the list as it is.    *)
ParseConfig(t) ==
  /\ threads[t].line = "parse"
  /\ Goto(t, IF readable /\ Regexes # <<>> THEN "enter" ELSE "return")
  /\ UNCHANGED <<readable, field, lists, loaders, warm>>

(* uniqueValuesAllowedRegex.add(regex) goes through the field, whichever   *)
(* list it refers to by now.                                               *)
AddEnter(t) ==
  /\ threads[t].line = "enter"
  /\ lists' = [lists EXCEPT ![field].mods = @ + 1]
  /\ threads' = [threads EXCEPT
                   ![t] = [@ EXCEPT !.line = "grow", !.list = field,
                                    !.i = threads[t].i + 1,
                                    !.array = lists[field].array]]
  /\ UNCHANGED <<readable, field, loaders, warm>>

(* The first element makes the backing array.  A thread that makes one     *)
(* while another already stores loses some of what is stored by then.  The *)
(* array and the size are then read for elementData[size++] = regex.       *)
AddGrow(t) ==
  LET l     == threads[t].list
      makes == threads[t].array = 0
      array == IF makes THEN lists[l].array + 1 ELSE lists[l].array
  IN  /\ threads[t].line = "grow"
      /\ \E lost \in SUBSET (1..MaxSlots) :
           /\ makes \/ lost = {}
           /\ lists' = [lists EXCEPT
                ![l] = [@ EXCEPT !.array = array,
                                 !.slots = [i \in 1..MaxSlots |->
                                              IF i \in lost THEN NULL
                                              ELSE lists[l].slots[i]]]]
      /\ threads' = [threads EXCEPT ![t] = [@ EXCEPT !.line = "bump",
                                                     !.array = array,
                                                     !.size = lists[l].size]]
      /\ UNCHANGED <<readable, field, loaders, warm>>

(* The write of size++: another thread may have read the same size.        *)
AddBump(t) ==
  /\ threads[t].line = "bump" /\ threads[t].size < MaxSlots
  /\ lists' = [lists EXCEPT ![threads[t].list].size = threads[t].size + 1]
  /\ Goto(t, "store")
  /\ UNCHANGED <<readable, field, loaders, warm>>

(* The array store: the array of the list may have been replaced meanwhile. *)
Store(t, value) ==
  LET l == threads[t].list
  IN  lists' = IF threads[t].array = lists[l].array
               THEN [lists EXCEPT ![l] = [@ EXCEPT
                                  !.slots[threads[t].size + 1] = value]]
               ELSE lists

(* Mutant of AddStore: the loop ends one regex early.                      *)
AddStoreEarly(t) ==
  /\ threads[t].line = "store"
  /\ Store(t, Regexes[threads[t].i])
  /\ Goto(t, IF threads[t].i + 1 < Len(Regexes) THEN "enter" ELSE "return")
  /\ UNCHANGED <<readable, field, loaders, warm>>

(* Mutant of AddStore: the requested name is added.                        *)
AddStoreTarget(t) ==
  /\ threads[t].line = "store"
  /\ Store(t, threads[t].target)
  /\ Goto(t, IF threads[t].i < Len(Regexes) THEN "enter" ELSE "return")
  /\ UNCHANGED <<readable, field, loaders, warm>>

AddStore(t) ==
  /\ threads[t].line = "store"
  /\ Store(t, Regexes[threads[t].i])
  /\ Goto(t, IF threads[t].i < Len(Regexes) THEN "enter" ELSE "return")
  /\ UNCHANGED <<readable, field, loaders, warm>>

(* The loading call returns what the field refers to now.                  *)
ReturnLoaded(t) ==
  /\ threads[t].line = "return"
  /\ threads' = [threads EXCEPT ![t] = [@ EXCEPT !.line = "empty",
                                                 !.list = field]]
  /\ UNCHANGED <<readable, field, lists, loaders, warm>>

IsEmpty(t) ==
  /\ threads[t].line = "empty"
  /\ Goto(t, IF lists[threads[t].list].size = 0 THEN "open" ELSE "again")
  /\ UNCHANGED <<readable, field, lists, loaders, warm>>

(* The second call, and the iterator of the for loop.                      *)
StartIteration(t) ==
  /\ threads[t].line = "again"
  /\ threads' = [threads EXCEPT
                   ![t] = [@ EXCEPT !.line = "iterate", !.list = field,
                                    !.i = 0, !.mods = lists[field].mods]]
  /\ UNCHANGED <<readable, field, lists, loaders, warm>>

(* Mutant of Iterate: stops at a regex that is not the last one.           *)
IterateAny(t) ==
  LET list == lists[threads[t].list]
      i    == threads[t].i
  IN  /\ threads[t].line = "iterate"
      /\ \/ i = list.size /\ Goto(t, "denied")
         \/ i # list.size /\ Goto(t, "matched")
      /\ UNCHANGED <<readable, field, lists, loaders, warm>>

(* hasNext() compares with the size, next() throws a                       *)
(* ConcurrentModificationException, matches(null) a NullPointerException.  *)
Iterate(t) ==
  LET list == lists[threads[t].list]
      i    == threads[t].i
  IN  /\ threads[t].line = "iterate"
      /\ \/ i = list.size /\ Goto(t, "denied")
         \/ /\ i # list.size
            /\ list.mods # threads[t].mods \/ i > list.size
                 \/ list.slots[i + 1] = NULL
            /\ Goto(t, "failed")
         \/ /\ i < list.size /\ list.mods = threads[t].mods
            /\ list.slots[i + 1] # NULL
            /\ IF <<threads[t].target, list.slots[i + 1]>> \in Matches
               THEN Goto(t, "matched")
               ELSE threads' = [threads EXCEPT ![t].i = i + 1]
      /\ UNCHANGED <<readable, field, lists, loaders, warm>>

-----------------------------------------------------------------------------
Init ==
  /\ readable \in BOOLEAN
  /\ field = NULL
  /\ lists = [t \in Threads |-> NewList]
  /\ threads = [t \in Threads |-> IdleThread]
  /\ loaders = {}
  /\ warm = [t \in Threads |-> FALSE]

Step(t) ==
  \/ CheckNull(t) \/ Assign(t) \/ ParseConfig(t)
  \/ AddEnter(t) \/ AddGrow(t) \/ AddBump(t) \/ AddStore(t)
  \/ ReturnLoaded(t) \/ IsEmpty(t) \/ StartIteration(t) \/ Iterate(t)

Next ==
  \E t \in Threads : Step(t) \/ \E target \in Targets : Request(t, target)

Spec == Init /\ [][Next]_vars

(* The threads of the container are scheduled; no request has to come.     *)
FairSpec == Spec /\ \A t \in Threads : WF_vars(Step(t))

-----------------------------------------------------------------------------
(* Properties *)

ListRecord ==
  [array: Nat, slots: [1..MaxSlots -> Configured \cup {NULL}],
   size: 0..MaxSlots, mods: Nat]
ThreadRecord ==
  [line: {"idle", "return"} \cup Loading \cup Deciding \cup Verdicts,
   target: Targets \cup {NULL}, list: Threads \cup {NULL}, i: Nat,
   size: Nat, array: Nat, mods: Nat]

TypeOK ==
  /\ readable \in BOOLEAN
  /\ field \in Threads \cup {NULL}
  /\ lists \in [Threads -> ListRecord]
  /\ threads \in [Threads -> ThreadRecord]
  /\ loaders \in SUBSET Threads
  /\ warm \in [Threads -> BOOLEAN]

SomeMatch(target) == \E i \in DOMAIN Regexes : <<target, Regexes[i]>> \in Matches

(* A property is listed only if a configured regex matches its name, or if *)
(* no regex could be read.  LayerFiltersService.java logs "Allowing        *)
(* uniqueValues on any configured layer." for the latter case alone.       *)
GrantsAreConfigured ==
  \A t \in Threads : threads[t].line \in {"open", "matched"} =>
    \/ ~readable \/ Regexes = <<>>
    \/ SomeMatch(threads[t].target)

(* When one thread loaded the list before the request began, the decision  *)
(* is exactly what the configuration says, and the request does not fail.  *)
SoloLoadExact ==
  \A t \in Threads : warm[t] /\ (\A u, v \in loaders : u = v) =>
    CASE threads[t].line = "open"    -> ~readable \/ Regexes = <<>>
      [] threads[t].line = "matched" -> readable /\ SomeMatch(threads[t].target)
      [] threads[t].line = "denied"  -> /\ readable /\ Regexes # <<>>
                                        /\ ~SomeMatch(threads[t].target)
      [] OTHER -> threads[t].line # "failed"

(* A grant that was matched was matched by a regex of the file, in every   *)
(* interleaving of the loads and the iteration.                            *)
MatchesAreConfigured ==
  \A t \in Threads : threads[t].line = "matched" => SomeMatch(threads[t].target)

(* Once a load has ended with no other one running, no request loads the   *)
(* list again and no thread changes a list any more.                       *)
WarmIsForever == [][Warm => Warm' /\ UNCHANGED <<field, lists>>]_vars

(* A request is decided, also while other threads keep requesting.         *)
RequestsDecided ==
  \A t \in Threads :
    threads[t].line = "check" ~> threads[t].line \in Verdicts

=============================================================================

------------------------- MODULE FuncSlowerRefinement -------------------------
(***************************************************************************)
(* Proof that funcslower's entryinfo implements the abstract pending-call *)
(* table: Spec => PCT!Spec under the refinement mapping EntryTable.        *)
(*                                                                         *)
(* The mapping reads, for every thread with an element in use, that        *)
(* element.  It is a function of the element array alone, so it is        *)
(* restated for an arbitrary array sl (TableOf) and the lemmas about an    *)
(* element write, an element delete and the capacity are proved for every *)
(* array; each step of Next instantiates them with slot and slot'.  The    *)
(* invariant IInv of FuncSlowerProofs supplies what the mapping needs:     *)
(* at most one element per thread, in the current and in the next state.  *)
(***************************************************************************)
EXTENDS FuncSlowerProofs, FiniteSetTheorems

\* entryinfo.lookup(&t) over an element array sl
LookupIn(sl, t) == {s \in Slots : sl[s].used /\ sl[s].key = t}

\* the threads with an element in use in sl
Holders(sl) == {u \in Threads : LookupIn(sl, u) # {}}

\* EntryTable over an element array sl
TableOf(sl) ==
  [t \in Holders(sl) |->
     LET s == CHOOSE x \in LookupIn(sl, t) : TRUE IN
     [id |-> sl[s].id, start |-> sl[s].start]]

\* at most one element in use per key
Uniq(sl) ==
  \A s1, s2 \in Slots :
    sl[s1].used /\ sl[s2].used /\ sl[s1].key = sl[s2].key => s1 = s2

\* the pending call an element holds
CallOf(e) == [id |-> e.id, start |-> e.start]

-----------------------------------------------------------------------------
\* EntryTable is TableOf(slot), in the current and in the next state.
LEMMA EntryTableIsTableOf ==
  /\ EntryTable = TableOf(slot)
  /\ EntryTable' = TableOf(slot')
BY DEF EntryTable, TableOf, Holders, LookupIn, Lookup

\* The mapping at a thread is the call held by its element, when unique.
LEMMA TableAt ==
  ASSUME NEW sl, Uniq(sl), NEW t \in Threads, NEW s \in Slots,
         sl[s].used, sl[s].key = t
  PROVE  /\ t \in Holders(sl)
         /\ TableOf(sl)[t] = CallOf(sl[s])
<1>1. LookupIn(sl, t) = {s}
  BY DEF LookupIn, Uniq
<1>2. t \in Holders(sl)
  BY <1>1 DEF Holders
<1>3. (CHOOSE x \in LookupIn(sl, t) : TRUE) = s
  BY <1>1
<1>. QED  BY <1>2, <1>3 DEF TableOf, CallOf

\* EntryIsInnermostCall gives at most one element per thread.
LEMMA InnerUniq ==
  ASSUME NEW sl, NEW cs, Inner(sl, cs)
  PROVE  Uniq(sl)
BY DEF Inner, Uniq

\* Writing element s with an entry of thread t, over an element that was
\* free or already t's, adds or overwrites t's pending call and leaves the
\* others alone.
LEMMA TableWrite ==
  ASSUME NEW sl \in [Slots -> Entry], NEW sl2 \in [Slots -> Entry],
         NEW t \in Threads, NEW s \in Slots,
         sl2[s].used, sl2[s].key = t,
         \A x \in Slots \ {s} : sl2[x] = sl[x],
         sl[s].used => sl[s].key = t,
         Uniq(sl), Uniq(sl2),
         NEW c, CallOf(sl2[s]) = c
  PROVE  TableOf(sl2) =
           [u \in Holders(sl) \cup {t} |->
              IF u = t THEN c ELSE TableOf(sl)[u]]
<1>1. Holders(sl2) = Holders(sl) \cup {t}
  <2>1. t \in Holders(sl2)
    BY TableAt
  <2>2. ASSUME NEW u \in Threads \ {t}
        PROVE  u \in Holders(sl2) <=> u \in Holders(sl)
    <3>1. LookupIn(sl2, u) = LookupIn(sl, u)
      BY DEF LookupIn
    <3>. QED  BY <3>1 DEF Holders
  <2>3. Holders(sl2) \subseteq Threads /\ Holders(sl) \subseteq Threads
    BY DEF Holders
  <2>. QED  BY <2>1, <2>2, <2>3
<1>2. TableOf(sl2)[t] = c
  BY TableAt
<1>3. ASSUME NEW u \in Holders(sl2) \ {t}
      PROVE  TableOf(sl2)[u] = TableOf(sl)[u]
  <2>1. PICK x \in Slots : sl2[x].used /\ sl2[x].key = u
    BY DEF Holders, LookupIn
  <2>6. u # t
    OBVIOUS
  <2>7. x # s
    BY <2>1, <2>6
  <2>2. x # s /\ sl[x] = sl2[x]
    BY <2>7, Zenon
  <2>3. u \in Threads
    BY DEF Holders
  <2>4. TableOf(sl2)[u] = CallOf(sl2[x])
    BY <2>1, <2>3, TableAt
  <2>5. TableOf(sl)[u] = CallOf(sl[x])
    BY <2>1, <2>2, <2>3, TableAt
  <2>. QED  BY <2>2, <2>4, <2>5
<1>4. TableOf(sl2) = [u \in Holders(sl2) |-> TableOf(sl2)[u]]
  BY DEF TableOf
<1>. QED  BY <1>1, <1>2, <1>3, <1>4

\* Freeing t's element removes t's pending call and leaves the others.
LEMMA TableDelete ==
  ASSUME NEW sl \in [Slots -> Entry], NEW sl2 \in [Slots -> Entry],
         NEW t \in Threads, NEW s \in Slots,
         sl[s].used, sl[s].key = t, ~sl2[s].used,
         \A x \in Slots \ {s} : sl2[x] = sl[x],
         Uniq(sl)
  PROVE  TableOf(sl2) = [u \in Holders(sl) \ {t} |-> TableOf(sl)[u]]
<1>1. Uniq(sl2)
  BY DEF Uniq
<1>2. Holders(sl2) = Holders(sl) \ {t}
  <2>1. LookupIn(sl2, t) = {}
    BY DEF LookupIn, Uniq
  <2>2. ASSUME NEW u \in Threads \ {t}
        PROVE  LookupIn(sl2, u) = LookupIn(sl, u)
    BY DEF LookupIn
  <2>. QED  BY <2>1, <2>2 DEF Holders
<1>3. ASSUME NEW u \in Holders(sl2)
      PROVE  TableOf(sl2)[u] = TableOf(sl)[u]
  <2>1. PICK x \in Slots : sl2[x].used /\ sl2[x].key = u
    BY DEF Holders, LookupIn
  <2>7. x # s
    BY <2>1
  <2>2. x # s /\ sl[x] = sl2[x]
    BY <2>7, Zenon
  <2>3. u \in Threads
    BY DEF Holders
  <2>4. TableOf(sl2)[u] = CallOf(sl2[x])
    BY <1>1, <2>1, <2>3, TableAt
  <2>5. TableOf(sl)[u] = CallOf(sl[x])
    BY <2>1, <2>2, <2>3, TableAt
  <2>. QED  BY <2>2, <2>4, <2>5
<1>4. TableOf(sl2) = [u \in Holders(sl2) |-> TableOf(sl2)[u]]
  BY DEF TableOf
<1>. QED  BY <1>2, <1>3, <1>4

\* A free element means room: the threads with an element are the keys of
\* the other elements in use, so there are fewer of them than elements.
LEMMA TableRoom ==
  ASSUME NEW sl \in [Slots -> Entry], NEW s \in Slots, ~sl[s].used
  PROVE  Cardinality(Holders(sl)) < ENTRY_MAX
<1> DEFINE V == {x \in Slots \ {s} : sl[x].used /\ sl[x].key \in Threads}
<1> DEFINE f == [x \in V |-> sl[x].key]
<1>1. IsFiniteSet(Slots \ {s}) /\ Cardinality(Slots \ {s}) = ENTRY_MAX - 1
  <2>1. IsFiniteSet(Slots) /\ Cardinality(Slots) = ENTRY_MAX
    BY CapacityAssumption, FS_Interval DEF Slots
  <2>. QED  BY <2>1, FS_RemoveElement
<1>2. IsFiniteSet(V) /\ Cardinality(V) <= ENTRY_MAX - 1
  BY <1>1, FS_Subset
<1>3. f \in Surjection(V, Holders(sl))
  <2>1. f \in [V -> Holders(sl)]
    BY DEF Holders, LookupIn
  <2>2. ASSUME NEW u \in Holders(sl) PROVE \E x \in V : f[x] = u
    <3>1. PICK x \in Slots : sl[x].used /\ sl[x].key = u
      BY DEF Holders, LookupIn
    <3>2. x \in V
      BY <3>1 DEF Holders
    <3>. QED  BY <3>1, <3>2
  <2>. QED  BY <2>1, <2>2 DEF Surjection
<1>4. IsFiniteSet(Holders(sl)) /\ Cardinality(Holders(sl)) <= Cardinality(V)
  BY <1>2, <1>3, FS_Surjection
<1>5. Cardinality(Holders(sl)) \in Nat /\ Cardinality(V) \in Nat
  BY <1>2, <1>4, FS_CardinalityType
<1>. QED  BY <1>2, <1>4, <1>5, CapacityAssumption

-----------------------------------------------------------------------------
\* The facts about both states that every case of the step uses.
LEMMA StepFacts ==
  ASSUME IInv, IInv'
  PROVE  /\ slot \in [Slots -> Entry] /\ slot' \in [Slots -> Entry]
         /\ Uniq(slot) /\ Uniq(slot')
         /\ clock \in Time
<1>1. Inner(slot, calls) /\ Inner(slot', calls')
  BY DEF IInv, EntryIsInnermostCall, Inner
<1>. QED  BY <1>1, InnerUniq DEF IInv, TypeInv, TypeOK

\* TableWrite for a step of funcslower, from entryinfo to entryinfo'.
LEMMA TableWriteStep ==
  ASSUME NEW t \in Threads, NEW s \in Slots, NEW c,
         slot \in [Slots -> Entry], slot' \in [Slots -> Entry],
         Uniq(slot), Uniq(slot'), slot'[s].used, slot'[s].key = t,
         CallOf(slot'[s]) = c, \A x \in Slots \ {s} : slot'[x] = slot[x],
         slot[s].used => slot[s].key = t
  PROVE  TableOf(slot') =
           [u \in Holders(slot) \cup {t} |->
              IF u = t THEN c ELSE TableOf(slot)[u]]
BY TableWrite

\* trace_entry's update writing element s, free or already t's, is the
\* table's recordEntry(t, c).
LEMMA WriteRefines ==
  ASSUME IInv, IInv', NEW t \in Threads, NEW s \in Slots,
         NEW c \in PCT!PendingCall,
         slot'[s].used, slot'[s].key = t, CallOf(slot'[s]) = c,
         \A x \in Slots \ {s} : slot'[x] = slot[x],
         slot[s].used => slot[s].key = t
  PROVE  PCT!Next
<1>1. /\ slot \in [Slots -> Entry] /\ slot' \in [Slots -> Entry]
      /\ Uniq(slot) /\ Uniq(slot')
  BY StepFacts
<1>3. TableOf(slot') =
        [u \in Holders(slot) \cup {t} |->
           IF u = t THEN c ELSE TableOf(slot)[u]]
  BY <1>1, TableWriteStep
<1>4. t \in Holders(slot) \/ Cardinality(Holders(slot)) < ENTRY_MAX
  <2>1. CASE slot[s].used
    BY <1>1, <2>1, TableAt
  <2>2. CASE ~slot[s].used
    BY <1>1, <2>2, TableRoom
  <2>. QED  BY <2>1, <2>2
<1>6. DOMAIN TableOf(slot) = Holders(slot)
  BY DEF TableOf
<1>7. PCT!RecordEntry(t, c)
  <2>1. t \in DOMAIN EntryTable \/ Cardinality(DOMAIN EntryTable) < ENTRY_MAX
    BY <1>4, <1>6, EntryTableIsTableOf
  <2>2. EntryTable' = [u \in DOMAIN EntryTable \cup {t} |->
                         IF u = t THEN c ELSE EntryTable[u]]
    BY <1>3, <1>6, EntryTableIsTableOf
  <2>. QED  BY <2>1, <2>2, Zenon DEF PCT!RecordEntry, PCT!Cardinality, Cardinality
<1>. QED  BY <1>7 DEF PCT!Next

\* trace_return's delete of t's element is the table's resolveReturn(t).
LEMMA DeleteRefines ==
  ASSUME IInv, IInv', NEW t \in Threads, NEW s \in Lookup(t),
         slot' = [slot EXCEPT ![s].used = FALSE]
  PROVE  PCT!Next
<1>1. /\ slot \in [Slots -> Entry] /\ slot' \in [Slots -> Entry]
      /\ Uniq(slot) /\ Uniq(slot')
  BY StepFacts
<1>2. s \in Slots /\ slot[s].used /\ slot[s].key = t
  BY DEF Lookup
<1>3. ~slot'[s].used /\ \A x \in Slots \ {s} : slot'[x] = slot[x]
  BY <1>1, <1>2
<1>4. TableOf(slot') = [u \in Holders(slot) \ {t} |-> TableOf(slot)[u]]
  BY <1>1, <1>2, <1>3, TableDelete
<1>5. t \in Holders(slot)
  BY <1>1, <1>2, TableAt
<1>6. DOMAIN TableOf(slot) = Holders(slot)
  BY DEF TableOf
<1>7. PCT!ResolveReturn(t)
  BY <1>4, <1>5, <1>6, EntryTableIsTableOf DEF PCT!ResolveReturn
<1>. QED  BY <1>7 DEF PCT!Next

\* A step that leaves entryinfo alone leaves the table alone.
LEMMA UnchangedRefines ==
  ASSUME UNCHANGED slot
  PROVE  UNCHANGED EntryTable
BY EntryTableIsTableOf

\* Every step of funcslower is a step of the pending-call table or leaves
\* it unchanged.
LEMMA StepRefines ==
  ASSUME IInv, IInv', [Next]_vars
  PROVE  [PCT!Next]_EntryTable
<1>1. CASE \E t \in Threads, f \in Funcs : Call(t, f)
  <2>1. PICK t \in Threads, f \in Funcs : Call(t, f)
    BY <1>1
  <2> DEFINE e == [used |-> TRUE, key |-> t, id |-> f, start |-> clock]
  <2>0. [id |-> f, start |-> clock] \in PCT!PendingCall
    BY DEF IInv, TypeInv, TypeOK, PCT!PendingCall
  <2>2. \/ UNCHANGED slot
        \/ \E s \in Lookup(t) : slot' = [slot EXCEPT ![s] = e]
        \/ \E s \in FreeSlots : slot' = [slot EXCEPT ![s] = e]
    BY <2>1, Zenon DEF Call, TraceEntry
  <2>3. CASE UNCHANGED slot
    BY <2>3, UnchangedRefines
  <2>4. CASE \E s \in Lookup(t) : slot' = [slot EXCEPT ![s] = e]
    <3>1. PICK s \in Lookup(t) : slot' = [slot EXCEPT ![s] = e]
      BY <2>4
    <3>2. s \in Slots /\ slot[s].key = t
      BY DEF Lookup
    <3>3. slot'[s] = e /\ \A x \in Slots \ {s} : slot'[x] = slot[x]
      BY <3>1, <3>2, StepFacts
    <3>4. /\ slot'[s].used /\ slot'[s].key = t
          /\ CallOf(slot'[s]) = [id |-> f, start |-> clock]
      BY <3>3 DEF CallOf
    <3>. QED  BY <2>0, <3>2, <3>3, <3>4, WriteRefines
  <2>5. CASE \E s \in FreeSlots : slot' = [slot EXCEPT ![s] = e]
    <3>1. PICK s \in FreeSlots : slot' = [slot EXCEPT ![s] = e]
      BY <2>5
    <3>2. s \in Slots /\ ~slot[s].used
      BY DEF FreeSlots
    <3>3. slot'[s] = e /\ \A x \in Slots \ {s} : slot'[x] = slot[x]
      BY <3>1, <3>2, StepFacts
    <3>4. /\ slot'[s].used /\ slot'[s].key = t
          /\ CallOf(slot'[s]) = [id |-> f, start |-> clock]
      BY <3>3 DEF CallOf
    <3>. QED  BY <2>0, <3>2, <3>3, <3>4, WriteRefines
  <2>. QED  BY <2>2, <2>3, <2>4, <2>5
<1>2. CASE \E t \in Threads : Return(t)
  <2>1. PICK t \in Threads : Return(t)
    BY <1>2
  <2>2. \/ UNCHANGED slot
        \/ \E s \in Lookup(t) : slot' = [slot EXCEPT ![s].used = FALSE]
    BY <2>1, Zenon DEF Return
  <2>3. CASE UNCHANGED slot
    BY <2>3, UnchangedRefines
  <2>4. CASE \E s \in Lookup(t) : slot' = [slot EXCEPT ![s].used = FALSE]
    BY <2>4, DeleteRefines
  <2>. QED  BY <2>2, <2>3, <2>4
<1>3. CASE \/ \E t \in Threads : ReturnEmit(t)
           \/ Poll \/ Tick \/ BoundReached \/ UNCHANGED vars
  <2>1. UNCHANGED slot
    BY <1>3 DEF ReturnEmit, Poll, Tick, BoundReached, vars
  <2>. QED  BY <2>1, UnchangedRefines
<1>. QED  BY <1>1, <1>2, <1>3 DEF Next

\* The initial entry map is the empty table.
LEMMA InitRefines == Init => PCT!Init
<1> SUFFICES ASSUME Init PROVE PCT!Init
  OBVIOUS
<1>1. Holders(slot) = {}
  BY DEF Init, Holders, LookupIn
<1>. QED  BY <1>1, EntryTableIsTableOf DEF TableOf, PCT!Init

\* funcslower's entryinfo implements the pending-call table of the spec,
\* for every number of threads, functions and map elements: trace_entry's
\* update is recordEntry (overwrite, or add while there is room; a full
\* map changes nothing), trace_return's delete is resolveReturn, and no
\* step loses or rewrites the pending call of another thread.
THEOREM Refinement == Spec => ImplementsPendingCallTable
<1>1. Spec => []IInv
  BY InitIInv, NextIInv, PTL DEF Spec
<1>2. IInv /\ IInv' /\ [Next]_vars => [PCT!Next]_EntryTable
  BY StepRefines
<1>. QED  BY <1>1, <1>2, InitRefines, PTL DEF Spec, ImplementsPendingCallTable, PCT!Spec
=============================================================================

------------------------- MODULE ConnCounterProofs -------------------------
(***************************************************************************)
(* Theorems about ConnCounter for any set of children and any finite set   *)
(* of connections.  The inductive invariant has three parts: who is        *)
(* responsible for which connection (Ownership), who holds the semaphore   *)
(* (Lock), and what the number in shared memory is then worth (Count).     *)
(***************************************************************************)
EXTENDS ConnCounter, FiniteSetTheorems, TLAPS

\* Child c has announced a change it has not stored yet.
Changing(c) == pc[c] \in {"p", "load", "store"}

\* Connections only child c may add to or subtract from the count.
Owned(c) == held[c] \cup {k \in {cur[c]} : Changing(c)}

\* No two children are responsible for one connection, none is for a fresh
\* one, and a change that is under way is neither done nor pointless.
Ownership ==
    /\ \A c \in Children : Owned(c) \cap fresh = {}
    /\ \A c, d \in Children : c # d => Owned(c) \cap Owned(d) = {}
    /\ fresh \cap counted = {}
    /\ \A c \in Children : Changing(c) =>
          /\ cur[c] \in Conns
          /\ op[c] = 1 => cur[c] \in held[c] /\ cur[c] \notin counted
          /\ op[c] = -1 => cur[c] \notin held[c] /\ cur[c] \in counted
    /\ \A c \in Children : Alive(c) =>
          \A k \in held[c] :
             k \in counted \/ (Changing(c) /\ op[c] = 1 /\ cur[c] = k)
    /\ \A k \in counted : \E c \in Children :
          k \in held[c] \/ (cur[c] = k /\ (Changing(c) \/ ~Alive(c)))

\* Without interrupted waits the semaphore is a lock, and a child's undo
\* adjustment says whether it holds it.
Lock ==
    interrupted = {} =>
        /\ semval \in {0, 1}
        /\ \A c \in Children : semadj[c] = IF InSection(c) THEN 1 ELSE 0
        /\ \A c, d \in Children : InSection(c) /\ InSection(d) => c = d
        /\ semval = 1 => \A c \in Children : ~InSection(c)

\* What the holder of the lock read is still what is stored there.
Count ==
    interrupted = {} =>
        /\ share_mem = Cardinality(counted)
        /\ \A c \in Children : pc[c] = "store" => tmp[c] = share_mem

IInv == TypeOK /\ Ownership /\ Lock /\ Count

-----------------------------------------------------------------------------
(* One lemma per part: the part survives every step                         *)

LEMMA InitIInv == Init => IInv
<1> SUFFICES ASSUME Init PROVE IInv
  OBVIOUS
<1>1. TypeOK
  BY ConstantsAssumption DEF Init, TypeOK, Places
<1>2. Ownership
  BY DEF Init, Ownership, Owned, Changing, Alive
<1>3. Lock
  BY DEF Init, Lock, InSection
<1>4. Count
  BY FS_EmptySet DEF Init, Count
<1> QED BY <1>1, <1>2, <1>3, <1>4 DEF IInv

LEMMA TypeStep == TypeOK /\ Ownership /\ [Next]_vars => TypeOK'
<1> SUFFICES ASSUME TypeOK, Ownership, [Next]_vars PROVE TypeOK'
  OBVIOUS
<1> USE DEF TypeOK, Places
<1>1. ASSUME NEW c \in Children, NEW k \in Conns, Accept(c, k) PROVE TypeOK'
  BY <1>1 DEF Accept, StartChange
<1>2. ASSUME NEW c \in Children, NEW k \in Conns, Disconnect(c, k) PROVE TypeOK'
  BY <1>2 DEF Disconnect, StartChange, Removed
<1>3. ASSUME NEW c \in Children, P(c) PROVE TypeOK'
  BY <1>3 DEF P, SemAfterP, MayTake
<1>4. ASSUME NEW c \in Children, Load(c) PROVE TypeOK'
  BY <1>4 DEF Load
<1>5. ASSUME NEW c \in Children, Store(c) PROVE TypeOK'
  <2>1. share_mem' \in Int
    BY <1>5 DEF Store, NewCount
  <2>2. cur[c] \in Conns
    BY <1>5 DEF Store, Ownership, Changing
  <2>3. counted' \subseteq Conns
    BY <1>5, <2>2 DEF Store
  <2> QED BY <1>5, <2>1, <2>3 DEF Store
<1>6. ASSUME NEW c \in Children, V(c) PROVE TypeOK'
  BY <1>6 DEF V
<1>7. ASSUME NEW c \in Children, Signal(c) PROVE TypeOK'
  BY <1>7 DEF Signal
<1>8. ASSUME NEW c \in Children, SignalInterruptsP(c) PROVE TypeOK'
  BY <1>8 DEF SignalInterruptsP
<1>9. ASSUME NEW c \in Children, HandleSignal(c) PROVE TypeOK'
  BY <1>9 DEF HandleSignal
<1>10. ASSUME NEW c \in Children, ProcessEnds(c) PROVE TypeOK'
  BY <1>10 DEF ProcessEnds, Undone
<1>11. CASE Report
  BY <1>11 DEF Report, sysvars
<1>12. CASE UNCHANGED vars
  BY <1>12 DEF vars
<1> QED
  BY <1>1, <1>2, <1>3, <1>4, <1>5, <1>6, <1>7, <1>8, <1>9, <1>10, <1>11,
     <1>12 DEF Next, Step, Exit, Crash

LEMMA LockStep == TypeOK /\ Lock /\ [Next]_vars => Lock'
<1> SUFFICES ASSUME TypeOK, Lock, [Next]_vars, interrupted' = {} PROVE Lock'
  BY DEF Lock
<1>0. interrupted = {}
  BY DEF Next, vars, sysvars, Accept, Disconnect, Step, P, Load, Store, V,
         Signal, SignalInterruptsP, HandleSignal, Exit, Crash, ProcessEnds,
         Report
<1> USE <1>0 DEF TypeOK, Lock, InSection
<1>1. ASSUME NEW c \in Children, NEW k \in Conns, Accept(c, k) PROVE Lock'
  BY <1>1 DEF Accept, StartChange
<1>2. ASSUME NEW c \in Children, NEW k \in Conns, Disconnect(c, k) PROVE Lock'
  BY <1>2 DEF Disconnect, StartChange
<1>3. ASSUME NEW c \in Children, P(c) PROVE Lock'
  BY <1>3 DEF P, SemAfterP, MayTake
<1>4. ASSUME NEW c \in Children, Load(c) PROVE Lock'
  BY <1>4 DEF Load
<1>5. ASSUME NEW c \in Children, Store(c) PROVE Lock'
  BY <1>5 DEF Store
<1>6. ASSUME NEW c \in Children, V(c) PROVE Lock'
  BY <1>6 DEF V
<1>7. ASSUME NEW c \in Children, Signal(c) PROVE Lock'
  BY <1>7 DEF Signal
<1>8. ASSUME NEW c \in Children, SignalInterruptsP(c) PROVE Lock'
  BY <1>8 DEF SignalInterruptsP
<1>9. ASSUME NEW c \in Children, HandleSignal(c) PROVE Lock'
  BY <1>9 DEF HandleSignal
<1>10. ASSUME NEW c \in Children, Alive(c), ProcessEnds(c) PROVE Lock'
  BY <1>10 DEF ProcessEnds, Undone, Alive
<1>11. CASE Report
  BY <1>11 DEF Report, sysvars
<1>12. CASE UNCHANGED vars
  BY <1>12 DEF vars
<1> QED
  BY <1>1, <1>2, <1>3, <1>4, <1>5, <1>6, <1>7, <1>8, <1>9, <1>10, <1>11,
     <1>12 DEF Next, Step, Exit, Crash, Alive

LEMMA OwnershipStep == TypeOK /\ Ownership /\ [Next]_vars => Ownership'
<1> SUFFICES ASSUME TypeOK, Ownership, [Next]_vars PROVE Ownership'
  OBVIOUS
<1> USE DEF TypeOK, Places, Owned, Changing, Alive
<1>1. ASSUME NEW c \in Children, NEW k \in Conns, Accept(c, k)
      PROVE  Ownership'
  BY <1>1 DEF Accept, StartChange, Ownership
<1>2. ASSUME NEW c \in Children, NEW k \in Conns, Disconnect(c, k)
      PROVE  Ownership'
  BY <1>2 DEF Disconnect, StartChange, Removed, Ownership
<1>3. ASSUME NEW c \in Children, P(c) PROVE Ownership'
  BY <1>3 DEF P, Ownership
<1>4. ASSUME NEW c \in Children, Load(c) PROVE Ownership'
  BY <1>4 DEF Load, Ownership
<1>5. ASSUME NEW c \in Children, Store(c) PROVE Ownership'
  BY <1>5 DEF Store, Ownership
<1>6. ASSUME NEW c \in Children, V(c) PROVE Ownership'
  BY <1>6 DEF V, Ownership
<1>7. ASSUME NEW c \in Children, Signal(c) PROVE Ownership'
  BY <1>7 DEF Signal, Ownership
<1>8. ASSUME NEW c \in Children, SignalInterruptsP(c) PROVE Ownership'
  BY <1>8 DEF SignalInterruptsP, Ownership
<1>9. ASSUME NEW c \in Children, HandleSignal(c) PROVE Ownership'
  BY <1>9 DEF HandleSignal, Ownership
<1>10. ASSUME NEW c \in Children, ProcessEnds(c) PROVE Ownership'
  BY <1>10 DEF ProcessEnds, Ownership
<1>11. CASE Report
  BY <1>11 DEF Report, sysvars, Ownership
<1>12. CASE UNCHANGED vars
  BY <1>12 DEF vars, Ownership
<1> QED
  BY <1>1, <1>2, <1>3, <1>4, <1>5, <1>6, <1>7, <1>8, <1>9, <1>10, <1>11,
     <1>12 DEF Next, Step, Exit, Crash

\* A store by the holder of the lock moves the number and the set together.
LEMMA StoreCounts ==
    ASSUME TypeOK, Ownership, Count, interrupted = {},
           NEW c \in Children, Store(c)
    PROVE  share_mem' = Cardinality(counted')
<1>1. IsFiniteSet(counted)
  BY ConstantsAssumption, FS_Subset DEF TypeOK
<1>2. tmp[c] = Cardinality(counted)
  BY DEF Count, Store
<1>3. CASE op[c] = 1
  <2>1. cur[c] \notin counted /\ counted' = counted \cup {cur[c]}
    BY <1>3 DEF Ownership, Changing, Store
  <2>2. Cardinality(counted') = Cardinality(counted) + 1
    BY <1>1, <2>1, FS_AddElement
  <2> QED BY <1>2, <1>3, <2>2 DEF Store, NewCount
<1>4. CASE op[c] = -1
  <2>1. cur[c] \in counted /\ counted' = counted \ {cur[c]}
    BY <1>4 DEF Ownership, Changing, Store
  <2>2. Cardinality(counted') = Cardinality(counted) - 1
    BY <1>1, <2>1, FS_RemoveElement
  <2>3. Cardinality(counted) \in Int
    BY <1>1, FS_CardinalityType
  <2> QED BY <1>2, <1>4, <2>2, <2>3 DEF Store, NewCount
<1> QED BY <1>3, <1>4 DEF TypeOK

LEMMA CountStep ==
    TypeOK /\ Ownership /\ Lock /\ Count /\ [Next]_vars => Count'
<1> SUFFICES ASSUME TypeOK, Ownership, Lock, Count, [Next]_vars,
                    interrupted' = {}
             PROVE  Count'
  BY DEF Count
<1>0. interrupted = {}
  BY DEF Next, vars, sysvars, Accept, Disconnect, Step, P, Load, Store, V,
         Signal, SignalInterruptsP, HandleSignal, Exit, Crash, ProcessEnds,
         Report
<1>1. ASSUME NEW c \in Children, Load(c) PROVE Count'
  BY <1>0, <1>1 DEF Load, Count, TypeOK
<1>2. ASSUME NEW c \in Children, Store(c) PROVE Count'
  <2>1. share_mem' = Cardinality(counted')
    BY <1>0, <1>2, StoreCounts
  <2>2. ASSUME NEW d \in Children PROVE pc'[d] # "store"
    BY <1>0, <1>2 DEF Store, Lock, InSection, TypeOK
  <2> QED BY <2>1, <2>2 DEF Count
<1>3. ASSUME UNCHANGED <<tmp, share_mem, counted>>,
             \A c \in Children : pc'[c] = "store" => pc[c] = "store"
      PROVE  Count'
  BY <1>0, <1>3 DEF Count
<1>4. ASSUME NEW c \in Children, ProcessEnds(c)
      PROVE  \A d \in Children : pc'[d] = "store" => pc[d] = "store"
  BY <1>4 DEF ProcessEnds, TypeOK
<1>5. ASSUME NEW c \in Children, NEW k \in Conns,
             Accept(c, k) \/ Disconnect(c, k)
      PROVE  \A d \in Children : pc'[d] = "store" => pc[d] = "store"
  BY <1>5 DEF Accept, Disconnect, StartChange, TypeOK
<1>6. ASSUME NEW c \in Children,
             \/ P(c) \/ V(c)
             \/ Signal(c) \/ SignalInterruptsP(c) \/ HandleSignal(c)
      PROVE  \A d \in Children : pc'[d] = "store" => pc[d] = "store"
  BY <1>6 DEF P, V, Signal, SignalInterruptsP, HandleSignal, TypeOK
<1>7. CASE Report \/ UNCHANGED vars
  BY <1>3, <1>7 DEF Report, sysvars, vars
<1> QED
  BY <1>1, <1>2, <1>3, <1>4, <1>5, <1>6, <1>7
     DEF Next, Step, Exit, Crash, ProcessEnds, Accept, Disconnect, P, V,
         Signal, SignalInterruptsP, HandleSignal, vars

\* Who is inside, what the semaphore stands for, and what the number counts.
THEOREM Invariance == Spec => []IInv
<1>1. IInv /\ [Next]_vars => IInv'
  BY TypeStep, OwnershipStep, LockStep, CountStep DEF IInv
<1> QED BY InitIInv, <1>1, PTL DEF Spec

-----------------------------------------------------------------------------
(* What the invariant is for                                                *)

\* Every variable keeps its type, in pools of any size.
THEOREM TypeCorrect == Spec => []TypeOK
<1>1. IInv => TypeOK
  BY DEF IInv
<1> QED BY Invariance, <1>1, PTL

\* pv is a lock as long as no signal interrupts a sleeping semop: at most one
\* child is between its P and its V, wherever other children die.
THEOREM MutualExclusion == Spec => []OneInside
<1>1. IInv => OneInside
  BY DEF IInv, Lock, OneInside
<1> QED BY Invariance, <1>1, PTL

\* As long as no signal interrupts a sleeping semop, *share_mem is the number
\* of connections that share_mem_increase added and share_mem_reduce did not
\* take back.
THEOREM CountIsExact == Spec => []ExactCount
<1>1. IInv => ExactCount
  BY DEF IInv, Count, ExactCount
<1> QED BY Invariance, <1>1, PTL

\* Between changes, and before any child ended, the number a heartbeat would
\* carry is the number of client sockets open in the pool.
THEOREM LoadWhenQuiet == Spec => []QuietLoad
<1>1. IInv => QuietLoad
  <2> SUFFICES ASSUME IInv, interrupted = {},
                      \A c \in Children : pc[c] = "loop"
               PROVE  share_mem = Cardinality(UNION {held[c] : c \in Children})
    BY DEF QuietLoad
  <2>1. \A c \in Children : held[c] \subseteq counted
    BY DEF IInv, Ownership, Alive, Changing
  <2>2. counted \subseteq UNION {held[c] : c \in Children}
    BY DEF IInv, Ownership, Alive, Changing
  <2>3. counted = UNION {held[c] : c \in Children}
    BY <2>1, <2>2
  <2> QED BY <2>3 DEF IInv, Count
<1> QED BY Invariance, <1>1, PTL

\* The counter built from a semaphore, a read and a write implements the
\* abstract counter, in which a join or a leave is one step and every
\* heartbeat carries a load that was current, as long as no signal
\* interrupts a sleeping semop.
THEOREM Refinement == Spec => ImplementsLoadCounter
<1>1. Init => Load_!Init
  BY DEF Init, Load_!Init
<1>2. IInv /\ [Next]_vars => [Load_!Next]_(Load_!vars)
  <2> SUFFICES ASSUME IInv, [Next]_vars
               PROVE  [Load_!Next]_(Load_!vars)
    OBVIOUS
  <2>1. CASE interrupted' # {}
    BY <2>1 DEF Load_!Next, Load_!Disturbed
  <2>2. CASE interrupted' = {}
    <3>1. interrupted = {}
      BY <2>2
         DEF Next, Step, Report, Exit, Crash, ProcessEnds, Accept, Disconnect,
             P, Load, Store, V, Signal, SignalInterruptsP, HandleSignal, vars
    <3>2. ASSUME NEW c \in Children, Store(c)
          PROVE  \E k \in Conns : Load_!Join(k) \/ Load_!Leave(k)
      <4>1. cur[c] \in Conns /\ tmp[c] = share_mem /\ share_mem \in Int
        BY <3>1, <3>2 DEF IInv, TypeOK, Ownership, Changing, Count, Store
      <4>2. CASE op[c] = 1
        <5>1. Load_!Join(cur[c])
          BY <3>2, <4>1, <4>2
             DEF IInv, Ownership, Changing, Store, NewCount, Load_!Join
        <5> QED BY <4>1, <5>1
      <4>3. CASE op[c] = -1
        <5>1. Load_!Leave(cur[c])
          BY <3>2, <4>1, <4>3
             DEF IInv, Ownership, Changing, Store, NewCount, Load_!Leave
        <5> QED BY <4>1, <5>1
      <4> QED BY <4>2, <4>3 DEF IInv, TypeOK
    <3>3. CASE Report
      BY <2>2, <3>1, <3>3
         DEF Report, sysvars, Load_!Report, Load_!Kept, Load_!Next
    <3>4. CASE UNCHANGED <<counted, share_mem, reported>>
      BY <2>2, <3>1, <3>4 DEF Load_!vars
    <3> QED
      BY <2>2, <3>1, <3>2, <3>3, <3>4
         DEF Load_!Next, Load_!Kept, Next, Step, Exit, Crash, ProcessEnds,
             Accept, Disconnect, P, Load, V, Signal, SignalInterruptsP,
             HandleSignal, vars
  <2> QED BY <2>1, <2>2
<1>3. IInv /\ [Next]_vars => IInv'
  BY TypeStep, OwnershipStep, LockStep, CountStep DEF IInv
<1> QED
  BY InitIInv, <1>1, <1>2, <1>3, PTL
     DEF Spec, ImplementsLoadCounter, Load_!Spec

-----------------------------------------------------------------------------
(* The semaphore under signals and crashes                                  *)

\* Children that owe a release, and one place for every release that a child
\* made and did not owe: an interrupted P is followed by a V all the same.
Owing == {c \in Children : semadj[c] > 0}
Surplus == UNION {{c} \X (1..(-semadj[c])) : c \in Children}

\* The value of the semaphore and the releases that are owed exceed those that
\* were not owed: the kernel, when it adds what a dead child owes and takes
\* back what it did not, stops at 0 and so never loses a release.
Balance ==
    /\ \A c \in Children : semadj[c] <= IF InSection(c) THEN 1 ELSE 0
    /\ IsFiniteSet(Owing) /\ IsFiniteSet(Surplus)
    /\ semval + Cardinality(Owing) >= 1 + Cardinality(Surplus)

\* A place for each release too many.
LEMMA SurplusIs ==
    /\ \A c, n : <<c, n>> \in Surplus <=> c \in Children /\ n \in 1..(-semadj[c])
    /\ Surplus \subseteq Children \X Int
BY DEF Surplus

LEMMA SurplusIsNext ==
    /\ \A c, n : <<c, n>> \in Surplus' <=> c \in Children /\ n \in 1..(-semadj'[c])
    /\ Surplus' \subseteq Children \X Int
BY DEF Surplus

\* Only the places of the child whose adjustment changes change.
LEMMA SurplusMoves ==
    ASSUME NEW c \in Children, \A d \in Children \ {c} : semadj'[d] = semadj[d]
    PROVE  /\ \A d, n : d # c => (<<d, n>> \in Surplus' <=> <<d, n>> \in Surplus)
           /\ \A n : <<c, n>> \in Surplus' <=> n \in 1..(-semadj'[c])
           /\ \A n : <<c, n>> \in Surplus <=> n \in 1..(-semadj[c])
<1>1. ASSUME NEW d, NEW n, d # c
      PROVE  <<d, n>> \in Surplus' <=> <<d, n>> \in Surplus
  <2>1. CASE d \in Children
    <3>1. semadj'[d] = semadj[d]
      BY <1>1, <2>1
    <3> QED BY <3>1, SurplusIs, SurplusIsNext
  <2>2. CASE d \notin Children
    BY <2>2, SurplusIs, SurplusIsNext
  <2> QED BY <2>1, <2>2
<1>2. \A n : <<c, n>> \in Surplus' <=> n \in 1..(-semadj'[c])
  BY SurplusIsNext
<1>3. \A n : <<c, n>> \in Surplus <=> n \in 1..(-semadj[c])
  BY SurplusIs
<1> QED BY <1>1, <1>2, <1>3

LEMMA BalanceStep == TypeOK /\ Balance /\ [Next]_vars => Balance'
<1> SUFFICES ASSUME TypeOK, Balance, [Next]_vars PROVE Balance'
  OBVIOUS
<1>1. /\ semval \in Nat /\ semadj \in [Children -> Int]
      /\ IsFiniteSet(Owing) /\ Cardinality(Owing) \in Nat
      /\ IsFiniteSet(Surplus) /\ Cardinality(Surplus) \in Nat
      /\ semval + Cardinality(Owing) >= 1 + Cardinality(Surplus)
      /\ pc \in [Children -> Places]
  BY FS_CardinalityType DEF TypeOK, Balance
<1>2. \A c \in Children : semadj[c] <= IF InSection(c) THEN 1 ELSE 0
  BY DEF Balance
<1>3. ASSUME UNCHANGED <<semval, semadj>>,
             \A c \in Children : InSection(c) => InSection(c)'
      PROVE  Balance'
  <2>1. Owing' = Owing /\ Surplus' = Surplus
    BY <1>3 DEF Owing, Surplus
  <2>2. \A c \in Children : semadj'[c] <= IF InSection(c)' THEN 1 ELSE 0
    BY <1>1, <1>2, <1>3
  <2> QED BY <1>1, <1>3, <2>1, <2>2 DEF Balance
<1>4. ASSUME NEW c \in Children, P(c) PROVE Balance'
  <2>1. /\ semval' = semval - 1
        /\ semadj' = [semadj EXCEPT ![c] = semadj[c] + 1]
        /\ pc' = [pc EXCEPT ![c] = "load"]
        /\ pc[c] = "p"
    BY <1>4 DEF P, SemAfterP
  <2>0. /\ semadj'[c] = semadj[c] + 1
        /\ \A d \in Children \ {c} : semadj'[d] = semadj[d]
    BY <1>1, <2>1
  <2>2. semadj[c] <= 0
    BY <1>2, <2>1 DEF InSection
  <2>3. \A d \in Children : semadj'[d] <= IF InSection(d)' THEN 1 ELSE 0
    BY <1>1, <1>2, <2>1, <2>2 DEF InSection
  <2>4. CASE semadj[c] = 0
    <3>1. Owing' = Owing \cup {c} /\ c \notin Owing
      BY <1>1, <2>1, <2>4 DEF Owing
    <3>2. Surplus' = Surplus
      <4>1. \A d, n : d # c => (<<d, n>> \in Surplus' <=> <<d, n>> \in Surplus)
        BY <1>1, <2>0, SurplusMoves
      <4>2. \A n : <<c, n>> \notin Surplus' /\ <<c, n>> \notin Surplus
        BY <1>1, <2>0, <2>4, SurplusMoves
      <4>3. \A d, n : <<d, n>> \in Surplus' <=> <<d, n>> \in Surplus
        BY <4>1, <4>2
      <4> QED BY <4>3, SurplusIs, SurplusIsNext
    <3>3. IsFiniteSet(Owing') /\ Cardinality(Owing') = Cardinality(Owing) + 1
      BY <1>1, <3>1, FS_AddElement
    <3> QED BY <1>1, <2>1, <2>3, <3>2, <3>3 DEF Balance
  <2>5. CASE semadj[c] < 0
    <3>1. Owing' = Owing
      BY <1>1, <2>1, <2>5 DEF Owing
    <3>2. <<c, -semadj[c]>> \in Surplus
      BY <1>1, <2>5, SurplusIs
    <3>3. Surplus' = Surplus \ {<<c, -semadj[c]>>}
      <4>1. \A d, n : <<d, n>> \in Surplus' <=>
                         <<d, n>> \in Surplus /\ <<d, n>> # <<c, -semadj[c]>>
        <5>1. \A d, n : d # c => (<<d, n>> \in Surplus' <=> <<d, n>> \in Surplus)
          BY <1>1, <2>0, SurplusMoves
        <5>2. \A n : <<c, n>> \in Surplus' <=>
                        <<c, n>> \in Surplus /\ n # -semadj[c]
          <6>1. \A n : n \in 1..(-(semadj[c] + 1)) <=>
                          n \in 1..(-semadj[c]) /\ n # -semadj[c]
            BY <1>1, <2>5
          <6> QED BY <1>1, <2>0, <6>1, SurplusMoves
        <5> QED BY <5>1, <5>2
      <4> QED BY <4>1, SurplusIs, SurplusIsNext
    <3>4. IsFiniteSet(Surplus') /\ Cardinality(Surplus') = Cardinality(Surplus) - 1
      <4>1. PICK place : place = <<c, -semadj[c]>>
        OBVIOUS
      <4>2. place \in Surplus /\ Surplus' = Surplus \ {place} /\ IsFiniteSet(Surplus)
        BY <1>1, <3>2, <3>3, <4>1
      <4> QED BY ONLY <4>2, FS_RemoveElement
    <3> QED BY <1>1, <2>1, <2>3, <3>1, <3>4 DEF Balance
  <2> QED BY <1>1, <2>2, <2>4, <2>5
<1>5. ASSUME NEW c \in Children, V(c) PROVE Balance'
  <2>1. /\ semval' = semval + 1
        /\ semadj' = [semadj EXCEPT ![c] = semadj[c] - 1]
        /\ pc' = [pc EXCEPT ![c] = "loop"]
    BY <1>5 DEF V
  <2>0. /\ semadj'[c] = semadj[c] - 1
        /\ \A d \in Children \ {c} : semadj'[d] = semadj[d]
    BY <1>1, <2>1
  <2>2. semadj[c] <= 1
    BY <1>1, <1>2
  <2>3. \A d \in Children : semadj'[d] <= IF InSection(d)' THEN 1 ELSE 0
    BY <1>1, <1>2, <2>1, <2>2 DEF InSection
  <2>4. CASE semadj[c] = 1
    <3>1. Owing' = Owing \ {c} /\ c \in Owing
      BY <1>1, <2>1, <2>4 DEF Owing
    <3>2. Surplus' = Surplus
      <4>1. \A d, n : d # c => (<<d, n>> \in Surplus' <=> <<d, n>> \in Surplus)
        BY <1>1, <2>0, SurplusMoves
      <4>2. \A n : <<c, n>> \notin Surplus' /\ <<c, n>> \notin Surplus
        BY <1>1, <2>0, <2>4, SurplusMoves
      <4>3. \A d, n : <<d, n>> \in Surplus' <=> <<d, n>> \in Surplus
        BY <4>1, <4>2
      <4> QED BY <4>3, SurplusIs, SurplusIsNext
    <3>3. IsFiniteSet(Owing') /\ Cardinality(Owing') = Cardinality(Owing) - 1
      BY <1>1, <3>1, FS_RemoveElement
    <3> QED BY <1>1, <2>1, <2>3, <3>2, <3>3 DEF Balance
  <2>5. CASE semadj[c] <= 0
    <3>1. Owing' = Owing
      BY <1>1, <2>1, <2>5 DEF Owing
    <3>2. Surplus' = Surplus \cup {<<c, 1 - semadj[c]>>}
      <4>1. \A d, n : <<d, n>> \in Surplus' <=>
                         <<d, n>> \in Surplus \/ <<d, n>> = <<c, 1 - semadj[c]>>
        <5>1. \A d, n : d # c => (<<d, n>> \in Surplus' <=> <<d, n>> \in Surplus)
          BY <1>1, <2>0, SurplusMoves
        <5>2. \A n : <<c, n>> \in Surplus' <=>
                        <<c, n>> \in Surplus \/ n = 1 - semadj[c]
          <6>1. \A n : n \in 1..(-(semadj[c] - 1)) <=>
                          n \in 1..(-semadj[c]) \/ n = 1 - semadj[c]
            BY <1>1, <2>5
          <6> QED BY <1>1, <2>0, <6>1, SurplusMoves
        <5> QED BY <5>1, <5>2
      <4> QED BY <1>1, <4>1, SurplusIs, SurplusIsNext
    <3>3. /\ IsFiniteSet(Surplus') /\ Cardinality(Surplus') \in Nat
          /\ Cardinality(Surplus') <= Cardinality(Surplus) + 1
      <4>1. Cardinality(Surplus \cup {<<c, 1 - semadj[c]>>})
              \in {Cardinality(Surplus), Cardinality(Surplus) + 1}
        BY <1>1, FS_AddElement
      <4>2. IsFiniteSet(Surplus')
        BY <1>1, <3>2, FS_AddElement
      <4> QED BY <1>1, <3>2, <4>1, <4>2, FS_CardinalityType
    <3> QED BY <1>1, <2>1, <2>3, <3>1, <3>3 DEF Balance
  <2> QED BY <1>1, <2>2, <2>4, <2>5
<1>6. ASSUME NEW c \in Children, ProcessEnds(c) PROVE Balance'
  <2>1. /\ semval' = Undone(semval, semadj[c])
        /\ semadj' = [semadj EXCEPT ![c] = 0]
        /\ pc' = [pc EXCEPT ![c] = "exited"]
    BY <1>6 DEF ProcessEnds
  <2>0. /\ semadj'[c] = 0
        /\ \A d \in Children \ {c} : semadj'[d] = semadj[d]
    BY <1>1, <2>1
  <2>2. semadj[c] <= 1
    BY <1>1, <1>2
  <2>3. \A d \in Children : semadj'[d] <= IF InSection(d)' THEN 1 ELSE 0
    BY <1>1, <1>2, <2>1 DEF InSection
  <2>4. CASE semadj[c] = 1
    <3>1. Owing' = Owing \ {c} /\ c \in Owing
      BY <1>1, <2>1, <2>4 DEF Owing
    <3>2. Surplus' = Surplus
      <4>1. \A d, n : d # c => (<<d, n>> \in Surplus' <=> <<d, n>> \in Surplus)
        BY <1>1, <2>0, SurplusMoves
      <4>2. \A n : <<c, n>> \notin Surplus' /\ <<c, n>> \notin Surplus
        BY <1>1, <2>0, <2>4, SurplusMoves
      <4>3. \A d, n : <<d, n>> \in Surplus' <=> <<d, n>> \in Surplus
        BY <4>1, <4>2
      <4> QED BY <4>3, SurplusIs, SurplusIsNext
    <3>3. IsFiniteSet(Owing') /\ Cardinality(Owing') = Cardinality(Owing) - 1
      BY <1>1, <3>1, FS_RemoveElement
    <3>4. semval' = semval + 1
      BY <1>1, <2>1, <2>4 DEF Undone
    <3> QED BY <1>1, <2>3, <3>2, <3>3, <3>4 DEF Balance
  <2>5. CASE semadj[c] <= 0
    <3>1. PICK n \in Nat : n = -semadj[c]
      BY <1>1, <2>5
    <3>2. Owing' = Owing
      BY <1>1, <2>1, <2>5 DEF Owing
    <3>3. Surplus' = Surplus \ ({c} \X (1..n))
      <4>1. \A d, k : <<d, k>> \in Surplus' <=>
                         <<d, k>> \in Surplus /\ d # c
        <5>1. \A d, k : d # c => (<<d, k>> \in Surplus' <=> <<d, k>> \in Surplus)
          BY <1>1, <2>0, SurplusMoves
        <5>2. \A k : <<c, k>> \notin Surplus'
          BY <1>1, <2>0, SurplusMoves
        <5> QED BY <5>1, <5>2
      <4>2. \A k : <<c, k>> \in Surplus <=> k \in 1..n
        BY <3>1, SurplusIs
      <4> QED BY <4>1, <4>2, SurplusIs, SurplusIsNext
    <3>4. Surplus \cap ({c} \X (1..n)) = {c} \X (1..n)
      <4>1. \A k \in 1..n : <<c, k>> \in Surplus
        BY <3>1, SurplusIs
      <4> QED BY <4>1
    <3>5. Cardinality({c} \X (1..n)) = n
      <4>1. IsFiniteSet({c}) /\ Cardinality({c}) = 1
        BY FS_Singleton
      <4>2. IsFiniteSet(1..n) /\ Cardinality(1..n) = n
        BY FS_Interval
      <4>3. Cardinality({c} \X (1..n)) = Cardinality({c}) * Cardinality(1..n)
        BY <4>1, <4>2, FS_Product
      <4> QED BY <4>1, <4>2, <4>3
    <3>6. IsFiniteSet(Surplus') /\ Cardinality(Surplus') = Cardinality(Surplus) - n
      <4>1. /\ IsFiniteSet(Surplus \ ({c} \X (1..n)))
            /\ Cardinality(Surplus \ ({c} \X (1..n)))
                 = Cardinality(Surplus) - Cardinality(Surplus \cap ({c} \X (1..n)))
        BY <1>1, FS_Difference
      <4> QED BY <3>3, <3>4, <3>5, <4>1
    <3>7. semval' \in Nat /\ semval' >= semval - n
      BY <1>1, <2>1, <3>1 DEF Undone
    <3>8. semval' + Cardinality(Owing) >= 1 + Cardinality(Surplus')
      BY <1>1, <3>6, <3>7
    <3> QED BY <1>1, <2>3, <3>2, <3>6, <3>8 DEF Balance
  <2> QED BY <1>1, <2>2, <2>4, <2>5
<1>7. ASSUME NEW c \in Children, NEW k \in Conns, Accept(c, k) \/ Disconnect(c, k)
      PROVE  Balance'
  BY <1>1, <1>3, <1>7 DEF Accept, Disconnect, StartChange, InSection
<1>8. ASSUME NEW c \in Children,
             Load(c) \/ Store(c) \/ Signal(c) \/ SignalInterruptsP(c) \/ HandleSignal(c)
      PROVE  Balance'
  BY <1>1, <1>3, <1>8 DEF Load, Store, Signal, SignalInterruptsP, HandleSignal, InSection
<1>9. CASE Report \/ UNCHANGED vars
  BY <1>3, <1>9 DEF Report, sysvars, vars, InSection
<1> QED
  BY <1>4, <1>5, <1>6, <1>7, <1>8, <1>9 DEF Next, Step, Exit, Crash

\* Whatever is interrupted and whoever dies, when the semaphore is taken some
\* child has still to release it.
THEOREM NeverLost == Spec => []SemaphoreNotLost
<1>1. Init => Balance
  <2> SUFFICES ASSUME Init PROVE Balance
    OBVIOUS
  <2>1. \A c \in Children : semadj[c] = 0
    BY DEF Init
  <2>2. Owing = {} /\ Surplus = {}
    BY <2>1 DEF Owing, Surplus
  <2>3. semval = 1
    BY DEF Init
  <2> QED BY <2>1, <2>2, <2>3, FS_EmptySet DEF Balance
<1>2. TypeOK /\ Balance => SemaphoreNotLost
  <2> SUFFICES ASSUME TypeOK, Balance, semval = 0
               PROVE  \E c \in Children : semadj[c] > 0
    BY DEF SemaphoreNotLost
  <2>1. Cardinality(Owing) \in Nat /\ Cardinality(Surplus) \in Nat
    BY FS_CardinalityType DEF Balance
  <2>2. Cardinality(Owing) >= 1
    BY <2>1 DEF Balance
  <2>3. Owing # {}
    BY <2>2, FS_EmptySet
  <2> QED BY <2>3 DEF Owing
<1> QED BY <1>1, <1>2, BalanceStep, TypeCorrect, PTL DEF Spec
=============================================================================

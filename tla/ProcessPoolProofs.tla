-------------------------- MODULE ProcessPoolProofs --------------------------
(***************************************************************************)
(* Theorems about ProcessPool for any number of children and connections:  *)
(* the account of what became of every connection that arrived, and the    *)
(* order in which the children are told.                                   *)
(***************************************************************************)
EXTENDS ProcessPool, FiniteSetTheorems, TLAPS

-----------------------------------------------------------------------------
(* The invariant                                                            *)

\* Whether the listening socket's event is in a set of events, as a number.
Listens(S) == IF "listen" \in S THEN 1 ELSE 0

\* Each connection that arrived was notified at most once, or is the event the
\* parent has not dealt with; what is notified was accepted or lies unread in
\* a pipe.
Account ==
    /\ arrived \in 0..MaxArrivals
    /\ accepted \in Nat /\ notified \in Nat
    /\ notified + Listens(p_ready) + Listens(p_batch) <= arrived
    /\ notes \subseteq Children \X (1..notified)
    /\ IsFiniteSet(notes)
    /\ accepted + Cardinality(notes) + Listens(p_ready) + Listens(p_batch)
         <= arrived

ChildrenOK ==
    /\ counter \in Children
    /\ pid \in [Children -> BOOLEAN]
    /\ running \in [Children -> BOOLEAN]
    /\ ready \in [Children -> SUBSET {"pipe", "sig"}]
    /\ batch \in [Children -> SUBSET {"pipe", "sig"}]
    /\ m_stop \in [Children -> BOOLEAN]
    /\ sent \in [Children -> Nat]
    /\ \A c \in Children : sent[c] <= notified

ParentOK ==
    /\ p_ready \subseteq {"listen", "sig"}
    /\ p_batch \subseteq {"listen", "sig"}
    /\ p_stop \in BOOLEAN
    /\ p_running \in BOOLEAN
    /\ p_signals \subseteq {"CHLD", "TERM"}
    /\ crowded \in BOOLEAN
    /\ terminated \in BOOLEAN

\* An event on a pipe has a notification to itself: a child that has one in
\* its batch and another one coming has two to read.
EventsHaveNotes ==
    \A c \in Children :
        /\ "pipe" \in ready[c] \cup batch[c] => Unread(c) # {}
        /\ "pipe" \in ready[c] \cap batch[c] =>
              \E m, n \in Unread(c) : m # n

\* Until a child is seen to end the children before the counter are one
\* notification ahead of the rest.
InTurn ==
    (\A c \in Children : pid[c]) =>
        \E q \in 0..MaxArrivals : \A c \in Children :
            sent[c] = IF c < counter THEN q + 1 ELSE q

PInv == Account /\ ChildrenOK /\ ParentOK /\ EventsHaveNotes /\ InTurn

-----------------------------------------------------------------------------
(* Lemmas                                                                   *)

\* The arithmetic of the round: the next in turn, and distance 0.
LEMMA Round ==
    ASSUME NEW c \in Children
    PROVE  /\ NextTurn(c) = IF c = N - 1 THEN 0 ELSE c + 1
           /\ NextTurn(c) \in Children
<1>1. /\ N \in Nat \ {0} /\ c \in 0..(N - 1)
  BY ConstantsAssumption DEF Children
<1>2. CASE c = N - 1
  <2>1. c + 1 = N /\ N % N = 0
    BY <1>1, <1>2
  <2> QED BY <1>1, <1>2, <2>1 DEF NextTurn, Children
<1>3. CASE c # N - 1
  <2>1. c + 1 \in 0..(N - 1)
    BY <1>1, <1>3
  <2>2. (c + 1) % N = c + 1
    BY <1>1, <2>1
  <2> QED BY <1>3, <2>1, <2>2 DEF NextTurn, Children
<1> QED BY <1>2, <1>3

\* The distance from one child to another around the circle of n.
LEMMA Circle ==
    ASSUME NEW n \in Nat \ {0}, NEW a \in 0..(n - 1), NEW b \in 0..(n - 1)
    PROVE  /\ (a - b + n) % n \in Nat
           /\ (b - b + n) % n = 0
           /\ (a - b + n) % n = 0 => a = b
<1>1. (a - b + n) % n \in Nat
  OBVIOUS
<1>2. (b - b + n) % n = 0
  OBVIOUS
<1>3. (a - b + n) % n = 0 => a = b
  OBVIOUS
<1> QED BY <1>1, <1>2, <1>3

LEMMA NoDistance ==
    ASSUME counter \in Children, NEW c \in Children
    PROVE  /\ Distance(c) \in Nat
           /\ Distance(counter) = 0
           /\ Distance(c) = 0 => c = counter
BY Circle, ConstantsAssumption DEF Distance, Children

\* While all children are there the turn is the counter's.
LEMMA TurnOfCounter ==
    ASSUME counter \in Children, NEW c \in Children, Turn(c),
           \A d \in Children : pid[d]
    PROVE  c = counter
<1>1. Distance(c) <= Distance(counter)
  BY DEF Turn
<1>2. Distance(c) \in Nat /\ Distance(counter) = 0
  BY NoDistance
<1>3. Distance(c) = 0
  BY <1>1, <1>2
<1> QED BY <1>3, NoDistance

LEMMA Listening ==
    ASSUME NEW S
    PROVE  Cardinality({"listen"} \cap S) = Listens(S)
<1>1. CASE "listen" \in S
  <2>1. {"listen"} \cap S = {"listen"}
    BY <1>1
  <2> QED BY <1>1, <2>1, FS_Singleton DEF Listens
<1>2. CASE "listen" \notin S
  <2>1. {"listen"} \cap S = {}
    BY <1>2
  <2> QED BY <1>2, <2>1, FS_EmptySet DEF Listens
<1> QED BY <1>1, <1>2

LEMMA PInit == Init => PInv
<1> SUFFICES ASSUME Init
             PROVE  PInv
  OBVIOUS
<1>1. Account
  <2>1. IsFiniteSet(notes) /\ Cardinality(notes) = 0
    BY FS_EmptySet DEF Init
  <2>2. Listens(p_ready) = 0 /\ Listens(p_batch) = 0
    BY DEF Init, Listens
  <2>3. arrived = 0 /\ accepted = 0 /\ notified = 0 /\ notes = {}
    BY DEF Init
  <2> QED BY <2>1, <2>2, <2>3, ConstantsAssumption DEF Account
<1>2. ChildrenOK
  <2>1. 0 \in Children
    BY ConstantsAssumption DEF Children
  <2>2. /\ pid \in [Children -> BOOLEAN]
        /\ running \in [Children -> BOOLEAN]
        /\ m_stop \in [Children -> BOOLEAN]
    BY DEF Init
  <2>3. /\ ready \in [Children -> SUBSET {"pipe", "sig"}]
        /\ batch \in [Children -> SUBSET {"pipe", "sig"}]
    BY DEF Init
  <2>4. sent \in [Children -> Nat] /\ \A c \in Children : sent[c] <= notified
    BY DEF Init
  <2> QED BY <2>1, <2>2, <2>3, <2>4 DEF ChildrenOK, Init
<1>3. ParentOK
  BY DEF Init, ParentOK
<1>4. EventsHaveNotes
  BY DEF Init, EventsHaveNotes
<1>5. InTurn
  <2>1. \A c \in Children : sent[c] = IF c < counter THEN 0 + 1 ELSE 0
    BY ConstantsAssumption DEF Init, Children
  <2> QED BY <2>1, ConstantsAssumption DEF InTurn
<1> QED BY <1>1, <1>2, <1>3, <1>4, <1>5 DEF PInv

-----------------------------------------------------------------------------
(* The account                                                              *)

\* Steps that change neither the notifications nor the numbers and bring no
\* event of the listening socket.
LEMMA AccountKept ==
    ASSUME Account, UNCHANGED <<arrived, accepted, notes, notified>>,
           Listens(p_ready') + Listens(p_batch') <= Listens(p_ready) + Listens(p_batch)
    PROVE  Account'
<1>1. Cardinality(notes) \in Nat
  BY FS_CardinalityType DEF Account
<1>2. /\ Listens(p_ready) \in Nat /\ Listens(p_batch) \in Nat
      /\ Listens(p_ready') \in Nat /\ Listens(p_batch') \in Nat
  BY DEF Listens
<1>3. /\ arrived' = arrived /\ accepted' = accepted /\ notes' = notes
      /\ notified' = notified
  OBVIOUS
<1> QED BY <1>1, <1>2, <1>3 DEF Account

LEMMA AccountStep ==
    ASSUME PInv, [Next]_vars
    PROVE  Account'
<1> USE DEF PInv
<1>1. Cardinality(notes) \in Nat /\ IsFiniteSet(notes)
  BY FS_CardinalityType DEF Account
<1>2. Listens(p_ready) \in 0..1 /\ Listens(p_batch) \in 0..1
  BY DEF Listens
<1>3. CASE Arrive
  <2>1. /\ Listens(p_ready') <= Listens(p_ready) + 1
        /\ Listens(p_ready') \in Nat /\ p_batch' = p_batch
    BY <1>2, <1>3 DEF Arrive, Listens
  <2>2. /\ arrived < MaxArrivals /\ arrived' = arrived + 1
        /\ UNCHANGED <<accepted, notes, notified>>
    BY <1>3 DEF Arrive
  <2> QED BY <1>1, <1>2, <2>1, <2>2, ConstantsAssumption DEF Account
<1>4. CASE Terminate
  <2>1. Listens(p_ready') = Listens(p_ready) /\ p_batch' = p_batch
    BY <1>4 DEF Terminate, SignalParent, Listens
  <2> QED BY <1>2, <1>4, <2>1, AccountKept DEF Terminate
<1>5. CASE ParentWait
  <2>1. Listens(p_ready') = 0 /\ Listens(p_batch') = Listens(p_ready)
    BY <1>5 DEF ParentWait, StillReady, Listens
  <2> QED BY <1>2, <1>5, <2>1, AccountKept DEF ParentWait
<1>6. ASSUME NEW c \in Children, Dispatch(c)
      PROVE  Account'
  <2>1. /\ Listens(p_batch) = 1 /\ Listens(p_batch') = 0
        /\ p_ready' = p_ready
    BY <1>6 DEF Dispatch, Listens
  <2>2. notified' = notified + 1 /\ UNCHANGED <<arrived, accepted>>
    BY <1>6 DEF Dispatch
  <2>3. /\ notes' \subseteq Children \X (1..notified')
        /\ IsFiniteSet(notes') /\ Cardinality(notes') \in Nat
        /\ Cardinality(notes') <= Cardinality(notes) + 1
    <3>1. CASE running[c]
      <4>1. notes' = notes \cup {<<c, notified + 1>>}
        BY <1>6, <3>1 DEF Dispatch
      <4>2. <<c, notified + 1>> \in Children \X (1..notified')
        BY <1>6, <2>2 DEF Account
      <4>3. Children \X (1..notified) \subseteq Children \X (1..notified')
        BY <2>2 DEF Account
      <4>4. IsFiniteSet(notes') /\ Cardinality(notes') \in Nat
        BY <1>1, <4>1, FS_AddElement, FS_CardinalityType
      <4>5. Cardinality(notes') <= Cardinality(notes) + 1
        <5>1. Cardinality(notes \cup {<<c, notified + 1>>})
                \in {Cardinality(notes), Cardinality(notes) + 1}
          BY <1>1, FS_AddElement
        <5> QED BY <1>1, <4>1, <5>1
      <4>6. notes' \subseteq Children \X (1..notified')
        BY <4>1, <4>2, <4>3 DEF Account
      <4> QED BY <4>4, <4>5, <4>6
    <3>2. CASE ~running[c]
      <4>1. notes' = notes
        BY <1>6, <3>2 DEF Dispatch
      <4> QED BY <1>1, <2>2, <4>1 DEF Account
    <3> QED BY <3>1, <3>2
  <2> QED BY <1>1, <1>2, <2>1, <2>2, <2>3 DEF Account
<1>7. CASE DispatchToNobody
  <2>1. Listens(p_batch') = 0 /\ p_ready' = p_ready
    BY <1>7 DEF DispatchToNobody, Listens
  <2> QED BY <1>2, <1>7, <2>1, AccountKept DEF DispatchToNobody
<1>8. CASE ParentSignals
  <2>1. Listens(p_batch') = Listens(p_batch) /\ p_ready' = p_ready
    BY <1>8 DEF ParentSignals, Listens
  <2> QED BY <1>2, <1>8, <2>1, AccountKept DEF ParentSignals
<1>9. CASE ParentExit
  BY <1>2, <1>9, AccountKept DEF ParentExit
<1>10. ASSUME NEW c \in Children, ChildWait(c)
       PROVE  Account'
  BY <1>2, <1>10, AccountKept DEF ChildWait, parentvars
<1>11. ASSUME NEW c \in Children, ChildAccepts(c)
       PROVE  Account'
  <2>1. PICK n \in Unread(c) : notes' = notes \ {<<c, n>>}
    BY <1>11 DEF ChildAccepts
  <2>2. <<c, n>> \in notes
    BY <2>1 DEF Unread
  <2>3. IsFiniteSet(notes') /\ Cardinality(notes') = Cardinality(notes) - 1
    BY <1>1, <2>1, <2>2, FS_RemoveElement
  <2>4. /\ accepted' \in Nat /\ accepted' <= accepted + 1
        /\ UNCHANGED <<arrived, notified, p_ready, p_batch>>
    BY <1>11 DEF ChildAccepts, AcceptedAfter, Account, parentvars
  <2> QED BY <1>1, <1>2, <2>1, <2>3, <2>4 DEF Account
<1>12. ASSUME NEW c \in Children, ChildSignals(c)
       PROVE  Account'
  BY <1>2, <1>12, AccountKept DEF ChildSignals, parentvars
<1>13. ASSUME NEW c \in Children, ChildEnds(c)
       PROVE  Account'
  <2>1. notes' \subseteq notes
    BY <1>13 DEF ChildEnds
  <2>2. /\ IsFiniteSet(notes') /\ Cardinality(notes') \in Nat
        /\ Cardinality(notes') <= Cardinality(notes)
    BY <1>1, <2>1, FS_Subset, FS_CardinalityType
  <2>3. Listens(p_ready') = Listens(p_ready)
    BY <1>13 DEF ChildEnds, SignalParent, Listens
  <2>4. UNCHANGED <<arrived, accepted, notified, p_batch>>
    BY <1>13 DEF ChildEnds
  <2> QED BY <1>1, <1>2, <2>1, <2>2, <2>3, <2>4 DEF Account
<1>14. CASE UNCHANGED vars
  BY <1>2, <1>14, AccountKept DEF vars, parentvars
<1> QED BY <1>3, <1>4, <1>5, <1>6, <1>7, <1>8, <1>9, <1>10, <1>11, <1>12, <1>13,
           <1>14 DEF Next, ParentStep, ChildStep, ChildExit, ChildCrash

-----------------------------------------------------------------------------
(* Types                                                                    *)

LEMMA ChildrenStep ==
    ASSUME PInv, [Next]_vars
    PROVE  ChildrenOK'
<1> USE DEF PInv
<1>1. CASE Arrive \/ Terminate \/ ParentWait \/ DispatchToNobody \/ ParentExit
  BY <1>1 DEF Arrive, Terminate, ParentWait, DispatchToNobody, ParentExit,
              childvars, ChildrenOK
<1>2. ASSUME NEW c \in Children, Dispatch(c)
      PROVE  ChildrenOK'
  <2>1. /\ counter' \in Children /\ notified' = notified + 1
        /\ sent' = [sent EXCEPT ![c] = @ + 1]
    BY <1>2, Round DEF Dispatch
  <2>2. ready' \in [Children -> SUBSET {"pipe", "sig"}]
    BY <1>2 DEF Dispatch, ChildrenOK
  <2>3. sent' \in [Children -> Nat] /\ \A d \in Children : sent'[d] <= notified'
    BY <2>1 DEF ChildrenOK, Account
  <2>4. UNCHANGED <<pid, running, batch, m_stop>>
    BY <1>2 DEF Dispatch
  <2> QED BY <2>1, <2>2, <2>3, <2>4 DEF ChildrenOK
<1>3. CASE ParentSignals
  <2>1. pid' \in [Children -> BOOLEAN]
    BY <1>3 DEF ParentSignals, Reaped, ChildrenOK
  <2>2. ready' \in [Children -> SUBSET {"pipe", "sig"}]
    BY <1>3 DEF ParentSignals, SignalChildren, ChildrenOK
  <2>3. UNCHANGED <<counter, running, batch, m_stop, sent, notified>>
    BY <1>3 DEF ParentSignals
  <2> QED BY <2>1, <2>2, <2>3 DEF ChildrenOK
<1>4. ASSUME NEW c \in Children, ChildWait(c)
      PROVE  ChildrenOK'
  BY <1>4 DEF ChildWait, StillReady, ChildrenOK
<1>5. ASSUME NEW c \in Children, ChildAccepts(c)
      PROVE  ChildrenOK'
  BY <1>5 DEF ChildAccepts, ChildrenOK
<1>6. ASSUME NEW c \in Children, ChildSignals(c)
      PROVE  ChildrenOK'
  BY <1>6 DEF ChildSignals, ChildrenOK
<1>7. ASSUME NEW c \in Children, ChildEnds(c)
      PROVE  ChildrenOK'
  BY <1>7 DEF ChildEnds, ChildrenOK
<1>8. CASE UNCHANGED vars
  BY <1>8 DEF vars, childvars, ChildrenOK
<1> QED BY <1>1, <1>2, <1>3, <1>4, <1>5, <1>6, <1>7, <1>8
        DEF Next, ParentStep, ChildStep, ChildExit, ChildCrash

LEMMA ParentTypeStep ==
    ASSUME PInv, [Next]_vars
    PROVE  ParentOK'
<1> USE DEF PInv, ParentOK
<1>1. CASE Arrive
  BY <1>1 DEF Arrive
<1>2. CASE Terminate
  BY <1>2 DEF Terminate, SignalParent
<1>3. CASE ParentWait
  BY <1>3 DEF ParentWait, StillReady
<1>4. ASSUME NEW c \in Children, Dispatch(c)
      PROVE  ParentOK'
  BY <1>4 DEF Dispatch
<1>5. CASE DispatchToNobody
  BY <1>5 DEF DispatchToNobody
<1>6. CASE ParentSignals
  BY <1>6 DEF ParentSignals, AllGone
<1>7. CASE ParentExit
  BY <1>7 DEF ParentExit
<1>8. ASSUME NEW c \in Children, ChildWait(c) \/ ChildAccepts(c) \/ ChildSignals(c)
      PROVE  ParentOK'
  BY <1>8 DEF ChildWait, ChildAccepts, ChildSignals, parentvars
<1>9. ASSUME NEW c \in Children, ChildEnds(c)
      PROVE  ParentOK'
  BY <1>9 DEF ChildEnds, SignalParent
<1>10. CASE UNCHANGED vars
  BY <1>10 DEF vars, parentvars
<1> QED BY <1>1, <1>2, <1>3, <1>4, <1>5, <1>6, <1>7, <1>8, <1>9, <1>10
        DEF Next, ParentStep, ChildStep, ChildExit, ChildCrash

-----------------------------------------------------------------------------
(* Events and notifications                                                 *)

\* EventsHaveNotes of one child: r is ready, b in the batch, e unread.
Fed(c, r, b, e) ==
    /\ "pipe" \in r \cup b => \E n : <<c, n>> \in e
    /\ "pipe" \in r \cap b => \E m, n : m # n /\ <<c, m>> \in e /\ <<c, n>> \in e

LEMMA UnreadIs ==
    ASSUME Account
    PROVE  EventsHaveNotes <=>
             \A c \in Children : Fed(c, ready[c], batch[c], notes)
<1>1. \A c \in Children : \A n : n \in Unread(c) <=> <<c, n>> \in notes
  BY DEF Account, Unread
<1>2. \A c \in Children : Unread(c) # {} <=> \E n : <<c, n>> \in notes
  BY <1>1
<1>3. \A c \in Children : (\E m, n \in Unread(c) : m # n) <=>
         \E m, n : m # n /\ <<c, m>> \in notes /\ <<c, n>> \in notes
  BY <1>1
<1> QED BY <1>2, <1>3 DEF EventsHaveNotes, Fed

LEMMA UnreadIsNext ==
    ASSUME Account'
    PROVE  (\A c \in Children : Fed(c, ready'[c], batch'[c], notes'))
             => EventsHaveNotes'
<1>1. \A c \in Children : \A n : n \in Unread(c)' <=> <<c, n>> \in notes'
  BY DEF Account, Unread
<1>2. \A c \in Children : (Unread(c) # {})' <=> \E n : <<c, n>> \in notes'
  BY <1>1
<1>3. \A c \in Children : (\E m, n \in Unread(c) : m # n)' <=>
         \E m, n : m # n /\ <<c, m>> \in notes' /\ <<c, n>> \in notes'
  BY <1>1
<1> QED BY <1>2, <1>3 DEF EventsHaveNotes, Fed

LEMMA EventsStep ==
    ASSUME PInv, [Next]_vars
    PROVE  EventsHaveNotes'
<1> SUFFICES ASSUME NEW d \in Children
             PROVE  Fed(d, ready'[d], batch'[d], notes')
  BY UnreadIsNext, AccountStep
<1> USE DEF PInv
<1>1. Fed(d, ready[d], batch[d], notes)
  BY UnreadIs
<1>2. /\ ready \in [Children -> SUBSET {"pipe", "sig"}]
      /\ batch \in [Children -> SUBSET {"pipe", "sig"}]
  BY DEF ChildrenOK
<1>3. CASE Arrive \/ Terminate \/ ParentWait \/ DispatchToNobody \/ ParentExit
  BY <1>1, <1>3 DEF Arrive, Terminate, ParentWait, DispatchToNobody, ParentExit,
                    childvars
<1>4. ASSUME NEW c \in Children, Dispatch(c)
      PROVE  Fed(d, ready'[d], batch'[d], notes')
  <2>1. CASE running[c] /\ c = d
    <3>1. /\ notes' = notes \cup {<<d, notified + 1>>}
          /\ ready'[d] = ready[d] \cup {"pipe"} /\ batch' = batch
      BY <1>2, <1>4, <2>1 DEF Dispatch
    <3>2. <<d, notified + 1>> \notin notes
      BY DEF Account
    <3>3. \A n : <<d, n>> \in notes => n # notified + 1
      BY <3>2
    <3> QED BY <1>1, <3>1, <3>3 DEF Fed
  <2>2. CASE running[c] /\ c # d
    <3>1. notes \subseteq notes' /\ ready'[d] = ready[d] /\ batch' = batch
      BY <1>2, <1>4, <2>2 DEF Dispatch
    <3> QED BY <1>1, <3>1 DEF Fed
  <2>3. CASE ~running[c]
    <3>1. UNCHANGED <<notes, ready, batch>>
      BY <1>4, <2>3 DEF Dispatch
    <3> QED BY <1>1, <3>1
  <2> QED BY <2>1, <2>2, <2>3
<1>5. CASE ParentSignals
  <2>1. /\ ready'[d] \subseteq ready[d] \cup {"sig"}
        /\ UNCHANGED <<notes, batch>>
    BY <1>2, <1>5 DEF ParentSignals, SignalChildren
  <2> QED BY <1>1, <2>1 DEF Fed
<1>6. ASSUME NEW c \in Children, ChildWait(c)
      PROVE  Fed(d, ready'[d], batch'[d], notes')
  <2>1. CASE c = d
    <3>1. /\ batch'[d] = ready[d] /\ ready'[d] = {}
          /\ notes' = notes
      BY <1>2, <1>6, <2>1 DEF ChildWait, StillReady
    <3> QED BY <1>1, <3>1 DEF Fed
  <2>2. CASE c # d
    <3>1. UNCHANGED <<ready[d], batch[d], notes>>
      BY <1>2, <1>6, <2>2 DEF ChildWait
    <3> QED BY <1>1, <3>1
  <2> QED BY <2>1, <2>2
<1>7. ASSUME NEW c \in Children, ChildAccepts(c)
      PROVE  Fed(d, ready'[d], batch'[d], notes')
  <2>1. PICK n : notes' = notes \ {<<c, n>>}
    BY <1>7 DEF ChildAccepts
  <2>2. CASE c = d
    <3>1. /\ "pipe" \in batch[d] /\ batch'[d] = batch[d] \ {"pipe"}
          /\ ready' = ready
      BY <1>2, <1>7, <2>2 DEF ChildAccepts
    <3>2. ASSUME "pipe" \in ready[d]
          PROVE  \E m : <<d, m>> \in notes'
      <4>1. PICK k, m : k # m /\ <<d, k>> \in notes /\ <<d, m>> \in notes
        BY <1>1, <3>1, <3>2 DEF Fed
      <4>2. CASE k # n
        BY <2>1, <4>1, <4>2
      <4>3. CASE k = n
        BY <2>1, <4>1, <4>3
      <4> QED BY <4>2, <4>3
    <3> QED BY <3>1, <3>2 DEF Fed
  <2>3. CASE c # d
    <3>1. UNCHANGED <<ready[d], batch[d]>>
      BY <1>2, <1>7, <2>3 DEF ChildAccepts
    <3>2. \A m : <<d, m>> \in notes => <<d, m>> \in notes'
      BY <2>1, <2>3
    <3> QED BY <1>1, <3>1, <3>2 DEF Fed
  <2> QED BY <2>2, <2>3
<1>8. ASSUME NEW c \in Children, ChildSignals(c)
      PROVE  Fed(d, ready'[d], batch'[d], notes')
  <2>1. batch'[d] \subseteq batch[d] /\ UNCHANGED <<ready, notes>>
    BY <1>2, <1>8 DEF ChildSignals
  <2> QED BY <1>1, <2>1 DEF Fed
<1>9. ASSUME NEW c \in Children, ChildEnds(c)
      PROVE  Fed(d, ready'[d], batch'[d], notes')
  <2>1. CASE c = d
    <3>1. ready'[d] = {} /\ batch'[d] = {}
      BY <1>2, <1>9, <2>1 DEF ChildEnds
    <3> QED BY <3>1 DEF Fed
  <2>2. CASE c # d
    <3>1. UNCHANGED <<ready[d], batch[d]>>
      BY <1>2, <1>9, <2>2 DEF ChildEnds
    <3>2. \A m : <<d, m>> \in notes => <<d, m>> \in notes'
      BY <1>9, <2>2 DEF ChildEnds
    <3> QED BY <1>1, <3>1, <3>2 DEF Fed
  <2> QED BY <2>1, <2>2
<1>10. CASE UNCHANGED vars
  BY <1>1, <1>10 DEF vars, childvars
<1> QED BY <1>3, <1>4, <1>5, <1>6, <1>7, <1>8, <1>9, <1>10
        DEF Next, ParentStep, ChildStep, ChildExit, ChildCrash

-----------------------------------------------------------------------------
(* The round robin                                                          *)

LEMMA InTurnStep ==
    ASSUME PInv, [Next]_vars
    PROVE  InTurn'
<1> USE DEF PInv
<1>1. CASE UNCHANGED <<pid, sent, counter>>
  BY <1>1 DEF InTurn
<1>2. ASSUME NEW c \in Children, Dispatch(c)
      PROVE  InTurn'
  <2> SUFFICES ASSUME \A d \in Children : pid'[d]
               PROVE  \E q \in 0..MaxArrivals : \A d \in Children :
                         sent'[d] = IF d < counter' THEN q + 1 ELSE q
    BY DEF InTurn
  <2>1. /\ \A d \in Children : pid[d]
        /\ counter' = NextTurn(c)
        /\ sent' = [sent EXCEPT ![c] = @ + 1]
    BY <1>2 DEF Dispatch
  <2>2. counter = c
    BY <1>2, <2>1, TurnOfCounter DEF Dispatch, ChildrenOK
  <2>3. PICK q \in 0..MaxArrivals : \A d \in Children :
            sent[d] = IF d < counter THEN q + 1 ELSE q
    BY <2>1 DEF InTurn
  <2>4. \A d \in Children : sent'[d] = IF d <= c THEN q + 1 ELSE q
    BY <2>1, <2>2, <2>3, ConstantsAssumption DEF ChildrenOK, Children
  <2>5. CASE c # N - 1
    <3>1. counter' = c + 1
      BY <2>1, <2>5, Round
    <3> QED BY <2>4, <3>1, ConstantsAssumption DEF Children
  <2>6. CASE c = N - 1
    <3>1. counter' = 0
      BY <2>1, <2>6, Round
    <3>2. \A d \in Children : sent'[d] = q + 1
      BY <2>4, <2>6, ConstantsAssumption DEF Children
    <3>3. q + 1 \in 0..MaxArrivals
      <4>1. sent[c] = q /\ sent[c] <= notified
        BY <2>2, <2>3 DEF ChildrenOK, Children
      <4>2. notified + 1 <= MaxArrivals
        <5>1. Listens(p_batch) = 1 /\ Listens(p_ready) \in Nat
          BY <1>2 DEF Dispatch, Listens
        <5> QED BY <5>1, ConstantsAssumption DEF Account
      <4> QED BY <4>1, <4>2, ConstantsAssumption DEF Account
    <3>4. \A d \in Children : ~(d < counter')
      BY <3>1, ConstantsAssumption DEF Children
    <3> QED BY <3>2, <3>3, <3>4
  <2> QED BY <2>5, <2>6
<1>3. CASE ParentSignals
  <2>1. \A d \in Children : pid'[d] => pid[d]
    BY <1>3 DEF ParentSignals, Reaped
  <2>2. UNCHANGED <<sent, counter>>
    BY <1>3 DEF ParentSignals
  <2> QED BY <2>1, <2>2 DEF InTurn
<1> QED BY <1>1, <1>2, <1>3
        DEF Next, ParentStep, ChildStep, ChildExit, ChildCrash, Arrive, Terminate,
            ParentWait, DispatchToNobody, ParentExit, ChildWait, ChildAccepts,
            ChildSignals, ChildEnds, vars

-----------------------------------------------------------------------------
(* Theorems                                                                 *)

\* The account, the events and the turns hold in every reachable state.
THEOREM Invariant == Spec => []PInv
<1>1. PInv /\ [Next]_vars => PInv'
  BY AccountStep, ChildrenStep, ParentTypeStep, EventsStep, InTurnStep DEF PInv
<1> QED BY PInit, <1>1, PTL DEF Spec

\* Every variable of the pool keeps its type; the counts of connections,
\* notifications and notifications of a child never exceed the arrivals.
THEOREM TypeCorrect == Spec => []TypeOK
<1>1. PInv => TypeOK
  <2> SUFFICES ASSUME PInv
               PROVE  TypeOK
    OBVIOUS
  <2>1. /\ Cardinality(notes) \in Nat
        /\ Listens(p_ready) \in Nat /\ Listens(p_batch) \in Nat
    BY FS_CardinalityType DEF PInv, Account, Listens
  <2>2. accepted \in 0..MaxArrivals /\ notified \in 0..MaxArrivals
    BY <2>1, ConstantsAssumption DEF PInv, Account
  <2>3. sent \in [Children -> 0..MaxArrivals]
    BY <2>2, ConstantsAssumption DEF PInv, ChildrenOK
  <2> QED BY <2>2, <2>3 DEF PInv, Account, ChildrenOK, ParentOK, TypeOK
<1> QED BY <1>1, Invariant, PTL

\* A child that reads a notification finds a connection waiting, and one with
\* an event on its pipe finds a notification, whatever the processes
\* interleave and whoever crashes.
THEOREM NotificationsMeetConnections == Spec => []NotificationsHaveConnections
<1>1. PInv => NotificationsHaveConnections
  <2> SUFFICES ASSUME PInv
               PROVE  NotificationsHaveConnections
    OBVIOUS
  <2>1. /\ Cardinality({"listen"} \cap p_ready) = Listens(p_ready)
        /\ Cardinality({"listen"} \cap p_batch) = Listens(p_batch)
    BY Listening
  <2>2. /\ Cardinality(notes) \in Nat
        /\ Listens(p_ready) \in Nat /\ Listens(p_batch) \in Nat
    BY FS_CardinalityType DEF PInv, Account, Listens
  <2>3. Cardinality(notes) + Listens(p_ready) + Listens(p_batch) <= Backlog
    BY <2>2, ConstantsAssumption DEF PInv, Account, Backlog
  <2>4. \A c \in Children : "pipe" \in ready[c] \cup batch[c] => Unread(c) # {}
    BY DEF PInv, EventsHaveNotes
  <2> QED BY <2>1, <2>3, <2>4 DEF NotificationsHaveConnections
<1> QED BY <1>1, Invariant, PTL

\* For any number of children the parent shares the notifications out evenly
\* as long as it has seen no child end.
THEOREM RoundRobin == Spec => []RoundRobinIsEven
<1>1. PInv => RoundRobinIsEven
  <2> SUFFICES ASSUME PInv, \A c \in Children : pid[c],
                      NEW c \in Children, NEW d \in Children
               PROVE  sent[c] - sent[d] \in {-1, 0, 1}
    BY DEF RoundRobinIsEven
  <2>1. PICK q \in 0..MaxArrivals : \A e \in Children :
            sent[e] = IF e < counter THEN q + 1 ELSE q
    BY DEF PInv, InTurn
  <2>2. sent[c] \in {q, q + 1} /\ sent[d] \in {q, q + 1}
    BY <2>1
  <2> QED BY <2>2, ConstantsAssumption
<1> QED BY <1>1, Invariant, PTL
=============================================================================

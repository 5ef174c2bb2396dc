------------------------- MODULE RunEventStreamProofs -------------------------
(***************************************************************************)
(* Proofs about RunEventStream, for every length of the log and any number *)
(* of broken connections and faults of Redis and of the worker.            *)
(***************************************************************************)
EXTENDS RunEventStream, FiniteSetTheorems, WellFoundedInduction, TLAPS

-----------------------------------------------------------------------------
(* Sequences of numbers in order *)

\* Induction over numbers, in the form the proofs below use: a set that is not empty
\* has a least element.
LEMMA LeastElement ==
    ASSUME NEW S \in SUBSET Nat, S # {}
    PROVE  \E m \in S : \A n \in S : m <= n
<1>1. PICK m \in S : \A n \in S : <<n, m>> \notin OpToRel(<, Nat)
    BY WFMin, NatLessThanWellFounded
<1>2. \A n \in S : ~(n < m)
    BY <1>1 DEF OpToRel
<1> QED
    BY <1>2

IsAscending(s) == \A i, j \in DOMAIN s : i < j => s[i] < s[j]

Enumerates(s, S) == s \in [1..Cardinality(S) -> S] /\ Elements(s) = S /\ IsAscending(s)

LEMMA ElementsOfNone == Elements(<<>>) = {}
BY DEF Elements

LEMMA ElementsOfFunction ==
    ASSUME NEW T, NEW n \in Nat, NEW f \in [1..n -> T]
    PROVE  f \in Seq(T) /\ Len(f) = n /\ Elements(f) = {f[i] : i \in 1..n}
<1>1. DOMAIN f = 1..n /\ \A i \in 1..n : f[i] \in T
    OBVIOUS
<1>2. f \in Seq(T)
    OBVIOUS
<1>3. Len(f) = n
    BY <1>1, <1>2
<1> QED
    BY <1>2, <1>3 DEF Elements

LEMMA ElementsOfTail ==
    ASSUME NEW T, NEW s \in Seq(T), s # <<>>
    PROVE  Elements(s) = {Head(s)} \cup Elements(Tail(s))
<1> DEFINE t == Tail(s)
<1>1. Len(s) \in Nat \ {0} /\ Head(s) = s[1] /\ Len(t) = Len(s) - 1
    OBVIOUS
<1>2. \A i \in 1..Len(t) : t[i] = s[i + 1] /\ i + 1 \in 1..Len(s)
    BY <1>1
<1>3. \A i \in 1..Len(s) : i = 1 \/ (i - 1 \in 1..Len(t) /\ t[i - 1] = s[i])
    BY <1>1
<1> HIDE DEF t
<1>4. ASSUME NEW x \in Elements(s) PROVE x = Head(s) \/ x \in Elements(t)
    BY <1>1, <1>3, <1>4 DEF Elements
<1>5. Head(s) \in Elements(s)
    BY <1>1 DEF Elements
<1>6. ASSUME NEW x \in Elements(t) PROVE x \in Elements(s)
    BY <1>2, <1>6 DEF Elements
<1> QED
    BY <1>4, <1>5, <1>6 DEF t

LEMMA ElementsOfConcat ==
    ASSUME NEW T, NEW s \in Seq(T), NEW t \in Seq(T)
    PROVE  Elements(s \o t) = Elements(s) \cup Elements(t)
<1> DEFINE n == Len(s)
           m == Len(t)
           f == s \o t
<1>1. /\ n \in Nat /\ m \in Nat /\ Len(f) = n + m
      /\ \A i \in 1..n : f[i] = s[i]
      /\ \A i \in 1..m : f[n + i] = t[i]
    OBVIOUS
<1> HIDE DEF f, n, m
<1>2. \A i \in 1..(n + m) : i \in 1..n \/ (i - n \in 1..m /\ i = n + (i - n))
    BY <1>1
<1>3. ASSUME NEW x \in Elements(f) PROVE x \in Elements(s) \cup Elements(t)
    <2>1. PICK i \in 1..(n + m) : x = f[i]
        BY <1>1, <1>3 DEF Elements
    <2>2. CASE i \in 1..n
        BY <1>1, <2>1, <2>2 DEF Elements, n
    <2>3. CASE i - n \in 1..m /\ i = n + (i - n)
        BY <1>1, <2>1, <2>3 DEF Elements, m
    <2> QED
        BY <1>2, <2>2, <2>3
<1>4. ASSUME NEW x \in Elements(s) PROVE x \in Elements(f)
    <2>1. PICK i \in 1..n : x = s[i]
        BY <1>4 DEF Elements, n
    <2>2. i \in 1..(n + m) /\ f[i] = x
        BY <1>1, <2>1
    <2> QED
        BY <1>1, <2>2 DEF Elements
<1>5. ASSUME NEW x \in Elements(t) PROVE x \in Elements(f)
    <2>1. PICK i \in 1..m : x = t[i]
        BY <1>5 DEF Elements, m
    <2>2. n + i \in 1..(n + m) /\ f[n + i] = x
        BY <1>1, <2>1
    <2> QED
        BY <1>1, <2>2 DEF Elements
<1> QED
    BY <1>3, <1>4, <1>5 DEF f

LEMMA ElementsOfAppend ==
    ASSUME NEW T, NEW s \in Seq(T), NEW x \in T
    PROVE  Elements(Append(s, x)) = Elements(s) \cup {x}
<1>1. Append(s, x) = s \o <<x>> /\ <<x>> \in Seq(T)
    OBVIOUS
<1>2. Elements(<<x>>) = {x}
    <2>1. Len(<<x>>) = 1 /\ \A i \in 1..1 : <<x>>[i] = x
        OBVIOUS
    <2> QED
        BY <2>1 DEF Elements
<1>3. Elements(s \o <<x>>) = Elements(s) \cup Elements(<<x>>)
    BY <1>1, ElementsOfConcat
<1> QED
    BY <1>1, <1>2, <1>3

\* Every finite set of sequence numbers has an ascending enumeration.
LEMMA AscendingExists ==
    ASSUME NEW N \in Nat, NEW S \in SUBSET (1..N)
    PROVE  /\ Cardinality(S) \in Nat
           /\ \E s \in [1..Cardinality(S) -> S] : Enumerates(s, S)
<1> DEFINE Enumerable(T) == \E s \in [1..Cardinality(T) -> T] : Enumerates(s, T)
           Bad == {n \in Nat : \E T \in SUBSET (1..N) : Cardinality(T) = n /\ ~Enumerable(T)}
<1>1. \A T \in SUBSET (1..N) : IsFiniteSet(T) /\ Cardinality(T) \in Nat
    <2>1. 1 \in Int /\ N \in Int
        OBVIOUS
    <2>2. IsFiniteSet(1..N)
        BY <2>1, FS_Interval
    <2>3. \A T \in SUBSET (1..N) : IsFiniteSet(T)
        BY <2>2, FS_Subset
    <2> QED
        BY <2>3, FS_CardinalityType
<1>2. ASSUME Bad # {} PROVE FALSE
    <2>1. PICK n \in Bad : \A k \in Bad : n <= k
        BY <1>2, LeastElement
    <2>2. PICK T \in SUBSET (1..N) : Cardinality(T) = n /\ ~Enumerable(T)
        OBVIOUS
    <2> HIDE DEF Bad
    <2>3. CASE T = {}
        <3>1. Cardinality(T) = 0
            BY <2>3, FS_EmptySet
        <3>2. << >> \in [1..0 -> T] /\ IsAscending(<< >>)
            BY <2>3 DEF IsAscending
        <3> QED
            BY <2>2, <2>3, <3>1, <3>2, ElementsOfNone DEF Enumerates
    <2>4. CASE T # {}
        <3>1. PICK m \in T : \A k \in T : m <= k
            BY <2>2, <2>4, LeastElement
        <3> DEFINE R == T \ {m}
        <3>2. Cardinality(R) = n - 1 /\ n \in Nat /\ n # 0
            BY <1>1, <2>2, <3>1, FS_RemoveElement, FS_EmptySet
        <3>3. R \in SUBSET (1..N) /\ n - 1 \in Nat /\ n - 1 \notin Bad
            BY <2>1, <2>2, <3>2
        <3>4. PICK s \in [1..(n - 1) -> R] : IsAscending(s) /\ Elements(s) = R
            BY <3>2, <3>3 DEF Bad, Enumerates
        <3> DEFINE t == [i \in 1..n |-> IF i = 1 THEN m ELSE s[i - 1]]
        <3>5. \A i \in 2..n : i - 1 \in 1..(n - 1) /\ s[i - 1] \in T /\ m < s[i - 1]
            <4> SUFFICES ASSUME NEW i \in 2..n
                         PROVE  i - 1 \in 1..(n - 1) /\ s[i - 1] \in T /\ m < s[i - 1]
                OBVIOUS
            <4>1. i - 1 \in 1..(n - 1)
                BY <3>2
            <4>2. s[i - 1] \in R
                BY <3>4, <4>1
            <4>3. m \in Nat /\ s[i - 1] \in Nat /\ m <= s[i - 1] /\ m # s[i - 1]
                <5>1. m \in 1..N /\ s[i - 1] \in 1..N /\ m # s[i - 1]
                    BY <2>2, <3>1, <4>2
                <5> QED
                    BY <3>1, <4>2, <5>1
            <4> QED
                BY <4>1, <4>2, <4>3
        <3>6. t \in [1..n -> T]
            BY <3>1, <3>2, <3>5
        <3>7. IsAscending(t)
            <4>1. ASSUME NEW i \in 1..n, NEW j \in 1..n, i < j PROVE t[i] < t[j]
                <5>1. CASE i = 1
                    BY <4>1, <5>1, <3>5
                <5>2. CASE i # 1
                    <6>1. i - 1 \in DOMAIN s /\ j - 1 \in DOMAIN s /\ i - 1 < j - 1
                        BY <3>2, <3>4, <4>1, <5>2
                    <6>2. s[i - 1] < s[j - 1]
                        BY <3>4, <6>1 DEF IsAscending
                    <6> QED
                        BY <4>1, <5>2, <6>2
                <5> QED
                    BY <5>1, <5>2
            <4>2. DOMAIN t = 1..n
                OBVIOUS
            <4> HIDE DEF t
            <4> QED
                BY <4>1, <4>2 DEF IsAscending
        <3>8. Elements(t) = T
            <4>0. n \in Nat /\ n - 1 \in Nat
                BY <3>2, <3>3
            <4>1. Len(s) = n - 1
                BY <3>4, <4>0, ElementsOfFunction
            <4>2. ASSUME NEW x \in T PROVE x \in {t[i] : i \in 1..n}
                <5>1. CASE x = m
                    <6>1. 1 \in 1..n /\ t[1] = m
                        BY <3>2
                    <6> QED
                        BY <5>1, <6>1
                <5>2. CASE x # m
                    <6>1. PICK i \in 1..(n - 1) : x = s[i]
                        BY <3>4, <4>1, <5>2 DEF Elements
                    <6>2. i + 1 \in 1..n /\ i + 1 # 1 /\ (i + 1) - 1 = i
                        BY <3>2
                    <6>3. t[i + 1] = x
                        BY <6>1, <6>2
                    <6> QED
                        BY <6>2, <6>3
                <5> QED
                    BY <5>1, <5>2
            <4>3. \A i \in 1..n : t[i] \in T
                BY <3>6
            <4> HIDE DEF t
            <4>4. Len(t) = n
                BY <3>6, <4>0, ElementsOfFunction
            <4> QED
                BY <4>2, <4>3, <4>4 DEF Elements
        <3> QED
            BY <2>2, <3>6, <3>7, <3>8 DEF Enumerates
    <2> QED
        BY <2>3, <2>4
<1> QED
    BY <1>1, <1>2

LEMMA AscendingType ==
    ASSUME NEW N \in Nat, NEW S \in SUBSET (1..N)
    PROVE  /\ Cardinality(S) \in Nat
           /\ Ascending(S) \in [1..Cardinality(S) -> S]
           /\ Elements(Ascending(S)) = S
           /\ IsAscending(Ascending(S))
BY AscendingExists DEF Ascending, IsAscending, Enumerates

-----------------------------------------------------------------------------
(* Typing *)

\* What TypeOK says of each sequence.
LEMMA SequenceTypes ==
    ASSUME TypeOK
    PROVE  /\ unpublished \in Seq(Seqs) /\ buffer \in Seq(Seqs) /\ replay \in Seq(Seqs)
           /\ wire \in Seq(Seqs) /\ outbox \in Seq(Seqs) /\ shown \in Seq(Seqs)
           /\ cursor \in Nat /\ lastEventId \in Nat
           /\ events \in Seq(EventTypes)
           /\ Seqs \subseteq Nat \ {0}
BY ConstantsAssumption DEF TypeOK, Seqs

\* Numbers of the log are sequence numbers.
LEMMA LogSeqs ==
    ASSUME LogTellsRow
    PROVE  /\ Len(events) \in Nat /\ Len(events) <= MaxProgress + 3
           /\ 1..Len(events) \subseteq Seqs /\ 0..Len(events) \subseteq Seqs \cup {0}
BY ConstantsAssumption DEF LogTellsRow, Seqs

LEMMA InitIInv == Init => IInv
<1> SUFFICES ASSUME Init PROVE IInv
    OBVIOUS
<1>1. TypeOK
    <2>1. <<"queued">> \in Seq(EventTypes)
        BY DEF EventTypes
    <2>2. <<>> \in Seq(Seqs)
        OBVIOUS
    <2>3. 0 \in 0..MaxDrops /\ 0 \in 0..MaxFaults
        BY ConstantsAssumption
    <2> QED
        BY <2>1, <2>2, <2>3 DEF Init, TypeOK, Active
<1>2. LogTellsRow
    BY ConstantsAssumption DEF Init, LogTellsRow, Active, Terminal, IsTerminal, Seqs
<1>3. MessagesAreOfLog
    BY DEF Init, MessagesAreOfLog, Published
<1>4. PhasesOfRoute /\ CursorsInOrder
    BY DEF Init, PhasesOfRoute, CursorsInOrder
<1>5. PageInOrder
    BY DEF Init, PageInOrder, Terminal
<1>6. NothingSkipped
    BY DEF Init, NothingSkipped
<1> QED
    BY <1>1, <1>2, <1>3, <1>4, <1>5, <1>6 DEF IInv

-----------------------------------------------------------------------------
(* The worker *)

\* A step of the worker that leaves the log alone and may settle the row.
LEMMA RowMoves ==
    ASSUME IInv, row' \in Active \cup Terminal,
           \/ row = "queued" /\ row' = "running"
           \/ row = "running" /\ row' \in Terminal,
           UNCHANGED <<events, worker, unpublished, serverVars, redisVars, outbox, panelVars,
                       faultVars>>
    PROVE  IInv'
<1>1. TypeOK' /\ LogTellsRow'
    BY DEF IInv, TypeOK, LogTellsRow, IsTerminal, Active, Terminal, serverVars, redisVars,
        panelVars, faultVars
<1>2. MessagesAreOfLog' /\ PhasesOfRoute' /\ CursorsInOrder'
    BY DEF IInv, MessagesAreOfLog, PhasesOfRoute, CursorsInOrder, Published, serverVars,
        redisVars, panelVars
<1>3. PageInOrder'
    BY DEF IInv, PageInOrder, Terminal, panelVars
<1>4. NothingSkipped'
    BY DEF IInv, NothingSkipped, Published, serverVars, redisVars, panelVars, faultVars
<1> QED
    BY <1>1, <1>2, <1>3, <1>4 DEF IInv

\* The log grows by events the worker has still to publish; row' is the row it tells of.
Appends(types) == events' = events \o types /\ Persist(Len(types))

LEMMA LogGrows ==
    ASSUME IInv, NEW types \in Seq(EventTypes), Appends(types),
           Len(types) \in 1..2, Len(events) <= MaxProgress + 1,
           Len(types) = 2 => types[1] = "progress",
           ~IsTerminal(Len(events)),
           row = "queued" => row' = "queued", row' = "queued" => row = "queued",
           row' \in Active \cup Terminal,
           row' \in Active => Len(events) <= MaxProgress /\ Len(types) = 1,
           \A i \in 1..Len(types) :
                /\ types[i] \in Terminal => i = Len(types) /\ types[i] = row'
                /\ types[i] = "started" => row' # "queued",
           row' # row => row \in Active,
           types[Len(types)] \in Terminal \/ row' \in Active,
           UNCHANGED <<serverVars, redisVars, outbox, panelVars, faultVars>>
    PROVE  IInv'
<1>1. /\ events' = events \o types
      /\ unpublished = <<>> /\ unpublished' = [i \in 1..Len(types) |-> Len(events) + i]
    BY DEF Appends, Persist
<1>2. /\ events \in Seq(EventTypes) /\ Len(events) \in Nat \ {0}
      /\ MaxProgress \in Nat \ {0} /\ Len(types) \in Nat
    BY ConstantsAssumption DEF IInv, TypeOK, LogTellsRow, Seqs
<1>3. /\ events' \in Seq(EventTypes)
      /\ Len(events') = Len(events) + Len(types)
      /\ \A i \in 1..Len(events) : events'[i] = events[i]
      /\ \A i \in 1..Len(types) : events'[Len(events) + i] = types[i]
    BY <1>1, <1>2
<1>4. \A i \in 1..Len(events') :
        \/ i \in 1..Len(events) /\ events'[i] = events[i]
        \/ i - Len(events) \in 1..Len(types) /\ events'[i] = types[i - Len(events)]
    BY <1>2, <1>3
<1>5. \A i \in 1..Len(events) : events[i] \notin Terminal
    BY DEF IInv, LogTellsRow, IsTerminal
<1>6. Published = Len(events) /\ Published' = Len(events)
    <2>1. Len(unpublished) = 0 /\ Len(unpublished') = Len(types)
        BY <1>1, <1>2
    <2> QED
        BY <1>2, <1>3, <2>1 DEF Published
<1>7. TypeOK'
    <2>1. unpublished' \in Seq(Seqs)
        <3>1. \A i \in 1..Len(types) : Len(events) + i \in Seqs
            BY <1>2 DEF Seqs
        <3> QED
            BY <1>1, <1>2, <3>1
    <2> QED
        BY <1>3, <2>1 DEF IInv, TypeOK, Appends, Persist, serverVars, redisVars, panelVars,
                faultVars
<1>8. LogTellsRow'
    <2>1. Len(events') \in Seqs'
        BY <1>2, <1>3 DEF Seqs
    <2>2. ASSUME row' \in Active PROVE Len(events') <= MaxProgress + 1
        <3>1. Len(events) <= MaxProgress /\ Len(types) = 1
            BY <2>2
        <3> QED
            BY <1>2, <1>3, <3>1
    <2>3. row' \in Active \/ IsTerminal(Len(events))'
        BY <1>2, <1>3 DEF IsTerminal
    <2>4. \A i \in 1..Len(events') :
            /\ events'[i] \in Terminal => i = Len(events') /\ events'[i] = row'
            /\ events'[i] = "started" => row' # "queued"
        <3> SUFFICES ASSUME NEW i \in 1..Len(events')
                     PROVE  /\ events'[i] \in Terminal => i = Len(events') /\ events'[i] = row'
                            /\ events'[i] = "started" => row' # "queued"
            OBVIOUS
        <3>1. CASE i \in 1..Len(events) /\ events'[i] = events[i]
            BY <1>5, <3>1 DEF IInv, LogTellsRow
        <3>2. CASE i - Len(events) \in 1..Len(types) /\ events'[i] = types[i - Len(events)]
            BY <1>2, <1>3, <3>2
        <3> QED
            BY <1>4, <3>1, <3>2
    <2> QED
        BY <2>1, <2>2, <2>3, <2>4 DEF LogTellsRow
<1>9. MessagesAreOfLog'
    <2>1. unpublished' = [i \in 1..Len(unpublished') |-> Published' + i]
        BY <1>1, <1>2, <1>6
    <2>2. 1..Len(events) \subseteq 1..Len(events') /\ Published = Published'
        BY <1>2, <1>3, <1>6
    <2> QED
        BY <1>2, <1>6, <2>1, <2>2 DEF IInv, MessagesAreOfLog, serverVars, redisVars
<1>10. PhasesOfRoute' /\ CursorsInOrder'
    <2>1. PhasesOfRoute'
        <3>1. cursor + Len(replay) <= Len(events) => cursor + Len(replay) <= Len(events')
            BY <1>2, <1>3, SequenceTypes DEF IInv
        <3> QED
            BY <3>1 DEF IInv, PhasesOfRoute, serverVars, redisVars, panelVars
    <2>2. CursorsInOrder'
        <3>1. 0..Len(events) \subseteq 0..Len(events')
            BY <1>2, <1>3
        <3> QED
            BY <3>1 DEF IInv, CursorsInOrder, serverVars, panelVars
    <2> QED
        BY <2>1, <2>2
<1>11. PageInOrder'
    BY <1>2, <1>3 DEF IInv, PageInOrder, panelVars, Active, Terminal
<1>12. NothingSkipped'
    BY <1>6 DEF IInv, NothingSkipped, serverVars, redisVars, panelVars, faultVars
<1> QED
    BY <1>7, <1>8, <1>9, <1>10, <1>11, <1>12 DEF IInv

LEMMA EmitsKeepIInv ==
    ASSUME IInv, EmitProgress \/ SaveSuccess \/ FinalizeEmit
    PROVE  IInv'
<1>1. /\ row \in Active \cup Terminal /\ Active \cap Terminal = {} /\ Len(events) \in Nat \ {0}
      /\ row \in Active \/ ~IsTerminal(Len(events)) => Len(events) <= MaxProgress + 1
      /\ row \in Active => ~IsTerminal(Len(events))
    <2>1. row \in Active \cup Terminal /\ Active \cap Terminal = {}
        BY DEF IInv, TypeOK, Active, Terminal
    <2>2. Len(events) \in Nat \ {0}
        BY DEF IInv, LogTellsRow, Seqs
    <2>3. row \in Active \/ ~IsTerminal(Len(events)) => Len(events) <= MaxProgress + 1
        BY DEF IInv, LogTellsRow
    <2>4. row \in Active => ~IsTerminal(Len(events))
        <3>1. Len(events) \in 1..Len(events)
            BY <2>2
        <3> QED
            BY <2>1, <3>1 DEF IInv, LogTellsRow, IsTerminal
    <2> QED
        BY <2>1, <2>2, <2>3, <2>4
<1>2. CASE EmitProgress
    <2> DEFINE types == <<IF Len(events) = 1 THEN "started" ELSE "progress">>
    <2>1. types \in Seq(EventTypes) /\ Len(types) = 1 /\ types[1] \in {"started", "progress"}
        BY DEF EventTypes
    <2>2. Appends(types) /\ row = "running" /\ row' = row /\ Len(events) <= MaxProgress
        BY <1>2, <2>1 DEF EmitProgress, Run!Emit, Appends
    <2>3. UNCHANGED <<serverVars, redisVars, outbox, panelVars, faultVars>>
        BY <1>2 DEF EmitProgress
    <2> HIDE DEF types
    <2>4. \A i \in 1..Len(types) : types[i] \notin Terminal
        BY <2>1 DEF Terminal
    <2>5. /\ Len(types) \in 1..2 /\ Len(types) # 2 /\ row' \in Active /\ row # "queued" /\ row' # "queued"
          /\ ~IsTerminal(Len(events)) /\ Len(events) <= MaxProgress + 1
        BY <1>1, <2>1, <2>2 DEF Active
    <2> QED
        BY <2>1, <2>2, <2>3, <2>4, <2>5, LogGrows
<1>3. CASE SaveSuccess
    <2> DEFINE types == <<"progress", "succeeded">>
    <2>1. types \in Seq(EventTypes) /\ Len(types) = 2 /\ types[1] = "progress" /\ types[2] = "succeeded"
        BY DEF EventTypes, Terminal
    <2>2. Appends(types) /\ row = "running" /\ row' = "succeeded"
        BY <1>3, <2>1 DEF SaveSuccess, Run!Succeed, Appends
    <2>3. UNCHANGED <<serverVars, redisVars, outbox, panelVars, faultVars>>
        BY <1>3 DEF SaveSuccess
    <2> HIDE DEF types
    <2>4. \A i \in 1..Len(types) :
            (i = 1 /\ types[i] = "progress") \/ (i = 2 /\ types[i] = "succeeded")
        BY <2>1
    <2>5. /\ Len(types) \in 1..2 /\ ~IsTerminal(Len(events)) /\ Len(events) <= MaxProgress + 1
          /\ row' \in Terminal /\ row' \notin Active /\ row \in Active /\ row # "queued"
        BY <1>1, <2>1, <2>2 DEF Active, Terminal
    <2>6. \A i \in 1..Len(types) :
            /\ types[i] \in Terminal => i = Len(types) /\ types[i] = row'
            /\ types[i] = "started" => row' # "queued"
        BY <2>1, <2>2, <2>4 DEF Terminal
    <2>7. types[Len(types)] \in Terminal /\ (row' = "queued" => row = "queued")
        BY <2>1, <2>2 DEF Terminal
    <2> QED
        BY <2>1, <2>2, <2>3, <2>5, <2>6, <2>7, LogGrows
<1>4. CASE FinalizeEmit
    <2> DEFINE types == <<row>>
    <2>1. row \in {"failed", "cancelled"} /\ row' = row /\ ~IsTerminal(Len(events)) /\ Appends(types)
        BY <1>4 DEF FinalizeEmit, Run!Announce, Run!Closed, IsTerminal, Terminal, Appends
    <2>2. types \in Seq(EventTypes) /\ Len(types) = 1 /\ types[1] = row
        BY <2>1 DEF EventTypes, Terminal
    <2>3. UNCHANGED <<serverVars, redisVars, outbox, panelVars, faultVars>>
        BY <1>4 DEF FinalizeEmit
    <2> HIDE DEF types
    <2>4. \A i \in 1..Len(types) : i = Len(types) /\ types[i] = row' /\ types[i] # "started"
        BY <2>1, <2>2
    <2>5. /\ Len(types) \in 1..2 /\ Len(types) # 2 /\ types[Len(types)] \in Terminal
          /\ row' \in Terminal /\ row' \notin Active /\ row' # "queued" /\ row # "queued"
          /\ Len(events) <= MaxProgress + 1
        BY <1>1, <2>1, <2>2 DEF Active, Terminal
    <2> QED
        BY <2>1, <2>2, <2>3, <2>4, <2>5, LogGrows
<1> QED
    BY <1>2, <1>3, <1>4

\* The events still to publish, and what the steps of the worker's publications leave
\* alone.
LEMMA ToPublish ==
    ASSUME IInv
    PROVE  /\ unpublished \in Seq(Seqs) /\ wire \in Seq(Seqs) /\ buffer \in Seq(Seqs)
           /\ Len(unpublished) \in Nat /\ Len(wire) \in Nat /\ Len(buffer) \in Nat
           /\ Len(events) \in Nat /\ 1..Len(events) \subseteq Seqs
           /\ Published \in 1..Len(events) /\ Published + Len(unpublished) = Len(events)
           /\ \A i \in 1..Len(unpublished) : unpublished[i] = Published + i
           /\ unpublished # <<>> => /\ Head(unpublished) = Published + 1
                                   /\ Published + 1 \in 1..Len(events)
           /\ Elements(unpublished) = (Published + 1)..Len(events)
           /\ cursor \in Nat /\ Len(replay) \in Nat
<1>1. /\ unpublished \in Seq(Seqs) /\ wire \in Seq(Seqs) /\ buffer \in Seq(Seqs)
      /\ Len(unpublished) \in Nat /\ Len(wire) \in Nat /\ Len(buffer) \in Nat
      /\ Len(events) \in Nat /\ 1..Len(events) \subseteq Seqs
      /\ cursor \in Nat /\ Len(replay) \in Nat
    BY SequenceTypes, LogSeqs DEF IInv
<1>2. Published \in 1..Len(events) /\ Published = Len(events) - Len(unpublished)
    BY DEF IInv, MessagesAreOfLog, Published
<1>3. Published + Len(unpublished) = Len(events)
    BY <1>1, <1>2
<1>4. \A i \in 1..Len(unpublished) : unpublished[i] = Published + i
    BY DEF IInv, MessagesAreOfLog
<1>5. ASSUME unpublished # <<>>
      PROVE  Head(unpublished) = Published + 1 /\ Published + 1 \in 1..Len(events)
    <2>1. 1 \in 1..Len(unpublished) /\ Head(unpublished) = unpublished[1]
        BY <1>1, <1>5
    <2> QED
        BY <1>1, <1>2, <1>3, <1>4, <2>1
<1>6. Elements(unpublished) = (Published + 1)..Len(events)
    <2>1. \A x \in (Published + 1)..Len(events) :
            x - Published \in 1..Len(unpublished) /\ x = Published + (x - Published)
        BY <1>1, <1>2, <1>3
    <2>2. \A i \in 1..Len(unpublished) : Published + i \in (Published + 1)..Len(events)
        BY <1>1, <1>2, <1>3
    <2> QED
        BY <1>4, <2>1, <2>2 DEF Elements
<1> QED
    BY <1>1, <1>2, <1>3, <1>4, <1>5, <1>6

\* An event put on the wire, or lost to the open stream.
LEMMA Sent ==
    ASSUME IInv, unpublished # <<>>, wire' = Append(wire, Head(unpublished))
    PROVE  /\ wire' \in Seq(Seqs) /\ Elements(wire') = Elements(wire) \cup {Published + 1}
           /\ \A i \in 1..Len(wire') :
                wire'[i] \in 1..Len(events) /\ wire'[i] <= Published + 1
           /\ \A i, j \in 1..Len(wire') : i < j => wire'[i] <= wire'[j]
           /\ \A i \in 1..Len(buffer) : \A j \in 1..Len(wire') : buffer[i] <= wire'[j]
<1> DEFINE n == Len(wire)
           new == Published + 1
<1>1. /\ wire \in Seq(Seqs) /\ n \in Nat /\ Len(events) \in Nat /\ new \in 1..Len(events)
      /\ new \in Seqs /\ wire' = Append(wire, new) /\ new \in Nat
    BY ToPublish
<1>2. /\ \A i \in 1..n : wire[i] \in 1..Len(events) /\ wire[i] <= new
      /\ \A i, j \in 1..n : i < j => wire[i] <= wire[j]
      /\ \A i \in 1..Len(buffer) : buffer[i] \in 1..Len(events) /\ buffer[i] <= new
      /\ \A i \in 1..Len(buffer) : \A j \in 1..n : buffer[i] <= wire[j]
    BY DEF IInv, MessagesAreOfLog
<1>3. Elements(wire') = Elements(wire) \cup {new}
    BY <1>1, ElementsOfAppend
<1> HIDE DEF new
<1>4. /\ wire' \in Seq(Seqs) /\ Len(wire') = n + 1 /\ wire'[n + 1] = new
      /\ \A i \in 1..n : wire'[i] = wire[i]
    BY <1>1
<1>5. \A i \in 1..(n + 1) : i \in 1..n \/ i = n + 1
    BY <1>1
<1>6. \A i \in 1..(n + 1) : wire'[i] \in 1..Len(events) /\ wire'[i] <= new
    BY <1>1, <1>2, <1>4, <1>5
<1>7. \A i, j \in 1..(n + 1) : i < j => wire'[i] <= wire'[j]
    <2> SUFFICES ASSUME NEW i \in 1..(n + 1), NEW j \in 1..(n + 1), i < j
                 PROVE  wire'[i] <= wire'[j]
        OBVIOUS
    <2>1. i \in 1..n
        BY <1>1
    <2> QED
        BY <1>2, <1>4, <1>5, <2>1
<1>8. \A i \in 1..Len(buffer) : \A j \in 1..(n + 1) : buffer[i] <= wire'[j]
    BY <1>2, <1>4, <1>5
<1> QED
    BY <1>3, <1>4, <1>6, <1>7, <1>8 DEF new

\* What a stream misses is of the log.
LEMMA Missed ==
    ASSUME IInv, NEW seqs \in SUBSET Seqs, Miss(seqs)
    PROVE  /\ lost' \subseteq Seqs /\ lost \subseteq lost'
           /\ server \in {"replaying", "live"} =>
                \A seq \in seqs : seq > cursor + Len(replay) => seq \in lost'
BY DEF Miss, IInv, TypeOK

\* Publishing takes the next event of the log to the wire, or to nobody.
LEMMA PublishKeepsIInv ==
    ASSUME IInv, Publish
    PROVE  IInv'
<1> DEFINE new == Published + 1
           m == Len(unpublished)
<1>1. /\ unpublished # <<>> /\ unpublished' = Tail(unpublished)
      /\ wire' = IF link = "up" THEN Append(wire, Head(unpublished)) ELSE wire
      /\ Miss(IF link = "down" THEN {Head(unpublished)} ELSE {})
      /\ UNCHANGED <<row, events, worker, server, cursor, buffer, replay, link, outbox, page, panel,
                     shown, source, lastEventId, drops, faults>>
    BY DEF Publish, serverVars, panelVars
<1>2. /\ unpublished \in Seq(Seqs) /\ m \in Nat \ {0} /\ Published \in Nat
      /\ Len(events) \in Nat /\ new \in 1..Len(events) /\ 1..Len(events) \subseteq Seqs
      /\ Published + m = Len(events) /\ Head(unpublished) = new
      /\ \A i \in 1..m : unpublished[i] = Published + i
      /\ cursor \in Nat /\ Len(replay) \in Nat /\ wire \in Seq(Seqs)
    BY <1>1, ToPublish
<1>3. /\ unpublished' \in Seq(Seqs) /\ Len(unpublished') = m - 1
      /\ \A i \in 1..(m - 1) : unpublished'[i] = new + i
    BY <1>1, <1>2
<1>4. Published' = new
    BY <1>1, <1>2, <1>3 DEF Published
<1>5. /\ lost' \subseteq Seqs /\ lost \subseteq lost'
      /\ link = "down" /\ server \in {"replaying", "live"} /\ new > cursor + Len(replay)
         => new \in lost'
    BY <1>1, <1>2, Missed
<1>6. link = "up" => wire' = Append(wire, Head(unpublished))
    BY <1>1
<1>7. /\ wire' \in Seq(Seqs)
      /\ Elements(wire) \subseteq Elements(wire')
      /\ link = "up" => new \in Elements(wire')
    <2>1. CASE link = "up"
        BY <1>1, <1>6, <2>1, Sent
    <2>2. CASE link # "up"
        BY <1>1, <1>2, <2>2
    <2> QED
        BY <2>1, <2>2
<1> HIDE DEF m, new
<1>8. TypeOK'
    BY <1>1, <1>3, <1>5, <1>7 DEF IInv, TypeOK
<1>9. LogTellsRow' /\ CursorsInOrder' /\ PageInOrder'
    BY <1>1 DEF IInv, LogTellsRow, IsTerminal, CursorsInOrder, PageInOrder
<1>10. PhasesOfRoute'
    BY <1>1 DEF IInv, PhasesOfRoute
<1>11. MessagesAreOfLog'
    <2>1. unpublished' = [i \in 1..Len(unpublished') |-> Published' + i]
        <3> DEFINE q == unpublished'
        <3>1. q \in Seq(Seqs) /\ \A i \in 1..Len(q) : q[i] = new + i
            BY <1>3
        <3> HIDE DEF q
        <3>2. q = [i \in 1..Len(q) |-> new + i]
            BY <3>1
        <3> QED
            BY <1>4, <3>2 DEF q
    <2>2. /\ \A i \in 1..Len(wire') : wire'[i] \in 1..Len(events) /\ wire'[i] <= new
          /\ \A i, j \in 1..Len(wire') : i < j => wire'[i] <= wire'[j]
          /\ \A i \in 1..Len(buffer) : \A j \in 1..Len(wire') : buffer[i] <= wire'[j]
        <3>1. CASE link = "up"
            BY <1>1, <1>6, <3>1, Sent DEF new
        <3>2. CASE link # "up"
            BY <1>1, <3>2 DEF IInv, MessagesAreOfLog, new
        <3> QED
            BY <3>1, <3>2
    <2>3. new <= new + 1 /\ \A x \in 1..Len(events) : x <= new => x <= new + 1
        BY <1>2
    <2>4. \A i \in 1..Len(buffer) : buffer[i] \in 1..Len(events) /\ buffer[i] <= new
        BY DEF IInv, MessagesAreOfLog, new
    <2> QED
        BY <1>1, <1>2, <1>4, <2>1, <2>2, <2>3, <2>4 DEF MessagesAreOfLog
<1>12. NothingSkipped'
    <2>1. ASSUME server \in {"replaying", "live"},
                 NEW seq \in (cursor + Len(replay) + 1)..new
          PROVE  seq \in Elements(wire') \cup Elements(buffer) \cup lost'
        <3>1. CASE seq # new
            <4>1. seq \in (cursor + Len(replay) + 1)..Published
                BY <1>2, <3>1 DEF new
            <4> QED
                BY <1>5, <1>7, <2>1, <4>1 DEF IInv, NothingSkipped
        <3>2. CASE seq = new
            <4>1. new > cursor + Len(replay)
                BY <1>2, <3>2
            <4>2. link \in {"none", "up", "down"} /\ link # "none"
                BY <2>1 DEF IInv, TypeOK, PhasesOfRoute
            <4> QED
                BY <1>5, <1>7, <2>1, <3>2, <4>1, <4>2
        <3> QED
            BY <3>1, <3>2
    <2> QED
        BY <1>1, <1>4, <1>5, <2>1 DEF IInv, NothingSkipped
<1> QED
    BY <1>8, <1>9, <1>10, <1>11, <1>12 DEF IInv

\* A publication that Redis executed and nobody heard of.
LEMMA PublishUnansweredKeepsIInv ==
    ASSUME IInv, PublishUnanswered
    PROVE  IInv'
<1>1. /\ unpublished # <<>> /\ link = "up" /\ wire' = Append(wire, Head(unpublished))
      /\ faults < MaxFaults /\ faults' = faults + 1
      /\ UNCHANGED <<row, events, worker, unpublished, server, cursor, buffer, replay, link, outbox,
                     page, panel, shown, source, lastEventId, drops, lost>>
      /\ Published' = Published
    BY DEF PublishUnanswered, Fault, workerVars, serverVars, panelVars, Published
<1>2. /\ wire' \in Seq(Seqs) /\ Elements(wire) \subseteq Elements(wire')
      /\ \A i \in 1..Len(wire') : wire'[i] \in 1..Len(events) /\ wire'[i] <= Published + 1
      /\ \A i, j \in 1..Len(wire') : i < j => wire'[i] <= wire'[j]
      /\ \A i \in 1..Len(buffer) : \A j \in 1..Len(wire') : buffer[i] <= wire'[j]
    BY <1>1, Sent
<1>3. faults' \in 0..MaxFaults
    BY <1>1, ConstantsAssumption DEF IInv, TypeOK
<1>4. TypeOK'
    BY <1>1, <1>2, <1>3 DEF IInv, TypeOK
<1>5. LogTellsRow' /\ CursorsInOrder' /\ PageInOrder' /\ PhasesOfRoute'
    BY <1>1 DEF IInv, LogTellsRow, IsTerminal, CursorsInOrder, PageInOrder, PhasesOfRoute
<1>6. MessagesAreOfLog'
    BY <1>1, <1>2 DEF IInv, MessagesAreOfLog
<1>7. NothingSkipped'
    BY <1>1, <1>2 DEF IInv, NothingSkipped
<1> QED
    BY <1>4, <1>5, <1>6, <1>7 DEF IInv

\* A job that ends or goes on without the publications it owed: the open stream misses
\* those that are not on their way.
LEMMA AbandonKeepsIInv ==
    ASSUME IInv, PublishFails \/ WorkerStops
    PROVE  IInv'
<1> DEFINE owed == Elements(unpublished) \ (Elements(wire) \cup Elements(buffer))
<1>1. worker' \in {"working", "failing", "stopped"} /\ AbandonPublications
    BY DEF PublishFails, WorkerStops
<1>2. /\ unpublished' = <<>> /\ Miss(owed)
      /\ faults < MaxFaults /\ faults' = faults + 1
      /\ UNCHANGED <<row, events, server, cursor, buffer, replay, link, wire, outbox,
                     page, panel, shown, source, lastEventId, drops>>
    BY <1>1 DEF AbandonPublications, Fault, serverVars, redisVars, panelVars
<1>3. /\ Published \in 1..Len(events) /\ Len(events) \in Nat /\ 1..Len(events) \subseteq Seqs
      /\ Elements(unpublished) = (Published + 1)..Len(events)
      /\ cursor \in Nat /\ Len(replay) \in Nat
    BY ToPublish
<1>4. Published' = Len(events)
    BY <1>2, <1>3 DEF Published
<1>5. /\ lost' \subseteq Seqs /\ lost \subseteq lost'
      /\ server \in {"replaying", "live"} =>
            \A seq \in owed : seq > cursor + Len(replay) => seq \in lost'
    <2>1. owed \in SUBSET Seqs
        BY <1>3
    <2> QED
        BY <1>2, <2>1, Missed
<1>6. TypeOK'
    <2>1. faults' \in 0..MaxFaults /\ <<>> \in Seq(Seqs)
        BY <1>2, ConstantsAssumption DEF IInv, TypeOK
    <2> QED
        BY <1>1, <1>2, <1>5, <2>1 DEF IInv, TypeOK
<1>7. LogTellsRow' /\ CursorsInOrder' /\ PageInOrder' /\ PhasesOfRoute'
    BY <1>2 DEF IInv, LogTellsRow, IsTerminal, CursorsInOrder, PageInOrder, PhasesOfRoute
<1>8. MessagesAreOfLog'
    <2>1. unpublished' = [i \in 1..Len(unpublished') |-> Published' + i]
        BY <1>2
    <2>2. Published' \in 1..Len(events') /\ \A x \in 1..Len(events) : x <= Published' + 1
        BY <1>2, <1>3, <1>4
    <2> QED
        BY <1>2, <2>1, <2>2 DEF IInv, MessagesAreOfLog
<1>9. NothingSkipped'
    <2>1. ASSUME server \in {"replaying", "live"},
                 NEW seq \in (cursor + Len(replay) + 1)..Len(events)
          PROVE  seq \in Elements(wire) \cup Elements(buffer) \cup lost'
        <3>1. CASE seq <= Published
            <4>1. seq \in (cursor + Len(replay) + 1)..Published
                BY <1>3, <3>1
            <4> QED
                BY <1>5, <2>1, <4>1 DEF IInv, NothingSkipped
        <3>2. CASE ~(seq <= Published)
            <4>1. seq \in Elements(unpublished) /\ seq > cursor + Len(replay)
                BY <1>3, <3>2
            <4> QED
                BY <1>5, <2>1, <4>1
        <3> QED
            BY <3>1, <3>2
    <2> QED
        BY <1>2, <1>4, <1>5, <2>1 DEF IInv, NothingSkipped
<1> QED
    BY <1>6, <1>7, <1>8, <1>9 DEF IInv

LEMMA WorkerKeepsIInv ==
    ASSUME IInv, WorkerStep \/ PublishUnanswered \/ PublishFails \/ WorkerStops
    PROVE  IInv'
<1>1. CASE ClaimRun
    BY <1>1, RowMoves DEF ClaimRun, Run!Claim, Active
<1>2. CASE FinalizeStatus
    BY <1>2, RowMoves DEF FinalizeStatus, Run!Settle, Active, Terminal
<1> QED
    BY <1>1, <1>2, EmitsKeepIInv, PublishKeepsIInv, PublishUnansweredKeepsIInv,
        AbandonKeepsIInv DEF WorkerStep

-----------------------------------------------------------------------------
(* The route *)

\* What is left of the wire when its first message has been taken.
LEMMA WireTail ==
    ASSUME IInv, wire # <<>>
    PROVE  /\ Tail(wire) \in Seq(Seqs) /\ Elements(wire) = {Head(wire)} \cup Elements(Tail(wire))
           /\ Head(wire) \in 1..Len(events) /\ Head(wire) \in Seqs /\ Head(wire) <= Published + 1
           /\ \A i \in 1..Len(buffer) : buffer[i] <= Head(wire)
           /\ \A i \in 1..Len(Tail(wire)) :
                /\ Tail(wire)[i] \in 1..Len(events) /\ Tail(wire)[i] <= Published + 1
                /\ Head(wire) <= Tail(wire)[i]
                /\ \A j \in 1..Len(buffer) : buffer[j] <= Tail(wire)[i]
           /\ \A i, j \in 1..Len(Tail(wire)) : i < j => Tail(wire)[i] <= Tail(wire)[j]
<1> DEFINE t == Tail(wire)
<1>1. /\ wire \in Seq(Seqs) /\ Len(wire) \in Nat \ {0} /\ 1..Len(events) \subseteq Seqs
    BY SequenceTypes, LogSeqs DEF IInv
<1>2. /\ \A i \in 1..Len(wire) : wire[i] \in 1..Len(events) /\ wire[i] <= Published + 1
      /\ \A i, j \in 1..Len(wire) : i < j => wire[i] <= wire[j]
      /\ \A i \in 1..Len(buffer) : \A j \in 1..Len(wire) : buffer[i] <= wire[j]
    BY DEF IInv, MessagesAreOfLog
<1>3. t \in Seq(Seqs) /\ Len(t) = Len(wire) - 1 /\ Head(wire) = wire[1]
    BY <1>1
<1>4. \A i \in 1..Len(t) : t[i] = wire[i + 1] /\ i + 1 \in 1..Len(wire) /\ 1 < i + 1
    BY <1>1, <1>3
<1>5. 1 \in 1..Len(wire)
    BY <1>1
<1>6. Elements(wire) = {Head(wire)} \cup Elements(t)
    BY <1>1, ElementsOfTail
<1> HIDE DEF t
<1>7. \A i \in 1..Len(t) :
        /\ t[i] \in 1..Len(events) /\ t[i] <= Published + 1 /\ Head(wire) <= t[i]
        /\ \A j \in 1..Len(buffer) : buffer[j] <= t[i]
    BY <1>2, <1>3, <1>4, <1>5
<1>8. ASSUME NEW i \in 1..Len(t), NEW j \in 1..Len(t), i < j PROVE t[i] <= t[j]
    <2>1. i + 1 < j + 1
        BY <1>8
    <2> QED
        BY <1>2, <1>4, <2>1
<1> QED
    BY <1>1, <1>2, <1>3, <1>5, <1>6, <1>7, <1>8 DEF t

\* What send() leaves behind for events that are new and in order.
LEMMA SendFacts ==
    ASSUME IInv, server \in {"replaying", "live"},
           NEW fresh \in Seq(1..Len(events)),
           \A i \in 1..Len(fresh) : fresh[i] > cursor,
           \A i, j \in 1..Len(fresh) : i < j => fresh[i] < fresh[j],
           Send(fresh)
    PROVE  /\ outbox' \in Seq(Seqs) /\ Elements(outbox') = Elements(outbox) \cup Elements(fresh)
           /\ cursor' \in 0..Len(events) /\ cursor <= cursor'
           /\ cursor' \in {cursor} \cup Elements(fresh)
           /\ \A seq \in Elements(fresh) : seq <= cursor'
           /\ \A i \in 1..Len(outbox') : outbox'[i] \in (lastEventId + 1)..cursor'
           /\ \A i, j \in 1..Len(outbox') : i < j => outbox'[i] < outbox'[j]
           /\ \/ server' = "live" /\ link' = link
              \/ server' = "closed" /\ link' = "none" /\ wire' = <<>>
<1> DEFINE n == Len(outbox)
           m == Len(fresh)
<1>1. /\ outbox \in Seq(Seqs) /\ n \in Nat /\ m \in Nat /\ Len(events) \in Nat
      /\ cursor \in 0..Len(events) /\ lastEventId \in 0..Len(events) /\ lastEventId <= cursor
      /\ 1..Len(events) \subseteq Seqs
    BY SequenceTypes, LogSeqs DEF IInv, CursorsInOrder
<1>2. /\ \A i \in 1..n : outbox[i] \in (lastEventId + 1)..cursor
      /\ \A i, j \in 1..n : i < j => outbox[i] < outbox[j]
    BY DEF IInv, CursorsInOrder
<1>3. outbox' = outbox \o fresh /\ cursor' = IF fresh = <<>> THEN cursor ELSE fresh[m]
    BY DEF Send
<1>4. /\ outbox' \in Seq(Seqs) /\ Len(outbox') = n + m
      /\ \A i \in 1..n : outbox'[i] = outbox[i]
      /\ \A i \in 1..m : outbox'[n + i] = fresh[i]
      /\ Elements(outbox') = Elements(outbox) \cup Elements(fresh)
    <2>1. \A i \in 1..m : fresh[i] \in Seqs
        BY <1>1
    <2>2. fresh \in Seq(Seqs)
        BY <2>1
    <2>3. Elements(outbox \o fresh) = Elements(outbox) \cup Elements(fresh)
        BY <1>1, <2>2, ElementsOfConcat
    <2> QED
        BY <1>1, <1>3, <2>2, <2>3
<1>5. \A i \in 1..(n + m) : \/ i \in 1..n /\ outbox'[i] = outbox[i]
                            \/ i - n \in 1..m /\ i > n /\ outbox'[i] = fresh[i - n]
    <2> HIDE DEF n, m
    <2> SUFFICES ASSUME NEW i \in 1..(n + m)
                 PROVE  \/ i \in 1..n /\ outbox'[i] = outbox[i]
                        \/ i - n \in 1..m /\ i > n /\ outbox'[i] = fresh[i - n]
        OBVIOUS
    <2>1. CASE i <= n
        BY <1>1, <1>4, <2>1
    <2>2. CASE i > n
        <3>1. i - n \in 1..m /\ n + (i - n) = i
            BY <1>1, <2>2
        <3> QED
            BY <1>4, <2>2, <3>1
    <2> QED
        BY <1>1, <2>1, <2>2
<1>6. \A i \in 1..m : fresh[i] \in 1..Len(events) /\ fresh[i] \in Nat
    OBVIOUS
<1>7. /\ cursor' \in 0..Len(events) /\ cursor <= cursor' /\ \A i \in 1..m : fresh[i] <= cursor'
      /\ cursor' \in {cursor} \cup Elements(fresh)
    <2>1. CASE m = 0
        BY <1>1, <1>3, <2>1
    <2>2. CASE m # 0
        <3>1. m \in 1..m /\ cursor' = fresh[m]
            BY <1>1, <1>3, <2>2
        <3>2. \A i \in 1..m : i = m \/ i < m
            BY <1>1
        <3> QED
            BY <1>1, <1>6, <3>1, <3>2 DEF Elements
    <2> QED
        BY <2>1, <2>2
<1>8. \A i \in 1..(n + m) : outbox'[i] \in (lastEventId + 1)..cursor'
    <2> SUFFICES ASSUME NEW i \in 1..(n + m) PROVE outbox'[i] \in (lastEventId + 1)..cursor'
        OBVIOUS
    <2>1. CASE i \in 1..n /\ outbox'[i] = outbox[i]
        BY <1>1, <1>2, <1>7, <2>1
    <2>2. CASE i - n \in 1..m /\ outbox'[i] = fresh[i - n]
        BY <1>1, <1>6, <1>7, <2>2
    <2> QED
        BY <1>5, <2>1, <2>2
<1>9. ASSUME NEW i \in 1..(n + m), NEW j \in 1..(n + m), i < j PROVE outbox'[i] < outbox'[j]
    <2>1. CASE i \in 1..n /\ j \in 1..n
        BY <1>2, <1>4, <1>9, <2>1
    <2>2. CASE i \in 1..n /\ j - n \in 1..m
        <3>1. outbox'[i] = outbox[i] /\ outbox[i] \in (lastEventId + 1)..cursor
            BY <1>2, <1>4, <2>2
        <3>2. outbox'[j] = fresh[j - n] /\ fresh[j - n] > cursor /\ fresh[j - n] \in Nat
            BY <1>1, <1>5, <1>6, <2>2
        <3> QED
            BY <1>1, <3>1, <3>2
    <2>3. CASE i - n \in 1..m /\ j - n \in 1..m
        <3>1. outbox'[j] = fresh[j - n] /\ outbox'[i] = fresh[i - n] /\ i - n < j - n
            BY <1>1, <1>5, <1>9, <2>3
        <3> QED
            BY <2>3, <3>1
    <2> QED
        BY <1>1, <1>9, <2>1, <2>2, <2>3
<1>10. \/ server' = "live" /\ link' = link
       \/ server' = "closed" /\ link' = "none" /\ wire' = <<>>
    BY DEF Send, Disconnect
<1>11. \A seq \in Elements(fresh) : seq <= cursor'
    BY <1>7 DEF Elements
<1> QED
    BY <1>4, <1>7, <1>8, <1>9, <1>10, <1>11

\* A step that sends keeps the invariant, when it puts away what was read and buffered
\* and neither what it sends nor what it leaves on the wire skips an event that is not lost.
LEMMA SendKeepsIInv ==
    ASSUME IInv, server \in {"replaying", "live"},
           NEW fresh \in Seq(1..Len(events)),
           \A i \in 1..Len(fresh) : fresh[i] > cursor,
           \A i, j \in 1..Len(fresh) : i < j => fresh[i] < fresh[j],
           Send(fresh),
           buffer' = <<>>, replay' = <<>>,
           server' # "closed" => wire' = wire \/ (wire # <<>> /\ wire' = Tail(wire)),
           \A seq \in (cursor + 1)..cursor' : seq \in Elements(fresh) \cup lost,
           server' = "live" =>
                \A seq \in (cursor' + 1)..Published : seq \in Elements(wire') \cup lost,
           UNCHANGED <<workerVars, panelVars, faultVars>>
    PROVE  IInv'
<1>1. /\ outbox' \in Seq(Seqs) /\ cursor' \in 0..Len(events) /\ cursor <= cursor'
      /\ Elements(outbox') = Elements(outbox) \cup Elements(fresh)
      /\ \A i \in 1..Len(outbox') : outbox'[i] \in (lastEventId + 1)..cursor'
      /\ \A i, j \in 1..Len(outbox') : i < j => outbox'[i] < outbox'[j]
    BY SendFacts
<1>2. \/ server' = "live" /\ link' = link
      \/ server' = "closed" /\ link' = "none" /\ wire' = <<>>
    BY SendFacts
<1>3. /\ wire' \in Seq(Seqs)
      /\ \A i \in 1..Len(wire') : wire'[i] \in 1..Len(events) /\ wire'[i] <= Published + 1
      /\ \A i, j \in 1..Len(wire') : i < j => wire'[i] <= wire'[j]
      /\ wire = <<>> => wire' = <<>>
    <2>1. CASE wire' = wire
        BY <2>1, SequenceTypes DEF IInv, MessagesAreOfLog
    <2>2. CASE wire # <<>> /\ wire' = Tail(wire)
        BY <2>2, WireTail
    <2>3. CASE wire' = <<>>
        BY <2>3
    <2> QED
        BY <1>2, <2>1, <2>2, <2>3
<1>4. /\ UNCHANGED <<row, events, worker, unpublished, page, panel, shown, source, lastEventId,
                     drops, faults, lost>>
      /\ Published' = Published
    BY DEF workerVars, panelVars, faultVars, Published
<1>5. /\ Len(events) \in Nat /\ 0..Len(events) \subseteq Seqs \cup {0}
      /\ lastEventId \in 0..Len(events) /\ lastEventId <= cursor /\ cursor \in 0..Len(events)
    <2>1. /\ Len(events) \in Nat /\ 0..Len(events) \subseteq Seqs \cup {0}
          /\ lastEventId \in 0..Len(events) /\ lastEventId <= cursor /\ cursor \in 0..Len(events)
        BY LogSeqs DEF IInv, CursorsInOrder
    <2> QED
        BY <2>1
<1>6. TypeOK'
    <2>1. <<>> \in Seq(Seqs)
        OBVIOUS
    <2> QED
        BY <1>1, <1>2, <1>3, <1>4, <1>5, <2>1 DEF IInv, TypeOK
<1>7. LogTellsRow' /\ PageInOrder'
    BY <1>4 DEF IInv, LogTellsRow, IsTerminal, PageInOrder
<1>8. MessagesAreOfLog'
    BY <1>3, <1>4 DEF IInv, MessagesAreOfLog
<1>9. PhasesOfRoute'
    BY <1>2, <1>3 DEF IInv, PhasesOfRoute
<1>10. CursorsInOrder'
    BY <1>1, <1>4, <1>5 DEF IInv, CursorsInOrder
<1>11. NothingSkipped'
    <2>1. ASSUME NEW seq \in (lastEventId + 1)..cursor'
          PROVE  seq \in Elements(outbox') \cup lost
        <3>1. CASE seq <= cursor
            <4>1. seq \in (lastEventId + 1)..cursor
                BY <1>1, <1>5, <3>1
            <4>2. server = "live"
                BY <1>5, <4>1 DEF IInv, PhasesOfRoute
            <4> QED
                BY <1>1, <4>1, <4>2 DEF IInv, NothingSkipped
        <3>2. CASE ~(seq <= cursor)
            <4>1. seq \in (cursor + 1)..cursor'
                BY <1>1, <1>5, <3>2
            <4> QED
                BY <1>1, <4>1
        <3> QED
            BY <3>1, <3>2
    <2>2. server' \in {"live", "closed"} /\ cursor' + Len(replay') = cursor'
        <3>1. Len(replay') = 0 /\ cursor' \in Nat
            BY <1>1, <1>5
        <3>2. \A n \in Nat : n + 0 = n
            OBVIOUS
        <3> QED
            BY <1>2, <3>1, <3>2, Zenon
    <2>4. server' = "live" =>
            \A seq \in (cursor' + Len(replay') + 1)..Published' :
                seq \in Elements(wire') \cup Elements(buffer') \cup lost'
        BY <1>4, <2>2
    <2> QED
        BY <1>4, <2>1, <2>2, <2>4 DEF IInv, NothingSkipped
<1> QED
    BY <1>6, <1>7, <1>8, <1>9, <1>10, <1>11 DEF IInv

\* A piece s of the log that follows cursor k, and then events a above it in order.
PieceThenLater(N, k, s, a) ==
    /\ N \in Nat /\ k \in Nat /\ s \in Seq(1..N) /\ a \in Seq(1..N)
    /\ \A i \in 1..Len(s) : s[i] = k + i
    /\ \A i \in 1..Len(a) : a[i] > k + Len(s)
    /\ \A i, j \in 1..Len(a) : i < j => a[i] < a[j]

\* Events f of a log, above cursor k and in order.
LaterInOrder(N, k, f) ==
    /\ f \in Seq(1..N)
    /\ \A i \in 1..Len(f) : f[i] > k
    /\ \A i, j \in 1..Len(f) : i < j => f[i] < f[j]

LEMMA Followed ==
    ASSUME NEW N, NEW k, NEW s, NEW a, PieceThenLater(N, k, s, a)
    PROVE  LaterInOrder(N, k, s \o a)
<1> DEFINE r == Len(s)
           c == Len(a)
           f == s \o a
<1>0. N \in Nat /\ k \in Nat /\ s \in Seq(1..N) /\ a \in Seq(1..N)
    BY DEF PieceThenLater
<1>1. r \in Nat /\ c \in Nat
    BY <1>0
<1>2. /\ f \in Seq(1..N) /\ Len(f) = r + c
      /\ \A i \in 1..r : f[i] = s[i]
      /\ \A i \in 1..c : f[r + i] = a[i]
    BY <1>0
<1>3. (\A i \in 1..r : s[i] = k + i) /\ (\A i \in 1..c : a[i] > k + r /\ a[i] \in Nat)
    BY <1>0 DEF PieceThenLater
<1>4. \A i, j \in 1..c : i < j => a[i] < a[j]
    BY DEF PieceThenLater
<1> HIDE DEF f, r, c
<1>5. \A i \in 1..(r + c) : \/ i \in 1..r /\ f[i] = k + i
                            \/ i > r /\ i - r \in 1..c /\ f[i] = a[i - r]
    BY <1>1, <1>2, <1>3
<1>6. \A i \in 1..(r + c) : f[i] > k
    <2> SUFFICES ASSUME NEW i \in 1..(r + c) PROVE f[i] > k
        OBVIOUS
    <2>1. CASE i \in 1..r /\ f[i] = k + i
        BY <1>0, <1>1, <2>1
    <2>2. CASE i - r \in 1..c /\ f[i] = a[i - r]
        BY <1>0, <1>1, <1>3, <2>2
    <2> QED
        BY <1>5, <2>1, <2>2
<1>7. ASSUME NEW i \in 1..(r + c), NEW j \in 1..(r + c), i < j PROVE f[i] < f[j]
    <2>1. CASE i \in 1..r /\ f[i] = k + i
        <3>1. CASE j \in 1..r /\ f[j] = k + j
            BY <1>0, <1>1, <1>7, <2>1, <3>1
        <3>2. CASE j - r \in 1..c /\ f[j] = a[j - r]
            BY <1>0, <1>1, <1>3, <2>1, <3>2
        <3> QED
            BY <1>5, <3>1, <3>2
    <2>2. CASE i > r /\ i - r \in 1..c /\ f[i] = a[i - r]
        <3>1. ~(j \in 1..r) /\ i - r < j - r
            BY <1>1, <1>7, <2>2
        <3>2. j - r \in 1..c /\ f[j] = a[j - r]
            BY <1>5, <3>1
        <3> QED
            BY <1>4, <2>2, <3>1, <3>2
    <2> QED
        BY <1>5, <2>1, <2>2
<1> QED
    <2>1. LaterInOrder(N, k, f)
        BY <1>2, <1>6, <1>7 DEF LaterInOrder
    <2> QED
        BY <2>1 DEF f

LEMMA Above ==
    ASSUME NEW k \in Nat, NEW l \in Nat, NEW N \in Nat, k <= l, NEW x \in (l + 1)..N
    PROVE  x \in (k + 1)..N /\ x > k /\ ~(x <= l)
OBVIOUS

\* What the replay forwards: the events read, then those buffered above them.
LEMMA ReplayedIsNew ==
    ASSUME IInv, server = "replaying"
    PROVE  \E fresh :
            /\ fresh = replay \o Ascending(BufferedAfter(cursor + Len(replay)))
            /\ LaterInOrder(Len(events), cursor, fresh)
            /\ Elements(fresh) = (cursor + 1)..(cursor + Len(replay))
                                    \cup {seq \in Elements(buffer) : seq > cursor + Len(replay)}
<1> DEFINE N == Len(events)
           r == Len(replay)
           last == cursor + r
           S == BufferedAfter(last)
           c == Cardinality(S)
           a == Ascending(S)
           fresh == replay \o a
<1>1. /\ N \in Nat /\ r \in Nat /\ cursor \in Nat /\ last \in 0..N
      /\ replay \in Seq(Seqs) /\ buffer \in Seq(Seqs)
    BY SequenceTypes, LogSeqs DEF IInv, PhasesOfRoute
<1>2. \A i \in 1..r : replay[i] = cursor + i
    BY DEF IInv, PhasesOfRoute
<1>3. /\ S \in SUBSET (1..N) /\ \A e \in S : e > last
      /\ S = {seq \in Elements(buffer) : seq > last}
    <2>1. \A i \in 1..Len(buffer) : buffer[i] \in 1..N
        BY DEF IInv, MessagesAreOfLog
    <2> QED
        BY <1>1, <2>1 DEF BufferedAfter, Elements
<1>4. c \in Nat /\ a \in [1..c -> S] /\ IsAscending(a) /\ Elements(a) = S
    BY <1>1, <1>3, AscendingType
<1>5. replay \in Seq(1..N) /\ Elements(replay) = (cursor + 1)..last
    <2>1. \A i \in 1..r : replay[i] \in 1..N
        BY <1>1, <1>2
    <2>2. \A seq \in (cursor + 1)..last : seq - cursor \in 1..r /\ replay[seq - cursor] = seq
        BY <1>1, <1>2
    <2>3. \A i \in 1..r : replay[i] \in (cursor + 1)..last
        BY <1>1, <1>2
    <2>4. Elements(replay) = (cursor + 1)..last
        BY <2>2, <2>3 DEF Elements
    <2> QED
        BY <1>1, <2>1, <2>4
<1> HIDE DEF S, c, a, N
<1>6. a \in Seq(1..N) /\ Len(a) = c /\ \A i \in 1..c : a[i] > last
    <2>1. \A i \in 1..c : a[i] \in S /\ a[i] \in 1..N
        BY <1>3, <1>4
    <2>2. \A i \in 1..c : a[i] > last
        BY <1>3, <2>1
    <2>3. a \in [1..c -> 1..N] /\ c \in Nat
        BY <1>4, <2>1
    <2>4. a \in Seq(1..N) /\ Len(a) = c
        BY <2>3, ElementsOfFunction
    <2> QED
        BY <2>2, <2>4
<1>7. \A i, j \in 1..Len(a) : i < j => a[i] < a[j]
    <2>1. DOMAIN a = 1..c
        BY <1>4
    <2> QED
        BY <1>4, <1>6, <2>1 DEF IsAscending
<1>8. LaterInOrder(N, cursor, fresh)
    <2>1. PieceThenLater(N, cursor, replay, a)
        BY <1>1, <1>2, <1>5, <1>6, <1>7 DEF PieceThenLater
    <2> QED
        BY <2>1, Followed
<1>9. Elements(fresh) = (cursor + 1)..last \cup S
    <2>1. replay \in Seq(1..N) /\ a \in Seq(1..N)
        BY <1>5, <1>6
    <2>2. Elements(replay \o a) = Elements(replay) \cup Elements(a)
        BY <2>1, ElementsOfConcat
    <2> QED
        BY <1>4, <1>5, <2>2
<1> HIDE DEF fresh
<1>10. fresh = replay \o Ascending(BufferedAfter(cursor + Len(replay)))
    BY DEF fresh, a, S
<1> QED
    BY <1>3, <1>8, <1>9, <1>10 DEF N

LEMMA ReplayKeepsIInv ==
    ASSUME IInv, ReplayEvents
    PROVE  IInv'
<1> DEFINE last == cursor + Len(replay)
<1>1. server = "replaying"
    BY DEF ReplayEvents
<1>2. PICK fresh :
        /\ fresh = replay \o Ascending(BufferedAfter(last))
        /\ LaterInOrder(Len(events), cursor, fresh)
        /\ Elements(fresh) = (cursor + 1)..last \cup {seq \in Elements(buffer) : seq > last}
    BY <1>1, ReplayedIsNew
<1>3. /\ fresh \in Seq(1..Len(events))
      /\ \A i \in 1..Len(fresh) : fresh[i] > cursor
      /\ \A i, j \in 1..Len(fresh) : i < j => fresh[i] < fresh[j]
    BY <1>2 DEF LaterInOrder
<1>4. /\ Send(fresh) /\ buffer' = <<>> /\ replay' = <<>>
      /\ server' # "closed" => wire' = wire
      /\ UNCHANGED <<workerVars, panelVars, faultVars>>
    BY <1>2 DEF ReplayEvents
<1>5. /\ cursor' \in Nat /\ cursor' \in {cursor} \cup Elements(fresh)
      /\ \A seq \in Elements(fresh) : seq <= cursor'
      /\ cursor \in Nat /\ Len(replay) \in Nat /\ Published \in Nat /\ Len(events) \in Nat
    <2>1. /\ cursor' \in 0..Len(events) /\ cursor' \in {cursor} \cup Elements(fresh)
          /\ \A seq \in Elements(fresh) : seq <= cursor'
        BY <1>1, <1>3, <1>4, SendFacts
    <2> QED
        BY <2>1, ToPublish
<1>6. /\ \A b \in Elements(buffer) : b \in Nat /\ b <= Published + 1
      /\ \A b \in Elements(buffer), w \in Elements(wire) : b <= w
      /\ Elements(wire) \subseteq Nat
    <2>1. /\ \A i \in 1..Len(buffer) : buffer[i] \in 1..Len(events) /\ buffer[i] <= Published + 1
          /\ \A i \in 1..Len(buffer) : \A j \in 1..Len(wire) : buffer[i] <= wire[j]
          /\ \A i \in 1..Len(wire) : wire[i] \in 1..Len(events)
        BY DEF IInv, MessagesAreOfLog
    <2> QED
        BY <1>5, <2>1 DEF Elements
<1>7. \A seq \in (last + 1)..Published : seq \in Elements(wire) \cup Elements(buffer) \cup lost
    BY <1>1 DEF IInv, NothingSkipped
<1>8. last \in Nat /\ cursor' >= last
    <2>1. CASE Len(replay) = 0
        BY <1>2, <1>5, <2>1
    <2>2. CASE Len(replay) # 0
        <3>1. last \in (cursor + 1)..last /\ last \in Nat
            BY <1>5, <2>2
        <3> QED
            BY <1>2, <1>5, <3>1
    <2> QED
        BY <2>1, <2>2
<1> HIDE DEF last
<1>9. ASSUME NEW seq \in (cursor + 1)..cursor' PROVE seq \in Elements(fresh) \cup lost
    <2>1. CASE seq <= last
        <3>1. seq \in (cursor + 1)..last
            BY <1>5, <1>8, <2>1
        <3> QED
            BY <1>2, <3>1
    <2>2. CASE ~(seq <= last)
        <3>1. seq \in Nat /\ seq > last /\ seq <= cursor' /\ cursor' > last /\ seq > cursor
            BY <1>5, <1>8, <2>2
        <3>2. cursor' \in Elements(buffer) /\ cursor' \in Elements(fresh)
            <4>1. cursor' # cursor
                BY <1>5, <3>1
            <4>2. cursor' \notin (cursor + 1)..last
                BY <1>5, <1>8, <3>1
            <4> QED
                BY <1>2, <1>5, <4>1, <4>2
        <3>3. CASE seq = cursor'
            BY <3>2, <3>3
        <3>4. CASE seq # cursor'
            <4>1. seq \in (last + 1)..Published
                BY <1>5, <1>6, <1>8, <3>1, <3>2, <3>4
            <4>2. seq \notin Elements(wire)
                BY <1>5, <1>6, <3>1, <3>2, <3>4
            <4> QED
                BY <1>2, <1>7, <3>1, <4>1, <4>2
        <3> QED
            BY <3>3, <3>4
    <2> QED
        BY <2>1, <2>2
<1>10. ASSUME server' = "live", NEW seq \in (cursor' + 1)..Published
       PROVE  seq \in Elements(wire') \cup lost
    <2>1. seq \in (last + 1)..Published /\ seq > last /\ ~(seq <= cursor')
        <3>1. last \in Nat /\ cursor' \in Nat /\ Published \in Nat /\ last <= cursor'
            BY <1>5, <1>8
        <3> QED
            BY <3>1, Above
    <2>2. seq \notin Elements(fresh)
        BY <1>5, <2>1
    <2>3. seq \notin Elements(buffer)
        BY <1>2, <2>1, <2>2
    <2> QED
        BY <1>4, <1>7, <1>10, <2>1, <2>3
<1> QED
    BY <1>1, <1>3, <1>4, <1>9, <1>10, SendKeepsIInv

\* A message forwarded at once.
LEMMA ForwardKeepsIInv ==
    ASSUME IInv, OnMessage, server = "live"
    PROVE  IInv'
<1> DEFINE h == Head(wire)
           fresh == IF h > cursor THEN <<h>> ELSE <<>>
<1>1. /\ wire # <<>> /\ Forward(Head(wire))
      /\ server' # "closed" => wire' = Tail(wire)
      /\ UNCHANGED <<workerVars, panelVars, faultVars, replay, buffer>>
    BY DEF OnMessage
<1>2. buffer = <<>> /\ replay = <<>>
    BY DEF IInv, PhasesOfRoute
<1>3. Send(fresh)
    BY <1>1 DEF Forward
<1>4. /\ h \in 1..Len(events) /\ h <= Published + 1 /\ Elements(wire) = {h} \cup Elements(Tail(wire))
      /\ \A w \in Elements(wire) : h <= w /\ w \in Nat
    <2>1. /\ h \in 1..Len(events) /\ h <= Published + 1
          /\ Elements(wire) = {h} \cup Elements(Tail(wire))
          /\ \A i \in 1..Len(Tail(wire)) : h <= Tail(wire)[i] /\ Tail(wire)[i] \in 1..Len(events)
        BY <1>1, WireTail
    <2>2. Len(events) \in Nat
        BY ToPublish
    <2> QED
        <3>1. \A w \in Elements(Tail(wire)) : h <= w /\ w \in 1..Len(events)
            BY <2>1 DEF Elements
        <3> HIDE DEF h
        <3>2. h \in Nat /\ h <= h /\ \A w \in 1..Len(events) : w \in Nat
            BY <2>1, <2>2
        <3> QED
            BY <2>1, <3>1, <3>2
<1>5. cursor \in Nat /\ Published \in Nat /\ Len(events) \in Nat
    BY ToPublish
<1>6. \A seq \in (cursor + 1)..Published : seq \in Elements(wire) \cup lost
    <2>1. \A seq \in (cursor + Len(replay) + 1)..Published :
            seq \in Elements(wire) \cup Elements(buffer) \cup lost
        BY DEF IInv, NothingSkipped
    <2>2. Elements(buffer) = {} /\ cursor + Len(replay) = cursor
        BY <1>2, <1>5, ElementsOfNone
    <2> QED
        BY <2>1, <2>2
<1> HIDE DEF h
<1>7. /\ fresh \in Seq(1..Len(events))
      /\ \A i \in 1..Len(fresh) : fresh[i] > cursor
      /\ \A i, j \in 1..Len(fresh) : i < j => fresh[i] < fresh[j]
      /\ Elements(fresh) = IF h > cursor THEN {h} ELSE {}
    <2>1. CASE h > cursor
        <3>1. Len(<<h>>) = 1 /\ <<h>>[1] = h /\ <<h>> \in Seq(1..Len(events)) /\ \A i \in 1..1 : i = 1
            BY <1>4
        <3>2. Elements(<<h>>) = {h}
            BY <3>1 DEF Elements
        <3> QED
            BY <2>1, <3>1, <3>2
    <2>2. CASE ~(h > cursor)
        BY <2>2, ElementsOfNone
    <2> QED
        BY <2>1, <2>2
<1> HIDE DEF fresh
<1>8. /\ cursor' \in Nat /\ cursor' \in {cursor} \cup Elements(fresh)
      /\ \A seq \in Elements(fresh) : seq <= cursor'
      /\ cursor <= cursor'
    <2>1. /\ cursor' \in 0..Len(events) /\ cursor' \in {cursor} \cup Elements(fresh)
          /\ \A seq \in Elements(fresh) : seq <= cursor'
          /\ cursor <= cursor'
        BY <1>3, <1>7, SendFacts
    <2> QED
        BY <1>5, <2>1
<1>9. ASSUME NEW seq \in (cursor + 1)..cursor' PROVE seq \in Elements(fresh) \cup lost
    <2>1. cursor' = h /\ h > cursor /\ Elements(fresh) = {h}
        BY <1>5, <1>7, <1>8
    <2>2. CASE seq = h
        BY <2>1, <2>2
    <2>3. CASE seq # h
        <3>1. seq \in (cursor + 1)..Published /\ ~(h <= seq)
            BY <1>4, <1>5, <2>1, <2>3
        <3> QED
            BY <1>4, <1>6, <3>1
    <2> QED
        BY <2>2, <2>3
<1>10. ASSUME server' = "live", NEW seq \in (cursor' + 1)..Published
       PROVE  seq \in Elements(wire') \cup lost
    <2>1. seq \in (cursor + 1)..Published /\ ~(seq <= cursor')
        <3>1. cursor \in Nat /\ cursor' \in Nat /\ Published \in Nat /\ cursor <= cursor'
            BY <1>5, <1>8
        <3> QED
            BY <3>1, Above
    <2>2. seq # h
        <3>1. CASE h > cursor
            BY <1>7, <1>8, <2>1, <3>1
        <3>2. CASE ~(h > cursor)
            BY <1>4, <1>5, <2>1, <3>2
        <3> QED
            BY <3>1, <3>2
    <2>3. wire' = Tail(wire)
        BY <1>1, <1>10
    <2> QED
        BY <1>4, <1>6, <2>1, <2>2, <2>3
<1>11. buffer' = <<>> /\ replay' = <<>>
    BY <1>1, <1>2
<1> QED
    BY <1>1, <1>3, <1>7, <1>9, <1>10, <1>11, SendKeepsIInv

\* A message kept until the replay is through.
LEMMA BufferKeepsIInv ==
    ASSUME IInv, OnMessage, server # "live"
    PROVE  IInv'
<1> DEFINE h == Head(wire)
           t == Tail(wire)
           k == Len(buffer)
<1>1. /\ wire # <<>> /\ server \in {"reading", "replaying"}
      /\ buffer' = Append(buffer, h) /\ wire' = t
      /\ UNCHANGED <<row, events, worker, unpublished, server, cursor, replay, link, outbox,
                     page, panel, shown, source, lastEventId, drops, faults, lost>>
      /\ Published' = Published
    BY DEF OnMessage, workerVars, panelVars, faultVars, Published
<1>2. /\ h \in 1..Len(events) /\ h \in Seqs /\ h <= Published + 1
      /\ t \in Seq(Seqs) /\ Elements(wire) = {h} \cup Elements(t)
      /\ \A i \in 1..k : buffer[i] <= h
      /\ \A i \in 1..Len(t) :
            /\ t[i] \in 1..Len(events) /\ t[i] <= Published + 1
            /\ h <= t[i]
            /\ \A j \in 1..k : buffer[j] <= t[i]
      /\ \A i, j \in 1..Len(t) : i < j => t[i] <= t[j]
    BY <1>1, WireTail
<1>3. /\ buffer \in Seq(Seqs) /\ k \in Nat
      /\ \A i \in 1..k : buffer[i] \in 1..Len(events) /\ buffer[i] <= Published + 1
    BY SequenceTypes DEF IInv, MessagesAreOfLog
<1>4. Elements(buffer') = Elements(buffer) \cup {h}
    BY <1>1, <1>2, <1>3, ElementsOfAppend
<1> HIDE DEF h, t
<1>5. /\ buffer' \in Seq(Seqs) /\ Len(buffer') = k + 1 /\ buffer'[k + 1] = h
      /\ \A i \in 1..k : buffer'[i] = buffer[i]
      /\ \A i \in 1..(k + 1) : i \in 1..k \/ i = k + 1
    BY <1>1, <1>2, <1>3
<1>6. TypeOK' /\ LogTellsRow' /\ CursorsInOrder' /\ PageInOrder'
    <2>1. TypeOK'
        BY <1>1, <1>2, <1>5 DEF IInv, TypeOK
    <2> QED
        BY <1>1, <2>1 DEF IInv, LogTellsRow, IsTerminal, CursorsInOrder, PageInOrder
<1>7. MessagesAreOfLog'
    <2>1. \A i \in 1..Len(buffer') :
            /\ buffer'[i] \in 1..Len(events) /\ buffer'[i] <= Published + 1
            /\ \A j \in 1..Len(t) : buffer'[i] <= t[j]
        BY <1>2, <1>3, <1>5
    <2> QED
        BY <1>1, <1>2, <2>1 DEF IInv, MessagesAreOfLog
<1>8. PhasesOfRoute'
    <2>1. link = "up"
        BY <1>1 DEF IInv, PhasesOfRoute
    <2> QED
        BY <1>1, <2>1 DEF IInv, PhasesOfRoute
<1>9. NothingSkipped'
    <2>1. Elements(wire') \cup Elements(buffer') = Elements(wire) \cup Elements(buffer)
        BY <1>1, <1>2, <1>4
    <2>2. server' \notin {"live", "closed"}
        BY <1>1
    <2> QED
        BY <1>1, <2>1, <2>2 DEF IInv, NothingSkipped
<1> QED
    BY <1>6, <1>7, <1>8, <1>9 DEF IInv

\* Steps of the route that send nothing.
LEMMA OpenKeepsIInv ==
    ASSUME IInv, OpenStream \/ RefuseStream
    PROVE  IInv'
<1>1. /\ UNCHANGED <<row, events, worker, unpublished, link, wire, outbox, page, panel, shown,
                     lastEventId, drops, faults, lost>>
      /\ Published' = Published /\ server = "none" /\ source = "connecting"
    BY DEF OpenStream, RefuseStream, workerVars, redisVars, panelVars, faultVars, Published
<1>2. wire = <<>> /\ buffer = <<>> /\ outbox = <<>> /\ replay = <<>> /\ link = "none"
    BY <1>1 DEF IInv, PhasesOfRoute
<1>3. LogTellsRow'
    BY <1>1 DEF IInv, LogTellsRow, IsTerminal
<1>4. CASE OpenStream
    <2>1. /\ server' = "subscribing" /\ cursor' = lastEventId /\ buffer' = <<>> /\ replay' = <<>>
          /\ source' = source
        BY <1>4 DEF OpenStream, panelVars
    <2>2. TypeOK'
        <3>1. <<>> \in Seq(Seqs)
            OBVIOUS
        <3> QED
            BY <1>1, <2>1, <3>1 DEF IInv, TypeOK
    <2>3. MessagesAreOfLog' /\ PageInOrder'
        BY <1>1, <2>1 DEF IInv, MessagesAreOfLog, PageInOrder
    <2>4. PhasesOfRoute'
        BY <1>1, <1>2, <2>1 DEF PhasesOfRoute
    <2>5. CursorsInOrder'
        <3>1. lastEventId \in Nat /\ lastEventId \in 0..Len(events)
            BY SequenceTypes DEF IInv, CursorsInOrder
        <3> QED
            BY <1>1, <1>2, <2>1, <3>1 DEF CursorsInOrder
    <2>6. NothingSkipped'
        BY <1>1, <2>1 DEF IInv, NothingSkipped
    <2> QED
        BY <1>3, <2>2, <2>3, <2>4, <2>5, <2>6 DEF IInv
<1>5. CASE RefuseStream
    <2>1. source' = "refused" /\ UNCHANGED <<server, cursor, buffer, replay>>
        BY <1>5 DEF RefuseStream, serverVars
    <2>2. TypeOK' /\ PageInOrder'
        BY <1>1, <2>1 DEF IInv, TypeOK, PageInOrder
    <2>3. MessagesAreOfLog' /\ PhasesOfRoute' /\ CursorsInOrder' /\ NothingSkipped'
        BY <1>1, <2>1 DEF IInv, MessagesAreOfLog, PhasesOfRoute, CursorsInOrder, NothingSkipped
    <2> QED
        BY <1>3, <2>2, <2>3 DEF IInv
<1> QED
    BY <1>4, <1>5

LEMMA SubscribeKeepsIInv ==
    ASSUME IInv, Subscribe
    PROVE  IInv'
<1>1. /\ UNCHANGED <<row, events, worker, unpublished, page, panel, shown, source, lastEventId, drops,
                     faults, lost>>
      /\ UNCHANGED <<cursor, buffer, replay, wire, outbox>> /\ Published' = Published
      /\ server = "subscribing" /\ server' = "reading" /\ link' = "up"
    BY DEF Subscribe, workerVars, panelVars, faultVars, Published
<1>2. TypeOK' /\ LogTellsRow' /\ PageInOrder'
    BY <1>1 DEF IInv, TypeOK, LogTellsRow, IsTerminal, PageInOrder
<1>3. MessagesAreOfLog' /\ CursorsInOrder'
    BY <1>1 DEF IInv, MessagesAreOfLog, CursorsInOrder
<1>4. PhasesOfRoute' /\ NothingSkipped'
    BY <1>1 DEF IInv, PhasesOfRoute, NothingSkipped
<1> QED
    BY <1>2, <1>3, <1>4 DEF IInv

LEMMA ReadKeepsIInv ==
    ASSUME IInv, ReadEvents
    PROVE  IInv'
<1>1. /\ UNCHANGED <<row, events, worker, unpublished, page, panel, shown, source, lastEventId, drops,
                     faults>>
      /\ UNCHANGED <<cursor, buffer, link, wire, outbox>> /\ Published' = Published
      /\ server = "reading" /\ server' = "replaying"
      /\ replay' = [i \in 1..(Len(events) - cursor) |-> cursor + i]
      /\ lost' = lost \cap 1..cursor
    BY DEF ReadEvents, ReadAt, workerVars, redisVars, panelVars, Published
<1>2. /\ Len(events) \in Nat /\ cursor \in 0..Len(events) /\ Published \in 1..Len(events)
      /\ 1..Len(events) \subseteq Seqs /\ Len(events) - cursor \in Nat
    BY LogSeqs DEF IInv, CursorsInOrder, MessagesAreOfLog
<1>3. replay' \in Seq(Seqs) /\ Len(replay') = Len(events) - cursor
    <2>1. \A i \in 1..(Len(events) - cursor) : cursor + i \in Seqs
        BY <1>2
    <2> QED
        BY <1>1, <1>2, <2>1
<1>4. TypeOK' /\ LogTellsRow' /\ PageInOrder'
    <2>1. lost' \subseteq Seqs
        BY <1>1 DEF IInv, TypeOK
    <2> QED
        BY <1>1, <1>3, <2>1 DEF IInv, TypeOK, LogTellsRow, IsTerminal, PageInOrder
<1>5. MessagesAreOfLog' /\ CursorsInOrder'
    BY <1>1 DEF IInv, MessagesAreOfLog, CursorsInOrder
<1>6. PhasesOfRoute'
    <2>1. replay' = [i \in 1..Len(replay') |-> cursor + i] /\ cursor + Len(replay') <= Len(events)
        BY <1>1, <1>2, <1>3
    <2> QED
        BY <1>1, <2>1 DEF IInv, PhasesOfRoute
<1>7. NothingSkipped'
    <2>1. (cursor + Len(replay') + 1)..Published = {}
        BY <1>2, <1>3
    <2>2. cursor = lastEventId
        BY <1>1 DEF IInv, PhasesOfRoute
    <2>3. \A seq \in 1..lastEventId : seq \in Elements(shown) \cup lost'
        BY <1>1, <2>2 DEF IInv, NothingSkipped
    <2> QED
        BY <1>1, <2>1, <2>3 DEF IInv, NothingSkipped
<1> QED
    BY <1>4, <1>5, <1>6, <1>7 DEF IInv

LEMMA ResubscribeKeepsIInv ==
    ASSUME IInv, Resubscribe
    PROVE  IInv'
<1>1. /\ UNCHANGED <<row, events, worker, unpublished, page, panel, shown, source, lastEventId, drops,
                     faults, lost>>
      /\ UNCHANGED <<server, cursor, buffer, replay, wire, outbox>> /\ Published' = Published
      /\ link = "down" /\ link' = "up"
    BY DEF Resubscribe, workerVars, serverVars, panelVars, faultVars, Published
<1>2. TypeOK' /\ LogTellsRow' /\ PageInOrder'
    BY <1>1 DEF IInv, TypeOK, LogTellsRow, IsTerminal, PageInOrder
<1>3. MessagesAreOfLog' /\ CursorsInOrder' /\ PhasesOfRoute'
    BY <1>1 DEF IInv, MessagesAreOfLog, CursorsInOrder, PhasesOfRoute
<1>4. NothingSkipped'
    BY <1>1 DEF IInv, NothingSkipped
<1> QED
    BY <1>2, <1>3, <1>4 DEF IInv

LEMMA RouteKeepsIInv ==
    ASSUME IInv, RouteStep
    PROVE  IInv'
BY OpenKeepsIInv, SubscribeKeepsIInv, ReadKeepsIInv, ReplayKeepsIInv, ForwardKeepsIInv,
    BufferKeepsIInv, ResubscribeKeepsIInv DEF RouteStep

-----------------------------------------------------------------------------
(* Faults of the connections *)

\* An interruption of Redis: what was on its way is lost to a stream that has read its
\* replay.
LEMMA LoseSubscriptionKeepsIInv ==
    ASSUME IInv, LoseSubscription
    PROVE  IInv'
<1>1. /\ UNCHANGED <<row, events, worker, unpublished, page, panel, shown, source, lastEventId, drops>>
      /\ UNCHANGED <<server, cursor, buffer, replay, outbox>> /\ Published' = Published
      /\ link = "up" /\ link' = "down" /\ wire' = <<>> /\ Miss(Elements(wire))
      /\ faults < MaxFaults /\ faults' = faults + 1
    BY DEF LoseSubscription, Fault, workerVars, serverVars, panelVars, Published
<1>2. faults' \in 0..MaxFaults /\ <<>> \in Seq(Seqs)
    BY <1>1, ConstantsAssumption DEF IInv, TypeOK
<1>3. /\ lost' \subseteq Seqs /\ lost \subseteq lost'
      /\ server \in {"replaying", "live"} =>
            \A seq \in Elements(wire) : seq > cursor + Len(replay) => seq \in lost'
    <2>1. wire \in Seq(Seqs)
        BY SequenceTypes DEF IInv
    <2>2. Elements(wire) \in SUBSET Seqs
        BY <2>1 DEF Elements
    <2> QED
        BY <1>1, <2>2, Missed
<1>4. TypeOK' /\ LogTellsRow' /\ PageInOrder'
    <2>1. TypeOK'
        BY <1>1, <1>2, <1>3 DEF IInv, TypeOK
    <2>2. LogTellsRow' /\ PageInOrder'
        BY <1>1 DEF IInv, LogTellsRow, IsTerminal, PageInOrder
    <2> QED
        BY <2>1, <2>2
<1>5. MessagesAreOfLog' /\ CursorsInOrder' /\ PhasesOfRoute'
    BY <1>1 DEF IInv, MessagesAreOfLog, CursorsInOrder, PhasesOfRoute
<1>6. NothingSkipped'
    <2>1. \A seq \in (cursor + Len(replay) + 1)..Published : seq > cursor + Len(replay)
        BY ToPublish
    <2> QED
        BY <1>1, <1>3, <2>1 DEF IInv, NothingSkipped
<1> QED
    BY <1>4, <1>5, <1>6 DEF IInv

\* A broken connection: the response and the route's state are gone, the browser's
\* cursor stays.
LEMMA DropConnectionKeepsIInv ==
    ASSUME IInv, DropConnection
    PROVE  IInv'
<1>1. /\ UNCHANGED <<row, events, worker, unpublished, page, panel, shown, source, lastEventId,
                     faults, lost>>
      /\ cursor' = cursor /\ Published' = Published
      /\ server' = "none" /\ buffer' = <<>> /\ replay' = <<>> /\ outbox' = <<>>
      /\ link' = "none" /\ wire' = <<>> /\ drops < MaxDrops /\ drops' = drops + 1
    BY DEF DropConnection, Disconnect, workerVars, panelVars, Published
<1>2. drops' \in 0..MaxDrops /\ <<>> \in Seq(Seqs)
    BY <1>1, ConstantsAssumption DEF IInv, TypeOK
<1>3. TypeOK' /\ LogTellsRow' /\ PageInOrder'
    <2>1. TypeOK'
        BY <1>1, <1>2 DEF IInv, TypeOK
    <2>2. LogTellsRow' /\ PageInOrder'
        BY <1>1 DEF IInv, LogTellsRow, IsTerminal, PageInOrder
    <2> QED
        BY <2>1, <2>2
<1>4. MessagesAreOfLog' /\ CursorsInOrder' /\ PhasesOfRoute'
    BY <1>1 DEF IInv, MessagesAreOfLog, CursorsInOrder, PhasesOfRoute
<1>5. NothingSkipped'
    BY <1>1 DEF IInv, NothingSkipped
<1> QED
    BY <1>3, <1>4, <1>5 DEF IInv

-----------------------------------------------------------------------------
(* The page and its panel *)

\* What the panel's steps leave alone.
LEMMA PanelSteps ==
    ASSUME IInv, UNCHANGED <<workerVars, serverVars, redisVars, outbox, faultVars>>
    PROVE  /\ UNCHANGED <<row, events, worker, unpublished, server, cursor, buffer, replay, link, wire,
                         outbox, drops, faults, lost>>
           /\ Published' = Published
           /\ LogTellsRow' /\ MessagesAreOfLog'
<1>1. /\ UNCHANGED <<row, events, worker, unpublished, server, cursor, buffer, replay, link, wire,
                    outbox, drops, faults, lost>>
      /\ Published' = Published
    BY DEF workerVars, serverVars, redisVars, faultVars, Published
<1> QED
    BY <1>1 DEF IInv, LogTellsRow, IsTerminal, MessagesAreOfLog

LEMMA PageKeepsIInv ==
    ASSUME IInv, LoadRun \/ LoadEvents \/ StartFromPanel \/ Connect
    PROVE  IInv'
<1>1. UNCHANGED <<workerVars, serverVars, redisVars, outbox, faultVars>> /\ lastEventId' = lastEventId
    BY DEF LoadRun, LoadEvents, StartFromPanel, Connect
<1>2. /\ UNCHANGED <<row, events, worker, unpublished, server, cursor, buffer, replay, link, wire,
                    outbox, drops, faults, lost>>
      /\ Published' = Published
    BY <1>1, PanelSteps
<1>3. LogTellsRow' /\ MessagesAreOfLog'
    BY <1>1, PanelSteps
<1>4. PhasesOfRoute' /\ CursorsInOrder'
    BY <1>1, <1>2 DEF IInv, PhasesOfRoute, CursorsInOrder
<1>5. Len(events) \in Nat /\ 1..Len(events) \subseteq Seqs /\ <<>> \in Seq(Seqs)
    BY LogSeqs DEF IInv
<1>6. CASE LoadRun
    <2>1. page = "none" /\ page' = "loading" /\ panel' = row /\ UNCHANGED <<shown, source>>
        BY <1>6 DEF LoadRun
    <2>2. TypeOK' /\ PageInOrder' /\ NothingSkipped'
        BY <1>1, <1>2, <2>1 DEF IInv, TypeOK, PageInOrder, NothingSkipped, Active, Terminal
    <2> QED
        BY <1>3, <1>4, <2>2 DEF IInv
<1>7. CASE LoadEvents
    <2>1. /\ page = "loading" /\ page' = "mounted" /\ UNCHANGED <<panel, source>>
          /\ shown' = [i \in 1..Len(events) |-> i]
        BY <1>7 DEF LoadEvents
    <2>2. shown' \in Seq(Seqs) /\ Len(shown') = Len(events) /\ \A i \in 1..Len(events) : shown'[i] = i
        BY <1>5, <2>1
    <2>3. lastEventId = 0
        BY <2>1 DEF IInv, PageInOrder
    <2>4. TypeOK'
        BY <1>1, <1>2, <2>1, <2>2 DEF IInv, TypeOK
    <2>5. PageInOrder'
        BY <1>1, <1>2, <1>5, <2>1, <2>2 DEF IInv, PageInOrder
    <2>6. NothingSkipped'
        <3>1. Elements(shown') = 1..Len(events)
            BY <2>2 DEF Elements
        <3>2. \A i \in 1..Len(events) : \A seq \in 1..shown'[i] : seq \in 1..Len(events)
            BY <1>5, <2>2
        <3>3. 1..lastEventId = {}
            BY <2>3
        <3> QED
            BY <1>1, <1>2, <2>2, <3>1, <3>2, <3>3 DEF IInv, NothingSkipped
    <2> QED
        BY <1>3, <1>4, <2>4, <2>5, <2>6 DEF IInv
<1>8. CASE StartFromPanel
    <2>1. /\ page = "none" /\ page' = "mounted" /\ panel' = "queued" /\ shown' = <<>>
          /\ source' = source
        BY <1>8 DEF StartFromPanel
    <2>2. lastEventId = 0
        BY <2>1 DEF IInv, PageInOrder
    <2>3. TypeOK' /\ PageInOrder'
        BY <1>1, <1>2, <1>5, <2>1 DEF IInv, TypeOK, PageInOrder, Active, Terminal
    <2>4. NothingSkipped'
        <3>1. 1..lastEventId = {} /\ 1..Len(shown') = {}
            BY <2>1, <2>2
        <3> QED
            BY <1>1, <1>2, <3>1 DEF IInv, NothingSkipped
    <2> QED
        BY <1>3, <1>4, <2>3, <2>4 DEF IInv
<1>9. CASE Connect
    <2>1. page = "mounted" /\ source' = "connecting" /\ UNCHANGED <<page, panel, shown>>
        BY <1>9 DEF Connect
    <2>2. TypeOK' /\ PageInOrder' /\ NothingSkipped'
        BY <1>1, <1>2, <2>1 DEF IInv, TypeOK, PageInOrder, NothingSkipped
    <2> QED
        BY <1>3, <1>4, <2>2 DEF IInv
<1> QED
    BY <1>6, <1>7, <1>8, <1>9

\* Sorting a new event in keeps what is shown, and its order.
LEMMA SortedInOrder ==
    ASSUME IInv, NEW seq \in 1..Len(events), \A i \in 1..Len(shown) : shown[i] # seq
    PROVE  /\ Sorted(seq) \in Seq(Seqs) /\ Len(Sorted(seq)) = Len(shown) + 1
           /\ \A i \in 1..Len(Sorted(seq)) : Sorted(seq)[i] \in 1..Len(events)
           /\ \A i, j \in 1..Len(Sorted(seq)) : i < j => Sorted(seq)[i] < Sorted(seq)[j]
           /\ Elements(Sorted(seq)) = Elements(shown) \cup {seq}
<1> DEFINE n == Len(shown)
           s == Sorted(seq)
<1>1. /\ n \in Nat /\ Len(events) \in Nat /\ 1..Len(events) \subseteq Seqs
      /\ \A i \in 1..n : shown[i] \in 1..Len(events) /\ shown[i] \in Nat /\ shown[i] # seq
      /\ \A i, j \in 1..n : i < j => shown[i] < shown[j]
    BY SequenceTypes, LogSeqs DEF IInv, PageInOrder
<1>2. /\ DOMAIN s = 1..(n + 1) /\ seq \in Nat
      /\ s = [i \in 1..(n + 1) |-> s[i]]
    BY <1>1 DEF Sorted
<1>3. \A i \in 1..(n + 1) :
        \/ i \in 1..n /\ shown[i] < seq /\ s[i] = shown[i]
        \/ (i \in 1..n => shown[i] > seq) /\ (i = 1 \/ shown[i - 1] < seq) /\ s[i] = seq
        \/ (i \in 1..n => shown[i] > seq) /\ i - 1 \in 1..n /\ shown[i - 1] > seq /\ s[i] = shown[i - 1]
    BY <1>1 DEF Sorted
<1> HIDE DEF s, n
<1>4. \A i \in 1..(n + 1) : s[i] \in 1..Len(events)
    BY <1>1, <1>3
<1>5. s \in Seq(Seqs) /\ Len(s) = n + 1
    <2>1. \A i \in 1..(n + 1) : s[i] \in Seqs
        BY <1>1, <1>4
    <2>2. s \in [1..(n + 1) -> Seqs] /\ n + 1 \in Nat
        BY <1>1, <1>2, <2>1
    <2> QED
        BY <2>2, ElementsOfFunction
<1>6. ASSUME NEW i \in 1..(n + 1), NEW j \in 1..(n + 1), i < j PROVE s[i] < s[j]
    <2>1. CASE i \in 1..n /\ shown[i] < seq /\ s[i] = shown[i]
        BY <1>1, <1>2, <1>3, <1>6, <2>1
    <2>2. ASSUME i \in 1..n => shown[i] > seq, s[i] = seq \/ (i - 1 \in 1..n /\ s[i] = shown[i - 1])
          PROVE  s[i] < s[j]
        <3>1. i \in 1..n /\ shown[i] > seq /\ i <= j - 1 /\ j - 1 \in 1..n
            BY <1>1, <1>6, <2>2
        <3>2. shown[i] <= shown[j - 1]
            BY <1>1, <3>1
        <3>3. j \in 1..n => shown[i] < shown[j]
            BY <1>1, <1>6, <3>1
        <3>4. s[j] = shown[j - 1]
            <4>1. shown[j - 1] > seq /\ (j \in 1..n => shown[j] > seq)
                BY <1>1, <1>2, <3>1, <3>2, <3>3
            <4>2. /\ ~(j \in 1..n /\ shown[j] < seq)
                  /\ ~(j = 1 \/ shown[j - 1] < seq)
                BY <1>1, <1>2, <1>6, <3>1, <4>1
            <4> QED
                BY <1>3, <4>2
        <3>5. s[i] < shown[i]
            BY <1>1, <1>6, <2>2, <3>1
        <3> QED
            BY <1>1, <1>4, <3>1, <3>2, <3>4, <3>5
    <2> QED
        BY <1>3, <2>1, <2>2
<1>7. \A i \in 1..(n + 1) : s[i] \in Elements(shown) \cup {seq}
    BY <1>3 DEF Elements, n
<1>8. ASSUME NEW j \in 1..n PROVE \E i \in 1..(n + 1) : s[i] = shown[j]
    <2>1. j \in 1..(n + 1) /\ j + 1 \in 1..(n + 1) /\ j + 1 # 1 /\ (j + 1) - 1 = j /\ j < j + 1
        BY <1>1
    <2>2. CASE shown[j] < seq
        <3>1. s[j] = shown[j]
            BY <1>1, <1>2, <1>3, <2>1, <2>2
        <3> QED
            BY <2>1, <3>1
    <2>3. CASE ~(shown[j] < seq)
        <3>1. shown[j] > seq /\ ~(shown[j] < seq)
            BY <1>1, <1>2, <2>3
        <3>2. j + 1 \in 1..n => shown[j] < shown[j + 1]
            BY <1>1, <2>1
        <3>3. ~(j + 1 \in 1..n /\ shown[j + 1] < seq)
            BY <1>1, <1>2, <3>1, <3>2
        <3>4. s[j + 1] = shown[j]
            BY <1>3, <2>1, <3>1, <3>3
        <3> QED
            BY <2>1, <3>4
    <2> QED
        BY <2>2, <2>3
<1>9. \E i \in 1..(n + 1) : s[i] = seq
    <2> DEFINE Later == {i \in 1..(n + 1) : i \in 1..n => shown[i] > seq}
    <2>1. Later \in SUBSET Nat /\ n + 1 \in Later
        BY <1>1
    <2>2. PICK m \in Later : \A k \in Later : m <= k
        BY <2>1, LeastElement
    <2>3. CASE m = 1
        BY <1>1, <1>2, <1>3, <2>2, <2>3
    <2>4. CASE m # 1
        <3>1. m - 1 \in 1..n /\ m - 1 \notin Later
            BY <1>1, <2>2, <2>4
        <3>2. shown[m - 1] < seq
            BY <1>1, <1>2, <3>1
        <3>3. s[m] = seq
            <4>1. m \in 1..(n + 1) /\ (m \in 1..n => shown[m] > seq)
                BY <2>2
            <4>2. /\ ~(m \in 1..n /\ shown[m] < seq)
                  /\ ~(shown[m - 1] > seq)
                BY <1>1, <1>2, <3>1, <3>2, <4>1
            <4> QED
                BY <1>3, <4>1, <4>2
        <3> QED
            BY <2>2, <3>3
    <2> QED
        BY <2>3, <2>4
<1>10. Elements(s) = Elements(shown) \cup {seq}
    BY <1>5, <1>7, <1>8, <1>9 DEF Elements, n
<1> QED
    BY <1>4, <1>5, <1>6, <1>10 DEF s, n

\* What applying an event of the log does to the panel.
LEMMA ApplyFacts ==
    ASSUME IInv, NEW seq \in 1..Len(events), ApplyEvent(seq), UNCHANGED <<row, events>>
    PROVE  /\ shown' \in Seq(Seqs) /\ panel' \in Active \cup Terminal
           /\ \A i \in 1..Len(shown') : shown'[i] \in 1..Len(events)
           /\ \A i, j \in 1..Len(shown') : i < j => shown'[i] < shown'[j]
           /\ panel' \in Terminal => panel' = row
           /\ panel' = "running" => row # "queued"
           /\ Elements(shown') = Elements(shown) \cup {seq}
<1>1. /\ shown \in Seq(Seqs) /\ Len(shown) \in Nat /\ panel \in Active \cup Terminal
      /\ Len(events) \in Nat /\ seq \in Nat
    BY SequenceTypes, LogSeqs DEF IInv, TypeOK
<1>2. /\ \A i \in 1..Len(shown) : shown[i] \in 1..Len(events)
      /\ \A i, j \in 1..Len(shown) : i < j => shown[i] < shown[j]
      /\ panel \in Terminal => panel = row
      /\ panel = "running" => row # "queued"
    BY DEF IInv, PageInOrder
<1>3. CASE \E i \in 1..Len(shown) : shown[i] = seq
    <2>1. UNCHANGED <<shown, panel>>
        BY <1>3 DEF ApplyEvent
    <2>2. seq \in Elements(shown)
        BY <1>3 DEF Elements
    <2> QED
        BY <1>1, <1>2, <2>1, <2>2
<1>4. CASE ~\E i \in 1..Len(shown) : shown[i] = seq
    <2>1. /\ shown' = Sorted(seq)
          /\ panel' = IF events[seq] \in DOMAIN StatusByType THEN StatusByType[events[seq]] ELSE panel
        BY <1>4 DEF ApplyEvent
    <2> DEFINE s == Sorted(seq)
    <2>2. /\ s \in Seq(Seqs) /\ Len(s) = Len(shown) + 1
          /\ \A i \in 1..Len(s) : s[i] \in 1..Len(events)
          /\ \A i, j \in 1..Len(s) : i < j => s[i] < s[j]
          /\ Elements(s) = Elements(shown) \cup {seq}
        BY <1>4, SortedInOrder
    <2> HIDE DEF s
    <2>3. shown' = s
        BY <2>1 DEF s
    <2>4. /\ panel' \in Active \cup Terminal
          /\ panel' \in Terminal => panel' = row
          /\ panel' = "running" => row # "queued"
        <3>1. /\ events[seq] \in Terminal => events[seq] = row
              /\ events[seq] = "started" => row # "queued"
            BY DEF IInv, LogTellsRow
        <3>2. CASE events[seq] \in Terminal
            <4>1. panel' = events[seq]
                BY <2>1, <3>2 DEF StatusByType, Terminal
            <4> QED
                BY <3>1, <3>2, <4>1 DEF Terminal
        <3>3. CASE events[seq] = "started"
            <4>1. panel' = "running"
                BY <2>1, <3>3 DEF StatusByType, Terminal
            <4> QED
                BY <3>1, <3>3, <4>1 DEF Active, Terminal
        <3>4. CASE events[seq] \notin Terminal \cup {"started"}
            <4>1. panel' = panel
                BY <2>1, <3>4 DEF StatusByType
            <4> QED
                BY <1>1, <1>2, <4>1
        <3> QED
            BY <3>2, <3>3, <3>4
    <2> QED
        BY <2>2, <2>3, <2>4
<1> QED
    BY <1>3, <1>4

LEMMA ReceiveKeepsIInv ==
    ASSUME IInv, ReceiveEvent
    PROVE  IInv'
<1> DEFINE seq == Head(outbox)
           t == Tail(outbox)
           n == Len(outbox)
<1>1. /\ source = "connecting" /\ outbox # <<>> /\ ApplyEvent(seq) /\ lastEventId' = seq
      /\ source' \in {"connecting", "closed"} /\ outbox' = t
      /\ UNCHANGED <<workerVars, serverVars, redisVars, page, faultVars>>
    BY DEF ReceiveEvent
<1>2. /\ UNCHANGED <<row, events, worker, unpublished, server, cursor, buffer, replay, link, wire,
                    page, drops, faults, lost>>
      /\ Published' = Published
    BY <1>1 DEF workerVars, serverVars, redisVars, faultVars, Published
<1>3. /\ outbox \in Seq(Seqs) /\ n \in Nat \ {0} /\ Len(events) \in Nat
      /\ cursor \in 0..Len(events) /\ lastEventId \in 0..Len(events)
      /\ 0..Len(events) \subseteq Seqs \cup {0}
    BY <1>1, SequenceTypes, LogSeqs DEF IInv, CursorsInOrder
<1>4. /\ \A i \in 1..n : outbox[i] \in (lastEventId + 1)..cursor
      /\ \A i, j \in 1..n : i < j => outbox[i] < outbox[j]
    BY DEF IInv, CursorsInOrder
<1>5. /\ t \in Seq(Seqs) /\ Len(t) = n - 1 /\ seq = outbox[1]
      /\ \A i \in 1..Len(t) : t[i] = outbox[i + 1] /\ i + 1 \in 1..n
      /\ Elements(outbox) = {seq} \cup Elements(t)
    <2>1. Elements(outbox) = {seq} \cup Elements(t)
        BY <1>1, <1>3, ElementsOfTail
    <2> QED
        BY <1>3, <2>1
<1>6. 1 \in 1..n
    BY <1>3
<1> HIDE DEF seq, t, n
<1>7. seq \in (lastEventId + 1)..cursor /\ seq \in 1..Len(events)
    <2>1. seq \in (lastEventId + 1)..cursor
        BY <1>4, <1>5, <1>6
    <2> QED
        BY <1>3, <2>1
<1>8. /\ \A i \in 1..Len(t) : t[i] \in (seq + 1)..cursor
      /\ \A i, j \in 1..Len(t) : i < j => t[i] < t[j]
    <2>1. ASSUME NEW i \in 1..Len(t) PROVE t[i] \in (seq + 1)..cursor
        <3>1. i + 1 \in 1..n /\ t[i] = outbox[i + 1] /\ 1 < i + 1
            BY <1>5
        <3>2. outbox[1] < outbox[i + 1] /\ outbox[i + 1] \in (lastEventId + 1)..cursor
            BY <1>4, <1>6, <3>1
        <3> QED
            BY <1>3, <1>5, <1>7, <3>1, <3>2
    <2>2. ASSUME NEW i \in 1..Len(t), NEW j \in 1..Len(t), i < j PROVE t[i] < t[j]
        <3>1. /\ i + 1 \in 1..n /\ t[i] = outbox[i + 1]
              /\ j + 1 \in 1..n /\ t[j] = outbox[j + 1] /\ i + 1 < j + 1
            BY <1>5, <2>2
        <3> QED
            BY <1>4, <3>1
    <2> QED
        BY <2>1, <2>2
<1>9. server \in {"live", "closed"}
    BY <1>1 DEF IInv, TypeOK, PhasesOfRoute
<1>10. /\ shown' \in Seq(Seqs) /\ panel' \in Active \cup Terminal
       /\ \A i \in 1..Len(shown') : shown'[i] \in 1..Len(events)
       /\ \A i, j \in 1..Len(shown') : i < j => shown'[i] < shown'[j]
       /\ panel' \in Terminal => panel' = row
       /\ panel' = "running" => row # "queued"
       /\ Elements(shown') = Elements(shown) \cup {seq}
    BY <1>1, <1>2, <1>7, ApplyFacts
<1>11. TypeOK'
    <2>1. seq \in Seqs \cup {0}
        BY <1>3, <1>7
    <2> QED
        BY <1>1, <1>2, <1>5, <1>10, <2>1 DEF IInv, TypeOK
<1>12. LogTellsRow' /\ MessagesAreOfLog'
    BY <1>2 DEF IInv, LogTellsRow, IsTerminal, MessagesAreOfLog
<1>13. PhasesOfRoute'
    BY <1>1, <1>2, <1>9 DEF IInv, PhasesOfRoute
<1>14. CursorsInOrder'
    <2>1. seq \in 0..Len(events) /\ seq <= cursor
        BY <1>3, <1>7
    <2> QED
        BY <1>1, <1>2, <1>3, <1>8, <2>1 DEF CursorsInOrder
<1>15. PageInOrder'
    BY <1>1, <1>2, <1>10 DEF IInv, PageInOrder
<1>16. NothingSkipped'
    <2>1. /\ \A x \in 1..lastEventId : x \in Elements(shown) \cup lost
          /\ \A i \in 1..Len(shown) :
                shown[i] > lastEventId => \A x \in 1..shown[i] : x \in Elements(shown)
          /\ \A x \in (lastEventId + 1)..cursor : x \in Elements(outbox) \cup lost
        BY <1>9 DEF IInv, NothingSkipped
    <2>2. \A x \in Elements(t) : x > seq /\ ~(x <= seq)
        BY <1>3, <1>7, <1>8 DEF Elements
    <2>3. ASSUME NEW x \in 1..seq PROVE x \in Elements(shown') \cup lost
        <3>1. CASE x <= lastEventId
            <4>1. x \in 1..lastEventId
                BY <1>3, <1>7, <3>1
            <4> QED
                BY <1>10, <2>1, <4>1
        <3>2. CASE ~(x <= lastEventId)
            <4>1. x \in (lastEventId + 1)..cursor /\ x <= seq
                BY <1>3, <1>7, <3>2
            <4> QED
                BY <1>5, <1>10, <2>1, <2>2, <4>1
        <3> QED
            BY <3>1, <3>2
    <2>4. ASSUME NEW i \in 1..Len(shown'), shown'[i] > seq, NEW x \in 1..shown'[i]
          PROVE  x \in Elements(shown')
        <3>1. shown'[i] \in Elements(shown) \cup {seq}
            BY <1>10 DEF Elements
        <3>2. shown'[i] # seq
            BY <1>3, <1>7, <2>4
        <3>3. PICK j \in 1..Len(shown) : shown[j] = shown'[i]
            BY <3>1, <3>2 DEF Elements
        <3>4. shown[j] > lastEventId
            <4>1. shown[j] \in Nat /\ seq \in Nat /\ lastEventId \in Nat /\ lastEventId < seq
                <5>1. shown'[i] \in 1..Len(events)
                    BY <1>10
                <5> QED
                    BY <1>3, <1>7, <3>3, <5>1
            <4> QED
                BY <2>4, <3>3, <4>1
        <3> QED
            BY <1>10, <2>1, <3>3, <3>4
    <2>5. ASSUME NEW x \in (seq + 1)..cursor PROVE x \in Elements(t) \cup lost
        <3>1. x \in (lastEventId + 1)..cursor /\ x # seq
            BY <1>3, <1>7
        <3> QED
            BY <1>5, <2>1, <3>1
    <2>6. server \in {"replaying", "live"} =>
            \A x \in (cursor + Len(replay) + 1)..Published :
                x \in Elements(wire) \cup Elements(buffer) \cup lost
        BY DEF IInv, NothingSkipped
    <2> QED
        BY <1>1, <1>2, <2>3, <2>4, <2>5, <2>6 DEF NothingSkipped
<1> QED
    BY <1>11, <1>12, <1>13, <1>14, <1>15, <1>16 DEF IInv

-----------------------------------------------------------------------------
(* Theorems *)

LEMMA StutterKeepsIInv ==
    ASSUME IInv, UNCHANGED vars
    PROVE  IInv'
<1>1. UNCHANGED <<row, events, worker, unpublished, server, cursor, buffer, replay, link, wire, outbox,
                 page, panel, shown, source, lastEventId, drops, faults, lost>>
    BY DEF vars, workerVars, serverVars, redisVars, panelVars, faultVars
<1>2. TypeOK' /\ LogTellsRow' /\ PageInOrder'
    BY <1>1 DEF IInv, TypeOK, LogTellsRow, IsTerminal, PageInOrder
<1>3. MessagesAreOfLog' /\ CursorsInOrder' /\ PhasesOfRoute' /\ NothingSkipped'
    BY <1>1 DEF IInv, MessagesAreOfLog, CursorsInOrder, PhasesOfRoute, NothingSkipped, Published
<1> QED
    BY <1>2, <1>3 DEF IInv

LEMMA NextKeepsIInv == IInv /\ [Next]_vars => IInv'
<1> SUFFICES ASSUME IInv, [Next]_vars PROVE IInv'
    OBVIOUS
<1>1. CASE WorkerStep \/ PublishUnanswered \/ PublishFails \/ WorkerStops
    BY <1>1, WorkerKeepsIInv
<1>2. CASE RouteStep
    BY <1>2, RouteKeepsIInv
<1>3. CASE PanelStep \/ LoadRun \/ StartFromPanel
    BY <1>3, PageKeepsIInv, ReceiveKeepsIInv DEF PanelStep
<1>4. CASE LoseSubscription \/ RefuseStream \/ DropConnection
    BY <1>4, LoseSubscriptionKeepsIInv, OpenKeepsIInv, DropConnectionKeepsIInv
<1>5. CASE UNCHANGED vars
    BY <1>5, StutterKeepsIInv
<1> QED
    BY <1>1, <1>2, <1>3, <1>4, <1>5 DEF Next

LEMMA SpecIInv == Spec => []IInv
BY InitIInv, NextKeepsIInv, PTL DEF Spec

\* Every variable of the worker, the route, Redis and the panel stays in its type.
THEOREM TypeCorrect == Spec => []TypeOK
<1>1. IInv => TypeOK
    BY DEF IInv
<1> QED
    BY <1>1, SpecIInv, PTL

\* For a log of any length, however often the HTTP connection breaks, publications fail
\* or Redis is interrupted, and wherever the page load falls between the worker's writes,
\* the panel skips only events that were kept from a stream that had read its replay: the
\* subscription before the replay, the live buffer, lastSentSeq and Last-Event-ID leave no
\* gap of their own.
THEOREM PanelSkipsOnlyLost == Spec => []OnlyLostIsSkipped
<1>1. IInv => OnlyLostIsSkipped
    <2> SUFFICES ASSUME IInv, NEW i \in 1..Len(shown), NEW seq \in 1..shown[i]
                 PROVE  seq \in Elements(shown) \cup lost
        BY DEF OnlyLostIsSkipped
    <2>1. lastEventId \in Nat /\ shown[i] \in Nat
        BY SequenceTypes, LogSeqs DEF IInv, PageInOrder
    <2>2. CASE shown[i] > lastEventId
        BY <2>2 DEF IInv, NothingSkipped
    <2>3. CASE ~(shown[i] > lastEventId)
        <3>1. seq \in 1..lastEventId
            BY <2>1, <2>3
        <3> QED
            BY <3>1 DEF IInv, NothingSkipped
    <2> QED
        BY <2>2, <2>3
<1> QED
    BY <1>1, SpecIInv, PTL

\* Whatever Redis loses, applyEvent keeps what the panel shows in the order of the run's
\* log and without duplicates.
THEOREM PanelShowsInOrder == Spec => []ShownInOrder
<1>1. IInv => ShownInOrder
    <2> SUFFICES ASSUME IInv PROVE ShownInOrder
        OBVIOUS
    <2>1. Len(shown) \in Nat
        BY SequenceTypes DEF IInv
    <2> QED
        BY <2>1 DEF IInv, PageInOrder, ShownInOrder
<1> QED
    BY <1>1, SpecIInv, PTL

\* The panel shows neither an outcome nor a start the run's row does not have: an event is
\* persisted in the transaction that changes the row or after it, and the page takes its
\* status from the row.
THEOREM PanelIsNeverAhead == Spec => []PanelNeverAhead
<1>1. IInv => PanelNeverAhead
    BY DEF IInv, PageInOrder, PanelNeverAhead
<1> QED
    BY <1>1, SpecIInv, PTL

-----------------------------------------------------------------------------
(* The run the panel follows is a run of RunLog, as those of RunBackbone are.  *)

LEMMA WorkerStepsOfRun == WorkerStep => Run!Next \/ UNCHANGED Run!runVars
<1>1. CASE ClaimRun
    BY <1>1 DEF ClaimRun, Run!Next
<1>2. CASE EmitProgress
    BY <1>2 DEF EmitProgress, Run!Next
<1>3. CASE SaveSuccess
    BY <1>3 DEF SaveSuccess, Run!Next
<1>4. CASE FinalizeStatus
    BY <1>4 DEF FinalizeStatus, Run!Next
<1>5. CASE FinalizeEmit
    BY <1>5 DEF FinalizeEmit, Run!Next
<1>6. CASE Publish
    BY <1>6 DEF Publish, Run!runVars
<1> QED
    BY <1>1, <1>2, <1>3, <1>4, <1>5, <1>6 DEF WorkerStep

LEMMA OthersKeepRun ==
    ASSUME \/ RouteStep \/ PanelStep \/ LoadRun \/ StartFromPanel
           \/ PublishUnanswered \/ PublishFails \/ WorkerStops
           \/ LoseSubscription \/ RefuseStream \/ DropConnection
    PROVE  UNCHANGED Run!runVars
<1>1. CASE RouteStep
    BY <1>1 DEF RouteStep, OpenStream, Subscribe, ReadEvents, ReadAt, ReplayEvents, OnMessage,
        Resubscribe, workerVars, Run!runVars
<1>2. CASE PanelStep \/ LoadRun \/ StartFromPanel
    BY <1>2 DEF PanelStep, LoadEvents, Connect, ReceiveEvent, LoadRun, StartFromPanel,
        workerVars, Run!runVars
<1>3. CASE PublishUnanswered \/ PublishFails \/ WorkerStops
    BY <1>3 DEF PublishUnanswered, PublishFails, WorkerStops, AbandonPublications, workerVars,
        Run!runVars
<1>4. CASE LoseSubscription \/ RefuseStream \/ DropConnection
    BY <1>4 DEF LoseSubscription, RefuseStream, DropConnection, workerVars, Run!runVars
<1> QED
    BY <1>1, <1>2, <1>3, <1>4

\* Neither the route nor Redis nor a panel touches the run they show: with
\* BackboneImplementsRunLog, what holds of a panel that follows any run of RunLog holds of
\* one that follows a run of the backbone.
THEOREM StreamFollowsARunLog == Spec => Run!Spec
<1>1. Init => Run!Init
    BY DEF Init, Run!Init
<1>2. [Next]_vars => [Run!Next]_(Run!runVars)
    <2>1. CASE UNCHANGED vars
        BY <2>1 DEF vars, workerVars, Run!runVars
    <2> QED
        BY <2>1, WorkerStepsOfRun, OthersKeepRun DEF Next
<1> QED
    BY <1>1, <1>2, PTL DEF Spec, Run!Spec
===============================================================================

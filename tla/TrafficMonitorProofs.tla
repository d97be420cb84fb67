-------------------------- MODULE TrafficMonitorProofs --------------------------
(***************************************************************************)
(* Proofs about TrafficMonitor, for any amount of traffic and any number   *)
(* of reports on their way.                                                *)
(***************************************************************************)
EXTENDS TrafficMonitor, TLAPS

\* The counts of this session that may still be charged: the counter, the
\* reports on their way and what the thread took over.
Counts == {counted, current} \cup {inbox[i] : i \in 1 .. Len(inbox)}

\* What a session may still charge was not charged before: once by its end,
\* and once more if the system was about to shut down.
ChargeRight ==
  /\ monitor => Len(persists) <= 1 /\ \A n \in Counts : n <= total
  /\ profile <= 2 * total /\ (~again => profile <= total)
  /\ monitor /\ persists = <<>> =>
       \A n \in Counts : /\ profile + 2 * n <= 2 * total
                         /\ ~again => profile + n <= total
  /\ monitor /\ persists # <<>> => \A n \in Counts : profile + n <= 2 * total

\* The counts on their way grow from the one that was shown to the counter.
OrderRight ==
  monitor /\ ~restarted =>
    /\ rate >= 0
    /\ out <= current /\ current <= counted
    /\ \A i \in 1 .. Len(inbox) : current <= inbox[i] /\ inbox[i] <= counted
    /\ \A i, j \in 1 .. Len(inbox) : i <= j => inbox[i] <= inbox[j]

\* What is copied and not overtaken is what the thread holds.
ShownRight ==
  /\ UpdateShown
  /\ monitor /\ main = "copied" /\ ~late => out = current

IInv == TypeOK /\ ChargeRight /\ OrderRight /\ ShownRight

-----------------------------------------------------------------------------
\* Nothing is counted, charged or shown at first.
LEMMA InitIInv == Init => IInv
<1> SUFFICES ASSUME Init PROVE IInv
  OBVIOUS
<1> USE TrafficAssumption DEF Init
<1>1. TypeOK
  <2>1. {monitor, dirty, restarted, again, late} \subseteq BOOLEAN
    OBVIOUS
  <2>2. /\ {counted, current, out, total} \subseteq Bytes
        /\ rate \in -MaxBytes .. MaxBytes /\ profile \in {Gone} \cup 0 .. 2 * MaxBytes
    BY DEF Bytes
  <2>3. /\ inbox \in Seq(Bytes) /\ Len(inbox) <= MaxReports
        /\ persists \in Seq(Bytes) /\ Len(persists) <= 2
    OBVIOUS
  <2> QED
    BY <2>1, <2>2, <2>3 DEF TypeOK
<1>2. ChargeRight /\ OrderRight /\ ShownRight
  BY DEF ChargeRight, OrderRight, ShownRight, UpdateShown
<1> QED
  BY <1>1, <1>2 DEF IInv

\* The flags stay Boolean.
Flags == {monitor, dirty, restarted, again, late} \subseteq BOOLEAN
LEMMA StepFlags ==
  ASSUME Flags, [Next]_vars
  PROVE  Flags'
<1> USE DEF Flags, historyVars
<1>1. CASE Transfer \/ Report \/ DeleteProfile
  BY <1>1 DEF Transfer, Report, DeleteProfile
<1>2. CASE ProcessRestarts
  BY <1>2 DEF ProcessRestarts
<1>3. CASE acceptInternal
  BY <1>3 DEF acceptInternal
<1>4. CASE MarkDirty
  BY <1>4 DEF MarkDirty
<1>5. CASE requestUpdate
  BY <1>5 DEF requestUpdate
<1>6. CASE ClearDirty
  BY <1>6 DEF ClearDirty
<1>7. CASE Begin
  BY <1>7 DEF Begin, Fresh
<1>8. CASE Shutdown \/ Stop
  BY <1>8 DEF Shutdown, Stop, persistStats
<1>9. CASE UNCHANGED vars
  BY <1>9 DEF vars
<1> QED
  BY <1>1, <1>2, <1>3, <1>4, <1>5, <1>6, <1>7, <1>8, <1>9 DEF Next

\* The head of the reports is one of the counts; taking it leaves the others.
LEMMA TakeReport ==
  ASSUME TypeOK, inbox # <<>>
  PROVE  /\ Len(inbox) \in Nat \ {0} /\ Head(inbox) = inbox[1] /\ inbox[1] \in Bytes
         /\ Tail(inbox) \in Seq(Bytes) /\ Len(Tail(inbox)) = Len(inbox) - 1
         /\ \A i \in 1 .. Len(Tail(inbox)) :
              Tail(inbox)[i] = inbox[i + 1] /\ inbox[i + 1] \in Bytes
BY DEF TypeOK

\* A report goes behind those on their way.
LEMMA AddReport ==
  ASSUME TypeOK, NEW n \in Bytes
  PROVE  /\ Append(inbox, n) \in Seq(Bytes) /\ Len(Append(inbox, n)) = Len(inbox) + 1
         /\ \A i \in 1 .. Len(inbox) :
              Append(inbox, n)[i] = inbox[i] /\ inbox[i] \in Bytes
         /\ Append(inbox, n)[Len(inbox) + 1] = n
         /\ Len(inbox) \in Nat
BY DEF TypeOK

\* The counts are numbers of bytes.
LEMMA CountsBytes == TypeOK => Counts \subseteq Bytes
BY DEF TypeOK, Counts

\* What is persisted is counted.
LEMMA AddPersisted ==
  ASSUME TypeOK
  PROVE  /\ Append(persists, current) \in Seq(Bytes)
         /\ Len(Append(persists, current)) = Len(persists) + 1
         /\ Append(persists, current) # <<>>
         /\ Len(persists) \in Nat /\ (persists = <<>> <=> Len(persists) = 0)
BY DEF TypeOK

\* The counts after a step: the counter grows with the traffic, a restart makes
\* it zero, and all others move towards the monitor.
LEMMA StepCounts ==
  ASSUME TypeOK, Next, monitor, monitor'
  PROVE  /\ Counts' \subseteq Counts \cup {0, counted + 1}
         /\ counted + 1 \in Counts' =>
              \/ total' = total + 1 /\ profile' = profile
              \/ counted + 1 \in Counts
<1> USE DEF historyVars
<1>1. CASE Transfer
  BY <1>1 DEF Transfer, Counts
<1>2. CASE Report
  <2>1. counted \in Bytes
    BY DEF TypeOK
  <2> QED
    BY <1>2, <2>1, AddReport DEF Report, Counts
<1>3. CASE ProcessRestarts
  BY <1>3 DEF ProcessRestarts, Counts, TypeOK, Bytes
<1>4. CASE acceptInternal
  BY <1>4, TakeReport DEF acceptInternal, Counts
<1>5. CASE MarkDirty \/ requestUpdate \/ ClearDirty \/ Shutdown \/ DeleteProfile
  BY <1>5 DEF MarkDirty, requestUpdate, ClearDirty, Shutdown, DeleteProfile, Counts
<1> QED
  BY <1>1, <1>2, <1>3, <1>4, <1>5 DEF Next, Begin, Stop

\* What is charged, and what may still be, keeps within the traffic.
LEMMA StepCharge ==
  ASSUME TypeOK, ChargeRight, [Next]_vars
  PROVE  ChargeRight'
<1> USE DEF historyVars
<1>1. /\ profile \in Int /\ profile >= -1 /\ total \in Nat /\ counted \in Nat
      /\ current \in Nat /\ Counts \subseteq Nat
  BY CountsBytes, TrafficAssumption DEF TypeOK, Bytes, Gone
<1>2. CASE Transfer \/ Report \/ ProcessRestarts \/ acceptInternal \/ MarkDirty
           \/ requestUpdate \/ ClearDirty \/ DeleteProfile
  <2>1. /\ monitor' = monitor /\ persists' = persists /\ again' = again
        /\ total' = total \/ total' = total + 1
        /\ profile' = profile \/ profile' = -1
    BY <1>2 DEF Transfer, Report, ProcessRestarts, acceptInternal, MarkDirty,
                requestUpdate, ClearDirty, DeleteProfile, Gone
  <2>2. CASE monitor
    <3>1. Next
      BY <1>2 DEF Next
    <3>2. \A n \in Counts' :
             n \in Counts \/ n = 0 \/ (n = counted + 1 /\ total' = total + 1)
      BY <2>1, <2>2, <3>1, StepCounts
    <3>3. counted \in Counts
      BY DEF Counts
    <3>4. ASSUME NEW n \in Counts'
          PROVE  /\ n \in Int /\ n <= total'
                 /\ persists = <<>> => /\ profile' + 2 * n <= 2 * total'
                                       /\ ~again => profile' + n <= total'
                 /\ persists # <<>> => profile' + n <= 2 * total'
      <4>1. CASE n \in Counts
        BY <1>1, <2>1, <2>2, <4>1 DEF ChargeRight
      <4>2. CASE n = 0
        BY <1>1, <2>1, <2>2, <4>2 DEF ChargeRight
      <4>3. CASE n = counted + 1 /\ total' = total + 1
        BY <1>1, <2>1, <2>2, <3>3, <4>3 DEF ChargeRight
      <4> QED
        BY <3>2, <4>1, <4>2, <4>3
    <3> QED
      BY <1>1, <2>1, <2>2, <3>4 DEF ChargeRight
  <2>3. CASE ~monitor
    BY <1>1, <2>1, <2>3 DEF ChargeRight
  <2> QED
    BY <2>2, <2>3
<1>3. CASE Begin
  BY <1>1, <1>3 DEF Begin, Fresh, ChargeRight, Counts
<1>4. CASE Shutdown
  <2>1. Counts' = Counts /\ current \in Counts
    BY <1>4 DEF Shutdown, Counts
  <2>2. /\ monitor /\ persists = <<>> /\ total' = total /\ (again' <=> again)
        /\ profile' = profile + current \/ (profile' = profile /\ profile = -1)
    BY <1>4 DEF Shutdown, persistStats, Gone
  <2>3. Len(persists') <= 1 /\ persists' # <<>>
    BY <1>4, AddPersisted DEF Shutdown
  <2> QED
    BY <1>1, <2>1, <2>2, <2>3 DEF ChargeRight
<1>5. CASE Stop
  <2>1. current \in Counts
    BY DEF Counts
  <2>2. /\ monitor /\ ~monitor' /\ total' = total
        /\ again' <=> (again \/ persists # <<>>)
        /\ profile' = profile + current \/ (profile' = profile /\ profile = -1)
    BY <1>5 DEF Stop, persistStats, Gone
  <2> QED
    BY <1>1, <2>1, <2>2 DEF ChargeRight
<1>6. CASE UNCHANGED vars
  BY <1>6 DEF vars, ChargeRight, Counts
<1> QED
  BY <1>2, <1>3, <1>4, <1>5, <1>6 DEF Next

\* The types of the numbers, the sequences and the places.
LEMMA StepType ==
  ASSUME TypeOK, ChargeRight, [Next]_vars
  PROVE  TypeOK'
<1> USE TrafficAssumption DEF historyVars
<1>1. Flags'
  BY StepFlags DEF Flags, TypeOK
<1>2. ChargeRight'
  BY StepCharge
<1>3. /\ counted \in Bytes /\ current \in Bytes /\ out \in Bytes /\ total \in Bytes
      /\ 0 \in Bytes
  BY DEF TypeOK, Bytes
<1>4. total' \in Bytes /\ counted' \in Bytes
  <2>1. CASE Transfer
    <3>1. counted <= total
      BY <2>1 DEF Transfer, ChargeRight, Counts
    <3> QED
      BY <1>3, <2>1, <3>1 DEF Transfer, Bytes
  <2>2. CASE ~Transfer
    BY <1>3, <2>2 DEF Next, Report, ProcessRestarts, acceptInternal, MarkDirty,
       requestUpdate, ClearDirty, Begin, Fresh, Shutdown, Stop, DeleteProfile, vars
  <2> QED
    BY <2>1, <2>2
<1>5. /\ inbox' \in Seq(Bytes) /\ Len(inbox') <= MaxReports /\ current' \in Bytes
  <2>1. CASE Report
    BY <1>3, <2>1, AddReport DEF Report, TypeOK
  <2>2. CASE acceptInternal
    BY <2>2, TakeReport DEF acceptInternal, TypeOK
  <2>3. CASE Begin
    BY <1>3, <2>3 DEF Begin, Fresh
  <2>4. CASE inbox' = inbox /\ current' = current
    BY <2>4 DEF TypeOK
  <2> QED
    BY <2>1, <2>2, <2>3, <2>4 DEF Next, Transfer, ProcessRestarts, MarkDirty,
       requestUpdate, ClearDirty, Shutdown, Stop, DeleteProfile, vars
<1>6. persists' \in Seq(Bytes) /\ Len(persists') <= 2
  <2>1. CASE Shutdown \/ Stop
    BY <2>1, AddPersisted DEF Shutdown, Stop, ChargeRight
  <2>2. CASE Begin
    BY <2>2 DEF Begin, Fresh
  <2>3. CASE persists' = persists
    BY <2>3 DEF TypeOK
  <2> QED
    BY <2>1, <2>2, <2>3 DEF Next, Transfer, Report, ProcessRestarts, acceptInternal,
       MarkDirty, requestUpdate, ClearDirty, DeleteProfile, vars
<1>7. profile' \in {Gone} \cup 0 .. 2 * MaxBytes
  <2>1. profile' = profile \/ profile' = Gone \/ profile' = profile + current
    BY DEF Next, Transfer, Report, ProcessRestarts, acceptInternal, MarkDirty,
       requestUpdate, ClearDirty, DeleteProfile, vars, Begin, Shutdown, Stop,
       persistStats
  <2>2. profile' = profile + current => profile' = Gone \/ profile' \in Nat
    <3>1. CASE profile = Gone /\ profile' = profile + current
      <4>1. current = 0 \/ current - 1 \in Nat
        BY <1>3 DEF Bytes
      <4> QED
        BY <1>3, <3>1, <4>1 DEF Bytes, Gone
    <3>2. CASE profile # Gone
      BY <1>3, <3>2 DEF TypeOK, Bytes
    <3> QED
      BY <3>1, <3>2
  <2>3. profile' = Gone \/ profile' \in Nat
    BY <2>1, <2>2 DEF TypeOK
  <2>4. profile' <= 2 * total' /\ total' \in Nat /\ total' <= MaxBytes
    BY <1>2, <1>4 DEF ChargeRight, Bytes
  <2> QED
    BY <2>3, <2>4 DEF Gone
<1>8. /\ out' \in Bytes /\ rate' \in -MaxBytes .. MaxBytes
      /\ main' \in {"idle", "copied"}
  <2>1. CASE requestUpdate
    BY <1>3, <2>1 DEF requestUpdate, TypeOK, Bytes
  <2>2. CASE Begin
    BY <1>3, <2>2 DEF Begin, Fresh, TypeOK, Bytes
  <2>3. CASE ~requestUpdate /\ ~Begin
    <3>1. out' = out /\ rate' = rate /\ (main' = main \/ main' = "idle")
      BY <2>3 DEF Next, Transfer, Report, ProcessRestarts, acceptInternal,
         MarkDirty, ClearDirty, DeleteProfile, vars, Shutdown, Stop
    <3> QED
      BY <1>3, <3>1 DEF TypeOK
  <2> QED
    BY <2>1, <2>2, <2>3
<1>9. thread' \in {"accepting", "marking"}
  BY DEF TypeOK, Next, Transfer, Report, ProcessRestarts, acceptInternal, MarkDirty,
     requestUpdate, ClearDirty, DeleteProfile, vars, Begin, Fresh, Shutdown, Stop
<1> QED
  BY <1>1, <1>4, <1>5, <1>6, <1>7, <1>8, <1>9 DEF TypeOK, Flags

\* The thread takes the reports in the order they were made, so what is shown,
\* what was taken over and what is on its way stay in order.
LEMMA StepOrder ==
  ASSUME TypeOK, OrderRight, [Next]_vars
  PROVE  OrderRight'
<1> USE DEF historyVars
<1>1. /\ counted \in Nat /\ current \in Nat /\ out \in Nat
      /\ Len(inbox) \in Nat /\ \A i \in 1 .. Len(inbox) : inbox[i] \in Nat
  <2>1. Bytes \subseteq Nat
    BY TrafficAssumption DEF Bytes
  <2>2. Len(inbox) \in Nat /\ \A i \in 1 .. Len(inbox) : inbox[i] \in Bytes
    BY DEF TypeOK
  <2>3. counted \in Bytes /\ current \in Bytes /\ out \in Bytes
    BY DEF TypeOK
  <2> QED
    BY <2>1, <2>2, <2>3
<1>2. CASE Transfer
  BY <1>1, <1>2 DEF Transfer, OrderRight
<1>3. CASE Report
  <2>1. counted \in Bytes
    BY DEF TypeOK
  <2> QED
    BY <1>1, <1>3, <2>1, AddReport DEF Report, OrderRight
<1>4. CASE acceptInternal
  BY <1>1, <1>4, TakeReport DEF acceptInternal, OrderRight
<1>5. CASE requestUpdate
  BY <1>1, <1>5 DEF requestUpdate, OrderRight
<1>6. CASE Begin
  BY <1>6 DEF Begin, Fresh, OrderRight
<1>7. CASE ProcessRestarts \/ Stop
  BY <1>7 DEF ProcessRestarts, Stop, OrderRight
<1>8. CASE MarkDirty \/ ClearDirty \/ Shutdown \/ DeleteProfile \/ UNCHANGED vars
  BY <1>8 DEF MarkDirty, ClearDirty, Shutdown, DeleteProfile, vars, OrderRight
<1> QED
  BY <1>2, <1>3, <1>4, <1>5, <1>6, <1>7, <1>8 DEF Next

\* A count that is marked is copied before the mark is cleared.
LEMMA StepShown ==
  ASSUME TypeOK, ShownRight, [Next]_vars
  PROVE  ShownRight'
<1> USE DEF ShownRight, UpdateShown, historyVars
<1>1. CASE Transfer \/ Report \/ ProcessRestarts \/ Shutdown \/ Stop \/ DeleteProfile
  BY <1>1 DEF Transfer, Report, ProcessRestarts, Shutdown, Stop, DeleteProfile
<1>2. CASE acceptInternal
  BY <1>2 DEF acceptInternal, TypeOK
<1>3. CASE MarkDirty
  BY <1>3 DEF MarkDirty, TypeOK
<1>4. CASE requestUpdate
  BY <1>4 DEF requestUpdate, TypeOK
<1>5. CASE ClearDirty
  BY <1>5 DEF ClearDirty, TypeOK
<1>6. CASE Begin
  BY <1>6 DEF Begin, Fresh
<1>7. CASE UNCHANGED vars
  BY <1>7 DEF vars
<1> QED
  BY <1>1, <1>2, <1>3, <1>4, <1>5, <1>6, <1>7 DEF Next

-----------------------------------------------------------------------------
\* The invariant holds in every state.
LEMMA Invariant == Spec => []IInv
<1>1. IInv /\ [Next]_vars => IInv'
  BY StepType, StepCharge, StepOrder, StepShown DEF IInv
<1> QED
  BY <1>1, InitIInv, PTL DEF Spec

\* The fields of the monitor keep their types, for any amount of traffic.
THEOREM TypeCorrect == Spec => []TypeOK
<1>1. IInv => TypeOK
  BY DEF IInv
<1> QED
  BY <1>1, Invariant, PTL

\* persistStats charges no byte twice as long as a monitor persists once.
THEOREM ChargedOnce == Spec => []CountedOnce
<1>1. IInv => CountedOnce
  BY DEF IInv, ChargeRight, CountedOnce
<1> QED
  BY <1>1, Invariant, PTL

\* requestUpdate computes no negative rate while ss-local is not restarted.
THEOREM RateIsNonNegative == Spec => []RateNonNegative
<1>1. IInv => RateNonNegative
  BY DEF IInv, OrderRight, RateNonNegative
<1> QED
  BY <1>1, Invariant, PTL

\* Every count is shown, but one that came between the copy and the clearing
\* of dirty in requestUpdate.
THEOREM UpdateIsShown == Spec => []UpdateShown
<1>1. IInv => UpdateShown
  BY DEF IInv, ShownRight
<1> QED
  BY <1>1, Invariant, PTL

=============================================================================
